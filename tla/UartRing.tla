------------------------------ MODULE UartRing ------------------------------
(***************************************************************************)
(* The firmware's ring of received characters (uart.c): uart_buffer,       *)
(* uart_buf_idx and uart_buf_len as one record.  Both operations hold the  *)
(* ring's mutex throughout.                                                *)
(***************************************************************************)
EXTENDS Integers, Sequences

CONSTANTS
    UART_BUFFER_SIZE,
    NoChar          \* 0xff

ASSUME UartAssumption == UART_BUFFER_SIZE \in Nat \ {0}

EmptyUart == [buffer |-> [i \in 0 .. UART_BUFFER_SIZE - 1 |-> NoChar], idx |-> 0, len |-> 0]

\* The character, or 0xff.
uart_get_buffered(r) == IF r.len > 0 THEN r.buffer[r.idx] ELSE NoChar

\* The ring afterwards.
uart_after_get(r) ==
    IF r.len > 0
    THEN [r EXCEPT !.idx = (@ + 1) % UART_BUFFER_SIZE, !.len = @ - 1]
    ELSE r

uart_buffer_write_NoAdvance(r, c) ==
    LET len == IF r.len < UART_BUFFER_SIZE THEN r.len + 1 ELSE r.len
    IN  [buffer |-> [r.buffer EXCEPT ![(r.idx + len - 1) % UART_BUFFER_SIZE] = c],
         idx |-> r.idx, len |-> len]

uart_buffer_write(r, c) ==
    LET full == r.len >= UART_BUFFER_SIZE
        idx == IF full THEN (r.idx + 1) % UART_BUFFER_SIZE ELSE r.idx
        len == IF full THEN r.len ELSE r.len + 1
    IN  [buffer |-> [r.buffer EXCEPT ![(idx + len - 1) % UART_BUFFER_SIZE] = c],
         idx |-> idx, len |-> len]

\* The characters held, the oldest first.
Characters(r) == [i \in 1 .. r.len |-> r.buffer[(r.idx + i - 1) % UART_BUFFER_SIZE]]
=============================================================================
