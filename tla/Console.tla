------------------------------ MODULE Console ------------------------------
(***************************************************************************)
(* From the keyboard to a command, all on hart 0: the UART, the firmware's *)
(* interrupt handler and ring (uart.c), and the console's get_command      *)
(* (console.c), which waits with wfi.                                      *)
(*                                                                         *)
(* The UART's interrupt is a machine mode one: it is taken between any two *)
(* steps of the console, except while the console's own sbi_getchar is in  *)
(* machine mode.                                                           *)
(***************************************************************************)
EXTENDS UartRing, SequencesExt

CONSTANTS
    CONSOLE_BUFFER_SIZE,
    Printable,      \* characters with no meaning to the console
    Prompt,         \* "OS> ", as one character
    MaxTyped        \* bound: the characters the user types

CR == "CR"
BS == "BS"            \* backspace, and 127
Chars == Printable \cup {CR, BS}

ASSUME ConsoleAssumption ==
    /\ CONSOLE_BUFFER_SIZE \in Nat \ {0}
    /\ MaxTyped \in Nat
    /\ {NoChar, Prompt} \cap Chars = {} /\ NoChar # Prompt

VARIABLES
    fifo,           \* the UART's receive buffer
    in_irq,         \* hart 0 is in uart_handle_irq
    uart,           \* the ring
    pc,             \* the console on hart 0
    c,              \* get_command's c
    cb,             \* the command: cb->buffer up to cb->idx
    screen,         \* the line the user sees
    typed, seen,    \* ghosts: characters received, characters sbi_getchar returned
    overran, overlong   \* ghosts: the ring has overwritten one, cb has refused one

uart_vars == <<fifo, in_irq, uart, typed, overran>>
console_vars == <<pc, c, cb, screen, seen, overlong>>
vars == <<uart_vars, console_vars>>

Init ==
    /\ fifo = <<>>
    /\ in_irq = FALSE
    /\ uart = EmptyUart
    /\ pc = "clear"
    /\ c = NoChar
    /\ cb = <<>>
    /\ screen = <<>>
    /\ typed = <<>>
    /\ seen = <<>>
    /\ overran = FALSE
    /\ overlong = FALSE

-----------------------------------------------------------------------------
(* The UART and uart_handle_irq. *)

(* An operator X_<what> is X with a plausible slip, for a property to notice. *)

\* The wire carries any character, 0xff included.
Type(x) ==
    /\ Len(typed) < MaxTyped
    /\ typed' = Append(typed, x)
    /\ fifo' = Append(fifo, x)
    /\ UNCHANGED <<in_irq, uart, overran, console_vars>>

\* An interrupt ends a wfi.
Woken == pc' = IF pc = "wfi" THEN "getchar" ELSE pc

\* 0xff when there is nothing to read, and when 0xff was received.
uart_get == IF fifo = <<>> THEN NoChar ELSE Head(fifo)

IrqEnter ==
    /\ ~in_irq /\ fifo # <<>>
    /\ in_irq' = TRUE
    /\ Woken
    /\ UNCHANGED <<fifo, uart, typed, overran, c, cb, screen, seen, overlong>>

IrqRead ==
    /\ in_irq /\ uart_get # NoChar
    /\ fifo' = Tail(fifo)
    /\ uart' = uart_buffer_write(uart, uart_get)
    /\ overran' = (overran \/ uart.len = UART_BUFFER_SIZE)
    /\ UNCHANGED <<in_irq, typed, console_vars>>

IrqExit_KeepsMark ==
    /\ in_irq /\ uart_get = NoChar
    /\ IF fifo = <<>> THEN UNCHANGED <<fifo, uart>>
       ELSE fifo' = Tail(fifo) /\ uart' = uart_buffer_write(uart, uart_get)
    /\ in_irq' = FALSE
    /\ UNCHANGED <<typed, overran, console_vars>>

\* A received 0xff is discarded; what follows it raises the interrupt again.
IrqExit ==
    /\ in_irq /\ uart_get = NoChar
    /\ fifo' = IF fifo = <<>> THEN fifo ELSE Tail(fifo)
    /\ in_irq' = FALSE
    /\ UNCHANGED <<uart, typed, overran, console_vars>>

\* Any other interrupt hart 0 takes, a virtio device's: all it does here is end a wfi.
OtherIrq ==
    /\ ~in_irq /\ pc = "wfi"
    /\ Woken
    /\ UNCHANGED <<uart_vars, c, cb, screen, seen, overlong>>

-----------------------------------------------------------------------------
(* get_command. *)

At(x) == ~in_irq /\ pc = x

\* run_console's prompt, and clear_buffer.
ClearBuffer ==
    /\ At("clear")
    /\ cb' = <<>>
    /\ screen' = <<Prompt>>
    /\ overlong' = FALSE
    /\ pc' = "getchar"
    /\ UNCHANGED <<uart_vars, c, seen>>

\* blocking_getchar: sbi_getchar.
GetChar ==
    /\ At("getchar")
    /\ c' = uart_get_buffered(uart)
    /\ uart' = uart_after_get(uart)
    /\ seen' = IF uart.len > 0 THEN Append(seen, c') ELSE seen
    /\ pc' = IF c' = NoChar THEN "to_wfi" ELSE "handle_char"
    /\ UNCHANGED <<fifo, in_irq, typed, overran, cb, screen, overlong>>

\* blocking_getchar: wfi sleeps until the next interrupt.
Wfi ==
    /\ At("to_wfi")
    /\ pc' = "wfi"
    /\ UNCHANGED <<uart_vars, c, cb, screen, seen, overlong>>

\* output_char: a backspace takes the last character off the line, the prompt's too.
output_char(line) ==
    CASE c = CR -> line
      [] c = BS -> IF line = <<>> THEN line ELSE Front(line)
      [] OTHER -> Append(line, c)

pop_buffer_KeepsFirst == IF Len(cb) <= 1 THEN cb ELSE Front(cb)

pop_buffer == IF Len(cb) > 0 THEN Front(cb) ELSE cb

push_buffer_NoLimit == Append(cb, c)

push_buffer == IF Len(cb) < CONSOLE_BUFFER_SIZE THEN Append(cb, c) ELSE cb

handle_char_LeavesEarly ==
    /\ At("handle_char")
    /\ screen' = output_char(screen)
    /\ cb' = IF c = CR THEN cb ELSE IF c = BS THEN pop_buffer ELSE push_buffer
    /\ overlong' = (overlong \/ (c \in Printable /\ Len(cb) = CONSOLE_BUFFER_SIZE))
    /\ pc' = IF c = CR /\ cb # <<>> THEN "command" ELSE "getchar"
    /\ UNCHANGED <<uart_vars, c, seen>>

handle_char ==
    /\ At("handle_char")
    /\ screen' = output_char(screen)
    /\ cb' = IF c = CR THEN cb ELSE IF c = BS THEN pop_buffer ELSE push_buffer
    /\ overlong' = (overlong \/ (c \in Printable /\ Len(cb) = CONSOLE_BUFFER_SIZE))
    /\ pc' = IF c = CR THEN "command" ELSE "getchar"
    /\ UNCHANGED <<uart_vars, c, seen>>

\* handle_command, and run_console's loop.
HandleCommand ==
    /\ At("command")
    /\ pc' = "clear"
    /\ UNCHANGED <<uart_vars, c, cb, screen, seen, overlong>>

UartHandler == IrqRead \/ IrqExit

GetCommand == ClearBuffer \/ GetChar \/ Wfi \/ handle_char \/ HandleCommand

Next ==
    \/ IrqEnter \/ OtherIrq
    \/ UartHandler \/ GetCommand
    \/ \E x \in Chars \cup {NoChar} : Type(x)

\* Hart 0 keeps executing and takes a UART interrupt that stays pending.  The user
\* need not type, nor any device interrupt.
Spec ==
    /\ Init /\ [][Next]_vars
    /\ WF_vars(IrqEnter) /\ WF_vars(UartHandler) /\ WF_vars(GetCommand)

\* In a machine where other interrupts keep coming.
SpecWoken == Spec /\ WF_vars(OtherIrq)

-----------------------------------------------------------------------------
(* Properties. *)

TypeOK ==
    /\ fifo \in Seq(Chars \cup {NoChar})
    /\ in_irq \in BOOLEAN
    /\ uart \in [buffer : [0 .. UART_BUFFER_SIZE - 1 -> Chars \cup {NoChar}],
                 idx : 0 .. UART_BUFFER_SIZE - 1,
                 len : 0 .. UART_BUFFER_SIZE]
    /\ pc \in {"clear", "getchar", "to_wfi", "wfi", "handle_char", "command"}
    /\ c \in Chars \cup {NoChar}
    /\ cb \in Seq(Chars) /\ Len(cb) <= CONSOLE_BUFFER_SIZE
    /\ screen \in Seq(Chars \cup {Prompt})
    /\ typed \in Seq(Chars \cup {NoChar})
    /\ seen \in Seq(Chars)
    /\ overran \in BOOLEAN /\ overlong \in BOOLEAN

\* The characters among what the UART received: 0xff is none to the firmware.
Received(s) ==
    LET upto[n \in 0 .. Len(s)] ==
            IF n = 0 THEN <<>>
            ELSE IF s[n] = NoChar THEN upto[n - 1] ELSE Append(upto[n - 1], s[n])
    IN  upto[Len(s)]

\* The console sees the characters received, each once and in order, and 0xff never,
\* until the ring overruns.
NothingReordered ==
    ~overran => Received(typed) = seen \o Characters(uart) \o Received(fifo)

\* While a line is edited the command is what the user sees after the prompt, whatever
\* is erased, as long as the line fits the buffer.
ScreenShowsCommand ==
    pc \notin {"clear"} /\ ~overlong =>
        \E prefix \in {<<>>, <<Prompt>>} : screen = prefix \o cb

\* The ring is a queue that drops its oldest character.
Queue == INSTANCE DropOldest WITH
    Values <- Chars, Capacity <- UART_BUFFER_SIZE, None <- NoChar,
    queue <- Characters(uart), taken <- c
QueueSpec == Queue!Spec

Waiting == \E x \in {fifo, Characters(uart)} : CR \in ToSet(x)

\* console.c: get_command "Returns when a full command has been entered".
CommandReturns == Waiting ~> (pc = "command" \/ overran)
=============================================================================
