---------------------------- MODULE ConsoleProofs ----------------------------
(***************************************************************************)
(* The invariants of Console, and its ring as an implementation of         *)
(* DropOldest, for buffers of any size and any number of characters.       *)
(***************************************************************************)
EXTENDS Console, ListLemmas

-----------------------------------------------------------------------------
(* What Received computes. *)

\* The function by which Received is defined, and the equation it satisfies.
Step(s, f, n) == IF n = 0 THEN <<>>
                 ELSE IF s[n] = NoChar THEN f[n - 1] ELSE Append(f[n - 1], s[n])
Upto(s) == CHOOSE f : f = [n \in 0 .. Len(s) |-> Step(s, f, n)]

LEMMA UptoEquation ==
    ASSUME NEW V, NEW s \in Seq(V)
    PROVE  /\ Received(s) = Upto(s)[Len(s)]
           /\ Upto(s) \in [0 .. Len(s) -> Seq(V)]
           /\ \A n \in 0 .. Len(s) : Upto(s)[n] = Step(s, Upto(s), n)
<1> DEFINE Solves(g, n) == g \in [0 .. n -> Seq(V)] /\ \A k \in 0 .. n : g[k] = Step(s, g, k)
           S == {n \in Nat : n <= Len(s) => \E g : Solves(g, n)}
<1>0. Len(s) \in Nat /\ \A k \in 1 .. Len(s) : s[k] \in V
    BY LenProperties, ElementOfSeq
<1> HIDE DEF Solves
<1>1. 0 \in S
    <2>1. Solves([k \in 0 .. 0 |-> <<>>], 0)
        BY EmptySeq DEF Step, Solves
    <2> QED
        BY <2>1
<1>2. ASSUME NEW n \in Nat, n \in S PROVE n + 1 \in S
    <2>1. SUFFICES ASSUME n + 1 <= Len(s) PROVE \E g : Solves(g, n + 1)
        OBVIOUS
    <2>2. PICK g : Solves(g, n)
        BY <1>0, <1>2, <2>1
    <2> USE DEF Solves
    <2> DEFINE x == IF s[n + 1] = NoChar THEN g[n] ELSE Append(g[n], s[n + 1])
               h == [k \in 0 .. n + 1 |-> IF k = n + 1 THEN x ELSE g[k]]
    <2>3. g[n] \in Seq(V) /\ s[n + 1] \in V
        BY <1>0, <2>1, <2>2
    <2>4. x \in Seq(V)
        BY <2>3, AppendProperties
    <2>5. \A k \in 0 .. n : h[k] = g[k] /\ g[k] \in Seq(V)
        BY <2>2
    <2>6. h[n + 1] = x
        OBVIOUS
    <2>7. h \in [0 .. n + 1 -> Seq(V)]
        BY <2>2, <2>4
    <2>8. ASSUME NEW k \in 0 .. n + 1 PROVE h[k] = Step(s, h, k)
        <3>1. CASE k = n + 1
            <4>1. h[k - 1] = g[n] /\ k - 1 = n /\ k # 0
                BY <2>5, <3>1
            <4> QED
                BY <2>6, <3>1, <4>1 DEF Step
        <3>2. CASE k \in 0 .. n
            <4>1. h[k] = g[k] /\ (k # 0 => h[k - 1] = g[k - 1])
                BY <2>5, <3>2
            <4>2. g[k] = Step(s, g, k)
                BY <2>2, <3>2
            <4> HIDE DEF h
            <4> QED
                BY <4>1, <4>2 DEF Step
        <3> QED
            BY <3>1, <3>2
    <2> QED
        BY <2>7, <2>8
<1>3. PICK g : Solves(g, Len(s))
    <2>1. \A n \in Nat : n \in S
        BY <1>1, <1>2, InductionOverNat
    <2> QED
        BY <1>0, <2>1
<1>4. g = [n \in 0 .. Len(s) |-> Step(s, g, n)]
    BY <1>3 DEF Solves
<1>5. Upto(s) = [n \in 0 .. Len(s) |-> Step(s, Upto(s), n)]
    BY <1>4, Zenon DEF Upto
<1>6. \A n \in 0 .. Len(s) : Upto(s)[n] = Step(s, Upto(s), n)
    BY <1>5
<1>7. \A n \in 0 .. Len(s) : Upto(s)[n] \in Seq(V)
    <2> DEFINE T == {n \in Nat : n <= Len(s) => Upto(s)[n] \in Seq(V)}
    <2>1. 0 \in T
        <3>1. Upto(s)[0] = <<>>
            BY <1>0, <1>6 DEF Step
        <3> QED
            BY <3>1, EmptySeq
    <2>2. ASSUME NEW n \in Nat, n \in T PROVE n + 1 \in T
        <3>1. SUFFICES ASSUME n + 1 <= Len(s) PROVE Upto(s)[n + 1] \in Seq(V)
            OBVIOUS
        <3>2. Upto(s)[n] \in Seq(V) /\ s[n + 1] \in V
            BY <1>0, <2>2, <3>1
        <3>3. Upto(s)[n + 1] = Step(s, Upto(s), n + 1)
            BY <1>0, <1>6, <3>1
        <3> QED
            BY <3>2, <3>3, AppendProperties DEF Step
    <2>3. \A n \in Nat : n \in T
        BY <2>1, <2>2, InductionOverNat
    <2> QED
        BY <1>0, <2>3
<1>8. Upto(s) \in [0 .. Len(s) -> Seq(V)]
    BY <1>5, <1>7
<1>9. Received(s) = Upto(s)[Len(s)]
    BY DEF Received, Upto, Step
<1> QED
    BY <1>6, <1>8, <1>9

LEMMA ReceivedType ==
    ASSUME NEW V, NEW s \in Seq(V)
    PROVE  Received(s) \in Seq(V)
<1>1. Len(s) \in 0 .. Len(s)
    BY LenProperties
<1> QED
    BY <1>1, UptoEquation

\* Nothing is received of nothing.
LEMMA ReceivedNothing == Received(<<>>) = <<>>
<1>1. PICK s \in Seq({}) : s = <<>> /\ Len(s) = 0
    BY EmptySeq
<1>2. /\ Received(s) = Upto(s)[Len(s)]
      /\ \A n \in 0 .. Len(s) : Upto(s)[n] = Step(s, Upto(s), n)
    BY UptoEquation
<1>3. Received(s) = <<>>
    <2> DEFINE n == Len(s)
    <2>1. n = 0
        BY <1>1
    <2> HIDE DEF n
    <2> QED
        BY <1>2, <2>1 DEF Step, n
<1> QED
    BY <1>1, <1>3

\* What is received last is at the end.
LEMMA ReceivedLast ==
    ASSUME NEW V, NEW s \in Seq(V), NEW x \in V
    PROVE  Received(Append(s, x)) = IF x = NoChar THEN Received(s) ELSE Append(Received(s), x)
<1> DEFINE t == Append(s, x)
           n == Len(s)
           T == {k \in Nat : k <= n => Upto(t)[k] = Upto(s)[k]}
<1>1. /\ t \in Seq(V) /\ Len(t) = n + 1 /\ n \in Nat
      /\ t[n + 1] = x /\ \A k \in 1 .. n : t[k] = s[k]
    BY LenProperties, AppendProperties
<1>2. /\ \A k \in 0 .. n + 1 : Upto(t)[k] = Step(t, Upto(t), k)
      /\ Received(t) = Upto(t)[n + 1]
    <2> HIDE DEF t
    <2> QED
        BY <1>1, UptoEquation
<1>3. /\ \A k \in 0 .. n : Upto(s)[k] = Step(s, Upto(s), k)
      /\ Received(s) = Upto(s)[n]
    BY UptoEquation
<1> HIDE DEF t, n
<1>4. 0 \in T
    BY <1>1, <1>2, <1>3 DEF Step
<1>5. ASSUME NEW k \in Nat, k \in T PROVE k + 1 \in T
    <2>1. SUFFICES ASSUME k + 1 <= n PROVE Upto(t)[k + 1] = Upto(s)[k + 1]
        OBVIOUS
    <2>2. Upto(t)[k] = Upto(s)[k] /\ t[k + 1] = s[k + 1] /\ k + 1 \in 0 .. n + 1
          /\ k + 1 \in 0 .. n /\ k + 1 # 0 /\ (k + 1) - 1 = k
        BY <1>1, <1>5, <2>1
    <2>3. Upto(t)[k + 1] = Step(t, Upto(t), k + 1) /\ Upto(s)[k + 1] = Step(s, Upto(s), k + 1)
        BY <1>2, <1>3, <2>2
    <2> QED
        BY <2>2, <2>3 DEF Step
<1>6. Upto(t)[n] = Upto(s)[n]
    <2>1. \A k \in Nat : k \in T
        BY <1>4, <1>5, InductionOverNat
    <2> QED
        BY <1>1, <2>1
<1>7. Upto(t)[n + 1] = IF x = NoChar THEN Upto(t)[n] ELSE Append(Upto(t)[n], x)
    <2>1. n + 1 \in 0 .. n + 1 /\ n + 1 # 0 /\ (n + 1) - 1 = n
        BY <1>1
    <2> QED
        BY <1>1, <1>2, <2>1 DEF Step
<1> QED
    BY <1>2, <1>3, <1>6, <1>7 DEF t

\* What is received first is at the front.
LEMMA ReceivedFirst ==
    ASSUME NEW V, NEW s \in Seq(V), s # <<>>
    PROVE  Received(s) = IF Head(s) = NoChar THEN Received(Tail(s))
                         ELSE <<Head(s)>> \o Received(Tail(s))
<1> DEFINE t == Tail(s)
           n == Len(t)
           first == IF Head(s) = NoChar THEN <<>> ELSE <<Head(s)>>
           T == {k \in Nat : k <= n => Upto(s)[k + 1] = first \o Upto(t)[k]}
<1>1. /\ t \in Seq(V) /\ Len(s) = n + 1 /\ n \in Nat /\ s[1] = Head(s) /\ Head(s) \in V
      /\ \A k \in 1 .. n : t[k] = s[k + 1]
    BY HeadTailProperties, LenProperties
<1>2. /\ \A k \in 0 .. n : Upto(t)[k] = Step(t, Upto(t), k) /\ Upto(t)[k] \in Seq(V)
      /\ Received(t) = Upto(t)[n]
    <2> HIDE DEF t
    <2> QED
        BY <1>1, UptoEquation
<1>3. /\ \A k \in 0 .. n + 1 : Upto(s)[k] = Step(s, Upto(s), k)
      /\ Received(s) = Upto(s)[n + 1]
    BY <1>1, UptoEquation
<1> HIDE DEF t, n
<1>4. /\ first \in Seq(V)
      /\ IF Head(s) = NoChar THEN first = <<>> ELSE first = <<Head(s)>>
    BY <1>1, EmptySeq
<1> HIDE DEF first
<1>5. 0 \in T
    <2>1. Upto(s)[0] = <<>> /\ Upto(t)[0] = <<>>
        BY <1>1, <1>2, <1>3 DEF Step
    <2>2. Upto(s)[1] = first
        <3>1. 1 \in 0 .. n + 1 /\ 1 - 1 = 0 /\ 1 # 0
            BY <1>1
        <3>2. Upto(s)[1] = Step(s, Upto(s), 1)
            BY <1>3, <3>1
        <3>3. Append(<<>>, s[1]) = <<s[1]>>
            OBVIOUS
        <3> QED
            BY <1>1, <1>4, <2>1, <3>1, <3>2, <3>3 DEF Step
    <2>3. first \o Upto(t)[0] = first
        <3>1. first \o <<>> = first
            BY <1>4, ConcatEmptySeq
        <3> QED
            BY <2>1, <3>1
    <2>4. Upto(s)[0 + 1] = first \o Upto(t)[0]
        BY <2>2, <2>3
    <2> QED
        BY <2>4
<1>6. ASSUME NEW k \in Nat, k \in T PROVE k + 1 \in T
    <2>1. SUFFICES ASSUME k + 1 <= n
                   PROVE  Upto(s)[(k + 1) + 1] = first \o Upto(t)[k + 1]
        OBVIOUS
    <2>2. /\ Upto(s)[k + 1] = first \o Upto(t)[k]
          /\ k + 1 \in 1 .. n
          /\ k \in 0 .. n /\ k + 1 \in 0 .. n /\ k + 1 # 0 /\ (k + 1) - 1 = k
          /\ (k + 1) + 1 \in 0 .. n + 1 /\ (k + 1) + 1 # 0 /\ ((k + 1) + 1) - 1 = k + 1
        BY <1>1, <1>6, <2>1
    <2>3. t[k + 1] = s[(k + 1) + 1] /\ t[k + 1] \in V
        BY <1>1, <2>2, ElementOfSeq DEF n
    <2>4. /\ Upto(s)[(k + 1) + 1] = Step(s, Upto(s), (k + 1) + 1)
          /\ Upto(t)[k + 1] = Step(t, Upto(t), k + 1)
          /\ Upto(t)[k] \in Seq(V)
        BY <1>2, <1>3, <2>2
    <2>5. CASE t[k + 1] = NoChar
        BY <2>2, <2>3, <2>4, <2>5 DEF Step
    <2>6. CASE t[k + 1] # NoChar
        <3>1. /\ Upto(s)[(k + 1) + 1] = Append(first \o Upto(t)[k], t[k + 1])
              /\ Upto(t)[k + 1] = Append(Upto(t)[k], t[k + 1])
            BY <2>2, <2>3, <2>4, <2>6 DEF Step
        <3>2. \A u \in Seq(V), e \in V : IsAppended(first \o Append(u, e), first \o u, e)
            BY <1>4, AppendToConcat
        <3>3. first \o Append(Upto(t)[k], t[k + 1]) = Append(first \o Upto(t)[k], t[k + 1])
            BY <2>3, <2>4, <3>2 DEF IsAppended
        <3> QED
            BY <3>1, <3>3
    <2> QED
        BY <2>5, <2>6
<1>7. Upto(s)[n + 1] = first \o Upto(t)[n]
    <2>1. \A k \in Nat : k \in T
        BY <1>5, <1>6, InductionOverNat
    <2> QED
        BY <1>1, <2>1
<1>8. Upto(t)[n] \in Seq(V) /\ <<>> \o Upto(t)[n] = Upto(t)[n]
    BY <1>1, <1>2, ConcatEmptySeq
<1> QED
    BY <1>2, <1>3, <1>4, <1>7, <1>8 DEF t

-----------------------------------------------------------------------------
(* The ring is a queue. *)

Receivable == Chars \cup {NoChar}
Ring == [buffer : [0 .. UART_BUFFER_SIZE - 1 -> Receivable],
         idx : 0 .. UART_BUFFER_SIZE - 1,
         len : 0 .. UART_BUFFER_SIZE]

LEMMA CharactersType ==
    ASSUME NEW r \in Ring
    PROVE  /\ Characters(r) = Window(r.buffer, r.idx, r.len, UART_BUFFER_SIZE)
           /\ Characters(r) \in Seq(Receivable)
           /\ Len(Characters(r)) = r.len
           /\ r.len = 0 <=> Characters(r) = <<>>
<1> DEFINE N == UART_BUFFER_SIZE
<1>1. /\ r.buffer \in [0 .. N - 1 -> Receivable] /\ r.idx \in 0 .. N - 1 /\ r.len \in 0 .. N
      /\ r.len \in Nat /\ N \in Nat \ {0}
    BY UartAssumption DEF Ring
<1>2. Characters(r) = Window(r.buffer, r.idx, r.len, N)
    BY DEF Characters, Window
<1>3. \A b \in [0 .. N - 1 -> Receivable], i \in 0 .. N - 1, n \in Nat :
          Window(b, i, n, N) \in Seq(Receivable) /\ Len(Window(b, i, n, N)) = n
    BY <1>1, WindowType
<1>4. Characters(r) \in Seq(Receivable) /\ Len(Characters(r)) = r.len
    BY <1>1, <1>2, <1>3
<1> QED
    BY <1>2, <1>4, EmptySeq

\* A character written goes to the end, in the place of the first if the ring is full.
LEMMA WriteAppends ==
    ASSUME NEW r \in Ring, NEW x \in Receivable
    PROVE  /\ uart_buffer_write(r, x) \in Ring
           /\ Characters(uart_buffer_write(r, x))
                = Append(IF r.len < UART_BUFFER_SIZE THEN Characters(r)
                         ELSE Tail(Characters(r)), x)
<1> DEFINE N == UART_BUFFER_SIZE
           full == r.len >= N
           w == uart_buffer_write(r, x)
           idx == IF full THEN (r.idx + 1) % N ELSE r.idx
           n == IF full THEN r.len - 1 ELSE r.len
           b == [r.buffer EXCEPT ![(idx + n) % N] = x]
<1>1. /\ r.buffer \in [0 .. N - 1 -> Receivable] /\ r.idx \in 0 .. N - 1 /\ r.len \in 0 .. N
      /\ N \in Nat \ {0} /\ (full => r.len = N)
    BY UartAssumption DEF Ring
<1>2. idx \in 0 .. N - 1 /\ n \in 0 .. N - 1 /\ (idx + n) % N \in 0 .. N - 1
    <2>1. (r.idx + 1) % N \in 0 .. N - 1
        BY <1>1
    <2>2. n \in 0 .. N - 1
        BY <1>1
    <2>3. idx \in 0 .. N - 1
        BY <1>1, <2>1
    <2> HIDE DEF idx, n
    <2> QED
        BY <1>1, <2>2, <2>3
<1>3. w = [buffer |-> b, idx |-> idx, len |-> n + 1]
    <2>1. full => w = [buffer |-> [r.buffer EXCEPT ![(idx + r.len - 1) % N] = x],
                       idx |-> idx, len |-> r.len]
        BY DEF uart_buffer_write
    <2>2. ~full => w = [buffer |-> [r.buffer EXCEPT ![(idx + (r.len + 1) - 1) % N] = x],
                        idx |-> idx, len |-> r.len + 1]
        BY DEF uart_buffer_write
    <2>3. /\ full => n + 1 = r.len /\ idx + r.len - 1 = idx + n
          /\ ~full => n = r.len /\ idx + (r.len + 1) - 1 = idx + n
        BY <1>1, <1>2
    <2> HIDE DEF w, idx, n, full
    <2> QED
        BY <2>1, <2>2, <2>3
<1>4. Window(r.buffer, idx, n, N) = IF full THEN Tail(Characters(r)) ELSE Characters(r)
    <2>1. Characters(r) = Window(r.buffer, r.idx, r.len, N)
        BY CharactersType
    <2>2. CASE full
        <3>1. r.len \in 1 .. N
            BY <1>1, <2>2
        <3>2. \A c1 \in [0 .. N - 1 -> Receivable], i \in 0 .. N - 1, m \in 1 .. N :
                  Window(c1, (i + 1) % N, m - 1, N) = Tail(Window(c1, i, m, N))
            BY <1>1, WindowTail
        <3>3. Window(r.buffer, (r.idx + 1) % N, r.len - 1, N)
                = Tail(Window(r.buffer, r.idx, r.len, N))
            BY <1>1, <3>1, <3>2
        <3> QED
            BY <2>1, <2>2, <3>3
    <2>3. CASE ~full
        BY <2>1, <2>3
    <2> QED
        BY <2>2, <2>3
<1> HIDE DEF idx, n, full
<1>5. b \in [0 .. N - 1 -> Receivable]
    BY <1>1
<1>6. Window(b, idx, n + 1, N) = Append(Window(r.buffer, idx, n, N), x)
    <2>1. b[(idx + n) % N] = x /\ \A k \in 0 .. N - 1 : k # (idx + n) % N => b[k] = r.buffer[k]
        BY <1>1, <1>2
    <2> HIDE DEF b
    <2>2. IsAppended(Window(b, idx, n + 1, N), Window(r.buffer, idx, n, N), x)
        BY <1>1, <1>2, <1>5, <2>1, WindowAppend
    <2> QED
        BY <2>2 DEF IsAppended
<1> HIDE DEF b
<1>7. w \in Ring
    BY <1>1, <1>2, <1>3, <1>5 DEF Ring
<1>8. Characters(w) = Window(b, idx, n + 1, N)
    BY <1>3 DEF Characters, Window
<1>9. full <=> ~(r.len < N)
    BY <1>1 DEF full
<1> QED
    BY <1>4, <1>6, <1>7, <1>8, <1>9

\* A character read is the first, and leaves the ring.
LEMMA GetTakes ==
    ASSUME NEW r \in Ring
    PROVE  /\ uart_after_get(r) \in Ring
           /\ IF r.len = 0
              THEN uart_get_buffered(r) = NoChar /\ uart_after_get(r) = r
              ELSE /\ uart_get_buffered(r) = Head(Characters(r))
                   /\ Characters(uart_after_get(r)) = Tail(Characters(r))
<1> DEFINE N == UART_BUFFER_SIZE
           g == uart_after_get(r)
<1>1. /\ r.buffer \in [0 .. N - 1 -> Receivable] /\ r.idx \in 0 .. N - 1 /\ r.len \in 0 .. N
      /\ N \in Nat \ {0}
    BY UartAssumption DEF Ring
<1>2. CASE r.len = 0
    BY <1>1, <1>2 DEF uart_after_get, uart_get_buffered
<1>3. CASE r.len # 0
    <2>1. r.len \in 1 .. N /\ r.len > 0
        BY <1>1, <1>3
    <2>2. g = [r EXCEPT !.idx = (r.idx + 1) % N, !.len = r.len - 1]
        BY <2>1 DEF uart_after_get
    <2>3. /\ g.buffer = r.buffer /\ g.idx = (r.idx + 1) % N /\ g.len = r.len - 1
          /\ g \in Ring
        <3>1. (r.idx + 1) % N \in 0 .. N - 1 /\ r.len - 1 \in 0 .. N
            BY <1>1, <2>1
        <3> HIDE DEF g
        <3> QED
            BY <1>1, <2>2, <3>1 DEF Ring
    <2>4. \A b \in [0 .. N - 1 -> Receivable], i \in 0 .. N - 1, m \in 1 .. N :
              /\ Head(Window(b, i, m, N)) = b[i]
              /\ Window(b, (i + 1) % N, m - 1, N) = Tail(Window(b, i, m, N))
        BY <1>1, WindowTail
    <2>5. Characters(r) = Window(r.buffer, r.idx, r.len, N)
        BY CharactersType
    <2>6. Characters(g) = Window(r.buffer, (r.idx + 1) % N, r.len - 1, N)
        BY <2>3 DEF Characters, Window
    <2>7. uart_get_buffered(r) = r.buffer[r.idx]
        BY <2>1 DEF uart_get_buffered
    <2> QED
        BY <1>1, <1>3, <2>1, <2>3, <2>4, <2>5, <2>6, <2>7
<1> QED
    BY <1>2, <1>3

-----------------------------------------------------------------------------
(* The inductive invariant: the properties, and that 0xff stays outside.    *)

CharInv ==
    /\ Characters(uart) \in Seq(Chars)
    /\ pc = "handle_char" => c \in Chars

IInv == TypeOK /\ CharInv /\ NothingReordered /\ ScreenShowsCommand

\* The constants are different characters.
LEMMA Constants ==
    /\ CR \in Chars /\ BS \in Chars /\ NoChar \notin Chars /\ Prompt \notin Chars
    /\ Printable \subseteq Chars /\ UART_BUFFER_SIZE \in Nat \ {0}
    /\ CONSOLE_BUFFER_SIZE \in Nat \ {0}
    /\ CR # BS
<1> QED
    BY ConsoleAssumption, UartAssumption DEF Chars, CR, BS

LEMMA EmptyUartIsEmpty == EmptyUart \in Ring /\ Characters(EmptyUart) = <<>>
<1>1. EmptyUart \in Ring /\ EmptyUart.len = 0
    BY UartAssumption DEF EmptyUart, Ring, Receivable
<1> QED
    BY <1>1, CharactersType

LEMMA InitIInv == Init => IInv
<1> SUFFICES ASSUME Init PROVE IInv
    OBVIOUS
<1>1. uart \in Ring /\ Characters(uart) = <<>>
    BY EmptyUartIsEmpty DEF Init
<1>2. TypeOK
    <2>1. uart \in [buffer : [0 .. UART_BUFFER_SIZE - 1 -> Chars \cup {NoChar}],
                     idx : 0 .. UART_BUFFER_SIZE - 1,
                     len : 0 .. UART_BUFFER_SIZE]
        BY <1>1 DEF Ring, Receivable
    <2>2. \A S : <<>> \in Seq(S)
        BY EmptySeq
    <2>3. Len(<<>>) <= CONSOLE_BUFFER_SIZE
        BY Constants, EmptySeq
    <2> QED
        BY <2>1, <2>2, <2>3 DEF Init, TypeOK
<1>3. CharInv
    BY <1>1 DEF Init, CharInv
<1>4. NothingReordered
    <2>1. <<>> \o <<>> \o <<>> = <<>>
        OBVIOUS
    <2> QED
        BY <1>1, <2>1, ReceivedNothing DEF Init, NothingReordered
<1>5. ScreenShowsCommand
    BY DEF Init, ScreenShowsCommand
<1> QED
    BY <1>2, <1>3, <1>4, <1>5 DEF IInv

\* The user types.
LEMMA TypeKeeps ==
    ASSUME IInv, NEW x \in Chars \cup {NoChar}, Type(x)
    PROVE  IInv'
<1> USE DEF IInv, Type, console_vars
<1>1. TypeOK'
    BY AppendProperties DEF TypeOK
<1>2. CharInv' /\ ScreenShowsCommand'
    BY DEF CharInv, ScreenShowsCommand
<1>3. NothingReordered'
    <2> SUFFICES ASSUME ~overran'
                 PROVE  Received(typed') = seen' \o Characters(uart') \o Received(fifo')
        BY DEF NothingReordered
    <2> DEFINE V == Chars \cup {NoChar}
               front == seen \o Characters(uart)
    <2>1. /\ typed \in Seq(V) /\ fifo \in Seq(V) /\ seen \in Seq(V)
          /\ Characters(uart) \in Seq(V)
        BY SeqMonotonic DEF TypeOK, CharInv
    <2>2. front \in Seq(V) /\ Received(fifo) \in Seq(V)
        BY <2>1, ConcatProperties, ReceivedType
    <2>3. /\ x = NoChar => Received(typed') = Received(typed) /\ Received(fifo') = Received(fifo)
          /\ x # NoChar => /\ Received(typed') = Append(Received(typed), x)
                           /\ Received(fifo') = Append(Received(fifo), x)
        BY <2>1, ReceivedLast
    <2>4. Received(typed) = front \o Received(fifo)
        BY DEF NothingReordered
    <2> HIDE DEF front, IInv, Type
    <2>5. Received(typed') = front \o Received(fifo')
        <3>1. IsAppended(front \o Append(Received(fifo), x), front \o Received(fifo), x)
            BY <2>2, AppendToConcat
        <3>2. front \o Append(Received(fifo), x) = Append(front \o Received(fifo), x)
            BY <3>1 DEF IsAppended
        <3> QED
            BY <2>3, <2>4, <3>2
    <2>6. seen' = seen /\ uart' = uart
        BY DEF Type, console_vars
    <2> QED
        BY <2>5, <2>6 DEF front
<1> QED
    BY <1>1, <1>2, <1>3

\* The handler reads a character into the ring.
LEMMA IrqReadKeeps ==
    ASSUME IInv, IrqRead
    PROVE  IInv'
<1> USE DEF IInv, IrqRead, console_vars, uart_get
<1> DEFINE x == Head(fifo)
           V == Chars \cup {NoChar}
<1>1. fifo # <<>> /\ uart_get = x /\ x \in Chars /\ Tail(fifo) \in Seq(V) /\ fifo \in Seq(V)
    BY HeadTailProperties DEF TypeOK
<1>2. uart \in Ring /\ uart' \in Ring
    BY <1>1, WriteAppends DEF TypeOK, Ring, Receivable
<1>3. Characters(uart') = Append(IF uart.len < UART_BUFFER_SIZE THEN Characters(uart)
                                 ELSE Tail(Characters(uart)), x)
    BY <1>1, <1>2, WriteAppends DEF Receivable
<1>4. TypeOK'
    BY <1>1, <1>2 DEF TypeOK, Ring, Receivable
<1>5. CharInv'
    <2>1. Characters(uart) = <<>> <=> uart.len = 0
        BY <1>2, CharactersType
    <2>2. ~(uart.len < UART_BUFFER_SIZE) => Tail(Characters(uart)) \in Seq(Chars)
        BY <1>2, <2>1, Constants, HeadTailProperties DEF CharInv, Ring
    <2> DEFINE kept == IF uart.len < UART_BUFFER_SIZE THEN Characters(uart)
                       ELSE Tail(Characters(uart))
    <2>3. kept \in Seq(Chars)
        BY <2>2 DEF CharInv
    <2> HIDE DEF kept
    <2>4. Append(kept, x) \in Seq(Chars)
        BY <1>1, <2>3, AppendProperties
    <2>5. Characters(uart') \in Seq(Chars)
        BY <1>3, <2>4 DEF kept
    <2> QED
        BY <2>5 DEF CharInv
<1>6. NothingReordered'
    <2> SUFFICES ASSUME ~overran'
                 PROVE  Received(typed') = seen' \o Characters(uart') \o Received(fifo')
        BY DEF NothingReordered
    <2>1. ~overran /\ uart.len < UART_BUFFER_SIZE
        <3>1. uart.len \in 0 .. UART_BUFFER_SIZE /\ UART_BUFFER_SIZE \in Nat
            BY <1>2, Constants DEF Ring
        <3>2. overran' = (overran \/ uart.len = UART_BUFFER_SIZE) /\ overran \in BOOLEAN
            BY DEF TypeOK
        <3>3. ~overran /\ uart.len # UART_BUFFER_SIZE
            BY <3>2, Zenon
        <3> QED
            BY <3>1, <3>3
    <2> DEFINE held == Characters(uart)
               rest == Received(Tail(fifo))
    <2>2. seen \in Seq(V) /\ held \in Seq(V)
        BY SeqMonotonic DEF TypeOK, CharInv
    <2>3. rest \in Seq(V)
        BY <1>1, ReceivedType
    <2>4. Received(fifo) = <<x>> \o rest
        BY <1>1, ReceivedFirst, Constants
    <2>5. Received(typed) = seen \o held \o (<<x>> \o rest)
        BY <2>1, <2>4 DEF NothingReordered
    <2>6. IsAppended(Characters(uart'), held, x)
        BY <1>3, <2>1 DEF IsAppended
    <2>7. x \in V
        BY <1>1
    <2>8. seen \o held \o (<<x>> \o rest) = seen \o Characters(uart') \o rest
        <3> HIDE DEF held, rest, V, x, IInv, IrqRead
        <3>1. Characters(uart') = held \o <<x>>
            BY <2>6 DEF IsAppended
        <3>2. <<x>> \in Seq(V) /\ seen \o held \in Seq(V)
            BY <2>2, <2>7, ConcatProperties
        <3>3. seen \o (held \o <<x>>) = (seen \o held) \o <<x>>
            BY <2>2, <3>2, ConcatAssociative
        <3>4. (seen \o held) \o (<<x>> \o rest) = ((seen \o held) \o <<x>>) \o rest
            <4> DEFINE a == seen \o held
                       e == <<x>>
            <4>1. a \in Seq(V) /\ e \in Seq(V)
                BY <3>2
            <4> HIDE DEF a, e
            <4>2. a \o (e \o rest) = (a \o e) \o rest
                BY <2>3, <4>1, ConcatAssociative
            <4> QED
                BY <4>2 DEF a, e
        <3> QED
            BY <3>1, <3>3, <3>4
    <2>9. seen' = seen /\ typed' = typed /\ fifo' = Tail(fifo)
        OBVIOUS
    <2> HIDE DEF held, V, x, IInv, IrqRead
    <2> QED
        BY <2>5, <2>8, <2>9
<1>7. ScreenShowsCommand'
    BY DEF ScreenShowsCommand
<1> QED
    BY <1>4, <1>5, <1>6, <1>7

\* The handler finds 0xff, or nothing.
LEMMA IrqExitKeeps ==
    ASSUME IInv, IrqExit
    PROVE  IInv'
<1> USE DEF IInv, IrqExit, console_vars, uart_get
<1> DEFINE V == Chars \cup {NoChar}
<1>1. fifo # <<>> => Head(fifo) = NoChar /\ Tail(fifo) \in Seq(V)
    BY HeadTailProperties DEF TypeOK
<1>2. TypeOK'
    BY <1>1 DEF TypeOK
<1>3. CharInv' /\ ScreenShowsCommand'
    BY DEF CharInv, ScreenShowsCommand
<1>4. Received(fifo') = Received(fifo)
    <2>1. fifo # <<>> => Received(fifo) = Received(Tail(fifo))
        BY <1>1, ReceivedFirst DEF TypeOK
    <2> QED
        BY <2>1
<1>5. NothingReordered'
    BY <1>4 DEF NothingReordered
<1> QED
    BY <1>2, <1>3, <1>5

\* The console asks the firmware for a character.
LEMMA GetCharKeeps ==
    ASSUME IInv, GetChar
    PROVE  IInv'
<1> USE DEF IInv, GetChar, At
<1> DEFINE V == Chars \cup {NoChar}
           held == Characters(uart)
<1>1. /\ uart \in Ring /\ uart' \in Ring /\ uart.len \in Nat
      /\ held \in Seq(Chars) /\ (uart.len = 0 <=> held = <<>>)
    <2>1. uart \in Ring
        BY DEF TypeOK, Ring, Receivable
    <2> QED
        BY <2>1, GetTakes, CharactersType DEF CharInv, Ring
<1>2. IF uart.len = 0
      THEN c' = NoChar /\ uart' = uart /\ seen' = seen
      ELSE /\ c' = Head(held) /\ c' \in Chars
           /\ Characters(uart') = Tail(held) /\ Tail(held) \in Seq(Chars)
           /\ seen' = Append(seen, c')
    BY <1>1, GetTakes, HeadTailProperties
<1>3. TypeOK'
    BY <1>1, <1>2, AppendProperties DEF TypeOK, Ring, Receivable
<1>4. CharInv'
    BY <1>2, Constants DEF CharInv
<1>5. NothingReordered'
    <2>1. CASE uart.len = 0
        BY <1>2, <2>1 DEF NothingReordered
    <2>2. CASE uart.len # 0
        <3>1. seen \in Seq(Chars) /\ <<Head(held)>> \in Seq(Chars) /\ Tail(held) \in Seq(Chars)
            BY <1>2, <2>2 DEF TypeOK
        <3>2. held = <<Head(held)>> \o Tail(held)
            BY <1>1, <2>2
        <3>3. seen' = seen \o <<Head(held)>>
            BY <1>2, <2>2, <3>1
        <3> HIDE DEF held
        <3>4. seen \o (<<Head(held)>> \o Tail(held)) = (seen \o <<Head(held)>>) \o Tail(held)
            BY <3>1, ConcatAssociative
        <3>5. seen' \o Characters(uart') = seen \o held
            BY <1>2, <2>2, <3>2, <3>3, <3>4
        <3> QED
            BY <3>5 DEF NothingReordered, held
    <2> QED
        BY <2>1, <2>2
<1>6. ScreenShowsCommand'
    BY DEF ScreenShowsCommand
<1> QED
    BY <1>3, <1>4, <1>5, <1>6

\* The console edits its line.
LEMMA HandleCharKeeps ==
    ASSUME IInv, handle_char
    PROVE  IInv'
<1> USE DEF IInv, handle_char, uart_vars, At
<1> DEFINE S == Chars \cup {Prompt}
<1>1. /\ c \in Chars /\ screen \in Seq(S) /\ cb \in Seq(Chars)
      /\ Len(cb) \in Nat /\ Len(cb) <= CONSOLE_BUFFER_SIZE /\ CONSOLE_BUFFER_SIZE \in Nat
    BY Constants, LenProperties DEF TypeOK, CharInv
<1>2. /\ c = CR => screen' = screen /\ cb' = cb
      /\ c = BS => /\ screen' = IF screen = <<>> THEN screen ELSE Front(screen)
                   /\ cb' = IF Len(cb) > 0 THEN Front(cb) ELSE cb
      /\ c \in Printable /\ c \notin {CR, BS} =>
             /\ screen' = Append(screen, c)
             /\ cb' = IF Len(cb) < CONSOLE_BUFFER_SIZE THEN Append(cb, c) ELSE cb
    BY Constants DEF output_char, pop_buffer, push_buffer
<1>3. c = CR \/ c = BS \/ (c \in Printable /\ c \notin {CR, BS})
    BY <1>1 DEF Chars
<1>4. TypeOK'
    <2>1. screen' \in Seq(S)
        <3>1. c = BS /\ screen # <<>> => Front(screen) \in Seq(S)
            BY <1>1, FrontType
        <3>2. Append(screen, c) \in Seq(S)
            BY <1>1, AppendProperties
        <3> QED
            BY <1>1, <1>2, <1>3, <3>1, <3>2
    <2>2. cb' \in Seq(Chars) /\ Len(cb') <= CONSOLE_BUFFER_SIZE
        <3>1. Len(cb) > 0 => Front(cb) \in Seq(Chars) /\ Len(Front(cb)) = Len(cb) - 1
            BY <1>1, EmptySeq, FrontType
        <3>2. Append(cb, c) \in Seq(Chars) /\ Len(Append(cb, c)) = Len(cb) + 1
            BY <1>1, AppendProperties
        <3>3. CASE c = CR
            BY <1>1, <1>2, <3>3
        <3>4. CASE c = BS
            BY <1>1, <1>2, <3>1, <3>4
        <3>5. CASE c \in Printable /\ c \notin {CR, BS}
            <4>1. cb' = IF Len(cb) < CONSOLE_BUFFER_SIZE THEN Append(cb, c) ELSE cb
                BY <1>2, <3>5
            <4>2. CASE Len(cb) < CONSOLE_BUFFER_SIZE
                <5>1. Len(cb) + 1 <= CONSOLE_BUFFER_SIZE
                    BY <1>1, <4>2
                <5> QED
                    BY <3>2, <4>1, <4>2, <5>1
            <4>3. CASE ~(Len(cb) < CONSOLE_BUFFER_SIZE)
                BY <1>1, <4>1, <4>3
            <4> QED
                BY <4>2, <4>3
        <3> QED
            BY <1>3, <3>3, <3>4, <3>5
    <2> QED
        BY <2>1, <2>2 DEF TypeOK
<1>5. CharInv' /\ NothingReordered'
    BY DEF CharInv, NothingReordered
<1>6. ScreenShowsCommand'
    <2> SUFFICES ASSUME ~overlong'
                 PROVE  \E prefix \in {<<>>, <<Prompt>>} : screen' = prefix \o cb'
        BY DEF ScreenShowsCommand
    <2>1. PICK prefix \in {<<>>, <<Prompt>>} : screen = prefix \o cb
        BY DEF ScreenShowsCommand
    <2>2. prefix \in Seq(S) /\ cb \in Seq(S)
        <3>1. <<>> \in Seq(S) /\ <<Prompt>> \in Seq(S)
            BY EmptySeq
        <3>2. cb \in Seq(S)
            BY <1>1, SeqMonotonic
        <3> QED
            BY <3>1, <3>2
    <2>3. CASE c = CR
        BY <1>2, <2>1, <2>3
    <2>4. CASE c = BS /\ cb # <<>>
        <3>1. Front(prefix \o cb) = prefix \o Front(cb) /\ prefix \o cb # <<>>
            BY <2>2, <2>4, FrontOfConcat
        <3>2. Len(cb) > 0
            BY <1>1, <2>4, EmptySeq
        <3> QED
            BY <1>2, <2>1, <2>4, <3>1, <3>2
    <2>5. CASE c = BS /\ cb = <<>>
        <3>1. cb' = <<>> /\ screen = prefix
            BY <1>2, <2>1, <2>2, <2>5, ConcatEmptySeq
        <3>2. Front(<<Prompt>>) = <<>> /\ <<Prompt>> # <<>>
            BY DEF Front
        <3>3. screen' = <<>>
            BY <1>2, <2>5, <3>1, <3>2
        <3>4. <<>> \o <<>> = <<>>
            OBVIOUS
        <3> QED
            BY <3>1, <3>3, <3>4
    <2>6. CASE c \in Printable /\ c \notin {CR, BS}
        <3>1. Len(cb) # CONSOLE_BUFFER_SIZE
            BY <2>6
        <3>a. Len(cb) < CONSOLE_BUFFER_SIZE
            BY <1>1, <3>1
        <3>2. Append(prefix \o cb, c) = prefix \o Append(cb, c)
            <4>1. c \in S
                BY <1>1
            <4>2. IsAppended(prefix \o Append(cb, c), prefix \o cb, c)
                <5> HIDE DEF S, IInv, handle_char
                <5> QED
                    BY <2>2, <4>1, AppendToConcat
            <4> QED
                BY <4>2 DEF IsAppended
        <3> QED
            BY <1>2, <2>1, <2>6, <3>a, <3>2
    <2> QED
        BY <1>3, <2>3, <2>4, <2>5, <2>6
<1> QED
    BY <1>4, <1>5, <1>6

\* The steps that leave the characters alone.
LEMMA OtherKeeps ==
    ASSUME IInv, IrqEnter \/ OtherIrq \/ ClearBuffer \/ Wfi \/ HandleCommand
    PROVE  IInv'
<1> USE DEF IInv, IrqEnter, OtherIrq, ClearBuffer, Wfi, HandleCommand, uart_vars, At, Woken
<1>1. TypeOK'
    <2>1. <<>> \in Seq(Chars) /\ Len(<<>>) <= CONSOLE_BUFFER_SIZE
          /\ <<Prompt>> \in Seq(Chars \cup {Prompt})
        BY Constants, EmptySeq
    <2> QED
        BY <2>1 DEF TypeOK
<1>2. CharInv' /\ NothingReordered'
    BY DEF CharInv, NothingReordered
<1>3. ScreenShowsCommand'
    <2>1. <<Prompt>> = <<Prompt>> \o <<>>
        OBVIOUS
    <2> QED
        BY <2>1 DEF ScreenShowsCommand
<1> QED
    BY <1>1, <1>2, <1>3

LEMMA NextIInv == IInv /\ [Next]_vars => IInv'
<1> SUFFICES ASSUME IInv, [Next]_vars PROVE IInv'
    OBVIOUS
<1>1. CASE UNCHANGED vars
    BY <1>1 DEF vars, uart_vars, console_vars, IInv, TypeOK, CharInv, NothingReordered,
                ScreenShowsCommand
<1>2. ASSUME NEW x \in Chars \cup {NoChar}, Type(x) PROVE IInv'
    BY <1>2, TypeKeeps
<1> QED
    BY <1>1, <1>2, IrqReadKeeps, IrqExitKeeps, GetCharKeeps, HandleCharKeeps, OtherKeeps
    DEF Next, UartHandler, GetCommand

\* The inductive invariant holds of every run.
THEOREM Invariance == Spec => []IInv
<1>1. Init => IInv
    BY InitIInv
<1>2. IInv /\ [Next]_vars => IInv'
    BY NextIInv
<1> QED
    BY <1>1, <1>2, PTL DEF Spec

\* Every variable has its type.
THEOREM TypeCorrect == Spec => []TypeOK
<1>1. IInv => TypeOK
    BY DEF IInv
<1> QED
    BY <1>1, Invariance, PTL

\* Whatever the user types, whenever the handler runs, the console gets the characters
\* received, each once and in order, until the ring overruns.
THEOREM NothingReorderedAlways == Spec => []NothingReordered
<1>1. IInv => NothingReordered
    BY DEF IInv
<1> QED
    BY <1>1, Invariance, PTL

\* The command is what the user sees of it, whatever is typed and erased.
THEOREM ScreenShowsCommandAlways == Spec => []ScreenShowsCommand
<1>1. IInv => ScreenShowsCommand
    BY DEF IInv
<1> QED
    BY <1>1, Invariance, PTL

-----------------------------------------------------------------------------
(* The ring refines DropOldest. *)

LEMMA UartIsRing ==
    ASSUME IInv
    PROVE  uart \in Ring /\ Characters(uart) \in Seq(Chars) /\ Len(Characters(uart)) = uart.len
<1>1. uart \in Ring
    BY DEF IInv, TypeOK, Ring, Receivable
<1> QED
    BY <1>1, CharactersType DEF IInv, CharInv

\* The handler's write is a put.
LEMMA IrqReadPuts == IInv /\ IrqRead => Queue!Next
<1> SUFFICES ASSUME IInv, IrqRead PROVE Queue!Next
    OBVIOUS
<1>1. PICK x \in Chars : x = uart_get
    <2>1. fifo # <<>> /\ fifo \in Seq(Chars \cup {NoChar}) /\ uart_get = Head(fifo)
        BY DEF IInv, TypeOK, IrqRead, uart_get
    <2>2. Head(fifo) \in Chars \cup {NoChar}
        BY <2>1, HeadTailProperties
    <2> QED
        BY <2>1, <2>2 DEF IrqRead
<1>2. uart \in Ring /\ Len(Characters(uart)) = uart.len
    BY UartIsRing
<1>3. Characters(uart')
        = Append(IF uart.len < UART_BUFFER_SIZE THEN Characters(uart)
                 ELSE Tail(Characters(uart)), x)
    <2>1. uart' = uart_buffer_write(uart, x)
        BY <1>1 DEF IrqRead
    <2> QED
        BY <1>2, <2>1, WriteAppends DEF Receivable
<1>4. c' = c
    BY DEF IrqRead, console_vars
<1>5. Queue!Put(x)
    BY <1>2, <1>3, <1>4, Zenon DEF Queue!Put
<1> QED
    BY <1>5 DEF Queue!Next

\* The console's read is a take.
LEMMA GetCharTakes == IInv /\ GetChar => Queue!Next
<1> SUFFICES ASSUME IInv, GetChar PROVE Queue!Next
    OBVIOUS
<1>1. uart \in Ring /\ (uart.len = 0 <=> Characters(uart) = <<>>)
    BY UartIsRing, CharactersType
<1>2. c' = uart_get_buffered(uart) /\ uart' = uart_after_get(uart)
    BY DEF GetChar
<1>3. CASE uart.len = 0
    <2>1. Characters(uart') = Characters(uart) /\ c' = NoChar
        BY <1>1, <1>2, <1>3, GetTakes
    <2> QED
        BY <1>1, <1>3, <2>1 DEF Queue!Next, Queue!TakeNone
<1>4. CASE uart.len # 0
    <2>1. Characters(uart') = Tail(Characters(uart)) /\ c' = Head(Characters(uart))
        BY <1>1, <1>2, <1>4, GetTakes
    <2> QED
        BY <1>1, <1>4, <2>1 DEF Queue!Next, Queue!Take
<1> QED
    BY <1>3, <1>4

\* The firmware's ring, its interrupt handler and sbi_getchar together are a bounded queue
\* that drops its oldest character.
THEOREM RingIsQueue == Spec => QueueSpec
<1>1. Init => Queue!Init
    BY EmptyUartIsEmpty DEF Init, Queue!Init
<1>2. IInv /\ [Next]_vars => [Queue!Next]_(Queue!vars)
    <2> SUFFICES ASSUME IInv, [Next]_vars PROVE [Queue!Next]_(Queue!vars)
        OBVIOUS
    <2>1. CASE IrqRead
        BY <2>1, IrqReadPuts
    <2>2. CASE GetChar
        BY <2>2, GetCharTakes
    <2>3. CASE ~IrqRead /\ ~GetChar
        <3>1. uart' = uart /\ c' = c
            BY <2>3 DEF Next, vars, uart_vars, console_vars, IrqEnter, OtherIrq, UartHandler,
                        GetCommand, IrqExit, ClearBuffer, Wfi, handle_char, HandleCommand, Type
        <3> QED
            BY <3>1 DEF Queue!vars
    <2> QED
        BY <2>1, <2>2, <2>3
<1> QED
    BY <1>1, <1>2, Invariance, PTL DEF Spec, QueueSpec, Queue!Spec
=============================================================================
