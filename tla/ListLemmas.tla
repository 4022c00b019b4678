----------------------------- MODULE ListLemmas -----------------------------
(***************************************************************************)
(* What the models' operators on data do, for data of any size: the lists  *)
(* of list.c (InsertAt and RemoveFirst of SequencesExt on a duplicate-free *)
(* list), the rings of uart.c and input.c as windows of an array, indices  *)
(* kept modulo a power of two, and induction over the naturals.            *)
(***************************************************************************)
EXTENDS Integers, Sequences, SequencesExt, SequenceTheorems, WellFoundedInduction, TLAPS

\* Every non-empty set of naturals has a least element, and Min is it.
LEMMA MinOfNaturals ==
    ASSUME NEW S \in SUBSET Nat, S # {}
    PROVE  Min(S) \in S /\ \A y \in S : Min(S) <= y
<1>1. \E x \in S : \A y \in S : ~ (<<y, x>> \in OpToRel(<, Nat))
    BY WFMin, NatLessThanWellFounded
<1>2. ASSUME NEW x \in Nat, NEW y \in Nat, y < x
      PROVE  <<y, x>> \in OpToRel(<, Nat)
    <2>1. <<y, x>> \in Nat \X Nat /\ <<y, x>>[1] < <<y, x>>[2]
        BY <1>2
    <2> QED
        BY <2>1, Zenon DEF OpToRel
<1>3. \E x \in S : \A y \in S : x <= y
    <2>1. PICK x \in S : \A y \in S : ~ (<<y, x>> \in OpToRel(<, Nat))
        BY <1>1
    <2>2. ASSUME NEW y \in S PROVE x <= y
        <3>1. ~ (y < x)
            BY <2>1, <1>2
        <3> QED
            BY <3>1
    <2> QED
        BY <2>2
<1> QED
    BY <1>3 DEF Min

\* Induction over the naturals, the claim being the set of the numbers it is true of.
LEMMA InductionOverNat ==
    ASSUME NEW S, 0 \in S, \A n \in Nat : n \in S => n + 1 \in S
    PROVE  \A n \in Nat : n \in S
<1> DEFINE T == Nat \ S
<1>1. SUFFICES ASSUME T # {} PROVE FALSE
    OBVIOUS
<1>2. Min(T) \in T /\ \A y \in T : Min(T) <= y
    BY <1>1, MinOfNaturals
<1>3. PICK m \in T : \A y \in T : m <= y
    BY <1>2
<1>4. m \in Nat \ {0} /\ m - 1 \in Nat /\ m - 1 \notin T
    BY <1>3
<1> QED
    BY <1>3, <1>4

IsAppended(t, s, e) == t = Append(s, e)

\* Appending to a concatenation appends to its second part.
LEMMA AppendToConcat ==
    ASSUME NEW S, NEW s \in Seq(S), NEW t \in Seq(S), NEW e \in S
    PROVE  IsAppended(s \o Append(t, e), s \o t, e)
<1> DEFINE a == Append(s \o t, e)
           b == s \o Append(t, e)
<1>1. /\ s \o t \in Seq(S) /\ Len(s \o t) = Len(s) + Len(t)
      /\ \A i \in 1 .. Len(s) + Len(t) :
            (s \o t)[i] = IF i <= Len(s) THEN s[i] ELSE t[i - Len(s)]
      /\ Len(s) \in Nat /\ Len(t) \in Nat
    BY ConcatProperties, LenProperties
<1>2. /\ a \in Seq(S) /\ Len(a) = Len(s) + Len(t) + 1
      /\ a[Len(s) + Len(t) + 1] = e
      /\ \A i \in 1 .. Len(s) + Len(t) : a[i] = (s \o t)[i]
    BY <1>1, AppendProperties
<1>3. /\ Append(t, e) \in Seq(S) /\ Len(Append(t, e)) = Len(t) + 1
      /\ Append(t, e)[Len(t) + 1] = e
      /\ \A i \in 1 .. Len(t) : Append(t, e)[i] = t[i]
    BY <1>1, AppendProperties
<1>4. /\ b \in Seq(S) /\ Len(b) = Len(s) + Len(t) + 1
      /\ \A i \in 1 .. Len(s) + Len(t) + 1 :
            b[i] = IF i <= Len(s) THEN s[i] ELSE Append(t, e)[i - Len(s)]
    BY <1>1, <1>3, ConcatProperties
<1> HIDE DEF a, b
<1>5. ASSUME NEW i \in 1 .. Len(s) + Len(t) + 1 PROVE a[i] = b[i]
    <2>1. CASE i <= Len(s)
        <3>1. i \in 1 .. Len(s) + Len(t)
            BY <1>1, <2>1
        <3>2. a[i] = s[i]
            BY <1>1, <1>2, <2>1, <3>1
        <3>3. b[i] = s[i]
            BY <1>4, <2>1
        <3> QED
            BY <3>2, <3>3
    <2>2. CASE i > Len(s) /\ i < Len(s) + Len(t) + 1
        <3>1. i - Len(s) \in 1 .. Len(t) /\ i \in 1 .. Len(s) + Len(t) /\ ~(i <= Len(s))
            BY <1>1, <2>2
        <3>2. a[i] = t[i - Len(s)]
            BY <1>1, <1>2, <3>1
        <3>3. b[i] = t[i - Len(s)]
            BY <1>3, <1>4, <3>1
        <3> QED
            BY <3>2, <3>3
    <2>3. CASE i = Len(s) + Len(t) + 1
        <3>1. i - Len(s) = Len(t) + 1 /\ ~(i <= Len(s))
            BY <1>1, <2>3
        <3> QED
            BY <1>2, <1>3, <1>4, <2>3, <3>1
    <2> QED
        BY <1>1, <2>1, <2>2, <2>3
<1>6. a = b
    BY <1>1, <1>2, <1>4, <1>5, SeqEqual
<1> QED
    BY <1>6 DEF a, b, IsAppended

\* A sequence without its last element.
LEMMA FrontType ==
    ASSUME NEW S, NEW s \in Seq(S), s # <<>>
    PROVE  Front(s) \in Seq(S) /\ Len(Front(s)) = Len(s) - 1
           /\ \A i \in 1 .. Len(s) - 1 : Front(s)[i] = s[i]
<1>1. Len(s) \in Nat \ {0} /\ \A i \in 1 .. Len(s) - 1 : s[i] \in S
    BY EmptySeq, ElementOfSeq
<1> DEFINE n == Len(s) - 1
<1>2. n \in Nat /\ n \in Int /\ 1 \in Int
    BY <1>1
<1>3. /\ SubSeq(s, 1, n) \in Seq(S)
      /\ Len(SubSeq(s, 1, n)) = IF 1 <= n THEN n - 1 + 1 ELSE 0
      /\ \A i \in 1 .. n - 1 + 1 : SubSeq(s, 1, n)[i] = s[1 + i - 1]
    <2> HIDE DEF n
    <2> QED
        BY <1>1, <1>2, SubSeqProperties DEF n
<1>4. Front(s) = SubSeq(s, 1, n)
    BY DEF Front
<1> HIDE DEF n
<1>5. /\ (IF 1 <= n THEN n - 1 + 1 ELSE 0) = n
      /\ \A i \in 1 .. n : i \in 1 .. n - 1 + 1 /\ 1 + i - 1 = i
    BY <1>2
<1>6. Front(s) \in Seq(S) /\ Len(Front(s)) = n /\ \A i \in 1 .. n : Front(s)[i] = s[i]
    BY <1>3, <1>4, <1>5
<1> QED
    BY <1>6 DEF n

\* Removing the last element of a concatenation removes that of its second part.
LEMMA FrontOfConcat ==
    ASSUME NEW S, NEW s \in Seq(S), NEW t \in Seq(S), t # <<>>
    PROVE  Front(s \o t) = s \o Front(t) /\ s \o t # <<>>
<1> DEFINE st == s \o t
           a == Front(st)
           b == s \o Front(t)
<1>1. /\ st \in Seq(S) /\ Len(st) = Len(s) + Len(t)
      /\ \A i \in 1 .. Len(s) + Len(t) : st[i] = IF i <= Len(s) THEN s[i] ELSE t[i - Len(s)]
      /\ Len(s) \in Nat /\ Len(t) \in Nat \ {0}
    BY ConcatProperties, LenProperties, EmptySeq
<1>2. st # <<>>
    BY <1>1, EmptySeq
<1> HIDE DEF st
<1>3. a \in Seq(S) /\ Len(a) = Len(st) - 1 /\ \A i \in 1 .. Len(st) - 1 : a[i] = st[i]
    BY <1>1, <1>2, FrontType
<1>4. /\ Front(t) \in Seq(S) /\ Len(Front(t)) = Len(t) - 1
      /\ \A i \in 1 .. Len(t) - 1 : Front(t)[i] = t[i]
    BY FrontType
<1>5. /\ b \in Seq(S) /\ Len(b) = Len(s) + Len(t) - 1
      /\ \A i \in 1 .. Len(s) + Len(t) - 1 :
            b[i] = IF i <= Len(s) THEN s[i] ELSE Front(t)[i - Len(s)]
    <2>1. /\ b \in Seq(S) /\ Len(b) = Len(s) + Len(Front(t))
          /\ \A i \in 1 .. Len(s) + Len(Front(t)) :
                b[i] = IF i <= Len(s) THEN s[i] ELSE Front(t)[i - Len(s)]
        BY <1>4, ConcatProperties
    <2>2. Len(s) + Len(Front(t)) = Len(s) + Len(t) - 1
        BY <1>1, <1>4
    <2> HIDE DEF b
    <2> QED
        BY <2>1, <2>2
<1> HIDE DEF a, b
<1>6. ASSUME NEW i \in 1 .. Len(s) + Len(t) - 1 PROVE a[i] = b[i]
    <2>1. CASE i <= Len(s)
        BY <1>1, <1>3, <1>5, <2>1
    <2>2. CASE i > Len(s)
        <3>1. /\ i - Len(s) \in 1 .. Len(t) - 1 /\ ~(i <= Len(s))
              /\ i \in 1 .. Len(st) - 1 /\ i \in 1 .. Len(s) + Len(t)
            BY <1>1, <2>2
        <3>2. a[i] = t[i - Len(s)]
            BY <1>1, <1>3, <3>1
        <3>3. b[i] = t[i - Len(s)]
            BY <1>4, <1>5, <3>1
        <3> QED
            BY <3>2, <3>3
    <2> QED
        BY <1>1, <2>1, <2>2
<1>7. a = b
    BY <1>1, <1>3, <1>5, <1>6, SeqEqual
<1> QED
    BY <1>2, <1>7 DEF a, b, st

\* A sequence with an element inserted: its length and its elements.
LEMMA InsertAtElements ==
    ASSUME NEW S, NEW l \in Seq(S), NEW e \in S, NEW i \in 1 .. Len(l) + 1
    PROVE  /\ InsertAt(l, i, e) \in Seq(S)
           /\ Len(InsertAt(l, i, e)) = Len(l) + 1
           /\ \A k \in 1 .. Len(l) + 1 :
                InsertAt(l, i, e)[k] = IF k < i THEN l[k]
                                       ELSE IF k = i THEN e ELSE l[k - 1]
<1>0. Len(l) \in Nat
    BY LenProperties
<1> DEFINE a == SubSeq(l, 1, i - 1)
           b == SubSeq(l, i, Len(l))
<1>1. /\ a \in Seq(S) /\ Len(a) = i - 1
      /\ \A k \in 1 .. i - 1 : a[k] = l[k]
    <2>1. \A k \in 1 .. i - 1 : l[k] \in S
        BY <1>0, ElementOfSeq
    <2> QED
        BY <2>1, SubSeqProperties, <1>0
<1>2. /\ b \in Seq(S) /\ Len(b) = Len(l) - i + 1
      /\ \A k \in 1 .. Len(l) - i + 1 : b[k] = l[i + k - 1]
    <2>1. \A k \in i .. Len(l) : l[k] \in S
        BY ElementOfSeq, <1>0
    <2> QED
        BY <2>1, SubSeqProperties, <1>0
<1>3. /\ <<e>> \in Seq(S) /\ Len(<<e>>) = 1 /\ <<e>>[1] = e
    OBVIOUS
<1> HIDE DEF a, b
<1> DEFINE ae == a \o <<e>>
<1>4. /\ ae \in Seq(S) /\ Len(ae) = i
      /\ \A k \in 1 .. i : ae[k] = IF k < i THEN l[k] ELSE e
    BY <1>1, <1>3, ConcatProperties
<1> HIDE DEF ae
<1> DEFINE r == ae \o b
<1>c. /\ r \in Seq(S) /\ Len(r) = Len(ae) + Len(b)
      /\ \A k \in 1 .. Len(ae) + Len(b) :
            r[k] = IF k <= Len(ae) THEN ae[k] ELSE b[k - Len(ae)]
    BY <1>2, <1>4, ConcatProperties, Zenon
<1>6. InsertAt(l, i, e) = r
    BY DEF InsertAt, ae, a, b
<1> HIDE DEF r
<1>5. /\ r \in Seq(S) /\ Len(r) = Len(l) + 1
      /\ \A k \in 1 .. Len(l) + 1 : r[k] = IF k <= i THEN ae[k] ELSE b[k - i]
    BY <1>0, <1>2, <1>4, <1>c
<1>7. ASSUME NEW k \in 1 .. Len(l) + 1
      PROVE  r[k] = IF k < i THEN l[k] ELSE IF k = i THEN e ELSE l[k - 1]
    <2>1. CASE k <= i
        BY <2>1, <1>4, <1>5
    <2>2. CASE k > i
        <3>1. k - i \in 1 .. Len(l) - i + 1
            BY <2>2, <1>0
        <3>2. b[k - i] = l[i + (k - i) - 1]
            BY <3>1, <1>2
        <3> QED
            BY <2>2, <3>2, <1>5, <1>0
    <2> QED
        BY <2>1, <2>2, <1>0
<1> QED
    BY <1>5, <1>6, <1>7

\* A sequence with an element removed: its length and its elements.
LEMMA RemoveAtElements ==
    ASSUME NEW S, NEW l \in Seq(S), NEW i \in 1 .. Len(l)
    PROVE  /\ RemoveAt(l, i) \in Seq(S)
           /\ Len(RemoveAt(l, i)) = Len(l) - 1
           /\ \A k \in 1 .. Len(l) - 1 :
                RemoveAt(l, i)[k] = IF k < i THEN l[k] ELSE l[k + 1]
<1>0. Len(l) \in Nat
    BY LenProperties
<1> DEFINE a == SubSeq(l, 1, i - 1)
           b == SubSeq(l, i + 1, Len(l))
<1>1. /\ a \in Seq(S) /\ Len(a) = i - 1
      /\ \A k \in 1 .. i - 1 : a[k] = l[k]
    <2>1. \A k \in 1 .. i - 1 : l[k] \in S
        BY <1>0, ElementOfSeq
    <2> QED
        BY <2>1, SubSeqProperties, <1>0
<1>2. /\ b \in Seq(S) /\ Len(b) = Len(l) - i
      /\ \A k \in 1 .. Len(l) - i : b[k] = l[i + k]
    <2>1. \A k \in i + 1 .. Len(l) : l[k] \in S
        BY ElementOfSeq, <1>0
    <2> QED
        BY <2>1, SubSeqProperties, <1>0
<1> HIDE DEF a, b
<1> DEFINE r == a \o b
<1>c. /\ r \in Seq(S) /\ Len(r) = Len(a) + Len(b)
      /\ \A k \in 1 .. Len(a) + Len(b) :
            r[k] = IF k <= Len(a) THEN a[k] ELSE b[k - Len(a)]
    BY <1>1, <1>2, ConcatProperties, Zenon
<1>4. RemoveAt(l, i) = r
    BY DEF RemoveAt, a, b
<1> HIDE DEF r
<1>3. /\ r \in Seq(S) /\ Len(r) = Len(l) - 1
      /\ \A k \in 1 .. Len(l) - 1 :
            r[k] = IF k <= i - 1 THEN a[k] ELSE b[k - (i - 1)]
    BY <1>0, <1>1, <1>2, <1>c
<1>5. ASSUME NEW k \in 1 .. Len(l) - 1
      PROVE  r[k] = IF k < i THEN l[k] ELSE l[k + 1]
    <2>1. CASE k < i
        BY <2>1, <1>1, <1>3
    <2>2. CASE k >= i
        <3>1. k - (i - 1) \in 1 .. Len(l) - i
            BY <2>2, <1>0
        <3>2. b[k - (i - 1)] = l[i + (k - (i - 1))]
            BY <3>1, <1>2
        <3> QED
            BY <2>2, <3>2, <1>3, <1>0
    <2> QED
        BY <2>1, <2>2, <1>0
<1> QED
    BY <1>3, <1>4, <1>5

\* Inserting a new element adds it to the range and duplicates nothing.
LEMMA InsertAtRange ==
    ASSUME NEW S, NEW l \in Seq(S), NEW e \in S, NEW i \in 1 .. Len(l) + 1,
           IsInjective(l), e \notin Range(l)
    PROVE  /\ IsInjective(InsertAt(l, i, e))
           /\ Range(InsertAt(l, i, e)) = Range(l) \cup {e}
<1> DEFINE r == InsertAt(l, i, e)
<1>0. Len(l) \in Nat /\ DOMAIN l = 1 .. Len(l)
    BY LenProperties
<1>1. /\ r \in Seq(S)
      /\ Len(r) = Len(l) + 1
      /\ \A k \in 1 .. Len(l) + 1 :
            r[k] = IF k < i THEN l[k] ELSE IF k = i THEN e ELSE l[k - 1]
    BY InsertAtElements
<1>2. DOMAIN r = 1 .. Len(l) + 1
    BY <1>1, LenProperties
<1> HIDE DEF r
<1>3. \A k \in 1 .. Len(l) : l[k] # e
    BY <1>0 DEF Range
<1>4. IsInjective(r)
    <2> SUFFICES ASSUME NEW x \in 1 .. Len(l) + 1, NEW y \in 1 .. Len(l) + 1, r[x] = r[y]
                 PROVE  x = y
        BY <1>2 DEF IsInjective
    <2> DEFINE At(k) == IF k < i THEN k ELSE k - 1
    <2>1. \A u, v \in 1 .. Len(l) : l[u] = l[v] => u = v
        BY <1>0 DEF IsInjective
    <2>2. \A k \in 1 .. Len(l) + 1 : k # i => At(k) \in 1 .. Len(l) /\ r[k] = l[At(k)]
        BY <1>0, <1>1
    <2>3. r[i] = e
        BY <1>0, <1>1
    <2>4. \A j, k \in 1 .. Len(l) + 1 : j # i /\ k # i /\ At(j) = At(k) => j = k
        BY <1>0
    <2> HIDE DEF At
    <2>5. x # i => r[x] # e
        BY <1>3, <2>2
    <2>6. y # i => r[y] # e
        BY <1>3, <2>2
    <2>7. CASE x # i /\ y # i
        BY <2>1, <2>2, <2>4, <2>7
    <2> QED
        BY <2>3, <2>5, <2>6, <2>7
<1>5. ASSUME NEW v \in Range(r) PROVE v \in Range(l) \cup {e}
    <2>1. PICK k \in 1 .. Len(l) + 1 : v = r[k]
        BY <1>2, <1>5 DEF Range
    <2>2. /\ k < i => k \in 1 .. Len(l)
          /\ k > i => k - 1 \in 1 .. Len(l)
        BY <1>0
    <2>3. \A u \in 1 .. Len(l) : l[u] \in Range(l)
        BY <1>0 DEF Range
    <2>4. v = IF k < i THEN l[k] ELSE IF k = i THEN e ELSE l[k - 1]
        BY <1>1, <2>1
    <2>5. k < i \/ k = i \/ k > i
        BY <1>0
    <2> QED
        BY <2>2, <2>3, <2>4, <2>5
<1>6. ASSUME NEW v \in Range(l) \cup {e} PROVE v \in Range(r)
    <2>1. CASE v = e
        <3>1. r[i] = e /\ i \in 1 .. Len(l) + 1
            BY <1>0, <1>1
        <3> QED
            BY <2>1, <3>1, <1>2 DEF Range
    <2>2. CASE v # e
        <3>1. PICK k \in 1 .. Len(l) : v = l[k]
            BY <1>0, <1>6, <2>2 DEF Range
        <3>2. k + 1 \in 1 .. Len(l) + 1 /\ k \in 1 .. Len(l) + 1
            BY <1>0
        <3>3. (k < i => r[k] = v) /\ (k >= i => r[k + 1] = v)
            BY <1>0, <1>1, <3>1, <3>2
        <3>4. k < i \/ k >= i
            BY <1>0
        <3> QED
            BY <3>2, <3>3, <3>4, <1>2 DEF Range
    <2> QED
        BY <2>1, <2>2
<1> QED
    BY <1>4, <1>5, <1>6 DEF r

\* Removing an element that occurs once: it leaves the range, nothing else does,
\* nothing is duplicated, and what stays keeps its order.
LEMMA RemoveFirstRange ==
    ASSUME NEW S, NEW l \in Seq(S), NEW e, IsInjective(l)
    PROVE  /\ RemoveFirst(l, e) \in Seq(S)
           /\ IsInjective(RemoveFirst(l, e))
           /\ Range(RemoveFirst(l, e)) = Range(l) \ {e}
           /\ \A x, y \in 1 .. Len(RemoveFirst(l, e)) : x < y =>
                \E u, v \in 1 .. Len(l) : /\ u < v
                                          /\ RemoveFirst(l, e)[x] = l[u]
                                          /\ RemoveFirst(l, e)[y] = l[v]
<1>0. Len(l) \in Nat /\ DOMAIN l = 1 .. Len(l)
    BY LenProperties
<1>a. \A u, v \in 1 .. Len(l) : l[u] = l[v] => u = v
    BY <1>0 DEF IsInjective
<1>1. CASE ~ \E i \in 1 .. Len(l) : l[i] = e
    <2>1. RemoveFirst(l, e) = l
        BY <1>1 DEF RemoveFirst
    <2>2. e \notin Range(l)
        BY <1>0, <1>1 DEF Range
    <2> QED
        BY <2>1, <2>2
<1>2. CASE \E i \in 1 .. Len(l) : l[i] = e
    <2>1. PICK i \in 1 .. Len(l) : l[i] = e
        BY <1>2
    <2>2. {k \in 1 .. Len(l) : l[k] = e} = {i}
        BY <1>a, <2>1
    <2>3. Min({i}) = i
        BY <1>0 DEF Min
    <2>4. SelectInSeq(l, LAMBDA v : v = e) = i
        BY <2>2, <2>3 DEF SelectInSeq
    <2> DEFINE r == RemoveFirst(l, e)
    <2>5. r = RemoveAt(l, i)
        BY <2>1, <2>4 DEF RemoveFirst
    <2>6. /\ r \in Seq(S)
          /\ Len(r) = Len(l) - 1
          /\ \A k \in 1 .. Len(l) - 1 : r[k] = IF k < i THEN l[k] ELSE l[k + 1]
        BY <2>5, RemoveAtElements
    <2>7. DOMAIN r = 1 .. Len(l) - 1
        BY <2>6, LenProperties
    <2> HIDE DEF r
    <2> DEFINE At(k) == IF k < i THEN k ELSE k + 1
    <2>8. \A k \in 1 .. Len(l) - 1 : At(k) \in 1 .. Len(l) /\ At(k) # i /\ r[k] = l[At(k)]
        BY <1>0, <2>6
    <2>9. \A x, y \in 1 .. Len(l) - 1 : x < y <=> At(x) < At(y)
        BY <1>0
    <2>10. IsInjective(r)
        <3> SUFFICES ASSUME NEW x \in 1 .. Len(l) - 1, NEW y \in 1 .. Len(l) - 1, r[x] = r[y]
                     PROVE  x = y
            BY <2>7 DEF IsInjective
        <3>1. At(x) = At(y)
            BY <1>a, <2>8
        <3> QED
            BY <1>0, <3>1
    <2>11. ASSUME NEW v \in Range(r) PROVE v \in Range(l) \ {e}
        <3>1. PICK k \in 1 .. Len(l) - 1 : v = r[k]
            BY <2>7, <2>11 DEF Range
        <3>2. v = l[At(k)] /\ At(k) \in 1 .. Len(l) /\ At(k) # i
            BY <2>8, <3>1
        <3> HIDE DEF At
        <3> QED
            BY <1>0, <1>a, <2>1, <3>2 DEF Range
    <2>12. ASSUME NEW v \in Range(l) \ {e} PROVE v \in Range(r)
        <3>1. PICK k \in 1 .. Len(l) : v = l[k]
            BY <1>0, <2>12 DEF Range
        <3>2. k # i
            BY <2>1, <2>12, <3>1
        <3>3. CASE k < i
            <4>1. k \in 1 .. Len(l) - 1 /\ r[k] = v
                BY <1>0, <2>6, <3>1, <3>3
            <4> QED
                BY <4>1, <2>7 DEF Range
        <3>4. CASE k > i
            <4>1. k - 1 \in 1 .. Len(l) - 1 /\ r[k - 1] = v
                BY <1>0, <2>6, <3>1, <3>4
            <4> QED
                BY <4>1, <2>7 DEF Range
        <3> QED
            BY <1>0, <3>2, <3>3, <3>4
    <2>13. ASSUME NEW x \in 1 .. Len(r), NEW y \in 1 .. Len(r), x < y
           PROVE  \E u, v \in 1 .. Len(l) : u < v /\ r[x] = l[u] /\ r[y] = l[v]
        <3>1. x \in 1 .. Len(l) - 1 /\ y \in 1 .. Len(l) - 1
            BY <2>6, <2>13
        <3>2. /\ At(x) \in 1 .. Len(l) /\ r[x] = l[At(x)]
              /\ At(y) \in 1 .. Len(l) /\ r[y] = l[At(y)]
              /\ At(x) < At(y)
            BY <2>8, <2>9, <2>13, <3>1
        <3> HIDE DEF At
        <3> QED
            BY <3>2
    <2>14. Range(r) = Range(l) \ {e}
        BY <2>11, <2>12
    <2> QED
        BY <2>6, <2>10, <2>13, <2>14 DEF r
<1> QED
    BY <1>1, <1>2

-----------------------------------------------------------------------------
(* Remainders.                                                                *)

\* Numbers that differ by a multiple have the same remainder.
LEMMA ModCongruent ==
    ASSUME NEW N \in Nat \ {0}, NEW x \in Int, NEW k \in Int
    PROVE  (k * N + x) % N = x % N
<1>1. PICK q \in Int, r \in 0 .. N - 1 : x = q * N + r /\ x % N = r
    OBVIOUS
<1>2. k * N + x = (k + q) * N + r
    BY <1>1
<1>3. \A p \in Int : (p * N + r) % N = r
    OBVIOUS
<1> QED
    BY <1>1, <1>2, <1>3

\* An index kept modulo M, where N divides M, is good for an array of N.
LEMMA ModOfIndex ==
    ASSUME NEW N \in Nat \ {0}, NEW M \in Nat \ {0}, M % N = 0, NEW x \in Int, NEW k \in Int
    PROVE  ((x % M) + k) % N = (x + k) % N
<1>1. PICK m \in Int : M = m * N
    <2>1. PICK m \in Int, z \in 0 .. N - 1 : M = m * N + z /\ M % N = z
        OBVIOUS
    <2> QED
        BY <2>1
<1>2. PICK q \in Int, r \in 0 .. M - 1 : x = q * M + r /\ x % M = r
    OBVIOUS
<1>4. PICK n \in Int : n = q * m
    OBVIOUS
<1>5. q * M = n * N
    <2>1. q * (m * N) = (q * m) * N
        OBVIOUS
    <2> QED
        BY <1>1, <1>4, <2>1
<1>7. PICK y \in Int : y = r + k
    OBVIOUS
<1>6. x + k = n * N + y
    <2>1. PICK a \in Int : a = q * M /\ a = n * N
        BY <1>5
    <2> QED
        BY <1>2, <1>7, <2>1
<1>8. (n * N + y) % N = y % N
    BY <1>7, ModCongruent
<1> QED
    BY <1>2, <1>6, <1>7, <1>8

LEMMA ModTwice ==
    ASSUME NEW N \in Nat \ {0}, NEW M \in Nat \ {0}, M % N = 0, NEW x \in Int
    PROVE  (x % M) % N = x % N
<1>1. PICK r \in 0 .. M - 1, k \in Int : r = x % M /\ k = 0
    OBVIOUS
<1>2. ((x % M) + k) % N = (x + k) % N
    BY ModOfIndex
<1>3. r + k = r /\ x + k = x
    BY <1>1
<1> QED
    BY <1>1, <1>2, <1>3

\* Such an index moved on by one is the number moved on by one.
LEMMA ModStep ==
    ASSUME NEW M \in Nat \ {0}, NEW x \in Int
    PROVE  ((x % M) + 1) % M = (x + 1) % M
<1>1. PICK q \in Int, r \in 0 .. M - 1 : x = q * M + r /\ x % M = r
    OBVIOUS
<1>2. PICK y \in Int : y = r + 1
    OBVIOUS
<1>3. (q * M + y) % M = y % M
    BY ModCongruent
<1>4. x + 1 = q * M + y
    BY <1>1, <1>2
<1> QED
    BY <1>1, <1>2, <1>3, <1>4

\* How far two such indices are apart, if less than M.
LEMMA ModDifference ==
    ASSUME NEW M \in Nat \ {0}, NEW x \in Int, NEW y \in Int, y - x \in 0 .. M - 1
    PROVE  ((y % M) - (x % M)) % M = y - x
<1>0. \A z \in Int : \E q \in Int, r \in 0 .. M - 1 : z = q * M + r /\ z % M = r
    OBVIOUS
<1>1. PICK q \in Int, r \in 0 .. M - 1 : x = q * M + r /\ x % M = r
    BY <1>0
<1>2. PICK p \in Int, s \in 0 .. M - 1 : y = p * M + s /\ y % M = s
    BY <1>0
<1>4. PICK k \in Int : k = q - p
    OBVIOUS
<1>5. PICK d \in 0 .. M - 1 : d = y - x
    OBVIOUS
<1>6. s - r = k * M + d
    <2>1. (q - p) * M = q * M - p * M
        OBVIOUS
    <2>2. k * M = q * M - p * M
        BY <1>4, <2>1
    <2> QED
        BY <1>1, <1>2, <1>5, <2>2
<1>7. (k * M + d) % M = d
    OBVIOUS
<1> QED
    BY <1>1, <1>2, <1>5, <1>6, <1>7

\* Different numbers less than N apart have different remainders.
LEMMA ModApart ==
    ASSUME NEW N \in Nat \ {0}, NEW x \in Int, NEW y \in Int, y - x \in 1 .. N - 1
    PROVE  x % N # y % N
<1>1. PICK r \in 0 .. N - 1, s \in 0 .. N - 1 : r = x % N /\ s = y % N
    OBVIOUS
<1>2. ((y % N) - (x % N)) % N = y - x
    <2>1. y - x \in 0 .. N - 1
        OBVIOUS
    <2> QED
        BY <2>1, ModDifference
<1>3. r = s => s - r = 0 /\ 0 % N = 0
    OBVIOUS
<1> QED
    BY <1>1, <1>2, <1>3
-----------------------------------------------------------------------------
(* Rings: n places of a buffer of N from place i on, wrapping round.          *)

Window(b, i, n, N) == [k \in 1 .. n |-> b[(i + k - 1) % N]]

\* A remainder is known once the quotient is.
LEMMA ModOnce ==
    ASSUME NEW N \in Nat \ {0}, NEW x \in 0 .. 2 * N - 1
    PROVE  x % N = IF x < N THEN x ELSE x - N
<1> QED
    OBVIOUS

\* A window is a sequence.
LEMMA WindowType ==
    ASSUME NEW N \in Nat \ {0}, NEW V, NEW b \in [0 .. N - 1 -> V],
           NEW i \in 0 .. N - 1, NEW n \in Nat
    PROVE  Window(b, i, n, N) \in Seq(V) /\ Len(Window(b, i, n, N)) = n
<1>1. \A k \in 1 .. n : (i + k - 1) % N \in 0 .. N - 1
    OBVIOUS
<1>2. Window(b, i, n, N) \in [1 .. n -> V]
    BY <1>1 DEF Window
<1> QED
    BY <1>2

\* Writing the place after a window that leaves one free appends to it.
LEMMA WindowAppend ==
    ASSUME NEW N \in Nat \ {0}, NEW V, NEW b \in [0 .. N - 1 -> V],
           NEW i \in 0 .. N - 1, NEW n \in 0 .. N - 1, NEW v \in V,
           NEW c \in [0 .. N - 1 -> V], c[(i + n) % N] = v,
           \A k \in 0 .. N - 1 : k # (i + n) % N => c[k] = b[k]
    PROVE  IsAppended(Window(c, i, n + 1, N), Window(b, i, n, N), v)
<1> DEFINE w == Window(c, i, n + 1, N)
           a == Append(Window(b, i, n, N), v)
<1>1. (i + n) % N \in 0 .. N - 1 /\ n + 1 \in Nat
    OBVIOUS
<1>2. \A d \in [0 .. N - 1 -> V], m \in Nat :
          Window(d, i, m, N) \in Seq(V) /\ Len(Window(d, i, m, N)) = m
    BY WindowType
<1>3. w \in Seq(V) /\ Len(w) = n + 1
    BY <1>1, <1>2
<1>4. Window(b, i, n, N) \in Seq(V) /\ Len(Window(b, i, n, N)) = n
    BY <1>2, n \in Nat
<1>5. a \in Seq(V) /\ Len(a) = n + 1
    BY <1>4, AppendProperties
<1>6. ASSUME NEW k \in 1 .. n + 1 PROVE w[k] = a[k]
    <2>1. PICK x \in 0 .. 2 * N - 1, y \in 0 .. 2 * N - 1 : x = i + k - 1 /\ y = i + n
        OBVIOUS
    <2>2. /\ x % N = IF x < N THEN x ELSE x - N
          /\ y % N = IF y < N THEN y ELSE y - N
        BY ModOnce
    <2>3. w[k] = c[x % N]
        BY <2>1 DEF Window
    <2>4. x % N \in 0 .. N - 1
        OBVIOUS
    <2>5. CASE k = n + 1
        <3>1. a[k] = v
            BY <1>4, <2>5, AppendProperties
        <3>2. c[y % N] = v /\ x = y
            BY <1>1, <2>1, <2>3, <2>5
        <3> QED
            BY <2>3, <3>1, <3>2
    <2>6. CASE k \in 1 .. n
        <3>1. a[k] = b[x % N]
            BY <1>4, <2>1, <2>6, AppendProperties DEF Window
        <3>2. x % N # y % N
            BY <2>1, <2>2, <2>6
        <3> QED
            BY <2>3, <2>4, <3>1, <3>2
    <2>7. k = n + 1 \/ k \in 1 .. n
        OBVIOUS
    <2> QED
        BY <2>5, <2>6, <2>7
<1> HIDE DEF w, a
<1>7. w = a
    BY <1>3, <1>5, <1>6, SeqEqual
<1> QED
    BY <1>7 DEF w, a, IsAppended

\* Moving the start of a window on by one takes its head.
LEMMA WindowTail ==
    ASSUME NEW N \in Nat \ {0}, NEW V, NEW b \in [0 .. N - 1 -> V],
           NEW i \in 0 .. N - 1, NEW n \in 1 .. N
    PROVE  /\ Window(b, i, n, N) # <<>>
           /\ Head(Window(b, i, n, N)) = b[i]
           /\ Window(b, (i + 1) % N, n - 1, N) = Tail(Window(b, i, n, N))
<1> DEFINE j == (i + 1) % N
           w == Window(b, i, n, N)
           t == Window(b, j, n - 1, N)
<1>1. j \in 0 .. N - 1 /\ n \in Nat /\ n - 1 \in Nat
    OBVIOUS
<1>2. \A e \in 0 .. N - 1, m \in Nat :
          Window(b, e, m, N) \in Seq(V) /\ Len(Window(b, e, m, N)) = m
    BY WindowType
<1>3. j = IF i + 1 < N THEN i + 1 ELSE 0
    <2>1. PICK x \in 0 .. 2 * N - 1 : x = i + 1
        OBVIOUS
    <2>2. x % N = IF x < N THEN x ELSE x - N
        BY ModOnce
    <2> QED
        BY <2>1, <2>2
<1> HIDE DEF j
<1>4. /\ w \in Seq(V) /\ Len(w) = n
      /\ t \in Seq(V) /\ Len(t) = n - 1
    BY <1>1, <1>2
<1>5. w[1] = b[i]
    <2>1. (i + 1 - 1) % N = i /\ 1 \in 1 .. n
        OBVIOUS
    <2> QED
        BY <2>1 DEF Window
<1>6. ASSUME NEW k \in 1 .. n - 1 PROVE t[k] = w[k + 1]
    <2>1. PICK x \in 0 .. 2 * N - 1, y \in 0 .. 2 * N - 1 : x = j + k - 1 /\ y = i + k
        BY <1>1
    <2>2. /\ x % N = IF x < N THEN x ELSE x - N
          /\ y % N = IF y < N THEN y ELSE y - N
        BY ModOnce
    <2>3. x % N = y % N
        BY <1>3, <2>1, <2>2
    <2>4. t[k] = b[x % N] /\ w[k + 1] = b[y % N]
        BY <2>1 DEF Window
    <2> QED
        BY <2>3, <2>4
<1> HIDE DEF w, t
<1>7. /\ w # <<>> /\ Head(w) = b[i] /\ Tail(w) \in Seq(V) /\ Len(Tail(w)) = n - 1
      /\ \A k \in 1 .. n - 1 : Tail(w)[k] = w[k + 1]
    BY <1>4, <1>5, HeadTailProperties
<1>8. t = Tail(w)
    BY <1>4, <1>6, <1>7, SeqEqual
<1> QED
    BY <1>7, <1>8 DEF w, t, j
=============================================================================
