---------------------------- MODULE MemoryProofs -----------------------------
(***************************************************************************)
(* TypeOK, ExtentsKept and HeapTiled of Memory, for any number of pages,   *)
(* harts and processes, tables of any shape and blocks of any size: first  *)
(* whose each page is, then what the heap's blocks tile, then the pages    *)
(* behind them, and last what the tables hold.                             *)
(***************************************************************************)
EXTENDS Memory, ListLemmas, FiniteSetTheorems

-----------------------------------------------------------------------------
(* The page bits. *)

\* g: the size of each allocation.  The bits say what g says.
Sized(bk, g) ==
    /\ DOMAIN g \subseteq Pages
    /\ \A p \in DOMAIN g : g[p] \in Nat \ {0} /\ p + g[p] <= NUM_PAGES
    /\ \A p, q \in DOMAIN g : p < q => p + g[p] <= q
    /\ \A i \in Pages : bk[i].taken <=> \E p \in DOMAIN g : p <= i /\ i < p + g[p]
    /\ \A p \in DOMAIN g : \A i \in Pages :
          p <= i /\ i < p + g[p] => (bk[i].last <=> i = p + g[p] - 1)

MinIs(S, x) == x \in S /\ \A y \in S : x <= y

LEMMA MinIsMin ==
    ASSUME NEW S \in SUBSET Int, NEW x, MinIs(S, x)
    PROVE  Min(S) = x
<1>1. Min(S) = CHOOSE z \in S : \A y \in S : z <= y
    BY DEF Min
<1>2. \E z \in S : \A y \in S : z <= y
    BY DEF MinIs
<1>3. Min(S) \in S /\ \A y \in S : Min(S) <= y
    BY <1>1, <1>2
<1>4. PICK m \in Int : m = Min(S)
    BY <1>3
<1>5. m <= x /\ x <= m /\ x \in Int
    BY <1>3, <1>4 DEF MinIs
<1> QED
    BY <1>4, <1>5

LEMMA MaxOfBounded ==
    ASSUME NEW S \in SUBSET Int, NEW b \in Int, S # {}, \A x \in S : x <= b
    PROVE  Max(S) \in S /\ \A x \in S : x <= Max(S)
<1> DEFINE D == {n \in Nat : b - n \in S}
<1>1. D \in SUBSET Nat /\ D # {}
    <2>1. PICK x \in S : x <= b
        OBVIOUS
    <2>2. b - x \in Nat /\ b - (b - x) = x
        BY <2>1
    <2> QED
        BY <2>2
<1>2. Min(D) \in D /\ \A y \in D : Min(D) <= y
    <2> HIDE DEF D
    <2> QED
        BY <1>1, MinOfNaturals
<1>3. \E z \in S : \A x \in S : x <= z
    <2>1. b - Min(D) \in S
        BY <1>2
    <2>2. ASSUME NEW x \in S PROVE x <= b - Min(D)
        <3>1. b - x \in D
            <4>1. b - x \in Nat /\ b - (b - x) = x
                OBVIOUS
            <4> QED
                BY <4>1
        <3> QED
            BY <1>2, <3>1
    <2> QED
        BY <2>1, <2>2
<1>4. Max(S) = CHOOSE z \in S : \A x \in S : x <= z
    BY Zenon DEF Max
<1> QED
    BY <1>3, <1>4

LEMMA PagesAre ==
    Pages = 0 .. NUM_PAGES - 1 /\ NUM_PAGES \in Nat \ {0} /\ NULL = -1 /\ NULL \notin Pages
BY NumPagesAssumption DEF Pages, NULL

\* page_dealloc finds the whole allocation from its first page.
LEMMA NumPagesOf ==
    ASSUME NEW bk \in Bookkeeping, NEW g, Sized(bk, g), NEW p \in DOMAIN g
    PROVE  get_num_pages(bk, p) = g[p]
<1> DEFINE stops == {i \in p .. NUM_PAGES - 1 : ~ bk[i].taken \/ bk[i].last}
           e == p + g[p] - 1
<1>1. /\ p \in Pages /\ p \in Int /\ g[p] \in Nat \ {0} /\ e \in Pages /\ e \in p .. NUM_PAGES - 1
      /\ stops \in SUBSET Int
    BY PagesAre DEF Sized
<1>2. bk[e].taken /\ bk[e].last
    BY <1>1, PagesAre DEF Sized
<1>3. ASSUME NEW i \in stops PROVE e <= i
    <2>1. i \in Pages /\ p <= i /\ (~ bk[i].taken \/ bk[i].last)
        BY <1>1, PagesAre
    <2> HIDE DEF stops
    <2>2. SUFFICES ASSUME i < p + g[p] - 1 PROVE FALSE
        BY <1>1, <2>1, PagesAre
    <2>3. p <= i /\ i < p + g[p] /\ i # p + g[p] - 1
        BY <1>1, <2>1, <2>2, PagesAre
    <2>4. bk[i].taken /\ ~ bk[i].last
        BY <2>1, <2>3 DEF Sized
    <2> QED
        BY <2>1, <2>4
<1>4. MinIs(stops, e)
    BY <1>1, <1>2, <1>3 DEF MinIs
<1>5. Min(stops) = e /\ stops # {}
    <2> HIDE DEF stops, e
    <2> QED
        BY <1>1, <1>4, MinIsMin DEF MinIs
<1>6. get_num_pages(bk, p) = IF stops = {} THEN -1
                             ELSE IF bk[Min(stops)].taken THEN Min(stops) - p + 1
                             ELSE IF Min(stops) = p THEN 0 ELSE -1
    BY DEF get_num_pages
<1>7. get_num_pages(bk, p) = e - p + 1
    <2> HIDE DEF stops, e
    <2> QED
        BY <1>2, <1>5, <1>6
<1> QED
    BY <1>1, <1>7

\* What page_alloc finds is free.
LEMMA AllocFree ==
    ASSUME NEW bk \in Bookkeeping, NEW n \in Nat \ {0}, page_alloc(bk, n) # NULL
    PROVE  /\ page_alloc(bk, n) \in Pages /\ page_alloc(bk, n) + n <= NUM_PAGES
           /\ \A i \in Pages : page_alloc(bk, n) <= i /\ i < page_alloc(bk, n) + n => ~ bk[i].taken
<1> DEFINE fits == {i \in Pages : NumFound(bk, i) = n}
           i0 == Min(fits)
           before == {-1} \cup {j \in 0 .. i0 : bk[j].taken}
<1>1. fits # {} /\ page_alloc(bk, n) = i0 - n + 1
    BY DEF page_alloc
<1>2. i0 \in fits
    <2>1. fits \in SUBSET Nat
        BY PagesAre
    <2> HIDE DEF fits
    <2> QED
        BY <1>1, <2>1, MinOfNaturals
<1>3. i0 \in Pages /\ i0 - Max(before) = n
    <2> HIDE DEF i0
    <2> QED
        BY <1>2 DEF NumFound
<1> HIDE DEF fits, i0
<1>4. Max(before) \in before /\ \A x \in before : x <= Max(before)
    <2>1. before \in SUBSET Int /\ i0 \in Int /\ before # {} /\ \A x \in before : x <= i0
        BY <1>3, PagesAre
    <2> HIDE DEF before
    <2> QED
        BY <2>1, MaxOfBounded
<1>5. PICK m \in Int : m = Max(before) /\ m >= -1 /\ m <= i0
    <2>1. i0 \in Nat /\ \A x \in before : x \in Int /\ x >= -1 /\ x <= i0
        BY <1>3, PagesAre
    <2> HIDE DEF before
    <2> QED
        BY <1>4, <2>1
<1>6. ASSUME NEW i \in Pages, m < i, i <= i0 PROVE ~ bk[i].taken
    <2>1. i \in 0 .. i0
        BY <1>6, PagesAre
    <2>2. i \notin before
        BY <1>4, <1>5, <1>6, PagesAre
    <2> QED
        BY <2>1, <2>2
<1>7. page_alloc(bk, n) = m + 1 /\ i0 = m + n /\ i0 < NUM_PAGES
    BY <1>1, <1>3, <1>5, PagesAre
<1> HIDE DEF before
<1> QED
    BY <1>5, <1>6, <1>7, PagesAre

\* The bits of an allocation of n pages at p.
LEMMA TakenIs ==
    ASSUME NEW bk \in Bookkeeping, NEW p \in Pages, NEW n \in Nat \ {0}
    PROVE  /\ Taken(bk, p, n) \in Bookkeeping
           /\ \A i \in Pages : Taken(bk, p, n)[i] = IF p <= i /\ i < p + n
                                                    THEN [taken |-> TRUE, last |-> i = p + n - 1]
                                                    ELSE bk[i]
<1> DEFINE both == {p, p + n - 1}
           e == Max(both)
<1>1. p \in Nat /\ p + n - 1 \in Int /\ p <= p + n - 1
    BY PagesAre
<1>2. PICK m \in Int : m = e /\ m \in both /\ \A x \in both : x <= m
    <2>1. both \in SUBSET Int /\ both # {} /\ \A x \in both : x <= p + n - 1
        BY <1>1
    <2> HIDE DEF both
    <2> HIDE DEF both
    <2>2. e \in both /\ \A x \in both : x <= e
        <3>1. PICK b \in Int : \A x \in both : x <= b
            BY <1>1, <2>1
        <3> QED
            BY <2>1, <3>1, MaxOfBounded
    <2>3. e \in Int
        BY <2>1, <2>2
    <2> HIDE DEF e
    <2> QED
        BY <2>2, <2>3
<1>3. e = p + n - 1
    <2>1. m = p + n - 1
        BY <1>1, <1>2
    <2> HIDE DEF e
    <2> QED
        BY <1>2, <2>1
<1>4. Taken(bk, p, n) = [i \in Pages |-> IF i \in p .. e THEN [taken |-> TRUE, last |-> i = e]
                                                         ELSE bk[i]]
    BY DEF Taken
<1> HIDE DEF e
<1>5. \A i \in Pages : i \in p .. e <=> p <= i /\ i < p + n
    BY <1>1, <1>3, PagesAre
<1>6. \A i \in Pages : Taken(bk, p, n)[i] = IF p <= i /\ i < p + n
                                            THEN [taken |-> TRUE, last |-> i = p + n - 1]
                                            ELSE bk[i]
    BY <1>3, <1>4, <1>5
<1>7. ASSUME NEW i \in Pages
      PROVE  (IF i \in p .. e THEN [taken |-> TRUE, last |-> i = e] ELSE bk[i])
                 \in [taken : BOOLEAN, last : BOOLEAN]
    BY DEF Bookkeeping
<1>8. Taken(bk, p, n) \in Bookkeeping
    BY <1>4, <1>7 DEF Bookkeeping
<1> QED
    BY <1>6, <1>8

\* An allocation of free pages.
LEMMA TakenSized ==
    ASSUME NEW bk \in Bookkeeping, NEW g, Sized(bk, g),
           NEW p \in Pages, NEW n \in Nat \ {0}, p + n <= NUM_PAGES,
           \A i \in Pages : p <= i /\ i < p + n => ~ bk[i].taken
    PROVE  Sized(Taken(bk, p, n), Set(g, p, n))
<1> DEFINE b == Taken(bk, p, n)
           h == Set(g, p, n)
<1>1. \A i \in Pages : b[i] = IF p <= i /\ i < p + n
                              THEN [taken |-> TRUE, last |-> i = p + n - 1] ELSE bk[i]
    BY TakenIs
<1>2. DOMAIN h = DOMAIN g \cup {p} /\ \A q \in DOMAIN h : h[q] = IF q = p THEN n ELSE g[q]
    BY DEF Set
<1> HIDE DEF b, h
<1>3. /\ DOMAIN g \subseteq Pages
      /\ \A q \in DOMAIN g : q \in Nat /\ g[q] \in Nat \ {0} /\ q + g[q] <= NUM_PAGES
      /\ \A q, r \in DOMAIN g : q < r => q + g[q] <= r
      /\ \A i \in Pages : bk[i].taken <=> \E q \in DOMAIN g : q <= i /\ i < q + g[q]
    BY PagesAre DEF Sized
<1>4. ASSUME NEW q \in DOMAIN g
      PROVE  q # p /\ (q < p => q + g[q] <= p) /\ (p < q => p + n <= q)
    <2>1. q \in Pages /\ bk[q].taken
        BY <1>3
    <2>2. q < p \/ p + n <= q
        BY <2>1, PagesAre
    <2>3. ~ bk[p].taken
        BY PagesAre
    <2>4. ~ (q <= p /\ p < q + g[q])
        BY <1>3, <2>3
    <2> QED
        BY <1>3, <2>2, <2>4, PagesAre
<1>5. DOMAIN h \subseteq Pages
    BY <1>2, <1>3
<1>6. \A q \in DOMAIN h : h[q] \in Nat \ {0} /\ q + h[q] <= NUM_PAGES
    BY <1>2, <1>3
<1>7. \A q, r \in DOMAIN h : q < r => q + h[q] <= r
    <2> TAKE q, r \in DOMAIN h
    <2>1. CASE q = p /\ r = p
        BY <2>1, PagesAre
    <2>2. CASE q = p /\ r # p
        BY <1>2, <1>4, <2>2
    <2>3. CASE q # p /\ r = p
        BY <1>2, <1>4, <2>3
    <2>4. CASE q # p /\ r # p
        BY <1>2, <1>3, <2>4
    <2> QED
        BY <2>1, <2>2, <2>3, <2>4
<1>8. ASSUME NEW i \in Pages
      PROVE  b[i].taken <=> \E q \in DOMAIN h : q <= i /\ i < q + h[q]
    <2>1. CASE p <= i /\ i < p + n
        <3>1. b[i].taken = TRUE
            <4>1. b[i] = [taken |-> TRUE, last |-> i = p + n - 1]
                BY <1>1, <2>1
            <4> QED
                BY <4>1
        <3>2. p \in DOMAIN h /\ h[p] = n
            BY <1>2
        <3> QED
            BY <2>1, <3>1, <3>2
    <2>2. CASE ~ (p <= i /\ i < p + n)
        <3>1. b[i] = bk[i]
            BY <1>1, <2>2
        <3>2. (\E q \in DOMAIN h : q <= i /\ i < q + h[q])
                  <=> \E q \in DOMAIN g : q <= i /\ i < q + g[q]
            BY <1>2, <1>4, <2>2
        <3> QED
            BY <1>3, <3>1, <3>2
    <2> QED
        BY <2>1, <2>2
<1>9. ASSUME NEW q \in DOMAIN h, NEW i \in Pages, q <= i, i < q + h[q]
      PROVE  b[i].last <=> i = q + h[q] - 1
    <2>1. CASE q = p
        <3>1. p <= i /\ i < p + n /\ h[q] = n
            BY <1>2, <1>9, <2>1
        <3>2. b[i] = [taken |-> TRUE, last |-> i = p + n - 1]
            BY <1>1, <3>1
        <3>3. b[i].last <=> i = p + n - 1
            <4>1. b[i].last = (i = p + n - 1)
                BY <3>2
            <4> QED
                BY <4>1
        <3> QED
            BY <2>1, <3>1, <3>3
    <2>2. CASE q # p
        <3>1. q \in DOMAIN g /\ h[q] = g[q]
            BY <1>2, <2>2
        <3>2. ~ (p <= i /\ i < p + n)
            BY <1>3, <1>4, <1>9, <3>1, PagesAre
        <3>3. b[i] = bk[i]
            BY <1>1, <3>2
        <3> QED
            BY <1>9, <3>1, <3>3 DEF Sized
    <2> QED
        BY <2>1, <2>2
<1> QED
    BY <1>5, <1>6, <1>7, <1>8, <1>9 DEF Sized, b, h

\* page_dealloc gives back the allocation at p, and no other.
LEMMA DeallocSized ==
    ASSUME NEW bk \in Bookkeeping, NEW g, Sized(bk, g), NEW p \in DOMAIN g
    PROVE  /\ page_dealloc(bk, p) \in Bookkeeping
           /\ Sized(page_dealloc(bk, p), [q \in DOMAIN g \ {p} |-> g[q]])
<1> DEFINE b == page_dealloc(bk, p)
           h == [q \in DOMAIN g \ {p} |-> g[q]]
<1>1. /\ DOMAIN g \subseteq Pages
      /\ \A q \in DOMAIN g : q \in Nat /\ g[q] \in Nat \ {0} /\ q + g[q] <= NUM_PAGES
      /\ \A q, r \in DOMAIN g : q < r => q + g[q] <= r
      /\ \A i \in Pages : bk[i].taken <=> \E q \in DOMAIN g : q <= i /\ i < q + g[q]
    BY PagesAre DEF Sized
<1>2. b = [i \in Pages |-> IF i \in p .. p + g[p] - 1 THEN [bk[i] EXCEPT !.taken = FALSE]
                                                      ELSE bk[i]]
    BY NumPagesOf DEF page_dealloc
<1>3. \A i \in Pages : bk[i] \in [taken : BOOLEAN, last : BOOLEAN]
    BY DEF Bookkeeping
<1>4. b \in Bookkeeping
    BY <1>2, <1>3 DEF Bookkeeping
<1>5. \A i \in Pages : i \in p .. p + g[p] - 1 <=> p <= i /\ i < p + g[p]
    BY <1>1, PagesAre
<1>6. \A i \in Pages : /\ b[i].last = bk[i].last
                       /\ b[i].taken <=> bk[i].taken /\ ~ (p <= i /\ i < p + g[p])
    BY <1>2, <1>3, <1>5
<1>7. DOMAIN h = DOMAIN g \ {p} /\ \A q \in DOMAIN h : h[q] = g[q]
    OBVIOUS
<1> HIDE DEF b, h
<1>8. ASSUME NEW i \in Pages, NEW q \in DOMAIN g, q # p, q <= i, i < q + g[q]
      PROVE  ~ (p <= i /\ i < p + g[p])
    <2>1. q < p \/ p < q
        BY <1>1, <1>8
    <2>2. q + g[q] <= p \/ p + g[p] <= q
        BY <1>1, <2>1
    <2> QED
        BY <1>1, <1>8, <2>2, PagesAre
<1>9. ASSUME NEW i \in Pages
      PROVE  b[i].taken <=> \E q \in DOMAIN h : q <= i /\ i < q + h[q]
    <2>1. CASE p <= i /\ i < p + g[p]
        BY <1>6, <1>7, <1>8, <2>1
    <2>2. CASE ~ (p <= i /\ i < p + g[p])
        BY <1>1, <1>6, <1>7, <2>2
    <2> QED
        BY <2>1, <2>2
<1>10. \A q \in DOMAIN h : \A i \in Pages :
           q <= i /\ i < q + h[q] => (b[i].last <=> i = q + h[q] - 1)
    BY <1>6, <1>7 DEF Sized
<1>11. DOMAIN h \subseteq Pages /\ \A q \in DOMAIN h : h[q] \in Nat \ {0} /\ q + h[q] <= NUM_PAGES
    BY <1>1, <1>7
<1>12. \A q, r \in DOMAIN h : q < r => q + h[q] <= r
    BY <1>1, <1>7
<1>13. Sized(b, h)
    BY <1>9, <1>10, <1>11, <1>12 DEF Sized
<1> QED
    BY <1>4, <1>13 DEF b, h

\* From bk to b some single pages were taken.
Grown(bk, b) ==
    /\ b \in Bookkeeping
    /\ \A i \in Pages : IF bk[i].taken THEN b[i] = bk[i] ELSE b[i].taken => b[i].last
Since(bk, b) == {i \in Pages : b[i].taken /\ ~ bk[i].taken}

LEMMA GrownSized ==
    ASSUME NEW bk \in Bookkeeping, NEW g, Sized(bk, g), NEW b, Grown(bk, b)
    PROVE  Sized(b, Grant(Since(bk, b), g))
<1> DEFINE h == Grant(Since(bk, b), g)
           s == Since(bk, b)
<1>1. /\ DOMAIN g \subseteq Pages
      /\ \A q \in DOMAIN g : q \in Nat /\ g[q] \in Nat \ {0} /\ q + g[q] <= NUM_PAGES
      /\ \A q, r \in DOMAIN g : q < r => q + g[q] <= r
      /\ \A i \in Pages : bk[i].taken <=> \E q \in DOMAIN g : q <= i /\ i < q + g[q]
    BY PagesAre DEF Sized
<1>2. DOMAIN h = s \cup DOMAIN g /\ \A q \in DOMAIN h : h[q] = IF q \in DOMAIN g THEN g[q] ELSE 1
    BY DEF Grant
<1>3. s \subseteq Pages /\ \A q \in s : q \in Nat /\ ~ bk[q].taken /\ q \notin DOMAIN g
    BY <1>1, PagesAre DEF Since
<1> HIDE DEF h
<1>4. ASSUME NEW q \in DOMAIN g, NEW i \in s PROVE ~ (q <= i /\ i < q + g[q])
    BY <1>1, <1>3
<1>5. DOMAIN h \subseteq Pages /\ \A q \in DOMAIN h : h[q] \in Nat \ {0} /\ q + h[q] <= NUM_PAGES
    BY <1>1, <1>2, <1>3, PagesAre
<1>6. \A q, r \in DOMAIN h : q < r => q + h[q] <= r
    <2> TAKE q, r \in DOMAIN h
    <2>1. CASE q \in DOMAIN g /\ r \in DOMAIN g
        BY <1>1, <1>2, <2>1
    <2>2. CASE q \in DOMAIN g /\ r \in s
        BY <1>1, <1>2, <1>3, <1>4, <2>2
    <2>3. CASE q \in s
        BY <1>1, <1>2, <1>3, <2>3
    <2> QED
        BY <1>2, <2>1, <2>2, <2>3
<1>7. ASSUME NEW i \in Pages
      PROVE  b[i].taken <=> \E q \in DOMAIN h : q <= i /\ i < q + h[q]
    <2>1. CASE bk[i].taken
        <3>1. b[i].taken
            BY <2>1 DEF Grown
        <3> QED
            BY <1>1, <1>2, <2>1, <3>1
    <2>2. CASE ~ bk[i].taken
        <3>1. b[i].taken <=> i \in s
            BY <2>2 DEF Since
        <3>2. i \in s => \E q \in DOMAIN h : q <= i /\ i < q + h[q]
            BY <1>2, <1>3
        <3>3. ASSUME NEW q \in DOMAIN h, q <= i, i < q + h[q] PROVE i \in s
            <4>1. q \notin DOMAIN g
                BY <1>1, <1>2, <2>2, <3>3
            <4>2. q \in s /\ h[q] = 1
                BY <1>2, <4>1
            <4> QED
                BY <1>3, <3>3, <4>2, PagesAre
        <3> QED
            BY <3>1, <3>2, <3>3
    <2> QED
        BY <2>1, <2>2
<1>8. ASSUME NEW q \in DOMAIN h, NEW i \in Pages, q <= i, i < q + h[q]
      PROVE  b[i].last <=> i = q + h[q] - 1
    <2>1. CASE q \in DOMAIN g
        <3>1. bk[i].taken /\ h[q] = g[q]
            BY <1>1, <1>2, <1>8, <2>1
        <3>2. b[i] = bk[i]
            BY <3>1 DEF Grown
        <3> QED
            BY <1>8, <2>1, <3>1, <3>2 DEF Sized
    <2>2. CASE q \notin DOMAIN g
        <3>1. q \in s /\ h[q] = 1 /\ i = q
            BY <1>2, <1>3, <1>8, <2>2, PagesAre
        <3>2. b[i].last
            BY <1>3, <3>1 DEF Grown, Since
        <3> QED
            BY <3>1, <3>2, PagesAre
    <2> QED
        BY <2>1, <2>2
<1> QED
    BY <1>5, <1>6, <1>7, <1>8 DEF Sized, h

LEMMA GrownTwice ==
    ASSUME NEW bk \in Bookkeeping, NEW b, Grown(bk, b), NEW c, Grown(b, c)
    PROVE  Grown(bk, c) /\ Since(bk, b) \subseteq Since(bk, c) /\ Since(b, c) \subseteq Since(bk, c)
<1>1. \A i \in Pages : bk[i].taken => b[i] = bk[i] /\ b[i].taken
    BY DEF Grown
<1>2. ASSUME NEW i \in Pages, ~ bk[i].taken, c[i].taken PROVE c[i].last
    BY <1>2 DEF Grown
<1>3. \A i \in Pages : b[i].taken => c[i] = b[i]
    BY DEF Grown
<1>4. Grown(bk, c)
    BY <1>1, <1>2, <1>3 DEF Grown
<1> QED
    BY <1>1, <1>3, <1>4 DEF Since

-----------------------------------------------------------------------------
(* Tables. *)

IsMemory(m) ==
    /\ m = [bk |-> m.bk, tables |-> m.tables, fault |-> m.fault]
    /\ m.bk \in Bookkeeping /\ m.fault \in BOOLEAN
    /\ m.tables = [p \in Pages |-> m.tables[p]]

\* The address spaces: the kernel's, NULL, and each process's.
Users == Procs \cup {NULL}

\* T: the pages that are tables of each space, and lev: the level of each.  What is left of
\* them points to tables of the same space one level below, and to pages from level 0 only.
Tabled(m, T, lev) ==
    /\ T \in [Users -> SUBSET Pages] /\ lev \in [Pages -> 0 .. LEVELS - 1]
    /\ \A u, v \in Users : u # v => T[u] \cap T[v] = {}
    /\ \A u \in Users : \A t \in T[u] :
          /\ m.bk[t].taken
          /\ \A k \in DOMAIN m.tables[t] :
                IF lev[t] = 0 THEN IsLeaf(m.tables[t][k])
                ELSE /\ ~ IsLeaf(m.tables[t][k])
                     /\ m.tables[t][k].ppn \in T[u]
                     /\ lev[m.tables[t][k].ppn] = lev[t] - 1

\* From m to m1 the space u got tables in pages that were free, and nothing else happened.
Mapped(u, m, T, lev, m1, T1, lev1) ==
    /\ IsMemory(m1) /\ Tabled(m1, T1, lev1) /\ Grown(m.bk, m1.bk)
    /\ \A v \in Users : v # u => T1[v] = T[v]
    /\ T[u] \subseteq T1[u] /\ T1[u] \subseteq T[u] \cup Since(m.bk, m1.bk)
    /\ \A v \in Users : \A t \in T[v] : lev1[t] = lev[t]
    /\ \A v \in Users : v # u => \A t \in T[v] : m1.tables[t] = m.tables[t]

LEMMA MappedSame ==
    ASSUME NEW m, NEW T, NEW lev, NEW u \in Users, IsMemory(m), Tabled(m, T, lev)
    PROVE  Mapped(u, m, T, lev, m, T, lev)
<1>1. Grown(m.bk, m.bk)
    BY DEF Grown, IsMemory
<1> QED
    BY <1>1 DEF Mapped

LEMMA MappedTwice ==
    ASSUME NEW m, NEW T, NEW lev, NEW u \in Users, IsMemory(m),
           NEW m1, NEW T1, NEW lev1, Mapped(u, m, T, lev, m1, T1, lev1),
           NEW m2, NEW T2, NEW lev2, Mapped(u, m1, T1, lev1, m2, T2, lev2)
    PROVE  Mapped(u, m, T, lev, m2, T2, lev2)
<1>1. /\ Grown(m.bk, m2.bk) /\ Since(m.bk, m1.bk) \subseteq Since(m.bk, m2.bk)
      /\ Since(m1.bk, m2.bk) \subseteq Since(m.bk, m2.bk)
    BY GrownTwice DEF Mapped, IsMemory
<1> QED
    BY <1>1 DEF Mapped

LEMMA TakenGrows ==
    ASSUME NEW bk \in Bookkeeping, NEW p \in Pages, ~ bk[p].taken
    PROVE  /\ Grown(bk, Taken(bk, p, 1)) /\ Taken(bk, p, 1)[p].taken
           /\ Taken(bk, p, 1)[p].last /\ p \in Since(bk, Taken(bk, p, 1))
<1> DEFINE b == Taken(bk, p, 1)
<1>1. b \in Bookkeeping /\ \A i \in Pages : b[i] = IF i = p THEN [taken |-> TRUE, last |-> TRUE]
                                                   ELSE bk[i]
    <2>1. /\ b \in Bookkeeping
          /\ \A i \in Pages : b[i] = IF p <= i /\ i < p + 1
                                     THEN [taken |-> TRUE, last |-> i = p + 1 - 1] ELSE bk[i]
        BY TakenIs
    <2>2. \A i \in Pages : p <= i /\ i < p + 1 <=> i = p
        BY PagesAre
    <2>3. (p = p + 1 - 1) = TRUE
        BY PagesAre
    <2> HIDE DEF b
    <2> QED
        BY <2>1, <2>2, <2>3
<1>2. b[p].taken = TRUE /\ b[p].last = TRUE
    <2> HIDE DEF b
    <2> QED
        BY <1>1
<1> HIDE DEF b
<1>3. \A i \in Pages : bk[i].taken => b[i] = bk[i]
    BY <1>1
<1>4. ASSUME NEW i \in Pages, ~ bk[i].taken, b[i].taken PROVE b[i].last
    BY <1>1, <1>2, <1>4
<1>5. Grown(bk, b)
    BY <1>1, <1>3, <1>4 DEF Grown
<1> QED
    BY <1>2, <1>5 DEF Since, b

LEMMA FaultIs ==
    ASSUME NEW m, IsMemory(m), NEW b \in BOOLEAN
    PROVE  LET r == [m EXCEPT !.fault = b] IN
           IsMemory(r) /\ r.bk = m.bk /\ r.tables = m.tables /\ r.fault = b
BY DEF IsMemory

LEMMA NothingOnZeroPage == DOMAIN ZeroPage = {}
BY DEF ZeroPage

\* zero_pages: a page is zeroed or stays as it was.
LEMMA ZeroedIs ==
    ASSUME NEW m, IsMemory(m), NEW p, NEW r, r = zero_pages(m, p)
    PROVE  /\ IsMemory(r) /\ r.bk = m.bk /\ r.fault = m.fault
           /\ \A q \in Pages : r.tables[q] \in {m.tables[q], ZeroPage}
           /\ p \in Pages /\ m.bk[p].taken /\ m.bk[p].last =>
                 /\ r.tables[p] = ZeroPage
                 /\ \A q \in Pages : q # p => r.tables[q] = m.tables[q]
           /\ \A q \in Pages : q \notin p .. p + get_num_pages(m.bk, p) - 1
                 => r.tables[q] = m.tables[q]
<1> DEFINE zeroed == p .. p + get_num_pages(m.bk, p) - 1
<1>1. r = [m EXCEPT !.tables = [q \in Pages |-> IF q \in zeroed THEN ZeroPage ELSE @[q]]]
    BY DEF zero_pages
<1> HIDE DEF zeroed
<1>2. /\ IsMemory(r) /\ r.bk = m.bk /\ r.fault = m.fault
      /\ \A q \in Pages : r.tables[q] = IF q \in zeroed THEN ZeroPage ELSE m.tables[q]
    BY <1>1 DEF IsMemory
<1>3. ASSUME p \in Pages, m.bk[p].taken, m.bk[p].last
      PROVE  p \in zeroed /\ \A q \in Pages : q # p => q \notin zeroed
    <2> DEFINE stops == {i \in p .. NUM_PAGES - 1 : ~ m.bk[i].taken \/ m.bk[i].last}
    <2>1. MinIs(stops, p) /\ stops \in SUBSET Int
        BY <1>3, PagesAre DEF MinIs
    <2>2. Min(stops) = p /\ stops # {}
        <3> HIDE DEF stops
        <3> QED
            BY <2>1, MinIsMin DEF MinIs
    <2>3. get_num_pages(m.bk, p) = IF stops = {} THEN -1
                                   ELSE IF m.bk[Min(stops)].taken THEN Min(stops) - p + 1
                                   ELSE IF Min(stops) = p THEN 0 ELSE -1
        BY DEF get_num_pages
    <2>4. get_num_pages(m.bk, p) = 1
        <3> HIDE DEF stops
        <3>1. get_num_pages(m.bk, p) = p - p + 1
            BY <1>3, <2>2, <2>3
        <3> QED
            BY <1>3, <3>1, PagesAre
    <2> QED
        BY <1>3, <2>4, PagesAre DEF zeroed
<1> QED
    BY <1>2, <1>3 DEF zeroed

LEMMA ZallocIs ==
    ASSUME NEW m, IsMemory(m), NEW p \in Pages, NEW n \in Nat \ {0}
    PROVE  LET r == page_zalloc(m, p, n) IN
           /\ IsMemory(r) /\ r.bk = Taken(m.bk, p, n) /\ r.fault = m.fault
           /\ \A q \in Pages : r.tables[q] \in {m.tables[q], ZeroPage}
           /\ n = 1 => r.tables[p] = ZeroPage /\ \A q \in Pages : q # p => r.tables[q] = m.tables[q]
           /\ \A q \in Pages : q \notin p .. p + get_num_pages(r.bk, p) - 1
                 => r.tables[q] = m.tables[q]
<1> DEFINE a == [m EXCEPT !.bk = Taken(@, p, n)]
<1>1. Taken(m.bk, p, n) \in Bookkeeping
    BY TakenIs DEF IsMemory
<1>2. IsMemory(a) /\ a.bk = Taken(m.bk, p, n) /\ a.fault = m.fault /\ a.tables = m.tables
    BY <1>1 DEF IsMemory
<1>3. ASSUME n = 1 PROVE a.bk[p].taken /\ a.bk[p].last
    <2>1. Taken(m.bk, p, n)[p] = IF p <= p /\ p < p + n
                                 THEN [taken |-> TRUE, last |-> p = p + n - 1] ELSE m.bk[p]
        BY TakenIs DEF IsMemory
    <2>2. Taken(m.bk, p, n)[p] = [taken |-> TRUE, last |-> TRUE]
        <3>1. p <= p /\ p < p + n /\ (p = p + n - 1) = TRUE
            BY <1>3, PagesAre
        <3> QED
            BY <2>1, <3>1
    <2>3. Taken(m.bk, p, n)[p].taken = TRUE /\ Taken(m.bk, p, n)[p].last = TRUE
        BY <2>2
    <2> HIDE DEF a
    <2> QED
        BY <1>2, <2>3
<1> HIDE DEF a
<1> DEFINE r == zero_pages(a, p)
<1>5. page_zalloc(m, p, n) = r
    BY DEF page_zalloc, a
<1>4. /\ IsMemory(r) /\ r.bk = a.bk /\ r.fault = a.fault
      /\ \A q \in Pages : r.tables[q] \in {a.tables[q], ZeroPage}
      /\ a.bk[p].taken /\ a.bk[p].last =>
            r.tables[p] = ZeroPage /\ \A q \in Pages : q # p => r.tables[q] = a.tables[q]
      /\ \A q \in Pages : q \notin p .. p + get_num_pages(a.bk, p) - 1
            => r.tables[q] = a.tables[q]
    <2>1. PICK y : y = zero_pages(a, p)
        OBVIOUS
    <2>2. IsMemory(y) /\ y.bk = a.bk /\ y.fault = a.fault
        BY <1>2, <2>1, ZeroedIs
    <2>3. \A q \in Pages : y.tables[q] \in {a.tables[q], ZeroPage}
        BY <1>2, <2>1, ZeroedIs
    <2>4. a.bk[p].taken /\ a.bk[p].last =>
             y.tables[p] = ZeroPage /\ \A q \in Pages : q # p => y.tables[q] = a.tables[q]
        BY <1>2, <2>1, ZeroedIs
    <2>5. \A q \in Pages : q \notin p .. p + get_num_pages(a.bk, p) - 1
             => y.tables[q] = a.tables[q]
        BY <1>2, <2>1, ZeroedIs
    <2> HIDE DEF r
    <2> QED
        BY <2>1, <2>2, <2>3, <2>4, <2>5 DEF r
<1> HIDE DEF r
<1>6. /\ IsMemory(r) /\ r.bk = Taken(m.bk, p, n) /\ r.fault = m.fault
      /\ \A q \in Pages : r.tables[q] \in {m.tables[q], ZeroPage}
    BY <1>2, <1>4 DEF r
<1>7. n = 1 => r.tables[p] = ZeroPage /\ \A q \in Pages : q # p => r.tables[q] = m.tables[q]
    BY <1>2, <1>3, <1>4 DEF r
<1>8. r.bk = a.bk
    BY <1>4 DEF r
<1>9. \A q \in Pages : q \notin p .. p + get_num_pages(r.bk, p) - 1
         => r.tables[q] = m.tables[q]
    BY <1>2, <1>4, <1>8 DEF r
<1> QED
    BY <1>5, <1>6, <1>7, <1>9 DEF r

\* Taking pages and zeroing some leaves the tables sound.
LEMMA TabledKept ==
    ASSUME NEW m, NEW T, NEW lev, Tabled(m, T, lev), NEW r,
           \A q \in Pages : m.bk[q].taken => r.bk[q].taken,
           \A q \in Pages : r.tables[q] \in {m.tables[q], ZeroPage}
    PROVE  Tabled(r, T, lev)
<1>1. ASSUME NEW u \in Users, NEW t \in T[u], NEW k \in DOMAIN r.tables[t]
      PROVE  k \in DOMAIN m.tables[t] /\ r.tables[t] = m.tables[t]
    BY NothingOnZeroPage DEF Tabled
<1> QED
    BY <1>1 DEF Tabled

\* A page that was free becomes a table without entries.
LEMMA FreshTable ==
    ASSUME NEW m, NEW T, NEW lev, Tabled(m, T, lev), NEW r,
           \A q \in Pages : m.bk[q].taken => r.bk[q].taken,
           \A q \in Pages : r.tables[q] \in {m.tables[q], ZeroPage},
           NEW p \in Pages, ~ m.bk[p].taken, r.bk[p].taken, r.tables[p] = ZeroPage,
           NEW u \in Users, NEW l \in 0 .. LEVELS - 1
    PROVE  /\ Tabled(r, [T EXCEPT ![u] = @ \cup {p}], [lev EXCEPT ![p] = l])
           /\ \A v \in Users : \A t \in T[v] : t # p
<1> DEFINE T1 == [T EXCEPT ![u] = @ \cup {p}]
           lev1 == [lev EXCEPT ![p] = l]
<1>1. Tabled(r, T, lev)
    BY TabledKept
<1>2. \A v \in Users : p \notin T[v]
    BY DEF Tabled
<1>3. /\ T1 \in [Users -> SUBSET Pages] /\ lev1 \in [Pages -> 0 .. LEVELS - 1]
      /\ \A v \in Users : T1[v] = IF v = u THEN T[v] \cup {p} ELSE T[v]
      /\ \A q \in Pages : lev1[q] = IF q = p THEN l ELSE lev[q]
    <2>1. T \in [Users -> SUBSET Pages] /\ lev \in [Pages -> 0 .. LEVELS - 1]
        BY DEF Tabled
    <2>2. T1 \in [Users -> SUBSET Pages]
        BY <2>1
    <2>3. lev1 \in [Pages -> 0 .. LEVELS - 1]
        BY <2>1
    <2>4. \A v \in Users : T1[v] = IF v = u THEN T[v] \cup {p} ELSE T[v]
        BY <2>1
    <2>5. \A q \in Pages : lev1[q] = IF q = p THEN l ELSE lev[q]
        BY <2>1
    <2> HIDE DEF T1, lev1
    <2> QED
        BY <2>2, <2>3, <2>4, <2>5
<1>4. /\ \A v, w \in Users : v # w => T[v] \cap T[w] = {}
      /\ \A v \in Users : T[v] \subseteq Pages
    BY DEF Tabled
<1> HIDE DEF T1, lev1
<1>5. \A v, w \in Users : v # w => T1[v] \cap T1[w] = {}
    BY <1>2, <1>3, <1>4
<1>6. ASSUME NEW v \in Users, NEW t \in T1[v]
      PROVE  /\ r.bk[t].taken
             /\ \A k \in DOMAIN r.tables[t] :
                   IF lev1[t] = 0 THEN IsLeaf(r.tables[t][k])
                   ELSE /\ ~ IsLeaf(r.tables[t][k])
                        /\ r.tables[t][k].ppn \in T1[v]
                        /\ lev1[r.tables[t][k].ppn] = lev1[t] - 1
    <2>1. CASE t = p
        BY <2>1, NothingOnZeroPage
    <2>2. CASE t # p
        <3>1. t \in T[v] /\ t \in Pages /\ lev1[t] = lev[t]
            BY <1>3, <1>4, <2>2
        <3>2. /\ r.bk[t].taken
              /\ \A k \in DOMAIN r.tables[t] :
                    IF lev[t] = 0 THEN IsLeaf(r.tables[t][k])
                    ELSE /\ ~ IsLeaf(r.tables[t][k])
                         /\ r.tables[t][k].ppn \in T[v]
                         /\ lev[r.tables[t][k].ppn] = lev[t] - 1
            BY <1>1, <3>1 DEF Tabled
        <3>3. \A q \in T[v] : q \in T1[v] /\ lev1[q] = lev[q]
            BY <1>2, <1>3, <1>4
        <3> QED
            BY <3>1, <3>2, <3>3
    <2> QED
        BY <2>1, <2>2
<1>7. Tabled(r, T1, lev1)
    BY <1>3, <1>5, <1>6 DEF Tabled
<1> QED
    BY <1>2, <1>7 DEF T1, lev1

\* A table gets an entry that fits its level.
WithEntry(m, t, k, e) == [m EXCEPT !.tables[t] = Set(@, k, e)]

LEMMA EntryAt ==
    ASSUME NEW m, IsMemory(m), NEW t \in Pages, NEW k, NEW e,
           NEW r, r = WithEntry(m, t, k, e)
    PROVE  /\ IsMemory(r) /\ r.bk = m.bk /\ r.fault = m.fault /\ r.tables[t] = Set(m.tables[t], k, e)
           /\ \A q \in Pages : q # t => r.tables[q] = m.tables[q]
    BY DEF IsMemory, WithEntry

LEMMA EntrySet ==
    ASSUME NEW m, IsMemory(m), NEW T, NEW lev, Tabled(m, T, lev),
           NEW u \in Users, NEW t \in T[u], NEW k, NEW e,
           IF lev[t] = 0 THEN IsLeaf(e)
           ELSE ~ IsLeaf(e) /\ e.ppn \in T[u] /\ lev[e.ppn] = lev[t] - 1,
           NEW r, r = WithEntry(m, t, k, e)
    PROVE  Tabled(r, T, lev)
<1>1. t \in Pages
    BY DEF Tabled
<1>2. /\ IsMemory(r) /\ r.bk = m.bk /\ r.fault = m.fault /\ r.tables[t] = Set(m.tables[t], k, e)
      /\ \A q \in Pages : q # t => r.tables[q] = m.tables[q]
    <2>1. IsMemory(r) /\ r.bk = m.bk
        BY <1>1, EntryAt
    <2>2. r.fault = m.fault
        BY <1>1, EntryAt
    <2>3. r.tables[t] = Set(m.tables[t], k, e)
        BY <1>1, EntryAt
    <2>4. \A q \in Pages : q # t => r.tables[q] = m.tables[q]
        BY <1>1, EntryAt
    <2> QED
        BY <2>1, <2>2, <2>3, <2>4
<1>3. ASSUME NEW x \in DOMAIN r.tables[t]
      PROVE  IF x = k THEN r.tables[t][x] = e
             ELSE x \in DOMAIN m.tables[t] /\ r.tables[t][x] = m.tables[t][x]
    BY <1>2, <1>3 DEF Set
<1>4. ASSUME NEW v \in Users, NEW s \in T[v], NEW x \in DOMAIN r.tables[s]
      PROVE  IF lev[s] = 0 THEN IsLeaf(r.tables[s][x])
             ELSE /\ ~ IsLeaf(r.tables[s][x])
                  /\ r.tables[s][x].ppn \in T[v]
                  /\ lev[r.tables[s][x].ppn] = lev[s] - 1
    <2>1. s \in Pages
        BY DEF Tabled
    <2>2. CASE s = t /\ x = k
        <3>1. u = v /\ r.tables[s][x] = e
            BY <1>3, <1>4, <2>2 DEF Tabled
        <3> QED
            BY <2>2, <3>1
    <2>3. CASE s = t /\ x # k
        <3>1. x \in DOMAIN m.tables[s] /\ r.tables[s][x] = m.tables[s][x]
            BY <1>3, <1>4, <2>3
        <3> QED
            BY <3>1 DEF Tabled
    <2>4. CASE s # t
        <3>1. r.tables[s] = m.tables[s]
            BY <1>2, <2>1, <2>4
        <3> QED
            BY <1>4, <3>1 DEF Tabled
    <2> QED
        BY <2>2, <2>3, <2>4
<1> QED
    BY <1>2, <1>4 DEF Tabled

-----------------------------------------------------------------------------
(* mmu_map and mmu_map_many. *)

\* Where the walk of mmu_map is when it has come down to level l.
WalkedTo(u, m, T, lev, w, l) ==
    /\ w = [mem |-> w.mem, tb |-> w.tb]
    /\ \E T1, lev1 : /\ Mapped(u, m, T, lev, w.mem, T1, lev1)
                     /\ ~ w.mem.fault => w.tb \in T1[u] /\ lev1[w.tb] = l

\* The three outcomes of a turn of mmu_map at a table of level i: it follows the entry, it does
\* not find a page, or it makes a table.
Fresh(u, m, T, lev, tb, k, i, r, new) ==
    LET T1   == [T EXCEPT ![u] = @ \cup {new}]
        lev1 == [lev EXCEPT ![new] = i - 1]
    IN  /\ new \in Pages /\ ~ m.bk[new].taken /\ k \notin DOMAIN m.tables[tb]
        /\ r.tb = new /\ r.mem.fault = m.fault
        /\ Mapped(u, m, T, lev, r.mem, T1, lev1)
        /\ r.mem.bk = Taken(m.bk, new, 1)
        /\ r.mem.tables[tb] = Set(m.tables[tb], k, Entry(new, {}))
        /\ r.mem.tables[new] = ZeroPage
        /\ \A q \in Pages : q # tb /\ q # new => r.mem.tables[q] = m.tables[q]

MapTurn(u, m, T, lev, tb, k, i, r) ==
    /\ r = [mem |-> r.mem, tb |-> r.tb]
    /\ \/ /\ k \in DOMAIN m.tables[tb] /\ r.mem = m /\ r.tb = m.tables[tb][k].ppn
          /\ r.tb \in T[u] /\ lev[r.tb] = i - 1
       \/ /\ r.mem.fault /\ Mapped(u, m, T, lev, r.mem, T, lev)
          /\ r.mem.bk = m.bk /\ r.mem.tables = m.tables /\ page_alloc(m.bk, 1) = NULL
       \/ \E new : Fresh(u, m, T, lev, tb, k, i, r, new)

LEMMA MapDownIs ==
    ASSUME NEW m, IsMemory(m), ~ m.fault, NEW T, NEW lev, Tabled(m, T, lev), NEW u \in Users,
           NEW i \in 1 .. LEVELS - 1, NEW vaddr, NEW tb \in T[u], lev[tb] = i
    PROVE  MapTurn(u, m, T, lev, tb, vpn(vaddr, i), i, MapDown([mem |-> m, tb |-> tb], vaddr, i))
<1> DEFINE w == [mem |-> m, tb |-> tb]
           table == m.tables[tb]
           k == vpn(vaddr, i)
           new == page_alloc(m.bk, 1)
           z == page_zalloc(m, new, 1)
           e == Entry(new, {})
           r == MapDown(w, vaddr, i)
<1>1. w.mem = m /\ w.tb = tb
    OBVIOUS
<1>2. m.bk \in Bookkeeping /\ tb \in Pages
    BY DEF Tabled, IsMemory
<1>3. i \in Nat /\ i # 0 /\ i - 1 \in 0 .. LEVELS - 1
    BY MmuAssumption
<1>4. r = IF k \in DOMAIN table THEN [w EXCEPT !.tb = table[k].ppn]
          ELSE IF new = NULL THEN [w EXCEPT !.mem = [@ EXCEPT !.fault = TRUE]]
          ELSE [mem |-> [z EXCEPT !.tables[tb] = Set(@, k, e)], tb |-> new]
    BY <1>1 DEF MapDown
<1> HIDE DEF r, k, new, z, e, table
<1>6. ASSUME k \in DOMAIN table
      PROVE  /\ r = [mem |-> r.mem, tb |-> r.tb] /\ r.mem = m /\ r.tb = table[k].ppn
             /\ r.tb \in T[u] /\ lev[r.tb] = i - 1
    <2>1. r = [mem |-> m, tb |-> table[k].ppn]
        BY <1>4, <1>6
    <2>2. r = [mem |-> r.mem, tb |-> r.tb] /\ r.mem = m /\ r.tb = table[k].ppn
        BY <2>1
    <2>3. table[k].ppn \in T[u] /\ lev[table[k].ppn] = i - 1
        BY <1>3, <1>6 DEF Tabled, table
    <2> QED
        BY <2>2, <2>3
<1>7. ASSUME k \notin DOMAIN table, new = NULL
      PROVE  /\ r = [mem |-> r.mem, tb |-> r.tb]
             /\ r.mem.fault /\ Mapped(u, m, T, lev, r.mem, T, lev)
             /\ r.mem.bk = m.bk /\ r.mem.tables = m.tables
    <2> DEFINE f == [m EXCEPT !.fault = TRUE]
    <2>1. r = [w EXCEPT !.mem = [@ EXCEPT !.fault = TRUE]]
        BY <1>4, <1>7
    <2>2. r = [mem |-> r.mem, tb |-> r.tb] /\ r.mem = f
        BY <2>1
    <2>3. IsMemory(f) /\ f.bk = m.bk /\ f.tables = m.tables /\ f.fault = TRUE
        BY FaultIs
    <2> HIDE DEF f
    <2>4. Tabled(f, T, lev)
        BY <2>3 DEF Tabled
    <2>5. Grown(m.bk, f.bk)
        BY <1>2, <2>3 DEF Grown
    <2>6. Mapped(u, m, T, lev, f, T, lev)
        BY <2>3, <2>4, <2>5 DEF Mapped
    <2> QED
        BY <2>2, <2>3, <2>6
<1>8. ASSUME k \notin DOMAIN table, new # NULL
      PROVE  r = [mem |-> r.mem, tb |-> r.tb] /\ Fresh(u, m, T, lev, tb, k, i, r, new)
    <2> DEFINE T2 == [T EXCEPT ![u] = @ \cup {new}]
               lev2 == [lev EXCEPT ![new] = i - 1]
               f == [z EXCEPT !.tables[tb] = Set(@, k, e)]
    <2>1. new \in Pages /\ ~ m.bk[new].taken
        <3>1. /\ new \in Pages
              /\ \A j \in Pages : new <= j /\ j < new + 1 => ~ m.bk[j].taken
            BY <1>2, <1>8, AllocFree DEF new
        <3>2. new <= new /\ new < new + 1
            BY <3>1, PagesAre
        <3> QED
            BY <3>1, <3>2
    <2>2. /\ IsMemory(z) /\ z.bk = Taken(m.bk, new, 1) /\ z.fault = m.fault
          /\ \A q \in Pages : z.tables[q] \in {m.tables[q], ZeroPage}
          /\ z.tables[new] = ZeroPage
          /\ \A q \in Pages : q # new => z.tables[q] = m.tables[q]
        BY <2>1, ZallocIs DEF z
    <2>3. /\ Grown(m.bk, z.bk) /\ z.bk[new].taken /\ new \in Since(m.bk, z.bk)
          /\ \A q \in Pages : m.bk[q].taken => z.bk[q].taken
        <3>1. Grown(m.bk, z.bk) /\ z.bk[new].taken /\ new \in Since(m.bk, z.bk)
            BY <1>2, <2>1, <2>2, TakenGrows
        <3> QED
            BY <3>1 DEF Grown
    <2>4. Tabled(z, T2, lev2) /\ \A v \in Users : \A t \in T[v] : t # new
        BY <1>3, <2>1, <2>2, <2>3, FreshTable
    <2>5. /\ tb \in T2[u] /\ new \in T2[u] /\ T2[u] = T[u] \cup {new} /\ tb # new
          /\ \A v \in Users : v # u => T2[v] = T[v]
          /\ lev2[tb] = i /\ lev2[new] = i - 1
          /\ \A v \in Users : \A t \in T[v] : lev2[t] = lev[t]
        <3>1. \A v \in Users : T[v] \subseteq Pages
            BY DEF Tabled
        <3>2. T \in [Users -> SUBSET Pages] /\ lev \in [Pages -> 0 .. LEVELS - 1]
            BY DEF Tabled
        <3>3. /\ T2[u] = T[u] \cup {new} /\ \A v \in Users : v # u => T2[v] = T[v]
            BY <3>2
        <3>4. lev2[new] = i - 1 /\ \A t \in Pages : t # new => lev2[t] = lev[t]
            BY <2>1, <3>2
        <3> HIDE DEF T2, lev2
        <3> QED
            BY <2>4, <3>1, <3>3, <3>4
    <2> HIDE DEF T2, lev2
    <2>6. ~ IsLeaf(e) /\ e.ppn = new
        BY DEF IsLeaf, Entry, e
    <2>14. PICK a, y, kk, ee : /\ a = f /\ y = z /\ kk = k /\ ee = e
                              /\ a = WithEntry(y, tb, kk, ee)
        BY DEF WithEntry
    <2>15. /\ IsMemory(y) /\ Tabled(y, T2, lev2) /\ tb \in T2[u]
           /\ IF lev2[tb] = 0 THEN IsLeaf(ee)
              ELSE ~ IsLeaf(ee) /\ ee.ppn \in T2[u] /\ lev2[ee.ppn] = lev2[tb] - 1
        <3> HIDE DEF f, z, e
        <3> QED
            BY <1>3, <2>2, <2>4, <2>5, <2>6, <2>14
    <2>16. /\ IsMemory(a) /\ a.bk = y.bk /\ a.fault = y.fault /\ Tabled(a, T2, lev2)
           /\ a.tables[tb] = Set(y.tables[tb], kk, ee)
           /\ \A q \in Pages : q # tb => a.tables[q] = y.tables[q]
        <3> HIDE DEF f, z, e
        <3>1. a = WithEntry(y, tb, kk, ee)
            BY <2>14
        <3>2. IsMemory(a) /\ a.bk = y.bk /\ a.fault = y.fault
            BY <1>2, <2>15, <3>1, EntryAt
        <3>3. Tabled(a, T2, lev2)
            BY <2>15, <3>1, EntrySet
        <3>4. a.tables[tb] = Set(y.tables[tb], kk, ee)
            BY <1>2, <2>15, <3>1, EntryAt
        <3>5. \A q \in Pages : q # tb => a.tables[q] = y.tables[q]
            BY <1>2, <2>15, <3>1, EntryAt
        <3> QED
            BY <3>2, <3>3, <3>4, <3>5
    <2>7. /\ IsMemory(f) /\ f.bk = z.bk /\ f.fault = z.fault /\ Tabled(f, T2, lev2)
          /\ f.tables[tb] = Set(z.tables[tb], k, e)
          /\ \A q \in Pages : q # tb => f.tables[q] = z.tables[q]
        <3> HIDE DEF f, z, e
        <3> QED
            BY <2>14, <2>16
    <2>8. r = [mem |-> f, tb |-> new]
        BY <1>4, <1>8
    <2>9. r = [mem |-> r.mem, tb |-> r.tb] /\ r.mem = f /\ r.tb = new
        BY <2>8
    <2> HIDE DEF f
    <2>10. \A q \in Pages : q # tb /\ q # new => f.tables[q] = m.tables[q]
        <3> HIDE DEF z, e
        <3> QED
            BY <2>2, <2>7
    <2>11. f.tables[tb] = Set(m.tables[tb], k, e) /\ f.tables[new] = ZeroPage
        BY <1>2, <2>1, <2>2, <2>5, <2>7
    <2>12. \A v \in Users : v # u => \A t \in T[v] : f.tables[t] = m.tables[t]
        BY <2>4, <2>10 DEF Tabled
    <2>13. Mapped(u, m, T, lev, f, T2, lev2)
        BY <2>3, <2>5, <2>7, <2>12 DEF Mapped
    <2> QED
        BY <1>8, <2>1, <2>2, <2>7, <2>9, <2>10, <2>11, <2>13 DEF Fresh, T2, lev2, e, table
<1>9. MapTurn(u, m, T, lev, tb, k, i, r)
    BY <1>6, <1>7, <1>8 DEF MapTurn, table, new
<1> QED
    BY <1>9 DEF r, k

LEMMA MapDownKeeps ==
    ASSUME NEW m, IsMemory(m), NEW T, NEW lev, Tabled(m, T, lev), NEW u \in Users,
           NEW i \in 1 .. LEVELS - 1, NEW vaddr, NEW w, WalkedTo(u, m, T, lev, w, i)
    PROVE  WalkedTo(u, m, T, lev, MapDown(w, vaddr, i), i - 1)
<1> DEFINE k == vpn(vaddr, i)
           r == MapDown(w, vaddr, i)
<1>1. PICK T1, lev1 : /\ Mapped(u, m, T, lev, w.mem, T1, lev1)
                      /\ ~ w.mem.fault => w.tb \in T1[u] /\ lev1[w.tb] = i
    BY DEF WalkedTo
<1>2. IsMemory(w.mem) /\ Tabled(w.mem, T1, lev1) /\ w = [mem |-> w.mem, tb |-> w.tb]
    BY <1>1 DEF Mapped, WalkedTo
<1>3. CASE w.mem.fault
    <2>1. r = w
        BY <1>3 DEF MapDown
    <2> HIDE DEF r
    <2> QED
        BY <1>1, <1>2, <1>3, <2>1 DEF WalkedTo, r
<1> HIDE DEF r, k
<1>4. CASE ~ w.mem.fault
    <2>1. /\ r = [mem |-> r.mem, tb |-> r.tb]
          /\ \/ /\ r.mem = w.mem /\ r.tb \in T1[u] /\ lev1[r.tb] = i - 1
             \/ r.mem.fault /\ Mapped(u, w.mem, T1, lev1, r.mem, T1, lev1)
             \/ \E new : Fresh(u, w.mem, T1, lev1, w.tb, k, i, r, new)
        <3>1. w.tb \in T1[u] /\ lev1[w.tb] = i
            BY <1>1, <1>4
        <3>2. MapTurn(u, w.mem, T1, lev1, w.tb, vpn(vaddr, i), i,
                      MapDown([mem |-> w.mem, tb |-> w.tb], vaddr, i))
            BY <1>2, <1>4, <3>1, MapDownIs
        <3>3. MapTurn(u, w.mem, T1, lev1, w.tb, k, i, r)
            BY <1>2, <3>2 DEF r, k
        <3> QED
            BY <3>3 DEF MapTurn
    <2>2. CASE r.mem = w.mem /\ r.tb \in T1[u] /\ lev1[r.tb] = i - 1
        BY <1>1, <2>1, <2>2 DEF WalkedTo, r
    <2>3. CASE r.mem.fault /\ Mapped(u, w.mem, T1, lev1, r.mem, T1, lev1)
        <3>1. Mapped(u, m, T, lev, r.mem, T1, lev1)
            BY <1>1, <2>3, MappedTwice
        <3> QED
            BY <2>1, <2>3, <3>1 DEF WalkedTo, r
    <2>4. CASE \E new : Fresh(u, w.mem, T1, lev1, w.tb, k, i, r, new)
        <3>1. PICK new : Fresh(u, w.mem, T1, lev1, w.tb, k, i, r, new)
            BY <2>4
        <3> DEFINE T2 == [T1 EXCEPT ![u] = @ \cup {new}]
                   lev2 == [lev1 EXCEPT ![new] = i - 1]
        <3>2. Mapped(u, w.mem, T1, lev1, r.mem, T2, lev2) /\ r.tb = new /\ new \in Pages
            BY <3>1 DEF Fresh
        <3>3. Mapped(u, m, T, lev, r.mem, T2, lev2)
            BY <1>1, <3>2, MappedTwice
        <3>4. T1 \in [Users -> SUBSET Pages] /\ lev1 \in [Pages -> 0 .. LEVELS - 1]
            BY <1>2 DEF Tabled
        <3>5. new \in T2[u] /\ lev2[new] = i - 1
            BY <3>2, <3>4
        <3> QED
            BY <2>1, <3>2, <3>3, <3>5 DEF WalkedTo, r
    <2> QED
        BY <2>1, <2>2, <2>3, <2>4
<1> QED
    BY <1>3, <1>4 DEF r

\* The turns of mmu_map.
Turn(f, n, m, tb, vaddr) ==
    IF n = 0 THEN [mem |-> m, tb |-> tb] ELSE MapDown(f[n - 1], vaddr, LEVELS - n)

LEMMA TurnsExist ==
    ASSUME NEW N \in Nat, NEW m, NEW tb, NEW vaddr
    PROVE  \E f : f = [n \in 0 .. N |-> Turn(f, n, m, tb, vaddr)]
<1> DEFINE S == {n \in Nat : \E f : f = [j \in 0 .. n |-> Turn(f, j, m, tb, vaddr)]}
<1>1. 0 \in S
    <2> DEFINE g == [j \in 0 .. 0 |-> [mem |-> m, tb |-> tb]]
    <2>1. g = [j \in 0 .. 0 |-> Turn(g, j, m, tb, vaddr)]
        BY DEF Turn
    <2> QED
        BY <2>1
<1>2. ASSUME NEW n \in Nat, n \in S PROVE n + 1 \in S
    <2>1. PICK f : f = [j \in 0 .. n |-> Turn(f, j, m, tb, vaddr)]
        BY <1>2
    <2> DEFINE last == MapDown(f[n], vaddr, LEVELS - (n + 1))
               g == [j \in 0 .. n + 1 |-> IF j = n + 1 THEN last ELSE f[j]]
    <2>2. ASSUME NEW j \in 0 .. n + 1
          PROVE  (IF j = n + 1 THEN last ELSE f[j]) = Turn(g, j, m, tb, vaddr)
        <3>1. CASE j = n + 1
            <4>1. g[j - 1] = f[n] /\ j # 0
                BY <3>1
            <4> HIDE DEF g
            <4> QED
                BY <3>1, <4>1 DEF Turn
        <3>2. CASE j # n + 1
            <4>1. j \in 0 .. n /\ (j # 0 => g[j - 1] = f[j - 1])
                BY <3>2
            <4>2. f[j] = Turn(f, j, m, tb, vaddr)
                BY <2>1, <4>1
            <4> HIDE DEF g, last
            <4> QED
                BY <3>2, <4>1, <4>2 DEF Turn
        <3> QED
            BY <3>1, <3>2
    <2>3. g = [j \in 0 .. n + 1 |-> Turn(g, j, m, tb, vaddr)]
        BY <2>2
    <2> HIDE DEF g
    <2> QED
        BY <2>3
<1>3. \A n \in Nat : n \in S
    <2> HIDE DEF S
    <2> QED
        BY <1>1, <1>2, InductionOverNat
<1> QED
    BY <1>3

LEMMA MapKeeps ==
    ASSUME NEW m, IsMemory(m), NEW T, NEW lev, Tabled(m, T, lev), NEW u \in Users,
           NEW tb \in T[u], lev[tb] = LEVELS - 1, NEW vaddr, NEW paddr,
           NEW bits, bits \cap {"R", "W", "X"} # {}
    PROVE  \E T1, lev1 : Mapped(u, m, T, lev, mmu_map(m, tb, vaddr, paddr, bits), T1, lev1)
<1> DEFINE walk == CHOOSE f : f = [n \in 0 .. LEVELS - 1 |-> Turn(f, n, m, tb, vaddr)]
           end == walk[LEVELS - 1]
           k == vpn(vaddr, 0)
           e == Entry(paddr \div PS_4K, bits)
           r == mmu_map(m, tb, vaddr, paddr, bits)
           S == {n \in Nat : n <= LEVELS - 1 => WalkedTo(u, m, T, lev, walk[n], LEVELS - 1 - n)}
<1>1. LEVELS - 1 \in Nat /\ LEVELS \in Nat
    BY MmuAssumption
<1>2. walk = [n \in 0 .. LEVELS - 1 |-> Turn(walk, n, m, tb, vaddr)]
    BY <1>1, TurnsExist
<1>3. r = IF end.mem.fault THEN end.mem
          ELSE [end.mem EXCEPT !.tables[end.tb] = Set(@, k, e)]
    BY DEF mmu_map, Turn
<1> HIDE DEF walk, r, e
<1>4. 0 \in S
    <2>1. walk[0] = [mem |-> m, tb |-> tb]
        BY <1>1, <1>2 DEF Turn
    <2>2. walk[0].mem = m /\ walk[0].tb = tb /\ LEVELS - 1 - 0 = LEVELS - 1
        BY <1>1, <2>1
    <2>3. Mapped(u, m, T, lev, m, T, lev)
        BY MappedSame
    <2>4. WalkedTo(u, m, T, lev, walk[0], LEVELS - 1)
        BY <2>1, <2>2, <2>3 DEF WalkedTo
    <2> QED
        BY <2>2, <2>4
<1>5. ASSUME NEW n \in Nat, n \in S PROVE n + 1 \in S
    <2>1. SUFFICES ASSUME n + 1 <= LEVELS - 1
                   PROVE  WalkedTo(u, m, T, lev, walk[n + 1], LEVELS - 1 - (n + 1))
        OBVIOUS
    <2>2. WalkedTo(u, m, T, lev, walk[n], LEVELS - 1 - n)
        BY <1>1, <1>5, <2>1
    <2>3. walk[n + 1] = MapDown(walk[n], vaddr, LEVELS - 1 - n)
        <3>1. n + 1 \in 0 .. LEVELS - 1 /\ n + 1 # 0 /\ n + 1 - 1 = n
              /\ LEVELS - (n + 1) = LEVELS - 1 - n
            BY <1>1, <2>1
        <3>2. walk[n + 1] = Turn(walk, n + 1, m, tb, vaddr)
            BY <1>2, <3>1
        <3> QED
            BY <3>1, <3>2 DEF Turn
    <2>4. PICK i \in 1 .. LEVELS - 1 : i = LEVELS - 1 - n
        BY <1>1, <2>1
    <2>5. WalkedTo(u, m, T, lev, walk[n + 1], i - 1)
        BY <2>2, <2>3, <2>4, MapDownKeeps
    <2>6. i - 1 = LEVELS - 1 - (n + 1)
        BY <1>1, <2>4
    <2> QED
        BY <2>5, <2>6
<1>6. WalkedTo(u, m, T, lev, end, 0)
    <2>1. \A n \in Nat : n \in S
        <3> HIDE DEF S
        <3> QED
            BY <1>4, <1>5, InductionOverNat
    <2>2. LEVELS - 1 \in S /\ LEVELS - 1 - (LEVELS - 1) = 0
        BY <1>1, <2>1
    <2> QED
        BY <1>1, <2>2
<1>7. PICK T1, lev1 : /\ Mapped(u, m, T, lev, end.mem, T1, lev1)
                      /\ ~ end.mem.fault => end.tb \in T1[u] /\ lev1[end.tb] = 0
    BY <1>6 DEF WalkedTo
<1> HIDE DEF end, k
<1>8. CASE end.mem.fault
    BY <1>3, <1>7, <1>8 DEF r
<1>9. CASE ~ end.mem.fault
    <2>1. r = [end.mem EXCEPT !.tables[end.tb] = Set(@, k, e)]
        BY <1>3, <1>9
    <2>2. IsLeaf(e)
        BY DEF IsLeaf, Entry, e
    <2>3. /\ IsMemory(r) /\ r.bk = end.mem.bk /\ Tabled(r, T1, lev1)
          /\ \A q \in Pages : q # end.tb => r.tables[q] = end.mem.tables[q]
        <3>1. /\ IsMemory(end.mem) /\ Tabled(end.mem, T1, lev1) /\ end.tb \in T1[u]
              /\ IF lev1[end.tb] = 0 THEN IsLeaf(e)
                 ELSE ~ IsLeaf(e) /\ e.ppn \in T1[u] /\ lev1[e.ppn] = lev1[end.tb] - 1
            BY <1>7, <1>9, <2>2 DEF Mapped
        <3>2. PICK a, tt, ee, kk : /\ a = r /\ tt = end.tb /\ ee = e /\ kk = k
                                  /\ a = WithEntry(end.mem, tt, kk, ee)
            BY <2>1 DEF WithEntry
        <3>3. /\ IsMemory(end.mem) /\ Tabled(end.mem, T1, lev1) /\ tt \in T1[u]
              /\ IF lev1[tt] = 0 THEN IsLeaf(ee)
                 ELSE ~ IsLeaf(ee) /\ ee.ppn \in T1[u] /\ lev1[ee.ppn] = lev1[tt] - 1
            BY <3>1, <3>2
        <3>4. /\ IsMemory(a) /\ a.bk = end.mem.bk /\ Tabled(a, T1, lev1)
              /\ \A q \in Pages : q # tt => a.tables[q] = end.mem.tables[q]
            <4>4. tt \in Pages
                BY <3>3 DEF Tabled
            <4>5. a = WithEntry(end.mem, tt, kk, ee) /\ IsMemory(end.mem)
                BY <3>2, <3>3
            <4>1. IsMemory(a) /\ a.bk = end.mem.bk
                BY <4>4, <4>5, EntryAt
            <4>2. Tabled(a, T1, lev1)
                BY <3>3, <4>5, EntrySet
            <4>3. \A q \in Pages : q # tt => a.tables[q] = end.mem.tables[q]
                BY <4>4, <4>5, EntryAt
            <4> QED
                BY <4>1, <4>2, <4>3
        <3> QED
            BY <3>2, <3>4
    <2>4. \A v \in Users : v # u => \A t \in T1[v] : r.tables[t] = end.mem.tables[t]
        BY <1>7, <1>9, <2>3 DEF Mapped, Tabled
    <2>5. Mapped(u, m, T, lev, r, T1, lev1)
        BY <1>7, <2>3, <2>4 DEF Mapped
    <2> QED
        BY <2>5 DEF r
<1> QED
    BY <1>7, <1>8, <1>9 DEF Mapped, IsMemory

\* The pages of mmu_map_many.
PageMapped(f, n, m, tb, vaddr, paddr, bits) ==
    IF n = 0 THEN m ELSE mmu_map(f[n - 1], tb, Align(vaddr) + (n - 1) * PS_4K,
                                 Align(paddr) + (n - 1) * PS_4K, bits)

LEMMA PagesMappedExist ==
    ASSUME NEW N \in Nat, NEW m, NEW tb, NEW vaddr, NEW paddr, NEW bits
    PROVE  \E f : f = [n \in 0 .. N |-> PageMapped(f, n, m, tb, vaddr, paddr, bits)]
<1> DEFINE S == {n \in Nat : \E f : f = [j \in 0 .. n |-> PageMapped(f, j, m, tb, vaddr, paddr, bits)]}
<1>1. 0 \in S
    <2> DEFINE g == [j \in 0 .. 0 |-> m]
    <2>1. g = [j \in 0 .. 0 |-> PageMapped(g, j, m, tb, vaddr, paddr, bits)]
        BY DEF PageMapped
    <2> HIDE DEF g
    <2> QED
        BY <2>1
<1>2. ASSUME NEW n \in Nat, n \in S PROVE n + 1 \in S
    <2>1. PICK f : f = [j \in 0 .. n |-> PageMapped(f, j, m, tb, vaddr, paddr, bits)]
        BY <1>2
    <2> DEFINE last == mmu_map(f[n], tb, Align(vaddr) + n * PS_4K, Align(paddr) + n * PS_4K, bits)
               g == [j \in 0 .. n + 1 |-> IF j = n + 1 THEN last ELSE f[j]]
    <2>2. ASSUME NEW j \in 0 .. n + 1
          PROVE  (IF j = n + 1 THEN last ELSE f[j]) = PageMapped(g, j, m, tb, vaddr, paddr, bits)
        <3>1. CASE j = n + 1
            <4>1. g[j - 1] = f[n] /\ j # 0 /\ j - 1 = n
                BY <3>1
            <4> HIDE DEF g
            <4> QED
                BY <3>1, <4>1 DEF PageMapped
        <3>2. CASE j # n + 1
            <4>1. j \in 0 .. n /\ (j # 0 => g[j - 1] = f[j - 1])
                BY <3>2
            <4>2. f[j] = PageMapped(f, j, m, tb, vaddr, paddr, bits)
                BY <2>1, <4>1
            <4> HIDE DEF g, last
            <4> QED
                BY <3>2, <4>1, <4>2 DEF PageMapped
        <3> QED
            BY <3>1, <3>2
    <2>3. g = [j \in 0 .. n + 1 |-> PageMapped(g, j, m, tb, vaddr, paddr, bits)]
        BY <2>2
    <2> HIDE DEF g
    <2> QED
        BY <2>3
<1>3. \A n \in Nat : n \in S
    <2> HIDE DEF S
    <2> QED
        BY <1>1, <1>2, InductionOverNat
<1> QED
    BY <1>3

LEMMA MapManyKeeps ==
    ASSUME NEW m, IsMemory(m), NEW T, NEW lev, Tabled(m, T, lev), NEW u \in Users,
           NEW tb \in T[u], lev[tb] = LEVELS - 1, NEW vaddr, NEW paddr, NEW size,
           PagesMapped(vaddr, size) \in Nat, NEW bits, bits \cap {"R", "W", "X"} # {}
    PROVE  \E T1, lev1 :
              Mapped(u, m, T, lev, mmu_map_many(m, tb, vaddr, paddr, size, bits), T1, lev1)
<1> DEFINE N == PagesMapped(vaddr, size)
           after == CHOOSE f : f = [n \in 0 .. N |-> PageMapped(f, n, m, tb, vaddr, paddr, bits)]
           S == {n \in Nat : n <= N => \E T1, lev1 : Mapped(u, m, T, lev, after[n], T1, lev1)}
<1>1. mmu_map_many(m, tb, vaddr, paddr, size, bits) = after[N]
    BY DEF mmu_map_many, PageMapped
<1> HIDE DEF N
<1>2. after = [n \in 0 .. N |-> PageMapped(after, n, m, tb, vaddr, paddr, bits)]
    <2>1. N \in Nat
        BY DEF N
    <2> QED
        BY <2>1, PagesMappedExist
<1> HIDE DEF after
<1>3. 0 \in S
    <2>1. after[0] = m
        BY <1>2 DEF PageMapped, N
    <2> QED
        BY <2>1, MappedSame
<1>4. ASSUME NEW n \in Nat, n \in S PROVE n + 1 \in S
    <2>1. SUFFICES ASSUME n + 1 <= N
                   PROVE  \E T1, lev1 : Mapped(u, m, T, lev, after[n + 1], T1, lev1)
        OBVIOUS
    <2>2. n \in 0 .. N /\ n + 1 \in 0 .. N /\ n + 1 # 0 /\ n + 1 - 1 = n
        BY <2>1 DEF N
    <2>3. PICK T1, lev1 : Mapped(u, m, T, lev, after[n], T1, lev1)
        BY <1>4, <2>2
    <2>4. PICK v, p : after[n + 1] = mmu_map(after[n], tb, v, p, bits)
        <3>1. after[n + 1] = PageMapped(after, n + 1, m, tb, vaddr, paddr, bits)
            BY <1>2, <2>2
        <3> QED
            BY <2>2, <3>1 DEF PageMapped
    <2>5. /\ IsMemory(after[n]) /\ Tabled(after[n], T1, lev1)
          /\ tb \in T1[u] /\ lev1[tb] = LEVELS - 1
        BY <2>3 DEF Mapped
    <2>6. PICK T2, lev2 : Mapped(u, after[n], T1, lev1, after[n + 1], T2, lev2)
        BY <2>4, <2>5, MapKeeps
    <2> QED
        BY <2>3, <2>6, MappedTwice
<1>5. \A n \in Nat : n \in S
    <2> HIDE DEF S
    <2> QED
        BY <1>3, <1>4, InductionOverNat
<1>6. N \in S /\ N \in Nat
    BY <1>5 DEF N
<1> QED
    BY <1>1, <1>6

-----------------------------------------------------------------------------
(* mmu_free. *)

Found(f, n, m, tb) == IF n = 0 THEN {tb} ELSE AndBelow(m, f[n - 1])

LEMMA FoundExist ==
    ASSUME NEW N \in Nat, NEW m, NEW tb
    PROVE  \E f : f = [n \in 0 .. N |-> Found(f, n, m, tb)]
<1> DEFINE S == {n \in Nat : \E f : f = [j \in 0 .. n |-> Found(f, j, m, tb)]}
<1>1. 0 \in S
    <2> DEFINE g == [j \in 0 .. 0 |-> {tb}]
    <2>1. g = [j \in 0 .. 0 |-> Found(g, j, m, tb)]
        BY DEF Found
    <2> HIDE DEF g
    <2> QED
        BY <2>1
<1>2. ASSUME NEW n \in Nat, n \in S PROVE n + 1 \in S
    <2>1. PICK f : f = [j \in 0 .. n |-> Found(f, j, m, tb)]
        BY <1>2
    <2> DEFINE last == AndBelow(m, f[n])
               g == [j \in 0 .. n + 1 |-> IF j = n + 1 THEN last ELSE f[j]]
    <2>2. ASSUME NEW j \in 0 .. n + 1
          PROVE  (IF j = n + 1 THEN last ELSE f[j]) = Found(g, j, m, tb)
        <3>1. CASE j = n + 1
            <4>1. g[j - 1] = f[n] /\ j # 0 /\ j - 1 = n
                BY <3>1
            <4> HIDE DEF g
            <4> QED
                BY <3>1, <4>1 DEF Found
        <3>2. CASE j # n + 1
            <4>1. j \in 0 .. n /\ (j # 0 => g[j - 1] = f[j - 1])
                BY <3>2
            <4>2. f[j] = Found(f, j, m, tb)
                BY <2>1, <4>1
            <4> HIDE DEF g, last
            <4> QED
                BY <3>2, <4>1, <4>2 DEF Found
        <3> QED
            BY <3>1, <3>2
    <2>3. g = [j \in 0 .. n + 1 |-> Found(g, j, m, tb)]
        BY <2>2
    <2> HIDE DEF g
    <2> QED
        BY <2>3
<1>3. \A n \in Nat : n \in S
    <2> HIDE DEF S
    <2> QED
        BY <1>1, <1>2, InductionOverNat
<1> QED
    BY <1>3

\* What mmu_free visits are tables of the space whose root it is given.
LEMMA TablesOfSpace ==
    ASSUME NEW m, NEW T, NEW lev, Tabled(m, T, lev), NEW u \in Users, NEW tb \in T[u]
    PROVE  TablesOf(m, tb) \subseteq T[u]
<1> DEFINE seen == CHOOSE f : f = [n \in 0 .. LEVELS |-> Found(f, n, m, tb)]
           S == {n \in Nat : n <= LEVELS => seen[n] \subseteq T[u]}
<1>1. LEVELS \in Nat
    BY MmuAssumption
<1>2. TablesOf(m, tb) = seen[LEVELS]
    BY DEF TablesOf, Found
<1>3. seen = [n \in 0 .. LEVELS |-> Found(seen, n, m, tb)]
    BY <1>1, FoundExist
<1> HIDE DEF seen
<1>4. 0 \in S
    BY <1>1, <1>3 DEF Found
<1>5. ASSUME NEW n \in Nat, n \in S PROVE n + 1 \in S
    <2>1. SUFFICES ASSUME n + 1 <= LEVELS PROVE seen[n + 1] \subseteq T[u]
        OBVIOUS
    <2>2. n + 1 \in 0 .. LEVELS /\ n + 1 # 0 /\ n + 1 - 1 = n /\ n <= LEVELS
        BY <1>1, <2>1
    <2>3. seen[n + 1] = AndBelow(m, seen[n]) /\ seen[n] \subseteq T[u]
        <3>1. seen[n + 1] = Found(seen, n + 1, m, tb)
            BY <1>3, <2>2
        <3> QED
            BY <1>5, <2>2, <3>1 DEF Found
    <2>4. ASSUME NEW e, e \in UNION {Range(m.tables[t]) : t \in seen[n]}, ~ IsLeaf(e)
          PROVE  e.ppn \in T[u]
        <3>1. PICK t \in seen[n] : e \in Range(m.tables[t])
            BY <2>4
        <3>2. PICK k \in DOMAIN m.tables[t] : e = m.tables[t][k]
            BY <3>1 DEF Range
        <3> QED
            BY <2>3, <2>4, <3>1, <3>2 DEF Tabled
    <2> QED
        BY <2>3, <2>4 DEF AndBelow
<1>6. \A n \in Nat : n \in S
    <2> HIDE DEF S
    <2> QED
        BY <1>4, <1>5, InductionOverNat
<1>7. LEVELS \in S
    BY <1>1, <1>6
<1> QED
    BY <1>1, <1>2, <1>7

Less(g, D) == [q \in DOMAIN g \ D |-> g[q]]

Freeing(f, n, bk, tables) ==
    IF n = 0 THEN bk ELSE IF n - 1 \in tables THEN page_dealloc(f[n - 1], n - 1) ELSE f[n - 1]

LEMMA FreeingExist ==
    ASSUME NEW N \in Nat, NEW bk, NEW tables
    PROVE  \E f : f = [n \in 0 .. N |-> Freeing(f, n, bk, tables)]
<1> DEFINE S == {n \in Nat : \E f : f = [j \in 0 .. n |-> Freeing(f, j, bk, tables)]}
<1>1. 0 \in S
    <2> DEFINE g == [j \in 0 .. 0 |-> bk]
    <2>1. g = [j \in 0 .. 0 |-> Freeing(g, j, bk, tables)]
        BY DEF Freeing
    <2> HIDE DEF g
    <2> QED
        BY <2>1
<1>2. ASSUME NEW n \in Nat, n \in S PROVE n + 1 \in S
    <2>1. PICK f : f = [j \in 0 .. n |-> Freeing(f, j, bk, tables)]
        BY <1>2
    <2> DEFINE last == IF n \in tables THEN page_dealloc(f[n], n) ELSE f[n]
               g == [j \in 0 .. n + 1 |-> IF j = n + 1 THEN last ELSE f[j]]
    <2>2. ASSUME NEW j \in 0 .. n + 1
          PROVE  (IF j = n + 1 THEN last ELSE f[j]) = Freeing(g, j, bk, tables)
        <3>1. CASE j = n + 1
            <4>1. g[j - 1] = f[n] /\ j # 0 /\ j - 1 = n
                BY <3>1
            <4> HIDE DEF g
            <4> QED
                BY <3>1, <4>1 DEF Freeing
        <3>2. CASE j # n + 1
            <4>1. j \in 0 .. n /\ (j # 0 => g[j - 1] = f[j - 1])
                BY <3>2
            <4>2. f[j] = Freeing(f, j, bk, tables)
                BY <2>1, <4>1
            <4> HIDE DEF g, last
            <4> QED
                BY <3>2, <4>1, <4>2 DEF Freeing
        <3> QED
            BY <3>1, <3>2
    <2>3. g = [j \in 0 .. n + 1 |-> Freeing(g, j, bk, tables)]
        BY <2>2
    <2> HIDE DEF g
    <2> QED
        BY <2>3
<1>3. \A n \in Nat : n \in S
    <2> HIDE DEF S
    <2> QED
        BY <1>1, <1>2, InductionOverNat
<1> QED
    BY <1>3

\* mmu_free gives back each table of the space, and changes no entry of another.
LEMMA FreeKeeps ==
    ASSUME NEW m, IsMemory(m), NEW g, Sized(m.bk, g), NEW tb,
           TablesOf(m, tb) \subseteq DOMAIN g
    PROVE  LET r == mmu_free(m, tb)
               tables == TablesOf(m, tb)
           IN  /\ IsMemory(r) /\ Sized(r.bk, Less(g, tables))
               /\ \A q \in Pages \ tables : r.tables[q] = m.tables[q]
<1> DEFINE tables == TablesOf(m, tb)
           freed == CHOOSE f : f = [n \in 0 .. NUM_PAGES |-> Freeing(f, n, m.bk, tables)]
           below(n) == {t \in tables : t < n}
           S == {n \in Nat : n <= NUM_PAGES =>
                    freed[n] \in Bookkeeping /\ Sized(freed[n], Less(g, below(n)))}
           r == mmu_free(m, tb)
<1>1. r = [m EXCEPT !.bk = freed[NUM_PAGES],
                    !.tables = [t \in Pages |-> IF t \in tables
                         THEN Restrict(@[t], {k \in DOMAIN @[t] : ~ IsLeaf(@[t][k])})
                         ELSE @[t]]]
    BY DEF mmu_free, Freeing
<1>2. NUM_PAGES \in Nat /\ freed = [n \in 0 .. NUM_PAGES |-> Freeing(freed, n, m.bk, tables)]
    BY FreeingExist, PagesAre
<1>3. tables \subseteq DOMAIN g /\ DOMAIN g \subseteq Pages /\ m.bk \in Bookkeeping
    BY DEF Sized, IsMemory
<1> HIDE DEF freed, tables, r
<1>4. 0 \in S
    <2>1. freed[0] = m.bk
        BY <1>2 DEF Freeing
    <2>2. below(0) = {}
        BY <1>3, PagesAre
    <2>3. Sized(m.bk, Less(g, {}))
        BY DEF Sized, Less
    <2> QED
        BY <1>3, <2>1, <2>2, <2>3
<1>5. ASSUME NEW n \in Nat, n \in S PROVE n + 1 \in S
    <2>1. SUFFICES ASSUME n + 1 <= NUM_PAGES
                   PROVE  /\ freed[n + 1] \in Bookkeeping
                          /\ Sized(freed[n + 1], Less(g, below(n + 1)))
        OBVIOUS
    <2>2. n + 1 \in 0 .. NUM_PAGES /\ n + 1 # 0 /\ n + 1 - 1 = n /\ n <= NUM_PAGES
        BY <1>2, <2>1
    <2>3. freed[n + 1] = IF n \in tables THEN page_dealloc(freed[n], n) ELSE freed[n]
        <3>1. freed[n + 1] = Freeing(freed, n + 1, m.bk, tables)
            BY <1>2, <2>2
        <3> QED
            BY <2>2, <3>1 DEF Freeing
    <2>4. freed[n] \in Bookkeeping /\ Sized(freed[n], Less(g, below(n)))
        BY <1>5, <2>2
    <2>5. CASE n \in tables
        <3> DEFINE h == Less(g, below(n))
        <3>1. n \in DOMAIN h
            BY <1>3, <2>5 DEF Less
        <3>2. below(n + 1) = below(n) \cup {n}
            BY <1>3, <2>5, PagesAre
        <3>3. [q \in DOMAIN h \ {n} |-> h[q]] = Less(g, below(n) \cup {n})
            BY DEF Less
        <3> HIDE DEF h
        <3>4. /\ page_dealloc(freed[n], n) \in Bookkeeping
              /\ Sized(page_dealloc(freed[n], n), [q \in DOMAIN h \ {n} |-> h[q]])
            BY <2>4, <3>1, DeallocSized DEF h
        <3> QED
            BY <2>3, <2>5, <3>2, <3>3, <3>4
    <2>6. CASE n \notin tables
        <3>1. below(n + 1) = below(n)
            BY <1>3, <2>6, PagesAre
        <3> QED
            BY <2>3, <2>4, <2>6, <3>1
    <2> QED
        BY <2>5, <2>6
<1>6. freed[NUM_PAGES] \in Bookkeeping /\ Sized(freed[NUM_PAGES], Less(g, tables))
    <2>1. \A n \in Nat : n \in S
        <3> HIDE DEF S
        <3> QED
            BY <1>4, <1>5, InductionOverNat
    <2>2. below(NUM_PAGES) = tables
        BY <1>3, PagesAre
    <2> HIDE DEF below
    <2> QED
        BY <1>2, <2>1, <2>2
<1>7. /\ IsMemory(r) /\ r.bk = freed[NUM_PAGES]
      /\ \A q \in Pages \ tables : r.tables[q] = m.tables[q]
    BY <1>1, <1>6 DEF IsMemory
<1> QED
    BY <1>6, <1>7 DEF r, tables

-----------------------------------------------------------------------------
(* Who has which pages. *)

Stacks(pr, p) == {pr[p].stack, pr[p].trap_stack} \ {NULL}

\* g: what is granted, and pr: the processes.
Owns(m, g, pr, T, lev) ==
    /\ Tabled(m, T, lev)
    /\ \A u \in Users : T[u] \subseteq DOMAIN g
    /\ KernelTable \in T[NULL] /\ lev[KernelTable] = LEVELS - 1
    /\ \A p \in Procs : pr[p].ptable # NULL =>
          pr[p].ptable \in T[p] /\ lev[pr[p].ptable] = LEVELS - 1
    /\ \A p \in Procs : \A s \in Stacks(pr, p) :
          s \in DOMAIN g /\ \A u \in Users : s \notin T[u]
    /\ \A p, q \in Procs : p # q => Stacks(pr, p) \cap Stacks(pr, q) = {}
    /\ \A p \in Procs : pr[p].stack = pr[p].trap_stack => pr[p].stack = NULL
    /\ \A p \in Procs : pr[p].stack # NULL => g[pr[p].stack] = STACK_PAGES

Sound(m, g, pr) ==
    IsMemory(m) /\ Sized(m.bk, g) /\ \E T, lev : Owns(m, g, pr, T, lev)

\* What is granted to no table and no stack, which is the heap's.
Loose(g, pr, T) ==
    {e \in DOMAIN g : /\ \A u \in Users : e \notin T[u]
                      /\ \A p \in Procs : e \notin Stacks(pr, p)}
Spared(g, pr, T, g1, pr1, T1) ==
    \A e \in Loose(g, pr, T) : e \in Loose(g1, pr1, T1) /\ g1[e] = g[e]

\* A step that leaves the kernel's tables and what is granted to the heap alone.
Quiet(m, g, pr, T, lev, m1, g1, pr1, T1, lev1) ==
    /\ Owns(m1, g1, pr1, T1, lev1) /\ Spared(g, pr, T, g1, pr1, T1)
    /\ T1[NULL] = T[NULL]
    /\ \A t \in T[NULL] : lev1[t] = lev[t] /\ m1.tables[t] = m.tables[t]
Undisturbed(T, lev) ==
    \E T1, lev1 : Quiet(mem, granted, proc, T, lev, mem', granted', proc', T1, lev1)

LEMMA GrantedTaken ==
    ASSUME NEW bk, NEW g, Sized(bk, g), NEW p \in DOMAIN g
    PROVE  p \in Pages /\ bk[p].taken
<1>1. p \in Pages /\ p <= p /\ p < p + g[p]
    BY PagesAre DEF Sized
<1> QED
    BY <1>1 DEF Sized

\* Processes that have less.
LEMMA QuietLess ==
    ASSUME NEW m, NEW g, NEW pr, NEW T, NEW lev, Owns(m, g, pr, T, lev), NEW pr1,
           \A p \in Procs : /\ pr1[p].ptable \in {pr[p].ptable, NULL}
                            /\ pr1[p].stack \in {pr[p].stack, NULL}
                            /\ pr1[p].trap_stack \in {pr[p].trap_stack, NULL}
    PROVE  Quiet(m, g, pr, T, lev, m, g, pr1, T, lev)
<1>2. \A p \in Procs : Stacks(pr1, p) \subseteq Stacks(pr, p)
    BY DEF Stacks
<1>3. \A p \in Procs : /\ pr1[p].stack = pr1[p].trap_stack => pr1[p].stack = NULL
                       /\ pr1[p].stack # NULL => g[pr1[p].stack] = STACK_PAGES
    BY DEF Owns
<1>4. Owns(m, g, pr1, T, lev)
    BY <1>2, <1>3 DEF Owns
<1>5. Spared(g, pr, T, g, pr1, T)
    BY <1>2 DEF Spared, Loose
<1> QED
    BY <1>4, <1>5 DEF Quiet

\* A space gets tables.
LEMMA OwnsMapped ==
    ASSUME NEW m, NEW g, NEW pr, IsMemory(m), Sized(m.bk, g), NEW u \in Users,
           NEW T, NEW lev, Owns(m, g, pr, T, lev),
           NEW m1, NEW T1, NEW lev1, Mapped(u, m, T, lev, m1, T1, lev1)
    PROVE  LET h == Grant(Since(m.bk, m1.bk), g) IN
           /\ Sound(m1, h, pr) /\ Owns(m1, h, pr, T1, lev1) /\ Spared(g, pr, T, h, pr, T1)
           /\ u # NULL => Quiet(m, g, pr, T, lev, m1, h, pr, T1, lev1)
<1> DEFINE s == Since(m.bk, m1.bk)
           h == Grant(s, g)
<1>1. Sized(m1.bk, h) /\ IsMemory(m1)
    BY GrownSized DEF Mapped, IsMemory
<1>2. DOMAIN h = s \cup DOMAIN g /\ \A p \in DOMAIN g : h[p] = g[p]
    BY DEF Grant
<1>3. ASSUME NEW p \in s PROVE p \notin DOMAIN g
    BY GrantedTaken DEF Since
<1> HIDE DEF h, s
<1>4. \A v \in Users : T1[v] \subseteq T[v] \cup s /\ T[v] \subseteq T1[v]
    BY DEF Mapped, s
<1>5. Tabled(m1, T1, lev1) /\ \A v \in Users : \A t \in T[v] : lev1[t] = lev[t]
    BY DEF Mapped
<1>6. \A v \in Users : T1[v] \subseteq DOMAIN h
    BY <1>2, <1>4 DEF Owns
<1>7. KernelTable \in T1[NULL] /\ lev1[KernelTable] = LEVELS - 1
    BY <1>4, <1>5 DEF Owns, Users
<1>8. \A p \in Procs : pr[p].ptable # NULL =>
          pr[p].ptable \in T1[p] /\ lev1[pr[p].ptable] = LEVELS - 1
    BY <1>4, <1>5 DEF Owns, Users
<1>9. ASSUME NEW p \in Procs, NEW q \in Stacks(pr, p)
      PROVE  q \in DOMAIN h /\ \A v \in Users : q \notin T1[v]
    BY <1>2, <1>3, <1>4 DEF Owns
<1>11. \A p \in Procs : pr[p].stack # NULL => h[pr[p].stack] = STACK_PAGES
    <2>1. ASSUME NEW p \in Procs, pr[p].stack # NULL PROVE h[pr[p].stack] = STACK_PAGES
        <3>1. pr[p].stack \in Stacks(pr, p)
            BY <2>1 DEF Stacks
        <3> QED
            BY <1>2, <2>1, <3>1 DEF Owns
    <2> QED
        BY <2>1
<1>10. Owns(m1, h, pr, T1, lev1)
    BY <1>5, <1>6, <1>7, <1>8, <1>9, <1>11 DEF Owns
<1>12. Spared(g, pr, T, h, pr, T1)
    BY <1>2, <1>3, <1>4 DEF Spared, Loose
<1>13. ASSUME u # NULL PROVE Quiet(m, g, pr, T, lev, m1, h, pr, T1, lev1)
    <2>1. T1[NULL] = T[NULL] /\ \A t \in T[NULL] : lev1[t] = lev[t] /\ m1.tables[t] = m.tables[t]
        BY <1>13 DEF Mapped, Users
    <2> QED
        BY <1>10, <1>12, <2>1 DEF Quiet
<1>14. Sound(m1, h, pr)
    BY <1>1, <1>10 DEF Sound
<1> QED
    BY <1>10, <1>12, <1>13, <1>14 DEF h, s

\* Pages are allocated, for the heap or as a stack of process o.
LEMMA QuietAlloc ==
    ASSUME NEW m, NEW g, NEW pr, IsMemory(m), Sized(m.bk, g),
           NEW T, NEW lev, Owns(m, g, pr, T, lev), NEW n \in Nat \ {0},
           NEW p, p = page_alloc(m.bk, n), p # NULL,
           NEW r, IsMemory(r), r.bk = Taken(m.bk, p, n),
           \A q \in Pages : r.tables[q] \in {m.tables[q], ZeroPage},
           \A q \in Pages : q \notin p .. p + n - 1 => r.tables[q] = m.tables[q],
           NEW pr1, NEW o,
           \A q \in Procs : pr1[q].ptable = pr[q].ptable,
           \A q \in Procs : q # o => pr1[q].stack = pr[q].stack /\ pr1[q].trap_stack = pr[q].trap_stack,
           o \in Procs => \/ pr1[o].stack = pr[o].stack /\ pr1[o].trap_stack \in {pr[o].trap_stack, p}
                          \/ /\ pr1[o].trap_stack = pr[o].trap_stack /\ pr1[o].stack = p
                             /\ n = STACK_PAGES
    PROVE  LET h == Set(g, p, n) IN
           /\ Sound(r, h, pr1) /\ p \in Pages /\ Quiet(m, g, pr, T, lev, r, h, pr1, T, lev)
           /\ o \notin Procs => p \in Loose(h, pr1, T)
<1> DEFINE h == Set(g, p, n)
<1>1. Owns(m, g, pr, T, lev)
    OBVIOUS
<1>2. /\ IsMemory(m) /\ Sized(m.bk, g) /\ m.bk \in Bookkeeping
      /\ p \in Pages /\ p + n <= NUM_PAGES
      /\ \A i \in Pages : p <= i /\ i < p + n => ~ m.bk[i].taken
    BY AllocFree DEF IsMemory
<1>3. Sized(r.bk, h)
    BY <1>2, TakenSized
<1>4. ~ m.bk[p].taken /\ p \notin DOMAIN g
    <2>1. p <= p /\ p < p + n
        BY <1>2, PagesAre
    <2> QED
        BY <1>2, <2>1, GrantedTaken
<1>5. \A q \in Pages : m.bk[q].taken => r.bk[q].taken
    <2>1. \A q \in Pages : r.bk[q] = IF p <= q /\ q < p + n
                                     THEN [taken |-> TRUE, last |-> q = p + n - 1] ELSE m.bk[q]
        BY <1>2, TakenIs
    <2> QED
        BY <1>2, <2>1
<1>6. Tabled(r, T, lev)
    BY <1>1, <1>5, TabledKept DEF Owns
<1>7. DOMAIN h = DOMAIN g \cup {p} /\ \A q \in DOMAIN h : h[q] = IF q = p THEN n ELSE g[q]
    BY DEF Set
<1>8. \A u \in Users : p \notin T[u]
    BY <1>1, <1>4 DEF Owns
<1> HIDE DEF h
<1>9. \A q \in Procs : /\ q # o => Stacks(pr1, q) = Stacks(pr, q)
                       /\ Stacks(pr1, q) \subseteq Stacks(pr, q) \cup {p}
    BY DEF Stacks
<1>10. \A q \in Procs : p \notin Stacks(pr, q)
    BY <1>1, <1>4 DEF Owns
<1>11. ASSUME NEW q \in Procs, NEW s \in Stacks(pr1, q)
       PROVE  s \in DOMAIN h /\ \A u \in Users : s \notin T[u]
    BY <1>1, <1>7, <1>8, <1>9 DEF Owns
<1>12. \A q, s \in Procs : q # s => Stacks(pr1, q) \cap Stacks(pr1, s) = {}
    <2> TAKE q, s \in Procs
    <2>1. SUFFICES ASSUME q # s PROVE Stacks(pr1, q) \cap Stacks(pr1, s) = {}
        OBVIOUS
    <2>2. Stacks(pr, q) \cap Stacks(pr, s) = {}
        BY <1>1, <2>1 DEF Owns
    <2> QED
        BY <1>9, <1>10, <2>1, <2>2
<1>13. ASSUME NEW q \in Procs, pr1[q].stack = pr1[q].trap_stack PROVE pr1[q].stack = NULL
    <2>1. pr[q].stack # p /\ pr[q].trap_stack # p
        BY <1>10 DEF Stacks
    <2>2. pr[q].stack = pr[q].trap_stack => pr[q].stack = NULL
        BY <1>1 DEF Owns
    <2> QED
        BY <1>13, <2>1, <2>2
<1>14. /\ \A u \in Users : T[u] \subseteq DOMAIN h
       /\ KernelTable \in T[NULL] /\ lev[KernelTable] = LEVELS - 1
       /\ \A q \in Procs : pr1[q].ptable # NULL =>
             pr1[q].ptable \in T[q] /\ lev[pr1[q].ptable] = LEVELS - 1
    BY <1>1, <1>7 DEF Owns
<1>16. ASSUME NEW q \in Procs, pr1[q].stack # NULL PROVE h[pr1[q].stack] = STACK_PAGES
    <2>1. pr1[q].stack = pr[q].stack \/ (pr1[q].stack = p /\ n = STACK_PAGES)
        OBVIOUS
    <2>2. CASE pr1[q].stack = p /\ n = STACK_PAGES
        BY <1>7, <2>2
    <2>3. CASE pr1[q].stack = pr[q].stack
        <3>1. pr[q].stack \in Stacks(pr, q)
            BY <1>16, <2>3 DEF Stacks
        <3>2. pr[q].stack \in DOMAIN g /\ g[pr[q].stack] = STACK_PAGES /\ pr[q].stack # p
            BY <1>1, <1>4, <1>16, <2>3, <3>1 DEF Owns
        <3> QED
            BY <1>7, <2>3, <3>2
    <2> QED
        BY <2>1, <2>2, <2>3
<1>15. Owns(r, h, pr1, T, lev)
    BY <1>6, <1>11, <1>12, <1>13, <1>14, <1>16 DEF Owns
<1>17. Spared(g, pr, T, h, pr1, T)
    BY <1>4, <1>7, <1>9 DEF Spared, Loose
<1>18. \A t \in T[NULL] : r.tables[t] = m.tables[t]
    <2>1. SUFFICES ASSUME NEW t \in T[NULL] PROVE r.tables[t] = m.tables[t]
        OBVIOUS
    <2>2. t \in Pages /\ m.bk[t].taken
        BY <1>1 DEF Owns, Tabled, Users
    <2>3. t \notin p .. p + n - 1
        BY <1>2, <2>2, PagesAre
    <2> QED
        BY <2>2, <2>3
<1>19. Quiet(m, g, pr, T, lev, r, h, pr1, T, lev)
    BY <1>15, <1>17, <1>18 DEF Quiet
<1>20. ASSUME o \notin Procs PROVE p \in Loose(h, pr1, T)
    <2>1. \A q \in Procs : Stacks(pr1, q) = Stacks(pr, q)
        BY <1>20 DEF Stacks
    <2> QED
        BY <1>7, <1>8, <1>10, <2>1 DEF Loose
<1>21. Sound(r, h, pr1)
    BY <1>2, <1>3, <1>15 DEF Sound
<1> QED
    BY <1>2, <1>19, <1>20, <1>21 DEF h

\* A page becomes the root of the tables of process o.
LEMMA QuietTable ==
    ASSUME NEW m, NEW g, NEW pr, IsMemory(m), Sized(m.bk, g),
           NEW T, NEW lev, Owns(m, g, pr, T, lev),
           NEW p, p = page_alloc(m.bk, 1), p # NULL,
           NEW r, r = page_zalloc(m, p, 1),
           NEW pr1, NEW o \in Procs, pr1[o].ptable = p,
           \A q \in Procs : q # o => pr1[q].ptable = pr[q].ptable,
           \A q \in Procs : pr1[q].stack = pr[q].stack /\ pr1[q].trap_stack = pr[q].trap_stack
    PROVE  LET h == Set(g, p, 1) IN
           /\ Sound(r, h, pr1) /\ p \in Pages
           /\ \E T1, lev1 : Quiet(m, g, pr, T, lev, r, h, pr1, T1, lev1)
<1> DEFINE h == Set(g, p, 1)
<1>1. Owns(m, g, pr, T, lev)
    OBVIOUS
<1>2. /\ IsMemory(m) /\ Sized(m.bk, g) /\ m.bk \in Bookkeeping
      /\ p \in Pages /\ p + 1 <= NUM_PAGES
      /\ \A i \in Pages : p <= i /\ i < p + 1 => ~ m.bk[i].taken
    BY AllocFree DEF IsMemory
<1>3. ~ m.bk[p].taken /\ p \notin DOMAIN g
    <2>1. p <= p /\ p < p + 1
        BY <1>2, PagesAre
    <2> QED
        BY <1>2, <2>1, GrantedTaken
<1>4. /\ IsMemory(r) /\ r.bk = Taken(m.bk, p, 1)
      /\ \A q \in Pages : r.tables[q] \in {m.tables[q], ZeroPage}
      /\ r.tables[p] = ZeroPage /\ \A q \in Pages : q # p => r.tables[q] = m.tables[q]
    <2>1. IsMemory(r) /\ r.bk = Taken(m.bk, p, 1)
        BY <1>2, ZallocIs
    <2>2. \A q \in Pages : r.tables[q] \in {m.tables[q], ZeroPage}
        BY <1>2, ZallocIs
    <2>3. r.tables[p] = ZeroPage /\ \A q \in Pages : q # p => r.tables[q] = m.tables[q]
        BY <1>2, ZallocIs
    <2> QED
        BY <2>1, <2>2, <2>3
<1>5. Sized(r.bk, h)
    BY <1>2, <1>4, TakenSized
<1>6. r.bk[p].taken /\ \A q \in Pages : m.bk[q].taken => r.bk[q].taken
    <2>1. Grown(m.bk, r.bk) /\ r.bk[p].taken
        BY <1>2, <1>3, <1>4, TakenGrows
    <2> QED
        BY <2>1 DEF Grown
<1> DEFINE T1 == [T EXCEPT ![o] = @ \cup {p}]
           lev1 == [lev EXCEPT ![p] = LEVELS - 1]
<1>7. Tabled(r, T1, lev1) /\ \A v \in Users : p \notin T[v]
    <2>1. LEVELS - 1 \in 0 .. LEVELS - 1 /\ o \in Users
        BY MmuAssumption DEF Users
    <2>2. Tabled(m, T, lev)
        BY <1>1 DEF Owns
    <2> QED
        BY <1>2, <1>3, <1>4, <1>6, <2>1, <2>2, FreshTable
<1>8. /\ \A v \in Users : T1[v] = IF v = o THEN T[v] \cup {p} ELSE T[v]
      /\ \A q \in Pages : lev1[q] = IF q = p THEN LEVELS - 1 ELSE lev[q]
      /\ \A v \in Users : T[v] \subseteq Pages
    <2>1. T \in [Users -> SUBSET Pages] /\ lev \in [Pages -> 0 .. LEVELS - 1]
        BY <1>1 DEF Owns, Tabled
    <2> QED
        BY <2>1
<1>9. DOMAIN h = DOMAIN g \cup {p} /\ \A q \in DOMAIN h : h[q] = IF q = p THEN 1 ELSE g[q]
    BY DEF Set
<1>10. \A q \in Procs : p \notin Stacks(pr, q) /\ Stacks(pr1, q) = Stacks(pr, q)
    BY <1>1, <1>3 DEF Owns, Stacks
<1> HIDE DEF h, T1, lev1
<1>11. NULL \in Users /\ NULL # o /\ \A q \in Procs : q \in Users
    BY MemoryAssumption DEF Users
<1>12. KernelTable \in T1[NULL] /\ lev1[KernelTable] = LEVELS - 1
    BY <1>1, <1>8, <1>11 DEF Owns
<1>13. ASSUME NEW q \in Procs, pr1[q].ptable # NULL
       PROVE  pr1[q].ptable \in T1[q] /\ lev1[pr1[q].ptable] = LEVELS - 1
    <2>1. CASE q = o
        BY <1>2, <1>8, <1>11, <2>1
    <2>2. CASE q # o
        <3>1. pr[q].ptable # NULL /\ pr1[q].ptable = pr[q].ptable
            BY <1>13, <2>2
        <3>2. pr[q].ptable \in T[q] /\ lev[pr[q].ptable] = LEVELS - 1
            BY <1>1, <3>1 DEF Owns
        <3>3. pr[q].ptable \in Pages /\ pr[q].ptable # p /\ T1[q] = T[q]
            BY <1>7, <1>8, <1>11, <2>2, <3>2
        <3> QED
            BY <1>8, <3>1, <3>2, <3>3
    <2> QED
        BY <2>1, <2>2
<1>14. ASSUME NEW q \in Procs, NEW s \in Stacks(pr1, q)
       PROVE  s \in DOMAIN h /\ \A u \in Users : s \notin T1[u]
    <2>1. s \in Stacks(pr, q) /\ s # p
        BY <1>10
    <2>2. s \in DOMAIN g /\ \A u \in Users : s \notin T[u]
        BY <1>1, <2>1 DEF Owns
    <2>3. \A u \in Users : T1[u] \subseteq T[u] \cup {p}
        BY <1>8
    <2>4. \A u \in Users : s \notin T1[u]
        BY <2>1, <2>2, <2>3
    <2> QED
        BY <1>9, <2>2, <2>4
<1>15. \A u \in Users : T1[u] \subseteq DOMAIN h
    <2>1. \A u \in Users : T[u] \subseteq DOMAIN g
        BY <1>1 DEF Owns
    <2> QED
        BY <1>8, <1>9, <2>1
<1>16. /\ \A q, s \in Procs : q # s => Stacks(pr1, q) \cap Stacks(pr1, s) = {}
       /\ \A q \in Procs : pr1[q].stack = pr1[q].trap_stack => pr1[q].stack = NULL
    BY <1>1, <1>10 DEF Owns
<1>18. ASSUME NEW q \in Procs, pr1[q].stack # NULL PROVE h[pr1[q].stack] = STACK_PAGES
    <2>1. pr1[q].stack = pr[q].stack /\ pr[q].stack \in Stacks(pr, q)
        BY <1>18 DEF Stacks
    <2>2. pr[q].stack \in DOMAIN g /\ g[pr[q].stack] = STACK_PAGES /\ pr[q].stack # p
        BY <1>1, <1>10, <1>18, <2>1 DEF Owns
    <2> QED
        BY <1>9, <2>1, <2>2
<1>17. Owns(r, h, pr1, T1, lev1)
    BY <1>7, <1>12, <1>13, <1>14, <1>15, <1>16, <1>18 DEF Owns
<1>19. Spared(g, pr, T, h, pr1, T1)
    <2>1. SUFFICES ASSUME NEW e \in Loose(g, pr, T) PROVE e \in Loose(h, pr1, T1) /\ h[e] = g[e]
        BY DEF Spared
    <2>2. e \in DOMAIN g /\ e # p
        BY <1>3 DEF Loose
    <2>3. \A u \in Users : e \notin T1[u]
        BY <1>8, <2>2 DEF Loose
    <2> QED
        BY <1>9, <1>10, <2>2, <2>3 DEF Loose
<1>20. T1[NULL] = T[NULL] /\ \A t \in T[NULL] : lev1[t] = lev[t] /\ r.tables[t] = m.tables[t]
    BY <1>4, <1>7, <1>8, <1>11
<1>21. Quiet(m, g, pr, T, lev, r, h, pr1, T1, lev1)
    BY <1>17, <1>19, <1>20 DEF Quiet
<1>22. Sound(r, h, pr1)
    BY <1>4, <1>5, <1>17 DEF Sound
<1> QED
    BY <1>2, <1>21, <1>22 DEF h

\* What remains granted is still there.
LEMMA QuietKept ==
    ASSUME NEW m, NEW g, NEW pr, NEW T, NEW lev, Owns(m, g, pr, T, lev),
           NEW r, IsMemory(r), NEW h, Sized(r.bk, h),
           NEW pr1, NEW T1, T1 \in [Users -> SUBSET Pages],
           \A u \in Users : T1[u] \in {T[u], {}} /\ T1[u] \subseteq DOMAIN h,
           T1[NULL] = T[NULL],
           \A u \in Users : \A t \in T1[u] : r.tables[t] = m.tables[t],
           \A q \in Procs : /\ pr1[q].ptable # NULL => pr1[q].ptable = pr[q].ptable /\ T1[q] = T[q]
                            /\ pr1[q].stack \in {pr[q].stack, NULL}
                            /\ pr1[q].trap_stack \in {pr[q].trap_stack, NULL}
                            /\ Stacks(pr1, q) \subseteq DOMAIN h,
           \A e \in DOMAIN h : h[e] = g[e],
           Loose(g, pr, T) \subseteq DOMAIN h
    PROVE  Sound(r, h, pr1) /\ Quiet(m, g, pr, T, lev, r, h, pr1, T1, lev)
<1>1. Tabled(r, T1, lev)
    <2>1. lev \in [Pages -> 0 .. LEVELS - 1]
        BY DEF Owns, Tabled
    <2>2. \A u, v \in Users : u # v => T1[u] \cap T1[v] = {}
        BY DEF Owns, Tabled
    <2>3. ASSUME NEW u \in Users, NEW t \in T1[u]
          PROVE  /\ r.bk[t].taken
                 /\ \A k \in DOMAIN r.tables[t] :
                       IF lev[t] = 0 THEN IsLeaf(r.tables[t][k])
                       ELSE /\ ~ IsLeaf(r.tables[t][k])
                            /\ r.tables[t][k].ppn \in T1[u]
                            /\ lev[r.tables[t][k].ppn] = lev[t] - 1
        <3>1. r.bk[t].taken
            BY GrantedTaken
        <3>2. T1[u] = T[u] /\ r.tables[t] = m.tables[t]
            BY <2>3
        <3>3. \A k \in DOMAIN m.tables[t] :
                 IF lev[t] = 0 THEN IsLeaf(m.tables[t][k])
                 ELSE /\ ~ IsLeaf(m.tables[t][k])
                      /\ m.tables[t][k].ppn \in T[u]
                      /\ lev[m.tables[t][k].ppn] = lev[t] - 1
            BY <3>2 DEF Owns, Tabled
        <3> QED
            BY <3>1, <3>2, <3>3
    <2> QED
        BY <2>1, <2>2, <2>3 DEF Tabled
<1>2. \A q \in Procs : Stacks(pr1, q) \subseteq Stacks(pr, q)
    BY DEF Stacks
<1>3. ASSUME NEW q \in Procs, NEW s \in Stacks(pr1, q)
      PROVE  s \in DOMAIN h /\ \A u \in Users : s \notin T1[u]
    BY <1>2 DEF Owns
<1>4. \A p, q \in Procs : p # q => Stacks(pr1, p) \cap Stacks(pr1, q) = {}
    BY <1>2 DEF Owns
<1>5. ASSUME NEW q \in Procs, pr1[q].stack = pr1[q].trap_stack PROVE pr1[q].stack = NULL
    BY <1>5 DEF Owns
<1>6. \A q \in Procs : pr1[q].ptable # NULL =>
          pr1[q].ptable \in T1[q] /\ lev[pr1[q].ptable] = LEVELS - 1
    BY DEF Owns
<1>7. KernelTable \in T1[NULL] /\ lev[KernelTable] = LEVELS - 1
    BY DEF Owns
<1>9. ASSUME NEW q \in Procs, pr1[q].stack # NULL PROVE h[pr1[q].stack] = STACK_PAGES
    <2>1. pr1[q].stack = pr[q].stack /\ pr1[q].stack \in Stacks(pr1, q)
        BY <1>9 DEF Stacks
    <2>2. pr1[q].stack \in DOMAIN h
        BY <2>1
    <2> QED
        BY <1>9, <2>1, <2>2 DEF Owns
<1>8. Owns(r, h, pr1, T1, lev)
    BY <1>1, <1>3, <1>4, <1>5, <1>6, <1>7, <1>9 DEF Owns
<1>10. Spared(g, pr, T, h, pr1, T1)
    <2>1. SUFFICES ASSUME NEW e \in Loose(g, pr, T) PROVE e \in Loose(h, pr1, T1) /\ h[e] = g[e]
        BY DEF Spared
    <2>2. e \in DOMAIN h /\ h[e] = g[e]
        OBVIOUS
    <2>3. \A u \in Users : e \notin T1[u]
        BY DEF Loose
    <2>4. \A p \in Procs : e \notin Stacks(pr1, p)
        BY <1>2 DEF Loose
    <2> QED
        BY <2>2, <2>3, <2>4 DEF Loose
<1>11. \A t \in T[NULL] : r.tables[t] = m.tables[t]
    BY DEF Users
<1> QED
    BY <1>8, <1>10, <1>11 DEF Sound, Quiet

\* Nothing is taken, and no entry is made.
LEMMA QuietZeroed ==
    ASSUME NEW m, NEW g, NEW pr, Sized(m.bk, g), NEW T, NEW lev, Owns(m, g, pr, T, lev),
           NEW r, IsMemory(r), r.bk = m.bk,
           \A q \in Pages : r.tables[q] \in {m.tables[q], ZeroPage},
           \A t \in T[NULL] : r.tables[t] = m.tables[t]
    PROVE  Sound(r, g, pr) /\ Quiet(m, g, pr, T, lev, r, g, pr, T, lev)
<1>2. Tabled(r, T, lev)
    BY TabledKept DEF Owns
<1>3. Owns(r, g, pr, T, lev)
    BY <1>2 DEF Owns
<1> QED
    BY <1>3 DEF Sound, Quiet, Spared

LEMMA QuietTwice ==
    ASSUME NEW m, NEW g, NEW pr, NEW T, NEW lev,
           NEW m1, NEW g1, NEW pr1, NEW T1, NEW lev1, Quiet(m, g, pr, T, lev, m1, g1, pr1, T1, lev1),
           NEW m2, NEW g2, NEW pr2, NEW T2, NEW lev2, Quiet(m1, g1, pr1, T1, lev1, m2, g2, pr2, T2, lev2)
    PROVE  Quiet(m, g, pr, T, lev, m2, g2, pr2, T2, lev2)
<1>1. Spared(g, pr, T, g2, pr2, T2)
    BY DEF Quiet, Spared
<1> QED
    BY <1>1 DEF Quiet

\* The memory does not change, and processes have no more than before.
LEMMA StillQuiet ==
    ASSUME NEW T, NEW lev, Owns(mem, granted, proc, T, lev), mem' = mem, granted' = granted,
           \A p \in Procs : /\ proc'[p].ptable \in {proc[p].ptable, NULL}
                            /\ proc'[p].stack \in {proc[p].stack, NULL}
                            /\ proc'[p].trap_stack \in {proc[p].trap_stack, NULL}
    PROVE  Undisturbed(T, lev) /\ Owns(mem, granted, proc', T, lev)
<1>1. PICK pr1 : pr1 = proc'
    OBVIOUS
<1>2. Quiet(mem, granted, proc, T, lev, mem, granted, pr1, T, lev)
    BY <1>1, QuietLess
<1>3. Quiet(mem, granted, proc, T, lev, mem', granted', proc', T, lev)
    BY <1>1, <1>2
<1> QED
    BY <1>2, <1>3, <1>1 DEF Undisturbed, Quiet

-----------------------------------------------------------------------------
(* The heap's blocks. *)

\* A block that ends at v or before.
Node(v) == {b \in [addr : Nat, size : Nat] : b.addr + HEADER + b.size <= v}

LEMMA Sizes1 ==
    /\ HEADER \in Nat \ {0} /\ MIN_NODE \in Nat \ {0} /\ PS_4K \in Nat \ {0}
    /\ STACK_PAGES \in Nat \ {0} /\ PROC_SIZE \in Nat \ {0} /\ FRAME_SIZE \in Nat
    /\ TEXT_VADDR \in Nat /\ STACK_VADDR \in Nat /\ Sizes \subseteq Nat
BY MemoryAssumption, MmuAssumption

LEMMA ModLess ==
    ASSUME NEW N \in Nat \ {0}, NEW x \in Nat
    PROVE  x % N <= x /\ x % N \in Nat
OBVIOUS

LEMMA DivUp ==
    ASSUME NEW N \in Nat \ {0}, NEW x \in Nat \ {0}
    PROVE  (x + N - 1) \div N \in Nat \ {0} /\ ((x + N - 1) \div N) * N >= x
OBVIOUS

LEMMA DivMonotonic ==
    ASSUME NEW N \in Nat \ {0}, NEW x \in Int, NEW y \in Int, x <= y
    PROVE  x \div N \in Int /\ y \div N \in Int /\ x \div N <= y \div N
OBVIOUS

LEMMA RoundUpType == \A n \in Nat : RoundUp(n) \in Nat
<1> TAKE n \in Nat
<1>1. PICK N \in Nat \ {0} : N = MIN_NODE
    BY Sizes1
<1>2. PICK x \in Nat : x = n + N - 1
    OBVIOUS
<1>3. x % N <= x /\ x % N \in Nat
    BY ModLess
<1>4. n + MIN_NODE - 1 = x /\ x % MIN_NODE = x % N
    BY <1>1, <1>2
<1>5. RoundUp(n) = n + (MIN_NODE - 1 - (x % MIN_NODE))
    BY <1>4, Zenon DEF RoundUp
<1> QED
    BY <1>1, <1>2, <1>3, <1>4, <1>5

LEMMA PagesForType ==
    \A n \in Nat : PagesFor(n) \in Nat \ {0} /\ HeapBytes(n) \in Nat /\ HeapBytes(n) >= HEADER + n
<1> TAKE n \in Nat
<1>1. PICK x \in Nat \ {0} : x = HEADER + n
    BY Sizes1
<1>2. (x + PS_4K - 1) \div PS_4K \in Nat \ {0} /\ ((x + PS_4K - 1) \div PS_4K) * PS_4K >= x
    BY Sizes1, DivUp
<1>3. PagesFor(n) = (x + PS_4K - 1) \div PS_4K
    BY <1>1 DEF PagesFor
<1>4. PICK k \in Nat \ {0} : k = PagesFor(n) /\ k * PS_4K >= x
    BY <1>2, <1>3
<1>5. k * PS_4K \in Nat
    BY Sizes1
<1> QED
    BY <1>1, <1>4, <1>5 DEF HeapBytes

LEMMA PagesMappedType == \A v \in Int, n \in Nat : PagesMapped(v, n) \in Nat
<1> TAKE v \in Int, n \in Nat
<1>1. PICK x \in Int : x = v + n /\ v <= x
    OBVIOUS
<1>2. v \div PS_4K \in Int /\ x \div PS_4K \in Int /\ v \div PS_4K <= x \div PS_4K
    BY <1>1, Sizes1, DivMonotonic
<1> QED
    BY <1>1, <1>2 DEF PagesMapped

LEMMA SplitType ==
    ASSUME NEW v \in Nat, NEW node \in Node(v), NEW n \in Nat
    PROVE  split_node(node, n) \in Seq(Node(v)) /\ split_node(node, n) # <<>>
<1> DEFINE a == [node EXCEPT !.size = n]
           b == [addr |-> node.addr + HEADER + n, size |-> node.size - n - HEADER]
<1>1. node.addr \in Nat /\ node.size \in Nat /\ node.addr + HEADER + node.size <= v
    BY DEF Node
<1>2. CASE node.size <= n + HEADER + MIN_NODE - 1
    BY <1>2 DEF split_node
<1>3. CASE ~ (node.size <= n + HEADER + MIN_NODE - 1)
    <2>1. node.size - n - HEADER \in Nat /\ n <= node.size /\ node.addr + HEADER + n \in Nat
        BY <1>1, <1>3, Sizes1
    <2>2. a \in [addr : Nat, size : Nat] /\ a.addr = node.addr /\ a.size = n
        BY DEF Node
    <2>3. b \in [addr : Nat, size : Nat] /\ b.addr = node.addr + HEADER + n
          /\ b.size = node.size - n - HEADER
        BY <2>1
    <2>4. split_node(node, n) = <<a, b>>
        BY <1>3 DEF split_node
    <2> HIDE DEF a, b
    <2>5. a \in Node(v) /\ b \in Node(v)
        BY <1>1, <2>1, <2>2, <2>3, Sizes1 DEF Node
    <2> QED
        BY <2>4, <2>5
<1> QED
    BY <1>2, <1>3

LEMMA TakeType ==
    ASSUME NEW v \in Nat, NEW list \in Seq(Node(v)), NEW k \in DOMAIN list, NEW n \in Nat
    PROVE  Take(list, k, n).free \in Seq(Node(v)) /\ Take(list, k, n).block \in Node(v)
<1> DEFINE S == Node(v)
           split == split_node(list[k], n)
           a == SubSeq(list, 1, k - 1)
           c == SubSeq(list, k + 1, Len(list))
<1>1. Len(list) \in Nat /\ k \in 1 .. Len(list) /\ \A i \in 1 .. Len(list) : list[i] \in S
    BY LenProperties, ElementOfSeq
<1>2. split \in Seq(S) /\ split # <<>>
    BY <1>1, SplitType
<1> HIDE DEF S, split
<1>3. Head(split) \in S /\ Tail(split) \in Seq(S)
    BY <1>2, HeadTailProperties
<1>4. a \in Seq(S)
    <2>1. \A i \in 1 .. k - 1 : list[i] \in S
        BY <1>1
    <2> QED
        BY <1>1, <2>1, SubSeqProperties
<1>5. c \in Seq(S)
    <2>1. \A i \in k + 1 .. Len(list) : list[i] \in S
        BY <1>1
    <2> QED
        BY <1>1, <2>1, SubSeqProperties
<1>6. Take(list, k, n) = [free |-> a \o Tail(split) \o c, block |-> Head(split)]
    BY DEF Take, split
<1> HIDE DEF a, c
<1>7. a \o Tail(split) \o c \in Seq(S)
    BY <1>3, <1>4, <1>5, ConcatProperties
<1> QED
    BY <1>3, <1>6, <1>7 DEF S

Join(done, node) ==
    IF done # <<>> /\ End(Last(done)) = node.addr
    THEN [done EXCEPT ![Len(done)].size = @ + HEADER + node.size]
    ELSE Append(done, node)
Joined(f, n, list) == IF n = 0 THEN <<>> ELSE Join(f[n - 1], list[n])

LEMMA JoinedExist ==
    ASSUME NEW N \in Nat, NEW list
    PROVE  \E f : f = [n \in 0 .. N |-> Joined(f, n, list)]
<1> DEFINE S == {n \in Nat : \E f : f = [j \in 0 .. n |-> Joined(f, j, list)]}
<1>1. 0 \in S
    <2> DEFINE g == [j \in 0 .. 0 |-> <<>>]
    <2>1. g = [j \in 0 .. 0 |-> Joined(g, j, list)]
        BY DEF Joined
    <2> HIDE DEF g
    <2> QED
        BY <2>1
<1>2. ASSUME NEW n \in Nat, n \in S PROVE n + 1 \in S
    <2>1. PICK f : f = [j \in 0 .. n |-> Joined(f, j, list)]
        BY <1>2
    <2> DEFINE last == Join(f[n], list[n + 1])
               g == [j \in 0 .. n + 1 |-> IF j = n + 1 THEN last ELSE f[j]]
    <2>2. ASSUME NEW j \in 0 .. n + 1
          PROVE  (IF j = n + 1 THEN last ELSE f[j]) = Joined(g, j, list)
        <3>1. CASE j = n + 1
            <4>1. g[j - 1] = f[n] /\ j # 0 /\ j - 1 = n
                BY <3>1
            <4> HIDE DEF g
            <4> QED
                BY <3>1, <4>1 DEF Joined
        <3>2. CASE j # n + 1
            <4>1. j \in 0 .. n /\ (j # 0 => g[j - 1] = f[j - 1])
                BY <3>2
            <4>2. f[j] = Joined(f, j, list)
                BY <2>1, <4>1
            <4> HIDE DEF g, last
            <4> QED
                BY <3>2, <4>1, <4>2 DEF Joined
        <3> QED
            BY <3>1, <3>2
    <2>3. g = [j \in 0 .. n + 1 |-> Joined(g, j, list)]
        BY <2>2
    <2> HIDE DEF g
    <2> QED
        BY <2>3
<1>3. \A n \in Nat : n \in S
    <2> HIDE DEF S
    <2> QED
        BY <1>1, <1>2, InductionOverNat
<1> QED
    BY <1>3

LEMMA CoalesceType ==
    ASSUME NEW v \in Nat, NEW list \in Seq(Node(v))
    PROVE  coalesce_free_list(list) \in Seq(Node(v))
<1> DEFINE S == Node(v)
           joined == CHOOSE f : f = [n \in 0 .. Len(list) |-> Joined(f, n, list)]
           D == {n \in Nat : n <= Len(list) => joined[n] \in Seq(S)}
<1>1. Len(list) \in Nat /\ \A i \in 1 .. Len(list) : list[i] \in S
    BY LenProperties, ElementOfSeq
<1>2. coalesce_free_list(list) = joined[Len(list)]
    BY DEF coalesce_free_list, Joined, Join
<1>3. joined = [n \in 0 .. Len(list) |-> Joined(joined, n, list)]
    BY <1>1, JoinedExist
<1> HIDE DEF joined
<1>4. 0 \in D
    <2>1. joined[0] = <<>>
        BY <1>1, <1>3 DEF Joined
    <2>2. <<>> \in Seq(S)
        BY EmptySeq
    <2> HIDE DEF S
    <2> QED
        BY <2>1, <2>2
<1>5. ASSUME NEW n \in Nat, n \in D PROVE n + 1 \in D
    <2> DEFINE done == joined[n]
               node == list[n + 1]
    <2>1. SUFFICES ASSUME n + 1 <= Len(list) PROVE joined[n + 1] \in Seq(S)
        OBVIOUS
    <2>2. n + 1 \in 0 .. Len(list) /\ n + 1 \in 1 .. Len(list) /\ n + 1 # 0 /\ n + 1 - 1 = n
        BY <1>1, <2>1
    <2>3. done \in Seq(S) /\ node \in S
        BY <1>1, <1>5, <2>1, <2>2
    <2>4. joined[n + 1] = Join(done, node)
        <3>1. joined[n + 1] = Joined(joined, n + 1, list)
            BY <1>3, <2>2
        <3> QED
            BY <2>2, <3>1 DEF Joined
    <2> HIDE DEF done, node
    <2>5. CASE done # <<>> /\ End(Last(done)) = node.addr
        <3> DEFINE l == Len(done)
        <3>1. l \in Nat /\ l # 0 /\ done \in [1 .. l -> S] /\ l \in 1 .. l
            BY <2>3, <2>5, LenProperties, EmptySeq
        <3>2. Last(done) = done[l] /\ done[l] \in S
            BY <3>1 DEF Last
        <3>3. done[l] \in [addr : Nat, size : Nat] /\ node \in [addr : Nat, size : Nat]
            BY <2>3, <3>2 DEF S, Node
        <3> DEFINE big == [done[l] EXCEPT !.size = @ + HEADER + node.size]
        <3>4. big \in [addr : Nat, size : Nat] /\ big.addr = done[l].addr
              /\ big.size = done[l].size + HEADER + node.size
            <4>1. PICK d \in [addr : Nat, size : Nat] : d = done[l]
                BY <3>3
            <4>2. PICK k \in Nat : k = d.size + HEADER + node.size
                BY <3>3, Sizes1
            <4>3. big = [d EXCEPT !.size = k]
                BY <4>1, <4>2
            <4> HIDE DEF big, l
            <4>4. big \in [addr : Nat, size : Nat] /\ big.addr = d.addr /\ big.size = k
                BY <4>3
            <4> QED
                BY <4>1, <4>2, <4>4
        <3>5. /\ done[l].addr + HEADER + done[l].size = node.addr
              /\ node.addr + HEADER + node.size <= v
            BY <2>3, <2>5, <3>2 DEF End, S, Node
        <3>6. big \in S
            <4> HIDE DEF big, l
            <4>1. PICK da, ds, na, ns \in Nat :
                    da = done[l].addr /\ ds = done[l].size /\ na = node.addr /\ ns = node.size
                BY <3>3
            <4>2. PICK H \in Nat : H = HEADER
                BY Sizes1
            <4>3. big.addr = da /\ big.size = ds + H + ns
                BY <3>4, <4>1, <4>2
            <4>4. da + H + ds = na /\ na + H + ns <= v
                BY <3>5, <4>1, <4>2
            <4>5. da + H + (ds + H + ns) <= v
                BY <4>4
            <4>6. big.addr + HEADER + big.size <= v
                BY <4>2, <4>3, <4>5
            <4> QED
                BY <3>4, <4>6 DEF S, Node
        <3>7. joined[n + 1] = [done EXCEPT ![l] = big]
            BY <2>4, <2>5 DEF Join
        <3> HIDE DEF big, l, S
        <3>8. [done EXCEPT ![l] = big] \in [1 .. l -> S]
            BY <3>1, <3>6
        <3> QED
            BY <3>1, <3>7, <3>8
    <2>6. CASE ~ (done # <<>> /\ End(Last(done)) = node.addr)
        <3> HIDE DEF S
        <3> QED
            BY <2>3, <2>4, <2>6, AppendProperties DEF Join
    <2> QED
        BY <2>5, <2>6
<1>6. \A n \in Nat : n \in D
    <2> HIDE DEF D
    <2> QED
        BY <1>4, <1>5, InductionOverNat
<1>7. Len(list) \in D
    BY <1>1, <1>6
<1> QED
    BY <1>1, <1>2, <1>7

LEMMA FreedType ==
    ASSUME NEW v \in Nat, free \in Seq(Node(v)), NEW block \in Node(v)
    PROVE  Freed(block) \in Seq(Node(v))
<1> DEFINE S == Node(v)
           lower == {0} \cup {k \in DOMAIN free : free[k].addr < block.addr}
           before == Max(lower)
<1>1. Len(free) \in Nat /\ DOMAIN free = 1 .. Len(free)
    BY LenProperties
<1>2. before \in 0 .. Len(free)
    <2>1. lower \in SUBSET Int /\ lower # {} /\ \A x \in lower : x \in 0 .. Len(free)
        BY <1>1
    <2>2. \A x \in lower : x <= Len(free)
        BY <1>1, <2>1
    <2> HIDE DEF lower
    <2>3. before \in lower
        <3>1. Len(free) \in Int
            BY <1>1
        <3>2. \E b \in Int : \A x \in lower : x <= b
            BY <2>2, <3>1
        <3> QED
            BY <2>1, <3>2, MaxOfBounded
    <2> QED
        BY <2>1, <2>3
<1>3. Freed(block) = coalesce_free_list(InsertAt(free, before + 1, block))
    BY DEF Freed
<1> HIDE DEF lower, before, S
<1>4. before + 1 \in 1 .. Len(free) + 1
    BY <1>1, <1>2
<1>5. InsertAt(free, before + 1, block) \in Seq(S)
    BY <1>4, InsertAtElements DEF S
<1> QED
    BY <1>3, <1>5, CoalesceType DEF S

-----------------------------------------------------------------------------
(* The invariant. *)

Stage == {"none", "ptable", "frame", "stack", "map_stack", "trap_stack", "ready", "exit_table",
          "exit_block"}
Call == [hart : Harts \cup {NULL}, at : {"idle", "pages", "zero", "map", "insert"}, bytes : Nat,
         want : Users, pages : Pages \cup {NULL}, mapped : Nat]
Process == [stage : Stage, block : Int, ptable : Pages \cup {NULL}, stack : Pages \cup {NULL},
            trap_stack : Pages \cup {NULL}]

\* v: where the heap ends, f: its free list, l: its blocks, and c: the call that grows it.
HeapOK(v, f, l, c) ==
    /\ v \in Nat /\ f \in Seq(Node(v)) /\ l \subseteq Node(v)
    /\ c \in Call /\ (c.at \in {"zero", "map", "insert"} => c.pages # NULL)

\* What a process has at each stage.
ProcOK(pr) ==
    /\ pr \in [Procs -> Process]
    /\ \A p \in Procs :
          /\ pr[p].stage \in {"frame", "stack", "map_stack", "trap_stack", "ready", "exit_table"}
                => pr[p].ptable # NULL
          /\ pr[p].stage \in {"map_stack", "trap_stack", "ready"} => pr[p].stack # NULL
          /\ pr[p].stage = "ready" => pr[p].trap_stack # NULL

IInv ==
    /\ HeapOK(kernel_heap_vaddr, free, live, call)
    /\ ProcOK(proc)
    /\ Sound(mem, granted, proc)

LEMMA NodeGrows ==
    ASSUME NEW v \in Nat, NEW w \in Nat, v <= w
    PROVE  Node(v) \subseteq Node(w)
<1> SUFFICES ASSUME NEW b \in Node(v) PROVE b \in Node(w)
    OBVIOUS
<1>1. b \in [addr : Nat, size : Nat] /\ b.addr + HEADER + b.size <= v
    BY DEF Node
<1>2. b.addr + HEADER + b.size <= w
    BY <1>1, Sizes1
<1> QED
    BY <1>1, <1>2 DEF Node

LEMMA NoCallType == NoCall \in Call
BY DEF NoCall, Call, Users

LEMMA ReturnKeeps ==
    ASSUME ProcOK(proc), Sound(mem, granted, proc), mem' = mem, granted' = granted,
           NEW T, NEW lev, Owns(mem, granted, proc, T, lev),
           NEW v \in Nat, NEW b \in Node(v), NEW w \in Users, Return(b, w)
    PROVE  /\ ProcOK(proc') /\ Sound(mem, granted, proc') /\ Undisturbed(T, lev)
           /\ call' = NoCall /\ live' = live \cup {b}
<1>1. call' = NoCall /\ live' = live \cup {b}
    BY DEF Return
<1>2. CASE w = NULL
    <2>1. proc' = proc
        BY <1>2 DEF Return
    <2>2. Undisturbed(T, lev)
        BY <2>1, StillQuiet
    <2> QED
        BY <1>1, <2>1, <2>2
<1>3. CASE w # NULL
    <2>1. w \in Procs /\ b.addr \in Int
        BY <1>3 DEF Users, Node
    <2>2. /\ proc \in [Procs -> Process] /\ proc[w] \in Process
          /\ proc' = [proc EXCEPT ![w] = [proc[w] EXCEPT !.stage = "ptable", !.block = b.addr]]
        BY <1>3, <2>1 DEF Return, ProcOK
    <2> DEFINE new == [proc[w] EXCEPT !.stage = "ptable", !.block = b.addr]
    <2>3. /\ new \in Process /\ new.stage = "ptable" /\ new.ptable = proc[w].ptable
          /\ new.stack = proc[w].stack /\ new.trap_stack = proc[w].trap_stack
        BY <2>1, <2>2 DEF Process, Stage
    <2>4. proc' = [proc EXCEPT ![w] = new]
        BY <2>2
    <2> HIDE DEF new
    <2>5. \A p \in Procs : proc'[p] = IF p = w THEN new ELSE proc[p]
        BY <2>1, <2>2, <2>4
    <2>6. ProcOK(proc')
        BY <2>1, <2>2, <2>3, <2>4, <2>5 DEF ProcOK
    <2>7. \A p \in Procs : /\ proc'[p].ptable = proc[p].ptable /\ proc'[p].stack = proc[p].stack
                           /\ proc'[p].trap_stack = proc[p].trap_stack
        BY <2>3, <2>5
    <2>8. Undisturbed(T, lev) /\ Owns(mem, granted, proc', T, lev)
        BY <2>7, StillQuiet
    <2> QED
        BY <1>1, <2>6, <2>8 DEF Sound
<1> QED
    BY <1>2, <1>3

LEMMA BeginKeeps ==
    ASSUME IInv, NEW h \in Harts, NEW n \in Nat, NEW w \in Users, Begin(h, n, w),
           NEW T, NEW lev, Owns(mem, granted, proc, T, lev)
    PROVE  IInv' /\ Undisturbed(T, lev)
<1> DEFINE v == kernel_heap_vaddr
           fits == {k \in DOMAIN free : free[k].size >= n}
           taken == Take(free, Min(fits), n)
<1>1. /\ HeapOK(v, free, live, call) /\ ProcOK(proc) /\ Sound(mem, granted, proc)
      /\ mem' = mem /\ kernel_heap_vaddr' = v /\ granted' = granted
    BY DEF IInv, Begin
<1>2. v \in Nat /\ free \in Seq(Node(v)) /\ live \subseteq Node(v)
    BY <1>1 DEF HeapOK
<1>3. CASE fits # {}
    <2>1. free' = taken.free /\ Return(taken.block, w)
        BY <1>3 DEF Begin
    <2>2. Min(fits) \in DOMAIN free
        <3>1. fits \in SUBSET Nat /\ fits \subseteq DOMAIN free
            BY <1>2, LenProperties
        <3> HIDE DEF fits
        <3> QED
            BY <1>3, <3>1, MinOfNaturals
    <2> HIDE DEF fits
    <2>3. taken.free \in Seq(Node(v)) /\ taken.block \in Node(v)
        BY <1>2, <2>2, TakeType
    <2> HIDE DEF taken
    <2>4. /\ ProcOK(proc') /\ Sound(mem, granted, proc') /\ Undisturbed(T, lev)
          /\ call' = NoCall /\ live' = live \cup {taken.block}
        BY <1>1, <1>2, <2>1, <2>3, ReturnKeeps
    <2>5. HeapOK(v, free', live', call')
        BY <1>2, <2>1, <2>3, <2>4, NoCallType DEF HeapOK, NoCall
    <2> QED
        BY <1>1, <2>4, <2>5 DEF IInv
<1>4. CASE fits = {}
    <2>1. /\ call' = [NoCall EXCEPT !.hart = h, !.at = "pages", !.bytes = n, !.want = w]
          /\ free' = free /\ live' = live /\ proc' = proc
        BY <1>4 DEF Begin
    <2>2. call' \in Call /\ call'.at = "pages"
        BY <2>1 DEF NoCall, Call
    <2>3. HeapOK(v, free, live, call')
        BY <1>2, <2>2 DEF HeapOK
    <2>4. Undisturbed(T, lev)
        BY <1>1, <2>1, StillQuiet
    <2> QED
        BY <1>1, <2>1, <2>3, <2>4 DEF IInv
<1> QED
    BY <1>3, <1>4

LEMMA GrowPagesKeeps ==
    ASSUME IInv, GrowPages, NEW T, NEW lev, Owns(mem, granted, proc, T, lev)
    PROVE  /\ IInv' /\ Quiet(mem, granted, proc, T, lev, mem', granted', proc', T, lev)
           /\ \/ call' = NoCall
              \/ /\ call'.at = "zero" /\ call'.bytes = call.bytes /\ call'.mapped = call.mapped
                 /\ call'.pages \in Loose(granted', proc', T) \ DOMAIN granted
                 /\ granted'[call'.pages] = PagesFor(call.bytes)
<1> DEFINE n == PagesFor(call.bytes)
           p == page_alloc(mem.bk, n)
<1>1. /\ HeapOK(kernel_heap_vaddr, free, live, call) /\ ProcOK(proc) /\ Sound(mem, granted, proc)
      /\ kernel_heap_vaddr' = kernel_heap_vaddr /\ free' = free /\ live' = live /\ proc' = proc
      /\ call \in Call /\ IsMemory(mem)
    BY DEF IInv, GrowPages, heap_vars, HeapOK, Sound
<1>2. n \in Nat \ {0}
    BY <1>1, PagesForType DEF Call
<1>3. CASE p # NULL
    <2>1. /\ mem' = [mem EXCEPT !.bk = Taken(mem.bk, p, n)] /\ granted' = Set(granted, p, n)
          /\ call' = [call EXCEPT !.at = "zero", !.pages = p]
        BY <1>3 DEF GrowPages
    <2> HIDE DEF p, n
    <2>2. p \in Pages
        BY <1>1, <1>2, <1>3, AllocFree DEF p, IsMemory
    <2>3. Taken(mem.bk, p, n) \in Bookkeeping
        BY <1>1, <1>2, <2>2, TakenIs DEF IsMemory
    <2> DEFINE b == Taken(mem.bk, p, n)
    <2>4. mem' = [bk |-> b, tables |-> mem.tables, fault |-> mem.fault]
        BY <1>1, <2>1 DEF IsMemory
    <2> HIDE DEF b
    <2>5. IsMemory(mem') /\ mem'.bk = b /\ mem'.tables = mem.tables
        BY <1>1, <2>3, <2>4 DEF IsMemory, b
    <2>6. \A q \in Pages : /\ mem'.tables[q] \in {mem.tables[q], ZeroPage}
                           /\ mem'.tables[q] = mem.tables[q]
        BY <2>5
    <2>7. /\ Sound(mem', Set(granted, p, n), proc)
          /\ Quiet(mem, granted, proc, T, lev, mem', Set(granted, p, n), proc, T, lev)
          /\ p \in Loose(Set(granted, p, n), proc, T)
        <3>1. PICK r, o : r = mem' /\ o = NULL /\ o \notin Procs
            BY MemoryAssumption
        <3>2. /\ Sound(r, Set(granted, p, n), proc)
              /\ Quiet(mem, granted, proc, T, lev, r, Set(granted, p, n), proc, T, lev)
              /\ o \notin Procs => p \in Loose(Set(granted, p, n), proc, T)
            <4>1. /\ IsMemory(mem) /\ Sized(mem.bk, granted) /\ IsMemory(r) /\ r.bk = b
                  /\ \A q \in Pages : r.tables[q] \in {mem.tables[q], ZeroPage}
                  /\ \A q \in Pages : q \notin p .. p + n - 1 => r.tables[q] = mem.tables[q]
                BY <1>1, <2>5, <2>6, <3>1 DEF Sound
            <4>2. p = page_alloc(mem.bk, n) /\ p # NULL /\ b = Taken(mem.bk, p, n) /\ n \in Nat \ {0}
                BY <1>2, <1>3 DEF b, p
            <4> QED
                BY <3>1, <4>1, <4>2, QuietAlloc
        <3> QED
            BY <3>1, <3>2
    <2>8. /\ call' \in Call /\ call'.pages = p /\ p # NULL
          /\ call'.at = "zero" /\ call'.bytes = call.bytes /\ call'.mapped = call.mapped
        BY <1>1, <1>3, <2>1, <2>2 DEF Call
    <2>9. HeapOK(kernel_heap_vaddr, free, live, call')
        BY <1>1, <2>8 DEF HeapOK
    <2>10. p \notin DOMAIN granted
        <3>1. ~ mem.bk[p].taken
            <4>1. p <= p /\ p < p + n
                BY <1>2, <2>2, PagesAre
            <4> QED
                BY <1>1, <1>2, <1>3, <2>2, <4>1, AllocFree DEF p, IsMemory
        <3> QED
            BY <1>1, <3>1, GrantedTaken DEF Sound
    <2>11. Set(granted, p, n)[p] = n
        BY DEF Set
    <2> QED
        BY <1>1, <2>1, <2>7, <2>8, <2>9, <2>10, <2>11 DEF IInv, n
<1>4. CASE p = NULL
    <2>1. PICK fault \in BOOLEAN : mem' = [mem EXCEPT !.fault = fault]
        BY <1>4 DEF GrowPages
    <2>2. call' = NoCall /\ granted' = granted
        BY <1>4 DEF GrowPages
    <2>3. IsMemory(mem') /\ mem'.bk = mem.bk /\ mem'.tables = mem.tables
        BY <1>1, <2>1, FaultIs
    <2>4. /\ Sound(mem', granted, proc)
          /\ Quiet(mem, granted, proc, T, lev, mem', granted, proc, T, lev)
        <3>1. PICK r : r = mem'
            OBVIOUS
        <3>2. /\ Sound(r, granted, proc)
              /\ Quiet(mem, granted, proc, T, lev, r, granted, proc, T, lev)
            BY <1>1, <2>3, <3>1, QuietZeroed DEF Sound
        <3> QED
            BY <3>1, <3>2
    <2>5. HeapOK(kernel_heap_vaddr, free, live, NoCall)
        BY <1>1, NoCallType DEF HeapOK, NoCall
    <2> QED
        BY <1>1, <2>2, <2>4, <2>5 DEF IInv
<1> QED
    BY <1>3, <1>4

LEMMA GrowZeroKeeps ==
    ASSUME IInv, GrowZero
    PROVE  IInv'
<1>1. /\ HeapOK(kernel_heap_vaddr, free, live, call) /\ ProcOK(proc) /\ Sound(mem, granted, proc)
      /\ kernel_heap_vaddr' = kernel_heap_vaddr /\ free' = free /\ live' = live /\ proc' = proc
      /\ call \in Call /\ IsMemory(mem) /\ granted' = granted /\ call.at = "zero"
      /\ mem' = zero_pages(mem, call.pages) /\ call' = [call EXCEPT !.at = "map"]
    BY DEF IInv, GrowZero, heap_vars, HeapOK, Sound
<1>2. Sound(mem', granted, proc)
    <2>1. PICK T, lev : Owns(mem, granted, proc, T, lev)
        BY <1>1 DEF Sound
    <2>2. PICK r : r = mem'
        OBVIOUS
    <2>3. IsMemory(r) /\ r.bk = mem.bk /\ \A q \in Pages : r.tables[q] \in {mem.tables[q], ZeroPage}
        BY <1>1, <2>2, ZeroedIs
    <2>4. Tabled(r, T, lev)
        BY <2>1, <2>3, TabledKept DEF Owns
    <2>5. Owns(r, granted, proc, T, lev)
        BY <2>1, <2>4 DEF Owns
    <2> QED
        BY <1>1, <2>2, <2>3, <2>5 DEF Sound
<1>3. call' \in Call /\ call'.pages = call.pages
    BY <1>1 DEF Call
<1>4. HeapOK(kernel_heap_vaddr, free, live, call')
    BY <1>1, <1>3 DEF HeapOK
<1> QED
    BY <1>1, <1>2, <1>4 DEF IInv

LEMMA GrowMapKeeps ==
    ASSUME IInv, GrowMap
    PROVE  IInv'
<1> DEFINE va == kernel_heap_vaddr + call.mapped * PS_4K
           pa == (call.pages + call.mapped) * PS_4K
           after == mmu_map(mem, KernelTable, va, pa, {"R", "W"})
<1>1. /\ HeapOK(kernel_heap_vaddr, free, live, call) /\ ProcOK(proc) /\ Sound(mem, granted, proc)
      /\ kernel_heap_vaddr' = kernel_heap_vaddr /\ free' = free /\ live' = live /\ proc' = proc
      /\ call \in Call /\ IsMemory(mem) /\ Sized(mem.bk, granted)
    BY DEF IInv, GrowMap, heap_vars, HeapOK, Sound
<1>2. /\ mem' = after /\ granted' = Grant(Since(mem.bk, after.bk), granted) /\ call.at = "map"
      /\ \E at \in {"insert", "map"} : call' = [call EXCEPT !.mapped = @ + 1, !.at = at]
    BY DEF GrowMap, NewTables, Since
<1> HIDE DEF va, pa
<1>3. PICK T, lev : Owns(mem, granted, proc, T, lev)
    BY <1>1 DEF Sound
<1>4. PICK T1, lev1 : Mapped(NULL, mem, T, lev, after, T1, lev1)
    <2>1. /\ Tabled(mem, T, lev) /\ NULL \in Users /\ KernelTable \in T[NULL]
          /\ lev[KernelTable] = LEVELS - 1 /\ {"R", "W"} \cap {"R", "W", "X"} # {}
        BY <1>3 DEF Owns, Users
    <2> QED
        BY <1>1, <2>1, MapKeeps
<1> HIDE DEF after
<1>5. Sound(after, Grant(Since(mem.bk, after.bk), granted), proc)
    BY <1>1, <1>3, <1>4, OwnsMapped DEF Users
<1>6. call' \in Call /\ call'.pages = call.pages
    <2>1. PICK at \in {"insert", "map"} : call' = [call EXCEPT !.mapped = @ + 1, !.at = at]
        BY <1>2
    <2>2. PICK k \in Nat : k = call.mapped + 1
        BY <1>1 DEF Call
    <2>3. call' = [call EXCEPT !.mapped = k, !.at = at]
        BY <2>1, <2>2
    <2> QED
        BY <1>1, <2>3 DEF Call
<1>7. HeapOK(kernel_heap_vaddr, free, live, call')
    BY <1>1, <1>2, <1>6 DEF HeapOK
<1> QED
    BY <1>1, <1>2, <1>5, <1>7 DEF IInv

LEMMA GrowInsertKeeps ==
    ASSUME IInv, GrowInsert, NEW T, NEW lev, Owns(mem, granted, proc, T, lev)
    PROVE  IInv' /\ Undisturbed(T, lev)
<1> DEFINE size == HeapBytes(call.bytes)
           v == kernel_heap_vaddr
           w == v + size
           node == [addr |-> v, size |-> size - HEADER]
           list == Append(free, node)
           taken == Take(list, Len(free) + 1, call.bytes)
<1>1. /\ HeapOK(v, free, live, call) /\ ProcOK(proc) /\ Sound(mem, granted, proc)
      /\ mem' = mem /\ granted' = granted /\ call \in Call
      /\ kernel_heap_vaddr' = w /\ free' = taken.free /\ Return(taken.block, call.want)
    BY DEF IInv, GrowInsert, HeapOK
<1>2. v \in Nat /\ free \in Seq(Node(v)) /\ live \subseteq Node(v)
    BY <1>1 DEF HeapOK
<1>3. call.bytes \in Nat /\ call.want \in Users
    BY <1>1 DEF Call
<1>4. size \in Nat /\ size >= HEADER
    BY <1>3, Sizes1, PagesForType
<1> HIDE DEF size
<1>5. w \in Nat /\ v <= w /\ Node(v) \subseteq Node(w)
    BY <1>2, <1>4, NodeGrows
<1>6. node \in Node(w)
    BY <1>2, <1>4, Sizes1 DEF Node
<1> HIDE DEF w, node
<1>7. free \in Seq(Node(w))
    <2>1. Len(free) \in Nat /\ \A k \in 1 .. Len(free) : free[k] \in Node(w)
        BY <1>2, <1>5, LenProperties, ElementOfSeq
    <2>2. free = [k \in 1 .. Len(free) |-> free[k]]
        BY <1>2, LenProperties
    <2> QED
        BY <2>1, <2>2, IsASeq
<1>8. list \in Seq(Node(w)) /\ Len(free) + 1 \in DOMAIN list
    BY <1>6, <1>7, AppendProperties, LenProperties
<1> HIDE DEF list
<1>9. taken.free \in Seq(Node(w)) /\ taken.block \in Node(w)
    BY <1>3, <1>5, <1>8, TakeType
<1> HIDE DEF taken
<1>10. /\ ProcOK(proc') /\ Sound(mem, granted, proc') /\ Undisturbed(T, lev)
       /\ call' = NoCall /\ live' = live \cup {taken.block}
    BY <1>1, <1>3, <1>5, <1>9, ReturnKeeps
<1>11. HeapOK(w, free', live', call')
    BY <1>1, <1>2, <1>5, <1>9, <1>10, NoCallType DEF HeapOK, NoCall
<1> QED
    BY <1>1, <1>10, <1>11 DEF IInv

LEMMA kfreeKeeps ==
    ASSUME IInv, NEW block \in live, kfree(block)
    PROVE  HeapOK(kernel_heap_vaddr', free', live', call') /\ mem' = mem /\ granted' = granted
<1>1. /\ HeapOK(kernel_heap_vaddr, free, live, call) /\ mem' = mem /\ granted' = granted
      /\ kernel_heap_vaddr' = kernel_heap_vaddr /\ call' = call
      /\ free' = Freed(block) /\ live' = live \ {block}
    BY DEF IInv, kfree
<1>2. Freed(block) \in Seq(Node(kernel_heap_vaddr))
    BY <1>1, FreedType DEF HeapOK
<1> QED
    BY <1>1, <1>2 DEF HeapOK

\* The next stage of a process keeps to ProcOK.
LEMMA AdvanceKeeps ==
    ASSUME ProcOK(proc), NEW p \in Procs, NEW new \in Process, proc' = [proc EXCEPT ![p] = new],
           new.stage \in {"frame", "stack", "map_stack", "trap_stack", "ready", "exit_table"}
                => new.ptable # NULL,
           new.stage \in {"map_stack", "trap_stack", "ready"} => new.stack # NULL,
           new.stage = "ready" => new.trap_stack # NULL
    PROVE  ProcOK(proc') /\ \A q \in Procs : proc'[q] = IF q = p THEN new ELSE proc[q]
<1>1. proc \in [Procs -> Process]
    BY DEF ProcOK
<1>2. proc' \in [Procs -> Process] /\ \A q \in Procs : proc'[q] = IF q = p THEN new ELSE proc[q]
    BY <1>1
<1> QED
    BY <1>2 DEF ProcOK

LEMMA FaultKeeps ==
    ASSUME IInv, mem' = [mem EXCEPT !.fault = TRUE],
           UNCHANGED <<heap_vars, call, granted, proc>>,
           NEW T, NEW lev, Owns(mem, granted, proc, T, lev)
    PROVE  IInv' /\ Undisturbed(T, lev)
<1>1. /\ HeapOK(kernel_heap_vaddr, free, live, call) /\ ProcOK(proc) /\ Sound(mem, granted, proc)
      /\ IsMemory(mem)
    BY DEF IInv, Sound
<1>2. IsMemory(mem') /\ mem'.bk = mem.bk /\ mem'.tables = mem.tables
    BY <1>1, FaultIs
<1>3. /\ Sound(mem', granted, proc)
      /\ Quiet(mem, granted, proc, T, lev, mem', granted, proc, T, lev)
    <2>1. PICK r : r = mem'
        OBVIOUS
    <2>2. /\ Sound(r, granted, proc)
          /\ Quiet(mem, granted, proc, T, lev, r, granted, proc, T, lev)
        BY <1>1, <1>2, <2>1, QuietZeroed DEF Sound
    <2> QED
        BY <2>1, <2>2
<1>4. Undisturbed(T, lev)
    BY <1>3 DEF Undisturbed
<1> QED
    BY <1>1, <1>3, <1>4 DEF IInv, heap_vars

LEMMA NewTableKeeps ==
    ASSUME IInv, NEW p \in Procs, NewTable(p), NEW T, NEW lev, Owns(mem, granted, proc, T, lev)
    PROVE  IInv' /\ Undisturbed(T, lev)
<1> DEFINE t == page_alloc(mem.bk, 1)
           r == page_zalloc(mem, t, 1)
           new == [proc[p] EXCEPT !.stage = "frame", !.ptable = t]
<1>1. /\ HeapOK(kernel_heap_vaddr, free, live, call) /\ ProcOK(proc) /\ Sound(mem, granted, proc)
      /\ UNCHANGED <<heap_vars, call>> /\ IsMemory(mem) /\ proc[p] \in Process
    BY DEF IInv, NewTable, Sound, ProcOK
<1>2. CASE t = NULL
    <2>1. mem' = [mem EXCEPT !.fault = TRUE] /\ UNCHANGED <<granted, proc>>
        BY <1>2 DEF NewTable, ZallocInto
    <2> QED
        BY <1>1, <2>1, FaultKeeps
<1>3. CASE t # NULL
    <2>1. mem' = r /\ granted' = Set(granted, t, 1) /\ proc' = [proc EXCEPT ![p] = new]
        BY <1>3 DEF NewTable, ZallocInto, Advance
    <2>2. t \in Pages
        <3> HIDE DEF t
        <3> QED
            BY <1>1, <1>3, AllocFree DEF t, IsMemory
    <2> HIDE DEF t, r
    <2>3. /\ new \in Process /\ new.stage = "frame" /\ new.ptable = t
          /\ new.stack = proc[p].stack /\ new.trap_stack = proc[p].trap_stack
        BY <1>1, <2>2 DEF Process, Stage
    <2> HIDE DEF new
    <2>4. ProcOK(proc') /\ \A q \in Procs : proc'[q] = IF q = p THEN new ELSE proc[q]
        BY <1>1, <1>3, <2>1, <2>3, AdvanceKeeps
    <2>5. /\ proc'[p].ptable = t
          /\ \A q \in Procs : q # p => proc'[q].ptable = proc[q].ptable
          /\ \A q \in Procs : proc'[q].stack = proc[q].stack /\ proc'[q].trap_stack = proc[q].trap_stack
        BY <2>3, <2>4
    <2>6. /\ Sound(r, Set(granted, t, 1), proc')
          /\ \E T1, lev1 : Quiet(mem, granted, proc, T, lev, r, Set(granted, t, 1), proc', T1, lev1)
        <3>1. PICK pr1 : pr1 = proc'
            OBVIOUS
        <3>2. /\ Sound(r, Set(granted, t, 1), pr1)
              /\ \E T1, lev1 : Quiet(mem, granted, proc, T, lev, r, Set(granted, t, 1), pr1, T1, lev1)
            <4>1. IsMemory(mem) /\ Sized(mem.bk, granted) /\ t = page_alloc(mem.bk, 1) /\ t # NULL
                  /\ r = page_zalloc(mem, t, 1)
                BY <1>1, <1>3 DEF t, r, Sound
            <4>2. /\ pr1[p].ptable = t
                  /\ \A q \in Procs : q # p => pr1[q].ptable = proc[q].ptable
                  /\ \A q \in Procs : pr1[q].stack = proc[q].stack /\ pr1[q].trap_stack = proc[q].trap_stack
                BY <2>5, <3>1
            <4> QED
                BY <4>1, <4>2, QuietTable
        <3> QED
            BY <3>1, <3>2
    <2>7. Undisturbed(T, lev)
        BY <2>1, <2>6 DEF Undisturbed
    <2> QED
        BY <1>1, <2>1, <2>4, <2>6, <2>7 DEF IInv, heap_vars
<1> QED
    BY <1>2, <1>3

\* A step that maps pages for process p and moves it to the next stage.
LEMMA SpaceMapped ==
    ASSUME IInv, NEW p \in Procs, NEW after, NEW s, UNCHANGED <<heap_vars, call>>,
           mem' = after, granted' = Grant(NewTables(after), granted),
           Advance(p, [proc[p] EXCEPT !.stage = s]),
           \/ proc[p].stage = "frame" /\ s = "stack"
           \/ proc[p].stage = "map_stack" /\ s = "trap_stack",
           NEW T, NEW lev, Owns(mem, granted, proc, T, lev),
           \E T1, lev1 : Mapped(p, mem, T, lev, after, T1, lev1)
    PROVE  IInv' /\ Undisturbed(T, lev)
<1> DEFINE new == [proc[p] EXCEPT !.stage = s]
<1>1. /\ HeapOK(kernel_heap_vaddr, free, live, call) /\ ProcOK(proc) /\ Sound(mem, granted, proc)
      /\ IsMemory(mem) /\ Sized(mem.bk, granted) /\ proc[p] \in Process
    BY DEF IInv, Sound, ProcOK
<1>2. /\ mem' = after /\ granted' = Grant(Since(mem.bk, after.bk), granted)
      /\ proc' = [proc EXCEPT ![p] = new]
    BY DEF NewTables, Since, Advance
<1>4. PICK T1, lev1 : Mapped(p, mem, T, lev, after, T1, lev1)
    OBVIOUS
<1>3. PICK h : h = Grant(Since(mem.bk, after.bk), granted) /\ h = granted'
    BY <1>2
<1>5. /\ Sound(after, h, proc)
      /\ Quiet(mem, granted, proc, T, lev, after, h, proc, T1, lev1)
    <2>1. p \in Users /\ p # NULL
        BY MemoryAssumption DEF Users
    <2> QED
        BY <1>1, <1>3, <1>4, <2>1, OwnsMapped
<1>6. /\ new \in Process /\ new.stage = s /\ new.ptable = proc[p].ptable
      /\ new.stack = proc[p].stack /\ new.trap_stack = proc[p].trap_stack
    BY <1>1 DEF Process, Stage
<1> HIDE DEF new
<1>7. new.ptable # NULL /\ (s = "trap_stack" => new.stack # NULL)
    BY <1>1, <1>6 DEF ProcOK
<1>8. ProcOK(proc') /\ \A q \in Procs : proc'[q] = IF q = p THEN new ELSE proc[q]
    BY <1>1, <1>2, <1>6, <1>7, AdvanceKeeps
<1>9. PICK pr1 : pr1 = proc'
    OBVIOUS
<1>10. Quiet(after, h, proc, T1, lev1, after, h, pr1, T1, lev1)
    <2>1. Owns(after, h, proc, T1, lev1)
        BY <1>5 DEF Quiet
    <2> QED
        BY <1>6, <1>8, <1>9, <2>1, QuietLess
<1>11. Quiet(mem, granted, proc, T, lev, after, h, pr1, T1, lev1)
    BY <1>5, <1>10, QuietTwice
<1>12. Undisturbed(T, lev)
    BY <1>2, <1>3, <1>9, <1>11 DEF Undisturbed
<1>13. Sound(mem', granted', proc')
    BY <1>2, <1>3, <1>5, <1>9, <1>11 DEF Sound, Quiet
<1> QED
    BY <1>1, <1>8, <1>12, <1>13 DEF IInv, heap_vars

LEMMA OwnTable ==
    ASSUME NEW m, NEW g, NEW pr, NEW T, NEW lev, Owns(m, g, pr, T, lev), NEW p \in Procs,
           pr[p].ptable # NULL
    PROVE  /\ Tabled(m, T, lev) /\ p \in Users /\ pr[p].ptable \in T[p]
           /\ lev[pr[p].ptable] = LEVELS - 1
BY DEF Owns, Users

LEMMA MapFrameKeeps ==
    ASSUME IInv, NEW p \in Procs, MapFrame(p), NEW T, NEW lev, Owns(mem, granted, proc, T, lev)
    PROVE  IInv' /\ Undisturbed(T, lev)
<1> DEFINE tb == proc[p].ptable
           va == proc[p].block + HEADER
           pa == mmu_translate(mem, KernelTable, va)
           text == mmu_map_many(mem, tb, TEXT_VADDR, NUM_PAGES * PS_4K, 1, {"X"})
           after == mmu_map_many(text, tb, va, pa, FRAME_SIZE, {"R", "W"})
<1>1. /\ mem' = after /\ granted' = Grant(NewTables(after), granted)
      /\ Advance(p, [proc[p] EXCEPT !.stage = "stack"]) /\ UNCHANGED <<heap_vars, call>>
      /\ proc[p].stage = "frame"
    BY DEF MapFrame
<1>2. IsMemory(mem) /\ proc[p] \in Process /\ tb # NULL
    BY <1>1 DEF IInv, Sound, ProcOK
<1>3. va \in Int
    BY <1>2, Sizes1 DEF Process
<1> DEFINE pt == NUM_PAGES * PS_4K
<1> HIDE DEF va, pa, pt
<1>4. PagesMapped(TEXT_VADDR, 1) \in Nat /\ PagesMapped(va, FRAME_SIZE) \in Nat
    <2>1. TEXT_VADDR \in Int /\ FRAME_SIZE \in Nat
        BY Sizes1
    <2> QED
        BY <1>3, <2>1, PagesMappedType
<1>5. \E T1, lev1 : Mapped(p, mem, T, lev, after, T1, lev1)
    <2>1. Tabled(mem, T, lev) /\ p \in Users /\ tb \in T[p] /\ lev[tb] = LEVELS - 1
        BY <1>2, OwnTable
    <2> HIDE DEF tb
    <2>2. PICK T1, lev1 : Mapped(p, mem, T, lev, text, T1, lev1)
        <3>1. {"X"} \cap {"R", "W", "X"} # {}
            OBVIOUS
        <3> QED
            BY <1>2, <1>4, <2>1, <3>1, MapManyKeeps
    <2> HIDE DEF text
    <2>3. IsMemory(text) /\ Tabled(text, T1, lev1) /\ tb \in T1[p] /\ lev1[tb] = LEVELS - 1
        BY <2>1, <2>2 DEF Mapped
    <2>4. PICK T2, lev2 : Mapped(p, text, T1, lev1, after, T2, lev2)
        <3>1. {"R", "W"} \cap {"R", "W", "X"} # {}
            OBVIOUS
        <3> QED
            BY <1>4, <2>1, <2>3, <3>1, MapManyKeeps
    <2> HIDE DEF after
    <2>5. Mapped(p, mem, T, lev, after, T2, lev2)
        BY <1>2, <2>1, <2>2, <2>4, MappedTwice
    <2> QED
        BY <2>5
<1> HIDE DEF after
<1> QED
    BY <1>1, <1>5, SpaceMapped

LEMMA MapStackKeeps ==
    ASSUME IInv, NEW p \in Procs, MapStack(p), NEW T, NEW lev, Owns(mem, granted, proc, T, lev)
    PROVE  IInv' /\ Undisturbed(T, lev)
<1> DEFINE tb == proc[p].ptable
           pa == proc[p].stack * PS_4K
           size == PS_4K * STACK_PAGES
           after == mmu_map_many(mem, tb, STACK_VADDR, pa, size, {"R", "W", "U"})
<1>1. /\ mem' = after /\ granted' = Grant(NewTables(after), granted)
      /\ Advance(p, [proc[p] EXCEPT !.stage = "trap_stack"]) /\ UNCHANGED <<heap_vars, call>>
      /\ proc[p].stage = "map_stack"
    BY DEF MapStack
<1>2. IsMemory(mem) /\ tb # NULL
    BY <1>1 DEF IInv, Sound, ProcOK
<1>3. size \in Nat
    BY Sizes1
<1> HIDE DEF pa, size
<1>4. PagesMapped(STACK_VADDR, size) \in Nat
    BY <1>3, Sizes1, PagesMappedType
<1>5. \E T1, lev1 : Mapped(p, mem, T, lev, after, T1, lev1)
    <2>1. Tabled(mem, T, lev) /\ p \in Users /\ tb \in T[p] /\ lev[tb] = LEVELS - 1
        BY <1>2, OwnTable
    <2> HIDE DEF tb
    <2>2. {"R", "W", "U"} \cap {"R", "W", "X"} # {}
        OBVIOUS
    <2> QED
        BY <1>2, <1>4, <2>1, <2>2, MapManyKeeps
<1> HIDE DEF after
<1> QED
    BY <1>1, <1>5, SpaceMapped

LEMMA AllocatedPages ==
    ASSUME NEW bk \in Bookkeeping, NEW g, Sized(bk, g), NEW n \in Nat \ {0},
           NEW p, p = page_alloc(bk, n), p # NULL, NEW b, b = Taken(bk, p, n)
    PROVE  get_num_pages(b, p) = n
<1>1. /\ p \in Pages /\ p + n <= NUM_PAGES
      /\ \A i \in Pages : p <= i /\ i < p + n => ~ bk[i].taken
    BY AllocFree
<1>2. Sized(b, Set(g, p, n)) /\ b \in Bookkeeping
    BY <1>1, TakenSized, TakenIs
<1>3. p \in DOMAIN Set(g, p, n) /\ Set(g, p, n)[p] = n
    BY DEF Set
<1> QED
    BY <1>2, <1>3, NumPagesOf

\* A step that allocates n pages for process p.
LEMMA StackAllocated ==
    ASSUME IInv, NEW p \in Procs, UNCHANGED <<heap_vars, call>>, NEW n \in Nat \ {0},
           NEW s, s = page_alloc(mem.bk, n), s # NULL,
           mem' = page_zalloc(mem, s, n), granted' = Set(granted, s, n),
           NEW new, Advance(p, new), s \in Pages => new \in Process,
           new.ptable = proc[p].ptable,
           \/ /\ proc[p].stage = "stack" /\ new.stage = "map_stack"
              /\ new.stack = s /\ new.trap_stack = proc[p].trap_stack /\ n = STACK_PAGES
           \/ /\ proc[p].stage = "trap_stack" /\ new.stage = "ready"
              /\ new.stack = proc[p].stack /\ new.trap_stack = s,
           NEW T, NEW lev, Owns(mem, granted, proc, T, lev)
    PROVE  IInv' /\ Undisturbed(T, lev)
<1>1. /\ HeapOK(kernel_heap_vaddr, free, live, call) /\ ProcOK(proc) /\ Sound(mem, granted, proc)
      /\ IsMemory(mem)
    BY DEF IInv, Sound
<1>2. s \in Pages
    BY <1>1, AllocFree DEF IsMemory
<1>3. new \in Process /\ proc' = [proc EXCEPT ![p] = new]
    BY <1>2 DEF Advance
<1>4. /\ new.ptable # NULL /\ new.stage \in {"map_stack", "ready"} /\ new.stack # NULL
      /\ (new.stage = "ready" => new.trap_stack # NULL)
    BY <1>1 DEF ProcOK
<1>5. ProcOK(proc') /\ \A q \in Procs : proc'[q] = IF q = p THEN new ELSE proc[q]
    BY <1>1, <1>3, <1>4, AdvanceKeeps
<1>9. PICK r, pr1 : r = mem' /\ pr1 = proc'
    OBVIOUS
<1>6. /\ IsMemory(r) /\ r.bk = Taken(mem.bk, s, n)
      /\ \A q \in Pages : r.tables[q] \in {mem.tables[q], ZeroPage}
      /\ \A q \in Pages : q \notin s .. s + n - 1 => r.tables[q] = mem.tables[q]
    <2>1. r = page_zalloc(mem, s, n)
        BY <1>9
    <2>2. IsMemory(r) /\ r.bk = Taken(mem.bk, s, n)
        BY <1>1, <1>2, <2>1, ZallocIs
    <2>3. \A q \in Pages : r.tables[q] \in {mem.tables[q], ZeroPage}
        BY <1>1, <1>2, <2>1, ZallocIs
    <2>4. \A q \in Pages : q \notin s .. s + get_num_pages(r.bk, s) - 1
                 => r.tables[q] = mem.tables[q]
        BY <1>1, <1>2, <2>1, ZallocIs
    <2>5. get_num_pages(r.bk, s) = n
        BY <1>1, <1>2, <2>2, AllocatedPages DEF Sound, IsMemory
    <2> QED
        BY <2>2, <2>3, <2>4, <2>5
<1>7. /\ \A q \in Procs : proc'[q].ptable = proc[q].ptable
      /\ \A q \in Procs : q # p => proc'[q].stack = proc[q].stack
                                  /\ proc'[q].trap_stack = proc[q].trap_stack
      /\ \/ proc'[p].stack = proc[p].stack /\ proc'[p].trap_stack \in {proc[p].trap_stack, s}
         \/ /\ proc'[p].trap_stack = proc[p].trap_stack /\ proc'[p].stack = s
            /\ n = STACK_PAGES
    BY <1>5
<1>8. /\ Sound(r, Set(granted, s, n), pr1)
      /\ Quiet(mem, granted, proc, T, lev, r, Set(granted, s, n), pr1, T, lev)
    BY <1>1, <1>6, <1>7, <1>9, QuietAlloc DEF Sound
<1>10. Undisturbed(T, lev)
    BY <1>8, <1>9 DEF Undisturbed
<1> QED
    BY <1>1, <1>5, <1>8, <1>9, <1>10 DEF IInv, heap_vars

LEMMA AllocStackKeeps ==
    ASSUME IInv, NEW p \in Procs, AllocStack(p), NEW T, NEW lev, Owns(mem, granted, proc, T, lev)
    PROVE  IInv' /\ Undisturbed(T, lev)
<1> DEFINE n == STACK_PAGES
           s == page_alloc(mem.bk, n)
           new == [proc[p] EXCEPT !.stage = "map_stack", !.stack = s]
<1>1. /\ UNCHANGED <<heap_vars, call>> /\ proc[p] \in Process /\ n \in Nat \ {0}
      /\ proc[p].stage = "stack"
    BY Sizes1 DEF IInv, AllocStack, ProcOK
<1>2. CASE s = NULL
    <2>1. mem' = [mem EXCEPT !.fault = TRUE] /\ UNCHANGED <<granted, proc>>
        BY <1>2 DEF AllocStack, ZallocInto
    <2> QED
        BY <1>1, <2>1, FaultKeeps
<1>3. CASE s # NULL
    <2>1. mem' = page_zalloc(mem, s, n) /\ granted' = Set(granted, s, n) /\ Advance(p, new)
        BY <1>3 DEF AllocStack, ZallocInto
    <2> HIDE DEF s, n
    <2>2. /\ s \in Pages => new \in Process
          /\ new.stage = "map_stack" /\ new.ptable = proc[p].ptable
          /\ new.stack = s /\ new.trap_stack = proc[p].trap_stack
        BY <1>1 DEF Process, Stage
    <2> HIDE DEF new
    <2>3. n = STACK_PAGES
        BY DEF n
    <2> QED
        BY <1>1, <1>3, <2>1, <2>2, <2>3, StackAllocated DEF s
<1> QED
    BY <1>2, <1>3

LEMMA AllocTrapStackKeeps ==
    ASSUME IInv, NEW p \in Procs, AllocTrapStack(p), NEW T, NEW lev, Owns(mem, granted, proc, T, lev)
    PROVE  IInv' /\ Undisturbed(T, lev)
<1> DEFINE s == page_alloc(mem.bk, 1)
           new == [proc[p] EXCEPT !.stage = "ready", !.trap_stack = s]
<1>1. /\ UNCHANGED <<heap_vars, call>> /\ proc[p] \in Process /\ proc[p].stage = "trap_stack"
    BY DEF IInv, AllocTrapStack, ProcOK
<1>2. CASE s = NULL
    <2>1. mem' = [mem EXCEPT !.fault = TRUE] /\ UNCHANGED <<granted, proc>>
        BY <1>2 DEF AllocTrapStack, ZallocInto
    <2> QED
        BY <1>1, <2>1, FaultKeeps
<1>3. CASE s # NULL
    <2>1. mem' = page_zalloc(mem, s, 1) /\ granted' = Set(granted, s, 1) /\ Advance(p, new)
        BY <1>3 DEF AllocTrapStack, ZallocInto
    <2> HIDE DEF s
    <2>2. /\ s \in Pages => new \in Process
          /\ new.stage = "ready" /\ new.ptable = proc[p].ptable
          /\ new.stack = proc[p].stack /\ new.trap_stack = s
        BY <1>1 DEF Process, Stage
    <2> HIDE DEF new
    <2> QED
        BY <1>1, <1>3, <2>1, <2>2, StackAllocated DEF s
<1> QED
    BY <1>2, <1>3

LEMMA FreePagesKeeps ==
    ASSUME IInv, NEW h \in Harts, NEW p \in Procs, FreePages(h, p),
           NEW T, NEW lev, Owns(mem, granted, proc, T, lev)
    PROVE  IInv' /\ Undisturbed(T, lev)
<1> DEFINE a == proc[p].trap_stack
           b == proc[p].stack
           b1 == page_dealloc(mem.bk, a)
           b2 == page_dealloc(b1, b)
           g1 == [e \in DOMAIN granted \ {a} |-> granted[e]]
           g2 == [e \in DOMAIN granted \ {a, b} |-> granted[e]]
           new == [proc[p] EXCEPT !.stage = "exit_table", !.trap_stack = NULL, !.stack = NULL]
<1>1. /\ HeapOK(kernel_heap_vaddr, free, live, call) /\ ProcOK(proc) /\ Sound(mem, granted, proc)
      /\ IsMemory(mem) /\ Sized(mem.bk, granted) /\ proc[p] \in Process
      /\ UNCHANGED <<heap_vars, call>> /\ proc[p].stage = "ready"
    BY DEF IInv, FreePages, Sound, ProcOK
<1>2. mem' = [mem EXCEPT !.bk = b2] /\ granted' = g2 /\ proc' = [proc EXCEPT ![p] = new]
    BY DEF FreePages, Advance
<1>3. Owns(mem, granted, proc, T, lev)
    OBVIOUS
<1>4. a # NULL /\ b # NULL /\ proc[p].ptable # NULL
    BY <1>1 DEF ProcOK
<1>5. /\ a \in DOMAIN granted /\ b \in DOMAIN granted /\ a # b
      /\ \A u \in Users : a \notin T[u] /\ b \notin T[u]
      /\ \A q \in Procs : q # p => a \notin Stacks(proc, q) /\ b \notin Stacks(proc, q)
    <2>1. a \in Stacks(proc, p) /\ b \in Stacks(proc, p)
        BY <1>4 DEF Stacks
    <2> HIDE DEF a, b
    <2>2. a # b
        BY <1>3, <1>4 DEF Owns, a, b
    <2>3. \A q \in Procs : q # p => Stacks(proc, p) \cap Stacks(proc, q) = {}
        BY <1>3 DEF Owns
    <2> QED
        BY <1>3, <2>1, <2>2, <2>3 DEF Owns
<1> HIDE DEF a, b
<1>6. b1 \in Bookkeeping /\ Sized(b1, g1) /\ b \in DOMAIN g1
    BY <1>1, <1>5, DeallocSized DEF IsMemory
<1>7. b2 \in Bookkeeping /\ Sized(b2, [e \in DOMAIN g1 \ {b} |-> g1[e]])
    <2> HIDE DEF b1, g1
    <2> QED
        BY <1>6, DeallocSized
<1>8. [e \in DOMAIN g1 \ {b} |-> g1[e]] = g2
    OBVIOUS
<1> HIDE DEF b2
<1>9. IsMemory(mem') /\ mem'.bk = b2 /\ mem'.tables = mem.tables
    <2>1. mem' = [bk |-> b2, tables |-> mem.tables, fault |-> mem.fault]
        BY <1>1, <1>2 DEF IsMemory
    <2> QED
        BY <1>1, <1>7, <2>1 DEF IsMemory
<1>10. /\ new \in Process /\ new.stage = "exit_table" /\ new.ptable = proc[p].ptable
       /\ new.stack = NULL /\ new.trap_stack = NULL
    BY <1>1 DEF Process, Stage
<1> HIDE DEF new
<1>11. ProcOK(proc') /\ \A q \in Procs : proc'[q] = IF q = p THEN new ELSE proc[q]
    BY <1>1, <1>2, <1>4, <1>10, AdvanceKeeps
<1>12. Sized(mem'.bk, g2)
    BY <1>7, <1>8, <1>9
<1>13. DOMAIN g2 = DOMAIN granted \ {a, b} /\ \A e \in DOMAIN g2 : g2[e] = granted[e]
    OBVIOUS
<1>15. Loose(granted, proc, T) \subseteq DOMAIN g2
    <2>1. a \in Stacks(proc, p) /\ b \in Stacks(proc, p)
        BY <1>4 DEF Stacks, a, b
    <2> QED
        BY <1>13, <2>1 DEF Loose
<1> HIDE DEF g1, g2
<1>14. Sound(mem', g2, proc') /\ Quiet(mem, granted, proc, T, lev, mem', g2, proc', T, lev)
    <2>1. /\ T \in [Users -> SUBSET Pages] /\ \A u \in Users : T[u] \subseteq DOMAIN granted
        BY <1>3 DEF Owns, Tabled
    <2>2. \A u \in Users : T[u] \in {T[u], {}} /\ T[u] \subseteq DOMAIN g2
        BY <1>5, <1>13, <2>1
    <2>3. ASSUME NEW q \in Procs
          PROVE  /\ proc'[q].ptable # NULL => proc'[q].ptable = proc[q].ptable /\ T[q] = T[q]
                 /\ proc'[q].stack \in {proc[q].stack, NULL}
                 /\ proc'[q].trap_stack \in {proc[q].trap_stack, NULL}
                 /\ Stacks(proc', q) \subseteq DOMAIN g2
        <3>1. CASE q = p
            BY <1>10, <1>11, <3>1 DEF Stacks
        <3>2. CASE q # p
            <4>1. proc'[q] = proc[q] /\ Stacks(proc', q) = Stacks(proc, q)
                BY <1>11, <3>2 DEF Stacks
            <4>2. Stacks(proc, q) \subseteq DOMAIN granted
                BY <1>3 DEF Owns
            <4> QED
                BY <1>5, <1>13, <3>2, <4>1, <4>2
        <3> QED
            BY <3>1, <3>2
    <2>4. \A u \in Users : \A t \in T[u] : mem'.tables[t] = mem.tables[t]
        BY <1>9
    <2>5. PICK r, pr1 : r = mem' /\ pr1 = proc'
        OBVIOUS
    <2>6. Sound(r, g2, pr1) /\ Quiet(mem, granted, proc, T, lev, r, g2, pr1, T, lev)
        BY <1>3, <1>9, <1>12, <1>13, <1>15, <2>1, <2>2, <2>3, <2>4, <2>5, QuietKept
    <2> QED
        BY <2>5, <2>6
<1>16. Undisturbed(T, lev)
    BY <1>2, <1>14 DEF Undisturbed
<1> QED
    BY <1>1, <1>2, <1>11, <1>14, <1>16 DEF IInv, heap_vars

LEMMA FreeTablesKeeps ==
    ASSUME IInv, NEW h \in Harts, NEW p \in Procs, FreeTables(h, p),
           NEW T, NEW lev, Owns(mem, granted, proc, T, lev)
    PROVE  IInv' /\ Undisturbed(T, lev)
<1> DEFINE tb == proc[p].ptable
           tables == TablesOf(mem, tb)
           h2 == Less(granted, tables)
           new == [proc[p] EXCEPT !.stage = "exit_block", !.ptable = NULL]
<1>1. /\ HeapOK(kernel_heap_vaddr, free, live, call) /\ ProcOK(proc) /\ Sound(mem, granted, proc)
      /\ IsMemory(mem) /\ Sized(mem.bk, granted) /\ proc[p] \in Process
      /\ UNCHANGED <<heap_vars, call>> /\ tb # NULL
    BY DEF IInv, FreeTables, Sound, ProcOK
<1>2. mem' = mmu_free(mem, tb) /\ granted' = h2 /\ proc' = [proc EXCEPT ![p] = new]
    BY DEF FreeTables, Advance, Less
<1>3. Owns(mem, granted, proc, T, lev)
    OBVIOUS
<1>4. Tabled(mem, T, lev) /\ p \in Users /\ tb \in T[p]
    BY <1>1, <1>3, OwnTable
<1> HIDE DEF tb
<1>5. tables \subseteq T[p]
    BY <1>4, TablesOfSpace
<1>6. /\ T \in [Users -> SUBSET Pages] /\ \A u \in Users : T[u] \subseteq DOMAIN granted
      /\ \A u \in Users : u # p => T[u] \cap tables = {}
    BY <1>3, <1>4, <1>5 DEF Owns, Tabled
<1>7. /\ IsMemory(mem') /\ Sized(mem'.bk, h2)
      /\ \A q \in Pages \ tables : mem'.tables[q] = mem.tables[q]
    BY <1>1, <1>2, <1>4, <1>5, <1>6, FreeKeeps
<1>8. DOMAIN h2 = DOMAIN granted \ tables /\ \A e \in DOMAIN h2 : h2[e] = granted[e]
    BY DEF Less
<1> HIDE DEF tables, h2
<1>12. Loose(granted, proc, T) \subseteq DOMAIN h2
    BY <1>4, <1>5, <1>8 DEF Loose
<1>9. /\ new \in Process /\ new.stage = "exit_block" /\ new.ptable = NULL
      /\ new.stack = proc[p].stack /\ new.trap_stack = proc[p].trap_stack
    BY <1>1 DEF Process, Stage
<1> HIDE DEF new
<1>10. ProcOK(proc') /\ \A q \in Procs : proc'[q] = IF q = p THEN new ELSE proc[q]
    BY <1>1, <1>2, <1>9, AdvanceKeeps
<1>11. /\ Sound(mem', h2, proc')
       /\ \E T1, lev1 : Quiet(mem, granted, proc, T, lev, mem', h2, proc', T1, lev1)
    <2> DEFINE T1 == [u \in Users |-> IF u = p THEN {} ELSE T[u]]
    <2>1. T1 \in [Users -> SUBSET Pages] /\ \A u \in Users : T1[u] = IF u = p THEN {} ELSE T[u]
        BY <1>6
    <2>2. T1[NULL] = T[NULL]
        BY <2>1, MemoryAssumption DEF Users
    <2> HIDE DEF T1
    <2>3. \A u \in Users : T1[u] \in {T[u], {}} /\ T1[u] \subseteq DOMAIN h2
        BY <1>6, <1>8, <2>1
    <2>4. \A u \in Users : \A t \in T1[u] : mem'.tables[t] = mem.tables[t]
        <3>1. \A u \in Users : T1[u] \subseteq Pages \ tables
            BY <1>6, <2>1
        <3> QED
            BY <1>7, <3>1
    <2>5. ASSUME NEW q \in Procs
          PROVE  /\ proc'[q].ptable # NULL => proc'[q].ptable = proc[q].ptable /\ T1[q] = T[q]
                 /\ proc'[q].stack \in {proc[q].stack, NULL}
                 /\ proc'[q].trap_stack \in {proc[q].trap_stack, NULL}
                 /\ Stacks(proc', q) \subseteq DOMAIN h2
        <3>1. /\ proc'[q].stack = proc[q].stack /\ proc'[q].trap_stack = proc[q].trap_stack
              /\ Stacks(proc', q) = Stacks(proc, q)
            BY <1>9, <1>10 DEF Stacks
        <3>2. proc'[q].ptable # NULL => proc'[q].ptable = proc[q].ptable /\ T1[q] = T[q]
            BY <1>9, <1>10, <2>1 DEF Users
        <3>3. Stacks(proc, q) \subseteq DOMAIN granted /\ Stacks(proc, q) \cap T[p] = {}
            BY <1>3, <1>4 DEF Owns
        <3> QED
            BY <1>5, <1>8, <3>1, <3>2, <3>3
    <2>6. PICK r, pr1 : r = mem' /\ pr1 = proc'
        OBVIOUS
    <2>7. Sound(r, h2, pr1) /\ Quiet(mem, granted, proc, T, lev, r, h2, pr1, T1, lev)
        BY <1>3, <1>7, <1>8, <1>12, <2>1, <2>2, <2>3, <2>4, <2>5, <2>6, QuietKept
    <2> QED
        BY <2>6, <2>7
<1>13. Undisturbed(T, lev)
    BY <1>2, <1>11 DEF Undisturbed
<1> QED
    BY <1>1, <1>2, <1>10, <1>11, <1>13 DEF IInv, heap_vars

LEMMA FreeProcessKeeps ==
    ASSUME IInv, NEW h \in Harts, NEW p \in Procs, FreeProcess(h, p),
           NEW T, NEW lev, Owns(mem, granted, proc, T, lev)
    PROVE  IInv' /\ Undisturbed(T, lev)
<1>1. PICK b \in live : kfree(b)
    BY DEF FreeProcess
<1>2. HeapOK(kernel_heap_vaddr', free', live', call') /\ mem' = mem /\ granted' = granted
    BY <1>1, kfreeKeeps
<1>3. ProcOK(proc) /\ Sound(mem, granted, proc) /\ proc' = [proc EXCEPT ![p] = NoProcess]
    BY DEF IInv, FreeProcess
<1>4. NoProcess \in Process /\ NoProcess.stage = "none" /\ NoProcess.ptable = NULL
      /\ NoProcess.stack = NULL /\ NoProcess.trap_stack = NULL
    BY PagesAre DEF NoProcess, Process, Stage
<1>5. ProcOK(proc') /\ \A q \in Procs : proc'[q] = IF q = p THEN NoProcess ELSE proc[q]
    BY <1>3, <1>4, AdvanceKeeps
<1>6. Sound(mem, granted, proc') /\ Undisturbed(T, lev)
    <2>1. \A q \in Procs : /\ proc'[q].ptable \in {proc[q].ptable, NULL}
                           /\ proc'[q].stack \in {proc[q].stack, NULL}
                           /\ proc'[q].trap_stack \in {proc[q].trap_stack, NULL}
        BY <1>4, <1>5
    <2>2. Undisturbed(T, lev) /\ Owns(mem, granted, proc', T, lev)
        BY <1>2, <2>1, StillQuiet
    <2> QED
        BY <1>3, <2>2 DEF Sound
<1> QED
    BY <1>2, <1>5, <1>6 DEF IInv

\* A page is found as long as there is a free one.
LEMMA FreePageFound ==
    ASSUME NEW bk \in Bookkeeping, NEW p \in Pages, ~ bk[p].taken
    PROVE  page_alloc(bk, 1) # NULL
<1> DEFINE fits == {i \in Pages : NumFound(bk, i) = 1}
           F == {i \in Pages : ~ bk[i].taken}
<1>1. PICK e : e \in F /\ \A i \in F : e <= i
    <2>1. F \in SUBSET Nat /\ p \in F
        BY PagesAre
    <2> HIDE DEF F
    <2>2. Min(F) \in F /\ \A i \in F : Min(F) <= i
        BY <2>1, MinOfNaturals
    <2> QED
        BY <2>2
<1>2. /\ e \in Pages /\ e \in Nat /\ ~ bk[e].taken
      /\ \A j \in 0 .. e : j # e => j \in Pages /\ bk[j].taken
    BY <1>1, PagesAre
<1> DEFINE before == {-1} \cup {j \in 0 .. e : bk[j].taken}
<1>3. /\ before \in SUBSET Int /\ before # {} /\ e - 1 \in before
      /\ \A x \in before : x <= e - 1
    <2>1. e - 1 = -1 \/ (e - 1 \in 0 .. e /\ e - 1 # e)
        BY <1>2
    <2>2. e - 1 \in before
        BY <1>2, <2>1
    <2>3. \A j \in 0 .. e : bk[j].taken => j <= e - 1
        BY <1>2
    <2> QED
        BY <1>2, <2>2, <2>3
<1>4. NumFound(bk, e) = 1
    <2>1. NumFound(bk, e) = e - Max(before)
        BY DEF NumFound
    <2> HIDE DEF before
    <2>2. PICK b \in Int : b = e - 1
        BY <1>2
    <2>3. Max(before) \in before /\ \A x \in before : x <= Max(before)
        BY <1>3, <2>2, MaxOfBounded
    <2>4. PICK x \in Int : x = Max(before)
        BY <1>3, <2>3
    <2>5. x <= b /\ b <= x
        BY <1>3, <2>2, <2>3, <2>4
    <2> QED
        BY <1>2, <2>1, <2>2, <2>4, <2>5
<1>5. fits # {} /\ fits \in SUBSET Nat
    BY <1>2, <1>4, PagesAre
<1>6. page_alloc(bk, 1) = Min(fits) - 1 + 1
    BY <1>5 DEF page_alloc
<1> HIDE DEF fits
<1>7. Min(fits) \in Nat
    BY <1>5, MinOfNaturals
<1> QED
    BY <1>6, <1>7, PagesAre

\* What mmu_init and kmalloc_init did before the heap's first page is mapped: m is the memory
\* with the kernel's table and that page, and g what is granted.
Booted(m, g, T, lev, page) ==
    /\ IsMemory(m) /\ ~ m.fault /\ Sized(m.bk, g) /\ Owns(m, g, proc, T, lev)
    /\ mem = mmu_map(m, KernelTable, 0, page * PS_4K, {"R", "W"})
    /\ granted = [p \in {i \in Pages : mem.bk[i].taken} |-> 1]
    /\ page \in Pages /\ page # 0
    /\ DOMAIN g = {0, page} /\ g[0] = 1 /\ g[page] = 1
    /\ T[NULL] = {0} /\ (\A u \in Users : page \notin T[u])
    /\ \A q \in Pages : m.tables[q] = ZeroPage
    /\ \A p \in Procs : Stacks(proc, p) = {}

LEMMA InitBooted ==
    ASSUME Init
    PROVE  ProcOK(proc) /\ \E m, g, T, lev, page : Booted(m, g, T, lev, page)
<1> DEFINE m0 == [bk |-> page_alloc_init, fault |-> FALSE, tables |-> [p \in Pages |-> ZeroPage]]
           g0 == [q \in {} |-> 0]
           root == page_zalloc(m0, KernelTable, 1)
           page == page_alloc(root.bk, 1)
           m2 == page_zalloc(root, page, 1)
           g1 == Set(g0, 0, 1)
           g2 == Set(g1, page, 1)
<1>1. /\ mem = mmu_map(m2, KernelTable, 0, page * PS_4K, {"R", "W"})
      /\ granted = [p \in {i \in Pages : mem.bk[i].taken} |-> 1]
      /\ proc = [p \in Procs |-> NoProcess]
    BY DEF Init
<1>2. KernelTable = 0 /\ 0 \in Pages /\ NUM_PAGES > 1 /\ LEVELS \in Nat \ {0}
    BY MemoryAssumption, MmuAssumption, PagesAre DEF KernelTable
<1>3. /\ IsMemory(m0) /\ Sized(m0.bk, g0) /\ m0.bk \in Bookkeeping
      /\ m0.fault = FALSE /\ \A i \in Pages : ~ m0.bk[i].taken /\ m0.tables[i] = ZeroPage
    <2>1. page_alloc_init \in Bookkeeping /\ \A i \in Pages : ~ page_alloc_init[i].taken
        BY DEF page_alloc_init, Bookkeeping
    <2>2. m0.bk = page_alloc_init /\ m0.fault = FALSE /\ m0.tables = [p \in Pages |-> ZeroPage]
        OBVIOUS
    <2>3. IsMemory(m0)
        BY <2>1, <2>2 DEF IsMemory
    <2> HIDE DEF m0
    <2>4. DOMAIN g0 = {}
        OBVIOUS
    <2> HIDE DEF g0
    <2>5. Sized(page_alloc_init, g0)
        BY <2>1, <2>4 DEF Sized
    <2> QED
        BY <2>1, <2>2, <2>3, <2>5
<1> HIDE DEF m0
<1>4. /\ IsMemory(root) /\ root.bk = Taken(m0.bk, 0, 1) /\ root.fault = m0.fault
      /\ \A q \in Pages : root.tables[q] = ZeroPage
    BY <1>2, <1>3, ZallocIs
<1> HIDE DEF root
<1>5. Sized(root.bk, g1)
    <2> HIDE DEF g0
    <2>1. 0 + 1 <= NUM_PAGES
        BY <1>2, PagesAre
    <2>2. Sized(Taken(m0.bk, 0, 1), Set(g0, 0, 1))
        BY <1>2, <1>3, <2>1, TakenSized
    <2> QED
        BY <1>4, <2>2
<1>6. DOMAIN g1 = {0} /\ g1[0] = 1
    BY DEF Set
<1> HIDE DEF g0, g1
<1>7. \A i \in Pages : root.bk[i].taken <=> i = 0
    BY <1>5, <1>6, PagesAre DEF Sized
<1>8. page # NULL /\ page \in Pages /\ page + 1 <= NUM_PAGES /\ page # 0
      /\ \A i \in Pages : page <= i /\ i < page + 1 => ~ root.bk[i].taken
    <2>1. root.bk \in Bookkeeping
        BY <1>4 DEF IsMemory
    <2>2. page # NULL
        <3>1. 1 \in Pages /\ ~ root.bk[1].taken
            BY <1>2, <1>7, PagesAre
        <3> QED
            BY <2>1, <3>1, FreePageFound
    <2>3. /\ page \in Pages /\ page + 1 <= NUM_PAGES
          /\ \A i \in Pages : page <= i /\ i < page + 1 => ~ root.bk[i].taken
        BY <2>1, <2>2, AllocFree
    <2> HIDE DEF page
    <2>4. ~ root.bk[page].taken
        BY <2>3, PagesAre
    <2> QED
        BY <1>2, <1>7, <2>2, <2>3, <2>4
<1> HIDE DEF page
<1>9. /\ IsMemory(m2) /\ m2.fault = root.fault /\ m2.bk = Taken(root.bk, page, 1)
      /\ \A q \in Pages : m2.tables[q] = ZeroPage
    BY <1>4, <1>8, ZallocIs
<1>10. Sized(m2.bk, g2)
    BY <1>4, <1>5, <1>8, <1>9, TakenSized DEF IsMemory
<1>11. DOMAIN g2 = {0, page} /\ g2[0] = 1 /\ g2[page] = 1
    BY <1>6, <1>8 DEF Set
<1> HIDE DEF m2, g2
<1> DEFINE T == [u \in Users |-> IF u = NULL THEN {0} ELSE {}]
           lev == [q \in Pages |-> LEVELS - 1]
<1>12. /\ T \in [Users -> SUBSET Pages] /\ lev \in [Pages -> 0 .. LEVELS - 1]
       /\ \A u \in Users : T[u] = IF u = NULL THEN {0} ELSE {}
       /\ \A q \in Pages : lev[q] = LEVELS - 1
    BY <1>2
<1> HIDE DEF T, lev
<1>13. m2.tables[0] = ZeroPage /\ m2.bk[0].taken
    BY <1>2, <1>4, <1>8, <1>9, <1>10, <1>11, PagesAre DEF Sized
<1>14. Tabled(m2, T, lev)
    BY <1>12, <1>13, NothingOnZeroPage DEF Tabled
<1>15. ProcOK(proc) /\ \A p \in Procs : Stacks(proc, p) = {} /\ proc[p].ptable = NULL
                                      /\ proc[p].stack = NULL
    <2>1. /\ NoProcess \in Process /\ NoProcess.stage = "none" /\ NoProcess.ptable = NULL
          /\ NoProcess.stack = NULL /\ NoProcess.trap_stack = NULL
        BY PagesAre DEF NoProcess, Process, Stage
    <2> QED
        BY <1>1, <2>1 DEF ProcOK, Stacks
<1>16. Owns(m2, g2, proc, T, lev)
    BY <1>2, <1>11, <1>12, <1>14, <1>15 DEF Owns, Users
<1>17. T[NULL] = {0} /\ \A u \in Users : page \notin T[u]
    BY <1>8, <1>12 DEF Users
<1>18. ~ m2.fault
    BY <1>3, <1>4, <1>9
<1> DEFINE pa == page * PS_4K
<1> HIDE DEF pa
<1>19. mem = mmu_map(m2, KernelTable, 0, pa, {"R", "W"})
    BY <1>1 DEF pa
<1>20. Booted(m2, g2, T, lev, page)
    BY <1>1, <1>8, <1>9, <1>10, <1>11, <1>13, <1>15, <1>16, <1>17, <1>18, <1>19 DEF Booted, pa
<1> QED
    BY <1>15, <1>20

\* The first page is mapped.
LEMMA BootSound ==
    ASSUME NEW m, NEW g, NEW T, NEW lev, NEW page, Booted(m, g, T, lev, page),
           NEW T1, NEW lev1, Mapped(NULL, m, T, lev, mem, T1, lev1)
    PROVE  /\ Sound(mem, granted, proc) /\ Owns(mem, granted, proc, T1, lev1)
           /\ Spared(g, proc, T, granted, proc, T1)
<1> DEFINE h == Grant(Since(m.bk, mem.bk), g)
<1>1. /\ Sound(mem, h, proc) /\ Owns(mem, h, proc, T1, lev1) /\ Spared(g, proc, T, h, proc, T1)
    BY OwnsMapped DEF Users, Booted
<1>2. granted = h
    <2>1. \A q \in DOMAIN h : h[q] = 1
        BY DEF Grant, Booted
    <2>2. h = [q \in DOMAIN h |-> h[q]]
        BY DEF Grant
    <2> HIDE DEF h
    <2>3. Sized(mem.bk, h) /\ DOMAIN h \subseteq Pages
        BY <1>1 DEF Sound, Sized
    <2>4. \A i \in Pages : mem.bk[i].taken <=> \E q \in DOMAIN h : q <= i /\ i < q + 1
        BY <2>1, <2>3 DEF Sized
    <2>5. \A i \in Pages : mem.bk[i].taken <=> i \in DOMAIN h
        BY <2>3, <2>4, PagesAre
    <2>6. {i \in Pages : mem.bk[i].taken} = DOMAIN h
        BY <2>3, <2>5
    <2> QED
        BY <2>1, <2>2, <2>6 DEF Booted
<1> QED
    BY <1>1, <1>2

LEMMA InitIInv == Init => IInv
<1> SUFFICES ASSUME Init PROVE IInv
    OBVIOUS
<1> DEFINE dummy == [addr |-> 0, size |-> PS_4K - HEADER]
<1>1. /\ kernel_heap_vaddr = PS_4K /\ free = Tail(split_node(dummy, 0)) /\ live = {}
      /\ call = NoCall
    BY DEF Init
<1>2. ProcOK(proc) /\ \E m, g, T, lev, page : Booted(m, g, T, lev, page)
    BY InitBooted
<1>3. Sound(mem, granted, proc)
    <2>1. PICK m, g, T, lev, page : Booted(m, g, T, lev, page)
        BY <1>2
    <2>2. PICK T1, lev1 : Mapped(NULL, m, T, lev, mem, T1, lev1)
        <3>1. /\ NULL \in Users /\ KernelTable \in T[NULL] /\ lev[KernelTable] = LEVELS - 1
              /\ {"R", "W"} \cap {"R", "W", "X"} # {} /\ IsMemory(m) /\ Tabled(m, T, lev)
            BY <2>1 DEF Owns, Users, Booted
        <3>2. PICK pa : mem = mmu_map(m, KernelTable, 0, pa, {"R", "W"})
            BY <2>1 DEF Booted
        <3> QED
            BY <3>1, <3>2, MapKeeps
    <2> QED
        BY <2>1, <2>2, BootSound
<1>4. HeapOK(kernel_heap_vaddr, free, live, call)
    <2> DEFINE S == Node(PS_4K)
    <2>1. free \in Seq(S)
        <3>1. CASE dummy.size <= 0 + HEADER + MIN_NODE - 1
            <4>1. free = Tail(<<dummy>>)
                BY <1>1, <3>1 DEF split_node
            <4> HIDE DEF dummy, S
            <4>2. free = <<>>
                BY <4>1
            <4> QED
                BY <4>2
        <3>2. CASE ~ (dummy.size <= 0 + HEADER + MIN_NODE - 1)
            <4>1. dummy \in S
                BY <3>2, Sizes1 DEF Node
            <4> HIDE DEF dummy
            <4>2. split_node(dummy, 0) \in Seq(S) /\ split_node(dummy, 0) # <<>>
                BY <4>1, Sizes1, SplitType
            <4> HIDE DEF S
            <4> QED
                BY <1>1, <4>2, HeadTailProperties
        <3> QED
            BY <3>1, <3>2
    <2> QED
        BY <1>1, <2>1, Sizes1, NoCallType DEF HeapOK, NoCall
<1> QED
    BY <1>2, <1>3, <1>4 DEF IInv

LEMMA NextIInv == IInv /\ [Next]_vars => IInv'
<1> SUFFICES ASSUME IInv, [Next]_vars PROVE IInv'
    OBVIOUS
<1>11. PICK T, lev : Owns(mem, granted, proc, T, lev)
    BY DEF IInv, Sound
<1>1. CASE UNCHANGED vars
    BY <1>1 DEF IInv, vars, heap_vars
<1>2. CASE GrowPages
    BY <1>11, <1>2, GrowPagesKeeps
<1>3. CASE GrowZero
    BY <1>3, GrowZeroKeeps
<1>4. CASE GrowMap
    BY <1>4, GrowMapKeeps
<1>5. CASE GrowInsert
    BY <1>11, <1>5, GrowInsertKeeps
<1>6. CASE FreeHeld
    <2>1. PICK block \in Held : kfree(block) /\ proc' = proc
        BY <1>6 DEF FreeHeld
    <2>2. block \in live
        BY DEF Held
    <2> QED
        BY <2>1, <2>2, kfreeKeeps DEF IInv
<1>7. ASSUME NEW h \in Harts, kmalloc(h) PROVE IInv'
    <2>1. PICK n \in Sizes : Begin(h, RoundUp(n), NULL)
        BY <1>7 DEF kmalloc
    <2>2. RoundUp(n) \in Nat /\ NULL \in Users
        BY Sizes1, RoundUpType DEF Users
    <2> QED
        BY <1>11, <2>1, <2>2, BeginKeeps
<1>8. ASSUME NEW p \in Procs, process_new(p) PROVE IInv'
    <2>1. Begin(0, RoundUp(PROC_SIZE), p)
        BY <1>8 DEF process_new
    <2>2. RoundUp(PROC_SIZE) \in Nat /\ p \in Users /\ 0 \in Harts
        BY MemoryAssumption, Sizes1, RoundUpType DEF Users
    <2> QED
        BY <1>11, <2>1, <2>2, BeginKeeps
<1>9. ASSUME NEW h \in Harts, NEW p \in Procs,
             FreePages(h, p) \/ FreeTables(h, p) \/ FreeProcess(h, p)
      PROVE  IInv'
    BY <1>11, <1>9, FreePagesKeeps, FreeTablesKeeps, FreeProcessKeeps
<1>10. ASSUME NEW p \in Procs,
              \/ NewTable(p) \/ MapFrame(p) \/ AllocStack(p) \/ MapStack(p) \/ AllocTrapStack(p)
       PROVE  IInv'
    BY <1>11, <1>10, NewTableKeeps, MapFrameKeeps, AllocStackKeeps, MapStackKeeps, AllocTrapStackKeeps
<1> QED
    BY <1>1, <1>2, <1>3, <1>4, <1>5, <1>6, <1>7, <1>8, <1>9, <1>10 DEF Next

THEOREM Invariance == Spec => []IInv
BY InitIInv, NextIInv, PTL DEF Spec

LEMMA SizedKept == ASSUME Sized(mem.bk, granted), mem.bk \in Bookkeeping PROVE ExtentsKept
<1>1. /\ DOMAIN granted \subseteq Pages
      /\ \A p \in DOMAIN granted : p \in Nat /\ granted[p] \in Nat \ {0} /\ p + granted[p] <= NUM_PAGES
      /\ \A p, q \in DOMAIN granted : p < q => p + granted[p] <= q
      /\ \A i \in Pages : mem.bk[i].taken <=> \E p \in DOMAIN granted : p <= i /\ i < p + granted[p]
    BY PagesAre DEF Sized
<1>2. \A p \in DOMAIN granted : \A i : i \in Extent(p) <=> i \in Int /\ p <= i /\ i < p + granted[p]
    BY <1>1 DEF Extent
<1>3. ASSUME NEW p \in DOMAIN granted, NEW q \in DOMAIN granted, p # q
      PROVE  Extent(p) \cap Extent(q) = {}
    <2>1. PICK a, b \in Nat : a = granted[p] /\ b = granted[q]
        BY <1>1
    <2>2. p + a <= q \/ q + b <= p
        <3>1. p < q \/ q < p
            BY <1>1, <1>3
        <3> QED
            BY <1>1, <2>1, <3>1
    <2>3. \A i \in Int : ~ (p <= i /\ i < p + a /\ q <= i /\ i < q + b)
        BY <1>1, <2>1, <2>2
    <2> QED
        BY <1>2, <2>1, <2>3
<1>4. UNION {Extent(p) : p \in DOMAIN granted} = {i \in Pages : mem.bk[i].taken}
    <2>1. ASSUME NEW p \in DOMAIN granted PROVE Extent(p) \subseteq Pages
        BY <1>1, <1>2, PagesAre
    <2>2. \A i \in Pages : i \in Int
        BY PagesAre
    <2>3. \A i \in Pages : mem.bk[i].taken <=> \E p \in DOMAIN granted : i \in Extent(p)
        BY <1>1, <1>2, <2>2
    <2> QED
        BY <2>1, <2>3
<1>5. \A p \in DOMAIN granted : get_num_pages(mem.bk, p) = granted[p]
    BY NumPagesOf
<1> QED
    BY <1>3, <1>4, <1>5 DEF ExtentsKept

\* The page allocator finds again what it handed out: whatever processes are made and freed
\* and whatever is asked of the heap, by any number of harts, its allocations are disjoint,
\* are all the pages that are taken, and are given back whole.
THEOREM ExtentsKeptAlways == Spec => []ExtentsKept
<1>1. IInv => ExtentsKept
    BY SizedKept DEF IInv, Sound, IsMemory
<1> QED
    BY <1>1, Invariance, PTL

-----------------------------------------------------------------------------
(* What the blocks tile. *)

Blk == [addr : Nat, size : Nat]

\* The blocks B fill the heap from behind free_head to v.
Tiles(v, B) ==
    /\ v \in Nat /\ B \subseteq Blk
    /\ \A b \in B : HEADER <= b.addr /\ End(b) <= v
    /\ \A b, c \in B : b # c => End(b) <= c.addr \/ End(c) <= b.addr
    /\ \A b \in B : /\ b.addr = HEADER \/ \E c \in B : End(c) = b.addr
                    /\ End(b) = v \/ \E c \in B : c.addr = End(b)
    /\ v = HEADER \/ ((\E c \in B : End(c) = v) /\ \E c \in B : c.addr = HEADER)

LEMMA EndType ==
    /\ HEADER \in Nat
    /\ \A b \in Blk : /\ b.addr \in Nat /\ b.size \in Nat /\ End(b) \in Nat
                      /\ End(b) = b.addr + HEADER + b.size
                      /\ b.addr < End(b) /\ b.addr + HEADER <= End(b)
<1> SUFFICES ASSUME NEW b \in Blk
             PROVE  /\ b.addr \in Nat /\ b.size \in Nat /\ End(b) \in Nat
                    /\ End(b) = b.addr + HEADER + b.size
                    /\ b.addr < End(b) /\ b.addr + HEADER <= End(b)
    BY Sizes1
<1>1. b.addr \in Nat /\ b.size \in Nat
    BY DEF Blk
<1>2. End(b) = b.addr + HEADER + b.size
    BY DEF End
<1> QED
    BY <1>1, <1>2, Sizes1

\* A block is divided in two.
LEMMA TilesSplit ==
    ASSUME NEW v, NEW B, Tiles(v, B), NEW x \in B, NEW a \in Blk, NEW c \in Blk,
           a.addr = x.addr, End(a) = c.addr, End(c) = End(x)
    PROVE  /\ Tiles(v, (B \ {x}) \cup {a, c})
           /\ \A y \in B \ {x} : y.addr # a.addr /\ y.addr # c.addr
<1> DEFINE D == (B \ {x}) \cup {a, c}
<1>1. /\ v \in Nat /\ B \subseteq Blk /\ HEADER \in Nat
      /\ \A b \in B : HEADER <= b.addr /\ End(b) <= v
      /\ \A b, d \in B : b # d => End(b) <= d.addr \/ End(d) <= b.addr
      /\ \A b \in B : /\ b.addr = HEADER \/ \E d \in B : End(d) = b.addr
                      /\ End(b) = v \/ \E d \in B : d.addr = End(b)
      /\ v = HEADER \/ ((\E d \in B : End(d) = v) /\ \E d \in B : d.addr = HEADER)
    BY EndType DEF Tiles
<1>2. /\ \A b \in B : b.addr \in Nat /\ End(b) \in Nat /\ b.addr < End(b)
      /\ a.addr \in Nat /\ End(a) \in Nat /\ a.addr < End(a)
      /\ c.addr \in Nat /\ End(c) \in Nat /\ c.addr < End(c)
    BY <1>1, EndType
<1>3. \A y \in B \ {x} : End(y) <= a.addr \/ End(c) <= y.addr
    BY <1>1, <1>2
<1>4. \A y \in B \ {x} : y.addr # a.addr /\ y.addr # c.addr
    BY <1>2, <1>3
<1>5. D \subseteq Blk /\ \A b \in D : HEADER <= b.addr /\ End(b) <= v
    BY <1>1, <1>2
<1>6. \A b, d \in D : b # d => End(b) <= d.addr \/ End(d) <= b.addr
    <2> TAKE b, d \in D
    <2> HAVE b # d
    <2>1. CASE b \in B \ {x} /\ d \in B \ {x}
        BY <1>1, <2>1
    <2>2. CASE b \in B \ {x} /\ d \in {a, c}
        BY <1>2, <1>3, <2>2
    <2>3. CASE b \in {a, c} /\ d \in B \ {x}
        BY <1>2, <1>3, <2>3
    <2>4. CASE b \in {a, c} /\ d \in {a, c}
        BY <1>2, <2>4
    <2> QED
        BY <2>1, <2>2, <2>3, <2>4
<1>7. /\ \A d \in B : \E e \in D : End(e) = End(d)
      /\ \A d \in B : \E e \in D : e.addr = d.addr
    OBVIOUS
<1>8. \A b \in D : /\ b.addr = HEADER \/ \E d \in D : End(d) = b.addr
                   /\ End(b) = v \/ \E d \in D : d.addr = End(b)
    <2> TAKE b \in D
    <2>1. CASE b \in B
        BY <1>1, <1>7, <2>1
    <2>2. CASE b = a
        BY <1>1, <1>7, <2>2
    <2>3. CASE b = c
        BY <1>1, <1>7, <2>3
    <2> QED
        BY <2>1, <2>2, <2>3
<1>9. v = HEADER \/ ((\E d \in D : End(d) = v) /\ \E d \in D : d.addr = HEADER)
    BY <1>1, <1>7
<1> HIDE DEF D
<1>10. Tiles(v, D)
    BY <1>1, <1>5, <1>6, <1>8, <1>9 DEF Tiles
<1> QED
    BY <1>4, <1>10 DEF D

\* Two neighbours become one.
LEMMA TilesJoin ==
    ASSUME NEW v, NEW B, Tiles(v, B), NEW x \in B, NEW y \in B, End(x) = y.addr,
           NEW z \in Blk, z.addr = x.addr, End(z) = End(y)
    PROVE  Tiles(v, (B \ {x, y}) \cup {z}) /\ z \notin B \ {x, y}
<1> DEFINE D == (B \ {x, y}) \cup {z}
<1>1. /\ v \in Nat /\ B \subseteq Blk /\ HEADER \in Nat
      /\ \A b \in B : HEADER <= b.addr /\ End(b) <= v
      /\ \A b, d \in B : b # d => End(b) <= d.addr \/ End(d) <= b.addr
      /\ \A b \in B : /\ b.addr = HEADER \/ \E d \in B : End(d) = b.addr
                      /\ End(b) = v \/ \E d \in B : d.addr = End(b)
      /\ v = HEADER \/ ((\E d \in B : End(d) = v) /\ \E d \in B : d.addr = HEADER)
    BY EndType DEF Tiles
<1>2. /\ \A b \in B : b.addr \in Nat /\ End(b) \in Nat /\ b.addr < End(b)
      /\ z.addr \in Nat /\ End(z) \in Nat /\ z.addr < End(z)
    BY <1>1, EndType
<1>3. \A b \in B \ {x, y} : End(b) <= z.addr \/ End(z) <= b.addr
    <2> TAKE b \in B \ {x, y}
    <2>1. End(b) <= x.addr \/ End(x) <= b.addr
        BY <1>1
    <2>2. End(b) <= y.addr \/ End(y) <= b.addr
        BY <1>1
    <2> QED
        BY <1>2, <2>1, <2>2
<1>4. z \notin B \ {x, y}
    BY <1>2, <1>3
<1>5. D \subseteq Blk /\ \A b \in D : HEADER <= b.addr /\ End(b) <= v
    BY <1>1, <1>2
<1>6. \A b, d \in D : b # d => End(b) <= d.addr \/ End(d) <= b.addr
    BY <1>1, <1>3
<1>7. /\ \A d \in B : d # x => \E e \in D : End(e) = End(d)
      /\ \A d \in B : d # y => \E e \in D : e.addr = d.addr
    OBVIOUS
<1>8. \A b \in D : /\ b.addr = HEADER \/ \E d \in D : End(d) = b.addr
                   /\ End(b) = v \/ \E d \in D : d.addr = End(b)
    <2> TAKE b \in D
    <2>1. PICK b1 \in B : b1.addr = b.addr /\ b1 # y
        BY <1>2
    <2>2. PICK b2 \in B : End(b2) = End(b) /\ b2 # x
        BY <1>2
    <2>3. \A d \in B : End(d) = b1.addr => d # x
        BY <1>1, <1>2, <2>1
    <2>4. \A d \in B : d.addr = End(b2) => d # y
        BY <1>1, <1>2, <2>2
    <2>5. b.addr = HEADER \/ \E d \in D : End(d) = b.addr
        BY <1>1, <1>7, <2>1, <2>3
    <2>6. End(b) = v \/ \E d \in D : d.addr = End(b)
        BY <1>1, <1>7, <2>2, <2>4
    <2> QED
        BY <2>5, <2>6
<1>9. v = HEADER \/ ((\E d \in D : End(d) = v) /\ \E d \in D : d.addr = HEADER)
    <2>1. \A d \in B : End(d) = v => d # x
        BY <1>1, <1>2
    <2>2. \A d \in B : d.addr = HEADER => d # y
        BY <1>1, <1>2
    <2> QED
        BY <1>1, <1>7, <2>1, <2>2
<1> HIDE DEF D
<1>10. Tiles(v, D)
    BY <1>1, <1>5, <1>6, <1>8, <1>9 DEF Tiles
<1> QED
    BY <1>4, <1>10 DEF D

\* The heap grows by a block.
LEMMA TilesGrow ==
    ASSUME NEW v, NEW B, Tiles(v, B), NEW node \in Blk, node.addr = v, v >= HEADER
    PROVE  Tiles(End(node), B \cup {node}) /\ node \notin B
<1> DEFINE D == B \cup {node}
           w == End(node)
<1>1. /\ v \in Nat /\ B \subseteq Blk /\ HEADER \in Nat
      /\ \A b \in B : HEADER <= b.addr /\ End(b) <= v
      /\ \A b, d \in B : b # d => End(b) <= d.addr \/ End(d) <= b.addr
      /\ \A b \in B : /\ b.addr = HEADER \/ \E d \in B : End(d) = b.addr
                      /\ End(b) = v \/ \E d \in B : d.addr = End(b)
      /\ v = HEADER \/ ((\E d \in B : End(d) = v) /\ \E d \in B : d.addr = HEADER)
    BY EndType DEF Tiles
<1>2. /\ \A b \in B : b.addr \in Nat /\ End(b) \in Nat /\ b.addr < End(b)
      /\ w \in Nat /\ v < w
    BY <1>1, EndType
<1>3. node \notin B
    BY <1>1, <1>2
<1>4. D \subseteq Blk /\ \A b \in D : HEADER <= b.addr /\ End(b) <= w
    BY <1>1, <1>2
<1>5. \A b, d \in D : b # d => End(b) <= d.addr \/ End(d) <= b.addr
    BY <1>1
<1>6. \A b \in D : b.addr = HEADER \/ \E d \in D : End(d) = b.addr
    BY <1>1
<1>7. \A b \in D : End(b) = w \/ \E d \in D : d.addr = End(b)
    BY <1>1
<1>8. (\E d \in D : End(d) = w) /\ \E d \in D : d.addr = HEADER
    BY <1>1
<1> HIDE DEF D
<1>9. Tiles(w, D)
    BY <1>2, <1>4, <1>5, <1>6, <1>7, <1>8 DEF Tiles
<1> QED
    BY <1>3, <1>9 DEF D

\* The free list is in the order of the addresses, and no two of its nodes are neighbours.
Apart(f) == \A i, j \in 1 .. Len(f) : i < j => End(f[i]) < f[j].addr

\* v: where the heap ends, f: its free list, and l: its blocks.
Tiling(v, f, l) ==
    /\ f \in Seq(Blk) /\ Apart(f) /\ IsFiniteSet(l) /\ Range(f) \cap l = {}
    /\ Tiles(v, Range(f) \cup l)

\* A list whose k-th element gives way to none, or to another.
Cut(f, k) == SubSeq(f, 1, k - 1) \o <<>> \o SubSeq(f, k + 1, Len(f))
Changed(f, k, c) == SubSeq(f, 1, k - 1) \o <<c>> \o SubSeq(f, k + 1, Len(f))

LEMMA CutElements ==
    ASSUME NEW S, NEW f \in Seq(S), NEW k \in 1 .. Len(f)
    PROVE  /\ Cut(f, k) \in Seq(S) /\ Len(Cut(f, k)) = Len(f) - 1
           /\ \A i \in 1 .. Len(f) - 1 :
                 Cut(f, k)[i] = IF i < k THEN f[i] ELSE f[i + 1]
<1> DEFINE a == SubSeq(f, 1, k - 1)
<1>1. Len(f) \in Nat
    BY LenProperties
<1>2. \A i \in 1 .. k - 1 : f[i] \in S
    BY <1>1, ElementOfSeq
<1>3. a \in Seq(S)
    BY <1>1, <1>2, SubSeqProperties
<1> HIDE DEF a
<1>4. a \o <<>> = a
    BY <1>3, ConcatEmptySeq
<1>5. Cut(f, k) = RemoveAt(f, k)
    BY <1>4 DEF Cut, RemoveAt, a
<1> QED
    BY <1>5, RemoveAtElements

LEMMA ChangedElements ==
    ASSUME NEW S, NEW f \in Seq(S), NEW k \in 1 .. Len(f), NEW c \in S
    PROVE  /\ Changed(f, k, c) \in Seq(S) /\ Len(Changed(f, k, c)) = Len(f)
           /\ \A i \in 1 .. Len(f) : Changed(f, k, c)[i] = IF i = k THEN c ELSE f[i]
<1>0. Len(f) \in Nat
    BY LenProperties
<1> DEFINE a == SubSeq(f, 1, k - 1)
           b == SubSeq(f, k + 1, Len(f))
<1>1. /\ a \in Seq(S) /\ Len(a) = k - 1
      /\ \A i \in 1 .. k - 1 : a[i] = f[i]
    <2>1. \A i \in 1 .. k - 1 : f[i] \in S
        BY <1>0, ElementOfSeq
    <2> QED
        BY <2>1, SubSeqProperties, <1>0
<1>2. /\ b \in Seq(S) /\ Len(b) = Len(f) - k
      /\ \A i \in 1 .. Len(f) - k : b[i] = f[k + i]
    <2>1. \A i \in k + 1 .. Len(f) : f[i] \in S
        BY ElementOfSeq, <1>0
    <2> QED
        BY <2>1, SubSeqProperties, <1>0
<1>3. /\ <<c>> \in Seq(S) /\ Len(<<c>>) = 1 /\ <<c>>[1] = c
    OBVIOUS
<1> HIDE DEF a, b
<1> DEFINE ac == a \o <<c>>
<1>4. /\ ac \in Seq(S) /\ Len(ac) = k
      /\ \A i \in 1 .. k : ac[i] = IF i < k THEN f[i] ELSE c
    BY <1>1, <1>3, ConcatProperties
<1> HIDE DEF ac
<1> DEFINE r == ac \o b
<1>c. /\ r \in Seq(S) /\ Len(r) = Len(ac) + Len(b)
      /\ \A i \in 1 .. Len(ac) + Len(b) :
            r[i] = IF i <= Len(ac) THEN ac[i] ELSE b[i - Len(ac)]
    BY <1>2, <1>4, ConcatProperties, Zenon
<1>6. Changed(f, k, c) = r
    BY DEF Changed, ac, a, b
<1> HIDE DEF r
<1>5. /\ r \in Seq(S) /\ Len(r) = Len(f)
      /\ \A i \in 1 .. Len(f) : r[i] = IF i <= k THEN ac[i] ELSE b[i - k]
    BY <1>0, <1>2, <1>4, <1>c
<1>7. ASSUME NEW i \in 1 .. Len(f) PROVE r[i] = IF i = k THEN c ELSE f[i]
    <2>1. CASE i <= k
        BY <2>1, <1>4, <1>5
    <2>2. CASE i > k
        <3>1. i - k \in 1 .. Len(f) - k
            BY <2>2, <1>0
        <3>2. b[i - k] = f[k + (i - k)]
            BY <3>1, <1>2
        <3> QED
            BY <2>2, <3>2, <1>5, <1>0
    <2> QED
        BY <2>1, <2>2, <1>0
<1> QED
    BY <1>5, <1>6, <1>7

LEMMA RangeIs ==
    ASSUME NEW S, NEW f \in Seq(S)
    PROVE  /\ Len(f) \in Nat /\ DOMAIN f = 1 .. Len(f)
           /\ Range(f) = {f[i] : i \in 1 .. Len(f)}
           /\ \A i \in 1 .. Len(f) : f[i] \in Range(f) /\ f[i] \in S
           /\ \A x \in Range(f) : x \in S /\ \E i \in 1 .. Len(f) : x = f[i]
<1>1. Len(f) \in Nat /\ DOMAIN f = 1 .. Len(f) /\ \A i \in 1 .. Len(f) : f[i] \in S
    BY LenProperties, ElementOfSeq
<1> QED
    BY <1>1 DEF Range

\* kmalloc takes a block of at least n bytes from the k-th node.  The list is as it was, but
\* that the k-th node, when it is a new one at the end, may begin where the one before ends.
LEMMA TakeTiles ==
    ASSUME NEW v, NEW f \in Seq(Blk), NEW l, IsFiniteSet(l), Range(f) \cap l = {},
           Tiles(v, Range(f) \cup l), NEW k \in 1 .. Len(f), NEW n \in Nat, n <= f[k].size,
           \A i, j \in 1 .. Len(f) :
              i < j => End(f[i]) <= f[j].addr /\ (j # k => End(f[i]) < f[j].addr),
           NEW t, t = Take(f, k, n)
    PROVE  /\ Tiling(v, t.free, l \cup {t.block}) /\ t.block \in Blk /\ n <= t.block.size
           /\ \A b \in l : b.addr # t.block.addr
<1> DEFINE x == f[k]
           split == split_node(x, n)
           c == [addr |-> x.addr + HEADER + n, size |-> x.size - n - HEADER]
           a == [x EXCEPT !.size = n]
           B == Range(f) \cup l
<1>1. /\ Len(f) \in Nat /\ \A i \in 1 .. Len(f) : f[i] \in Range(f) /\ f[i] \in Blk
      /\ \A y \in Range(f) : \E i \in 1 .. Len(f) : y = f[i]
      /\ x \in Blk /\ x \in B /\ x \in Range(f) /\ x \notin l /\ B \subseteq Blk
    BY RangeIs DEF Tiles
<1>2. \A i, j \in 1 .. Len(f) : i # j => f[i].addr # f[j].addr
    <2>1. \A i, j \in 1 .. Len(f) : i < j => f[i].addr # f[j].addr
        <3> TAKE i, j \in 1 .. Len(f)
        <3> SUFFICES ASSUME i < j PROVE f[i].addr # f[j].addr
            OBVIOUS
        <3>1. /\ f[i].addr \in Nat /\ f[j].addr \in Nat /\ End(f[i]) \in Nat
              /\ f[i].addr < End(f[i]) /\ End(f[i]) <= f[j].addr
            BY <1>1, EndType
        <3> QED
            BY <3>1
    <2>2. Len(f) \in Nat
        BY <1>1
    <2> HIDE DEF x, split, a, c, B
    <2> QED
        BY <2>1, <2>2
<1>3. t.free = SubSeq(f, 1, k - 1) \o Tail(split) \o SubSeq(f, k + 1, Len(f))
      /\ t.block = Head(split)
    BY DEF Take
<1>4. \A b \in l : b.addr # x.addr
    <2> TAKE b \in l
    <2>1. b \in Blk /\ b # x /\ (End(b) <= x.addr \/ End(x) <= b.addr)
        BY <1>1 DEF Tiles
    <2> QED
        BY <1>1, <2>1, EndType
<1>5. IsFiniteSet(l \cup {t.block})
    BY FS_AddElement
<1> DEFINE g == t.free
<1> HIDE DEF x, split, a, c, B, g
<1>6. CASE x.size <= n + HEADER + MIN_NODE - 1
    <2>1. split = <<x>>
        BY <1>6 DEF split_node, split
    <2>2. t.block = x /\ Tail(split) = <<>> /\ <<>> \in Seq(Blk) /\ Len(<<>>) = 0
        BY <1>3, <2>1, EmptySeq
    <2>3. /\ g \in Seq(Blk) /\ Len(g) = Len(f) - 1
          /\ \A i \in 1 .. Len(f) - 1 : g[i] = IF i < k THEN f[i] ELSE f[i + 1]
        <3>1. g = Cut(f, k)
            BY <1>3, <2>2 DEF g, Cut
        <3> QED
            BY <3>1, CutElements
    <2>4. Apart(g)
        <3>1. SUFFICES ASSUME NEW i \in 1 .. Len(g), NEW j \in 1 .. Len(g), i < j
                       PROVE  End(g[i]) < g[j].addr
            BY DEF Apart
        <3>2. ASSUME NEW y \in 1 .. Len(g)
              PROVE  \E e \in 1 .. Len(f) :
                        g[y] = f[e] /\ e # k /\ e = IF y < k THEN y ELSE y + 1
            <4>1. y \in 1 .. Len(f) /\ y + 1 \in 1 .. Len(f) /\ y \in 1 .. Len(f) - 1
                BY <1>1, <2>3
            <4>2. CASE y < k
                BY <2>3, <4>1, <4>2
            <4>3. CASE ~ (y < k)
                <5>1. g[y] = f[y + 1] /\ y + 1 # k
                    BY <2>3, <4>1, <4>3
                <5> QED
                    BY <4>1, <4>3, <5>1
            <4> QED
                BY <4>2, <4>3
        <3>3. PICK d \in 1 .. Len(f) : g[i] = f[d] /\ d # k /\ d = IF i < k THEN i ELSE i + 1
            BY <3>2
        <3>4. PICK e \in 1 .. Len(f) : g[j] = f[e] /\ e # k /\ e = IF j < k THEN j ELSE j + 1
            BY <3>2
        <3>5. d < e
            BY <1>1, <2>3, <3>1, <3>3, <3>4
        <3> QED
            BY <3>3, <3>4, <3>5
    <2>5. Range(g) = Range(f) \ {x}
        <3>1. ASSUME NEW i \in 1 .. Len(g) PROVE g[i] \in Range(f) /\ g[i] # x
            <4>1. PICK j \in 1 .. Len(f) : g[i] = f[j] /\ j # k
                <5>1. i \in 1 .. Len(f) /\ i + 1 \in 1 .. Len(f) /\ i \in 1 .. Len(f) - 1
                    BY <1>1, <2>3
                <5>2. CASE i < k
                    BY <2>3, <5>1, <5>2
                <5>3. CASE ~ (i < k)
                    <6>1. g[i] = f[i + 1] /\ i + 1 # k
                        BY <2>3, <5>1, <5>3
                    <6> QED
                        BY <5>1, <6>1
                <5> QED
                    BY <5>2, <5>3
            <4>2. f[j].addr # x.addr
                BY <1>2, <4>1 DEF x
            <4> QED
                BY <1>1, <4>1, <4>2
        <3>2. ASSUME NEW y \in Range(f), y # x PROVE \E i \in 1 .. Len(g) : y = g[i]
            <4>1. PICK i \in 1 .. Len(f) : y = f[i] /\ i # k
                BY <1>1, <3>2 DEF x
            <4>2. CASE i < k
                <5>1. i \in 1 .. Len(g) /\ g[i] = y
                    BY <1>1, <2>3, <4>1, <4>2
                <5> QED
                    BY <5>1
            <4>3. CASE i > k
                <5>1. i - 1 \in 1 .. Len(g) /\ ~ (i - 1 < k) /\ i - 1 + 1 = i
                    BY <1>1, <2>3, <4>1, <4>3
                <5>2. g[i - 1] = y
                    BY <2>3, <4>1, <5>1
                <5> QED
                    BY <5>1, <5>2
            <4> QED
                BY <4>1, <4>2, <4>3
        <3> QED
            BY <2>3, <3>1, <3>2, RangeIs
    <2>6. Range(g) \cup (l \cup {x}) = B /\ Range(g) \cap (l \cup {x}) = {}
        BY <1>1, <2>5 DEF B
    <2>7. Tiling(v, g, l \cup {x})
        BY <1>5, <2>2, <2>3, <2>4, <2>6 DEF Tiling, B
    <2>8. n <= x.size
        BY DEF x
    <2> QED
        BY <1>1, <1>4, <2>2, <2>7, <2>8 DEF g
<1>7. CASE ~ (x.size <= n + HEADER + MIN_NODE - 1)
    <2>1. split = <<a, c>>
        BY <1>7 DEF split_node, split, a, c
    <2>2. t.block = a /\ Tail(split) = <<c>>
        BY <1>3, <2>1
    <2>3. /\ a \in Blk /\ a.addr = x.addr /\ a.size = n
          /\ c \in Blk /\ c.addr = x.addr + HEADER + n
          /\ c.size = x.size - n - HEADER
        <3>1. x.addr \in Nat /\ x.size \in Nat /\ n + HEADER + MIN_NODE - 1 < x.size
            BY <1>1, <1>7, EndType, Sizes1
        <3>2. x.size - n - HEADER \in Nat /\ x.addr + HEADER + n \in Nat
            BY <3>1, Sizes1
        <3>3. a \in Blk /\ a.addr = x.addr /\ a.size = n
            BY <1>1 DEF a, Blk
        <3> QED
            BY <3>2, <3>3 DEF c, Blk
    <2>4. End(a) = c.addr /\ End(c) = End(x) /\ a.addr < c.addr
        <3>1. /\ End(a) = x.addr + HEADER + n /\ End(x) = x.addr + HEADER + x.size
              /\ End(c) = c.addr + HEADER + c.size /\ x.addr \in Nat /\ x.size \in Nat
            BY <1>1, <2>3, EndType
        <3> QED
            BY <2>3, <3>1, Sizes1
    <2>5. /\ Tiles(v, (B \ {x}) \cup {a, c})
          /\ \A y \in B \ {x} : y.addr # a.addr /\ y.addr # c.addr
        <3>1. Tiles(v, B)
            BY DEF B
        <3>2. x \in B /\ a \in Blk /\ c \in Blk
            BY <1>1, <2>3
        <3>3. a.addr = x.addr /\ End(a) = c.addr /\ End(c) = End(x)
            BY <2>3, <2>4
        <3> QED
            BY <3>1, <3>2, <3>3, TilesSplit, SMTT(30)
    <2>6. /\ g \in Seq(Blk) /\ Len(g) = Len(f)
          /\ \A i \in 1 .. Len(g) : g[i] = IF i = k THEN c ELSE f[i]
        <3>1. g = Changed(f, k, c)
            BY <1>3, <2>2 DEF g, Changed
        <3>2. c \in Blk
            BY <2>3
        <3>3. Changed(f, k, c) \in Seq(Blk)
            BY <3>2, ChangedElements
        <3>4. Len(Changed(f, k, c)) = Len(f)
            BY <3>2, ChangedElements
        <3>5. \A i \in 1 .. Len(f) : Changed(f, k, c)[i] = IF i = k THEN c ELSE f[i]
            BY <3>2, ChangedElements
        <3> QED
            BY <3>1, <3>3, <3>4, <3>5
    <2>7. Apart(g)
        <3>1. SUFFICES ASSUME NEW i \in 1 .. Len(g), NEW j \in 1 .. Len(g), i < j
                       PROVE  End(g[i]) < g[j].addr
            BY DEF Apart
        <3>2. /\ i \in 1 .. Len(f) /\ j \in 1 .. Len(f)
              /\ End(f[i]) <= f[j].addr /\ (j # k => End(f[i]) < f[j].addr)
            BY <2>6, <3>1
        <3>3. End(g[i]) = End(f[i])
            BY <2>4, <2>6 DEF x
        <3>4. CASE j = k
            <4>1. g[j] = c /\ f[j] = x
                BY <2>6, <3>4 DEF x
            <4>2. End(f[i]) <= x.addr /\ x.addr < c.addr
                BY <2>3, <2>4, <3>2, <4>1
            <4>3. End(f[i]) \in Nat /\ x.addr \in Nat /\ c.addr \in Nat
                BY <1>1, <2>3, <3>2, EndType
            <4> QED
                BY <3>3, <4>1, <4>2, <4>3
        <3>5. CASE j # k
            BY <2>6, <3>2, <3>3, <3>5
        <3> QED
            BY <3>4, <3>5
    <2>8. Range(g) = (Range(f) \ {x}) \cup {c}
        <3>1. \A i \in 1 .. Len(g) : g[i] \in (Range(f) \ {x}) \cup {c}
            BY <1>1, <1>2, <2>6 DEF x
        <3>2. ASSUME NEW y \in Range(f), y # x PROVE \E i \in 1 .. Len(g) : y = g[i]
            BY <1>1, <2>6, <3>2 DEF x
        <3>3. k \in 1 .. Len(g) /\ g[k] = c
            BY <2>6
        <3> QED
            BY <2>6, <3>1, <3>2, <3>3, RangeIs
    <2>9. /\ Range(g) \cup (l \cup {a}) = (B \ {x}) \cup {a, c}
          /\ Range(g) \cap (l \cup {a}) = {}
        <3>1. a # c
            <4>1. a.addr # c.addr
                BY <1>1, <2>3, <2>4, EndType
            <4> QED
                BY <4>1
        <3>2. l \subseteq B \ {x} /\ c \notin l /\ a \notin Range(f) \ {x}
            BY <1>1, <2>5 DEF B
        <3> QED
            BY <1>1, <2>8, <3>1, <3>2 DEF B
    <2>10. Tiling(v, g, l \cup {a})
        BY <1>5, <2>2, <2>5, <2>6, <2>7, <2>9 DEF Tiling
    <2>11. n <= a.size /\ \A b \in l : b.addr # a.addr
        BY <1>4, <2>3
    <2> QED
        BY <2>2, <2>3, <2>10, <2>11 DEF g
<1> QED
    BY <1>6, <1>7

LEMMA TakeApart ==
    ASSUME NEW v, NEW f \in Seq(Blk), NEW l, IsFiniteSet(l), Range(f) \cap l = {},
           Tiles(v, Range(f) \cup l), NEW k \in 1 .. Len(f), NEW n \in Nat, n <= f[k].size,
           \A i, j \in 1 .. Len(f) :
              i < j => End(f[i]) <= f[j].addr /\ (j # k => End(f[i]) < f[j].addr),
           NEW t, t = Take(f, k, n)
    PROVE  \A b \in l : b.addr # t.block.addr
BY TakeTiles

\* Of the list g the nodes after the n-th, which coalesce_free_list has not come to.
Rest(g, n) == {g[i] : i \in {j \in 1 .. Len(g) : j > n}}

\* What coalesce_free_list has made of the first n nodes of g.
Merged(v, l, g, n, done) ==
    /\ done \in Seq(Blk) /\ Apart(done)
    /\ \A j \in 1 .. Len(done) : \A i \in 1 .. Len(g) : i > n => End(done[j]) <= g[i].addr
    /\ Range(done) \cap l = {}
    /\ Tiles(v, Range(done) \cup Rest(g, n) \cup l)

LEMMA MergeStep ==
    ASSUME NEW v, NEW l, NEW g \in Seq(Blk),
           \A i, j \in 1 .. Len(g) : i < j => End(g[i]) <= g[j].addr,
           Range(g) \cap l = {},
           NEW n \in Nat, n + 1 <= Len(g), NEW done, Merged(v, l, g, n, done)
    PROVE  Merged(v, l, g, n + 1, Join(done, g[n + 1]))
<1> DEFINE node == g[n + 1]
           R1 == Rest(g, n + 1)
           B == Range(done) \cup Rest(g, n) \cup l
<1>1. /\ done \in Seq(Blk) /\ Apart(done) /\ Range(done) \cap l = {} /\ Tiles(v, B)
      /\ \A j \in 1 .. Len(done) : \A i \in 1 .. Len(g) : i > n => End(done[j]) <= g[i].addr
    BY DEF Merged
<1>2. /\ Len(g) \in Nat /\ \A i \in 1 .. Len(g) : g[i] \in Blk /\ g[i] \notin l
      /\ n + 1 \in 1 .. Len(g) /\ node \in Blk
    <2>1. Len(g) \in Nat /\ \A i \in 1 .. Len(g) : g[i] \in Blk /\ g[i] \in Range(g)
        BY RangeIs
    <2>2. n + 1 \in 1 .. Len(g)
        BY <2>1
    <2> QED
        BY <2>1, <2>2
<1>3. /\ Len(done) \in Nat /\ \A j \in 1 .. Len(done) : done[j] \in Blk /\ done[j] \in Range(done)
      /\ \A x \in Range(done) : \E j \in 1 .. Len(done) : x = done[j]
    BY <1>1, RangeIs
<1>4. Rest(g, n) = R1 \cup {node}
    <2>1. \A i \in 1 .. Len(g) : i > n <=> i > n + 1 \/ i = n + 1
        BY <1>2
    <2> QED
        BY <1>2, <2>1 DEF Rest
<1>5. \A i \in 1 .. Len(g) : i > n + 1 => End(node) <= g[i].addr
    BY <1>2
<1>6. \A j \in 1 .. Len(done) : End(done[j]) <= node.addr
    BY <1>1, <1>2
<1>7. node \notin R1 /\ node \notin l
    <2>1. ASSUME NEW i \in 1 .. Len(g), i > n + 1 PROVE g[i] # node
        <3>1. End(node) <= g[i].addr /\ node.addr < End(node) /\ End(node) \in Nat /\ g[i].addr \in Nat
              /\ node.addr \in Nat
            BY <1>2, <1>5, <2>1, EndType
        <3>2. node.addr < g[i].addr
            BY <3>1
        <3> QED
            BY <3>1, <3>2
    <2> QED
        BY <1>2, <2>1 DEF Rest
<1>8. Len(done) # 0 <=> done # <<>>
    BY <1>1, EmptySeq, LenProperties
<1> HIDE DEF node, R1, B
<1>9. CASE ~ (done # <<>> /\ End(Last(done)) = node.addr)
    <2> DEFINE next == Append(done, node)
    <2>1. Join(done, node) = next
        BY <1>9 DEF Join
    <2>2. /\ next \in Seq(Blk) /\ Len(next) = Len(done) + 1 /\ next[Len(done) + 1] = node
          /\ \A j \in 1 .. Len(done) : next[j] = done[j]
        BY <1>1, <1>2, <1>3, AppendProperties
    <2> HIDE DEF next
    <2>3. Range(next) = Range(done) \cup {node}
        <3>1. Len(next) \in Nat /\ Range(next) = {next[j] : j \in 1 .. Len(next)}
            BY <2>2, RangeIs
        <3>2. \A j \in 1 .. Len(next) : j \in 1 .. Len(done) \/ j = Len(done) + 1
            BY <1>3, <2>2
        <3>3. \A j \in 1 .. Len(done) : j \in 1 .. Len(next)
            BY <1>3, <2>2
        <3>4. Len(done) + 1 \in 1 .. Len(next)
            BY <1>3, <2>2
        <3>5. ASSUME NEW x \in Range(next) PROVE x \in Range(done) \cup {node}
            <4>1. PICK j \in 1 .. Len(next) : x = next[j]
                BY <3>1
            <4> QED
                BY <1>3, <2>2, <3>2, <4>1
        <3>6. ASSUME NEW x \in Range(done) PROVE x \in Range(next)
            <4>1. PICK j \in 1 .. Len(done) : x = done[j]
                BY <1>3
            <4>2. j \in 1 .. Len(next) /\ next[j] = x
                BY <2>2, <3>3, <4>1
            <4> QED
                BY <3>1, <4>2
        <3>7. node \in Range(next)
            BY <2>2, <3>1, <3>4
        <3> QED
            BY <3>5, <3>6, <3>7
    <2>4. Tiles(v, Range(next) \cup R1 \cup l) /\ Range(next) \cap l = {}
        <3>1. Range(next) \cup R1 \cup l = B
            BY <1>4, <2>3 DEF B, R1
        <3> QED
            BY <1>1, <1>7, <2>3, <3>1
    <2>5. ASSUME NEW j \in 1 .. Len(next), NEW i \in 1 .. Len(g), i > n + 1
          PROVE  End(next[j]) <= g[i].addr
        <3>1. CASE j \in 1 .. Len(done)
            <4>1. i > n
                BY <1>2, <2>5
            <4> QED
                BY <1>1, <2>2, <3>1, <4>1
        <3>2. CASE j = Len(done) + 1
            BY <1>5, <2>2, <2>5, <3>2
        <3> QED
            BY <1>3, <2>2, <3>1, <3>2
    <2>6. ASSUME NEW i \in 1 .. Len(next), NEW j \in 1 .. Len(next), i < j
          PROVE  End(next[i]) < next[j].addr
        <3>1. i \in 1 .. Len(done) /\ next[i] = done[i]
            BY <1>3, <2>2, <2>6
        <3>2. CASE j \in 1 .. Len(done)
            BY <1>1, <2>2, <2>6, <3>1, <3>2 DEF Apart
        <3>3. CASE j = Len(done) + 1
            <4>1. Len(done) \in 1 .. Len(done) /\ Last(done) = done[Len(done)] /\ done # <<>>
                BY <1>3, <1>8, <3>1 DEF Last
            <4>2. End(done[Len(done)]) <= node.addr /\ End(done[Len(done)]) # node.addr
                BY <1>6, <1>9, <4>1
            <4>3. /\ End(done[Len(done)]) \in Nat /\ node.addr \in Nat /\ End(done[i]) \in Nat
                  /\ done[Len(done)].addr \in Nat /\ done[Len(done)].addr < End(done[Len(done)])
                BY <1>2, <1>3, <3>1, <4>1, EndType
            <4>4. CASE i = Len(done)
                <5>1. End(done[i]) < node.addr
                    BY <4>2, <4>3, <4>4
                <5> QED
                    BY <2>2, <3>1, <3>3, <5>1
            <4>5. CASE i # Len(done)
                <5>1. i < Len(done)
                    BY <1>3, <3>1, <4>5
                <5>2. End(done[i]) < done[Len(done)].addr
                    BY <1>1, <3>1, <4>1, <5>1 DEF Apart
                <5>3. End(done[i]) < node.addr
                    BY <4>2, <4>3, <5>2
                <5> QED
                    BY <2>2, <3>1, <3>3, <5>3
            <4> QED
                BY <4>4, <4>5
        <3> QED
            BY <1>3, <2>2, <3>2, <3>3
    <2>7. Apart(next)
        BY <2>6 DEF Apart
    <2> QED
        BY <2>1, <2>2, <2>4, <2>5, <2>7 DEF Merged, node, R1
<1>10. CASE done # <<>> /\ End(Last(done)) = node.addr
    <2> DEFINE k == Len(done)
               last == done[k]
               big == [last EXCEPT !.size = @ + HEADER + node.size]
               next == [done EXCEPT ![k] = big]
    <2>1. k \in 1 .. Len(done) /\ last \in Blk /\ End(last) = node.addr /\ last \in Range(done)
        BY <1>3, <1>8, <1>10 DEF Last
    <2>2. Join(done, node) = next
        BY <1>10 DEF Join
    <2>3. big \in Blk /\ big.addr = last.addr /\ End(big) = End(node)
        <3>1. /\ last.addr \in Nat /\ last.size \in Nat /\ node.addr \in Nat /\ node.size \in Nat
              /\ End(last) = last.addr + HEADER + last.size
              /\ End(node) = node.addr + HEADER + node.size /\ HEADER \in Nat
            BY <1>2, <2>1, EndType
        <3> HIDE DEF last
        <3>2. PICK s \in Nat : s = last.size + HEADER + node.size
            BY <3>1
        <3>3. big = [last EXCEPT !.size = s]
            BY <3>2
        <3> HIDE DEF big
        <3>4. big \in Blk /\ big.addr = last.addr /\ big.size = s
            BY <2>1, <3>3 DEF Blk
        <3>5. End(big) = last.addr + HEADER + s
            BY <3>4 DEF End
        <3>6. PICK la, ls, na, ns, H \in Nat :
                 /\ la = last.addr /\ ls = last.size /\ na = node.addr /\ ns = node.size
                 /\ H = HEADER
            BY <3>1
        <3>7. la + H + ls = na /\ s = ls + H + ns
            BY <2>1, <3>1, <3>2, <3>6
        <3>8. la + H + s = na + H + ns
            BY <3>7
        <3> QED
            BY <3>1, <3>4, <3>5, <3>6, <3>8
    <2> HIDE DEF big
    <2>4. /\ next \in Seq(Blk) /\ Len(next) = Len(done)
          /\ \A j \in 1 .. Len(done) : next[j] = IF j = k THEN big ELSE done[j]
        <3>1. done \in [1 .. Len(done) -> Blk]
            BY <1>1, LenProperties
        <3>2. next \in [1 .. Len(done) -> Blk]
              /\ \A j \in 1 .. Len(done) : next[j] = IF j = k THEN big ELSE done[j]
            BY <2>1, <2>3, <3>1
        <3> HIDE DEF next, k
        <3>3. next \in Seq(Blk) /\ Len(next) = Len(done)
            BY <1>3, <3>2
        <3> QED
            BY <3>2, <3>3
    <2> HIDE DEF next, last
    <2>5. \A j \in 1 .. Len(done) : j # k => done[j] # last
        <3> SUFFICES ASSUME NEW j \in 1 .. Len(done), j # k PROVE done[j] # last
            OBVIOUS
        <3>1. j < k
            BY <1>3, <2>1
        <3>2. End(done[j]) < last.addr /\ End(done[j]) \in Nat /\ done[j].addr \in Nat
              /\ done[j].addr < End(done[j]) /\ last.addr \in Nat
            BY <1>1, <1>3, <2>1, <3>1, EndType DEF Apart, last
        <3>3. done[j].addr < last.addr
            BY <3>2
        <3> QED
            BY <3>2, <3>3
    <2>6. Range(next) = (Range(done) \ {last}) \cup {big}
        <3>1. Range(next) = {next[j] : j \in 1 .. Len(done)}
            BY <2>4, RangeIs
        <3>2. last = done[k] /\ k \in 1 .. Len(done)
            BY <2>1 DEF last
        <3> HIDE DEF k
        <3>3. next[k] = big /\ big \in Range(next)
            BY <2>4, <3>1, <3>2
        <3>4. ASSUME NEW x \in Range(next) PROVE x \in (Range(done) \ {last}) \cup {big}
            <4>1. PICK j \in 1 .. Len(done) : x = next[j]
                BY <3>1
            <4>2. CASE j = k
                BY <3>3, <4>1, <4>2
            <4>3. CASE j # k
                BY <1>3, <2>4, <2>5, <4>1, <4>3
            <4> QED
                BY <4>2, <4>3
        <3>5. ASSUME NEW x \in Range(done), x # last PROVE x \in Range(next)
            <4>1. PICK j \in 1 .. Len(done) : x = done[j]
                BY <1>3
            <4>2. next[j] = x
                BY <2>4, <3>2, <3>5, <4>1
            <4> QED
                BY <3>1, <4>2
        <3> QED
            BY <3>3, <3>4, <3>5
    <2>7. Tiles(v, (B \ {last, node}) \cup {big}) /\ big \notin B \ {last, node}
        <3>1. last \in B /\ node \in B
            BY <1>4, <2>1 DEF B
        <3> HIDE DEF k
        <3> QED
            BY <1>1, <2>1, <2>3, <3>1, TilesJoin
    <2>8. last \notin R1 /\ last \notin l /\ node \notin Range(done)
        <3>1. last \notin R1
            <4>1. ASSUME NEW i \in 1 .. Len(g), i > n + 1 PROVE g[i] # last
                <5>1. End(last) <= g[i].addr
                    BY <1>1, <1>2, <2>1, <4>1 DEF last
                <5>2. last.addr < End(last) /\ End(last) \in Nat /\ last.addr \in Nat /\ g[i].addr \in Nat
                    BY <1>2, <2>1, EndType
                <5>3. last.addr < g[i].addr
                    BY <5>1, <5>2
                <5> QED
                    BY <5>2, <5>3
            <4> QED
                BY <4>1 DEF R1, Rest
        <3>2. ASSUME NEW j \in 1 .. Len(done) PROVE done[j] # node
            <4>1. End(done[j]) <= node.addr /\ done[j].addr < End(done[j]) /\ End(done[j]) \in Nat
                  /\ done[j].addr \in Nat /\ node.addr \in Nat
                BY <1>2, <1>3, <1>6, EndType
            <4>2. done[j].addr < node.addr
                BY <4>1
            <4> QED
                BY <4>1, <4>2
        <3> QED
            BY <1>1, <1>3, <2>1, <3>1, <3>2
    <2>9. Range(next) \cup R1 \cup l = (B \ {last, node}) \cup {big}
        BY <1>4, <1>7, <2>6, <2>8 DEF B, R1
    <2>10. Range(next) \cap l = {}
        <3>1. l \subseteq B \ {last, node}
            BY <1>7, <2>8 DEF B
        <3> QED
            BY <1>1, <2>6, <2>7, <3>1
    <2>11. ASSUME NEW j \in 1 .. Len(next), NEW i \in 1 .. Len(g), i > n + 1
           PROVE  End(next[j]) <= g[i].addr
        <3>1. CASE j = k
            BY <1>5, <2>3, <2>4, <2>11, <3>1
        <3>2. CASE j # k
            <4>1. i > n /\ next[j] = done[j] /\ j \in 1 .. Len(done)
                BY <1>2, <2>4, <2>11, <3>2
            <4> QED
                BY <1>1, <4>1
        <3> QED
            BY <3>1, <3>2
    <2>12. ASSUME NEW i \in 1 .. Len(next), NEW j \in 1 .. Len(next), i < j
           PROVE  End(next[i]) < next[j].addr
        <3>1. i \in 1 .. Len(done) /\ j \in 1 .. Len(done) /\ i # k
            BY <1>3, <2>4, <2>12
        <3>2. next[i] = done[i] /\ next[j].addr = done[j].addr
            BY <2>3, <2>4, <3>1 DEF last
        <3>3. End(done[i]) < done[j].addr
            BY <1>1, <2>12, <3>1 DEF Apart
        <3> QED
            BY <3>2, <3>3
    <2>13. Apart(next)
        BY <2>12 DEF Apart
    <2>14. Tiles(v, Range(next) \cup R1 \cup l)
        BY <2>7, <2>9
    <2> QED
        BY <2>2, <2>4, <2>10, <2>11, <2>13, <2>14 DEF Merged, node, R1
<1> QED
    BY <1>9, <1>10 DEF node

\* coalesce_free_list leaves no neighbours.
LEMMA CoalesceTiles ==
    ASSUME NEW v, NEW l, IsFiniteSet(l), NEW g \in Seq(Blk),
           \A i, j \in 1 .. Len(g) : i < j => End(g[i]) <= g[j].addr,
           Range(g) \cap l = {}, Tiles(v, Range(g) \cup l)
    PROVE  Tiling(v, coalesce_free_list(g), l)
<1> DEFINE joined == CHOOSE f : f = [n \in 0 .. Len(g) |-> Joined(f, n, g)]
           D == {n \in Nat : n <= Len(g) => Merged(v, l, g, n, joined[n])}
<1>1. Len(g) \in Nat
    BY LenProperties
<1>2. coalesce_free_list(g) = joined[Len(g)]
    BY DEF coalesce_free_list, Joined, Join
<1>3. joined = [n \in 0 .. Len(g) |-> Joined(joined, n, g)]
    BY <1>1, JoinedExist
<1> HIDE DEF joined
<1>4. 0 \in D
    <2>1. joined[0] = <<>>
        BY <1>1, <1>3 DEF Joined
    <2>2. <<>> \in Seq(Blk) /\ Len(<<>>) = 0 /\ Range(<<>>) = {}
        BY EmptySeq DEF Range
    <2>3. Rest(g, 0) = Range(g)
        <3>1. \A i \in 1 .. Len(g) : i > 0
            BY <1>1
        <3>2. Range(g) = {g[i] : i \in 1 .. Len(g)}
            BY RangeIs
        <3> QED
            BY <3>1, <3>2 DEF Rest
    <2>4. Merged(v, l, g, 0, <<>>)
        <3> DEFINE e == <<>>
        <3>1. e \in Seq(Blk) /\ Len(e) = 0 /\ Range(e) = {}
            BY <2>2
        <3> HIDE DEF e
        <3>2. Apart(e)
            BY <3>1 DEF Apart
        <3>3. Tiles(v, Range(e) \cup Rest(g, 0) \cup l)
            BY <2>3, <3>1
        <3>4. Merged(v, l, g, 0, e)
            BY <3>1, <3>2, <3>3 DEF Merged
        <3> QED
            BY <3>4 DEF e
    <2> QED
        BY <2>1, <2>4
<1>5. ASSUME NEW n \in Nat, n \in D PROVE n + 1 \in D
    <2>1. SUFFICES ASSUME n + 1 <= Len(g) PROVE Merged(v, l, g, n + 1, joined[n + 1])
        OBVIOUS
    <2>2. n + 1 \in 0 .. Len(g) /\ n + 1 # 0 /\ n + 1 - 1 = n /\ n <= Len(g)
        BY <1>1, <2>1
    <2>3. joined[n + 1] = Join(joined[n], g[n + 1])
        <3>1. joined[n + 1] = Joined(joined, n + 1, g)
            BY <1>3, <2>2
        <3> QED
            BY <2>2, <3>1 DEF Joined
    <2>4. Merged(v, l, g, n, joined[n])
        BY <1>5, <2>2
    <2>5. Merged(v, l, g, n + 1, Join(joined[n], g[n + 1]))
        BY <2>1, <2>4, MergeStep
    <2> QED
        BY <2>3, <2>5
<1>6. \A n \in Nat : n \in D
    <2> HIDE DEF D
    <2> QED
        BY <1>4, <1>5, InductionOverNat
<1>7. Merged(v, l, g, Len(g), joined[Len(g)])
    BY <1>1, <1>6
<1>8. Rest(g, Len(g)) = {}
    BY <1>1 DEF Rest
<1> QED
    BY <1>2, <1>7, <1>8 DEF Merged, Tiling

\* kfree puts a block among the free ones.
LEMMA FreedTiles ==
    ASSUME NEW v, Tiling(v, free, live), NEW block \in live
    PROVE  Tiling(v, Freed(block), live \ {block})
<1> DEFINE lower == {0} \cup {k \in DOMAIN free : free[k].addr < block.addr}
           before == Max(lower)
           list == InsertAt(free, before + 1, block)
           l1 == live \ {block}
           B == Range(free) \cup live
<1>1. /\ free \in Seq(Blk) /\ Apart(free) /\ IsFiniteSet(live) /\ Range(free) \cap live = {}
      /\ Tiles(v, B)
    BY DEF Tiling
<1>2. /\ Len(free) \in Nat /\ DOMAIN free = 1 .. Len(free)
      /\ \A i \in 1 .. Len(free) : free[i] \in Range(free) /\ free[i] \in Blk
      /\ \A x \in Range(free) : \E i \in 1 .. Len(free) : x = free[i]
    BY <1>1, RangeIs
<1>3. block \in Blk /\ B \subseteq Blk /\ \A b, c \in B : b # c => End(b) <= c.addr \/ End(c) <= b.addr
    BY <1>1 DEF Tiles
<1>4. before \in lower /\ (\A x \in lower : x <= before) /\ before \in 0 .. Len(free)
    <2>1. lower \in SUBSET Int /\ lower # {} /\ \A x \in lower : x \in 0 .. Len(free)
        BY <1>2
    <2>2. \A x \in lower : x <= Len(free)
        BY <1>2, <2>1
    <2> HIDE DEF lower
    <2>3. before \in lower /\ \A x \in lower : x <= before
        <3>1. Len(free) \in Int
            BY <1>2
        <3>2. Max(lower) \in lower /\ \A x \in lower : x <= Max(lower)
            BY <2>1, <2>2, <3>1, MaxOfBounded
        <3> QED
            BY <3>2
    <2> QED
        BY <2>1, <2>3
<1>5. Freed(block) = coalesce_free_list(list)
    BY DEF Freed
<1> HIDE DEF before, l1, B
<1>6. ASSUME NEW i \in 1 .. Len(free)
      PROVE  /\ i <= before => End(free[i]) <= block.addr
             /\ i > before => End(block) <= free[i].addr
    <2>1. /\ free[i].addr \in Nat /\ End(free[i]) \in Nat /\ free[i].addr < End(free[i])
          /\ block.addr \in Nat /\ End(block) \in Nat /\ block.addr < End(block)
        BY <1>2, <1>3, EndType
    <2>2. End(free[i]) <= block.addr \/ End(block) <= free[i].addr
        <3>1. free[i] # block
            BY <1>1, <1>2
        <3>2. free[i] \in B /\ block \in B
            BY <1>2 DEF B
        <3> QED
            BY <1>3, <3>1, <3>2
    <2>3. CASE i > before
        <3>1. i \notin lower
            BY <1>2, <1>4, <2>3
        <3>2. ~ (free[i].addr < block.addr)
            BY <1>2, <3>1
        <3> QED
            BY <2>1, <2>2, <2>3, <3>2, <1>4
    <2>4. CASE i <= before
        <3>1. before \in 1 .. Len(free) /\ free[before].addr < block.addr
            BY <1>2, <1>4, <2>4
        <3>2. free[i].addr < block.addr
            <4>1. CASE i = before
                BY <3>1, <4>1
            <4>2. CASE i # before
                <5>1. i < before
                    BY <1>4, <2>4, <4>2
                <5>2. End(free[i]) < free[before].addr /\ free[before].addr \in Nat
                    BY <1>1, <1>2, <3>1, <5>1, EndType DEF Apart
                <5> QED
                    BY <2>1, <3>1, <5>2
            <4> QED
                BY <4>1, <4>2
        <3> QED
            BY <1>4, <2>1, <2>2, <2>4, <3>2
    <2> QED
        BY <2>3, <2>4
<1> HIDE DEF lower
<1> DEFINE p == before + 1
<1>7. p \in 1 .. Len(free) + 1 /\ list = InsertAt(free, p, block)
    BY <1>2, <1>4
<1>8. /\ list \in Seq(Blk) /\ Len(list) = Len(free) + 1
      /\ \A k \in 1 .. Len(free) + 1 :
            list[k] = IF k < p THEN free[k] ELSE IF k = p THEN block ELSE free[k - 1]
    <2> DEFINE r == InsertAt(free, p, block)
    <2>1. list = r
        BY <1>7
    <2> HIDE DEF list, p
    <2>2. r \in Seq(Blk)
        BY <1>1, <1>3, <1>7, InsertAtElements
    <2>3. Len(r) = Len(free) + 1
        BY <1>1, <1>3, <1>7, InsertAtElements
    <2>4. \A k \in 1 .. Len(free) + 1 :
             r[k] = IF k < p THEN free[k] ELSE IF k = p THEN block ELSE free[k - 1]
        <3> HIDE DEF r
        <3>1. free \in Seq(Blk) /\ block \in Blk /\ p \in 1 .. Len(free) + 1
            BY <1>1, <1>3, <1>7
        <3>2. \A k \in 1 .. Len(free) + 1 :
                 InsertAt(free, p, block)[k] = IF k < p THEN free[k]
                                               ELSE IF k = p THEN block ELSE free[k - 1]
            BY <3>1, InsertAtElements
        <3> QED
            BY <3>2 DEF r
    <2> QED
        BY <2>1, <2>2, <2>3, <2>4
<1> HIDE DEF list
<1>9. ASSUME NEW k \in 1 .. Len(list)
      PROVE  /\ k < p => k \in 1 .. Len(free) /\ list[k] = free[k]
             /\ k = p => list[k] = block
             /\ k > p => k - 1 \in 1 .. Len(free) /\ list[k] = free[k - 1]
    BY <1>2, <1>7, <1>8
<1>10. ASSUME NEW i \in 1 .. Len(list), NEW j \in 1 .. Len(list), i < j
       PROVE  End(list[i]) <= list[j].addr
    <2>0. \A a, b \in 1 .. Len(free) : a < b => End(free[a]) <= free[b].addr
        <3> SUFFICES ASSUME NEW a \in 1 .. Len(free), NEW b \in 1 .. Len(free), a < b
                     PROVE  End(free[a]) <= free[b].addr
            OBVIOUS
        <3>1. End(free[a]) < free[b].addr /\ End(free[a]) \in Nat /\ free[b].addr \in Nat
            BY <1>1, <1>2, EndType DEF Apart
        <3> QED
            BY <3>1
    <2>1. CASE j < p
        <3>1. i < p
            BY <1>7, <1>8, <1>10, <2>1
        <3> QED
            BY <1>9, <1>10, <2>0, <2>1, <3>1
    <2>2. CASE j = p
        <3>1. i < p /\ i <= before
            BY <1>4, <1>7, <1>10, <2>2
        <3> QED
            BY <1>6, <1>9, <2>2, <3>1
    <2>3. CASE j > p
        <3>1. j - 1 \in 1 .. Len(free) /\ list[j] = free[j - 1] /\ j - 1 > before
            BY <1>4, <1>9, <2>3
        <3>2. CASE i < p
            <4>1. i < j - 1 /\ i \in 1 .. Len(free) /\ list[i] = free[i]
                BY <1>7, <1>9, <2>3, <3>2
            <4> QED
                BY <2>0, <3>1, <4>1
        <3>3. CASE i = p
            BY <1>6, <1>9, <3>1, <3>3
        <3>4. CASE i > p
            <4>1. i - 1 < j - 1 /\ i - 1 \in 1 .. Len(free) /\ list[i] = free[i - 1]
                BY <1>9, <1>10, <3>4
            <4> QED
                BY <2>0, <3>1, <4>1
        <3> QED
            BY <1>4, <3>2, <3>3, <3>4
    <2> QED
        BY <1>4, <2>1, <2>2, <2>3
<1>11. Range(list) = Range(free) \cup {block}
    <2>1. /\ Len(list) \in Nat /\ \A k \in 1 .. Len(list) : list[k] \in Range(list)
          /\ \A x \in Range(list) : \E k \in 1 .. Len(list) : x = list[k]
        BY <1>8, RangeIs
    <2>2. ASSUME NEW x \in Range(list) PROVE x \in Range(free) \cup {block}
        <3>1. PICK k \in 1 .. Len(list) : x = list[k]
            BY <2>1
        <3>2. k < p \/ k = p \/ k > p
            BY <1>4
        <3> QED
            BY <1>2, <1>9, <3>1, <3>2
    <2>3. ASSUME NEW x \in Range(free) PROVE x \in Range(list)
        <3>1. PICK k \in 1 .. Len(free) : x = free[k]
            BY <1>2
        <3>2. CASE k < p
            <4>1. k \in 1 .. Len(list) /\ list[k] = x
                BY <1>2, <1>8, <3>1, <3>2
            <4> QED
                BY <2>1, <4>1
        <3>3. CASE ~ (k < p)
            <4>1. k + 1 \in 1 .. Len(list) /\ k + 1 > p /\ k + 1 - 1 = k
                BY <1>2, <1>4, <1>8, <3>3
            <4>2. list[k + 1] = x
                BY <1>9, <3>1, <4>1
            <4> QED
                BY <2>1, <4>1, <4>2
        <3> QED
            BY <3>2, <3>3
    <2>4. block \in Range(list)
        <3>1. p \in 1 .. Len(list)
            BY <1>7, <1>8
        <3> QED
            BY <1>9, <2>1, <3>1
    <2> QED
        BY <2>2, <2>3, <2>4
<1>12. Range(list) \cup l1 = B /\ Range(list) \cap l1 = {} /\ IsFiniteSet(l1)
    <2>1. IsFiniteSet(l1)
        BY <1>1, FS_RemoveElement DEF l1
    <2> QED
        BY <1>1, <1>11, <2>1 DEF B, l1
<1>13. Tiling(v, coalesce_free_list(list), l1)
    <2>1. Tiles(v, Range(list) \cup l1)
        BY <1>1, <1>12
    <2>2. \A i, j \in 1 .. Len(list) : i < j => End(list[i]) <= list[j].addr
        BY <1>10
    <2> QED
        BY <1>8, <1>12, <2>1, <2>2, CoalesceTiles
<1> QED
    BY <1>5, <1>13 DEF l1

\* The distinct addresses are as many as the blocks.
LEMMA TilingCounts ==
    ASSUME NEW v, NEW f, NEW l, Tiling(v, f, l)
    PROVE  Cardinality({b.addr : b \in Range(f) \cup l}) = Len(f) + Cardinality(l)
<1> DEFINE B == Range(f) \cup l
           A == {b.addr : b \in B}
<1>1. /\ f \in Seq(Blk) /\ Apart(f) /\ IsFiniteSet(l) /\ Range(f) \cap l = {} /\ Tiles(v, B)
    BY DEF Tiling
<1>2. /\ Len(f) \in Nat /\ \A i \in 1 .. Len(f) : f[i] \in Range(f) /\ f[i] \in Blk
      /\ \A x \in Range(f) : \E i \in 1 .. Len(f) : x = f[i]
    BY <1>1, RangeIs
<1>3. IsFiniteSet(Range(f)) /\ Cardinality(Range(f)) = Len(f)
    <2>1. IsFiniteSet(1 .. Len(f)) /\ Cardinality(1 .. Len(f)) = Len(f)
        <3>1. Len(f) \in Int /\ 1 \in Int
            BY <1>2
        <3>2. IsFiniteSet(1 .. Len(f)) /\ Cardinality(1 .. Len(f)) = IF 1 > Len(f) THEN 0
                                                                    ELSE Len(f) - 1 + 1
            BY <3>1, FS_Interval
        <3> QED
            BY <1>2, <3>2
    <2>2. \A i, j \in 1 .. Len(f) : f[i] = f[j] => i = j
        <3> SUFFICES ASSUME NEW i \in 1 .. Len(f), NEW j \in 1 .. Len(f), i < j PROVE f[i] # f[j]
            BY <1>2
        <3>1. End(f[i]) < f[j].addr /\ End(f[i]) \in Nat /\ f[i].addr < End(f[i]) /\ f[i].addr \in Nat
              /\ f[j].addr \in Nat
            BY <1>1, <1>2, EndType DEF Apart
        <3>2. f[i].addr < f[j].addr
            BY <3>1
        <3> QED
            BY <3>1, <3>2
    <2> DEFINE h == [i \in 1 .. Len(f) |-> f[i]]
    <2>3. h \in Bijection(1 .. Len(f), Range(f))
        BY <1>2, <2>2 DEF Bijection, Injection, Surjection, IsInjective
    <2>4. ExistsBijection(1 .. Len(f), Range(f))
        BY <2>3 DEF ExistsBijection
    <2> QED
        BY <2>1, <2>4, FS_Bijection
<1>4. IsFiniteSet(B) /\ Cardinality(B) = Len(f) + Cardinality(l)
    <2>1. Cardinality(Range(f) \cap l) = 0
        BY <1>1, FS_EmptySet
    <2>2. IsFiniteSet(B) /\ Cardinality(B) =
             Cardinality(Range(f)) + Cardinality(l) - Cardinality(Range(f) \cap l)
        BY <1>1, <1>3, FS_Union
    <2>3. Cardinality(l) \in Nat
        BY <1>1, FS_CardinalityType
    <2> QED
        BY <1>2, <1>3, <2>1, <2>2, <2>3
<1>5. \A b, c \in B : b.addr = c.addr => b = c
    <2> SUFFICES ASSUME NEW b \in B, NEW c \in B, b # c PROVE b.addr # c.addr
        OBVIOUS
    <2>1. b \in Blk /\ c \in Blk /\ (End(b) <= c.addr \/ End(c) <= b.addr)
        BY <1>1 DEF Tiles
    <2> QED
        BY <2>1, EndType
<1> HIDE DEF B
<1>6. ExistsBijection(B, A)
    <2> DEFINE h == [b \in B |-> b.addr]
    <2>1. h \in Bijection(B, A)
        BY <1>5 DEF Bijection, Injection, Surjection, IsInjective
    <2> QED
        BY <2>1 DEF ExistsBijection
<1>7. Cardinality(A) = Cardinality(B)
    <2> HIDE DEF A
    <2> QED
        BY <1>4, <1>6, FS_Bijection
<1> QED
    BY <1>4, <1>7 DEF B

LEMMA TilingTiles == Tiling(kernel_heap_vaddr, free, live) => BlocksTile
<1> SUFFICES ASSUME Tiling(kernel_heap_vaddr, free, live) PROVE BlocksTile
    OBVIOUS
<1> DEFINE B == Range(free) \cup live
           v == kernel_heap_vaddr
           starts == {b.addr : b \in Blocks}
<1>1. free \in Seq(Blk) /\ Apart(free) /\ Tiles(v, B)
    BY DEF Tiling
<1>2. Blocks = B
    BY <1>1 DEF Blocks, Range
<1>3. /\ \A b \in B : b.addr = HEADER \/ \E c \in B : End(c) = b.addr
      /\ \A b \in B : End(b) = v \/ \E c \in B : c.addr = End(b)
      /\ v = HEADER \/ ((\E c \in B : End(c) = v) /\ \E c \in B : c.addr = HEADER)
    BY <1>1 DEF Tiles
<1> HIDE DEF B
<1>4. starts \cup {v} = {HEADER} \cup {End(b) : b \in Blocks}
    <2>1. ASSUME NEW b \in B PROVE b.addr \in {HEADER} \cup {End(c) : c \in B}
        BY <1>3
    <2>2. ASSUME NEW b \in B PROVE End(b) \in {c.addr : c \in B} \cup {v}
        BY <1>3
    <2>3. v \in {HEADER} \cup {End(c) : c \in B} /\ HEADER \in {c.addr : c \in B} \cup {v}
        BY <1>3
    <2> QED
        BY <1>2, <2>1, <2>2, <2>3
<1>5. Cardinality(starts) = Len(free) + Cardinality(live)
    BY <1>2, TilingCounts DEF B
<1>6. \A k \in 1 .. Len(free) - 1 : End(free[k]) < free[k + 1].addr
    <2> TAKE k \in 1 .. Len(free) - 1
    <2>1. k \in 1 .. Len(free) /\ k + 1 \in 1 .. Len(free) /\ k < k + 1
        BY <1>1, LenProperties
    <2> QED
        BY <1>1, <2>1 DEF Apart
<1> QED
    BY <1>4, <1>5, <1>6 DEF BlocksTile

\* v: where the heap ends, f: its free list, l: its blocks, pr: the processes, each of which
\* has a block of its own, and c: the call that grows the heap.
HeapKept(v, f, l, pr, c) ==
    /\ Tiling(v, f, l) /\ \E n \in Nat \ {0} : v = n * PS_4K
    /\ \A p \in Procs : pr[p].stage # "none" =>
          \E b \in l : b.addr = pr[p].block /\ PROC_SIZE <= b.size
    /\ \A p, q \in Procs : p # q /\ pr[p].stage # "none" /\ pr[q].stage # "none" =>
          pr[p].block # pr[q].block
    /\ c.want # NULL => PROC_SIZE <= c.bytes

HeapInv == HeapKept(kernel_heap_vaddr, free, live, proc, call)

LEMMA RoundedUp == \A n \in Nat : RoundUp(n) \in Nat /\ n <= RoundUp(n)
<1> TAKE n \in Nat
<1>1. PICK N \in Nat \ {0} : N = MIN_NODE
    BY Sizes1
<1>2. PICK x \in Nat : x = n + N - 1
    OBVIOUS
<1>3. x % N <= N - 1 /\ x % N \in Nat
    OBVIOUS
<1>4. n + MIN_NODE - 1 = x /\ x % MIN_NODE = x % N
    BY <1>1, <1>2
<1>5. RoundUp(n) = n + (MIN_NODE - 1 - (x % MIN_NODE))
    BY <1>4, Zenon DEF RoundUp
<1>6. PICK r \in Nat : r = x % N /\ r <= N - 1
    BY <1>3
<1>7. RoundUp(n) = n + (N - 1 - r)
    BY <1>1, <1>4, <1>5, <1>6
<1> QED
    BY <1>6, <1>7

LEMMA NodesAreBlocks == \A v \in Nat : Node(v) \subseteq Blk
BY DEF Node, Blk

\* A call returns a block of the size asked.
LEMMA ReturnTiles ==
    ASSUME ProcOK(proc), HeapInv, NEW v, NEW n \in Nat, NEW w \in Users, NEW b \in Blk,
           Tiling(v, free', live \cup {b}), v = kernel_heap_vaddr', \E k \in Nat \ {0} : v = k * PS_4K,
           n <= b.size, w # NULL => PROC_SIZE <= n, \A c \in live : c.addr # b.addr,
           Return(b, w)
    PROVE  HeapInv'
<1>1. /\ live' = live \cup {b} /\ call' = NoCall /\ proc \in [Procs -> Process]
      /\ proc' = IF w = NULL THEN proc
                 ELSE [proc EXCEPT ![w] = [@ EXCEPT !.stage = "ptable", !.block = b.addr]]
    BY DEF Return, ProcOK
<1>2. /\ \A p \in Procs : proc[p].stage # "none" =>
            \E c \in live : c.addr = proc[p].block /\ PROC_SIZE <= c.size
      /\ \A p, q \in Procs : p # q /\ proc[p].stage # "none" /\ proc[q].stage # "none" =>
            proc[p].block # proc[q].block
    BY DEF HeapInv, HeapKept
<1>3. call'.want = NULL
    BY <1>1 DEF NoCall
<1>4. /\ \A p \in Procs : proc'[p].stage # "none" =>
            \E c \in live' : c.addr = proc'[p].block /\ PROC_SIZE <= c.size
      /\ \A p, q \in Procs : p # q /\ proc'[p].stage # "none" /\ proc'[q].stage # "none" =>
            proc'[p].block # proc'[q].block
    <2>1. CASE w = NULL
        BY <1>1, <1>2, <2>1
    <2>2. CASE w # NULL
        <3> DEFINE new == [proc[w] EXCEPT !.stage = "ptable", !.block = b.addr]
        <3>1. w \in Procs /\ proc' = [proc EXCEPT ![w] = new]
            BY <1>1, <2>2 DEF Users
        <3>2. new.block = b.addr
            BY <1>1, <3>1 DEF Process
        <3> HIDE DEF new
        <3>3. \A p \in Procs : proc'[p] = IF p = w THEN new ELSE proc[p]
            BY <1>1, <3>1
        <3>4. b \in live' /\ PROC_SIZE <= b.size
            BY <1>1, <2>2, Sizes1 DEF Blk
        <3> QED
            BY <1>1, <1>2, <3>2, <3>3, <3>4
    <2> QED
        BY <2>1, <2>2
<1> QED
    BY <1>1, <1>3, <1>4 DEF HeapInv, HeapKept

LEMMA BeginTiles ==
    ASSUME IInv, HeapInv, NEW h \in Harts, NEW n \in Nat, NEW w \in Users, Begin(h, n, w),
           w # NULL => PROC_SIZE <= n
    PROVE  HeapInv'
<1> DEFINE v == kernel_heap_vaddr
           fits == {k \in DOMAIN free : free[k].size >= n}
           taken == Take(free, Min(fits), n)
<1>1. /\ kernel_heap_vaddr' = v /\ ProcOK(proc) /\ Tiling(v, free, live)
      /\ \E k \in Nat \ {0} : v = k * PS_4K
    BY DEF IInv, Begin, HeapInv, HeapKept
<1>2. /\ free \in Seq(Blk) /\ Apart(free) /\ IsFiniteSet(live) /\ Range(free) \cap live = {}
      /\ Tiles(v, Range(free) \cup live)
    BY <1>1 DEF Tiling
<1>3. CASE fits # {}
    <2>1. free' = taken.free /\ Return(taken.block, w)
        BY <1>3 DEF Begin
    <2> DEFINE k == Min(fits)
    <2>2. k \in 1 .. Len(free) /\ n <= free[k].size
        <3>1. fits \in SUBSET Nat /\ fits \subseteq DOMAIN free /\ DOMAIN free = 1 .. Len(free)
            BY <1>2, LenProperties
        <3> HIDE DEF fits
        <3>2. k \in fits
            BY <1>3, <3>1, MinOfNaturals
        <3>3. k \in DOMAIN free /\ free[k].size >= n
            BY <3>2 DEF fits
        <3>4. free[k].size \in Nat
            BY <1>2, <3>1, <3>3, RangeIs, EndType
        <3> QED
            BY <3>1, <3>3, <3>4
    <2> HIDE DEF k, fits
    <2>3. \A i, j \in 1 .. Len(free) :
             i < j => End(free[i]) <= free[j].addr /\ (j # k => End(free[i]) < free[j].addr)
        <3> SUFFICES ASSUME NEW i \in 1 .. Len(free), NEW j \in 1 .. Len(free), i < j
                     PROVE  End(free[i]) <= free[j].addr /\ End(free[i]) < free[j].addr
            OBVIOUS
        <3>1. End(free[i]) < free[j].addr /\ End(free[i]) \in Nat /\ free[j].addr \in Nat
            BY <1>2, RangeIs, EndType DEF Apart
        <3> QED
            BY <3>1
    <2>4. taken = Take(free, k, n)
        BY DEF k
    <2> HIDE DEF taken
    <2>5. Tiling(v, taken.free, live \cup {taken.block})
        BY <1>2, <2>2, <2>3, <2>4, TakeTiles
    <2>6. taken.block \in Blk /\ n <= taken.block.size
        BY <1>2, <2>2, <2>3, <2>4, TakeTiles
    <2>7. \A b \in live : b.addr # taken.block.addr
        BY <1>2, <2>2, <2>3, <2>4, TakeTiles
    <2> QED
        BY <1>1, <2>1, <2>5, <2>6, <2>7, ReturnTiles
<1>4. CASE fits = {}
    <2>1. /\ call' = [NoCall EXCEPT !.hart = h, !.at = "pages", !.bytes = n, !.want = w]
          /\ free' = free /\ live' = live /\ proc' = proc
        BY <1>4 DEF Begin
    <2>2. call'.want = w /\ call'.bytes = n
        BY <2>1 DEF NoCall
    <2> QED
        BY <1>1, <2>1, <2>2 DEF HeapInv, HeapKept
<1> QED
    BY <1>3, <1>4

LEMMA MultipleSum ==
    ASSUME NEW N \in Nat, NEW a \in Nat, NEW b \in Nat
    PROVE  a * N + b * N = (a + b) * N
OBVIOUS

LEMMA GrowInsertTiles ==
    ASSUME IInv, HeapInv, GrowInsert
    PROVE  HeapInv'
<1> DEFINE size == HeapBytes(call.bytes)
           v == kernel_heap_vaddr
           node == [addr |-> v, size |-> size - HEADER]
           list == Append(free, node)
           k == Len(free) + 1
           taken == Take(list, k, call.bytes)
           B == Range(free) \cup live
<1>1. /\ kernel_heap_vaddr' = v + size /\ free' = taken.free /\ Return(taken.block, call.want)
      /\ ProcOK(proc) /\ Tiling(v, free, live) /\ call.bytes \in Nat /\ call.want \in Users
      /\ (call.want # NULL => PROC_SIZE <= call.bytes)
    BY DEF IInv, HeapOK, GrowInsert, HeapInv, HeapKept, Call
<1>2. PICK a \in Nat \ {0} : v = a * PS_4K
    BY DEF HeapInv, HeapKept
<1>3. size \in Nat /\ HEADER + call.bytes <= size /\ \E b \in Nat : size = b * PS_4K
    BY <1>1, PagesForType DEF HeapBytes
<1>4. /\ free \in Seq(Blk) /\ Apart(free) /\ IsFiniteSet(live) /\ Range(free) \cap live = {}
      /\ Tiles(v, B) /\ B \subseteq Blk /\ v \in Nat /\ \A b \in B : End(b) <= v
    BY <1>1 DEF Tiling, Tiles
<1>5. HEADER <= v
    <2>1. v = HEADER \/ \E c \in B : End(c) = v /\ HEADER <= c.addr
        BY <1>4 DEF Tiles
    <2>2. \A c \in B : End(c) = v /\ HEADER <= c.addr => HEADER <= v
        BY <1>4, EndType
    <2> QED
        BY <1>4, <2>1, <2>2
<1> HIDE DEF size
<1>6. /\ node \in Blk /\ node.addr = v /\ node.size = size - HEADER /\ End(node) = v + size
      /\ call.bytes <= node.size
    <2>1. PICK s \in Nat : s = size - HEADER /\ call.bytes <= s
        BY <1>1, <1>3, Sizes1
    <2>2. node = [addr |-> v, size |-> s]
        BY <2>1
    <2> HIDE DEF node
    <2>3. node \in Blk /\ node.addr = v /\ node.size = s
        BY <1>4, <2>2 DEF Blk
    <2>4. End(node) = v + HEADER + s
        BY <2>3 DEF End
    <2> QED
        BY <1>3, <1>4, <2>1, <2>3, <2>4, Sizes1
<1> HIDE DEF node
<1>7. Tiles(v + size, B \cup {node}) /\ node \notin B
    <2> HIDE DEF B, v
    <2>1. Tiles(End(node), B \cup {node}) /\ node \notin B
        BY <1>4, <1>5, <1>6, TilesGrow
    <2> QED
        BY <1>6, <2>1
<1>8. /\ list \in Seq(Blk) /\ Len(list) = k /\ list[k] = node /\ Len(free) \in Nat
      /\ \A i \in 1 .. Len(free) : list[i] = free[i] /\ free[i] \in Blk /\ free[i] \in B
    BY <1>4, <1>6, AppendProperties, RangeIs
<1> HIDE DEF list
<1>9. Range(list) = Range(free) \cup {node}
    <2>1. /\ Range(list) = {list[i] : i \in 1 .. k} /\ Range(free) = {free[i] : i \in 1 .. Len(free)}
        BY <1>4, <1>8, RangeIs
    <2>2. \A i \in 1 .. k : i \in 1 .. Len(free) \/ i = k
        BY <1>8
    <2>3. \A i \in 1 .. Len(free) : i \in 1 .. k
        BY <1>8
    <2>4. k \in 1 .. k
        BY <1>8
    <2> HIDE DEF k
    <2>5. ASSUME NEW x \in Range(list) PROVE x \in Range(free) \cup {node}
        BY <1>8, <2>1, <2>2
    <2>6. ASSUME NEW x \in Range(free) PROVE x \in Range(list)
        <3>1. PICK i \in 1 .. Len(free) : x = free[i]
            BY <2>1
        <3>2. i \in 1 .. k /\ list[i] = x
            BY <1>8, <2>3, <3>1
        <3> QED
            BY <2>1, <3>2
    <2>7. node \in Range(list)
        BY <1>8, <2>1, <2>4
    <2> QED
        BY <2>5, <2>6, <2>7
<1>10. Tiles(v + size, Range(list) \cup live) /\ Range(list) \cap live = {}
    <2>1. Range(list) \cup live = B \cup {node}
        BY <1>9
    <2> QED
        BY <1>4, <1>7, <1>9, <2>1
<1>11. \A i, j \in 1 .. Len(list) :
          i < j => End(list[i]) <= list[j].addr /\ (j # k => End(list[i]) < list[j].addr)
    <2> SUFFICES ASSUME NEW i \in 1 .. Len(list), NEW j \in 1 .. Len(list), i < j
                 PROVE  End(list[i]) <= list[j].addr /\ (j # k => End(list[i]) < list[j].addr)
        OBVIOUS
    <2>1. i \in 1 .. Len(free) /\ list[i] = free[i] /\ (j # k => j \in 1 .. Len(free))
        BY <1>8
    <2>2. CASE j = k
        <3>1. End(free[i]) <= v /\ list[j].addr = v
            BY <1>4, <1>6, <1>8, <2>1, <2>2
        <3> QED
            BY <2>1, <2>2, <3>1
    <2>3. CASE j # k
        <3>1. End(free[i]) < free[j].addr /\ End(free[i]) \in Nat /\ free[j].addr \in Nat
              /\ list[j] = free[j]
            BY <1>4, <1>8, <2>1, <2>3, EndType DEF Apart
        <3> QED
            BY <2>1, <3>1
    <2> QED
        BY <2>2, <2>3
<1>12. k \in 1 .. Len(list) /\ call.bytes <= list[k].size
    BY <1>6, <1>8
<1> HIDE DEF k, v, B
<1> DEFINE w == v + size
<1> HIDE DEF w
<1>13. Tiles(w, Range(list) \cup live) /\ w = kernel_heap_vaddr'
    BY <1>1, <1>10 DEF w, v
<1> DEFINE n == call.bytes
<1>14. n \in Nat /\ n <= list[k].size /\ taken = Take(list, k, n)
    BY <1>1, <1>12
<1> HIDE DEF taken, n
<1> DEFINE t == Take(list, k, n)
<1>15. /\ Tiling(w, t.free, live \cup {t.block}) /\ t.block \in Blk /\ n <= t.block.size
       /\ \A b \in live : b.addr # t.block.addr
    <2>1. /\ list \in Seq(Blk) /\ IsFiniteSet(live) /\ Range(list) \cap live = {}
          /\ Tiles(w, Range(list) \cup live) /\ k \in 1 .. Len(list) /\ n \in Nat /\ n <= list[k].size
          /\ t = Take(list, k, n)
        BY <1>4, <1>8, <1>10, <1>12, <1>13, <1>14
    <2> HIDE DEF t
    <2>2. Tiling(w, t.free, live \cup {t.block})
        BY <1>11, <2>1, TakeTiles
    <2>3. t.block \in Blk /\ n <= t.block.size
        BY <1>11, <2>1, TakeTiles
    <2>4. ASSUME NEW b \in live PROVE b.addr # t.block.addr
        BY <1>11, <2>1, TakeApart
    <2> QED
        BY <2>2, <2>3, <2>4
<1>16. taken.block \in Blk /\ n <= taken.block.size /\ Tiling(w, taken.free, live \cup {taken.block})
    BY <1>14, <1>15
<1>17. \A b \in live : b.addr # taken.block.addr
    BY <1>14, <1>15
<1>18. \E b \in Nat \ {0} : w = b * PS_4K
    <2>1. PICK b \in Nat : size = b * PS_4K
        BY <1>3
    <2>2. w = (a + b) * PS_4K
        BY <1>2, <2>1, MultipleSum, Sizes1 DEF w
    <2> QED
        BY <2>2
<1>19. Tiling(w, free', live \cup {taken.block})
    BY <1>1, <1>16 DEF taken, n, v
<1>20. Return(taken.block, call.want) /\ call.want \in Users /\ (call.want # NULL => PROC_SIZE <= n)
    BY <1>1 DEF taken, n, v
<1> QED
    BY <1>1, <1>13, <1>14, <1>16, <1>17, <1>18, <1>19, <1>20, ReturnTiles

\* The heap stays as it is and the processes keep their blocks.
LEMMA HeapStays ==
    ASSUME HeapInv, heap_vars' = heap_vars,
           call'.want = NULL \/ (call'.want = call.want /\ call'.bytes = call.bytes),
           \A p \in Procs : proc'[p].stage # "none" =>
              proc[p].stage # "none" /\ proc'[p].block = proc[p].block
    PROVE  HeapInv'
BY DEF HeapInv, HeapKept, heap_vars

\* kmalloc_init: the first page is a node that is never handed out and a free one.
LEMMA InitTiles == Init => HeapInv
<1> SUFFICES ASSUME Init PROVE HeapInv
    OBVIOUS
<1> DEFINE dummy == [addr |-> 0, size |-> PS_4K - HEADER]
<1>1. /\ kernel_heap_vaddr = PS_4K /\ free = Tail(split_node(dummy, 0)) /\ live = {}
      /\ call = NoCall /\ proc = [p \in Procs |-> NoProcess]
    BY DEF Init
<1>2. PICK P, H, M \in Nat \ {0} : P = PS_4K /\ H = HEADER /\ M = MIN_NODE /\ 2 * H + M <= P
    BY Sizes1, MemoryAssumption
<1>3. PICK d, s \in Nat : d = P - H /\ s = P - H - H
    BY <1>2
<1> DEFINE c == [addr |-> H, size |-> s]
<1>4. free = <<c>>
    <2>1. dummy = [addr |-> 0, size |-> d]
        BY <1>2, <1>3
    <2>2. ~ (d <= 0 + H + M - 1) /\ 0 + H + 0 = H /\ d - 0 - H = s
        BY <1>2, <1>3
    <2>3. dummy.addr = 0 /\ dummy.size = d
        BY <2>1
    <2> HIDE DEF dummy
    <2>4. split_node(dummy, 0) = <<[dummy EXCEPT !.size = 0],
                                   [addr |-> 0 + H + 0, size |-> d - 0 - H]>>
        BY <1>2, <2>2, <2>3 DEF split_node
    <2> DEFINE e == [dummy EXCEPT !.size = 0]
    <2>5. split_node(dummy, 0) = <<e, c>>
        BY <2>2, <2>4
    <2> HIDE DEF e, c
    <2>6. free = Tail(<<e, c>>)
        BY <1>1, <2>5
    <2> QED
        BY <2>6
<1>5. c \in Blk /\ c.addr = HEADER /\ End(c) = PS_4K
    <2>1. c \in Blk /\ c.addr = H /\ c.size = s
        BY <1>2, <1>3 DEF Blk
    <2> HIDE DEF c
    <2>2. End(c) = H + H + s
        BY <1>2, <2>1 DEF End
    <2> QED
        BY <1>2, <1>3, <2>1, <2>2
<1> HIDE DEF c
<1>6. free \in Seq(Blk) /\ Len(free) = 1 /\ Range(free) = {c} /\ Apart(free)
    <2>1. free \in Seq(Blk) /\ Len(free) = 1 /\ free[1] = c
        BY <1>4, <1>5
    <2>2. Range(free) = {free[i] : i \in 1 .. 1}
        BY <2>1, RangeIs
    <2>3. Range(free) = {c}
        BY <2>1, <2>2
    <2> QED
        BY <2>1, <2>3 DEF Apart
<1>7. Tiles(PS_4K, {c})
    BY <1>2, <1>5 DEF Tiles
<1>8. Tiling(kernel_heap_vaddr, free, live)
    <2>1. Range(free) \cup live = {c} /\ Range(free) \cap live = {} /\ IsFiniteSet(live)
        BY <1>1, <1>6, FS_EmptySet
    <2> QED
        BY <1>1, <1>6, <1>7, <2>1 DEF Tiling
<1>9. kernel_heap_vaddr = 1 * PS_4K
    BY <1>1, <1>2
<1>10. (\A p \in Procs : proc[p].stage = "none") /\ call.want = NULL
    BY <1>1 DEF NoProcess, NoCall
<1> QED
    BY <1>8, <1>9, <1>10 DEF HeapInv, HeapKept

LEMMA NextHeap == IInv /\ HeapInv /\ [Next]_vars => HeapInv'
<1> SUFFICES ASSUME IInv, HeapInv, [Next]_vars PROVE HeapInv'
    OBVIOUS
<1>a. proc \in [Procs -> Process] /\ call \in Call
    BY DEF IInv, ProcOK, HeapOK
<1>1. CASE UNCHANGED vars
    BY <1>1 DEF HeapInv, vars, heap_vars
<1>2. CASE GrowPages
    <2>1. heap_vars' = heap_vars /\ proc' = proc
        BY <1>2 DEF GrowPages
    <2>2. \/ call' = NoCall
          \/ \E p : call' = [call EXCEPT !.at = "zero", !.pages = p]
        BY <1>2 DEF GrowPages
    <2>3. call'.want = NULL \/ (call'.want = call.want /\ call'.bytes = call.bytes)
        <3>1. CASE call' = NoCall
            BY <3>1 DEF NoCall
        <3>2. ASSUME NEW p, call' = [call EXCEPT !.at = "zero", !.pages = p]
              PROVE  call'.want = call.want /\ call'.bytes = call.bytes
            BY <1>a, <3>2 DEF Call
        <3> QED
            BY <2>2, <3>1, <3>2
    <2> QED
        BY <2>1, <2>3, HeapStays
<1>3. CASE GrowZero
    <2>1. heap_vars' = heap_vars /\ proc' = proc /\ call' = [call EXCEPT !.at = "map"]
        BY <1>3 DEF GrowZero
    <2>2. call'.want = call.want /\ call'.bytes = call.bytes
        BY <1>a, <2>1 DEF Call
    <2> QED
        BY <2>1, <2>2, HeapStays
<1>4. CASE GrowMap
    <2>1. heap_vars' = heap_vars /\ proc' = proc
          /\ \E k, at : call' = [call EXCEPT !.mapped = k, !.at = at]
        BY <1>4 DEF GrowMap
    <2>2. call'.want = call.want /\ call'.bytes = call.bytes
        BY <1>a, <2>1 DEF Call
    <2> QED
        BY <2>1, <2>2, HeapStays
<1>5. CASE GrowInsert
    BY <1>5, GrowInsertTiles
<1>6. ASSUME NEW block \in live, kfree(block),
             \A p \in Procs : proc'[p].stage # "none" =>
                /\ proc[p].stage # "none" /\ proc'[p].block = proc[p].block
                /\ proc[p].block # block.addr
      PROVE  HeapInv'
    <2>1. /\ free' = Freed(block) /\ live' = live \ {block} /\ call' = call
          /\ kernel_heap_vaddr' = kernel_heap_vaddr
        BY <1>6 DEF kfree
    <2>2. Tiling(kernel_heap_vaddr, Freed(block), live \ {block})
        BY FreedTiles DEF HeapInv, HeapKept
    <2>3. ASSUME NEW p \in Procs, proc'[p].stage # "none"
          PROVE  \E b \in live' : b.addr = proc'[p].block /\ PROC_SIZE <= b.size
        <3>1. PICK b \in live : b.addr = proc[p].block /\ PROC_SIZE <= b.size
            BY <1>6, <2>3 DEF HeapInv, HeapKept
        <3>2. b \in live'
            BY <1>6, <2>1, <2>3, <3>1
        <3> QED
            BY <1>6, <2>3, <3>1, <3>2
    <2> QED
        BY <1>6, <2>1, <2>2, <2>3 DEF HeapInv, HeapKept
<1>7. CASE FreeHeld
    <2>1. PICK block \in Held : kfree(block) /\ proc' = proc
        BY <1>7 DEF FreeHeld
    <2>2. block \in live /\ \A p \in Procs : proc[p].block # block.addr
        BY DEF Held
    <2> QED
        BY <1>6, <2>1, <2>2
<1>8. ASSUME NEW h \in Harts, NEW p \in Procs, FreeProcess(h, p) PROVE HeapInv'
    <2>1. PICK b \in live : b.addr = proc[p].block /\ kfree(b)
        BY <1>8 DEF FreeProcess
    <2>2. /\ proc' = [proc EXCEPT ![p] = NoProcess] /\ proc[p].stage = "exit_block"
        BY <1>8 DEF FreeProcess
    <2>3. \A q \in Procs : proc'[q] = IF q = p THEN NoProcess ELSE proc[q]
        BY <1>a, <2>2
    <2>4. \A q \in Procs : proc'[q].stage # "none" => q # p /\ proc'[q] = proc[q]
        BY <2>3 DEF NoProcess
    <2>5. \A q \in Procs : q # p /\ proc[q].stage # "none" => proc[q].block # b.addr
        BY <2>1, <2>2 DEF HeapInv, HeapKept
    <2> QED
        BY <1>6, <2>1, <2>4, <2>5
<1>9. ASSUME NEW h \in Harts, kmalloc(h) PROVE HeapInv'
    <2>1. PICK n \in Sizes : Begin(h, RoundUp(n), NULL)
        BY <1>9 DEF kmalloc
    <2>2. RoundUp(n) \in Nat /\ NULL \in Users
        BY Sizes1, RoundUpType DEF Users
    <2> QED
        BY <2>1, <2>2, BeginTiles
<1>10. ASSUME NEW p \in Procs, process_new(p) PROVE HeapInv'
    <2>1. Begin(0, RoundUp(PROC_SIZE), p)
        BY <1>10 DEF process_new
    <2>2. RoundUp(PROC_SIZE) \in Nat /\ PROC_SIZE <= RoundUp(PROC_SIZE) /\ p \in Users /\ 0 \in Harts
        BY MemoryAssumption, Sizes1, RoundedUp DEF Users
    <2> QED
        BY <2>1, <2>2, BeginTiles
<1>11. ASSUME NEW p \in Procs, proc[p].stage # "none", NEW new, Advance(p, new),
              new.block = proc[p].block
       PROVE  \A q \in Procs : proc'[q].stage # "none" =>
                 proc[q].stage # "none" /\ proc'[q].block = proc[q].block
    <2>1. \A q \in Procs : proc'[q] = IF q = p THEN new ELSE proc[q]
        BY <1>a, <1>11 DEF Advance
    <2> QED
        BY <1>11, <2>1
<1>12. ASSUME NEW h \in Harts, NEW p \in Procs, FreePages(h, p) \/ FreeTables(h, p) PROVE HeapInv'
    <2>1. heap_vars' = heap_vars /\ call' = call /\ proc[p].stage # "none"
        BY <1>12 DEF FreePages, FreeTables
    <2>2. \/ Advance(p, [proc[p] EXCEPT !.stage = "exit_table", !.trap_stack = NULL, !.stack = NULL])
          \/ Advance(p, [proc[p] EXCEPT !.stage = "exit_block", !.ptable = NULL])
        BY <1>12 DEF FreePages, FreeTables
    <2>3. \E new : Advance(p, new) /\ new.block = proc[p].block
        <3>1. \A x \in Process :
                 /\ [x EXCEPT !.stage = "exit_table", !.trap_stack = NULL, !.stack = NULL].block = x.block
                 /\ [x EXCEPT !.stage = "exit_block", !.ptable = NULL].block = x.block
            BY DEF Process
        <3>2. proc[p] \in Process
            BY <1>a
        <3> QED
            BY <2>2, <3>1, <3>2
    <2>4. \A q \in Procs : proc'[q].stage # "none" =>
             proc[q].stage # "none" /\ proc'[q].block = proc[q].block
        BY <1>11, <2>1, <2>3
    <2> QED
        BY <2>1, <2>4, HeapStays
<1>13. ASSUME NEW p \in Procs,
              NewTable(p) \/ MapFrame(p) \/ AllocStack(p) \/ MapStack(p) \/ AllocTrapStack(p)
       PROVE  HeapInv'
    <2>1. heap_vars' = heap_vars /\ call' = call /\ proc[p].stage # "none"
        BY <1>13 DEF NewTable, MapFrame, AllocStack, MapStack, AllocTrapStack
    <2>2. \/ proc' = proc
          \/ \E t : Advance(p, [proc[p] EXCEPT !.stage = "frame", !.ptable = t])
          \/ Advance(p, [proc[p] EXCEPT !.stage = "stack"])
          \/ \E s : Advance(p, [proc[p] EXCEPT !.stage = "map_stack", !.stack = s])
          \/ Advance(p, [proc[p] EXCEPT !.stage = "trap_stack"])
          \/ \E s : Advance(p, [proc[p] EXCEPT !.stage = "ready", !.trap_stack = s])
        BY <1>13 DEF NewTable, MapFrame, AllocStack, MapStack, AllocTrapStack, ZallocInto
    <2>3. proc' = proc \/ \E new : Advance(p, new) /\ new.block = proc[p].block
        <3>1. \A x \in Process : \A t :
                 /\ [x EXCEPT !.stage = "frame", !.ptable = t].block = x.block
                 /\ [x EXCEPT !.stage = "stack"].block = x.block
                 /\ [x EXCEPT !.stage = "map_stack", !.stack = t].block = x.block
                 /\ [x EXCEPT !.stage = "trap_stack"].block = x.block
                 /\ [x EXCEPT !.stage = "ready", !.trap_stack = t].block = x.block
            BY DEF Process
        <3>2. proc[p] \in Process
            BY <1>a
        <3>3. CASE \E t : Advance(p, [proc[p] EXCEPT !.stage = "frame", !.ptable = t])
            BY <3>1, <3>2, <3>3
        <3>4. CASE Advance(p, [proc[p] EXCEPT !.stage = "stack"])
            BY <3>1, <3>2, <3>4
        <3>5. CASE \E s : Advance(p, [proc[p] EXCEPT !.stage = "map_stack", !.stack = s])
            BY <3>1, <3>2, <3>5
        <3>6. CASE Advance(p, [proc[p] EXCEPT !.stage = "trap_stack"])
            BY <3>1, <3>2, <3>6
        <3>7. CASE \E s : Advance(p, [proc[p] EXCEPT !.stage = "ready", !.trap_stack = s])
            BY <3>1, <3>2, <3>7
        <3> QED
            BY <2>2, <3>3, <3>4, <3>5, <3>6, <3>7
    <2>4. \A q \in Procs : proc'[q].stage # "none" =>
             proc[q].stage # "none" /\ proc'[q].block = proc[q].block
        BY <1>11, <2>1, <2>3
    <2> QED
        BY <2>1, <2>4, HeapStays
<1> QED
    BY <1>1, <1>2, <1>3, <1>4, <1>5, <1>7, <1>8, <1>9, <1>10, <1>12, <1>13 DEF Next

\* The heap is tiled by its free and its held blocks, and no two free blocks are neighbours:
\* whatever sequence of kmalloc, kfree, process_new and process_free the harts go through, no
\* byte of the heap is lost and none is in two blocks.
THEOREM BlocksTileAlways == Spec => []BlocksTile
<1>1. HeapInv => BlocksTile
    BY TilingTiles DEF HeapInv, HeapKept
<1> QED
    BY <1>1, InitIInv, NextIInv, InitTiles, NextHeap, PTL DEF Spec

-----------------------------------------------------------------------------
(* The digits of an address. *)

LEMMA DivIs ==
    ASSUME NEW N \in Nat \ {0}, NEW x \in Nat
    PROVE  /\ x \div N \in Nat /\ x % N \in Nat /\ x % N < N
           /\ x = N * (x \div N) + (x % N)
OBVIOUS

LEMMA Distribute ==
    ASSUME NEW a \in Int, NEW b \in Int, NEW c \in Int
    PROVE  a * (b + c) = a * b + a * c /\ a * (b - c) = a * b - a * c
OBVIOUS

LEMMA ProductGrows ==
    ASSUME NEW N \in Nat, NEW a \in Nat, NEW b \in Nat, a <= b
    PROVE  N * a <= N * b /\ N * a \in Nat /\ N * b \in Nat
<1>1. PICK d \in Nat : b = a + d
    <2>1. b - a \in Nat /\ b = a + (b - a)
        OBVIOUS
    <2> QED
        BY <2>1
<1>2. N * b = N * a + N * d
    BY <1>1, Distribute
<1>3. N * a \in Nat /\ N * d \in Nat
    OBVIOUS
<1> QED
    BY <1>2, <1>3

LEMMA DivUnique ==
    ASSUME NEW N \in Nat \ {0}, NEW a \in Nat, NEW c \in Nat, c < N
    PROVE  (N * a + c) \div N = a /\ (N * a + c) % N = c
<1> DEFINE x == N * a + c
<1>1. N * a \in Nat /\ x \in Nat
    OBVIOUS
<1>2. PICK q, r \in Nat : q = x \div N /\ r = x % N /\ r < N /\ x = N * q + r
    BY <1>1, DivIs
<1> DEFINE p == N * a
           s == N * q
<1>3. p \in Nat /\ s \in Nat /\ p + c = s + r
    BY <1>2
<1>4. ~ (a < q)
    <2> SUFFICES ASSUME a + 1 <= q PROVE FALSE
        BY <1>2
    <2>1. N * (a + 1) <= N * q /\ N * (a + 1) = N * a + N * 1 /\ N * 1 = N
        BY <1>2, ProductGrows, Distribute
    <2> HIDE DEF p, s
    <2>2. p + N <= s
        BY <2>1 DEF p, s
    <2> QED
        BY <1>2, <1>3, <2>2
<1>5. ~ (q < a)
    <2> SUFFICES ASSUME q + 1 <= a PROVE FALSE
        BY <1>2
    <2>1. N * (q + 1) <= N * a /\ N * (q + 1) = N * q + N * 1 /\ N * 1 = N
        BY <1>2, ProductGrows, Distribute
    <2>2. s + N <= p
        BY <2>1
    <2> HIDE DEF p, s
    <2> QED
        BY <1>2, <1>3, <2>2
<1>6. q = a
    BY <1>2, <1>4, <1>5
<1> HIDE DEF p, s
<1>7. r = c
    BY <1>2, <1>3, <1>6 DEF p, s
<1> QED
    BY <1>2, <1>6, <1>7

LEMMA DivTwice ==
    ASSUME NEW S \in Nat \ {0}, NEW E \in Nat \ {0}, NEW x \in Nat
    PROVE  E * S \in Nat \ {0} /\ x \div (E * S) = (x \div S) \div E
<1>1. PICK q, r \in Nat : q = x \div S /\ r < S /\ x = S * q + r
    BY DivIs
<1>2. PICK a, b \in Nat : a = q \div E /\ b < E /\ q = E * a + b
    BY DivIs
<1>3. S * b + S <= S * E
    <2>1. S * (b + 1) <= S * E /\ S * (b + 1) = S * b + S * 1 /\ S * 1 = S
        BY <1>2, ProductGrows, Distribute
    <2> QED
        BY <2>1
<1>4. PICK u, M \in Nat : u = S * b /\ M = E * S /\ M = S * E
    <2>1. S * b \in Nat /\ E * S \in Nat /\ E * S = S * E
        OBVIOUS
    <2> QED
        BY <2>1
<1>5. u + r < M /\ M # 0 /\ u + r \in Nat
    BY <1>1, <1>3, <1>4
<1>6. x = M * a + (u + r)
    <2>1. S * q = S * (E * a) + S * b
        BY <1>2, Distribute
    <2>2. S * (E * a) = (S * E) * a
        OBVIOUS
    <2>3. PICK y \in Nat : y = M * a
        BY <1>4
    <2>4. S * q = y + u
        BY <1>4, <2>1, <2>2, <2>3
    <2> QED
        BY <1>1, <1>4, <2>3, <2>4
<1>7. x \div M = a
    BY <1>5, <1>6, DivUnique
<1> QED
    BY <1>1, <1>2, <1>4, <1>5, <1>7

SpanTurn(f, i) == IF i = 0 THEN PS_4K ELSE ENTRIES * f[i - 1]

LEMMA SpansExist == \A N \in Nat : \E f : f = [i \in 0 .. N |-> SpanTurn(f, i)]
<1> DEFINE S == {n \in Nat : \E f : f = [j \in 0 .. n |-> SpanTurn(f, j)]}
<1>1. 0 \in S
    <2> DEFINE g == [j \in 0 .. 0 |-> PS_4K]
    <2>1. g = [j \in 0 .. 0 |-> SpanTurn(g, j)]
        BY DEF SpanTurn
    <2> HIDE DEF g
    <2> QED
        BY <2>1
<1>2. ASSUME NEW n \in Nat, n \in S PROVE n + 1 \in S
    <2>1. PICK f : f = [j \in 0 .. n |-> SpanTurn(f, j)]
        BY <1>2
    <2> DEFINE last == ENTRIES * f[n]
               g == [j \in 0 .. n + 1 |-> IF j = n + 1 THEN last ELSE f[j]]
    <2>2. ASSUME NEW j \in 0 .. n + 1
          PROVE  (IF j = n + 1 THEN last ELSE f[j]) = SpanTurn(g, j)
        <3>1. CASE j = n + 1
            <4>1. g[j - 1] = f[n] /\ j # 0
                BY <3>1
            <4> HIDE DEF g
            <4> QED
                BY <3>1, <4>1 DEF SpanTurn
        <3>2. CASE j # n + 1
            <4>1. j \in 0 .. n /\ (j # 0 => g[j - 1] = f[j - 1])
                BY <3>2
            <4>2. f[j] = SpanTurn(f, j)
                BY <2>1, <4>1
            <4> HIDE DEF g, last
            <4> QED
                BY <3>2, <4>1, <4>2 DEF SpanTurn
        <3> QED
            BY <3>1, <3>2
    <2>3. g = [j \in 0 .. n + 1 |-> SpanTurn(g, j)]
        BY <2>2
    <2> HIDE DEF g
    <2> QED
        BY <2>3
<1>3. \A n \in Nat : n \in S
    <2> HIDE DEF S
    <2> QED
        BY <1>1, <1>2, InductionOverNat
<1> QED
    BY <1>3

LEMMA SpanIs ==
    /\ LEVELS \in Nat \ {0} /\ ENTRIES \in Nat \ {0} /\ Span[0] = PS_4K
    /\ \A i \in 0 .. LEVELS : Span[i] \in Nat \ {0}
    /\ \A i \in 0 .. LEVELS - 1 : Span[i + 1] = ENTRIES * Span[i]
<1>1. LEVELS \in Nat \ {0} /\ ENTRIES \in Nat \ {0} /\ PS_4K \in Nat \ {0}
    BY MmuAssumption
<1>2. Span = [i \in 0 .. LEVELS |-> SpanTurn(Span, i)]
    <2>1. \E f : f = [i \in 0 .. LEVELS |-> SpanTurn(f, i)]
        BY <1>1, SpansExist
    <2> QED
        BY <2>1 DEF Span, SpanTurn
<1>3. Span[0] = PS_4K
    BY <1>1, <1>2 DEF SpanTurn
<1>4. \A i \in 0 .. LEVELS - 1 : Span[i + 1] = ENTRIES * Span[i]
    <2> TAKE i \in 0 .. LEVELS - 1
    <2>1. i + 1 \in 0 .. LEVELS /\ i + 1 # 0 /\ i + 1 - 1 = i
        BY <1>1
    <2>2. Span[i + 1] = SpanTurn(Span, i + 1)
        BY <1>2, <2>1
    <2> QED
        BY <2>1, <2>2 DEF SpanTurn
<1> DEFINE S == {n \in Nat : n <= LEVELS => Span[n] \in Nat \ {0}}
<1>5. 0 \in S
    BY <1>1, <1>3
<1>6. ASSUME NEW n \in Nat, n \in S PROVE n + 1 \in S
    <2> SUFFICES ASSUME n + 1 <= LEVELS PROVE Span[n + 1] \in Nat \ {0}
        OBVIOUS
    <2>1. n \in 0 .. LEVELS - 1 /\ Span[n] \in Nat \ {0}
        BY <1>1, <1>6
    <2>2. Span[n + 1] = ENTRIES * Span[n]
        BY <1>4, <2>1
    <2>3. ENTRIES * Span[n] \in Nat \ {0}
        BY <1>1, <2>1, DivTwice
    <2> QED
        BY <2>2, <2>3
<1>7. \A n \in Nat : n \in S
    <2> HIDE DEF S
    <2> QED
        BY <1>5, <1>6, InductionOverNat
<1>8. \A i \in 0 .. LEVELS : Span[i] \in Nat \ {0}
    BY <1>1, <1>7
<1> QED
    BY <1>1, <1>3, <1>4, <1>8

\* Above the digit of level i an address has the digits of the table's place.
LEMMA Digit ==
    ASSUME NEW va \in Nat, NEW i \in 0 .. LEVELS - 1
    PROVE  /\ va \div Span[i + 1] \in Nat /\ va \div Span[i] \in Nat
           /\ vpn(va, i) \in 0 .. ENTRIES - 1
           /\ (va \div Span[i + 1]) * ENTRIES + vpn(va, i) = va \div Span[i]
<1>1. PICK S, E \in Nat \ {0} : S = Span[i] /\ E = ENTRIES /\ Span[i + 1] = E * S
    <2>1. i \in 0 .. LEVELS
        BY SpanIs
    <2> QED
        BY <2>1, SpanIs
<1>2. PICK q \in Nat : q = va \div S
    BY DivIs
<1>3. va \div Span[i + 1] = q \div E
    BY <1>1, <1>2, DivTwice
<1>4. PICK a, b \in Nat : a = q \div E /\ b = q % E /\ b < E /\ q = E * a + b
    BY DivIs
<1>5. vpn(va, i) = b
    BY <1>1, <1>2, <1>4 DEF vpn
<1>6. a * E = E * a
    OBVIOUS
<1>7. a * ENTRIES + vpn(va, i) = q
    BY <1>1, <1>4, <1>5, <1>6
<1> QED
    BY <1>1, <1>2, <1>3, <1>4, <1>5, <1>7

LEMMA DigitsEnd ==
    ASSUME NEW va \in Nat, va < Span[LEVELS]
    PROVE  va \div Span[LEVELS] = 0
<1>1. PICK S \in Nat \ {0} : S = Span[LEVELS]
    <2>1. LEVELS \in 0 .. LEVELS
        BY SpanIs
    <2> QED
        BY <2>1, SpanIs
<1>2. (S * 0 + va) \div S = 0
    BY <1>1, DivUnique
<1>3. S * 0 + va = va
    OBVIOUS
<1> QED
    BY <1>1, <1>2, <1>3

-----------------------------------------------------------------------------
(* The kernel's table. *)

\* K: the kernel's tables, and lab: the place of each among those of its level.
Placed(m, K, lev, lab) ==
    /\ lab \in [Pages -> Nat] /\ lab[KernelTable] = 0
    /\ \A t \in K : lev[t] # 0 => \A k \in DOMAIN m.tables[t] :
          lab[m.tables[t][k].ppn] = lab[t] * ENTRIES + k

\* w: the tables on the way of va from the root down to level l.
Way(m, K, lev, lab, va, l, w) ==
    /\ w \in [l .. LEVELS - 1 -> K] /\ w[LEVELS - 1] = KernelTable
    /\ \A i \in l .. LEVELS - 1 : lev[w[i]] = i /\ lab[w[i]] = va \div Span[i + 1]
    /\ \A i \in l + 1 .. LEVELS - 1 :
          vpn(va, i) \in DOMAIN m.tables[w[i]] /\ m.tables[w[i]][vpn(va, i)].ppn = w[i - 1]

\* The way of va ends at page p.
Leads(m, K, lev, lab, va, p) ==
    \E w : /\ Way(m, K, lev, lab, va, 0, w)
           /\ vpn(va, 0) \in DOMAIN m.tables[w[0]] /\ m.tables[w[0]][vpn(va, 0)].ppn = p

\* All entries are still there, but perhaps the one that maps the x-th page.
Extends(m, m1, K, lev, lab, x) ==
    \A t \in K : \A k \in DOMAIN m.tables[t] :
       lev[t] # 0 \/ lab[t] * ENTRIES + k # x
          => k \in DOMAIN m1.tables[t] /\ m1.tables[t][k] = m.tables[t][k]

LEMMA WayKept ==
    ASSUME NEW m, NEW m1, NEW K, NEW K1, K \subseteq K1, NEW lev, NEW lev1, NEW lab, NEW lab1,
           \A t \in K : lev1[t] = lev[t] /\ lab1[t] = lab[t],
           NEW x, Extends(m, m1, K, lev, lab, x),
           NEW va, NEW l \in 0 .. LEVELS - 1, NEW w, Way(m, K, lev, lab, va, l, w)
    PROVE  Way(m1, K1, lev1, lab1, va, l, w)
<1>1. LEVELS \in Nat /\ l \in Nat
    BY SpanIs
<1>2. w \in [l .. LEVELS - 1 -> K1] /\ w[LEVELS - 1] = KernelTable
    BY DEF Way
<1>3. \A i \in l .. LEVELS - 1 : lev1[w[i]] = i /\ lab1[w[i]] = va \div Span[i + 1]
    BY DEF Way
<1>4. ASSUME NEW i \in l + 1 .. LEVELS - 1
      PROVE  vpn(va, i) \in DOMAIN m1.tables[w[i]] /\ m1.tables[w[i]][vpn(va, i)].ppn = w[i - 1]
    <2>1. i \in l .. LEVELS - 1 /\ i # 0
        BY <1>1
    <2>2. w[i] \in K /\ lev[w[i]] # 0
        BY <2>1 DEF Way
    <2>3. vpn(va, i) \in DOMAIN m.tables[w[i]] /\ m.tables[w[i]][vpn(va, i)].ppn = w[i - 1]
        BY DEF Way
    <2> QED
        BY <2>2, <2>3 DEF Extends
<1> QED
    BY <1>2, <1>3, <1>4 DEF Way

LEMMA LeadsKept ==
    ASSUME NEW m, NEW m1, NEW K, NEW K1, K \subseteq K1, NEW lev, NEW lev1, NEW lab, NEW lab1,
           \A t \in K : lev1[t] = lev[t] /\ lab1[t] = lab[t],
           NEW x, Extends(m, m1, K, lev, lab, x),
           NEW va \in Nat, va \div PS_4K # x, NEW p, Leads(m, K, lev, lab, va, p)
    PROVE  Leads(m1, K1, lev1, lab1, va, p)
<1>1. 0 \in 0 .. LEVELS - 1 /\ 0 + 1 = 1 /\ Span[0] = PS_4K
    BY SpanIs
<1>2. PICK w : /\ Way(m, K, lev, lab, va, 0, w)
               /\ vpn(va, 0) \in DOMAIN m.tables[w[0]] /\ m.tables[w[0]][vpn(va, 0)].ppn = p
    BY DEF Leads
<1>3. Way(m1, K1, lev1, lab1, va, 0, w)
    BY <1>1, <1>2, WayKept
<1>4. w[0] \in K /\ lab[w[0]] = va \div Span[1]
    BY <1>1, <1>2 DEF Way
<1>5. (va \div Span[1]) * ENTRIES + vpn(va, 0) = va \div PS_4K
    BY <1>1, Digit
<1>6. lab[w[0]] * ENTRIES + vpn(va, 0) # x
    BY <1>4, <1>5
<1>7. vpn(va, 0) \in DOMAIN m1.tables[w[0]] /\ m1.tables[w[0]][vpn(va, 0)].ppn = p
    BY <1>2, <1>4, <1>6 DEF Extends
<1> QED
    BY <1>3, <1>7 DEF Leads

LEMMA WayDown ==
    ASSUME NEW m, NEW K, NEW lev, NEW lab, NEW va \in Nat, NEW i \in 1 .. LEVELS - 1,
           NEW w, Way(m, K, lev, lab, va, i, w), NEW c \in K,
           vpn(va, i) \in DOMAIN m.tables[w[i]], c = m.tables[w[i]][vpn(va, i)].ppn,
           lev[c] = i - 1, lab[c] = lab[w[i]] * ENTRIES + vpn(va, i)
    PROVE  \E f : Way(m, K, lev, lab, va, i - 1, f) /\ f[i - 1] = c
<1> DEFINE f == [j \in i - 1 .. LEVELS - 1 |-> IF j = i - 1 THEN c ELSE w[j]]
<1>1. LEVELS \in Nat /\ i \in Nat /\ i \in 0 .. LEVELS - 1 /\ i - 1 \in Nat /\ i - 1 + 1 = i
    BY SpanIs
<1>2. \A j \in i - 1 .. LEVELS - 1 : j = i - 1 \/ j \in i .. LEVELS - 1
    BY <1>1
<1>3. /\ w \in [i .. LEVELS - 1 -> K] /\ w[LEVELS - 1] = KernelTable
      /\ \A j \in i .. LEVELS - 1 : lev[w[j]] = j /\ lab[w[j]] = va \div Span[j + 1]
      /\ \A j \in i + 1 .. LEVELS - 1 :
            vpn(va, j) \in DOMAIN m.tables[w[j]] /\ m.tables[w[j]][vpn(va, j)].ppn = w[j - 1]
    BY DEF Way
<1>4. f \in [i - 1 .. LEVELS - 1 -> K]
    BY <1>2, <1>3
<1>5. f[i - 1] = c /\ \A j \in i .. LEVELS - 1 : f[j] = w[j]
    BY <1>1
<1> HIDE DEF f
<1>6. f[LEVELS - 1] = KernelTable
    <2>1. LEVELS - 1 \in i .. LEVELS - 1
        BY <1>1
    <2> QED
        BY <1>3, <1>5, <2>1
<1>7. lab[c] = va \div Span[i - 1 + 1]
    <2>1. i \in i .. LEVELS - 1
        BY <1>1
    <2>2. lab[w[i]] = va \div Span[i + 1]
        BY <1>3, <2>1
    <2> QED
        BY <1>1, <2>2, Digit
<1>8. \A j \in i - 1 .. LEVELS - 1 : lev[f[j]] = j /\ lab[f[j]] = va \div Span[j + 1]
    BY <1>2, <1>3, <1>5, <1>7
<1>9. ASSUME NEW j \in i - 1 + 1 .. LEVELS - 1
      PROVE  vpn(va, j) \in DOMAIN m.tables[f[j]] /\ m.tables[f[j]][vpn(va, j)].ppn = f[j - 1]
    <2>1. CASE j = i
        <3>1. f[j] = w[i] /\ f[j - 1] = c
            BY <1>1, <1>5, <2>1
        <3> QED
            BY <2>1, <3>1
    <2>2. CASE j # i
        <3>1. j \in i + 1 .. LEVELS - 1 /\ j \in i .. LEVELS - 1 /\ j - 1 \in i .. LEVELS - 1
            BY <1>1, <2>2
        <3> QED
            BY <1>3, <1>5, <3>1
    <2> QED
        BY <2>1, <2>2
<1>10. Way(m, K, lev, lab, va, i - 1, f)
    BY <1>4, <1>6, <1>8, <1>9 DEF Way
<1> QED
    BY <1>5, <1>10

\* From m to m1 the kernel's space got tables, and an entry for the x-th page.
KernelMapped(m, T, lev, lab, m1, T1, lev1, lab1, x) ==
    /\ Mapped(NULL, m, T, lev, m1, T1, lev1) /\ Placed(m1, T1[NULL], lev1, lab1)
    /\ \A t \in T[NULL] : lab1[t] = lab[t]
    /\ Extends(m, m1, T[NULL], lev, lab, x)

LEMMA KernelMappedTwice ==
    ASSUME NEW m, NEW T, NEW lev, NEW lab, IsMemory(m), NEW x,
           NEW m1, NEW T1, NEW lev1, NEW lab1, KernelMapped(m, T, lev, lab, m1, T1, lev1, lab1, x),
           NEW m2, NEW T2, NEW lev2, NEW lab2, KernelMapped(m1, T1, lev1, lab1, m2, T2, lev2, lab2, x)
    PROVE  KernelMapped(m, T, lev, lab, m2, T2, lev2, lab2, x)
<1>1. NULL \in Users
    BY DEF Users
<1>2. Mapped(NULL, m, T, lev, m1, T1, lev1) /\ Mapped(NULL, m1, T1, lev1, m2, T2, lev2)
    BY DEF KernelMapped
<1>3. Mapped(NULL, m, T, lev, m2, T2, lev2)
    BY <1>1, <1>2, MappedTwice
<1>4. T[NULL] \subseteq T1[NULL] /\ \A t \in T[NULL] : lev1[t] = lev[t] /\ lab1[t] = lab[t]
    BY <1>1, <1>2 DEF Mapped, KernelMapped
<1>5. \A t \in T[NULL] : lab2[t] = lab[t]
    BY <1>4 DEF KernelMapped
<1>6. Extends(m, m2, T[NULL], lev, lab, x)
    <2>1. SUFFICES ASSUME NEW t \in T[NULL], NEW k \in DOMAIN m.tables[t],
                          lev[t] # 0 \/ lab[t] * ENTRIES + k # x
                   PROVE  k \in DOMAIN m2.tables[t] /\ m2.tables[t][k] = m.tables[t][k]
        BY DEF Extends
    <2>2. k \in DOMAIN m1.tables[t] /\ m1.tables[t][k] = m.tables[t][k]
        BY <2>1 DEF KernelMapped, Extends
    <2>3. t \in T1[NULL] /\ (lev1[t] # 0 \/ lab1[t] * ENTRIES + k # x)
        BY <1>4, <2>1
    <2>4. k \in DOMAIN m2.tables[t] /\ m2.tables[t][k] = m1.tables[t][k]
        BY <2>2, <2>3 DEF KernelMapped, Extends
    <2> QED
        BY <2>2, <2>4
<1> QED
    BY <1>3, <1>5, <1>6 DEF KernelMapped

KernelWalked(m, T, lev, lab, va, w, l) ==
    /\ w = [mem |-> w.mem, tb |-> w.tb]
    /\ \E T1, lev1, lab1 :
          /\ KernelMapped(m, T, lev, lab, w.mem, T1, lev1, lab1, va \div PS_4K)
          /\ ~ w.mem.fault => \E f : Way(w.mem, T1[NULL], lev1, lab1, va, l, f) /\ f[l] = w.tb

\* A new table has its place.
TablePlaced(m, T, lev, lab, r, tb, k, i, new, x, T1, lev1, lab1) ==
    /\ KernelMapped(m, T, lev, lab, r.mem, T1, lev1, lab1, x)
    /\ new \in T1[NULL] /\ lev1[new] = i - 1 /\ lab1[new] = lab1[tb] * ENTRIES + k
    /\ k \in DOMAIN r.mem.tables[tb] /\ r.mem.tables[tb][k].ppn = new

LEMMA FreshPlaced ==
    ASSUME NEW m, IsMemory(m), NEW T, NEW lev, Tabled(m, T, lev), NEW lab,
           Placed(m, T[NULL], lev, lab), KernelTable \in T[NULL],
           NEW i \in 1 .. LEVELS - 1, NEW tb \in T[NULL], lev[tb] = i,
           NEW k \in Nat, NEW r, NEW new, Fresh(NULL, m, T, lev, tb, k, i, r, new), NEW x
    PROVE  \E T1, lev1, lab1 : TablePlaced(m, T, lev, lab, r, tb, k, i, new, x, T1, lev1, lab1)
<1> DEFINE T1   == [T EXCEPT ![NULL] = @ \cup {new}]
           lev1 == [lev EXCEPT ![new] = i - 1]
           lab1 == [lab EXCEPT ![new] = lab[tb] * ENTRIES + k]
<1>1. /\ new \in Pages /\ ~ m.bk[new].taken /\ k \notin DOMAIN m.tables[tb] /\ r.tb = new
      /\ Mapped(NULL, m, T, lev, r.mem, T1, lev1)
      /\ r.mem.tables[tb] = Set(m.tables[tb], k, Entry(new, {}))
      /\ r.mem.tables[new] = ZeroPage
      /\ \A q \in Pages : q # tb /\ q # new => r.mem.tables[q] = m.tables[q]
    BY DEF Fresh
<1>2. NULL \in Users
    BY DEF Users
<1>3. /\ new \notin T[NULL] /\ T[NULL] \subseteq Pages
      /\ T \in [Users -> SUBSET Pages] /\ lev \in [Pages -> 0 .. LEVELS - 1]
    BY <1>1, <1>2 DEF Tabled
<1>4. lab \in [Pages -> Nat] /\ lab[KernelTable] = 0
    BY DEF Placed
<1>5. /\ T1[NULL] = T[NULL] \cup {new} /\ lev1[new] = i - 1
      /\ \A t \in Pages : t # new => lev1[t] = lev[t]
    BY <1>1, <1>2, <1>3
<1>6. lab[tb] * ENTRIES + k \in Nat
    BY <1>3, <1>4, SpanIs
<1>7. /\ lab1 \in [Pages -> Nat] /\ lab1[new] = lab[tb] * ENTRIES + k
      /\ \A t \in Pages : t # new => lab1[t] = lab[t]
    BY <1>1, <1>4, <1>6
<1>8. \A t \in T[NULL] : t \in Pages /\ t # new /\ lev1[t] = lev[t] /\ lab1[t] = lab[t]
    BY <1>3, <1>5, <1>7
<1>9. /\ DOMAIN r.mem.tables[tb] = {k} \cup DOMAIN m.tables[tb]
      /\ r.mem.tables[tb][k] = Entry(new, {})
      /\ \A j \in DOMAIN m.tables[tb] : r.mem.tables[tb][j] = m.tables[tb][j]
    BY <1>1 DEF Set
<1>10. r.mem.tables[tb][k].ppn = new
    BY <1>9 DEF Entry
<1> HIDE DEF T1, lev1, lab1
<1>11. Placed(r.mem, T1[NULL], lev1, lab1)
    <2>1. SUFFICES ASSUME NEW t \in T1[NULL], lev1[t] # 0, NEW j \in DOMAIN r.mem.tables[t]
                   PROVE  lab1[r.mem.tables[t][j].ppn] = lab1[t] * ENTRIES + j
        BY <1>4, <1>7, <1>8 DEF Placed
    <2>2. t # new
        BY <1>1, NothingOnZeroPage
    <2>3. t \in T[NULL] /\ lev[t] # 0
        BY <1>5, <1>8, <2>1, <2>2
    <2>4. ASSUME j \in DOMAIN m.tables[t], r.mem.tables[t][j] = m.tables[t][j]
          PROVE  lab1[r.mem.tables[t][j].ppn] = lab1[t] * ENTRIES + j
        <3>1. m.tables[t][j].ppn \in T[NULL]
            BY <1>2, <2>3, <2>4 DEF Tabled
        <3>2. lab[m.tables[t][j].ppn] = lab[t] * ENTRIES + j
            BY <2>3, <2>4 DEF Placed
        <3> QED
            BY <1>8, <2>3, <2>4, <3>1, <3>2
    <2>5. CASE t # tb
        BY <1>1, <1>8, <2>2, <2>3, <2>4, <2>5
    <2>6. CASE t = tb /\ j # k
        BY <1>9, <2>4, <2>6
    <2>7. CASE t = tb /\ j = k
        BY <1>7, <1>8, <1>10, <2>7
    <2> QED
        BY <2>5, <2>6, <2>7
<1>12. Extends(m, r.mem, T[NULL], lev, lab, x)
    <2>1. SUFFICES ASSUME NEW t \in T[NULL], NEW j \in DOMAIN m.tables[t]
                   PROVE  j \in DOMAIN r.mem.tables[t] /\ r.mem.tables[t][j] = m.tables[t][j]
        BY DEF Extends
    <2>2. CASE t = tb
        BY <1>9, <2>2
    <2>3. CASE t # tb
        BY <1>1, <1>8, <2>3
    <2> QED
        BY <2>2, <2>3
<1>13. KernelMapped(m, T, lev, lab, r.mem, T1, lev1, lab1, x)
    BY <1>1, <1>8, <1>11, <1>12 DEF KernelMapped, T1, lev1
<1>14. lab1[new] = lab1[tb] * ENTRIES + k
    BY <1>7, <1>8
<1> QED
    BY <1>5, <1>9, <1>10, <1>13, <1>14 DEF TablePlaced

LEMMA KernelDown ==
    ASSUME NEW m, IsMemory(m), NEW T, NEW lev, Tabled(m, T, lev), NEW lab,
           KernelTable \in T[NULL],
           NEW i \in 1 .. LEVELS - 1, NEW va \in Nat, NEW w, KernelWalked(m, T, lev, lab, va, w, i)
    PROVE  KernelWalked(m, T, lev, lab, va, MapDown(w, va, i), i - 1)
<1> DEFINE k == vpn(va, i)
           r == MapDown(w, va, i)
           x == va \div PS_4K
<1>1. PICK T1, lev1, lab1 :
         /\ KernelMapped(m, T, lev, lab, w.mem, T1, lev1, lab1, x)
         /\ ~ w.mem.fault => \E f : Way(w.mem, T1[NULL], lev1, lab1, va, i, f) /\ f[i] = w.tb
    BY DEF KernelWalked
<1>2. /\ IsMemory(w.mem) /\ Tabled(w.mem, T1, lev1) /\ w = [mem |-> w.mem, tb |-> w.tb]
      /\ KernelTable \in T1[NULL] /\ Placed(w.mem, T1[NULL], lev1, lab1) /\ NULL \in Users
    BY <1>1 DEF KernelMapped, Mapped, KernelWalked, Users
<1>3. k \in Nat /\ i \in 0 .. LEVELS - 1 /\ i # 0 /\ i \in i .. LEVELS - 1
    <2>1. i \in 0 .. LEVELS - 1 /\ i # 0 /\ i \in i .. LEVELS - 1 /\ ENTRIES \in Nat
        BY SpanIs
    <2>2. vpn(va, i) \in 0 .. ENTRIES - 1
        BY <2>1, Digit
    <2>3. vpn(va, i) \in Nat
        BY <2>1, <2>2
    <2> QED
        BY <2>1, <2>3
<1>4. CASE w.mem.fault
    <2>1. r = w
        BY <1>4 DEF MapDown
    <2> HIDE DEF r, x
    <2> QED
        BY <1>1, <1>2, <1>4, <2>1 DEF KernelWalked, r, x
<1> HIDE DEF r, k, x
<1>5. CASE ~ w.mem.fault
    <2>1. PICK f : Way(w.mem, T1[NULL], lev1, lab1, va, i, f) /\ f[i] = w.tb
        BY <1>1, <1>5
    <2>2. w.tb \in T1[NULL] /\ lev1[w.tb] = i
        BY <1>3, <2>1 DEF Way
    <2>3. /\ r = [mem |-> r.mem, tb |-> r.tb]
          /\ \/ /\ k \in DOMAIN w.mem.tables[w.tb] /\ r.mem = w.mem
                /\ r.tb = w.mem.tables[w.tb][k].ppn /\ r.tb \in T1[NULL] /\ lev1[r.tb] = i - 1
             \/ /\ r.mem.fault /\ Mapped(NULL, w.mem, T1, lev1, r.mem, T1, lev1)
                /\ r.mem.tables = w.mem.tables
             \/ \E new : Fresh(NULL, w.mem, T1, lev1, w.tb, k, i, r, new)
        <3>1. MapTurn(NULL, w.mem, T1, lev1, w.tb, vpn(va, i), i,
                      MapDown([mem |-> w.mem, tb |-> w.tb], va, i))
            BY <1>2, <1>5, <2>2, MapDownIs
        <3>2. MapTurn(NULL, w.mem, T1, lev1, w.tb, k, i, r)
            BY <1>2, <3>1 DEF r, k
        <3> QED
            BY <3>2 DEF MapTurn
    <2>4. CASE /\ k \in DOMAIN w.mem.tables[w.tb] /\ r.mem = w.mem
               /\ r.tb = w.mem.tables[w.tb][k].ppn /\ r.tb \in T1[NULL] /\ lev1[r.tb] = i - 1
        <3>1. lab1[r.tb] = lab1[f[i]] * ENTRIES + k
            BY <1>2, <1>3, <2>1, <2>2, <2>4 DEF Placed
        <3>2. \E h : Way(w.mem, T1[NULL], lev1, lab1, va, i - 1, h) /\ h[i - 1] = r.tb
            <4>1. PICK c, b : c = r.tb /\ b = w.mem /\ c \in T1[NULL] /\ lev1[c] = i - 1
                BY <2>4
            <4>2. /\ Way(b, T1[NULL], lev1, lab1, va, i, f) /\ vpn(va, i) \in DOMAIN b.tables[f[i]]
                  /\ c \in T1[NULL] /\ lev1[c] = i - 1 /\ c = b.tables[f[i]][vpn(va, i)].ppn
                  /\ lab1[c] = lab1[f[i]] * ENTRIES + vpn(va, i)
                BY <2>1, <2>4, <3>1, <4>1 DEF k
            <4>3. \E h : Way(b, T1[NULL], lev1, lab1, va, i - 1, h) /\ h[i - 1] = c
                BY <4>2, WayDown
            <4> QED
                BY <4>1, <4>3
        <3> QED
            BY <1>1, <2>3, <2>4, <3>2 DEF KernelWalked, r, x
    <2>5. CASE /\ r.mem.fault /\ Mapped(NULL, w.mem, T1, lev1, r.mem, T1, lev1)
               /\ r.mem.tables = w.mem.tables
        <3>1. KernelMapped(w.mem, T1, lev1, lab1, r.mem, T1, lev1, lab1, x)
            BY <1>2, <2>5 DEF KernelMapped, Placed, Extends
        <3>2. KernelMapped(m, T, lev, lab, r.mem, T1, lev1, lab1, x)
            BY <1>1, <3>1, KernelMappedTwice
        <3> QED
            BY <2>3, <2>5, <3>2 DEF KernelWalked, r, x
    <2>6. CASE \E new : Fresh(NULL, w.mem, T1, lev1, w.tb, k, i, r, new)
        <3>1. PICK new : Fresh(NULL, w.mem, T1, lev1, w.tb, k, i, r, new)
            BY <2>6
        <3>8. PICK T2, lev2, lab2 :
                 TablePlaced(w.mem, T1, lev1, lab1, r, w.tb, k, i, new, x, T2, lev2, lab2)
            BY <1>2, <1>3, <2>2, <3>1, FreshPlaced
        <3>2. /\ KernelMapped(w.mem, T1, lev1, lab1, r.mem, T2, lev2, lab2, x)
              /\ new \in T2[NULL] /\ lev2[new] = i - 1 /\ lab2[new] = lab2[w.tb] * ENTRIES + k
              /\ k \in DOMAIN r.mem.tables[w.tb] /\ r.mem.tables[w.tb][k].ppn = new
            BY <3>8 DEF TablePlaced
        <3>3. r.tb = new
            BY <3>1 DEF Fresh
        <3>4. KernelMapped(m, T, lev, lab, r.mem, T2, lev2, lab2, x)
            BY <1>1, <3>2, KernelMappedTwice
        <3>5. /\ T1[NULL] \subseteq T2[NULL]
              /\ \A t \in T1[NULL] : lev2[t] = lev1[t] /\ lab2[t] = lab1[t]
              /\ Extends(w.mem, r.mem, T1[NULL], lev1, lab1, x)
            BY <1>2, <3>2 DEF KernelMapped, Mapped
        <3>6. Way(r.mem, T2[NULL], lev2, lab2, va, i, f)
            BY <1>3, <2>1, <3>5, WayKept
        <3>7. \E h : Way(r.mem, T2[NULL], lev2, lab2, va, i - 1, h) /\ h[i - 1] = new
            <4>1. PICK b : b = r.mem
                OBVIOUS
            <4>2. /\ Way(b, T2[NULL], lev2, lab2, va, i, f) /\ vpn(va, i) \in DOMAIN b.tables[f[i]]
                  /\ new = b.tables[f[i]][vpn(va, i)].ppn /\ new \in T2[NULL]
                  /\ lev2[new] = i - 1 /\ lab2[new] = lab2[f[i]] * ENTRIES + vpn(va, i)
                BY <2>1, <3>2, <3>6, <4>1 DEF k
            <4>3. \E h : Way(b, T2[NULL], lev2, lab2, va, i - 1, h) /\ h[i - 1] = new
                BY <4>2, WayDown
            <4> QED
                BY <4>1, <4>3
        <3> QED
            BY <2>3, <3>3, <3>4, <3>7 DEF KernelWalked, r, x
    <2> QED
        BY <2>3, <2>4, <2>5, <2>6
<1> QED
    BY <1>4, <1>5 DEF r

LEMMA KernelWalk ==
    ASSUME NEW m, IsMemory(m), NEW T, NEW lev, Tabled(m, T, lev), NEW lab,
           Placed(m, T[NULL], lev, lab), KernelTable \in T[NULL], lev[KernelTable] = LEVELS - 1,
           NEW va \in Nat, va < Span[LEVELS],
           NEW walk, walk = [n \in 0 .. LEVELS - 1 |-> Turn(walk, n, m, KernelTable, va)]
    PROVE  KernelWalked(m, T, lev, lab, va, walk[LEVELS - 1], 0)
<1> DEFINE S == {n \in Nat : n <= LEVELS - 1 =>
                     KernelWalked(m, T, lev, lab, va, walk[n], LEVELS - 1 - n)}
           tb == KernelTable
<1>1. LEVELS - 1 \in Nat /\ LEVELS \in Nat
    BY SpanIs
<1>2. 0 \in S
    <2>1. walk[0] = [mem |-> m, tb |-> tb]
        BY <1>1 DEF Turn
    <2>2. walk[0].mem = m /\ walk[0].tb = tb /\ LEVELS - 1 - 0 = LEVELS - 1
        BY <1>1, <2>1
    <2>3. KernelMapped(m, T, lev, lab, m, T, lev, lab, va \div PS_4K)
        <3>1. Mapped(NULL, m, T, lev, m, T, lev)
            BY MappedSame DEF Users
        <3> QED
            BY <3>1 DEF KernelMapped, Extends
    <2> DEFINE f == [j \in LEVELS - 1 .. LEVELS - 1 |-> tb]
               t == LEVELS - 1
    <2>4. Way(m, T[NULL], lev, lab, va, t, f) /\ f[t] = tb
        <3>1. \A j \in t .. t : j = t
            BY <1>1
        <3>2. f \in [t .. t -> T[NULL]] /\ f[t] = tb
            BY <1>1
        <3>3. t + 1 = LEVELS /\ va \div Span[LEVELS] = 0
            BY <1>1, DigitsEnd
        <3>4. \A j \in t + 1 .. t : FALSE
            BY <1>1
        <3> HIDE DEF f
        <3>5. \A j \in t .. t : lev[f[j]] = j /\ lab[f[j]] = va \div Span[j + 1]
            BY <3>1, <3>2, <3>3 DEF Placed
        <3> QED
            BY <3>2, <3>4, <3>5 DEF Way
    <2>5. KernelWalked(m, T, lev, lab, va, walk[0], t)
        BY <2>1, <2>2, <2>3, <2>4 DEF KernelWalked
    <2> QED
        BY <2>2, <2>5
<1>3. ASSUME NEW n \in Nat, n \in S PROVE n + 1 \in S
    <2>1. SUFFICES ASSUME n + 1 <= LEVELS - 1
                   PROVE  KernelWalked(m, T, lev, lab, va, walk[n + 1], LEVELS - 1 - (n + 1))
        OBVIOUS
    <2>2. KernelWalked(m, T, lev, lab, va, walk[n], LEVELS - 1 - n)
        BY <1>1, <1>3, <2>1
    <2>3. walk[n + 1] = MapDown(walk[n], va, LEVELS - 1 - n)
        <3>1. n + 1 \in 0 .. LEVELS - 1 /\ n + 1 # 0 /\ n + 1 - 1 = n
              /\ LEVELS - (n + 1) = LEVELS - 1 - n
            BY <1>1, <2>1
        <3>2. walk[n + 1] = Turn(walk, n + 1, m, tb, va)
            BY <3>1
        <3> QED
            BY <3>1, <3>2 DEF Turn
    <2>4. PICK i \in 1 .. LEVELS - 1 : i = LEVELS - 1 - n
        BY <1>1, <2>1
    <2>5. KernelWalked(m, T, lev, lab, va, walk[n + 1], i - 1)
        BY <2>2, <2>3, <2>4, KernelDown
    <2>6. i - 1 = LEVELS - 1 - (n + 1)
        BY <1>1, <2>4
    <2> QED
        BY <2>5, <2>6
<1>4. \A n \in Nat : n \in S
    <2> HIDE DEF S
    <2> QED
        BY <1>2, <1>3, InductionOverNat
<1>5. LEVELS - 1 \in S /\ LEVELS - 1 - (LEVELS - 1) = 0
    BY <1>1, <1>4
<1> QED
    BY <1>1, <1>5

\* mmu_map in the kernel's table: the address leads to the page, and where other pages' led
\* they still do.
LEMMA KernelMaps ==
    ASSUME NEW m, IsMemory(m), NEW T, NEW lev, Tabled(m, T, lev), NEW lab,
           Placed(m, T[NULL], lev, lab), KernelTable \in T[NULL], lev[KernelTable] = LEVELS - 1,
           NEW va \in Nat, va < Span[LEVELS], NEW paddr, NEW bits, bits \cap {"R", "W", "X"} # {},
           NEW r, r = mmu_map(m, KernelTable, va, paddr, bits)
    PROVE  \E T1, lev1, lab1 :
              /\ KernelMapped(m, T, lev, lab, r, T1, lev1, lab1, va \div PS_4K)
              /\ ~ r.fault => Leads(r, T1[NULL], lev1, lab1, va, paddr \div PS_4K)
<1> DEFINE walk == CHOOSE f : f = [n \in 0 .. LEVELS - 1 |-> Turn(f, n, m, KernelTable, va)]
           end == walk[LEVELS - 1]
           k == vpn(va, 0)
           e == Entry(paddr \div PS_4K, bits)
           x == va \div PS_4K
<1>1. LEVELS - 1 \in Nat /\ LEVELS \in Nat /\ NULL \in Users
    BY SpanIs DEF Users
<1>2. walk = [n \in 0 .. LEVELS - 1 |-> Turn(walk, n, m, KernelTable, va)]
    BY <1>1, TurnsExist
<1>3. r = IF end.mem.fault THEN end.mem
          ELSE [end.mem EXCEPT !.tables[end.tb] = Set(@, k, e)]
    BY DEF mmu_map, Turn
<1> HIDE DEF walk, e, x
<1>4. KernelWalked(m, T, lev, lab, va, end, 0)
    BY <1>2, KernelWalk
<1> HIDE DEF end, k
<1>5. PICK T1, lev1, lab1 :
         /\ KernelMapped(m, T, lev, lab, end.mem, T1, lev1, lab1, x)
         /\ ~ end.mem.fault => \E f : Way(end.mem, T1[NULL], lev1, lab1, va, 0, f) /\ f[0] = end.tb
    BY <1>4 DEF KernelWalked, x
<1>6. CASE end.mem.fault
    BY <1>3, <1>5, <1>6 DEF x
<1>7. CASE ~ end.mem.fault
    <2>1. r = [end.mem EXCEPT !.tables[end.tb] = Set(@, k, e)]
        BY <1>3, <1>7
    <2>2. IsLeaf(e) /\ e.ppn = paddr \div PS_4K
        BY DEF IsLeaf, Entry, e
    <2>3. PICK f : Way(end.mem, T1[NULL], lev1, lab1, va, 0, f) /\ f[0] = end.tb
        BY <1>5, <1>7
    <2>4. 0 \in 0 .. LEVELS - 1 /\ 0 + 1 = 1 /\ Span[0] = PS_4K
        BY SpanIs
    <2>5. end.tb \in T1[NULL] /\ lev1[end.tb] = 0 /\ lab1[end.tb] = va \div Span[1]
        BY <2>3, <2>4 DEF Way
    <2>6. /\ IsMemory(end.mem) /\ Tabled(end.mem, T1, lev1) /\ Placed(end.mem, T1[NULL], lev1, lab1)
          /\ Mapped(NULL, m, T, lev, end.mem, T1, lev1) /\ T1[NULL] \subseteq Pages
          /\ end.mem.fault \in BOOLEAN
        BY <1>1, <1>5 DEF KernelMapped, Mapped, Tabled, IsMemory
    <2>7. /\ IsMemory(r) /\ r.bk = end.mem.bk /\ r.fault = end.mem.fault /\ Tabled(r, T1, lev1)
          /\ r.tables[end.tb] = Set(end.mem.tables[end.tb], k, e)
          /\ \A q \in Pages : q # end.tb => r.tables[q] = end.mem.tables[q]
        <3>1. PICK b, t : b = end.mem /\ t = end.tb /\ r = WithEntry(b, t, k, e)
            BY <2>1 DEF WithEntry
        <3>2. /\ IsMemory(b) /\ Tabled(b, T1, lev1) /\ t \in T1[NULL] /\ t \in Pages
              /\ IF lev1[t] = 0 THEN IsLeaf(e)
                 ELSE ~ IsLeaf(e) /\ e.ppn \in T1[NULL] /\ lev1[e.ppn] = lev1[t] - 1
            BY <2>2, <2>5, <2>6, <3>1
        <3>3. Tabled(r, T1, lev1)
            BY <1>1, <3>1, <3>2, EntrySet
        <3>4. IsMemory(r) /\ r.bk = b.bk
            BY <3>1, <3>2, EntryAt
        <3>5. r.fault = b.fault
            BY <3>1, <3>2, EntryAt
        <3>6. r.tables[t] = Set(b.tables[t], k, e)
            BY <3>1, <3>2, EntryAt
        <3>7. \A q \in Pages : q # t => r.tables[q] = b.tables[q]
            BY <3>1, <3>2, EntryAt
        <3> QED
            BY <3>1, <3>3, <3>4, <3>5, <3>6, <3>7
    <2>8. /\ DOMAIN r.tables[end.tb] = {k} \cup DOMAIN end.mem.tables[end.tb]
          /\ r.tables[end.tb][k] = e
          /\ \A j \in DOMAIN end.mem.tables[end.tb] :
                j # k => r.tables[end.tb][j] = end.mem.tables[end.tb][j]
        BY <2>7 DEF Set
    <2>9. lab1[end.tb] * ENTRIES + k = x
        BY <2>4, <2>5, Digit DEF k, x
    <2>10. Extends(end.mem, r, T1[NULL], lev1, lab1, x)
        <3>1. SUFFICES ASSUME NEW t \in T1[NULL], NEW j \in DOMAIN end.mem.tables[t],
                              lev1[t] # 0 \/ lab1[t] * ENTRIES + j # x
                       PROVE  j \in DOMAIN r.tables[t] /\ r.tables[t][j] = end.mem.tables[t][j]
            BY DEF Extends
        <3>2. CASE t # end.tb
            BY <2>6, <2>7, <3>2
        <3>3. CASE t = end.tb
            <4>1. j # k
                BY <2>5, <2>9, <3>1, <3>3
            <4> QED
                BY <2>8, <3>3, <4>1
        <3> QED
            BY <3>2, <3>3
    <2>11. Placed(r, T1[NULL], lev1, lab1)
        <3>1. SUFFICES ASSUME NEW t \in T1[NULL], lev1[t] # 0, NEW j \in DOMAIN r.tables[t]
                       PROVE  lab1[r.tables[t][j].ppn] = lab1[t] * ENTRIES + j
            BY <2>6 DEF Placed
        <3>2. r.tables[t] = end.mem.tables[t]
            BY <2>5, <2>6, <2>7, <3>1
        <3> QED
            BY <2>6, <3>1, <3>2 DEF Placed
    <2>12. Mapped(NULL, end.mem, T1, lev1, r, T1, lev1)
        <3>1. Grown(end.mem.bk, r.bk)
            BY <2>6, <2>7 DEF Grown, IsMemory
        <3>2. \A v \in Users : v # NULL => \A t \in T1[v] : r.tables[t] = end.mem.tables[t]
            BY <1>1, <2>5, <2>6, <2>7 DEF Tabled
        <3> QED
            BY <2>7, <3>1, <3>2 DEF Mapped
    <2>13. KernelMapped(end.mem, T1, lev1, lab1, r, T1, lev1, lab1, x)
        BY <2>10, <2>11, <2>12 DEF KernelMapped
    <2>14. KernelMapped(m, T, lev, lab, r, T1, lev1, lab1, x)
        BY <1>5, <2>13, KernelMappedTwice
    <2>15. Way(r, T1[NULL], lev1, lab1, va, 0, f)
        BY <2>3, <2>4, <2>10, WayKept
    <2>16. Leads(r, T1[NULL], lev1, lab1, va, paddr \div PS_4K)
        BY <2>2, <2>3, <2>8, <2>15 DEF Leads, k
    <2> QED
        BY <2>14, <2>16 DEF x
<1>8. end.mem.fault \in BOOLEAN
    BY <1>5 DEF KernelMapped, Mapped, IsMemory
<1> QED
    BY <1>6, <1>7, <1>8

\* The walk of mmu_translate.
Look(m, va, at, i) ==
    LET table == m.tables[at.tb]
        k     == vpn(va, i)
    IN  IF at.done THEN at
        ELSE IF k \notin DOMAIN table THEN [at EXCEPT !.done = TRUE]
        ELSE IF IsLeaf(table[k])
             THEN [at EXCEPT !.done = TRUE, !.leaf = {table[k]}, !.level = i]
             ELSE [at EXCEPT !.tb = table[k].ppn]
LookTurn(f, n, m, tb, va) ==
    IF n = 0 THEN [tb |-> tb, done |-> FALSE, leaf |-> {}, level |-> 0]
    ELSE Look(m, va, f[n - 1], LEVELS - n)

LEMMA LooksExist ==
    ASSUME NEW N \in Nat, NEW m, NEW tb, NEW va
    PROVE  \E f : f = [n \in 0 .. N |-> LookTurn(f, n, m, tb, va)]
<1> DEFINE S == {n \in Nat : \E f : f = [j \in 0 .. n |-> LookTurn(f, j, m, tb, va)]}
<1>1. 0 \in S
    <2> DEFINE g == [j \in 0 .. 0 |-> [tb |-> tb, done |-> FALSE, leaf |-> {}, level |-> 0]]
    <2>1. g = [j \in 0 .. 0 |-> LookTurn(g, j, m, tb, va)]
        BY DEF LookTurn
    <2> HIDE DEF g
    <2> QED
        BY <2>1
<1>2. ASSUME NEW n \in Nat, n \in S PROVE n + 1 \in S
    <2>1. PICK f : f = [j \in 0 .. n |-> LookTurn(f, j, m, tb, va)]
        BY <1>2
    <2> DEFINE last == Look(m, va, f[n], LEVELS - (n + 1))
               g == [j \in 0 .. n + 1 |-> IF j = n + 1 THEN last ELSE f[j]]
    <2>2. ASSUME NEW j \in 0 .. n + 1
          PROVE  (IF j = n + 1 THEN last ELSE f[j]) = LookTurn(g, j, m, tb, va)
        <3>1. CASE j = n + 1
            <4>1. g[j - 1] = f[n] /\ j # 0
                BY <3>1
            <4> HIDE DEF g
            <4> QED
                BY <3>1, <4>1 DEF LookTurn
        <3>2. CASE j # n + 1
            <4>1. j \in 0 .. n /\ (j # 0 => g[j - 1] = f[j - 1])
                BY <3>2
            <4>2. f[j] = LookTurn(f, j, m, tb, va)
                BY <2>1, <4>1
            <4> HIDE DEF g, last
            <4> QED
                BY <3>2, <4>1, <4>2 DEF LookTurn
        <3> QED
            BY <3>1, <3>2
    <2>3. g = [j \in 0 .. n + 1 |-> LookTurn(g, j, m, tb, va)]
        BY <2>2
    <2> HIDE DEF g
    <2> QED
        BY <2>3
<1>3. \A n \in Nat : n \in S
    <2> HIDE DEF S
    <2> QED
        BY <1>1, <1>2, InductionOverNat
<1> QED
    BY <1>3

LeafFound(found, p) == \E e : e.ppn = p /\ found.leaf = {e} /\ found.level = 0

\* Where an address leads is what mmu_translate finds.
LEMMA LookupIs ==
    ASSUME NEW m, NEW T, NEW lev, Tabled(m, T, lev), NEW lab, NEW va, NEW p,
           Leads(m, T[NULL], lev, lab, va, p)
    PROVE  LeafFound(Lookup(m, KernelTable, va), p)
<1> DEFINE tb == KernelTable
           walk == CHOOSE f : f = [n \in 0 .. LEVELS |-> LookTurn(f, n, m, tb, va)]
<1>1. LEVELS - 1 \in Nat /\ LEVELS \in Nat /\ NULL \in Users
    BY SpanIs DEF Users
<1>2. Lookup(m, tb, va) = walk[LEVELS]
    BY DEF Lookup, LookTurn, Look
<1>3. walk = [n \in 0 .. LEVELS |-> LookTurn(walk, n, m, tb, va)]
    BY <1>1, LooksExist
<1> HIDE DEF walk
<1>4. PICK w : /\ Way(m, T[NULL], lev, lab, va, 0, w)
               /\ vpn(va, 0) \in DOMAIN m.tables[w[0]] /\ m.tables[w[0]][vpn(va, 0)].ppn = p
    BY DEF Leads
<1> DEFINE at(n) == [tb |-> w[LEVELS - 1 - n], done |-> FALSE, leaf |-> {}, level |-> 0]
           S == {n \in Nat : n <= LEVELS - 1 => walk[n] = at(n)}
<1>5. \A i \in 0 .. LEVELS - 1 :
         /\ w[i] \in T[NULL] /\ lev[w[i]] = i
         /\ i # 0 => /\ vpn(va, i) \in DOMAIN m.tables[w[i]]
                     /\ m.tables[w[i]][vpn(va, i)].ppn = w[i - 1]
    <2> TAKE i \in 0 .. LEVELS - 1
    <2>1. i # 0 => i \in 0 + 1 .. LEVELS - 1
        BY <1>1
    <2> QED
        BY <1>4, <2>1 DEF Way
<1>6. 0 \in S
    <2>1. walk[0] = [tb |-> tb, done |-> FALSE, leaf |-> {}, level |-> 0]
        BY <1>1, <1>3 DEF LookTurn
    <2>2. LEVELS - 1 - 0 = LEVELS - 1 /\ w[LEVELS - 1] = tb
        BY <1>1, <1>4 DEF Way
    <2> QED
        BY <2>1, <2>2
<1>7. ASSUME NEW n \in Nat, n \in S PROVE n + 1 \in S
    <2>1. SUFFICES ASSUME n + 1 <= LEVELS - 1 PROVE walk[n + 1] = at(n + 1)
        OBVIOUS
    <2>2. PICK i \in 0 .. LEVELS - 1 : /\ i = LEVELS - 1 - n /\ i # 0 /\ LEVELS - (n + 1) = i
                                       /\ LEVELS - 1 - (n + 1) = i - 1
                                       /\ n + 1 \in 0 .. LEVELS /\ n + 1 # 0 /\ n + 1 - 1 = n
        BY <1>1, <2>1
    <2>3. walk[n] = [tb |-> w[i], done |-> FALSE, leaf |-> {}, level |-> 0]
        BY <1>1, <1>7, <2>1, <2>2
    <2>4. walk[n + 1] = Look(m, va, walk[n], i)
        <3>1. walk[n + 1] = LookTurn(walk, n + 1, m, tb, va)
            BY <1>3, <2>2
        <3> QED
            BY <2>2, <3>1 DEF LookTurn
    <2>5. /\ vpn(va, i) \in DOMAIN m.tables[w[i]] /\ ~ IsLeaf(m.tables[w[i]][vpn(va, i)])
          /\ m.tables[w[i]][vpn(va, i)].ppn = w[i - 1]
        BY <1>1, <1>5, <2>2 DEF Tabled
    <2>6. walk[n].done = FALSE /\ walk[n].tb = w[i]
        BY <2>3
    <2>7. walk[n + 1] = [walk[n] EXCEPT !.tb = w[i - 1]]
        BY <2>4, <2>5, <2>6 DEF Look
    <2>8. walk[n + 1] = [tb |-> w[i - 1], done |-> FALSE, leaf |-> {}, level |-> 0]
        <3>1. PICK v, y : v = w[i - 1] /\ y = w[i]
            OBVIOUS
        <3>2. walk[n + 1] = [[tb |-> y, done |-> FALSE, leaf |-> {}, level |-> 0] EXCEPT !.tb = v]
            BY <2>3, <2>7, <3>1
        <3>3. [[tb |-> y, done |-> FALSE, leaf |-> {}, level |-> 0] EXCEPT !.tb = v]
                  = [tb |-> v, done |-> FALSE, leaf |-> {}, level |-> 0]
            OBVIOUS
        <3> QED
            BY <3>1, <3>2, <3>3
    <2> QED
        BY <2>2, <2>8
<1>8. \A n \in Nat : n \in S
    <2> HIDE DEF S
    <2> QED
        BY <1>6, <1>7, InductionOverNat
<1>9. walk[LEVELS - 1] = [tb |-> w[0], done |-> FALSE, leaf |-> {}, level |-> 0]
    <2>1. LEVELS - 1 \in S /\ LEVELS - 1 - (LEVELS - 1) = 0
        BY <1>1, <1>8
    <2> QED
        BY <1>1, <2>1
<1> DEFINE e == m.tables[w[0]][vpn(va, 0)]
<1>10. walk[LEVELS] = Look(m, va, walk[LEVELS - 1], 0)
    <2>1. LEVELS \in 0 .. LEVELS /\ LEVELS # 0 /\ LEVELS - LEVELS = 0
        BY <1>1
    <2>2. walk[LEVELS] = LookTurn(walk, LEVELS, m, tb, va)
        BY <1>3, <2>1
    <2> QED
        BY <2>1, <2>2 DEF LookTurn
<1>11. vpn(va, 0) \in DOMAIN m.tables[w[0]] /\ IsLeaf(e) /\ e.ppn = p
    <2>1. 0 \in 0 .. LEVELS - 1
        BY <1>1
    <2>2. w[0] \in T[NULL] /\ lev[w[0]] = 0
        BY <1>5, <2>1
    <2> QED
        BY <1>1, <1>4, <2>2 DEF Tabled
<1> HIDE DEF e
<1>12. walk[LEVELS] = [walk[LEVELS - 1] EXCEPT !.done = TRUE, !.leaf = {e}, !.level = 0]
    <2>1. walk[LEVELS - 1].done = FALSE /\ walk[LEVELS - 1].tb = w[0]
        BY <1>9
    <2> QED
        BY <1>10, <1>11, <2>1 DEF Look, e
<1>13. walk[LEVELS].leaf = {e} /\ walk[LEVELS].level = 0
    BY <1>9, <1>12
<1> QED
    BY <1>2, <1>11, <1>13 DEF LeafFound

LEMMA TimesDiv ==
    ASSUME NEW N \in Nat \ {0}, NEW p \in Nat
    PROVE  p * N \in Nat /\ (p * N) % N = 0 /\ (p * N) \div N = p
<1>1. (N * p + 0) \div N = p /\ (N * p + 0) % N = 0
    BY DivUnique
<1>2. N * p + 0 = p * N /\ p * N \in Nat
    OBVIOUS
<1> QED
    BY <1>1, <1>2

LEMMA TranslateIs ==
    ASSUME NEW m, NEW T, NEW lev, Tabled(m, T, lev), NEW lab, NEW va \in Nat, NEW p \in Nat,
           Leads(m, T[NULL], lev, lab, va, p)
    PROVE  mmu_translate(m, KernelTable, va) = p * PS_4K + (va % PS_4K)
<1> DEFINE found == Lookup(m, KernelTable, va)
<1>0. LeafFound(found, p)
    BY LookupIs
<1>1. PICK e : e.ppn = p /\ found.leaf = {e} /\ found.level = 0
    <2> HIDE DEF found
    <2> QED
        BY <1>0 DEF LeafFound
<1>2. (CHOOSE leaf \in found.leaf : TRUE) = e
    BY <1>1
<1>3. Span[0] = PS_4K /\ PS_4K \in Nat \ {0}
    BY SpanIs, Sizes1
<1> HIDE DEF found
<1>4. PICK c \in Nat : c = p * PS_4K /\ c % PS_4K = 0
    BY <1>3, TimesDiv
<1>5. mmu_translate(m, KernelTable, va) = c - (c % PS_4K) + (va % PS_4K)
    BY <1>1, <1>2, <1>3, <1>4 DEF mmu_translate, found
<1>6. va % PS_4K \in Nat
    BY <1>3, DivIs
<1> QED
    BY <1>3, <1>4, <1>5, <1>6

-----------------------------------------------------------------------------
(* The pages behind the heap. *)

Holds(g, e, p) == e <= p /\ p < e + g[e]

\* Each of the heap's n pages is led to a page of its own, pg[j], of what was granted to the
\* heap, but not of what the call c was granted.
HeapPages(m, g, pr, T, lev, lab, n, pg, c) ==
    /\ pg \in [0 .. n - 1 -> Pages]
    /\ \A j \in 0 .. n - 1 : Leads(m, T[NULL], lev, lab, j * PS_4K, pg[j])
    /\ \A j \in 0 .. n - 1 : \E e \in Loose(g, pr, T) \ {c.pages} : Holds(g, e, pg[j])
    /\ \A i, j \in 0 .. n - 1 : pg[i] = pg[j] => i = j

\* The pages of the call c, and behind the heap's pages those that it has mapped.
Growing(m, g, pr, T, lev, lab, n, c) ==
    /\ c.at \in {"zero", "map", "insert"} =>
          c.pages \in Loose(g, pr, T) /\ g[c.pages] = PagesFor(c.bytes)
    /\ c.at \in {"pages", "zero"} => c.mapped = 0
    /\ c.at = "map" => c.mapped <= PagesFor(c.bytes)
    /\ c.at = "insert" => c.mapped = PagesFor(c.bytes) + 1
    /\ c.at \in {"map", "insert"} /\ ~ m.fault =>
          \A i \in 0 .. PagesFor(c.bytes) - 1 :
             i < c.mapped => Leads(m, T[NULL], lev, lab, (n + i) * PS_4K, c.pages + i)

Backing(m, g, pr, T, lev, v, c) ==
    \E n \in Nat : \E lab, pg :
       /\ v = n * PS_4K /\ Placed(m, T[NULL], lev, lab)
       /\ HeapPages(m, g, pr, T, lev, lab, n, pg, c) /\ Growing(m, g, pr, T, lev, lab, n, c)

BackInv ==
    \E T, lev : /\ Owns(mem, granted, proc, T, lev)
                /\ Backing(mem, granted, proc, T, lev, kernel_heap_vaddr, call)

LEMMA LeadsStill ==
    ASSUME NEW m, NEW m1, NEW K, NEW lev, NEW lev1, NEW lab,
           \A t \in K : lev1[t] = lev[t] /\ m1.tables[t] = m.tables[t],
           NEW va \in Nat, NEW p, Leads(m, K, lev, lab, va, p)
    PROVE  Leads(m1, K, lev1, lab, va, p)
<1>1. PICK x : va \div PS_4K # x
    <2>1. va \div PS_4K \in Nat
        BY Sizes1, DivIs
    <2>2. va \div PS_4K # (va \div PS_4K) + 1
        BY <2>1
    <2> QED
        BY <2>2
<1>2. Extends(m, m1, K, lev, lab, x)
    BY DEF Extends
<1>3. \A t \in K : lev1[t] = lev[t] /\ lab[t] = lab[t]
    OBVIOUS
<1> QED
    BY <1>1, <1>2, <1>3, LeadsKept

LEMMA AddressIs == \A j \in Nat : j * PS_4K \in Nat /\ (j * PS_4K) \div PS_4K = j /\ (j * PS_4K) % PS_4K = 0
BY Sizes1, TimesDiv

LEMMA HeapPagesQuiet ==
    ASSUME NEW m, NEW g, NEW pr, NEW T, NEW lev, Owns(m, g, pr, T, lev),
           NEW m1, NEW g1, NEW pr1, NEW T1, NEW lev1, Quiet(m, g, pr, T, lev, m1, g1, pr1, T1, lev1),
           NEW n \in Nat, NEW lab, NEW pg, NEW c, NEW c1, Placed(m, T[NULL], lev, lab),
           HeapPages(m, g, pr, T, lev, lab, n, pg, c),
           c1.pages = c.pages \/ c1.pages \notin DOMAIN g
    PROVE  /\ Placed(m1, T1[NULL], lev1, lab)
           /\ HeapPages(m1, g1, pr1, T1, lev1, lab, n, pg, c1)
<1>1. /\ T1[NULL] = T[NULL]
      /\ \A t \in T[NULL] : lev1[t] = lev[t] /\ m1.tables[t] = m.tables[t]
    BY DEF Quiet
<1>2. Placed(m1, T1[NULL], lev1, lab)
    BY <1>1 DEF Placed
<1>3. \A j \in 0 .. n - 1 : Leads(m1, T1[NULL], lev1, lab, j * PS_4K, pg[j])
    <2> TAKE j \in 0 .. n - 1
    <2>1. PICK va \in Nat : va = j * PS_4K
        BY AddressIs
    <2>2. Leads(m, T[NULL], lev, lab, va, pg[j])
        BY <2>1 DEF HeapPages
    <2>3. Leads(m1, T[NULL], lev1, lab, va, pg[j])
        BY <1>1, <2>2, LeadsStill
    <2> QED
        BY <1>1, <2>1, <2>3
<1>4. \A j \in 0 .. n - 1 : \E e \in Loose(g1, pr1, T1) \ {c1.pages} : Holds(g1, e, pg[j])
    <2> TAKE j \in 0 .. n - 1
    <2>1. PICK e \in Loose(g, pr, T) \ {c.pages} : Holds(g, e, pg[j])
        BY DEF HeapPages
    <2>2. e \in DOMAIN g
        BY DEF Loose
    <2>3. e \in Loose(g1, pr1, T1) /\ g1[e] = g[e]
        BY DEF Quiet, Spared
    <2> QED
        BY <2>1, <2>2, <2>3 DEF Holds
<1> QED
    BY <1>2, <1>3, <1>4 DEF HeapPages

LEMMA GrowingQuiet ==
    ASSUME NEW m, NEW g, NEW pr, NEW T, NEW lev, Owns(m, g, pr, T, lev), ~ m.fault,
           NEW m1, NEW g1, NEW pr1, NEW T1, NEW lev1, Quiet(m, g, pr, T, lev, m1, g1, pr1, T1, lev1),
           NEW n \in Nat, NEW lab, NEW c \in Call, Growing(m, g, pr, T, lev, lab, n, c)
    PROVE  Growing(m1, g1, pr1, T1, lev1, lab, n, c)
<1>1. /\ T1[NULL] = T[NULL]
      /\ \A t \in T[NULL] : lev1[t] = lev[t] /\ m1.tables[t] = m.tables[t]
      /\ \A e \in Loose(g, pr, T) : e \in Loose(g1, pr1, T1) /\ g1[e] = g[e]
    BY DEF Quiet, Spared
<1>2. c.at \in {"zero", "map", "insert"} =>
          c.pages \in Loose(g1, pr1, T1) /\ g1[c.pages] = PagesFor(c.bytes)
    BY <1>1 DEF Growing
<1>3. ASSUME c.at \in {"map", "insert"}, NEW i \in 0 .. PagesFor(c.bytes) - 1, i < c.mapped
      PROVE  Leads(m1, T1[NULL], lev1, lab, (n + i) * PS_4K, c.pages + i)
    <2>1. PICK k \in Nat : k = n + i
        BY PagesForType DEF Call
    <2>2. PICK va \in Nat : va = k * PS_4K
        BY AddressIs
    <2>3. Leads(m, T[NULL], lev, lab, va, c.pages + i)
        BY <1>3, <2>1, <2>2 DEF Growing
    <2>4. Leads(m1, T[NULL], lev1, lab, va, c.pages + i)
        BY <1>1, <2>3, LeadsStill
    <2> QED
        BY <1>1, <2>1, <2>2, <2>4
<1> QED
    BY <1>2, <1>3 DEF Growing

\* A step that does not grow the heap.
LEMMA BackQuiet ==
    ASSUME HeapOK(kernel_heap_vaddr, free, live, call), ~ mem.fault,
           NEW T, NEW lev, Owns(mem, granted, proc, T, lev),
           Backing(mem, granted, proc, T, lev, kernel_heap_vaddr, call),
           Undisturbed(T, lev), kernel_heap_vaddr' = kernel_heap_vaddr, call' = call
    PROVE  BackInv'
<1>1. PICK m1, g1, pr1, T1, lev1 : /\ m1 = mem' /\ g1 = granted' /\ pr1 = proc'
                                   /\ Quiet(mem, granted, proc, T, lev, m1, g1, pr1, T1, lev1)
    BY DEF Undisturbed
<1>2. PICK n, lab, pg :
         /\ n \in Nat /\ kernel_heap_vaddr = n * PS_4K /\ Placed(mem, T[NULL], lev, lab)
         /\ HeapPages(mem, granted, proc, T, lev, lab, n, pg, call)
         /\ Growing(mem, granted, proc, T, lev, lab, n, call)
    BY DEF Backing
<1>3. call \in Call
    BY DEF HeapOK
<1>4. Placed(m1, T1[NULL], lev1, lab) /\ HeapPages(m1, g1, pr1, T1, lev1, lab, n, pg, call)
    BY <1>1, <1>2, HeapPagesQuiet
<1>5. Growing(m1, g1, pr1, T1, lev1, lab, n, call)
    BY <1>1, <1>2, <1>3, GrowingQuiet
<1>6. Owns(m1, g1, pr1, T1, lev1)
    BY <1>1 DEF Quiet
<1>7. Backing(m1, g1, pr1, T1, lev1, kernel_heap_vaddr, call)
    BY <1>2, <1>4, <1>5 DEF Backing
<1> QED
    BY <1>1, <1>6, <1>7 DEF BackInv

\* A step to a call that has mapped nothing.
LEMMA BackCalled ==
    ASSUME NEW T, NEW lev, Owns(mem, granted, proc, T, lev),
           NEW v, NEW c, Backing(mem, granted, proc, T, lev, v, c),
           Undisturbed(T, lev), kernel_heap_vaddr' = v,
           call'.at \in {"idle", "pages"}, call'.mapped = 0, call'.pages \notin DOMAIN granted
    PROVE  BackInv'
<1>1. PICK m1, g1, pr1, c1, T1, lev1 :
         /\ m1 = mem' /\ g1 = granted' /\ pr1 = proc' /\ c1 = call'
         /\ Quiet(mem, granted, proc, T, lev, m1, g1, pr1, T1, lev1)
    BY DEF Undisturbed
<1>2. PICK n, lab, pg :
         /\ n \in Nat /\ v = n * PS_4K /\ Placed(mem, T[NULL], lev, lab)
         /\ HeapPages(mem, granted, proc, T, lev, lab, n, pg, c)
    BY DEF Backing
<1>3. c1.at \in {"idle", "pages"} /\ c1.mapped = 0 /\ c1.pages \notin DOMAIN granted
    BY <1>1
<1>4. Placed(m1, T1[NULL], lev1, lab) /\ HeapPages(m1, g1, pr1, T1, lev1, lab, n, pg, c1)
    BY <1>1, <1>2, <1>3, HeapPagesQuiet
<1>5. Growing(m1, g1, pr1, T1, lev1, lab, n, c1)
    BY <1>3 DEF Growing
<1>6. Owns(m1, g1, pr1, T1, lev1)
    BY <1>1 DEF Quiet
<1>7. Backing(m1, g1, pr1, T1, lev1, v, c1)
    BY <1>2, <1>4, <1>5 DEF Backing
<1> QED
    BY <1>1, <1>6, <1>7 DEF BackInv

LEMMA HeldOnce ==
    ASSUME NEW bk, NEW g, Sized(bk, g), NEW e \in DOMAIN g, NEW f \in DOMAIN g,
           NEW p, Holds(g, e, p), Holds(g, f, p), p \in Pages
    PROVE  e = f
<1>1. /\ e \in Nat /\ f \in Nat /\ p \in Nat /\ g[e] \in Nat /\ g[f] \in Nat
      /\ e < f => e + g[e] <= f
      /\ f < e => f + g[f] <= e
    BY PagesAre DEF Sized
<1>2. PICK a, b \in Nat : a = g[e] /\ b = g[f]
    BY <1>1
<1>3. e <= p /\ p < e + a /\ f <= p /\ p < f + b
    BY <1>2 DEF Holds
<1> QED
    BY <1>1, <1>2, <1>3

LEMMA HoldsFirst ==
    ASSUME NEW bk, NEW g, Sized(bk, g), NEW e \in DOMAIN g
    PROVE  Holds(g, e, e) /\ e \in Pages
BY PagesAre DEF Sized, Holds

LEMMA CountTo ==
    ASSUME NEW N \in Nat
    PROVE  IsFiniteSet(0 .. N - 1) /\ Cardinality(0 .. N - 1) = N
<1>1. 0 \in Int /\ N - 1 \in Int /\ N - 1 - 0 + 1 = N /\ (0 > N - 1 => N = 0)
    OBVIOUS
<1>2. PICK b \in Int : b = N - 1
    BY <1>1
<1>3. /\ IsFiniteSet(0 .. b)
      /\ Cardinality(0 .. b) = IF 0 > b THEN 0 ELSE b - 0 + 1
    BY <1>1, FS_Interval
<1>4. (IF 0 > b THEN 0 ELSE b - 0 + 1) = N
    BY <1>1, <1>2
<1> QED
    BY <1>2, <1>3, <1>4

\* The pages of the call are pages of its own.
LEMMA CallPages ==
    ASSUME NEW bk, NEW g, Sized(bk, g), NEW e \in DOMAIN g, NEW i \in 0 .. g[e] - 1
    PROVE  e + i \in Pages /\ Holds(g, e, e + i) /\ e \in Nat
<1>1. PICK a \in Nat : a = g[e] /\ e \in Nat /\ e + a <= NUM_PAGES
    BY PagesAre DEF Sized
<1>2. e <= e + i /\ e + i < e + a /\ e + i \in Nat
    BY <1>1
<1> QED
    BY <1>1, <1>2, PagesAre DEF Holds

\* The heap's n pages, and behind them the k pages from b on.
More(pg, n, k, b) == [x \in 0 .. n + k - 1 |-> IF x < n THEN pg[x] ELSE b + (x - n)]

\* N pages, none of them twice and none of them the kernel's table.
Unrepeated(f, N) ==
    /\ f \in [0 .. N - 1 -> Pages \ {KernelTable}]
    /\ \A x, y \in 0 .. N - 1 : f[x] = f[y] => x = y

\* No page is twice among the heap's pages and those of the call, nor is the kernel's table.
LEMMA MorePages ==
    ASSUME NEW m, NEW g, Sized(m.bk, g), NEW pr, NEW T, NEW lev, Owns(m, g, pr, T, lev),
           NEW lab, NEW n \in Nat, NEW pg, NEW c, HeapPages(m, g, pr, T, lev, lab, n, pg, c),
           c.pages \in Loose(g, pr, T), NEW k \in Nat, k = g[c.pages]
    PROVE  Unrepeated(More(pg, n, k, c.pages), n + k)
<1> DEFINE b == c.pages
           f == More(pg, n, k, b)
           S == 0 .. n + k - 1
           P == Pages \ {KernelTable}
<1>1. b \in DOMAIN g /\ KernelTable \in DOMAIN g /\ KernelTable \in T[NULL] /\ NULL \in Users
    BY DEF Owns, Loose, Users
<1>2. \A e \in Loose(g, pr, T) : e \in DOMAIN g /\ e # KernelTable
    BY <1>1 DEF Loose
<1>3. pg \in [0 .. n - 1 -> Pages]
    BY DEF HeapPages
<1>4. ASSUME NEW x \in 0 .. n - 1
      PROVE  pg[x] \in P /\ ~ Holds(g, b, pg[x])
    <2>1. PICK e \in Loose(g, pr, T) \ {c.pages} : Holds(g, e, pg[x])
        BY DEF HeapPages
    <2>2. pg[x] \in Pages
        BY <1>3
    <2>3. ~ Holds(g, b, pg[x])
        BY <1>1, <1>2, <2>1, <2>2, HeldOnce
    <2>4. pg[x] # KernelTable
        <3>1. Holds(g, KernelTable, KernelTable)
            BY <1>1, HoldsFirst
        <3>2. e \in DOMAIN g /\ e # KernelTable
            BY <1>2
        <3> QED
            BY <1>1, <2>1, <2>2, <3>1, <3>2, HeldOnce
    <2> QED
        BY <2>2, <2>3, <2>4
<1> HIDE DEF b
<1>5. ASSUME NEW i \in 0 .. k - 1
      PROVE  b + i \in P /\ Holds(g, b, b + i) /\ b \in Nat
    <2>1. b + i \in Pages /\ Holds(g, b, b + i) /\ b \in Nat
        BY <1>1, CallPages DEF b
    <2>2. Holds(g, KernelTable, KernelTable) /\ b # KernelTable
        BY <1>1, <1>2, HoldsFirst DEF b
    <2>3. b + i # KernelTable
        BY <1>1, <2>1, <2>2, HeldOnce
    <2> QED
        BY <2>1, <2>3
<1>6. \A x \in S : /\ x < n => x \in 0 .. n - 1
                   /\ ~ (x < n) => x - n \in 0 .. k - 1
    OBVIOUS
<1>7. \A x \in S : f[x] = IF x < n THEN pg[x] ELSE b + (x - n)
    BY DEF More
<1>8. f = [x \in S |-> f[x]]
    BY DEF More
<1> HIDE DEF f
<1>9. \A x \in S : f[x] \in P
    BY <1>4, <1>5, <1>6, <1>7
<1>10. ASSUME NEW x \in S, NEW y \in S, f[x] = f[y] PROVE x = y
    <2>1. CASE x < n /\ y < n
        <3>1. pg[x] = pg[y] /\ x \in 0 .. n - 1 /\ y \in 0 .. n - 1
            BY <1>6, <1>7, <1>10, <2>1
        <3> QED
            BY <3>1 DEF HeapPages
    <2>2. CASE x < n /\ ~ (y < n)
        BY <1>4, <1>5, <1>6, <1>7, <1>10, <2>2
    <2>3. CASE ~ (x < n) /\ y < n
        BY <1>4, <1>5, <1>6, <1>7, <1>10, <2>3
    <2>4. CASE ~ (x < n) /\ ~ (y < n)
        <3>1. b + (x - n) = b + (y - n) /\ b \in Nat
            BY <1>5, <1>6, <1>7, <1>10, <2>4
        <3> QED
            BY <3>1
    <2> QED
        BY <2>1, <2>2, <2>3, <2>4
<1>11. f \in [S -> P]
    BY <1>8, <1>9
<1> QED
    BY <1>10, <1>11 DEF f, b, Unrepeated

LEMMA HeapCount ==
    ASSUME NEW m, NEW g, Sized(m.bk, g), NEW pr, NEW T, NEW lev, Owns(m, g, pr, T, lev),
           NEW lab, NEW n \in Nat, NEW pg, NEW c, HeapPages(m, g, pr, T, lev, lab, n, pg, c),
           c.pages \in Loose(g, pr, T), NEW k \in Nat, k = g[c.pages]
    PROVE  n + k < NUM_PAGES
<1> DEFINE S == 0 .. n + k - 1
           P == Pages \ {KernelTable}
<1>9. PICK f : Unrepeated(f, n + k)
    BY MorePages
<1>10. f \in [S -> P] /\ \A x, y \in S : f[x] = f[y] => x = y
    BY <1>9 DEF Unrepeated
<1>11. f \in Injection(S, P)
    BY <1>10 DEF Injection, IsInjective
<1>12. IsFiniteSet(Pages) /\ Cardinality(Pages) = NUM_PAGES
    BY PagesAre, FS_Interval
<1>13. KernelTable \in Pages
    BY HoldsFirst DEF Owns, Users
<1>14. IsFiniteSet(P) /\ Cardinality(P) = NUM_PAGES - 1
    BY <1>12, <1>13, FS_RemoveElement
<1>15. Cardinality(S) <= NUM_PAGES - 1
    <2> HIDE DEF S, P
    <2> QED
        BY <1>11, <1>14, FS_Injection
<1>16. Cardinality(S) = n + k
    <2>1. n + k \in Nat
        OBVIOUS
    <2> QED
        BY <2>1, CountTo
<1> QED
    BY <1>15, <1>16, PagesAre

LEMMA GrowPagesBacks ==
    ASSUME IInv, BackInv, GrowPages
    PROVE  BackInv'
<1>1. PICK T, lev : /\ Owns(mem, granted, proc, T, lev)
                    /\ Backing(mem, granted, proc, T, lev, kernel_heap_vaddr, call)
    BY DEF BackInv
<1>2. PICK m1, g1, pr1, c1 : /\ m1 = mem' /\ g1 = granted' /\ pr1 = proc' /\ c1 = call'
                             /\ kernel_heap_vaddr' = kernel_heap_vaddr
    BY DEF GrowPages, heap_vars
<1>3. /\ Quiet(mem, granted, proc, T, lev, m1, g1, pr1, T, lev)
      /\ \/ c1 = NoCall
         \/ /\ c1.at = "zero" /\ c1.bytes = call.bytes /\ c1.mapped = call.mapped
            /\ c1.pages \in Loose(g1, pr1, T) \ DOMAIN granted
            /\ g1[c1.pages] = PagesFor(call.bytes)
    BY <1>1, <1>2, GrowPagesKeeps
<1>4. NULL \notin DOMAIN granted
    BY PagesAre DEF IInv, Sound, Sized
<1>5. CASE c1 = NoCall
    <2>1. c1.at = "idle" /\ c1.mapped = 0 /\ c1.pages \notin DOMAIN granted
        BY <1>4, <1>5 DEF NoCall
    <2>2. Undisturbed(T, lev)
        BY <1>2, <1>3 DEF Undisturbed
    <2> QED
        BY <1>1, <1>2, <2>1, <2>2, BackCalled
<1>6. CASE c1 # NoCall
    <2>1. /\ c1.at = "zero" /\ c1.bytes = call.bytes /\ c1.mapped = call.mapped
          /\ c1.pages \in Loose(g1, pr1, T) /\ c1.pages \notin DOMAIN granted
          /\ g1[c1.pages] = PagesFor(call.bytes)
        BY <1>3, <1>6
    <2>2. PICK n, lab, pg :
             /\ n \in Nat /\ kernel_heap_vaddr = n * PS_4K /\ Placed(mem, T[NULL], lev, lab)
             /\ HeapPages(mem, granted, proc, T, lev, lab, n, pg, call)
             /\ Growing(mem, granted, proc, T, lev, lab, n, call)
        BY <1>1 DEF Backing
    <2>3. Placed(m1, T[NULL], lev, lab) /\ HeapPages(m1, g1, pr1, T, lev, lab, n, pg, c1)
        BY <1>1, <1>3, <2>1, <2>2, HeapPagesQuiet
    <2>4. call.at = "pages"
        BY DEF GrowPages
    <2>5. Growing(m1, g1, pr1, T, lev, lab, n, c1)
        BY <2>1, <2>2, <2>4 DEF Growing
    <2>6. Backing(m1, g1, pr1, T, lev, kernel_heap_vaddr, c1)
        BY <2>2, <2>3, <2>5 DEF Backing
    <2>7. Owns(m1, g1, pr1, T, lev)
        BY <1>3 DEF Quiet
    <2> QED
        BY <1>2, <2>6, <2>7 DEF BackInv
<1> QED
    BY <1>5, <1>6

LEMMA GrowZeroBacks ==
    ASSUME IInv, BackInv, GrowZero
    PROVE  BackInv'
<1>1. PICK T, lev : /\ Owns(mem, granted, proc, T, lev)
                    /\ Backing(mem, granted, proc, T, lev, kernel_heap_vaddr, call)
    BY DEF BackInv
<1>2. PICK m1, c1 : /\ m1 = mem' /\ granted' = granted /\ proc' = proc /\ c1 = call'
                    /\ kernel_heap_vaddr' = kernel_heap_vaddr /\ call.at = "zero"
                    /\ m1 = zero_pages(mem, call.pages) /\ c1 = [call EXCEPT !.at = "map"]
    BY DEF GrowZero, heap_vars
<1>3. PICK n, lab, pg :
         /\ n \in Nat /\ kernel_heap_vaddr = n * PS_4K /\ Placed(mem, T[NULL], lev, lab)
         /\ HeapPages(mem, granted, proc, T, lev, lab, n, pg, call)
         /\ Growing(mem, granted, proc, T, lev, lab, n, call)
    BY <1>1 DEF Backing
<1>4. /\ call \in Call /\ IsMemory(mem) /\ Sized(mem.bk, granted) /\ mem.bk \in Bookkeeping
    BY DEF IInv, HeapOK, Sound, IsMemory
<1>5. /\ call.pages \in Loose(granted, proc, T) /\ granted[call.pages] = PagesFor(call.bytes)
      /\ call.mapped = 0
    BY <1>2, <1>3 DEF Growing
<1>6. /\ c1.at = "map" /\ c1.pages = call.pages /\ c1.bytes = call.bytes /\ c1.mapped = 0
    BY <1>2, <1>4, <1>5 DEF Call
<1>7. PICK b, k : b = call.pages /\ k = granted[b] /\ k = PagesFor(call.bytes) /\ k \in Nat \ {0}
                  /\ b \in DOMAIN granted
    BY <1>4, <1>5, PagesForType DEF Call, Loose
<1>8. get_num_pages(mem.bk, b) = k
    BY <1>4, <1>7, NumPagesOf
<1>9. /\ IsMemory(m1) /\ m1.bk = mem.bk
      /\ \A q \in Pages : m1.tables[q] \in {mem.tables[q], ZeroPage}
    BY <1>2, <1>4, ZeroedIs
<1>10. \A q \in Pages : q \notin b .. b + k - 1 => m1.tables[q] = mem.tables[q]
    <2>1. m1 = zero_pages(mem, b)
        BY <1>2, <1>7
    <2>2. \A q \in Pages : q \notin b .. b + get_num_pages(mem.bk, b) - 1
                 => m1.tables[q] = mem.tables[q]
        BY <1>4, <2>1, ZeroedIs
    <2> QED
        BY <1>8, <2>2
<1>11. \A t \in T[NULL] : m1.tables[t] = mem.tables[t]
    <2> TAKE t \in T[NULL]
    <2>1. t \in DOMAIN granted /\ t # b
        BY <1>1, <1>5, <1>7 DEF Owns, Loose, Users
    <2>2. t \in Pages /\ Holds(granted, t, t)
        BY <1>4, <2>1, HoldsFirst
    <2>3. ~ Holds(granted, b, t)
        BY <1>4, <1>7, <2>1, <2>2, HeldOnce
    <2>4. b \in Nat /\ t \in Nat
        BY <1>4, <1>7, <2>2, PagesAre DEF Sized
    <2>5. t \notin b .. b + k - 1
        BY <1>7, <2>3, <2>4 DEF Holds
    <2> QED
        BY <1>10, <2>2, <2>5
<1>12. Quiet(mem, granted, proc, T, lev, m1, granted, proc, T, lev)
    BY <1>1, <1>4, <1>9, <1>11, QuietZeroed
<1>13. Placed(m1, T[NULL], lev, lab) /\ HeapPages(m1, granted, proc, T, lev, lab, n, pg, c1)
    BY <1>1, <1>3, <1>6, <1>12, HeapPagesQuiet
<1>14. Growing(m1, granted, proc, T, lev, lab, n, c1)
    <2>1. PagesFor(call.bytes) \in Nat
        BY <1>7
    <2>2. \A i \in 0 .. PagesFor(call.bytes) - 1 : ~ (i < 0)
        BY <2>1
    <2> QED
        BY <1>5, <1>6, <2>1, <2>2 DEF Growing
<1>15. Backing(m1, granted, proc, T, lev, kernel_heap_vaddr, c1)
    BY <1>3, <1>13, <1>14 DEF Backing
<1>16. Owns(m1, granted, proc, T, lev)
    BY <1>12 DEF Quiet
<1> QED
    BY <1>2, <1>15, <1>16 DEF BackInv

\* The pages of the heap come before those of the call, which are fewer than all pages: their
\* addresses are among those that the kernel's table could map.
LEMMA AddressFits ==
    ASSUME NEW x \in Nat, x < NUM_PAGES
    PROVE  /\ x * PS_4K \in Nat /\ (x * PS_4K) \div PS_4K = x
           /\ x * PS_4K < Span[LEVELS]
<1>1. PICK P, M \in Nat \ {0} : P = PS_4K /\ M = NUM_PAGES /\ M * P <= Span[LEVELS]
    BY MemoryAssumption, Sizes1, PagesAre
<1>2. PICK S \in Nat : S = Span[LEVELS]
    <2>1. LEVELS \in 0 .. LEVELS
        BY SpanIs
    <2> QED
        BY <2>1, SpanIs
<1>3. x + 1 \in Nat /\ x + 1 <= M
    BY <1>1
<1>4. P * (x + 1) <= P * M /\ P * (x + 1) = P * x + P * 1
    BY <1>1, <1>3, ProductGrows, Distribute
<1>5. PICK y, z \in Nat : y = P * x /\ z = P * M
    BY <1>1
<1>6. y = x * P /\ z = M * P
    BY <1>1, <1>5
<1>7. P * 1 = P
    BY <1>1
<1>8. y + P <= z /\ z <= S
    BY <1>1, <1>2, <1>4, <1>5, <1>6, <1>7
<1>9. y < S
    BY <1>1, <1>8
<1> QED
    BY <1>1, <1>2, <1>5, <1>6, <1>9, AddressIs

\* The page that mmu_map_many maps for the page at v.
LEMMA MappedOf ==
    ASSUME NEW n \in Nat, NEW k \in Nat
    PROVE  PagesMapped(n * PS_4K, k * PS_4K) = k + 1 /\ n * PS_4K + k * PS_4K = (n + k) * PS_4K
<1>1. n * PS_4K + k * PS_4K = (n + k) * PS_4K
    BY Sizes1, MultipleSum
<1>2. ((n + k) * PS_4K) \div PS_4K = n + k /\ (n * PS_4K) \div PS_4K = n
    <2>1. n + k \in Nat
        OBVIOUS
    <2> QED
        BY <2>1, AddressIs
<1>3. PagesMapped(n * PS_4K, k * PS_4K)
          = (n * PS_4K + k * PS_4K) \div PS_4K - (n * PS_4K) \div PS_4K + 1
    BY DEF PagesMapped
<1>4. PagesMapped(n * PS_4K, k * PS_4K) = n + k - n + 1
    BY <1>1, <1>2, <1>3
<1> QED
    BY <1>1, <1>4

\* The call's next page is mapped.
CallMapped(c, k, c1) ==
    /\ c1.pages = c.pages /\ c1.bytes = c.bytes /\ c1.mapped = c.mapped + 1
    /\ c1.at = IF c.mapped = k THEN "insert" ELSE "map"

LEMMA GrowMapCall ==
    ASSUME IInv, GrowMap, NEW n \in Nat, kernel_heap_vaddr = n * PS_4K,
           NEW k \in Nat, k = PagesFor(call.bytes)
    PROVE  CallMapped(call, k, call')
<1>1. call \in Call
    BY DEF IInv, HeapOK
<1>2. PagesMapped(kernel_heap_vaddr, HeapBytes(call.bytes)) = k + 1
    BY MappedOf DEF HeapBytes
<1>3. PICK i \in Nat : i = call.mapped
    BY <1>1 DEF Call
<1>4. PICK at, j : /\ call' = [call EXCEPT !.mapped = j, !.at = at] /\ j = i + 1
                   /\ at = IF i + 1 = k + 1 THEN "insert" ELSE "map"
    BY <1>2, <1>3 DEF GrowMap
<1>5. i + 1 = k + 1 <=> i = k
    OBVIOUS
<1>6. /\ call'.pages = call.pages /\ call'.bytes = call.bytes /\ call'.mapped = j /\ call'.at = at
    BY <1>1, <1>4 DEF Call
<1> QED
    BY <1>3, <1>4, <1>5, <1>6 DEF CallMapped

LEMMA GrowMapBacks ==
    ASSUME IInv, ~ mem.fault, BackInv, GrowMap
    PROVE  BackInv'
<1>1. PICK T, lev : /\ Owns(mem, granted, proc, T, lev)
                    /\ Backing(mem, granted, proc, T, lev, kernel_heap_vaddr, call)
    BY DEF BackInv
<1>2. PICK n, lab, pg :
         /\ n \in Nat /\ kernel_heap_vaddr = n * PS_4K /\ Placed(mem, T[NULL], lev, lab)
         /\ HeapPages(mem, granted, proc, T, lev, lab, n, pg, call)
         /\ Growing(mem, granted, proc, T, lev, lab, n, call)
    BY <1>1 DEF Backing
<1>3. /\ call \in Call /\ IsMemory(mem) /\ Sized(mem.bk, granted) /\ call.at = "map"
      /\ kernel_heap_vaddr' = kernel_heap_vaddr /\ proc' = proc /\ NULL \in Users
    BY DEF IInv, HeapOK, Sound, GrowMap, heap_vars, Users
<1>4. PICK b, k, i : /\ b = call.pages /\ k = PagesFor(call.bytes) /\ i = call.mapped
                     /\ k \in Nat \ {0} /\ i \in Nat /\ i <= k
                     /\ b \in Loose(granted, proc, T) /\ granted[b] = k /\ b \in Nat
    <2>1. /\ call.pages \in Loose(granted, proc, T) /\ granted[call.pages] = PagesFor(call.bytes)
          /\ call.mapped <= PagesFor(call.bytes)
        BY <1>2, <1>3 DEF Growing
    <2>2. call.pages \in DOMAIN granted /\ DOMAIN granted \subseteq Pages
        BY <1>3, <2>1 DEF Loose, Sized
    <2>3. call.pages \in Nat /\ call.mapped \in Nat /\ PagesFor(call.bytes) \in Nat \ {0}
        BY <1>3, <2>2, PagesAre, PagesForType DEF Call
    <2> QED
        BY <2>1, <2>3
<1>5. n + k < NUM_PAGES
    BY <1>1, <1>2, <1>3, <1>4, HeapCount
<1>6. PICK x, va : /\ x = n + i /\ x \in Nat /\ va = x * PS_4K /\ va \in Nat
                   /\ va \div PS_4K = x /\ va < Span[LEVELS]
                   /\ va = kernel_heap_vaddr + call.mapped * PS_4K
    <2>1. n + i \in Nat /\ n + i < NUM_PAGES
        BY <1>2, <1>4, <1>5, PagesAre
    <2>2. n * PS_4K + i * PS_4K = (n + i) * PS_4K
        BY <1>2, <1>4, Sizes1, MultipleSum
    <2> QED
        BY <1>2, <1>4, <2>1, <2>2, AddressFits
<1>7. PICK pa : pa = (call.pages + call.mapped) * PS_4K /\ pa \div PS_4K = b + i
    <2>1. b + i \in Nat
        BY <1>4
    <2> QED
        BY <1>4, <2>1, AddressIs
<1>8. PICK r, g1 : /\ r = mmu_map(mem, KernelTable, va, pa, {"R", "W"}) /\ r = mem'
                   /\ g1 = granted' /\ g1 = Grant(Since(mem.bk, r.bk), granted)
    BY <1>6, <1>7 DEF GrowMap, NewTables, Since
<1>9. PICK T1, lev1, lab1 :
         /\ KernelMapped(mem, T, lev, lab, r, T1, lev1, lab1, x)
         /\ ~ r.fault => Leads(r, T1[NULL], lev1, lab1, va, b + i)
    <2>1. /\ Tabled(mem, T, lev) /\ KernelTable \in T[NULL] /\ lev[KernelTable] = LEVELS - 1
        BY <1>1 DEF Owns
    <2>2. {"R", "W"} \cap {"R", "W", "X"} # {}
        OBVIOUS
    <2>3. \E T1, lev1, lab1 :
             /\ KernelMapped(mem, T, lev, lab, r, T1, lev1, lab1, va \div PS_4K)
             /\ ~ r.fault => Leads(r, T1[NULL], lev1, lab1, va, pa \div PS_4K)
        BY <1>2, <1>3, <1>6, <1>8, <2>1, <2>2, KernelMaps
    <2> QED
        BY <1>6, <1>7, <2>3
<1>10. /\ Owns(r, g1, proc, T1, lev1) /\ Spared(granted, proc, T, g1, proc, T1)
    <2>1. Mapped(NULL, mem, T, lev, r, T1, lev1)
        BY <1>9 DEF KernelMapped
    <2> QED
        BY <1>1, <1>3, <1>8, <2>1, OwnsMapped
<1>11. /\ T[NULL] \subseteq T1[NULL] /\ Placed(r, T1[NULL], lev1, lab1)
       /\ \A t \in T[NULL] : lev1[t] = lev[t] /\ lab1[t] = lab[t]
       /\ Extends(mem, r, T[NULL], lev, lab, x)
    BY <1>3, <1>9 DEF KernelMapped, Mapped
<1>12. \A j \in Nat : \A p : j # x /\ Leads(mem, T[NULL], lev, lab, j * PS_4K, p)
                         => Leads(r, T1[NULL], lev1, lab1, j * PS_4K, p)
    <2> SUFFICES ASSUME NEW j \in Nat, NEW p, j # x, Leads(mem, T[NULL], lev, lab, j * PS_4K, p)
                 PROVE  Leads(r, T1[NULL], lev1, lab1, j * PS_4K, p)
        OBVIOUS
    <2>1. PICK a : a = j * PS_4K /\ a \in Nat /\ a \div PS_4K = j
        BY AddressIs
    <2>2. Leads(r, T1[NULL], lev1, lab1, a, p)
        BY <1>11, <2>1, LeadsKept
    <2> QED
        BY <2>1, <2>2
<1>13. PICK c1 : c1 = call' /\ CallMapped(call, k, c1)
    BY <1>2, <1>4, GrowMapCall
<1>14. HeapPages(r, g1, proc, T1, lev1, lab1, n, pg, c1)
    <2>1. \A j \in 0 .. n - 1 : Leads(r, T1[NULL], lev1, lab1, j * PS_4K, pg[j])
        <3> TAKE j \in 0 .. n - 1
        <3>1. j \in Nat /\ j # x
            BY <1>2, <1>4, <1>6
        <3>2. Leads(mem, T[NULL], lev, lab, j * PS_4K, pg[j])
            BY <1>2 DEF HeapPages
        <3> QED
            BY <1>12, <3>1, <3>2
    <2>2. \A j \in 0 .. n - 1 : \E e \in Loose(g1, proc, T1) \ {c1.pages} : Holds(g1, e, pg[j])
        <3> TAKE j \in 0 .. n - 1
        <3>1. PICK e \in Loose(granted, proc, T) \ {call.pages} : Holds(granted, e, pg[j])
            BY <1>2 DEF HeapPages
        <3>2. e \in Loose(g1, proc, T1) /\ g1[e] = granted[e] /\ e # c1.pages
            BY <1>10, <1>13, <3>1 DEF Spared, CallMapped
        <3> QED
            BY <3>1, <3>2 DEF Holds
    <2> QED
        BY <1>2, <2>1, <2>2 DEF HeapPages
<1>15. Growing(r, g1, proc, T1, lev1, lab1, n, c1)
    <2>1. /\ c1.pages = b /\ PagesFor(c1.bytes) = k /\ c1.mapped = i + 1
          /\ c1.at = IF i = k THEN "insert" ELSE "map"
        BY <1>4, <1>13 DEF CallMapped
    <2>2. b \in Loose(g1, proc, T1) /\ g1[b] = k
        BY <1>4, <1>10 DEF Spared
    <2>3. ASSUME ~ r.fault, NEW j \in 0 .. k - 1, j < i + 1
          PROVE  Leads(r, T1[NULL], lev1, lab1, (n + j) * PS_4K, b + j)
        <3>1. CASE j = i
            BY <1>6, <1>9, <2>3, <3>1
        <3>2. CASE j # i
            <4>1. j < i /\ j \in 0 .. k - 1 /\ n + j \in Nat /\ n + j # x
                BY <1>2, <1>4, <1>6, <2>3, <3>2
            <4>2. Leads(mem, T[NULL], lev, lab, (n + j) * PS_4K, b + j)
                BY <1>2, <1>3, <1>4, <4>1 DEF Growing
            <4> QED
                BY <1>12, <4>1, <4>2
        <3> QED
            BY <3>1, <3>2
    <2>4. (c1.at = "map" => i + 1 <= k) /\ (c1.at = "insert" => i + 1 = k + 1)
        BY <1>4, <2>1
    <2>5. c1.at \notin {"pages", "zero"}
        BY <2>1
    <2> QED
        BY <2>1, <2>2, <2>3, <2>4, <2>5 DEF Growing
<1>16. Backing(r, g1, proc, T1, lev1, kernel_heap_vaddr, c1)
    BY <1>2, <1>11, <1>14, <1>15 DEF Backing
<1>17. r = mem' /\ g1 = granted' /\ proc' = proc /\ c1 = call' /\ kernel_heap_vaddr' = kernel_heap_vaddr
    BY <1>3, <1>8, <1>13
<1> QED
    BY <1>10, <1>16, <1>17 DEF BackInv

LEMMA Parts ==
    ASSUME NEW n \in Nat, NEW k \in Nat, NEW w \in Nat, w = n + k, NEW x \in 0 .. w - 1
    PROVE  IF x < n THEN x \in 0 .. n - 1 ELSE x - n \in 0 .. k - 1 /\ n + (x - n) = x
OBVIOUS

\* The new pages are the heap's.
LEMMA GrowInsertBacks ==
    ASSUME IInv, ~ mem.fault, BackInv, GrowInsert
    PROVE  BackInv'
<1>1. PICK T, lev : /\ Owns(mem, granted, proc, T, lev)
                    /\ Backing(mem, granted, proc, T, lev, kernel_heap_vaddr, call)
    BY DEF BackInv
<1>2. PICK n, lab, pg :
         /\ n \in Nat /\ kernel_heap_vaddr = n * PS_4K /\ Placed(mem, T[NULL], lev, lab)
         /\ HeapPages(mem, granted, proc, T, lev, lab, n, pg, call)
         /\ Growing(mem, granted, proc, T, lev, lab, n, call)
    BY <1>1 DEF Backing
<1>3. /\ call \in Call /\ Sized(mem.bk, granted) /\ call.at = "insert" /\ call' = NoCall
      /\ kernel_heap_vaddr' = kernel_heap_vaddr + HeapBytes(call.bytes)
    BY DEF IInv, HeapOK, Sound, GrowInsert, Return
<1>4. PICK b, k : /\ b = call.pages /\ k = PagesFor(call.bytes) /\ k \in Nat \ {0}
                  /\ call.mapped = k + 1 /\ b \in Loose(granted, proc, T) /\ granted[b] = k
    <2>1. /\ call.pages \in Loose(granted, proc, T) /\ granted[call.pages] = PagesFor(call.bytes)
          /\ call.mapped = PagesFor(call.bytes) + 1
        BY <1>2, <1>3 DEF Growing
    <2>2. PagesFor(call.bytes) \in Nat \ {0}
        BY <1>3, PagesForType DEF Call
    <2> QED
        BY <2>1, <2>2
<1>5. b \in DOMAIN granted /\ b # NULL /\ b \in Nat
    BY <1>3, <1>4, PagesAre DEF Loose, Sized
<1>6. NULL \notin Loose(granted, proc, T) /\ NULL \notin DOMAIN granted
    BY <1>3, PagesAre DEF Loose, Sized
<1>7. PICK w : w \in Nat /\ w = n + k /\ kernel_heap_vaddr' = w * PS_4K
    <2>1. n * PS_4K + k * PS_4K = (n + k) * PS_4K /\ n + k \in Nat
        BY <1>2, <1>4, MappedOf
    <2> QED
        BY <1>2, <1>3, <1>4, <2>1 DEF HeapBytes
<1>8. PICK f : f = More(pg, n, k, b) /\ Unrepeated(f, w)
    <2>1. Unrepeated(More(pg, n, k, b), n + k)
        BY <1>1, <1>2, <1>3, <1>4, MorePages
    <2> QED
        BY <1>7, <2>1
<1>9. \A x \in 0 .. w - 1 : f[x] = IF x < n THEN pg[x] ELSE b + (x - n)
    <2>1. n + k - 1 = w - 1
        BY <1>2, <1>4, <1>7
    <2>2. f = [x \in 0 .. w - 1 |-> IF x < n THEN pg[x] ELSE b + (x - n)]
        BY <1>8, <2>1 DEF More
    <2> QED
        BY <2>2
<1>10. \A x \in 0 .. w - 1 : IF x < n THEN x \in 0 .. n - 1
                               ELSE x - n \in 0 .. k - 1 /\ n + (x - n) = x
    BY <1>2, <1>4, <1>7, Parts
<1>11. \A x \in 0 .. w - 1 : Leads(mem, T[NULL], lev, lab, x * PS_4K, f[x])
    <2> TAKE x \in 0 .. w - 1
    <2>1. CASE x < n
        <3>1. x \in 0 .. n - 1 /\ f[x] = pg[x]
            BY <1>9, <1>10, <2>1
        <3> QED
            BY <1>2, <3>1 DEF HeapPages
    <2>2. CASE ~ (x < n)
        <3>1. PICK i \in 0 .. k - 1 : i = x - n /\ n + i = x /\ f[x] = b + i
            BY <1>9, <1>10, <2>2
        <3>2. i < call.mapped
            BY <1>4
        <3>3. Leads(mem, T[NULL], lev, lab, (n + i) * PS_4K, b + i)
            BY <1>2, <1>3, <1>4, <3>2 DEF Growing
        <3> QED
            BY <3>1, <3>3
    <2> QED
        BY <2>1, <2>2
<1>12. \A x \in 0 .. w - 1 :
          \E e \in Loose(granted, proc, T) \ {NoCall.pages} : Holds(granted, e, f[x])
    <2> TAKE x \in 0 .. w - 1
    <2>0. NoCall.pages = NULL
        BY DEF NoCall
    <2>1. CASE x < n
        <3>1. x \in 0 .. n - 1 /\ f[x] = pg[x]
            BY <1>9, <1>10, <2>1
        <3>2. PICK e \in Loose(granted, proc, T) : Holds(granted, e, pg[x])
            BY <1>2, <3>1 DEF HeapPages
        <3> QED
            BY <1>6, <2>0, <3>1, <3>2
    <2>2. CASE ~ (x < n)
        <3>1. PICK i \in 0 .. k - 1 : i = x - n /\ f[x] = b + i
            BY <1>9, <1>10, <2>2
        <3>2. Holds(granted, b, b + i)
            BY <1>3, <1>4, <1>5, CallPages
        <3> QED
            BY <1>4, <1>6, <2>0, <3>1, <3>2
    <2> QED
        BY <2>1, <2>2
<1>13. HeapPages(mem, granted, proc, T, lev, lab, w, f, NoCall)
    BY <1>8, <1>11, <1>12 DEF HeapPages, Unrepeated
<1>14. Growing(mem, granted, proc, T, lev, lab, w, NoCall)
    BY DEF Growing, NoCall
<1>15. PICK v : v = kernel_heap_vaddr' /\ v = w * PS_4K
    BY <1>7
<1>16. Backing(mem, granted, proc, T, lev, v, NoCall)
    BY <1>2, <1>7, <1>13, <1>14, <1>15 DEF Backing
<1>17. Undisturbed(T, lev)
    BY <1>1, GrowInsertKeeps
<1>18. call'.at = "idle" /\ call'.mapped = 0 /\ call'.pages \notin DOMAIN granted
    BY <1>3, <1>6 DEF NoCall
<1> QED
    BY <1>1, <1>15, <1>16, <1>17, <1>18, BackCalled

-----------------------------------------------------------------------------
(* The first page of the heap. *)

\* At most k pages are taken.
FewTaken(bk, k) ==
    \E D : IsFiniteSet(D) /\ Cardinality(D) <= k /\ \A i \in Pages : bk[i].taken => i \in D

LEMMA FewLeave ==
    ASSUME NEW bk \in Bookkeeping, NEW k \in Nat, k < NUM_PAGES, FewTaken(bk, k)
    PROVE  page_alloc(bk, 1) # NULL
<1>1. PICK D : IsFiniteSet(D) /\ Cardinality(D) <= k /\ \A i \in Pages : bk[i].taken => i \in D
    BY DEF FewTaken
<1>2. Cardinality(Pages) = NUM_PAGES /\ NUM_PAGES \in Nat
    BY CountTo, PagesAre
<1>3. ~ (Pages \subseteq D)
    <2> SUFFICES ASSUME Pages \subseteq D PROVE FALSE
        OBVIOUS
    <2>1. Cardinality(Pages) <= Cardinality(D) /\ Cardinality(D) \in Nat
        BY <1>1, FS_Subset, FS_CardinalityType
    <2> QED
        BY <1>1, <1>2, <2>1
<1>4. PICK p \in Pages : ~ bk[p].taken
    BY <1>1, <1>3
<1> QED
    BY <1>4, FreePageFound

\* A turn of mmu_map takes one page at most.
LEMMA TurnFew ==
    ASSUME NEW m, IsMemory(m), ~ m.fault, NEW T, NEW lev, Tabled(m, T, lev), NEW u \in Users,
           NEW i \in 1 .. LEVELS - 1, NEW va, NEW tb \in T[u], lev[tb] = i,
           NEW k \in Nat, k < NUM_PAGES, FewTaken(m.bk, k),
           NEW r, r = MapDown([mem |-> m, tb |-> tb], va, i)
    PROVE  ~ r.mem.fault /\ FewTaken(r.mem.bk, k + 1)
<1>1. MapTurn(u, m, T, lev, tb, vpn(va, i), i, r)
    BY MapDownIs
<1>2. page_alloc(m.bk, 1) # NULL
    BY FewLeave DEF IsMemory
<1>3. PICK D : IsFiniteSet(D) /\ Cardinality(D) <= k /\ \A p \in Pages : m.bk[p].taken => p \in D
    BY DEF FewTaken
<1>4. Cardinality(D) \in Nat /\ Cardinality(D) <= k + 1
    BY <1>3, FS_CardinalityType
<1>5. r.mem = m \/ \E new : Fresh(u, m, T, lev, tb, vpn(va, i), i, r, new)
    BY <1>1, <1>2 DEF MapTurn
<1>6. CASE r.mem = m
    <2>1. FewTaken(m.bk, k + 1)
        BY <1>3, <1>4 DEF FewTaken
    <2> QED
        BY <1>6, <2>1
<1>7. CASE \E new : Fresh(u, m, T, lev, tb, vpn(va, i), i, r, new)
    <2>1. PICK new : /\ new \in Pages /\ r.mem.fault = m.fault /\ r.mem.bk = Taken(m.bk, new, 1)
        BY <1>7 DEF Fresh
    <2>2. \A p \in Pages : r.mem.bk[p] = IF new <= p /\ p < new + 1
                                        THEN [taken |-> TRUE, last |-> p = new + 1 - 1]
                                        ELSE m.bk[p]
        BY <2>1, TakenIs DEF IsMemory
    <2>3. \A p \in Pages : r.mem.bk[p].taken => p \in D \cup {new}
        <3> TAKE p \in Pages
        <3>1. CASE p = new
            BY <3>1
        <3>2. CASE p # new
            <4>1. ~ (new <= p /\ p < new + 1)
                BY <2>1, <3>2, PagesAre
            <4> QED
                BY <1>3, <2>2, <4>1
        <3> QED
            BY <3>1, <3>2
    <2>4. IsFiniteSet(D \cup {new}) /\ Cardinality(D \cup {new}) <= k + 1
        <3>1. /\ IsFiniteSet(D \cup {new})
              /\ \/ Cardinality(D \cup {new}) = Cardinality(D)
                 \/ Cardinality(D \cup {new}) = Cardinality(D) + 1
            BY <1>3, FS_AddElement
        <3> QED
            BY <1>3, <1>4, <3>1
    <2> QED
        BY <2>1, <2>3, <2>4 DEF FewTaken
<1> QED
    BY <1>5, <1>6, <1>7

\* mmu_map finds the pages for its tables while only two are taken.
LEMMA MapFew ==
    ASSUME NEW m, IsMemory(m), ~ m.fault, NEW T, NEW lev, Tabled(m, T, lev), NEW u \in Users,
           NEW tb \in T[u], lev[tb] = LEVELS - 1, NEW va, NEW pa, NEW bits, FewTaken(m.bk, 2),
           NEW r, r = mmu_map(m, tb, va, pa, bits)
    PROVE  ~ r.fault
<1> DEFINE walk == CHOOSE f : f = [n \in 0 .. LEVELS - 1 |-> Turn(f, n, m, tb, va)]
           end == walk[LEVELS - 1]
           k == vpn(va, 0)
           e == Entry(pa \div PS_4K, bits)
           S == {n \in Nat : n <= LEVELS - 1 =>
                    /\ WalkedTo(u, m, T, lev, walk[n], LEVELS - 1 - n) /\ ~ walk[n].mem.fault
                    /\ FewTaken(walk[n].mem.bk, n + 2)}
<1>1. LEVELS - 1 \in Nat /\ LEVELS \in Nat /\ LEVELS < NUM_PAGES
    BY MmuAssumption, MemoryAssumption
<1>2. walk = [n \in 0 .. LEVELS - 1 |-> Turn(walk, n, m, tb, va)]
    BY <1>1, TurnsExist
<1>3. r = IF end.mem.fault THEN end.mem
          ELSE [end.mem EXCEPT !.tables[end.tb] = Set(@, k, e)]
    BY DEF mmu_map, Turn
<1> HIDE DEF walk, e
<1>4. 0 \in S
    <2>1. walk[0] = [mem |-> m, tb |-> tb]
        BY <1>1, <1>2 DEF Turn
    <2>2. walk[0].mem = m /\ walk[0].tb = tb /\ LEVELS - 1 - 0 = LEVELS - 1 /\ 0 + 2 = 2
        BY <1>1, <2>1
    <2>3. Mapped(u, m, T, lev, m, T, lev)
        BY MappedSame
    <2>4. WalkedTo(u, m, T, lev, walk[0], LEVELS - 1)
        BY <2>1, <2>2, <2>3 DEF WalkedTo
    <2> QED
        BY <2>2, <2>4
<1>5. ASSUME NEW n \in Nat, n \in S PROVE n + 1 \in S
    <2>1. SUFFICES ASSUME n + 1 <= LEVELS - 1
                   PROVE  /\ WalkedTo(u, m, T, lev, walk[n + 1], LEVELS - 1 - (n + 1))
                          /\ ~ walk[n + 1].mem.fault /\ FewTaken(walk[n + 1].mem.bk, n + 1 + 2)
        OBVIOUS
    <2>2. /\ WalkedTo(u, m, T, lev, walk[n], LEVELS - 1 - n) /\ ~ walk[n].mem.fault
          /\ FewTaken(walk[n].mem.bk, n + 2)
        BY <1>1, <1>5, <2>1
    <2>3. walk[n + 1] = MapDown(walk[n], va, LEVELS - 1 - n)
        <3>1. n + 1 \in 0 .. LEVELS - 1 /\ n + 1 # 0 /\ n + 1 - 1 = n
              /\ LEVELS - (n + 1) = LEVELS - 1 - n
            BY <1>1, <2>1
        <3>2. walk[n + 1] = Turn(walk, n + 1, m, tb, va)
            BY <1>2, <3>1
        <3> QED
            BY <3>1, <3>2 DEF Turn
    <2>4. PICK i \in 1 .. LEVELS - 1 : i = LEVELS - 1 - n /\ i - 1 = LEVELS - 1 - (n + 1)
        BY <1>1, <2>1
    <2>5. WalkedTo(u, m, T, lev, walk[n + 1], i - 1)
        BY <2>2, <2>3, <2>4, MapDownKeeps
    <2>6. PICK x, y, T1, lev1 :
             /\ x = walk[n] /\ y = walk[n + 1] /\ x = [mem |-> x.mem, tb |-> x.tb]
             /\ Mapped(u, m, T, lev, x.mem, T1, lev1) /\ x.tb \in T1[u] /\ lev1[x.tb] = i
        BY <2>2, <2>4 DEF WalkedTo
    <2>7. y = MapDown([mem |-> x.mem, tb |-> x.tb], va, i)
        BY <2>3, <2>4, <2>6
    <2>8. PICK j : j \in Nat /\ j = n + 2 /\ j + 1 = n + 1 + 2 /\ j < NUM_PAGES
        BY <1>1, <2>1, PagesAre
    <2>9. /\ IsMemory(x.mem) /\ ~ x.mem.fault /\ Tabled(x.mem, T1, lev1) /\ FewTaken(x.mem.bk, j)
        BY <2>2, <2>6, <2>8 DEF Mapped
    <2>10. ~ y.mem.fault /\ FewTaken(y.mem.bk, j + 1)
        <3>1. PICK a, t : a = x.mem /\ t = x.tb
            OBVIOUS
        <3>2. ~ y.mem.fault
            BY <2>6, <2>7, <2>8, <2>9, <3>1, TurnFew
        <3>3. FewTaken(y.mem.bk, j + 1)
            BY <2>6, <2>7, <2>8, <2>9, <3>1, TurnFew
        <3> QED
            BY <3>2, <3>3
    <2> QED
        BY <2>4, <2>5, <2>6, <2>8, <2>10
<1>6. WalkedTo(u, m, T, lev, end, 0) /\ ~ end.mem.fault
    <2>1. \A n \in Nat : n \in S
        <3> HIDE DEF S
        <3> QED
            BY <1>4, <1>5, InductionOverNat
    <2>2. LEVELS - 1 \in S /\ LEVELS - 1 - (LEVELS - 1) = 0
        BY <1>1, <2>1
    <2> QED
        BY <1>1, <2>2
<1>7. IsMemory(end.mem)
    BY <1>6 DEF WalkedTo, Mapped
<1> HIDE DEF end, k
<1>8. PICK b, t : b = end.mem /\ t = end.tb /\ IsMemory(b) /\ ~ b.fault
                  /\ r = [b EXCEPT !.tables[t] = Set(@, k, e)]
    BY <1>3, <1>6, <1>7
<1>9. r.fault = b.fault
    BY <1>8 DEF IsMemory
<1> QED
    BY <1>8, <1>9

LEMMA InitBack == Init => BackInv
<1> SUFFICES ASSUME Init PROVE BackInv
    OBVIOUS
<1>1. PICK m, g, T, lev, page : Booted(m, g, T, lev, page)
    BY InitBooted
<1>2. kernel_heap_vaddr = PS_4K /\ call = NoCall
    BY DEF Init
<1>3. /\ IsMemory(m) /\ ~ m.fault /\ Sized(m.bk, g) /\ Tabled(m, T, lev) /\ NULL \in Users
      /\ KernelTable = 0 /\ KernelTable \in T[NULL] /\ lev[KernelTable] = LEVELS - 1
      /\ T[NULL] = {0} /\ m.tables[0] = ZeroPage /\ page \in Pages /\ page # 0
      /\ page \in Nat /\ page # NULL /\ DOMAIN g = {0, page} /\ g[0] = 1 /\ g[page] = 1
    BY <1>1, PagesAre DEF Booted, Owns, Users, KernelTable
<1> DEFINE lab == [q \in Pages |-> 0]
<1>4. Placed(m, T[NULL], lev, lab)
    <2>1. lab \in [Pages -> Nat] /\ lab[KernelTable] = 0
        BY <1>3, PagesAre
    <2> HIDE DEF lab
    <2> QED
        BY <1>3, <2>1, NothingOnZeroPage DEF Placed
<1> HIDE DEF lab
<1>5. PICK pa : mem = mmu_map(m, KernelTable, 0, pa, {"R", "W"}) /\ pa \div PS_4K = page
    BY <1>1, <1>3, AddressIs DEF Booted
<1>6. 0 \in Nat /\ 0 < Span[LEVELS] /\ 0 * PS_4K = 0 /\ 1 * PS_4K = PS_4K
    BY AddressFits, PagesAre, Sizes1
<1>7. PICK T1, lev1, lab1 :
         /\ KernelMapped(m, T, lev, lab, mem, T1, lev1, lab1, 0 \div PS_4K)
         /\ ~ mem.fault => Leads(mem, T1[NULL], lev1, lab1, 0, page)
    <2>1. {"R", "W"} \cap {"R", "W", "X"} # {}
        OBVIOUS
    <2>2. \E T1, lev1, lab1 :
             /\ KernelMapped(m, T, lev, lab, mem, T1, lev1, lab1, 0 \div PS_4K)
             /\ ~ mem.fault => Leads(mem, T1[NULL], lev1, lab1, 0, pa \div PS_4K)
        BY <1>3, <1>4, <1>5, <1>6, <2>1, KernelMaps
    <2> QED
        BY <1>5, <2>2
<1>8. ~ mem.fault
    <2>1. FewTaken(m.bk, 2)
        <3> DEFINE D == {0, page}
        <3>1. IsFiniteSet(D) /\ Cardinality(D) <= 2
            <4>1. IsFiniteSet({0}) /\ Cardinality({0}) = 1
                BY FS_Singleton
            <4>2. D = {0} \cup {page}
                OBVIOUS
            <4>3. /\ IsFiniteSet({0} \cup {page})
                  /\ \/ Cardinality({0} \cup {page}) = Cardinality({0})
                     \/ Cardinality({0} \cup {page}) = Cardinality({0}) + 1
                BY <4>1, FS_AddElement
            <4> QED
                BY <4>1, <4>2, <4>3
        <3>2. \A i \in Pages : m.bk[i].taken => i \in D
            <4> TAKE i \in Pages
            <4>1. m.bk[i].taken <=> \E p \in DOMAIN g : p <= i /\ i < p + g[p]
                BY <1>3 DEF Sized
            <4> QED
                BY <1>3, <4>1, PagesAre
        <3> HIDE DEF D
        <3> QED
            BY <3>1, <3>2 DEF FewTaken
    <2> QED
        BY <1>3, <1>5, <2>1, MapFew
<1>9. /\ Owns(mem, granted, proc, T1, lev1) /\ Spared(g, proc, T, granted, proc, T1)
      /\ Placed(mem, T1[NULL], lev1, lab1)
    <2>1. Mapped(NULL, m, T, lev, mem, T1, lev1)
        BY <1>7 DEF KernelMapped
    <2> QED
        BY <1>1, <1>7, <2>1, BootSound DEF KernelMapped
<1>10. page \in Loose(granted, proc, T1) /\ granted[page] = 1
    <2>1. page \in Loose(g, proc, T)
        BY <1>1, <1>3 DEF Booted, Loose
    <2> QED
        BY <1>3, <1>9, <2>1 DEF Spared
<1> DEFINE pg == [j \in 0 .. 1 - 1 |-> page]
<1>11. \A j \in 0 .. 1 - 1 : j = 0 /\ pg[j] = page
    OBVIOUS
<1>12. pg \in [0 .. 1 - 1 -> Pages]
    BY <1>3
<1> HIDE DEF pg
<1>13. HeapPages(mem, granted, proc, T1, lev1, lab1, 1, pg, NoCall)
    <2>1. \A j \in 0 .. 1 - 1 : Leads(mem, T1[NULL], lev1, lab1, j * PS_4K, pg[j])
        BY <1>6, <1>7, <1>8, <1>11
    <2>2. \A j \in 0 .. 1 - 1 :
             \E e \in Loose(granted, proc, T1) \ {NoCall.pages} : Holds(granted, e, pg[j])
        <3>1. NoCall.pages = NULL /\ Holds(granted, page, page)
            BY <1>3, <1>10 DEF NoCall, Holds
        <3> QED
            BY <1>3, <1>10, <1>11, <3>1
    <2> QED
        BY <1>11, <1>12, <2>1, <2>2 DEF HeapPages
<1>14. Growing(mem, granted, proc, T1, lev1, lab1, 1, NoCall)
    BY DEF Growing, NoCall
<1>15. Backing(mem, granted, proc, T1, lev1, kernel_heap_vaddr, call)
    BY <1>2, <1>6, <1>9, <1>13, <1>14 DEF Backing
<1> QED
    BY <1>9, <1>15 DEF BackInv

LEMMA BeginBacks ==
    ASSUME IInv, BackInv, NEW h \in Harts, NEW n \in Nat, NEW w \in Users, Begin(h, n, w)
    PROVE  BackInv'
<1>1. PICK T, lev : /\ Owns(mem, granted, proc, T, lev)
                    /\ Backing(mem, granted, proc, T, lev, kernel_heap_vaddr, call)
    BY DEF BackInv
<1>2. Undisturbed(T, lev)
    BY <1>1, BeginKeeps
<1>3. NULL \notin DOMAIN granted
    BY PagesAre DEF IInv, Sound, Sized
<1>4. \/ call' = NoCall
      \/ call' = [NoCall EXCEPT !.hart = h, !.at = "pages", !.bytes = n, !.want = w]
    BY DEF Begin, Return
<1>5. call'.at \in {"idle", "pages"} /\ call'.mapped = 0 /\ call'.pages = NULL
    <2>1. NoCall.at = "idle" /\ NoCall.mapped = 0 /\ NoCall.pages = NULL /\ NoCall \in Call
        BY NoCallType DEF NoCall
    <2>2. CASE call' = NoCall
        BY <2>1, <2>2
    <2>3. CASE call' = [NoCall EXCEPT !.hart = h, !.at = "pages", !.bytes = n, !.want = w]
        BY <2>1, <2>3 DEF Call
    <2> QED
        BY <1>4, <2>2, <2>3
<1>6. kernel_heap_vaddr' = kernel_heap_vaddr
    BY DEF Begin
<1> QED
    BY <1>1, <1>2, <1>3, <1>5, <1>6, BackCalled

LEMMA NextBack == IInv /\ BackInv /\ [Next]_vars => BackInv'
<1> SUFFICES ASSUME IInv, BackInv, [Next]_vars PROVE BackInv'
    OBVIOUS
<1>1. CASE UNCHANGED vars
    BY <1>1 DEF BackInv, vars, heap_vars
<1>2. CASE Next
    <2>1. PICK T, lev : /\ Owns(mem, granted, proc, T, lev)
                        /\ Backing(mem, granted, proc, T, lev, kernel_heap_vaddr, call)
        BY DEF BackInv
    <2>2. ~ mem.fault /\ HeapOK(kernel_heap_vaddr, free, live, call)
        BY <1>2 DEF Next, IInv
    <2>3. ASSUME Undisturbed(T, lev), kernel_heap_vaddr' = kernel_heap_vaddr, call' = call
          PROVE  BackInv'
        BY <2>1, <2>2, <2>3, BackQuiet
    <2>4. CASE GrowPages
        BY <2>4, GrowPagesBacks
    <2>5. CASE GrowZero
        BY <2>5, GrowZeroBacks
    <2>6. CASE GrowMap
        BY <2>2, <2>6, GrowMapBacks
    <2>7. CASE GrowInsert
        BY <2>2, <2>7, GrowInsertBacks
    <2>8. CASE FreeHeld
        <3>1. /\ mem' = mem /\ granted' = granted /\ proc' = proc /\ call' = call
              /\ kernel_heap_vaddr' = kernel_heap_vaddr
            BY <2>8 DEF FreeHeld, kfree
        <3>2. Undisturbed(T, lev)
            BY <2>1, <3>1, StillQuiet
        <3> QED
            BY <2>3, <3>1, <3>2
    <2>9. ASSUME NEW h \in Harts, kmalloc(h) PROVE BackInv'
        <3>1. PICK n \in Sizes : Begin(h, RoundUp(n), NULL)
            BY <2>9 DEF kmalloc
        <3>2. RoundUp(n) \in Nat /\ NULL \in Users
            BY Sizes1, RoundUpType DEF Users
        <3> QED
            BY <3>1, <3>2, BeginBacks
    <2>10. ASSUME NEW p \in Procs, process_new(p) PROVE BackInv'
        <3>1. Begin(0, RoundUp(PROC_SIZE), p)
            BY <2>10 DEF process_new
        <3>2. RoundUp(PROC_SIZE) \in Nat /\ p \in Users /\ 0 \in Harts
            BY MemoryAssumption, Sizes1, RoundUpType DEF Users
        <3> QED
            BY <3>1, <3>2, BeginBacks
    <2>11. ASSUME NEW h \in Harts, NEW p \in Procs,
                  FreePages(h, p) \/ FreeTables(h, p) \/ FreeProcess(h, p)
           PROVE  BackInv'
        <3>1. kernel_heap_vaddr' = kernel_heap_vaddr /\ call' = call
            BY <2>11 DEF FreePages, FreeTables, FreeProcess, kfree, heap_vars
        <3>2. Undisturbed(T, lev)
            BY <2>1, <2>11, FreePagesKeeps, FreeTablesKeeps, FreeProcessKeeps
        <3> QED
            BY <2>3, <3>1, <3>2
    <2>12. ASSUME NEW p \in Procs,
                  \/ NewTable(p) \/ MapFrame(p) \/ AllocStack(p) \/ MapStack(p) \/ AllocTrapStack(p)
           PROVE  BackInv'
        <3>1. kernel_heap_vaddr' = kernel_heap_vaddr /\ call' = call
            BY <2>12 DEF NewTable, MapFrame, AllocStack, MapStack, AllocTrapStack, heap_vars
        <3>2. Undisturbed(T, lev)
            BY <2>1, <2>12, NewTableKeeps, MapFrameKeeps, AllocStackKeeps, MapStackKeeps,
               AllocTrapStackKeeps
        <3> QED
            BY <2>3, <3>1, <3>2
    <2> QED
        BY <1>2, <2>4, <2>5, <2>6, <2>7, <2>8, <2>9, <2>10, <2>11, <2>12 DEF Next
<1> QED
    BY <1>1, <1>2

\* The page of a heap address is the one that its entry names.
LEMMA HeapPageIs ==
    ASSUME NEW T, NEW lev, Owns(mem, granted, proc, T, lev), NEW n \in Nat, NEW lab, NEW pg, NEW c,
           HeapPages(mem, granted, proc, T, lev, lab, n, pg, c), NEW v \in 0 .. n - 1
    PROVE  HeapPage(v) = pg[v] /\ pg[v] \in Pages
<1>1. pg[v] \in Pages /\ Leads(mem, T[NULL], lev, lab, v * PS_4K, pg[v]) /\ Tabled(mem, T, lev)
    BY DEF HeapPages, Owns
<1>2. PICK a, p : /\ a = v * PS_4K /\ a \in Nat /\ a % PS_4K = 0
                  /\ p = pg[v] /\ p \in Nat /\ p * PS_4K \in Nat /\ (p * PS_4K) \div PS_4K = p
    <2>1. v \in Nat /\ pg[v] \in Nat
        BY <1>1, PagesAre
    <2> QED
        BY <2>1, AddressIs
<1>3. mmu_translate(mem, KernelTable, a) = p * PS_4K + (a % PS_4K)
    BY <1>1, <1>2, TranslateIs
<1>4. mmu_translate(mem, KernelTable, a) = p * PS_4K
    BY <1>2, <1>3
<1> QED
    BY <1>1, <1>2, <1>4 DEF HeapPage

\* The pages of the tables and of the stacks are not the heap's.
LEMMA HeapPageApart ==
    ASSUME Sized(mem.bk, granted), NEW T, NEW lev, Owns(mem, granted, proc, T, lev),
           NEW e \in Loose(granted, proc, T), NEW q \in Pages, Holds(granted, e, q),
           \A p \in Procs : proc[p].stage = "ready" => proc[p].stack # NULL /\ proc[p].trap_stack # NULL
    PROVE  /\ mem.bk[q].taken /\ q \notin TablesOf(mem, KernelTable)
           /\ \A p \in Procs : proc[p].ptable # NULL => q \notin TablesOf(mem, proc[p].ptable)
           /\ \A p \in Procs : proc[p].stage = "ready" =>
                 /\ q # proc[p].trap_stack
                 /\ \A k \in 0 .. STACK_PAGES - 1 : q # proc[p].stack + k
<1>1. e \in DOMAIN granted /\ NULL \in Users /\ Procs \subseteq Users /\ Tabled(mem, T, lev)
    BY DEF Loose, Users, Owns
<1>2. mem.bk[q].taken
    BY <1>1 DEF Sized, Holds
<1>3. ASSUME NEW u \in Users PROVE q \notin T[u]
    <2>1. SUFFICES ASSUME q \in T[u] PROVE FALSE
        OBVIOUS
    <2>2. q \in DOMAIN granted
        BY <2>1 DEF Owns
    <2>3. Holds(granted, q, q)
        BY <2>2, HoldsFirst
    <2>4. q = e
        BY <1>1, <2>2, <2>3, HeldOnce
    <2> QED
        BY <2>1, <2>4 DEF Loose
<1>4. q \notin TablesOf(mem, KernelTable)
    <2>1. TablesOf(mem, KernelTable) \subseteq T[NULL]
        BY <1>1, TablesOfSpace DEF Owns
    <2> QED
        BY <1>1, <1>3, <2>1
<1>5. ASSUME NEW p \in Procs, proc[p].ptable # NULL PROVE q \notin TablesOf(mem, proc[p].ptable)
    <2>1. proc[p].ptable \in T[p] /\ p \in Users
        BY <1>1, <1>5 DEF Owns
    <2>2. TablesOf(mem, proc[p].ptable) \subseteq T[p]
        BY <1>1, <2>1, TablesOfSpace
    <2> QED
        BY <1>3, <2>1, <2>2
<1>6. ASSUME NEW p \in Procs, NEW s \in Stacks(proc, p), NEW k \in 0 .. granted[s] - 1
      PROVE  q # s + k
    <2>1. s \in DOMAIN granted
        BY DEF Owns
    <2>2. s + k \in Pages /\ Holds(granted, s, s + k)
        BY <2>1, CallPages
    <2>3. s # e
        BY DEF Loose
    <2> QED
        BY <1>1, <2>1, <2>2, <2>3, HeldOnce
<1>7. ASSUME NEW p \in Procs, proc[p].stage = "ready"
      PROVE  /\ q # proc[p].trap_stack
             /\ \A k \in 0 .. STACK_PAGES - 1 : q # proc[p].stack + k
    <2>1. proc[p].trap_stack \in Stacks(proc, p) /\ proc[p].stack \in Stacks(proc, p)
        BY <1>7 DEF Stacks
    <2>2. granted[proc[p].stack] = STACK_PAGES
        BY <1>7 DEF Owns
    <2>3. q # proc[p].trap_stack
        <3>1. PICK s : s = proc[p].trap_stack /\ s \in Stacks(proc, p) /\ s \in DOMAIN granted
            BY <2>1 DEF Owns
        <3>2. s \in Nat /\ granted[s] \in Nat \ {0}
            BY <3>1, PagesAre DEF Sized
        <3>3. 0 \in 0 .. granted[s] - 1 /\ s + 0 = s
            BY <3>2
        <3> QED
            BY <1>6, <3>1, <3>3
    <2>4. \A k \in 0 .. STACK_PAGES - 1 : q # proc[p].stack + k
        BY <1>6, <2>1, <2>2
    <2> QED
        BY <2>3, <2>4
<1> QED
    BY <1>2, <1>4, <1>5, <1>7

LEMMA BackedPages == IInv /\ BackInv => PagesBacked
<1> SUFFICES ASSUME IInv, BackInv PROVE PagesBacked
    OBVIOUS
<1>1. PICK T, lev : /\ Owns(mem, granted, proc, T, lev)
                    /\ Backing(mem, granted, proc, T, lev, kernel_heap_vaddr, call)
    BY DEF BackInv
<1>2. PICK n, lab, pg :
         /\ n \in Nat /\ kernel_heap_vaddr = n * PS_4K
         /\ HeapPages(mem, granted, proc, T, lev, lab, n, pg, call)
    BY <1>1 DEF Backing
<1>3. Sized(mem.bk, granted) /\ ProcOK(proc)
    BY DEF IInv, Sound
<1>4. kernel_heap_vaddr \div PS_4K = n
    BY <1>2, AddressIs
<1> DEFINE vpages == 0 .. n - 1
           H == {HeapPage(v) : v \in vpages}
<1>5. \A v \in vpages : HeapPage(v) = pg[v] /\ pg[v] \in Pages
    BY <1>1, <1>2, HeapPageIs
<1>6. \A p \in Procs : proc[p].stage = "ready" => proc[p].stack # NULL /\ proc[p].trap_stack # NULL
    BY <1>3 DEF ProcOK
<1>7. ASSUME NEW v \in vpages
      PROVE  /\ HeapPage(v) \in Pages /\ mem.bk[HeapPage(v)].taken
             /\ HeapPage(v) \notin TablesOf(mem, KernelTable)
             /\ \A p \in Procs : proc[p].ptable # NULL => HeapPage(v) \notin TablesOf(mem, proc[p].ptable)
             /\ \A p \in Procs : proc[p].stage = "ready" =>
                   /\ HeapPage(v) # proc[p].trap_stack
                   /\ \A k \in 0 .. STACK_PAGES - 1 : HeapPage(v) # proc[p].stack + k
    <2>1. PICK q \in Pages : q = HeapPage(v) /\ q = pg[v]
        BY <1>5
    <2>2. PICK e \in Loose(granted, proc, T) : Holds(granted, e, q)
        BY <1>2, <2>1 DEF HeapPages
    <2>3. /\ mem.bk[q].taken /\ q \notin TablesOf(mem, KernelTable)
          /\ \A p \in Procs : proc[p].ptable # NULL => q \notin TablesOf(mem, proc[p].ptable)
          /\ \A p \in Procs : proc[p].stage = "ready" =>
                /\ q # proc[p].trap_stack
                /\ \A k \in 0 .. STACK_PAGES - 1 : q # proc[p].stack + k
        BY <1>1, <1>3, <1>6, <2>2, HeapPageApart
    <2> QED
        BY <2>1, <2>3
<1>8. Cardinality(H) = Cardinality(vpages)
    <2> DEFINE f == [v \in vpages |-> HeapPage(v)]
    <2>1. IsFiniteSet(vpages)
        BY <1>2, CountTo
    <2>2. \A v \in vpages : f[v] = HeapPage(v)
        OBVIOUS
    <2>3. f \in [vpages -> H]
        OBVIOUS
    <2>4. \A y \in H : \E v \in vpages : f[v] = y
        BY <2>2
    <2>5. \A v, w \in vpages : f[v] = f[w] => v = w
        BY <1>2, <1>5, <2>2 DEF HeapPages
    <2> HIDE DEF f, H, vpages
    <2>6. f \in Surjection(vpages, H) /\ f \in Injection(vpages, H)
        BY <2>3, <2>4, <2>5 DEF Surjection, Injection, IsInjective
    <2> QED
        BY <2>1, <2>6, FS_Surjection
<1> DEFINE others == UNION ({TablesOf(mem, KernelTable)}
                    \cup {TablesOf(mem, proc[p].ptable) : p \in
                            {q \in Procs : proc[q].ptable # NULL}}
                    \cup {{proc[p].trap_stack} \cup
                          {proc[p].stack + k : k \in 0 .. STACK_PAGES - 1} : p \in
                            {q \in Procs : proc[q].stage = "ready"}})
<1>9. ASSUME NEW x \in others
      PROVE  \/ x \in TablesOf(mem, KernelTable)
             \/ \E p \in Procs : proc[p].ptable # NULL /\ x \in TablesOf(mem, proc[p].ptable)
             \/ \E p \in Procs : /\ proc[p].stage = "ready"
                                 /\ \/ x = proc[p].trap_stack
                                    \/ \E k \in 0 .. STACK_PAGES - 1 : x = proc[p].stack + k
    OBVIOUS
<1> HIDE DEF others
<1>10. \A v \in vpages : HeapPage(v) \in Pages \ others /\ mem.bk[HeapPage(v)].taken
    BY <1>7, <1>9
<1> QED
    BY <1>4, <1>8, <1>10 DEF PagesBacked, others

\* After any sequence of calls nothing of the heap is lost or handed out twice: its free and its
\* held blocks tile its addresses, and behind each of its pages is an allocated one of its own,
\* which is neither a table that mmu_map made nor a stack that process_prepare took.
THEOREM HeapTiledAlways == Spec => []HeapTiled
<1>1. HeapInv => BlocksTile
    BY TilingTiles DEF HeapInv, HeapKept
<1>2. IInv /\ HeapInv /\ BackInv => HeapTiled
    BY <1>1, BackedPages DEF HeapTiled
<1> QED
    BY <1>2, InitIInv, NextIInv, InitTiles, NextHeap, InitBack, NextBack, PTL DEF Spec

-----------------------------------------------------------------------------
(* What the entries of the tables hold. *)

Entries == [ppn : Nat, bits : SUBSET Bits]
TablesOK(m) == IsMemory(m) /\ \A p \in Pages : IsPageTable(m.tables[p])

LEMMA SetTable ==
    ASSUME NEW table, IsPageTable(table), NEW k \in 0 .. ENTRIES - 1, NEW e \in Entries
    PROVE  IsPageTable(Set(table, k, e))
<1> DEFINE r == Set(table, k, e)
<1>1. r = [x \in {k} \cup DOMAIN table |-> IF x = k THEN e ELSE table[x]]
    BY DEF Set
<1>2. DOMAIN r = {k} \cup DOMAIN table /\ \A x \in DOMAIN r : r[x] = IF x = k THEN e ELSE table[x]
    BY <1>1
<1> HIDE DEF r
<1>3. DOMAIN r \subseteq 0 .. ENTRIES - 1
    BY <1>2 DEF IsPageTable
<1>4. \A x \in DOMAIN r : r[x] \in Entries
    BY <1>2 DEF IsPageTable, Entries
<1> QED
    BY <1>3, <1>4 DEF IsPageTable, Entries, r

LEMMA ZeroTable == IsPageTable(ZeroPage)
BY NothingOnZeroPage DEF IsPageTable

LEMMA SomeTables ==
    ASSUME NEW m, TablesOK(m), NEW r, IsMemory(r),
           \A q \in Pages : r.tables[q] \in {m.tables[q], ZeroPage}
    PROVE  TablesOK(r)
<1>1. ASSUME NEW q \in Pages PROVE IsPageTable(r.tables[q])
    <2>1. IsPageTable(m.tables[q])
        BY DEF TablesOK
    <2>2. CASE r.tables[q] = m.tables[q]
        BY <2>1, <2>2
    <2>3. CASE r.tables[q] = ZeroPage
        BY <2>3, ZeroTable
    <2> QED
        BY <2>2, <2>3
<1> QED
    BY <1>1 DEF TablesOK

\* A table gets an entry.
LEMMA EntryTables ==
    ASSUME NEW m, TablesOK(m), NEW t, NEW k \in 0 .. ENTRIES - 1, NEW e \in Entries,
           NEW r, r = WithEntry(m, t, k, e)
    PROVE  TablesOK(r)
<1>1. CASE t \in Pages
    <2>1. IsMemory(m) /\ IsPageTable(m.tables[t])
        BY <1>1 DEF TablesOK
    <2>2. /\ IsMemory(r) /\ r.tables[t] = Set(m.tables[t], k, e)
          /\ \A q \in Pages : q # t => r.tables[q] = m.tables[q]
        BY <1>1, <2>1, EntryAt
    <2>3. IsPageTable(r.tables[t])
        BY <2>1, <2>2, SetTable
    <2>4. \A q \in Pages : IsPageTable(r.tables[q])
        BY <2>2, <2>3 DEF TablesOK
    <2> QED
        BY <2>2, <2>4 DEF TablesOK
<1>2. CASE t \notin Pages
    <2>1. r = m
        <3>1. m = [bk |-> m.bk, tables |-> m.tables, fault |-> m.fault]
              /\ m.tables = [p \in Pages |-> m.tables[p]]
            BY DEF TablesOK, IsMemory
        <3>2. [m.tables EXCEPT ![t] = Set(@, k, e)] = m.tables
            BY <1>2, <3>1
        <3>3. r = [m EXCEPT !.tables = [m.tables EXCEPT ![t] = Set(@, k, e)]]
            BY DEF WithEntry
        <3> QED
            BY <3>1, <3>2, <3>3
    <2> QED
        BY <2>1
<1> QED
    BY <1>1, <1>2

WalkOK(w) == w = [mem |-> w.mem, tb |-> w.tb] /\ TablesOK(w.mem)

LEMMA MapDownTables ==
    ASSUME NEW w, WalkOK(w), NEW vaddr \in Nat, NEW i \in 1 .. LEVELS - 1
    PROVE  WalkOK(MapDown(w, vaddr, i))
<1> DEFINE m == w.mem
           tb == w.tb
           k == vpn(vaddr, i)
           new == page_alloc(m.bk, 1)
           z == page_zalloc(m, new, 1)
           e == Entry(new, {})
           r == MapDown(w, vaddr, i)
<1>1. w = [mem |-> m, tb |-> tb] /\ TablesOK(m) /\ IsMemory(m) /\ m.bk \in Bookkeeping
    BY DEF WalkOK, TablesOK, IsMemory
<1>2. k \in 0 .. ENTRIES - 1
    <2>1. i \in 0 .. LEVELS - 1
        BY SpanIs
    <2> QED
        BY <2>1, Digit
<1>3. r = IF m.fault THEN w
          ELSE IF k \in DOMAIN m.tables[tb] THEN [w EXCEPT !.tb = m.tables[tb][k].ppn]
          ELSE IF new = NULL THEN [w EXCEPT !.mem = [@ EXCEPT !.fault = TRUE]]
          ELSE [mem |-> [z EXCEPT !.tables[tb] = Set(@, k, e)], tb |-> new]
    BY DEF MapDown
<1> HIDE DEF r, k, new, z, e
<1>4. CASE r = w
    BY <1>4 DEF r
<1>5. CASE r = [w EXCEPT !.tb = m.tables[tb][k].ppn]
    <2>1. r = [mem |-> m, tb |-> m.tables[tb][k].ppn]
        BY <1>1, <1>5
    <2>2. r.mem = m /\ r = [mem |-> r.mem, tb |-> r.tb]
        BY <2>1
    <2> HIDE DEF m, tb
    <2> QED
        BY <1>1, <2>2 DEF WalkOK, r
<1>6. CASE r = [w EXCEPT !.mem = [@ EXCEPT !.fault = TRUE]]
    <2> DEFINE f == [m EXCEPT !.fault = TRUE]
    <2>1. r = [mem |-> f, tb |-> tb]
        BY <1>1, <1>6
    <2>2. r.mem = f /\ r = [mem |-> r.mem, tb |-> r.tb]
        BY <2>1
    <2>3. IsMemory(f) /\ f.tables = m.tables
        BY <1>1, FaultIs
    <2> HIDE DEF f
    <2>4. TablesOK(f)
        BY <1>1, <2>3 DEF TablesOK
    <2> QED
        BY <2>2, <2>4 DEF WalkOK, r
<1>7. CASE new # NULL /\ r = [mem |-> [z EXCEPT !.tables[tb] = Set(@, k, e)], tb |-> new]
    <2>1. new \in Pages
        <3> HIDE DEF m
        <3> QED
            BY <1>1, <1>7, AllocFree DEF new
    <2>2. IsMemory(z) /\ \A q \in Pages : z.tables[q] \in {m.tables[q], ZeroPage}
        <3> HIDE DEF m
        <3> QED
            BY <1>1, <2>1, ZallocIs DEF z
    <2>3. TablesOK(z)
        <3> HIDE DEF m
        <3> QED
            BY <1>1, <2>2, SomeTables
    <2>4. e \in Entries
        BY <2>1, PagesAre DEF e, Entry, Entries
    <2>5. PICK f : f = WithEntry(z, tb, k, e)
        OBVIOUS
    <2>6. TablesOK(f)
        BY <1>2, <2>3, <2>4, <2>5, EntryTables
    <2>7. r = [mem |-> f, tb |-> new]
        BY <1>7, <2>5 DEF WithEntry
    <2>8. r.mem = f /\ r = [mem |-> r.mem, tb |-> r.tb]
        BY <2>7
    <2> QED
        BY <2>6, <2>8 DEF WalkOK, r
<1> QED
    BY <1>3, <1>4, <1>5, <1>6, <1>7

LEMMA MapTables ==
    ASSUME NEW m, TablesOK(m), NEW tb, NEW vaddr \in Nat, NEW paddr \in Nat, NEW bits \in SUBSET Bits
    PROVE  TablesOK(mmu_map(m, tb, vaddr, paddr, bits))
<1> DEFINE walk == CHOOSE f : f = [n \in 0 .. LEVELS - 1 |-> Turn(f, n, m, tb, vaddr)]
           end == walk[LEVELS - 1]
           k == vpn(vaddr, 0)
           e == Entry(paddr \div PS_4K, bits)
           r == mmu_map(m, tb, vaddr, paddr, bits)
           S == {n \in Nat : n <= LEVELS - 1 => WalkOK(walk[n])}
<1>1. LEVELS - 1 \in Nat /\ LEVELS \in Nat
    BY MmuAssumption
<1>2. walk = [n \in 0 .. LEVELS - 1 |-> Turn(walk, n, m, tb, vaddr)]
    BY <1>1, TurnsExist
<1>3. r = IF end.mem.fault THEN end.mem
          ELSE [end.mem EXCEPT !.tables[end.tb] = Set(@, k, e)]
    BY DEF mmu_map, Turn
<1> HIDE DEF walk, r, e
<1>4. 0 \in S
    <2>1. walk[0] = [mem |-> m, tb |-> tb]
        BY <1>1, <1>2 DEF Turn
    <2>2. WalkOK(walk[0])
        BY <2>1 DEF WalkOK
    <2> QED
        BY <2>2
<1>5. ASSUME NEW n \in Nat, n \in S PROVE n + 1 \in S
    <2>1. SUFFICES ASSUME n + 1 <= LEVELS - 1 PROVE WalkOK(walk[n + 1])
        OBVIOUS
    <2>2. WalkOK(walk[n])
        BY <1>1, <1>5, <2>1
    <2>3. PICK i \in 1 .. LEVELS - 1 : i = LEVELS - (n + 1)
        BY <1>1, <2>1
    <2>4. walk[n + 1] = MapDown(walk[n], vaddr, i)
        <3>1. n + 1 \in 0 .. LEVELS - 1 /\ n + 1 # 0 /\ n + 1 - 1 = n
            BY <1>1, <2>1
        <3>2. walk[n + 1] = Turn(walk, n + 1, m, tb, vaddr)
            BY <1>2, <3>1
        <3> QED
            BY <2>3, <3>1, <3>2 DEF Turn
    <2> QED
        BY <2>2, <2>4, MapDownTables
<1>6. WalkOK(end)
    <2>1. \A n \in Nat : n \in S
        <3> HIDE DEF S
        <3> QED
            BY <1>4, <1>5, InductionOverNat
    <2> QED
        BY <1>1, <2>1
<1>7. TablesOK(end.mem)
    BY <1>6 DEF WalkOK
<1>8. CASE r = end.mem
    BY <1>7, <1>8 DEF r
<1>9. CASE r = [end.mem EXCEPT !.tables[end.tb] = Set(@, k, e)]
    <2>1. k \in 0 .. ENTRIES - 1
        <3>1. 0 \in 0 .. LEVELS - 1
            BY <1>1
        <3> QED
            BY <3>1, Digit
    <2>2. e \in Entries
        <3>1. paddr \div PS_4K \in Nat
            BY Sizes1, DivIs
        <3> QED
            BY <3>1 DEF e, Entry, Entries
    <2> HIDE DEF end, k
    <2>3. PICK x, y, kk, ee : x = end.mem /\ y = end.tb /\ kk = k /\ ee = e /\ r = WithEntry(x, y, kk, ee)
        BY <1>9 DEF WithEntry
    <2> QED
        BY <1>7, <2>1, <2>2, <2>3, EntryTables DEF r
<1> HIDE DEF end, k
<1> QED
    BY <1>3, <1>8, <1>9

LEMMA MapManyTables ==
    ASSUME NEW m, TablesOK(m), NEW tb, NEW vaddr \in Nat, NEW paddr \in Nat, NEW size,
           PagesMapped(vaddr, size) \in Nat, NEW bits \in SUBSET Bits
    PROVE  TablesOK(mmu_map_many(m, tb, vaddr, paddr, size, bits))
<1> DEFINE N == PagesMapped(vaddr, size)
           after == CHOOSE f : f = [n \in 0 .. N |-> PageMapped(f, n, m, tb, vaddr, paddr, bits)]
           S == {n \in Nat : n <= N => TablesOK(after[n])}
<1>1. mmu_map_many(m, tb, vaddr, paddr, size, bits) = after[N]
    BY DEF mmu_map_many, PageMapped
<1> HIDE DEF N
<1>2. after = [n \in 0 .. N |-> PageMapped(after, n, m, tb, vaddr, paddr, bits)]
    <2>1. N \in Nat
        BY DEF N
    <2> QED
        BY <2>1, PagesMappedExist
<1> HIDE DEF after
<1>3. 0 \in S
    <2>1. after[0] = m
        BY <1>2 DEF PageMapped, N
    <2> QED
        BY <2>1
<1>a. ASSUME NEW a \in Nat, NEW n \in Nat PROVE Align(a) + n * PS_4K \in Nat
    <2>1. PICK P \in Nat \ {0} : P = PS_4K
        BY Sizes1
    <2>2. a % P <= a /\ a % P \in Nat
        BY ModLess
    <2>3. n * P \in Nat
        OBVIOUS
    <2> QED
        BY <2>1, <2>2, <2>3 DEF Align
<1>4. ASSUME NEW n \in Nat, n \in S PROVE n + 1 \in S
    <2>1. SUFFICES ASSUME n + 1 <= N PROVE TablesOK(after[n + 1])
        OBVIOUS
    <2>2. n \in 0 .. N /\ n + 1 \in 0 .. N /\ n + 1 # 0 /\ n + 1 - 1 = n
        BY <2>1 DEF N
    <2>3. TablesOK(after[n])
        BY <1>4, <2>2
    <2>4. PICK v \in Nat, p \in Nat : after[n + 1] = mmu_map(after[n], tb, v, p, bits)
        <3>1. after[n + 1] = PageMapped(after, n + 1, m, tb, vaddr, paddr, bits)
            BY <1>2, <2>2
        <3>2. after[n + 1] = mmu_map(after[n], tb, Align(vaddr) + n * PS_4K,
                                     Align(paddr) + n * PS_4K, bits)
            BY <2>2, <3>1 DEF PageMapped
        <3>3. Align(vaddr) + n * PS_4K \in Nat /\ Align(paddr) + n * PS_4K \in Nat
            BY <1>a
        <3> QED
            BY <3>2, <3>3
    <2> QED
        BY <2>3, <2>4, MapTables
<1>5. \A n \in Nat : n \in S
    <2> HIDE DEF S
    <2> QED
        BY <1>3, <1>4, InductionOverNat
<1>6. N \in S /\ N \in Nat
    BY <1>5 DEF N
<1> QED
    BY <1>1, <1>6

\* Two addresses of one page have the same digits.
LEMMA SamePage ==
    ASSUME NEW va \in Nat, NEW vb \in Nat, va \div PS_4K = vb \div PS_4K
    PROVE  /\ \A i \in 0 .. LEVELS : va \div Span[i] = vb \div Span[i]
           /\ \A i \in 0 .. LEVELS - 1 : vpn(va, i) = vpn(vb, i)
<1> DEFINE S == {i \in Nat : i <= LEVELS => va \div Span[i] = vb \div Span[i]}
<1>1. 0 \in S
    BY SpanIs
<1>2. ASSUME NEW i \in Nat, i \in S PROVE i + 1 \in S
    <2> SUFFICES ASSUME i + 1 <= LEVELS PROVE va \div Span[i + 1] = vb \div Span[i + 1]
        OBVIOUS
    <2>1. i \in 0 .. LEVELS /\ i \in 0 .. LEVELS - 1 /\ va \div Span[i] = vb \div Span[i]
        BY <1>2, SpanIs
    <2>2. PICK N, E \in Nat \ {0} : N = Span[i] /\ E = ENTRIES /\ Span[i + 1] = E * N
        BY <2>1, SpanIs
    <2>3. va \div (E * N) = (va \div N) \div E /\ vb \div (E * N) = (vb \div N) \div E
        BY DivTwice
    <2> QED
        BY <2>1, <2>2, <2>3
<1>3. \A i \in Nat : i \in S
    <2> HIDE DEF S
    <2> QED
        BY <1>1, <1>2, InductionOverNat
<1>4. \A i \in 0 .. LEVELS : va \div Span[i] = vb \div Span[i]
    BY <1>3
<1>5. \A i \in 0 .. LEVELS - 1 : vpn(va, i) = vpn(vb, i)
    BY <1>4, SpanIs DEF vpn
<1> QED
    BY <1>4, <1>5

LEMMA LeadsPage ==
    ASSUME NEW m, NEW K, NEW lev, NEW lab, NEW va \in Nat, NEW vb \in Nat,
           va \div PS_4K = vb \div PS_4K, NEW p, Leads(m, K, lev, lab, va, p)
    PROVE  Leads(m, K, lev, lab, vb, p)
<1>1. PICK w : /\ Way(m, K, lev, lab, va, 0, w)
               /\ vpn(va, 0) \in DOMAIN m.tables[w[0]] /\ m.tables[w[0]][vpn(va, 0)].ppn = p
    BY DEF Leads
<1>2. LEVELS \in Nat \ {0}
    BY SpanIs
<1>3. /\ \A i \in 0 .. LEVELS - 1 : va \div Span[i + 1] = vb \div Span[i + 1]
      /\ \A i \in 0 .. LEVELS - 1 : vpn(va, i) = vpn(vb, i)
    BY <1>2, SamePage
<1>4. 0 \in 0 .. LEVELS - 1 /\ \A i \in 0 + 1 .. LEVELS - 1 : i \in 0 .. LEVELS - 1
    BY <1>2
<1>5. Way(m, K, lev, lab, vb, 0, w)
    BY <1>1, <1>3, <1>4 DEF Way
<1> QED
    BY <1>1, <1>3, <1>4, <1>5 DEF Leads

\* What mmu_translate finds for an address of the heap.
LEMMA HeapTranslated ==
    ASSUME BackInv, NEW va \in Nat, va < kernel_heap_vaddr
    PROVE  mmu_translate(mem, KernelTable, va) \in Nat
<1>1. PICK T, lev : /\ Owns(mem, granted, proc, T, lev)
                    /\ Backing(mem, granted, proc, T, lev, kernel_heap_vaddr, call)
    BY DEF BackInv
<1>2. PICK n, lab, pg :
         /\ n \in Nat /\ kernel_heap_vaddr = n * PS_4K
         /\ HeapPages(mem, granted, proc, T, lev, lab, n, pg, call)
    BY <1>1 DEF Backing
<1>3. PICK P \in Nat \ {0} : P = PS_4K
    BY Sizes1
<1>4. PICK j, r \in Nat : j = va \div P /\ r = va % P /\ r < P /\ va = P * j + r
    BY DivIs
<1>5. j \in 0 .. n - 1
    <2>1. CASE n <= j
        <3>1. P * n <= P * j
            BY <2>1, <1>2, ProductGrows
        <3>2. n * P = P * n /\ P * n \in Nat /\ P * j \in Nat
            BY <1>2
        <3>3. va < P * n
            BY <1>2, <1>3, <3>2
        <3> QED
            BY <1>4, <3>1, <3>2, <3>3
    <2> QED
        BY <1>2, <2>1
<1>6. pg[j] \in Nat /\ Leads(mem, T[NULL], lev, lab, j * PS_4K, pg[j]) /\ Tabled(mem, T, lev)
    BY <1>1, <1>2, <1>5, PagesAre DEF HeapPages, Owns
<1>7. j * PS_4K \in Nat /\ (j * PS_4K) \div PS_4K = va \div PS_4K
    BY <1>3, <1>4, AddressIs
<1>8. Leads(mem, T[NULL], lev, lab, va, pg[j])
    <2>1. PICK vb \in Nat : vb = j * PS_4K
        BY <1>7
    <2> QED
        BY <1>6, <1>7, <2>1, LeadsPage
<1>9. mmu_translate(mem, KernelTable, va) = pg[j] * PS_4K + (va % PS_4K)
    BY <1>6, <1>8, TranslateIs
<1>10. pg[j] * P + r \in Nat
    BY <1>6
<1> QED
    BY <1>3, <1>4, <1>9, <1>10

LEMMA InitTables == Init => TablesOK(mem)
<1> SUFFICES ASSUME Init PROVE TablesOK(mem)
    OBVIOUS
<1>1. PICK m, g, T, lev, page : Booted(m, g, T, lev, page)
    BY InitBooted
<1>2. TablesOK(m)
    BY <1>1, ZeroTable DEF Booted, TablesOK
<1>3. PICK pa \in Nat : mem = mmu_map(m, KernelTable, 0, pa, {"R", "W"})
    <2>1. page \in Nat
        BY <1>1, PagesAre DEF Booted
    <2>2. page * PS_4K \in Nat
        BY <2>1, AddressIs
    <2> QED
        BY <1>1, <2>2 DEF Booted
<1>4. {"R", "W"} \in SUBSET Bits /\ 0 \in Nat
    BY DEF Bits
<1> QED
    BY <1>2, <1>3, <1>4, MapTables

LEMMA FreeTablesTyped ==
    ASSUME NEW m, TablesOK(m), NEW tb, IsMemory(mmu_free(m, tb))
    PROVE  TablesOK(mmu_free(m, tb))
<1> DEFINE r == mmu_free(m, tb)
           kept(t) == Restrict(m.tables[t], {k \in DOMAIN m.tables[t] : ~ IsLeaf(m.tables[t][k])})
<1>1. \A t \in Pages : r.tables[t] \in {m.tables[t], kept(t)}
    <2>1. m = [bk |-> m.bk, tables |-> m.tables, fault |-> m.fault]
        BY DEF TablesOK, IsMemory
    <2>2. PICK bk, tables : r = [m EXCEPT !.bk = bk,
             !.tables = [t \in Pages |-> IF t \in tables
                THEN Restrict(@[t], {k \in DOMAIN @[t] : ~ IsLeaf(@[t][k])}) ELSE @[t]]]
        BY DEF mmu_free
    <2>3. r.tables = [t \in Pages |-> IF t \in tables THEN kept(t) ELSE m.tables[t]]
        <3> HIDE DEF r
        <3> QED
            BY <2>1, <2>2
    <2> HIDE DEF r, kept
    <2> QED
        BY <2>3
<1>2. ASSUME NEW t \in Pages PROVE IsPageTable(kept(t))
    <2>1. PICK table : table = m.tables[t] /\ IsPageTable(table)
        BY DEF TablesOK
    <2>2. PICK D : D \subseteq DOMAIN table /\ kept(t) = [k \in D |-> table[k]]
        BY <2>1 DEF Restrict
    <2> HIDE DEF kept
    <2> QED
        BY <2>1, <2>2 DEF IsPageTable
<1> HIDE DEF r, kept
<1>3. ASSUME NEW t \in Pages PROVE IsPageTable(r.tables[t])
    <2>1. IsPageTable(m.tables[t])
        BY DEF TablesOK
    <2>2. CASE r.tables[t] = m.tables[t]
        BY <2>1, <2>2
    <2>3. CASE r.tables[t] = kept(t)
        BY <1>2, <2>3
    <2> QED
        BY <1>1, <2>2, <2>3
<1> QED
    BY <1>3 DEF TablesOK, r

\* What page_zalloc writes for a caller that does not look for NULL.
LEMMA ZallocTables ==
    ASSUME TablesOK(mem), NEW n \in Nat \ {0}, IsMemory(mem'),
           LET p == page_alloc(mem.bk, n)
           IN  IF p = NULL THEN mem' = [mem EXCEPT !.fault = TRUE] ELSE mem' = page_zalloc(mem, p, n)
    PROVE  TablesOK(mem')
<1> DEFINE p == page_alloc(mem.bk, n)
<1>1. IsMemory(mem) /\ mem.bk \in Bookkeeping
    BY DEF TablesOK, IsMemory
<1>2. CASE p = NULL
    <2>1. mem' = [mem EXCEPT !.fault = TRUE]
        BY <1>2
    <2>2. mem'.tables = mem.tables
        BY <1>1, <2>1, FaultIs
    <2> QED
        BY <2>2 DEF TablesOK
<1>3. CASE p # NULL
    <2>1. p \in Pages
        BY <1>1, <1>3, AllocFree
    <2>2. PICK m1 : m1 = mem' /\ m1 = page_zalloc(mem, p, n) /\ IsMemory(m1)
        BY <1>3
    <2> HIDE DEF p
    <2>3. \A q \in Pages : m1.tables[q] \in {mem.tables[q], ZeroPage}
        BY <1>1, <2>1, <2>2, ZallocIs
    <2>4. TablesOK(m1)
        BY <2>2, <2>3, SomeTables
    <2> QED
        BY <2>2, <2>4
<1> QED
    BY <1>2, <1>3

\* The frame that process_prepare maps lies in the heap.
LEMMA MapFrameTables ==
    ASSUME IInv, HeapInv, BackInv, TablesOK(mem), NEW p \in Procs, MapFrame(p)
    PROVE  TablesOK(mem')
<1> DEFINE tb == proc[p].ptable
           va == proc[p].block + HEADER
           pa == mmu_translate(mem, KernelTable, va)
           text == mmu_map_many(mem, tb, TEXT_VADDR, NUM_PAGES * PS_4K, 1, {"X"})
           after == mmu_map_many(text, tb, va, pa, FRAME_SIZE, {"R", "W"})
<1>1. mem' = after /\ proc[p].stage = "frame"
    BY DEF MapFrame
<1>2. PICK b \in live : b.addr = proc[p].block /\ PROC_SIZE <= b.size
    BY <1>1 DEF HeapInv, HeapKept
<1>3. b \in [addr : Nat, size : Nat] /\ b.addr + HEADER + b.size <= kernel_heap_vaddr
      /\ kernel_heap_vaddr \in Nat
    BY DEF IInv, HeapOK, Node
<1>4. va \in Nat /\ va < kernel_heap_vaddr
    BY <1>2, <1>3, Sizes1
<1>5. pa \in Nat
    BY <1>4, HeapTranslated
<1> DEFINE pt == NUM_PAGES * PS_4K
<1>6. pt \in Nat /\ TEXT_VADDR \in Nat
    BY PagesAre, AddressIs, Sizes1
<1> HIDE DEF va, pa, pt
<1>7. PagesMapped(TEXT_VADDR, 1) \in Nat /\ PagesMapped(va, FRAME_SIZE) \in Nat
    <2>1. TEXT_VADDR \in Int /\ FRAME_SIZE \in Nat /\ va \in Int
        BY <1>4, Sizes1
    <2> QED
        BY <2>1, PagesMappedType
<1>8. {"X"} \in SUBSET Bits /\ {"R", "W"} \in SUBSET Bits
    BY DEF Bits
<1> HIDE DEF tb
<1>9. TablesOK(text)
    <2>1. text = mmu_map_many(mem, tb, TEXT_VADDR, pt, 1, {"X"})
        BY DEF pt
    <2> QED
        BY <1>6, <1>7, <1>8, <2>1, MapManyTables
<1> HIDE DEF text
<1>10. TablesOK(after)
    BY <1>4, <1>5, <1>7, <1>8, <1>9, MapManyTables
<1> QED
    BY <1>1, <1>10

LEMMA MapStackTables ==
    ASSUME IInv, TablesOK(mem), NEW p \in Procs, MapStack(p)
    PROVE  TablesOK(mem')
<1> DEFINE tb == proc[p].ptable
           pa == proc[p].stack * PS_4K
           size == PS_4K * STACK_PAGES
<1>1. /\ mem' = mmu_map_many(mem, tb, STACK_VADDR, pa, size, {"R", "W", "U"})
      /\ proc[p].stage = "map_stack"
    BY DEF MapStack
<1>2. proc[p].stack \in Nat
    BY <1>1, PagesAre DEF IInv, ProcOK, Process
<1>3. pa \in Nat
    BY <1>2, AddressIs
<1>4. PagesMapped(STACK_VADDR, size) \in Nat /\ STACK_VADDR \in Nat
    <2>1. STACK_VADDR \in Int /\ STACK_VADDR \in Nat
        BY Sizes1
    <2>2. PICK a, b \in Nat : a = PS_4K /\ b = STACK_PAGES
        BY Sizes1
    <2>3. size \in Nat
        BY <2>2
    <2> QED
        BY <2>1, <2>3, PagesMappedType
<1>5. {"R", "W", "U"} \in SUBSET Bits
    BY DEF Bits
<1> HIDE DEF tb, pa, size
<1>6. TablesOK(mmu_map_many(mem, tb, STACK_VADDR, pa, size, {"R", "W", "U"}))
    BY <1>3, <1>4, <1>5, MapManyTables
<1> QED
    BY <1>1, <1>6

LEMMA GrowMapTables ==
    ASSUME IInv, TablesOK(mem), GrowMap
    PROVE  TablesOK(mem')
<1> DEFINE va == kernel_heap_vaddr + call.mapped * PS_4K
           pa == (call.pages + call.mapped) * PS_4K
<1>1. mem' = mmu_map(mem, KernelTable, va, pa, {"R", "W"}) /\ call.at = "map"
    BY DEF GrowMap
<1>2. kernel_heap_vaddr \in Nat /\ call.mapped \in Nat /\ call.pages \in Nat
    BY <1>1, PagesAre DEF IInv, HeapOK, Call
<1>3. call.mapped * PS_4K \in Nat /\ (call.pages + call.mapped) * PS_4K \in Nat
    <2>1. call.pages + call.mapped \in Nat
        BY <1>2
    <2> QED
        BY <1>2, <2>1, AddressIs
<1>4. va \in Nat /\ pa \in Nat
    BY <1>2, <1>3
<1>5. {"R", "W"} \in SUBSET Bits
    BY DEF Bits
<1> HIDE DEF va, pa
<1> QED
    BY <1>1, <1>4, <1>5, MapTables

LEMMA NextTables == IInv /\ HeapInv /\ BackInv /\ TablesOK(mem) /\ [Next]_vars => TablesOK(mem')
<1> SUFFICES ASSUME IInv, HeapInv, BackInv, TablesOK(mem), [Next]_vars PROVE TablesOK(mem')
    OBVIOUS
<1>0. IsMemory(mem) /\ IsMemory(mem')
    BY NextIInv DEF IInv, Sound
<1>1. CASE mem' = mem
    BY <1>1
<1>2. CASE mem'.tables = mem.tables
    BY <1>0, <1>2 DEF TablesOK
<1>3. CASE GrowPages
    <2>1. \E bk, fault : mem' = [mem EXCEPT !.bk = bk] \/ mem' = [mem EXCEPT !.fault = fault]
        BY <1>3 DEF GrowPages
    <2>2. mem'.tables = mem.tables
        BY <1>0, <2>1 DEF IsMemory
    <2> QED
        BY <1>2, <2>2
<1>4. CASE GrowZero
    <2>1. PICK m1, pg : m1 = mem' /\ m1 = zero_pages(mem, pg) /\ IsMemory(m1)
        BY <1>0, <1>4 DEF GrowZero
    <2>2. \A q \in Pages : m1.tables[q] \in {mem.tables[q], ZeroPage}
        BY <1>0, <2>1, ZeroedIs
    <2>3. TablesOK(m1)
        BY <2>1, <2>2, SomeTables
    <2> QED
        BY <2>1, <2>3
<1>5. CASE GrowMap
    BY <1>5, GrowMapTables
<1>6. ASSUME NEW h \in Harts, NEW p \in Procs, FreePages(h, p) PROVE TablesOK(mem')
    <2>1. \E bk : mem' = [mem EXCEPT !.bk = bk]
        BY <1>6 DEF FreePages
    <2>2. mem'.tables = mem.tables
        BY <1>0, <2>1 DEF IsMemory
    <2> QED
        BY <1>2, <2>2
<1>7. ASSUME NEW h \in Harts, NEW p \in Procs, FreeTables(h, p) PROVE TablesOK(mem')
    <2>1. PICK m1, tb : m1 = mem' /\ m1 = mmu_free(mem, tb)
        BY <1>7 DEF FreeTables
    <2>2. TablesOK(m1)
        BY <1>0, <2>1, FreeTablesTyped
    <2> QED
        BY <2>1, <2>2
<1>8. ASSUME NEW p \in Procs, NewTable(p) \/ AllocStack(p) \/ AllocTrapStack(p)
      PROVE  TablesOK(mem')
    <2>1. 1 \in Nat \ {0} /\ STACK_PAGES \in Nat \ {0}
        BY Sizes1
    <2>2. PICK n \in Nat \ {0} :
             LET a == page_alloc(mem.bk, n)
             IN  IF a = NULL THEN mem' = [mem EXCEPT !.fault = TRUE]
                 ELSE mem' = page_zalloc(mem, a, n)
        BY <1>8, <2>1 DEF NewTable, AllocStack, AllocTrapStack, ZallocInto
    <2> QED
        BY <1>0, <2>2, ZallocTables
<1>9. ASSUME NEW p \in Procs, MapFrame(p) PROVE TablesOK(mem')
    BY <1>9, MapFrameTables
<1>10. ASSUME NEW p \in Procs, MapStack(p) PROVE TablesOK(mem')
    BY <1>10, MapStackTables
<1>11. CASE GrowInsert \/ FreeHeld
    BY <1>1, <1>11 DEF GrowInsert, FreeHeld, kfree
<1>12. ASSUME NEW h \in Harts, kmalloc(h) PROVE TablesOK(mem')
    BY <1>1, <1>12 DEF kmalloc, Begin
<1>13. ASSUME NEW h \in Harts, NEW p \in Procs, FreeProcess(h, p) PROVE TablesOK(mem')
    BY <1>1, <1>13 DEF FreeProcess, kfree
<1>14. ASSUME NEW p \in Procs, process_new(p) PROVE TablesOK(mem')
    BY <1>1, <1>14 DEF process_new, Begin
<1>15. CASE UNCHANGED vars
    BY <1>1, <1>15 DEF vars
<1> QED
    BY <1>3, <1>4, <1>5, <1>6, <1>7, <1>8, <1>9, <1>10, <1>11, <1>12, <1>13, <1>14, <1>15 DEF Next

LEMMA Typed == IInv /\ HeapInv /\ BackInv /\ TablesOK(mem) => TypeOK
<1> SUFFICES ASSUME IInv, HeapInv, BackInv, TablesOK(mem) PROVE TypeOK
    OBVIOUS
<1>1. mem.bk \in Bookkeeping /\ \A p \in Pages : IsPageTable(mem.tables[p])
    BY DEF TablesOK, IsMemory
<1>2. kernel_heap_vaddr % PS_4K = 0 /\ kernel_heap_vaddr \in Nat
    <2>1. PICK n \in Nat : kernel_heap_vaddr = n * PS_4K
        BY DEF HeapInv, HeapKept
    <2> QED
        BY <2>1, AddressIs
<1>3. Node(kernel_heap_vaddr) \subseteq Block
    <2>1. ASSUME NEW b \in Node(kernel_heap_vaddr) PROVE b \in Block
        <3>1. b \in [addr : Nat, size : Nat] /\ b.addr + HEADER + b.size <= kernel_heap_vaddr
            BY DEF Node
        <3>2. b.addr \in 0 .. kernel_heap_vaddr /\ b.size \in 0 .. kernel_heap_vaddr
            BY <1>2, <3>1, Sizes1
        <3> QED
            BY <3>1, <3>2 DEF Block
    <2> QED
        BY <2>1
<1>4. free \in Seq(Block) /\ live \subseteq Block
    <2>1. free \in Seq(Node(kernel_heap_vaddr)) /\ live \subseteq Node(kernel_heap_vaddr)
        BY DEF IInv, HeapOK
    <2> QED
        BY <1>3, <2>1
<1>5. /\ call.hart \in Harts \cup {NULL} /\ call.want \in Procs \cup {NULL}
      /\ call.at \in {"idle", "pages", "zero", "map", "insert"}
    BY DEF IInv, HeapOK, Call, Users
<1>6. \A p \in Procs : proc[p].stage # "none" => proc[p].block \in {b.addr : b \in live}
    BY DEF HeapInv, HeapKept
<1> QED
    BY <1>1, <1>2, <1>4, <1>5, <1>6 DEF TypeOK

TablesInv == TablesOK(mem)

\* The bits, the tables, the heap's blocks and the pending call are of their types, at every
\* moment of any calls: in particular every entry that mmu_map writes names a page, also the
\* one for a frame, whose address mmu_translate finds because the heap is mapped there, and
\* every process that is being made, runs or is being freed keeps its heap block.
THEOREM TypeOKAlways == Spec => []TypeOK
<1>1. Init => TablesInv
    BY InitTables DEF TablesInv
<1>2. IInv /\ HeapInv /\ BackInv /\ TablesInv /\ [Next]_vars => TablesInv'
    BY NextTables DEF TablesInv
<1>3. IInv /\ HeapInv /\ BackInv /\ TablesInv => TypeOK
    BY Typed DEF TablesInv
<1> QED
    BY <1>1, <1>2, <1>3, InitIInv, NextIInv, InitTiles, NextHeap, InitBack, NextBack, PTL DEF Spec
=============================================================================
