------------------------------ MODULE PageAlloc ------------------------------
(* The physical pages of src/src/page_alloc.c.  Two bits per page say whether it  *)
(* is taken and whether it is the last page of its allocation; the allocator      *)
(* keeps no other record of what it handed out.  Every routine runs under         *)
(* page_alloc_lock from its first look at the bits to its last change, so each    *)
(* is a function from bits to bits.                                               *)
EXTENDS Integers, FiniteSets, FiniteSetsExt

CONSTANT NUM_PAGES
ASSUME NumPagesAssumption == NUM_PAGES \in Nat \ {0}

NULL == -1
Pages == 0 .. NUM_PAGES - 1
Bookkeeping == [Pages -> [taken : BOOLEAN, last : BOOLEAN]]

\* page_alloc_init places the bits after the pages and does not write them: the
\* machine's memory is zero at reset.
page_alloc_init == [i \in Pages |-> [taken |-> FALSE, last |-> FALSE]]

\* The pages from pageid to the end of the allocation that holds it; 0 when pageid is
\* free, -1 when the bits are corrupt or run out.
get_num_pages(bk, pageid) ==
    LET stops == {i \in pageid .. NUM_PAGES - 1 : ~bk[i].taken \/ bk[i].last}
        stop  == Min(stops)
    IN  IF stops = {} THEN -1
        ELSE IF bk[stop].taken THEN stop - pageid + 1
        ELSE IF stop = pageid THEN 0 ELSE -1

\* num_found of page_alloc after it looked at page i: the free pages that end there.
NumFound(bk, i) == i - Max({-1} \cup {j \in 0 .. i : bk[j].taken})

\* The first page of the first run of num_pages free pages, or NULL.
page_alloc(bk, num_pages) ==
    LET fits == {i \in Pages : NumFound(bk, i) = num_pages}
    IN  IF fits = {} THEN NULL ELSE Min(fits) - num_pages + 1

Taken_KeepsLast(bk, pageid, num_pages) ==
    [i \in Pages |-> IF i \in pageid .. pageid + num_pages - 1
                     THEN [taken |-> TRUE, last |-> bk[i].last \/ i = pageid + num_pages - 1]
                     ELSE bk[i]]
\* What page_alloc writes: the last page is marked even when num_pages is 0.
Taken(bk, pageid, num_pages) ==
    LET last == Max({pageid, pageid + num_pages - 1})
    IN  [i \in Pages |-> IF i \in pageid .. last THEN [taken |-> TRUE, last |-> i = last]
                                                 ELSE bk[i]]

\* page_dealloc leaves the mark of the last page.
page_dealloc(bk, pageid) ==
    [i \in Pages |-> IF i \in pageid .. pageid + get_num_pages(bk, pageid) - 1
                     THEN [bk[i] EXCEPT !.taken = FALSE] ELSE bk[i]]
=============================================================================
