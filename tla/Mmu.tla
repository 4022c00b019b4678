--------------------------------- MODULE Mmu ---------------------------------
(* The page tables of src/src/mmu.c, kept in pages of PageAlloc.  A memory is a   *)
(* record of the allocator's bits and of the entries of every page (those of a    *)
(* page that is no table are not read); fault is set when the code would        *)
(* dereference the address 0 that a failed page_zalloc returned.  Addresses are   *)
(* numbers of bytes, PS_4K of them to a page and ENTRIES entries to a table of    *)
(* one of LEVELS levels (3 levels of 512 in Sv39).                                *)
EXTENDS PageAlloc, SequencesExt

CONSTANTS LEVELS, ENTRIES, PS_4K
ASSUME MmuAssumption == {LEVELS, ENTRIES, PS_4K} \subseteq Nat \ {0}

Bits == {"R", "W", "X", "U"}
IsLeaf(entry) == entry.bits \cap {"R", "W", "X"} # {}

\* A table is the partial function of its valid entries.
Entry(p, bits) == [ppn |-> p, bits |-> bits]
IsPageTable(table) ==
    /\ DOMAIN table \subseteq 0 .. ENTRIES - 1
    /\ \A k \in DOMAIN table : table[k] \in [ppn : Nat, bits : SUBSET Bits]
ZeroPage == <<>>
Set(table, k, entry) == [x \in {k} \cup DOMAIN table |-> IF x = k THEN entry ELSE table[x]]

Align(addr) == addr - (addr % PS_4K)
\* The bytes that an entry of a table of level i covers.
Span[i \in 0 .. LEVELS] == IF i = 0 THEN PS_4K ELSE ENTRIES * Span[i - 1]
vpn(vaddr, i) == (vaddr \div Span[i]) % ENTRIES

\* zero_pages zeroes what the bits say is the allocation that begins at pageid.
zero_pages(mem, pageid) ==
    LET zeroed == pageid .. pageid + get_num_pages(mem.bk, pageid) - 1
    IN  [mem EXCEPT !.tables = [p \in Pages |-> IF p \in zeroed THEN ZeroPage ELSE @[p]]]

\* A successful page_zalloc.
page_zalloc(mem, pageid, num_pages) ==
    zero_pages([mem EXCEPT !.bk = Taken(@, pageid, num_pages)], pageid)

\* One turn of the loop of mmu_map: follow the entry at level i, after making its table
\* when there is none.
MapDown(walk, vaddr, i) ==
    LET table == walk.mem.tables[walk.tb]
        k     == vpn(vaddr, i)
        new   == page_alloc(walk.mem.bk, 1)
    IN  IF walk.mem.fault THEN walk
        ELSE IF k \in DOMAIN table THEN [walk EXCEPT !.tb = table[k].ppn]
        ELSE IF new = NULL THEN [walk EXCEPT !.mem = [@ EXCEPT !.fault = TRUE]]
        ELSE [mem |-> [page_zalloc(walk.mem, new, 1) EXCEPT
                          !.tables[walk.tb] = Set(@, k, Entry(new, {}))],
              tb |-> new]

mmu_map(mem, tb, vaddr, paddr, bits) ==
    LET walk[n \in 0 .. LEVELS - 1] ==
            IF n = 0 THEN [mem |-> mem, tb |-> tb]
            ELSE MapDown(walk[n - 1], vaddr, LEVELS - n)
        end == walk[LEVELS - 1]
    IN  IF end.mem.fault THEN end.mem
        ELSE [end.mem EXCEPT
                 !.tables[end.tb] = Set(@, vpn(vaddr, 0), Entry(paddr \div PS_4K, bits))]

\* The pages that mmu_map_many maps: vaddr <= vend takes the page of the end, too, also
\* when the end is the start of a page.
PagesMapped(vaddr_start, num_bytes) ==
    (vaddr_start + num_bytes) \div PS_4K - vaddr_start \div PS_4K + 1

mmu_map_many(mem, tb, vaddr_start, paddr_start, num_bytes, bits) ==
    LET pages == PagesMapped(vaddr_start, num_bytes)
        after[n \in 0 .. pages] ==
            IF n = 0 THEN mem
            ELSE mmu_map(after[n - 1], tb, Align(vaddr_start) + (n - 1) * PS_4K,
                         Align(paddr_start) + (n - 1) * PS_4K, bits)
    IN  after[pages]

\* The walk of mmu_translate and mmu_flags: the leaf of vaddr and its level; no leaf when
\* an entry is not valid or the last one is a branch.
Lookup(mem, tb, vaddr) ==
    LET down(at, i) ==
            LET table == mem.tables[at.tb]
                k     == vpn(vaddr, i)
            IN  IF at.done THEN at
                ELSE IF k \notin DOMAIN table THEN [at EXCEPT !.done = TRUE]
                ELSE IF IsLeaf(table[k])
                     THEN [at EXCEPT !.done = TRUE, !.leaf = {table[k]}, !.level = i]
                     ELSE [at EXCEPT !.tb = table[k].ppn]
        walk[n \in 0 .. LEVELS] ==
            IF n = 0 THEN [tb |-> tb, done |-> FALSE, leaf |-> {}, level |-> 0]
            ELSE down(walk[n - 1], LEVELS - n)
    IN  walk[LEVELS]

mmu_translate(mem, tb, vaddr) ==
    LET found == Lookup(mem, tb, vaddr)
        span  == Span[found.level]
        page  == (CHOOSE leaf \in found.leaf : TRUE).ppn * PS_4K
    IN  IF found.leaf = {} THEN NULL ELSE page - (page % span) + (vaddr % span)

mmu_flags(mem, tb, vaddr) == UNION {leaf.bits : leaf \in Lookup(mem, tb, vaddr).leaf}

\* The tables mmu_free visits.  It does not count levels: an entry of the last one
\* without a permission counts as a branch, and the page it maps as a table.
AndBelow(mem, seen) ==
    seen \cup {entry.ppn : entry \in
        {e \in UNION {Range(mem.tables[t]) : t \in seen} : ~IsLeaf(e)}}
TablesOf(mem, tb) ==
    LET seen[n \in 0 .. LEVELS] == IF n = 0 THEN {tb} ELSE AndBelow(mem, seen[n - 1])
    IN  seen[LEVELS]

\* Leaves become invalid, what they map stays; every table is given back, here in the
\* order of the pages: mmu_free does not look at the bits in between.
mmu_free(mem, tb) ==
    LET tables == TablesOf(mem, tb)
        freed[n \in 0 .. NUM_PAGES] ==
            IF n = 0 THEN mem.bk
            ELSE IF n - 1 \in tables THEN page_dealloc(freed[n - 1], n - 1)
            ELSE freed[n - 1]
    IN  [mem EXCEPT
            !.bk = freed[NUM_PAGES],
            !.tables = [t \in Pages |-> IF t \in tables
                THEN Restrict(@[t], {k \in DOMAIN @[t] : ~IsLeaf(@[t][k])})
                ELSE @[t]]]
=============================================================================
