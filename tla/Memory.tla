------------------------------- MODULE Memory --------------------------------
(* The kernel's memory in use: the heap of src/src/kmalloc.c, which takes pages   *)
(* from PageAlloc and maps them one after the other with Mmu, and the processes   *)
(* of src/src/process.c, which take pages, tables and heap blocks.  Hart 0 makes  *)
(* processes, any hart frees them, and all of them allocate and free blocks.      *)
(*                                                                                *)
(* kmalloc_lock is held from the start of a call to its end, so a call that does  *)
(* not grow the heap is one step; one that grows it takes page_alloc_lock and     *)
(* mmu_lock in turn, and the other harts' page operations fall in between.  The   *)
(* heap's addresses count from KERNEL_HEAP_START_VADDR, in units of which a       *)
(* header has HEADER.                                                             *)
EXTENDS Mmu

CONSTANTS
    Harts, Procs,
    HEADER,             \* sizeof(Allocation)
    MIN_NODE,           \* KMALLOC_MINIMUM_NODE_SIZE
    Sizes,              \* what callers other than process_new ask of kmalloc
    PROC_SIZE,          \* sizeof(Process), which begins with
    FRAME_SIZE,         \* sizeof(ProcFrame)
    TEXT_VADDR,         \* process_spawn_addr and process_trap_vector_addr
    STACK_VADDR, STACK_PAGES,   \* PROCESS_DEFAULT_STACK_VADDR, _PAGES
    MaxBlocks           \* bound: blocks callers other than processes hold at once

ASSUME MemoryAssumption ==
    /\ LEVELS < NUM_PAGES /\ NULL \notin Procs
    /\ 0 \in Harts /\ {HEADER, MIN_NODE, PROC_SIZE, STACK_PAGES} \subseteq Nat \ {0}
    /\ Sizes \subseteq Nat /\ FRAME_SIZE \in 1 .. PROC_SIZE
    /\ {TEXT_VADDR, STACK_VADDR, MaxBlocks} \subseteq Nat
    /\ 2 * HEADER + MIN_NODE <= PS_4K           \* kmalloc_init splits the heap's first page
    /\ NUM_PAGES * PS_4K <= Span[LEVELS]        \* and its tables could map all pages

VARIABLES
    mem,                \* the Memory of Mmu
    kernel_heap_vaddr,  \* where the heap's next pages will be mapped
    free,               \* the nodes of the free list after free_head, in its order
    live,               \* the blocks that callers hold: address and size are in the header
    call,               \* the call of kmalloc that holds the lock and grows the heap
    proc,               \* the processes
    granted             \* history: the size of each page allocation not yet given back

heap_vars == <<kernel_heap_vaddr, free, live>>
vars == <<mem, heap_vars, call, proc, granted>>

\* A call: its hart, where it is, the size asked, the process it is for or NULL, the pages
\* taken and how many of them are mapped.
NoCall == [hart |-> NULL, at |-> "idle", bytes |-> 0, want |-> NULL, pages |-> NULL, mapped |-> 0]
Idle(h) == call.hart # h
KmallocFree == call = NoCall

KernelTable == 0
NoProcess == [stage |-> "none", block |-> NULL, ptable |-> NULL, stack |-> NULL,
              trap_stack |-> NULL]

RoundUp(n) == n + MIN_NODE - 1 - ((n + MIN_NODE - 1) % MIN_NODE)
PagesFor(n) == (HEADER + n + PS_4K - 1) \div PS_4K
HeapBytes_NotRounded(n) == HEADER + n
HeapBytes(n) == PagesFor(n) * PS_4K
End(block) == block.addr + HEADER + block.size

\* split_node: a node gives away what it does not need when that makes a node.
split_node(node, n) ==
    IF node.size <= n + HEADER + MIN_NODE - 1 THEN <<node>>
    ELSE <<[node EXCEPT !.size = n],
           [addr |-> node.addr + HEADER + n, size |-> node.size - n - HEADER]>>

\* coalesce_free_list: one pass, in which a node swallows all that follow it directly.
coalesce_free_list(list) ==
    LET join(done, node) ==
            IF done # <<>> /\ End(Last(done)) = node.addr
            THEN [done EXCEPT ![Len(done)].size = @ + HEADER + node.size]
            ELSE Append(done, node)
        joined[n \in 0 .. Len(list)] ==
            IF n = 0 THEN <<>> ELSE join(joined[n - 1], list[n])
    IN  joined[Len(list)]

\* The free list and the block when kmalloc takes n bytes of the k-th node.
Take(list, k, n) ==
    LET split == split_node(list[k], n)
    IN  [free |-> SubSeq(list, 1, k - 1) \o Tail(split) \o SubSeq(list, k + 1, Len(list)),
         block |-> Head(split)]

Init ==
    LET root == page_zalloc([bk |-> page_alloc_init, fault |-> FALSE,
                             tables |-> [p \in Pages |-> ZeroPage]], KernelTable, 1)
        page == page_alloc(root.bk, 1)
        dummy == [addr |-> 0, size |-> PS_4K - HEADER]
    IN  /\ mem = mmu_map(page_zalloc(root, page, 1), KernelTable, 0, page * PS_4K, {"R", "W"})
        /\ granted = [p \in {i \in Pages : mem.bk[i].taken} |-> 1]
        /\ kernel_heap_vaddr = PS_4K
        /\ free = Tail(split_node(dummy, 0))
        /\ live = {}
        /\ call = NoCall
        /\ proc = [p \in Procs |-> NoProcess]

\* The tables that mmu_map made on its way are granted, too.
Grant(tables, extents) ==
    [p \in tables \cup DOMAIN extents |-> IF p \in DOMAIN extents THEN extents[p] ELSE 1]
NewTables(after) == {p \in Pages : after.bk[p].taken /\ ~mem.bk[p].taken}

-----------------------------------------------------------------------------
(* kmalloc and kfree. *)

\* The block goes to the caller; for process_new it is the new process.
Return(block, want) ==
    /\ live' = live \cup {block}
    /\ call' = NoCall
    /\ proc' = IF want = NULL THEN proc
               ELSE [proc EXCEPT ![want] = [@ EXCEPT !.stage = "ptable", !.block = block.addr]]

Begin(h, n, want) ==
    LET fits  == {k \in DOMAIN free : free[k].size >= n}
        taken == Take(free, Min(fits), n)
    IN  /\ KmallocFree
        /\ IF fits # {}
           THEN free' = taken.free /\ Return(taken.block, want)
           ELSE /\ call' = [NoCall EXCEPT !.hart = h, !.at = "pages", !.bytes = n, !.want = want]
                /\ UNCHANGED <<free, live, proc>>
        /\ UNCHANGED <<mem, kernel_heap_vaddr, granted>>

Held == {b \in live : \A p \in Procs : proc[p].block # b.addr}

kmalloc(h) == \E n \in Sizes : Cardinality(Held) < MaxBlocks /\ Begin(h, RoundUp(n), NULL)

\* No node is big enough: kmalloc allocates pages.  zero_pages of a NULL looks up bits
\* that are not there: kmalloc returns NULL, to process_new that does not expect it, or
\* it writes to the address 0.
GrowPages ==
    LET n == PagesFor(call.bytes)
        p == page_alloc(mem.bk, n)
    IN  /\ call.at = "pages"
        /\ IF p # NULL
           THEN /\ mem' = [mem EXCEPT !.bk = Taken(@, p, n)]
                /\ granted' = Set(granted, p, n)
                /\ call' = [call EXCEPT !.at = "zero", !.pages = p]
           ELSE /\ \E fault \in {TRUE, call.want # NULL} : mem' = [mem EXCEPT !.fault = fault]
                /\ call' = NoCall
                /\ UNCHANGED granted
        /\ UNCHANGED <<heap_vars, proc>>

GrowZero ==
    /\ call.at = "zero"
    /\ mem' = zero_pages(mem, call.pages)
    /\ call' = [call EXCEPT !.at = "map"]
    /\ UNCHANGED <<heap_vars, proc, granted>>

\* One page of mmu_map_many: mmu_lock is released after each.
GrowMap ==
    LET after == mmu_map(mem, KernelTable, kernel_heap_vaddr + call.mapped * PS_4K,
                         (call.pages + call.mapped) * PS_4K, {"R", "W"})
        all   == PagesMapped(kernel_heap_vaddr, HeapBytes(call.bytes))
    IN  /\ call.at = "map"
        /\ mem' = after
        /\ granted' = Grant(NewTables(after), granted)
        /\ call' = [call EXCEPT !.mapped = @ + 1,
                               !.at = IF call.mapped + 1 = all THEN "insert" ELSE "map"]
        /\ UNCHANGED <<heap_vars, proc>>

\* The new pages are a node at the end of the list, of which the block is taken.
GrowInsert ==
    LET size  == HeapBytes(call.bytes)
        node  == [addr |-> kernel_heap_vaddr, size |-> size - HEADER]
        taken == Take(Append(free, node), Len(free) + 1, call.bytes)
    IN  /\ call.at = "insert"
        /\ kernel_heap_vaddr' = kernel_heap_vaddr + size
        /\ free' = taken.free
        /\ Return(taken.block, call.want)
        /\ UNCHANGED <<mem, granted>>

\* kfree looks for the node's place from the end of the list.
Freed_NotCoalesced(block) ==
    InsertAt(free, 1 + Max({0} \cup {k \in DOMAIN free : free[k].addr < block.addr}), block)
Freed(block) ==
    LET before == Max({0} \cup {k \in DOMAIN free : free[k].addr < block.addr})
    IN  coalesce_free_list(InsertAt(free, before + 1, block))

kfree(block) ==
    /\ KmallocFree
    /\ free' = Freed(block)
    /\ live' = live \ {block}
    /\ UNCHANGED <<mem, kernel_heap_vaddr, call, granted>>

FreeHeld == \E block \in Held : kfree(block) /\ UNCHANGED proc

-----------------------------------------------------------------------------
(* Processes. *)

Advance(p, update) == proc' = [proc EXCEPT ![p] = update]

\* process_new begins; one process is made at a time.
process_new(p) ==
    /\ Idle(0) /\ \A q \in Procs : proc[q].stage \in {"none", "ready", "exit_table", "exit_block"}
    /\ proc[p].stage = "none"
    /\ Begin(0, RoundUp(PROC_SIZE), p)

\* A page_zalloc whose caller does not look for NULL.
ZallocInto(n, then(_)) ==
    LET p == page_alloc(mem.bk, n)
    IN  IF p = NULL
        THEN /\ mem' = [mem EXCEPT !.fault = TRUE]
             /\ UNCHANGED <<granted, proc>>
        ELSE /\ mem' = page_zalloc(mem, p, n)
             /\ granted' = Set(granted, p, n)
             /\ then(p)

NewTable(p) ==
    LET then(t) == Advance(p, [proc[p] EXCEPT !.stage = "frame", !.ptable = t])
    IN  /\ Idle(0) /\ proc[p].stage = "ptable"
        /\ ZallocInto(1, then)
        /\ UNCHANGED <<heap_vars, call>>

\* process_prepare up to the stack.  The frame is mapped from the physical address of
\* its first byte on.
MapFrame(p) ==
    LET tb    == proc[p].ptable
        text  == mmu_map_many(mem, tb, TEXT_VADDR, NUM_PAGES * PS_4K, 1, {"X"})
        after == mmu_map_many(text, tb, proc[p].block + HEADER,
                              mmu_translate(mem, KernelTable, proc[p].block + HEADER),
                              FRAME_SIZE, {"R", "W"})
    IN  /\ Idle(0) /\ proc[p].stage = "frame"
        /\ mem' = after
        /\ granted' = Grant(NewTables(after), granted)
        /\ Advance(p, [proc[p] EXCEPT !.stage = "stack"])
        /\ UNCHANGED <<heap_vars, call>>

AllocStack(p) ==
    LET then(s) == Advance(p, [proc[p] EXCEPT !.stage = "map_stack", !.stack = s])
    IN  /\ Idle(0) /\ proc[p].stage = "stack"
        /\ ZallocInto(STACK_PAGES, then)
        /\ UNCHANGED <<heap_vars, call>>

MapStack(p) ==
    LET after == mmu_map_many(mem, proc[p].ptable, STACK_VADDR, proc[p].stack * PS_4K,
                              PS_4K * STACK_PAGES, {"R", "W", "U"})
    IN  /\ Idle(0) /\ proc[p].stage = "map_stack"
        /\ mem' = after
        /\ granted' = Grant(NewTables(after), granted)
        /\ Advance(p, [proc[p] EXCEPT !.stage = "trap_stack"])
        /\ UNCHANGED <<heap_vars, call>>

AllocTrapStack(p) ==
    LET then(s) == Advance(p, [proc[p] EXCEPT !.stage = "ready", !.trap_stack = s])
    IN  /\ Idle(0) /\ proc[p].stage = "trap_stack"
        /\ ZallocInto(1, then)
        /\ UNCHANGED <<heap_vars, call>>

\* process_free, on the hart that handles SYS_EXIT: the pages of the lists, the tables,
\* the Process itself.
FreePages(h, p) ==
    /\ Idle(h) /\ proc[p].stage = "ready"
    /\ mem' = [mem EXCEPT !.bk = page_dealloc(page_dealloc(@, proc[p].trap_stack),
                                              proc[p].stack)]
    /\ granted' = [e \in DOMAIN granted \ {proc[p].trap_stack, proc[p].stack} |-> granted[e]]
    /\ Advance(p, [proc[p] EXCEPT !.stage = "exit_table", !.trap_stack = NULL, !.stack = NULL])
    /\ UNCHANGED <<heap_vars, call>>

FreeTables(h, p) ==
    /\ Idle(h) /\ proc[p].stage = "exit_table"
    /\ mem' = mmu_free(mem, proc[p].ptable)
    /\ granted' = [e \in DOMAIN granted \ TablesOf(mem, proc[p].ptable) |-> granted[e]]
    /\ Advance(p, [proc[p] EXCEPT !.stage = "exit_block", !.ptable = NULL])
    /\ UNCHANGED <<heap_vars, call>>

FreeProcess(h, p) ==
    /\ Idle(h) /\ proc[p].stage = "exit_block"
    /\ \E b \in live : b.addr = proc[p].block /\ kfree(b)
    /\ proc' = [proc EXCEPT ![p] = NoProcess]

-----------------------------------------------------------------------------
Next ==
    /\ ~mem.fault
    /\ \/ GrowPages \/ GrowZero \/ GrowMap \/ GrowInsert \/ FreeHeld
       \/ \E h \in Harts :
            \/ kmalloc(h)
            \/ \E p \in Procs : FreePages(h, p) \/ FreeTables(h, p) \/ FreeProcess(h, p)
       \/ \E p \in Procs :
            \/ process_new(p) \/ NewTable(p) \/ MapFrame(p)
            \/ AllocStack(p) \/ MapStack(p) \/ AllocTrapStack(p)

Spec == Init /\ [][Next]_vars

-----------------------------------------------------------------------------
(* Properties. *)

Block == [addr : 0 .. kernel_heap_vaddr, size : 0 .. kernel_heap_vaddr]

TypeOK ==
    /\ mem.bk \in Bookkeeping /\ \A p \in Pages : IsPageTable(mem.tables[p])
    /\ kernel_heap_vaddr % PS_4K = 0
    /\ free \in Seq(Block) /\ live \subseteq Block
    /\ call.hart \in Harts \cup {NULL} /\ call.want \in Procs \cup {NULL}
    /\ call.at \in {"idle", "pages", "zero", "map", "insert"}
    /\ \A p \in Procs : proc[p].stage # "none" /\ proc[p].stage # "ptable"
                            => proc[p].block \in {b.addr : b \in live}

Extent(p) == p .. p + granted[p] - 1

\* The page allocator keeps two bits per page and no sizes, and finds again from them
\* what it handed out: the allocations are disjoint, together they are the pages that are
\* taken, and page_dealloc of any of them gives back that one, whole, and no other.
ExtentsKept ==
    /\ \A p, q \in DOMAIN granted : p # q => Extent(p) \cap Extent(q) = {}
    /\ UNION {Extent(p) : p \in DOMAIN granted} = {i \in Pages : mem.bk[i].taken}
    /\ \A p \in DOMAIN granted : get_num_pages(mem.bk, p) = granted[p]

Blocks == {free[k] : k \in DOMAIN free} \cup live
HeapPage(v) == mmu_translate(mem, KernelTable, v * PS_4K) \div PS_4K

\* The heap is tiled by its free and its held blocks, and no two free blocks are neighbours.
BlocksTile ==
    LET starts == {b.addr : b \in Blocks}
    IN  /\ starts \cup {kernel_heap_vaddr} = {HEADER} \cup {End(b) : b \in Blocks}
        /\ Cardinality(starts) = Len(free) + Cardinality(live)
        /\ \A k \in 1 .. Len(free) - 1 : End(free[k]) < free[k + 1].addr

\* Each page of the heap is backed by a page of its own that is allocated and is neither a
\* table of any address space nor of a stack.
PagesBacked ==
    LET vpages == 0 .. (kernel_heap_vaddr \div PS_4K) - 1
        others == UNION ({TablesOf(mem, KernelTable)}
                    \cup {TablesOf(mem, proc[p].ptable) : p \in
                            {q \in Procs : proc[q].ptable # NULL}}
                    \cup {{proc[p].trap_stack} \cup
                          {proc[p].stack + k : k \in 0 .. STACK_PAGES - 1} : p \in
                            {q \in Procs : proc[q].stage = "ready"}})
    IN  /\ Cardinality({HeapPage(v) : v \in vpages}) = Cardinality(vpages)
        /\ \A v \in vpages : HeapPage(v) \in Pages \ others /\ mem.bk[HeapPage(v)].taken

\* After any sequence of calls nothing of the heap is lost or handed out twice, in its
\* addresses or in the pages behind them.
HeapTiled == BlocksTile /\ PagesBacked

\* process_prepare, "Map process frame": the addresses of the frame mean the same memory
\* in the process's address space, where the trap vector saves the registers, as in the
\* kernel's, where the scheduler reads them.
FrameMapped ==
    \A p \in Procs : proc[p].stage = "ready" =>
        \A k \in 0 .. FRAME_SIZE - 1 :
            LET vaddr == proc[p].block + HEADER + k
            IN  mmu_translate(mem, proc[p].ptable, vaddr)
                    = mmu_translate(mem, KernelTable, vaddr)
=============================================================================
