-------------------------------- MODULE Files --------------------------------
(* What hart 0 does with files: main mounts the two disks in the tree of           *)
(* src/src/vfs.c, then the console reads files and loads programs from them.  A     *)
(* command line is a sequence of characters; a word that is compared as a whole is  *)
(* one character.  Disks are not written, and a read of one succeeds.              *)
EXTENDS Mmu, Minix3, Ext4

CONSTANTS
    Machines,           \* pairs of disks
    Lines,              \* command lines
    ElfHeaders,         \* what a file's first byte says of a program, by that byte
    ProcessTable,       \* the page of the root table of a process
    U64                 \* 2^64

ASSUME FilesAssumption ==
    U32 \in Nat \ {0} /\ ProcessTable \in Pages /\ U64 \in Nat /\ U64 > 2 * NUM_PAGES * PS_4K

VARIABLES
    disk,               \* the two block devices
    mounts,             \* how many of main's two mounts are done
    vfs_cnode_cache,    \* the tree of mount points: its nodes by the names that lead there
    minix3_inode_caches, ext4_inode_caches,     \* the cache nodes by device
    last                \* the last command and what came of it

vars == <<disk, mounts, vfs_cnode_cache, minix3_inode_caches, ext4_inode_caches, last>>

Devices == {1, 2}
VfsCacheNode(type, device) == [type |-> type, block_device |-> device]
Nothing == [op |-> "none", path |-> <<>>, count |-> 0, result |-> Failed]

\* vfs_init and the state before.
Init ==
    /\ disk \in Machines
    /\ mounts = 0
    /\ vfs_cnode_cache = (<<>> :> VfsCacheNode("NT_NONE", NULL))
    /\ minix3_inode_caches = <<>> /\ ext4_inode_caches = <<>>
    /\ last = Nothing

-----------------------------------------------------------------------------
(* The tree of mount points. *)

\* The names that path gives _vfs_get_cnode: none at all when it is not absolute.
Absolute(path) == Head(filepath_split_path(path)) = Slash
Names(path) == Tail(filepath_split_path(path))

\* The names that lead to the last node on the way of names.
Deepest(names) ==
    LET nodes == {k \in 0 .. Len(names) :
                    \A j \in 0 .. k : SubSeq(names, 1, j) \in DOMAIN vfs_cnode_cache}
    IN  SubSeq(names, 1, Max(nodes))

\* _vfs_get_cnode makes the nodes that are missing, or returns the last one and, as
\* path_left, what of the path is left.
Created(names) ==
    LET new == {SubSeq(names, 1, k) : k \in 0 .. Len(names)} \ DOMAIN vfs_cnode_cache
    IN  vfs_cnode_cache @@ [n \in new |-> VfsCacheNode("NT_NONE", NULL)]
NamesLeft(names) == SubSeq(names, Len(Deepest(names)) + 1, Len(names))
path_left(names) == Slash \o filepath_join_paths(NamesLeft(names))

\* Each init of a file system starts new maps of its devices.
vfs_mount(device, path) ==
    LET names == Names(path)
        tree  == Created(names)
        mounted(type) == [tree EXCEPT ![names] = VfsCacheNode(type, device)]
    IN  IF tree[names].type # "NT_NONE"
        THEN vfs_cnode_cache' = tree /\ UNCHANGED <<minix3_inode_caches, ext4_inode_caches>>
        ELSE IF Minix3SuperBlock(disk[device])
        THEN /\ vfs_cnode_cache' = mounted("NT_MINIX3")
             /\ minix3_inode_caches' = (device :> minix3_cache_inodes(disk[device]))
             /\ UNCHANGED ext4_inode_caches
        ELSE IF Ext4SuperBlock(disk[device])
        THEN /\ vfs_cnode_cache' = mounted("NT_EXT4")
             /\ ext4_inode_caches' = (device :> ext4_cache_inodes(disk[device]))
             /\ UNCHANGED minix3_inode_caches
        ELSE vfs_cnode_cache' = tree /\ UNCHANGED <<minix3_inode_caches, ext4_inode_caches>>

\* A device that is no longer in its file system's map has no superblock: -1, but 0 bytes
\* from ext4_read_file.
ReadOn(type, d, left, count) ==
    IF type = "NT_NONE" THEN Failed
    ELSE IF type = "NT_MINIX3"
    THEN IF d \in DOMAIN minix3_inode_caches
         THEN minix3_read_file(disk[d], minix3_inode_caches[d], left, count) ELSE Failed
    ELSE IF d \in DOMAIN ext4_inode_caches
         THEN ext4_read_file(disk[d], ext4_inode_caches[d], left, count) ELSE Got(<<>>)
FilesizeOn(type, d, left) ==
    IF type = "NT_MINIX3" /\ d \in DOMAIN minix3_inode_caches
    THEN minix3_get_filesize(disk[d], minix3_inode_caches[d], left)
    ELSE IF type = "NT_EXT4" /\ d \in DOMAIN ext4_inode_caches
    THEN ext4_get_filesize(disk[d], ext4_inode_caches[d], left) ELSE -1

vfs_read_file(path, count) ==
    LET node == vfs_cnode_cache[Deepest(Names(path))]
    IN  IF ~Absolute(path) THEN Failed
        ELSE IF JoinFaults(NamesLeft(Names(path))) THEN Wild
        ELSE ReadOn(node.type, node.block_device, path_left(Names(path)), count)

vfs_get_filesize(path) ==
    LET node == vfs_cnode_cache[Deepest(Names(path))]
    IN  IF ~Absolute(path) THEN -1
        ELSE IF JoinFaults(NamesLeft(Names(path))) THEN -2
        ELSE FilesizeOn(node.type, node.block_device, path_left(Names(path)))

\* main mounts the first disk below the second and does not look at the results.
MNT == <<"mnt">>
EXT == <<"ext">>
MountPaths == <<Slash \o MNT \o Slash \o EXT, Slash>>
main ==
    /\ mounts < Len(MountPaths)
    /\ mounts' = mounts + 1
    /\ vfs_mount(mounts', MountPaths[mounts'])
    /\ UNCHANGED <<disk, last>>

-----------------------------------------------------------------------------
(* Loading a program: the ELF headers are the first byte of its file. *)

Loads(file) == SelectSeq(ElfHeaders[Head(file)].phdrs,
                         LAMBDA ph : ph.type = "PT_LOAD" /\ ph.memsz > 0)
load_addr_start(phdrs) == Min({ph.vaddr : ph \in Range(phdrs)})
load_addr_end(phdrs) == Max({ph.vaddr + ph.memsz : ph \in Range(phdrs)})

CopySegment_FromTheFirst(image, file, ph, base) ==
    LET at == ph.vaddr - base
    IN  [a \in DOMAIN image |-> IF a \in at .. at + ph.memsz - 1 /\ a - at < Len(file)
                                THEN file[a - at + 1] ELSE image[a]]
\* memcpy of memsz bytes, also from behind the file's end.
CopySegment(image, file, ph, base) ==
    LET at == ph.vaddr - base
        byte(k) == IF k < Len(file) THEN file[k + 1] ELSE "heap"
    IN  [a \in DOMAIN image |-> IF a \in at .. at + ph.memsz - 1
                                THEN byte(ph.offset + a - at) ELSE image[a]]

\* Each page of a segment is the start of a mapping of memsz bytes.
MapSegment(mem, page, ph, base, user) ==
    LET map(m, j) ==
            LET vaddr == ph.vaddr + j * PS_4K
                flags == mmu_flags(m, ProcessTable, vaddr) \cup user \cup ph.flags
            IN  mmu_map_many(m, ProcessTable, vaddr,
                             page * PS_4K + ph.vaddr - base + j * PS_4K, ph.memsz, flags)
    IN  FoldLeft(map, mem, [j \in 1 .. CEILDIV(ph.memsz, PS_4K) |-> j - 1])

\* The program's image, as bytes from load_addr_start on, the page it begins at, and the
\* memory with its mappings.
NotLoaded(n) == [n |-> n, image |-> <<>>, page |-> NULL, mem |-> NULL]
LoadImage(mem, file, user) ==
    LET phdrs == Loads(file)
        base  == load_addr_start(phdrs)
        pages == CEILDIV(load_addr_end(phdrs) - base, PS_4K)
        page  == page_alloc(mem.bk, pages)
        load(s, ph) == [s EXCEPT !.image = CopySegment(@, file, ph, base),
                                 !.mem = MapSegment(@, page, ph, base, user)]
        loaded == FoldLeft(load, [n |-> 1, page |-> page, mem |-> page_zalloc(mem, page, pages),
                                  image |-> [a \in 0 .. pages * PS_4K - 1 |-> 0]], phdrs)
    IN  IF phdrs = <<>> THEN NotLoaded(0)
        ELSE IF page = NULL THEN NotLoaded(-2)
        ELSE IF loaded.mem.fault THEN NotLoaded(-2) ELSE loaded

\* What may come of it: the header of an empty file is what the heap holds there.
LoadRead(mem, filesize, file, user) ==
    IF filesize = -2 \/ file = Wild THEN {NotLoaded(-2)}
    ELSE IF filesize = -1 \/ file.n # filesize THEN {NotLoaded(0)}
    ELSE IF filesize = 0 THEN {NotLoaded(0), NotLoaded(-2)}
    ELSE IF Head(file.buf) \notin DOMAIN ElfHeaders THEN {NotLoaded(0)}
    ELSE IF ~ElfHeaders[Head(file.buf)].riscv_exec THEN {NotLoaded(0)}
    ELSE {LoadImage(mem, file.buf, user)}
process_load_elf(mem, path, user) ==
    LET filesize == vfs_get_filesize(path)
    IN  LoadRead(mem, filesize, vfs_read_file(path, filesize), user)

\* Where the kernel's copy_to_user and copy_from_user reach n bytes of a program that
\* begin at vaddr: what should be the end of the page is the offset in it, and room wraps.
copy_user(mem, vaddr, n) ==
    LET pdst         == mmu_translate(mem, ProcessTable, vaddr)
        pdst_aligned == (pdst + PS_4K) % PS_4K
        room         == (pdst_aligned - pdst) % U64
    IN  [k \in 1 .. Smaller(n, room) |-> pdst + k - 1]

-----------------------------------------------------------------------------
(* The console. *)

\* The words of a line.
get_args(line) ==
    LET take(s, c) ==
            IF c \in {" ", "\t"} THEN [s EXCEPT !.in_arg = FALSE]
            ELSE IF s.in_arg THEN [s EXCEPT !.args[Len(s.args)] = Append(@, c)]
            ELSE [args |-> Append(s.args, <<c>>), in_arg |-> TRUE]
    IN  FoldLeft(take, [args |-> <<>>, in_arg |-> FALSE], line).args

\* From the last digit to the first; a word that has a character that is no digit is 0.
Digits == <<"0", "1", "2", "3", "4", "5", "6", "7", "8", "9">>
atoi(str) ==
    LET take(s, c) == [num |-> s.num + s.tens * (IndexFirstSubSeq(<<c>>, Digits) - 1),
                       tens |-> s.tens * 10]
    IN  IF Range(str) \subseteq Range(Digits)
        THEN FoldLeft(take, [num |-> 0, tens |-> 1], Reverse(str)).num ELSE 0

\* The bytes go to a block of size bytes, though vfs_read_file takes 0 for all of the file.
\* The heap has room for the block.
read(args) ==
    LET size   == atoi(args[4])
        result == vfs_read_file(args[3], size)
    IN  /\ Len(args) >= 4
        /\ last' = [op |-> "read", path |-> args[3], count |-> size,
                    result |-> IF result.n > size THEN Wild ELSE result]

\* process_new gives the process a table of its own.
Fresh == page_zalloc([bk |-> page_alloc_init, fault |-> FALSE,
                      tables |-> [p \in Pages |-> ZeroPage]], ProcessTable, 1)
exec(args) ==
    /\ Len(args) = 2
    /\ \E result \in process_load_elf(Fresh, args[2], {"U"}) :
         last' = [op |-> "exec", path |-> args[2], count |-> 0, result |-> result]

\* A line that is no command of these leaves the prompt where it is.
handle_command(line) ==
    LET args == get_args(line)
    IN  /\ mounts = Len(MountPaths)
        /\ last = Nothing
        /\ args # <<>>
        /\ \/ args[1] = <<"read">> /\ read(args)
           \/ args[1] = <<"exec">> /\ exec(args)
        /\ UNCHANGED <<disk, mounts, vfs_cnode_cache, minix3_inode_caches, ext4_inode_caches>>

\* run_console is back at its prompt.  After a Wild read nothing is known: the model stops.
Prompt ==
    /\ last # Nothing /\ last.result.n # -2
    /\ last' = Nothing
    /\ UNCHANGED <<disk, mounts, vfs_cnode_cache, minix3_inode_caches, ext4_inode_caches>>

Next == main \/ Prompt \/ \E line \in Lines : handle_command(line)

Spec == Init /\ [][Next]_vars

-----------------------------------------------------------------------------
(* Properties, against what the disks say when they are read by position. *)

TypeOK ==
    /\ mounts \in 0 .. Len(MountPaths) /\ <<>> \in DOMAIN vfs_cnode_cache
    /\ \A n \in DOMAIN vfs_cnode_cache :
         LET node == vfs_cnode_cache[n]
         IN  /\ node.block_device \in Devices \cup {NULL}
             /\ (node.type = "NT_NONE") = (node.block_device = NULL)
             /\ n # <<>> => Front(n) \in DOMAIN vfs_cnode_cache
    /\ \A cache \in {minix3_inode_caches, ext4_inode_caches} :
         /\ Cardinality(DOMAIN cache) <= 1
         /\ \A d \in DOMAIN cache : Range(cache[d]) = DOMAIN disk[d].inodes
    /\ last.op \in {"none", "read", "exec"} /\ last.count \in Nat /\ last.result.n >= -2

\* The block that holds the b-th block of a file, as a set of at most one.
Pointers(d) == d.block_size \div U32
FirstOf(d, level) == 7 + MapThenSumSet(LAMBDA l : Pointers(d) ^ l, 1 .. level - 1)
RECURSIVE Pointed(_, _, _, _)
Pointed(d, zone, level, b) ==
    LET span == Pointers(d) ^ (level - 1)
    IN  IF zone = 0 THEN {} ELSE IF level = 0 THEN {zone}
        ELSE Pointed(d, d.blocks[zone][(b \div span) + 1], level - 1, b % span)
RECURSIVE Leaves(_, _)
Leaves(d, header) ==
    IF header.depth = 0 THEN Range(header.entries)
    ELSE UNION {Leaves(d, d.blocks[i.leaf]) : i \in Range(header.entries)}

BlocksAt(d, inode, b) ==
    IF d.kind = "minix"
    THEN LET level == Cardinality({l \in 1 .. 3 : FirstOf(d, l) <= b})
         IN  IF level = 0 THEN Pointed(d, inode.zones[b + 1], 0, 0)
             ELSE Pointed(d, inode.zones[7 + level], level, b - FirstOf(d, level))
    ELSE {e.start + b - e.block : e \in {l \in Leaves(d, inode.header) :
                                           b \in l.block .. l.block + l.len - 1}}
ByteAt(d, inode, k) ==
    d.blocks[CHOOSE b \in BlocksAt(d, inode, k \div d.block_size) : TRUE][(k % d.block_size) + 1]
Bytes(d, inode, n) == [k \in 1 .. n |-> ByteAt(d, inode, k - 1)]

\* Every extent begins among the first n bytes, and there is no zone when there are none.
NothingBehind(d, inode, n) ==
    IF d.kind = "minix" THEN n = 0 => Range(inode.zones) = {0}
    ELSE \A e \in Leaves(d, inode.header) : e.block * d.block_size < n

\* The first n bytes have no hole among them, and what the code reads ends with them.
Whole(d, inode, n) ==
    /\ \A b \in 0 .. CEILDIV(n, d.block_size) - 1 : BlocksAt(d, inode, b) # {}
    /\ d.kind = "ext4" => inode.extents
    /\ NothingBehind(d, inode, n)

\* A mount reads whole directories, without looking whether it reads 0 bytes of an extent.
ASSUME DirectoriesAssumption ==
    \A machine \in Machines : \A device \in Devices :
        LET d == machine[device]
        IN  d.kind = "ext4" =>
                \A inode \in Range(d.inodes) : inode.dir => NothingBehind(d, inode, inode.size)

\* The inode that names lead to, as a set of at most one, by way of the names that have
\* padding.
Resolve(d, names) ==
    LET bytes(inode) == {k \in 0 .. inode.size - 1 : BlocksAt(d, inode, k \div d.block_size) # {}}
        entries(inode) == {e \in {ByteAt(d, inode, k) : k \in bytes(inode)} :
                             e.inode # 0 /\ (d.kind = "ext4" => e.padded)}
        step(at, name) == UNION {{e.inode : e \in {x \in entries(d.inodes[i]) : x.name = name}} :
                                 i \in {j \in at : d.inodes[j].dir}}
        root == IF d.kind = "minix" THEN MINIX3_ROOT_INODE ELSE EXT2_ROOT_INO
    IN  FoldLeft(step, {root}, names)

Components(path) ==
    LET part(i, j) == \A k \in i .. j : path[k] # "/"
        runs == {r \in (1 .. Len(path)) \X (1 .. Len(path)) :
                   /\ r[1] <= r[2] /\ part(r[1], r[2])
                   /\ r[1] = 1 \/ path[r[1] - 1] = "/"
                   /\ r[2] = Len(path) \/ path[r[2] + 1] = "/"}
        order == SetToSortSeq(runs, LAMBDA r, t : r[1] < t[1])
    IN  [k \in DOMAIN order |-> SubSeq(path, order[k][1], order[k][2])]

\* The disk that serves names and the names left on it.  The first disk hides what the
\* second one has in MNT, and is lost when the second has a file system of its kind.
Served(names) ==
    LET on(d, rest) == IF disk[d].kind = "none" THEN {} ELSE {<<d, rest>>}
    IN  IF names = <<>> \/ Head(names) # MNT THEN on(2, names)
        ELSE IF IsPrefix(<<MNT, EXT>>, names) /\ disk[1].kind # disk[2].kind
        THEN on(1, SubSeq(names, 3, Len(names))) ELSE {}

\* An absolute path of names and nothing else.
Ordinary(path) ==
    /\ Head(path) = "/" /\ "\\" \notin Range(path)
    /\ {<<".">>, <<"..">>} \cap Range(Components(path)) = {}

\* The file at path, as a set of at most one pair of its disk and inode.
FileAt(path) ==
    UNION {{<<disk[s[1]], disk[s[1]].inodes[i]>> : i \in Resolve(disk[s[1]], s[2])} :
           s \in Served(Components(path))}

\* vfs_read_file, through the tree of mounts, the cached directories, zones and extents,
\* gives exactly the first bytes of the file that the path names on the disk that is
\* mounted there, as many as are asked for and there are, and no bytes when there is no such
\* file.  Of a file that is not empty at least one is asked for.
FilesRight ==
    last.op = "read" /\ Ordinary(last.path) =>
        /\ FileAt(last.path) = {} => last.result.n <= 0
        /\ \A f \in FileAt(last.path) :
             LET n == Smaller(last.count, f[2].size)
             IN  (n > 0 \/ f[2].size = 0) /\ Whole(f[1], f[2], n) =>
                     last.result = Got(Bytes(f[1], f[2], n))

\* Segments in the order of their addresses, the first on a page's start, whose bytes are
\* in the file.
Loadable(file) ==
    LET phdrs == Loads(file)
    IN  /\ file # <<>> /\ Head(file) \in DOMAIN ElfHeaders /\ ElfHeaders[Head(file)].riscv_exec
        /\ phdrs # <<>> /\ Head(phdrs).vaddr % PS_4K = 0
        /\ \A k \in 2 .. Len(phdrs) : phdrs[k].vaddr >= phdrs[k - 1].vaddr + phdrs[k - 1].memsz
        /\ \A ph \in Range(phdrs) : ph.offset + ph.filesz <= Len(file)

\* exec: the program finds at each address of a segment, through its page table, the byte
\* of its file that belongs there, with the rights that the segment asks for, and a system
\* call that copies some of them copies those, also from one page to the next.  Unless the
\* pages run out, every program that can be loaded is.
ProgramLoaded ==
    last.op = "exec" /\ Ordinary(last.path) /\ last.result.n # -2 =>
        \A f \in FileAt(last.path) :
            LET file  == Bytes(f[1], f[2], f[2].size)
                r     == last.result
                base  == load_addr_start(Loads(file))
            IN  Whole(f[1], f[2], f[2].size) /\ Loadable(file) =>
                    /\ r.n = 1
                    /\ \A ph \in Range(Loads(file)) : \A k \in 0 .. ph.filesz - 1 :
                         LET vaddr  == ph.vaddr + k
                             copied == copy_user(r.mem, vaddr, ph.filesz - k)
                         IN  /\ ph.flags \cup {"U"} \subseteq mmu_flags(r.mem, ProcessTable, vaddr)
                             /\ \A j \in 1 .. ph.filesz - k :
                                  LET at == copied[j] - r.page * PS_4K
                                  IN  at \in DOMAIN r.image /\ r.image[at] = file[ph.offset + k + j]
=============================================================================
