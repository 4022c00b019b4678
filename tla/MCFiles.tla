------------------------------ MODULE MCFiles --------------------------------
(* Two disks, each with a MINIX 3 or an ext4 file system or none, with files from   *)
(* no byte to one that needs the triply indirect zone or an extent tree, and the    *)
(* lines that read them and run the programs among them.  Bound: no line runs a     *)
(* directory.                                                                     *)
EXTENDS Files

Data(b) == [k \in 1 .. 4 |-> (10 * b) + k]
Dir(inum, name) == [inode |-> inum, name |-> name]
Zones(z) == [k \in 1 .. 10 |-> IF k <= Len(z) THEN z[k] ELSE 0]
File(size, z) == [dir |-> FALSE, size |-> size, zones |-> Zones(z)]

\* "." and ".." of both directories, a hard link, an entry not in use, a directory with a
\* hole, a file with a hole, a program.
MinixBlocks ==
    (10 :> <<Dir(1, <<".">>), Dir(1, <<"..">>), Dir(2, <<"f">>), Dir(0, <<"old">>)>>)
    @@ (11 :> <<Dir(4, <<"h">>), Dir(3, <<"d">>), Dir(6, <<"p">>), Dir(5, <<"mnt">>)>>)
    @@ (12 :> <<Dir(3, <<".">>), Dir(1, <<"..">>), Dir(2, <<"g">>), Dir(7, <<"x", "y">>)>>)
    @@ (13 :> <<900, 1, 2, 3>>) @@ (14 :> <<4, 5, 6, 7>>) @@ (15 :> <<8, 9, 0, 0>>)
    @@ (38 :> <<28, 29, 0, 0>>) @@ (39 :> <<40, 41, 0, 0>>) @@ (40 :> <<30, 31, 0, 0>>)
    @@ (41 :> <<32, 33, 0, 0>>) @@ (42 :> <<43, 0, 0, 0>>) @@ (43 :> <<44, 0, 0, 0>>)
    @@ (44 :> <<34, 35, 0, 0>>)
    @@ [b \in 21 .. 35 |-> Data(b)]
MinixDisk(size) ==
    [kind |-> "minix", block_size |-> 4, blocks |-> MinixBlocks,
     inodes |-> (1 :> [dir |-> TRUE, size |-> 12, zones |-> Zones(<<10, 0, 11>>)])
        @@ (2 :> File(size, <<21, 22, 23, 24, 25, 26, 27, 38, 39, 42>>))
        @@ (3 :> [dir |-> TRUE, size |-> 4, zones |-> Zones(<<12>>)])
        @@ (4 :> File(9, <<21, 0, 22>>)) @@ (5 :> File(3, <<23>>))
        @@ (6 :> File(10, <<13, 14, 15>>)) @@ (7 :> File(0, <<>>))]

\* The directories, one of two blocks, have tails; a name without padding, a file in an
\* extent tree, one with a hole, one without extents, a program.
Named(inum, name) == [inode |-> inum, name |-> name, padded |-> TRUE]
DirTail == [inode |-> 0, name |-> <<>>, padded |-> FALSE]
Extent(b, n, at) == [block |-> b, len |-> n, start |-> at]
Leaf(entries) == [depth |-> 0, entries |-> entries]
Node(dir, size, header) == [dir |-> dir, extents |-> TRUE, size |-> size, header |-> header]

Ext4Blocks ==
    (10 :> <<Named(2, <<".">>), Named(2, <<"..">>), Named(4, <<"f">>), DirTail>>)
    @@ (11 :> <<Named(3, <<"d">>), [Named(5, <<"w">>) EXCEPT !.padded = FALSE], Named(6, <<"p">>), DirTail>>)
    @@ (12 :> <<Named(3, <<".">>), Named(2, <<"..">>), Named(4, <<"g">>), Named(5, <<"h">>)>>)
    @@ (13 :> <<Named(7, <<"x", "y">>), Named(0, <<"old">>), DirTail, DirTail>>)
    @@ (14 :> <<901, 1, 2, 3>>) @@ (15 :> <<4, 5, 6, 7>>) @@ (16 :> <<8, 9, 0, 0>>)
    @@ (17 :> <<902, 1, 2, 3>>) @@ (18 :> <<902>>)
    @@ (40 :> Leaf(<<Extent(0, 2, 21), Extent(2, 1, 30)>>))
    @@ (41 :> Leaf(<<Extent(3, 3, 25)>>))
    @@ [b \in 21 .. 35 |-> Data(b)]
Ext4Disk(size) ==
    [kind |-> "ext4", block_size |-> 4, blocks |-> Ext4Blocks,
     inodes |-> (2 :> Node(TRUE, 8, Leaf(<<Extent(0, 2, 10)>>)))
        @@ (3 :> Node(TRUE, 8, Leaf(<<Extent(0, 1, 12), Extent(1, 1, 13)>>)))
        @@ (4 :> Node(FALSE, size,
                      IF size = 0 THEN Leaf(<<>>)
                      ELSE [depth |-> 1, entries |-> <<[leaf |-> 40], [leaf |-> 41]>>]))
        @@ (5 :> Node(FALSE, 12, Leaf(<<Extent(0, 1, 21), Extent(2, 1, 22)>>)))
        @@ (6 :> Node(FALSE, 12, Leaf(<<Extent(0, 3, 14)>>)))
        @@ (7 :> [Node(FALSE, 4, Leaf(<<Extent(0, 1, 17)>>)) EXCEPT !.extents = FALSE])]

NoDisk == [kind |-> "none"]
Disks == {MinixDisk(n) : n \in {0, 3, 28, 29, 41, 60}} \cup {Ext4Disk(n) : n \in {0, 8, 9, 23}} \cup {NoDisk}
Pairs == Disks \X Disks

\* Programs with two segments, the second one in the middle of a page and on the page on
\* which the first one ends; with none; and for another machine.
Segment(type, vaddr, offset, size, flags) ==
    [type |-> type, vaddr |-> vaddr, offset |-> offset, filesz |-> size, memsz |-> size, flags |-> flags]
Headers ==
    (900 :> [riscv_exec |-> TRUE, phdrs |->
        <<Segment("PT_LOAD", 8, 1, 3, {"R", "X"}), Segment("PT_NULL", 0, 0, 9, {}),
          Segment("PT_LOAD", 14, 4, 6, {"R", "W"})>>])
    @@ (901 :> [riscv_exec |-> TRUE, phdrs |->
        <<Segment("PT_LOAD", 4, 2, 6, {"X"}), Segment("PT_LOAD", 11, 7, 5, {"R"})>>])
    @@ (902 :> [riscv_exec |-> FALSE, phdrs |-> <<>>])

Absolutes ==
    {<<>>, <<"f">>, <<"f", "/">>, <<"d", "/", "g">>, <<"/", "d", "/", "/", "g">>, <<"d", "/", "h">>,
     <<"p">>, <<"w">>, <<"d", "/", "x", "y">>, <<"d">>, <<"f", "/", "g">>, <<"mnt">>,
     <<"d", "/", "..", "/", "f">>, <<"\\", "/", "f">>, <<"f", "\\">>, <<"d", "/", "\\">>}
Paths == {Slash \o p : p \in Absolutes}
         \cup {Slash \o MNT \o Slash \o EXT \o Slash \o p : p \in Absolutes}
         \cup {Slash \o MNT \o Slash \o p : p \in {<<"p">>, <<"ext">>}} \cup {<<"f">>}
\* The 12 bytes before the extent that begins with block 3, and one more.
Counts == {<<"0">>, <<"1">>, <<"5">>, <<"1", "2">>, <<"1", "3">>, <<"2", "8">>, <<"3", "7">>, <<"5", "5">>, <<"x">>}
SomeLines ==
    {<<"read", " ", "chars", " ">> \o p \o <<" ">> \o n : p \in Paths, n \in Counts}
    \cup {<<" ", "exec", "\t">> \o p : p \in {q \in Paths : Last(q) \in {"f", "p", "w", "mnt", "\\"}}}
    \cup {<<>>, <<"read", " ", "f">>, <<"exec">>, <<"exec", " ", "/", "f", " ", "x">>}
=============================================================================
