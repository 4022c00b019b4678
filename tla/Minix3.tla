------------------------------- MODULE Minix3 --------------------------------
(* The MINIX 3 file system of src/src/minix3.c.  A disk maps the numbers of its   *)
(* inodes to them and the numbers of its zones (blocks) to what they hold: bytes, *)
(* zone pointers or directory entries.                                            *)
EXTENDS FileTree

CONSTANT U32        \* sizeof(u32), in the units of block_size

MINIX3_ROOT_INODE == 1
MINIX3_ZONES_PER_INODE == 10

Minix3SuperBlock(disk) == disk.kind = "minix"
Minix3Inode(disk, inum) == disk.inodes[inum]

\* Z_DIRECT .. Z_TRIPLY_INDIRECT are 0 .. 3; the pointers of an indirect zone would fill
\* block_size ^ type blocks if they were bytes.
ZoneCount(disk, type) == disk.block_size ^ (type + 1)
ZoneType_OneDirectMore(i) == IF i < 8 THEN 0 ELSE i - 6
ZoneType(i) == IF i < 7 THEN 0 ELSE i - 6

\* The bytes that count bytes of a zone give; zones that are not used give none.
RECURSIVE minix3_read_zone(_, _, _, _)
minix3_read_zone(disk, zone, type, count) ==
    LET most     == Smaller(count, ZoneCount(disk, type))
        pointers == SelectSeq(SubSeq(disk.blocks[zone], 1, disk.block_size \div U32),
                              LAMBDA z : z # 0)
        next(buf, z) == IF Len(buf) = most THEN buf
                        ELSE buf \o minix3_read_zone(disk, z, type - 1, most - Len(buf))
    IN  IF count = 0 THEN <<>>
        ELSE IF type = 0 THEN SubSeq(disk.blocks[zone], 1, most)
        ELSE FoldLeft(next, <<>>, pointers)

minix3_cache_cnode(disk, state, cnode) ==
    LET inode == Minix3Inode(disk, cnode.inode)
        zones == SelectSeq(inode.zones, LAMBDA z : z # 0)
        read(z) == minix3_read_zone(disk, z, 0, disk.block_size)
    IN  IF inode.dir
        THEN CacheEntries(state, cnode.path, FlattenSeq([k \in DOMAIN zones |-> read(zones[k])]))
        ELSE state

minix3_cache_inodes(disk) ==
    LET cache(state, cnode) == minix3_cache_cnode(disk, state, cnode)
    IN  CacheInodes(MINIX3_ROOT_INODE, Cardinality(DOMAIN disk.inodes), cache)

minix3_get_file(nodes, path) == GetFile(nodes, path)

ReadZones(disk, inode, count) ==
    LET all == IF count > inode.size \/ count = 0 THEN inode.size ELSE count
        next(buf, i) ==
            LET left == Smaller(all - Len(buf), ZoneCount(disk, ZoneType(i)))
            IN  IF inode.zones[i + 1] = 0 \/ Len(buf) = all THEN buf
                ELSE buf \o minix3_read_zone(disk, inode.zones[i + 1], ZoneType(i), left)
    IN  FoldLeft(next, <<>>, [i \in 1 .. MINIX3_ZONES_PER_INODE |-> i - 1])
\* Of an empty file that has a zone 0 bytes are read: see Ext4's ReadExtent.
minix3_read_file(disk, nodes, path, count) ==
    LET found == minix3_get_file(nodes, path)
        inode == Minix3Inode(disk, TheInode(found))
    IN  IF found = {} THEN Got(<<>>)
        ELSE IF inode.size = 0 /\ Range(inode.zones) # {0} THEN Wild
        ELSE Got(ReadZones(disk, inode, count))

minix3_get_filesize(disk, nodes, path) ==
    LET found == minix3_get_file(nodes, path)
    IN  IF found = {} THEN -1 ELSE Minix3Inode(disk, TheInode(found)).size
=============================================================================
