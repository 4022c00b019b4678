-------------------------------- MODULE Ext4 ---------------------------------
(* The ext4 file system of src/src/ext4.c, for a disk with blocks of 1024 bytes    *)
(* and checksums of its metadata, as the addresses of its groups and blocks and its *)
(* loop over directory entries take for granted.  The magic numbers of extents are  *)
(* right.  A directory entry stands for the bytes up to the next one, and is as     *)
(* long as the tail of a block.                                                   *)
EXTENDS FileTree

EXT2_ROOT_INO == 2
DirEntryTail == 1

Ext4SuperBlock(disk) == disk.kind = "ext4"
Ext4Inode(disk, inum) == disk.inodes[inum]
Zeros(n) == [k \in 1 .. n |-> 0]

\* One extent.  Of one that begins behind the last byte wanted 0 bytes are read, and
\* block_request for none allocates 0 pages, or, as count is unsigned, a huge number.
ReadExtent(disk, got, extent, filesize) ==
    LET offset == extent.block * disk.block_size
        count  == Smaller(extent.len * disk.block_size, filesize - offset)
        byte(k) == disk.blocks[extent.start + ((k - 1) \div disk.block_size)]
                              [((k - 1) % disk.block_size) + 1]
    IN  IF got = Wild \/ count <= 0 THEN Wild
        ELSE [n |-> got.n + count,
              buf |-> [k \in DOMAIN got.buf |-> IF k \in offset + 1 .. offset + count
                                                THEN byte(k - offset) ELSE got.buf[k]]]

RECURSIVE ReadExtents(_, _, _, _)
ReadExtents(disk, got, header, filesize) ==
    LET leaf(g, extent) == ReadExtent(disk, g, extent, filesize)
        child(g, index) ==
            LET block == disk.blocks[index.leaf]
            IN  IF g \in {Failed, Wild} THEN g
                ELSE IF block.depth >= header.depth THEN Failed
                ELSE ReadExtents(disk, g, block, filesize)
    IN  IF header.depth = 0 THEN FoldLeft(leaf, got, header.entries)
        ELSE FoldLeft(child, got, header.entries)
ext4_read_extent(disk, header, filesize) ==
    ReadExtents(disk, [n |-> 0, buf |-> Zeros(filesize)], header, filesize)

\* The copy of a name runs on into the next entry when no byte pads it.
NameRead(entry) == IF entry.padded THEN entry.name ELSE Append(entry.name, "next entry")

\* The loop leaves the last bytes of the directory, for the tail of its last block; those
\* of its other blocks look like entries that are not in use.
ext4_cache_cnode(disk, state, cnode) ==
    LET inode   == Ext4Inode(disk, cnode.inode)
        read    == ext4_read_extent(disk, inode.header, inode.size)
        entries == [k \in 1 .. inode.size - DirEntryTail |->
                       [inode |-> read.buf[k].inode, name |-> NameRead(read.buf[k])]]
    IN  IF ~inode.dir \/ ~inode.extents THEN state
        ELSE IF read.n # inode.size THEN state
        ELSE CacheEntries(state, cnode.path, entries)

ext4_cache_inodes(disk) ==
    LET cache(state, cnode) == ext4_cache_cnode(disk, state, cnode)
    IN  CacheInodes(EXT2_ROOT_INO, Cardinality(DOMAIN disk.inodes), cache)

ext4_get_file(nodes, path) == GetFile(nodes, path)

ReadInode(disk, inode, count) ==
    LET all == IF count > inode.size \/ count = 0 THEN inode.size ELSE count
    IN  IF inode.extents THEN ext4_read_extent(disk, inode.header, all) ELSE Got(<<>>)
ext4_read_file(disk, nodes, path, count) ==
    LET found == ext4_get_file(nodes, path)
    IN  IF found = {} THEN Got(<<>>)
        ELSE ReadInode(disk, Ext4Inode(disk, TheInode(found)), count)

ext4_get_filesize(disk, nodes, path) ==
    LET found == ext4_get_file(nodes, path)
    IN  IF found = {} THEN -1 ELSE Ext4Inode(disk, TheInode(found)).size
=============================================================================
