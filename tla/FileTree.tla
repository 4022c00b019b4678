------------------------------ MODULE FileTree -------------------------------
(* What the two file systems have in common.  At a mount each of them reads all     *)
(* its directories into cache nodes, which it keeps; here the nodes are a function  *)
(* from the names that lead to a node to its inode number.                         *)
EXTENDS Filepath, BinaryMap, Integers, FiniteSets, TLC

\* What a read leaves in the caller's buffer and what it returns; Failed returns -1, and
\* Wild reads or writes where it must not.
Got(buf) == [n |-> Len(buf), buf |-> buf]
Failed == [n |-> -1, buf |-> <<>>]
Wild == [n |-> -2, buf |-> <<>>]

Smaller(a, b) == IF a < b THEN a ELSE b
CEILDIV(a, b) == (a + b - 1) \div b

\* A new node for each directory entry in use; a node's list of children begins with the
\* newest.  Only the first node of an inode gets children of its own.
AddEntry(path, s, e) ==
    LET child == Append(path, e.name)
        node  == [s EXCEPT !.nodes = (child :> e.inode) @@ @]
    IN  IF e.inode = 0 THEN s
        ELSE IF map_get(s.inum_to_inode, e.inode, FALSE) THEN node
        ELSE [node EXCEPT !.nodes_to_cache = <<[path |-> child, inode |-> e.inode]>> \o @,
                          !.inum_to_inode = map_insert(@, e.inode, TRUE)]
CacheEntries_UpToUnused(state, path, entries) ==
    LET unused == {k \in DOMAIN entries : entries[k].inode = 0}
        used   == {k \in DOMAIN entries : \A j \in unused : k < j}
        add(s, e) == AddEntry(path, s, e)
    IN  FoldLeft(add, state, [k \in used |-> entries[k]])
CacheEntries(state, path, entries) ==
    LET add(s, e) == AddEntry(path, s, e)
    IN  FoldLeft(add, state, entries)

\* The loop over nodes_to_cache takes each of num_inodes inodes at most once.
CacheInodes(root, num_inodes, cache(_, _)) ==
    LET turn(s, k) ==
            IF s.nodes_to_cache = <<>> THEN s
            ELSE cache([s EXCEPT !.nodes_to_cache = Tail(@)], Head(s.nodes_to_cache))
        start == [nodes |-> <<>> :> root,
                  nodes_to_cache |-> <<[path |-> <<>>, inode |-> root]>>,
                  inum_to_inode |-> map_insert(map_new, root, TRUE)]
    IN  FoldLeft(turn, start, [k \in 1 .. num_inodes |-> k]).nodes

\* The inode that path names among nodes, as a set of at most one.
GetFile(nodes, path) ==
    {nodes[p] : p \in {q \in DOMAIN nodes : <<Slash>> \o q = filepath_split_path(path)}}
TheInode(found) == CHOOSE inum \in found : TRUE
=============================================================================
