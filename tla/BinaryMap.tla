------------------------------ MODULE BinaryMap ------------------------------
(* The maps of src/src/map.c: binary search trees that are never balanced.  A tree *)
(* is the empty sequence or a node with its two subtrees.                         *)
EXTENDS Naturals

map_new == <<>>
MapNode(key, value) == [key |-> key, value |-> value, left |-> map_new, right |-> map_new]

RECURSIVE map_get(_, _, _)
map_get(map, key, null) ==
    IF map = map_new THEN null
    ELSE IF key = map.key THEN map.value
    ELSE map_get(IF key < map.key THEN map.left ELSE map.right, key, null)

RECURSIVE map_insert(_, _, _)
map_insert(map, key, value) ==
    IF map = map_new THEN MapNode(key, value)
    ELSE IF key = map.key THEN [map EXCEPT !.value = value]
    ELSE IF key < map.key THEN [map EXCEPT !.left = map_insert(@, key, value)]
    ELSE [map EXCEPT !.right = map_insert(@, key, value)]
=============================================================================
