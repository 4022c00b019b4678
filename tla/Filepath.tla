------------------------------ MODULE Filepath -------------------------------
(* The paths of src/src/filepath.c.  A path is a sequence of characters, of which *)
(* only "/" and "\\" mean something here; a name is a sequence of characters, too. *)
EXTENDS Naturals, SequencesExt

Slash == <<"/">>

\* filepath_deescape_name drops each backslash that no backslash escapes.
filepath_deescape_name(name) ==
    LET take(s, c) == IF c = "\\" /\ ~s.escape THEN [s EXCEPT !.escape = TRUE]
                      ELSE [name |-> Append(s.name, c), escape |-> FALSE]
    IN  FoldLeft(take, [name |-> <<>>, escape |-> FALSE], name).name

\* One character of filepath_split_path; chunk is the text from start_idx on.  A "/" after
\* a "/" moves start_idx by one, also when the one before was escaped.
TakeChar(s, c) ==
    LET next   == [s EXCEPT !.chunk = Append(@, c), !.pc = c, !.escape = FALSE]
        parts  == c = "/" /\ ~s.escape
    IN  IF parts /\ s.pc = "NUL" THEN [next EXCEPT !.names = <<Slash>>, !.chunk = <<>>]
        ELSE IF parts /\ s.pc = "/" THEN [next EXCEPT !.chunk = Tail(@)]
        ELSE IF parts THEN [next EXCEPT !.names = Append(@, s.chunk), !.chunk = <<>>]
        ELSE [next EXCEPT !.escape = c = "\\" /\ ~s.escape]

\* The names of a path, the first of which is "/" when it is absolute.
filepath_split_path(path) ==
    LET end    == FoldLeft(TakeChar, [names |-> <<>>, chunk |-> <<>>, escape |-> FALSE,
                                      pc |-> "NUL"], path)
        chunks == IF end.chunk = <<>> THEN end.names ELSE Append(end.names, end.chunk)
    IN  [k \in DOMAIN chunks |-> filepath_deescape_name(chunks[k])]

\* filepath_join_paths splits each of the paths again.  It reads the first name of all but
\* the first of them, which an empty path does not have.
JoinFaults(paths) == \E k \in 2 .. Len(paths) : paths[k] = <<>>

filepath_join_paths(paths) ==
    LET split(k) == filepath_split_path(paths[k])
        names == FlattenSeq([k \in DOMAIN paths |->
                     IF k # 1 /\ Head(split(k)) = Slash THEN Tail(split(k)) ELSE split(k)])
    IN  FlattenSeq([k \in DOMAIN names |-> IF k = 1 THEN names[k] ELSE Slash \o names[k]])
=============================================================================
