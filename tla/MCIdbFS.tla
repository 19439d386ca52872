------------------------------ MODULE MCIdbFS ------------------------------
(* The directory d holds one file of two blocks, kept as a blob; e and the *)
(* paths below it are free.  Two clients make any of these calls.          *)
EXTENDS IdbFS

CONSTANTS c1, c2

D == <<"d">>
E == <<"e">>
DF == <<"d", "f">>
EF == <<"e", "f">>

MCPaths == {<<>>, D, E, DF, EF}
Dir == [type |-> "dir", ext |-> FALSE, data |-> <<>>, size |-> 0, attr |-> 0]
Large == [type |-> "file", ext |-> TRUE, data |-> <<>>, size |-> 2, attr |-> 0]
MCRows == [p \in MCPaths |-> CASE p \in {<<>>, D} -> Dir [] p = DF -> Large [] OTHER -> Absent]
MCBlobs == [p \in MCPaths |-> IF p = DF THEN <<"a", "b">> ELSE NoBlob]

Call(op, p, q, x, h) == [op |-> op, p |-> p, q |-> q, x |-> x, h |-> h]

MCSymmetry == Permutations(Clients)

MCCalls ==
    {Call("stat", E, <<>>, 0, 0), Call("chmod", DF, <<>>, 1, 0),
     Call("open", E, <<>>, 0, 0), Call("create", EF, <<>>, 0, 0),
     Call("openfile", DF, <<>>, {"trunc"}, 0), Call("openfile", E, <<>>, {"creat", "append"}, 0),
     Call("openfile", E, <<>>, {"creat", "excl", "rdonly"}, 0),
     Call("truncate", DF, <<>>, 1, 0), Call("remove", DF, <<>>, 0, 0),
     Call("remove", D, <<>>, 0, 0), Call("mkdir", E, <<>>, 0, 0),
     Call("symlink", E, <<>>, D, 0),
     Call("rename", DF, E, 0, 0), Call("rename", D, E, 0, 0)}
    \cup {Call("write", <<>>, <<>>, "c", h) : h \in Handles}
    \cup {Call("close", <<>>, <<>>, 0, h) : h \in Handles}
    \cup {Call("read", <<>>, <<>>, 2, 1), Call("seek", <<>>, <<>>, 1, 1)}
=============================================================================
