------------------------------ MODULE MCRuntime -----------------------------
(* A small instance of Runtime.  Workers: two names, a directory in a       *)
(* directory, and one operation of each kind where it matters most.  Codec: *)
(* values at the lengths where the head of an item or the buffer changes.   *)
(* Translation: every three arithmetic operators in a row, and each way to  *)
(* nest, with programs outside what emit() translates among them.           *)
EXTENDS Runtime, TLC

A == <<"a">>
D == <<"d">>
DA == <<"d", "a">>
AA == <<"a", "a">>
MCPaths == {A, D, DA, AA}
MCTrees == {(A :> "none") @@ (D :> "dir") @@ (DA :> "file") @@ (AA :> "none"),
            (A :> "file") @@ (D :> "dir") @@ (DA :> "none") @@ (AA :> "none"),
            (A :> "dir") @@ (D :> "dir") @@ (DA :> "none") @@ (AA :> "none")}

On(o, fd, n) == [NoOperation EXCEPT !.op = o, !.fd = fd, !.n = n]
At(o, path, to, fs) == [NoOperation EXCEPT !.op = o, !.fd = 1, !.path = path, !.to = to, !.flags = fs]
MCOperations ==
  {At("open", A, <<>>, {"creat"}), At("open", A, <<>>, {"append", "trunc"}),
   At("open", A, <<>>, {"directory", "excl"}), At("open", D, <<>>, {"directory"}),
   At("open", DA, <<>>, {"creat", "excl"}),
   At("open", A, <<>>, {"creat", "directory", "nofd"}),
   [At("open", A, <<>>, {"creat"}) EXCEPT !.fd = 2],
   At("stat", DA, <<>>, {}), At("unlink", A, <<>>, {}), At("unlink", DA, <<>>, {}),
   At("rmdir", D, <<>>, {}), At("rename", DA, AA, {}), At("rename", D, A, {}),
   At("link", DA, A, {}),
   On("read", 2, 1), On("read", 2, 3), On("write", 2, 1), On("seek", 2, 0),
   On("sync", 2, 0), On("fstat", 2, 0), On("allocate", 2, 0), On("setsize", 2, 0),
   On("read", 1, 1), On("pread", 2, 1), On("readdir", 1, 0), On("close", 2, 0), On("renumber", 2, 3), On("exit", 1, 0)}

To(m, path, to, fs) == [NoCall EXCEPT !.m = m, !.path = path, !.to = to, !.flags = fs]
MCRequests ==
  {To("open", A, <<>>, {"write", "create"}),
   To("open", D, <<>>, {"write", "create"}),
   To("readdir", D, <<>>, {}), To("rename", A, DA, {}), To("unlink", D, <<>>, {}),
   To("mkdir", A, <<>>, {}), To("chmod", A, <<>>, {}),
   To("fstat", <<>>, <<>>, {}), To("ftruncate", <<>>, <<>>, {}),
   [NoCall EXCEPT !.m = "read", !.n = 1], [NoCall EXCEPT !.m = "close"]}

MCBudgets == {<<3, 0>>, <<2, 1>>, <<0, 4>>}
TagSymmetry == Permutations(Tags)

CONSTANTS o1

Text(s) == [t |-> "str", s |-> s]
Of(c, n) == Text([i \in 1..n |-> c])
N(n) == [t |-> "int", n |-> n]
Blob(n) == Bytes([i \in 1..n |-> i % 7])
Obj(k, v) == [t |-> "obj", k |-> k, v |-> v]
Null == [t |-> "null"]
MCValues ==
  {Of(97, n) : n \in {0, 1, 23, 24, 31, 32, 255, 256}}
  \cup {Of(233, n) : n \in {11, 12, 31, 32, 33, 63, 64, 127, 128, 255}}
  \cup {Of(8364, n) : n \in {8, 85, 86, 2727}}
  \cup {Of(128512, n) : n \in {5, 6, 16}}
  \cup {Text(<<65279>>), Text(<<65279>> \o [i \in 1..70 |-> 97])}
  \cup {N(n) : n \in {0, 23, 24, 255, 256, 65535, 65536, 2147483647, -1, -24, -25, -256, -257, -65536, -65537}}
  \cup {Blob(n) : n \in {0, 23, 24, 256, 6000, 8176, 8188, 8189, 9000, 16360, 16400}}
  \cup {Arr(<<Blob(n), N(65536), N(1)>>) : n \in {8178, 8180, 8187, 8188}}
  \cup {Arr([i \in 1..24 |-> Null]),
        Obj(<<Text(<<112>>), Of(97, 30)>>, <<Blob(8100), Of(233, 40)>>),
        Obj(<<>>, <<>>),
        [t |-> "map", k |-> <<N(1), N(2)>>, v |-> <<Obj(<<Text(<<97>>)>>, <<Null>>), [t |-> "map", k |-> <<>>, v |-> <<>>]>>],
        [t |-> "set", a |-> <<Null, Of(233, 20)>>],
        [t |-> "iter", a |-> <<Blob(30), [t |-> "undefined"]>>],
        [t |-> "typed", tag |-> 70, b |-> <<1, 0, 0, 0>>],
        [t |-> "date", secs |-> 1700000000],
        [t |-> "tag", tag |-> 500, of |-> [t |-> "bool", yes |-> TRUE]],
        [t |-> "float", x |-> [i \in 1..8 |-> 63]],
        [t |-> "big", neg |-> TRUE, m |-> [i \in 1..8 |-> 255]],
        [t |-> "big", neg |-> FALSE, m |-> [i \in 1..8 |-> 255]],
        [t |-> "big", neg |-> FALSE, m |-> <<1>> \o [i \in 1..8 |-> 0]]}

\* Nodes of a Go program, as go2json makes them.
Num(n) == [tag |-> "number", value |-> n]
V(x) == [tag |-> "ident", value |-> x]
Op(o) == [tag |-> "op", value |-> o]
Fld(x, f) == [tag |-> "access", struct |-> V(x), member |-> f]
Expr(ts) == [tag |-> "expr", body |-> ts]
Let(x, ts) == [tag |-> "declare", names |-> <<x>>, type |-> "auto", value |-> Expr(ts)]
Var(xs, type) == [tag |-> "declare", names |-> xs, type |-> type, value |-> Nil]
Set(l, ts) == [tag |-> "assign", lhs |-> Expr(l), rhs |-> Expr(ts)]
Do(ts) == [tag |-> "exec", expr |-> Expr(ts)]
Show(ts) == Do(<<[tag |-> "call", func |-> "fmt.Println", args |-> <<Expr(ts)>>]>>)
If(c, b) == [tag |-> "if", condition |-> Expr(c), body |-> b]
ElseIf(c, b) == [tag |-> "elseif", condition |-> Expr(c), body |-> b]
Else(b) == [tag |-> "else", body |-> b]
Case(c, b) == [tag |-> "case", condition |-> Expr(c), body |-> b]
Default(b) == [tag |-> "default", body |-> b]
Switch(c, cases) == [tag |-> "switch", condition |-> Expr(c), cases |-> cases]
For(x, to, b) == [tag |-> "for", headers |-> <<Let(x, <<Num(0)>>), Expr(<<V(x), Op("<"), Num(to)>>), Expr(<<V(x), Op("++")>>)>>, body |-> b]
Typedef(n, fs) == [tag |-> "typedef", name |-> n, fields |-> fs]
Main(b) == <<[tag |-> "func", name |-> "main", body |-> b]>>
Str(s) == [tag |-> "string", value |-> s]

Arithmetic == {"+", "-", "*", "/", "%"}
Sums == {Main(<<Let("x", x), Show(<<Num(20), Op(f), V("x"), Op(g), Num(3), Op(h), Num(2)>>)>>) :
           x \in {<<Num(7)>>, <<Num(1), Op("-"), Num(8)>>}, f \in Arithmetic, g \in Arithmetic, h \in Arithmetic}
\* A print of a number, or of its name.
Tell(kind, s, n) == Show(<<IF kind = "string" THEN Str(s) ELSE Num(n)>>)
Kinds == {"number", "string"}
Chains == {Main(<<Let("x", <<Num(n)>>),
              If(<<V("x"), Op("<"), Num(1), Op("+"), Num(1)>>, <<Tell(k, "few", 10), If(<<V("x"), Op("=="), Num(0)>>, <<Tell(k, "none", 0)>>)>>),
              ElseIf(<<V("x"), Op("-"), Num(1), Op("=="), Num(1)>>, <<Tell(k, "two", 2)>>),
              ElseIf(<<V("x"), Op("!="), Num(3)>>, <<Tell(k, "many", 11)>>),
              Else(<<Tell(k, "three", 3)>>), Tell(k, "end", 12)>>) : n \in 0..4, k \in Kinds}
Switches == {Main(<<For("i", n, <<Switch(<<V("i")>>, <<Case(<<Num(0)>>, <<Tell(k, "zero", 0)>>), Default(<<Tell(k, "many", 11)>>),
                 Case(<<Num(1)>>, <<If(<<V("i"), Op(">"), Num(0)>>, <<For("j", 2, <<IF k = "number" THEN Show(<<V("j"), Op("+"), V("i")>>) ELSE Show(<<Str("one")>>)>>)>>), Else(<<>>)>>)>>)>>),
               Switch(<<Num(n)>>, <<Case(<<Num(2)>>, <<Switch(<<Num(5)>>, <<Default(<<Tell(k, "nine", 9)>>)>>)>>)>>)>>) :
               n \in 0..3, k \in Kinds}
\* The program HeadfulHarness.tsx begins with prints numbers and strings.
Mixed == {Main(<<For("i", 2, <<If(<<V("i"), Op("=="), Num(0)>>, <<Show(<<Str("zero")>>)>>), Show(<<V("i"), Op("+"), Num(5)>>)>>)>>),
          Main(<<Show(<<Num(3)>>), Show(<<Str("abc")>>)>>)}
Pointers == {Main(<<Let("x", <<Num(10)>>), Let("p", <<Op("&"), V("x")>>), Set(<<Op("*"), V("p")>>, <<Num(20)>>),
               Show(<<V("x"), Op("-"), Num(1), Op("-"), Op("*"), V("p")>>), Do(<<V("x"), Op("--")>>), Show(<<Op("*"), V("p")>>)>>)}
Structs == {<<Typedef("Rect", fs)>> \o Main(<<Var(<<"y", "z">>, "int"), Var(<<"r">>, "Rect"), Set(<<Fld("r", Last(fs))>>, <<Num(10)>>),
               Set(<<Fld("r", Head(fs))>>, <<Fld("r", Last(fs)), Op("*"), Num(2)>>), Let("q", <<Op("&"), Fld("r", Last(fs))>>),
               Set(<<V("z")>>, <<V("y"), Op("+"), Num(1)>>), Do(<<V("y"), Op("++")>>), Set(<<Op("*"), V("q")>>, <<Op("*"), V("q")>>),
               Show(<<Fld("r", Head(fs)), Op("-"), Fld("r", Last(fs)), Op("+"), V("y")>>), Show(<<V("z")>>)>>) :
               fs \in {<<"w", "h">>, <<"a", "b", "c", "d">>, <<"a", "b", "c", "d", "e">>, <<"size", "b">>}}
Others == {Main(<<Let("x", <<Num(1)>>), If(<<V("x"), Op("=="), Num(1)>>, <<Let("x", <<Num(2)>>)>>), Show(<<V("x")>>)>>),
           Main(<<Let("x", <<Num(2)>>), Show(<<Expr(<<V("x"), Op("+"), Num(1)>>), Op("*"), Num(4)>>)>>),
           Main(<<Let("x", <<Num(2)>>), If(<<V("x"), Op("=="), Num(2), Op("&&"), V("x"), Op("<"), Num(3)>>, <<Show(<<V("x")>>)>>)>>),
           Main(<<Let("x", <<Num(2)>>), Let("p", <<Op("&"), V("x")>>), Show(<<Op("*"), V("p"), Op("+"), Num(1)>>)>>),
           Main(<<Let("x", <<Num(2)>>), If(<<V("x"), Op("<="), Num(2)>>, <<Show(<<V("x")>>)>>)>>),
           Main(<<Do(<<[tag |-> "call", func |-> "os.Exit", args |-> <<Expr(<<Num(1)>>)>>]>>)>>),
           Main(<<For("i", 2, <<Var(<<"x">>, "int"), Do(<<V("x"), Op("++")>>), Show(<<V("x")>>)>>)>>)}
MCPrograms == Sums \cup Chains \cup Switches \cup Pointers \cup Structs \cup Mixed \cup Others
=============================================================================
