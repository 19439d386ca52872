----------------------------- MODULE Translation ----------------------------
(***************************************************************************)
(* A Go program, the Forth that emit() makes of it, and as much of WAForth *)
(* as executes it, word by word; against them, what the program means in   *)
(* Go.  Bound: MaxSteps words are executed.                                *)
(*                                                                         *)
(* fmt.Println is the host's: a binding that pops either a number or a     *)
(* string, which are one cell and two.  Neither emit() nor the Forth knows *)
(* which, so a program prints one or the other.                            *)
(*                                                                         *)
(* Abstracted: numbers are small, they never wrap in a cell of 32 bits;    *)
(* the text of a string literal is known by the literal it stands in.      *)
(***************************************************************************)
EXTENDS Emitter

CONSTANTS Programs, MaxSteps

VARIABLES
  ast,     \* the program
  forth    \* what runs it: emitted words, where execution is, stack, memory
emitterVars == <<ast, forth>>

(***************************************************************************)
(* WAForth                                                                 *)
(***************************************************************************)

\* Names that are declared outside the word that is executed, and their values.
Dictionary(text) ==
  LET one(d, w) == CASE w.w = "CREATE" -> [names |-> (w.name :> d.here) @@ d.names, here |-> d.here + w.size]
                     [] w.w = "CONSTANT" -> [d EXCEPT !.names = (w.name :> w.n) @@ @]
                     [] OTHER -> d
  IN FoldLeft(one, [names |-> <<>>, here |-> 100], text).names

\* The words between : and ; of the one function.
Body(text) == LET at(w) == CHOOSE i \in DOMAIN text : text[i].w = w
              IN SubSeq(text, at(":") + 1, at(";") - 1)

\* Words from..to of the code nest properly.
Nested(code, from, to, open, close) ==
  LET count(w) == Cardinality({i \in from..to : code[i].w = w}) IN count(open) = count(close)

\* Where execution goes on behind word i: behind the word that belongs to it,
\* or nowhere.
Behind(code, i) ==
  LET ahead(open, ends, close) ==
        {j \in i + 1..Len(code) : code[j].w \in ends /\ Nested(code, i + 1, j - 1, open, close)}
      back == {j \in 1..i - 1 : code[j].w = "BEGIN" /\ Nested(code, j + 1, i - 1, "BEGIN", "REPEAT")}
      first(s) == IF s = {} THEN 0 ELSE 1 + CHOOSE j \in s : \A k \in s : j <= k
      last(s) == IF s = {} THEN 0 ELSE 1 + CHOOSE j \in s : \A k \in s : j >= k
  IN CASE code[i].w = "IF" -> first(ahead("IF", {"ELSE", "THEN"}, "THEN"))
       [] code[i].w = "ELSE" -> first(ahead("IF", {"THEN"}, "THEN"))
       [] code[i].w = "WHILE" -> first(ahead("BEGIN", {"REPEAT"}, "REPEAT"))
       [] code[i].w = "REPEAT" -> last(back)

\* Both division and remainder are those of i32.div_s and i32.rem_s: they cut
\* towards zero, as in Go.
Magnitude(n) == IF n < 0 THEN -n ELSE n
Quotient(x, y) == LET q == Magnitude(x) \div Magnitude(y) IN IF (x < 0) = (y < 0) THEN q ELSE -q
Remainder(x, y) == x - y * Quotient(x, y)

\* There is no <= and no >= among the words of WAForth.
Binary == {"+", "-", "*", "/", "MOD", "=", "<>", "<", ">"}
Flag(b) == IF b THEN -1 ELSE 0
Applied(w, x, y) ==
  CASE w = "+" -> x + y [] w = "-" -> x - y [] w = "*" -> x * y
    [] w = "/" -> Quotient(x, y) [] w = "MOD" -> Remainder(x, y)
    [] w = "=" -> Flag(x = y) [] w = "<>" -> Flag(x # y) [] w = "<" -> Flag(x < y)
    [] w = ">" -> Flag(x > y)

Known(w, names) ==
  CASE w.w \in {"number", "string"} -> TRUE
    [] w.w = "name" -> w.name \in DOMAIN names
    [] OTHER -> w.w \in Binary \cup {"@", "!", "DUP", "DROP", "IF", "ELSE", "THEN", "BEGIN", "WHILE", "REPEAT", "SCALL"}

\* S" lays its text down while it is compiled, and pushes address and length.
AddressAt(i) == 1000 + i
TextAt(code, address, length) ==
  LET i == address - AddressAt(0)
  IN IF i \in DOMAIN code /\ code[i].w = "string" /\ Len(code[i].s) = length THEN code[i].s ELSE "?"

\* The definition is compiled, unless a word of it is undefined.
Transpile ==
  /\ forth.phase = "source"
  /\ LET text == Emitted(ast)
         code == Body(text)
         names == Dictionary(text)
     IN forth' = [forth EXCEPT !.phase = IF \A i \in DOMAIN code : Known(code[i], names) THEN "runs" ELSE "stuck",
                               !.code = code, !.names = names]
  /\ UNCHANGED ast

\* SCALL: the host pops the name of the function, which calls what is bound to
\* it; that pops its argument.  A function nobody bound pops nothing.
HostCall(f) ==
  LET st == f.stack
      func == TextAt(f.code, st[2], st[1])
      bound == func = "fmt.Println"
      left == SubSeq(st, 3 + IF bound THEN f.takes ELSE 0, Len(st))
      printed == IF f.takes = 1 THEN st[3] ELSE TextAt(f.code, st[4], st[3])
  IN [f EXCEPT !.at = @ + 1, !.steps = @ + 1, !.stack = left,
               !.printed = IF bound THEN Append(@, printed) ELSE @]

\* One word.  The stack's top is stack[1].
Execute ==
  /\ forth.phase = "runs"
  /\ LET w == IF forth.at <= Len(forth.code) THEN forth.code[forth.at] ELSE Word("end")
         st == forth.stack
         takes(n) == Len(st) >= n
         goes(stack) == [forth EXCEPT !.at = @ + 1, !.stack = stack, !.steps = @ + 1]
         jumps(stack) == [goes(stack) EXCEPT !.at = Behind(forth.code, forth.at)]
         drop(n) == SubSeq(st, n + 1, Len(st))
         after == CASE w.w = "number" -> goes(<<w.n>> \o st)
                    [] w.w = "string" -> goes(<<Len(w.s), AddressAt(forth.at)>> \o st)
                    [] w.w = "name" -> goes(<<forth.names[w.name]>> \o st)
                    [] w.w \in Binary /\ takes(2) /\ (w.w \in {"/", "MOD"} => st[1] # 0) -> goes(<<Applied(w.w, st[2], st[1])>> \o drop(2))
                    [] w.w = "@" /\ takes(1) ->
                         goes(<<IF st[1] \in DOMAIN forth.memory THEN forth.memory[st[1]] ELSE 0>> \o drop(1))
                    [] w.w = "!" /\ takes(2) -> [goes(drop(2)) EXCEPT !.memory = (st[1] :> st[2]) @@ @]
                    [] w.w = "DUP" /\ takes(1) -> goes(<<st[1]>> \o st)
                    [] w.w = "DROP" /\ takes(1) -> goes(drop(1))
                    [] w.w \in {"BEGIN", "THEN"} -> goes(st)
                    [] w.w \in {"IF", "WHILE"} /\ takes(1) -> IF st[1] = 0 THEN jumps(drop(1)) ELSE goes(drop(1))
                    [] w.w \in {"ELSE", "REPEAT"} -> jumps(st)
                    [] w.w = "SCALL" /\ takes(2 + forth.takes) -> HostCall(forth)
                    [] w.w = "end" -> [forth EXCEPT !.phase = "done"]
                    [] OTHER -> [forth EXCEPT !.phase = "stuck"]
     IN forth' = IF after.at = 0 \/ after.steps > MaxSteps THEN [after EXCEPT !.phase = "stuck"] ELSE after
  /\ UNCHANGED ast

EmitterInit ==
  /\ ast \in Programs
  /\ \E cells \in {1, 2} :
       forth = [takes |-> cells, phase |-> "source", code |-> <<>>, names |-> <<>>, at |-> 1, stack |-> <<>>,
                memory |-> <<>>, printed |-> <<>>, steps |-> 0]
EmitterNext == Transpile \/ Execute

(***************************************************************************)
(* What the program means: Go, with scopes, and the precedence of its      *)
(* operators read off the tokens from the outside in                       *)
(***************************************************************************)

RECURSIVE Value(_, _), Ran(_, _), Repeated(_, _)

Variable(g, x) ==
  g.scopes[CHOOSE i \in DOMAIN g.scopes :
             x \in DOMAIN g.scopes[i] /\ \A j \in i + 1..Len(g.scopes) : x \notin DOMAIN g.scopes[j]][x]
Place(g, t) == CASE t.tag = "ident" -> <<Variable(g, t.value), "">>
                 [] t.tag = "access" -> <<Variable(g, t.struct.value), t.member>>
Content(g, place) == IF place \in DOMAIN g.store THEN g.store[place] ELSE 0

GoApplied(op, x, y) ==
  CASE op = "+" -> x + y [] op = "-" -> x - y [] op = "*" -> x * y
    [] op = "/" -> Quotient(x, y) [] op = "%" -> Remainder(x, y)
    [] op = "==" -> x = y [] op = "!=" -> x # y [] op = "<" -> x < y
    [] op = "<=" -> x <= y [] op = ">" -> x > y [] op = ">=" -> x >= y
    [] op = "&&" -> x /\ y [] op = "||" -> x \/ y

Value(g, tokens) ==
  LET binary == {i \in DOMAIN tokens : i > 1 /\ tokens[i].tag = "op" /\ tokens[i - 1].tag # "op"}
      loosest == CHOOSE i \in binary :
                   \A j \in binary : LET l(k) == IF tokens[k].value \in {"&&", "||"} THEN 0 ELSE Level(tokens[k].value)
                                     IN l(i) < l(j) \/ (l(i) = l(j) /\ i >= j)
      t == tokens[1]
  IN IF binary # {}
     THEN GoApplied(tokens[loosest].value, Value(g, SubSeq(tokens, 1, loosest - 1)),
                    Value(g, SubSeq(tokens, loosest + 1, Len(tokens))))
     ELSE CASE t.tag \in {"number", "string"} -> t.value
            [] t.tag \in {"ident", "access"} -> Content(g, Place(g, t))
            [] t.tag = "expr" -> Value(g, t.body)
            [] t.tag = "op" /\ t.value = "*" -> Content(g, Value(g, Tail(tokens)))
            [] t.tag = "op" /\ t.value = "&" -> Place(g, tokens[2])

Stored(g, place, v) == [g EXCEPT !.store = (place :> v) @@ @]
InBlock(g, nodes) ==
  LET h == Ran([g EXCEPT !.scopes = Append(@, <<>>)], nodes) IN [h EXCEPT !.scopes = Front(@)]

Did(g, n) ==
  CASE n.tag = "declare" ->
         FoldLeft(LAMBDA h, x : Stored([h EXCEPT !.scopes[Len(h.scopes)] = (x :> h.next) @@ @, !.next = @ + 1],
                                     <<h.next, "">>, IF n.value = Nil THEN 0 ELSE Value(g, n.value.body)),
                  g, n.names)
    [] n.tag = "assign" ->
         Stored(g, IF n.lhs.body[1].tag = "op" THEN Value(g, Tail(n.lhs.body)) ELSE Place(g, n.lhs.body[1]),
              Value(g, n.rhs.body))
    [] n.tag \in {"exec", "expr"} ->
         LET body == IF n.tag = "exec" THEN n.expr.body ELSE n.body IN
         IF body[1].tag = "call" THEN [g EXCEPT !.printed = Append(@, Value(g, body[1].args[1].body))]
         ELSE Stored(g, Place(g, body[1]), Value(g, <<body[1]>>) + IF body[2].value = "++" THEN 1 ELSE -1)
    [] n.tag = "switch" ->
         LET v == Value(g, n.condition.body)
             hit == {i \in DOMAIN n.cases : n.cases[i].tag = "case" /\ Value(g, n.cases[i].condition.body) = v}
             default == {i \in DOMAIN n.cases : n.cases[i].tag = "default"}
         IN IF hit \cup default = {} THEN g
            ELSE InBlock(g, n.cases[IF hit # {} THEN CHOOSE i \in hit : \A j \in hit : i <= j
                                    ELSE CHOOSE i \in default : TRUE].body)
    [] n.tag = "for" ->
         LET h == Repeated(Ran([g EXCEPT !.scopes = Append(@, <<>>)], <<n.headers[1]>>), n)
         IN [h EXCEPT !.scopes = Front(@)]
    [] OTHER -> g

Repeated(g, n) ==
  IF ~Value(g, n.headers[2].body) THEN g ELSE Repeated(Ran(InBlock(g, n.body), <<n.headers[3]>>), n)

Ran(g, nodes) ==
  CASE nodes = <<>> -> g
    [] nodes # <<>> /\ Head(nodes).tag = "if" ->
         LET k == IfChain(nodes)
             holds == {i \in 1..k : IF nodes[i].tag = "else" THEN TRUE ELSE Value(g, nodes[i].condition.body)}
             h == IF holds = {} THEN g ELSE InBlock(g, nodes[CHOOSE i \in holds : \A j \in holds : i <= j].body)
         IN Ran(h, SubSeq(nodes, k + 1, Len(nodes)))
    [] OTHER -> Ran(Did(g, Head(nodes)), Tail(nodes))

Prints(nodes) ==
  LET main == nodes[CHOOSE i \in DOMAIN nodes : nodes[i].tag = "func"]
  IN Ran([scopes |-> << <<>> >>, store |-> <<>>, next |-> 1, printed |-> <<>>], main.body).printed

(***************************************************************************)
(* Properties                                                              *)
(***************************************************************************)

RECURSIVE Inside(_)
\* The nodes of a program, those within others included.
Inside(nodes) ==
  LET kids(n) == CASE n.tag \in {"func", "else", "default"} -> n.body
                   [] n.tag \in {"if", "elseif", "case"} -> <<n.condition>> \o n.body
                   [] n.tag = "switch" -> <<n.condition>> \o n.cases
                   [] n.tag = "for" -> n.headers \o n.body
                   [] n.tag = "declare" -> <<n.value>>
                   [] n.tag = "assign" -> <<n.lhs, n.rhs>>
                   [] n.tag = "exec" -> <<n.expr>>
                   [] n.tag = "expr" -> n.body
                   [] n.tag = "call" -> n.args
                   [] OTHER -> <<>>
  IN FoldLeft(LAMBDA all, n : all \o <<n>> \o Inside(kids(n)), <<>>, nodes)

\* The Go that emit() translates to words WAForth has, for a fmt.Println that
\* pops that many cells: no parentheses, no logical operators, no <= and >=; `*'
\* only before the last operand, `&' alone; every name declared once, and with
\* a value if it is declared in a loop; loops with all three headers, switches
\* over a value; structs of at most four fields, none named size; calls that
\* all print numbers, or all a string literal, and no strings elsewhere.
Translatable(nodes, cells) ==
  LET all == Inside(nodes)
      of(tag) == SelectSeq(all, LAMBDA n : n.tag = tag)
      each(tag) == Range(of(tag))
      declared == FoldLeft(LAMBDA s, n : IF n.tag = "declare" THEN s \o n.names ELSE s, <<>>, all)
      op(ts, i) == ts[i].tag = "op"
      unary(ts, i) == op(ts, i) /\ (i = 1 \/ op(ts, i - 1))
      literal(n) == Len(n.args[1].body) = 1 /\ n.args[1].body[1].tag = "string"
  IN /\ \A n \in each("expr") : LET ts == n.body IN \A i \in DOMAIN ts :
          /\ ts[i].tag # "expr"
          /\ op(ts, i) => \/ ts[i].value \in {"*", "&", "++", "--"}
                         \/ (Level(ts[i].value) > 0 /\ ts[i].value \notin {"<=", ">="})
          /\ unary(ts, i) => \/ ts[i].value = "*" /\ i = Len(ts) - 1
                             \/ ts[i].value = "&" /\ i = 1 /\ Len(ts) = 2
     /\ IsInjective(declared)
     /\ \A n \in each("for") :
          /\ Len(n.headers) = 3 /\ n.headers[2].body # <<>>
          /\ LET body == Inside(n.body) IN
             \A i \in DOMAIN body : body[i].tag = "declare" => body[i].value # Nil
     /\ \A n \in each("switch") : n.condition.body # <<>>
     /\ \A n \in each("typedef") : Len(n.fields) <= 4 /\ "size" \notin Range(n.fields)
     /\ \A n \in each("call") : n.func = "fmt.Println" /\ Len(n.args) = 1 /\ (cells = 2 => literal(n))
     /\ Len(of("string")) = IF cells = 2 THEN Len(of("call")) ELSE 0

\* The emitted words do what the program says: they print what it prints, in
\* that order, never run out of operands or of the structure they nest in, and
\* leave nothing on the stack, whatever is nested in what.
MeaningKept ==
  forth.phase \in {"stuck", "done"} /\ Translatable(ast, forth.takes) =>
    forth.phase = "done" /\ forth.stack = <<>> /\ forth.printed = Prints(ast)
=============================================================================
