------------------------------- MODULE Emitter ------------------------------
(***************************************************************************)
(* From Go to Forth.  go2json parses a Go program to a list of nodes;      *)
(* emit() walks them and writes Forth.  Here the nodes are records as      *)
(* go2json makes them and the Forth text is a sequence of words.           *)
(*                                                                         *)
(* The same function stands in the repository twice: in emitter.js, and in *)
(* the script that HeadfulHarness.tsx pushes for its pipeline to run.      *)
(*                                                                         *)
(* Not modelled: the layout of the text, declarations whose value is no    *)
(* expression, arguments of the program's own functions (emit() warns of   *)
(* them and emits nothing).                                                *)
(***************************************************************************)
EXTENDS Integers, Sequences, FiniteSets, SequencesExt, TLC

Word(w) == [w |-> w]
Lit(n) == [w |-> "number", n |-> n]
Named(x) == [w |-> "name", name |-> x]
Quoted(s) == [w |-> "string", s |-> s]
Nil == [tag |-> "null"]

(***************************************************************************)
(* emit(): e is the text so far, the symbol table and what is declared     *)
(***************************************************************************)

NothingEmitted == [text |-> <<>>, scopes |-> << <<>> >>, vars |-> {}, structs |-> {}]
Say(e, words) == [e EXCEPT !.text = @ \o words]

TypeIn(scopes, x) ==
  LET at == {i \in DOMAIN scopes : x \in DOMAIN scopes[i]}
  IN IF at = {} THEN "none" ELSE scopes[CHOOSE i \in at : \A j \in at : j <= i][x]

\* Of an operator without a level nothing is known: undefined compares as false.
Level(op) == CASE op \in {"*", "/", "%"} -> 3
               [] op \in {"+", "-"} -> 2
               [] op \in {"==", "!=", "<", "<=", ">", ">="} -> 1
               [] OTHER -> 0

\* Mutant: operators of one precedence are taken from right to left.
PrecedesRight(top, op) == Level(op) > 0 /\ Level(top) > Level(op)

\* The operator on the stack comes before op.
Precedes(top, op) == Level(op) > 0 /\ Level(top) >= Level(op)

OpWords(op) == CASE op = "++" -> <<Lit(1), Word("+")>> [] op = "--" -> <<Lit(1), Word("-")>>
                 [] op = "==" -> <<Word("=")>> [] op = "!=" -> <<Word("<>")>>
                 [] op = "%" -> <<Word("MOD")>> [] OTHER -> <<Word(op)>>

\* The tokens in the order in which Forth wants them.  A token of any other
\* kind, an expression in parentheses among them, is passed over.
Postfix(tokens) ==
  LET unary(i) == tokens[i].value \in {"&", "*"} /\ (i = 1 \/ tokens[i - 1].tag = "op")
      take(s, i) ==
        LET t == tokens[i]
            pops == CHOOSE k \in 0..Len(s.ops) :
              /\ \A j \in 1..k : s.ops[j].tag # "unary" /\ Precedes(s.ops[j].value, t.value)
              /\ k < Len(s.ops) => s.ops[k + 1].tag = "unary" \/ ~Precedes(s.ops[k + 1].value, t.value)
        IN CASE t.tag \in {"number", "string", "ident", "call", "access"} ->
                  [s EXCEPT !.out = Append(@, t)]
             [] t.tag = "op" /\ unary(i) -> [s EXCEPT !.ops = <<[t EXCEPT !.tag = "unary"]>> \o @]
             [] t.tag = "op" /\ ~unary(i) ->
                  [out |-> s.out \o SubSeq(s.ops, 1, pops),
                   ops |-> <<t>> \o SubSeq(s.ops, pops + 1, Len(s.ops))]
             [] OTHER -> s
      all == FoldLeft(take, [out |-> <<>>, ops |-> <<>>], [i \in DOMAIN tokens |-> i])
  IN all.out \o all.ops

RECURSIVE WalkNode(_, _, _), WalkAll(_, _)

\* One token.  `&' takes back the fetch of the variable before it.
SayToken(e, t, isLValue) ==
  CASE t.tag = "op" -> Say(e, OpWords(t.value))
    [] t.tag = "unary" /\ t.value = "*" -> Say(e, <<Word("@")>>)
    [] t.tag = "unary" /\ t.value = "&" ->
         IF e.text # <<>> /\ Last(e.text) = Word("@") THEN [e EXCEPT !.text = Front(@)] ELSE e
    [] OTHER -> WalkNode(e, t, isLValue)

HandleExpression(e, tokens, isLValue) ==
  FoldLeft(LAMBDA f, t : SayToken(f, t, isLValue), e, Postfix(tokens))

\* An `if' and the `else' nodes that follow it, which are its siblings.
WalkIf(e, chain) ==
  LET arm(f, n) == CASE n.tag = "elseif" -> WalkAll(Say(WalkNode(Say(f, <<Word("ELSE")>>), n.condition, FALSE),
                                                         <<Word("IF")>>), n.body)
                     [] n.tag = "else" -> WalkAll(Say(f, <<Word("ELSE")>>), n.body)
      first == WalkAll(Say(WalkNode(e, Head(chain).condition, FALSE), <<Word("IF")>>), Head(chain).body)
      ifs == 1 + Cardinality({i \in DOMAIN chain : chain[i].tag = "elseif"})
  IN Say(FoldLeft(arm, first, Tail(chain)), [i \in 1..ifs |-> Word("THEN")])

\* The longest run of else nodes behind the first node.
IfChain(nodes) ==
  CHOOSE k \in 1..Len(nodes) :
    /\ \A i \in 2..k : nodes[i].tag \in {"elseif", "else"}
    /\ k < Len(nodes) => nodes[k + 1].tag \notin {"elseif", "else"}

WalkAll(e, nodes) ==
  CASE nodes = <<>> -> e
    [] nodes # <<>> /\ Head(nodes).tag = "if" ->
         LET k == IfChain(nodes)
         IN WalkAll(WalkIf(e, SubSeq(nodes, 1, k)), SubSeq(nodes, k + 1, Len(nodes)))
    [] OTHER -> WalkAll(WalkNode(e, Head(nodes), FALSE), Tail(nodes))

\* A variable is declared once, in front of everything, whatever its scope.
WalkDeclare(e, n) ==
  LET one(f, x) ==
        LET known == [f EXCEPT
              !.text = CASE n.type \in f.structs -> <<[w |-> "CREATE", name |-> x, size |-> 16]>> \o @
                         [] n.type \notin f.structs /\ x \notin f.vars ->
                              <<[w |-> "CREATE", name |-> x, size |-> 4]>> \o @
                         [] OTHER -> @,
              !.vars = IF n.type \in f.structs THEN @ ELSE @ \cup {x},
              !.scopes[Len(f.scopes)] = (x :> n.type) @@ @]
        IN IF n.value = Nil THEN known
           ELSE Say(HandleExpression(known, n.value.body, FALSE), <<Named(x), Word("!")>>)
  IN FoldLeft(one, e, n.names)

\* The value stays on the stack while it is compared with one case after the other.
WalkSwitch(e, n) ==
  LET cases == SelectSeq(n.cases, LAMBDA c : c.tag = "case")
      default == {i \in DOMAIN n.cases : n.cases[i].tag = "default"}
      compare(f, c) == Say(WalkAll(Say(WalkNode(Say(f, <<Word("DUP")>>), c.condition, FALSE),
                                       <<Word("="), Word("IF")>>), c.body), <<Word("ELSE")>>)
      compared == FoldLeft(compare, WalkNode(e, n.condition, FALSE), cases)
      all == IF default = {} THEN compared
             ELSE WalkAll(compared, n.cases[CHOOSE i \in default : TRUE].body)
  IN Say(all, [i \in 1..Len(cases) |-> Word("THEN")] \o <<Word("DROP")>>)

WalkFor(e, n) ==
  LET header(f, i) == IF i <= Len(n.headers) THEN WalkNode(f, n.headers[i], FALSE) ELSE f
      begun == Say(header(e, 1), <<Word("BEGIN")>>)
      asked == IF Len(n.headers) >= 2 /\ n.headers[2].body # <<>> THEN header(begun, 2)
               ELSE Say(begun, <<Lit(1)>>)
  IN Say(header(WalkAll(Say(asked, <<Word("WHILE")>>), n.body), 3), <<Word("REPEAT")>>)

WalkTypedef(e, n) ==
  Say([e EXCEPT !.structs = @ \cup {n.name}],
      [i \in 1..Len(n.fields) + 1 |->
         [w |-> "CONSTANT", n |-> 4 * (i - 1),
          name |-> n.name \o "." \o IF i <= Len(n.fields) THEN n.fields[i] ELSE "size"]])

\* A variable's address, or its value.  A struct is its address.
WalkIdent(e, n, isLValue) ==
  LET type == TypeIn(e.scopes, n.value) IN
  Say(e, <<Named(n.value)>> \o IF type = "none" \/ isLValue \/ type \in e.structs THEN <<>>
                               ELSE <<Word("@")>>)

WalkAccess(e, n, isLValue) ==
  LET type == TypeIn(e.scopes, n.struct.value)
      field == IF type \in {"none", "auto"} THEN n.member ELSE type \o "." \o n.member
  IN Say(WalkIdent(e, n.struct, isLValue),
         <<Named(field), Word("+")>> \o IF isLValue THEN <<>> ELSE <<Word("@")>>)

WalkFunc(e, n) ==
  LET inside == WalkAll([Say(e, <<[w |-> ":", name |-> n.name]>>) EXCEPT !.scopes = Append(@, <<>>)], n.body)
  IN Say([inside EXCEPT !.scopes = Front(@)], <<Word(";")>>)

\* x++ and x-- as statements
WalkStep(e, n) ==
  LET x == Named(n.body[1].value)
  IN Say(e, <<x, Word("@")>> \o OpWords(n.body[2].value) \o <<x, Word("!")>>)

WalkAssign(e, n) == Say(WalkNode(WalkNode(e, n.rhs, FALSE), n.lhs, TRUE), <<Word("!")>>)

\* Every call goes to the host, by its name.
WalkCall(e, n) == Say(WalkAll(e, n.args), <<Quoted(n.func), Word("SCALL")>>)

\* walk().  A node of another kind says nothing.
WalkNode(e, n, isLValue) ==
  CASE n.tag = "func" -> WalkFunc(e, n)
    [] n.tag = "declare" -> WalkDeclare(e, n)
    [] n.tag = "assign" -> WalkAssign(e, n)
    [] n.tag = "switch" -> WalkSwitch(e, n)
    [] n.tag = "for" -> WalkFor(e, n)
    [] n.tag = "typedef" -> WalkTypedef(e, n)
    [] n.tag = "ident" -> WalkIdent(e, n, isLValue)
    [] n.tag = "number" -> Say(e, <<Lit(n.value)>>)
    [] n.tag = "exec" -> WalkNode(e, n.expr, FALSE)
    [] n.tag = "expr" ->
         IF Len(n.body) = 2 /\ n.body[1].tag = "ident" /\ n.body[2] \in {[tag |-> "op", value |-> o] : o \in {"++", "--"}}
         THEN WalkStep(e, n) ELSE HandleExpression(e, n.body, isLValue)
    [] n.tag = "call" -> WalkCall(e, n)
    [] n.tag = "access" -> WalkAccess(e, n, isLValue)
    [] n.tag = "string" -> Say(e, <<Quoted(n.value)>>)
    [] OTHER -> e

Emitted(nodes) == WalkAll(NothingEmitted, nodes).text
=============================================================================
