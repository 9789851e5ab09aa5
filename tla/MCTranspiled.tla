----------------------------- MODULE MCTranspiled -----------------------------
(* Small files of package main: h prints its argument, g is called, deferred *)
(* or started by f, and main makes the channel that f gets.                  *)
EXTENDS Transpiled

IntT == Ident("int")
IntChan == ChanType("both", IntT)
Id(name) == Ident(name)
Num(v) == BasicLit("INT", v)
Op(op, x, y) == BinaryExpr(op, x, y)
Call(name, args) == CallExpr(Id(name), args)
PrintOf(x) == CallExpr(SelectorExpr(Id("fmt"), "Println"), <<x>>)
Do(call) == ExprStmt(call)
Println(x) == Do(PrintOf(x))
Panic == Do(Call("panic", <<Num("1")>>))
Defer(name, args) == DeferStmt(Call(name, args))
Go(name, args) == GoStmt(Call(name, args))
If(cond, then, else) == IfStmt(Nil, cond, then, else)
Return == ReturnStmt(<<>>)
Let(name, x) == AssignStmt(<<Id(name)>>, ":=", <<x>>)
SetTo(to, x) == AssignStmt(<<to>>, "=", <<x>>)
Receive(c) == UnaryExpr("<-", Id(c))
Send(c, x) == SendStmt(Id(c), x)
Slice(xs) == CompositeLit(ArrayType(Nil, IntT), xs)
IntMap == CompositeLit(MapType(IntT, IntT), <<KeyValueExpr(Num("4"), Num("5"))>>)
At(x, i) == IndexExpr(x, i)
Make(args) == Call("make", <<IntChan>> \o args)
Select(clauses) == SelectStmt(clauses)
Fn(name, params, body) == FuncDecl(Nil, name, FuncType(params, <<>>), body)

x == Id("x")
Recover1 == If(Op("==", Call("recover", <<>>), Num("1")), <<Println(Num("2"))>>, Nil)
CountTo(end, body) ==
  ForStmt(Let("i", Num("0")), Op("<", Id("i"), end),
          SetTo(Id("i"), Op("+", Id("i"), Num("1"))), body)

GBodies ==
  { <<Println(Num("7"))>>, <<Panic>>, <<Recover1>>,
    <<Defer("h", <<Num("3")>>), Panic>>, <<Do(Call("r", <<>>))>>,
    <<Defer("r", <<>>), If(Op("<", Num("1"), Num("0")), <<Panic>>, Nil)>> }

\* What f's body begins with, and what may follow.
FHeads ==
  { <<>>,
    <<Let("v", Receive("c"))>>,
    <<AssignStmt(<<Id("v"), Id("ok")>>, ":=", <<Receive("c")>>)>>,
    <<Let("v", ParenExpr(Receive("c"))), Let("s", Slice(<<Id("v")>>))>>,
    <<Let("s", Slice(<<Num("3"), Num("4")>>))>>, <<Let("m", IntMap)>> }

V == Id("v")
FSteps ==
  { Println(x),
    Do(Call("g", <<>>)),
    Defer("g", <<>>),
    Defer("h", <<x>>),
    Defer("h", <<V>>),
    Defer("r", <<>>),
    Panic, Return,
    If(Op("==", x, Num("1")), <<Panic>>, Nil),
    If(Op("<", x, Num("2")), <<Return>>, BlockStmt(<<DeferStmt(PrintOf(Num("9")))>>)),
    If(Op(">", x, Num("1")), <<Println(Num("4"))>>,
       If(Op("==", ParenExpr(Op("+", x, Num("1"))), Num("2")), <<Println(Num("5"))>>, Nil)),
    Send("c", x),
    Do(Call("close", <<Id("c")>>)),
    Do(Receive("c")),
    Do(ParenExpr(Call("panic", <<Num("1")>>))),
    IncDecStmt(x, "++"),
    Go("g", <<>>),
    Go("h", <<x>>),
    SetTo(V, Num("9")),
    Println(V),
    If(Id("ok"), <<Println(V)>>, BlockStmt(<<Println(Num("0"))>>)),
    Println(At(Id("s"), Num("1"))),
    SetTo(At(Id("s"), Num("0")), x),
    SetTo(At(Id("m"), x), Num("3")),
    Do(Call("delete", <<Id("m"), x>>)),
    RangeStmt(Id("k"), Id("w"), ":=", Id("m"), <<Println(Op("+", Id("k"), Id("w")))>>),
    RangeStmt(Id("_"), Nil, ":=", Id("m"), <<Println(x)>>),
    CountTo(Call("len", <<Id("s")>>), <<Println(At(Id("s"), Id("i")))>>),
    CountTo(V, <<SetTo(V, Num("1")), Println(Id("i"))>>),
    ForStmt(Nil, Nil, Nil, <<Println(x), Return>>),
    Println(Call("recover", <<>>)),
    Println(At(SliceExpr(Id("s"), Num("1"), Nil, Nil), Num("0"))),
    SetTo(Id("s"), Call("append", <<Id("s"), x>>)),
    Select(<<CommClause(Let("r", Receive("c")), <<Println(Id("r"))>>),
             CommClause(Send("c", x), <<Println(Num("3"))>>),
             CommClause(Nil, <<>>)>>),
    Select(<<CommClause(Do(Receive("c")), <<Println(Num("7"))>>)>>),
    Select(<<CommClause(Send("c", Num("4")), <<Go("g", <<>>)>>)>>),
    Select(<<CommClause(Nil, <<DeferStmt(PrintOf(Num("5")))>>)>>) }

\* Go compiles a body that uses each name it declares and no other.
NamesIn(nodes) == {n.name : n \in {m \in Range(nodes) : m.kind = "Ident"}}
Mentions(s) ==
  LET stmt == TransStmt(s) IN IF stmt = Failed THEN {} ELSE NamesIn(WalkStmt(stmt))
Used(s) ==
  IF s.ast = "AssignStmt" /\ s.lhs[1].ast = "Ident" THEN NamesIn(WalkExpr(TransExpr(s.rhs[1])))
  ELSE Mentions(s)
DeclaredIn(head) == UNION {{n.name : n \in Range(a.lhs)} : a \in Range(head)}
StepsAfter(head) ==
  {a \in FSteps : Mentions(a) \cap {"v", "ok", "s", "m"} \subseteq DeclaredIn(head)}

\* One or two of them, or two deferred calls and a way to leave.
Defers == {Defer("g", <<>>), Defer("h", <<x>>), Defer("r", <<>>)}
Triples == {<<a, b, c>> : a, b \in Defers, c \in {Panic, Return, Do(Call("g", <<>>))}}
Bodies(steps) == {<<>>} \cup {<<a>> : a \in steps} \cup {<<a, b>> : a, b \in steps}
FBodies ==
  UNION {{<<h, t>> : t \in Triples \cup UNION {Bodies(steps) : steps \in {StepsAfter(h)}}} :
           h \in FHeads}
Compiles(b) == DeclaredIn(b[1]) \subseteq UNION {Used(a) : a \in Range(b[1] \o b[2])}

\* What g does matters to the functions that mention it.
MentionsG(b) == \E a \in Range(b[2]) : "g" \in Mentions(a)
GAndF(bodies) == {p \in GBodies \X bodies : p[1] = <<Panic>> \/ MentionsG(p[2])}
OneStep(bodies) == {b \in bodies : Len(b[2]) = 1}

MainBodies ==
  { <<Let("c", Make(<<Num("2")>>)), Do(Call("put", <<Num("5"), Id("c")>>)),
      Do(Call("f", <<Num("1"), Id("c")>>)), Println(Num("7"))>>,
    <<Let("c", Make(<<Num("1")>>)), Defer("g", <<>>),
      Do(Call("f", <<Num("2"), Id("c")>>)), Return>> }
Unbuffered ==
  <<Let("c", Make(<<>>)), Do(Call("f", <<Num("3"), Id("c")>>)), Println(Num("7"))>>

FParams == <<Field(<<"x">>, IntT), Field(<<"c">>, IntChan)>>
H == Fn("h", <<Field(<<"y">>, IntT)>>, <<Println(Id("y"))>>)
R == Fn("r", <<>>, <<Recover1>>)
Put == Fn("put", FParams, <<Send("c", Id("x"))>>)
\* A function that uses the name c for a channel of another type.
K(elem) == Fn("k", <<Field(<<"c">>, ChanType("both", elem))>>,
              <<Do(Call("close", <<Id("c")>>))>>)
\* A function of the name of a builtin.
Close == Fn("close", <<Field(<<"d">>, IntChan)>>, <<Println(Num("9"))>>)

FileOf(first, g, b, m, last) ==
  AstFile("main", <<"fmt">>,
          <<GenDecl("import", <<>>)>> \o first
            \o <<H, R, Put, Fn("g", <<>>, g), Fn("f", FParams, b[1] \o b[2]),
                 Fn("main", <<>>, m)>> \o last)
Files(bodies) ==
  {FileOf(<<>>, p[1], p[2], m, <<>>) : p \in GAndF(bodies), m \in MainBodies}
    \cup {FileOf(<<>>, <<Panic>>, b, m, <<K(e)>>) :
            b \in OneStep(bodies), m \in MainBodies, e \in {Ident("string"), IntChan}}
    \cup {FileOf(<<Close>>, <<Panic>>, b, m, <<>>) : b \in OneStep(bodies), m \in MainBodies}
    \cup {FileOf(<<>>, <<Panic>>, b, Unbuffered, <<>>) : b \in OneStep(bodies)}
    \cup {AstFile("lib", <<>>, <<>>)}
MCSources == Files({b \in FBodies : Compiles(b)})
===============================================================================
