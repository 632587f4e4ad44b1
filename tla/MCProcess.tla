----------------------------- MODULE MCProcess ------------------------------
(***************************************************************************)
(* Definitions small enough to run to the end in a few advances.           *)
(***************************************************************************)
EXTENDS Lazy

I == Type({"integer"})
S == Type({"string"})
Opt(s) == withNull(s)
Fields(props, req) == [Type({"object"}) EXCEPT !.props = props, !.req = req]

inp(f) == Member(Ident("input"), f)
out(t, f) == Member(Member(Ident("outputs"), t), f)
self(m) == Member(Ident("self"), m)
IsSet(e) == Binary("!=", e, NullNode)
Or(e, n) == Binary("??", e, IntNode(n))
Plus(e, n) == Binary("+", e, IntNode(n))

NoAction ==
    [type |-> "fetch", url |-> <<>>, method |-> <<>>, headers |-> <<>>, query |-> <<>>, body |-> <<>>,
     accepted_status |-> <<>>, body_schema |-> <<>>, query_schema |-> <<>>, input_schema |-> <<>>,
     input |-> <<>>, name |-> <<>>, version |-> <<>>, children |-> <<>>, over |-> <<>>, responses |-> <<>>,
     result_schema |-> <<>>, raises |-> <<>>, timeout |-> <<>>, for |-> <<>>, until |-> <<>>]

Fetch(responses) ==
    <<[NoAction EXCEPT !.url = <<StringNode("u")>>, !.method = <<StringNode("POST")>>, !.responses = responses]>>

Case(cond, goto) == [case |-> cond, goto |-> goto, raise |-> <<>>, panic |-> <<>>]
Else(goto) == Case(<<>>, goto)
Rule(codes, cond, goto) ==
    [code |-> codes, case |-> cond, goto |-> goto, raise |-> <<>>, panic |-> <<>>, retry |-> NoRetry, notReached |-> <<>>]

Task(id, action, output, switch, onError) ==
    [id |-> id, action |-> action, output |-> output, outputSchema |-> <<>>, switch |-> switch,
     onError |-> onError, onlyOnce |-> FALSE]
Def(name, input, output, tasks) ==
    [name |-> name, input |-> <<input>>, config |-> <<>>, output |-> output, outputSchema |-> <<>>,
     tasks |-> tasks, defs |-> <<>>]


At(e, path) == FoldLeft(LAMBDA b, f : Member(b, f), e, path)
Fault(code, data) == <<[code |-> <<code>>, message |-> <<StringNode("m")>>, data |-> data]>>
Raising(c, code, data) == [c EXCEPT !.goto = <<>>, !.raise = Fault(code, data)]
Retrying(rule, n) == [rule EXCEPT !.retry.retries = <<IntNode(n)>>]
External(result, raises) == <<[NoAction EXCEPT !.type = "external", !.result_schema = <<result>>, !.raises = raises]>>
Call(name, input, result, raises) ==
    [name |-> name, version |-> <<1>>, input |-> <<ObjectNode(input)>>, input_schema |-> <<>>,
     result_schema |-> <<result>>, raises |-> raises]

\* Counts its own iterations in its output.
Counter ==
    Def("counter", Fields([n |-> I], {"n"}), <<ObjectNode([total |-> out("p", "v")])>>,
        <<Task("p", <<>>, <<ObjectNode([v |-> Plus(Or(Member(self("previous"), "v"), 0), 1)])>>,
               <<Case(<<Binary("<", Member(self("output"), "v"), inp("n"))>>, To("p")), Else(GotoEnd)>>, <<>>)>>)

\* Forgets that the first iteration has no previous output.
CounterBare ==
    [Counter EXCEPT !.tasks[1].output = <<ObjectNode([v |-> Plus(Member(self("previous"), "v"), 1)])>>]

Done200 == {200} :> <<Fields([state |-> S], {"state"})>>
Gone404 == {404} :> <<Fields([why |-> S], {"why"})>>

\* A typed fetch: its 404 is handled by another task that calls out as well, a 500 is tried again, an order that is open is shipped.
Order ==
    Def("order", Fields([id |-> S, note |-> S], {"id"}),
        <<ObjectNode([state |-> At(Ident("outputs"), <<"get", "state">>), why |-> out("fix", "why"), note |-> out("ship", "note")])>>,
        <<Task("get", <<[Fetch(Done200 @@ Gone404)[1] EXCEPT !.body = <<ObjectNode([id |-> inp("id"), note |-> inp("note")])>>]>>,
               <<ObjectNode([state |-> Member(self("result"), "state")])>>,
               <<Case(<<Binary("==", Member(self("output"), "state"), StringNode("open"))>>, To("ship")), Else(GotoEnd)>>,
               <<Rule({HTTP(404)}, <<>>, <<"fix">>), Retrying(Rule({<<"http", "5", "%">>}, <<>>, <<>>), 1)>>),
          Task("fix", Fetch(<<>>), <<ObjectNode([why |-> Member(Member(Ident("last_error"), "data"), "why")])>>,
               <<Else(GotoEnd)>>, <<>>),
          Task("ship", <<[NoAction EXCEPT !.type = "delay", !.for = <<StringNode("1s")>>]>>,
               <<ObjectNode([note |-> inp("note")])>>, <<Else(GotoEnd)>>, <<>>)>>)

\* Version 2 remembers the status too; it may be missing from what version 1 stored.
OrderStatus == [Order EXCEPT !.tasks[1].output = <<ObjectNode([state |-> Member(self("result"), "state"), status |-> self("status")])>>]

\* Reads the body of a 404 where a 500 may lead as well.
OrderAny == [Order EXCEPT !.tasks[1].onError = <<Rule({}, <<>>, <<"fix">>)>>]

\* An optional input that only one branch may use.
Narrowed ==
    Def("narrowed", Fields([x |-> I], {}), <<ObjectNode([y |-> out("b", "y")])>>,
        <<Task("a", <<>>, <<>>, <<Case(<<IsSet(inp("x"))>>, To("b")), Else(GotoEnd)>>, <<>>),
          Task("b", <<>>, <<ObjectNode([y |-> Plus(inp("x"), 1)])>>, <<Else(GotoEnd)>>, <<>>)>>)

\* The same, and the branch taken is the wrong one.
NarrowedWrong == [Narrowed EXCEPT !.tasks[1].switch = <<Case(<<IsSet(inp("x"))>>, GotoEnd), Else(To("b"))>>]

\* An approval by a person, which may be denied with a name, withdrawn, or never come.
Approve ==
    Def("approve", Fields([id |-> S], {"id"}), <<ObjectNode([by |-> out("ask", "by")])>>,
        <<Task("ask", <<[External(Fields([by |-> S], {"by"}), (<<"denied">> :> <<Fields([by |-> S], {"by"})>>) @@ (<<"gone">> :> <<>>))[1]
                         EXCEPT !.timeout = <<[for |-> <<StringNode("1s")>>, until |-> <<>>]>>]>>,
               <<ObjectNode([by |-> Member(self("result"), "by")])>>, <<Else(GotoEnd)>>,
               <<Raising(Rule({<<"denied">>}, <<>>, <<>>), "refused", <<ObjectNode([by |-> At(Ident("error"), <<"data", "by">>)])>>),
                 Retrying(Rule({ExternalTimeout}, <<>>, <<>>), 1),
                 Rule({<<"gone">>}, <<>>, GotoEnd)>>)>>)

\* A child: doubles a number, and raises those that are too large.
Item ==
    Def("item", Fields([n |-> I], {"n"}), <<ObjectNode([twice |-> Binary("*", inp("n"), IntNode(2))])>>,
        <<Task("t", <<>>, <<>>,
               <<Raising(Case(<<Binary(">", inp("n"), IntNode(1))>>, <<>>), "many", <<ObjectNode([n |-> inp("n")])>>), Else(GotoEnd)>>, <<>>)>>)

Many == <<"many">> :> <<Fields([n |-> I], {"n"})>>
Twice == Fields([twice |-> I], {"twice"})

\* Two children by key; a raise is retried once, then routed with the data of the first.
Pair ==
    Def("pair", Fields([n |-> I], {"n"}), <<ObjectNode([sum |-> out("both", "sum"), over |-> out("over", "n")])>>,
        <<Task("both", <<[NoAction EXCEPT !.type = "child_map",
                            !.children = [a |-> Call("item", [n |-> inp("n")], Twice, Many),
                                          b |-> Call("item", [n |-> Plus(inp("n"), 1)], Twice, Many)]]>>,
               <<ObjectNode([sum |-> Binary("+", At(self("result"), <<"a", "twice">>), At(self("result"), <<"b", "twice">>))])>>,
               <<Else(GotoEnd)>>, <<Retrying(Rule({<<"many">>}, <<>>, <<"over">>), 1)>>),
          Task("over", <<>>, <<ObjectNode([n |-> At(Ident("last_error"), <<"data", "n">>)])>>, <<Else(GotoEnd)>>, <<>>)>>)

\* One child per element of a list.
Fan ==
    Def("fan", Fields([list |-> Array(Fields([n |-> I], {"n"}))], {"list"}), <<ObjectNode([all |-> At(Ident("outputs"), <<"each", "all">>)])>>,
        <<Task("each", <<[NoAction EXCEPT !.type = "child_list", !.name = <<"item">>, !.version = <<1>>, !.over = <<inp("list")>>,
                            !.result_schema = <<Twice>>]>>,
               <<ObjectNode([all |-> MapCall(self("result"), "r", "", Member(Ident("r"), "twice"))])>>, <<Else(GotoEnd)>>, <<>>)>>)


cfg(f) == Member(Ident("config"), f)
Configured(d, props, req) == [d EXCEPT !.config = <<Fields(props, req)>>]
Default(s, v) == [s EXCEPT !.dflt = <<v>>]

\* A payment that must not be made twice: a request that was never sent is repeated, one whose fate is
\* unknown is looked up, and a conflict ends the process.
Pay ==
    Configured(
        Def("pay", Fields([amount |-> I], {"amount"}), <<ObjectNode([ref |-> out("charge", "ref"), found |-> out("check", "ref")])>>,
            <<[Task("charge",
                    <<[Fetch(({2} :> <<Fields([ref |-> S], {"ref"})>>) @@ ({409} :> <<>>))[1] EXCEPT
                          !.url = <<Template(<<StringNode("u/"), cfg("key")>>)>>,
                          !.query = <<ObjectNode([amount |-> inp("amount")])>>, !.query_schema = <<Fields([amount |-> I], {"amount"})>>,
                          !.timeout = <<[for |-> <<cfg("wait")>>, until |-> <<>>]>>]>>,
                    <<ObjectNode([ref |-> Member(self("result"), "ref")])>>, <<Else(GotoEnd)>>,
                    <<[Rule({<<"pre", "%">>}, <<>>, <<>>) EXCEPT !.retry.retries = <<cfg("tries")>>],
                      Rule({OnlyOnceInterrupted, HTTPTimeout}, <<>>, <<"check">>),
                      [Rule({HTTP(409)}, <<>>, <<>>) EXCEPT !.panic = Fault("conflict", <<>>)]>>) EXCEPT !.onlyOnce = TRUE],
              Task("check",
                   <<[Fetch({200} :> <<Fields([ref |-> S], {})>>)[1] EXCEPT !.method = <<StringNode("GET")>>,
                        !.accepted_status = <<ArrayNode(<<StringNode("200")>>)>>]>>,
                   <<ObjectNode([ref |-> Member(self("result"), "ref")])>>,
                   <<Case(<<IsSet(Member(self("output"), "ref"))>>, GotoEnd), Else(To("charge"))>>,
                   <<Rule({}, <<Binary("==", Member(Ident("error"), "code"), StringNode("http.500"))>>, <<"check">>)>>)>>),
        [key |-> S, tries |-> Default(I, Num(1)), wait |-> Default(I, Num(5))], {"key"})

\* Declares what it stores, sends and ends with: what is null is left out where the declaration says optional.
DeclaredSlots ==
    [Def("declared", Fields([x |-> I, doc |-> S], {}), <<ObjectNode([x |-> At(Ident("outputs"), <<"a", "x">>), doc |-> At(Ident("outputs"), <<"a", "doc">>)])>>,
        <<[Task("a", <<>>, <<ObjectNode([x |-> inp("x"), doc |-> Cond(IsSet(inp("doc")), Template(<<inp("doc"), StringNode("!")>>), NullNode)])>>,
                <<Else(GotoNext)>>, <<>>)
             EXCEPT !.outputSchema = <<Fields([x |-> I, doc |-> Opt(S)], {"doc"})>>],
          Task("b", <<[Fetch(<<>>)[1] EXCEPT !.body = <<ObjectNode([doc |-> At(Ident("outputs"), <<"a", "doc">>), twice |-> Or(At(Ident("outputs"), <<"a", "x">>), 0)])>>,
                        !.body_schema = <<Fields([doc |-> S, twice |-> I], {"twice"})>>,
                        !.headers = <<ObjectNode([h |-> StringNode("v")])>>]>>,
               <<>>, <<Raising(Case(<<Binary("==", self("status"), IntNode(201))>>, <<>>), "made", <<>>), Else(GotoEnd)>>,
               <<Raising(Rule({<<"http", "%">>}, <<>>, <<>>), "made", <<ObjectNode([doc |-> inp("doc")])>>), Rule({}, <<>>, GotoEnd)>>)>>)
     EXCEPT !.outputSchema = <<Fields([x |-> I, doc |-> S], {})>>]

\* Two waits in a row: an answer to the second may come before the first is done.
Sign ==
    Def("sign", Fields([id |-> S], {"id"}), <<ObjectNode([by |-> out("second", "by")])>>,
        <<[Task("first", <<[External(Fields([by |-> S], {"by"}), <<>>)[1] EXCEPT !.input = <<ObjectNode([id |-> inp("id")])>>]>>,
                <<ObjectNode([by |-> Member(self("result"), "by")])>>, <<Else(GotoNext)>>,
                <<Rule({ExternalLost}, <<>>, <<"second">>)>>) EXCEPT !.onlyOnce = TRUE],
          Task("second", External(Fields([by |-> S], {"by"}), <<"denied">> :> <<Fields([by |-> S], {"by"})>>),
               <<ObjectNode([by |-> Template(<<Binary("??", At(Ident("outputs"), <<"first", "by">>), StringNode("nobody")),
                                               Member(self("result"), "by")>>)])>>,
               <<Else(GotoEnd)>>, <<Rule({<<"denied">>}, <<>>, <<"first">>)>>)>>)

\* Calls one child, with nothing declared of what it raises.
Single ==
    Def("single", Fields([n |-> I], {"n"}), <<ObjectNode([t |-> out("c", "t")])>>,
        <<Task("c", <<[NoAction EXCEPT !.type = "child", !.name = <<"item">>, !.version = <<1>>, !.input = <<ObjectNode([n |-> inp("n")])>>,
                         !.result_schema = <<Twice>>]>>,
               <<ObjectNode([t |-> Member(self("result"), "twice")])>>, <<Else(GotoEnd)>>, <<Rule({<<"many">>}, <<>>, GotoEnd)>>)>>)

\* A child that is not called again when its collect was interrupted: others are called instead, one or a map of them.
\* (A rule of a child task cannot name that code, only catch everything.)
ItemTask(id, onError) == [Single.tasks[1] EXCEPT !.id = id, !.onError = onError]
Once ==
    Def("once", Fields([n |-> I], {"n"}), <<ObjectNode([t |-> out("c", "t"), u |-> out("d", "t"), all |-> out("e", "all")])>>,
        <<[ItemTask("c", <<Rule({}, <<Binary("==", inp("n"), IntNode(0))>>, <<"d">>), Rule({}, <<>>, <<"e">>)>>) EXCEPT !.onlyOnce = TRUE],
          ItemTask("d", <<>>),
          Task("e", <<[NoAction EXCEPT !.type = "child_map", !.children = [a |-> Call("item", [n |-> inp("n")], Twice, <<>>)]]>>,
               <<ObjectNode([all |-> self("result")])>>, <<Else(GotoNext)>>, <<>>),
          Task("f", Order.tasks[3].action, <<>>, <<Else(GotoEnd)>>, <<>>)>>)

\* Two legs at once, each of two calls.
Leg == Def("leg", Fields([n |-> I], {"n"}), <<ObjectNode([n |-> inp("n")])>>,
           <<Task("out", Fetch(<<>>), <<>>, <<Else(GotoNext)>>, <<>>), Task("back", Fetch(<<>>), <<>>, <<Else(GotoEnd)>>, <<>>)>>)
LegNoted == [Leg EXCEPT !.tasks[2].output = <<ObjectNode([s |-> self("status")])>>]

LegOf(v) == [Call("leg", [n |-> inp("n")], Fields([n |-> I], {"n"}), <<>>) EXCEPT !.version = <<v>>]
Trip(v) == Def("trip", Fields([n |-> I], {"n"}), <<ObjectNode([n |-> out("go", "n")])>>,
               <<Task("go", <<[NoAction EXCEPT !.type = "child_map", !.children = [a |-> LegOf(v), b |-> LegOf(v)]]>>,
                      <<ObjectNode([n |-> At(self("result"), <<"a", "n">>)])>>, <<Else(GotoEnd)>>, <<>>)>>)

\* Keeps a text as it is and reads it in a later advance.
Quote == Def("quote", Fields([id |-> S, note |-> S], {"id"}), <<ObjectNode([n |-> out("send", "n")])>>,
             <<Task("keep", <<>>, <<inp("note")>>, <<Else(GotoNext)>>, <<>>),
               Task("send", <<[NoAction EXCEPT !.type = "delay", !.for = <<StringNode("1s")>>]>>,
                    <<ObjectNode([n |-> Binary("??", Member(Ident("outputs"), "keep"), StringNode("none"))])>>, <<Else(GotoEnd)>>, <<>>)>>)

MCLib ==
    [counter |-> <<Counter, CounterBare>>, order |-> <<Order, OrderStatus, OrderAny>>, narrowed |-> <<Narrowed, NarrowedWrong>>,
     approve |-> <<Approve>>, item |-> <<Item>>, pair |-> <<Pair>>, fan |-> <<Fan>>,
     pay |-> <<Pay>>, declared |-> <<DeclaredSlots>>, sign |-> <<Sign>>, single |-> <<Single>>, once |-> <<Once>>, quote |-> <<Quote>>, leg |-> <<Leg, LegNoted>>, trip |-> <<Trip(1), Trip(2)>>]
Blob == Str("blob")
MCDocuments ==
    {Obj(<<>>), Obj([n |-> Num(0)]), Obj([n |-> Num(1)]), Obj([n |-> Num(2)]), Obj([x |-> Num(2)]),
     Obj([id |-> Str("i")]), Obj([id |-> Str("i"), note |-> Blob]),
     Obj([list |-> Arr(<<Obj([n |-> Num(1)]), Obj([n |-> Num(0)])>>)]), Obj([list |-> Arr(<<>>)]), Obj([amount |-> Num(1)]),
     Obj([x |-> Num(1), doc |-> Blob])}
Answered(status, body) == [k |-> "answered", status |-> status, body |-> body]
Json(v) == [k |-> "json", v |-> v]
Bytes(kind) == [k |-> kind]
Broke(connected, expired) == [k |-> "broke", connected |-> connected, expired |-> expired]
MCAnswers ==
    LET quiet == {Broke(TRUE, TRUE)}
        order == {Answered(200, Json(Obj([state |-> Str("open")]))), Answered(200, Json(Obj([state |-> Blob]))),
                  Answered(404, Json(Obj([why |-> Blob]))), Answered(404, Bytes("cut")), Answered(404, Bytes("garbled")),
                  Answered(500, Bytes("long")), Broke(TRUE, TRUE)}
        pay == {Answered(201, Json(Obj([ref |-> Str("r")]))), Answered(200, Json(Obj(<<>>))), Answered(409, Json(Str("x"))),
                Answered(200, Bytes("cut")), Answered(500, Bytes("empty")), Broke(TRUE, TRUE), Broke(TRUE, FALSE), Broke(FALSE, TRUE)}
    IN  [n \in DOMAIN MCLib |->
            CASE n = "order" -> order [] n = "pay" -> pay
              [] n = "declared" -> {Answered(201, Bytes("empty")), Answered(200, Bytes("empty")), Answered(500, Bytes("empty")), Broke(FALSE, FALSE)}
              [] n = "leg" -> {Answered(200, Bytes("empty")), Answered(500, Bytes("empty"))}
              [] OTHER -> quiet]
MCSlots == <<"", "a", "b", "1", "2">>
MCSubmissions ==
    {[k |-> "result", v |-> Obj([by |-> Blob])], [k |-> "failure", code |-> <<"denied">>, data |-> <<Obj([by |-> Blob])>>],
     [k |-> "failure", code |-> <<"gone">>, data |-> <<>>]}
MCEnvirons ==
    [n \in DOMAIN MCLib |->
        IF n = "pay" THEN {<<>>, (<<"pay", "key">> :> Raw("k", {})) @@ (<<"global", "tries">> :> Raw("1", {Num(1)}))} ELSE {<<>>}]
MCLarge == {Blob}
=============================================================================
