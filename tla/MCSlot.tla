------------------------------- MODULE MCSlot -------------------------------
(***************************************************************************)
(* Versions that differ in what is optional, nullable, defaulted, bounded, *)
(* enumerated, nested, open, recursive and a choice.                       *)
(***************************************************************************)
EXTENDS Slot, Typing

O(props, req) == [Type({"object"}) EXCEPT !.props = props, !.req = req]
I == Type({"integer"})
IntN == Type({"integer", "null"})
N == Type({"number"})
S == Type({"string"})
P1(n, s) == [x \in {n} |-> s]
P2(n, s, m, t) == [x \in {n, m} |-> IF x = n THEN s ELSE t]
Dflt(s, v) == [s EXCEPT !.dflt = <<v>>]

MCPool == [n \in {"L"} |-> O(P2("a", I, "next", Ref("L")), {"a"})]

Small == [I EXCEPT !.lim = [x \in {"minimum", "maximum"} |-> IF x = "minimum" THEN 0 ELSE 2]]
XY == [S EXCEPT !.enum = {Str("x"), Str("y")}]
NonEmpty == [Array(I) EXCEPT !.lim = [x \in {"minItems"} |-> 1]]

MCVersions ==
  { O(P1("a", I), {}), O(P1("a", Dflt(I, Num(1))), {}), O(P1("a", I), {"a"}),
    O(P1("a", IntN), {"a"}), O(P1("a", IntN), {}), O(P2("a", N, "b", S), {}),
    O(P2("a", N, "b", Type({"string","null"})), {"b"}),
    O(P2("a", I, "xs", Array(I)), {"a"}), Map(I), Map(IntN), Ref("L"),
    O(P1("a", O(P1("c", I), {})), {"a"}), O(P1("a", O(P1("c", IntN), {"c"})), {}),
    O(P1("a", Small), {"a"}), O(P1("b", XY), {}), O(P2("a", I, "b", XY), {"b"}), OneOf(<<O(P1("a", I), {"a"}), O(P1("b", S), {"b"})>>),
    O(P1("xs", NonEmpty), {}), O(P1("xs", Array(N)), {"xs"}) }

V1(n, v) == Obj([x \in {n} |-> v])
V2(n, v, m, w) == Obj([x \in {n, m} |-> IF x = n THEN v ELSE w])
MCDocuments ==
  { Obj(<<>>), V1("a", Num(1)), V1("a", Null), V1("a", Half(1)), V1("b", Str("x")), V2("a", Num(2), "b", Str("y")),
    V2("a", Num(1), "xs", Arr(<<Num(1), Num(2)>>)), V2("a", Num(1), "next", V1("a", Num(2))),
    V1("a", Obj(<<>>)), V1("a", V1("c", Num(1))), V1("a", V1("c", Null)), V1("z", Num(3)),
    V1("a", Num(-5)), V1("xs", Arr(<<>>)) }

in == Ident("input")
a == Member(in, "a")
OE(n, e) == ObjectNode([x \in {n} |-> e])
MCShapes ==
  { OE("a", a), OE("a", Binary("??", a, IntNode(0))), OE("b", StringNode("x")),
    Cond(Binary("!=", a, NullNode), OE("a", a), OE("a", IntNode(0))),
    OE("a", Binary("+", a, IntNode(1))), OE("a", Member(a, "c")),
    OE("a", Member(Member(in, "next"), "a")), OE("xs", ArrayNode(<<a, IntNode(1)>>)),
    OE("a", IndexNode(Member(in, "xs"), 0)),
    OE("xs", MapCall(Binary("??", Member(in, "xs"), ArrayNode(<<>>)), "x", "i", Binary("+", Ident("x"), Ident("i")))),
    Cond(Binary("&&", Binary("!=", a, NullNode), Binary(">", a, IntNode(0))), OE("a", a), NullNode) }
=============================================================================
