------------------------------- MODULE Infer --------------------------------
(***************************************************************************)
(* The static type of an expression (internal/schema/infer.go,             *)
(* inferops.go): what registration believes a read will give, before any   *)
(* value exists.  A scope c holds the context's type (c.s), the pool of    *)
(* definitions (c.defs), the paths a condition has narrowed (c.guards) and *)
(* the lambda parameters (c.vars).                                         *)
(***************************************************************************)
EXTENDS Expr

(***************************************************************************)
(* Access paths.  A computed key takes part only when it is a path itself. *)
(***************************************************************************)
PropStep(name) == [prop |-> name]
IndexStep(i) == [index |-> i]
KeyStep(steps) == [key |-> steps]

RECURSIVE nodeSteps(_)
nodeSteps(n) ==
    LET base == nodeSteps(n.base)
        key == nodeSteps(n.key)
        then(b, st) == IF b = Fail THEN Fail ELSE Ok(Append(b[1], st))
    IN  CASE n.op = "ident" -> Ok(<<PropStep(n.name)>>)
          [] n.op = "member" -> then(base, PropStep(n.name))
          [] n.op = "index" -> then(base, IndexStep(n.i))
          [] n.op = "key" -> IF key = Fail THEN Fail ELSE then(base, KeyStep(key[1]))
          [] OTHER -> Fail

RECURSIVE stepRoots(_)
stepRoots(steps) ==
    {steps[1].prop} \cup
    UNION {stepRoots(steps[i].key) : i \in {j \in DOMAIN steps : "key" \in DOMAIN steps[j]}}

withGuard(c, steps, s) ==
    [c EXCEPT !.guards = [p \in DOMAIN @ \cup {steps} |-> IF p = steps THEN s ELSE @[p]]]

withParams(c, n, elem) ==
    LET own == {n.param} \cup ({n.idx} \ {""})
        kept == {p \in DOMAIN c.guards : stepRoots(p) \cap own = {}}
    IN  [c EXCEPT !.vars = [v \in DOMAIN @ \cup own |->
                               IF v = n.param THEN elem ELSE IF v = n.idx THEN Type({"integer"}) ELSE @[v]],
                  !.guards = [p \in kept |-> @[p]]]

(***************************************************************************)
(* What a condition proves: comparisons of a path with a literal, on the   *)
(* branch where the condition holds and on the one where it fails.         *)
(***************************************************************************)
Fact(subject, steps, lit, equal) == [subject |-> subject, steps |-> steps, lit |-> lit, equal |-> equal]

comparisonFacts(n) ==
    LET subject == IF n.r.op = "lit" THEN n.l ELSE n.r
        lit == IF n.r.op = "lit" THEN n.r ELSE n.l
        steps == nodeSteps(subject)
        on(equal) == <<Fact(subject, steps[1], lit, equal)>>
    IN  IF lit.op # "lit" \/ steps = Fail THEN [yes |-> <<>>, no |-> <<>>]
        ELSE [yes |-> on(n.o = "=="), no |-> on(n.o # "==")]

RECURSIVE guardFacts(_)
guardFacts(n) ==
    LET l == guardFacts(n.l)
        r == guardFacts(n.r)
        e == guardFacts(n.e)
    IN  IF n.op = "unary" /\ n.o = "!" THEN [yes |-> e.no, no |-> e.yes]
        ELSE IF n.op = "binary" /\ n.o = "&&" THEN [yes |-> l.yes \o r.yes, no |-> <<>>]
        ELSE IF n.op = "binary" /\ n.o = "||" THEN [yes |-> <<>>, no |-> l.no \o r.no]
        ELSE IF n.op = "binary" /\ n.o \in {"==", "!="} THEN comparisonFacts(n)
        ELSE [yes |-> <<>>, no |-> <<>>]

(***************************************************************************)
(* Operators on types.                                                     *)
(***************************************************************************)
isNumeric(t) == t \in {"integer", "number"}

resolveTolerant(s, defs) == LET r == deref(s, defs) IN IF r = Fail THEN s ELSE r[1]

HasNull(s, defs) == hasNullResolved(s, defs)
StripNull(s, defs) == stripNullIn(s, defs, {})

\* The one type s surely has; a union of numbers is a number.
concreteTypeOf(s0, defs) ==
    LET s == resolveTolerant(s0, defs)
        arms == {resolveTolerant(v, defs) : v \in ToSet(Arms(s))}
        types == UNION {v.type : v \in arms}
    IN  IF Cardinality(s.type) = 1 THEN Ok(CHOOSE t \in s.type : TRUE)
        ELSE IF arms = {} \/ \E v \in arms : Cardinality(v.type) # 1 \/ isNullType(v) THEN Fail
        ELSE IF Cardinality(types) = 1 THEN Ok(CHOOSE t \in types : TRUE)
        ELSE IF \A t \in types : isNumeric(t) THEN Ok("number")
        ELSE Fail

\* The type of an operand that must be known and not null.
operand(s, defs) == IF HasNull(s, defs) THEN Fail ELSE concreteTypeOf(s, defs)

unwrapSingleVariant(s) == IF Len(Arms(s)) = 1 /\ ~isNullType(Arms(s)[1]) THEN Arms(s)[1] ELSE s

isStructured(s, defs) == nodeIsType(s, defs, "array") \/ nodeIsType(s, defs, "object")

\* The answers of the operators whose operands are both known.
inferStrictOp(o, lt, rt) ==
    IF o \in {"<", ">", "<=", ">="} THEN IF isNumeric(lt) /\ isNumeric(rt) THEN Ok(Type({"boolean"})) ELSE Fail
    ELSE IF o \in {"&&", "||"} THEN IF {lt, rt} = {"boolean"} THEN Ok(Type({"boolean"})) ELSE Fail
    ELSE IF o = "+" /\ {lt, rt} = {"string"} THEN Ok(Type({"string"}))
    ELSE IF ~isNumeric(lt) \/ ~isNumeric(rt) THEN Fail
    ELSE IF o = "/" THEN Ok(Type({"number"}))
    ELSE IF {lt, rt} = {"integer"} THEN Ok(Type({"integer"}))
    ELSE IF o = "%" THEN Fail ELSE Ok(Type({"number"}))

absorbEmptyArray(a, b, defs) ==
    IF isProvablyEmpty(b) /\ nodeIsType(resolveTolerant(a, defs), defs, "array") THEN Ok(a)
    ELSE IF isProvablyEmpty(a) /\ nodeIsType(resolveTolerant(b, defs), defs, "array") THEN Ok(b)
    ELSE Fail

inferNullCoalesce(left, right, defs) ==
    LET stripped == StripNull(left, defs)
        wrapped == left # stripped
        analysis == resolveTolerant(stripped, defs)
        nonNull == IF wrapped THEN stripped ELSE StripNull(analysis, defs)
        lt == concreteTypeOf(StripNull(analysis, defs), defs)
        rt == concreteTypeOf(right, defs)
    IN  IF isNullType(left) \/ isNullType(analysis) THEN right
        ELSE IF ~wrapped /\ ~HasNull(analysis, defs) THEN left
        ELSE IF nonNull = right THEN nonNull
        ELSE IF absorbEmptyArray(nonNull, right, defs) # Fail THEN absorbEmptyArray(nonNull, right, defs)[1]
        ELSE IF lt # Fail /\ rt # Fail /\ isNumeric(lt[1]) /\ isNumeric(rt[1])
          THEN Type({IF lt = rt THEN lt[1] ELSE "number"})
        ELSE canonicalizeNode(OneOf(<<nonNull, right>>))

inferBinaryOps(o, left, right, defs) ==
    LET lt == operand(left, defs)
        rt == operand(right, defs)
    IN  IF o \in {"==", "!="}
          THEN IF isStructured(left, defs) /\ isStructured(right, defs) THEN Fail ELSE Ok(Type({"boolean"}))
        ELSE IF o = "??" THEN Ok(inferNullCoalesce(left, right, defs))
        ELSE IF lt = Fail \/ rt = Fail THEN Fail ELSE inferStrictOp(o, lt[1], rt[1])

inferUnaryOps(o, s, defs) ==
    LET t == operand(s, defs) IN
    IF t = Fail THEN Fail
    ELSE IF o = "!" THEN IF t[1] = "boolean" THEN Ok(Type({"boolean"})) ELSE Fail
    ELSE IF isNumeric(t[1]) THEN Ok(s) ELSE Fail

\* Makes self nullable in place when the other branch is null.
tryNullable(self, other, defs) ==
    IF ~isNullType(other) THEN Fail
    ELSE IF HasNull(self, defs) THEN Ok(self)
    ELSE IF self.props = <<>> /\ Cardinality(self.type) = 1 THEN Ok(withNull(self)) ELSE Fail

\* Mutant: a null else branch is dropped from the type.
joinBranches_then(t, f, defs) == IF isNullType(f) THEN t ELSE OneOf(<<t, f>>)

joinBranches(t, f, defs) ==
    IF t = f THEN t
    ELSE IF tryNullable(t, f, defs) # Fail THEN tryNullable(t, f, defs)[1]
    ELSE IF tryNullable(f, t, defs) # Fail THEN tryNullable(f, t, defs)[1]
    ELSE IF absorbEmptyArray(t, f, defs) # Fail THEN absorbEmptyArray(t, f, defs)[1]
    ELSE OneOf(<<t, f>>)

\* The join of the elements of an array literal.
ArrayLiteral(elems, defs) ==
    LET step(joined, it) == LET m == absorbEmptyArray(joined, it, defs)
                            IN  IF m = Fail THEN joinNodes(joined, it) ELSE m[1]
    IN  IF elems = <<>> THEN emptyArray
        ELSE Array(canonicalizeNode(FoldLeft(step, elems[1], Tail(elems))))

\* What a map visits: the elements of the arms that can have any.
elementOf(src, defs) ==
    LET arms == IF Arms(src) = <<>> THEN <<src>>
                ELSE SelectSeq([i \in DOMAIN Arms(src) |-> resolveTolerant(Arms(src)[i], defs)],
                               LAMBDA v : ~isNullType(v) /\ ~isProvablyEmpty(v))
        join(a, v) == joinNodes(a, v.items[1])
    IN  IF arms = <<>> \/ isProvablyEmpty(src) \/ \E v \in ToSet(arms) : v.items = <<>> THEN Fail
        ELSE IF Arms(src) = <<>> THEN Ok(src.items[1])
        ELSE Ok(canonicalizeNode(FoldLeft(join, arms[1].items[1], Tail(arms))))

(***************************************************************************)
(* Inference proper.                                                       *)
(***************************************************************************)
RECURSIVE inferNode(_, _)

RECURSIVE applyGuardFacts(_, _)
applyGuardFacts(c, facts) ==
    IF facts = <<>> THEN c
    ELSE LET f == Head(facts)
             subject == inferNode(f.subject, c)
             next == IF f.equal THEN withGuard(c, f.steps, Type({f.lit.t}))
                     ELSE IF f.lit.t = "null" /\ subject # Fail
                       THEN withGuard(c, f.steps, StripNull(subject[1], c.defs))
                     ELSE c
         IN  applyGuardFacts(next, Tail(facts))

whenHolds(n, c) == applyGuardFacts(c, guardFacts(n).yes)
whenFails(n, c) == applyGuardFacts(c, guardFacts(n).no)

guardOf(n, c) == LET p == nodeSteps(n) IN
    IF p # Fail /\ p[1] \in DOMAIN c.guards THEN Ok(c.guards[p[1]]) ELSE Fail

\* An access through a base known to be null is null.
inferBase(n, c) ==
    LET base == inferNode(n.base, c) IN
    IF base = Fail \/ (base # Fail /\ deref(base[1], c.defs) = Fail) THEN Fail
    ELSE IF isNullType(deref(base[1], c.defs)[1]) THEN Ok(NullType) ELSE base

nullOr(base) == base = Fail \/ (base # Fail /\ isNullType(base[1]))

inferMember(n, c) ==
    LET base == inferBase(n, c) IN
    IF guardOf(n, c) # Fail THEN guardOf(n, c)
    ELSE IF nullOr(base) THEN base ELSE Property(base[1], c.defs, n.name)

inferIndexNode(n, c) ==
    LET base == inferBase(n, c) IN
    IF guardOf(n, c) # Fail THEN guardOf(n, c)
    ELSE IF nullOr(base) THEN base ELSE Index(base[1], c.defs)

inferKeyNode(n, c) ==
    LET key == inferNode(n.key, c)
        base == inferBase(n, c)
        a == anyKey(base[1], c.defs)
    IN  IF guardOf(n, c) # Fail THEN guardOf(n, c)
        ELSE IF key = Fail THEN Fail
        ELSE IF nullOr(base) THEN base
        ELSE IF a = Fail THEN Fail
        ELSE IF nodeIsType(key[1], c.defs, a[1].key) THEN Ok(a[1].value) ELSE Fail

inferObject(n, c) ==
    LET vs == [k \in DOMAIN n.m |-> inferNode(n.m[k], c)]
    IN  IF \E k \in DOMAIN n.m : vs[k] = Fail THEN Fail
        ELSE Ok([Type({"object"}) EXCEPT !.props = [k \in DOMAIN n.m |-> vs[k][1]], !.req = DOMAIN n.m])

inferArray(n, c) ==
    LET vs == [i \in DOMAIN n.items |-> inferNode(n.items[i], c)]
    IN  IF Fail \in ToSet(vs) THEN Fail ELSE Ok(ArrayLiteral([i \in DOMAIN vs |-> vs[i][1]], c.defs))

inferCall(n, c) ==
    LET src == inferNode(n.src, c)
        elem == elementOf(resolveTolerant(src[1], c.defs), c.defs)
        body == inferNode(n.body, withParams(c, n, elem[1]))
    IN  IF src = Fail THEN Fail
        ELSE IF HasNull(src[1], c.defs) \/ ~nodeIsType(src[1], c.defs, "array") THEN Fail
        ELSE IF elem = Fail THEN Fail
        ELSE IF body = Fail THEN Fail ELSE Ok(Array(body[1]))

inferBinary(n, c) ==
    LET left == inferNode(n.l, c)
        rc == CASE n.o = "&&" -> whenHolds(n.l, c) [] n.o = "||" -> whenFails(n.l, c) [] OTHER -> c
        right == inferNode(n.r, rc)
    IN  IF left = Fail \/ right = Fail THEN Fail
        ELSE inferBinaryOps(n.o, unwrapSingleVariant(left[1]), unwrapSingleVariant(right[1]), c.defs)

inferConditional(n, c) ==
    LET t == inferNode(n.t, whenHolds(n.c, c))
        f == inferNode(n.f, whenFails(n.c, c))
    IN  IF inferNode(n.c, c) = Fail \/ t = Fail \/ f = Fail THEN Fail
        ELSE Ok(joinBranches(t[1], f[1], c.defs))

\* Text is a string whatever it interpolates, but an interpolation must be a known scalar.
InferType(parts, c) ==
    LET ts == [i \in DOMAIN parts |-> inferNode(parts[i], c)]
        writable(s) == ~HasNull(s, c.defs) /\ ~isEmptyNode(s) /\ ~isStructured(s, c.defs)
    IN  IF Fail \in ToSet(ts) THEN Fail
        ELSE IF \A t \in ToSet(ts) : writable(t[1]) THEN Ok(Type({"string"})) ELSE Fail

inferNode(n, c) ==
    LET v == inferNode(n.e, c)
    IN  CASE n.op = "lit" -> Ok(Type({n.t}))
          [] n.op = "ident" -> IF guardOf(n, c) # Fail THEN guardOf(n, c)
                               ELSE IF n.name \in DOMAIN c.vars THEN Ok(c.vars[n.name])
                               ELSE Property(c.s, c.defs, n.name)
          [] n.op = "member" -> inferMember(n, c)
          [] n.op = "index" -> inferIndexNode(n, c)
          [] n.op = "key" -> inferKeyNode(n, c)
          [] n.op = "array" -> inferArray(n, c)
          [] n.op = "object" -> inferObject(n, c)
          [] n.op = "map" -> inferCall(n, c)
          [] n.op = "binary" -> inferBinary(n, c)
          [] n.op = "unary" -> IF v = Fail THEN Fail ELSE inferUnaryOps(n.o, unwrapSingleVariant(v[1]), c.defs)
          [] n.op = "cond" -> inferConditional(n, c)
          [] n.op = "tmpl" -> InferType(n.parts, c)

(***************************************************************************)
(* A context that is a union of states is typed state by state and joined; *)
(* every state must type.                                                  *)
(***************************************************************************)
InferNode(n, s, defs, guards) ==
    LET in(arm) == inferNode(n, [s |-> arm, defs |-> defs, guards |-> guards, vars |-> <<>>])
        ts == [i \in DOMAIN s.anyOf |-> in(s.anyOf[i])]
        types == [i \in DOMAIN ts |-> ts[i][1]]
    IN  IF Len(s.anyOf) < 2 THEN in(s)
        ELSE IF Fail \in ToSet(ts) THEN Fail
        ELSE Ok(FoldLeft(joinNodes, types[1], Tail(types)))

=============================================================================
