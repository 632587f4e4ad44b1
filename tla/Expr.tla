-------------------------------- MODULE Expr --------------------------------
(***************************************************************************)
(* The expression language of internal/expression: the tree the parser     *)
(* builds, its evaluation (eval.go, ops.go) and the analysis of which      *)
(* context roots an expression reads (refs.go), on which the engine's lazy *)
(* loading rests.                                                          *)
(*                                                                         *)
(* A value too large to be kept in the row is a marker in the context: a   *)
(* Marker holds the value it stands for, which only a load may look at.    *)
(***************************************************************************)
EXTENDS Subset

CONSTANT NumLimit   \* the magnitude past which a number has too many digits

ASSUME NumLimitAssumption == NumLimit \in Nat

(***************************************************************************)
(* The tree.                                                               *)
(***************************************************************************)
Lit(v, t) == [op |-> "lit", v |-> v, t |-> t]
IntNode(n) == Lit(Num(n), "integer")
StringNode(s) == Lit(Str(s), "string")
BoolNode(b) == Lit(Bool(b), "boolean")
NullNode == Lit(Null, "null")
Ident(name) == [op |-> "ident", name |-> name]
Member(base, name) == [op |-> "member", base |-> base, name |-> name]
IndexNode(base, i) == [op |-> "index", base |-> base, i |-> i]
KeyNode(base, key) == [op |-> "key", base |-> base, key |-> key]
ArrayNode(items) == [op |-> "array", items |-> items]
ObjectNode(m) == [op |-> "object", m |-> m]
MapCall(src, param, idx, body) ==   \* idx is "" for a lambda without an index parameter
    [op |-> "map", src |-> src, param |-> param, idx |-> idx, body |-> body]
Binary(o, l, r) == [op |-> "binary", o |-> o, l |-> l, r |-> r]
Unary(o, e) == [op |-> "unary", o |-> o, e |-> e]
Cond(c, t, f) == [op |-> "cond", c |-> c, t |-> t, f |-> f]
Template(parts) == [op |-> "tmpl", parts |-> parts]   \* text with ${ } interpolations

(***************************************************************************)
(* Operators on values.                                                    *)
(***************************************************************************)
Marker(v) == [k |-> "marker", of |-> v]

checkResolved(v) == v.k # "marker"

Abs(n) == IF n < 0 THEN -n ELSE n

\* Division truncates toward zero at the half: the one place arithmetic rounds.
Quo(a, b) == IF (a < 0) = (b < 0) THEN Abs(a) \div Abs(b) ELSE -(Abs(a) \div Abs(b))

decimalResult(n) == IF Abs(n) > 2 * NumLimit THEN Fail ELSE Ok(Half(n))

bothKind(l, r, k) == l.k = k /\ r.k = k

equalValues(l, r) ==
    IF {l.k, r.k} \subseteq {"object", "array"} THEN Fail ELSE Ok(Bool(l = r))

numCmp(o, l, r) ==
    IF ~bothKind(l, r, "number") THEN Fail
    ELSE Ok(Bool(CASE o = "<" -> l.n < r.n [] o = ">" -> l.n > r.n
                   [] o = "<=" -> l.n <= r.n [] o = ">=" -> l.n >= r.n))

evalArith(o, l, r) ==
    IF o = "+" /\ bothKind(l, r, "string") THEN Ok(Str(l.s \o r.s))
    ELSE IF ~bothKind(l, r, "number") THEN Fail
    ELSE IF o = "+" THEN decimalResult(l.n + r.n)
    ELSE IF o = "-" THEN decimalResult(l.n - r.n)
    ELSE IF o = "*" THEN decimalResult((l.n * r.n) \div 2)
    ELSE IF r.n = 0 THEN Fail
    ELSE IF o = "/" THEN decimalResult(Quo(2 * l.n, r.n))
    ELSE IF isIntegral(l) /\ isIntegral(r) THEN decimalResult(l.n - r.n * Quo(l.n, r.n))
    ELSE Fail

binaryOps(o, l, r) ==
    CASE o = "==" -> equalValues(l, r)
      [] o = "!=" -> LET eq == equalValues(l, r) IN IF eq = Fail THEN Fail ELSE Ok(Bool(~eq[1].b))
      [] o \in {"<", ">", "<=", ">="} -> numCmp(o, l, r)
      [] OTHER -> evalArith(o, l, r)

unaryOps(o, v) ==
    CASE o = "!" -> IF v.k = "boolean" THEN Ok(Bool(~v.b)) ELSE Fail
      [] o = "-" -> IF v.k = "number" THEN decimalResult(-v.n) ELSE Fail
      [] o = "+" -> IF v.k = "number" THEN Ok(v) ELSE Fail

\* A read of a missing key, an index out of range or a null base is null.
evalMember(base, name) ==
    IF ~checkResolved(base) THEN Fail
    ELSE IF base.k = "object" /\ name \in DOMAIN base.m THEN Ok(base.m[name]) ELSE Ok(Null)

evalIndex(base, i) ==
    IF ~checkResolved(base) THEN Fail
    ELSE IF base.k = "array" /\ i + 1 \in DOMAIN base.e THEN Ok(base.e[i + 1]) ELSE Ok(Null)

evalKey(base, key) ==
    IF ~checkResolved(base) THEN Fail
    ELSE IF base.k = "object" THEN IF key.k = "string" THEN evalMember(base, key.s) ELSE Fail
    ELSE IF base.k = "array" THEN IF isIntegral(key) THEN evalIndex(base, key.n \div 2) ELSE Fail
    ELSE Ok(Null)

\* What an interpolation writes into the text: a scalar that is there.
stringify(v) ==
    CASE v.k = "string" -> Ok(v.s)
      [] v.k = "number" -> Ok((IF v.n < 0 THEN "-" ELSE "") \o ToString(Abs(v.n) \div 2)
                                   \o (IF isIntegral(v) THEN "" ELSE ".5"))
      [] v.k = "boolean" -> Ok(IF v.b THEN "true" ELSE "false")
      [] OTHER -> Fail

(***************************************************************************)
(* Evaluation.  `e` maps the names in scope to their values.               *)
(***************************************************************************)
bind(e, name, v) == [n \in DOMAIN e \cup {name} |-> IF n = name THEN v ELSE e[n]]

RECURSIVE evalNode(_, _)

evalEach(nodes, e) ==
    LET vs == [i \in DOMAIN nodes |-> evalNode(nodes[i], e)]
    IN  IF \E i \in DOMAIN nodes : vs[i] = Fail THEN Fail ELSE Ok([i \in DOMAIN nodes |-> vs[i][1]])

evalCall(n, e) ==
    LET src == evalNode(n.src, e) IN
    IF src = Fail \/ (src # Fail /\ src[1].k # "array") THEN Fail
    ELSE LET scope(i) == bind(bind(e, n.idx, Num(i - 1)), n.param, src[1].e[i])
             vs == [i \in DOMAIN src[1].e |-> evalNode(n.body, scope(i))]
         IN  IF \E i \in DOMAIN vs : vs[i] = Fail THEN Fail
             ELSE Ok(Arr([i \in DOMAIN vs |-> vs[i][1]]))

evalLogical(n, e) ==
    LET l == evalNode(n.l, e)
        r == evalNode(n.r, e)
    IN  IF l = Fail \/ (l # Fail /\ l[1].k # "boolean") THEN Fail
        ELSE IF (n.o = "&&") # l[1].b THEN l
        ELSE IF r # Fail /\ r[1].k = "boolean" THEN r ELSE Fail

evalBinary(n, e) ==
    LET l == evalNode(n.l, e)
        r == evalNode(n.r, e)
    IN  IF n.o \in {"&&", "||"} THEN evalLogical(n, e)
        ELSE IF l = Fail THEN Fail
        ELSE IF n.o = "??" THEN IF l[1] = Null THEN r ELSE l
        ELSE IF r = Fail THEN Fail
        ELSE IF ~checkResolved(l[1]) \/ ~checkResolved(r[1]) THEN Fail
        ELSE binaryOps(n.o, l[1], r[1])

evalConditional(n, e) ==
    LET c == evalNode(n.c, e)
    IN  IF c = Fail THEN Fail
        ELSE IF c[1] = Bool(TRUE) THEN evalNode(n.t, e) ELSE evalNode(n.f, e)

EvalAny(parts, e) ==
    LET vs == evalEach(parts, e)
        text == [i \in DOMAIN parts |-> stringify(vs[1][i])]
    IN  IF vs = Fail THEN Fail
        ELSE IF Fail \in ToSet(text) THEN Fail
        ELSE Ok(Str(FoldLeft(LAMBDA out, t : out \o t[1], "", text)))

evalNode(n, e) ==
    LET base == evalNode(n.base, e)
        key == evalNode(n.key, e)
        v == evalNode(n.e, e)
    IN  CASE n.op = "lit" -> Ok(n.v)
          [] n.op = "ident" -> IF n.name \in DOMAIN e THEN Ok(e[n.name]) ELSE Fail
          [] n.op = "member" -> IF base = Fail THEN Fail ELSE evalMember(base[1], n.name)
          [] n.op = "index" -> IF base = Fail THEN Fail ELSE evalIndex(base[1], n.i)
          [] n.op = "key" -> IF base = Fail THEN Fail ELSE IF base[1] = Null THEN base
                             ELSE IF key = Fail THEN Fail ELSE evalKey(base[1], key[1])
          [] n.op = "array" -> LET vs == evalEach(n.items, e) IN IF vs = Fail THEN Fail ELSE Ok(Arr(vs[1]))
          [] n.op = "object" -> LET vs == evalEach(n.m, e) IN IF vs = Fail THEN Fail ELSE Ok(Obj(vs[1]))
          [] n.op = "map" -> evalCall(n, e)
          [] n.op = "binary" -> evalBinary(n, e)
          [] n.op = "unary" -> IF v = Fail THEN Fail ELSE IF ~checkResolved(v[1]) THEN Fail ELSE unaryOps(n.o, v[1])
          [] n.op = "cond" -> evalConditional(n, e)
          [] n.op = "tmpl" -> EvalAny(n.parts, e)

(***************************************************************************)
(* Which roots an expression reads.  A root is the path of a slot the      *)
(* engine loads by name; `through` says the read looks inside it, so that  *)
(* a marker there must be materialized, rather than copies it.             *)
(***************************************************************************)
Root(path, through) == [path |-> path, through |-> through]

isSelfField(n, bound, field) ==
    n.base.op = "ident" /\ n.base.name = "self" /\ "self" \notin bound /\ n.name = field

isOutputRef(n, bound) == n.base.op = "ident" /\ n.base.name = "outputs" /\ "outputs" \notin bound

ErrorNames == {"error", "last_error"}

RECURSIVE collectRoots(_, _, _)

memberRoots(n, bound, through) ==
    IF isOutputRef(n, bound) THEN {Root(<<"outputs", n.name>>, through)}
    ELSE IF \E f \in {"previous", "result", "output"} : isSelfField(n, bound, f)
      THEN {Root(<<"self", n.name>>, through)}
    ELSE IF n.base.op = "ident" /\ n.base.name \in ErrorNames \ bound
      THEN {Root(<<n.base.name>>, TRUE)} \cup
           {Root(<<n.base.name, f>>, through) : f \in {"data"} \cap {n.name}}
    ELSE collectRoots(n.base, bound, TRUE)

identRoots(name, bound, through) ==
    IF name \in {"input", "outputs"} \ bound THEN {Root(<<name>>, through)}
    ELSE IF name \in ErrorNames \ bound
      THEN {Root(<<name>>, through), Root(<<name, "data">>, through)}
    ELSE {}

collectRoots(n, bound, through) ==
    LET of(s, t) == collectRoots(s, bound, t)
        each(f, t) == UNION {of(f[i], t) : i \in DOMAIN f}
    IN  CASE n.op = "lit" -> {}
          [] n.op = "ident" -> identRoots(n.name, bound, through)
          [] n.op = "member" -> memberRoots(n, bound, through)
          [] n.op = "index" -> of(n.base, TRUE)
          [] n.op = "key" -> of(n.base, TRUE) \cup of(n.key, TRUE)
          [] n.op = "array" -> each(n.items, FALSE)
          [] n.op = "object" -> each(n.m, FALSE)
          [] n.op = "map" -> of(n.src, TRUE) \cup collectRoots(n.body, bound \cup {n.param, n.idx}, TRUE)
          [] n.op = "binary" -> of(n.l, TRUE) \cup of(n.r, TRUE)
          [] n.op = "unary" -> of(n.e, TRUE)
          [] n.op = "cond" -> of(n.c, TRUE) \cup of(n.t, through) \cup of(n.f, through)
          [] n.op = "tmpl" -> each(n.parts, TRUE)

=============================================================================
