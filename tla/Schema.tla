------------------------------- MODULE Schema -------------------------------
(***************************************************************************)
(* The schema algebra of internal/schema: what a JSON Schema node is, how  *)
(* a value is conformed to one (validate.go), the null algebra and static  *)
(* navigation (navigate.go), the join and the canonical form (join.go,     *)
(* canonical.go).  Everything here is a pure function of its arguments;    *)
(* the modules that EXTEND this one put the functions to work.             *)
(*                                                                         *)
(* A node is a record with every keyword; an absent keyword and an empty   *)
(* one are the same (the JSON encoding of a node omits both).  A `type`    *)
(* list is a set: its order is presentation.  Numbers are counted in       *)
(* halves, so that "number" and "integer" are different types.  A function *)
(* that can fail answers Fail or Ok(x).                                    *)
(***************************************************************************)
EXTENDS Integers, FiniteSets, SequencesExt

(***************************************************************************)
(* Values.                                                                 *)
(***************************************************************************)
Null == [k |-> "null"]
Bool(b) == [k |-> "boolean", b |-> b]
Str(s) == [k |-> "string", s |-> s]
Half(n) == [k |-> "number", n |-> n]
Num(n) == Half(2 * n)
Arr(e) == [k |-> "array", e |-> e]
Obj(m) == [k |-> "object", m |-> m]

Fail == <<>>
Ok(x) == <<x>>

isIntegral(v) == v.k = "number" /\ v.n % 2 = 0

valueHasType(v, t) == v.k = t \/ (t = "integer" /\ isIntegral(v))

(***************************************************************************)
(* Nodes.  `lim` maps the bounds a node sets to their values.              *)
(***************************************************************************)
Top == [type |-> {}, props |-> <<>>, req |-> {}, addl |-> <<>>, items |-> <<>>,
        oneOf |-> <<>>, anyOf |-> <<>>, allOf |-> <<>>, enum |-> {},
        lim |-> <<>>, ref |-> "", dflt |-> <<>>, pend |-> FALSE]

Type(ts) == [Top EXCEPT !.type = ts]
NullType == Type({"null"})
Array(item) == [Type({"array"}) EXCEPT !.items = <<item>>]
emptyArray == [Type({"array"}) EXCEPT !.lim = [b \in {"maxItems"} |-> 0]]
Map(sub) == [Type({"object"}) EXCEPT !.addl = <<sub>>]
Ref(name) == [Top EXCEPT !.ref = name]
OneOf(vs) == [Top EXCEPT !.oneOf = vs]
AnyOf(vs) == [Top EXCEPT !.anyOf = vs]

WithProperty(s, name, sub, required) ==
    [s EXCEPT !.props = [p \in DOMAIN s.props \cup {name} |-> IF p = name THEN sub ELSE s.props[p]],
              !.req = IF required THEN @ \cup {name} ELSE @]

isEmptyNode(s) == [s EXCEPT !.dflt = <<>>] = Top

isObjectSchema(s) == "object" \in s.type \/ s.props # <<>> \/ s.req # {} \/ s.addl # <<>>

isNullType(s) == s.type = {"null"}

(***************************************************************************)
(* deref follows a chain of references; a cycle or a missing target fails. *)
(* A definition that is still being solved (`pend`) serves its estimate.   *)
(***************************************************************************)
RECURSIVE derefFrom(_, _, _)
derefFrom(s, defs, seen) ==
    IF s.ref = "" THEN Ok([s EXCEPT !.pend = FALSE])
    ELSE IF s.ref \in seen \/ s.ref \notin DOMAIN defs THEN Fail
    ELSE derefFrom(defs[s.ref], defs, seen \cup {s.ref})

deref(s, defs) == derefFrom(s, defs, {})

(***************************************************************************)
(* The null algebra.                                                       *)
(***************************************************************************)
hasNullType(s) ==
    \/ "null" \in s.type
    \/ \E v \in ToSet(s.oneOf) \cup ToSet(s.anyOf) : isNullType(v)

RECURSIVE hasNullGuard(_, _, _)
hasNullGuard(s, defs, visiting) ==
    LET r == deref(s, defs) IN
    IF r = Fail THEN hasNullType(s)
    ELSE \/ hasNullType(r[1])
         \/ /\ r[1] \notin visiting
            /\ \E v \in ToSet(r[1].oneOf) \cup ToSet(r[1].anyOf) :
                  hasNullGuard(v, defs, visiting \cup {r[1]})

hasNullResolved(s, defs) == hasNullGuard(s, defs, {})

withNull(s) ==
    IF isEmptyNode(s) \/ hasNullType(s) THEN s
    ELSE IF s.type # {} /\ s.props = <<>> THEN [s EXCEPT !.type = @ \cup {"null"}]
    ELSE OneOf(<<s, NullType>>)

RECURSIVE refTargetPending(_, _, _)
refTargetPending(s, defs, seen) ==
    /\ s.ref \in DOMAIN defs \ seen
    /\ defs[s.ref].pend \/ refTargetPending(defs[s.ref], defs, seen \cup {s.ref})

resolvesToNull(s, defs) ==
    LET r == deref(s, defs) IN
    isNullType(s) \/ (~refTargetPending(s, defs, {}) /\ r # Fail /\ isNullType(r[1]))

RECURSIVE stripNullIn(_, _, _)
stripNullIn(s, defs, seen) ==
    LET Stripped(vs) ==
            LET kept == SelectSeq(vs, LAMBDA v : ~resolvesToNull(v, defs))
            IN  [i \in DOMAIN kept |-> stripNullIn(kept[i], defs, seen)]
        Rebuilt(kw) == LET vs == Stripped(s[kw]) IN
                       IF vs = <<>> \/ vs = s[kw] THEN s
                       ELSE IF Len(vs) = 1 THEN vs[1] ELSE [s EXCEPT ![kw] = vs]
        target == deref(s, defs)
    IN  IF ~hasNullResolved(s, defs) THEN s
        ELSE IF s.ref # "" /\ s.ref \notin seen /\ ~refTargetPending(s, defs, {}) /\ target # Fail
          THEN stripNullIn(target[1], defs, seen \cup {s.ref})
        ELSE IF s.type # {} THEN [s EXCEPT !.type = @ \ {"null"}]
        ELSE IF s.oneOf # <<>> THEN Rebuilt("oneOf")
        ELSE IF s.anyOf # <<>> THEN Rebuilt("anyOf")
        ELSE s

NoDefs == <<>>
stripNull(s) == stripNullIn(s, NoDefs, {})

RECURSIVE nodeIsType(_, _, _)
nodeIsType(s, defs, t) ==
    LET r == deref(s, defs) IN
    /\ r # Fail
    /\ IF r[1].type # {} THEN r[1].type = {t}
       ELSE LET arms == ToSet(IF r[1].oneOf # <<>> THEN r[1].oneOf ELSE r[1].anyOf)
            IN  arms # {} /\ \A v \in arms : nodeIsType(v, defs, t)

(***************************************************************************)
(* Conforming a value (validate.go).  Strict is the check at a boundary;   *)
(* Exactly is a migration: an absent required nullable is written in as    *)
(* null, a null an optional property cannot hold loses its key, and no     *)
(* default is filled.  A closed object drops what it does not declare.     *)
(***************************************************************************)
Strict == "strict"
Exactly == "exactly"

propDefault(prop, defs) ==
    LET r == deref(prop, defs) IN
    IF prop.dflt # <<>> THEN prop.dflt
    ELSE IF prop.ref # "" /\ r # Fail THEN r[1].dflt ELSE <<>>

checkType(nd, v) == nd.type # {} => \E t \in nd.type : valueHasType(v, t)

Within(lim, lo, hi, n) ==
    /\ lo \in DOMAIN lim => n >= lim[lo]
    /\ hi \in DOMAIN lim => n <= lim[hi]

checkScalar(nd, v) ==
    /\ v.k = "number" => Within(nd.lim, "minimum", "maximum", v.n)
    /\ v.k = "string" => Within(nd.lim, "minLength", "maxLength", Len(v.s))

RECURSIVE conformGuard(_, _, _, _, _)

conformObject(nd, defs, m, mode) ==
    LET declared == DOMAIN nd.props
        absent == declared \ DOMAIN m
        nullable(p) == hasNullResolved(nd.props[p], defs)
        inserted == {p \in absent \cap nd.req : mode = Exactly /\ nullable(p)}
        missing == (absent \cap nd.req) \ inserted
        defaulted == {p \in absent \ nd.req : mode = Strict /\ propDefault(nd.props[p], defs) # <<>>}
        removed == {p \in (declared \cap DOMAIN m) \ nd.req :
                       mode = Exactly /\ m[p] = Null /\ ~nullable(p)}
        extra == IF nd.addl = <<>> THEN {} ELSE DOMAIN m \ declared
        kept == ((declared \cap DOMAIN m) \ removed) \cup defaulted \cup extra
        norm == [p \in kept |->
                   IF p \in extra THEN conformGuard(nd.addl[1], defs, m[p], {}, mode)
                   ELSE conformGuard(nd.props[p], defs,
                          IF p \in defaulted THEN propDefault(nd.props[p], defs)[1] ELSE m[p], {}, mode)]
    IN  IF missing # {} \/ \E p \in kept : norm[p] = Fail THEN Fail
        ELSE Ok(Obj([p \in kept \cup inserted |-> IF p \in inserted THEN Null ELSE norm[p][1]]))

conformArray(nd, defs, e, mode) ==
    LET item == IF nd.items = <<>> THEN Top ELSE nd.items[1]
        norm == [i \in DOMAIN e |-> conformGuard(item, defs, e[i], {}, mode)]
    IN  IF ~Within(nd.lim, "minItems", "maxItems", Len(e)) \/ \E i \in DOMAIN e : norm[i] = Fail
        THEN Fail
        ELSE Ok(Arr([i \in DOMAIN e |-> norm[i][1]]))

conformUnion(arms, defs, v, exactlyOne, visiting, mode) ==
    LET res == [i \in DOMAIN arms |-> conformGuard(arms[i], defs, v, visiting, mode)]
        fit == {i \in DOMAIN arms : res[i] # Fail}
    IN  IF fit = {} \/ (exactlyOne /\ Cardinality(fit) > 1) THEN Fail
        ELSE res[CHOOSE i \in fit : \A j \in fit : i <= j]

conformGuard(nd, defs, v, visiting, mode) ==
    LET d == deref(nd, defs) IN
    IF d = Fail \/ (nd.ref # "" /\ d[1] \in visiting) THEN Fail
    ELSE LET s == d[1]
             within == IF nd.ref = "" THEN visiting ELSE visiting \cup {s}
         IN  IF isEmptyNode(s) THEN Ok(v)
             ELSE IF s.anyOf # <<>> THEN conformUnion(s.anyOf, defs, v, FALSE, within, mode)
             ELSE IF s.oneOf # <<>> THEN conformUnion(s.oneOf, defs, v, TRUE, within, mode)
             ELSE IF ~checkType(s, v) \/ (s.enum # {} /\ v \notin s.enum) THEN Fail
             ELSE IF v.k = "object" /\ isObjectSchema(s) THEN conformObject(s, defs, v.m, mode)
             ELSE IF v.k = "array" /\ (s.items # <<>> \/ "array" \in s.type)
               THEN conformArray(s, defs, v.e, mode)
             ELSE IF checkScalar(s, v) THEN Ok(v) ELSE Fail

Validate(nd, defs, v, mode) == conformGuard(nd, defs, v, {}, mode)

(***************************************************************************)
(* Static navigation: the type of .name, [n] and [key] on a value of type  *)
(* s.  A key or an element that may be absent reads as null, and so does   *)
(* an access through a null; an unknown arm of a union makes the access    *)
(* undecidable and is refused.                                             *)
(***************************************************************************)
Arms(s) == IF s.anyOf # <<>> THEN s.anyOf ELSE s.oneOf

Resolved(vs, defs) == [i \in DOMAIN vs |-> deref(vs[i], defs)]

Undecidable(res) == \E r \in ToSet(res) : r = Fail \/ isEmptyNode(r[1])

NonNullArms(res) == SelectSeq(res, LAMBDA r : ~isNullType(r[1]))

Values(answers) ==
    LET hit == SelectSeq(answers, LAMBDA r : r # Fail) IN [i \in DOMAIN hit |-> hit[i][1]]

allSame(nodes) == Cardinality(ToSet(nodes)) <= 1

withoutDefault(s) == [s EXCEPT !.dflt = <<>>]

RECURSIVE lookupPropertyGuard(_, _, _, _)

lookupUnion(s, name, defs, visiting) ==
    LET res == Resolved(Arms(s), defs)
        answers == [i \in DOMAIN NonNullArms(res) |->
                       lookupPropertyGuard(NonNullArms(res)[i][1], name, defs, visiting \cup {s})]
        hits == Values(answers)
        union == IF allSame(hits) THEN hits[1]
                 ELSE IF s.anyOf # <<>> THEN AnyOf(hits) ELSE OneOf(hits)
    IN  IF s \in visiting \/ Undecidable(res) THEN Fail
        ELSE IF hits = <<>> THEN IF answers = <<>> THEN Ok(NullType) ELSE Fail
        ELSE Ok(IF Len(hits) < Len(Arms(s)) THEN withNull(union) ELSE union)

lookupPropertyGuard(nd, name, defs, visiting) ==
    LET d == deref(nd, defs) IN
    IF d = Fail THEN Fail
    ELSE LET s == d[1]
             bare == lookupPropertyGuard(stripNull(s), name, defs, visiting)
         IN  IF isNullType(s) THEN Ok(NullType)
             ELSE IF "null" \in s.type
               THEN IF bare = Fail THEN Fail ELSE Ok(withNull(bare[1]))
             ELSE IF Arms(s) # <<>> THEN lookupUnion(s, name, defs, visiting)
             ELSE IF name \in DOMAIN s.props
               THEN LET prop == s.props[name] IN
                    Ok(IF name \notin s.req /\ propDefault(prop, defs) = <<>>
                       THEN withNull(withoutDefault(prop)) ELSE withoutDefault(prop))
             ELSE IF s.addl # <<>> THEN Ok(withNull(s.addl[1])) ELSE Fail

Property(s, defs, name) == lookupPropertyGuard(s, name, defs, {})

RECURSIVE inferIndexGuard(_, _, _)
inferIndexGuard(nd, defs, visiting) ==
    LET d == deref(nd, defs) IN
    IF d = Fail THEN Fail
    ELSE LET s == stripNull(d[1])
             res == Resolved(Arms(s), defs)
             hits == Values([i \in DOMAIN NonNullArms(res) |->
                               inferIndexGuard(NonNullArms(res)[i][1], defs, visiting \cup {s})])
             union == IF allSame(hits) THEN hits[1] ELSE AnyOf(hits)
         IN  IF Arms(s) # <<>>
             THEN IF s \in visiting \/ Undecidable(res) THEN Fail
                  ELSE IF hits = <<>> THEN Ok(NullType)
                  ELSE Ok(IF Len(hits) < Len(Arms(s)) THEN withNull(union) ELSE union)
             ELSE IF "array" \notin s.type THEN Fail
             ELSE Ok(IF s.items = <<>> THEN Top ELSE withNull(s.items[1]))

Index(s, defs) == inferIndexGuard(s, defs, {})

\* The type any key of s has, with the type the key must have.
anyKey(nd, defs) ==
    LET d == deref(nd, defs) IN
    IF d = Fail THEN Fail
    ELSE LET s == stripNull(d[1])
             el == Index(s, defs)
         IN  IF "array" \in s.type \/ s.items # <<>>
             THEN IF el = Fail THEN Fail ELSE Ok([value |-> el[1], key |-> "integer"])
             ELSE IF s.addl # <<>> /\ s.props = <<>>
             THEN Ok([value |-> withNull(s.addl[1]), key |-> "string"])
             ELSE Fail

(***************************************************************************)
(* The canonical form.  Arms sorted by their encoding are here the arms in *)
(* the one order CHOOSE gives their set: equal sets of arms, equal nodes.  *)
(***************************************************************************)
pureComposition(s) ==
    \A f \in {"type", "props", "addl", "items", "req", "enum", "ref"} : s[f] = Top[f]

isSimpleType(s) ==
    s.type # {} /\ \A f \in {"props", "addl", "items", "req", "enum", "ref", "oneOf", "anyOf", "allOf"} :
                      s[f] = Top[f]

Only(s, kw) ==
    pureComposition(s) /\ s[kw] # <<>> /\ \A k \in {"oneOf", "anyOf", "allOf"} \ {kw} : s[k] = <<>>

canonVariants(vs, kw) ==
    SetToSeq(UNION {IF Only(v, kw) THEN ToSet(v[kw]) ELSE {v} : v \in ToSet(vs)})

mergeSimpleVariants(vs) == Type(UNION {v.type : v \in ToSet(vs)})

collapse(s) ==
    LET kw == {k \in {"oneOf", "anyOf", "allOf"} : Only(s, k)}
        k == CHOOSE k \in kw : TRUE
    IN  IF kw = {} THEN s
        ELSE IF Len(s[k]) = 1 THEN s[k][1]
        ELSE IF k # "allOf" /\ \A v \in ToSet(s[k]) : isSimpleType(v) THEN mergeSimpleVariants(s[k])
        ELSE s

RECURSIVE canonicalizeNode(_)
canonicalizeNode(s) ==
    LET each(vs) == [i \in DOMAIN vs |-> canonicalizeNode(vs[i])]
    IN  collapse([s EXCEPT !.props = each(@), !.addl = each(@), !.items = each(@),
                           !.oneOf = canonVariants(each(@), "oneOf"),
                           !.anyOf = canonVariants(each(@), "anyOf"),
                           !.allOf = canonVariants(each(@), "allOf")])

(***************************************************************************)
(* The join: objects merge property by property, anything else unions.     *)
(***************************************************************************)
nodesEqual(a, b) == canonicalizeNode(a) = canonicalizeNode(b)

isObjectType(s) == "object" \in s.type \/ s.props # <<>> \/ s.addl # <<>>

RECURSIVE joinNodes(_, _)

joinObjects(a, b) ==
    LET both == DOMAIN a.props \cap DOMAIN b.props
        side(k) == withNull(canonicalizeNode(IF k \in DOMAIN a.props THEN a.props[k] ELSE b.props[k]))
    IN  [Type({"object"}) EXCEPT
            !.props = [k \in DOMAIN a.props \cup DOMAIN b.props |->
                          IF k \in both THEN joinNodes(a.props[k], b.props[k]) ELSE side(k)],
            !.req = both \cap a.req \cap b.req,
            !.addl = IF a.addl # <<>> /\ b.addl # <<>> THEN <<joinNodes(a.addl[1], b.addl[1])>>
                     ELSE [i \in DOMAIN (a.addl \o b.addl) |-> canonicalizeNode((a.addl \o b.addl)[i])]]

joinNodes(a, b) ==
    LET na == stripNull(a)
        nb == stripNull(b)
        res == IF nodesEqual(na, nb) THEN na
               ELSE IF isObjectType(na) /\ isObjectType(nb) THEN joinObjects(na, nb)
               ELSE OneOf(<<na, nb>>)
    IN  canonicalizeNode(
            IF nodesEqual(a, b) THEN a
            ELSE IF isNullType(a) THEN withNull(b)
            ELSE IF isNullType(b) THEN withNull(a)
            ELSE IF hasNullType(a) \/ hasNullType(b) THEN withNull(res) ELSE res)

=============================================================================
