------------------------------- MODULE Typing -------------------------------
(***************************************************************************)
(* What is promised of a stored value before it is looked at, and what     *)
(* then becomes of it, as functions; and the reference they are held to.   *)
(***************************************************************************)
EXTENDS Infer

CONSTANT Pool   \* the definitions references resolve in

\* The reference: what it means for a value to be of a type, with no tolerance and no filling.
RECURSIVE Inhabits(_, _)
Inhabits(nd, v) ==
    LET s == deref(nd, Pool)[1] IN
    IF isEmptyNode(s) THEN TRUE
    ELSE IF Arms(s) # <<>> THEN \E a \in ToSet(Arms(s)) : Inhabits(a, v)
    ELSE /\ checkType(s, v)
         /\ s.enum # {} => v \in s.enum
         /\ v.k = "object" => /\ s.req \subseteq DOMAIN v.m
                              /\ \A p \in DOMAIN v.m :
                                    IF p \in DOMAIN s.props THEN Inhabits(s.props[p], v.m[p])
                                    ELSE s.addl # <<>> => Inhabits(s.addl[1], v.m[p])
         /\ v.k = "array" => /\ Within(s.lim, "minItems", "maxItems", Len(v.e))
                             /\ s.items # <<>> => \A x \in ToSet(v.e) : Inhabits(s.items[1], x)
         /\ checkScalar(s, v)

(***************************************************************************)
(* The cases where the code's static answer and its conform are known to   *)
(* disagree (README, known divergences), so that everything else is        *)
(* checked: a reference compared with its own unfolding, overlapping arms  *)
(* of a oneOf, null under an enum that does not list it, a property that   *)
(* one version defaulted and nobody filled, a property only super names    *)
(* under an open map, and, for a filled slot, a required property that the *)
(* conform sets to null, and a choice of objects.                          *)
(***************************************************************************)
RECURSIVE Known(_, _, _, _)

KnownOfObject(sub, super, v, filling) ==
    LET under(s, p) == IF p \in DOMAIN s.props THEN <<s.props[p]>> ELSE s.addl
        missing == DOMAIN sub.props \ DOMAIN v.m
    IN  \/ \E p \in missing : propDefault(sub.props[p], Pool) # <<>>
        \/ filling /\ \E p \in missing \cap super.req : ~hasNullResolved(sub.props[p], Pool)
        \/ (DOMAIN v.m \cap DOMAIN super.props) \ DOMAIN sub.props # {}
        \/ \E p \in DOMAIN v.m : \E s \in ToSet(under(sub, p)), t \in ToSet(under(super, p)) : Known(s, t, v.m[p], filling)

Known(sub0, super0, v, filling) ==
    LET sub == deref(sub0, Pool)[1]
        super == deref(super0, Pool)[1]
        fitting == {i \in DOMAIN super.oneOf : Validate(super.oneOf[i], Pool, v, Exactly) # Fail}
        plain == Arms(sub) \o Arms(super) = <<>>
    IN  \/ sub0.ref # "" /\ super0.ref = ""
        \/ filling /\ DOMAIN super.props # {} /\ Len(Arms(stripNull(sub))) > 1
        \/ Cardinality(fitting) > 1
        \/ v = Null /\ super.enum # {}
        \/ \E a \in ToSet(Arms(sub)) : Inhabits(a, v) /\ Known(a, super, v, filling)
        \/ \E a \in ToSet(Arms(super)) : Known(sub, a, v, filling)
        \/ v.k = "object" /\ plain /\ KnownOfObject(sub, super, v, filling)
        \/ v.k = "array" /\ plain /\
             \E s \in ToSet(sub.items), t \in ToSet(super.items), x \in ToSet(v.e) : Known(s, t, x, filling)

(***************************************************************************)
(* The operations.  <<>> where the static answer is no; otherwise the type *)
(* the slot then has, its value (<<>> where the promise was broken), and   *)
(* whether the case is a known one.                                        *)
(***************************************************************************)
Promised(t, v, known) == <<[type |-> t, val |-> v, known |-> known]>>

\* ValidateInput: a document outside the schema is refused and nothing is stored.
create(s, doc) ==
    LET v == Validate(s, Pool, doc, Strict)
    IN  IF v = Fail THEN <<>> ELSE Promised(s, v, FALSE)

\* Compare says the stored value can go on under s, then MigrateState conforms it.
upgrade(t, s, v) ==
    LET carried == Validate(s, Pool, v, Exactly)
    IN  IF ~subsetWith(t, Pool, s, Pool, storedMode) THEN <<>> ELSE Promised(s, carried, Known(t, s, v, FALSE))

\* A declared slot: the inferred type must conform exactly, the value is then filled.
fill(t, s, v) ==
    LET filled == Validate(s, Pool, v, Exactly)
    IN  IF ~subsetWith(t, Pool, s, Pool, conformsExactlyMode) THEN <<>>
        ELSE Promised(Conformed(t, Pool, s, Pool), filled, Known(t, s, v, TRUE))

Scope(t) == [Type({"object"}) EXCEPT !.props = [n \in {"input"} |-> t], !.req = {"input"}]

\* A shape typed against the slot and evaluated on its value.
compute(t, e, v) ==
    LET of == InferNode(e, Scope(t), Pool, <<>>)
    IN  IF of = Fail THEN <<>> ELSE Promised(of[1], evalNode(e, [n \in {"input"} |-> v]), Known(t, t, v, FALSE))
=============================================================================
