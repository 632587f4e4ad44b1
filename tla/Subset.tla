------------------------------- MODULE Subset -------------------------------
(***************************************************************************)
(* The subset relation of internal/schema/subset.go in its modes, and what *)
(* a value's type becomes once the value was conformed to a declaration    *)
(* (conformed.go).  The relation is asked at registration and at an        *)
(* upgrade; the conform it promises runs later, on a value.                *)
(***************************************************************************)
EXTENDS Schema

CONSTANT conformedDepth   \* bound: how deep Conformed looks (32 in the code)

ASSUME ConformedDepthAssumption == conformedDepth \in Nat

(***************************************************************************)
(* The modes: `narrow` accepts an unknown anywhere, `absentAsNull` lets    *)
(* super require a nullable property sub may lack, `afterConform` counts a *)
(* property sub defaults as present, `nullRemoval` lets super take an      *)
(* optional property without the null sub may hold, `closed` refuses a key *)
(* a closed super would strip.                                             *)
(***************************************************************************)
subsetMode == {"narrow", "absentAsNull", "afterConform", "nullRemoval", "closed"}
strictMode == {}
absentAsNullMode == {"absentAsNull"}
storedMode == {"absentAsNull", "afterConform", "nullRemoval"}
conformsExactlyMode == {"absentAsNull", "nullRemoval", "closed"}
narrowMode == {"narrow"}

typeAllowed(t, super) == t \in super \/ (t = "integer" /\ "number" \in super)

\* The sides are normalized first, so that no definition is itself a bare reference.
derefSubset(s, defs) == LET r == deref(s, defs) IN IF r = Fail THEN s ELSE r[1]

guaranteed(mode, s, defs) ==
    s.req \cup {p \in DOMAIN s.props : "afterConform" \in mode /\ propDefault(s.props[p], defs) # <<>>}

\* Mutant: a bound sub does not set is not compared.
BoundsFit_unset(sub, super) ==
    \A b \in DOMAIN super \cap DOMAIN sub :
        IF b \in {"minimum", "minLength", "minItems"} THEN sub[b] >= super[b] ELSE sub[b] <= super[b]

\* A bound super sets must be set by sub and be no looser.
BoundsFit(sub, super) ==
    \A b \in DOMAIN super :
        /\ b \in DOMAIN sub
        /\ IF b \in {"minimum", "minLength", "minItems"} THEN sub[b] >= super[b] ELSE sub[b] <= super[b]

checkEnum(sub, super) == super.enum # {} => (sub.enum # {} /\ sub.enum \subseteq super.enum)

\* c holds the mode and the two pools the references of each side resolve in.
RECURSIVE check(_, _, _, _)

checkClosed(sub, super) ==
    /\ DOMAIN sub.props \subseteq DOMAIN super.props \cup super.req
    /\ sub.addl = <<>>

checkObject(c, sub, super, visiting) ==
    LET declared == DOMAIN super.props
        nullable(s, defs) == hasNullResolved(s, defs)
    IN  /\ \A f \in super.req \ guaranteed(c.mode, sub, c.subDefs) :
              /\ "absentAsNull" \in c.mode
              /\ f \in declared
              /\ nullable(super.props[f], c.superDefs)
        /\ \A p \in declared \cap DOMAIN sub.props :
              \/ check(c, sub.props[p], super.props[p], visiting)
              \/ /\ "nullRemoval" \in c.mode
                 /\ p \notin super.req
                 /\ nullable(sub.props[p], c.subDefs)
                 /\ check(c, stripNull(sub.props[p]), super.props[p], visiting)
        /\ super.addl # <<>> =>
              /\ \A p \in DOMAIN sub.props \ declared : check(c, sub.props[p], super.addl[1], visiting)
              /\ sub.addl # <<>> => check(c, sub.addl[1], super.addl[1], visiting)
        /\ ("closed" \in c.mode /\ super.addl = <<>>) => checkClosed(sub, super)

isProvablyEmpty(s) == "maxItems" \in DOMAIN s.lim /\ s.lim["maxItems"] = 0

checkArray(c, sub, super, visiting) ==
    \/ isProvablyEmpty(sub)
    \/ sub.items # <<>> /\ check(c, sub.items[1], super.items[1], visiting)

\* Neither side is a reference, a union or unknown.
checkPlain(c, sub, super, visiting) ==
    /\ super.type # {} => (sub.type # {} /\ \A t \in sub.type : typeAllowed(t, super.type))
    /\ (super.props # <<>> \/ super.req # {} \/ super.addl # <<>>) => checkObject(c, sub, super, visiting)
    /\ super.items # <<>> => checkArray(c, sub, super, visiting)
    /\ BoundsFit(sub.lim, super.lim)
    /\ checkEnum(sub, super)

check(c, sub0, super0, visiting0) ==
    LET pair == <<sub0.ref, super0.ref>>
        visiting == IF pair = <<"", "">> THEN visiting0 ELSE visiting0 \cup {pair}
        sub == derefSubset(sub0, c.subDefs)
        super == derefSubset(super0, c.superDefs)
        fits(s, t) == check(c, s, t, visiting)
    IN  \/ pair \in visiting0
        \/ /\ super.ref = ""
           /\ \/ isEmptyNode(super)
              \/ \E v \in ToSet(super.anyOf) : isEmptyNode(derefSubset(v, c.superDefs))
              \/ isEmptyNode(sub) /\ "narrow" \in c.mode
              \/ /\ ~isEmptyNode(sub)
                 /\ IF Arms(sub) # <<>> THEN \A v \in ToSet(Arms(sub)) : fits(v, super)
                    ELSE IF sub.allOf # <<>> THEN \E v \in ToSet(sub.allOf) : fits(v, super)
                    ELSE IF Arms(super) # <<>> THEN \E v \in ToSet(Arms(super)) : fits(sub, v)
                    ELSE IF super.allOf # <<>> THEN \A v \in ToSet(super.allOf) : fits(sub, v)
                    ELSE checkPlain(c, sub, super, visiting)

subsetWith(sub, subDefs, super, superDefs, mode) ==
    check([mode |-> mode, subDefs |-> subDefs, superDefs |-> superDefs], sub, super, {})

(***************************************************************************)
(* What LEAVES a declared slot: the inferred type, changed only where the  *)
(* fill changes the value.                                                 *)
(***************************************************************************)
hasObjectArm(s) == \E v \in ToSet(s.anyOf) \cup ToSet(s.oneOf) : v.props # <<>>

RECURSIVE conformedNode(_, _, _, _, _)

conformedObject(inf, infDefs, dec, decDefs, depth) ==
    LET r == deref(stripNullIn(inf, infDefs, {}), infDefs)
        base == r[1]
        written == {p \in DOMAIN dec.props \cap dec.req : hasNullResolved(dec.props[p], decDefs)}
        removed == {p \in DOMAIN base.props \cap DOMAIN dec.props :
                       /\ hasNullResolved(base.props[p], infDefs)
                       /\ ~hasNullResolved(dec.props[p], decDefs)
                       /\ p \notin dec.req}
        filled(p) == conformedNode(base.props[p], infDefs, dec.props[p], decDefs, depth - 1)
        prop(p) == IF p \notin DOMAIN base.props THEN NullType
                   ELSE IF p \notin DOMAIN dec.props THEN base.props[p]
                   ELSE IF p \in removed THEN stripNullIn(filled(p), infDefs, {})
                   ELSE filled(p)
        out == [base EXCEPT !.props = [p \in DOMAIN base.props \cup written |-> prop(p)],
                            !.req = ((@ \cap DOMAIN base.props) \ removed) \cup written]
    IN  IF r = Fail THEN inf
        ELSE IF hasNullResolved(inf, infDefs) THEN withNull(out) ELSE out

conformedNode(inf, infDefs, dec, decDefs, depth) ==
    LET d == deref(dec, decDefs)
        i == deref(inf, infDefs)
    IN  IF depth = 0 \/ d = Fail \/ i = Fail THEN inf
        ELSE IF d[1].props # <<>> /\ (i[1].props # <<>> \/ hasObjectArm(i[1]))
          THEN conformedObject(i[1], infDefs, d[1], decDefs, depth)
        ELSE IF d[1].items # <<>> /\ i[1].items # <<>>
          THEN [i[1] EXCEPT !.items = <<conformedNode(@[1], infDefs, d[1].items[1], decDefs, depth - 1)>>]
        ELSE inf

Conformed(s, sDefs, declared, dDefs) == conformedNode(s, sDefs, declared, dDefs, conformedDepth)

=============================================================================
