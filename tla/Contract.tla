------------------------------ MODULE Contract ------------------------------
(***************************************************************************)
(* What a task's action may hand back, as registration sees it             *)
(* (internal/validation/responses.go and the result types of infer.go and  *)
(* generate.go): the type of self.result, and the type of error.data       *)
(* inside an on_error rule and on entry to the tasks the rules lead to.    *)
(* A type that may be missing is <<>> or <<type>>.                         *)
(***************************************************************************)
EXTENDS Definition

PatternName(p) == IF p < 10 THEN ToString(p) \o "xx" ELSE ToString(p)

ParsePattern(name) == CHOOSE p \in 1..5 \cup statusSpace : PatternName(p) = name

(***************************************************************************)
(* The accepted set: Fail when only the run can tell.                      *)
(***************************************************************************)
staticAcceptedStatus(a) ==
    IF ~Set(a.accepted_status) THEN Ok({})
    ELSE LET n == a.accepted_status[1] IN
         IF n.op = "array" /\ \A el \in ToSet(n.items) : el.op = "lit"
         THEN Ok({ParsePattern(el.v.s) : el \in ToSet(n.items)}) ELSE Fail

acceptedPatterns(a) ==
    LET explicit == staticAcceptedStatus(a)
        effective == EffectiveAcceptedStatus(a, explicit[1])
    IN  IF explicit = Fail THEN Fail ELSE Ok(IF effective # {} THEN effective ELSE {2})

\* A status a dynamic set may accept counts on both channels.
isAccepted(code, accepted) == accepted = Fail \/ MatchAnyStatus(code, accepted[1])
isAcceptedStrict(code, accepted) == accepted # Fail /\ MatchAnyStatus(code, accepted[1])

anyStatusMatching(patterns, codes) == \E code \in codes, p \in patterns : MatchStatusPattern(p, code)

undeclared(a, codes) == \E code \in codes : ResponseFor(a, code) = <<>>

\* One body stays itself; only two bodies need anyOf.
combineErrData(arms, nullable) ==
    IF arms = <<>> THEN <<>>
    ELSE IF Len(arms) = 1 THEN <<IF nullable THEN withNull(arms[1]) ELSE arms[1]>>
    ELSE <<AnyOf(IF nullable THEN Append(arms, NullType) ELSE arms)>>

\* The bodies declared under these `responses` keys, and whether one is declared to be absent.
bodies(a, keys) ==
    LET slots == {a.responses[k] : k \in keys}
    IN  [arms |-> SetToSeq({s[1] : s \in slots \ {<<>>}}), absent |-> <<>> \in slots]

fetchResultType(a) ==
    LET accepted == acceptedPatterns(a)
        can == {code \in statusSpace : isAccepted(code, accepted)}
        keys == {k \in DOMAIN a.responses : anyStatusMatching(k, can)}
        b == bodies(a, keys)
        nullable == b.absent \/ accepted = Fail \/ undeclared(a, can)
    IN  IF keys = {} THEN <<>>
        ELSE IF b.arms = <<>> THEN <<NullType>> ELSE combineErrData(b.arms, nullable)

(***************************************************************************)
(* error.data: what one rule can catch.                                    *)
(***************************************************************************)
ruleCatches(rule, code) == rule.code = {} \/ \E p \in rule.code : MatchCode(p, code)

nonStatusProbes ==
    {HTTPTimeout, PreTimeout, PreError, ResultParse, ResultTooLarge, ResultInvalid, OnlyOnceInterrupted}

Nothing == [arms |-> <<>>, nullable |-> TRUE]

\* The schemas each code was declared with: one by a single action, one per entry by a map.
declaredRaises(a) ==
    LET lists == IF a.type \in {"child", "child_list", "external"} THEN <<a.raises>>
                 ELSE IF a.type = "child_map" THEN [k \in DOMAIN a.children |-> a.children[k].raises]
                 ELSE <<>>
    IN  [c \in UNION {DOMAIN lists[i] : i \in DOMAIN lists} |->
            [slots |-> {lists[i][c] : i \in {i \in DOMAIN lists : c \in DOMAIN lists[i]}},
             partial |-> \E i \in DOMAIN lists : c \notin DOMAIN lists[i]]]

reachesUndeclaredCode(rule, decl) ==
    rule.code = {} \/ \E p \in rule.code : "%" \in ToSet(p) \/ p \notin DOMAIN decl

childRuleErrorData(a, rule) ==
    LET decl == declaredRaises(a)
        caught == {c \in DOMAIN decl : ruleCatches(rule, c)}
        slots == UNION {decl[c].slots : c \in caught}
    IN  IF decl = <<>> THEN Nothing
        ELSE [arms |-> SetToSeq({s[1] : s \in slots \ {<<>>}}),
              nullable |-> \/ reachesUndeclaredCode(rule, decl)
                           \/ <<>> \in slots
                           \/ \E c \in caught : decl[c].partial]

fetchRuleErrorData(a, rule) ==
    LET accepted == acceptedPatterns(a)
        caught == {code \in statusSpace : ~isAcceptedStrict(code, accepted) /\ ruleCatches(rule, HTTP(code))}
        b == bodies(a, {k \in DOMAIN a.responses : anyStatusMatching(k, caught)})
    IN  [arms |-> b.arms,
         nullable |-> \/ b.absent
                      \/ undeclared(a, caught)
                      \/ \E probe \in nonStatusProbes : ruleCatches(rule, probe)]

ruleErrorData(t, rule) ==
    IF ~Set(t.action) THEN Nothing
    ELSE IF t.action[1].type # "fetch" THEN childRuleErrorData(t.action[1], rule)
    ELSE IF t.action[1].responses = <<>> THEN Nothing ELSE fetchRuleErrorData(t.action[1], rule)

(***************************************************************************)
(* errAt is the error in scope: surely there, possibly there, its data.    *)
(***************************************************************************)
errAt(must, may, data) == [must |-> must, may |-> may, data |-> data]

ruleErrAt(t, rule) ==
    LET e == ruleErrorData(t, rule) IN errAt(TRUE, FALSE, combineErrData(e.arms, e.nullable))

\* The rules that can have led here, as pairs of a task's and a rule's position.
errorDataSchema(d, srcs) ==
    LET per == SetToSeq({ruleErrorData(d.tasks[s[1]], d.tasks[s[1]].onError[s[2]]) : s \in srcs})
        arms == FoldLeft(LAMBDA all, e : all \o e.arms, <<>>, per)
    IN  combineErrData(arms, \E e \in ToSet(per) : e.nullable)

(***************************************************************************)
(* self.result, where a declaration types it.                              *)
(***************************************************************************)
ObjectOf(props) == [Type({"object"}) EXCEPT !.props = props, !.req = DOMAIN props]

childMapOutputSchema(a) ==
    LET typed == {k \in DOMAIN a.children : Set(a.children[k].result_schema)}
    IN  IF typed = {} THEN <<>> ELSE <<ObjectOf([k \in typed |-> a.children[k].result_schema[1]])>>

childListOutputSchema(a) == IF Set(a.result_schema) THEN <<Array(a.result_schema[1])>> ELSE <<>>

actionResultType(t) ==
    IF ~Set(t.action) THEN <<>>
    ELSE LET a == t.action[1] IN
         CASE a.type = "child_map" -> childMapOutputSchema(a)
           [] a.type = "child_list" -> childListOutputSchema(a)
           [] a.type = "delay" -> <<>>
           [] a.type = "fetch" -> fetchResultType(a)
           [] OTHER -> a.result_schema

withFetchMeta(self, t) ==
    IF actionTypeOf(t) # "fetch" THEN self
    ELSE WithProperty(WithProperty(self, "status", Type({"integer"}), TRUE),
                      "headers", Map(Type({"string"})), TRUE)

=============================================================================
