----------------------------- MODULE Definition -----------------------------
(***************************************************************************)
(* A process definition and the checks that need nothing but its document  *)
(* (internal/model, internal/errcode, internal/schema/checkdoc.go).        *)
(*                                                                         *)
(* A slot that may be left out is <<>> or <<x>>.  A templated slot is an   *)
(* expression (Expr.tla).  A fault code is the sequence of its segments,   *)
(* one segment for a code an author may give; a pattern is a code in which *)
(* "%" stands for any run of segments.  A status pattern is a status or    *)
(* its hundreds digit ("4xx").                                             *)
(***************************************************************************)
EXTENDS Infer

CONSTANT Lib   \* process name -> version -> definition: the documents offered

statusSpace == 100..599

Set(slot) == slot # <<>>
FieldOr(m, p, other) == IF p \in DOMAIN m THEN m[p] ELSE other

(***************************************************************************)
(* Fault codes.                                                            *)
(***************************************************************************)
HTTPTimeout == <<"http", "timeout">>
HTTPDisconnected == <<"http", "disconnected">>
PreTimeout == <<"pre", "timeout">>
PreError == <<"pre", "error">>
ResultParse == <<"result", "parse">>
ResultTooLarge == <<"result", "too_large">>
ResultInvalid == <<"result", "invalid">>
ExternalTimeout == <<"external", "timeout">>
ExternalLost == <<"external", "lost">>
OnlyOnceInterrupted == <<"only_once", "interrupted">>
HTTP(status) == <<"http", ToString(status \div 100), ToString(status % 100)>>
Engine(what) == <<"engine", what>>

catchable ==
    [fetch |-> {HTTPTimeout, HTTPDisconnected, PreTimeout, PreError, ResultParse, ResultTooLarge, ResultInvalid},
     child |-> {ResultInvalid},
     external |-> {ExternalTimeout, ExternalLost},
     only_once |-> {OnlyOnceInterrupted}]

IsNotReached(code) == code[1] = "pre"

IsUnknowable(code) ==
    code \in {OnlyOnceInterrupted, HTTPTimeout, HTTPDisconnected, ExternalTimeout, ExternalLost}

RECURSIVE MatchCode(_, _)
MatchCode(p, s) ==
    IF p = <<>> THEN s = <<>>
    ELSE IF Head(p) = "%" THEN \E i \in 0..Len(s) : MatchCode(Tail(p), SubSeq(s, i + 1, Len(s)))
    ELSE s # <<>> /\ Head(p) = Head(s) /\ MatchCode(Tail(p), Tail(s))

matchesAnyCode(pattern, probe) == \E c \in probe : MatchCode(pattern, c)

(***************************************************************************)
(* Status patterns.                                                        *)
(***************************************************************************)
MatchStatusPattern(p, code) == p = code \/ p = code \div 100

MatchAnyStatus(code, patterns) ==
    IF patterns = {} THEN code \in 200..299 ELSE \E p \in patterns : MatchStatusPattern(p, code)

IsSuccessPattern(p) == p = 2 \/ p \in 200..299

\* A `responses` key is a set of patterns; the exact status wins over its range.
ResponseFor(a, code) ==
    LET for(p) == {k \in DOMAIN a.responses : p \in k}
        at == IF for(code) # {} THEN for(code) ELSE for(code \div 100)
    IN  IF at = {} THEN <<>> ELSE <<a.responses[CHOOSE k \in at : TRUE]>>

SuccessPatterns(a) == {p \in UNION DOMAIN a.responses : IsSuccessPattern(p)}

EffectiveAcceptedStatus(a, resolved) == IF resolved # {} THEN resolved ELSE SuccessPatterns(a)

(***************************************************************************)
(* Routing.  An on_error goto is decoded to the bare id.                   *)
(***************************************************************************)
GotoEnd == <<"end">>
GotoNext == <<"next">>
To(id) == <<"$", id>>

decodeGoto(g) == IF Len(g) = 2 THEN <<g[2]>> ELSE g

taskIDs(d) == {t.id : t \in ToSet(d.tasks)}

taskIndex(d, id) == CHOOSE i \in DOMAIN d.tasks : d.tasks[i].id = id

taskNamed(d, id) == d.tasks[taskIndex(d, id)]

\* Of a row: its definition, and the task it stands at.
def(st) == Lib[st.name][st.version]
taskOf(st) == taskNamed(def(st), st.task)

actionTypeOf(t) == IF Set(t.action) THEN t.action[1].type ELSE ""

isChildTask(t) == actionTypeOf(t) \in {"child", "child_map", "child_list"}

taskHasOutput(t) == Set(t.output)

Faults(slot, t) == UNION {ToSet(c[slot]) : c \in ToSet(t.switch) \cup ToSet(t.onError)}

\* The codes the process can end raised with.
Raises(d) == {f.code : f \in UNION {Faults("raise", t) : t \in ToSet(d.tasks)}}

(***************************************************************************)
(* Schema documents (checkdoc.go): references resolve, a default fits and  *)
(* is not on a required property, a definition cannot be made of itself    *)
(* without passing through a property or an item.                          *)
(***************************************************************************)
Nested(s) == Range(s.props) \cup ToSet(s.addl) \cup ToSet(s.items)
Bare(s) == ToSet(s.oneOf) \cup ToSet(s.anyOf) \cup ToSet(s.allOf)

RECURSIVE collectBareRefs(_)
collectBareRefs(s) == ({s.ref} \ {""}) \cup UNION {collectBareRefs(v) : v \in Bare(s)}

\* Every set of definitions has one that refers to none of the set barely.
checkProductivity(defs) ==
    \A ns \in (SUBSET DOMAIN defs) \ {{}} : \E n \in ns : collectBareRefs(defs[n]) \cap ns = {}

RECURSIVE checkDoc(_, _)
checkDoc(s, defs) ==
    /\ s.ref # "" => s.ref \in DOMAIN defs
    /\ \A b \in {<<"minimum", "maximum">>, <<"minLength", "maxLength">>, <<"minItems", "maxItems">>} :
          ToSet(b) \subseteq DOMAIN s.lim => s.lim[b[1]] <= s.lim[b[2]]
    /\ Set(s.dflt) => Validate([s EXCEPT !.dflt = <<>>], defs, s.dflt[1], Strict) # Fail
    /\ \A p \in DOMAIN s.props \cap s.req : ~Set(s.props[p].dflt)
    /\ \A c \in Nested(s) \cup Bare(s) : checkDoc(c, defs)

checkSchemaDoc(slot, defs) == \A s \in ToSet(slot) : checkDoc(s, defs) /\ checkProductivity(defs)

RECURSIVE CheckNoAdditionalProperties(_)
CheckNoAdditionalProperties(s) ==
    s.addl = <<>> /\ \A c \in Nested(s) \cup Bare(s) : CheckNoAdditionalProperties(c)

checkDeclaredSlotSchema(slot, defs) ==
    checkSchemaDoc(slot, defs) /\ \A s \in ToSet(slot) : CheckNoAdditionalProperties(s)

\* Configuration is a flat object of single scalars.
validateConfigSchema(slot) ==
    \A cs \in ToSet(slot) :
        /\ cs.type = {"object"} /\ Bare(cs) = {} /\ cs.ref = ""
        /\ cs.req \subseteq DOMAIN cs.props
        /\ \A p \in Range(cs.props) :
              /\ Cardinality(p.type) = 1
              /\ p.type \subseteq {"string", "integer", "number", "boolean"}
              /\ Nested(p) \cup Bare(p) = {} /\ p.ref = ""

(***************************************************************************)
(* Which slots an action has, and which it must have.                      *)
(***************************************************************************)
slotOwners ==
    [name |-> {"child", "child_list"}, version |-> {"child", "child_list"}, input |-> {"child", "external"},
     children |-> {"child_map"}, over |-> {"child_list"},
     result_schema |-> {"child", "child_list", "external"},
     input_schema |-> {"child", "child_list", "external"},
     raises |-> {"child", "child_list", "external"},
     url |-> {"fetch"}, method |-> {"fetch"}, headers |-> {"fetch"}, query |-> {"fetch"},
     accepted_status |-> {"fetch"}, body_schema |-> {"fetch"}, query_schema |-> {"fetch"},
     responses |-> {"fetch"}, for |-> {"delay"}, until |-> {"delay"}, timeout |-> {"fetch", "external"}]

validateSlots(a) == \A slot \in DOMAIN slotOwners : a[slot] # <<>> => a.type \in slotOwners[slot]

staticMethod(slot) == Set(slot) /\ slot[1].op = "lit"

validateActionRequiredFields(a) ==
    CASE a.type = "fetch" -> /\ Set(a.url) /\ Set(a.method)
                             /\ ~(staticMethod(a.method) /\ a.method[1].v.s \in {"GET", "HEAD"} /\ Set(a.body))
      [] a.type = "child_map" -> a.children # <<>>
      [] a.type = "child" -> Set(a.name)
      [] a.type = "child_list" -> Set(a.name) /\ Set(a.over)
      [] a.type = "delay" -> Set(a.for) # Set(a.until)
      [] a.type = "external" -> TRUE

validateTimeout(a) == \A t \in ToSet(a.timeout) : a.type = "fetch" => ~Set(t.until)

\* A status is declared once, and one key never mixes success with failure.
validateResponses(a, defs) ==
    \A k \in DOMAIN a.responses :
        /\ \A p \in k, q \in k : IsSuccessPattern(p) = IsSuccessPattern(q)
        /\ \A l \in DOMAIN a.responses \ {k} : k \cap l = {}
        /\ checkSchemaDoc(a.responses[k], defs)

\* `raises` maps an authored code to the schema of its data, or to <<>> for none.
checkRaisesDoc(raises, defs) ==
    \A c \in DOMAIN raises : Len(c) = 1 /\ checkSchemaDoc(raises[c], defs)

validateActionSchemas(a, defs) ==
    /\ checkSchemaDoc(a.result_schema, defs)
    /\ \A slot \in {"body_schema", "query_schema", "input_schema"} : checkDeclaredSlotSchema(a[slot], defs)
    /\ checkRaisesDoc(a.raises, defs)
    /\ \A e \in Range(a.children) :
          /\ checkSchemaDoc(e.result_schema, defs)
          /\ checkDeclaredSlotSchema(e.input_schema, defs)
          /\ checkRaisesDoc(e.raises, defs)

(***************************************************************************)
(* Faults, retries, the switch and the error rules.                        *)
(***************************************************************************)
validateFault(slot) == \A f \in ToSet(slot) : Len(f.code) = 1 /\ f.code # <<"%">> /\ Set(f.message)

NoRetry == [retries |-> <<>>, delay |-> <<>>, factor |-> <<>>, max_delay |-> <<>>]

IsExpr(slot) == Set(slot) /\ slot[1].op # "lit"

\* A literal in halves, as every number; 0 when the slot is absent or computed.
Literal(slot) == IF ~Set(slot) \/ IsExpr(slot) THEN 0 ELSE slot[1].v.n

Retries(r) == IsExpr(r.retries) \/ Literal(r.retries) > 0

validateRetry(r) ==
    r # NoRetry =>
        /\ Retries(r)
        /\ Literal(r.factor) # 0 => Literal(r.factor) >= 2
        /\ (Literal(r.delay) > 0 /\ Literal(r.max_delay) > 0) => Literal(r.max_delay) >= Literal(r.delay)

Outcomes(c) == {k \in {"goto", "raise", "panic"} : Set(c[k])}

validateSwitch(t, d) ==
    LET last == Len(t.switch) IN
    /\ t.switch # <<>>
    /\ \A i \in DOMAIN t.switch :
          LET c == t.switch[i] IN
          /\ Set(c.case) = (i # last)
          /\ Cardinality(Outcomes(c)) = 1
          /\ validateFault(c.raise) /\ validateFault(c.panic)
          /\ c.goto = GotoNext => t # d.tasks[Len(d.tasks)]
          /\ Len(c.goto) = 2 => c.goto[2] \in taskIDs(d)
          /\ Len(c.goto) = 1 => c.goto \in {GotoEnd, GotoNext}

CatchableKinds(t) ==
    IF isChildTask(t) THEN {"child"}
    ELSE IF actionTypeOf(t) \in {"fetch", "external"} THEN {actionTypeOf(t), "only_once"} ELSE {}

catchableVocabulary(t) ==
    LET kinds == CatchableKinds(t) IN
    UNION {catchable[k] : k \in kinds}
        \cup {HTTP(s) : s \in {s \in statusSpace : "fetch" \in kinds}}
        \cup (IF "external" \in kinds THEN DOMAIN t.action[1].raises ELSE {})

\* The raise lists of the children a task starts.
childRaises(a) == IF a.type = "child_map" THEN {e.raises : e \in Range(a.children)} ELSE {a.raises}

\* The codes a child task's rules may name; nothing unless every child declares its raises.
declaredCatchList(a) ==
    IF \E r \in childRaises(a) : r = <<>> THEN {} ELSE UNION {DOMAIN r : r \in childRaises(a)}

patternOnlyMatchesPre(p) == p[1] = "pre" /\ Len(p) > 1

\* On an only_once task an attempt is repeated only after a failure that cannot have reached.
onlyOnceRetry(ec) ==
    /\ ec.code # {}
    /\ \A p \in ec.code :
          /\ ~IsUnknowable(p)
          /\ patternOnlyMatchesPre(p) \/ (ec.notReached = <<TRUE>> /\ "%" \notin ToSet(p))

validateOnError(t, d) ==
    LET child == isChildTask(t)
        declared == IF child THEN declaredCatchList(t.action[1]) ELSE {}
        probe == IF ~child THEN catchableVocabulary(t)
                 ELSE IF declared = {} THEN {} ELSE declared \cup {ResultInvalid}
    IN  /\ (t.onError # <<>> /\ ~child) => probe # {}
        /\ \A i \in DOMAIN t.onError :
              LET ec == t.onError[i] IN
              /\ Cardinality(Outcomes(ec)) <= 1
              /\ validateFault(ec.raise) /\ validateFault(ec.panic)
              /\ \A p \in ec.code : p # <<>> /\ (probe # {} => matchesAnyCode(p, probe))
              /\ (ec.code = {} /\ ~Set(ec.case)) => i = Len(t.onError)
              /\ (Set(ec.goto) /\ ec.goto # GotoEnd) => ec.goto[1] \in taskIDs(d)
              /\ IF child
                 THEN ~Set(ec.notReached) /\ (t.onlyOnce => ec.retry = NoRetry)
                 ELSE validateRetry(ec.retry) /\ ((t.onlyOnce /\ Retries(ec.retry)) => onlyOnceRetry(ec))

validateTask(t, d) ==
    /\ \A a \in ToSet(t.action) :
          /\ validateActionRequiredFields(a)
          /\ validateTimeout(a)
          /\ validateSlots(a)
          /\ validateResponses(a, d.defs)
          /\ validateActionSchemas(a, d.defs)
    /\ validateSwitch(t, d)
    /\ validateOnError(t, d)
    /\ checkDeclaredSlotSchema(t.outputSchema, d.defs)

\* A code is raised or panicked, never both.
validateFaultCodeKinds(d) ==
    Raises(d) \cap {f.code : f \in UNION {Faults("panic", t) : t \in ToSet(d.tasks)}} = {}

ValidateDefinition(d) ==
    /\ \A n \in DOMAIN d.defs : checkSchemaDoc(<<d.defs[n]>>, d.defs)
    /\ checkSchemaDoc(d.input, d.defs)
    /\ checkSchemaDoc(d.config, NoDefs) /\ validateConfigSchema(d.config)
    /\ checkDeclaredSlotSchema(d.outputSchema, d.defs)
    /\ \A i, j \in DOMAIN d.tasks : d.tasks[i].id = d.tasks[j].id => i = j
    /\ \A t \in ToSet(d.tasks) : validateTask(t, d)
    /\ validateFaultCodeKinds(d)

=============================================================================
