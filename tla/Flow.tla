-------------------------------- MODULE Flow --------------------------------
(***************************************************************************)
(* What a slot of a task may read (internal/validation/context.go,         *)
(* guards.go, scope.go and the context types of infer.go): which outputs   *)
(* have surely or possibly been written when control reaches a task, which *)
(* failure led there, and what the conditions on the way have proved.      *)
(*                                                                         *)
(* A definition's scopes `sc` hold the definition, the pool of types, the  *)
(* entry sets per task id, the error per task id and the refinements.      *)
(***************************************************************************)
EXTENDS Contract

OutputName(id) == id \o "_output"

(***************************************************************************)
(* Edges.  `from` is the position of the predecessor, 0 at the start; `by` *)
(* the position of the switch case or of the error rule that takes it.     *)
(***************************************************************************)
Edge(from, isErr, by) == [from |-> from, isErr |-> isErr, by |-> by]

buildPreds(d) ==
    LET n == Len(d.tasks)
        caseTo(i, k) == LET g == d.tasks[i].switch[k].goto IN
                        IF Len(g) = 2 THEN {taskIndex(d, g[2])}
                        ELSE IF g = GotoNext THEN {i + 1} \cap 1..n ELSE {}
        ruleTo(i, r) == LET g == d.tasks[i].onError[r].goto IN
                        IF Set(g) /\ g # GotoEnd THEN {taskIndex(d, g[1])} ELSE {}
    IN  [j \in 1..n |->
            {Edge(0, FALSE, 0) : z \in {1} \cap {j}}
            \cup UNION {{Edge(i, FALSE, k) : k \in {k \in DOMAIN d.tasks[i].switch : j \in caseTo(i, k)}} : i \in 1..n}
            \cup UNION {{Edge(i, TRUE, r) : r \in {r \in DOMAIN d.tasks[i].onError : j \in ruleTo(i, r)}} : i \in 1..n}]

checkReachability(d) ==
    LET preds == buildPreds(d)
        RECURSIVE grow(_)
        grow(seen) == LET more == seen \cup {j \in DOMAIN preds : \E p \in preds[j] : p.from \in seen}
                      IN  IF more = seen THEN seen ELSE grow(more)
    IN  grow({0}) = 0..Len(d.tasks)

(***************************************************************************)
(* The outputs available on entry: on every path (`must`), on some path.   *)
(***************************************************************************)
availability_kept(d, must) ==
    LET preds == buildPreds(d)
        own(i) == {d.tasks[i].id}
        carried(outs, p) == IF p.from = 0 THEN {} ELSE outs[p.from]
        meet(sets) == IF sets = {} \/ ~must THEN UNION sets ELSE {x \in UNION sets : \A s \in sets : x \in s}
        ins(outs) == [i \in DOMAIN preds |-> meet({carried(outs, p) : p \in preds[i]})]
        RECURSIVE settle(_)
        settle(outs) ==
            LET next == [i \in DOMAIN preds |->
                            ins(outs)[i] \cup (IF taskHasOutput(d.tasks[i]) THEN own(i) ELSE {})]
            IN  IF next = outs THEN ins(outs) ELSE settle(next)
    IN  settle([i \in DOMAIN preds |-> IF must THEN taskIDs(d) ELSE {}])

availability(d, must) ==
    LET preds == buildPreds(d)
        own(i) == {d.tasks[i].id}
        carried(outs, p) == IF p.from = 0 THEN {} ELSE IF p.isErr THEN outs[p.from] \ own(p.from) ELSE outs[p.from]
        meet(sets) == IF sets = {} \/ ~must THEN UNION sets ELSE {x \in UNION sets : \A s \in sets : x \in s}
        ins(outs) == [i \in DOMAIN preds |-> meet({carried(outs, p) : p \in preds[i]})]
        RECURSIVE settle(_)
        settle(outs) ==
            LET next == [i \in DOMAIN preds |->
                            ins(outs)[i] \cup (IF taskHasOutput(d.tasks[i]) THEN own(i) ELSE {})]
            IN  IF next = outs THEN ins(outs) ELSE settle(next)
    IN  settle([i \in DOMAIN preds |-> IF must THEN taskIDs(d) ELSE {}])

\* Per task id: the outputs always and sometimes there, and the rules that can have led there.
computeContextSets(d) ==
    LET preds == buildPreds(d)
        mustIn == availability(d, TRUE)
        mayIn == availability(d, FALSE)
        errEdges(i) == {p \in preds[i] : p.isErr}
        at(id) == taskIndex(d, id)
    IN  [required |-> [id \in taskIDs(d) |-> mustIn[at(id)]],
         optional |-> [id \in taskIDs(d) |-> mayIn[at(id)] \ mustIn[at(id)]],
         errs |-> [id \in taskIDs(d) |->
                      errAt(preds[at(id)] # {} /\ errEdges(at(id)) = preds[at(id)], errEdges(at(id)) # {},
                            errorDataSchema(d, {<<p.from, p.by>> : p \in errEdges(at(id))}))]]

(***************************************************************************)
(* What the conditions on an edge prove, in the frame of the task it leads *)
(* to: a path maps to "nonNull" or "exactlyNull".                          *)
(***************************************************************************)
translateGuard(steps, guardTask, exportsOutput) ==
    IF \E st \in ToSet(steps) : "key" \in DOMAIN st THEN Fail
    ELSE IF steps[1].prop \in {"input", "outputs"} THEN Ok(steps)
    ELSE IF steps[1].prop = "self" /\ exportsOutput /\ Len(steps) > 1 /\ steps[2] = PropStep("output")
      THEN Ok(<<PropStep("outputs"), PropStep(guardTask)>> \o SubSeq(steps, 3, Len(steps)))
    ELSE Fail

\* A frame is that of the task itself, or of the one an edge of a task leads to.
sameFrame == <<>>
edgeFrame(guardTask, exportsOutput) == <<guardTask, exportsOutput>>

inFrame(steps, frame) == IF frame = sameFrame THEN Ok(steps) ELSE translateGuard(steps, frame[1], frame[2])

factState(f) ==
    IF f.lit.t = "null" THEN Ok(IF f.equal THEN "exactlyNull" ELSE "nonNull")
    ELSE IF f.equal THEN Ok("nonNull") ELSE Fail

Without(refs, paths) == [p \in DOMAIN refs \ paths |-> refs[p]]

\* A path proved both ways is dropped.
addFacts(refs, facts, frame) ==
    LET add(r, f) ==
            LET state == factState(f)
                path == inFrame(f.steps, frame)
            IN  IF state = Fail \/ path = Fail THEN r
                ELSE IF path[1] \in DOMAIN r
                  THEN IF r[path[1]] = state[1] THEN r ELSE Without(r, {path[1]})
                ELSE (path[1] :> state[1]) @@ r
    IN  FoldLeft(add, refs, facts)

factsOf_asserted(cond, whenTrue) == IF Set(cond) THEN guardFacts(cond[1]).yes ELSE <<>>

factsOf(cond, whenTrue) ==
    IF ~Set(cond) THEN <<>> ELSE IF whenTrue THEN guardFacts(cond[1]).yes ELSE guardFacts(cond[1]).no

Clause(cond, negates) == [cond |-> cond, negates |-> negates]
switchClauses(t) == [i \in DOMAIN t.switch |-> Clause(t.switch[i].case, TRUE)]
ruleClauses(t) == [i \in DOMAIN t.onError |-> Clause(t.onError[i].case, t.onError[i].code = {})]

\* Reaching clause k proves the earlier ones false and, past its own guard, k true.
clauseFacts(cs, k, own, frame) ==
    LET prior(r, c) == IF c.negates THEN addFacts(r, factsOf(c.cond, FALSE), frame) ELSE r
        before == FoldLeft(prior, <<>>, SubSeq(cs, 1, k - 1))
    IN  IF own THEN addFacts(before, factsOf(cs[k].cond, TRUE), frame) ELSE before

edgeRefs(t, k) == clauseFacts(switchClauses(t), k, TRUE, edgeFrame(t.id, taskHasOutput(t)))

ruleEdgeRefs(t, k) == clauseFacts(ruleClauses(t), k, TRUE, edgeFrame(t.id, FALSE))

unionRefs(base, edge) == edge @@ base

meetRefs(all) ==
    LET one == CHOOSE r \in all : TRUE
    IN  [p \in {p \in DOMAIN one : \A r \in all : p \in DOMAIN r /\ r[p] = one[p]} |-> one[p]]

killOutput(refs, id) ==
    Without(refs, {p \in DOMAIN refs : Len(p) > 1 /\ SubSeq(p, 1, 2) = <<PropStep("outputs"), PropStep(id)>>})

\* Converges downward from "everything", which is <<>>.
computeRefinements(d) ==
    LET preds == buildPreds(d)
        proved(p) == LET t == d.tasks[p.from] IN IF p.isErr THEN ruleEdgeRefs(t, p.by) ELSE edgeRefs(t, p.by)
        along(state, p) == IF p.from = 0 THEN <<>> ELSE unionRefs(state[p.from][1], proved(p))
        in(state, i) == LET known == {p \in preds[i] : p.from = 0 \/ (p.from # 0 /\ state[p.from] # <<>>)}
                        IN  IF known = {} THEN <<>>
                            ELSE <<killOutput(meetRefs({along(state, p) : p \in known}), d.tasks[i].id)>>
        RECURSIVE settle(_)
        settle(state) == LET next == [i \in DOMAIN preds |-> in(state, i)]
                         IN  IF next = state THEN state ELSE settle(next)
        final == settle([i \in DOMAIN preds |-> <<>>])
    IN  [id \in taskIDs(d) |-> LET r == final[taskIndex(d, id)] IN IF Set(r) THEN r[1] ELSE <<>>]

(***************************************************************************)
(* The only place a fact touches a type: a scope is a context type with    *)
(* the paths narrowed in it.                                               *)
(***************************************************************************)
Scoped(s, guards) == [s |-> s, guards |-> guards]

RECURSIVE SchemaAt(_, _, _)
SchemaAt(s, defs, steps) ==
    IF steps = <<>> THEN Ok(s)
    ELSE LET st == Head(steps)
             sub == IF "prop" \in DOMAIN st THEN Property(s, defs, st.prop)
                    ELSE IF "index" \in DOMAIN st THEN Index(s, defs) ELSE Fail
         IN  IF sub = Fail THEN Fail ELSE SchemaAt(sub[1], defs, Tail(steps))

applyRefinements(s, defs, refs) ==
    LET declared(p) == SchemaAt(s, defs, p)
        stripped(p) == StripNull(declared(p)[1], defs)
        useful(p) == /\ declared(p) # Fail
                     /\ refs[p] = "exactlyNull" \/ (~isEmptyNode(stripped(p)) /\ ~HasNull(stripped(p), defs))
    IN  Scoped(s, [p \in {p \in DOMAIN refs : useful(p)} |->
                      IF refs[p] = "exactlyNull" THEN NullType ELSE stripped(p)])

(***************************************************************************)
(* Contexts.                                                               *)
(***************************************************************************)
withErrorProperty(ctx, name, e) ==
    LET known == [Type({"object"}) EXCEPT
                     !.props = [p \in {"task", "message", "code", "child_key", "child_index"} |->
                                   Type({IF p = "child_index" THEN "integer" ELSE "string"})],
                     !.req = {"task", "message", "code"}]
        full == IF Set(e.data) THEN WithProperty(known, "data", e.data[1], TRUE) ELSE known
    IN  IF e.must THEN WithProperty(ctx, name, full, TRUE)
        ELSE IF e.may THEN WithProperty(ctx, name, withNull(full), FALSE) ELSE ctx

\* `absent` outputs are exactly null, so that ?? takes the other arm.
contextSchemaAbsent(sc, preceding, optional, absent, e) ==
    LET there == preceding \cup optional
        outputs == [Type({"object"}) EXCEPT
                       !.props = [id \in there \cup absent |->
                                     IF id \in there THEN Ref(OutputName(id)) ELSE NullType],
                       !.req = preceding \cup (absent \ there)]
        named == [n \in {n \in {"input", "config"} : Set(sc[n])} |-> sc[n][1]]
    IN  withErrorProperty(WithProperty(ObjectOf(named), "outputs", outputs, TRUE), "last_error", e)

contextSchema(sc, preceding, optional, e) == contextSchemaAbsent(sc, preceding, optional, {}, e)

taskLoops(sc, t) == t.id \in sc.required[t.id] \cup sc.optional[t.id]

Previous(t) == [Type({"object"}) EXCEPT !.props = [p \in {"previous"} |-> Ref(OutputName(t.id))]]

addPreviousOnly(sc, ctx, t) ==
    IF taskHasOutput(t) /\ taskLoops(sc, t) THEN WithProperty(ctx, "self", Previous(t), TRUE) ELSE ctx

withResult(self, t) ==
    LET result == actionResultType(t) IN IF Set(result) THEN WithProperty(self, "result", result[1], TRUE) ELSE self

outputMapContext(sc, ctx, t) ==
    LET self == IF taskLoops(sc, t) THEN Previous(t) ELSE Type({"object"})
    IN  WithProperty(ctx, "self", withResult(withFetchMeta(self, t), t), TRUE)

addSelfSchema(sc, ctx, t) ==
    LET self == IF taskHasOutput(t) /\ taskLoops(sc, t) THEN Previous(t) ELSE Type({"object"})
        full == withFetchMeta(withResult(self, t), t)
    IN  WithProperty(ctx, "self",
            IF taskHasOutput(t) THEN WithProperty(full, "output", Ref(OutputName(t.id)), TRUE) ELSE full, TRUE)

(***************************************************************************)
(* One scope per phase of a task.                                          *)
(***************************************************************************)
baseSchema(sc, t) == contextSchema(sc, sc.required[t.id], sc.optional[t.id], sc.errs[t.id])

base(sc, t) == applyRefinements(baseSchema(sc, t), sc.defs, sc.refinements[t.id])

entry(sc, t) == base(sc, t)

\* `ctx` extends the base context; the refinements are those of the base.
phase(sc, t, ctx) == Scoped(ctx, base(sc, t).guards)

actionScope(sc, t) == phase(sc, t, addPreviousOnly(sc, baseSchema(sc, t), t))

outputMap(sc, t) == phase(sc, t, outputMapContext(sc, baseSchema(sc, t), t))

switchScope(sc, t) ==
    phase(sc, t, IF Set(t.action) \/ taskHasOutput(t) THEN addSelfSchema(sc, baseSchema(sc, t), t) ELSE baseSchema(sc, t))

narrow(sc, t, scope, local) ==
    IF local = <<>> THEN scope ELSE applyRefinements(scope.s, sc.defs, unionRefs(sc.refinements[t.id], local))

switchCase(sc, t, k) == narrow(sc, t, switchScope(sc, t), clauseFacts(switchClauses(t), k, FALSE, sameFrame))
switchClause(sc, t, k) == narrow(sc, t, switchScope(sc, t), clauseFacts(switchClauses(t), k, TRUE, sameFrame))

ruleScope(sc, t, k) ==
    phase(sc, t, addPreviousOnly(sc, withErrorProperty(baseSchema(sc, t), "error", ruleErrAt(t, t.onError[k])), t))

ruleCase(sc, t, k) == narrow(sc, t, ruleScope(sc, t, k), clauseFacts(ruleClauses(t), k, FALSE, sameFrame))
ruleClause(sc, t, k) == narrow(sc, t, ruleScope(sc, t, k), clauseFacts(ruleClauses(t), k, TRUE, sameFrame))

(***************************************************************************)
(* The process output: one context per way of ending.                      *)
(***************************************************************************)
terminalEnd(sc, t, own, errMin, errMax) ==
    LET must == sc.required[t.id] \cup own
    IN  [task |-> t.id, must |-> must, may |-> must \cup sc.optional[t.id], e |-> errAt(errMin, errMax, sc.errs[t.id].data)]

outputTerminals_own(sc) ==
    LET ends(cs) == \E c \in ToSet(cs) : c.goto = GotoEnd
        own(t) == IF taskHasOutput(t) THEN {t.id} ELSE {}
        tasks == ToSet(sc.d.tasks)
    IN  {terminalEnd(sc, t, own(t), sc.errs[t.id].must, sc.errs[t.id].may) : t \in {t \in tasks : ends(t.switch)}}
        \cup {terminalEnd(sc, t, own(t), TRUE, TRUE) : t \in {t \in tasks : ends(t.onError)}}

outputTerminals(sc) ==
    LET ends(cs) == \E c \in ToSet(cs) : c.goto = GotoEnd
        own(t) == IF taskHasOutput(t) THEN {t.id} ELSE {}
        tasks == ToSet(sc.d.tasks)
    IN  {terminalEnd(sc, t, own(t), sc.errs[t.id].must, sc.errs[t.id].may) : t \in {t \in tasks : ends(t.switch)}}
        \cup {terminalEnd(sc, t, {}, TRUE, TRUE) : t \in {t \in tasks : ends(t.onError)}}

processOutputAt(sc, end, everMay) ==
    contextSchemaAbsent(sc, end.must, end.may \ end.must, everMay \ end.may, end.e)

processOutputContext(sc) ==
    LET ends == SetToSeq(outputTerminals(sc))
        everMay == UNION {e.may : e \in ToSet(ends)}
        arms == [i \in DOMAIN ends |-> processOutputAt(sc, ends[i], everMay)]
    IN  IF ends = <<>> THEN contextSchema(sc, {}, {}, errAt(FALSE, FALSE, <<>>))
        ELSE IF Len(arms) = 1 THEN arms[1] ELSE AnyOf(arms)

(***************************************************************************)
(* Which members of `self` a slot may name.                                *)
(***************************************************************************)
beforeOutput == {}
afterAction == {"result"}
afterOutput == {"result", "output"}

checkSelfScope(sc, t, avail, n) ==
    LET paths == {r.path : r \in collectRoots(n, {}, FALSE)}
    IN  /\ \A m \in {"result", "output"} : <<"self", m>> \in paths => m \in avail
        /\ <<"self", "result">> \in paths => Set(actionResultType(t))
        /\ (<<"self", "previous">> \in paths \/ <<"outputs", t.id>> \in paths)
              => taskHasOutput(t) /\ taskLoops(sc, t)

faultSlots(c) ==
    UNION {{f.message[1]} \cup ToSet(f.data) : f \in ToSet(c.raise) \cup ToSet(c.panic)}

retrySlots(r) == {r[f][1] : f \in {f \in DOMAIN r : IsExpr(r[f])}}

preOutputSlots(t) ==
    UNION {UNION {ToSet(a[slot]) : slot \in {"input", "body", "url", "method", "headers", "query",
                                             "accepted_status", "over", "for", "until"}}
           \cup UNION {ToSet(x.for) \cup ToSet(x.until) : x \in ToSet(a.timeout)}
           \cup UNION {ToSet(e.input) : e \in Range(a.children)} : a \in ToSet(t.action)}
    \cup UNION {ToSet(ec.case) \cup retrySlots(ec.retry) \cup faultSlots(ec) : ec \in ToSet(t.onError)}

checkPreOutputScopes(sc, t) == \A n \in preOutputSlots(t) : checkSelfScope(sc, t, beforeOutput, n)

=============================================================================
