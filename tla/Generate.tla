------------------------------ MODULE Generate ------------------------------
(***************************************************************************)
(* The type check of a whole definition (internal/validation/generate.go,  *)
(* infer.go, outputorder.go, declared.go and internal/schema/solver.go):   *)
(* the gate every definition passes before it can be registered, and the   *)
(* types it publishes.                                                     *)
(***************************************************************************)
EXTENDS Flow

CONSTANT maxSolvePasses   \* bound: passes of the output fixpoint (16 in the code)

ASSUME MaxSolvePassesAssumption == maxSolvePasses \in Nat \ {0}

(***************************************************************************)
(* A slot: its type in its scope, which must fit the schema required of    *)
(* it.  A fixed target takes plain subset; a declaration takes the         *)
(* relation paired with the conform the value gets.                        *)
(***************************************************************************)
CheckWith(scope, defs, n, required, mode) ==
    LET t == InferNode(n, scope.s, defs, scope.guards)
    IN  IF t = Fail THEN Fail
        ELSE IF Set(required) /\ ~subsetWith(t[1], defs, required[1], defs, mode) THEN Fail ELSE t

declaredShape(scope, defs, n, declared) == CheckWith(scope, defs, n, declared, conformsExactlyMode)

Checks(scope, defs, n, required) == CheckWith(scope, defs, n, <<required>>, strictMode) # Fail

published(inferred, declared) == IF Set(declared) THEN declared[1] ELSE inferred

sent(inferred, defs, declared) == IF Set(declared) THEN Conformed(inferred, defs, declared[1], defs) ELSE inferred

scalarSchema == Type({"string", "number", "boolean"})
arraySchema == Array(Top)
headersSchema == Map(Type({"string"}))
acceptedStatusSchema == Array(Type({"string"}))
queryValue == Type({"string", "number", "boolean", "null"})
querySchema == Map(AnyOf(<<queryValue, Array(queryValue)>>))
boolSchema == Type({"boolean"})
messageSchema == Type({"string"})
delaySchema == Type({"number"})

(***************************************************************************)
(* The context of a definition.                                            *)
(***************************************************************************)
buildConfigSchema(slot) ==
    IF ~Set(slot) \/ (Set(slot) /\ slot[1].props = <<>>) THEN <<>>
    ELSE LET cs == slot[1] IN
         <<[Type({"object"}) EXCEPT !.props = cs.props,
                                    !.req = cs.req \cup {p \in DOMAIN cs.props : Set(cs.props[p].dflt)}]>>

named(d) == [n \in {"input" : x \in ToSet(d.input)} |-> d.input[1]]

\* A permissive placeholder holds an output's place until the outputs are solved.
collectNamedOutputs(d) ==
    [n \in {OutputName(t.id) : t \in {t \in ToSet(d.tasks) : taskHasOutput(t)}} |-> Type({"object"})]

buildSchemaContext(d) ==
    LET sets == computeContextSets(d)
    IN  [d |-> d, defs |-> collectNamedOutputs(d) @@ named(d) @@ d.defs,
         input |-> IF Set(d.input) THEN <<Ref("input")>> ELSE <<>>, config |-> buildConfigSchema(d.config),
         required |-> sets.required, optional |-> sets.optional, errs |-> sets.errs,
         refinements |-> computeRefinements(d), lenient |-> FALSE]

(***************************************************************************)
(* Output types, in dependency order; the ones that depend on each other   *)
(* are solved together, from a null seed, until they no longer grow.  Of   *)
(* the tasks listed later a scope knows only the placeholder when it is    *)
(* built, so nothing inside them is narrowed.                              *)
(***************************************************************************)
listedBefore(d, t) == {u.id : u \in ToSet(SubSeq(d.tasks, 1, taskIndex(d, t.id) - 1))}

outputScope(sc, t) ==
    LET early == {OutputName(id) : id \in listedBefore(sc.d, t)}
        known == [n \in DOMAIN sc.defs |->
                     IF n \in DOMAIN collectNamedOutputs(sc.d) \ early THEN Type({"object"}) ELSE sc.defs[n]]
    IN  Scoped(outputMapContext(sc, baseSchema(sc, t), t),
               applyRefinements(baseSchema(sc, t), known, sc.refinements[t.id]).guards)

\* The outputs whose type must be looked into to type the output of t.
demands(sc, t) ==
    LET roots == collectRoots(t.output[1], {}, Set(t.outputSchema))
        inside == {r.path : r \in {r \in roots : r.through}}
        guarded == {p[2].prop : p \in {p \in DOMAIN sc.refinements[t.id] : Len(p) > 2 /\ p[1] = PropStep("outputs")}}
    IN  {p[2] : p \in {p \in inside : p[1] = "outputs" /\ Len(p) = 2}}
        \cup {t.id : p \in {p \in inside : p = <<"self", "previous">>}}
        \cup (guarded \cap listedBefore(sc.d, t))

\* A slot that does not type refuses the definition; a lenient pass goes on with {}.
compute(sc, t) ==
    LET n == t.output[1]
        typed == declaredShape(outputScope(sc, t), sc.defs, n, t.outputSchema)
    IN  IF ~checkSelfScope(sc, t, afterAction, n) \/ typed = Fail
        THEN IF sc.lenient THEN Ok(Top) ELSE Fail
        ELSE Ok(canonicalizeNode(published(typed[1], t.outputSchema)))

Store(sc, id, node) == [sc EXCEPT !.defs[OutputName(id)] = node]

\* At the use sites an estimate is nullable, and before the first pass it is null.
estimateNode(est) == [(IF Set(est) THEN withNull(est[1]) ELSE NullType) EXCEPT !.pend = TRUE]

\* One pass over the members in order; Fail when one of them does not type.
RECURSIVE solvePass(_, _, _)
solvePass(sc, members, est) ==
    IF members = <<>> THEN Ok(est)
    ELSE LET t == Head(members)
             serve(s, id) == Store(s, id, estimateNode(est[id]))
             cur == compute(FoldLeft(serve, sc, SetToSeq(DOMAIN est)), t)
             next == IF Set(est[t.id]) THEN joinNodes(est[t.id][1], cur[1]) ELSE cur[1]
         IN  IF cur = Fail THEN Fail ELSE solvePass(sc, Tail(members), [est EXCEPT ![t.id] = <<next>>])

RECURSIVE solvePasses(_, _, _, _)
solvePasses(sc, members, est, pass) ==
    LET next == solvePass(sc, members, est) IN
    IF pass > maxSolvePasses \/ next = Fail THEN Fail
    ELSE IF next[1] = est THEN next ELSE solvePasses(sc, members, next[1], pass + 1)

solveCluster(sc, members) ==
    LET est == solvePasses(sc, members, [id \in {t.id : t \in ToSet(members)} |-> <<>>], 1)
        store(s, t) == Store(s, t.id, est[1][t.id][1])
    IN  IF est = Fail THEN Fail ELSE Ok(FoldLeft(store, sc, members))

solveMember(sc, t) ==
    LET node == compute(sc, t) IN IF node = Fail THEN Fail ELSE Ok(Store(sc, t.id, node[1]))

\* Every output, a cluster once all it demands is solved.
inferOutputs(sc0) ==
    LET tasks == SelectSeq(sc0.d.tasks, taskHasOutput)
        needs == [id \in {t.id : t \in ToSet(tasks)} |-> demands(sc0, sc0.d.tasks[taskIndex(sc0.d, id)])]
        RECURSIVE reach(_)
        reach(ids) == LET more == ids \cup UNION {needs[i] : i \in ids \cap DOMAIN needs}
                      IN  IF more = ids THEN ids ELSE reach(more)
        over(id) == reach(needs[id])
        cluster(id) == {id} \cup {j \in over(id) \cap DOMAIN needs : id \in over(j)}
        RECURSIVE solve(_, _)
        solve(sc, left) ==
            LET ready == {id \in left : (over(id) \ cluster(id)) \cap left = {}}
                id == CHOOSE id \in ready : TRUE
                members == SelectSeq(tasks, LAMBDA t : t.id \in cluster(id))
                next == IF id \in over(id) THEN solveCluster(sc, members) ELSE solveMember(sc, members[1])
            IN  IF left = {} THEN Ok(sc)
                ELSE IF next = Fail THEN Fail ELSE solve(next[1], left \ cluster(id))
    IN  solve(sc0, DOMAIN needs)

(***************************************************************************)
(* The slots of an action.                                                 *)
(***************************************************************************)
checkNonNullTemplate(scope, defs, slot) == \A n \in ToSet(slot) : Checks(scope, defs, n, scalarSchema)

\* A literal is parsed, an interpolation refused, an expression typed to a number.
checkDelaySlot(scope, defs, slot) ==
    \A n \in ToSet(slot) : n.op = "lit" \/ (n.op # "tmpl" /\ Checks(scope, defs, n, delaySchema))

checkTimeout(scope, defs, slot) ==
    \A t \in ToSet(slot) :
        /\ Set(t.for) # Set(t.until)
        /\ checkDelaySlot(scope, defs, t.for) /\ checkDelaySlot(scope, defs, t.until)

checkHeadersShape(scope, defs, slot) == \A n \in ToSet(slot) : Checks(scope, defs, n, headersSchema)
checkQueryShape(scope, defs, slot) == \A n \in ToSet(slot) : Checks(scope, defs, n, querySchema)

checkAcceptedStatusShape(scope, defs, slot) ==
    \A n \in ToSet(slot) : Checks(scope, defs, n, acceptedStatusSchema)

checkDeclaredQuery(scope, defs, a) ==
    \A n \in ToSet(a.query), declared \in ToSet(a.query_schema) :
        /\ subsetWith(declared, defs, querySchema, defs, strictMode)
        /\ declaredShape(scope, defs, n, <<declared>>) # Fail

checkDeclaredListElement(arr, defs, declared) ==
    LET s == resolveTolerant(arr, defs) IN
    Set(declared) => s.items # <<>> /\ subsetWith(s.items[1], defs, declared[1], defs, conformsExactlyMode)

\* `over` must be an array, each element of which is one child's input.
checkArrayTemplate(scope, defs, a) ==
    \A n \in ToSet(a.over) :
        LET arr == CheckWith(scope, defs, n, <<arraySchema>>, strictMode)
        IN  arr # Fail /\ checkDeclaredListElement(arr[1], defs, a.input_schema)

\* What a payload slot sends; an absent shape is the empty object.
payload(scope, defs, shp, declared) ==
    LET typed == declaredShape(scope, defs, IF Set(shp) THEN shp[1] ELSE ObjectNode(<<>>), declared)
    IN  IF ~Set(shp) /\ ~Set(declared) THEN Ok(Type({"object"}))
        ELSE IF typed = Fail THEN Fail ELSE Ok(sent(typed[1], defs, declared))

inferActionPayload(scope, defs, a) ==
    IF a.type = "fetch" THEN payload(scope, defs, a.body, a.body_schema)
    ELSE IF a.type = "child_list" THEN Ok(Type({"object"})) ELSE payload(scope, defs, a.input, a.input_schema)

checkChildMapInputs(scope, defs, a) ==
    [k \in DOMAIN a.children |-> payload(scope, defs, a.children[k].input, a.children[k].input_schema)]

checkActionSlots(sc, t) ==
    \A a \in ToSet(t.action) :
        LET scope == actionScope(sc, t) IN
        /\ checkArrayTemplate(scope, sc.defs, a)
        /\ checkDelaySlot(scope, sc.defs, a.for) /\ checkDelaySlot(scope, sc.defs, a.until)
        /\ checkTimeout(scope, sc.defs, a.timeout)
        /\ checkNonNullTemplate(scope, sc.defs, a.url) /\ checkNonNullTemplate(scope, sc.defs, a.method)
        /\ checkHeadersShape(scope, sc.defs, a.headers)
        /\ checkQueryShape(scope, sc.defs, a.query) /\ checkDeclaredQuery(scope, sc.defs, a)
        /\ checkAcceptedStatusShape(scope, sc.defs, a.accepted_status)
        /\ \A k \in DOMAIN a.children : checkChildMapInputs(scope, sc.defs, a)[k] # Fail
        /\ inferActionPayload(scope, sc.defs, a) # Fail

(***************************************************************************)
(* The clauses of the switch and of the error rules.                       *)
(***************************************************************************)
checkMessageTemplate(scope, defs, slot) == Checks(scope, defs, slot[1], messageSchema)

checkFaultClauses(scope, defs, c) ==
    \A f \in ToSet(c.raise) \cup ToSet(c.panic) :
        /\ checkMessageTemplate(scope, defs, f.message)
        /\ \A n \in ToSet(f.data) : InferNode(n, scope.s, defs, scope.guards) # Fail

checkSwitch(sc, t) ==
    \A k \in DOMAIN t.switch :
        /\ \A n \in ToSet(t.switch[k].case) :
              checkSelfScope(sc, t, afterOutput, n) /\ Checks(switchCase(sc, t, k), sc.defs, n, boolSchema)
        /\ checkFaultClauses(switchClause(sc, t, k), sc.defs, t.switch[k])

checkRetrySlots(scope, defs, r) == \A n \in retrySlots(r) : Checks(scope, defs, n, delaySchema)

checkRules(sc, t) ==
    \A k \in DOMAIN t.onError :
        /\ \A n \in ToSet(t.onError[k].case) : Checks(ruleCase(sc, t, k), sc.defs, n, boolSchema)
        /\ checkFaultClauses(ruleClause(sc, t, k), sc.defs, t.onError[k])
        /\ checkRetrySlots(ruleClause(sc, t, k), sc.defs, t.onError[k].retry)

buildInputs(sc) ==
    \A t \in ToSet(sc.d.tasks) :
        checkPreOutputScopes(sc, t) /\ checkActionSlots(sc, t) /\ checkSwitch(sc, t) /\ checkRules(sc, t)

\* The data each code is raised with: a union over the clauses that raise it.
raiseData(sc) ==
    LET clauses == UNION {{[fs |-> ToSet(t.switch[k].raise), at |-> switchClause(sc, t, k)] : k \in DOMAIN t.switch}
                          \cup {[fs |-> ToSet(t.onError[k].raise), at |-> ruleClause(sc, t, k)] : k \in DOMAIN t.onError}
                          : t \in ToSet(sc.d.tasks)}
        of(code) == {c \in clauses : \E f \in c.fs : f.code = code}
        data(c) == (CHOOSE f \in c.fs : TRUE).data
        types(code) == {InferNode(data(c)[1], c.at.s, sc.defs, c.at.guards)[1] : c \in {c \in of(code) : Set(data(c))}}
        absent(code) == \E c \in of(code) : ~Set(data(c))
    IN  [code \in Raises(sc.d) |->
            IF types(code) = {} THEN NullType ELSE combineErrData(SetToSeq(types(code)), absent(code))[1]]

inferProcessOutput(sc) ==
    LET typed == declaredShape(Scoped(processOutputContext(sc), <<>>), sc.defs, sc.d.output[1], sc.d.outputSchema)
    IN  IF ~Set(sc.d.output) THEN Ok(<<>>)
        ELSE IF typed = Fail THEN Fail ELSE Ok(<<published(typed[1], sc.d.outputSchema)>>)

\* Fail, or the scopes and the published output and raises of a definition that types.
Generate(d) ==
    IF ~checkReachability(d) THEN Fail
    ELSE LET solved == inferOutputs(buildSchemaContext(d)) IN
         IF solved = Fail THEN Fail
         ELSE LET sc == solved[1]
                  out == inferProcessOutput(sc)
              IN  IF ~buildInputs(sc) \/ out = Fail THEN Fail
                  ELSE Ok([sc |-> sc, output |-> out[1], raises |-> raiseData(sc)])

=============================================================================
