------------------------------ MODULE Children ------------------------------
(***************************************************************************)
(* A call of another process, checked when the caller is registered        *)
(* (internal/validation/validate_children.go, declared.go): the input it   *)
(* sends, the result it expects and the failures it declares must agree    *)
(* with the definition it names.  `lib` maps a process name and a version  *)
(* to a definition, `current` is the version being registered.             *)
(***************************************************************************)
EXTENDS Generate

\* Fail, or the definition called; a version left out is the latest, or the caller itself.
resolveChild(lib, d, current, name, version) ==
    IF name = d.name /\ version \in {<<>>, <<current>>} THEN Ok(d)
    ELSE IF name \notin DOMAIN lib THEN Fail
    ELSE LET v == IF Set(version) THEN version[1] ELSE Max(DOMAIN lib[name])
         IN  IF v \in DOMAIN lib[name] THEN Ok(lib[name][v]) ELSE Fail

\* The calls a child task makes: one, one per key, or one per element.
calls(a) == IF a.type = "child_map" THEN Range(a.children)
            ELSE {[name |-> a.name[1], version |-> a.version, input |-> a.input, input_schema |-> a.input_schema,
                   result_schema |-> a.result_schema, raises |-> a.raises]}

checkDeclaredAgainstChild(declared, defs, child) == subsetWith(declared, defs, child.input[1], child.defs, strictMode)

\* Undeclared: nothing conforms the shape on its way out, so its own type must fit.
checkInputShapeAgainstChild(scope, defs, call, child) ==
    LET typed == InferNode(IF Set(call.input) THEN call.input[1] ELSE ObjectNode(<<>>), scope.s, defs, scope.guards)
    IN  typed # Fail /\ checkDeclaredAgainstChild(typed[1], defs, child)

\* Each declared code is one the child raises, with data that narrows to what is declared.
checkDeclaredRaises(sf, raises, defs) ==
    \A c \in DOMAIN raises :
        /\ c \in DOMAIN sf.raises
        /\ \A declared \in ToSet(raises[c]) : subsetWith(sf.raises[c], sf.sc.defs, declared, defs, narrowMode)

checkChildOutputType(sf, declared, defs) ==
    \A out \in ToSet(sf.output) : subsetWith(out, sf.sc.defs, declared, defs, narrowMode)

checkChildContract(call, defs, child) ==
    LET sf == Generate(child)
        needOutput == Set(call.result_schema) /\ Set(child.output)
    IN  needOutput \/ call.raises # <<>> =>
            /\ sf # Fail
            /\ checkDeclaredRaises(sf[1], call.raises, defs)
            /\ needOutput => checkChildOutputType(sf[1], call.result_schema[1], defs)

validateChildEntry(scope, defs, call, child) ==
    /\ Set(child.input) => IF Set(call.input_schema)
                           THEN checkDeclaredAgainstChild(call.input_schema[1], defs, child)
                           ELSE checkInputShapeAgainstChild(scope, defs, call, child)
    /\ checkChildContract(call, defs, child)

\* An element of `over` is a child's input.
validateChildListEntry(scope, defs, a, call, child) ==
    LET over == CheckWith(scope, defs, a.over[1], <<arraySchema>>, strictMode)
        items == IF over = Fail THEN <<>> ELSE resolveTolerant(over[1], defs).items
    IN  /\ over # Fail
        /\ Set(child.input) =>
              IF Set(a.input_schema) THEN checkDeclaredAgainstChild(a.input_schema[1], defs, child)
              ELSE Set(items) /\ checkDeclaredAgainstChild(items[1], defs, child)
        /\ checkChildContract(call, defs, child)

\* A code a rule names is one some child can raise, or is declared to.
validateChildOnErrorReachability(lib, d, current, t) ==
    LET a == t.action[1]
        raised(c) == IF c.raises # <<>> THEN DOMAIN c.raises
                     ELSE Raises(resolveChild(lib, d, current, c.name, c.version)[1])
        raisable == {ResultInvalid} \cup UNION {raised(c) : c \in calls(a)}
    IN  \A ec \in ToSet(t.onError) : \A p \in ec.code : matchesAnyCode(p, raisable)

\* The scopes are built without what the switches prove, and an output that fails is {} here.
ValidateChildProcessRefs(lib, d, current) ==
    LET sc == inferOutputs([buildSchemaContext(d) EXCEPT !.refinements = [id \in taskIDs(d) |-> <<>>],
                                                         !.lenient = TRUE])
        child(c) == resolveChild(lib, d, current, c.name, c.version)
    IN  \A t \in {t \in ToSet(d.tasks) : isChildTask(t)} :
            /\ sc # Fail
            /\ \A c \in calls(t.action[1]) :
                  /\ child(c) # Fail
                  /\ IF actionTypeOf(t) = "child_list"
                     THEN validateChildListEntry(actionScope(sc[1], t), sc[1].defs, t.action[1], c, child(c)[1])
                     ELSE validateChildEntry(actionScope(sc[1], t), sc[1].defs, c, child(c)[1])
            /\ validateChildOnErrorReachability(lib, d, current, t)

=============================================================================
