-------------------------------- MODULE Row ---------------------------------
(***************************************************************************)
(* What may be done to a row from outside an advance, and what the type    *)
(* check promised of it: functions of the row and of the definitions.      *)
(***************************************************************************)
EXTENDS Advance

\* Whether version v of process n can be started.
gate(n, v) ==
    LET versions == Gated[n]
    IN  v \in versions

ValidateInput(n, v, x) ==
    IF Set(Lib[n][v].input) THEN Validate(Lib[n][v].input[1], Typed[n][v][1].sc.defs, x, Strict) ELSE Ok(x)

\* Fail, or the row of a new instance.
startInstance(n, v, x, environ) ==
    LET input == ValidateInput(n, v, x)
    IN  IF input = Fail \/ ResolveConfig(Lib[n][v], environ) = Fail THEN Fail
        ELSE Ok(newChildInstance(n, v, input[1]))

\* Fail, or the outcome s of the external task t as it is kept.
buildOutcome(st, t, s) ==
    LET a == t.action[1]
        result == IF Set(a.result_schema) THEN Validate(a.result_schema[1], defsOf(st), s.v, Strict) ELSE Ok(s.v)
        data == Validate(a.raises[s.code][1], defsOf(st), IF Set(s.data) THEN s.data[1] ELSE Null, Strict)
    IN  IF s.k = "result" THEN IF result = Fail THEN Fail ELSE Ok([s EXCEPT !.v = result[1]])
        ELSE IF s.code \notin DOMAIN a.raises THEN Fail
        ELSE IF ~Set(a.raises[s.code]) THEN IF Set(s.data) THEN Fail ELSE Ok(s)
        ELSE IF data = Fail THEN Fail ELSE Ok([s EXCEPT !.data = data])

\* The version of the child in slot `key` named by version v of the process of row p, where p
\* stands: <<>> when it names no such child.
childTarget(p, v, key, name) ==
    LET d == Lib[p.name][v]
        a == taskNamed(d, p.task).action[1]
        call == callOf(a, key)
    IN  IF p.task \notin taskIDs(d) THEN <<>>
        ELSE IF ~isChildTask(taskNamed(d, p.task)) THEN <<>>
        ELSE IF a.type = "child_map" /\ key \notin DOMAIN a.children THEN <<>>
        ELSE IF call.name # name THEN <<>>
        ELSE <<ResolveChildVersion([name |-> p.name, version |-> v], call)>>

movableStatus(st) == st.status \in {"paused", "failed"}

\* Fail, or the state an instance would have on version v.
moved(st, v) ==
    LET to == Typed[st.name][v]
        state == MigrateState(to[1], st.task, Materialize(Obj(st.state)))
    IN  IF to = Fail \/ ~movableStatus(st) THEN Fail
        ELSE IF state = Fail \/ inFlightBreak(sf(st), to[1], st.task, st.phase # "none", st.wake) THEN Fail
        ELSE Ok(state[1].m)

\* A failure that no rule takes is written over the last_error the task was entered with.
OverwroteInbound(st) ==
    LET context == TaskContexts(sf(st))[st.task]
    IN  /\ st.status = "failed" /\ st.task # "" /\ "last_error" \in DOMAIN st.state
        /\ st.state.last_error.m["task"] = Str(st.task)
        /\ "last_error" \in DOMAIN context.props

(***************************************************************************)
(* What registration promised.                                             *)
(***************************************************************************)
RECURSIVE ValueAt(_, _)
ValueAt(v, steps) ==
    IF steps = <<>> THEN v
    ELSE IF v.k = "object" THEN ValueAt(FieldOr(v.m, FieldOr(Head(steps), "prop", ""), Null), Tail(steps)) ELSE Null

\* The stored state is of the entry context of the task, and what the conditions on every way there
\* are said to prove is true of it.
FitsEntry(st) ==
    LET state == Materialize(Obj(st.state))
        proved == sf(st).sc.refinements[st.task]
    IN  /\ Validate(TaskContexts(sf(st))[st.task], defsOf(st), state, Exactly) # Fail
        /\ \A p \in DOMAIN proved : (ValueAt(state, p) = Null) = (proved[p] = "exactlyNull")

\* A completed row holds what its definition publishes, a raised one the data of its code.
FitsPublished(st) ==
    LET has(p) == Materialize(FieldOr(st.state, p, Null))
    IN  /\ st.status = "completed" => \A s \in ToSet(sf(st).output) : Validate(s, defsOf(st), has("output"), Strict) # Fail
        /\ st.status = "raised" =>
              /\ st.code[1] \in DOMAIN sf(st).raises
              /\ Validate(sf(st).raises[st.code[1]], defsOf(st), has("error_data"), Strict) # Fail

\* The verdict of `compat` on every pair of versions.
Reports ==
    [n \in DOMAIN Library |-> [p \in (DOMAIN Library[n]) \X (DOMAIN Library[n]) |-> Compare(Typed[n][p[1]][1], Typed[n][p[2]][1])]]

\* Every version compat calls clean can take the row.
TakenWhereClean(st) ==
    LET clean == {v \in DOMAIN Library[st.name] : Reports[st.name][<<st.version, v>>].upgrade}
    IN  \A v \in clean : moved(st, v) # Fail

\* The most retries a rule of the task grants, in any version the row may have moved from.
budgetOf(st, environ) ==
    LET under(v) == [st EXCEPT !.version = v, !.config = ResolveConfig(Lib[st.name][v], environ)[1]]
        able == {v \in DOMAIN Library[st.name] : /\ ResolveConfig(Lib[st.name][v], environ) # Fail
                                                /\ st.task \in taskIDs(Lib[st.name][v])}
        granted == UNION {{resolveRetry(under(v), r.retry, Null) : r \in {r \in ToSet(taskOf(under(v)).onError) : r.retry # NoRetry}} : v \in able}
    IN  Max({0} \cup {g.v : g \in {x \in granted : x.k = "val"}})

=============================================================================
