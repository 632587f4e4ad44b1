------------------------------ MODULE Advance -------------------------------
(***************************************************************************)
(* One advance of one instance (internal/engine): from the row a worker    *)
(* claimed and the one exchange it may have with a server, to the row it   *)
(* writes and the children it starts.  An advance makes at most one call,  *)
(* so it is a function of that exchange.                                   *)
(***************************************************************************)
EXTENDS Compat

CONSTANTS
    Slots,            \* the child slots, in the order a batch is resolved in; "" is a single child
    maxInlineTasks    \* bound: tasks without a call that one advance runs through (1000 in the code)

ASSUME MaxInlineAssumption == maxInlineTasks \in Nat

(***************************************************************************)
(* The library: what the registration gate lets in.                        *)
(***************************************************************************)
Typed == [n \in DOMAIN Lib |-> [v \in DOMAIN Lib[n] |->
             IF ValidateDefinition(Lib[n][v]) THEN Generate(Lib[n][v]) ELSE Fail]]

Library == [n \in DOMAIN Lib |-> [v \in {v \in DOMAIN Lib[n] : Typed[n][v] # Fail} |-> Lib[n][v]]]

\* The versions that can be started: typed, and agreeing with every child they call.
Gated == [n \in DOMAIN Lib |-> {v \in DOMAIN Library[n] : ValidateChildProcessRefs(Library, Lib[n][v], v)}]

sf(st) == Typed[st.name][st.version][1]
defsOf(st) == sf(st).sc.defs

ResolveChildVersion(st, call) ==
    IF Set(call.version) THEN call.version[1]
    ELSE IF call.name = st.name THEN st.version ELSE Max(DOMAIN Library[call.name])

(***************************************************************************)
(* Configuration, resolved anew by every advance: the variable of the      *)
(* process, else the global one, else the default.  A variable is its text *)
(* and the other values it can be read as.                                 *)
(***************************************************************************)
Raw(text, as) == [s |-> text, as |-> as]

coerceConfigValue(prop, raw) ==
    LET read == {v \in {Str(raw.s)} \cup raw.as : \E t \in prop.type : valueHasType(v, t)}
    IN  IF read = {} THEN Fail ELSE Ok(CHOOSE v \in read : TRUE)

ResolveConfig(d, environ) ==
    LET props == d.config[1].props
        from(p) == {k \in DOMAIN environ : k \in {<<d.name, p>>, <<"global", p>>} /\ environ[k].s # ""}
        raw(p) == environ[IF <<d.name, p>> \in from(p) THEN <<d.name, p>> ELSE <<"global", p>>]
        value == [p \in DOMAIN props |-> IF from(p) # {} THEN coerceConfigValue(props[p], raw(p)) ELSE props[p].dflt]
        given == {p \in DOMAIN props : value[p] # <<>>}
        all == Obj([p \in given |-> value[p][1]])
    IN  IF ~Set(d.config) THEN Ok(Obj(<<>>))
        ELSE IF \E p \in DOMAIN props \ given : from(p) # {} \/ p \in d.config[1].req THEN Fail
        ELSE IF Validate(d.config[1], NoDefs, all, Strict) = Fail THEN Fail ELSE Ok(all)

(***************************************************************************)
(* Results of a step that can fail.                                        *)
(***************************************************************************)
Val(v) == [k |-> "val", v |-> v]
Err(code) == [k |-> "err", code |-> code]

OrElse(r, f(_)) == IF r.k = "err" THEN r ELSE f(r.v)

(***************************************************************************)
(* The environment of an expression.  Only the roots it reads are brought  *)
(* in, and only those it looks through are loaded.                         *)
(***************************************************************************)
RECURSIVE Materialize(_)
Materialize(v) ==
    CASE v.k = "marker" -> Materialize(v.of)
      [] v.k = "array" -> Arr([i \in DOMAIN v.e |-> Materialize(v.e[i])])
      [] v.k = "object" -> Obj([p \in DOMAIN v.m |-> Materialize(v.m[p])])
      [] OTHER -> v


outputsOf(st) == st.state["outputs"].m

buildEnv_unread(st, self, roots, caught) ==
    LET read(p) == \E r \in roots : r.path = p
        through(p) == Root(p, TRUE) \in roots
        load(v, yes) == IF yes THEN Materialize(v) ELSE v
        orNull(v, p) == IF v.k = "marker" /\ ~read(p) THEN Null ELSE v
        failure(v, ns) ==
            IF v.k = "object" /\ through(<<ns, "data">>)
            THEN Obj(("data" :> Materialize(FieldOr(v.m, "data", Null))) @@ v.m) ELSE orNull(v, <<ns>>)
        own == IF self.k = "object" THEN self.m ELSE <<>>
        previous == IF "previous" \in DOMAIN own THEN st.task :> own["previous"] ELSE <<>>
        outs == previous @@ outputsOf(st)
        shown == {id \in DOMAIN outs : outs[id].k # "marker" \/ read(<<"outputs">>)}
        input == FieldOr(st.state, "input", Null)
    IN  [self |-> IF own = <<>> THEN self
                  ELSE Obj([p \in DOMAIN own |-> load(own[p], p = "previous" /\ through(<<"self", p>>))]),
         config |-> st.config,
         input |-> orNull(load(input, through(<<"input">>)), <<"input">>),
         error |-> failure(IF Set(caught) THEN caught[1] ELSE Null, "error"),
         last_error |-> failure(FieldOr(st.state, "last_error", Null), "last_error"),
         outputs |-> Obj([id \in shown |->
                             load(outs[id], through(<<"outputs">>) \/ through(<<"outputs", id>>))])]

buildEnv(st, self, roots, caught) ==
    LET read(p) == \E r \in roots : r.path = p
        through(p) == Root(p, TRUE) \in roots
        load(v, yes) == IF yes THEN Materialize(v) ELSE v
        orNull(v, p) == IF v.k = "marker" /\ ~read(p) THEN Null ELSE v
        failure(v, ns) ==
            IF v.k = "object" /\ through(<<ns, "data">>)
            THEN Obj(("data" :> Materialize(FieldOr(v.m, "data", Null))) @@ v.m) ELSE orNull(v, <<ns>>)
        own == IF self.k = "object" THEN self.m ELSE <<>>
        previous == IF "previous" \in DOMAIN own THEN st.task :> own["previous"] ELSE <<>>
        outs == previous @@ outputsOf(st)
        shown == {id \in DOMAIN outs : outs[id].k # "marker" \/ read(<<"outputs">>) \/ read(<<"outputs", id>>)}
        input == FieldOr(st.state, "input", Null)
    IN  [self |-> IF own = <<>> THEN self
                  ELSE Obj([p \in DOMAIN own |-> load(own[p], p = "previous" /\ through(<<"self", p>>))]),
         config |-> st.config,
         input |-> orNull(load(input, through(<<"input">>)), <<"input">>),
         error |-> failure(IF Set(caught) THEN caught[1] ELSE Null, "error"),
         last_error |-> failure(FieldOr(st.state, "last_error", Null), "last_error"),
         outputs |-> Obj([id \in shown |->
                             load(outs[id], through(<<"outputs">>) \/ through(<<"outputs", id>>))])]

evalShape(st, n, self, caught) ==
    LET v == evalNode(n, buildEnv(st, self, collectRoots(n, {}, FALSE), caught))
    IN  IF v = Fail THEN Err(Engine("expression")) ELSE Val(v[1])

conformDeclared(r, declared, defs, violation) ==
    OrElse(r, LAMBDA v :
        IF ~Set(declared) THEN Val(v)
        ELSE LET c == Validate(declared[1], defs, v, Exactly) IN IF c = Fail THEN Err(violation) ELSE Val(c[1]))

selfBeforeOutput(st) == Obj([previous |-> FieldOr(outputsOf(st), st.task, Null)])

(***************************************************************************)
(* What an advance leaves: the row, whether its children so far are gone,  *)
(* and the children it starts.                                             *)
(***************************************************************************)
Outcome(st, left, kids) == [st |-> st, left |-> left, kids |-> kids]
Stay(st) == Outcome(st, FALSE, <<>>)
Leave(st) == Outcome(st, TRUE, <<>>)

failInstance(st, code) ==
    Stay([st EXCEPT !.status = "failed", !.phase = "none", !.wake = FALSE, !.code = <<code>>])

setErrorData(st, data) ==
    [st EXCEPT !.state = [p \in DOMAIN st.state \ {"error_data"} |-> st.state[p]]
                         @@ (IF data = Null THEN <<>> ELSE "error_data" :> data)]

evalFaultData(st, f, self, caught) == IF Set(f.data) THEN evalShape(st, f.data[1], self, caught) ELSE Val(Null)

raiseInstance(st, f, self, caught) ==
    LET data == evalFaultData(st, f, self, caught) IN
    IF data.k = "err" THEN failInstance(st, data.code)
    ELSE Leave([setErrorData(st, data.v) EXCEPT !.status = "raised", !.phase = "none", !.wake = FALSE, !.code = <<f.code>>])

panicInstance(st, f, self, caught) ==
    LET data == evalFaultData(st, f, self, caught) IN
    IF data.k = "err" THEN failInstance(st, data.code) ELSE failInstance(setErrorData(st, data.v), f.code)

computeOutput(st, caught) ==
    conformDeclared(evalShape(st, def(st).output[1], Null, caught), def(st).outputSchema, defsOf(st), Engine("output"))

complete(st, caught) ==
    LET done == [st EXCEPT !.status = "completed", !.wake = FALSE]
        out == computeOutput(done, caught)
    IN  IF ~Set(def(st).output) THEN Leave(done)
        ELSE IF out.k = "err" THEN failInstance(done, out.code)
        ELSE Leave([done EXCEPT !.state = ("output" :> out.v) @@ @])

enterTask(st, id) == [st EXCEPT !.task = id, !.retry = 0, !.wake = FALSE]

(***************************************************************************)
(* The clause that decides: the first whose case does not evaluate to      *)
(* false, and a case that is no boolean decides against the instance.      *)
(***************************************************************************)
decidingClause(st, clauses, eligible, self, caught) ==
    LET verdict(i) == IF Set(clauses[i].case) THEN evalShape(st, clauses[i].case[1], self, caught) ELSE Val(Bool(TRUE))
        open == {i \in eligible : verdict(i) # Val(Bool(FALSE))}
    IN  IF open = {} THEN Val(<<>>)
        ELSE IF verdict(Min(open)) = Val(Bool(TRUE)) THEN Val(<<clauses[Min(open)]>>)
        ELSE Err(Engine("expression"))

evalSwitch(st, t, self) == decidingClause(st, t.switch, DOMAIN t.switch, self, <<>>)

matchOnErrorWith(st, t, code, caught) ==
    decidingClause(st, t.onError, {i \in DOMAIN t.onError : ruleCatches(t.onError[i], code)},
                   selfBeforeOutput(st), <<caught>>)

\* The number of retries a rule grants; every bound of a computed slot is checked only now.
resolveRetry(st, r, caught) ==
    LET slot(s, unset) == IF Set(s) THEN evalShape(st, s[1], selfBeforeOutput(st), <<caught>>) ELSE Val(Half(unset))
        retries == slot(r.retries, 0)
        factor == slot(r.factor, 4)
        delay == slot(r.delay, 2)
        ceiling == slot(r.max_delay, 2 * NumLimit)
        all == {retries, factor, delay, ceiling}
    IN  IF \E x \in all : x.k = "err" \/ (x.k = "val" /\ x.v.k # "number") THEN Err(Engine("expression"))
        ELSE IF \/ ~isIntegral(retries.v) \/ retries.v.n < 0 \/ factor.v.n < 2
                \/ delay.v.n <= 0 \/ ~isIntegral(delay.v) \/ ~isIntegral(ceiling.v) \/ ceiling.v.n < delay.v.n
          THEN Err(Engine("expression"))
        ELSE Val(retries.v.n \div 2)

isRetryAllowed(t, rule, code) ==
    t.onlyOnce => ~IsUnknowable(code) /\ (IsNotReached(code) \/ rule.notReached = <<TRUE>>)

(***************************************************************************)
(* A failed call.  `last_error` is replaced only after the clause, which   *)
(* may still read the failure that led into this task.                     *)
(***************************************************************************)
RECURSIVE JoinCode(_)
JoinCode(code) == IF Len(code) = 1 THEN code[1] ELSE code[1] \o "." \o JoinCode(Tail(code))

errorValue(st, code, extra) ==
    Obj(extra @@ [task |-> Str(st.task), code |-> Str(JoinCode(code)), message |-> Str("m")])

applyRule(st, rule, code, caught) ==
    LET self == selfBeforeOutput(st)
        after(o) == [o EXCEPT !.st.state = ("last_error" :> caught) @@ @]
    IN  after(IF ~Set(rule) \/ (Set(rule) /\ Outcomes(rule[1]) = {}) THEN failInstance(st, code)
              ELSE IF Set(rule[1].raise) THEN raiseInstance(st, rule[1].raise[1], self, <<caught>>)
              ELSE IF Set(rule[1].panic) THEN panicInstance(st, rule[1].panic[1], self, <<caught>>)
              ELSE IF rule[1].goto = GotoEnd THEN complete([st EXCEPT !.retry = 0], <<caught>>)
              ELSE Leave(enterTask(st, rule[1].goto[1])))

handleCallErrorWith(st, t, code, extra) ==
    LET caught == errorValue(st, code, extra)
        rule == matchOnErrorWith(st, t, code, caught)
        budget == resolveRetry(st, rule.v[1].retry, caught)
        retrying == rule.k = "val" /\ Set(rule.v) /\ (Set(rule.v) => rule.v[1].retry # NoRetry)
    IN  IF rule.k = "err" THEN failInstance(st, rule.code)
        ELSE IF retrying /\ budget.k = "err" THEN failInstance(st, budget.code)
        ELSE IF retrying /\ (st.retry < budget.v /\ isRetryAllowed(t, rule.v[1], code))
          THEN Leave([st EXCEPT !.retry = @ + 1, !.wake = TRUE])
        ELSE applyRule(st, rule.v, code, caught)

handleCallError(st, t, code) == handleCallErrorWith(st, t, code, <<>>)

(***************************************************************************)
(* Actions: Go on with a result, or Stop the advance with an outcome.      *)
(***************************************************************************)
Go(st, result, meta) == [k |-> "go", st |-> st, result |-> result, meta |-> meta]
Stop(o) == [k |-> "stop", out |-> o]

\* Milliseconds from now of a time given as a number; a text is always in the future here.
resolveSpec(st, spec) ==
    LET n == IF Set(spec.for) THEN spec.for[1] ELSE spec.until[1]
        v == evalShape(st, n, selfBeforeOutput(st), <<>>)
    IN  IF n.op = "lit" THEN Val(1)
        ELSE OrElse(v, LAMBDA x : IF x.k # "number" \/ (x.k = "number" /\ (~isIntegral(x) \/ (Set(spec.for) /\ x.n < 0)))
                                  THEN Err(Engine("expression")) ELSE Val(x.n \div 2))

fetchTimeout(st, a) ==
    IF ~Set(a.timeout) THEN Val(Null)
    ELSE OrElse(resolveSpec(st, a.timeout[1]), LAMBDA ms : IF ms <= 0 THEN Err(Engine("expression")) ELSE Val(Null))

\* A slot that must evaluate to one kind of value, then fit what it declares.
resolveSlot(st, slot, kind, declared) ==
    IF ~Set(slot) THEN Val(Null)
    ELSE LET v == evalShape(st, slot[1], selfBeforeOutput(st), <<>>)
             c == conformDeclared(v, declared, defsOf(st), Engine("input"))
         IN  OrElse(c, LAMBDA x : IF kind # "" /\ x.k # kind THEN Err(Engine("expression")) ELSE Val(x))

resolveBody(st, a) ==
    IF ~Set(a.body) THEN Val(Null)
    ELSE LET v == evalShape(st, a.body[1], selfBeforeOutput(st), <<>>)
         IN  conformDeclared(OrElse(v, LAMBDA x : Val(Materialize(x))), a.body_schema, defsOf(st), Engine("input"))

(***************************************************************************)
(* The exchange: [k |-> "broke", connected, expired] when no answer came,  *)
(* else [k |-> "answered", status, body] with body [k |-> "json", v], or   *)
(* k one of "empty", "garbled", "long", and "cut" when the connection went *)
(* before its first byte.                                                  *)
(***************************************************************************)
ClassifyGoError(x) ==
    CASE x.expired /\ x.connected -> HTTPTimeout
      [] x.expired /\ ~x.connected -> PreTimeout
      [] ~x.expired /\ x.connected -> HTTPDisconnected
      [] OTHER -> PreError

\* An unaccepted answer is read as far as it came.
doHTTP(body, accepted) ==
    CASE body.k = "json" -> Val(body.v)
      [] body.k = "empty" -> Val(Null)
      [] body.k = "cut" -> IF accepted THEN Err(ResultParse) ELSE Val(Null)
      [] body.k = "garbled" -> Err(ResultParse)
      [] body.k = "long" -> Err(ResultTooLarge)

resolveAcceptedStatus(v) == IF v = Null THEN {} ELSE {ParsePattern(s.s) : s \in ToSet(v.e)}

handleResponse(st, t, r, accepted) ==
    LET declared == ResponseFor(t.action[1], r.status)
        body == doHTTP(r.body, MatchAnyStatus(r.status, accepted))
        ignored == declared = <<<<>>>>
        typed == IF ignored THEN Ok(Null) ELSE IF ~Set(declared) THEN Ok(body.v)
                 ELSE Validate(declared[1][1], defsOf(st), body.v, Strict)
        unreadable == ~ignored /\ body.k = "err"
        fault == IF unreadable THEN body.code ELSE ResultInvalid
        headers == Obj(<<>>)
    IN  IF ~MatchAnyStatus(r.status, accepted)
        THEN Stop(IF ~Set(declared) THEN handleCallError(st, t, HTTP(r.status))
                  ELSE IF unreadable THEN handleCallError(st, t, fault)
                  ELSE IF typed = Fail THEN handleCallError(st, t, fault)
                  ELSE handleCallErrorWith(st, t, HTTP(r.status), "data" :> typed[1]))
        ELSE IF unreadable THEN Stop(handleCallError(st, t, fault))
        ELSE IF typed = Fail THEN Stop(handleCallError(st, t, fault))
        ELSE Go([st EXCEPT !.retry = 0], typed[1], [status |-> Num(r.status), headers |-> headers])

executeAction(st, t, r) ==
    LET a == t.action[1]
        status == resolveSlot(st, a.accepted_status, "array", <<>>)
        slots == << fetchTimeout(st, a), resolveSlot(st, a.url, "", <<>>), resolveSlot(st, a.method, "", <<>>),
                    resolveSlot(st, a.headers, "object", <<>>), resolveSlot(st, a.query, "object", a.query_schema),
                    resolveBody(st, a), status >>
        failed == {i \in DOMAIN slots : slots[i].k = "err"}
    IN  IF failed # {} THEN Stop(failInstance(st, slots[Min(failed)].code))
        ELSE IF r.k = "broke" THEN Stop(handleCallError(st, t, ClassifyGoError(r)))
        ELSE handleResponse(st, t, r, EffectiveAcceptedStatus(a, resolveAcceptedStatus(status.v)))

runDelay(st, t) ==
    LET at == resolveSpec(st, t.action[1]) IN
    IF st.wake THEN Go(st, Null, <<>>)
    ELSE Stop(IF at.k = "err" THEN failInstance(st, at.code) ELSE Stay([st EXCEPT !.wake = TRUE]))

clearExternalPark(st) == [st EXCEPT !.phase = "none", !.lost = FALSE]

\* Every failure to build the task's data is an expression failure, a violation too.
buildTaskData(st, a) ==
    LET v == IF Set(a.input) THEN evalShape(st, a.input[1], selfBeforeOutput(st), <<>>) ELSE Val(Obj(<<>>))
    IN  conformDeclared(v, a.input_schema, defsOf(st), Engine("expression"))

runExternal(st, t) ==
    LET free == clearExternalPark(st)
        buffered == FieldOr(st.signals, t.id, <<>>)
        answer == buffered[1]
        taken == [free EXCEPT !.signals[t.id] = Tail(@)]
        data == buildTaskData(st, t.action[1])
        due == IF Set(t.action[1].timeout) THEN resolveSpec(st, t.action[1].timeout[1]) ELSE Val(Null)
    IN  IF buffered # <<>>
        THEN IF answer.k = "result" THEN Go(taken, answer.v, <<>>)
             ELSE Stop(handleCallErrorWith(taken, t, answer.code, IF Set(answer.data) THEN "data" :> answer.data[1] ELSE <<>>))
        ELSE IF st.phase = "external"
          THEN Stop(handleCallError(free, t, IF st.lost THEN ExternalLost ELSE ExternalTimeout))
        ELSE Stop(IF data.k = "err" THEN failInstance(st, data.code)
                  ELSE IF due.k = "err" THEN failInstance(st, due.code)
                  ELSE Stay([st EXCEPT !.phase = "external", !.wake = Set(t.action[1].timeout)]))

(***************************************************************************)
(* Children.                                                               *)
(***************************************************************************)
\* `strayed` and `missed` are history: whether the row was sent on from a collect and kept the phase,
\* and whether an upgrade of its tree was written without it.
newChildInstance(name, version, input) ==
    [name |-> name, version |-> version, task |-> Lib[name][version].tasks[1].id, status |-> "running",
     phase |-> "none", retry |-> 0, wake |-> FALSE, lost |-> FALSE, code |-> <<>>, override |-> FALSE, attempt |-> 0,
     strayed |-> FALSE, missed |-> FALSE, signals |-> <<>>, config |-> Null, state |-> [input |-> input, outputs |-> Obj(<<>>)]]

buildChild(st, call, input) ==
    LET v == ResolveChildVersion(st, call)
        given == conformDeclared(input, call.input_schema, defsOf(st), Engine("input"))
        accepted(x) == IF Set(Lib[call.name][v].input)
                       THEN Validate(Lib[call.name][v].input[1], sf([name |-> call.name, version |-> v]).sc.defs, x, Strict)
                       ELSE Ok(x)
    IN  IF v \notin DOMAIN Library[call.name] THEN Err(Engine("definition"))
        ELSE OrElse(given, LAMBDA x : IF accepted(x) = Fail THEN Err(Engine("input"))
                                     ELSE Val(newChildInstance(call.name, v, accepted(x)[1])))

callOf(a, key) == IF a.type = "child_map" THEN a.children[key] ELSE CHOOSE c \in calls(a) : TRUE

evalChildInput(st, call) ==
    IF ~Set(call.input) THEN Val(Obj(<<>>))
    ELSE OrElse(evalShape(st, call.input[1], selfBeforeOutput(st), <<>>), LAMBDA v : Val(Materialize(v)))

\* What phase 1 spawns: slot -> child, the first slot that fails deciding.
freshBatch(st, t) ==
    LET a == t.action[1]
        over == OrElse(evalShape(st, a.over[1], selfBeforeOutput(st), <<>>), LAMBDA v : Val(Materialize(v)))
        items == IF a.type # "child_list" THEN Val(Null)
                 ELSE OrElse(over, LAMBDA v : IF v.k \in {"array", "null"} THEN Val(v) ELSE Err(Engine("expression")))
        keys == CASE a.type = "child" -> {""}
                  [] a.type = "child_map" -> DOMAIN a.children
                  [] OTHER -> IF items.v = Null THEN {} ELSE {ToString(i) : i \in DOMAIN items.v.e}
        input(key) == IF a.type = "child_list" THEN Val(CHOOSE x \in ToSet(items.v.e) :
                                                  \E i \in DOMAIN items.v.e : ToString(i) = key /\ x = items.v.e[i])
                      ELSE evalChildInput(st, callOf(a, key))
        child == [key \in keys |-> buildChild(st, callOf(a, key), input(key))]
        failed == {i \in DOMAIN Slots : Slots[i] \in keys /\ child[Slots[i]].k = "err"}
    IN  IF items.k = "err" THEN items
        ELSE IF failed # {} THEN child[Slots[Min(failed)]]
        ELSE Val([key \in keys |-> child[key].v])

resolveAndValidateChildOutput(st, declared, kid) ==
    LET out == Materialize(FieldOr(kid.state, "output", Null))
    IN  IF Set(declared) THEN Validate(declared[1], defsOf(st), out, Strict) ELSE Ok(out)

\* The result schema of a slot, under the definition the parent is on now.
resultSchemaOf(a, key) ==
    IF a.type # "child_map" THEN a.result_schema
    ELSE IF key \in DOMAIN a.children THEN a.children[key].result_schema ELSE <<>>

\* Fail, engine.collect when the batch is not of the task's kind, or the batch's result.
buildChildOutput(st, t, kids) ==
    LET a == t.action[1]
        out == [key \in DOMAIN kids |-> resolveAndValidateChildOutput(st, resultSchemaOf(a, key), kids[key])]
        index == {ToString(i) : i \in 1..Cardinality(DOMAIN kids)}
        valid == \A key \in DOMAIN kids : out[key] # Fail
    IN  CASE a.type = "child" -> IF Cardinality(DOMAIN kids) # 1 THEN Err(Engine("collect"))
                                 ELSE IF valid THEN Val(out[CHOOSE key \in DOMAIN kids : TRUE][1]) ELSE Err(ResultInvalid)
          [] a.type = "child_list" -> IF DOMAIN kids # index THEN Err(Engine("collect"))
                                      ELSE IF valid THEN Val(Arr([i \in 1..Cardinality(index) |-> out[ToString(i)][1]]))
                                      ELSE Err(ResultInvalid)
          [] OTHER -> IF valid THEN Val(Obj([key \in DOMAIN kids |-> out[key][1]])) ELSE Err(ResultInvalid)

\* <<>> when the code declares no data, Fail in a slot of its own when the payload does not fit.
raisedData(st, t, key, kid) ==
    LET a == t.action[1]
        raises == IF a.type # "child_map" THEN a.raises
                  ELSE IF key \in DOMAIN a.children THEN a.children[key].raises ELSE <<>>
        declared == FieldOr(raises, kid.code[1], <<>>)
    IN  IF Set(declared)
        THEN <<Validate(declared[1], defsOf(st), Materialize(FieldOr(kid.state, "error_data", Null)), Strict)>>
        ELSE <<>>

batchErrorValue(st, t, key, kid) ==
    LET data == raisedData(st, t, key, kid)
        slot == IF t.action[1].type = "child_map" THEN "child_key" :> Str(key)
                ELSE IF t.action[1].type = "child_list" THEN "child_index" :> Num((CHOOSE i \in 1..Len(Slots) : ToString(i) = key) - 1)
                ELSE <<>>
    IN  errorValue(st, kid.code[1], slot @@ (IF Set(data) /\ data # <<Fail>> THEN "data" :> data[1][1] ELSE <<>>))

invalidPayload(st, t, key, kid) == raisedData(st, t, key, kid) = <<Fail>>

slotCode(st, t, key, kid) == IF invalidPayload(st, t, key, kid) THEN ResultInvalid ELSE kid.code[1]

admitRetry_fresh(st, t, key, kid) ==
    LET caught == batchErrorValue(st, t, key, kid)
        rule == matchOnErrorWith(st, t, slotCode(st, t, key, kid), caught)
    IN  IF st.override THEN Val(TRUE)
        ELSE OrElse(rule, LAMBDA c :
            IF ~Set(c) THEN Val(FALSE)
            ELSE IF c[1].retry = NoRetry THEN Val(FALSE)
            ELSE OrElse(resolveRetry(st, c[1].retry, caught), LAMBDA n : Val(st.retry < n)))

\* Whether one raised slot is run again: Val(TRUE), Val(FALSE) or a failure.
admitRetry(st, t, key, kid) ==
    LET caught == batchErrorValue(st, t, key, kid)
        rule == matchOnErrorWith(st, t, slotCode(st, t, key, kid), caught)
    IN  IF st.override THEN Val(TRUE)
        ELSE OrElse(rule, LAMBDA c :
            IF ~Set(c) THEN Val(FALSE)
            ELSE IF c[1].retry = NoRetry THEN Val(FALSE)
            ELSE OrElse(resolveRetry(st, c[1].retry, caught), LAMBDA n : Val(kid.attempt < n)))

resolveRaisedBatch(st, t, kids) ==
    LET raised == SelectSeq(Slots, LAMBDA s : s \in DOMAIN kids /\ (s \in DOMAIN kids => kids[s].status = "raised"))
        verdict == [i \in DOMAIN raised |-> admitRetry(st, t, raised[i], kids[raised[i]])]
        failed == {i \in DOMAIN raised : verdict[i].k = "err"}
        again == {raised[i] : i \in {i \in DOMAIN raised : verdict[i] = Val(TRUE)}}
        fresh == freshBatch(st, t)
        granted == [st EXCEPT !.override = FALSE]
        done == [granted EXCEPT !.phase = "none"]
        first == raised[1]
        caught == batchErrorValue(st, t, first, kids[first])
        rule == matchOnErrorWith(done, t, kids[first].code[1], caught)
    IN  IF failed # {} THEN failInstance(granted, verdict[Min(failed)].code)
        ELSE IF again # {}
          THEN IF fresh.k = "err" THEN failInstance(granted, fresh.code)
               ELSE IF ~(again \subseteq DOMAIN fresh.v) THEN failInstance(granted, Engine("spawn"))
               ELSE Outcome([granted EXCEPT !.phase = "children"], FALSE,
                            [s \in again |-> [fresh.v[s] EXCEPT !.attempt = kids[s].attempt + 1, !.wake = TRUE]])
        ELSE IF invalidPayload(st, t, first, kids[first]) THEN handleCallError(done, t, ResultInvalid)
        ELSE IF rule.k = "err" THEN applyRule(done, <<>>, rule.code, caught)
        ELSE applyRule(done, rule.v, kids[first].code[1], caught)

\* `kids` is the settled batch of the task, empty before it is spawned.
runChildProcesses(st, t, kids) ==
    LET free == [st EXCEPT !.phase = "none"]
        out == buildChildOutput(st, t, kids)
        batch == freshBatch(st, t)
    IN  IF st.phase = "children"
        THEN IF \E s \in DOMAIN kids : kids[s].status = "raised" THEN Stop(resolveRaisedBatch(st, t, kids))
             ELSE IF out.k = "val" THEN Go(free, out.v, <<>>)
             ELSE Stop(IF out.code = ResultInvalid THEN handleCallError(free, t, ResultInvalid)
                       ELSE failInstance(free, out.code))
        ELSE IF batch.k = "err" THEN Stop(failInstance(st, batch.code))
        ELSE IF batch.v = <<>> THEN Go(st, Arr(<<>>), <<>>)
        ELSE Stop(Outcome([st EXCEPT !.phase = "children", !.retry = 0, !.wake = FALSE], TRUE, batch.v))

runAction(st, t, r, kids) ==
    CASE ~Set(t.action) -> Go(st, Null, <<>>)
      [] actionTypeOf(t) = "fetch" -> executeAction(st, t, r)
      [] actionTypeOf(t) = "delay" -> runDelay(st, t)
      [] actionTypeOf(t) = "external" -> runExternal(st, t)
      [] OTHER -> runChildProcesses(st, t, kids)

(***************************************************************************)
(* The loop: run the task, store its output, and follow its switch, as     *)
(* long as no call has been made.                                          *)
(***************************************************************************)
setTaskOutput(st, v) == [st EXCEPT !.state["outputs"] = Obj((st.task :> v) @@ outputsOf(st))]

forgetError(st) == [st EXCEPT !.state = [p \in DOMAIN st.state \ {"last_error"} |-> st.state[p]]]

RECURSIVE runTasks(_, _, _, _, _)

follow(st, t, i, inlined, self, r, kids) ==
    LET clause == evalSwitch(st, t, self)
        c == clause.v[1]
        to == IF c.goto = GotoNext THEN i + 1 ELSE taskIndex(def(st), c.goto[2])
        id == IF to \in DOMAIN def(st).tasks THEN def(st).tasks[to].id ELSE ""
        entered == forgetError(enterTask(st, id))
    IN  IF clause.k = "err" THEN failInstance(st, clause.code)
        ELSE IF ~Set(clause.v) THEN failInstance(st, Engine("definition"))
        ELSE IF Set(c.raise) THEN raiseInstance(st, c.raise[1], self, <<>>)
        ELSE IF Set(c.panic) THEN panicInstance(st, c.panic[1], self, <<>>)
        ELSE IF c.goto = GotoEnd THEN complete([st EXCEPT !.retry = 0], <<>>)
        ELSE IF Set(t.action) \/ inlined >= maxInlineTasks THEN Leave(entered)
        ELSE runTasks(entered, to, inlined + 1, r, kids)

runTasks(st, i, inlined, r, kids) ==
    LET t == def(st).tasks[i]
        at == [st EXCEPT !.task = t.id]
        done == runAction(at, t, r, kids)
        before == [result |-> done.result, previous |-> IF taskHasOutput(t) THEN FieldOr(outputsOf(st), t.id, Null) ELSE Null]
                  @@ done.meta
        out == conformDeclared(evalShape(done.st, t.output[1], Obj(before), <<>>), t.outputSchema, defsOf(st), Engine("output"))
    IN  IF i \notin DOMAIN def(st).tasks THEN complete([st EXCEPT !.task = ""], <<>>)
        ELSE IF Set(t.action) /\ inlined > 0 /\ t.onlyOnce THEN Leave(at)
        ELSE IF done.k = "stop" THEN [done.out EXCEPT !.left = @ \/ inlined > 0]
        ELSE IF ~taskHasOutput(t) THEN follow(done.st, t, i, inlined, Obj(before), r, kids)
        ELSE IF out.k = "err" THEN failInstance(done.st, out.code)
        ELSE follow(setTaskOutput(done.st, out.v), t, i, inlined, Obj(("output" :> out.v) @@ before), r, kids)

interruptedOnlyOnce(st) == st.task # "" /\ (st.task # "" => taskOf(st).onlyOnce /\ Set(taskOf(st).action))

\* A row whose holder died may have made the call already.  The configuration is never stored.
advance(st, r, environ, kids, reclaimed) ==
    LET config == ResolveConfig(def(st), environ)
        i == IF st.task = "" THEN 0 ELSE taskIndex(def(st), st.task)
        ready == [st EXCEPT !.config = config[1]]
        o == IF reclaimed /\ interruptedOnlyOnce(st) THEN handleCallError(ready, taskOf(st), OnlyOnceInterrupted)
             ELSE runTasks(ready, i, 0, r, kids)
    IN  IF config = Fail THEN failInstance(st, Engine("config"))
        ELSE IF st.task # "" /\ st.task \notin taskIDs(def(st)) THEN failInstance(st, Engine("definition"))
        ELSE [o EXCEPT !.st.config = Null]

=============================================================================
