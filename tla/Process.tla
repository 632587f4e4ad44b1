------------------------------ MODULE Process -------------------------------
(***************************************************************************)
(* One process tree from its creation to its end, with its data: instances *)
(* advance (Advance.tla), fail and are retried, pause and resume, receive  *)
(* outcomes for their external tasks and are moved to other versions of    *)
(* their definition.  An advance is one step: what leases make of two      *)
(* workers on one row is Lease.tla's subject, the phases of a draining     *)
(* tree Tree.tla's, and the tasks of a worker queue External.tla's.        *)
(*                                                                         *)
(* The root is <<>> and a child is its parent's id and its slot.  The      *)
(* children of a task that was left are not kept.                          *)
(***************************************************************************)
EXTENDS Definition

\* What is computed of one row, as functions (Row.tla, Advance.tla).
CONSTANTS
    Gate(_, _),               \* whether a document is registered: process, version
    Started(_, _, _, _),      \* a new instance: process, version, input, environment
    Advanced(_, _, _, _, _),  \* an advance: row, exchange, environment, batch, whether its holder died
    Accepted(_, _, _),        \* an outcome as it is kept: row, external task, outcome
    Called(_, _, _, _),       \* the version of a child: parent row, its version, slot, process
    Moved(_, _),              \* the state on another version: row, version
    Overwrote(_),             \* whether the failure of a row was written over the error its task was entered with
    Fits(_),                  \* whether a row fits the context its task was typed in
    Published(_),             \* whether an ended row holds what its definition publishes
    Predicted(_),             \* whether every version compat calls clean takes the row
    Budget(_, _)              \* the most retries a rule of the task grants: row, environment

CONSTANTS
    Documents,     \* process inputs offered
    Answers,       \* by process: answers to its fetches (Advance.tla)
    Environs,      \* by process: environments an advance may find, <<process or "global", name>> -> Raw
    Submissions,   \* outcomes offered to an external task: [k |-> "result", v], [k |-> "failure", code, data]
    Large,         \* values too large for a row, kept as an object of their own
    MaxRevivals,   \* bound: operator retries
    MaxPauses,     \* bound: operator pauses
    MaxPlans,      \* bound: upgrades asked for
    RetriesOwn     \* bound: whether a row is retried whose failure overwrote the error it was entered with

VARIABLES
    inst,   \* the instances, by id
    plan,   \* <<>>, or an upgrade that was planned and not yet written
    asked   \* how often an operator has intervened

vars == <<inst, plan, asked>>

Registered == {p \in UNION {{n} \X DOMAIN Lib[n] : n \in DOMAIN Lib} : Gate(p[1], p[2])}

Id == <<>>
Children(id) == {k \in DOMAIN inst : Len(k) = Len(id) + 1 /\ SubSeq(k, 1, Len(id)) = id}
Below(id) == {k \in DOMAIN inst : Len(k) > Len(id) /\ SubSeq(k, 1, Len(id)) = id}
Above(id) == {SubSeq(id, 1, n) : n \in 0..Len(id) - 1}
Batch(id) == [s \in {k[Len(k)] : k \in Children(id)} |-> inst[Append(id, s)]]
ParentOf(id) == SubSeq(id, 1, Len(id) - 1)

Settled == {"completed", "raised"}

(***************************************************************************)
(* Storing a row: each slot of the state is cut on its own, the deepest    *)
(* value first, and a value that holds a marker stays.                     *)
(***************************************************************************)
RECURSIVE Whole(_)
Whole(v) ==
    CASE v.k = "marker" -> FALSE
      [] v.k = "array" -> \A x \in Range(v.e) : Whole(x)
      [] v.k = "object" -> \A x \in Range(v.m) : Whole(x)
      [] OTHER -> TRUE

RECURSIVE applyCut(_)
applyCut(v) ==
    LET inner == CASE v.k = "array" -> Arr([i \in DOMAIN v.e |-> applyCut(v.e[i])])
                   [] v.k = "object" -> Obj([p \in DOMAIN v.m |-> applyCut(v.m[p])])
                   [] OTHER -> v
    IN  IF v \in Large /\ Whole(inner) THEN Marker(v) ELSE inner

inMembers(v) == IF v.k = "object" THEN Obj([p \in DOMAIN v.m |-> applyCut(v.m[p])]) ELSE applyCut(v)

encodeState(state) ==
    [p \in DOMAIN state |->
        CASE p = "outputs" -> inMembers(state[p])
          [] p = "last_error" -> Obj([f \in DOMAIN state[p].m |-> IF f = "data" THEN applyCut(state[p].m[f]) ELSE state[p].m[f]])
          [] OTHER -> applyCut(state[p])]

stored(st) == [st EXCEPT !.state = encodeState(@)]

(***************************************************************************)
(* Creation, and the advance of one row.                                   *)
(***************************************************************************)
Create(n, v) ==
    /\ inst = <<>>
    /\ \E x \in Documents, e \in Environs[n] :
          /\ Started(n, v, x, e) # Fail
          /\ inst' = (Id :> stored(Started(n, v, x, e)[1]))
    /\ UNCHANGED <<plan, asked>>

drained_waiting(is, id) ==
    IF is[id].status # "failed" THEN is
    ELSE [k \in DOMAIN is |->
             IF k \in Above(id) THEN [is[k] EXCEPT !.status = "failed", !.wake = FALSE, !.code = is[id].code]
             ELSE IF is[k].status = "running" THEN [is[k] EXCEPT !.status = "paused"] ELSE is[k]]

\* A failure fails every ancestor, and pauses what else was running in the tree.
drained(is, id) ==
    IF is[id].status # "failed" THEN is
    ELSE [k \in DOMAIN is |->
             IF k \in Above(id) THEN [is[k] EXCEPT !.status = "failed", !.phase = "none", !.wake = FALSE, !.code = is[id].code]
             ELSE IF is[k].status = "running" THEN [is[k] EXCEPT !.status = "paused"] ELSE is[k]]

\* A row that left its task and still has the phase of a batch: the next child task collects a batch
\* it never spawned.
Strays(o) == o.left /\ o.kids = <<>> /\ o.st.phase = "children"

persist(id, o) ==
    LET row == [stored(o.st) EXCEPT !.strayed = @ \/ Strays(o)]
        gone == IF o.left THEN Below(id) ELSE UNION {Below(Append(id, s)) : s \in DOMAIN o.kids}
        started == [k \in {Append(id, s) : s \in DOMAIN o.kids} |-> stored(o.kids[k[Len(k)]])]
    IN  drained(started @@ (id :> row) @@ [k \in DOMAIN inst \ gone |-> inst[k]], id)

Ready(st, kids) ==
    /\ st.status = "running"
    /\ st.phase = "children" => \A s \in DOMAIN kids : kids[s].status \in Settled
    /\ st.phase = "external" => FieldOr(st.signals, st.task, <<>>) # <<>> \/ st.wake \/ st.lost

Claimed(id, reclaimed) ==
    /\ Ready(inst[id], Batch(id))
    /\ \E r \in Answers[inst[id].name], e \in Environs[inst[id].name] : inst' = persist(id, Advanced(inst[id], r, e, Batch(id), reclaimed))
    /\ UNCHANGED <<plan, asked>>

AdvanceRow == \E id \in DOMAIN inst : Claimed(id, FALSE)

\* The worker that held the row died in the middle of a task or of a collect, and its lease ran out.
Reclaim == \E id \in DOMAIN inst : Claimed(id, TRUE)

(***************************************************************************)
(* Outcomes of external tasks, validated against the version the instance  *)
(* is on when they are submitted, and kept until the task takes them.      *)
(***************************************************************************)
\* The front task or a later one.
SignalInstance(s) ==
    /\ \E id \in {k \in DOMAIN inst : inst[k].status \in {"running", "paused"}} :
       \E t \in ToSet(def(inst[id]).tasks) :
          /\ actionTypeOf(t) = "external"
          /\ FieldOr(inst[id].signals, t.id, <<>>) = <<>>
          /\ Accepted(inst[id], t, s) # Fail
          /\ inst' = [inst EXCEPT ![id].signals = (t.id :> Accepted(inst[id], t, s)) @@ @]
    /\ UNCHANGED <<plan, asked>>

\* The claim of a worker on an only_once task ran out.
ClaimLapsed ==
    /\ \E id \in DOMAIN inst :
          /\ inst[id].status = "running" /\ inst[id].phase = "external" /\ ~inst[id].lost
          /\ taskOf(inst[id]).onlyOnce
          /\ inst' = [inst EXCEPT ![id].lost = TRUE]
    /\ UNCHANGED <<plan, asked>>

(***************************************************************************)
(* The operator.                                                           *)
(***************************************************************************)
Ask(what, bound) == asked[what] < bound /\ asked' = [asked EXCEPT ![what] = @ + 1]

Pause ==
    /\ Id \in DOMAIN inst /\ inst[Id].status = "running"
    /\ Ask("pause", MaxPauses)
    /\ inst' = [k \in DOMAIN inst |-> IF inst[k].status = "running" THEN [inst[k] EXCEPT !.status = "paused"] ELSE inst[k]]
    /\ UNCHANGED plan

Resume ==
    /\ Id \in DOMAIN inst /\ inst[Id].status = "paused"
    /\ inst' = [k \in DOMAIN inst |-> IF inst[k].status = "paused" THEN [inst[k] EXCEPT !.status = "running"] ELSE inst[k]]
    /\ UNCHANGED <<plan, asked>>

\* The caught failure stays: the task may be one that is only ever entered with it.
Revive(k, override) ==
    [inst[k] EXCEPT !.status = "running", !.code = <<>>, !.wake = FALSE,
        !.phase = IF Children(k) = {} THEN "none" ELSE "children",
        !.override = override,
        !.state = [p \in DOMAIN @ \ {"error_data"} |-> @[p]]]

\* The batches that hold a slot the operator's retry gives a fresh child: the mark is kept for
\* one of them.
Overridden == {k \in DOMAIN inst : inst[k].status = "failed" /\ \E c \in Children(k) : inst[c].status = "raised"}

\* With force: the refusal of an only_once task is Lease.tla's subject.
RetryProcess ==
    /\ Id \in DOMAIN inst /\ inst[Id].status = "failed"
    /\ RetriesOwn \/ \A k \in DOMAIN inst : ~Overwrote(inst[k])
    /\ Ask("retry", MaxRevivals)
    /\ \E o \in IF Overridden = {} THEN {<<>>} ELSE {<<k>> : k \in Overridden} :
       inst' = [k \in DOMAIN inst |->
                  IF inst[k].status = "failed" THEN Revive(k, o = <<k>>)
                  ELSE IF inst[k].status = "paused" THEN [inst[k] EXCEPT !.status = "running"] ELSE inst[k]]
    /\ UNCHANGED plan

(***************************************************************************)
(* Moving a tree to another version: planned from what is read, written in *)
(* one transaction if every row is still on the version and the task it    *)
(* was planned from.                                                       *)
(***************************************************************************)
RevivableSubtree == {k \in DOMAIN inst : \A c \in Above(k) \cup {k} : inst[c].status \notin Settled}

\* The version the parent moves to names the child's: <<>> when it no longer does.
RECURSIVE childTargetVersion(_, _)
childTargetVersion(k, rootVersion) ==
    IF k = Id THEN <<rootVersion>>
    ELSE LET at == childTargetVersion(ParentOf(k), rootVersion)
         IN  IF at = <<>> THEN <<>> ELSE Called(inst[ParentOf(k)], at[1], k[Len(k)], inst[k].name)

planUpgrade(v) ==
    LET tree == RevivableSubtree
        to == [k \in tree |-> childTargetVersion(k, v)]
        moving == {k \in tree : to[k] # <<inst[k].version>>}
        state == [k \in moving |-> Moved(inst[k], to[k][1])]
    IN  IF \E k \in tree : to[k] = <<>> THEN Fail
        ELSE IF \E k \in moving : state[k] = Fail THEN Fail
        ELSE Ok([tree |-> {<<k, inst[k].attempt>> : k \in tree},
                 moves |-> [k \in moving |-> [from |-> inst[k].version, to |-> to[k][1], task |-> inst[k].task,
                                              attempt |-> inst[k].attempt, state |-> state[k][1]]]])

PlanUpgrade(v) ==
    /\ Id \in DOMAIN inst /\ inst[Id].status \notin Settled
    /\ plan = <<>> /\ <<inst[Id].name, v>> \in Registered /\ v # inst[Id].version
    /\ Ask("upgrade", MaxPlans)
    /\ planUpgrade(v) # Fail
    /\ plan' = planUpgrade(v)
    /\ UNCHANGED inst

\* The row is the one that was read: a slot spawned again is another row.
upgradable(k, m) ==
    k \in {c \in DOMAIN inst : inst[c].attempt = m.attempt /\ inst[c].version = m.from /\ inst[c].task = m.task
                               /\ inst[c].status \in {"paused", "failed"}}

\* A row of the tree that was spawned after the plan was made keeps its version.
unplanned(k) == k \in RevivableSubtree /\ <<k, inst[k].attempt>> \notin plan[1].tree

written(moves) ==
    [k \in DOMAIN inst |->
        IF k \in DOMAIN moves THEN stored([inst[k] EXCEPT !.version = moves[k].to, !.state = moves[k].state])
        ELSE [inst[k] EXCEPT !.missed = @ \/ unplanned(k)]]

UpgradeInstances_partial ==
    /\ plan # <<>>
    /\ plan' = <<>>
    /\ LET moves == plan[1].moves
       IN  inst' = written([k \in {c \in DOMAIN moves : upgradable(c, moves[c])} |-> moves[k]])
    /\ UNCHANGED asked

UpgradeInstances ==
    /\ plan # <<>>
    /\ plan' = <<>>
    /\ LET moves == plan[1].moves
       IN  inst' = IF \A k \in DOMAIN moves : upgradable(k, moves[k]) THEN written(moves) ELSE inst
    /\ UNCHANGED asked

-----------------------------------------------------------------------------
Init == inst = <<>> /\ plan = <<>> /\ asked = [pause |-> 0, retry |-> 0, upgrade |-> 0]

Next ==
    \/ \E p \in Registered : Create(p[1], p[2])
    \/ AdvanceRow \/ Reclaim \/ ClaimLapsed
    \/ \E s \in Submissions : SignalInstance(s)
    \/ Pause \/ Resume \/ RetryProcess
    \/ \E v \in {p[2] : p \in Registered} : PlanUpgrade(v)
    \/ UpgradeInstances

Spec == Init /\ [][Next]_vars

-----------------------------------------------------------------------------
Status == {"running", "paused", "failed"} \cup Settled

\* Every row is of a registered version and stands at one of its tasks; one that has failed or
\* raised waits for nothing, and an upgrade is planned only where something moves.
TypeOK ==
    /\ \A id \in DOMAIN inst :
          LET st == inst[id] IN
          /\ Above(id) \subseteq DOMAIN inst
          /\ <<st.name, st.version>> \in Registered
          /\ st.status \in Status
          /\ st.phase \in {"none", "external", "children"}
          /\ st.status \in {"failed", "raised"} => st.phase = "none"
          /\ st.strayed \in BOOLEAN /\ st.missed \in BOOLEAN
          /\ st.task \in taskIDs(def(st)) \cup {""}
          /\ st.retry \in Nat /\ st.attempt \in Nat
    /\ plan # <<>> => DOMAIN plan[1].moves # {}

\* A definition that was registered never fails for a reason its registration should have ruled
\* out (declared.go: such a failure "is a defect in genroc's type checking, which should have
\* refused the definition at registration"): no expression that cannot be evaluated, no value that
\* breaks what its slot declares, no batch that cannot be collected.  Not so a row whose only_once
\* child task was interrupted while it collected, nor what is above one: the rule it is routed by keeps
\* the phase, and the next child task collects a batch it never spawned (error.go, child.go).
NoTypeDefect ==
    \A id \in DOMAIN inst :
        Set(inst[id].code) /\ (\A k \in Below(id) \cup {id} : ~inst[k].strayed) =>
            Head(inst[id].code[1]) # "engine" \/ inst[id].code[1] = Engine("config")

\* Wherever a row that can still run stands, and whatever led it there (but for a collect of a batch
\* it never spawned), its stored state fits the
\* entry context registration gave the task, and what the conditions on every way there are said to
\* prove is true of it (context.go, guards.go): every slot of the task was typed in both.
EntryHolds ==
    \A id \in DOMAIN inst :
        inst[id].status \in {"running", "paused"} /\ inst[id].task # "" /\ ~inst[id].strayed => Fits(inst[id])

\* What a process ends with is what its definition publishes to its callers: a completed one its
\* output type, a raised one the data of the code (generate.go Check, raiseData).
OutputPublished == \A id \in DOMAIN inst : inst[id].status \in Settled /\ ~inst[id].strayed => Published(inst[id])

\* The most retries a rule of a row's task may grant.
Grants(st) == Max({Budget(st, e) : e \in Environs[st.name]})

\* A call and a slot are tried again only as often as a rule of the task grants, counted through
\* every other advance, upgrade and restart between the tries; an operator's retry adds at most one
\* try to a slot and none to a call (action.go handleCallError, collect.go admitRetries).
AttemptsBounded ==
    \A id \in DOMAIN inst :
        /\ inst[id].task # "" => inst[id].retry <= Grants(inst[id])
        /\ id # Id => inst[id].attempt <= Grants(inst[ParentOf(id)]) + asked["retry"]

\* A child that is not done is on the version its parent, where it stands, calls: an upgrade moves
\* the rows it was planned with together or not at all, whatever they did since (db_upgrade.go
\* UpgradeInstances: a stale move rolls the others back).  Not so a row spawned between the plan and
\* the write, and what is below it: nothing compares the tree that is written with the one that was
\* planned, and such a row stays on the version the old parent called.
ChildrenFollow ==
    \A k \in DOMAIN inst \ {Id} :
        inst[k].status \notin Settled /\ (\A c \in Above(k) \cup {k} : ~inst[c].missed) =>
            childTargetVersion(k, inst[Id].version) = <<inst[k].version>>

\* An upgrade that compat calls clean is never refused to an instance whose state is of its own
\* version (compat-command.md 2d: "They must accept exactly the same gaps: a relation tolerating more
\* promises an upgrade that then fails").  The state of a row is not when a failure overwrote the error
\* it was entered with, or when it collected a batch it never spawned.
UpgradePredicted ==
    \A id \in DOMAIN inst :
        inst[id].status \in {"paused", "failed"} /\ inst[id].task # "" /\ ~Overwrote(inst[id]) /\ ~inst[id].strayed =>
            Predicted(inst[id])

=============================================================================
