------------------------------- MODULE Lease -------------------------------
(***************************************************************************)
(* Leases, advances and the fenced write (internal/engine/engine.go,       *)
(* internal/engine/advance.go, internal/engine/error.go,                   *)
(* internal/db/db_claim.go, UpdateInstance* in internal/db/queries.sql).   *)
(*                                                                         *)
(* Workers claim rows of process_instances, advance each claimed row in    *)
(* memory and write the outcome once, in a transaction fenced on           *)
(* (lease_epoch, worker_id).  Every row here is a root without children or *)
(* an external wait; those are modules Tree and External.                  *)
(*                                                                         *)
(* Time is abstracted: a lease lapses whenever its holder does not renew   *)
(* it, and, as a fault, at any moment (a host that sleeps is a lease that  *)
(* lapses under a live advance).                                           *)
(*                                                                         *)
(* A definition is the sets of its tasks; a switch may go to any of them,  *)
(* so every task graph over these tasks is covered.                        *)
(***************************************************************************)
EXTENDS Naturals, FiniteSets

CONSTANTS
    Workers,        \* worker ids; one process run each, a restart is a new id
    Instances,      \* rows of process_instances
    NoWorker,       \* worker_id IS NULL
    Tasks,          \* task ids of the definition
    FirstTask,      \* where a new instance starts
    NoTask,         \* task = '': ran off the end of the list
    CallTasks,      \* tasks with a fetch action
    OnceTasks,      \* tasks with a fetch action and only_once: true
    DelayTasks,     \* tasks with a delay action; the rest only switch
    MaxConcurrent,  \* capacity of Engine.sem
    MaxRetries,     \* the largest retry budget an on_error rule grants
    MaxInline,      \* maxInlineTasks of advance()
    MaxTaskEpoch,   \* bound: transitions explored per instance
    MaxGrants,      \* bound: claims explored per instance
    MaxFaults,      \* bound: crashes, shutdowns, freezes and failed writes
    MaxVerbs        \* bound: operator verbs

ASSUME LeaseAssumption ==
    /\ NoWorker \notin Workers
    /\ NoTask \notin Tasks
    /\ FirstTask \in Tasks
    /\ CallTasks \subseteq Tasks
    /\ OnceTasks \subseteq Tasks
    /\ DelayTasks \subseteq Tasks
    /\ OnceTasks \cap (CallTasks \cup DelayTasks) = {}
    /\ CallTasks \cap DelayTasks = {}
    /\ MaxConcurrent \in Nat /\ MaxRetries \in Nat /\ MaxInline \in Nat
    /\ MaxTaskEpoch \in Nat /\ MaxGrants \in Nat
    /\ MaxFaults \in Nat /\ MaxVerbs \in Nat

VARIABLES
    row,      \* process_instances
    adv,      \* adv[i][e]: the advance running under grant e of row i
    held,     \* Engine.held of each worker: what its renewer renews
    inflight, \* Engine.inflight of each worker: the in-flight markers
    wstate,   \* "up", "draining", "abandoned" or "dead"
    ran,      \* history: calls of an only_once task that may have reached the
              \* remote, per instance and task entry
    faults,   \* faults so far
    verbs     \* operator verbs so far

vars == <<row, adv, held, inflight, wstate, ran, faults, verbs>>

-----------------------------------------------------------------------------
(* The columns an advance computes: task, task_epoch, retry_count and      *)
(* wake_at (NULL, ahead of the clock, or due).  entry is history: the      *)
(* task_epoch at which the task was entered, which a retry does not move.  *)
Cols == [task: Tasks \cup {NoTask}, tepoch: 0..MaxTaskEpoch,
         entry: 0..MaxTaskEpoch, retry: 0..MaxRetries,
         wake: {"nil", "future", "due"}]

Status == {"running", "pausing", "paused", "cancelling",
           "completed", "failed", "raised", "cancelled"}

Terminal == {"completed", "failed", "raised", "cancelled"}

Stopped == Terminal \cup {"paused"}

Row == [status: Status, cols: Cols, worker: Workers \cup {NoWorker},
        epoch: 0..MaxGrants, lapsed: BOOLEAN]

Kinds == {"progress", "update", "terminal"}

Outcome == [kind: Kinds, status: Status, cols: Cols]

(* claimed: leased, not dispatched; run: inside advance(); write: outcome  *)
(* reached, marker dropped, persist pending; closing: persist returned,    *)
(* the deferred dropLease pending.                                         *)
Adv == [pc: {"none", "claimed", "run", "write", "closing"},
        owner: Workers \cup {NoWorker}, reclaimed: BOOLEAN,
        base: Cols, iter: 0..MaxInline, out: Outcome]

FirstCols == [task |-> FirstTask, tepoch |-> 0, entry |-> 0, retry |-> 0,
              wake |-> "nil"]

NoAdv == [pc |-> "none", owner |-> NoWorker, reclaimed |-> FALSE,
          base |-> FirstCols, iter |-> 0,
          out |-> [kind |-> "progress", status |-> "running",
                   cols |-> FirstCols]]

Grants == 1..MaxGrants

TypeOK ==
    /\ row \in [Instances -> Row]
    /\ adv \in [Instances -> [Grants -> Adv]]
    /\ held \in [Workers -> SUBSET Instances]
    /\ inflight \in [Workers -> SUBSET Instances]
    /\ wstate \in [Workers -> {"up", "draining", "abandoned", "dead"}]
    /\ ran \in [Instances -> [0..MaxTaskEpoch -> Nat]]
    /\ faults \in 0..MaxFaults
    /\ verbs \in 0..MaxVerbs

Init ==
    /\ row = [i \in Instances |->
                [status |-> "running", cols |-> FirstCols,
                 worker |-> NoWorker, epoch |-> 0, lapsed |-> FALSE]]
    /\ adv = [i \in Instances |-> [e \in Grants |-> NoAdv]]
    /\ held = [w \in Workers |-> {}]
    /\ inflight = [w \in Workers |-> {}]
    /\ wstate = [w \in Workers |-> "up"]
    /\ ran = [i \in Instances |-> [n \in 0..MaxTaskEpoch |-> 0]]
    /\ faults = 0
    /\ verbs = 0

-----------------------------------------------------------------------------
(* The in-memory half: what an advance may conclude.                       *)

enterTask(c, t) ==
    [c EXCEPT !.task = t, !.tepoch = c.tepoch + 1, !.entry = c.tepoch + 1,
              !.retry = 0, !.wake = "nil"]

Conclude(c, status) ==
    [kind |-> "terminal", status |-> status,
     cols |-> [c EXCEPT !.wake = "nil"]]

failInstance(c) == Conclude(c, "failed")

raiseInstance(c) == Conclude(c, "raised")

Complete(c) == Conclude([c EXCEPT !.retry = 0], "completed")

Gotos(c, kind, targets) ==
    IF c.tepoch < MaxTaskEpoch
    THEN { [kind |-> kind, status |-> "running", cols |-> enterTask(c, t)] :
             t \in targets }
    ELSE {}

(* The task's output and switch: end, raise, panic (or any evaluation      *)
(* failure) or a transition; `next` on the last task leaves task = ''.     *)
evalSwitch(c) ==
    {Complete(c), raiseInstance(c), failInstance(c)}
      \cup Gotos(c, "progress", Tasks \cup {NoTask})

(* How a call can fail.  "pre": it never left, or the matched rule asserts *)
(* not_reached; "known": the remote answered; "unknowable": it left and    *)
(* nothing came back, only_once.interrupted included.                      *)
ErrorCodes == {"pre", "known", "unknowable"}

isRetryAllowed_any(t, code) == TRUE

isRetryAllowed(t, code) == t \in OnceTasks => code = "pre"

Retries(c, code) ==
    IF /\ c.retry < MaxRetries
       /\ c.tepoch < MaxTaskEpoch
       /\ isRetryAllowed(c.task, code)
    THEN { [kind |-> "update", status |-> "running",
            cols |-> [c EXCEPT !.retry = c.retry + 1, !.wake = "future",
                               !.tepoch = c.tepoch + 1]] }
    ELSE {}

(* goto: end from a rule; the process output may fail to evaluate.         *)
completeViaErrorHandler(c) ==
    {Complete(c), failInstance([c EXCEPT !.retry = 0])}

handleCallError(c, code) ==
    {failInstance(c), raiseInstance(c)} \cup completeViaErrorHandler(c)
      \cup Gotos(c, "update", Tasks) \cup Retries(c, code)

-----------------------------------------------------------------------------
(* The worker's steps.                                                     *)

Active(w) == { g \in Instances \X Grants :
                 /\ adv[g[1]][g[2]].pc # "none"
                 /\ adv[g[1]][g[2]].owner = w }

PutRow(i, r) == row' = [row EXCEPT ![i] = r]

PutAdv(i, e, a) == adv' = [adv EXCEPT ![i][e] = a]

Claimable_unheldOnly(r) ==
    /\ r.status \in {"running", "pausing", "cancelling"}
    /\ r.status = "running" => r.cols.wake # "future"
    /\ r.worker = NoWorker

Claimable(r) ==
    /\ r.status \in {"running", "pausing", "cancelling"}
    /\ r.status = "running" => r.cols.wake # "future"
    /\ r.worker = NoWorker \/ r.lapsed

Grant(w, i, evidence) ==
    /\ PutRow(i, [row[i] EXCEPT !.worker = w, !.lapsed = FALSE,
                                !.epoch = row[i].epoch + 1])
    /\ PutAdv(i, row[i].epoch + 1,
              [pc |-> "claimed", owner |-> w, reclaimed |-> evidence,
               base |-> row[i].cols, iter |-> 0,
               out |-> [kind |-> "progress", status |-> row[i].status,
                        cols |-> row[i].cols]])
    /\ held' = [held EXCEPT ![w] = @ \cup {i}]

(* runPump's claim, ClaimInstances and holdLease.  A claim of several rows *)
(* is several of these steps.  ReclaimedExpired: the row named a worker.   *)
ClaimInstances(w, i) ==
    /\ wstate[w] = "up"
    /\ Cardinality(Active(w)) < MaxConcurrent
    /\ Claimable(row[i])
    /\ row[i].epoch < MaxGrants
    /\ Grant(w, i, row[i].worker # NoWorker)
    /\ UNCHANGED <<inflight, wstate, ran, faults, verbs>>

(* An instance already in flight here is left to the advance running it:   *)
(* the claim stands, undispatched, and stays in the held set.              *)
dispatch(i, e) ==
    LET w == adv[i][e].owner IN
    /\ adv[i][e].pc = "claimed"
    /\ \/ /\ i \in inflight[w]
          /\ PutAdv(i, e, NoAdv)
          /\ UNCHANGED inflight
       \/ /\ i \notin inflight[w]
          /\ PutAdv(i, e, [adv[i][e] EXCEPT !.pc = "run"])
          /\ inflight' = [inflight EXCEPT ![w] = @ \cup {i}]
    /\ UNCHANGED <<row, held, wstate, ran, faults, verbs>>

(* advance() returned o; runAdvance drops the marker before the write.     *)
Reach(i, e, o) ==
    /\ PutAdv(i, e, [adv[i][e] EXCEPT !.pc = "write", !.out = o])
    /\ inflight' = [inflight EXCEPT ![adv[i][e].owner] = @ \ {i}]
    /\ UNCHANGED <<row, held, wstate, faults, verbs>>

InterruptedOnce(a) ==
    a.reclaimed /\ a.iter = 0 /\ a.out.cols.task \in OnceTasks

(* settleCancelling, and settlePausing unless the verdict comes first.     *)
SettleStop(i, e) ==
    LET a == adv[i][e] IN
    /\ a.pc = "run"
    /\ \/ /\ a.out.status = "cancelling"
          /\ Reach(i, e, [a.out EXCEPT !.kind = "terminal",
                                       !.status = "cancelled"])
       \/ /\ a.out.status = "pausing"
          /\ ~InterruptedOnce(a)
          /\ Reach(i, e, [a.out EXCEPT !.kind = "terminal",
                                       !.status = "paused"])
    /\ UNCHANGED ran

(* The only_once.interrupted verdict of prepareAdvance and of advance()'s  *)
(* pausing branch.                                                         *)
Interrupted(i, e) ==
    LET a == adv[i][e] IN
    /\ a.pc = "run"
    /\ a.out.status \in {"running", "pausing"}
    /\ InterruptedOnce(a)
    /\ \E o \in handleCallError(a.out.cols, "unknowable") : Reach(i, e, o)
    /\ UNCHANGED ran

(* The head of advance()'s loop, on task t.                                *)
InLoop(a) ==
    /\ a.pc = "run"
    /\ a.out.status = "running"
    /\ ~InterruptedOnce(a)

OffTheEnd(i, e) ==
    LET a == adv[i][e] IN
    /\ InLoop(a)
    /\ a.out.cols.task = NoTask
    /\ \E o \in {Complete(a.out.cols), failInstance(a.out.cols)} :
         Reach(i, e, o)
    /\ UNCHANGED ran

(* A task without an action: its transition stays in memory, up to         *)
(* maxInlineTasks of them.                                                 *)
RunSwitch(i, e) ==
    LET a == adv[i][e] IN
    /\ InLoop(a)
    /\ a.out.cols.task \in Tasks \ (CallTasks \cup OnceTasks \cup DelayTasks)
    /\ \E o \in evalSwitch(a.out.cols) :
         IF o.kind = "progress" /\ a.iter < MaxInline
         THEN /\ PutAdv(i, e, [a EXCEPT !.out = o, !.iter = a.iter + 1])
              /\ UNCHANGED <<row, held, inflight, wstate, faults, verbs>>
         ELSE Reach(i, e, o)
    /\ UNCHANGED ran

(* An only_once action is never run by the advance that moved to it.       *)
YieldsToClaim_never(a) == FALSE

YieldsToClaim(a) == a.iter > 0 /\ a.out.cols.task \in OnceTasks

YieldBeforeOnce(i, e) ==
    LET a == adv[i][e] IN
    /\ InLoop(a)
    /\ YieldsToClaim(a)
    /\ Reach(i, e, [a.out EXCEPT !.kind = "progress"])
    /\ UNCHANGED ran

runDelay(i, e) ==
    LET a == adv[i][e]
        c == a.out.cols IN
    /\ InLoop(a)
    /\ c.task \in DelayTasks
    /\ \E o \in IF c.wake = "nil"
                THEN {failInstance(c),
                      [a.out EXCEPT !.kind = "progress",
                                    !.cols.wake = "future"]}
                ELSE evalSwitch(c) :
         Reach(i, e, o)
    /\ UNCHANGED ran

(* The call is made: code "ok", or how it failed.  A call that never left  *)
(* is not counted.                                                         *)
executeAction(i, e, code) ==
    LET a == adv[i][e]
        c == a.out.cols IN
    /\ InLoop(a)
    /\ c.task \in CallTasks \cup OnceTasks
    /\ ~YieldsToClaim(a)
    /\ \E o \in IF code = "ok" THEN evalSwitch([c EXCEPT !.retry = 0])
                ELSE handleCallError(c, code) :
         Reach(i, e, o)
    /\ ran' = IF c.task \in OnceTasks /\ code # "pre"
              THEN [ran EXCEPT ![i][c.entry] = ran[i][c.entry] + 1]
              ELSE ran

-----------------------------------------------------------------------------
(* The write.                                                              *)

Fence_workerOnly(i, e) == row[i].worker = adv[i][e].owner

(* requireFenced over the WHERE of UpdateInstance: the grant still stands. *)
Fence(i, e) == row[i].epoch = e /\ row[i].worker = adv[i][e].owner

(* The status UpdateInstance leaves: a stop asked for meanwhile is kept    *)
(* for the next claim unless the outcome is one; UpdateInstanceProgress    *)
(* never writes status.                                                    *)
StatusWritten_overwrite(old, o) == o.status

StatusWritten(old, o) ==
    IF o.kind = "progress" \/ (o.status = "running"
                               /\ old \in {"pausing", "cancelling"})
    THEN old ELSE o.status

(* The row as a fenced write leaves it: the lease is released in it.       *)
Written(r, o) ==
    [r EXCEPT !.status = StatusWritten(r.status, o), !.cols = o.cols,
              !.worker = NoWorker, !.lapsed = FALSE]

(* persist: lands, is refused (ErrLeaseLost), or fails in the database.    *)
persist(i, e) ==
    /\ adv[i][e].pc = "write"
    /\ wstate[adv[i][e].owner] \in {"up", "draining"}
    /\ \/ /\ Fence(i, e)
          /\ PutRow(i, Written(row[i], adv[i][e].out))
          /\ UNCHANGED faults
       \/ /\ ~Fence(i, e)
          /\ UNCHANGED <<row, faults>>
       \/ /\ faults < MaxFaults
          /\ faults' = faults + 1
          /\ UNCHANGED row
    /\ PutAdv(i, e, [adv[i][e] EXCEPT !.pc = "closing"])
    /\ UNCHANGED <<held, inflight, wstate, ran, verbs>>

(* Past the shutdown grace an advance writes nothing.                      *)
Abandon(i, e) ==
    /\ adv[i][e].pc = "write"
    /\ wstate[adv[i][e].owner] = "abandoned"
    /\ PutAdv(i, e, [adv[i][e] EXCEPT !.pc = "closing"])
    /\ UNCHANGED <<row, held, inflight, wstate, ran, faults, verbs>>

(* runAdvance returns: the deferred dropLease, whoever holds i by now.     *)
dropLease(i, e) ==
    /\ adv[i][e].pc = "closing"
    /\ PutAdv(i, e, NoAdv)
    /\ held' = [held EXCEPT ![adv[i][e].owner] = @ \ {i}]
    /\ UNCHANGED <<row, inflight, wstate, ran, faults, verbs>>

-----------------------------------------------------------------------------
(* Renewal, lapse, the clock's effect on wake_at, faults.                  *)

Renewed(w, i) == /\ row[i].worker = w
                 /\ i \in held[w]
                 /\ wstate[w] \in {"up", "draining"}

RenewWorkerLeases(w) ==
    /\ \E i \in Instances : Renewed(w, i) /\ row[i].lapsed
    /\ row' = [i \in Instances |->
                 IF Renewed(w, i) THEN [row[i] EXCEPT !.lapsed = FALSE]
                 ELSE row[i]]
    /\ UNCHANGED <<adv, held, inflight, wstate, ran, faults, verbs>>

(* A lease no renewer covers runs out.                                     *)
Expire(i) ==
    /\ row[i].worker # NoWorker
    /\ ~row[i].lapsed
    /\ ~Renewed(row[i].worker, i)
    /\ PutRow(i, [row[i] EXCEPT !.lapsed = TRUE])
    /\ UNCHANGED <<adv, held, inflight, wstate, ran, faults, verbs>>

(* The holder is frozen, or cannot reach the database, for a lease period. *)
Freeze(i) ==
    /\ row[i].worker # NoWorker
    /\ ~row[i].lapsed
    /\ Renewed(row[i].worker, i)
    /\ faults < MaxFaults
    /\ faults' = faults + 1
    /\ PutRow(i, [row[i] EXCEPT !.lapsed = TRUE])
    /\ UNCHANGED <<adv, held, inflight, wstate, ran, verbs>>

(* The clock passes wake_at.  Only an unheld row waits on it: a running    *)
(* row is claimed once due, and a stopping one is claimed regardless.      *)
WakeDue(i) ==
    /\ row[i].cols.wake = "future"
    /\ row[i].worker = NoWorker
    /\ PutRow(i, [row[i] EXCEPT !.cols.wake = "due"])
    /\ UNCHANGED <<adv, held, inflight, wstate, ran, faults, verbs>>

(* The process dies: its memory is gone, its rows keep naming it.          *)
Crash(w) ==
    /\ wstate[w] # "dead"
    /\ faults < MaxFaults
    /\ faults' = faults + 1
    /\ wstate' = [wstate EXCEPT ![w] = "dead"]
    /\ adv' = [i \in Instances |-> [e \in Grants |->
                 IF adv[i][e].owner = w THEN NoAdv ELSE adv[i][e]]]
    /\ held' = [held EXCEPT ![w] = {}]
    /\ inflight' = [inflight EXCEPT ![w] = {}]
    /\ UNCHANGED <<row, ran, verbs>>

(* Run's ctx ends: no more claims; after shutdownGrace, no more writes.    *)
drain(w) ==
    /\ \/ /\ wstate[w] = "up"
          /\ faults < MaxFaults
          /\ faults' = faults + 1
          /\ wstate' = [wstate EXCEPT ![w] = "draining"]
       \/ /\ wstate[w] = "draining"
          /\ Active(w) # {}
          /\ wstate' = [wstate EXCEPT ![w] = "abandoned"]
          /\ UNCHANGED faults
    /\ UNCHANGED <<row, adv, held, inflight, ran, verbs>>

-----------------------------------------------------------------------------
(* Operator verbs on a tree of one row (module Tree has the whole tree).   *)

Verb(i, r) ==
    /\ verbs < MaxVerbs
    /\ verbs' = verbs + 1
    /\ PutRow(i, r)
    /\ UNCHANGED <<adv, held, inflight, wstate, ran, faults>>

PauseProcess_ignoresHolder(i) ==
    /\ row[i].status = "running"
    /\ Verb(i, [row[i] EXCEPT !.status = "paused"])

(* A held row can only be asked to stop.                                   *)
PauseProcess(i) ==
    /\ row[i].status = "running"
    /\ Verb(i, [row[i] EXCEPT !.status = IF row[i].worker # NoWorker
                                         THEN "pausing" ELSE "paused"])

CancelProcess(i) ==
    /\ row[i].status \in {"running", "paused"}
    /\ Verb(i, [row[i] EXCEPT !.status = IF row[i].worker # NoWorker
                                         THEN "cancelling" ELSE "cancelled"])

ResumeProcess(i) ==
    /\ row[i].status = "paused"
    /\ Verb(i, [row[i] EXCEPT !.status = "running"])

(* A failed row re-enters its task; an only_once one needs force.          *)
RetryProcess(i, force) ==
    LET c == row[i].cols IN
    /\ row[i].status = "failed"
    /\ c.tepoch < MaxTaskEpoch
    /\ c.task \in OnceTasks => force
    /\ Verb(i, [row[i] EXCEPT
                  !.status = "running", !.worker = NoWorker, !.lapsed = FALSE,
                  !.cols = [c EXCEPT !.tepoch = c.tepoch + 1,
                                     !.entry = c.tepoch + 1,
                                     !.wake = IF c.retry > 0 THEN "nil"
                                              ELSE c.wake]])

-----------------------------------------------------------------------------
Compute(i, e) ==
    \/ SettleStop(i, e)
    \/ Interrupted(i, e)
    \/ OffTheEnd(i, e)
    \/ RunSwitch(i, e)
    \/ YieldBeforeOnce(i, e)
    \/ runDelay(i, e)
    \/ \E code \in ErrorCodes \cup {"ok"} : executeAction(i, e, code)

AdvanceStep(i, e) ==
    dispatch(i, e) \/ Compute(i, e) \/ persist(i, e) \/ Abandon(i, e)
      \/ dropLease(i, e)

Next ==
    \/ \E w \in Workers, i \in Instances : ClaimInstances(w, i)
    \/ \E i \in Instances, e \in Grants : AdvanceStep(i, e)
    \/ \E w \in Workers : RenewWorkerLeases(w) \/ Crash(w) \/ drain(w)
    \/ \E i \in Instances : Expire(i) \/ Freeze(i) \/ WakeDue(i)
    \/ \E i \in Instances : PauseProcess(i) \/ CancelProcess(i)
                               \/ ResumeProcess(i)
    \/ \E i \in Instances, force \in BOOLEAN : RetryProcess(i, force)

Spec == Init /\ [][Next]_vars

(* The pump polls for ever, goroutines are scheduled, leases nobody renews *)
(* run out and timers come due.  Nothing is assumed of faults and verbs.   *)
Fairness ==
    /\ \A i \in Instances :
         /\ WF_vars(\E w \in Workers : ClaimInstances(w, i))
         /\ WF_vars(Expire(i))
         /\ WF_vars(WakeDue(i))
         /\ WF_vars(\E e \in Grants : AdvanceStep(i, e))

FairSpec == Spec /\ Fairness

-----------------------------------------------------------------------------
(* At most once: between entering an only_once task and leaving it, at     *)
(* most one call may have reached the remote, whatever crashes, lapsed     *)
(* leases, self-reclaims, pauses, retries and shutdowns happened meanwhile *)
(* (prepareAdvance's verdict, the yield before an only_once task and       *)
(* isRetryAllowed together).                                               *)
OnlyOnce ==
    \A i \in Instances, n \in 0..MaxTaskEpoch : ran[i][n] <= 1

(* No lost update: an advance whose fence would pass computed from the     *)
(* columns the row still has, so the write of requireFenced's survivor     *)
(* replaces exactly what it read, and the status differs from the one it   *)
(* read only by an operator's stop.                                        *)
NoLostUpdate ==
    \A i \in Instances, e \in Grants :
      adv[i][e].pc \in {"claimed", "run", "write"} /\ Fence(i, e) =>
        /\ adv[i][e].base = row[i].cols
        /\ adv[i][e].pc # "write" =>
             \/ row[i].status = adv[i][e].out.status
             \/ row[i].status \in {"pausing", "cancelling"}
                /\ adv[i][e].out.status = "running"

(* A stopped row is nobody's: no claim or in-flight advance can still      *)
(* write a paused, cancelled, completed, raised or failed row.             *)
StoppedIsUnheld ==
    \A i \in Instances :
      row[i].status \in Stopped => row[i].worker = NoWorker

(* The statuses one step may lead to from a settled or stopping one.       *)
StopHeld(s, t) ==
    /\ s \in {"completed", "raised", "cancelled"} => t = s
    /\ s = "failed" => t \in {"failed", "running"}
    /\ s = "pausing" =>
         t \in {"pausing", "paused", "completed", "raised", "failed"}
    /\ s = "cancelling" =>
         t \in {"cancelling", "cancelled", "completed", "raised", "failed"}

(* Settled outcomes are final and a requested stop is never lost: a        *)
(* completed, raised or cancelled row never changes status, a failed one   *)
(* only by a retry, and a pause or cancel asked of a held row ends in that *)
(* stop or in the advance's own terminal outcome, never back in 'running'. *)
StopsHold ==
    [][\A i \in Instances : StopHeld(row[i].status, row'[i].status)]_vars

(* No wedged row: a row that is running or stopping is eventually settled  *)
(* or paused: a claim left undispatched, a refused, failed or abandoned    *)
(* write and a dead holder all hand the row on.  Some worker must stay up  *)
(* (MaxFaults below the number of workers), and the exploration must not   *)
(* have run out of grants (MaxGrants).                                     *)
NoWedge ==
    \A i \in Instances :
      row[i].status \notin Stopped
        ~> \/ row[i].status \in Stopped
           \/ row[i].epoch = MaxGrants
=============================================================================
