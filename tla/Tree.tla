-------------------------------- MODULE Tree --------------------------------
(***************************************************************************)
(* Trees of instances: spawning, collecting, re-spawning raised slots,     *)
(* failure climbing to the root, pause, resume, cancel and retry, and the  *)
(* bottom-up settle (internal/db/db_lifecycle.go, internal/engine/child.go,*)
(* internal/engine/collect.go and their statements in                      *)
(* internal/db/queries.sql).                                               *)
(*                                                                         *)
(* One step is one transaction.  An advance whose grant was superseded     *)
(* writes nothing (Lease proves it), so a claimed row is advanced by its   *)
(* holder alone and a crash is a holder that has not written yet.  Timers  *)
(* and a row's own tasks are in Lease: a claimed row may finish a task,    *)
(* park, spawn, conclude or fail.                                          *)
(***************************************************************************)
EXTENDS Naturals, Functions

CONSTANTS
    Ids,         \* rows of process_instances, inserted or not
    NoId,
    Root,        \* the one row without a parent
    Parent,      \* parent_id of each row
    Stack,       \* call_stack of each row, as the set of its ancestors
    MaxAttempts, \* the largest retry budget an on_error rule grants a slot
    MaxEpoch,    \* bound: task entries explored per row with children
    MaxVerbs,    \* bound: operator verbs
    Retriers     \* bound: retry requests in progress at one time

ASSUME TreeAssumption ==
    /\ NoId \notin Ids
    /\ Root \in Ids
    /\ Parent \in [Ids -> Ids \cup {NoId}]
    /\ Stack \in [Ids -> SUBSET Ids]
    /\ \A i \in Ids :
         /\ Parent[i] = NoId <=> i = Root
         /\ i \notin Stack[i]
         /\ Stack[i] = IF i = Root THEN {}
                       ELSE Stack[Parent[i]] \cup {Parent[i]}
    /\ MaxAttempts \in Nat /\ MaxEpoch \in Nat /\ MaxVerbs \in Nat
    /\ Retriers \in Nat

\* Parents lead to the root: a row is inserted by its parent, which was there.
ASSUME RootedAssumption ==
    \A S \in SUBSET Ids :
      (\A i \in Ids : i = Root \/ Parent[i] \in S => i \in S) => S = Ids

VARIABLES
    row,    \* process_instances
    batch,  \* history: the rows that fill the slots of each row's last batch,
            \* none when the row left it without collecting it
    verbs,  \* operator verbs so far
    asked   \* retry requests that have read the root's status, not the tree

vars == <<row, batch, verbs, asked>>

-----------------------------------------------------------------------------
Terminal == {"completed", "failed", "raised", "cancelled"}

Draining == {"pausing", "failing", "cancelling"}

Busy == Draining \cup {"running"}

Status == Terminal \cup Busy \cup {"paused"}

(* held is the status the holder's claim read, "" for an unheld row; a row *)
(* not inserted yet has status "none".  slot names the batch position: the *)
(* first row that filled it.                                               *)
Row == [status: Status \cup {"none"}, phase: {"", "children", "collecting"},
        tepoch: 0..MaxEpoch, ptepoch: 0..MaxEpoch, slot: Ids,
        attempt: Nat, superseded: BOOLEAN, override: BOOLEAN,
        held: {"", "running", "pausing", "cancelling"}]

TypeOK ==
    /\ row \in [Ids -> Row]
    /\ \A i \in Ids : row[i].held # "" =>
         /\ row[i].status \in {"running", "pausing", "cancelling"}
         /\ row[i].phase # "children"
    /\ batch \in [Ids -> SUBSET Ids]
    /\ verbs \in 0..MaxVerbs
    /\ asked \in 0..Retriers

Inserted(i, status, ptepoch, slot, attempt) ==
    [status |-> status, phase |-> "", tepoch |-> 0, ptepoch |-> ptepoch,
     slot |-> slot, attempt |-> attempt, superseded |-> FALSE,
     override |-> FALSE, held |-> ""]

Init ==
    /\ row = [i \in Ids |->
                Inserted(i, IF i = Root THEN "running" ELSE "none", 0, i, 0)]
    /\ batch = [i \in Ids |-> {}]
    /\ verbs = 0
    /\ asked = 0

-----------------------------------------------------------------------------
Kids(p) == { k \in Ids : Parent[k] = p }

Unborn(p) == { k \in Kids(p) : row[k].status = "none" }

(* The rows that share k's (parent_id, spawn_task_id, parent_task_epoch).  *)
Siblings(r, k) ==
    { s \in Ids : /\ Parent[s] = Parent[k]
                  /\ r[s].status # "none"
                  /\ r[s].ptepoch = r[k].ptepoch }

(* GetChildrenForTask: the rows p's current task entry collects.           *)
ChildrenForTask(r, p) ==
    { k \in Kids(p) : /\ r[k].status # "none"
                      /\ r[k].ptepoch = r[p].tepoch
                      /\ ~r[k].superseded }

Raised(r, p) == { k \in ChildrenForTask(r, p) : r[k].status = "raised" }

EnterTask_sameEpoch(p) == row[p].tepoch

(* enterTask; only a row with children has its epochs explored.            *)
EnterTask(p) == IF Kids(p) = {} THEN row[p].tepoch ELSE row[p].tepoch + 1

CanEnter(p) == Kids(p) = {} \/ row[p].tepoch < MaxEpoch

-----------------------------------------------------------------------------
(* settleUp: the loop from k's parent to the root, as the sets of rows it  *)
(* reaches, wakes and settles.                                             *)

StepTo(k, q) == CHOOSE c \in Stack[k] \cup {k} : Parent[c] = q

(* CountBusySiblings = 0, c itself having settled.                         *)
Idle(r, c) == \A s \in Siblings(r, c) \ {c} : r[s].status \notin Busy

SettledAt(r, k, q) ==
    /\ r[q].phase = "children"
    /\ r[q].status \in Draining
    /\ Idle(r, StepTo(k, q))

Settled(r, k) ==
    { q \in Stack[k] : \A p \in Stack[k] :
        p = q \/ q \in Stack[p] => SettledAt(r, k, p) }

Reached(r, k) ==
    { q \in Stack[k] : StepTo(k, q) = k \/ StepTo(k, q) \in Settled(r, k) }

Concluded_settledToo(r, k, c) ==
    IF c = k THEN r[c].status \in Terminal ELSE TRUE

(* CountActiveSiblings = 0: a settled row counts by what it settles to.    *)
Concluded(r, k, c) ==
    IF c = k THEN r[c].status \in Terminal
    ELSE r[c].status \in {"failing", "cancelling"}

Woken(r, k) ==
    { q \in Reached(r, k) :
        LET c == StepTo(k, q) IN
        /\ r[q].phase = "children"
        /\ Concluded(r, k, c)
        /\ \A s \in Siblings(r, c) \ {c} : r[s].status \in Terminal }

SettleDrained(status) ==
    IF status = "pausing" THEN "paused"
    ELSE IF status = "cancelling" THEN "cancelled" ELSE "failed"

(* SettleDrained clears a failing row's phase, WakeParent sets the others'.*)
PhaseAfter(r, k, q) ==
    IF r[q].status = "failing" /\ q \in Settled(r, k) THEN ""
    ELSE IF q \notin Woken(r, k) THEN r[q].phase
    ELSE IF r[q].status \in {"running", "pausing", "paused"} THEN "collecting"
    ELSE ""

settleUp(r, k) ==
    [q \in Ids |->
       IF q \in Reached(r, k)
       THEN [r[q] EXCEPT !.phase = PhaseAfter(r, k, q),
                         !.status = IF q \in Settled(r, k)
                                    THEN SettleDrained(r[q].status) ELSE @]
       ELSE r[q]]

-----------------------------------------------------------------------------
(* PauseTree and CancelTree: a held row, or one above a held row, drains.  *)

InFlight(r, i) == \E h \in Ids : r[h].held # "" /\ (h = i \/ i \in Stack[h])

StopTree_heldOnly(r, from, draining, stopped) ==
    [i \in Ids |->
       IF r[i].status \in from
       THEN [r[i] EXCEPT !.status = IF r[i].held # "" THEN draining
                                    ELSE stopped]
       ELSE r[i]]

StopTree_ignoresHeld(r, from, draining, stopped) ==
    [i \in Ids |->
       IF r[i].status \in from THEN [r[i] EXCEPT !.status = stopped]
       ELSE r[i]]

StopTree(r, from, draining, stopped) ==
    [i \in Ids |->
       IF r[i].status \in from
       THEN [r[i] EXCEPT !.status = IF InFlight(r, i) THEN draining
                                    ELSE stopped]
       ELSE r[i]]

PauseTree(r) == StopTree(r, {"running"}, "pausing", "paused")

CancelTree(r) ==
    StopTree(r, {"running", "paused"}, "cancelling", "cancelled")

FailAncestors(r, k) ==
    [i \in Ids |->
       IF i \in Stack[k] /\ r[i].status \in {"running", "pausing", "paused"}
       THEN [r[i] EXCEPT !.status = "failing"] ELSE r[i]]

-----------------------------------------------------------------------------
(* The writes of an advance.  Each releases the lease.                     *)

Released(p, status, phase, tepoch, override) ==
    [row EXCEPT ![p] = [row[p] EXCEPT
       !.status = status, !.phase = phase, !.tepoch = tepoch,
       !.override = override, !.held = ""]]

FinishChild(r, k) == IF k = Root THEN r ELSE settleUp(r, k)

(* The first failure under a live root pauses the rest of the tree.        *)
FailInstanceAndAncestors(r, k) ==
    LET poisons == r[Root].status \in {"running", "pausing", "paused"}
        failing == FailAncestors(r, k)
        stopped == IF poisons THEN PauseTree(failing) ELSE failing
    IN  IF k = Root THEN r ELSE settleUp(stopped, k)

saveAndNotify(p, status, phase, override) ==
    LET saved == Released(p, status, phase, row[p].tepoch, override) IN
    row' = IF status = "failed" THEN FailInstanceAndAncestors(saved, p)
           ELSE FinishChild(saved, p)

Claim_notCancelling(p) ==
    /\ row[p].status \in {"running", "pausing"}
    /\ row[p].phase # "children"
    /\ row[p].held = ""
    /\ row' = [row EXCEPT ![p].held = row[p].status]
    /\ UNCHANGED <<batch, verbs, asked>>

(* ClaimInstances; a row waiting for its children is nobody's.             *)
Claim(p) ==
    /\ row[p].status \in {"running", "pausing", "cancelling"}
    /\ row[p].phase # "children"
    /\ row[p].held = ""
    /\ row' = [row EXCEPT ![p].held = row[p].status]
    /\ UNCHANGED <<batch, verbs, asked>>

(* settlePausing and settleCancelling.                                     *)
SettleStop(p) ==
    /\ \/ /\ row[p].held = "pausing"
          /\ saveAndNotify(p, "paused", row[p].phase, row[p].override)
       \/ /\ row[p].held = "cancelling"
          /\ saveAndNotify(p, "cancelled", row[p].phase, row[p].override)
    /\ UNCHANGED <<batch, verbs, asked>>

(* A row that was sent on from a collect with its phase left as it was: no *)
(* task but a spawning one reads the phase, and only a wait clears it.     *)
Strayed(r, p) == r[p].phase = "collecting" /\ ChildrenForTask(r, p) = {}

PhaseLeft(p) ==
    IF row[p].held = "running" THEN {"", row[p].phase} ELSE {row[p].phase}

(* A task of the row's own: a transition or an attempt (TaskEpoch moves),  *)
(* a park (it does not), or a conclusion.  A row claimed while pausing     *)
(* gets here by the only_once.interrupted verdict alone, which never       *)
(* parks.                                                                  *)
RunTask(p) ==
    /\ row[p].held \in {"running", "pausing"}
    /\ row[p].phase = "" \/ Strayed(row, p)
    /\ \E phase \in PhaseLeft(p) :
         \/ /\ CanEnter(p)
            /\ row' = Released(p, row[p].status, phase, EnterTask(p),
                               row[p].override)
         \/ /\ row[p].held = "running"
            /\ row' = Released(p, row[p].status, phase, row[p].tepoch,
                               row[p].override)
         \/ saveAndNotify(p, "completed", phase, row[p].override)
         \/ \E s \in {"raised", "failed"} :
              saveAndNotify(p, s, "", row[p].override)
    /\ UNCHANGED <<batch, verbs, asked>>

(* The only_once.interrupted verdict on a row whose holder died collecting:*)
(* handleCallError routes the row on or ends it and leaves the phase, a    *)
(* raise and a failure clear it.                                           *)
Interrupt(p) ==
    /\ row[p].held \in {"running", "pausing"}
    /\ row[p].phase = "collecting"
    /\ \/ /\ CanEnter(p)
          /\ row' = Released(p, row[p].status, "collecting", EnterTask(p),
                             row[p].override)
          /\ batch' = [batch EXCEPT ![p] = {}]
       \/ /\ \/ saveAndNotify(p, "completed", "collecting", row[p].override)
             \/ \E s \in {"raised", "failed"} :
                  saveAndNotify(p, s, "", row[p].override)
          /\ UNCHANGED batch
    /\ UNCHANGED <<verbs, asked>>

(* runChildProcesses phase 1 and SpawnChildrenAndWait: the children take   *)
(* the status the row has now, whatever the advance read.                  *)
Spawn_asRead(p) ==
    /\ row[p].held = "running"
    /\ row[p].phase = ""
    /\ \E S \in (SUBSET Unborn(p)) \ {{}} :
         /\ row' = [i \in Ids |->
                      IF i \in S
                      THEN Inserted(i, row[p].held, row[p].tepoch, i, 0)
                      ELSE IF i = p
                      THEN [row[p] EXCEPT !.phase = "children", !.held = ""]
                      ELSE row[i]]
         /\ batch' = [batch EXCEPT ![p] = S]
    /\ UNCHANGED <<verbs, asked>>

Spawn(p) ==
    /\ row[p].held = "running"
    /\ row[p].phase = ""
    /\ \E S \in (SUBSET Unborn(p)) \ {{}} :
         /\ row' = [i \in Ids |->
                      IF i \in S
                      THEN Inserted(i, row[p].status, row[p].tepoch, i, 0)
                      ELSE IF i = p
                      THEN [row[p] EXCEPT !.phase = "children", !.held = ""]
                      ELSE row[i]]
         /\ batch' = [batch EXCEPT ![p] = S]
    /\ UNCHANGED <<verbs, asked>>

(* admitRetries: under an operator's grant every raised slot, otherwise    *)
(* those a rule grants another attempt.                                    *)
Admitted(p, A) ==
    /\ A \subseteq Raised(row, p)
    /\ IF row[p].override THEN A = Raised(row, p)
       ELSE \A k \in A : row[k].attempt < MaxAttempts

(* RespawnSlotsAndWait: retire the attempts in A, fill their slots.        *)
Respawn(p) ==
    /\ row[p].held = "running"
    /\ row[p].phase = "collecting"
    /\ \E A \in (SUBSET Raised(row, p)) \ {{}}, F \in SUBSET Unborn(p) :
       \E fresh \in Bijection(A, F) :
         /\ Admitted(p, A)
         /\ row' = [i \in Ids |->
                      IF i \in A THEN [row[i] EXCEPT !.superseded = TRUE]
                      ELSE IF i \in F
                      THEN LET old == CHOOSE k \in A : fresh[k] = i IN
                           Inserted(i, row[p].status, row[old].ptepoch,
                                    row[old].slot, row[old].attempt + 1)
                      ELSE IF i = p
                      THEN [row[p] EXCEPT !.phase = "children", !.held = "",
                                          !.override = FALSE]
                      ELSE row[i]]
         /\ batch' = [batch EXCEPT ![p] = (@ \ A) \cup F]
    /\ UNCHANGED <<verbs, asked>>

(* runChildProcesses phase 2: the batch's output or its first raise routes *)
(* the row on, or concludes it.  An operator's grant only ends a raised    *)
(* batch by a failure.                                                     *)
Collect(p) ==
    LET raised == Raised(row, p)
        override == row[p].override /\ raised = {} IN
    /\ row[p].held = "running"
    /\ row[p].phase = "collecting"
    /\ \/ /\ raised # {} => ~row[p].override
          /\ CanEnter(p)
          /\ row' = Released(p, row[p].status, "", EnterTask(p), override)
       \/ \E s \in {"completed", "raised", "failed"} :
            /\ raised # {} /\ row[p].override => s = "failed"
            /\ saveAndNotify(p, s, "", override)
    /\ UNCHANGED <<batch, verbs, asked>>

-----------------------------------------------------------------------------
(* The operator's verbs on the root.                                       *)

Verb == verbs < MaxVerbs /\ verbs' = verbs + 1

PauseProcess ==
    /\ row[Root].status \in {"running", "pausing", "paused"}
    /\ row' = PauseTree(row)
    /\ Verb
    /\ UNCHANGED <<batch, asked>>

CancelProcess ==
    /\ row[Root].status \in {"running", "paused", "cancelling"}
    /\ row' = CancelTree(row)
    /\ Verb
    /\ UNCHANGED <<batch, asked>>

Resumed(r) ==
    [i \in Ids |-> IF r[i].status = "paused"
                   THEN [r[i] EXCEPT !.status = "running"] ELSE r[i]]

ResumeProcess ==
    /\ row[Root].status \notin Draining \cup {"failed"}
    /\ \E i \in Ids : row[i].status = "paused"
    /\ row' = Resumed(row)
    /\ Verb
    /\ UNCHANGED <<batch, asked>>

(* RetryProcess reads the root's status before its transaction.            *)
RetryAsk ==
    /\ row[Root].status = "failed"
    /\ asked < Retriers
    /\ asked' = asked + 1
    /\ Verb
    /\ UNCHANGED <<row, batch>>

Revived_raisedToo ==
    { n \in Ids : \A c \in Stack[n] \cup {n} :
        /\ row[c].status \in {"failed", "raised"}
        /\ ~row[c].superseded
        /\ c # Root => row[c].ptepoch = row[Parent[c]].tepoch }

(* revive: the failed rows on the interrupted path.                        *)
Revived ==
    { n \in Ids : \A c \in Stack[n] \cup {n} :
        /\ row[c].status = "failed"
        /\ ~row[c].superseded
        /\ c # Root => row[c].ptepoch = row[Parent[c]].tepoch }

RevivedPhase_noCollect(n) ==
    IF ChildrenForTask(row, n) = {} THEN "" ELSE "children"

RevivedPhase(n) ==
    IF ChildrenForTask(row, n) = {} THEN ""
    ELSE IF \E k \in ChildrenForTask(row, n) :
              row[k].status \notin Terminal \/ k \in Revived
    THEN "children" ELSE "collecting"

(* The one row whose raised slots the next collect re-spawns (overriddenID:*)
(* whichever of the candidates the walk met last).                         *)
Overridden ==
    LET owners == { n \in Revived : Raised(row, n) # {} } IN
    IF owners = {} THEN {NoId} ELSE owners

RetryTx(o) ==
    /\ asked > 0
    /\ asked' = asked - 1
    /\ o \in Overridden
    /\ \A n \in Revived : ChildrenForTask(row, n) = {} => CanEnter(n)
    /\ row' = [i \in Ids |->
                 IF i \in Revived
                 THEN [row[i] EXCEPT
                         !.status = "running", !.phase = RevivedPhase(i),
                         !.tepoch = IF ChildrenForTask(row, i) = {}
                                    THEN EnterTask(i) ELSE @,
                         !.override = @ \/ i = o]
                 ELSE IF row[i].status = "paused" /\ ~row[i].superseded
                 THEN [row[i] EXCEPT !.status = "running"]
                 ELSE row[i]]
    /\ UNCHANGED <<batch, verbs>>

-----------------------------------------------------------------------------
Advance(p) ==
    \/ SettleStop(p)
    \/ RunTask(p)
    \/ Spawn(p)
    \/ Respawn(p)
    \/ Collect(p)
    \/ Interrupt(p)

Next ==
    \/ \E p \in Ids : Claim(p) \/ Advance(p)
    \/ PauseProcess \/ CancelProcess \/ ResumeProcess
    \/ RetryAsk
    \/ \E o \in Ids \cup {NoId} : RetryTx(o)

Spec == Init /\ [][Next]_vars

(* Workers keep claiming, and a claimed row's advance is written.  A row   *)
(* claimed while pausing settles unless its last holder died in an         *)
(* only_once call, and holders do not die for ever.                        *)
FairSpec ==
    Spec /\ \A p \in Ids :
      WF_vars(Claim(p) \/ Advance(p)) /\ SF_vars(SettleStop(p))

-----------------------------------------------------------------------------
Live(i) == row[i].status \notin Terminal \cup {"none"}

(* Nothing runs under a stopped row: once a row reads paused, cancelled,   *)
(* failed, completed or raised, no row below it is running or draining     *)
(* (PauseTree and CancelTree drain every row above a held one, settleUp    *)
(* stops a parent last).                                                   *)
NothingBusyBelow ==
    \A i \in Ids, k \in Ids :
      i \in Stack[k] /\ row[i].status \in Terminal \cup {"paused"}
        => row[k].status \notin Busy

(* One stop, one tree: the root's status decides what the rows below may   *)
(* be doing, so a resume or a retry of the root restarts everything that   *)
(* was stopped and a cancel leaves nothing to run.                         *)
TreeAgrees ==
    \A k \in Ids :
      LET s == row[k].status IN
      Live(k) \/ s \in {"failed", "cancelled"} =>
        CASE row[Root].status = "running" -> s = "running"
          [] row[Root].status = "pausing" -> s \in {"pausing", "paused"}
          [] row[Root].status = "paused" -> s = "paused"
          [] row[Root].status = "failing" ->
               s \in {"failing", "failed", "pausing", "paused"}
          [] row[Root].status = "failed" -> s \in {"failed", "paused"}
          [] row[Root].status = "cancelling" ->
               s \in {"cancelling", "cancelled", "failed"}
          [] row[Root].status = "cancelled" -> s \in {"cancelled", "failed"}
          [] OTHER -> FALSE

(* Nobody waits for nothing: a row parked on its children has one that is  *)
(* not terminal, whose conclusion will wake it, and a parked row that is   *)
(* draining has a busy one, whose settling will settle it; no step of a    *)
(* spawn, a re-spawn, a failure, a verb or a retry leaves a parent waiting *)
(* for a batch that is already over.                                       *)
WaitsForSomeone ==
    \A p \in Ids :
      Live(p) /\ row[p].phase = "children" =>
        \E k \in ChildrenForTask(row, p) :
          IF row[p].status \in Draining THEN row[k].status \in Busy
          ELSE Live(k)

(* A collect reads the batch it spawned: every slot once, by its last      *)
(* attempt, all concluded; never a row of an earlier entry of the task and *)
(* never a slot that was retired and not refilled.  A row that the         *)
(* interrupted verdict sent on from its collect still says collecting      *)
(* (error.go handleCallError): the next spawning task reads no row at all. *)
CollectsItsBatch ==
    \A p \in Ids :
      Live(p) /\ row[p].phase # "" =>
        /\ ChildrenForTask(row, p) = batch[p]
        /\ \A j, k \in batch[p] : row[j].slot = row[k].slot => j = k
        /\ \A m \in batch[p] : \A j \in Siblings(row, m) :
             \E k \in batch[p] : row[k].slot = row[j].slot
        /\ row[p].phase = "collecting" => \A k \in batch[p] : ~Live(k)

(* Outcomes are final: a concluded row keeps its status, except that a     *)
(* retry of a failed tree runs a failed row again, and a retired attempt   *)
(* never changes at all.                                                   *)
OutcomesKept ==
    [][\A k \in Ids :
         /\ row[k].status \in Terminal =>
              \/ row'[k].status = row[k].status
              \/ row[k].status = "failed" /\ row'[k].status = "running"
                 /\ row[Root].status = "failed"
         /\ row[k].superseded => row'[k] = row[k]]_vars

(* Every stop completes: a root asked to pause, cancelled while a task     *)
(* runs, or failing, settles.                                              *)
DrainEnds ==
    row[Root].status \in Draining ~> row[Root].status \notin Draining

(* A retry leaves a paused tree alone: "process is paused, not failed;     *)
(* resume it instead".                                                     *)
PausedNeedsResume ==
    [][row[Root].status = "paused" /\ row'[Root].status = "running"
         => ResumeProcess]_vars
=============================================================================
