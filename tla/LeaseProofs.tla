---------------------------- MODULE LeaseProofs ----------------------------
(***************************************************************************)
(* Proofs about Lease, for any set of workers, instances and tasks and any *)
(* bounds: its types, no lost update, a stopped row is unheld, and at most *)
(* one call per entry of an only_once task.                                *)
(***************************************************************************)
EXTENDS Lease, TLAPS

Live == {"claimed", "run", "write"}

(* Every advance belongs to a worker and to a grant already made.          *)
GrantsMade ==
    \A i \in Instances, e \in Grants :
      adv[i][e].pc # "none" => /\ adv[i][e].owner \in Workers
                               /\ e <= row[i].epoch

(* How far an advance has moved from the columns it read.                  *)
Moved(a) ==
    LET b == a.base  c == a.out.cols IN
    a.pc \in Live =>
      /\ b.entry <= b.tepoch
      /\ c.entry <= c.tepoch
      /\ b.tepoch <= c.tepoch
      /\ c.entry = b.entry \/ b.tepoch < c.entry
      /\ a.pc # "write" /\ a.iter = 0 => c = b
      /\ a.pc # "write" /\ a.iter > 0 => b.tepoch < c.entry
                                         /\ a.out.status = "running"
      /\ a.pc = "write" /\ a.out.kind = "progress" => a.out.status = "running"

Moves == \A i \in Instances, e \in Grants : Moved(adv[i][e])

(* A grant that took an unheld row standing on an only_once task, and has  *)
(* not concluded: it may be about to make the call.                        *)
MayCall(i, e) ==
    /\ adv[i][e].pc \in {"claimed", "run"}
    /\ ~adv[i][e].reclaimed
    /\ adv[i][e].iter = 0
    /\ adv[i][e].out.cols.task \in OnceTasks

(* No call was made for entry n, and no grant can still make one.          *)
Untried(i, n) ==
    /\ ran[i][n] = 0
    /\ \A e \in Grants : MayCall(i, e) => adv[i][e].out.cols.entry # n

(* At most one grant per entry may call, and none once a call was made.    *)
OneCaller ==
    \A i \in Instances, e \in Grants :
      MayCall(i, e) =>
        /\ ran[i][adv[i][e].out.cols.entry] = 0
        /\ \A f \in Grants :
             MayCall(i, f) /\ adv[i][f].out.cols.entry
                                = adv[i][e].out.cols.entry => e = f

(* Entries only grow, and nothing is tried ahead of the row.               *)
EntryOrder ==
    \A i \in Instances :
      /\ row[i].cols.entry <= row[i].cols.tepoch
      /\ \A n \in 0..MaxTaskEpoch : ran[i][n] > 0 => n <= row[i].cols.entry
      /\ \A e \in Grants :
           MayCall(i, e) => adv[i][e].out.cols.entry <= row[i].cols.entry

(* An unheld live row on an only_once task has not been tried.             *)
UnheldUntried ==
    \A i \in Instances :
      /\ row[i].worker = NoWorker
      /\ row[i].status \notin Terminal
      /\ row[i].cols.task \in OnceTasks
      => Untried(i, row[i].cols.entry)

(* Nor has one about to be written back without leaving the task.          *)
WriteUntried ==
    \A i \in Instances, e \in Grants :
      LET a == adv[i][e] IN
      /\ a.pc = "write"
      /\ Fence(i, e)
      /\ a.out.status \notin Terminal
      /\ a.out.cols.task \in OnceTasks
      /\ a.out.cols.entry = row[i].cols.entry
      => Untried(i, a.out.cols.entry)

(* A stop is written only in answer to the stop the row still asks for.    *)
StopAnswered ==
    \A i \in Instances, e \in Grants :
      LET s == adv[i][e].out.status IN
      adv[i][e].pc = "write" /\ Fence(i, e) =>
        \/ s \in {"running", "completed", "raised", "failed"}
        \/ s = "paused" /\ row[i].status = "pausing"
        \/ s = "cancelled" /\ row[i].status = "cancelling"

FenceInv ==
    GrantsMade /\ NoLostUpdate /\ StoppedIsUnheld /\ StopAnswered

OnceInv ==
    /\ Moves /\ OneCaller /\ EntryOrder /\ UnheldUntried /\ WriteUntried
    /\ OnlyOnce

IInv == TypeOK /\ FenceInv /\ OnceInv

-----------------------------------------------------------------------------
(* What an advance may conclude is an outcome, whatever columns it read.   *)
LEMMA ConcludeType ==
    ASSUME NEW c \in Cols, NEW s \in Status
    PROVE  Conclude(c, s) \in Outcome
BY DEF Conclude, Outcome, Cols, Kinds

LEMMA RetryZero ==
    ASSUME NEW c \in Cols
    PROVE  [c EXCEPT !.retry = 0] \in Cols
BY LeaseAssumption DEF LeaseAssumption, Cols

LEMMA TerminalsType ==
    ASSUME NEW c \in Cols
    PROVE  /\ failInstance(c) \in Outcome
           /\ raiseInstance(c) \in Outcome
           /\ Complete(c) \in Outcome
           /\ failInstance([c EXCEPT !.retry = 0]) \in Outcome
BY RetryZero, ConcludeType DEF failInstance, raiseInstance, Complete, Status

LEMMA EnterType ==
    ASSUME NEW c \in Cols, NEW t \in Tasks \cup {NoTask},
           c.tepoch < MaxTaskEpoch
    PROVE  enterTask(c, t) \in Cols
<1>1. c.tepoch + 1 \in 0..MaxTaskEpoch /\ 0 \in 0..MaxRetries
  BY LeaseAssumption DEF LeaseAssumption, Cols
<1>. QED BY <1>1 DEF enterTask, Cols

LEMMA GotosType ==
    ASSUME NEW c \in Cols, NEW k \in Kinds,
           NEW T \in SUBSET (Tasks \cup {NoTask}), NEW o \in Gotos(c, k, T)
    PROVE  o \in Outcome
BY EnterType DEF Gotos, Outcome, Status

LEMMA RetriesType ==
    ASSUME NEW c \in Cols, NEW code, NEW o \in Retries(c, code)
    PROVE  o \in Outcome
<1>1. /\ c.retry < MaxRetries
      /\ c.tepoch < MaxTaskEpoch
      /\ o = [kind |-> "update", status |-> "running",
              cols |-> [c EXCEPT !.retry = c.retry + 1, !.wake = "future",
                                 !.tepoch = c.tepoch + 1]]
  BY DEF Retries
<1>2. c.tepoch + 1 \in 0..MaxTaskEpoch /\ c.retry + 1 \in 0..MaxRetries
  BY <1>1, LeaseAssumption DEF LeaseAssumption, Cols
<1>3. o.cols \in Cols
  BY <1>1, <1>2 DEF Cols
<1>. QED BY <1>1, <1>3 DEF Outcome, Kinds, Status

LEMMA SwitchType ==
    ASSUME NEW c \in Cols, NEW o \in evalSwitch(c)
    PROVE  o \in Outcome
BY TerminalsType, GotosType DEF evalSwitch, Kinds

LEMMA CallErrorType ==
    ASSUME NEW c \in Cols, NEW code, NEW o \in handleCallError(c, code)
    PROVE  o \in Outcome
BY TerminalsType, GotosType, RetriesType
   DEF handleCallError, completeViaErrorHandler, Kinds

(* The parts of a well-typed state, and of its updates.                    *)
LEMMA ColsType ==
    ASSUME TypeOK, NEW i \in Instances, NEW e \in Grants
    PROVE  /\ adv[i][e] \in Adv
           /\ adv[i][e].out \in Outcome
           /\ adv[i][e].out.cols \in Cols
           /\ adv[i][e].base \in Cols
BY DEF TypeOK, Adv, Outcome

LEMMA EntryType ==
    ASSUME TypeOK, NEW i \in Instances, NEW e \in Grants
    PROVE  /\ adv[i][e].out.cols.entry \in 0..MaxTaskEpoch
           /\ adv[i][e].out.cols.entry \in Nat
           /\ adv[i][e].out.cols.tepoch \in Nat
           /\ adv[i][e].base.entry \in Nat
           /\ adv[i][e].base.tepoch \in Nat
<1>1. adv[i][e].out.cols \in Cols /\ adv[i][e].base \in Cols
  BY ColsType
<1>2. \A c \in Cols : /\ c.entry \in 0..MaxTaskEpoch
                      /\ c.entry \in Nat /\ c.tepoch \in Nat
  BY DEF Cols
<1>. QED BY <1>1, <1>2

LEMMA RowType ==
    ASSUME TypeOK, NEW i \in Instances
    PROVE  row[i] \in Row /\ row[i].cols \in Cols
BY DEF TypeOK, Row

LEMMA PutAdvType ==
    ASSUME TypeOK, NEW i \in Instances, NEW e \in Grants, NEW a \in Adv,
           PutAdv(i, e, a)
    PROVE  adv' \in [Instances -> [Grants -> Adv]]
BY DEF TypeOK, PutAdv

LEMMA PutRowType ==
    ASSUME TypeOK, NEW i \in Instances, NEW r \in Row, PutRow(i, r)
    PROVE  row' \in [Instances -> Row]
BY DEF TypeOK, PutRow

LEMMA RanNat ==
    ASSUME TypeOK, NEW i \in Instances, NEW n \in 0..MaxTaskEpoch
    PROVE  ran[i][n] \in Nat
<1>. DEFINE E == 0..MaxTaskEpoch
<1>1. ran[i] \in [E -> Nat] /\ n \in E
  BY DEF TypeOK
<1>. HIDE DEF E
<1>. QED BY <1>1

LEMMA RanType ==
    ASSUME TypeOK, NEW i \in Instances, NEW n \in 0..MaxTaskEpoch
    PROVE  [ran EXCEPT ![i][n] = ran[i][n] + 1]
             \in [Instances -> [0..MaxTaskEpoch -> Nat]]
<1>. DEFINE E == 0..MaxTaskEpoch
<1>1. ran \in [Instances -> [E -> Nat]] /\ n \in E
  BY DEF TypeOK
<1>2. ran[i][n] + 1 \in Nat
  BY RanNat
<1>. HIDE DEF E
<1>3. [ran EXCEPT ![i][n] = ran[i][n] + 1] \in [Instances -> [E -> Nat]]
  BY <1>1, <1>2
<1>. QED BY <1>3 DEF E

(* An advance that reached an outcome still has its type.                  *)
LEMMA ReachType ==
    ASSUME TypeOK, NEW i \in Instances, NEW e \in Grants,
           NEW o \in Outcome, Reach(i, e, o),
           ran' \in [Instances -> [0..MaxTaskEpoch -> Nat]]
    PROVE  TypeOK'
<1>1. [adv[i][e] EXCEPT !.pc = "write", !.out = o] \in Adv
  BY ColsType DEF Adv
<1>2. inflight' \in [Workers -> SUBSET Instances]
  BY DEF Reach, TypeOK
<1>. QED BY <1>1, <1>2, PutAdvType DEF Reach, TypeOK

LEMMA NoAdvType == NoAdv \in Adv
<1>1. FirstCols \in Cols
  BY LeaseAssumption DEF LeaseAssumption, FirstCols, Cols
<1>2. 0 \in 0..MaxInline
  BY LeaseAssumption DEF LeaseAssumption
<1>. QED BY <1>1, <1>2 DEF NoAdv, Adv, Outcome, Kinds, Status

LEMMA ComputeType ==
    ASSUME TypeOK, NEW i \in Instances, NEW e \in Grants, Compute(i, e)
    PROVE  TypeOK'
<1>. DEFINE a == adv[i][e]
            c == a.out.cols
<1>0. /\ a \in Adv /\ a.out \in Outcome /\ c \in Cols
      /\ ran \in [Instances -> [0..MaxTaskEpoch -> Nat]]
  BY ColsType DEF TypeOK
<1>1. CASE SettleStop(i, e)
  BY <1>0, <1>1, ReachType DEF SettleStop, Outcome, Kinds, Status
<1>2. CASE Interrupted(i, e)
  BY <1>0, <1>2, ReachType, CallErrorType DEF Interrupted
<1>3. CASE OffTheEnd(i, e)
  BY <1>0, <1>3, ReachType, TerminalsType DEF OffTheEnd
<1>4. CASE RunSwitch(i, e)
  <2>1. PICK o \in evalSwitch(c) :
          IF o.kind = "progress" /\ a.iter < MaxInline
          THEN /\ PutAdv(i, e, [a EXCEPT !.out = o, !.iter = a.iter + 1])
               /\ UNCHANGED <<row, held, inflight, wstate, faults, verbs>>
          ELSE Reach(i, e, o)
    BY <1>4 DEF RunSwitch
  <2>2. o \in Outcome /\ UNCHANGED ran
    BY <1>0, <1>4, <2>1, SwitchType DEF RunSwitch
  <2>3. CASE Reach(i, e, o)
    BY <1>0, <2>2, <2>3, ReachType
  <2>4. CASE ~Reach(i, e, o)
    <3>1. a.iter + 1 \in 0..MaxInline
      BY <1>0, <2>1, <2>4, LeaseAssumption DEF LeaseAssumption, Adv
    <3>2. [a EXCEPT !.out = o, !.iter = a.iter + 1] \in Adv
      BY <1>0, <2>2, <3>1 DEF Adv
    <3>. QED BY <2>1, <2>2, <2>4, <3>2, PutAdvType DEF TypeOK
  <2>. QED BY <2>3, <2>4
<1>5. CASE YieldBeforeOnce(i, e)
  BY <1>0, <1>5, ReachType DEF YieldBeforeOnce, Outcome, Kinds
<1>6. CASE runDelay(i, e)
  <2>1. [a.out EXCEPT !.kind = "progress", !.cols.wake = "future"]
          \in Outcome
    BY <1>0 DEF Outcome, Cols, Kinds
  <2>2. PICK o : /\ o \in IF c.wake = "nil"
                           THEN {failInstance(c),
                                 [a.out EXCEPT !.kind = "progress",
                                               !.cols.wake = "future"]}
                           ELSE evalSwitch(c)
                 /\ Reach(i, e, o)
    BY <1>6 DEF runDelay
  <2>3. o \in Outcome
    BY <1>0, <2>1, <2>2, TerminalsType, SwitchType
  <2>. QED BY <1>0, <1>6, <2>2, <2>3, ReachType DEF runDelay
<1>7. CASE \E code \in ErrorCodes \cup {"ok"} : executeAction(i, e, code)
  <2>1. PICK code : executeAction(i, e, code)
    BY <1>7
  <2>2. [c EXCEPT !.retry = 0] \in Cols
    BY <1>0, RetryZero
  <2>3. PICK o : /\ o \in IF code = "ok" THEN evalSwitch([c EXCEPT !.retry = 0])
                           ELSE handleCallError(c, code)
                 /\ Reach(i, e, o)
    BY <2>1 DEF executeAction
  <2>4. o \in Outcome
    BY <1>0, <2>2, <2>3, SwitchType, CallErrorType
  <2>5. ran' \in [Instances -> [0..MaxTaskEpoch -> Nat]]
    <3>1. c.entry \in 0..MaxTaskEpoch
      BY <1>0 DEF Cols
    <3>. QED BY <1>0, <2>1, <3>1, RanType DEF executeAction
  <2>. QED BY <2>3, <2>4, <2>5, ReachType
<1>. QED BY <1>1, <1>2, <1>3, <1>4, <1>5, <1>6, <1>7 DEF Compute

(* TypeOK is inductive on its own.                                         *)
LEMMA InitType == Init => TypeOK
<1>1. FirstCols \in Cols /\ 0 \in 0..MaxGrants
  BY LeaseAssumption DEF LeaseAssumption, FirstCols, Cols
<1>2. [status |-> "running", cols |-> FirstCols,
       worker |-> NoWorker, epoch |-> 0, lapsed |-> FALSE] \in Row
  BY <1>1 DEF Row, Status
<1>3. 0 \in 0..MaxFaults /\ 0 \in 0..MaxVerbs
  BY LeaseAssumption DEF LeaseAssumption
<1>. QED BY <1>2, <1>3, NoAdvType DEF Init, TypeOK

LEMMA ClaimType ==
    ASSUME TypeOK, NEW w \in Workers, NEW i \in Instances,
           ClaimInstances(w, i)
    PROVE  TypeOK'
<1>0. row[i] \in Row /\ row[i].cols \in Cols
  BY RowType
<1>1. row[i].epoch + 1 \in Grants /\ row[i].epoch + 1 \in 0..MaxGrants
  BY <1>0, LeaseAssumption DEF LeaseAssumption, ClaimInstances, Row, Grants
<1>2. [row[i] EXCEPT !.worker = w, !.lapsed = FALSE,
                     !.epoch = row[i].epoch + 1] \in Row
  BY <1>0, <1>1 DEF Row
<1>3. 0 \in 0..MaxInline
  BY LeaseAssumption DEF LeaseAssumption
<1>4. [pc |-> "claimed", owner |-> w,
       reclaimed |-> (row[i].worker # NoWorker),
       base |-> row[i].cols, iter |-> 0,
       out |-> [kind |-> "progress", status |-> row[i].status,
                cols |-> row[i].cols]] \in Adv
  BY <1>0, <1>3 DEF Adv, Outcome, Kinds, Row
<1>5. row' \in [Instances -> Row]
  BY <1>2, PutRowType DEF ClaimInstances, Grant
<1>6. adv' \in [Instances -> [Grants -> Adv]]
  BY <1>1, <1>4, PutAdvType DEF ClaimInstances, Grant
<1>7. held' \in [Workers -> SUBSET Instances]
  BY DEF ClaimInstances, Grant, TypeOK
<1>. QED BY <1>5, <1>6, <1>7 DEF ClaimInstances, TypeOK

LEMMA AdvanceType ==
    ASSUME TypeOK, NEW i \in Instances, NEW e \in Grants, AdvanceStep(i, e)
    PROVE  TypeOK'
<1>. DEFINE a == adv[i][e]
<1>0. a \in Adv /\ row[i] \in Row /\ a.out \in Outcome
  BY ColsType, RowType
<1>0a. /\ [a EXCEPT !.pc = "run"] \in Adv
       /\ [a EXCEPT !.pc = "closing"] \in Adv
       /\ NoAdv \in Adv
  BY <1>0, NoAdvType DEF Adv
<1>1. CASE dispatch(i, e)
  <2>1. adv' \in [Instances -> [Grants -> Adv]]
    BY <1>1, <1>0a, PutAdvType DEF dispatch
  <2>2. inflight' \in [Workers -> SUBSET Instances]
    BY <1>1 DEF dispatch, TypeOK
  <2>. QED BY <1>1, <2>1, <2>2 DEF dispatch, TypeOK
<1>2. CASE Compute(i, e)
  BY <1>2, ComputeType
<1>3. CASE persist(i, e)
  <2>1. adv' \in [Instances -> [Grants -> Adv]]
    BY <1>3, <1>0a, PutAdvType DEF persist
  <2>2. Written(row[i], a.out) \in Row
    BY <1>0 DEF Written, StatusWritten, Row, Outcome
  <2>3. row' \in [Instances -> Row]
    BY <1>3, <2>2, PutRowType DEF persist, TypeOK
  <2>4. faults' \in 0..MaxFaults
    BY <1>3, LeaseAssumption DEF LeaseAssumption, persist, TypeOK
  <2>. QED BY <1>3, <2>1, <2>3, <2>4 DEF persist, TypeOK
<1>4. CASE Abandon(i, e)
  <2>1. adv' \in [Instances -> [Grants -> Adv]]
    BY <1>4, <1>0a, PutAdvType DEF Abandon
  <2>. QED BY <1>4, <2>1 DEF Abandon, TypeOK
<1>5. CASE dropLease(i, e)
  <2>1. adv' \in [Instances -> [Grants -> Adv]]
    BY <1>5, <1>0a, PutAdvType DEF dropLease
  <2>2. held' \in [Workers -> SUBSET Instances]
    BY <1>5 DEF dropLease, TypeOK
  <2>. QED BY <1>5, <2>1, <2>2 DEF dropLease, TypeOK
<1>. QED BY <1>1, <1>2, <1>3, <1>4, <1>5 DEF AdvanceStep

LEMMA WorkerType ==
    ASSUME TypeOK, NEW w \in Workers,
           RenewWorkerLeases(w) \/ Crash(w) \/ drain(w)
    PROVE  TypeOK'
<1>1. CASE RenewWorkerLeases(w)
  <2>1. ASSUME NEW i \in Instances
        PROVE  [row[i] EXCEPT !.lapsed = FALSE] \in Row
    <3>1. row[i] \in Row
      BY DEF TypeOK
    <3>. QED BY <3>1 DEF Row
  <2>2. row' \in [Instances -> Row]
    BY <1>1, <2>1 DEF RenewWorkerLeases, TypeOK
  <2>. QED BY <1>1, <2>2 DEF RenewWorkerLeases, TypeOK
<1>2. CASE Crash(w)
  <2>1. adv' \in [Instances -> [Grants -> Adv]]
    BY <1>2, NoAdvType DEF Crash, TypeOK
  <2>2. faults' \in 0..MaxFaults
    BY <1>2, LeaseAssumption DEF LeaseAssumption, Crash, TypeOK
  <2>. QED BY <1>2, <2>1, <2>2 DEF Crash, TypeOK
<1>3. CASE drain(w)
  <2>1. faults' \in 0..MaxFaults
    BY <1>3, LeaseAssumption DEF LeaseAssumption, drain, TypeOK
  <2>2. wstate' \in [Workers -> {"up", "draining", "abandoned", "dead"}]
    BY <1>3 DEF drain, TypeOK
  <2>. QED BY <1>3, <2>1, <2>2 DEF drain, TypeOK
<1>. QED BY <1>1, <1>2, <1>3

(* A verb, a lapse or a timer replaces one row and nothing an advance has. *)
LEMMA RowStepType ==
    ASSUME TypeOK, NEW i \in Instances,
           \/ Expire(i) \/ Freeze(i) \/ WakeDue(i) \/ PauseProcess(i)
           \/ CancelProcess(i) \/ ResumeProcess(i)
           \/ \E force \in BOOLEAN : RetryProcess(i, force)
    PROVE  TypeOK'
<1>0. row[i] \in Row /\ row[i].cols \in Cols
  BY RowType
<1>1. ASSUME NEW r \in Row, Verb(i, r)
      PROVE  TypeOK'
  <2>1. verbs' \in 0..MaxVerbs
    BY <1>1, LeaseAssumption DEF LeaseAssumption, Verb, TypeOK
  <2>. QED BY <1>1, <2>1, PutRowType DEF Verb, TypeOK
<1>2. CASE Expire(i)
  <2>1. [row[i] EXCEPT !.lapsed = TRUE] \in Row
    BY <1>0 DEF Row
  <2>. QED BY <1>2, <2>1, PutRowType DEF Expire, TypeOK
<1>3. CASE Freeze(i)
  <2>1. [row[i] EXCEPT !.lapsed = TRUE] \in Row
    BY <1>0 DEF Row
  <2>2. faults' \in 0..MaxFaults
    BY <1>3, LeaseAssumption DEF LeaseAssumption, Freeze, TypeOK
  <2>. QED BY <1>3, <2>1, <2>2, PutRowType DEF Freeze, TypeOK
<1>4. CASE WakeDue(i)
  <2>1. [row[i] EXCEPT !.cols.wake = "due"] \in Row
    BY <1>0 DEF Row, Cols
  <2>. QED BY <1>4, <2>1, PutRowType DEF WakeDue, TypeOK
<1>5. CASE PauseProcess(i)
  BY <1>0, <1>1, <1>5 DEF PauseProcess, Row, Status
<1>6. CASE CancelProcess(i)
  BY <1>0, <1>1, <1>6 DEF CancelProcess, Row, Status
<1>7. CASE ResumeProcess(i)
  BY <1>0, <1>1, <1>7 DEF ResumeProcess, Row, Status
<1>8. CASE \E force \in BOOLEAN : RetryProcess(i, force)
  <2>. DEFINE c == row[i].cols
              k == [c EXCEPT !.tepoch = c.tepoch + 1, !.entry = c.tepoch + 1,
                             !.wake = IF c.retry > 0 THEN "nil" ELSE c.wake]
  <2>1. c.tepoch + 1 \in 0..MaxTaskEpoch
    BY <1>0, <1>8, LeaseAssumption DEF LeaseAssumption, RetryProcess, Cols
  <2>2. (IF c.retry > 0 THEN "nil" ELSE c.wake) \in {"nil", "future", "due"}
    BY <1>0 DEF Cols
  <2>3. k \in Cols
    BY <1>0, <2>1, <2>2 DEF Cols
  <2>. HIDE DEF k
  <2>4. [row[i] EXCEPT !.status = "running", !.worker = NoWorker,
                       !.lapsed = FALSE, !.cols = k] \in Row
    BY <1>0, <2>3 DEF Row, Status
  <2>. QED BY <1>1, <1>8, <2>4 DEF RetryProcess, k
<1>. QED BY <1>2, <1>3, <1>4, <1>5, <1>6, <1>7, <1>8

LEMMA NextType == TypeOK /\ [Next]_vars => TypeOK'
<1>. SUFFICES ASSUME TypeOK, [Next]_vars PROVE TypeOK'
  OBVIOUS
<1>1. CASE \E w \in Workers, i \in Instances : ClaimInstances(w, i)
  BY <1>1, ClaimType
<1>2. CASE \E i \in Instances, e \in Grants : AdvanceStep(i, e)
  BY <1>2, AdvanceType
<1>3. CASE \E w \in Workers : RenewWorkerLeases(w) \/ Crash(w) \/ drain(w)
  BY <1>3, WorkerType
<1>4. CASE \E i \in Instances : Expire(i) \/ Freeze(i) \/ WakeDue(i)
  BY <1>4, RowStepType
<1>5. CASE \E i \in Instances : PauseProcess(i) \/ CancelProcess(i)
                                  \/ ResumeProcess(i)
  BY <1>5, RowStepType
<1>6. CASE \E i \in Instances, force \in BOOLEAN : RetryProcess(i, force)
  BY <1>6, RowStepType
<1>7. CASE UNCHANGED vars
  BY <1>7 DEF vars, TypeOK
<1>. QED BY <1>1, <1>2, <1>3, <1>4, <1>5, <1>6, <1>7 DEF Next

(* Every reachable state is well typed.                                    *)
THEOREM TypeCorrect == Spec => []TypeOK
BY InitType, NextType, PTL DEF Spec

-----------------------------------------------------------------------------
(* What the outcomes do to the entry of the task the advance stands on.    *)
OutcomeOf(c, o) ==
    /\ o.status \in {"running", "completed", "raised", "failed"}
    /\ o.kind = "progress" => o.status = "running"
    /\ o.status \in Terminal => /\ o.cols.entry = c.entry
                                /\ o.cols.tepoch = c.tepoch
    /\ o.status = "running" => /\ c.tepoch < o.cols.tepoch
                               /\ o.cols.entry <= o.cols.tepoch

LEMMA TerminalsOutcome ==
    ASSUME NEW c \in Cols,
           NEW o \in {Complete(c), raiseInstance(c), failInstance(c),
                     failInstance([c EXCEPT !.retry = 0])}
    PROVE  OutcomeOf(c, o) /\ o.status \in Terminal
<1>1. ASSUME NEW d \in Cols, d.entry = c.entry, d.tepoch = c.tepoch,
             NEW s \in {"completed", "raised", "failed"}, o = Conclude(d, s)
      PROVE  OutcomeOf(c, o) /\ o.status \in Terminal
  <2>1. /\ o.status = s /\ o.kind = "terminal"
        /\ o.cols.entry = d.entry /\ o.cols.tepoch = d.tepoch
    BY <1>1 DEF Conclude, Cols
  <2>. QED BY <1>1, <2>1 DEF OutcomeOf, Terminal
<1>2. CASE o \in {Complete(c), failInstance([c EXCEPT !.retry = 0])}
  <2>1. /\ [c EXCEPT !.retry = 0].entry = c.entry
        /\ [c EXCEPT !.retry = 0].tepoch = c.tepoch
    BY DEF Cols
  <2>. QED BY <1>1, <1>2, <2>1, RetryZero DEF Complete, failInstance
<1>. QED BY <1>1, <1>2 DEF raiseInstance, failInstance

LEMMA GotosOutcome ==
    ASSUME NEW c \in Cols, NEW k, NEW T, NEW o \in Gotos(c, k, T)
    PROVE  OutcomeOf(c, o) /\ c.tepoch < o.cols.entry
<1>1. PICK t \in T : o = [kind |-> k, status |-> "running",
                          cols |-> enterTask(c, t)]
  BY DEF Gotos
<1>2. /\ enterTask(c, t).entry = c.tepoch + 1
      /\ enterTask(c, t).tepoch = c.tepoch + 1
  BY DEF enterTask, Cols
<1>3. c.tepoch \in Nat
  BY DEF Cols
<1>. QED BY <1>1, <1>2, <1>3 DEF OutcomeOf, Terminal

LEMMA RetriesOutcome ==
    ASSUME NEW c \in Cols, c.entry <= c.tepoch, NEW code,
           NEW o \in Retries(c, code)
    PROVE  /\ OutcomeOf(c, o)
           /\ o.cols.task = c.task
           /\ o.cols.entry = c.entry
           /\ c.task \in OnceTasks => code = "pre"
<1>1. /\ isRetryAllowed(c.task, code)
      /\ o = [kind |-> "update", status |-> "running",
              cols |-> [c EXCEPT !.retry = c.retry + 1, !.wake = "future",
                                 !.tepoch = c.tepoch + 1]]
  BY DEF Retries
<1>2. c.tepoch \in Nat /\ c.entry \in Nat
  BY DEF Cols
<1>3. /\ o.cols.task = c.task
      /\ o.cols.entry = c.entry
      /\ o.cols.tepoch = c.tepoch + 1
      /\ o.status = "running"
      /\ o.kind = "update"
  BY <1>1 DEF Cols
<1>. QED BY <1>1, <1>2, <1>3 DEF OutcomeOf, Terminal, isRetryAllowed

LEMMA SwitchOutcome ==
    ASSUME NEW c \in Cols, NEW o \in evalSwitch(c)
    PROVE  /\ OutcomeOf(c, o)
           /\ o.status \in Terminal \/ c.tepoch < o.cols.entry
BY TerminalsOutcome, GotosOutcome DEF evalSwitch

LEMMA CallErrorOutcome ==
    ASSUME NEW c \in Cols, c.entry <= c.tepoch, NEW code,
           NEW o \in handleCallError(c, code)
    PROVE  /\ OutcomeOf(c, o)
           /\ \/ o.status \in Terminal
              \/ c.tepoch < o.cols.entry
              \/ /\ o.cols.task = c.task
                 /\ o.cols.entry = c.entry
                 /\ c.task \in OnceTasks => code = "pre"
BY TerminalsOutcome, GotosOutcome, RetriesOutcome
   DEF handleCallError, completeViaErrorHandler

(* The outcome stays on the same entry of an only_once task.               *)
Stays(o, c) ==
    /\ o.status \notin Terminal
    /\ o.cols.task \in OnceTasks
    /\ o.cols.entry = c.entry

(* Every step of advance() is one of two: it reaches an outcome, or moves  *)
(* on to the next task in memory.                                          *)
WriteStep(i, e, o) ==
    LET a == adv[i][e]  c == a.out.cols IN
    /\ a.pc = "run"
    /\ o \in Outcome
    /\ Reach(i, e, o)
    /\ o.kind = "progress" => o.status = "running"
    /\ \/ o.status \in {"running", "completed", "raised", "failed"}
       \/ o.status = "paused" /\ a.out.status = "pausing"
       \/ o.status = "cancelled" /\ a.out.status = "cancelling"
    /\ o.cols.entry <= o.cols.tepoch
    /\ c.tepoch <= o.cols.tepoch
    /\ o.cols.entry = c.entry \/ c.tepoch < o.cols.entry
    /\ Stays(o, c) => ran' = ran /\ (MayCall(i, e) \/ a.iter > 0)
    /\ \/ ran' = ran
       \/ /\ MayCall(i, e)
          /\ ran' = [ran EXCEPT ![i][c.entry] = ran[i][c.entry] + 1]

InlineStep(i, e, o) ==
    LET a == adv[i][e]  c == a.out.cols IN
    /\ a.pc = "run"
    /\ a.out.status = "running"
    /\ a.iter + 1 \in 0..MaxInline
    /\ o \in Outcome
    /\ PutAdv(i, e, [a EXCEPT !.out = o, !.iter = a.iter + 1])
    /\ UNCHANGED <<row, held, inflight, wstate, ran, faults, verbs>>
    /\ o.status = "running"
    /\ c.tepoch < o.cols.entry
    /\ o.cols.entry <= o.cols.tepoch

LEMMA CallErrorStep ==
    ASSUME NEW c \in Cols, c.entry <= c.tepoch, NEW code,
           NEW o \in handleCallError(c, code)
    PROVE  /\ o \in Outcome
           /\ o.kind = "progress" => o.status = "running"
           /\ o.status \in {"running", "completed", "raised", "failed"}
           /\ o.cols.entry <= o.cols.tepoch
           /\ c.tepoch <= o.cols.tepoch
           /\ o.cols.entry = c.entry \/ c.tepoch < o.cols.entry
           /\ Stays(o, c) => c.task \in OnceTasks /\ code = "pre"
<1>1. /\ o \in Outcome /\ o.cols \in Cols
      /\ c.tepoch \in Nat /\ c.entry \in Nat
      /\ o.cols.tepoch \in Nat /\ o.cols.entry \in Nat
  BY CallErrorType DEF Outcome, Cols
<1>2. o.status = "running" \/ o.status \in Terminal
  BY CallErrorOutcome DEF OutcomeOf, Terminal
<1>. QED BY <1>1, <1>2, CallErrorOutcome DEF OutcomeOf, Stays

LEMMA SwitchStep ==
    ASSUME NEW c \in Cols, c.entry <= c.tepoch, NEW o \in evalSwitch(c)
    PROVE  /\ o \in Outcome
           /\ o.kind = "progress" => o.status = "running"
           /\ o.status \in {"running", "completed", "raised", "failed"}
           /\ o.cols.entry <= o.cols.tepoch
           /\ c.tepoch <= o.cols.tepoch
           /\ o.cols.entry = c.entry \/ c.tepoch < o.cols.entry
           /\ o.status = "running" => c.tepoch < o.cols.entry
           /\ ~Stays(o, c)
<1>1. /\ o \in Outcome /\ o.cols \in Cols
      /\ c.tepoch \in Nat /\ c.entry \in Nat
      /\ o.cols.tepoch \in Nat /\ o.cols.entry \in Nat
  BY SwitchType DEF Outcome, Cols
<1>2. o.status = "running" \/ o.status \in Terminal
  BY SwitchOutcome DEF OutcomeOf, Terminal
<1>3. "running" \notin Terminal
  BY DEF Terminal
<1>. QED BY <1>1, <1>2, <1>3, SwitchOutcome DEF OutcomeOf, Stays

LEMMA ComputeSteps ==
    ASSUME TypeOK, Moves, NEW i \in Instances, NEW e \in Grants,
           Compute(i, e)
    PROVE  \E o : WriteStep(i, e, o) \/ InlineStep(i, e, o)
<1>. DEFINE a == adv[i][e]
            c == a.out.cols
<1>1. /\ a \in Adv /\ a.out \in Outcome /\ c \in Cols
      /\ a.out.status \in Status
      /\ a.iter \in Nat /\ c.entry \in Nat /\ c.tepoch \in Nat
  <2>1. a \in Adv /\ a.out \in Outcome /\ c \in Cols
    BY ColsType
  <2>2. a.iter \in Nat
    BY <2>1 DEF Adv
  <2>3. a.out.status \in Status
    BY <2>1 DEF Outcome
  <2>. QED BY <2>1, <2>2, <2>3, EntryType
<1>2. a.pc = "run"
  BY DEF Compute, SettleStop, Interrupted, OffTheEnd, RunSwitch,
         YieldBeforeOnce, runDelay, executeAction, InLoop
<1>3. c.entry <= c.tepoch
  BY <1>2 DEF Moves, Moved, Live
<1>4. CASE SettleStop(i, e)
  <2>1. CASE a.out.status = "cancelling"
    <3>. DEFINE o == [a.out EXCEPT !.kind = "terminal", !.status = "cancelled"]
    <3>1. /\ o \in Outcome /\ o.status = "cancelled" /\ o.kind = "terminal"
          /\ o.cols = c
      BY <1>1 DEF Outcome, Kinds, Status
    <3>2. Reach(i, e, o) /\ ran' = ran
      BY <1>4, <2>1 DEF SettleStop
    <3>3. WriteStep(i, e, o)
      BY <1>1, <1>2, <1>3, <2>1, <3>1, <3>2 DEF WriteStep, Stays, Terminal
    <3>. QED BY <3>3
  <2>2. CASE a.out.status # "cancelling"
    <3>. DEFINE o == [a.out EXCEPT !.kind = "terminal", !.status = "paused"]
    <3>1. /\ o \in Outcome /\ o.status = "paused" /\ o.kind = "terminal"
          /\ o.cols = c
      BY <1>1 DEF Outcome, Kinds, Status
    <3>2. /\ Reach(i, e, o) /\ ran' = ran
          /\ a.out.status = "pausing" /\ ~InterruptedOnce(a)
      BY <1>4, <2>2 DEF SettleStop
    <3>3. c.task \in OnceTasks => MayCall(i, e) \/ a.iter > 0
      BY <1>1, <1>2, <3>2 DEF InterruptedOnce, MayCall
    <3>4. WriteStep(i, e, o)
      BY <1>1, <1>2, <1>3, <3>1, <3>2, <3>3 DEF WriteStep, Stays
    <3>. QED BY <3>4
  <2>. QED BY <2>1, <2>2
<1>5. CASE Interrupted(i, e)
  <2>1. PICK o \in handleCallError(c, "unknowable") : Reach(i, e, o)
    BY <1>5 DEF Interrupted
  <2>2. WriteStep(i, e, o)
    BY <1>1, <1>2, <1>3, <1>5, <2>1, CallErrorStep DEF WriteStep, Interrupted
  <2>. QED BY <2>2
<1>6. CASE OffTheEnd(i, e)
  <2>1. PICK o \in evalSwitch(c) : Reach(i, e, o)
    BY <1>6 DEF OffTheEnd, evalSwitch
  <2>2. WriteStep(i, e, o)
    BY <1>1, <1>2, <1>3, <1>6, <2>1, SwitchStep DEF WriteStep, OffTheEnd
  <2>. QED BY <2>2
<1>7. CASE RunSwitch(i, e)
  <2>1. PICK o \in evalSwitch(c) :
          IF o.kind = "progress" /\ a.iter < MaxInline
          THEN /\ PutAdv(i, e, [a EXCEPT !.out = o, !.iter = a.iter + 1])
               /\ UNCHANGED <<row, held, inflight, wstate, faults, verbs>>
          ELSE Reach(i, e, o)
    BY <1>7 DEF RunSwitch
  <2>2. ran' = ran /\ a.out.status = "running"
    BY <1>7 DEF RunSwitch, InLoop
  <2>3. CASE o.kind = "progress" /\ a.iter < MaxInline
    <3>1. a.iter + 1 \in 0..MaxInline
      BY <1>1, <2>3, LeaseAssumption DEF LeaseAssumption
    <3>2. InlineStep(i, e, o)
      BY <1>1, <1>2, <1>3, <2>1, <2>2, <2>3, <3>1, SwitchStep DEF InlineStep
    <3>. QED BY <3>2
  <2>4. CASE ~(o.kind = "progress" /\ a.iter < MaxInline)
    <3>1. WriteStep(i, e, o)
      BY <1>1, <1>2, <1>3, <2>1, <2>2, <2>4, SwitchStep DEF WriteStep
    <3>. QED BY <3>1
  <2>. QED BY <2>3, <2>4
<1>8. CASE YieldBeforeOnce(i, e)
  <2>. DEFINE o == [a.out EXCEPT !.kind = "progress"]
  <2>1. o \in Outcome /\ o.status = a.out.status /\ o.cols = c
    BY <1>1 DEF Outcome, Kinds
  <2>2. /\ Reach(i, e, o) /\ ran' = ran /\ a.iter > 0
        /\ a.out.status = "running"
    BY <1>8 DEF YieldBeforeOnce, YieldsToClaim, InLoop
  <2>3. WriteStep(i, e, o)
    BY <1>1, <1>2, <1>3, <2>1, <2>2 DEF WriteStep
  <2>. QED BY <2>3
<1>9. CASE runDelay(i, e)
  <2>0. ran' = ran /\ a.out.status = "running" /\ c.task \in DelayTasks
    BY <1>9 DEF runDelay, InLoop
  <2>1. CASE \E o \in evalSwitch(c) : Reach(i, e, o)
    BY <1>1, <1>2, <1>3, <2>0, <2>1, SwitchStep DEF WriteStep
  <2>2. CASE ~ \E o \in evalSwitch(c) : Reach(i, e, o)
    <3>. DEFINE o == [a.out EXCEPT !.kind = "progress", !.cols.wake = "future"]
    <3>1. /\ o \in Outcome /\ o.status = a.out.status
          /\ o.cols.entry = c.entry /\ o.cols.tepoch = c.tepoch
          /\ o.cols.task = c.task
      BY <1>1 DEF Outcome, Kinds, Cols
    <3>2. failInstance(c) \in evalSwitch(c)
      BY DEF evalSwitch
    <3>3. Reach(i, e, o)
      BY <1>9, <2>2, <3>2 DEF runDelay
    <3>4. c.task \notin OnceTasks
      BY <2>0, LeaseAssumption DEF LeaseAssumption
    <3>. HIDE DEF o
    <3>5. WriteStep(i, e, o)
      BY <1>1, <1>2, <1>3, <2>0, <3>1, <3>3, <3>4 DEF WriteStep, Stays
    <3>. QED BY <3>5
  <2>. QED BY <2>1, <2>2
<1>10. CASE \E code \in ErrorCodes \cup {"ok"} : executeAction(i, e, code)
  <2>1. PICK code : executeAction(i, e, code)
    BY <1>10
  <2>. DEFINE d == [c EXCEPT !.retry = 0]
  <2>2. d \in Cols /\ d.entry = c.entry /\ d.tepoch = c.tepoch
    BY <1>1, RetryZero DEF Cols
  <2>3. c.task \in OnceTasks => MayCall(i, e)
    <3>. SUFFICES ASSUME c.task \in OnceTasks PROVE MayCall(i, e)
      OBVIOUS
    <3>1. InLoop(a) /\ ~YieldsToClaim(a)
      BY <2>1 DEF executeAction
    <3>2. a.iter = 0
      BY <1>1, <3>1 DEF YieldsToClaim
    <3>3. ~a.reclaimed
      BY <3>1, <3>2 DEF InLoop, InterruptedOnce
    <3>. QED BY <1>2, <3>2, <3>3 DEF MayCall
  <2>4. /\ ran' = ran
           \/ /\ MayCall(i, e)
              /\ ran' = [ran EXCEPT ![i][c.entry] = ran[i][c.entry] + 1]
        /\ code = "pre" => ran' = ran
    BY <2>1, <2>3 DEF executeAction
  <2>5. CASE code = "ok"
    <3>1. PICK o \in evalSwitch(d) : Reach(i, e, o)
      BY <2>1, <2>5 DEF executeAction
    <3>. HIDE DEF d
    <3>2. ~Stays(o, c)
      BY <1>3, <2>2, <3>1, SwitchStep DEF Stays
    <3>3. WriteStep(i, e, o)
      BY <1>1, <1>2, <1>3, <2>2, <2>4, <3>1, <3>2, SwitchStep DEF WriteStep
    <3>. QED BY <3>3
  <2>6. CASE code # "ok"
    <3>1. PICK o \in handleCallError(c, code) : Reach(i, e, o)
      BY <2>1, <2>6 DEF executeAction
    <3>2. Stays(o, c) => ran' = ran /\ MayCall(i, e)
      BY <1>1, <1>3, <2>3, <2>4, <3>1, CallErrorStep
    <3>3. /\ o \in Outcome
          /\ o.kind = "progress" => o.status = "running"
          /\ o.status \in {"running", "completed", "raised", "failed"}
          /\ o.cols.entry <= o.cols.tepoch
          /\ c.tepoch <= o.cols.tepoch
          /\ o.cols.entry = c.entry \/ c.tepoch < o.cols.entry
      BY <1>1, <1>3, <3>1, CallErrorStep
    <3>4. WriteStep(i, e, o)
      BY <1>2, <2>4, <3>1, <3>2, <3>3 DEF WriteStep
    <3>. QED BY <3>4
  <2>. QED BY <2>5, <2>6
<1>. QED BY <1>4, <1>5, <1>6, <1>7, <1>8, <1>9, <1>10 DEF Compute

-----------------------------------------------------------------------------
LEMMA PutAdvAt ==
    ASSUME TypeOK, NEW i \in Instances, NEW e \in Grants, NEW x,
           PutAdv(i, e, x)
    PROVE  /\ adv'[i][e] = x
           /\ \A j \in Instances, f \in Grants :
                j # i \/ f # e => adv'[j][f] = adv[j][f]
BY DEF TypeOK, PutAdv

LEMMA PutRowAt ==
    ASSUME TypeOK, NEW i \in Instances, NEW r, PutRow(i, r)
    PROVE  /\ row'[i] = r
           /\ \A j \in Instances : j # i => row'[j] = row[j]
BY DEF TypeOK, PutRow

LEMMA InitIInv == Init => IInv
<1>. SUFFICES ASSUME Init PROVE IInv
  OBVIOUS
<1>0. TypeOK
  BY InitType
<1>1. \A i \in Instances, e \in Grants : adv[i][e].pc = "none"
  BY DEF Init, NoAdv
<1>2. \A i \in Instances : /\ row[i].status = "running"
                           /\ row[i].worker = NoWorker
                           /\ row[i].cols.entry = 0 /\ row[i].cols.tepoch = 0
  BY DEF Init, FirstCols
<1>3. \A i \in Instances, n \in 0..MaxTaskEpoch : ran[i][n] = 0
  BY DEF Init
<1>4. FenceInv
  BY <1>1, <1>2 DEF FenceInv, GrantsMade, NoLostUpdate, StoppedIsUnheld,
                    StopAnswered, Stopped, Terminal
<1>5. Moves /\ OneCaller /\ WriteUntried /\ EntryOrder /\ OnlyOnce
  <2>1. \A i \in Instances, e \in Grants : ~MayCall(i, e)
    BY <1>1 DEF MayCall
  <2>2. Moves /\ WriteUntried
    BY <1>1 DEF Moves, Moved, Live, WriteUntried
  <2>3. OneCaller
    BY <2>1 DEF OneCaller
  <2>4. EntryOrder
    BY <1>2, <1>3, <2>1 DEF EntryOrder
  <2>5. OnlyOnce
    BY <1>3 DEF OnlyOnce
  <2>. QED BY <2>2, <2>3, <2>4, <2>5
<1>6. ASSUME NEW i \in Instances
      PROVE  Untried(i, row[i].cols.entry)
  <2>1. row[i].cols.entry \in 0..MaxTaskEpoch
    BY <1>0, RowType DEF Cols
  <2>. QED BY <1>1, <1>3, <2>1 DEF Untried, MayCall
<1>. QED BY <1>0, <1>4, <1>5, <1>6 DEF IInv, OnceInv, UnheldUntried

(* Steps that change no row but its lapsed flag, and let advances go on,   *)
(* finish or vanish: renewal, lapse, dispatch, a refused or abandoned      *)
(* write, a crash, a shutdown.                                             *)
Quiet ==
    /\ \A j \in Instances : /\ row'[j].status = row[j].status
                            /\ row'[j].cols = row[j].cols
                            /\ row'[j].worker = row[j].worker
                            /\ row'[j].epoch = row[j].epoch
    /\ ran' = ran
    /\ \A j \in Instances, f \in Grants :
         LET a == adv[j][f]  b == adv'[j][f] IN
         \/ b = a
         \/ b.pc = "none"
         \/ b.pc = "closing" /\ a.pc # "none" /\ b.owner = a.owner
         \/ /\ b.pc = "run" /\ a.pc = "claimed"
            /\ b.owner = a.owner /\ b.reclaimed = a.reclaimed
            /\ b.base = a.base /\ b.iter = a.iter /\ b.out = a.out

LEMMA QuietKeeps ==
    ASSUME IInv, TypeOK', Quiet
    PROVE  IInv'
<1>1. GrantsMade'
  BY DEF IInv, FenceInv, GrantsMade, Quiet
<1>2. NoLostUpdate'
  BY DEF IInv, FenceInv, NoLostUpdate, Quiet, Fence
<1>3. StoppedIsUnheld'
  BY DEF IInv, FenceInv, StoppedIsUnheld, Quiet
<1>4. StopAnswered'
  BY DEF IInv, FenceInv, StopAnswered, Quiet, Fence
<1>5. Moves'
  <2>. SUFFICES ASSUME NEW j \in Instances, NEW f \in Grants
                PROVE  Moved(adv'[j][f])
    BY DEF Moves
  <2>1. Moved(adv[j][f])
    BY DEF IInv, OnceInv, Moves
  <2>2. CASE adv'[j][f] = adv[j][f]
    BY <2>1, <2>2
  <2>3. CASE adv'[j][f].pc \in {"none", "closing"}
    BY <2>3 DEF Moved, Live
  <2>4. CASE adv'[j][f].pc = "run" /\ adv'[j][f] # adv[j][f]
    <3>1. LET a == adv[j][f]  b == adv'[j][f] IN
          /\ a.pc = "claimed" /\ b.base = a.base
          /\ b.iter = a.iter /\ b.out = a.out
      BY <2>4 DEF Quiet
    <3>. QED BY <2>1, <2>4, <3>1 DEF Moved, Live
  <2>. QED BY <2>2, <2>3, <2>4 DEF Quiet
<1>6. \A j \in Instances, f \in Grants :
        MayCall(j, f)' => /\ MayCall(j, f)
                          /\ adv'[j][f].out.cols = adv[j][f].out.cols
  BY DEF MayCall, Quiet
<1>7. OneCaller'
  <2>1. ran' = ran
    BY DEF Quiet
  <2>. QED BY <1>6, <2>1 DEF IInv, OnceInv, OneCaller
<1>8. EntryOrder'
  BY <1>6 DEF IInv, OnceInv, EntryOrder, Quiet
<1>9. \A j \in Instances : \A n : Untried(j, n) => Untried(j, n)'
  BY <1>6 DEF Untried, Quiet
<1>10. UnheldUntried'
  BY <1>9 DEF IInv, OnceInv, UnheldUntried, Quiet
<1>11. WriteUntried'
  <2>. SUFFICES ASSUME NEW j \in Instances, NEW f \in Grants,
                       adv'[j][f].pc = "write", Fence(j, f)',
                       adv'[j][f].out.status \notin Terminal,
                       adv'[j][f].out.cols.task \in OnceTasks,
                       NEW n, n = adv'[j][f].out.cols.entry,
                       n = row'[j].cols.entry
                PROVE  Untried(j, n)'
    BY DEF WriteUntried
  <2>1. adv'[j][f] = adv[j][f]
    BY DEF Quiet
  <2>2. Fence(j, f) /\ n = row[j].cols.entry
    BY <2>1 DEF Quiet, Fence
  <2>. QED BY <1>9, <2>1, <2>2 DEF IInv, OnceInv, WriteUntried
<1>12. OnlyOnce'
  BY DEF IInv, OnceInv, OnlyOnce, Quiet
<1>. QED BY <1>1, <1>2, <1>3, <1>4, <1>5, <1>7, <1>8, <1>10, <1>11, <1>12
         DEF IInv, FenceInv, OnceInv

(* An entry the row has not reached is untried.                            *)
LEMMA FreshUntried ==
    ASSUME IInv, NEW i \in Instances, NEW n \in 0..MaxTaskEpoch,
           row[i].cols.entry < n
    PROVE  Untried(i, n)
<1>1. TypeOK
  BY DEF IInv
<1>2. row[i].cols.entry \in Nat /\ n \in Nat /\ ran[i][n] \in Nat
  BY <1>1, RowType, RanNat DEF Cols
<1>3. ran[i][n] = 0
  BY <1>2 DEF IInv, OnceInv, EntryOrder
<1>4. \A e \in Grants : adv[i][e].out.cols.entry \in Nat
  BY <1>1, ColsType DEF Cols
<1>. QED BY <1>2, <1>3, <1>4 DEF IInv, OnceInv, EntryOrder, Untried

(* A verb or a timer: the advances stand, one row is replaced.  A held row *)
(* is only asked to stop; an unheld one stays on its entry or takes a new. *)
Restated(r, q) ==
    /\ q.epoch = r.epoch
    /\ q.worker = r.worker
    /\ q.status \in Stopped => q.worker = NoWorker
    /\ q.worker # NoWorker => /\ q.cols = r.cols
                              /\ r.status = "running"
                              /\ q.status \in {"pausing", "cancelling"}
    /\ q.cols.entry <= q.cols.tepoch
    /\ \/ r.cols.tepoch < q.cols.entry
       \/ /\ q.cols.entry = r.cols.entry
          /\ q.status \notin Terminal =>
               r.status \notin Terminal /\ q.cols.task = r.cols.task

LEMMA RestateKeeps ==
    ASSUME IInv, TypeOK', NEW i \in Instances, NEW q \in Row, PutRow(i, q),
           Restated(row[i], q), adv' = adv, ran' = ran
    PROVE  IInv'
<1>0. TypeOK
  BY DEF IInv
<1>1. /\ row'[i] = q
      /\ \A j \in Instances : j # i => row'[j] = row[j]
  BY <1>0, PutRowAt
<1>2. /\ row[i].cols.entry \in Nat /\ row[i].cols.tepoch \in Nat
      /\ q.cols.entry \in Nat /\ q.cols.tepoch \in Nat
      /\ q.cols.entry \in 0..MaxTaskEpoch
      /\ row[i].cols.entry <= row[i].cols.tepoch
  <2>1. row[i].cols \in Cols /\ q.cols \in Cols
    BY <1>0, RowType DEF Row
  <2>2. row[i].cols.entry <= row[i].cols.tepoch
    BY DEF IInv, OnceInv, EntryOrder
  <2>. QED BY <2>1, <2>2 DEF Cols
<1>3. row[i].cols.entry <= q.cols.entry
  BY <1>2 DEF Restated
<1>4. \A j \in Instances, f \in Grants : MayCall(j, f)' <=> MayCall(j, f)
  BY DEF MayCall
<1>5. GrantsMade'
  BY <1>1 DEF IInv, FenceInv, GrantsMade, Restated
<1>6. NoLostUpdate'
  <2>. SUFFICES ASSUME NEW j \in Instances, NEW e \in Grants,
                       adv[j][e].pc \in {"claimed", "run", "write"},
                       Fence(j, e)'
                PROVE  /\ adv[j][e].base = row'[j].cols
                       /\ adv[j][e].pc # "write" =>
                            \/ row'[j].status = adv[j][e].out.status
                            \/ row'[j].status \in {"pausing", "cancelling"}
                               /\ adv[j][e].out.status = "running"
    BY DEF NoLostUpdate
  <2>1. /\ Fence(j, e)
        /\ j = i => q.worker # NoWorker
    <3>1. adv[j][e].owner \in Workers
      BY DEF IInv, FenceInv, GrantsMade
    <3>2. row'[j].epoch = row[j].epoch /\ row'[j].worker = row[j].worker
      BY <1>1 DEF Restated
    <3>. QED BY <1>1, <3>1, <3>2, LeaseAssumption
             DEF Fence, LeaseAssumption
  <2>2. /\ adv[j][e].base = row[j].cols
        /\ adv[j][e].pc # "write" =>
             \/ row[j].status = adv[j][e].out.status
             \/ row[j].status \in {"pausing", "cancelling"}
                /\ adv[j][e].out.status = "running"
    BY <2>1 DEF IInv, FenceInv, NoLostUpdate
  <2>3. CASE j # i
    BY <1>1, <2>2, <2>3
  <2>4. CASE j = i
    <3>1. /\ q.cols = row[i].cols /\ row[i].status = "running"
          /\ q.status \in {"pausing", "cancelling"}
      BY <2>1, <2>4 DEF Restated
    <3>. QED BY <1>1, <2>2, <2>4, <3>1
  <2>. QED BY <2>3, <2>4
<1>7. StoppedIsUnheld'
  BY <1>1 DEF IInv, FenceInv, StoppedIsUnheld, Restated
<1>8. StopAnswered'
  <2>. SUFFICES ASSUME NEW j \in Instances, NEW e \in Grants,
                       adv[j][e].pc = "write", Fence(j, e)'
                PROVE  LET s == adv[j][e].out.status IN
                       \/ s \in {"running", "completed", "raised", "failed"}
                       \/ s = "paused" /\ row'[j].status = "pausing"
                       \/ s = "cancelled" /\ row'[j].status = "cancelling"
    BY DEF StopAnswered
  <2>1. /\ Fence(j, e)
        /\ j = i => row[i].status = "running"
    BY <1>1, LeaseAssumption
    DEF Fence, Restated, IInv, FenceInv, GrantsMade, LeaseAssumption
  <2>. QED BY <1>1, <2>1 DEF IInv, FenceInv, StopAnswered, Restated
<1>9. Moves' /\ OnlyOnce'
  BY DEF IInv, OnceInv, Moves, OnlyOnce
<1>10. OneCaller'
  BY <1>4 DEF IInv, OnceInv, OneCaller
<1>11. EntryOrder'
  <2>. SUFFICES ASSUME NEW j \in Instances
                PROVE  /\ row'[j].cols.entry <= row'[j].cols.tepoch
                       /\ \A n \in 0..MaxTaskEpoch :
                            ran[j][n] > 0 => n <= row'[j].cols.entry
                       /\ \A e \in Grants : MayCall(j, e) =>
                            adv[j][e].out.cols.entry <= row'[j].cols.entry
    BY <1>4 DEF EntryOrder
  <2>1. CASE j # i
    BY <1>1, <2>1 DEF IInv, OnceInv, EntryOrder
  <2>2. CASE j = i
    <3>1. \A e \in Grants : adv[i][e].out.cols.entry \in Nat
      BY <1>0, EntryType
    <3>2. /\ \A n \in 0..MaxTaskEpoch :
               ran[i][n] > 0 => n <= row[i].cols.entry
          /\ \A e \in Grants : MayCall(i, e) =>
               adv[i][e].out.cols.entry <= row[i].cols.entry
      BY DEF IInv, OnceInv, EntryOrder
    <3>3. q.cols.entry <= q.cols.tepoch
      BY DEF Restated
    <3>. QED BY <1>1, <1>2, <1>3, <2>2, <3>1, <3>2, <3>3
  <2>. QED BY <2>1, <2>2
<1>12. \A j \in Instances : \A n : Untried(j, n) => Untried(j, n)'
  BY <1>4 DEF Untried
<1>13. row[i].cols.tepoch < q.cols.entry => Untried(i, q.cols.entry)
  BY <1>2, FreshUntried
<1>14. UnheldUntried'
  <2>. SUFFICES ASSUME NEW j \in Instances,
                       row'[j].worker = NoWorker,
                       row'[j].status \notin Terminal,
                       row'[j].cols.task \in OnceTasks
                PROVE  Untried(j, row'[j].cols.entry)
    BY <1>12 DEF UnheldUntried
  <2>1. CASE j # i
    BY <1>1, <2>1 DEF IInv, OnceInv, UnheldUntried
  <2>2. CASE j = i /\ row[i].cols.tepoch < q.cols.entry
    BY <1>1, <1>13, <2>2
  <2>3. CASE j = i /\ ~(row[i].cols.tepoch < q.cols.entry)
    BY <1>1, <2>3 DEF IInv, OnceInv, UnheldUntried, Restated
  <2>. QED BY <2>1, <2>2, <2>3
<1>15. WriteUntried'
  <2>. SUFFICES ASSUME NEW j \in Instances, NEW e \in Grants,
                       adv[j][e].pc = "write", Fence(j, e)',
                       adv[j][e].out.status \notin Terminal,
                       adv[j][e].out.cols.task \in OnceTasks,
                       adv[j][e].out.cols.entry = row'[j].cols.entry
                PROVE  Untried(j, adv[j][e].out.cols.entry)
    BY <1>12 DEF WriteUntried
  <2>1. Fence(j, e) /\ row'[j].cols = row[j].cols
    BY <1>1, LeaseAssumption
    DEF Fence, Restated, IInv, FenceInv, GrantsMade, LeaseAssumption
  <2>. QED BY <2>1 DEF IInv, OnceInv, WriteUntried
<1>. QED BY <1>5, <1>6, <1>7, <1>8, <1>9, <1>10, <1>11, <1>14, <1>15
         DEF IInv, FenceInv, OnceInv

(* A claim: the new grant may call only if the row was unheld.             *)
LEMMA ClaimKeeps ==
    ASSUME IInv, TypeOK', NEW w \in Workers, NEW i \in Instances,
           ClaimInstances(w, i)
    PROVE  IInv'
<1>0. TypeOK /\ ran' = ran
  BY DEF IInv, ClaimInstances
<1>1. row[i] \in Row /\ row[i].cols \in Cols /\ row[i].epoch \in Nat
  BY <1>0, RowType DEF Row
<1>g. PICK g \in Grants : g = row[i].epoch + 1
  <2>1. row[i].epoch < MaxGrants /\ MaxGrants \in Nat
    BY LeaseAssumption DEF LeaseAssumption, ClaimInstances
  <2>. QED BY <1>1, <2>1 DEF Grants
<1>. DEFINE x == adv'[i][g]
<1>2. /\ row'[i].status = row[i].status /\ row'[i].cols = row[i].cols
      /\ row'[i].worker = w /\ row'[i].epoch = g
      /\ \A j \in Instances : j # i => row'[j] = row[j]
  <2>1. row'[i] = [row[i] EXCEPT !.worker = w, !.lapsed = FALSE,
                                 !.epoch = row[i].epoch + 1]
    BY <1>0, PutRowAt DEF ClaimInstances, Grant
  <2>2. \A j \in Instances : j # i => row'[j] = row[j]
    BY <1>0, PutRowAt DEF ClaimInstances, Grant
  <2>. QED BY <1>1, <1>g, <2>1, <2>2 DEF Row
<1>3. /\ x.pc = "claimed" /\ x.owner = w /\ x.iter = 0
      /\ ~x.reclaimed => row[i].worker = NoWorker
      /\ x.base = row[i].cols /\ x.out.cols = row[i].cols
      /\ x.out.status = row[i].status
      /\ \A j \in Instances, f \in Grants :
           j # i \/ f # g => adv'[j][f] = adv[j][f]
  <2>1. PutAdv(i, g, [pc |-> "claimed", owner |-> w,
                      reclaimed |-> (row[i].worker # NoWorker),
                      base |-> row[i].cols, iter |-> 0,
                      out |-> [kind |-> "progress", status |-> row[i].status,
                               cols |-> row[i].cols]])
    BY <1>g DEF ClaimInstances, Grant
  <2>2. x = [pc |-> "claimed", owner |-> w,
             reclaimed |-> (row[i].worker # NoWorker),
             base |-> row[i].cols, iter |-> 0,
             out |-> [kind |-> "progress", status |-> row[i].status,
                      cols |-> row[i].cols]]
    BY <1>0, <1>1, <2>1, PutAdvAt
  <2>3. \A j \in Instances, f \in Grants :
          j # i \/ f # g => adv'[j][f] = adv[j][f]
    BY <1>0, <1>1, <2>1, PutAdvAt
  <2>. HIDE DEF x
  <2>. QED BY <2>2, <2>3
<1>4. row[i].status \notin Stopped /\ row[i].status \notin Terminal
  BY DEF ClaimInstances, Claimable, Stopped, Terminal
<1>. HIDE DEF x
<1>5. \A f \in Grants : adv[i][f].pc # "none" => f < g
  BY <1>1, <1>g DEF IInv, FenceInv, GrantsMade, Grants
<1>6. \A j \in Instances, f \in Grants :
        Fence(j, f)' /\ (j = i => adv[i][f].pc # "none")
          => j # i /\ Fence(j, f) /\ adv'[j][f] = adv[j][f]
  <2>1. \A f \in Grants : adv[i][f].pc # "none" => ~Fence(i, f)'
    BY <1>2, <1>5 DEF Fence, Grants
  <2>2. \A j \in Instances, f \in Grants :
          j # i => /\ adv'[j][f] = adv[j][f]
                   /\ Fence(j, f)' <=> Fence(j, f)
    BY <1>2, <1>3 DEF Fence
  <2>. QED BY <2>1, <2>2
<1>7. GrantsMade'
  <2>. SUFFICES ASSUME NEW j \in Instances, NEW f \in Grants,
                       adv'[j][f].pc # "none"
                PROVE  adv'[j][f].owner \in Workers /\ f <= row'[j].epoch
    BY DEF GrantsMade
  <2>1. CASE j = i /\ f = g
    BY <1>2, <1>3, <2>1 DEF Grants, x
  <2>2. CASE ~(j = i /\ f = g)
    <3>1. adv'[j][f] = adv[j][f]
      BY <1>3, <2>2
    <3>2. adv[j][f].owner \in Workers /\ f <= row[j].epoch
      BY <3>1 DEF IInv, FenceInv, GrantsMade
    <3>3. j = i => f <= g
      BY <1>5, <3>1 DEF Grants
    <3>. QED BY <1>2, <3>1, <3>2, <3>3
  <2>. QED BY <2>1, <2>2
<1>8. NoLostUpdate'
  <2>. SUFFICES ASSUME NEW j \in Instances, NEW f \in Grants,
                       adv'[j][f].pc \in {"claimed", "run", "write"},
                       Fence(j, f)'
                PROVE  /\ adv'[j][f].base = row'[j].cols
                       /\ adv'[j][f].pc # "write" =>
                            \/ row'[j].status = adv'[j][f].out.status
                            \/ row'[j].status \in {"pausing", "cancelling"}
                               /\ adv'[j][f].out.status = "running"
    BY DEF NoLostUpdate
  <2>1. CASE j = i /\ f = g
    BY <1>2, <1>3, <2>1 DEF x
  <2>2. CASE ~(j = i /\ f = g)
    <3>1. j # i /\ Fence(j, f) /\ adv'[j][f] = adv[j][f]
      BY <1>3, <1>6, <2>2
    <3>. QED BY <1>2, <3>1 DEF IInv, FenceInv, NoLostUpdate
  <2>. QED BY <2>1, <2>2
<1>9. StoppedIsUnheld'
  BY <1>2, <1>4 DEF IInv, FenceInv, StoppedIsUnheld
<1>10. StopAnswered'
  <2>. SUFFICES ASSUME NEW j \in Instances, NEW f \in Grants,
                       adv'[j][f].pc = "write", Fence(j, f)'
                PROVE  LET s == adv'[j][f].out.status IN
                       \/ s \in {"running", "completed", "raised", "failed"}
                       \/ s = "paused" /\ row'[j].status = "pausing"
                       \/ s = "cancelled" /\ row'[j].status = "cancelling"
    BY DEF StopAnswered
  <2>1. j # i /\ Fence(j, f) /\ adv'[j][f] = adv[j][f]
    BY <1>3, <1>6 DEF x
  <2>2. row'[j] = row[j]
    BY <1>2, <2>1
  <2>. QED BY <2>1, <2>2 DEF IInv, FenceInv, StopAnswered
<1>11. Moves'
  <2>1. row[i].cols.entry <= row[i].cols.tepoch
    BY DEF IInv, OnceInv, EntryOrder
  <2>2. Moved(x)
    BY <1>1, <1>3, <2>1 DEF Moved, Live, Cols
  <2>. QED BY <1>3, <2>2 DEF IInv, OnceInv, Moves, x
<1>12. \A j \in Instances, f \in Grants :
         j # i \/ f # g => (MayCall(j, f)' <=> MayCall(j, f))
  BY <1>3 DEF MayCall
<1>13. MayCall(i, g)' => Untried(i, x.out.cols.entry)
  BY <1>3, <1>4 DEF MayCall, x, IInv, OnceInv, UnheldUntried
<1>14. OneCaller'
  <2>. SUFFICES ASSUME NEW j \in Instances, NEW e \in Grants, MayCall(j, e)'
                PROVE  /\ ran[j][adv'[j][e].out.cols.entry] = 0
                       /\ \A f \in Grants :
                            MayCall(j, f)' /\ adv'[j][f].out.cols.entry
                                 = adv'[j][e].out.cols.entry => e = f
    BY <1>0 DEF OneCaller
  <2>1. CASE j = i /\ e = g
    BY <1>1, <1>3, <1>12, <1>13, <2>1 DEF Untried, x
  <2>2. CASE j # i
    <3>1. MayCall(j, e) /\ adv'[j][e] = adv[j][e]
      BY <1>3, <1>12, <2>2
    <3>2. \A f \in Grants : /\ MayCall(j, f)' => MayCall(j, f)
                            /\ adv'[j][f] = adv[j][f]
      BY <1>3, <1>12, <2>2
    <3>3. /\ ran[j][adv[j][e].out.cols.entry] = 0
          /\ \A f \in Grants :
               MayCall(j, f) /\ adv[j][f].out.cols.entry
                                  = adv[j][e].out.cols.entry => e = f
      BY <3>1 DEF IInv, OnceInv, OneCaller
    <3>. QED BY <3>1, <3>2, <3>3
  <2>3. CASE j = i /\ e # g
    <3>1. /\ MayCall(i, e) /\ adv'[i][e] = adv[i][e]
      BY <1>3, <1>12, <2>3
    <3>2. MayCall(i, g)' => x.out.cols.entry # adv[i][e].out.cols.entry
      BY <1>13, <3>1 DEF Untried
    <3>3. /\ ran[i][adv[i][e].out.cols.entry] = 0
          /\ \A f \in Grants :
               MayCall(i, f) /\ adv[i][f].out.cols.entry
                                  = adv[i][e].out.cols.entry => e = f
      BY <3>1 DEF IInv, OnceInv, OneCaller
    <3>4. ASSUME NEW f \in Grants, MayCall(i, f)',
                 adv'[i][f].out.cols.entry = adv[i][e].out.cols.entry
          PROVE  e = f
      <4>1. f # g
        BY <3>2, <3>4 DEF x
      <4>2. MayCall(i, f) /\ adv'[i][f] = adv[i][f]
        BY <1>3, <1>12, <3>4, <4>1
      <4>. QED BY <3>3, <3>4, <4>2
    <3>. QED BY <2>3, <3>1, <3>3, <3>4
  <2>. QED BY <2>1, <2>2, <2>3
<1>15. EntryOrder'
  <2>1. row[i].cols.entry \in Nat
    BY <1>1 DEF Cols
  <2>2. \A j \in Instances : row'[j].cols = row[j].cols
    BY <1>2
  <2>3. \A j \in Instances, f \in Grants :
          MayCall(j, f)' =>
            adv'[j][f].out.cols.entry <= row[j].cols.entry
    <3>1. x.out.cols.entry <= row[i].cols.entry
      BY <1>3, <2>1 DEF x
    <3>2. ASSUME NEW j \in Instances, NEW f \in Grants, j # i \/ f # g,
                 MayCall(j, f)'
          PROVE  adv'[j][f].out.cols.entry <= row[j].cols.entry
      BY <1>3, <1>12, <3>2 DEF IInv, OnceInv, EntryOrder
    <3>. QED BY <3>1, <3>2 DEF x
  <2>. QED BY <1>0, <2>2, <2>3 DEF IInv, OnceInv, EntryOrder
<1>16. \A j \in Instances : \A n : j # i /\ Untried(j, n) => Untried(j, n)'
  BY <1>0, <1>3, <1>12 DEF Untried
<1>17. UnheldUntried'
  BY <1>2, <1>16, LeaseAssumption
  DEF IInv, OnceInv, UnheldUntried, LeaseAssumption
<1>18. WriteUntried'
  <2>. SUFFICES ASSUME NEW j \in Instances, NEW f \in Grants,
                       adv'[j][f].pc = "write", Fence(j, f)',
                       adv'[j][f].out.status \notin Terminal,
                       adv'[j][f].out.cols.task \in OnceTasks,
                       NEW n, n = adv'[j][f].out.cols.entry,
                       n = row'[j].cols.entry
                PROVE  Untried(j, n)'
    BY DEF WriteUntried
  <2>1. j # i /\ Fence(j, f) /\ adv'[j][f] = adv[j][f]
    BY <1>3, <1>6 DEF x
  <2>. QED BY <1>2, <1>16, <2>1 DEF IInv, OnceInv, WriteUntried
<1>19. OnlyOnce'
  BY <1>0 DEF IInv, OnceInv, OnlyOnce
<1>. QED BY <1>7, <1>8, <1>9, <1>10, <1>11, <1>14, <1>15, <1>17, <1>18, <1>19
         DEF IInv, FenceInv, OnceInv

(* advance() moves on in memory: it left the task it was claimed on.       *)
LEMMA InlineKeeps ==
    ASSUME IInv, TypeOK', NEW i \in Instances, NEW e \in Grants, NEW o,
           InlineStep(i, e, o)
    PROVE  IInv'
<1>. DEFINE a == adv[i][e]
            x == adv'[i][e]
<1>0. TypeOK /\ row' = row /\ ran' = ran
  BY DEF IInv, InlineStep
<1>1. /\ a \in Adv /\ a.iter \in Nat
      /\ a.base.entry \in Nat /\ a.base.tepoch \in Nat
      /\ a.out.cols.entry \in Nat /\ a.out.cols.tepoch \in Nat
      /\ o.cols.entry \in Nat /\ o.cols.tepoch \in Nat
  <2>1. a \in Adv /\ a.iter \in Nat
    BY <1>0, ColsType DEF Adv
  <2>2. o.cols \in Cols
    BY DEF InlineStep, Outcome
  <2>3. o.cols.entry \in Nat /\ o.cols.tepoch \in Nat
    BY <2>2 DEF Cols
  <2>. QED BY <1>0, <2>1, <2>3, EntryType
<1>2. /\ x = [a EXCEPT !.out = o, !.iter = a.iter + 1]
      /\ \A j \in Instances, f \in Grants :
           j # i \/ f # e => adv'[j][f] = adv[j][f]
  BY <1>0, PutAdvAt DEF InlineStep
<1>3. /\ x.pc = "run" /\ x.owner = a.owner /\ x.base = a.base
      /\ x.out = o /\ x.iter = a.iter + 1 /\ a.pc = "run"
      /\ x.out.status = "running" /\ a.out.status = "running"
  BY <1>1, <1>2 DEF Adv, InlineStep
<1>. HIDE DEF a, x
<1>4. \A j \in Instances, f \in Grants : Fence(j, f)' => Fence(j, f)
  BY ZenonT(60), <1>0, <1>2, <1>3 DEF Fence, a, x
<1>5. GrantsMade' /\ StoppedIsUnheld'
  BY ZenonT(60), <1>0, <1>2, <1>3
  DEF IInv, FenceInv, GrantsMade, StoppedIsUnheld, a, x
<1>6. NoLostUpdate'
  <2>. SUFFICES ASSUME NEW j \in Instances, NEW f \in Grants,
                       adv'[j][f].pc \in {"claimed", "run", "write"},
                       Fence(j, f)'
                PROVE  /\ adv'[j][f].base = row[j].cols
                       /\ adv'[j][f].pc # "write" =>
                            \/ row[j].status = adv'[j][f].out.status
                            \/ row[j].status \in {"pausing", "cancelling"}
                               /\ adv'[j][f].out.status = "running"
    BY <1>0 DEF NoLostUpdate
  <2>1. /\ adv[j][f].pc \in {"claimed", "run", "write"}
        /\ adv'[j][f].base = adv[j][f].base
        /\ adv'[j][f].pc # "write" =>
             /\ adv[j][f].pc # "write"
             /\ adv'[j][f].out.status = adv[j][f].out.status
    BY ZenonT(60), <1>2, <1>3 DEF a, x
  <2>. QED BY <1>4, <2>1 DEF IInv, FenceInv, NoLostUpdate
<1>7. StopAnswered'
  <2>. SUFFICES ASSUME NEW j \in Instances, NEW f \in Grants,
                       adv'[j][f].pc = "write", Fence(j, f)'
                PROVE  LET s == adv'[j][f].out.status IN
                       \/ s \in {"running", "completed", "raised", "failed"}
                       \/ s = "paused" /\ row[j].status = "pausing"
                       \/ s = "cancelled" /\ row[j].status = "cancelling"
    BY <1>0 DEF StopAnswered
  <2>1. adv'[j][f] = adv[j][f]
    BY <1>2, <1>3 DEF x
  <2>. QED BY <1>4, <2>1 DEF IInv, FenceInv, StopAnswered
<1>8. Moves'
  <2>1. Moved(a)
    BY DEF IInv, OnceInv, Moves, a
  <2>2. /\ a.out.cols.tepoch < o.cols.entry
        /\ o.cols.entry <= o.cols.tepoch
    BY DEF InlineStep, a
  <2>3. Moved(x)
    BY <1>1, <1>3, <2>1, <2>2 DEF Moved, Live
  <2>. QED BY <1>2, <2>3 DEF IInv, OnceInv, Moves, x
<1>9. \A j \in Instances, f \in Grants :
        MayCall(j, f)' => /\ MayCall(j, f)
                          /\ adv'[j][f].out.cols = adv[j][f].out.cols
  <2>1. ~MayCall(i, e)'
    BY <1>1, <1>3 DEF MayCall, x
  <2>2. ASSUME NEW j \in Instances, NEW f \in Grants, j # i \/ f # e
        PROVE  (MayCall(j, f)' <=> MayCall(j, f)) /\ adv'[j][f] = adv[j][f]
    BY <1>2, <2>2 DEF MayCall
  <2>. QED BY <2>1, <2>2
<1>10. OneCaller' /\ EntryOrder' /\ OnlyOnce'
  <2>1. OneCaller'
    <3>. SUFFICES ASSUME NEW j \in Instances, NEW f \in Grants,
                         MayCall(j, f)',
                         NEW n, n = adv'[j][f].out.cols.entry
                  PROVE  /\ ran[j][n] = 0
                         /\ \A g \in Grants :
                              MayCall(j, g)' /\ adv'[j][g].out.cols.entry = n
                                => f = g
      BY <1>0 DEF OneCaller
    <3>1. MayCall(j, f) /\ n = adv[j][f].out.cols.entry
      BY <1>9
    <3>2. /\ ran[j][n] = 0
          /\ \A g \in Grants :
               MayCall(j, g) /\ adv[j][g].out.cols.entry = n => f = g
      BY <3>1 DEF IInv, OnceInv, OneCaller
    <3>. QED BY <1>9, <3>2
  <2>2. EntryOrder'
    BY <1>0, <1>9 DEF IInv, OnceInv, EntryOrder
  <2>3. OnlyOnce'
    BY <1>0 DEF IInv, OnceInv, OnlyOnce
  <2>. QED BY <2>1, <2>2, <2>3
<1>11. \A j \in Instances : \A n : Untried(j, n) => Untried(j, n)'
  BY <1>0, <1>9 DEF Untried
<1>12. UnheldUntried'
  BY <1>0, <1>11 DEF IInv, OnceInv, UnheldUntried
<1>13. WriteUntried'
  <2>. SUFFICES ASSUME NEW j \in Instances, NEW f \in Grants,
                       adv'[j][f].pc = "write", Fence(j, f)',
                       adv'[j][f].out.status \notin Terminal,
                       adv'[j][f].out.cols.task \in OnceTasks,
                       NEW n, n = adv'[j][f].out.cols.entry,
                       n = row'[j].cols.entry
                PROVE  Untried(j, n)'
    BY DEF WriteUntried
  <2>1. adv'[j][f] = adv[j][f]
    BY <1>2, <1>3 DEF x
  <2>. QED BY <1>0, <1>4, <1>11, <2>1 DEF IInv, OnceInv, WriteUntried
<1>. QED BY <1>5, <1>6, <1>7, <1>8, <1>10, <1>12, <1>13
         DEF IInv, FenceInv, OnceInv

(* advance() reaches its outcome, perhaps having made the call.            *)
LEMMA WriteKeeps ==
    ASSUME IInv, TypeOK', NEW i \in Instances, NEW e \in Grants, NEW o,
           WriteStep(i, e, o)
    PROVE  IInv'
<1>. DEFINE a == adv[i][e]
            c == a.out.cols
            x == adv'[i][e]
<1>0. TypeOK /\ row' = row
  BY DEF IInv, WriteStep, Reach
<1>1. /\ a \in Adv /\ a.iter \in Nat
      /\ a.base.entry \in Nat /\ a.base.tepoch \in Nat
      /\ c.entry \in Nat /\ c.tepoch \in Nat
      /\ c.entry \in 0..MaxTaskEpoch
      /\ o.cols.entry \in Nat /\ o.cols.tepoch \in Nat
  <2>1. a \in Adv /\ a.base \in Cols /\ c \in Cols /\ o.cols \in Cols
    BY <1>0, ColsType DEF WriteStep, Outcome
  <2>. HIDE DEF a, c
  <2>. QED BY <2>1 DEF Adv, Cols
<1>2. /\ x = [a EXCEPT !.pc = "write", !.out = o]
      /\ \A j \in Instances, f \in Grants :
           j # i \/ f # e => adv'[j][f] = adv[j][f]
  BY <1>0, PutAdvAt DEF WriteStep, Reach
<1>3. /\ x.pc = "write" /\ x.owner = a.owner /\ x.base = a.base
      /\ x.out = o /\ a.pc = "run"
  BY <1>1, <1>2 DEF Adv, WriteStep
<1>4. Moved(a)
  BY DEF IInv, OnceInv, Moves
<1>5. /\ o.kind = "progress" => o.status = "running"
      /\ \/ o.status \in {"running", "completed", "raised", "failed"}
         \/ o.status = "paused" /\ a.out.status = "pausing"
         \/ o.status = "cancelled" /\ a.out.status = "cancelling"
      /\ o.cols.entry <= o.cols.tepoch
      /\ c.tepoch <= o.cols.tepoch
      /\ o.cols.entry = c.entry \/ c.tepoch < o.cols.entry
      /\ Stays(o, c) => ran' = ran /\ (MayCall(i, e) \/ a.iter > 0)
      /\ \/ ran' = ran
         \/ /\ MayCall(i, e)
            /\ ran' = [ran EXCEPT ![i][c.entry] = ran[i][c.entry] + 1]
  BY DEF WriteStep
<1>6. \/ ran' = ran
      \/ /\ MayCall(i, e) /\ ran[i][c.entry] = 0 /\ ran'[i][c.entry] = 1
         /\ \A j \in Instances, n \in 0..MaxTaskEpoch :
              j # i \/ n # c.entry => ran'[j][n] = ran[j][n]
  <2>1. MayCall(i, e) => ran[i][c.entry] = 0
    BY DEF IInv, OnceInv, OneCaller
  <2>. DEFINE E == 0..MaxTaskEpoch
  <2>2. ran \in [Instances -> [E -> Nat]] /\ c.entry \in E
    BY <1>0, <1>1 DEF TypeOK
  <2>. HIDE DEF c, E
  <2>3. ASSUME ran' = [ran EXCEPT ![i][c.entry] = ran[i][c.entry] + 1],
               ran[i][c.entry] = 0
        PROVE  /\ ran'[i][c.entry] = 1
               /\ \A j \in Instances, n \in E :
                    j # i \/ n # c.entry => ran'[j][n] = ran[j][n]
    BY <2>2, <2>3
  <2>. QED BY <1>5, <2>1, <2>3 DEF E
<1>. HIDE DEF a, c, x
<1>7. \A j \in Instances, f \in Grants : Fence(j, f)' => Fence(j, f)
  BY <1>0, <1>2, <1>3 DEF Fence, a, x
<1>8. GrantsMade' /\ StoppedIsUnheld'
  <2>1. \A j \in Instances, f \in Grants :
          /\ adv'[j][f].owner = adv[j][f].owner
          /\ adv'[j][f].pc # "none" => adv[j][f].pc # "none"
    BY <1>2, <1>3 DEF a, x
  <2>. QED BY <1>0, <2>1 DEF IInv, FenceInv, GrantsMade, StoppedIsUnheld
<1>9. NoLostUpdate'
  <2>. SUFFICES ASSUME NEW j \in Instances, NEW f \in Grants,
                       adv'[j][f].pc \in {"claimed", "run", "write"},
                       Fence(j, f)'
                PROVE  /\ adv'[j][f].base = row[j].cols
                       /\ adv'[j][f].pc # "write" =>
                            \/ row[j].status = adv'[j][f].out.status
                            \/ row[j].status \in {"pausing", "cancelling"}
                               /\ adv'[j][f].out.status = "running"
    BY <1>0 DEF NoLostUpdate
  <2>1. /\ adv[j][f].pc \in {"claimed", "run", "write"}
        /\ adv'[j][f].base = adv[j][f].base
        /\ adv'[j][f].pc # "write" =>
             /\ adv[j][f].pc # "write"
             /\ adv'[j][f].out.status = adv[j][f].out.status
    BY <1>2, <1>3 DEF a, x
  <2>. QED BY <1>7, <2>1 DEF IInv, FenceInv, NoLostUpdate
<1>10. StopAnswered'
  <2>1. Fence(i, e) => \/ row[i].status = a.out.status
                       \/ a.out.status = "running"
    BY <1>3 DEF IInv, FenceInv, NoLostUpdate, a
  <2>2. Fence(i, e) => \/ o.status \in {"running", "completed", "raised",
                                         "failed"}
                       \/ o.status = "paused" /\ row[i].status = "pausing"
                       \/ o.status = "cancelled"
                          /\ row[i].status = "cancelling"
    BY <1>5, <2>1
  <2>. SUFFICES ASSUME NEW j \in Instances, NEW f \in Grants,
                       adv'[j][f].pc = "write", Fence(j, f)'
                PROVE  LET s == adv'[j][f].out.status IN
                       \/ s \in {"running", "completed", "raised", "failed"}
                       \/ s = "paused" /\ row[j].status = "pausing"
                       \/ s = "cancelled" /\ row[j].status = "cancelling"
    BY <1>0 DEF StopAnswered
  <2>3. CASE j = i /\ f = e
    BY <1>3, <1>7, <2>2, <2>3 DEF x
  <2>4. CASE ~(j = i /\ f = e)
    BY <1>2, <1>7, <2>4 DEF IInv, FenceInv, StopAnswered
  <2>. QED BY <2>3, <2>4
<1>11. Moves'
  <2>1. Moved(x)
    BY <1>1, <1>3, <1>4, <1>5 DEF Moved, Live, c
  <2>. QED BY <1>2, <2>1 DEF IInv, OnceInv, Moves, x
<1>12. \A j \in Instances, f \in Grants :
         MayCall(j, f)' => /\ MayCall(j, f)
                           /\ adv'[j][f].out.cols = adv[j][f].out.cols
                           /\ j # i \/ f # e
  BY <1>2, <1>3 DEF MayCall, x
<1>13. OneCaller'
  <2>. SUFFICES ASSUME NEW j \in Instances, NEW f \in Grants, MayCall(j, f)',
                       NEW n, n = adv'[j][f].out.cols.entry
                PROVE  /\ ran'[j][n] = 0
                       /\ \A g \in Grants :
                            MayCall(j, g)' /\ adv'[j][g].out.cols.entry = n
                              => f = g
    BY DEF OneCaller
  <2>1. /\ MayCall(j, f) /\ n = adv[j][f].out.cols.entry
        /\ j # i \/ f # e
    BY <1>12
  <2>2. /\ ran[j][n] = 0
        /\ \A g \in Grants :
             MayCall(j, g) /\ adv[j][g].out.cols.entry = n => f = g
    BY <2>1 DEF IInv, OnceInv, OneCaller
  <2>3. n \in 0..MaxTaskEpoch
    <3>1. adv[j][f].out.cols \in Cols
      BY <1>0, ColsType
    <3>2. adv[j][f].out.cols.entry \in 0..MaxTaskEpoch
      BY <3>1 DEF Cols
    <3>. QED BY <2>1, <3>2
  <2>4. MayCall(i, e) => j # i \/ n # c.entry
    BY <2>1, <2>2 DEF c, a
  <2>5. ran'[j][n] = 0
    BY <1>6, <2>2, <2>3, <2>4
  <2>. QED BY <1>12, <2>2, <2>5
<1>14. EntryOrder'
  <2>1. MayCall(i, e) => c.entry <= row[i].cols.entry
    BY DEF IInv, OnceInv, EntryOrder, c, a
  <2>. QED BY <1>0, <1>6, <1>12, <2>1 DEF IInv, OnceInv, EntryOrder
<1>15. ASSUME NEW j \in Instances, NEW n \in 0..MaxTaskEpoch, Untried(j, n)
       PROVE  Untried(j, n)'
  <2>1. MayCall(i, e) => j # i \/ n # c.entry
    BY <1>15 DEF Untried, c, a
  <2>. QED BY <1>6, <1>12, <1>15, <2>1 DEF Untried
<1>16. \A j \in Instances : row[j].cols.entry \in 0..MaxTaskEpoch
  BY <1>0, RowType DEF Cols
<1>17. UnheldUntried'
  BY <1>0, <1>15, <1>16 DEF IInv, OnceInv, UnheldUntried
<1>18. ASSUME Fence(i, e), o.status \notin Terminal,
              o.cols.task \in OnceTasks, o.cols.entry = row[i].cols.entry,
              NEW n, n = o.cols.entry
       PROVE  Untried(i, n)'
  <2>1. a.base = row[i].cols
    BY <1>3, <1>18 DEF IInv, FenceInv, NoLostUpdate, a
  <2>2. a.iter = 0 /\ c = a.base
    BY <1>1, <1>3, <1>4, <1>5, <1>18, <2>1 DEF Moved, Live, c
  <2>3. Stays(o, c)
    BY <1>18, <2>1, <2>2 DEF Stays
  <2>4. MayCall(i, e) /\ ran' = ran
    BY <1>5, <2>2, <2>3
  <2>5. /\ ran[i][n] = 0
        /\ \A f \in Grants :
             MayCall(i, f) /\ adv[i][f].out.cols.entry = n => e = f
    <3>1. n = adv[i][e].out.cols.entry
      BY <1>18, <2>1, <2>2 DEF c, a
    <3>. QED BY <2>4, <3>1 DEF IInv, OnceInv, OneCaller
  <2>. QED BY <1>12, <2>4, <2>5 DEF Untried
<1>19. WriteUntried'
  <2>. SUFFICES ASSUME NEW j \in Instances, NEW f \in Grants,
                       adv'[j][f].pc = "write", Fence(j, f)',
                       adv'[j][f].out.status \notin Terminal,
                       adv'[j][f].out.cols.task \in OnceTasks,
                       NEW n, n = adv'[j][f].out.cols.entry,
                       n = row'[j].cols.entry
                PROVE  Untried(j, n)'
    BY DEF WriteUntried
  <2>1. CASE j = i /\ f = e
    BY <1>0, <1>3, <1>7, <1>18, <2>1 DEF x
  <2>2. CASE ~(j = i /\ f = e)
    <3>1. adv'[j][f] = adv[j][f] /\ Fence(j, f)
      BY <1>2, <1>7, <2>2
    <3>2. Untried(j, n)
      BY <1>0, <3>1 DEF IInv, OnceInv, WriteUntried
    <3>. QED BY <1>0, <1>15, <1>16, <3>2
  <2>. QED BY <2>1, <2>2
<1>20. OnlyOnce'
  BY <1>6 DEF IInv, OnceInv, OnlyOnce
<1>. QED BY <1>8, <1>9, <1>10, <1>11, <1>13, <1>14, <1>17, <1>19, <1>20
         DEF IInv, FenceInv, OnceInv

(* A write that passes its fence: the row takes the outcome and nobody     *)
(* holds it.                                                               *)
LEMMA PersistKeeps ==
    ASSUME IInv, TypeOK', NEW i \in Instances, NEW e \in Grants,
           adv[i][e].pc = "write", Fence(i, e), ran' = ran,
           PutRow(i, Written(row[i], adv[i][e].out)),
           PutAdv(i, e, [adv[i][e] EXCEPT !.pc = "closing"])
    PROVE  IInv'
<1>. DEFINE a == adv[i][e]
            o == a.out
<1>0. TypeOK
  BY DEF IInv
<1>1. /\ a \in Adv /\ o \in Outcome /\ row[i] \in Row
      /\ row[i].cols \in Cols /\ o.cols \in Cols
  BY <1>0, ColsType, RowType
<1>2. /\ row'[i].status = StatusWritten(row[i].status, o)
      /\ row'[i].cols = o.cols /\ row'[i].worker = NoWorker
      /\ row'[i].epoch = row[i].epoch
      /\ \A j \in Instances : j # i => row'[j] = row[j]
  <2>1. row'[i] = Written(row[i], o)
    BY <1>0, PutRowAt
  <2>2. \A j \in Instances : j # i => row'[j] = row[j]
    BY <1>0, PutRowAt
  <2>. HIDE DEF o
  <2>. QED BY <1>1, <2>1, <2>2 DEF Written, Row
<1>3. /\ adv'[i][e].pc = "closing" /\ adv'[i][e].owner = a.owner
      /\ \A j \in Instances, f \in Grants :
           j # i \/ f # e => adv'[j][f] = adv[j][f]
  <2>1. adv'[i][e] = [a EXCEPT !.pc = "closing"]
    BY <1>0, PutAdvAt
  <2>2. \A j \in Instances, f \in Grants :
          j # i \/ f # e => adv'[j][f] = adv[j][f]
    BY <1>0, PutAdvAt
  <2>. HIDE DEF a
  <2>. QED BY <1>1, <2>1, <2>2 DEF Adv
<1>4. Moved(a) /\ a.base = row[i].cols
  BY DEF IInv, OnceInv, Moves, FenceInv, NoLostUpdate
<1>. HIDE DEF a, o
<1>5. GrantsMade'
  <2>1. \A j \in Instances, f \in Grants :
          /\ adv'[j][f].owner = adv[j][f].owner
          /\ adv'[j][f].pc # "none" => adv[j][f].pc # "none"
    BY <1>3 DEF a
  <2>. QED BY <1>2, <2>1 DEF IInv, FenceInv, GrantsMade
<1>6. \A j \in Instances, f \in Grants :
        Fence(j, f)' /\ adv'[j][f].pc # "none"
          => j # i /\ Fence(j, f) /\ adv'[j][f] = adv[j][f]
  BY <1>2, <1>3, <1>5, LeaseAssumption DEF Fence, GrantsMade, LeaseAssumption
<1>7. NoLostUpdate'
  <2>. SUFFICES ASSUME NEW j \in Instances, NEW f \in Grants,
                       adv'[j][f].pc \in {"claimed", "run", "write"},
                       Fence(j, f)'
                PROVE  /\ adv'[j][f].base = row'[j].cols
                       /\ adv'[j][f].pc # "write" =>
                            \/ row'[j].status = adv'[j][f].out.status
                            \/ row'[j].status \in {"pausing", "cancelling"}
                               /\ adv'[j][f].out.status = "running"
    BY DEF NoLostUpdate
  <2>1. j # i /\ Fence(j, f) /\ adv'[j][f] = adv[j][f]
    BY <1>6
  <2>. QED BY <1>2, <2>1 DEF IInv, FenceInv, NoLostUpdate
<1>8. StoppedIsUnheld'
  BY <1>2 DEF IInv, FenceInv, StoppedIsUnheld
<1>9. StopAnswered'
  <2>. SUFFICES ASSUME NEW j \in Instances, NEW f \in Grants,
                       adv'[j][f].pc = "write", Fence(j, f)'
                PROVE  LET s == adv'[j][f].out.status IN
                       \/ s \in {"running", "completed", "raised", "failed"}
                       \/ s = "paused" /\ row'[j].status = "pausing"
                       \/ s = "cancelled" /\ row'[j].status = "cancelling"
    BY DEF StopAnswered
  <2>1. j # i /\ Fence(j, f) /\ adv'[j][f] = adv[j][f]
    BY <1>6
  <2>. QED BY <1>2, <2>1 DEF IInv, FenceInv, StopAnswered
<1>10. Moves'
  <2>. SUFFICES ASSUME NEW j \in Instances, NEW f \in Grants
                PROVE  Moved(adv'[j][f])
    BY DEF Moves
  <2>1. CASE j = i /\ f = e
    BY <1>3, <2>1 DEF Moved, Live
  <2>2. CASE ~(j = i /\ f = e)
    BY <1>3, <2>2 DEF IInv, OnceInv, Moves
  <2>. QED BY <2>1, <2>2
<1>11. \A j \in Instances, f \in Grants :
         MayCall(j, f)' => /\ MayCall(j, f)
                           /\ adv'[j][f].out.cols = adv[j][f].out.cols
  <2>1. ~MayCall(i, e)'
    BY <1>3 DEF MayCall
  <2>2. ASSUME NEW j \in Instances, NEW f \in Grants, j # i \/ f # e
        PROVE  (MayCall(j, f)' <=> MayCall(j, f)) /\ adv'[j][f] = adv[j][f]
    BY <1>3, <2>2 DEF MayCall
  <2>. QED BY <2>1, <2>2
<1>12. OneCaller' /\ OnlyOnce'
  BY <1>11 DEF IInv, OnceInv, OneCaller, OnlyOnce
<1>13. /\ row[i].cols.entry \in Nat /\ row[i].cols.tepoch \in Nat
       /\ o.cols.entry \in Nat /\ o.cols.tepoch \in Nat
       /\ o.cols.entry \in 0..MaxTaskEpoch
  BY <1>1 DEF Cols
<1>14. /\ o.cols.entry <= o.cols.tepoch
       /\ o.cols.entry = row[i].cols.entry
          \/ row[i].cols.entry < o.cols.entry
       /\ o.kind = "progress" => o.status = "running"
  <2>1. /\ o.cols.entry <= o.cols.tepoch
        /\ row[i].cols.entry <= row[i].cols.tepoch
        /\ o.cols.entry = row[i].cols.entry
           \/ row[i].cols.tepoch < o.cols.entry
        /\ o.kind = "progress" => o.status = "running"
    BY <1>4 DEF Moved, Live, o, a
  <2>. QED BY <1>13, <2>1
<1>15. EntryOrder'
  <2>. SUFFICES ASSUME NEW j \in Instances
                PROVE  /\ row'[j].cols.entry <= row'[j].cols.tepoch
                       /\ \A n \in 0..MaxTaskEpoch :
                            ran[j][n] > 0 => n <= row'[j].cols.entry
                       /\ \A f \in Grants : MayCall(j, f) =>
                            adv[j][f].out.cols.entry <= row'[j].cols.entry
    BY <1>11 DEF EntryOrder
  <2>1. CASE j # i
    BY <1>2, <2>1 DEF IInv, OnceInv, EntryOrder
  <2>2. CASE j = i
    <3>1. \A f \in Grants : adv[i][f].out.cols.entry \in Nat
      BY <1>0, ColsType DEF Cols
    <3>2. row[i].cols.entry <= o.cols.entry
      BY <1>13, <1>14
    <3>. QED BY <1>2, <1>13, <1>14, <2>2, <3>1, <3>2
             DEF IInv, OnceInv, EntryOrder
  <2>. QED BY <2>1, <2>2
<1>16. \A j \in Instances : \A n : Untried(j, n) => Untried(j, n)'
  BY <1>11 DEF Untried
<1>17. UnheldUntried'
  <2>. SUFFICES ASSUME NEW j \in Instances,
                       row'[j].worker = NoWorker,
                       row'[j].status \notin Terminal,
                       row'[j].cols.task \in OnceTasks
                PROVE  Untried(j, row'[j].cols.entry)
    BY <1>16 DEF UnheldUntried
  <2>1. CASE j # i
    BY <1>2, <2>1 DEF IInv, OnceInv, UnheldUntried
  <2>2. CASE j = i /\ row[i].cols.entry < o.cols.entry
    BY <1>2, <1>13, <2>2, FreshUntried
  <2>3. CASE j = i /\ o.cols.entry = row[i].cols.entry
    <3>1. o.status \notin Terminal
      BY <1>2, <1>14, <2>3 DEF StatusWritten, Terminal
    <3>. QED BY <1>2, <2>3, <3>1 DEF IInv, OnceInv, WriteUntried, o, a
  <2>. QED BY <1>14, <2>1, <2>2, <2>3
<1>18. WriteUntried'
  <2>. SUFFICES ASSUME NEW j \in Instances, NEW f \in Grants,
                       adv'[j][f].pc = "write", Fence(j, f)',
                       adv'[j][f].out.status \notin Terminal,
                       adv'[j][f].out.cols.task \in OnceTasks,
                       NEW n, n = adv'[j][f].out.cols.entry,
                       n = row'[j].cols.entry
                PROVE  Untried(j, n)'
    BY DEF WriteUntried
  <2>1. j # i /\ Fence(j, f) /\ adv'[j][f] = adv[j][f]
    BY <1>6
  <2>. QED BY <1>2, <1>16, <2>1 DEF IInv, OnceInv, WriteUntried
<1>. QED BY <1>5, <1>7, <1>8, <1>9, <1>10, <1>12, <1>15, <1>17, <1>18
         DEF IInv, FenceInv, OnceInv

LEMMA AdvanceKeeps ==
    ASSUME IInv, TypeOK', NEW i \in Instances, NEW e \in Grants,
           AdvanceStep(i, e)
    PROVE  IInv'
<1>0. TypeOK /\ Moves
  BY DEF IInv, OnceInv
<1>1. adv[i][e] \in Adv
  BY <1>0, ColsType
<1>2. CASE Compute(i, e)
  BY <1>0, <1>2, ComputeSteps, WriteKeeps, InlineKeeps
<1>3. ASSUME PutAdv(i, e, [adv[i][e] EXCEPT !.pc = "closing"]),
             adv[i][e].pc = "write", row' = row, ran' = ran
      PROVE  IInv'
  <2>1. Quiet
    BY <1>0, <1>1, <1>3, PutAdvAt DEF Quiet, Adv
  <2>. QED BY <2>1, QuietKeeps
<1>4. CASE dispatch(i, e)
  <2>1. Quiet
    BY <1>0, <1>1, <1>4, PutAdvAt DEF dispatch, Quiet, Adv, NoAdv
  <2>. QED BY <2>1, QuietKeeps
<1>5. CASE persist(i, e)
  <2>1. CASE row' = row
    BY <1>3, <1>5, <2>1 DEF persist
  <2>2. CASE row' # row
    BY <1>5, <2>2, PersistKeeps DEF persist
  <2>. QED BY <2>1, <2>2
<1>6. CASE Abandon(i, e)
  BY <1>3, <1>6 DEF Abandon
<1>7. CASE dropLease(i, e)
  <2>1. Quiet
    <3>1. row' = row /\ ran' = ran /\ PutAdv(i, e, NoAdv)
      BY <1>7 DEF dropLease
    <3>2. /\ adv'[i][e] = NoAdv
          /\ \A j \in Instances, f \in Grants :
               j # i \/ f # e => adv'[j][f] = adv[j][f]
      BY <1>0, <3>1, PutAdvAt
    <3>3. adv'[i][e].pc = "none"
      BY <3>2 DEF NoAdv
    <3>. QED BY <3>1, <3>2, <3>3 DEF Quiet
  <2>. QED BY <2>1, QuietKeeps
<1>. QED BY <1>2, <1>4, <1>5, <1>6, <1>7 DEF AdvanceStep

LEMMA WorkerKeeps ==
    ASSUME IInv, TypeOK', NEW w \in Workers,
           RenewWorkerLeases(w) \/ Crash(w) \/ drain(w)
    PROVE  IInv'
<1>0. TypeOK
  BY DEF IInv
<1>1. CASE RenewWorkerLeases(w)
  <2>1. ASSUME NEW j \in Instances
        PROVE  /\ row'[j].status = row[j].status
               /\ row'[j].cols = row[j].cols
               /\ row'[j].worker = row[j].worker
               /\ row'[j].epoch = row[j].epoch
    <3>1. row[j] \in Row
      BY <1>0, RowType
    <3>2. row'[j] = row[j] \/ row'[j] = [row[j] EXCEPT !.lapsed = FALSE]
      BY <1>1 DEF RenewWorkerLeases
    <3>. QED BY <3>1, <3>2 DEF Row
  <2>2. Quiet
    BY <1>1, <2>1 DEF Quiet, RenewWorkerLeases
  <2>. QED BY <2>2, QuietKeeps
<1>2. CASE Crash(w)
  <2>1. Quiet
    BY <1>2 DEF Quiet, Crash, NoAdv
  <2>. QED BY <2>1, QuietKeeps
<1>3. CASE drain(w)
  <2>1. Quiet
    BY <1>3 DEF Quiet, drain
  <2>. QED BY <2>1, QuietKeeps
<1>. QED BY <1>1, <1>2, <1>3

LEMMA RowStepKeeps ==
    ASSUME IInv, TypeOK', NEW i \in Instances,
           \/ Expire(i) \/ Freeze(i) \/ WakeDue(i) \/ PauseProcess(i)
           \/ CancelProcess(i) \/ ResumeProcess(i)
           \/ \E force \in BOOLEAN : RetryProcess(i, force)
    PROVE  IInv'
<1>. DEFINE r == row[i]
<1>0. TypeOK
  BY DEF IInv
<1>1. r \in Row /\ r.cols \in Cols /\ r.cols.entry \in Nat /\ r.cols.tepoch \in Nat
  BY <1>0, RowType DEF Cols
<1>2. r.cols.entry <= r.cols.tepoch /\ (r.status \in Stopped => r.worker = NoWorker)
  BY DEF IInv, OnceInv, EntryOrder, FenceInv, StoppedIsUnheld
<1>3. ASSUME NEW q, PutRow(i, q), Restated(r, q), adv' = adv, ran' = ran
      PROVE  IInv'
  <2>1. q \in Row
    BY <1>0, <1>3, PutRowAt DEF TypeOK
  <2>. QED BY <1>3, <2>1, RestateKeeps
<1>4. CASE Expire(i) \/ Freeze(i)
  <2>1. /\ row'[i] = [r EXCEPT !.lapsed = TRUE]
        /\ \A j \in Instances : j # i => row'[j] = row[j]
    BY <1>0, <1>4, PutRowAt DEF Expire, Freeze
  <2>2. Quiet
    BY <1>1, <1>4, <2>1 DEF Quiet, Expire, Freeze, Row
  <2>. QED BY <2>2, QuietKeeps
<1>5. CASE WakeDue(i)
  <2>. DEFINE q == [r EXCEPT !.cols.wake = "due"]
  <2>1. /\ q.status = r.status /\ q.worker = r.worker /\ q.epoch = r.epoch
        /\ q.cols.entry = r.cols.entry /\ q.cols.tepoch = r.cols.tepoch
        /\ q.cols.task = r.cols.task
    BY <1>1 DEF Row, Cols
  <2>2. PutRow(i, q) /\ adv' = adv /\ ran' = ran /\ r.worker = NoWorker
    BY <1>5 DEF WakeDue
  <2>. HIDE DEF q
  <2>3. Restated(r, q)
    BY <1>1, <1>2, <2>1, <2>2 DEF Restated
  <2>. QED BY <1>3, <2>2, <2>3
<1>6. ASSUME NEW t, PutRow(i, [r EXCEPT !.status = t]), adv' = adv, ran' = ran,
             r.status \notin Terminal, t \in Stopped => r.worker = NoWorker,
             r.worker # NoWorker => /\ r.status = "running"
                                    /\ t \in {"pausing", "cancelling"}
      PROVE  IInv'
  <2>. DEFINE q == [r EXCEPT !.status = t]
  <2>1. /\ q.status = t /\ q.worker = r.worker /\ q.epoch = r.epoch
        /\ q.cols = r.cols
    BY <1>1 DEF Row
  <2>. HIDE DEF q
  <2>2. Restated(r, q)
    BY <1>2, <1>6, <2>1 DEF Restated
  <2>. QED BY <1>3, <1>6, <2>2 DEF q
<1>7. CASE PauseProcess(i)
  BY <1>6, <1>7 DEF PauseProcess, Verb, Stopped, Terminal
<1>8. CASE CancelProcess(i)
  BY <1>2, <1>6, <1>8 DEF CancelProcess, Verb, Stopped, Terminal
<1>9. CASE ResumeProcess(i)
  BY <1>2, <1>6, <1>9 DEF ResumeProcess, Verb, Stopped, Terminal
<1>10. CASE \E force \in BOOLEAN : RetryProcess(i, force)
  <2>. DEFINE c == r.cols
              k == [c EXCEPT !.tepoch = c.tepoch + 1, !.entry = c.tepoch + 1,
                             !.wake = IF c.retry > 0 THEN "nil" ELSE c.wake]
              q == [r EXCEPT !.status = "running", !.worker = NoWorker,
                             !.lapsed = FALSE, !.cols = k]
  <2>1. k.tepoch = c.tepoch + 1 /\ k.entry = c.tepoch + 1
    BY <1>1 DEF Cols
  <2>2. /\ PutRow(i, q) /\ adv' = adv /\ ran' = ran
        /\ r.status = "failed"
    BY <1>10 DEF RetryProcess, Verb
  <2>. HIDE DEF k
  <2>3. /\ q.status = "running" /\ q.worker = NoWorker /\ q.epoch = r.epoch
        /\ q.cols = k
    BY <1>1 DEF Row
  <2>4. r.worker = NoWorker
    BY <1>2, <2>2 DEF Stopped, Terminal
  <2>. HIDE DEF q
  <2>5. Restated(r, q)
    <3>1. q.worker = r.worker /\ q.status \notin Stopped
      BY <2>3, <2>4 DEF Stopped, Terminal
    <3>2. /\ r.cols.tepoch < q.cols.entry
          /\ q.cols.entry <= q.cols.tepoch
      BY <1>1, <2>1, <2>3
    <3>. QED BY <2>3, <2>4, <3>1, <3>2 DEF Restated
  <2>. QED BY <1>3, <2>2, <2>5
<1>. QED BY <1>4, <1>5, <1>7, <1>8, <1>9, <1>10

LEMMA NextIInv == IInv /\ [Next]_vars => IInv'
<1>. SUFFICES ASSUME IInv, [Next]_vars PROVE IInv'
  OBVIOUS
<1>0. TypeOK'
  BY NextType DEF IInv
<1>1. CASE \E w \in Workers, i \in Instances : ClaimInstances(w, i)
  BY <1>0, <1>1, ClaimKeeps
<1>2. CASE \E i \in Instances, e \in Grants : AdvanceStep(i, e)
  BY <1>0, <1>2, AdvanceKeeps
<1>3. CASE \E w \in Workers : RenewWorkerLeases(w) \/ Crash(w) \/ drain(w)
  BY <1>0, <1>3, WorkerKeeps
<1>4. CASE \E i \in Instances : Expire(i) \/ Freeze(i) \/ WakeDue(i)
  BY <1>0, <1>4, RowStepKeeps
<1>5. CASE \E i \in Instances : PauseProcess(i) \/ CancelProcess(i)
                                  \/ ResumeProcess(i)
  BY <1>0, <1>5, RowStepKeeps
<1>6. CASE \E i \in Instances, force \in BOOLEAN : RetryProcess(i, force)
  BY <1>0, <1>6, RowStepKeeps
<1>7. CASE UNCHANGED vars
  <2>1. Quiet
    BY <1>7 DEF Quiet, vars
  <2>. QED BY <1>0, <2>1, QuietKeeps
<1>. QED BY <1>1, <1>2, <1>3, <1>4, <1>5, <1>6, <1>7 DEF Next

LEMMA Inductive == Spec => []IInv
BY InitIInv, NextIInv, PTL DEF Spec

(* For any workers, instances, tasks and bounds, an only_once call reaches *)
(* the remote at most once between entering its task and leaving it.       *)
THEOREM AtMostOnce == Spec => []OnlyOnce
<1>1. IInv => OnlyOnce
  BY DEF IInv, OnceInv
<1>. QED BY <1>1, Inductive, PTL

(* No write that passes its fence replaces columns it did not read.        *)
THEOREM FencedWritesAreFresh == Spec => []NoLostUpdate
<1>1. IInv => NoLostUpdate
  BY DEF IInv, FenceInv
<1>. QED BY <1>1, Inductive, PTL

(* A paused or terminal row has no holder.                                 *)
THEOREM StoppedRowsAreUnheld == Spec => []StoppedIsUnheld
<1>1. IInv => StoppedIsUnheld
  BY DEF IInv, FenceInv
<1>. QED BY <1>1, Inductive, PTL

LEMMA StopHeldStep ==
    ASSUME IInv, [Next]_vars, NEW j \in Instances
    PROVE  StopHeld(row[j].status, row'[j].status)
<1>0. TypeOK
  BY DEF IInv
<1>1. ASSUME NEW i \in Instances, NEW q, PutRow(i, q),
             StopHeld(row[i].status, q.status)
      PROVE  StopHeld(row[j].status, row'[j].status)
  BY <1>0, <1>1, PutRowAt DEF StopHeld
<1>2. ASSUME row'[j].status = row[j].status
      PROVE  StopHeld(row[j].status, row'[j].status)
  BY <1>2 DEF StopHeld
<1>3. \A i \in Instances : row[i] \in Row
  BY <1>0, RowType
<1>4. CASE \E w \in Workers, i \in Instances : ClaimInstances(w, i)
  <2>1. PICK w \in Workers, i \in Instances : ClaimInstances(w, i)
    BY <1>4
  <2>. DEFINE q == [row[i] EXCEPT !.worker = w, !.lapsed = FALSE,
                                  !.epoch = row[i].epoch + 1]
  <2>2. PutRow(i, q) /\ q.status = row[i].status
    BY <1>3, <2>1 DEF ClaimInstances, Grant, Row
  <2>. QED BY <1>0, <1>2, <2>2, PutRowAt
<1>5. CASE \E i \in Instances, e \in Grants : AdvanceStep(i, e)
  <2>1. PICK i \in Instances, e \in Grants : AdvanceStep(i, e)
    BY <1>5
  <2>2. CASE row' = row
    BY <1>2, <2>2
  <2>3. CASE row' # row
    <3>. DEFINE q == Written(row[i], adv[i][e].out)
    <3>1. \A o : Compute(i, e) => ~(WriteStep(i, e, o) \/ InlineStep(i, e, o))
      BY <2>3 DEF WriteStep, InlineStep, Reach
    <3>2. persist(i, e)
      BY <1>0, <2>1, <2>3, <3>1, ComputeSteps
      DEF IInv, OnceInv, AdvanceStep, dispatch, Abandon, dropLease
    <3>3. PutRow(i, q) /\ Fence(i, e) /\ adv[i][e].pc = "write"
      BY <2>3, <3>2 DEF persist
    <3>4. /\ adv[i][e].owner \in Workers
          /\ row[i].worker # NoWorker
          /\ row[i].status \notin Stopped
      BY <3>3, LeaseAssumption
      DEF LeaseAssumption, IInv, FenceInv, GrantsMade, StoppedIsUnheld, Fence
    <3>5. LET s == adv[i][e].out.status IN
          \/ s \in {"running", "completed", "raised", "failed"}
          \/ s = "paused" /\ row[i].status = "pausing"
          \/ s = "cancelled" /\ row[i].status = "cancelling"
      BY <3>3 DEF IInv, FenceInv, StopAnswered
    <3>6. q.status = StatusWritten(row[i].status, adv[i][e].out)
      BY <1>3 DEF Written, Row
    <3>. HIDE DEF q
    <3>7. StopHeld(row[i].status, q.status)
      BY <3>4, <3>5, <3>6 DEF StopHeld, StatusWritten, Stopped, Terminal
    <3>. QED BY <1>1, <3>3, <3>7
  <2>. QED BY <2>2, <2>3
<1>6. CASE \E w \in Workers : RenewWorkerLeases(w) \/ Crash(w) \/ drain(w)
  <2>1. row'[j] = row[j] \/ row'[j] = [row[j] EXCEPT !.lapsed = FALSE]
    BY <1>6 DEF RenewWorkerLeases, Crash, drain
  <2>. QED BY <1>2, <1>3, <2>1 DEF Row
<1>7. CASE \E i \in Instances : Expire(i) \/ Freeze(i) \/ WakeDue(i)
  <2>1. PICK i \in Instances : Expire(i) \/ Freeze(i) \/ WakeDue(i)
    BY <1>7
  <2>2. \/ PutRow(i, [row[i] EXCEPT !.lapsed = TRUE])
        \/ PutRow(i, [row[i] EXCEPT !.cols.wake = "due"])
    BY <2>1 DEF Expire, Freeze, WakeDue
  <2>3. /\ [row[i] EXCEPT !.lapsed = TRUE].status = row[i].status
        /\ [row[i] EXCEPT !.cols.wake = "due"].status = row[i].status
    BY <1>3 DEF Row
  <2>. QED BY <1>1, <2>2, <2>3 DEF StopHeld
<1>8. CASE \E i \in Instances : PauseProcess(i) \/ CancelProcess(i)
                                  \/ ResumeProcess(i)
  <2>1. PICK i \in Instances : PauseProcess(i) \/ CancelProcess(i)
                                 \/ ResumeProcess(i)
    BY <1>8
  <2>2. \E t : PutRow(i, [row[i] EXCEPT !.status = t])
               /\ row[i].status \in {"running", "paused"}
    BY <2>1 DEF PauseProcess, CancelProcess, ResumeProcess, Verb
  <2>. QED BY <1>1, <2>2 DEF StopHeld
<1>9. CASE \E i \in Instances, force \in BOOLEAN : RetryProcess(i, force)
  <2>1. PICK i \in Instances, force \in BOOLEAN : RetryProcess(i, force)
    BY <1>9
  <2>2. PICK q : PutRow(i, q) /\ q.status = "running"
                 /\ row[i].status = "failed"
    BY <1>3, <2>1 DEF RetryProcess, Verb, Row
  <2>. QED BY <1>1, <2>2 DEF StopHeld
<1>10. CASE UNCHANGED vars
  BY <1>2, <1>10 DEF vars
<1>. QED BY <1>4, <1>5, <1>6, <1>7, <1>8, <1>9, <1>10 DEF Next

(* No step loses a requested stop or leaves a settled status.              *)
THEOREM StopsAreKept == Spec => StopsHold
<1>1. IInv /\ [Next]_vars
        => [\A i \in Instances : StopHeld(row[i].status, row'[i].status)]_vars
  BY StopHeldStep
<1>. QED BY <1>1, Inductive, PTL DEF Spec, StopsHold
=============================================================================
