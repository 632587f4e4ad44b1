------------------------------ MODULE External ------------------------------
(***************************************************************************)
(* External tasks: the arm and its race with answers, signals, the worker  *)
(* queue's claims, the deadline and the lost mark, on one instance row     *)
(* (internal/db/db_external.go, db_external_claim.go, db_signals.go,       *)
(* internal/api/handlers_external.go and runExternal in                    *)
(* internal/engine/action.go).                                             *)
(*                                                                         *)
(* One step is one transaction, or the reads of an advance.  The row has   *)
(* two claims: the engine's lease and an external worker's.  An advance    *)
(* whose grant was superseded writes nothing (Lease proves it), so only    *)
(* the last grant's advance is kept; a holder that died is one that never  *)
(* writes before its lease lapses.                                         *)
(***************************************************************************)
EXTENDS Naturals, Sequences, FiniteSets

CONSTANTS
    Tasks,         \* the tasks of the definition
    ExternalTasks, \* those with an external action
    OnceTasks,     \* the external ones marked only_once
    Start,         \* the first task
    Workers,       \* external workers
    NoWorker,
    MaxEpoch,      \* bound: task_epoch
    MaxAnswers,    \* bound: answers and signals accepted
    MaxClaims,     \* bound: external claims granted
    MaxLapses,     \* bound: engine leases that lapse
    MaxVerbs       \* bound: operator verbs

ASSUME ExternalAssumption ==
    /\ ExternalTasks \subseteq Tasks /\ OnceTasks \subseteq ExternalTasks
    /\ Start \in Tasks
    /\ NoWorker \notin Workers
    /\ MaxEpoch \in Nat /\ MaxAnswers \in Nat /\ MaxClaims \in Nat
    /\ MaxLapses \in Nat /\ MaxVerbs \in Nat

VARIABLES
    row,      \* the columns an advance reads and writes
    lease,    \* the engine's lease: "none", "live" or "lapsed"
    claim,    \* the external claim columns
    signals,  \* process_signals: an id is the seq of its row
    adv,      \* the advance of the last grant
    marks,    \* only_once armings a claim call is about to mark lost
    hist,     \* history, for the properties
    used      \* what the bounds count

vars == <<row, lease, claim, signals, adv, marks, hist, used>>

-----------------------------------------------------------------------------
Epochs == 0..MaxEpoch

(* "over" stands for completed, failed and raised.                         *)
Status == {"running", "pausing", "paused", "cancelling", "cancelled", "over"}

Cols == [status: Status, phase: {"", "external"}, task: Tasks,
         tepoch: Epochs, wake: {"none", "future", "due"}, lost: BOOLEAN]

Claims == [worker: Workers \cup {NoWorker}, lapsed: BOOLEAN,
           epoch: 0..3 * MaxClaims]

Tokens == [task: ExternalTasks, arm: Epochs, epoch: 0..3 * MaxClaims,
           worker: Workers]

Ends == {"", "answer", "timeout", "lost", "interrupted"}

(* kind: no advance; claimed; computed an arm, or a write of cols that     *)
(* deletes the signal consumed (0 for none) and ends the arming as ends.   *)
Advances == [kind: {"none", "claimed", "arm", "write"}, reclaimed: BOOLEAN,
             cols: Cols, consumed: 0..MaxAnswers, ends: Ends]

Answers == [id: 1..MaxAnswers, task: Tasks]

(* consumed: the answers an advance's write used, in that order;           *)
(* ended: how each arming ended; firm: armings answered by token while no  *)
(* engine held the row; handed, released, spent: the claim tokens given to *)
(* workers, given back by them, and answered with; claimedAt: the arming   *)
(* the claim was granted in; marked: armings marked lost; parked: the last *)
(* arming that parked; stray: an interrupted verdict took the row to a new *)
(* task entry with the phase or the lost mark of its park.                 *)
Histories ==
    [consumed: Seq(Answers), ended: [Epochs -> Ends], firm: SUBSET Epochs,
     handed: SUBSET Tokens, released: SUBSET Tokens, spent: SUBSET Tokens,
     claimedAt: Epochs, marked: SUBSET Epochs, parked: Epochs, stray: BOOLEAN]

Usage == [answers: 0..MaxAnswers, claims: 0..MaxClaims,
          lapses: 0..MaxLapses, verbs: 0..MaxVerbs]

TypeOK ==
    /\ row \in Cols
    /\ lease \in {"none", "live", "lapsed"}
    /\ claim \in Claims
    /\ signals \subseteq Answers
    /\ adv \in Advances
    /\ marks \subseteq Epochs
    /\ hist \in Histories
    /\ hist.released \subseteq hist.handed /\ hist.spent \subseteq hist.handed
    /\ used \in Usage
    /\ row.status \in {"paused", "cancelled", "over"} =>
         lease = "none" /\ adv.kind = "none"

Fresh ==
    [status |-> "running", phase |-> "", task |-> Start, tepoch |-> 0,
     wake |-> "none", lost |-> FALSE]

NoAdvance ==
    [kind |-> "none", reclaimed |-> FALSE, cols |-> Fresh, consumed |-> 0,
     ends |-> ""]

Init ==
    /\ row = Fresh
    /\ lease = "none"
    /\ claim = [worker |-> NoWorker, lapsed |-> FALSE, epoch |-> 0]
    /\ signals = {}
    /\ adv = NoAdvance
    /\ marks = {}
    /\ hist = [consumed |-> <<>>, ended |-> [n \in Epochs |-> ""],
               firm |-> {}, handed |-> {}, released |-> {}, spent |-> {},
               claimedAt |-> 0, marked |-> {}, parked |-> 0, stray |-> FALSE]
    /\ used = [answers |-> 0, claims |-> 0, lapses |-> 0, verbs |-> 0]

-----------------------------------------------------------------------------
AcceptsExternalOutcome == row.status \in {"running", "paused", "pausing"}

ClaimLive == claim.worker # NoWorker /\ ~claim.lapsed

BufferedFor(t) == {s \in signals : s.task = t}

PeekOldestSignal(t) ==
    { s \in BufferedFor(t) : \A u \in BufferedFor(t) : s.id <= u.id }

Unclaimed(c) == [c EXCEPT !.worker = NoWorker, !.lapsed = FALSE]

UnparkExternal_keepsPhase(r) == [r EXCEPT !.wake = "none"]

UnparkExternal(r) == [r EXCEPT !.phase = "", !.wake = "none"]

Buffer(t) ==
    /\ used.answers < MaxAnswers
    /\ signals' = signals \cup {[id |-> used.answers + 1, task |-> t]}
    /\ used' = [used EXCEPT !.answers = @ + 1]

-----------------------------------------------------------------------------
(* The engine.                                                             *)

(* ClaimInstances: a parked row is due at its deadline, a stopping one at  *)
(* once, any other when it has no timer or its timer is over.              *)
ClaimInstances ==
    /\ \/ row.status \in {"pausing", "cancelling"}
       \/ /\ row.status = "running"
          /\ row.wake = "due" \/ (row.phase # "external" /\ row.wake = "none")
    /\ lease # "live"
    /\ lease' = "live"
    /\ adv' = [NoAdvance EXCEPT !.kind = "claimed", !.cols = row,
                                !.reclaimed = (lease = "lapsed")]
    /\ UNCHANGED <<row, claim, signals, marks, hist, used>>

(* A transition to any task.                                               *)
Routes(c) ==
    IF c.tepoch = MaxEpoch THEN {}
    ELSE { [c EXCEPT !.task = t, !.tepoch = @ + 1, !.wake = "none"] :
             t \in Tasks }

Concluded(c) == [c EXCEPT !.status = "over", !.phase = "", !.wake = "none"]

completeViaErrorHandler(c) == [c EXCEPT !.status = "over", !.wake = "none"]

(* A retry is a new occurrence of the task behind its backoff.             *)
Retried(c) ==
    IF c.tepoch = MaxEpoch THEN {}
    ELSE { [c EXCEPT !.tepoch = @ + 1, !.wake = "future"] }

(* handleCallError for a code an only_once task may not retry.             *)
handleUnknowable(c) ==
    Routes(c) \cup {Concluded(c), completeViaErrorHandler(c)}
      \cup (IF c.task \in OnceTasks THEN {} ELSE Retried(c))

clearExternalPark_keepsLost(c) == [c EXCEPT !.phase = ""]

clearExternalPark(c) == [c EXCEPT !.phase = "", !.lost = FALSE]

(* The verdict leaves phase, external_input and external_lost alone.       *)
Interrupted(c) ==
    /\ adv.reclaimed /\ c.task \in OnceTasks
    /\ c.status \in {"running", "pausing"}
    /\ \E d \in handleUnknowable([c EXCEPT !.status = "running"]) :
         adv' = [adv EXCEPT !.kind = "write", !.cols = d,
                            !.ends = "interrupted"]
    /\ UNCHANGED signals

Settle(c) ==
    /\ \/ /\ c.status = "cancelling"
          /\ adv' = [adv EXCEPT !.kind = "write", !.cols.status = "cancelled"]
       \/ /\ c.status = "pausing"
          /\ ~(adv.reclaimed /\ c.task \in OnceTasks)
          /\ adv' = [adv EXCEPT !.kind = "write", !.cols.status = "paused"]
    /\ UNCHANGED signals

Runs(c) ==
    c.status = "running" /\ ~(adv.reclaimed /\ c.task \in OnceTasks)

(* A task of another kind: a transition or a conclusion.                   *)
RunOther(c) ==
    /\ Runs(c) /\ c.task \notin ExternalTasks
    /\ \E d \in Routes(c) \cup {Concluded(c)} :
         adv' = [adv EXCEPT !.kind = "write", !.cols = d]
    /\ UNCHANGED signals

(* runExternal phase 2: the oldest buffered answer, a result or a failure. *)
(* Peek, never pop.                                                        *)
RunAnswered_pops(c) ==
    /\ Runs(c) /\ c.task \in ExternalTasks
    /\ LET p == clearExternalPark(c) IN
       \E s \in PeekOldestSignal(c.task),
          d \in Routes(p) \cup {Concluded(p)} \cup Retried(p) :
         /\ adv' = [adv EXCEPT !.kind = "write", !.cols = d,
                               !.consumed = s.id, !.ends = "answer"]
         /\ signals' = signals \ {s}

RunAnswered(c) ==
    /\ Runs(c) /\ c.task \in ExternalTasks
    /\ LET p == clearExternalPark(c) IN
       \E s \in PeekOldestSignal(c.task),
          d \in Routes(p) \cup {Concluded(p)} \cup Retried(p) :
         adv' = [adv EXCEPT !.kind = "write", !.cols = d,
                            !.consumed = s.id, !.ends = "answer"]
    /\ UNCHANGED signals

(* Phase 3: still parked without an answer.                                *)
RunExpired(c) ==
    /\ Runs(c) /\ c.task \in ExternalTasks
    /\ BufferedFor(c.task) = {}
    /\ c.phase = "external"
    /\ \E d \in handleUnknowable(clearExternalPark(c)) :
         adv' = [adv EXCEPT !.kind = "write", !.cols = d,
                            !.ends = IF c.lost THEN "lost" ELSE "timeout"]
    /\ UNCHANGED signals

(* Phase 1: arm, with no deadline, one to come or one already past; an     *)
(* input or a deadline that cannot be built fails the instance.            *)
RunArm(c) ==
    /\ Runs(c) /\ c.task \in ExternalTasks
    /\ BufferedFor(c.task) = {}
    /\ c.phase # "external"
    /\ \/ \E w \in {"none", "future", "due"} :
            adv' = [adv EXCEPT !.kind = "arm", !.cols.phase = "external",
                               !.cols.wake = w]
       \/ adv' = [adv EXCEPT !.kind = "write", !.cols = Concluded(c)]
    /\ UNCHANGED signals

advance ==
    /\ adv.kind = "claimed"
    /\ LET c == adv.cols IN
       Interrupted(c) \/ Settle(c) \/ RunOther(c) \/ RunAnswered(c)
         \/ RunExpired(c) \/ RunArm(c)
    /\ UNCHANGED <<row, lease, claim, marks, hist, used>>

ClaimAfter_kept(c) == claim

(* A claim does not outlive its arming.                                    *)
ClaimAfter(c) == IF c.tepoch = row.tepoch THEN claim ELSE Unclaimed(claim)

(* ArmExternalUnlessSignalled looks again under the row lock.              *)
ArmOrLeave(c) ==
    IF adv.kind = "arm" /\ BufferedFor(c.task) # {}
    THEN UnparkExternal(c) ELSE c

SignalsAfter_kept == signals

SignalsAfter == {s \in signals : s.id # adv.consumed}

(* The write of an advance: every column, the claim's by their CASE, the   *)
(* consumed signal deleted with it, the lease released.                    *)
persist ==
    /\ adv.kind \in {"arm", "write"}
    /\ LET c == ArmOrLeave(adv.cols) IN
       /\ row' = [c EXCEPT !.status = IF @ = "running" THEN row.status ELSE @]
       /\ claim' = ClaimAfter(c)
       /\ adv' = NoAdvance
       /\ hist' = [hist EXCEPT
            !.ended[row.tepoch] = IF adv.ends = "" THEN @ ELSE adv.ends,
            !.consumed = IF adv.consumed = 0 THEN @
                         ELSE Append(@, [id |-> adv.consumed,
                                         task |-> row.task]),
            !.parked = IF adv.kind = "arm" /\ c = adv.cols
                       THEN row.tepoch ELSE @,
            !.stray = @ \/ (adv.ends = "interrupted" /\ c.status # "over"
                            /\ (c.phase = "external" \/ c.lost))]
    /\ signals' = SignalsAfter
    /\ lease' = "none"
    /\ UNCHANGED <<marks, used>>

LeaseLapses ==
    /\ lease = "live" /\ used.lapses < MaxLapses
    /\ lease' = "lapsed"
    /\ used' = [used EXCEPT !.lapses = @ + 1]
    /\ UNCHANGED <<row, claim, signals, adv, marks, hist>>

DeadlinePasses ==
    /\ row.wake = "future"
    /\ row' = [row EXCEPT !.wake = "due"]
    /\ UNCHANGED <<lease, claim, signals, adv, marks, hist, used>>

-----------------------------------------------------------------------------
(* Answers.                                                                *)

Waiting == AcceptsExternalOutcome /\ row.phase = "external"

(* ClaimBinding.check: a bound token names the current grant, an unbound   *)
(* one is refused while a claim is live.                                   *)
Bound(token) == token.arm = row.tepoch /\ token.epoch = claim.epoch

Resolve(by) ==
    /\ Waiting
    /\ lease # "live"
    /\ Buffer(row.task)
    /\ row' = UnparkExternal(row)
    /\ hist' = [hist EXCEPT
         !.firm = IF lease = "none" THEN @ \cup {row.tepoch} ELSE @,
         !.spent = @ \cup by]
    /\ UNCHANGED <<lease, claim, adv, marks>>

ResolveUnclaimed == ~ClaimLive /\ Resolve({})

ResolveClaimed(token) == Bound(token) /\ Resolve({token})

(* A signal names the instance and a task, armed or not; it does not       *)
(* un-park over a live lease or claim.                                     *)
DeliverSignal(t) ==
    /\ AcceptsExternalOutcome
    /\ Buffer(t)
    /\ row' = IF row.phase = "external" /\ row.task = t
                 /\ lease # "live" /\ ~ClaimLive
              THEN UnparkExternal(row) ELSE row
    /\ UNCHANGED <<lease, claim, adv, marks, hist>>

-----------------------------------------------------------------------------
(* The queue of external workers.                                          *)

Claimable ==
    /\ row.phase = "external" /\ row.status = "running"
    /\ ~ClaimLive
    /\ row.wake # "due"
    /\ row.task \in ExternalTasks

HandsOut_always(w) == TRUE

(* A lapsed claim on an only_once task is not handed out again.            *)
HandsOut(w) == claim.worker = NoWorker \/ row.task \notin OnceTasks

(* claimExternalTasks: an answered row goes to the engine; otherwise the   *)
(* grant is written and, for a lapsed only_once claim, the mark follows in *)
(* a transaction of its own.                                               *)
ClaimExternalTasks(w) ==
    /\ Claimable
    /\ \/ /\ BufferedFor(row.task) # {}
          /\ row' = UnparkExternal(row)
          /\ UNCHANGED <<claim, marks, hist, used>>
       \/ /\ BufferedFor(row.task) = {}
          /\ used.claims < MaxClaims
          /\ used' = [used EXCEPT !.claims = @ + 1]
          /\ claim' = [worker |-> w, lapsed |-> FALSE,
                       epoch |-> claim.epoch + 1]
          /\ marks' = IF HandsOut(w) THEN marks ELSE marks \cup {row.tepoch}
          /\ hist' = [hist EXCEPT
               !.claimedAt = row.tepoch,
               !.handed = IF HandsOut(w)
                          THEN @ \cup {[task |-> row.task, arm |-> row.tepoch,
                                        epoch |-> claim.epoch + 1,
                                        worker |-> w]}
                          ELSE @]
          /\ UNCHANGED row
    /\ UNCHANGED <<lease, signals, adv>>

(* The second transaction of the claim call, or the call dying before it.  *)
MarkExternalClaimLost(n) ==
    /\ n \in marks
    /\ marks' = marks \ {n}
    /\ \/ /\ row.tepoch = n /\ row.phase = "external"
          /\ row' = [row EXCEPT !.lost = TRUE, !.wake = "due"]
          /\ claim' = [Unclaimed(claim) EXCEPT !.epoch = @ + 1]
          /\ hist' = [hist EXCEPT !.marked = @ \cup {n}]
       \/ UNCHANGED <<row, claim, hist>>
    /\ UNCHANGED <<lease, signals, adv, used>>

ClaimLapses ==
    /\ ClaimLive
    /\ claim' = [claim EXCEPT !.lapsed = TRUE]
    /\ UNCHANGED <<row, lease, signals, adv, marks, hist, used>>

(* A renewal takes a lapsed claim back while nobody else took it.          *)
RenewExternalClaims(token) ==
    /\ Bound(token) /\ claim.worker = token.worker
    /\ row.status \notin {"cancelling", "cancelled"}
    /\ claim.lapsed
    /\ claim' = [claim EXCEPT !.lapsed = FALSE]
    /\ UNCHANGED <<row, lease, signals, adv, marks, hist, used>>

ReleasedClaim_sameEpoch == Unclaimed(claim)

ReleasedClaim == [Unclaimed(claim) EXCEPT !.epoch = @ + 1]

(* A released task whose answer deferred to the claim is the engine's.     *)
ReleaseExternalClaim(token) ==
    /\ Bound(token) /\ row.phase = "external" /\ claim.worker # NoWorker
    /\ claim' = ReleasedClaim
    /\ row' = IF AcceptsExternalOutcome /\ BufferedFor(row.task) # {}
              THEN UnparkExternal(row) ELSE row
    /\ hist' = [hist EXCEPT !.released = @ \cup {token}]
    /\ UNCHANGED <<lease, signals, adv, marks, used>>

-----------------------------------------------------------------------------
(* The operator's verbs: a held row drains, an unheld one stops now.       *)

Stop_ignoresLease(from, draining, stopped) ==
    /\ row.status \in from
    /\ row' = [row EXCEPT !.status = stopped]

Stop(from, draining, stopped) ==
    /\ row.status \in from
    /\ row' = [row EXCEPT !.status = IF lease = "none" THEN stopped
                                     ELSE draining]

Verb ==
    /\ used.verbs < MaxVerbs
    /\ used' = [used EXCEPT !.verbs = @ + 1]
    /\ UNCHANGED <<lease, claim, signals, adv, marks, hist>>

PauseProcess == Stop({"running"}, "pausing", "paused") /\ Verb

CancelProcess == Stop({"running", "paused"}, "cancelling", "cancelled") /\ Verb

ResumeProcess ==
    /\ row.status = "paused"
    /\ row' = [row EXCEPT !.status = "running"]
    /\ Verb

-----------------------------------------------------------------------------
Engine == ClaimInstances \/ advance \/ persist

Next ==
    \/ Engine \/ LeaseLapses \/ DeadlinePasses
    \/ ResolveUnclaimed
    \/ \E t \in ExternalTasks : DeliverSignal(t)
    \/ \E w \in Workers : ClaimExternalTasks(w)
    \/ \E token \in hist.handed :
         \/ ResolveClaimed(token) \/ RenewExternalClaims(token)
         \/ ReleaseExternalClaim(token)
    \/ \E n \in marks : MarkExternalClaimLost(n)
    \/ ClaimLapses
    \/ PauseProcess \/ CancelProcess \/ ResumeProcess

Spec == Init /\ [][Next]_vars

(* Workers poll, and advances end.                                         *)
FairSpec == Spec /\ WF_vars(Engine)

-----------------------------------------------------------------------------
(* An answer accepted by token while no engine held the row ends its       *)
(* arming: it never expires or is reported lost instead, whatever stalls,  *)
(* crashes, claims and verbs come between (resolve, un-park, peek, persist).*)
ResolvedIsUsed ==
    \A n \in hist.firm : hist.ended[n] \notin {"timeout", "lost"}

(* The answers of a task are consumed once each, in the order they came:   *)
(* the consumed ones are in the order of their acceptance, and each came   *)
(* before every one still buffered (peek the oldest, delete it with the    *)
(* state it produced).                                                     *)
ConsumedOnceInOrder ==
    \A i \in 1..Len(hist.consumed) :
      LET s == hist.consumed[i] IN
      /\ \A j \in i+1..Len(hist.consumed) :
           hist.consumed[j].task = s.task => s.id < hist.consumed[j].id
      /\ \A u \in BufferedFor(s.task) : s.id < u.id

(* An only_once arming is in one worker's hands at most, unless the first  *)
(* gave it back.                                                           *)
HandedOnce ==
    \A t, u \in hist.handed \ hist.released :
      t.task \in OnceTasks /\ t.arm = u.arm => t = u

(* A claim belongs to the arming it was granted for: a task armed again is *)
(* never born claimed by the holder of the last arming.                    *)
ClaimOfThisArming ==
    claim.worker # NoWorker => hist.claimedAt = row.tepoch

(* external.lost is reported only for an arming whose own claim lapsed and *)
(* was marked, as long as no interrupted verdict carried a park along.     *)
LostIsEarned ==
    \A n \in Epochs : hist.ended[n] = "lost" => n \in hist.marked \/ hist.stray

(* An answer with a claim token comes from the last grant of its arming    *)
(* that reached a worker, and not from one that was released.              *)
AnsweredByHolder ==
    [][\A t \in hist'.spent \ hist.spent :
         /\ t \notin hist.released
         /\ \A u \in hist.handed : u.arm = t.arm => u.epoch <= t.epoch]_vars

(* An answer accepted while no engine held the row is acted on, unless the *)
(* instance is stopped first.                                              *)
ResolvedAdvances ==
    \A n \in Epochs :
      n \in hist.firm ~> hist.ended[n] # ""
                           \/ row.status \in {"paused", "cancelled", "over"}

(* "parked on an external task, awaiting a result (or timeout)": a row in  *)
(* phase external is parked by the arming it is in.                        *)
ParkedIsArmed ==
    row.phase = "external" => hist.parked = row.tepoch

(* "An outcome reaches a parked instance one way: it is appended to        *)
(* process_signals, and the instance is made claimable": a running row     *)
(* parked on an answered task has a deadline, an engine that holds it, or  *)
(* a claim whose end makes it claimable.                                   *)
SignalFound ==
    row.status = "running" /\ row.phase = "external"
      /\ BufferedFor(row.task) # {}
        => row.wake # "none" \/ lease # "none" \/ claim.worker # NoWorker
=============================================================================
