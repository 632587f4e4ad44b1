------------------------- MODULE ExternalStepProofs -------------------------
(***************************************************************************)
(* The inductive invariant of External, what each of its steps does to the *)
(* row, its claim and the answers, and the types of the state.             *)
(***************************************************************************)
EXTENDS External, FiniteSetTheorems, TLAPS

(* An answer to the task of the row is buffered.                           *)
Answered == BufferedFor(row.task) # {}

(* The claim tokens workers were given in the present arming, and those of *)
(* them not given back.                                                    *)
TokensNow == {t \in hist.handed : t.arm = row.tepoch}

HeldNow == TokensNow \ hist.released

(* The instance is over for good.                                          *)
Settled == {"over", "cancelled"}

(* The claim columns count at most three epochs for each grant.            *)
ClaimCount ==
    claim.epoch + Cardinality(marks)
      + (IF claim.worker = NoWorker THEN 0 ELSE 1) <= 3 * used.claims

(* An engine holds the row while its advance is in flight.                 *)
ShapeInv ==
    /\ TypeOK
    /\ ClaimCount
    /\ lease = "none" <=> adv.kind = "none"

(* The advance will write the row as it read it, up to the status.         *)
Draining(from, to) ==
    \/ adv.kind = "claimed" /\ adv.cols.status = from
    \/ adv.kind = "write" /\ adv.cols.status = to

(* What the advance in flight read is still the arming the row is in; it   *)
(* leaves that arming for the next task epoch or for good, unless it arms  *)
(* or settles a stop. An arm finds no token of its arming about, and a     *)
(* pause is settled on an only_once park only if no worker has it, its     *)
(* answer is there or its deadline is over.                                *)
AdvanceInv ==
    /\ adv.kind # "write" => adv.ends = "" /\ adv.consumed = 0
    /\ adv.kind \in {"claimed", "arm"} =>
         adv.cols.task = row.task /\ adv.cols.tepoch = row.tepoch
    /\ adv.kind = "claimed" =>
         /\ adv.cols.status \notin {"paused", "cancelled", "over"}
         /\ adv.cols.phase = "" =>
              row.phase = "" /\ (TokensNow = {} \/ Answered)
    /\ adv.kind = "arm" =>
         /\ adv.cols.status = "running" /\ row.task \in ExternalTasks
         /\ row.phase = "" /\ TokensNow = {}
    /\ adv.kind = "write" /\ adv.cols.tepoch # row.tepoch =>
         adv.cols.tepoch = row.tepoch + 1 /\ adv.cols.status = "running"
    /\ adv.kind = "write" /\ adv.cols.tepoch = row.tepoch =>
         /\ adv.cols.task = row.task
         /\ \/ adv.cols.status = "over"
            \/ /\ adv.cols.status \in {"paused", "cancelled"}
               /\ adv.ends = "" /\ adv.consumed = 0
               /\ adv.cols.phase = "" =>
                    row.phase = "" /\ (TokensNow = {} \/ Answered)
    /\ Draining("cancelling", "cancelled") => row.status = "cancelling"
    /\ Draining("pausing", "paused") =>
         /\ row.status = "pausing"
         /\ \/ adv.reclaimed \/ row.task \notin OnceTasks
            \/ TokensNow = {} \/ Answered \/ adv.cols.wake = "due"
    /\ adv.kind = "write" /\ adv.cols.status = "paused" =>
         ~(adv.reclaimed /\ row.task \in OnceTasks)

(* Ids are given out once, and the answer an advance has peeked is still   *)
(* the oldest of its task.                                                 *)
SignalsInv ==
    /\ \A s \in signals : s.id <= used.answers
    /\ \A i \in 1..Len(hist.consumed) : hist.consumed[i].id <= used.answers
    /\ \A s, u \in signals : s.id = u.id => s = u
    /\ adv.consumed # 0 =>
         \E s \in PeekOldestSignal(row.task) : s.id = adv.consumed
    /\ ConsumedOnceInOrder

(* A token never outlives the epoch of its grant. Whoever holds work of    *)
(* this arming is the claim holder, unless an answer is there, the         *)
(* deadline is over or the instance is over.                               *)
ClaimsInv ==
    /\ \A t \in hist.handed :
         t.epoch <= claim.epoch /\ t.arm <= row.tepoch
           /\ (t.arm = row.tepoch => t.task = row.task)
    /\ \A t \in hist.released : t.epoch < claim.epoch
    /\ ClaimOfThisArming
    /\ HandedOnce
    /\ row.phase = "" /\ row.status \notin Settled => TokensNow = {} \/ Answered
    /\ row.task \in OnceTasks /\ row.status \notin Settled =>
         HeldNow = {} \/ claim.worker # NoWorker \/ row.wake = "due" \/ Answered
    /\ row.status = "pausing" /\ lease = "none" =>
         row.task \notin OnceTasks \/ TokensNow = {} \/ Answered \/ row.wake = "due"

(* Only armings of the past have ended, and the answer that made an arming *)
(* firm is buffered until its arming ends.                                 *)
EndsInv ==
    /\ \A n \in Epochs : hist.ended[n] # "" => n < row.tepoch \/ row.status = "over"
    /\ \A n \in hist.firm : n <= row.tepoch
    /\ row.tepoch \in hist.firm => Answered \/ row.status = "over"
    /\ adv.ends \in {"timeout", "lost"} => row.tepoch \notin hist.firm
    /\ ResolvedIsUsed

(* As long as no interrupted verdict carried a park along, the park and    *)
(* the lost mark are those of the present arming of an external task.      *)
LostInv ==
    ~hist.stray =>
      /\ row.status # "over" /\ (row.lost \/ row.phase = "external") =>
           row.task \in ExternalTasks
      /\ row.lost => row.tepoch \in hist.marked
      /\ adv.kind # "none" /\ adv.cols.lost /\ adv.cols.tepoch = row.tepoch =>
           row.tepoch \in hist.marked
      /\ adv.kind \in {"claimed","arm"}
           /\ (adv.cols.lost \/ adv.cols.phase = "external") =>
           row.task \in ExternalTasks
      /\ adv.kind = "write" /\ adv.cols.tepoch # row.tepoch =>
           adv.ends = "interrupted" \/ (~adv.cols.lost /\ adv.cols.phase = "")
      /\ adv.kind = "write" /\ adv.cols.status \in {"paused", "cancelled"}
           /\ (adv.cols.lost \/ adv.cols.phase = "external") =>
           row.task \in ExternalTasks
      /\ adv.ends = "lost" => row.tepoch \in hist.marked
      /\ LostIsEarned

(* The inductive invariant: the advance in flight, the answers, the        *)
(* claims, the ends and the lost marks, none of which is inductive without *)
(* the others.                                                             *)
IInv == ShapeInv /\ AdvanceInv /\ SignalsInv /\ ClaimsInv /\ EndsInv /\ LostInv

-----------------------------------------------------------------------------
(* Lemmas about the operators.                                             *)

(* A fresh row and no advance have the shapes the types say.               *)
LEMMA FreshType ==
    /\ Fresh \in Cols /\ NoAdvance \in Advances
    /\ NoAdvance.kind = "none" /\ NoAdvance.ends = ""
    /\ NoAdvance.consumed = 0
<1> USE ExternalAssumption DEF ExternalAssumption
<1>1. Fresh \in Cols
  BY DEF Fresh, Cols, Status, Epochs
<1>2. NoAdvance \in Advances
  BY <1>1 DEF NoAdvance, Advances, Ends
<1>3. /\ NoAdvance.kind = "none" /\ NoAdvance.ends = ""
      /\ NoAdvance.consumed = 0
  BY DEF NoAdvance
<1> QED  BY <1>1, <1>2, <1>3

(* The bound on task epochs leaves room for the next one below it.         *)
LEMMA NextEpoch ==
    ASSUME NEW n \in Epochs, n # MaxEpoch
    PROVE  n + 1 \in Epochs
BY ExternalAssumption DEF ExternalAssumption, Epochs

(* d is what an advance of c that leaves its arming writes: a new          *)
(* occurrence, or the end of the instance.                                 *)
Leaves(c, d) ==
    /\ d \in Cols
    /\ d.lost = c.lost
    /\ d.phase \in {c.phase, ""}
    /\ \/ d.tepoch = c.tepoch + 1 /\ d.status = c.status
       \/ d.tepoch = c.tepoch /\ d.task = c.task /\ d.status = "over"

(* A transition, a retry and a conclusion leave the arming.                *)
LEMMA LeavesArming ==
    ASSUME NEW c \in Cols,
           NEW d \in Routes(c) \cup {Concluded(c)} \cup Retried(c)
                       \cup {completeViaErrorHandler(c)}
    PROVE  Leaves(c, d)
<1> USE ExternalAssumption DEF ExternalAssumption
<1>0. c.tepoch \in Epochs /\ c.status \in Status /\ c.task \in Tasks
        /\ c.phase \in {"", "external"} /\ c.lost \in BOOLEAN
  BY DEF Cols
<1>1. CASE d \in Routes(c)
  <2>0. c.tepoch # MaxEpoch
    BY <1>1 DEF Routes
  <2>1. c.tepoch # MaxEpoch /\ c.tepoch + 1 \in Epochs
    BY <1>0, <2>0, NextEpoch
  <2>2. PICK t \in Tasks :
          d = [c EXCEPT !.task = t, !.tepoch = c.tepoch + 1, !.wake = "none"]
    BY <1>1, <2>1 DEF Routes
  <2> QED  BY <1>0, <2>1, <2>2 DEF Leaves, Cols
<1>2. CASE d = Concluded(c)
  BY <1>0, <1>2 DEF Concluded, Leaves, Cols, Status
<1>3. CASE d \in Retried(c)
  <2>0. c.tepoch # MaxEpoch
    BY <1>3 DEF Retried
  <2>1. c.tepoch # MaxEpoch /\ c.tepoch + 1 \in Epochs
    BY <1>0, <2>0, NextEpoch
  <2>2. d = [c EXCEPT !.tepoch = c.tepoch + 1, !.wake = "future"]
    BY <1>3, <2>1 DEF Retried
  <2> QED  BY <1>0, <2>1, <2>2 DEF Leaves, Cols
<1>4. CASE d = completeViaErrorHandler(c)
  BY <1>0, <1>4 DEF completeViaErrorHandler, Leaves, Cols, Status
<1> QED  BY <1>1, <1>2, <1>3, <1>4

(* So does every verdict of handleCallError on an unknowable outcome.      *)
LEMMA UnknowableLeaves ==
    ASSUME NEW c \in Cols, NEW d \in handleUnknowable(c)
    PROVE  Leaves(c, d)
BY LeavesArming DEF handleUnknowable

(* clearExternalPark clears the phase and the mark and nothing else.       *)
LEMMA ClearParkType ==
    ASSUME NEW c \in Cols
    PROVE  /\ clearExternalPark(c) \in Cols
           /\ clearExternalPark(c).status = c.status
           /\ clearExternalPark(c).task = c.task
           /\ clearExternalPark(c).tepoch = c.tepoch
           /\ clearExternalPark(c).phase = ""
           /\ clearExternalPark(c).lost = FALSE
BY DEF clearExternalPark, Cols

(* UnparkExternal clears the phase and the timer and nothing else.         *)
LEMMA UnparkType ==
    ASSUME NEW c \in Cols
    PROVE  /\ UnparkExternal(c) \in Cols
           /\ UnparkExternal(c).status = c.status
           /\ UnparkExternal(c).task = c.task
           /\ UnparkExternal(c).tepoch = c.tepoch
           /\ UnparkExternal(c).phase = ""
           /\ UnparkExternal(c).lost = c.lost
           /\ UnparkExternal(c).wake = "none"
BY DEF UnparkExternal, Cols

-----------------------------------------------------------------------------
(* What the reads of an advance leave in adv, one predicate per branch.    *)

(* The verdict on an interrupted call: handleCallError on unknowable.      *)
WritesInterrupted ==
    /\ adv'.kind = "write" /\ adv'.ends = "interrupted"
    /\ adv'.consumed = adv.consumed
    /\ adv.reclaimed /\ adv.cols.task \in OnceTasks
    /\ Leaves([adv.cols EXCEPT !.status = "running"], adv'.cols)

(* The write that settles a pause or a cancel.                             *)
WritesSettled ==
    /\ adv'.kind = "write" /\ adv'.ends = adv.ends
    /\ adv'.consumed = adv.consumed
    /\ \/ /\ adv.cols.status = "cancelling"
          /\ adv'.cols = [adv.cols EXCEPT !.status = "cancelled"]
       \/ /\ adv.cols.status = "pausing"
          /\ ~(adv.reclaimed /\ adv.cols.task \in OnceTasks)
          /\ adv'.cols = [adv.cols EXCEPT !.status = "paused"]

(* The write of a task that is not external.                               *)
WritesOther ==
    /\ adv'.kind = "write" /\ adv'.ends = adv.ends
    /\ adv'.consumed = adv.consumed
    /\ adv.cols.status = "running" /\ adv.cols.task \notin ExternalTasks
    /\ Leaves(adv.cols, adv'.cols)

(* The write that consumes the oldest answer of the task.                  *)
WritesAnswered ==
    /\ adv'.kind = "write" /\ adv'.ends = "answer"
    /\ \E s \in PeekOldestSignal(adv.cols.task) : adv'.consumed = s.id
    /\ adv.cols.status = "running"
    /\ Leaves(clearExternalPark(adv.cols), adv'.cols)

(* The write on a park whose deadline is over.                             *)
WritesExpired ==
    /\ adv'.kind = "write"
    /\ adv'.ends = IF adv.cols.lost THEN "lost" ELSE "timeout"
    /\ adv'.consumed = adv.consumed
    /\ adv.cols.status = "running" /\ BufferedFor(adv.cols.task) = {}
    /\ Leaves(clearExternalPark(adv.cols), adv'.cols)

(* A fresh external task with no answer buffered is armed.                 *)
ComputesArm ==
    /\ adv'.kind = "arm" /\ adv'.ends = adv.ends
    /\ adv'.consumed = adv.consumed
    /\ adv.cols.status = "running" /\ adv.cols.task \in ExternalTasks
    /\ BufferedFor(adv.cols.task) = {} /\ adv.cols.phase = ""
    /\ \E w \in {"none", "future", "due"} :
         adv'.cols = [adv.cols EXCEPT !.phase = "external", !.wake = w]

(* A fresh external task that cannot be armed fails the instance.          *)
RefusesArm ==
    /\ adv'.kind = "write" /\ adv'.ends = adv.ends
    /\ adv'.consumed = adv.consumed
    /\ adv.cols.status = "running" /\ adv.cols.task \in ExternalTasks
    /\ Leaves(adv.cols, adv'.cols) /\ adv'.cols.status = "over"

(* The reads of an advance take one of the seven branches.                 *)
LEMMA AdvanceComputes ==
    ASSUME TypeOK, advance
    PROVE  /\ adv.kind = "claimed"
           /\ adv' \in Advances
           /\ adv'.reclaimed = adv.reclaimed
           /\ signals' = signals
           /\ \/ WritesInterrupted \/ WritesSettled \/ WritesOther
              \/ WritesAnswered \/ WritesExpired \/ ComputesArm \/ RefusesArm
<1> USE ExternalAssumption DEF ExternalAssumption
<1> DEFINE c == adv.cols
<1>0. /\ adv \in Advances /\ c \in Cols /\ signals \subseteq Answers
      /\ adv.kind = "claimed"
  BY DEF TypeOK, Advances, advance
<1>1. ASSUME Interrupted(c)
      PROVE  adv' \in Advances /\ adv'.reclaimed = adv.reclaimed
               /\ signals' = signals /\ WritesInterrupted
  <2> DEFINE r == [c EXCEPT !.status = "running"]
  <2>1. r \in Cols
    BY <1>0 DEF Cols, Status
  <2>2. PICK d \in handleUnknowable(r) :
          adv' = [adv EXCEPT !.kind = "write", !.cols = d,
                             !.ends = "interrupted"]
    BY <1>1 DEF Interrupted
  <2>3. Leaves(r, d)
    BY <2>1, UnknowableLeaves
  <2>4. d \in Cols
    BY <2>3 DEF Leaves
  <2> QED
    BY <1>0, <1>1, <2>2, <2>3, <2>4
       DEF Advances, Ends, WritesInterrupted, Interrupted
<1>2. ASSUME Settle(c)
      PROVE  adv' \in Advances /\ adv'.reclaimed = adv.reclaimed
               /\ signals' = signals /\ WritesSettled
  <2>1. ASSUME NEW st \in {"cancelled", "paused"},
               adv' = [adv EXCEPT !.kind = "write", !.cols.status = st]
        PROVE  /\ adv' \in Advances /\ adv'.reclaimed = adv.reclaimed
               /\ adv'.kind = "write" /\ adv'.ends = adv.ends
               /\ adv'.consumed = adv.consumed
               /\ adv'.cols = [adv.cols EXCEPT !.status = st]
    <3> DEFINE d == [c EXCEPT !.status = st]
    <3>1. d \in Cols
      BY <1>0 DEF Cols, Status
    <3>2. adv' = [adv EXCEPT !.kind = "write", !.cols = d]
      BY <1>0, <2>1 DEF Advances
    <3> HIDE DEF d
    <3>3. /\ adv' \in Advances /\ adv'.reclaimed = adv.reclaimed
          /\ adv'.kind = "write" /\ adv'.ends = adv.ends
          /\ adv'.consumed = adv.consumed /\ adv'.cols = d
      BY <1>0, <3>1, <3>2 DEF Advances
    <3> QED  BY <3>3 DEF d
  <2> QED  BY <1>2, <2>1 DEF Settle, WritesSettled
<1>3. ASSUME RunOther(c)
      PROVE  adv' \in Advances /\ adv'.reclaimed = adv.reclaimed
               /\ signals' = signals /\ WritesOther
  <2>2. PICK d \in Routes(c) \cup {Concluded(c)} :
          adv' = [adv EXCEPT !.kind = "write", !.cols = d]
    BY <1>3 DEF RunOther
  <2>3. Leaves(c, d)
    BY <1>0, LeavesArming
  <2>4. d \in Cols
    BY <2>3 DEF Leaves
  <2> QED
    BY <1>0, <1>3, <2>2, <2>3, <2>4 DEF Advances, WritesOther, RunOther, Runs
<1>4. ASSUME RunAnswered(c)
      PROVE  adv' \in Advances /\ adv'.reclaimed = adv.reclaimed
               /\ signals' = signals /\ WritesAnswered
  <2> DEFINE p == clearExternalPark(c)
  <2>1. p \in Cols
    BY <1>0, ClearParkType
  <2>2. PICK s \in PeekOldestSignal(c.task),
             d \in Routes(p) \cup {Concluded(p)} \cup Retried(p) :
          adv' = [adv EXCEPT !.kind = "write", !.cols = d,
                             !.consumed = s.id, !.ends = "answer"]
    BY <1>4 DEF RunAnswered
  <2>3. Leaves(p, d)
    BY <2>1, LeavesArming
  <2>4. d \in Cols
    BY <2>3 DEF Leaves
  <2>5. s.id \in 0..MaxAnswers
    BY <1>0, <2>2 DEF PeekOldestSignal, BufferedFor, Answers
  <2> QED
    BY <1>0, <1>4, <2>2, <2>3, <2>4, <2>5
       DEF Advances, Ends, WritesAnswered, RunAnswered, Runs
<1>5. ASSUME RunExpired(c)
      PROVE  adv' \in Advances /\ adv'.reclaimed = adv.reclaimed
               /\ signals' = signals /\ WritesExpired
  <2> DEFINE p == clearExternalPark(c)
  <2>1. p \in Cols
    BY <1>0, ClearParkType
  <2>2. PICK d \in handleUnknowable(p) :
          adv' = [adv EXCEPT !.kind = "write", !.cols = d,
                             !.ends = IF c.lost THEN "lost" ELSE "timeout"]
    BY <1>5 DEF RunExpired
  <2>3. Leaves(p, d)
    BY <2>1, UnknowableLeaves
  <2>4. d \in Cols
    BY <2>3 DEF Leaves
  <2> QED
    BY <1>0, <1>5, <2>2, <2>3, <2>4
       DEF Advances, Ends, WritesExpired, RunExpired, Runs
<1>6. ASSUME RunArm(c)
      PROVE  adv' \in Advances /\ adv'.reclaimed = adv.reclaimed
               /\ signals' = signals /\ (ComputesArm \/ RefusesArm)
  <2>1. ASSUME NEW w \in {"none", "future", "due"},
               adv' = [adv EXCEPT !.kind = "arm", !.cols.phase = "external",
                                  !.cols.wake = w]
        PROVE  adv' \in Advances /\ adv'.reclaimed = adv.reclaimed
                 /\ ComputesArm
    <3> DEFINE d == [c EXCEPT !.phase = "external", !.wake = w]
    <3>2. d \in Cols
      BY <1>0 DEF Cols
    <3>3. adv' = [adv EXCEPT !.kind = "arm", !.cols = d]
      BY <1>0, <2>1 DEF Advances
    <3>4. c.phase = ""
      BY <1>0, <1>6 DEF RunArm, Cols
    <3> HIDE DEF d
    <3>5. /\ adv' \in Advances /\ adv'.reclaimed = adv.reclaimed
          /\ adv'.kind = "arm" /\ adv'.ends = adv.ends
          /\ adv'.consumed = adv.consumed /\ adv'.cols = d
      BY <1>0, <3>2, <3>3 DEF Advances
    <3> QED
      BY <1>6, <3>4, <3>5 DEF ComputesArm, RunArm, Runs, d
  <2>2. ASSUME adv' = [adv EXCEPT !.kind = "write", !.cols = Concluded(c)]
        PROVE  adv' \in Advances /\ adv'.reclaimed = adv.reclaimed
                 /\ RefusesArm
    <3>1. PICK d : d = Concluded(c)
      OBVIOUS
    <3>2. Leaves(c, d)
      BY <1>0, <3>1, LeavesArming
    <3>3. d \in Cols /\ d.status = "over"
      BY <1>0, <3>1, <3>2 DEF Leaves, Concluded, Cols
    <3>4. adv' = [adv EXCEPT !.kind = "write", !.cols = d]
      BY <2>2, <3>1
    <3>5. /\ adv' \in Advances /\ adv'.reclaimed = adv.reclaimed
          /\ adv'.kind = "write" /\ adv'.ends = adv.ends
          /\ adv'.consumed = adv.consumed /\ adv'.cols = d
      BY <1>0, <3>3, <3>4 DEF Advances
    <3> QED
      BY <1>6, <3>2, <3>3, <3>5 DEF RefusesArm, RunArm, Runs
  <2> QED  BY <1>6, <2>1, <2>2 DEF RunArm
<1> QED
  BY <1>0, <1>1, <1>2, <1>3, <1>4, <1>5, <1>6 DEF advance
-----------------------------------------------------------------------------
(* The shape of the state.                                                 *)

(* The first state has the shape.                                          *)
LEMMA InitShape == Init => ShapeInv
<1> SUFFICES ASSUME Init PROVE ShapeInv
  OBVIOUS
<1> USE ExternalAssumption DEF ExternalAssumption
<1>1. row \in Cols /\ adv \in Advances
  BY FreshType DEF Init
<1>2. claim \in Claims
  <2>1. 0 \in 0..3 * MaxClaims
    OBVIOUS
  <2> QED  BY <2>1 DEF Init, Claims
<1>3. hist \in Histories
  <2> DEFINE e == [n \in Epochs |-> ""]
  <2>1. e \in [Epochs -> Ends] /\ 0 \in Epochs /\ <<>> \in Seq(Answers)
    BY DEF Ends, Epochs
  <2>2. hist = [consumed |-> <<>>, ended |-> e,
               firm |-> {}, handed |-> {}, released |-> {}, spent |-> {},
               claimedAt |-> 0, marked |-> {}, parked |-> 0, stray |-> FALSE]
    BY DEF Init
  <2> HIDE DEF e
  <2> QED  BY <2>1, <2>2 DEF Histories
<1>4. Cardinality(marks) = 0
  BY FS_EmptySet DEF Init
<1>5. TypeOK
  <2>1. used \in Usage
    <3>1. /\ 0 \in 0..MaxAnswers /\ 0 \in 0..MaxClaims
          /\ 0 \in 0..MaxLapses /\ 0 \in 0..MaxVerbs
      OBVIOUS
    <3>2. used = [answers |-> 0, claims |-> 0, lapses |-> 0, verbs |-> 0]
      BY DEF Init
    <3> QED  BY <3>1, <3>2 DEF Usage
  <2>2. hist.released = {} /\ hist.handed = {} /\ hist.spent = {}
    BY DEF Init
  <2>3. signals = {} /\ marks = {} /\ lease = "none" /\ row.status = "running"
    BY DEF Init, Fresh
  <2> QED  BY <1>1, <1>2, <1>3, <2>1, <2>2, <2>3 DEF TypeOK
<1>6. /\ claim.epoch = 0 /\ claim.worker = NoWorker /\ used.claims = 0
      /\ lease = "none" /\ adv.kind = "none"
  BY DEF Init, NoAdvance
<1> QED
  BY <1>4, <1>5, <1>6 DEF ShapeInv, ClaimCount

(* The write of an advance, column by column.                              *)
LEMMA PersistWrites ==
    ASSUME TypeOK, persist
    PROVE  /\ row' \in Cols /\ adv' = NoAdvance /\ lease' = "none"
           /\ adv.kind \in {"arm", "write"}
           /\ signals' = SignalsAfter /\ marks' = marks /\ used' = used
           /\ row'.task = adv.cols.task /\ row'.tepoch = adv.cols.tepoch
           /\ row'.lost = adv.cols.lost
           /\ row'.status = IF adv.cols.status = "running" THEN row.status
                            ELSE adv.cols.status
           /\ \/ /\ row'.phase = adv.cols.phase /\ row'.wake = adv.cols.wake
              \/ /\ adv.kind = "arm" /\ BufferedFor(adv.cols.task) # {}
                 /\ row'.phase = "" /\ row'.wake = "none"
           /\ claim' = IF adv.cols.tepoch = row.tepoch THEN claim
                       ELSE Unclaimed(claim)
           /\ hist' \in Histories
           /\ hist'.handed = hist.handed /\ hist'.released = hist.released
           /\ hist'.spent = hist.spent /\ hist'.firm = hist.firm
           /\ hist'.marked = hist.marked /\ hist'.claimedAt = hist.claimedAt
           /\ hist'.ended = IF adv.ends = "" THEN hist.ended
                            ELSE [hist.ended EXCEPT ![row.tepoch] = adv.ends]
           /\ hist'.consumed =
                IF adv.consumed = 0 THEN hist.consumed
                ELSE Append(hist.consumed,
                            [id |-> adv.consumed, task |-> row.task])
           /\ hist.stray => hist'.stray
           /\ adv.ends = "interrupted" /\ adv.cols.status # "over"
                /\ (adv.cols.lost \/ (adv.kind = "write"
                                        /\ adv.cols.phase = "external"))
                => hist'.stray
<1> USE ExternalAssumption DEF ExternalAssumption
<1> DEFINE c == ArmOrLeave(adv.cols)
<1>0. /\ row \in Cols /\ adv \in Advances /\ adv.cols \in Cols
      /\ hist \in Histories /\ row.tepoch \in Epochs /\ adv.ends \in Ends
      /\ adv.consumed \in 0..MaxAnswers /\ row.status \in Status
      /\ row.task \in Tasks
  BY DEF TypeOK, Advances, Cols
<1>1. /\ c \in Cols /\ c.status = adv.cols.status /\ c.task = adv.cols.task
      /\ c.tepoch = adv.cols.tepoch /\ c.lost = adv.cols.lost
      /\ \/ c = adv.cols
         \/ /\ adv.kind = "arm" /\ BufferedFor(adv.cols.task) # {}
            /\ c.phase = "" /\ c.wake = "none"
  BY <1>0, UnparkType DEF ArmOrLeave
<1>2. /\ row' = [c EXCEPT !.status = IF c.status = "running" THEN row.status
                                     ELSE c.status]
      /\ claim' = ClaimAfter(c)
      /\ adv' = NoAdvance /\ lease' = "none" /\ signals' = SignalsAfter
      /\ marks' = marks /\ used' = used
      /\ hist' = [hist EXCEPT
            !.ended = [hist.ended EXCEPT ![row.tepoch] =
                         IF adv.ends = "" THEN hist.ended[row.tepoch]
                         ELSE adv.ends],
            !.consumed = IF adv.consumed = 0 THEN hist.consumed
                         ELSE Append(hist.consumed, [id |-> adv.consumed,
                                                     task |-> row.task]),
            !.parked = IF adv.kind = "arm" /\ c = adv.cols
                       THEN row.tepoch ELSE hist.parked,
            !.stray = hist.stray \/ (adv.ends = "interrupted" /\ c.status # "over"
                            /\ (c.phase = "external" \/ c.lost))]
  BY DEF persist
<1> HIDE DEF c
<1>3. /\ row' \in Cols /\ row'.task = c.task /\ row'.tepoch = c.tepoch
      /\ row'.lost = c.lost /\ row'.phase = c.phase /\ row'.wake = c.wake
      /\ row'.status = IF c.status = "running" THEN row.status ELSE c.status
  BY <1>0, <1>1, <1>2 DEF Cols
<1>4. claim' = IF adv.cols.tepoch = row.tepoch THEN claim ELSE Unclaimed(claim)
  BY <1>1, <1>2 DEF ClaimAfter
<1> DEFINE en == [hist.ended EXCEPT ![row.tepoch] =
                    IF adv.ends = "" THEN hist.ended[row.tepoch] ELSE adv.ends]
           co == IF adv.consumed = 0 THEN hist.consumed
                 ELSE Append(hist.consumed, [id |-> adv.consumed,
                                             task |-> row.task])
           pa == IF adv.kind = "arm" /\ c = adv.cols THEN row.tepoch
                 ELSE hist.parked
           sy == hist.stray \/ (adv.ends = "interrupted" /\ c.status # "over"
                                  /\ (c.phase = "external" \/ c.lost))
<1>5. hist' = [hist EXCEPT !.ended = en, !.consumed = co, !.parked = pa,
                           !.stray = sy]
  BY <1>2
<1>6. en \in [Epochs -> Ends]
        /\ en = IF adv.ends = "" THEN hist.ended
                ELSE [hist.ended EXCEPT ![row.tepoch] = adv.ends]
  <2>1. hist.ended \in [Epochs -> Ends]
    BY <1>0 DEF Histories
  <2> QED  BY <1>0, <2>1
<1>7. co \in Seq(Answers)
  <2>1. hist.consumed \in Seq(Answers)
    BY <1>0 DEF Histories
  <2>2. adv.consumed # 0 => [id |-> adv.consumed, task |-> row.task] \in Answers
    BY <1>0 DEF Answers
  <2> QED  BY <2>1, <2>2
<1>8. pa \in Epochs
  BY <1>0 DEF Histories
<1>9. sy \in BOOLEAN
  BY <1>0 DEF Histories
<1> HIDE DEF en, co, pa, sy
<1>10. /\ hist' \in Histories
       /\ hist'.handed = hist.handed /\ hist'.released = hist.released
       /\ hist'.spent = hist.spent /\ hist'.firm = hist.firm
       /\ hist'.marked = hist.marked /\ hist'.claimedAt = hist.claimedAt
       /\ hist'.ended = en /\ hist'.consumed = co /\ hist'.stray = sy
  BY <1>0, <1>5, <1>6, <1>7, <1>8, <1>9 DEF Histories
<1>11. /\ hist.stray => sy
       /\ adv.ends = "interrupted" /\ adv.cols.status # "over"
                /\ (adv.cols.lost \/ (adv.kind = "write"
                                        /\ adv.cols.phase = "external"))
                => sy
  BY <1>1 DEF sy
<1>12. \/ /\ row'.phase = adv.cols.phase /\ row'.wake = adv.cols.wake
       \/ /\ adv.kind = "arm" /\ BufferedFor(adv.cols.task) # {}
          /\ row'.phase = "" /\ row'.wake = "none"
  BY <1>1, <1>3
<1>13. adv.kind \in {"arm", "write"}
  BY DEF persist
<1>14. hist'.consumed = IF adv.consumed = 0 THEN hist.consumed
                        ELSE Append(hist.consumed,
                                    [id |-> adv.consumed, task |-> row.task])
  BY <1>10 DEF co
<1>15. hist'.ended = IF adv.ends = "" THEN hist.ended
                     ELSE [hist.ended EXCEPT ![row.tepoch] = adv.ends]
  BY <1>6, <1>10 DEF en
<1>16. /\ row'.task = adv.cols.task /\ row'.tepoch = adv.cols.tepoch
       /\ row'.lost = adv.cols.lost
       /\ row'.status = IF adv.cols.status = "running" THEN row.status
                        ELSE adv.cols.status
  BY <1>1, <1>3
<1> QED
  BY <1>2, <1>3, <1>4, <1>10, <1>11, <1>12, <1>13, <1>14, <1>15, <1>16

(* Counting one more keeps the counters below their bounds.                *)
LEMMA UsageSteps ==
    ASSUME NEW u \in Usage
    PROVE  /\ u.answers \in Nat /\ u.claims \in Nat /\ u.claims <= MaxClaims
           /\ u.answers <= MaxAnswers
           /\ u.answers < MaxAnswers =>
                [u EXCEPT !.answers = u.answers + 1] \in Usage
           /\ u.claims < MaxClaims =>
                [u EXCEPT !.claims = u.claims + 1] \in Usage
           /\ u.lapses < MaxLapses =>
                [u EXCEPT !.lapses = u.lapses + 1] \in Usage
           /\ u.verbs < MaxVerbs =>
                [u EXCEPT !.verbs = u.verbs + 1] \in Usage
<1> USE ExternalAssumption DEF ExternalAssumption
<1>1. /\ u.answers \in 0..MaxAnswers /\ u.claims \in 0..MaxClaims
      /\ u.lapses \in 0..MaxLapses /\ u.verbs \in 0..MaxVerbs
  BY DEF Usage
<1>2. /\ u.answers < MaxAnswers => u.answers + 1 \in 0..MaxAnswers
      /\ u.claims < MaxClaims => u.claims + 1 \in 0..MaxClaims
      /\ u.lapses < MaxLapses => u.lapses + 1 \in 0..MaxLapses
      /\ u.verbs < MaxVerbs => u.verbs + 1 \in 0..MaxVerbs
  BY <1>1
<1> QED  BY <1>1, <1>2 DEF Usage

(* Claim columns that the count covers have their type.                    *)
LEMMA ClaimCountBound ==
    ASSUME NEW c, NEW k \in Nat, NEW u \in Usage,
           c.worker \in Workers \cup {NoWorker}, c.lapsed \in BOOLEAN,
           c = [worker |-> c.worker, lapsed |-> c.lapsed, epoch |-> c.epoch],
           c.epoch \in Nat, c.epoch + k <= 3 * u.claims
    PROVE  c \in Claims
<1>1. u.claims \in Nat /\ u.claims <= MaxClaims /\ MaxClaims \in Nat
  BY UsageSteps, ExternalAssumption DEF ExternalAssumption
<1>2. c.epoch \in 0..3 * MaxClaims
  BY <1>1
<1> QED  BY <1>2 DEF Claims

-----------------------------------------------------------------------------
(* What the other steps write, column by column.                           *)

(* A step inside an arming that keeps the lost mark.                       *)
SameArming ==
    /\ row'.status = row.status /\ row'.task = row.task
    /\ row'.tepoch = row.tepoch /\ row'.lost = row.lost

(* An answer to t was appended.                                            *)
Buffered(t) ==
    /\ used.answers < MaxAnswers
    /\ signals' = signals \cup {[id |-> used.answers + 1, task |-> t]}
    /\ signals' \subseteq Answers
    /\ used' \in Usage /\ used'.answers = used.answers + 1
    /\ used'.claims = used.claims

(* bufferOutcome appends an answer with the next id.                       *)
LEMMA BufferEffect ==
    ASSUME TypeOK, NEW t \in Tasks, Buffer(t)
    PROVE  Buffered(t)
<1> USE ExternalAssumption DEF ExternalAssumption
<1>1. used \in Usage /\ signals \subseteq Answers
  BY DEF TypeOK
<1>2. used.answers < MaxAnswers
        /\ used' = [used EXCEPT !.answers = used.answers + 1]
  BY DEF Buffer
<1>3. used' \in Usage
  BY <1>1, <1>2, UsageSteps
<1>4. used'.answers = used.answers + 1 /\ used'.claims = used.claims
  BY <1>1, <1>2 DEF Usage
<1>5. [id |-> used.answers + 1, task |-> t] \in Answers
  <2>1. used.answers \in Nat
    BY <1>1, UsageSteps
  <2>2. used.answers + 1 \in 1..MaxAnswers
    BY <1>2, <2>1
  <2> QED  BY <2>2 DEF Answers
<1> QED  BY <1>1, <1>2, <1>3, <1>4, <1>5 DEF Buffer, Buffered

(* ResolveExternalTask: the answer is buffered and the row un-parked.      *)
LEMMA ResolveEffect ==
    ASSUME TypeOK, NEW by \in SUBSET hist.handed, Resolve(by)
    PROVE  /\ Waiting /\ lease # "live"
           /\ Buffered(row.task)
           /\ row' \in Cols /\ SameArming /\ row'.phase = "" /\ row'.wake = "none"
           /\ hist' \in Histories
           /\ hist'.firm = IF lease = "none" THEN hist.firm \cup {row.tepoch}
                           ELSE hist.firm
           /\ hist'.spent = hist.spent \cup by
           /\ hist'.consumed = hist.consumed /\ hist'.ended = hist.ended
           /\ hist'.handed = hist.handed /\ hist'.released = hist.released
           /\ hist'.claimedAt = hist.claimedAt /\ hist'.marked = hist.marked
           /\ hist'.stray = hist.stray
           /\ UNCHANGED <<lease, claim, adv, marks>>
<1>1. row \in Cols /\ row.task \in Tasks /\ row.tepoch \in Epochs
        /\ hist \in Histories
  BY DEF TypeOK, Cols
<1>2. Buffered(row.task)
  BY <1>1, BufferEffect DEF Resolve
<1>3. row' \in Cols /\ SameArming /\ row'.phase = "" /\ row'.wake = "none"
  BY <1>1, UnparkType DEF Resolve, SameArming
<1> DEFINE f == IF lease = "none" THEN hist.firm \cup {row.tepoch}
                ELSE hist.firm
           s == hist.spent \cup by
<1>4. hist' = [hist EXCEPT !.firm = f, !.spent = s]
  BY DEF Resolve
<1>5. f \in SUBSET Epochs /\ s \in SUBSET Tokens
  BY <1>1 DEF Histories
<1> HIDE DEF f, s
<1>6. /\ hist' \in Histories
      /\ hist'.firm = f /\ hist'.spent = s
      /\ hist'.consumed = hist.consumed /\ hist'.ended = hist.ended
      /\ hist'.handed = hist.handed /\ hist'.released = hist.released
      /\ hist'.claimedAt = hist.claimedAt /\ hist'.marked = hist.marked
      /\ hist'.stray = hist.stray
  BY <1>1, <1>4, <1>5 DEF Histories
<1> QED  BY <1>2, <1>3, <1>6 DEF Resolve, f, s

(* DeliverSignal: the signal is buffered; the row is un-parked or left.    *)
LEMMA DeliverEffect ==
    ASSUME TypeOK, NEW t \in ExternalTasks, DeliverSignal(t)
    PROVE  /\ AcceptsExternalOutcome
           /\ Buffered(t)
           /\ row' \in Cols /\ SameArming
           /\ \/ row' = row
              \/ /\ row'.phase = "" /\ row'.wake = "none" /\ t = row.task
                 /\ lease # "live"
           /\ UNCHANGED <<lease, claim, adv, marks, hist>>
<1>1. row \in Cols /\ t \in Tasks
  BY ExternalAssumption DEF TypeOK, ExternalAssumption
<1>2. Buffered(t)
  BY <1>1, BufferEffect DEF DeliverSignal
<1> QED  BY <1>1, <1>2, UnparkType DEF DeliverSignal, SameArming

(* ClaimExternalTasks: an answered row is un-parked, another is granted.   *)
LEMMA GrantEffect ==
    ASSUME TypeOK, NEW w \in Workers, ClaimExternalTasks(w)
    PROVE  /\ Claimable
           /\ UNCHANGED <<lease, signals, adv>>
           /\ \/ /\ Answered
                 /\ row' \in Cols /\ SameArming
                 /\ row'.phase = "" /\ row'.wake = "none"
                 /\ UNCHANGED <<claim, marks, hist, used>>
              \/ /\ ~Answered
                 /\ row' = row
                 /\ used' \in Usage /\ used'.claims = used.claims + 1
                 /\ used'.answers = used.answers
                 /\ claim' = [worker |-> w, lapsed |-> FALSE,
                              epoch |-> claim.epoch + 1]
                 /\ marks' \in {marks, marks \cup {row.tepoch}}
                 /\ hist'.handed =
                      IF HandsOut(w)
                      THEN hist.handed \cup {[task |-> row.task,
                                              arm |-> row.tepoch,
                                              epoch |-> claim.epoch + 1,
                                              worker |-> w]}
                      ELSE hist.handed
                 /\ hist' = [hist EXCEPT !.claimedAt = row.tepoch,
                                         !.handed = hist'.handed]
                 /\ hist'.claimedAt = row.tepoch
                 /\ hist'.firm = hist.firm /\ hist'.spent = hist.spent
                 /\ hist'.consumed = hist.consumed /\ hist'.ended = hist.ended
                 /\ hist'.released = hist.released
                 /\ hist'.marked = hist.marked /\ hist'.stray = hist.stray
<1>1. row \in Cols /\ used \in Usage /\ hist \in Histories
  BY DEF TypeOK
<1>2. CASE Answered
  <2>1. /\ Claimable /\ UNCHANGED <<lease, signals, adv>>
        /\ UNCHANGED <<claim, marks, hist, used>> /\ row' = UnparkExternal(row)
    BY <1>2 DEF ClaimExternalTasks, Answered
  <2>2. row' \in Cols /\ SameArming /\ row'.phase = "" /\ row'.wake = "none"
    BY <1>1, <2>1, UnparkType DEF SameArming
  <2> QED  BY <1>2, <2>1, <2>2
<1>3. CASE ~Answered
  <2> DEFINE h == IF HandsOut(w)
                  THEN hist.handed \cup {[task |-> row.task,
                                          arm |-> row.tepoch,
                                          epoch |-> claim.epoch + 1,
                                          worker |-> w]}
                  ELSE hist.handed
  <2>1. /\ used.claims < MaxClaims
        /\ used' = [used EXCEPT !.claims = used.claims + 1]
        /\ hist' = [hist EXCEPT !.claimedAt = row.tepoch, !.handed = h]
        /\ row' = row
        /\ claim' = [worker |-> w, lapsed |-> FALSE,
                     epoch |-> claim.epoch + 1]
        /\ marks' \in {marks, marks \cup {row.tepoch}}
    BY <1>3 DEF ClaimExternalTasks, Answered
  <2>2. used' \in Usage
    BY <1>1, <2>1, UsageSteps
  <2>3. used'.claims = used.claims + 1 /\ used'.answers = used.answers
    BY <1>1, <2>1 DEF Usage
  <2> HIDE DEF h
  <2>4. /\ hist'.handed = h /\ hist'.claimedAt = row.tepoch
        /\ hist'.firm = hist.firm /\ hist'.spent = hist.spent
        /\ hist'.consumed = hist.consumed /\ hist'.ended = hist.ended
        /\ hist'.released = hist.released
        /\ hist'.marked = hist.marked /\ hist'.stray = hist.stray
    BY <1>1, <2>1 DEF Histories
  <2>5. hist' = [hist EXCEPT !.claimedAt = row.tepoch, !.handed = hist'.handed]
    BY <2>1, <2>4
  <2>6. hist'.handed = IF HandsOut(w)
                       THEN hist.handed \cup {[task |-> row.task,
                                               arm |-> row.tepoch,
                                               epoch |-> claim.epoch + 1,
                                               worker |-> w]}
                       ELSE hist.handed
    BY <2>4 DEF h
  <2>7. Claimable /\ UNCHANGED <<lease, signals, adv>>
    BY DEF ClaimExternalTasks
  <2> QED
    BY <1>3, <2>1, <2>2, <2>3, <2>4, <2>5, <2>6, <2>7
<1> QED  BY <1>2, <1>3

(* MarkExternalClaimLost: the mark, the deadline and the end of the claim, *)
(* or nothing when the row moved on.                                       *)
LEMMA MarkEffect ==
    ASSUME TypeOK, NEW n \in marks, MarkExternalClaimLost(n)
    PROVE  /\ marks' = marks \ {n}
           /\ UNCHANGED <<lease, signals, adv, used>>
           /\ \/ /\ row.tepoch = n /\ row.phase = "external"
                 /\ row' \in Cols
                 /\ row'.status = row.status /\ row'.task = row.task
                 /\ row'.tepoch = row.tepoch /\ row'.phase = row.phase
                 /\ row'.lost = TRUE /\ row'.wake = "due"
                 /\ claim' = [worker |-> NoWorker, lapsed |-> FALSE,
                              epoch |-> claim.epoch + 1]
                 /\ hist' \in Histories
                 /\ hist'.marked = hist.marked \cup {n}
                 /\ hist'.firm = hist.firm /\ hist'.spent = hist.spent
                 /\ hist'.consumed = hist.consumed /\ hist'.ended = hist.ended
                 /\ hist'.handed = hist.handed
                 /\ hist'.released = hist.released
                 /\ hist'.claimedAt = hist.claimedAt
                 /\ hist'.stray = hist.stray
              \/ UNCHANGED <<row, claim, hist>>
<1>1. row \in Cols /\ hist \in Histories /\ n \in Epochs /\ claim \in Claims
  BY DEF TypeOK
<1>2. marks' = marks \ {n} /\ UNCHANGED <<lease, signals, adv, used>>
  BY DEF MarkExternalClaimLost
<1>3. CASE UNCHANGED <<row, claim, hist>>
  BY <1>2, <1>3
<1>4. CASE /\ row.tepoch = n /\ row.phase = "external"
           /\ row' = [row EXCEPT !.lost = TRUE, !.wake = "due"]
           /\ claim' = [Unclaimed(claim) EXCEPT !.epoch = @ + 1]
           /\ hist' = [hist EXCEPT !.marked = @ \cup {n}]
  <2>1. /\ row' \in Cols
        /\ row'.status = row.status /\ row'.task = row.task
        /\ row'.tepoch = row.tepoch /\ row'.phase = row.phase
        /\ row'.lost = TRUE /\ row'.wake = "due"
    BY <1>1, <1>4 DEF Cols
  <2>2. claim' = [worker |-> NoWorker, lapsed |-> FALSE,
                  epoch |-> claim.epoch + 1]
    BY <1>1, <1>4 DEF Unclaimed, Claims
  <2> DEFINE m == hist.marked \cup {n}
  <2>3. m \in SUBSET Epochs /\ hist' = [hist EXCEPT !.marked = m]
    BY <1>1, <1>4 DEF Histories
  <2> HIDE DEF m
  <2>4. /\ hist' \in Histories /\ hist'.marked = m
        /\ hist'.firm = hist.firm /\ hist'.spent = hist.spent
        /\ hist'.consumed = hist.consumed /\ hist'.ended = hist.ended
        /\ hist'.handed = hist.handed /\ hist'.released = hist.released
        /\ hist'.claimedAt = hist.claimedAt /\ hist'.stray = hist.stray
    BY <1>1, <2>3 DEF Histories
  <2> QED  BY <1>2, <1>4, <2>1, <2>2, <2>4 DEF m
<1> QED  BY <1>3, <1>4 DEF MarkExternalClaimLost

(* ReleaseExternalClaim ends the grant and moves the epoch on.             *)
LEMMA ReleaseEffect ==
    ASSUME TypeOK, NEW token \in hist.handed, ReleaseExternalClaim(token)
    PROVE  /\ Bound(token) /\ row.phase = "external" /\ claim.worker # NoWorker
           /\ row' \in Cols /\ SameArming
           /\ \/ row' = row
              \/ row'.phase = "" /\ row'.wake = "none" /\ Answered
           /\ claim' = [worker |-> NoWorker, lapsed |-> FALSE,
                        epoch |-> claim.epoch + 1]
           /\ hist' \in Histories
           /\ hist'.released = hist.released \cup {token}
           /\ hist'.firm = hist.firm /\ hist'.spent = hist.spent
           /\ hist'.consumed = hist.consumed /\ hist'.ended = hist.ended
           /\ hist'.handed = hist.handed /\ hist'.marked = hist.marked
           /\ hist'.claimedAt = hist.claimedAt /\ hist'.stray = hist.stray
           /\ UNCHANGED <<lease, signals, adv, marks, used>>
<1>1. row \in Cols /\ hist \in Histories /\ claim \in Claims
  BY DEF TypeOK
<1>2. row' \in Cols /\ SameArming
        /\ \/ row' = row
           \/ row'.phase = "" /\ row'.wake = "none" /\ Answered
  <2>1. CASE row' = row
    BY <1>1, <2>1 DEF SameArming
  <2>2. CASE row' = UnparkExternal(row) /\ Answered
    BY <1>1, <2>2, UnparkType DEF SameArming
  <2> QED  BY <2>1, <2>2 DEF ReleaseExternalClaim, Answered
<1>3. claim' = [worker |-> NoWorker, lapsed |-> FALSE,
                epoch |-> claim.epoch + 1]
  BY <1>1 DEF ReleaseExternalClaim, ReleasedClaim, Unclaimed, Claims
<1> DEFINE r == hist.released \cup {token}
<1>4. r \in SUBSET Tokens /\ hist' = [hist EXCEPT !.released = r]
  BY <1>1 DEF Histories, ReleaseExternalClaim
<1> HIDE DEF r
<1>5. /\ hist' \in Histories /\ hist'.released = r
      /\ hist'.firm = hist.firm /\ hist'.spent = hist.spent
      /\ hist'.consumed = hist.consumed /\ hist'.ended = hist.ended
      /\ hist'.handed = hist.handed /\ hist'.marked = hist.marked
      /\ hist'.claimedAt = hist.claimedAt /\ hist'.stray = hist.stray
  BY <1>1, <1>4 DEF Histories
<1>6. /\ Bound(token) /\ row.phase = "external" /\ claim.worker # NoWorker
      /\ UNCHANGED <<lease, signals, adv, marks, used>>
  BY DEF ReleaseExternalClaim
<1> QED  BY <1>2, <1>3, <1>5, <1>6 DEF r

(* ClaimInstances: the advance reads the row as it is.                     *)
LEMMA ClaimEffect ==
    ASSUME TypeOK, ClaimInstances
    PROVE  /\ lease # "live" /\ lease' = "live"
           /\ row.status \in {"running", "pausing", "cancelling"}
           /\ adv'.kind = "claimed" /\ adv'.cols = row /\ adv'.consumed = 0
           /\ adv'.ends = "" /\ (adv'.reclaimed <=> lease = "lapsed")
           /\ adv' \in Advances
           /\ UNCHANGED <<row, claim, signals, marks, hist, used>>
<1>1. row \in Cols /\ 0 \in 0..MaxAnswers
  BY ExternalAssumption DEF TypeOK, ExternalAssumption
<1>2. adv' = [kind |-> "claimed", reclaimed |-> (lease = "lapsed"),
              cols |-> row, consumed |-> 0, ends |-> ""]
  BY DEF ClaimInstances, NoAdvance
<1>3. adv' \in Advances
  BY <1>1, <1>2 DEF Advances, Ends
<1>4. /\ adv'.kind = "claimed" /\ adv'.cols = row /\ adv'.consumed = 0
      /\ adv'.ends = "" 
  BY <1>2
<1>5. adv'.reclaimed <=> lease = "lapsed"
  BY <1>2
<1> QED  BY <1>2, <1>3, <1>4, <1>5 DEF ClaimInstances

(* A verb writes the status and nothing else.                              *)
VerbMoves ==
    \/ /\ row.status = "running"
       /\ row'.status \in IF lease = "none" THEN {"paused", "cancelled"}
                          ELSE {"pausing", "cancelling"}
    \/ /\ row.status = "paused"
       /\ row'.status = "running"
    \/ /\ row.status = "paused"
       /\ row'.status = IF lease = "none" THEN "cancelled" ELSE "cancelling"

(* The verbs write the status.                                             *)
LEMMA VerbEffect ==
    ASSUME TypeOK, PauseProcess \/ CancelProcess \/ ResumeProcess
    PROVE  /\ row' \in Cols
           /\ VerbMoves
           /\ row'.task = row.task /\ row'.tepoch = row.tepoch
           /\ row'.phase = row.phase /\ row'.wake = row.wake
           /\ row'.lost = row.lost
           /\ used' \in Usage /\ used'.claims = used.claims
           /\ used'.answers = used.answers
           /\ UNCHANGED <<lease, claim, signals, adv, marks, hist>>
<1>1. row \in Cols /\ used \in Usage
  BY DEF TypeOK
<1>2. /\ used.verbs < MaxVerbs
      /\ used' = [used EXCEPT !.verbs = used.verbs + 1]
      /\ UNCHANGED <<lease, claim, signals, adv, marks, hist>>
  BY DEF PauseProcess, CancelProcess, ResumeProcess, Verb
<1>3. used' \in Usage
  BY <1>1, <1>2, UsageSteps
<1>4. used'.claims = used.claims /\ used'.answers = used.answers
  BY <1>1, <1>2 DEF Usage
<1>5. \E st \in Status :
        /\ row' = [row EXCEPT !.status = st]
        /\ \/ /\ row.status = "running"
              /\ st \in IF lease = "none" THEN {"paused", "cancelled"}
                        ELSE {"pausing", "cancelling"}
           \/ /\ row.status = "paused" /\ st = "running"
           \/ /\ row.status = "paused"
              /\ st = IF lease = "none" THEN "cancelled" ELSE "cancelling"
  BY DEF PauseProcess, CancelProcess, ResumeProcess, Stop, Status
<1>6. /\ row' \in Cols /\ VerbMoves
      /\ row'.task = row.task /\ row'.tepoch = row.tepoch
      /\ row'.phase = row.phase /\ row'.wake = row.wake
      /\ row'.lost = row.lost
  BY <1>1, <1>5 DEF Cols, VerbMoves
<1> QED  BY <1>2, <1>3, <1>4, <1>6

(* A deadline only makes the timer due.                                    *)
LEMMA DeadlineEffect ==
    ASSUME TypeOK, DeadlinePasses
    PROVE  /\ row' \in Cols /\ SameArming /\ row'.phase = row.phase
           /\ row.wake = "future" /\ row'.wake = "due"
           /\ UNCHANGED <<lease, claim, signals, adv, marks, hist, used>>
BY DEF TypeOK, DeadlinePasses, Cols, SameArming

-----------------------------------------------------------------------------
(* The disjuncts of Next, for the proofs below.                            *)

(* The step, by the parts of the state it touches.                         *)
LEMMA NextCases ==
    ASSUME [Next]_vars
    PROVE  \/ ClaimInstances \/ advance \/ persist \/ LeaseLapses
           \/ DeadlinePasses
           \/ \E by \in SUBSET hist.handed :
                Resolve(by) /\ \A token \in by : Bound(token)
           \/ \E t \in ExternalTasks : DeliverSignal(t)
           \/ \E w \in Workers : ClaimExternalTasks(w)
           \/ \E token \in hist.handed : RenewExternalClaims(token)
           \/ \E token \in hist.handed : ReleaseExternalClaim(token)
           \/ \E n \in marks : MarkExternalClaimLost(n)
           \/ ClaimLapses
           \/ (PauseProcess \/ CancelProcess \/ ResumeProcess)
           \/ UNCHANGED vars
<1>1. ASSUME ResolveUnclaimed
      PROVE  \E by \in SUBSET hist.handed :
               Resolve(by) /\ \A token \in by : Bound(token)
  BY <1>1 DEF ResolveUnclaimed
<1>2. ASSUME NEW token \in hist.handed, ResolveClaimed(token)
      PROVE  \E by \in SUBSET hist.handed :
               Resolve(by) /\ \A t \in by : Bound(t)
  BY <1>2 DEF ResolveClaimed
<1> QED  BY <1>1, <1>2 DEF Next, Engine

(* The pending marks are finitely many, so they can be counted.            *)
LEMMA MarksFinite ==
    ASSUME TypeOK
    PROVE  /\ IsFiniteSet(marks) /\ Cardinality(marks) \in Nat
           /\ \A n : /\ IsFiniteSet(marks \cup {n})
                     /\ Cardinality(marks \cup {n}) \in Nat
                     /\ Cardinality(marks \cup {n}) <= Cardinality(marks) + 1
           /\ \A n \in marks : Cardinality(marks \ {n}) = Cardinality(marks) - 1
<1>1. IsFiniteSet(Epochs)
  BY FS_Interval, ExternalAssumption DEF Epochs, ExternalAssumption
<1>2. IsFiniteSet(marks)
  BY <1>1, FS_Subset DEF TypeOK
<1>3. Cardinality(marks) \in Nat
  BY <1>2, FS_CardinalityType
<1>4. ASSUME NEW n
      PROVE  /\ IsFiniteSet(marks \cup {n})
             /\ Cardinality(marks \cup {n}) \in Nat
             /\ Cardinality(marks \cup {n}) <= Cardinality(marks) + 1
  <2>1. /\ IsFiniteSet(marks \cup {n})
        /\ Cardinality(marks \cup {n})
             = IF n \in marks THEN Cardinality(marks) ELSE Cardinality(marks) + 1
    BY <1>2, FS_AddElement
  <2> QED  BY <1>3, <2>1
<1>5. ASSUME NEW n \in marks
      PROVE  Cardinality(marks \ {n}) = Cardinality(marks) - 1
  BY <1>2, FS_RemoveElement
<1> QED  BY <1>2, <1>3, <1>4, <1>5

(* The claim columns after a step: no epoch is given out that the bound on *)
(* grants does not cover.                                                  *)
LEMMA ClaimColumnsNext ==
    ASSUME ShapeInv, [Next]_vars
    PROVE  claim' \in Claims /\ ClaimCount'
<1> USE ExternalAssumption DEF ExternalAssumption
<1>0. /\ TypeOK /\ claim \in Claims /\ used \in Usage /\ ClaimCount
      /\ claim.epoch \in Nat /\ claim.worker \in Workers \cup {NoWorker}
      /\ claim.lapsed \in BOOLEAN
      /\ used.claims \in Nat /\ Cardinality(marks) \in Nat
  <2>1. TypeOK /\ claim \in Claims /\ used \in Usage /\ ClaimCount
    BY DEF ShapeInv, TypeOK
  <2>2. /\ claim.epoch \in Nat /\ claim.worker \in Workers \cup {NoWorker}
        /\ claim.lapsed \in BOOLEAN
    BY <2>1 DEF Claims
  <2> QED  BY <2>1, <2>2, MarksFinite, UsageSteps
<1>1. ASSUME claim' = claim, marks' = marks, used'.claims = used.claims
      PROVE  claim' \in Claims /\ ClaimCount'
  BY <1>0, <1>1 DEF ClaimCount
<1>2. ASSUME NEW e \in BOOLEAN, claim' = [claim EXCEPT !.lapsed = e],
             marks' = marks, used' = used
      PROVE  claim' \in Claims /\ ClaimCount'
  <2>1. /\ claim' \in Claims /\ claim'.epoch = claim.epoch
        /\ claim'.worker = claim.worker
    BY <1>0, <1>2 DEF Claims
  <2> QED  BY <1>0, <1>2, <2>1 DEF ClaimCount
<1>3. CASE persist
  <2>1. /\ claim' = IF adv.cols.tepoch = row.tepoch THEN claim
                    ELSE Unclaimed(claim)
        /\ marks' = marks /\ used' = used
    BY <1>0, <1>3, PersistWrites
  <2>2. CASE claim' = claim
    BY <1>1, <2>1, <2>2
  <2>3. CASE claim' = Unclaimed(claim)
    <3>1. /\ claim' \in Claims /\ claim'.epoch = claim.epoch
          /\ claim'.worker = NoWorker
      BY <1>0, <2>3 DEF Unclaimed, Claims
    <3> QED  BY <1>0, <2>1, <3>1 DEF ClaimCount
  <2> QED  BY <2>1, <2>2, <2>3
<1>4. CASE \E w \in Workers : ClaimExternalTasks(w)
  <2>1. PICK w \in Workers : ClaimExternalTasks(w)
    BY <1>4
  <2>2. CASE UNCHANGED <<claim, marks, hist, used>>
    BY <1>1, <2>2
  <2>3. CASE /\ used' \in Usage /\ used'.claims = used.claims + 1
             /\ claim' = [worker |-> w, lapsed |-> FALSE,
                          epoch |-> claim.epoch + 1]
             /\ marks' \in {marks, marks \cup {row.tepoch}}
    <3>1. Cardinality(marks') \in Nat
            /\ Cardinality(marks') <= Cardinality(marks) + 1
      <4>1. CASE marks' = marks
        BY <1>0, <4>1
      <4>2. CASE marks' = marks \cup {row.tepoch}
        BY <1>0, <4>2, MarksFinite
      <4> QED  BY <2>3, <4>1, <4>2
    <3>2. claim'.epoch = claim.epoch + 1 /\ claim'.worker = w /\ w # NoWorker
            /\ claim'.lapsed = FALSE
      BY <2>3
    <3>3. /\ claim.epoch + Cardinality(marks) <= 3 * used.claims
      BY <1>0 DEF ClaimCount
    <3>4. claim'.epoch + Cardinality(marks') + 1 <= 3 * used'.claims
      BY <1>0, <2>3, <3>1, <3>2, <3>3
    <3>5. ClaimCount'
      BY <3>2, <3>4 DEF ClaimCount
    <3>6. claim' \in Claims
      <4>1. claim'.epoch \in Nat /\ Cardinality(marks') + 1 \in Nat
              /\ claim'.epoch + (Cardinality(marks') + 1) <= 3 * used'.claims
        BY <1>0, <3>1, <3>2, <3>4, <2>3, UsageSteps
      <4> QED  BY <2>3, <3>2, <4>1, ClaimCountBound
    <3> QED  BY <3>5, <3>6
  <2> QED  BY <1>0, <2>1, <2>2, <2>3, GrantEffect
<1>5. CASE \E n \in marks : MarkExternalClaimLost(n)
  <2>1. PICK n \in marks : MarkExternalClaimLost(n)
    BY <1>5
  <2>2. /\ marks' = marks \ {n} /\ used' = used
        /\ Cardinality(marks') = Cardinality(marks) - 1
        /\ Cardinality(marks') \in Nat
    <3>1. marks' = marks \ {n} /\ used' = used
      BY <1>0, <2>1, MarkEffect
    <3>2. IsFiniteSet(marks')
      BY <1>0, <3>1, MarksFinite, FS_Subset
    <3> QED  BY <1>0, <3>1, <3>2, MarksFinite, FS_CardinalityType
  <2>3. CASE claim' = claim
    BY <1>0, <2>2, <2>3 DEF ClaimCount
  <2>4. CASE claim' = [worker |-> NoWorker, lapsed |-> FALSE,
                       epoch |-> claim.epoch + 1]
    <3>1. /\ claim'.epoch = claim.epoch + 1 /\ claim'.worker = NoWorker
          /\ claim'.lapsed = FALSE
      BY <2>4
    <3>2. claim.epoch + Cardinality(marks) <= 3 * used.claims
      BY <1>0 DEF ClaimCount
    <3>3. claim'.epoch + Cardinality(marks') <= 3 * used'.claims
            /\ claim'.epoch \in Nat
      BY <1>0, <2>2, <3>1, <3>2
    <3>4. ClaimCount'
      BY <2>2, <3>1, <3>3 DEF ClaimCount
    <3>5. claim' \in Claims
      BY <1>0, <2>2, <2>4, <3>1, <3>3, ClaimCountBound
    <3> QED  BY <3>4, <3>5
  <2> QED  BY <1>0, <2>1, <2>3, <2>4, MarkEffect
<1>6. CASE \E token \in hist.handed : ReleaseExternalClaim(token)
  <2>1. /\ claim.worker # NoWorker /\ marks' = marks /\ used' = used
        /\ claim' = [worker |-> NoWorker, lapsed |-> FALSE,
                     epoch |-> claim.epoch + 1]
    BY <1>0, <1>6, ReleaseEffect
  <2>2. /\ claim'.epoch = claim.epoch + 1 /\ claim'.worker = NoWorker
        /\ claim'.lapsed = FALSE
    BY <2>1
  <2>3. claim.epoch + Cardinality(marks) + 1 <= 3 * used.claims
    BY <1>0, <2>1 DEF ClaimCount
  <2>4. claim'.epoch + Cardinality(marks') <= 3 * used'.claims
          /\ claim'.epoch \in Nat
    BY <1>0, <2>1, <2>2, <2>3
  <2>5. ClaimCount'
    BY <2>2, <2>4, <1>0, <2>1 DEF ClaimCount
  <2>6. claim' \in Claims
    BY <1>0, <2>1, <2>2, <2>4, ClaimCountBound
  <2> QED  BY <2>5, <2>6
<1>7. CASE ClaimInstances
  BY <1>0, <1>1, <1>7, ClaimEffect
<1>8. CASE advance
  BY <1>1, <1>8 DEF advance
<1>9. CASE LeaseLapses
  <2>1. used'.claims = used.claims
    BY <1>0, <1>9 DEF LeaseLapses, Usage
  <2> QED  BY <1>1, <1>9, <2>1 DEF LeaseLapses
<1>10. CASE DeadlinePasses
  BY <1>1, <1>10 DEF DeadlinePasses
<1>11. CASE \E by \in SUBSET hist.handed : Resolve(by)
  BY <1>0, <1>1, <1>11, ResolveEffect DEF Buffered
<1>12. CASE \E t \in ExternalTasks : DeliverSignal(t)
  BY <1>0, <1>1, <1>12, DeliverEffect DEF Buffered
<1>13. CASE \E token \in hist.handed : RenewExternalClaims(token)
  BY <1>2, <1>13 DEF RenewExternalClaims
<1>14. CASE ClaimLapses
  BY <1>2, <1>14 DEF ClaimLapses
<1>15. CASE PauseProcess \/ CancelProcess \/ ResumeProcess
  BY <1>0, <1>1, <1>15, VerbEffect
<1>16. CASE UNCHANGED vars
  BY <1>1, <1>16 DEF vars
<1> QED
  BY NextCases, <1>3, <1>4, <1>5, <1>6, <1>7, <1>8, <1>9, <1>10, <1>11, <1>12,
     <1>13, <1>14, <1>15, <1>16

(* Every step keeps the shape.                                             *)
LEMMA ShapeNext ==
    ASSUME ShapeInv, [Next]_vars
    PROVE  ShapeInv'
<1> USE ExternalAssumption DEF ExternalAssumption
<1> DEFINE Rest ==
      /\ row \in Cols
      /\ lease \in {"none", "live", "lapsed"}
      /\ signals \subseteq Answers
      /\ adv \in Advances
      /\ marks \subseteq Epochs
      /\ hist \in Histories
      /\ hist.released \subseteq hist.handed /\ hist.spent \subseteq hist.handed
      /\ used \in Usage
      /\ row.status \in {"paused", "cancelled", "over"} =>
           lease = "none" /\ adv.kind = "none"
      /\ lease = "none" <=> adv.kind = "none"
<1>0. TypeOK /\ Rest /\ row.tepoch \in Epochs
  BY DEF ShapeInv, TypeOK, Cols
<1>1. claim' \in Claims /\ ClaimCount'
  BY ClaimColumnsNext
<1> SUFFICES Rest'
  BY <1>1 DEF ShapeInv, TypeOK
<1>3. CASE persist
  <2>1. SignalsAfter \subseteq Answers
    BY <1>0 DEF SignalsAfter
  <2>2. adv' = NoAdvance /\ lease' = "none" /\ adv'.kind = "none"
          /\ adv' \in Advances
    BY <1>0, <1>3, PersistWrites, FreshType
  <2>3. /\ row' \in Cols /\ signals' \subseteq Answers /\ marks' = marks
        /\ used' = used /\ hist' \in Histories
    BY <1>0, <1>3, <2>1, PersistWrites
  <2>4. hist'.handed = hist.handed /\ hist'.released = hist.released
          /\ hist'.spent = hist.spent
    BY <1>0, <1>3, PersistWrites
  <2> QED  BY <1>0, <2>2, <2>3, <2>4
<1>4. CASE \E w \in Workers : ClaimExternalTasks(w)
  <2>1. PICK w \in Workers : ClaimExternalTasks(w)
    BY <1>4
  <2>2. CASE /\ row' \in Cols /\ SameArming
             /\ UNCHANGED <<claim, marks, hist, used>>
    BY <1>0, <2>1, <2>2, GrantEffect DEF SameArming
  <2>3. CASE ~Answered
    <3>1. row.task \in ExternalTasks /\ claim.epoch + 1 \in 0..3 * MaxClaims
      <4>1. claim' = [worker |-> w, lapsed |-> FALSE, epoch |-> claim.epoch + 1]
        BY <1>0, <2>1, <2>3, GrantEffect
      <4> QED
        BY <1>0, <1>1, <2>1, <4>1, GrantEffect DEF Claimable, Claims
    <3>2. hist'.handed \in SUBSET Tokens /\ hist.handed \subseteq hist'.handed
      <4>1. [task |-> row.task, arm |-> row.tepoch, epoch |-> claim.epoch + 1,
             worker |-> w] \in Tokens
        BY <1>0, <3>1 DEF Tokens
      <4>2. hist.handed \in SUBSET Tokens
        BY <1>0 DEF Histories
      <4> QED  BY <1>0, <2>1, <2>3, <4>1, <4>2, GrantEffect
    <3>3. hist' = [hist EXCEPT !.claimedAt = row.tepoch,
                               !.handed = hist'.handed]
      BY <1>0, <2>1, <2>3, GrantEffect
    <3>4. hist' \in Histories
      BY <1>0, <3>2, <3>3 DEF Histories
    <3>5. hist'.released \subseteq hist'.handed
            /\ hist'.spent \subseteq hist'.handed
      BY <1>0, <2>1, <2>3, <3>2, GrantEffect
    <3>6. marks' \subseteq Epochs /\ used' \in Usage /\ row' = row
            /\ UNCHANGED <<lease, signals, adv>>
      BY <1>0, <2>1, <2>3, GrantEffect
    <3> QED  BY <1>0, <3>4, <3>5, <3>6
  <2> QED  BY <1>0, <2>1, <2>2, <2>3, GrantEffect
<1>5. CASE \E n \in marks : MarkExternalClaimLost(n)
  <2>1. PICK n \in marks : MarkExternalClaimLost(n)
    BY <1>5
  <2> QED  BY <1>0, <2>1, MarkEffect
<1>6. CASE \E token \in hist.handed : ReleaseExternalClaim(token)
  BY <1>0, <1>6, ReleaseEffect DEF SameArming
<1>7. CASE ClaimInstances
  BY <1>0, <1>7, ClaimEffect
<1>8. CASE advance
  <2>1. /\ adv' \in Advances /\ signals' = signals /\ adv'.kind # "none"
        /\ adv.kind = "claimed"
    BY <1>0, <1>8, AdvanceComputes
       DEF WritesInterrupted, WritesSettled, WritesOther, WritesAnswered,
           WritesExpired, ComputesArm, RefusesArm
  <2> QED  BY <1>0, <1>8, <2>1 DEF advance
<1>9. CASE LeaseLapses
  <2>1. used' \in Usage
    BY <1>0, <1>9, UsageSteps DEF LeaseLapses
  <2> QED  BY <1>0, <1>9, <2>1 DEF LeaseLapses
<1>10. CASE DeadlinePasses
  BY <1>0, <1>10, DeadlineEffect DEF SameArming
<1>11. CASE \E by \in SUBSET hist.handed : Resolve(by)
  <2>1. PICK by \in SUBSET hist.handed : Resolve(by)
    BY <1>11
  <2> QED  BY <1>0, <2>1, ResolveEffect DEF SameArming, Buffered
<1>12. CASE \E t \in ExternalTasks : DeliverSignal(t)
  <2>1. PICK t \in ExternalTasks : DeliverSignal(t)
    BY <1>12
  <2> QED  BY <1>0, <2>1, DeliverEffect DEF SameArming, Buffered
<1>13. CASE \E token \in hist.handed : RenewExternalClaims(token)
  BY <1>0, <1>13 DEF RenewExternalClaims
<1>14. CASE ClaimLapses
  BY <1>0, <1>14 DEF ClaimLapses
<1>15. CASE PauseProcess \/ CancelProcess \/ ResumeProcess
  BY <1>0, <1>15, VerbEffect DEF VerbMoves
<1>16. CASE UNCHANGED vars
  BY <1>0, <1>16 DEF vars
<1> QED
  BY NextCases, <1>3, <1>4, <1>5, <1>6, <1>7, <1>8, <1>9, <1>10, <1>11, <1>12,
     <1>13, <1>14, <1>15, <1>16

=============================================================================
