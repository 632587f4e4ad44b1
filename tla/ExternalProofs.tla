--------------------------- MODULE ExternalProofs ---------------------------
(***************************************************************************)
(* Proofs about External, for any tasks, workers and bounds: its types, an *)
(* accepted answer is used, once and in order; only_once work is handed    *)
(* out once; claims and lost marks stay with their arming; and an answer   *)
(* with a token comes from the holder.  The invariant and the effect of    *)
(* each step are in ExternalStepProofs.                                    *)
(***************************************************************************)
EXTENDS ExternalStepProofs

-----------------------------------------------------------------------------
(* The buffered answers.                                                   *)

(* A step that leaves buffer, history and advance alone keeps SignalsInv.  *)
LEMMA SignalsSame ==
    ASSUME SignalsInv, signals' = signals, row'.task = row.task,
           adv'.consumed = adv.consumed, hist'.consumed = hist.consumed,
           used'.answers = used.answers
    PROVE  SignalsInv'
BY DEF SignalsInv, PeekOldestSignal, BufferedFor, ConsumedOnceInOrder

(* So does one that appends an answer: it is younger than all others.      *)
LEMMA SignalsGrow ==
    ASSUME ShapeInv, SignalsInv, NEW t \in Tasks, Buffered(t),
           row'.task = row.task, adv'.consumed = adv.consumed,
           hist'.consumed = hist.consumed
    PROVE  SignalsInv'
<1> DEFINE s0 == [id |-> used.answers + 1, task |-> t]
<1>0. /\ signals \subseteq Answers /\ used \in Usage /\ used.answers \in Nat
      /\ hist.consumed \in Seq(Answers)
  <2>1. signals \subseteq Answers /\ used \in Usage /\ hist \in Histories
    BY DEF ShapeInv, TypeOK
  <2> QED  BY <2>1, UsageSteps DEF Histories
<1>1. signals' = signals \cup {s0} /\ used'.answers = used.answers + 1
  BY DEF Buffered
<1>2. s0.id = used.answers + 1 /\ s0.task = t
  OBVIOUS
<1> HIDE DEF s0
<1>3. \A s \in signals : s.id \in Nat /\ s.id <= used.answers
  BY <1>0 DEF SignalsInv, Answers
<1>4. \A s \in signals : s.id < s0.id
  BY <1>0, <1>2, <1>3
<1>5. \A s \in signals' : s.id <= used'.answers
  BY <1>0, <1>1, <1>2, <1>3
<1>6. \A s, u \in signals' : s.id = u.id => s = u
  <2>1. SUFFICES ASSUME NEW s \in signals', NEW u \in signals', s.id = u.id
                 PROVE  s = u
    OBVIOUS
  <2>2. CASE s \in signals /\ u \in signals
    BY <2>1, <2>2 DEF SignalsInv
  <2>3. CASE s = s0 /\ u \in signals
    BY <1>0, <1>2, <1>3, <2>1, <2>3
  <2>4. CASE u = s0 /\ s \in signals
    BY <1>0, <1>2, <1>3, <2>1, <2>4
  <2> QED  BY <1>1, <2>2, <2>3, <2>4
<1>7. ASSUME adv'.consumed # 0
      PROVE  \E s \in PeekOldestSignal(row.task)' : s.id = adv'.consumed
  <2>1. PICK s \in PeekOldestSignal(row.task) : s.id = adv.consumed
    BY <1>7 DEF SignalsInv
  <2>2. /\ s \in signals /\ s.task = row.task
        /\ \A u \in signals : u.task = row.task => s.id <= u.id
    BY <2>1 DEF PeekOldestSignal, BufferedFor
  <2>3. s.id <= s0.id
    BY <1>0, <1>2, <1>3, <2>2
  <2>4. /\ s \in signals' /\ s.task = row'.task
        /\ \A u \in signals' : u.task = row'.task => s.id <= u.id
    BY <1>1, <2>2, <2>3
  <2>5. s \in PeekOldestSignal(row.task)'
    BY <2>4 DEF PeekOldestSignal, BufferedFor
  <2> QED  BY <2>1, <2>5
<1>8. ConsumedOnceInOrder'
  <2>1. \A i \in 1..Len(hist.consumed) : hist.consumed[i].id <= used.answers
    BY DEF SignalsInv
  <2>2. \A i \in 1..Len(hist.consumed) : hist.consumed[i] \in Answers
    BY <1>0
  <2>3. \A i \in 1..Len(hist.consumed) : hist.consumed[i].id < s0.id
    BY <1>0, <1>2, <2>1, <2>2 DEF Answers
  <2>4. \A i \in 1..Len(hist.consumed) :
          /\ \A j \in i+1..Len(hist.consumed) :
               hist.consumed[j].task = hist.consumed[i].task
                 => hist.consumed[i].id < hist.consumed[j].id
          /\ \A u \in signals' :
               u.task = hist.consumed[i].task => hist.consumed[i].id < u.id
    BY <1>1, <2>3 DEF SignalsInv, ConsumedOnceInOrder, BufferedFor
  <2> QED
    BY <2>4 DEF ConsumedOnceInOrder, BufferedFor
<1>9. \A i \in 1..Len(hist'.consumed) : hist'.consumed[i].id <= used'.answers
  <2>1. \A i \in 1..Len(hist.consumed) :
          hist.consumed[i].id \in Nat /\ hist.consumed[i].id <= used.answers
    <3>1. \A i \in 1..Len(hist.consumed) : hist.consumed[i] \in Answers
      BY <1>0
    <3>2. \A a \in Answers : a.id \in Nat
      BY DEF Answers
    <3> QED  BY <3>1, <3>2 DEF SignalsInv
  <2> QED  BY <1>0, <1>1, <2>1
<1> QED  BY <1>5, <1>6, <1>7, <1>8, <1>9 DEF SignalsInv

(* The write that consumes an answer takes the oldest of its task.         *)
LEMMA SignalsConsumed ==
    ASSUME ShapeInv, SignalsInv, persist
    PROVE  SignalsInv'
<1>0. /\ TypeOK /\ signals \subseteq Answers /\ used' = used
      /\ hist.consumed \in Seq(Answers) /\ row.task \in Tasks
      /\ signals' = {s \in signals : s.id # adv.consumed}
      /\ adv'.consumed = 0
      /\ hist'.consumed =
           IF adv.consumed = 0 THEN hist.consumed
           ELSE Append(hist.consumed, [id |-> adv.consumed, task |-> row.task])
  <2>1. TypeOK /\ hist \in Histories /\ row \in Cols
    BY DEF ShapeInv, TypeOK
  <2>2. hist.consumed \in Seq(Answers) /\ row.task \in Tasks
    BY <2>1 DEF Histories, Cols
  <2> QED  BY <2>1, <2>2, PersistWrites, FreshType DEF TypeOK, SignalsAfter
<1>1. /\ \A s \in signals' : s.id <= used'.answers
      /\ \A s, u \in signals' : s.id = u.id => s = u
  BY <1>0 DEF SignalsInv
<1>2. CASE adv.consumed = 0
  BY <1>0, <1>1, <1>2 DEF SignalsInv, ConsumedOnceInOrder, BufferedFor
<1>3. CASE adv.consumed # 0
  <2> DEFINE co == hist.consumed
             n == Len(co)
             x == [id |-> adv.consumed, task |-> row.task]
  <2>1. PICK s0 \in PeekOldestSignal(row.task) : s0.id = adv.consumed
    BY <1>3 DEF SignalsInv
  <2>2. /\ s0 \in signals /\ s0.task = row.task
        /\ \A u \in signals : u.task = row.task => s0.id <= u.id
    BY <2>1 DEF PeekOldestSignal, BufferedFor
  <2>3. x.id = adv.consumed /\ x.task = row.task /\ s0 = x
    BY <1>0, <2>1, <2>2 DEF Answers
  <2> HIDE DEF x
  <2>4. /\ n \in Nat /\ Len(hist'.consumed) = n + 1
        /\ \A i \in 1..n : hist'.consumed[i] = co[i] /\ co[i] \in Answers
        /\ hist'.consumed[n + 1] = x
    BY <1>0, <1>3, <2>2, <2>3 DEF x
  <2>5. \A i \in 1..n : co[i].task = x.task => co[i].id < x.id
    BY <2>2, <2>3 DEF SignalsInv, ConsumedOnceInOrder, BufferedFor
  <2>6. \A u \in signals' : u.task = x.task => x.id < u.id
    <3>1. SUFFICES ASSUME NEW u \in signals', u.task = x.task
                   PROVE  x.id < u.id
      OBVIOUS
    <3>2. /\ u \in signals /\ u.id # x.id /\ x.id <= u.id
          /\ u.id \in Nat /\ x.id \in Nat
      BY <1>0, <2>1, <2>2, <2>3, <3>1 DEF Answers
    <3> QED  BY <3>2
  <2>7. \A i \in 1..n : \A u \in signals' : u.task = co[i].task => co[i].id < u.id
    BY <1>0 DEF SignalsInv, ConsumedOnceInOrder, BufferedFor
  <2>8. \A i \in 1..n : \A j \in i+1..n :
          co[j].task = co[i].task => co[i].id < co[j].id
    BY DEF SignalsInv, ConsumedOnceInOrder
  <2>9. ConsumedOnceInOrder'
    <3>1. SUFFICES ASSUME NEW i \in 1..n+1
                   PROVE  /\ \A j \in i+1..n+1 :
                               hist'.consumed[j].task = hist'.consumed[i].task
                                 => hist'.consumed[i].id < hist'.consumed[j].id
                          /\ \A u \in signals' :
                               u.task = hist'.consumed[i].task
                                 => hist'.consumed[i].id < u.id
      BY <2>4 DEF ConsumedOnceInOrder, BufferedFor
    <3>2. CASE i = n + 1
      BY <2>4, <2>6, <3>2
    <3>3. CASE i \in 1..n
      <4>1. ASSUME NEW j \in i+1..n+1,
                   hist'.consumed[j].task = hist'.consumed[i].task
            PROVE  hist'.consumed[i].id < hist'.consumed[j].id
        <5>0. hist'.consumed[i] = co[i]
          BY <2>4, <3>3
        <5>1. CASE j = n + 1
          BY <2>4, <2>5, <3>3, <4>1, <5>0, <5>1
        <5>2. CASE j \in i+1..n
          <6>1. j \in 1..n
            BY <2>4, <3>3, <5>2
          <6>2. hist'.consumed[j] = co[j]
            BY <2>4, <6>1
          <6>3. co[j].task = co[i].task => co[i].id < co[j].id
            BY <2>8, <3>3, <5>2
          <6> QED  BY <4>1, <5>0, <6>2, <6>3
        <5> QED  BY <2>4, <3>3, <5>1, <5>2
      <4> QED  BY <2>4, <2>7, <3>3, <4>1
    <3> QED  BY <2>4, <3>2, <3>3
  <2>10. \A i \in 1..Len(hist'.consumed) : hist'.consumed[i].id <= used'.answers
    <3>1. x.id <= used.answers
      BY <2>2, <2>3 DEF SignalsInv
    <3>2. \A i \in 1..n : co[i].id <= used.answers
      BY DEF SignalsInv
    <3> QED  BY <1>0, <2>4, <3>1, <3>2
  <2> QED  BY <1>0, <1>1, <2>9, <2>10 DEF SignalsInv
<1> QED  BY <1>2, <1>3

(* Every step keeps SignalsInv.                                            *)
LEMMA SignalsNext ==
    ASSUME ShapeInv, AdvanceInv, SignalsInv, [Next]_vars
    PROVE  SignalsInv'
<1>0. TypeOK /\ row \in Cols /\ row.task \in Tasks /\ used \in Usage
  BY DEF ShapeInv, TypeOK, Cols
<1>3. CASE persist
  BY <1>3, SignalsConsumed
<1>4. CASE \E w \in Workers : ClaimExternalTasks(w)
  BY <1>0, <1>4, GrantEffect, SignalsSame DEF SameArming
<1>5. CASE \E n \in marks : MarkExternalClaimLost(n)
  <2>1. PICK n \in marks : MarkExternalClaimLost(n)
    BY <1>5
  <2> QED  BY <1>0, <2>1, MarkEffect, SignalsSame
<1>6. CASE \E token \in hist.handed : ReleaseExternalClaim(token)
  BY <1>0, <1>6, ReleaseEffect, SignalsSame DEF SameArming
<1>7. CASE ClaimInstances
  <2>1. /\ adv'.consumed = 0
        /\ UNCHANGED <<row, claim, signals, marks, hist, used>>
    BY <1>0, <1>7, ClaimEffect
  <2> QED
    BY <2>1 DEF SignalsInv, PeekOldestSignal, BufferedFor, ConsumedOnceInOrder
<1>8. CASE advance
  <2>1. /\ adv.consumed = 0 /\ adv.cols.task = row.task
        /\ signals' = signals
        /\ UNCHANGED <<row, claim, marks, hist, used>>
        /\ \/ adv'.consumed = adv.consumed
           \/ \E s \in PeekOldestSignal(adv.cols.task) : adv'.consumed = s.id
    BY <1>0, <1>8, AdvanceComputes
       DEF AdvanceInv, advance, WritesInterrupted, WritesSettled, WritesOther,
           WritesAnswered, WritesExpired, ComputesArm, RefusesArm
  <2> QED
    BY <2>1 DEF SignalsInv, PeekOldestSignal, BufferedFor, ConsumedOnceInOrder
<1>9. CASE LeaseLapses
  <2>1. used'.answers = used.answers
    BY <1>0, <1>9 DEF LeaseLapses, Usage
  <2> QED  BY <1>9, <2>1, SignalsSame DEF LeaseLapses
<1>10. CASE DeadlinePasses
  BY <1>0, <1>10, DeadlineEffect, SignalsSame DEF SameArming
<1>11. CASE \E by \in SUBSET hist.handed : Resolve(by)
  BY <1>0, <1>11, ResolveEffect, SignalsGrow DEF SameArming
<1>12. CASE \E t \in ExternalTasks : DeliverSignal(t)
  BY <1>0, <1>12, DeliverEffect, SignalsGrow, ExternalAssumption
     DEF SameArming, ExternalAssumption
<1>13. CASE \E token \in hist.handed : RenewExternalClaims(token)
  BY <1>13, SignalsSame DEF RenewExternalClaims
<1>14. CASE ClaimLapses
  BY <1>14, SignalsSame DEF ClaimLapses
<1>15. CASE PauseProcess \/ CancelProcess \/ ResumeProcess
  BY <1>0, <1>15, VerbEffect, SignalsSame
<1>16. CASE UNCHANGED vars
  BY <1>16, SignalsSame DEF vars
<1> QED
  BY NextCases, <1>3, <1>4, <1>5, <1>6, <1>7, <1>8, <1>9, <1>10, <1>11, <1>12,
     <1>13, <1>14, <1>15, <1>16

-----------------------------------------------------------------------------
(* The advance in flight.                                                  *)

(* Only the write of an advance takes the row out of its arming or an      *)
(* answer out of the buffer.                                               *)
LEMMA Frame ==
    ASSUME ShapeInv, [Next]_vars, ~persist
    PROVE  /\ row'.task = row.task /\ row'.tepoch = row.tepoch
           /\ row.phase = "" => row'.phase = ""
           /\ row.status \in {"pausing", "cancelling"} => row'.status = row.status
           /\ Answered => Answered'
           /\ \/ hist'.handed = hist.handed
              \/ row.phase = "external" /\ row.status = "running" /\ adv' = adv
<1> DEFINE Kept ==
      /\ row'.task = row.task /\ row'.tepoch = row.tepoch
      /\ row.phase = "" => row'.phase = ""
      /\ row.status \in {"pausing", "cancelling"} => row'.status = row.status
      /\ signals \subseteq signals'
      /\ \/ hist'.handed = hist.handed
         \/ row.phase = "external" /\ row.status = "running" /\ adv' = adv
<1> SUFFICES Kept
  BY DEF Answered, BufferedFor
<1>0. TypeOK /\ row \in Cols
  BY DEF ShapeInv, TypeOK
<1>4. CASE \E w \in Workers : ClaimExternalTasks(w)
  <2>1. PICK w \in Workers : ClaimExternalTasks(w)
    BY <1>4
  <2>2. Claimable /\ UNCHANGED <<lease, signals, adv>>
    BY <1>0, <2>1, GrantEffect
  <2>3. CASE SameArming /\ row'.phase = "" /\ hist' = hist
    BY <2>2, <2>3 DEF SameArming
  <2>4. CASE row' = row
    BY <2>2, <2>4 DEF Claimable
  <2> QED  BY <1>0, <2>1, <2>3, <2>4, GrantEffect
<1>5. CASE \E n \in marks : MarkExternalClaimLost(n)
  <2>1. PICK n \in marks : MarkExternalClaimLost(n)
    BY <1>5
  <2> QED  BY <1>0, <2>1, MarkEffect
<1>6. CASE \E token \in hist.handed : ReleaseExternalClaim(token)
  BY <1>0, <1>6, ReleaseEffect DEF SameArming
<1>7. CASE ClaimInstances
  BY <1>0, <1>7, ClaimEffect
<1>8. CASE advance
  BY <1>0, <1>8, AdvanceComputes DEF advance
<1>9. CASE LeaseLapses
  BY <1>9 DEF LeaseLapses
<1>10. CASE DeadlinePasses
  BY <1>0, <1>10, DeadlineEffect DEF SameArming
<1>11. CASE \E by \in SUBSET hist.handed : Resolve(by)
  BY <1>0, <1>11, ResolveEffect DEF SameArming, Buffered
<1>12. CASE \E t \in ExternalTasks : DeliverSignal(t)
  BY <1>0, <1>12, DeliverEffect DEF SameArming, Buffered
<1>13. CASE \E token \in hist.handed : RenewExternalClaims(token)
  BY <1>13 DEF RenewExternalClaims
<1>14. CASE ClaimLapses
  BY <1>14 DEF ClaimLapses
<1>15. CASE PauseProcess \/ CancelProcess \/ ResumeProcess
  BY <1>0, <1>15, VerbEffect DEF VerbMoves
<1>16. CASE UNCHANGED vars
  BY <1>16 DEF vars
<1> QED
  BY NextCases, <1>4, <1>5, <1>6, <1>7, <1>8, <1>9, <1>10, <1>11, <1>12,
     <1>13, <1>14, <1>15, <1>16

(* A step other than the write that leaves the advance alone keeps         *)
(* AdvanceInv.                                                             *)
LEMMA AdvanceKept ==
    ASSUME ShapeInv, AdvanceInv, [Next]_vars, ~persist, adv' = adv
    PROVE  AdvanceInv'
<1>1. /\ row'.task = row.task /\ row'.tepoch = row.tepoch
      /\ row.phase = "" => row'.phase = ""
      /\ row.status \in {"pausing", "cancelling"} => row'.status = row.status
      /\ Answered => Answered'
      /\ TokensNow' = TokensNow
           \/ (row.phase = "external" /\ row.status = "running")
  BY Frame DEF TokensNow
<1> QED  BY <1>1 DEF AdvanceInv, Draining

(* Every step keeps AdvanceInv.                                            *)
LEMMA AdvanceNext ==
    ASSUME ShapeInv, AdvanceInv, ClaimsInv, [Next]_vars
    PROVE  AdvanceInv'
<1>0. /\ TypeOK /\ row \in Cols /\ adv \in Advances /\ adv.cols \in Cols
      /\ row.tepoch \in Nat
  <2>1. TypeOK /\ row \in Cols /\ adv \in Advances
    BY DEF ShapeInv, TypeOK
  <2>2. adv.cols \in Cols
    BY <2>1 DEF Advances
  <2>3. row.tepoch \in Nat
    <3>1. row.tepoch \in Epochs
      BY <2>1 DEF Cols
    <3> QED  BY <3>1, ExternalAssumption DEF Epochs, ExternalAssumption
  <2> QED  BY <2>1, <2>2, <2>3
<1>1. CASE persist
  <2>1. adv'.kind = "none" /\ adv'.ends = "" /\ adv'.consumed = 0
    BY <1>0, <1>1, PersistWrites, FreshType
  <2> QED  BY <2>1 DEF AdvanceInv, Draining
<1>2. CASE ClaimInstances
  <2>1. /\ adv'.kind = "claimed" /\ adv'.cols = row /\ adv'.consumed = 0
        /\ adv'.ends = "" /\ (adv'.reclaimed <=> lease = "lapsed")
        /\ row.status \in {"running", "pausing", "cancelling"}
        /\ lease \in {"none", "lapsed"}
        /\ UNCHANGED <<row, claim, signals, marks, hist, used>>
    <3>1. lease \in {"none", "live", "lapsed"}
      BY <1>0 DEF TypeOK
    <3> QED  BY <1>0, <1>2, <3>1, ClaimEffect
  <2>2. TokensNow' = TokensNow /\ Answered' = Answered
    BY <2>1 DEF TokensNow, Answered, BufferedFor
  <2>3. row.phase = "" => TokensNow = {} \/ Answered
    BY <2>1 DEF ClaimsInv, Settled
  <2>4. row.status = "pausing" /\ ~adv'.reclaimed =>
          row.task \notin OnceTasks \/ TokensNow = {} \/ Answered
            \/ row.wake = "due"
    BY <2>1 DEF ClaimsInv
  <2> QED  BY <2>1, <2>2, <2>3, <2>4 DEF AdvanceInv, Draining
<1>3. CASE advance
  <2>1. /\ adv.kind = "claimed" /\ adv.ends = "" /\ adv.consumed = 0
        /\ adv.cols.task = row.task /\ adv.cols.tepoch = row.tepoch
        /\ adv.cols.phase \in {"", "external"}
        /\ adv' \in Advances /\ adv'.reclaimed = adv.reclaimed
        /\ signals' = signals
        /\ UNCHANGED <<row, lease, claim, marks, hist, used>>
    BY <1>0, <1>3, AdvanceComputes DEF AdvanceInv, advance, Cols
  <2>2. TokensNow' = TokensNow /\ Answered' = Answered
    BY <2>1 DEF TokensNow, Answered, BufferedFor
  <2>3. ASSUME NEW c \in Cols, c.tepoch = row.tepoch, c.task = row.task,
               c.status = "running", Leaves(c, adv'.cols),
               adv'.kind = "write"
        PROVE  AdvanceInv'
    <3>1. /\ adv'.cols.status \in {"running", "over"}
          /\ \/ adv'.cols.tepoch = row.tepoch + 1
                  /\ adv'.cols.status = "running"
             \/ adv'.cols.tepoch = row.tepoch /\ adv'.cols.task = row.task
                  /\ adv'.cols.status = "over"
      BY <2>3 DEF Leaves
    <3>2. row.tepoch + 1 # row.tepoch
      BY <1>0
    <3> QED  BY <2>1, <2>3, <3>1, <3>2 DEF AdvanceInv, Draining
  <2>4. CASE WritesInterrupted
    <3> DEFINE r == [adv.cols EXCEPT !.status = "running"]
    <3>1. /\ r \in Cols /\ r.tepoch = adv.cols.tepoch
          /\ r.task = adv.cols.task /\ r.status = "running"
      BY <1>0 DEF Cols, Status
    <3>2. Leaves(r, adv'.cols) /\ adv'.kind = "write"
      BY <2>4 DEF WritesInterrupted
    <3> HIDE DEF r
    <3> QED  BY <2>1, <2>3, <3>1, <3>2
  <2>5. CASE WritesOther
    BY <1>0, <2>1, <2>3, <2>5 DEF WritesOther
  <2>6. CASE WritesAnswered
    <3>1. /\ clearExternalPark(adv.cols) \in Cols
          /\ clearExternalPark(adv.cols).tepoch = row.tepoch
          /\ clearExternalPark(adv.cols).task = row.task
          /\ clearExternalPark(adv.cols).status = "running"
      BY <1>0, <2>1, <2>6, ClearParkType DEF WritesAnswered
    <3>2. Leaves(clearExternalPark(adv.cols), adv'.cols) /\ adv'.kind = "write"
      BY <2>6 DEF WritesAnswered
    <3> QED  BY <2>3, <3>1, <3>2
  <2>7. CASE WritesExpired
    <3>1. /\ clearExternalPark(adv.cols) \in Cols
          /\ clearExternalPark(adv.cols).tepoch = row.tepoch
          /\ clearExternalPark(adv.cols).task = row.task
          /\ clearExternalPark(adv.cols).status = "running"
      BY <1>0, <2>1, <2>7, ClearParkType DEF WritesExpired
    <3>2. Leaves(clearExternalPark(adv.cols), adv'.cols) /\ adv'.kind = "write"
      BY <2>7 DEF WritesExpired
    <3> QED  BY <2>3, <3>1, <3>2
  <2>8. CASE WritesSettled
    <3>1. /\ adv'.kind = "write" /\ adv'.ends = "" /\ adv'.consumed = 0
          /\ adv'.cols.task = row.task /\ adv'.cols.tepoch = row.tepoch
          /\ adv'.cols.phase = adv.cols.phase
          /\ adv'.cols.wake = adv.cols.wake
          /\ \/ adv.cols.status = "cancelling" /\ adv'.cols.status = "cancelled"
             \/ /\ adv.cols.status = "pausing" /\ adv'.cols.status = "paused"
                /\ ~(adv.reclaimed /\ adv.cols.task \in OnceTasks)
      BY <1>0, <2>1, <2>8 DEF WritesSettled, Cols
    <3> QED  BY <2>1, <2>2, <3>1 DEF AdvanceInv, Draining
  <2>9. CASE ComputesArm
    <3>1. /\ adv'.kind = "arm" /\ adv'.ends = "" /\ adv'.consumed = 0
          /\ adv'.cols.task = row.task /\ adv'.cols.tepoch = row.tepoch
          /\ adv'.cols.status = "running" /\ row.task \in ExternalTasks
          /\ ~Answered /\ adv.cols.phase = ""
      BY <1>0, <2>1, <2>9 DEF ComputesArm, Cols, Answered
    <3>2. TokensNow = {} /\ row.phase = ""
      BY <2>1, <3>1 DEF AdvanceInv, Draining
    <3> QED  BY <2>1, <2>2, <3>1, <3>2 DEF AdvanceInv, Draining
  <2>10. CASE RefusesArm
    BY <1>0, <2>1, <2>3, <2>10 DEF RefusesArm
  <2> QED
    BY <1>0, <1>3, <2>4, <2>5, <2>6, <2>7, <2>8, <2>9, <2>10, AdvanceComputes
<1>4. CASE adv' = adv /\ ~persist
  BY <1>4, AdvanceKept
<1>5. persist \/ ClaimInstances \/ advance \/ adv' = adv
  <2>1. \A w \in Workers : ClaimExternalTasks(w) => adv' = adv
    BY <1>0, GrantEffect
  <2> QED
    BY <2>1, NextCases
       DEF LeaseLapses, DeadlinePasses, Resolve, DeliverSignal,
           RenewExternalClaims, ReleaseExternalClaim, MarkExternalClaimLost,
           ClaimLapses, PauseProcess, CancelProcess, ResumeProcess, Verb, vars
<1> QED  BY <1>1, <1>2, <1>3, <1>4, <1>5

-----------------------------------------------------------------------------
(* The claims of external workers.                                         *)

(* A step that changes no claim, token or arming keeps ClaimsInv.          *)
LEMMA ClaimsKept ==
    ASSUME ClaimsInv, claim'.epoch = claim.epoch, claim'.worker = claim.worker,
           hist'.handed = hist.handed, hist'.released = hist.released,
           hist'.claimedAt = hist.claimedAt,
           row'.task = row.task, row'.tepoch = row.tepoch,
           Answered => Answered',
           row.wake = "due" => row'.wake = "due" \/ Answered',
           row'.phase = "" => row.phase = "" \/ Answered',
           row'.status \notin Settled => row.status \notin Settled,
           row'.status = "pausing" /\ lease' = "none"
             => row.status = "pausing" /\ lease = "none"
    PROVE  ClaimsInv'
<1>1. TokensNow' = TokensNow /\ HeldNow' = HeldNow
  BY DEF TokensNow, HeldNow
<1> QED  BY <1>1 DEF ClaimsInv, ClaimOfThisArming, HandedOnce

(* The write of an advance drops the claim with its arming.                *)
LEMMA ClaimsPersist ==
    ASSUME ShapeInv, AdvanceInv, ClaimsInv, persist
    PROVE  ClaimsInv'
<1>0. /\ TypeOK /\ row.tepoch \in Nat /\ claim \in Claims
      /\ signals \subseteq Answers /\ hist \in Histories
      /\ hist.handed \subseteq Tokens
      /\ \A t \in Tokens : t.arm \in Nat
  <2>1. /\ TypeOK /\ row \in Cols /\ claim \in Claims
        /\ signals \subseteq Answers /\ hist \in Histories
    BY DEF ShapeInv, TypeOK
  <2>2. \A n \in Epochs : n \in Nat
    BY ExternalAssumption DEF Epochs, ExternalAssumption
  <2>3. row.tepoch \in Epochs /\ \A t \in Tokens : t.arm \in Epochs
    BY <2>1 DEF Cols, Tokens
  <2>4. hist.handed \subseteq Tokens
    BY <2>1 DEF Histories
  <2> QED  BY <2>1, <2>2, <2>3, <2>4
<1>1. /\ adv.kind \in {"arm", "write"} /\ lease' = "none"
      /\ signals' = SignalsAfter
      /\ row'.task = adv.cols.task /\ row'.tepoch = adv.cols.tepoch
      /\ row'.status = IF adv.cols.status = "running" THEN row.status
                       ELSE adv.cols.status
      /\ \/ /\ row'.phase = adv.cols.phase /\ row'.wake = adv.cols.wake
         \/ adv.kind = "arm"
      /\ hist'.handed = hist.handed /\ hist'.released = hist.released
      /\ hist'.claimedAt = hist.claimedAt
  BY <1>0, PersistWrites
<1>2. /\ claim'.epoch = claim.epoch
      /\ claim'.worker \in {claim.worker, NoWorker}
      /\ claim'.worker # NoWorker => adv.cols.tepoch = row.tepoch
  <2>1. claim' = IF adv.cols.tepoch = row.tepoch THEN claim
                 ELSE Unclaimed(claim)
    BY <1>0, PersistWrites
  <2>2. /\ Unclaimed(claim).epoch = claim.epoch
        /\ Unclaimed(claim).worker = NoWorker
    BY <1>0 DEF Unclaimed, Claims
  <2> QED  BY <2>1, <2>2
<1>3. CASE adv.cols.tepoch # row.tepoch
  <2>1. row'.tepoch = row.tepoch + 1
    BY <1>1, <1>3 DEF AdvanceInv
  <2>2. \A t \in hist.handed : t.arm # row'.tepoch /\ t.arm <= row'.tepoch
    <3>1. \A t \in hist.handed : t.arm \in Nat /\ t.arm <= row.tepoch
      BY <1>0 DEF ClaimsInv
    <3> QED  BY <1>0, <2>1, <3>1
  <2>3. TokensNow' = {} /\ HeldNow' = {}
    BY <1>1, <2>2 DEF TokensNow, HeldNow
  <2>4. claim'.worker = NoWorker
    BY <1>2, <1>3
  <2> QED
    BY <1>1, <1>2, <2>2, <2>3, <2>4 DEF ClaimsInv, ClaimOfThisArming, HandedOnce
<1>4. CASE adv.cols.tepoch = row.tepoch
  <2>1. row'.task = row.task /\ row'.tepoch = row.tepoch
    BY <1>1, <1>4 DEF AdvanceInv
  <2>2. TokensNow' = TokensNow /\ HeldNow' \subseteq TokensNow
    BY <1>1, <2>1 DEF TokensNow, HeldNow
  <2>3. /\ ClaimOfThisArming' /\ HandedOnce'
        /\ \A t \in hist'.handed :
             t.epoch <= claim'.epoch /\ t.arm <= row'.tepoch
               /\ (t.arm = row'.tepoch => t.task = row'.task)
        /\ \A t \in hist'.released : t.epoch < claim'.epoch
    BY <1>1, <1>2, <2>1 DEF ClaimsInv, ClaimOfThisArming, HandedOnce
  <2>4. CASE TokensNow = {}
    BY <2>2, <2>3, <2>4 DEF ClaimsInv
  <2>5. CASE row'.status \in Settled
    <3>1. row'.status # "pausing"
      BY <2>5 DEF Settled
    <3> QED  BY <2>3, <2>5, <3>1 DEF ClaimsInv
  <2>6. CASE adv.kind = "write" /\ adv.cols.status = "paused"
    <3>1. adv.consumed = 0 /\ row'.status = "paused"
            /\ row'.phase = adv.cols.phase /\ row'.wake = adv.cols.wake
      BY <1>1, <1>4, <2>6 DEF AdvanceInv
    <3>2. \A s \in Answers : s.id # 0
      BY DEF Answers
    <3>3. Answered' = Answered
      BY <1>0, <1>1, <2>1, <3>1, <3>2 DEF Answered, BufferedFor, SignalsAfter
    <3>4. /\ adv.cols.phase = "" => TokensNow = {} \/ Answered
          /\ row.task \notin OnceTasks \/ TokensNow = {} \/ Answered
               \/ adv.cols.wake = "due"
      BY <1>4, <2>6 DEF AdvanceInv, Draining
    <3> QED
      BY <2>1, <2>2, <2>3, <3>1, <3>3, <3>4 DEF ClaimsInv
  <2> QED
    BY <1>1, <1>4, <2>4, <2>5, <2>6 DEF AdvanceInv, Settled
<1> QED  BY <1>3, <1>4

(* Epochs of rows, claims and tokens are numbers.                          *)
LEMMA TokenTypes ==
    ASSUME ShapeInv
    PROVE  /\ TypeOK /\ row.tepoch \in Nat /\ claim.epoch \in Nat
           /\ \A t \in hist.handed :
                t \in Tokens /\ t.arm \in Nat /\ t.epoch \in Nat
           /\ hist.released \subseteq hist.handed
<1> USE ExternalAssumption DEF ExternalAssumption
<1>1. /\ TypeOK /\ row \in Cols /\ claim \in Claims /\ hist \in Histories
      /\ hist.released \subseteq hist.handed
  BY DEF ShapeInv, TypeOK
<1>2. \A n \in Epochs : n \in Nat
  BY DEF Epochs
<1>3. \A n \in 0..3 * MaxClaims : n \in Nat
  OBVIOUS
<1>4. row.tepoch \in Epochs /\ claim.epoch \in 0..3 * MaxClaims
  BY <1>1 DEF Cols, Claims
<1>5. \A t \in Tokens : t.arm \in Epochs /\ t.epoch \in 0..3 * MaxClaims
  BY DEF Tokens
<1>6. hist.handed \subseteq Tokens
  BY <1>1 DEF Histories
<1> QED  BY <1>1, <1>2, <1>3, <1>4, <1>5, <1>6

(* A grant hands out only_once work only when nobody else has it.          *)
LEMMA ClaimsGrant ==
    ASSUME ShapeInv, ClaimsInv, NEW w \in Workers, ClaimExternalTasks(w)
    PROVE  ClaimsInv'
<1>0. /\ TypeOK /\ row.tepoch \in Nat /\ claim.epoch \in Nat
      /\ \A t \in hist.handed : t.arm \in Nat /\ t.epoch \in Nat
      /\ hist.released \subseteq hist.handed /\ w # NoWorker
      /\ Claimable /\ lease' = lease /\ signals' = signals
  BY TokenTypes, GrantEffect, ExternalAssumption DEF ExternalAssumption
<1>1. CASE Answered
  <2>1. /\ SameArming /\ row'.phase = "" /\ row'.wake = "none"
        /\ UNCHANGED <<claim, marks, hist, used>>
    BY <1>0, <1>1, GrantEffect
  <2>2. Answered'
    BY <1>0, <1>1, <2>1 DEF Answered, BufferedFor, SameArming
  <2> QED  BY <1>0, <2>1, <2>2, ClaimsKept DEF SameArming
<1>2. CASE ~Answered
  <2> DEFINE k == [task |-> row.task, arm |-> row.tepoch,
                   epoch |-> claim.epoch + 1, worker |-> w]
  <2>1. /\ row' = row
        /\ claim' = [worker |-> w, lapsed |-> FALSE, epoch |-> claim.epoch + 1]
        /\ hist'.handed = IF HandsOut(w) THEN hist.handed \cup {k}
                          ELSE hist.handed
        /\ hist'.released = hist.released /\ hist'.claimedAt = row.tepoch
    BY <1>0, <1>2, GrantEffect
  <2>2. claim'.worker = w /\ claim'.epoch = claim.epoch + 1
    BY <2>1
  <2>3. k.task = row.task /\ k.arm = row.tepoch /\ k.epoch = claim.epoch + 1
    OBVIOUS
  <2> HIDE DEF k
  <2>4. row.phase = "external" /\ row.status = "running" /\ row.wake # "due"
    BY <1>0 DEF Claimable
  <2>5. \A t \in hist.handed : t.epoch <= claim.epoch /\ t.arm <= row.tepoch
          /\ (t.arm = row.tepoch => t.task = row.task)
    BY DEF ClaimsInv
  <2>6. \A t \in hist'.handed : t.epoch <= claim'.epoch /\ t.arm <= row'.tepoch
          /\ (t.arm = row'.tepoch => t.task = row'.task)
    BY <1>0, <2>1, <2>2, <2>3, <2>5
  <2>7. \A t \in hist'.released : t.epoch < claim'.epoch
    <3>1. \A t \in hist.released : t.epoch \in Nat /\ t.epoch <= claim.epoch
      BY <1>0, <2>5
    <3> QED  BY <1>0, <2>1, <2>2, <3>1
  <2>8. HandedOnce'
    <3>1. CASE hist'.handed = hist.handed
      BY <2>1, <3>1 DEF ClaimsInv, HandedOnce
    <3>2. CASE HandsOut(w) /\ row.task \notin OnceTasks
      <4>1. SUFFICES ASSUME NEW t \in hist'.handed \ hist'.released,
                            NEW u \in hist'.handed \ hist'.released,
                            t.task \in OnceTasks, t.arm = u.arm
                     PROVE  t = u
        BY DEF HandedOnce
      <4>2. t.arm # row.tepoch
        BY <2>1, <2>6, <3>2, <4>1
      <4>3. t \in hist.handed /\ u \in hist.handed
        BY <2>1, <2>3, <4>1, <4>2
      <4> QED  BY <2>1, <4>1, <4>3 DEF ClaimsInv, HandedOnce
    <3>3. CASE HandsOut(w) /\ row.task \in OnceTasks
      <4>1. claim.worker = NoWorker
        BY <3>3 DEF HandsOut
      <4>2. \A t \in hist.handed \ hist.released : t.arm # row.tepoch
        BY <1>2, <2>4, <3>3, <4>1 DEF ClaimsInv, HeldNow, TokensNow, Settled
      <4>3. SUFFICES ASSUME NEW t \in hist'.handed \ hist'.released,
                            NEW u \in hist'.handed \ hist'.released,
                            t.task \in OnceTasks, t.arm = u.arm
                     PROVE  t = u
        BY DEF HandedOnce
      <4>4. CASE t.arm = row.tepoch
        <5>1. t = k /\ u = k
          BY <2>1, <3>3, <4>2, <4>3, <4>4
        <5> QED  BY <5>1
      <4>5. CASE t.arm # row.tepoch
        <5>1. t \in hist.handed /\ u \in hist.handed
          BY <2>1, <2>3, <4>3, <4>5
        <5> QED  BY <2>1, <4>3, <5>1 DEF ClaimsInv, HandedOnce
      <4> QED  BY <4>4, <4>5
    <3> QED  BY <2>1, <3>1, <3>2, <3>3
  <2>9. ClaimOfThisArming'
    BY <2>1 DEF ClaimOfThisArming
  <2> QED
    BY <1>0, <2>1, <2>2, <2>4, <2>6, <2>7, <2>8, <2>9 DEF ClaimsInv
<1> QED  BY <1>1, <1>2

(* A released token is the one token of its only_once arming.              *)
LEMMA ClaimsRelease ==
    ASSUME ShapeInv, ClaimsInv, NEW token \in hist.handed,
           ReleaseExternalClaim(token)
    PROVE  ClaimsInv'
<1>0. /\ TypeOK /\ row.tepoch \in Nat /\ claim.epoch \in Nat
      /\ \A t \in hist.handed : t.arm \in Nat /\ t.epoch \in Nat
      /\ hist.released \subseteq hist.handed
  BY TokenTypes
<1>1. /\ Bound(token) /\ row.phase = "external" /\ claim.worker # NoWorker
      /\ SameArming
      /\ row' = row \/ (row'.phase = "" /\ row'.wake = "none" /\ Answered)
      /\ claim' = [worker |-> NoWorker, lapsed |-> FALSE,
                   epoch |-> claim.epoch + 1]
      /\ hist'.released = hist.released \cup {token}
      /\ hist'.handed = hist.handed /\ hist'.claimedAt = hist.claimedAt
      /\ lease' = lease /\ signals' = signals
  BY <1>0, ReleaseEffect
<1>2. claim'.worker = NoWorker /\ claim'.epoch = claim.epoch + 1
  BY <1>1
<1>3. Answered' = Answered /\ row'.task = row.task /\ row'.tepoch = row.tepoch
        /\ row'.status = row.status
  BY <1>1 DEF Answered, BufferedFor, SameArming
<1>4. token.arm = row.tepoch /\ token.epoch = claim.epoch
  BY <1>1 DEF Bound
<1>5. token \notin hist.released
  <2>1. \A t \in hist.released : t.epoch < claim.epoch
    BY DEF ClaimsInv
  <2> QED  BY <1>0, <1>4, <2>1
<1>6. \A t \in hist.handed : t.epoch <= claim.epoch
  BY DEF ClaimsInv
<1>7. /\ \A t \in hist'.handed : t.epoch <= claim'.epoch
      /\ \A t \in hist'.released : t.epoch < claim'.epoch
  <2>1. \A t \in hist.handed : t.epoch < claim.epoch + 1
    BY <1>0, <1>6
  <2>2. \A t \in hist.handed : t.epoch <= claim.epoch + 1
    BY <1>0, <1>6
  <2> QED  BY <1>0, <1>1, <1>2, <2>1, <2>2
<1>8. /\ \A t \in hist'.handed : t.arm <= row'.tepoch
           /\ (t.arm = row'.tepoch => t.task = row'.task)
      /\ ClaimOfThisArming' /\ HandedOnce'
  BY <1>1, <1>2, <1>3 DEF ClaimsInv, ClaimOfThisArming, HandedOnce
<1>9. row.task \in OnceTasks => HeldNow' = {}
  <2>1. SUFFICES ASSUME row.task \in OnceTasks, NEW t \in HeldNow'
                 PROVE  FALSE
    OBVIOUS
  <2>2. /\ t \in hist.handed \ hist.released /\ t # token
        /\ t.arm = row.tepoch
    BY <1>1, <1>3, <2>1 DEF HeldNow, TokensNow
  <2>3. t.task \in OnceTasks
    BY <2>1, <2>2 DEF ClaimsInv
  <2> QED
    BY <1>4, <1>5, <2>2, <2>3 DEF ClaimsInv, HandedOnce
<1>10. TokensNow' = TokensNow
  BY <1>1, <1>3 DEF TokensNow
<1> QED
  BY <1>1, <1>3, <1>7, <1>8, <1>9, <1>10 DEF ClaimsInv

(* A lost mark makes the row due, so it is not claimable again.            *)
LEMMA ClaimsMark ==
    ASSUME ShapeInv, ClaimsInv, NEW n \in marks, MarkExternalClaimLost(n)
    PROVE  ClaimsInv'
<1>0. /\ TypeOK /\ row.tepoch \in Nat /\ claim.epoch \in Nat
      /\ \A t \in hist.handed : t.arm \in Nat /\ t.epoch \in Nat
      /\ hist.released \subseteq hist.handed
  BY TokenTypes
<1>1. lease' = lease /\ signals' = signals
  BY <1>0, MarkEffect
<1>2. CASE UNCHANGED <<row, claim, hist>>
  BY <1>1, <1>2, ClaimsKept DEF Answered, BufferedFor
<1>3. CASE /\ row'.status = row.status /\ row'.task = row.task
           /\ row'.tepoch = row.tepoch /\ row'.phase = row.phase
           /\ row'.wake = "due"
           /\ claim' = [worker |-> NoWorker, lapsed |-> FALSE,
                        epoch |-> claim.epoch + 1]
           /\ hist'.handed = hist.handed /\ hist'.released = hist.released
           /\ hist'.claimedAt = hist.claimedAt
  <2>1. claim'.worker = NoWorker /\ claim'.epoch = claim.epoch + 1
    BY <1>3
  <2>2. /\ \A t \in hist'.handed : t.epoch <= claim'.epoch
        /\ \A t \in hist'.released : t.epoch < claim'.epoch
    <3>1. /\ \A t \in hist.handed : t.epoch \in Nat /\ t.epoch <= claim.epoch
      BY <1>0 DEF ClaimsInv
    <3> QED  BY <1>0, <1>3, <2>1, <3>1
  <2>3. /\ TokensNow' = TokensNow /\ Answered' = Answered
        /\ ClaimOfThisArming' /\ HandedOnce'
    BY <1>1, <1>3, <2>1
       DEF TokensNow, Answered, BufferedFor, ClaimsInv, ClaimOfThisArming,
           HandedOnce
  <2> QED  BY <1>1, <1>3, <2>2, <2>3 DEF ClaimsInv
<1> QED  BY <1>0, <1>2, <1>3, MarkEffect

(* An answer appended for the task of the row answers it.                  *)
LEMMA BufferedAnswers ==
    ASSUME NEW t, Buffered(t), t = row'.task
    PROVE  Answered'
<1> DEFINE s == [id |-> used.answers + 1, task |-> t]
<1>1. s \in signals' /\ s.task = t
  BY DEF Buffered
<1> QED  BY <1>1 DEF Answered, BufferedFor

(* Every step keeps ClaimsInv.                                             *)
LEMMA ClaimsNext ==
    ASSUME ShapeInv, AdvanceInv, ClaimsInv, [Next]_vars
    PROVE  ClaimsInv'
<1>0. TypeOK /\ row \in Cols /\ claim \in Claims
  BY DEF ShapeInv, TypeOK
<1>2. ~persist => /\ row'.task = row.task /\ row'.tepoch = row.tepoch
                  /\ Answered => Answered'
  BY Frame
<1>3. CASE persist
  BY <1>3, ClaimsPersist
<1>4. CASE \E w \in Workers : ClaimExternalTasks(w)
  BY <1>4, ClaimsGrant
<1>5. CASE \E n \in marks : MarkExternalClaimLost(n)
  BY <1>5, ClaimsMark
<1>6. CASE \E token \in hist.handed : ReleaseExternalClaim(token)
  BY <1>6, ClaimsRelease
<1>7. CASE ClaimInstances /\ ~persist
  BY <1>0, <1>2, <1>7, ClaimEffect, ClaimsKept
<1>8. CASE advance /\ ~persist
  BY <1>2, <1>8, ClaimsKept DEF advance
<1>9. CASE LeaseLapses /\ ~persist
  BY <1>2, <1>9, ClaimsKept DEF LeaseLapses
<1>10. CASE DeadlinePasses /\ ~persist
  BY <1>0, <1>2, <1>10, DeadlineEffect, ClaimsKept DEF SameArming
<1>11. CASE (\E by \in SUBSET hist.handed : Resolve(by)) /\ ~persist
  <2>1. PICK by \in SUBSET hist.handed : Resolve(by)
    BY <1>11
  <2>2. Answered'
    BY <1>0, <2>1, ResolveEffect, BufferedAnswers DEF SameArming
  <2> QED  BY <1>0, <1>2, <1>11, <2>1, <2>2, ResolveEffect, ClaimsKept DEF SameArming
<1>12. CASE (\E t \in ExternalTasks : DeliverSignal(t)) /\ ~persist
  <2>1. PICK t \in ExternalTasks : DeliverSignal(t)
    BY <1>12
  <2>2. t = row.task => Answered'
    BY <1>0, <2>1, DeliverEffect, BufferedAnswers DEF SameArming
  <2> QED  BY <1>0, <1>2, <1>12, <2>1, <2>2, DeliverEffect, ClaimsKept DEF SameArming
<1>13. CASE (\E token \in hist.handed : RenewExternalClaims(token)) /\ ~persist
  <2>1. claim'.epoch = claim.epoch /\ claim'.worker = claim.worker
    BY <1>0, <1>13 DEF RenewExternalClaims, Claims
  <2> QED  BY <1>2, <1>13, <2>1, ClaimsKept DEF RenewExternalClaims
<1>14. CASE ClaimLapses /\ ~persist
  <2>1. claim'.epoch = claim.epoch /\ claim'.worker = claim.worker
    BY <1>0, <1>14 DEF ClaimLapses, Claims
  <2> QED  BY <1>2, <1>14, <2>1, ClaimsKept DEF ClaimLapses
<1>15. CASE (PauseProcess \/ CancelProcess \/ ResumeProcess) /\ ~persist
  BY <1>0, <1>2, <1>15, VerbEffect, ClaimsKept DEF VerbMoves, Settled
<1>16. CASE UNCHANGED vars /\ ~persist
  BY <1>2, <1>16, ClaimsKept DEF vars
<1> QED
  BY NextCases, <1>3, <1>4, <1>5, <1>6, <1>7, <1>8, <1>9, <1>10, <1>11, <1>12,
     <1>13, <1>14, <1>15, <1>16

-----------------------------------------------------------------------------
(* How an arming ends.                                                     *)

(* A step that ends nothing and accepts nothing keeps EndsInv.             *)
LEMMA EndsKept ==
    ASSUME EndsInv, row'.tepoch = row.tepoch, Answered => Answered',
           row.status = "over" => row'.status = "over",
           hist'.firm = hist.firm, hist'.ended = hist.ended,
           adv'.ends \in {"timeout", "lost"} => row.tepoch \notin hist.firm
    PROVE  EndsInv'
BY DEF EndsInv, ResolvedIsUsed

(* The write of an advance ends its own arming.                            *)
LEMMA EndsPersist ==
    ASSUME ShapeInv, AdvanceInv, EndsInv, persist
    PROVE  EndsInv'
<1>0. /\ TypeOK /\ row.tepoch \in Epochs /\ signals \subseteq Answers
      /\ hist.ended \in [Epochs -> Ends] /\ hist.firm \subseteq Epochs
      /\ \A n \in Epochs : n \in Nat
      /\ row.status # "over"
  <2>1. /\ TypeOK /\ row \in Cols /\ signals \subseteq Answers
        /\ hist \in Histories
        /\ row.status \in {"paused", "cancelled", "over"} => adv.kind = "none"
    BY DEF ShapeInv, TypeOK
  <2>2. \A n \in Epochs : n \in Nat
    BY ExternalAssumption DEF Epochs, ExternalAssumption
  <2>3. row.tepoch \in Epochs
    BY <2>1 DEF Cols
  <2>4. hist.ended \in [Epochs -> Ends] /\ hist.firm \subseteq Epochs
    BY <2>1 DEF Histories
  <2>5. row.status # "over"
    BY <2>1 DEF persist
  <2> QED  BY <2>1, <2>2, <2>3, <2>4, <2>5
<1>1. /\ adv.kind \in {"arm", "write"} /\ adv'.ends = ""
      /\ signals' = SignalsAfter
      /\ row'.task = adv.cols.task /\ row'.tepoch = adv.cols.tepoch
      /\ row'.status = IF adv.cols.status = "running" THEN row.status
                       ELSE adv.cols.status
      /\ hist'.firm = hist.firm
      /\ hist'.ended = IF adv.ends = "" THEN hist.ended
                       ELSE [hist.ended EXCEPT ![row.tepoch] = adv.ends]
  BY <1>0, PersistWrites, FreshType
<1>2. \A n \in Epochs : hist'.ended[n] = IF n = row.tepoch /\ adv.ends # ""
                                         THEN adv.ends ELSE hist.ended[n]
  BY <1>0, <1>1
<1>3. ResolvedIsUsed'
  BY <1>0, <1>1, <1>2 DEF EndsInv, ResolvedIsUsed
<1>4. \A n \in Epochs : hist.ended[n] # "" => n < row.tepoch
  BY <1>0 DEF EndsInv
<1>5. CASE adv.cols.tepoch # row.tepoch
  <2>1. row'.tepoch = row.tepoch + 1
    BY <1>1, <1>5 DEF AdvanceInv
  <2>2. \A n \in hist.firm : n <= row.tepoch
    BY DEF EndsInv
  <2>3. /\ \A n \in hist.firm : n <= row'.tepoch
        /\ row'.tepoch \notin hist.firm
    BY <1>0, <2>1, <2>2
  <2>4. \A n \in Epochs : hist'.ended[n] # "" => n < row'.tepoch
    <3>1. SUFFICES ASSUME NEW n \in Epochs, hist'.ended[n] # ""
                   PROVE  n < row.tepoch + 1
      BY <2>1
    <3>2. n \in Nat /\ row.tepoch \in Nat
      BY <1>0
    <3>3. n = row.tepoch \/ n < row.tepoch
      BY <1>2, <1>4, <3>1
    <3> QED  BY <3>2, <3>3
  <2> QED  BY <1>1, <1>3, <2>3, <2>4 DEF EndsInv
<1>6. CASE adv.cols.tepoch = row.tepoch
  <2>1. row'.task = row.task /\ row'.tepoch = row.tepoch
    BY <1>1, <1>6 DEF AdvanceInv
  <2>2. CASE row'.status = "over"
    BY <1>1, <1>3, <2>1, <2>2 DEF EndsInv
  <2>3. CASE adv.ends = "" /\ adv.consumed = 0
    <3>1. \A s \in Answers : s.id # 0
      BY DEF Answers
    <3>2. Answered' = Answered
      BY <1>0, <1>1, <2>1, <2>3, <3>1 DEF Answered, BufferedFor, SignalsAfter
    <3> QED  BY <1>0, <1>1, <1>3, <2>1, <2>3, <3>2 DEF EndsInv
  <2> QED  BY <1>1, <1>6, <2>2, <2>3 DEF AdvanceInv
<1> QED  BY <1>5, <1>6

(* An answer accepted while no engine holds the row finds no advance that  *)
(* already gave up waiting.                                                *)
LEMMA EndsResolve ==
    ASSUME ShapeInv, AdvanceInv, EndsInv, NEW by \in SUBSET hist.handed,
           Resolve(by)
    PROVE  EndsInv'
<1>0. /\ TypeOK /\ row.tepoch \in Epochs /\ row.tepoch \in Nat
      /\ lease = "none" => adv.kind = "none"
  <2>1. TypeOK /\ row \in Cols /\ (lease = "none" => adv.kind = "none")
    BY DEF ShapeInv, TypeOK
  <2>2. row.tepoch \in Epochs
    BY <2>1 DEF Cols
  <2> QED
    BY <2>1, <2>2, ExternalAssumption DEF Epochs, ExternalAssumption
<1>1. /\ Waiting /\ Buffered(row.task) /\ SameArming
      /\ hist'.firm = IF lease = "none" THEN hist.firm \cup {row.tepoch}
                      ELSE hist.firm
      /\ hist'.ended = hist.ended /\ adv' = adv
  BY <1>0, ResolveEffect
<1>2. Answered' /\ row'.tepoch = row.tepoch /\ row'.status = row.status
        /\ row.status # "over"
  BY <1>1, BufferedAnswers DEF SameArming, Waiting, AcceptsExternalOutcome
<1>3. hist.ended[row.tepoch] = ""
  <2>1. hist.ended[row.tepoch] # "" => row.tepoch < row.tepoch
    BY <1>0, <1>2 DEF EndsInv
  <2>2. ~(row.tepoch < row.tepoch)
    BY <1>0
  <2> QED  BY <2>1, <2>2
<1>4. ResolvedIsUsed'
  BY <1>1, <1>3 DEF EndsInv, ResolvedIsUsed
<1>5. \A n \in hist'.firm : n <= row'.tepoch
  <2>1. \A n \in hist.firm : n <= row.tepoch
    BY DEF EndsInv
  <2>2. row.tepoch <= row.tepoch
    BY <1>0
  <2> QED  BY <1>1, <1>2, <2>1, <2>2
<1>6. adv'.ends \in {"timeout", "lost"} => row'.tepoch \notin hist'.firm
  BY <1>0, <1>1, <1>2 DEF EndsInv, AdvanceInv
<1> QED  BY <1>1, <1>2, <1>4, <1>5, <1>6 DEF EndsInv

(* Every step keeps EndsInv.                                               *)
LEMMA EndsNext ==
    ASSUME ShapeInv, AdvanceInv, EndsInv, [Next]_vars
    PROVE  EndsInv'
<1>0. /\ TypeOK /\ row \in Cols
      /\ row.status = "over" => adv.kind = "none"
  BY DEF ShapeInv, TypeOK
<1>1. adv.ends \in {"timeout", "lost"} => row.tepoch \notin hist.firm
  BY DEF EndsInv
<1>2. ~persist => /\ row'.tepoch = row.tepoch
                  /\ Answered => Answered'
  BY Frame
<1>3. CASE persist
  BY <1>3, EndsPersist
<1>4. CASE (\E w \in Workers : ClaimExternalTasks(w)) /\ ~persist
  <2>1. PICK w \in Workers : ClaimExternalTasks(w)
    BY <1>4
  <2>2. /\ row'.status = row.status /\ adv' = adv
        /\ hist'.firm = hist.firm /\ hist'.ended = hist.ended
    BY <1>0, <2>1, GrantEffect DEF SameArming
  <2> QED  BY <1>1, <1>2, <1>4, <2>2, EndsKept
<1>5. CASE (\E n \in marks : MarkExternalClaimLost(n)) /\ ~persist
  <2>1. PICK n \in marks : MarkExternalClaimLost(n)
    BY <1>5
  <2>2. /\ row'.status = row.status /\ adv' = adv
        /\ hist'.firm = hist.firm /\ hist'.ended = hist.ended
    BY <1>0, <2>1, MarkEffect
  <2> QED  BY <1>1, <1>2, <1>5, <2>2, EndsKept
<1>6. CASE (\E token \in hist.handed : ReleaseExternalClaim(token)) /\ ~persist
  <2>1. /\ row'.status = row.status /\ adv' = adv
        /\ hist'.firm = hist.firm /\ hist'.ended = hist.ended
    BY <1>0, <1>6, ReleaseEffect DEF SameArming
  <2> QED  BY <1>1, <1>2, <1>6, <2>1, EndsKept
<1>7. CASE ClaimInstances /\ ~persist
  BY <1>0, <1>2, <1>7, ClaimEffect, EndsKept
<1>8. CASE advance /\ ~persist
  <2>1. /\ adv.kind = "claimed" /\ adv.cols.task = row.task
        /\ UNCHANGED <<row, hist>>
        /\ adv'.ends \in {"timeout", "lost"} => BufferedFor(adv.cols.task) = {}
    BY <1>0, <1>8, AdvanceComputes
       DEF AdvanceInv, advance, WritesInterrupted, WritesSettled, WritesOther,
           WritesAnswered, WritesExpired, ComputesArm, RefusesArm
  <2>2. adv'.ends \in {"timeout", "lost"} => row.tepoch \notin hist.firm
    BY <1>0, <2>1 DEF EndsInv, Answered
  <2> QED  BY <1>2, <1>8, <2>1, <2>2, EndsKept
<1>9. CASE LeaseLapses /\ ~persist
  BY <1>1, <1>2, <1>9, EndsKept DEF LeaseLapses
<1>10. CASE DeadlinePasses /\ ~persist
  BY <1>0, <1>1, <1>2, <1>10, DeadlineEffect, EndsKept DEF SameArming
<1>11. CASE \E by \in SUBSET hist.handed : Resolve(by)
  BY <1>11, EndsResolve
<1>12. CASE (\E t \in ExternalTasks : DeliverSignal(t)) /\ ~persist
  BY <1>0, <1>1, <1>2, <1>12, DeliverEffect, EndsKept DEF SameArming
<1>13. CASE (\E token \in hist.handed : RenewExternalClaims(token)) /\ ~persist
  BY <1>1, <1>2, <1>13, EndsKept DEF RenewExternalClaims
<1>14. CASE ClaimLapses /\ ~persist
  BY <1>1, <1>2, <1>14, EndsKept DEF ClaimLapses
<1>15. CASE (PauseProcess \/ CancelProcess \/ ResumeProcess) /\ ~persist
  BY <1>0, <1>1, <1>2, <1>15, VerbEffect, EndsKept DEF VerbMoves
<1>16. CASE UNCHANGED vars /\ ~persist
  BY <1>1, <1>2, <1>16, EndsKept DEF vars
<1> QED
  BY NextCases, <1>3, <1>4, <1>5, <1>6, <1>7, <1>8, <1>9, <1>10, <1>11, <1>12,
     <1>13, <1>14, <1>15, <1>16

-----------------------------------------------------------------------------
(* The lost mark.                                                          *)

(* A step that sets no park and no mark keeps LostInv.                     *)
LEMMA LostKept ==
    ASSUME LostInv, row'.tepoch = row.tepoch, row'.task = row.task,
           row'.lost => row.lost, row'.phase = "external" => row.phase = "external",
           row.status = "over" => row'.status = "over",
           hist'.ended = hist.ended, hist'.marked = hist.marked,
           hist'.stray = hist.stray, adv' = adv
    PROVE  LostInv'
BY DEF LostInv, LostIsEarned

(* The write of an advance carries a park out of its arming only after an  *)
(* interrupted verdict.                                                    *)
LEMMA LostPersist ==
    ASSUME ShapeInv, AdvanceInv, LostInv, persist
    PROVE  LostInv'
<1>0. /\ TypeOK /\ row.tepoch \in Epochs /\ adv.cols \in Cols
      /\ hist.ended \in [Epochs -> Ends]
      /\ adv.cols.lost \in BOOLEAN /\ adv.cols.phase \in {"", "external"}
  <2>1. TypeOK /\ row \in Cols /\ adv \in Advances /\ hist \in Histories
    BY DEF ShapeInv, TypeOK
  <2>2. row.tepoch \in Epochs /\ adv.cols \in Cols
    BY <2>1 DEF Cols, Advances
  <2>3. hist.ended \in [Epochs -> Ends]
    BY <2>1 DEF Histories
  <2>4. adv.cols.lost \in BOOLEAN /\ adv.cols.phase \in {"", "external"}
    BY <2>2 DEF Cols
  <2> QED  BY <2>1, <2>2, <2>3, <2>4
<1>1. /\ adv.kind \in {"arm", "write"} /\ adv'.ends = "" /\ adv'.kind = "none"
      /\ row'.task = adv.cols.task /\ row'.tepoch = adv.cols.tepoch
      /\ row'.lost = adv.cols.lost
      /\ row'.status = IF adv.cols.status = "running" THEN row.status
                       ELSE adv.cols.status
      /\ row'.phase = adv.cols.phase \/ row'.phase = ""
      /\ hist'.marked = hist.marked
      /\ hist'.ended = IF adv.ends = "" THEN hist.ended
                       ELSE [hist.ended EXCEPT ![row.tepoch] = adv.ends]
      /\ hist.stray => hist'.stray
      /\ adv.ends = "interrupted" /\ adv.cols.status # "over"
           /\ (adv.cols.lost \/ (adv.kind = "write"
                                   /\ adv.cols.phase = "external"))
           => hist'.stray
  BY <1>0, PersistWrites, FreshType
<1>2. CASE hist'.stray
  BY <1>2 DEF LostInv
<1>3. CASE ~hist'.stray
  <2>1. ~hist.stray
    BY <1>1, <1>3
  <2>2. LostIsEarned'
    <3>1. \A n \in Epochs : hist'.ended[n] = "lost" =>
            hist.ended[n] = "lost" \/ (n = row.tepoch /\ adv.ends = "lost")
      BY <1>0, <1>1
    <3> QED  BY <1>1, <2>1, <3>1 DEF LostInv, LostIsEarned
  <2>3. CASE adv.cols.tepoch # row.tepoch
    <3>1. adv.kind = "write" /\ adv.cols.status = "running"
      BY <1>1, <2>3 DEF AdvanceInv
    <3>2. ~adv.cols.lost /\ adv.cols.phase = ""
      BY <1>0, <1>1, <1>3, <2>1, <2>3, <3>1 DEF LostInv
    <3> QED  BY <1>1, <2>2, <3>2 DEF LostInv
  <2>4. CASE adv.cols.tepoch = row.tepoch
    <3>1. row'.task = row.task /\ row'.tepoch = row.tepoch
      BY <1>1, <2>4 DEF AdvanceInv
    <3>2. row'.lost => row'.tepoch \in hist'.marked
      BY <1>1, <2>1, <2>4, <3>1 DEF LostInv
    <3>3. row'.status # "over" /\ (row'.lost \/ row'.phase = "external") =>
            row'.task \in ExternalTasks
      BY <1>1, <2>1, <2>4, <3>1 DEF LostInv, AdvanceInv
    <3> QED  BY <1>1, <2>2, <3>2, <3>3 DEF LostInv
  <2> QED  BY <2>3, <2>4
<1> QED  BY <1>2, <1>3

(* An advance reports a loss only from a mark it read.                     *)
LEMMA LostAdvance ==
    ASSUME ShapeInv, AdvanceInv, LostInv, advance
    PROVE  LostInv'
<1>0. TypeOK /\ adv \in Advances /\ adv.cols \in Cols
        /\ adv.cols.phase \in {"", "external"}
  <2>1. TypeOK /\ row \in Cols /\ adv \in Advances
    BY DEF ShapeInv, TypeOK
  <2>2. adv.cols \in Cols
    BY <2>1 DEF Advances
  <2>3. adv.cols.phase \in {"", "external"}
    BY <2>2 DEF Cols
  <2> QED  BY <2>1, <2>2, <2>3
<1>1. /\ adv.kind = "claimed" /\ adv.ends = ""
      /\ adv.cols.task = row.task /\ adv.cols.tepoch = row.tepoch
      /\ UNCHANGED <<row, hist>>
  BY <1>0, AdvanceComputes DEF AdvanceInv, advance
<1>2. CASE hist.stray
  BY <1>1, <1>2 DEF LostInv
<1> SUFFICES ASSUME ~hist.stray
             PROVE  LostInv'
  BY <1>2
<1>3. /\ row.status # "over" /\ (row.lost \/ row.phase = "external")
           => row.task \in ExternalTasks
      /\ row.lost => row.tepoch \in hist.marked
      /\ adv.cols.lost => row.tepoch \in hist.marked
      /\ adv.cols.lost \/ adv.cols.phase = "external"
           => row.task \in ExternalTasks
      /\ LostIsEarned' = LostIsEarned /\ LostIsEarned
  BY <1>1 DEF LostInv, LostIsEarned
(* A write that leaves the arming from columns c.                          *)
<1>4. ASSUME NEW c \in Cols, c.tepoch = row.tepoch, c.status = "running",
             c.lost => row.tepoch \in hist.marked,
             Leaves(c, adv'.cols), adv'.kind = "write",
             adv'.ends = "lost" => row.tepoch \in hist.marked,
             adv'.ends = "interrupted" \/ (~c.lost /\ c.phase = "")
      PROVE  LostInv'
  <2>1. /\ adv'.cols.lost = c.lost /\ adv'.cols.phase \in {c.phase, ""}
        /\ adv'.cols.status \notin {"paused", "cancelled"}
    BY <1>4 DEF Leaves
  <2> QED  BY <1>1, <1>3, <1>4, <2>1 DEF LostInv
<1>5. CASE WritesInterrupted
  <2> DEFINE r == [adv.cols EXCEPT !.status = "running"]
  <2>1. /\ r \in Cols /\ r.tepoch = row.tepoch /\ r.status = "running"
        /\ r.lost = adv.cols.lost
    BY <1>0, <1>1 DEF Cols, Status
  <2>2. Leaves(r, adv'.cols) /\ adv'.kind = "write"
          /\ adv'.ends = "interrupted"
    BY <1>5 DEF WritesInterrupted
  <2> HIDE DEF r
  <2> QED  BY <1>3, <1>4, <2>1, <2>2
<1>6. CASE WritesOther
  <2>1. /\ adv.cols.status = "running" /\ row.task \notin ExternalTasks
        /\ Leaves(adv.cols, adv'.cols) /\ adv'.kind = "write"
        /\ adv'.ends = ""
    BY <1>1, <1>6 DEF WritesOther
  <2>2. ~adv.cols.lost /\ adv.cols.phase = ""
    BY <1>0, <1>3, <2>1
  <2> QED  BY <1>0, <1>1, <1>4, <2>1, <2>2
<1>7. CASE WritesAnswered
  <2> DEFINE p == clearExternalPark(adv.cols)
  <2>1. /\ p \in Cols /\ p.tepoch = row.tepoch /\ p.status = "running"
        /\ ~p.lost /\ p.phase = ""
    BY <1>0, <1>1, <1>7, ClearParkType DEF WritesAnswered
  <2>2. Leaves(p, adv'.cols) /\ adv'.kind = "write" /\ adv'.ends = "answer"
    BY <1>7 DEF WritesAnswered
  <2> HIDE DEF p
  <2> QED  BY <1>4, <2>1, <2>2
<1>8. CASE WritesExpired
  <2> DEFINE p == clearExternalPark(adv.cols)
  <2>1. /\ p \in Cols /\ p.tepoch = row.tepoch /\ p.status = "running"
        /\ ~p.lost /\ p.phase = ""
    BY <1>0, <1>1, <1>8, ClearParkType DEF WritesExpired
  <2>2. /\ Leaves(p, adv'.cols) /\ adv'.kind = "write"
        /\ adv'.ends = "lost" => adv.cols.lost
    BY <1>8 DEF WritesExpired
  <2> HIDE DEF p
  <2> QED  BY <1>3, <1>4, <2>1, <2>2
<1>9. CASE WritesSettled
  <2>1. /\ adv'.kind = "write" /\ adv'.ends = ""
        /\ adv'.cols.tepoch = row.tepoch /\ adv'.cols.lost = adv.cols.lost
        /\ adv'.cols.phase = adv.cols.phase
    BY <1>0, <1>1, <1>9 DEF WritesSettled, Cols
  <2> QED  BY <1>1, <1>3, <2>1 DEF LostInv
<1>10. CASE ComputesArm
  <2>1. /\ adv'.kind = "arm" /\ adv'.ends = ""
        /\ adv'.cols.tepoch = row.tepoch /\ adv'.cols.lost = adv.cols.lost
        /\ row.task \in ExternalTasks
    BY <1>0, <1>1, <1>10 DEF ComputesArm, Cols
  <2> QED  BY <1>1, <1>3, <2>1 DEF LostInv
<1>11. CASE RefusesArm
  <2>1. /\ adv'.kind = "write" /\ adv'.ends = ""
        /\ adv'.cols.status = "over" /\ adv'.cols.tepoch = row.tepoch
        /\ adv'.cols.lost = adv.cols.lost
    BY <1>0, <1>1, <1>11 DEF RefusesArm, Leaves
  <2> QED  BY <1>1, <1>3, <2>1 DEF LostInv
<1> QED
  BY <1>0, <1>5, <1>6, <1>7, <1>8, <1>9, <1>10, <1>11, AdvanceComputes

(* A mark is set on the arming it was earned in.                           *)
LEMMA LostMark ==
    ASSUME ShapeInv, LostInv, NEW n \in marks, MarkExternalClaimLost(n)
    PROVE  LostInv'
<1>0. TypeOK
  BY DEF ShapeInv
<1>1. adv' = adv
  BY <1>0, MarkEffect
<1>2. CASE UNCHANGED <<row, claim, hist>>
  BY <1>1, <1>2, LostKept
<1>3. CASE /\ row.tepoch = n /\ row.phase = "external"
           /\ row'.status = row.status /\ row'.task = row.task
           /\ row'.tepoch = row.tepoch /\ row'.phase = row.phase
           /\ hist'.marked = hist.marked \cup {n}
           /\ hist'.ended = hist.ended /\ hist'.stray = hist.stray
  BY <1>1, <1>3 DEF LostInv, LostIsEarned
<1> QED  BY <1>0, <1>2, <1>3, MarkEffect

(* Every step keeps LostInv.                                               *)
LEMMA LostNext ==
    ASSUME ShapeInv, AdvanceInv, LostInv, [Next]_vars
    PROVE  LostInv'
<1>0. TypeOK /\ row \in Cols
  BY DEF ShapeInv, TypeOK
<1>3. CASE persist
  BY <1>3, LostPersist
<1>4. CASE \E w \in Workers : ClaimExternalTasks(w)
  <2>1. PICK w \in Workers : ClaimExternalTasks(w)
    BY <1>4
  <2>2. /\ row'.task = row.task /\ row'.tepoch = row.tepoch
        /\ row'.status = row.status /\ row'.lost = row.lost
        /\ row'.phase = "external" => row.phase = "external"
        /\ adv' = adv /\ hist'.ended = hist.ended
        /\ hist'.marked = hist.marked /\ hist'.stray = hist.stray
    BY <1>0, <2>1, GrantEffect DEF SameArming
  <2> QED  BY <2>2, LostKept
<1>5. CASE \E n \in marks : MarkExternalClaimLost(n)
  BY <1>5, LostMark
<1>6. CASE \E token \in hist.handed : ReleaseExternalClaim(token)
  BY <1>0, <1>6, ReleaseEffect, LostKept DEF SameArming
<1>7. CASE ClaimInstances
  <2>1. /\ adv'.kind = "claimed" /\ adv'.cols = row /\ adv'.ends = ""
        /\ row.status # "over"
        /\ UNCHANGED <<row, claim, signals, marks, hist, used>>
    BY <1>0, <1>7, ClaimEffect
  <2> QED  BY <2>1 DEF LostInv, LostIsEarned
<1>8. CASE advance
  BY <1>8, LostAdvance
<1>9. CASE LeaseLapses
  BY <1>9, LostKept DEF LeaseLapses
<1>10. CASE DeadlinePasses
  BY <1>0, <1>10, DeadlineEffect, LostKept DEF SameArming
<1>11. CASE \E by \in SUBSET hist.handed : Resolve(by)
  BY <1>0, <1>11, ResolveEffect, LostKept DEF SameArming
<1>12. CASE \E t \in ExternalTasks : DeliverSignal(t)
  BY <1>0, <1>12, DeliverEffect, LostKept DEF SameArming
<1>13. CASE \E token \in hist.handed : RenewExternalClaims(token)
  BY <1>13, LostKept DEF RenewExternalClaims
<1>14. CASE ClaimLapses
  BY <1>14, LostKept DEF ClaimLapses
<1>15. CASE PauseProcess \/ CancelProcess \/ ResumeProcess
  BY <1>0, <1>15, VerbEffect, LostKept DEF VerbMoves
<1>16. CASE UNCHANGED vars
  BY <1>16, LostKept DEF vars
<1> QED
  BY NextCases, <1>3, <1>4, <1>5, <1>6, <1>7, <1>8, <1>9, <1>10, <1>11, <1>12,
     <1>13, <1>14, <1>15, <1>16

-----------------------------------------------------------------------------
(* The theorems.                                                           *)

(* The first state satisfies the inductive invariant.                      *)
LEMMA InitInv == Init => IInv
<1> SUFFICES ASSUME Init PROVE IInv
  OBVIOUS
<1>1. ShapeInv
  BY InitShape
<1>2. /\ row.status = "running" /\ row.phase = "" /\ row.tepoch = 0
      /\ row.lost = FALSE
  BY DEF Init, Fresh
<1>3. /\ hist.consumed = <<>> /\ hist.ended = [n \in Epochs |-> ""]
      /\ hist.firm = {} /\ hist.handed = {} /\ hist.released = {}
      /\ hist.stray = FALSE
  BY DEF Init
<1>4. adv.kind = "none" /\ adv.ends = "" /\ adv.consumed = 0
  BY FreshType DEF Init
<1>5. signals = {} /\ claim.worker = NoWorker
  BY DEF Init
<1>6. AdvanceInv
  BY <1>4 DEF AdvanceInv, Draining
<1>7. SignalsInv
  <2>0. Len(<<>>) = 0
    OBVIOUS
  <2>1. Len(hist.consumed) = 0
    BY <1>3, <2>0, Zenon
  <2>2. 1..Len(hist.consumed) = {}
    BY <2>1
  <2> QED
    BY <1>4, <1>5, <2>2 DEF SignalsInv, ConsumedOnceInOrder
<1>8. ClaimsInv
  BY <1>2, <1>3, <1>5
     DEF ClaimsInv, ClaimOfThisArming, HandedOnce, TokensNow, HeldNow
<1>9. EndsInv
  BY <1>3, <1>4 DEF EndsInv, ResolvedIsUsed
<1>10. LostInv
  BY <1>2, <1>3, <1>4 DEF LostInv, LostIsEarned
<1> QED  BY <1>1, <1>6, <1>7, <1>8, <1>9, <1>10 DEF IInv

(* Every step preserves the inductive invariant.                           *)
LEMMA NextInv == IInv /\ [Next]_vars => IInv'
BY ShapeNext, AdvanceNext, SignalsNext, ClaimsNext, EndsNext, LostNext DEF IInv

(* The inductive invariant holds in every reachable state: what the        *)
(* advance in flight has read (runExternal) still describes the arming the *)
(* row is in.                                                              *)
THEOREM Inductive == Spec => []IInv
<1>1. Init => IInv
  BY InitInv
<1>2. IInv /\ [Next]_vars => IInv'
  BY NextInv
<1> QED  BY <1>1, <1>2, PTL DEF Spec

(* Every state has its type; in particular no advance is in flight on a    *)
(* paused, cancelled or finished row.                                      *)
THEOREM TypeCorrect == Spec => []TypeOK
<1>1. IInv => TypeOK
  BY DEF IInv, ShapeInv
<1> QED  BY <1>1, Inductive, PTL

(* An answer ResolveExternalTask accepted while no engine held the row is  *)
(* never overtaken by external.timeout or external.lost.                   *)
THEOREM AnswersAreUsed == Spec => []ResolvedIsUsed
<1>1. IInv => ResolvedIsUsed
  BY DEF IInv, EndsInv
<1> QED  BY <1>1, Inductive, PTL

(* The answers and signals of a task are consumed once each and in the     *)
(* order they were accepted (PeekOldestSignal, then DeleteSignal with the  *)
(* write).                                                                 *)
THEOREM AnswersInOrder == Spec => []ConsumedOnceInOrder
<1>1. IInv => ConsumedOnceInOrder
  BY DEF IInv, SignalsInv
<1> QED  BY <1>1, Inductive, PTL

(* ClaimExternalTasks hands an only_once arming to at most one worker that *)
(* has not released it.                                                    *)
THEOREM OnceHandedOnce == Spec => []HandedOnce
<1>1. IInv => HandedOnce
  BY DEF IInv, ClaimsInv
<1> QED  BY <1>1, Inductive, PTL

(* A claim never survives into another arming of the row (the CASE on      *)
(* task_epoch in UpdateInstance).                                          *)
THEOREM ClaimsOfTheirArming == Spec => []ClaimOfThisArming
<1>1. IInv => ClaimOfThisArming
  BY DEF IInv, ClaimsInv
<1> QED  BY <1>1, Inductive, PTL

(* external.lost is reported only for an arming that MarkExternalClaimLost *)
(* marked, unless an interrupted verdict carried a park along.             *)
THEOREM LostEarned == Spec => []LostIsEarned
<1>1. IInv => LostIsEarned
  BY DEF IInv, LostInv, LostIsEarned
<1> QED  BY <1>1, Inductive, PTL

(* A token that is newly spent is bound to the present grant.              *)
LEMMA HolderStep ==
    ASSUME IInv, [Next]_vars, NEW t \in hist'.spent \ hist.spent
    PROVE  /\ t \notin hist.released
           /\ \A u \in hist.handed : u.arm = t.arm => u.epoch <= t.epoch
<1>0. ShapeInv /\ ClaimsInv /\ TypeOK /\ claim.epoch \in Nat
  BY TokenTypes DEF IInv
<1>1. ASSUME hist'.spent = hist.spent
      PROVE  FALSE
  BY <1>1
<1>2. CASE \E by \in SUBSET hist.handed :
             Resolve(by) /\ \A token \in by : Bound(token)
  <2>1. PICK by \in SUBSET hist.handed :
          Resolve(by) /\ \A token \in by : Bound(token)
    BY <1>2
  <2>2. t \in by
    BY <1>0, <2>1, ResolveEffect
  <2>3. t.epoch = claim.epoch
    BY <2>1, <2>2 DEF Bound
  <2>4. /\ \A u \in hist.released : u.epoch < claim.epoch
        /\ \A u \in hist.handed : u.epoch <= claim.epoch
    BY <1>0 DEF ClaimsInv
  <2>5. t \notin hist.released
    BY <1>0, <2>3, <2>4
  <2> QED  BY <2>3, <2>4, <2>5
<1>3. CASE persist
  BY <1>0, <1>1, <1>3, PersistWrites
<1>4. CASE \E w \in Workers : ClaimExternalTasks(w)
  BY <1>0, <1>1, <1>4, GrantEffect
<1>5. CASE \E n \in marks : MarkExternalClaimLost(n)
  <2>1. PICK n \in marks : MarkExternalClaimLost(n)
    BY <1>5
  <2>2. hist'.spent = hist.spent
    BY <1>0, <2>1, MarkEffect
  <2> QED  BY <1>1, <2>2
<1>6. CASE \E token \in hist.handed : ReleaseExternalClaim(token)
  BY <1>0, <1>1, <1>6, ReleaseEffect
<1>7. CASE hist' = hist
  BY <1>1, <1>7
<1> QED
  BY NextCases, <1>2, <1>3, <1>4, <1>5, <1>6, <1>7
     DEF ClaimInstances, advance, LeaseLapses, DeadlinePasses, DeliverSignal,
         RenewExternalClaims, ClaimLapses, PauseProcess, CancelProcess,
         ResumeProcess, Verb, vars

(* Every answer with a claim token comes from the last grant of its arming *)
(* that reached a worker, and not from a released one                      *)
(* (ClaimBinding.check).                                                   *)
THEOREM AnswersByHolder == Spec => AnsweredByHolder
<1>1. IInv /\ [Next]_vars =>
        [\A t \in hist'.spent \ hist.spent :
           /\ t \notin hist.released
           /\ \A u \in hist.handed : u.arm = t.arm => u.epoch <= t.epoch]_vars
  BY HolderStep
<1> QED  BY <1>1, Inductive, PTL DEF Spec, AnsweredByHolder

=============================================================================
