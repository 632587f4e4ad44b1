-------------------------- MODULE TreeStatusProofs --------------------------
(***************************************************************************)
(* The inductive invariant of Tree, and how a change of status travels: up,*)
(* when a settled row wakes or settles its parents (settleUp) or a failure *)
(* climbs (FailAncestors), and down, when the tree is stopped.  StopInv and*)
(* SaveInv: the stops and the saves of an advance keep the invariant.      *)
(***************************************************************************)
EXTENDS Tree, TLAPS

(* Rows whose status keeps them tied to the task entry that spawned them.  *)
Bound == Busy \cup {"paused", "failed", "cancelled"}

(* Rows that are not concluded.                                            *)
Alive == Busy \cup {"paused"}

(* What a stop of the root allows below it.                                *)
Allowed(s) ==
    CASE s = "running" -> {"running"}
      [] s = "pausing" -> {"pausing", "paused"}
      [] s = "paused" -> {"paused"}
      [] s = "failing" -> {"failing", "failed", "pausing", "paused"}
      [] s = "failed" -> {"failed", "paused"}
      [] s = "cancelling" -> {"cancelling", "cancelled", "failed"}
      [] s = "cancelled" -> {"cancelled", "failed"}
      [] OTHER -> {}

(* A claimed row is not waiting for children, and a row claimed while it   *)
(* drained still drains.                                                   *)
Held(r) ==
    \A i \in Ids : r[i].held # "" =>
      /\ r[i].phase # "children"
      /\ r[i].status \in {"running", "pausing", "cancelling"}
      /\ r[i].held \in {"pausing", "cancelling"} => r[i].status = r[i].held

(* Every row still tied to its spawner has a status the root's allows.     *)
Agree(r) ==
    \A i \in Ids : r[i].status \in Bound =>
      r[i].status \in Allowed(r[Root].status)

(* Row k, spawned by p. It exists only below a row that exists, from one   *)
(* of its task entries so far, an earlier one once p has left it; a row    *)
(* not over belongs to the present entry, and p waits for it or has        *)
(* stopped; a failure below has reached p.                                 *)
UnderOK(r, k, p) ==
    /\ r[k].status # "none" => r[p].status # "none"
    /\ r[k].status # "none" => r[k].ptepoch <= r[p].tepoch
    /\ r[k].status # "none" /\ r[p].status \in Alive /\ r[p].phase = "" =>
         r[k].ptepoch < r[p].tepoch
    /\ r[k].status \in Bound =>
         r[k].ptepoch = r[p].tepoch /\ ~r[k].superseded
    /\ r[k].status \in Busy =>
         r[p].status \in Busy /\ r[p].phase = "children"
    /\ r[k].status \in Bound =>
         \/ r[p].status \in Alive /\ r[p].phase = "children"
         \/ r[p].status \in {"failed", "cancelled"}
    /\ r[k].status \in {"failing", "failed"} =>
         r[p].status \in {"failing", "failed", "cancelling", "cancelled"}

(* Every row but the root, with its parent.                                *)
Under(r) == \A k \in Ids \ {Root} : UnderOK(r, k, Parent[k])

(* A row waiting for its children has one whose conclusion or settling     *)
(* will move it.                                                           *)
Waits(r, p) ==
    r[p].status \in Alive /\ r[p].phase = "children" =>
      \E k \in ChildrenForTask(r, p) :
        IF r[p].status \in Draining THEN r[k].status \in Busy
        ELSE r[k].status \in Alive

(* The batch of p is what its present task entry collects, slot by slot.   *)
Filled(r, b, p) ==
    /\ ChildrenForTask(r, p) = b[p]
    /\ \A j, k \in b[p] : r[j].slot = r[k].slot => j = k
    /\ \A j \in Kids(p) : r[j].status # "none" /\ r[j].ptepoch = r[p].tepoch =>
         \E k \in b[p] : r[k].slot = r[j].slot

(* A row that waits or collects has a batch, empty when an interrupted     *)
(* collect sent it on, whose rows are over when it collects; a failed row  *)
(* keeps its batch for a retry.                                            *)
Batches(r, b) ==
    \A p \in Ids :
      /\ r[p].status \in Alive \cup {"failed"} /\ ChildrenForTask(r, p) # {} =>
           Filled(r, b, p)
      /\ r[p].status \in Alive /\ r[p].phase # "" => Filled(r, b, p)
      /\ r[p].status \in Alive /\ r[p].phase = "collecting" =>
           \A k \in ChildrenForTask(r, p) : r[k].status \notin Alive

(* Only raised attempts are retired.                                       *)
Retired(r) == \A k \in Ids : r[k].superseded => r[k].status = "raised"

(* The tree, but for the waits.                                            *)
Sound(r, b) ==
    /\ r \in [Ids -> Row]
    /\ b \in [Ids -> SUBSET Ids]
    /\ r[Root].status # "none"
    /\ Held(r)
    /\ Agree(r)
    /\ Under(r)
    /\ Batches(r, b)
    /\ Retired(r)

(* The tree between two transactions.                                      *)
TreeInv(r, b) == Sound(r, b) /\ \A p \in Ids : Waits(r, p)

(* The inductive invariant: the tree, the bounds, and that a retry in      *)
(* progress still finds the root failed.                                   *)
IInv ==
    /\ TreeInv(row, batch)
    /\ verbs \in 0..MaxVerbs
    /\ asked \in 0..Retriers
    /\ asked > 0 => row[Root].status = "failed"
-----------------------------------------------------------------------------
(* The shape of the tree.                                                  *)

-----------------------------------------------------------------------------
(* Every row but the root has a parent, one step up its stack.             *)
LEMMA ParentFacts ==
    \A i \in Ids \ {Root} :
      /\ Parent[i] \in Ids
      /\ Stack[i] = Stack[Parent[i]] \cup {Parent[i]}
      /\ Parent[i] \notin Stack[Parent[i]]
  BY TreeAssumption DEF TreeAssumption

(* Induction from the root down, over a set of rows.                       *)
LEMMA TreeInduction ==
    ASSUME NEW S,
           \A i \in Ids : i = Root \/ Parent[i] \in S => i \in S
    PROVE  \A i \in Ids : i \in S
<1> DEFINE T == {i \in Ids : i \in S}
<1>1. \A i \in Ids : i = Root \/ Parent[i] \in T => i \in T
  OBVIOUS
<1>2. T \in SUBSET Ids
  OBVIOUS
<1> HIDE DEF T
<1>3. T = Ids
  BY <1>1, <1>2, RootedAssumption DEF RootedAssumption
<1> QED  BY <1>3 DEF T

(* The stack of a row: its ancestors, all of them, up to the root.         *)
LEMMA StackFacts ==
    \A i \in Ids :
      /\ Stack[i] \subseteq Ids
      /\ i \notin Stack[i]
      /\ i = Root => Stack[i] = {}
      /\ i # Root => Root \in Stack[i] /\ Parent[i] \in Stack[i]
      /\ \A q \in Stack[i] : Stack[q] \subseteq Stack[i]
<1> DEFINE S == {i \in Ids : \A q \in Stack[i] : Stack[q] \subseteq Stack[i]}
           T == {i \in Ids : i # Root => Root \in Stack[i]}
<1>0. \A i \in Ids : /\ Stack[i] \subseteq Ids
                     /\ i \notin Stack[i]
                     /\ i = Root => Stack[i] = {}
  BY TreeAssumption DEF TreeAssumption
<1>1. \A i \in Ids : i \in S
  <2>1. ASSUME NEW i \in Ids, i = Root \/ Parent[i] \in S
        PROVE  i \in S
    BY <2>1, <1>0, ParentFacts
  <2> QED
    <3> HIDE DEF S
    <3> QED BY <2>1, TreeInduction
<1>2. \A i \in Ids : i \in T
  <2>1. ASSUME NEW i \in Ids, i = Root \/ Parent[i] \in T
        PROVE  i \in T
    BY <2>1, <1>0, ParentFacts
  <2> QED
    <3> HIDE DEF T
    <3> QED BY <2>1, TreeInduction
<1> QED  BY <1>0, <1>1, <1>2, ParentFacts

(* Ancestors of one row are ancestors of one another.                      *)
LEMMA StackLinear ==
    \A i \in Ids : \A p, q \in Stack[i] :
      p = q \/ p \in Stack[q] \/ q \in Stack[p]
<1> DEFINE S == {i \in Ids : \A p, q \in Stack[i] :
                   p = q \/ p \in Stack[q] \/ q \in Stack[p]}
<1>1. ASSUME NEW i \in Ids, i = Root \/ Parent[i] \in S
      PROVE  i \in S
  BY <1>1, StackFacts, ParentFacts
<1>2. \A i \in Ids : i \in S
  <2> HIDE DEF S
  <2> QED BY <1>1, TreeInduction
<1> QED  BY <1>2

(* StepTo is the row below q on the way from q to k.                       *)
LEMMA StepFacts ==
    ASSUME NEW k \in Ids, NEW q \in Stack[k]
    PROVE  /\ StepTo(k, q) \in Stack[k] \cup {k}
           /\ StepTo(k, q) \in Ids \ {Root}
           /\ Parent[StepTo(k, q)] = q
           /\ \A c \in Stack[k] \cup {k} :
                Parent[c] = q => c = StepTo(k, q)
<1> DEFINE S == {i \in Ids : \A x \in Stack[i] :
                   \E c \in Stack[i] \cup {i} : Parent[c] = x}
<1>1. ASSUME NEW i \in Ids, i = Root \/ Parent[i] \in S
      PROVE  i \in S
  BY <1>1, StackFacts, ParentFacts
<1>2. \A i \in Ids : i \in S
  <2> HIDE DEF S
  <2> QED BY <1>1, TreeInduction
<1>3. \E c \in Stack[k] \cup {k} : Parent[c] = q
  BY <1>2
<1>4. StepTo(k, q) \in Stack[k] \cup {k} /\ Parent[StepTo(k, q)] = q
  BY <1>3 DEF StepTo
<1>5. \A c \in Stack[k] \cup {k} : c \in Ids
  BY StackFacts
<1>6. \A c \in Ids : Parent[c] = q => c # Root
  BY StackFacts, TreeAssumption DEF TreeAssumption
<1>7. ASSUME NEW c \in Stack[k] \cup {k}, NEW d \in Stack[k] \cup {k},
             Parent[c] = q, Parent[d] = q
      PROVE  c = d
  <2>1. c \in Ids /\ d \in Ids /\ c # Root /\ d # Root /\ q \in Ids
    BY <1>5, <1>6, <1>7, StackFacts
  <2>2. Stack[c] = Stack[q] \cup {q} /\ Stack[d] = Stack[q] \cup {q}
    BY <2>1, <1>7, ParentFacts
  <2>3. c = d \/ c \in Stack[d] \/ d \in Stack[c]
    BY StackLinear
  <2>4. c \notin Stack[c] /\ d \notin Stack[d]
    BY <2>1, StackFacts
  <2> QED  BY <2>2, <2>3, <2>4
<1> QED  BY <1>4, <1>5, <1>6, <1>7

-----------------------------------------------------------------------------
(* settleUp.                                                               *)

-----------------------------------------------------------------------------
(* Above a busy row every row is busy and waits.                           *)
LEMMA AncestorsBusy ==
    ASSUME NEW r, Under(r), NEW k \in Ids, r[k].status \in Busy
    PROVE  \A q \in Stack[k] : r[q].status \in Busy /\ r[q].phase = "children"
<1> DEFINE S == {i \in Ids : r[i].status \in Busy => \A q \in Stack[i] :
                   r[q].status \in Busy /\ r[q].phase = "children"}
<1>1. ASSUME NEW i \in Ids, i = Root \/ Parent[i] \in S
      PROVE  i \in S
  <2>1. CASE i = Root
    BY <2>1, StackFacts
  <2>2. CASE i # Root
    <3>1. /\ Parent[i] \in S /\ Parent[i] \in Ids
          /\ Stack[i] = Stack[Parent[i]] \cup {Parent[i]}
      BY <1>1, <2>2, ParentFacts
    <3>2. r[i].status \in Busy =>
            r[Parent[i]].status \in Busy /\ r[Parent[i]].phase = "children"
      BY <2>2 DEF Under, UnderOK
    <3> QED  BY <3>1, <3>2
  <2> QED  BY <2>1, <2>2
<1>2. \A i \in Ids : i \in S
  <2> HIDE DEF S
  <2> QED BY <1>1, TreeInduction
<1> QED  BY <1>2

(* Row k has settled; its parents have not heard of it yet.                *)
Settling(r, b, k) ==
    /\ Sound(r, b)
    /\ k # Root
    /\ r[k].status \in Terminal \cup {"paused"}
    /\ r[k].ptepoch = r[Parent[k]].tepoch /\ ~r[k].superseded
    /\ \A q \in Stack[k] : r[q].status \in Busy /\ r[q].phase = "children"
    /\ \A p \in Ids : p # Parent[k] => Waits(r, p)

(* A row settleUp settles has settled everything below it on the way.      *)
LEMMA PathBelow ==
    ASSUME NEW k \in Ids, NEW q \in Stack[k], NEW p \in Stack[k], q \in Stack[p]
    PROVE  /\ StepTo(k, q) # k
           /\ p = StepTo(k, q) \/ StepTo(k, q) \in Stack[p]
<1> DEFINE c == StepTo(k, q)
<1>1. c \in Stack[k] \cup {k} /\ c \in Ids \ {Root} /\ Parent[c] = q
  BY StepFacts
<1>2. Stack[c] = Stack[q] \cup {q}
  BY <1>1, ParentFacts
<1>3. q \in Ids /\ p \in Ids /\ p \notin Stack[q] /\ p # q
  BY StackFacts
<1>4. c # k
  BY <1>2, <1>3
<1>5. p = c \/ p \in Stack[c] \/ c \in Stack[p]
  BY <1>1, <1>4, StackLinear
<1> QED  BY <1>2, <1>3, <1>4, <1>5

(* The rows settleUp reaches: busy ancestors, each by its step.            *)
LEMMA ReachedFacts ==
    ASSUME NEW r, NEW k \in Ids
    PROVE  /\ Settled(r, k) \subseteq Reached(r, k)
           /\ Reached(r, k) \subseteq Stack[k]
           /\ \A q \in Reached(r, k) :
                SettledAt(r, k, q) <=> q \in Settled(r, k)
           /\ \A q \in Settled(r, k), i \in Stack[k] :
                q \in Stack[i] => i \in Settled(r, k)
           /\ k # Root => Parent[k] \in Reached(r, k)
           /\ \A q \in Settled(r, k) \ {Root} : Parent[q] \in Reached(r, k)
<1>1. Reached(r, k) \subseteq Stack[k] /\ Settled(r, k) \subseteq Stack[k]
  BY DEF Reached, Settled
<1>2. ASSUME NEW q \in Settled(r, k), NEW i \in Stack[k], q \in Stack[i]
      PROVE  i \in Settled(r, k)
  <2>1. \A p \in Stack[k] : p = i \/ i \in Stack[p] => q \in Stack[p]
    BY <1>2, StackFacts
  <2> QED  BY <1>2, <2>1 DEF Settled
<1>3. ASSUME NEW q \in Settled(r, k)
      PROVE  q \in Reached(r, k)
  <2>1. q \in Stack[k]  BY <1>1
  <2>2. /\ StepTo(k, q) \in Stack[k] \cup {k} /\ StepTo(k, q) \in Ids \ {Root}
        /\ Parent[StepTo(k, q)] = q
    BY <2>1, StepFacts
  <2>3. q \in Stack[StepTo(k, q)]
    BY <2>2, StackFacts
  <2> QED  BY <2>1, <2>2, <2>3, <1>2 DEF Reached
<1>4. ASSUME NEW q \in Reached(r, k)
      PROVE  SettledAt(r, k, q) <=> q \in Settled(r, k)
  <2>1. q \in Stack[k]  BY <1>1
  <2>2. ASSUME q \in Settled(r, k)  PROVE  SettledAt(r, k, q)
    BY <2>1, <2>2 DEF Settled
  <2>3. ASSUME SettledAt(r, k, q)  PROVE  q \in Settled(r, k)
    <3>1. ASSUME NEW p \in Stack[k], q \in Stack[p]
          PROVE  SettledAt(r, k, p)
      <4>1. StepTo(k, q) # k /\ (p = StepTo(k, q) \/ StepTo(k, q) \in Stack[p])
        BY <2>1, <3>1, PathBelow
      <4>2. StepTo(k, q) \in Settled(r, k)
        BY <4>1 DEF Reached
      <4> QED  BY <4>1, <4>2 DEF Settled
    <3> QED  BY <2>1, <2>3, <3>1 DEF Settled
  <2> QED  BY <2>2, <2>3
<1>5. k # Root => Parent[k] \in Reached(r, k)
  BY StackFacts, StepFacts DEF Reached
<1>6. ASSUME NEW q \in Settled(r, k) \ {Root}
      PROVE  Parent[q] \in Reached(r, k)
  <2>1. q \in Stack[k] /\ q \in Ids  BY <1>1, StackFacts
  <2>2. Parent[q] \in Stack[k]  BY <2>1, StackFacts
  <2>3. StepTo(k, Parent[q]) = q  BY <2>1, <2>2, StepFacts
  <2> QED  BY <2>2, <2>3 DEF Reached
<1> QED  BY <1>1, <1>2, <1>3, <1>4, <1>5, <1>6

(* The rows that count when q's step child c asks for its siblings.        *)
LEMMA StepChild ==
    ASSUME NEW r, NEW b, NEW k \in Ids, Settling(r, b, k), NEW q \in Stack[k]
    PROVE  LET c == StepTo(k, q) IN
           /\ c \in ChildrenForTask(r, q)
           /\ c = k \/ (c \in Stack[k] /\ r[c].status \in Busy)
           /\ \A i \in Ids : i \in Siblings(r, c) <=>
                /\ i \in Kids(q) /\ r[i].status # "none"
                /\ r[i].ptepoch = r[q].tepoch
           /\ \A i \in Siblings(r, c) \ {c} : i \notin Stack[k] \cup {k}
<1> DEFINE c == StepTo(k, q)
<1>1. /\ c \in Stack[k] \cup {k} /\ c \in Ids \ {Root} /\ Parent[c] = q
      /\ \A d \in Stack[k] \cup {k} : Parent[d] = q => d = c
  BY StepFacts
<1>2. c = k \/ (c \in Stack[k] /\ r[c].status \in Busy)
  BY <1>1 DEF Settling
<1>3. r[c].ptepoch = r[q].tepoch /\ ~r[c].superseded /\ r[c].status # "none"
  <2>1. CASE c = k
    BY <1>1, <2>1 DEF Settling, Terminal
  <2>2. CASE r[c].status \in Busy
    BY <1>1, <2>2 DEF Settling, Sound, Under, UnderOK, Bound, Busy, Draining
  <2> QED  BY <1>2, <2>1, <2>2
<1>4. c \in ChildrenForTask(r, q)
  BY <1>1, <1>3 DEF ChildrenForTask, Kids
<1>5. \A i \in Ids : i \in Siblings(r, c) <=>
                /\ i \in Kids(q) /\ r[i].status # "none"
                /\ r[i].ptepoch = r[q].tepoch
  BY <1>1, <1>3 DEF Siblings, Kids
<1>6. \A i \in Siblings(r, c) \ {c} : i \notin Stack[k] \cup {k}
  BY <1>1 DEF Siblings
<1> QED  BY <1>2, <1>4, <1>5, <1>6

(* What settleUp writes into a row.                                        *)
Untouched(x, y) ==
    /\ y.tepoch = x.tepoch /\ y.ptepoch = x.ptepoch /\ y.slot = x.slot
    /\ y.superseded = x.superseded /\ y.held = x.held
    /\ y.attempt = x.attempt /\ y.override = x.override

(* What settleUp does to one row: nothing, a wake, or a settle with its    *)
(* phase.                                                                  *)
WokenOrSettled(r, k, q, x, y) ==
    \/ /\ y = x
       /\ q \notin Settled(r, k)
       /\ q \notin Woken(r, k)
    \/ /\ q \in Woken(r, k) /\ q \notin Settled(r, k)
       /\ x.status = "running" /\ y.status = "running"
       /\ y.phase = "collecting"
    \/ /\ q \in Settled(r, k)
       /\ x.status = "pausing" /\ y.status = "paused"
       /\ y.phase = IF q \in Woken(r, k) THEN "collecting" ELSE "children"
    \/ /\ q \in Settled(r, k)
       /\ x.status = "failing" /\ y.status = "failed"
       /\ y.phase = ""
    \/ /\ q \in Settled(r, k)
       /\ x.status = "cancelling" /\ y.status = "cancelled"
       /\ y.phase \in {"", "children"}

(* settleUp, row by row.                                                   *)
LEMMA SettleEffect ==
    ASSUME NEW r, NEW b, NEW k \in Ids, Settling(r, b, k)
    PROVE  /\ settleUp(r, k) \in [Ids -> Row]
           /\ \A q \in Ids :
                /\ Untouched(r[q], settleUp(r, k)[q])
                /\ WokenOrSettled(r, k, q, r[q], settleUp(r, k)[q])
                /\ q \notin Reached(r, k) => settleUp(r, k)[q] = r[q]
<1> DEFINE R == Reached(r, k)
           st(q) == IF q \in Settled(r, k) THEN SettleDrained(r[q].status)
                    ELSE r[q].status
           ph(q) == PhaseAfter(r, k, q)
           y(q) == [r[q] EXCEPT !.phase = ph(q), !.status = st(q)]
<1>0. r \in [Ids -> Row]
  BY DEF Settling, Sound
<1>1. settleUp(r, k) = [q \in Ids |-> IF q \in R THEN y(q) ELSE r[q]]
  BY <1>0 DEF settleUp
<1>2. /\ Settled(r, k) \subseteq R /\ R \subseteq Stack[k]
      /\ \A q \in R : SettledAt(r, k, q) <=> q \in Settled(r, k)
  BY ReachedFacts
<1>3. Woken(r, k) \subseteq R
  BY DEF Woken
<1>4. ASSUME NEW q \in Ids
      PROVE  /\ settleUp(r, k)[q] \in Row
             /\ Untouched(r[q], settleUp(r, k)[q])
             /\ WokenOrSettled(r, k, q, r[q], settleUp(r, k)[q])
             /\ q \notin R => settleUp(r, k)[q] = r[q]
  <2>0. r[q] \in Row
    BY <1>0
  <2>1. CASE q \notin R
    <3>1. settleUp(r, k)[q] = r[q]
      BY <1>1, <2>1
    <3> QED
      BY <2>0, <2>1, <3>1, <1>2, <1>3 DEF Untouched, WokenOrSettled
  <2>2. CASE q \in R
    <3>1. settleUp(r, k)[q] = y(q)
      BY <1>1, <2>2
    <3>2. r[q].status \in Busy /\ r[q].phase = "children"
      BY <1>2, <2>2 DEF Settling
    <3>3. q \in Woken(r, k) /\ r[q].status \in Draining => q \in Settled(r, k)
      <4> SUFFICES ASSUME q \in Woken(r, k), r[q].status \in Draining
                   PROVE  SettledAt(r, k, q)
        BY <1>2, <2>2
      <4>1. \A s \in Siblings(r, StepTo(k, q)) \ {StepTo(k, q)} :
              r[s].status \in Terminal
        BY DEF Woken
      <4>2. Idle(r, StepTo(k, q))
        BY <4>1 DEF Idle, Terminal, Busy, Draining
      <4> QED  BY <3>2, <4>2 DEF SettledAt
    <3>4. q \in Settled(r, k) => r[q].status \in Draining
      BY <1>2, <2>2 DEF SettledAt
    <3>5. st(q) \in Status /\ ph(q) \in {"", "children", "collecting"}
      BY <3>2, <3>4 DEF PhaseAfter, SettleDrained, Status, Busy, Draining, Terminal
    <3>6. /\ y(q) \in Row /\ Untouched(r[q], y(q))
          /\ y(q).status = st(q) /\ y(q).phase = ph(q)
      <4> HIDE DEF st, ph
      <4> QED  BY <2>0, <3>5 DEF Row, Untouched
    <3>7. /\ q \notin Settled(r, k) /\ q \notin Woken(r, k) => y(q) = r[q]
      <4>1. q \notin Settled(r, k) /\ q \notin Woken(r, k) =>
              st(q) = r[q].status /\ ph(q) = r[q].phase
        BY DEF PhaseAfter
      <4> HIDE DEF st, ph
      <4> QED  BY <2>0, <4>1 DEF Row
    <3>8. WokenOrSettled(r, k, q, r[q], y(q))
      <4>1. CASE q \notin Settled(r, k) /\ q \notin Woken(r, k)
        BY <3>7, <4>1 DEF WokenOrSettled
      <4>2. CASE q \notin Settled(r, k) /\ q \in Woken(r, k)
        <5>1. r[q].status = "running"
          BY <3>2, <3>3, <4>2 DEF Busy
        <5>2. st(q) = "running" /\ ph(q) = "collecting"
          BY <4>2, <5>1 DEF PhaseAfter
        <5> QED  BY <4>2, <3>6, <5>1, <5>2 DEF WokenOrSettled
      <4>3. CASE q \in Settled(r, k) /\ r[q].status = "pausing"
        <5>1. st(q) = "paused"
              /\ ph(q) = IF q \in Woken(r, k) THEN "collecting" ELSE "children"
          BY <4>3, <3>2 DEF PhaseAfter, SettleDrained
        <5> QED  BY <4>3, <3>6, <5>1 DEF WokenOrSettled
      <4>4. CASE q \in Settled(r, k) /\ r[q].status = "failing"
        <5>1. st(q) = "failed" /\ ph(q) = ""
          BY <4>4 DEF PhaseAfter, SettleDrained
        <5> QED  BY <4>4, <3>6, <5>1 DEF WokenOrSettled
      <4>5. CASE q \in Settled(r, k) /\ r[q].status = "cancelling"
        <5>1. st(q) = "cancelled" /\ ph(q) \in {"", "children"}
          BY <4>5, <3>2 DEF PhaseAfter, SettleDrained
        <5> QED  BY <4>5, <3>6, <5>1 DEF WokenOrSettled
      <4> QED  BY <4>1, <4>2, <4>3, <4>4, <4>5, <3>4 DEF Draining
    <3> QED  BY <2>2, <3>1, <3>6, <3>8
  <2> QED  BY <2>1, <2>2
<1>5. settleUp(r, k) \in [Ids -> Row]
  <2>1. settleUp(r, k) = [q \in Ids |-> settleUp(r, k)[q]]
    BY <1>1
  <2> QED  BY <2>1, <1>4
<1> QED  BY <1>4, <1>5

(* Nothing below a settled row is busy.                                    *)
LEMMA QuietBelow ==
    ASSUME NEW r, NEW b, NEW k \in Ids, Settling(r, b, k),
           NEW q \in Settled(r, k), NEW i \in Ids, q \in Stack[i]
    PROVE  settleUp(r, k)[i].status \notin Busy
<1> DEFINE S == {j \in Ids : q \in Stack[j] /\ j \notin Stack[k] \cup {k} =>
                               r[j].status \notin Busy}
<1>0. /\ Settled(r, k) \subseteq Stack[k]
      /\ Settled(r, k) \subseteq Reached(r, k)
      /\ Reached(r, k) \subseteq Stack[k]
      /\ \A x \in Reached(r, k) : SettledAt(r, k, x) <=> x \in Settled(r, k)
      /\ \A j \in Stack[k] : q \in Stack[j] => j \in Settled(r, k)
  BY ReachedFacts
<1>1. ASSUME NEW j \in Ids, j = Root \/ Parent[j] \in S
      PROVE  j \in S
  <2> SUFFICES ASSUME q \in Stack[j], j \notin Stack[k] \cup {k},
                      r[j].status \in Busy
               PROVE  FALSE
    OBVIOUS
  <2>1. j # Root
    BY StackFacts
  <2>2. /\ Parent[j] \in S /\ Parent[j] \in Ids
        /\ Stack[j] = Stack[Parent[j]] \cup {Parent[j]}
    BY <1>1, <2>1, ParentFacts
  <2>3. UnderOK(r, j, Parent[j])
    BY <2>1 DEF Settling, Sound, Under
  <2>4. r[Parent[j]].status \in Busy /\ r[j].ptepoch = r[Parent[j]].tepoch
    BY <2>3 DEF UnderOK, Bound
  <2>5. CASE Parent[j] = k
    BY <2>4, <2>5 DEF Settling, Terminal, Busy, Draining
  <2>6. CASE Parent[j] \in Stack[k]
    <3>1. Parent[j] \in Settled(r, k)
      BY <1>0, <2>2, <2>6
    <3>2. SettledAt(r, k, Parent[j])
      BY <1>0, <3>1
    <3>3. j \in Siblings(r, StepTo(k, Parent[j])) /\ j # StepTo(k, Parent[j])
      <4>1. j \in Kids(Parent[j]) /\ r[j].status # "none"
        BY DEF Kids, Busy, Draining
      <4>2. StepTo(k, Parent[j]) \in Stack[k] \cup {k}
        BY <2>6, StepFacts
      <4> QED  BY <4>1, <4>2, <2>4, <2>6, StepChild
    <3> QED  BY <3>2, <3>3 DEF SettledAt, Idle
  <2>7. CASE Parent[j] \notin Stack[k] \cup {k}
    <3>1. q \in Stack[Parent[j]]
      BY <1>0, <2>2, <2>7
    <3> QED  BY <2>2, <2>4, <2>7, <3>1
  <2> QED  BY <2>5, <2>6, <2>7
<1>2. \A j \in Ids : j \in S
  <2> HIDE DEF S
  <2> QED BY <1>1, TreeInduction
<1>3. WokenOrSettled(r, k, i, r[i], settleUp(r, k)[i])
      /\ (i \notin Reached(r, k) => settleUp(r, k)[i] = r[i])
  BY SettleEffect
<1>4. CASE i \in Stack[k]
  <2>1. i \in Settled(r, k)
    BY <1>0, <1>4
  <2> QED  BY <1>3, <2>1 DEF WokenOrSettled, Busy, Draining
<1>5. CASE i = k
  <2>1. i \notin Reached(r, k)
    BY <1>0, <1>5, StackFacts
  <2> QED  BY <1>3, <1>5, <2>1 DEF Settling, Terminal, Busy, Draining
<1>6. CASE i \notin Stack[k] \cup {k}
  <2>1. i \notin Reached(r, k)
    BY <1>0, <1>6
  <2> QED  BY <1>2, <1>3, <1>6, <2>1
<1> QED  BY <1>4, <1>5, <1>6

(* A woken row has a batch that is over.                                   *)
LEMMA WokenBatch ==
    ASSUME NEW r, NEW b, NEW k \in Ids, Settling(r, b, k),
           NEW q \in Woken(r, k), NEW i \in Kids(q),
           r[i].status # "none", r[i].ptepoch = r[q].tepoch
    PROVE  settleUp(r, k)[i].status \in Terminal
<1> DEFINE c == StepTo(k, q)
<1>1. q \in Reached(r, k) /\ q \in Stack[k] /\ i \in Ids
  BY ReachedFacts DEF Woken, Kids
<1>2. /\ Concluded(r, k, c)
      /\ \A s \in Siblings(r, c) \ {c} : r[s].status \in Terminal
  BY DEF Woken
<1>3. /\ Reached(r, k) \subseteq Stack[k]
      /\ c = k \/ c \in Settled(r, k)
      /\ c \in Stack[k] \cup {k} /\ c \in Ids
  BY <1>1, ReachedFacts, StepFacts DEF Reached
<1>4. CASE i # c
  <2>1. i \in Siblings(r, c) \ {c}
    BY <1>1, <1>4, StepChild
  <2>2. i \notin Reached(r, k)
    BY <1>1, <1>3, <2>1, StepChild
  <2> QED  BY <1>1, <1>2, <2>1, <2>2, SettleEffect
<1>5. CASE i = c /\ c = k
  <2>1. i \notin Reached(r, k) /\ r[i].status \in Terminal
    BY <1>2, <1>3, <1>5, StackFacts DEF Concluded
  <2> QED  BY <1>1, <2>1, SettleEffect
<1>6. CASE i = c /\ c # k
  <2>1. r[i].status \in {"failing", "cancelling"} /\ i \in Settled(r, k)
    BY <1>2, <1>3, <1>6 DEF Concluded
  <2>2. WokenOrSettled(r, k, i, r[i], settleUp(r, k)[i])
    BY <1>1, SettleEffect
  <2> QED  BY <2>1, <2>2 DEF WokenOrSettled, Terminal
<1> QED  BY <1>4, <1>5, <1>6

(* A settle keeps the rows in step with the root.                          *)
LEMMA SettleAgree ==
    ASSUME NEW r, NEW b, NEW k \in Ids, Settling(r, b, k)
    PROVE  Agree(settleUp(r, k))
<1> SUFFICES ASSUME NEW i \in Ids, settleUp(r, k)[i].status \in Bound
             PROVE  settleUp(r, k)[i].status
                      \in Allowed(settleUp(r, k)[Root].status)
  BY DEF Agree
<1>0. Root \in Ids
  BY TreeAssumption DEF TreeAssumption
<1>1. /\ WokenOrSettled(r, k, i, r[i], settleUp(r, k)[i])
      /\ WokenOrSettled(r, k, Root, r[Root], settleUp(r, k)[Root])
  BY <1>0, SettleEffect
<1>2. r[i].status \in Bound
  BY <1>1 DEF WokenOrSettled, Bound, Busy, Draining
<1>3. r[i].status \in Allowed(r[Root].status)
  BY <1>2 DEF Settling, Sound, Agree
<1>4. CASE Root \notin Settled(r, k)
  <2>1. settleUp(r, k)[Root].status = r[Root].status
    BY <1>1, <1>4 DEF WokenOrSettled
  <2> QED  BY <1>1, <1>3, <2>1 DEF WokenOrSettled, Allowed
<1>5. CASE Root \in Settled(r, k) /\ i = Root
  BY <1>1, <1>5 DEF WokenOrSettled, Allowed
<1>6. CASE Root \in Settled(r, k) /\ i # Root
  <2>1. Root \in Stack[i]
    BY <1>6, StackFacts
  <2>2. settleUp(r, k)[i].status \notin Busy
    BY <1>6, <2>1, QuietBelow
  <2> QED
    BY <1>1, <1>3, <1>6, <2>2 DEF WokenOrSettled, Allowed, Busy, Draining
<1> QED  BY <1>4, <1>5, <1>6

(* A settle keeps every row in step with its parent.                       *)
LEMMA SettleUnder ==
    ASSUME NEW r, NEW b, NEW k \in Ids, Settling(r, b, k)
    PROVE  Under(settleUp(r, k))
<1> DEFINE z == settleUp(r, k)
<1> SUFFICES ASSUME NEW i \in Ids \ {Root}, NEW p \in Ids, p = Parent[i]
             PROVE  UnderOK(z, i, p)
  BY ParentFacts DEF Under
<1>1. UnderOK(r, i, p)
  BY DEF Settling, Sound, Under
<1>2. /\ Untouched(r[i], z[i]) /\ WokenOrSettled(r, k, i, r[i], z[i])
      /\ Untouched(r[p], z[p]) /\ WokenOrSettled(r, k, p, r[p], z[p])
  BY SettleEffect
<1>3. p \in Settled(r, k) => z[i].status \notin Busy
  BY QuietBelow, StackFacts
<1>4. p \in Woken(r, k) /\ r[i].status # "none" /\ r[i].ptepoch = r[p].tepoch =>
        z[i].status \in Terminal
  BY WokenBatch DEF Kids
<1>5. r[i].status \in Bound => r[i].status \in Allowed(r[Root].status)
  BY DEF Settling, Sound, Agree
<1>6. r[p].status \in Bound => r[p].status \in Allowed(r[Root].status)
  BY DEF Settling, Sound, Agree
<1> HIDE DEF z
<1>7. z[i].status # "none" => z[p].status # "none"
  BY <1>1, <1>2 DEF UnderOK, WokenOrSettled
<1>8. /\ z[i].status # "none" => z[i].ptepoch <= z[p].tepoch
      /\ z[i].status \in Bound =>
           z[i].ptepoch = z[p].tepoch /\ ~z[i].superseded
  BY <1>1, <1>2 DEF UnderOK, WokenOrSettled, Untouched, Bound, Busy, Draining
<1>9. z[i].status # "none" /\ z[p].status \in Alive /\ z[p].phase = "" =>
         z[i].ptepoch < z[p].tepoch
  BY <1>1, <1>2 DEF UnderOK, WokenOrSettled, Untouched, Alive, Busy, Draining
<1>10. z[i].status \in Busy =>
         z[p].status \in Busy /\ z[p].phase = "children"
  BY <1>1, <1>2, <1>3, <1>4
     DEF UnderOK, WokenOrSettled, Bound, Terminal, Busy, Draining
<1>11. z[i].status \in {"failing", "failed"} =>
         z[p].status \in {"failing", "failed", "cancelling", "cancelled"}
  BY <1>1, <1>2 DEF UnderOK, WokenOrSettled
<1>12. z[i].status \in Bound =>
         \/ z[p].status \in Alive /\ z[p].phase = "children"
         \/ z[p].status \in {"failed", "cancelled"}
  <2> SUFFICES ASSUME z[i].status \in Bound
               PROVE  \/ z[p].status \in Alive /\ z[p].phase = "children"
                      \/ z[p].status \in {"failed", "cancelled"}
    OBVIOUS
  <2>1. r[i].status \in Bound
    BY <1>2 DEF WokenOrSettled, Bound, Busy, Draining
  <2>2. r[i].status # "none" /\ r[i].ptepoch = r[p].tepoch
        /\ (\/ r[p].status \in Alive /\ r[p].phase = "children"
            \/ r[p].status \in {"failed", "cancelled"})
    BY <1>1, <2>1 DEF UnderOK, Bound, Busy, Draining
  <2>3. CASE p \notin Woken(r, k)
    BY <1>2, <2>2, <2>3 DEF WokenOrSettled, Alive, Busy, Draining
  <2>4. CASE p \in Woken(r, k)
    <3>1. z[i].status \in {"failed", "cancelled"}
      BY <1>4, <2>2, <2>4 DEF Terminal, Bound, Busy, Draining
    <3>2. r[i].status \in {"failed", "failing", "cancelling", "cancelled"}
      BY <1>2, <3>1 DEF WokenOrSettled
    <3>3. z[p].status \in {"running", "paused"} =>
            r[p].status \in {"running", "pausing"}
      BY <1>2, <2>4 DEF WokenOrSettled
    <3>4. r[p].status \notin {"running", "pausing"}
      BY <1>1, <1>5, <1>6, <2>1, <3>2 DEF UnderOK, Allowed, Bound, Busy, Draining
    <3> QED  BY <1>2, <2>4, <3>3, <3>4 DEF WokenOrSettled
  <2> QED  BY <2>3, <2>4
<1> QED  BY <1>7, <1>8, <1>9, <1>10, <1>11, <1>12 DEF UnderOK

-----------------------------------------------------------------------------
(* Which rows a collect reads depends on keys that most steps leave alone. *)
SameKeys(r, z) ==
    \A i \in Ids :
      /\ z[i].status = "none" <=> r[i].status = "none"
      /\ z[i].tepoch = r[i].tepoch /\ z[i].ptepoch = r[i].ptepoch
      /\ z[i].superseded = r[i].superseded /\ z[i].slot = r[i].slot

(* The batches depend on those columns alone.                              *)
LEMMA KeysDecide ==
    ASSUME NEW r, NEW z, NEW b, b \in [Ids -> SUBSET Ids], SameKeys(r, z),
           NEW p \in Ids
    PROVE  /\ ChildrenForTask(z, p) = ChildrenForTask(r, p)
           /\ Filled(r, b, p) => Filled(z, b, p)
<1>1. ChildrenForTask(z, p) = ChildrenForTask(r, p)
  BY DEF SameKeys, ChildrenForTask, Kids
<1>2. b[p] \subseteq Ids /\ Kids(p) \subseteq Ids
  BY DEF Kids
<1>3. \A j \in Ids : z[j].slot = r[j].slot
  BY DEF SameKeys
<1>4. ASSUME Filled(r, b, p)  PROVE  Filled(z, b, p)
  <2>1. \A j, k \in b[p] : z[j].slot = z[k].slot => j = k
    BY <1>2, <1>3, <1>4 DEF Filled
  <2>2. ASSUME NEW j \in Kids(p), z[j].status # "none", z[j].ptepoch = z[p].tepoch
        PROVE  \E k \in b[p] : z[k].slot = z[j].slot
    <3>1. r[j].status # "none" /\ r[j].ptepoch = r[p].tepoch
      BY <1>2, <2>2 DEF SameKeys
    <3>2. PICK k \in b[p] : r[k].slot = r[j].slot
      BY <1>4, <3>1 DEF Filled
    <3> QED  BY <1>2, <1>3, <3>2
  <2> QED  BY <1>1, <1>4, <2>1, <2>2 DEF Filled
<1> QED  BY <1>1, <1>4

(* A settle keeps the batches.                                             *)
LEMMA SettleBatches ==
    ASSUME NEW r, NEW b, NEW k \in Ids, Settling(r, b, k)
    PROVE  Batches(settleUp(r, k), b)
<1> DEFINE z == settleUp(r, k)
<1>0. b \in [Ids -> SUBSET Ids] /\ Batches(r, b)
  BY DEF Settling, Sound
<1>1. \A q \in Ids : Untouched(r[q], z[q]) /\ WokenOrSettled(r, k, q, r[q], z[q])
  BY SettleEffect
<1>2. SameKeys(r, z)
  <2> HIDE DEF z
  <2> QED  BY <1>1 DEF SameKeys, Untouched, WokenOrSettled
<1>3. ASSUME NEW p \in Ids, z[p].status \in Alive, z[p].phase = "collecting",
             NEW i \in ChildrenForTask(z, p)
      PROVE  z[i].status \notin Alive
  <2>1. i \in ChildrenForTask(r, p) /\ i \in Ids
    BY <1>0, <1>2, KeysDecide DEF ChildrenForTask, Kids
  <2>2. CASE p \in Woken(r, k)
    <3>1. i \in Kids(p) /\ r[i].status # "none" /\ r[i].ptepoch = r[p].tepoch
      BY <2>1 DEF ChildrenForTask
    <3>2. z[i].status \in Terminal
      BY <2>2, <3>1, WokenBatch
    <3> QED  BY <3>2 DEF Terminal, Alive, Busy, Draining
  <2>3. CASE p \notin Woken(r, k)
    <3> HIDE DEF z
    <3>1. z[p] = r[p]
      BY <1>1, <1>3, <2>3 DEF WokenOrSettled
    <3>2. r[i].status \notin Alive
      BY <1>0, <1>3, <2>1, <3>1 DEF Batches
    <3> QED  BY <1>1, <2>1, <3>2 DEF WokenOrSettled, Alive, Busy, Draining
  <2> QED  BY <2>2, <2>3
<1> HIDE DEF z
<1>4. ASSUME NEW p \in Ids
      PROVE  /\ z[p].status \in Alive \cup {"failed"} =>
                  r[p].status \in Alive \cup {"failed"}
             /\ z[p].status \in Alive /\ z[p].phase # "" =>
                  r[p].status \in Alive /\ r[p].phase # ""
  <2>1. WokenOrSettled(r, k, p, r[p], z[p])
    BY <1>1
  <2>2. p \in Woken(r, k) \/ p \in Settled(r, k) => r[p].phase = "children"
    <3>1. Woken(r, k) \subseteq Stack[k] /\ Settled(r, k) \subseteq Stack[k]
      BY ReachedFacts DEF Woken
    <3> QED  BY <3>1 DEF Settling
  <2> QED  BY <2>1, <2>2 DEF WokenOrSettled, Alive, Busy, Draining
<1>5. ASSUME NEW p \in Ids, z[p].status \in Alive \cup {"failed"},
             ChildrenForTask(z, p) # {}
      PROVE  Filled(z, b, p)
  <2>1. ChildrenForTask(r, p) # {}
    BY <1>0, <1>2, <1>5, KeysDecide
  <2>2. Filled(r, b, p)
    BY <1>0, <1>4, <1>5, <2>1 DEF Batches
  <2> QED  BY <1>0, <1>2, <2>2, KeysDecide
<1>6. ASSUME NEW p \in Ids, z[p].status \in Alive, z[p].phase # ""
      PROVE  Filled(z, b, p)
  <2>1. Filled(r, b, p)
    BY <1>0, <1>4, <1>6 DEF Batches
  <2> QED  BY <1>0, <1>2, <2>1, KeysDecide
<1> USE DEF z
<1> QED  BY <1>3, <1>5, <1>6 DEF Batches

(* After a settle nobody waits for nothing.                                *)
LEMMA SettleWaits ==
    ASSUME NEW r, NEW b, NEW k \in Ids, Settling(r, b, k), NEW p \in Ids
    PROVE  Waits(settleUp(r, k), p)
<1> DEFINE z == settleUp(r, k)
           c == StepTo(k, p)
<1> SUFFICES ASSUME z[p].status \in Alive, z[p].phase = "children"
             PROVE  \E i \in ChildrenForTask(z, p) :
                      IF z[p].status \in Draining THEN z[i].status \in Busy
                      ELSE z[i].status \in Alive
  BY DEF Waits
<1>0. b \in [Ids -> SUBSET Ids] /\ Under(r) /\ r \in [Ids -> Row]
  BY DEF Settling, Sound
<1>1. \A q \in Ids : /\ Untouched(r[q], z[q])
                     /\ WokenOrSettled(r, k, q, r[q], z[q])
                     /\ q \notin Reached(r, k) => z[q] = r[q]
  BY SettleEffect
<1>2. SameKeys(r, z)
  <2> HIDE DEF z
  <2> QED  BY <1>1 DEF SameKeys, Untouched, WokenOrSettled
<1>3. ChildrenForTask(z, p) = ChildrenForTask(r, p)
  BY <1>0, <1>2, KeysDecide
<1>4. ChildrenForTask(r, p) \subseteq Ids \ {Root}
      /\ \A i \in ChildrenForTask(r, p) : Parent[i] = p
  BY TreeAssumption DEF TreeAssumption, ChildrenForTask, Kids
<1>5. CASE p \notin Reached(r, k)
  <2>1. z[p] = r[p] /\ (k # Root => p # Parent[k])
    BY <1>1, <1>5, ReachedFacts
  <2>2. PICK i \in ChildrenForTask(r, p) :
             IF r[p].status \in Draining THEN r[i].status \in Busy
             ELSE r[i].status \in Alive
    BY <2>1 DEF Settling, Waits
  <2>3. i \notin Settled(r, k)
    BY <1>4, <1>5, ReachedFacts
  <2>4. z[i].status = r[i].status
    <3> HIDE DEF z
    <3> QED  BY <1>1, <1>4, <2>3 DEF WokenOrSettled
  <2> QED  BY <1>3, <2>1, <2>2, <2>4
<1>6. CASE p \in Reached(r, k)
  <2>0. p \in Stack[k] /\ r[p].status \in Busy /\ r[p].phase = "children"
    BY <1>6, ReachedFacts DEF Settling
  <2>1. /\ c \in ChildrenForTask(r, p)
        /\ \A i \in Ids : i \in Siblings(r, c) <=>
             /\ i \in Kids(p) /\ r[i].status # "none"
             /\ r[i].ptepoch = r[p].tepoch
        /\ \A i \in Siblings(r, c) \ {c} : i \notin Stack[k] \cup {k}
    BY <2>0, StepChild
  <2>2. ASSUME NEW s \in Siblings(r, c) \ {c}, r[s].status \notin Terminal
        PROVE  s \in ChildrenForTask(r, p) /\ z[s] = r[s] /\ r[s].status \in Alive
    <3>1. s \in Ids /\ s \in Kids(p) /\ r[s].status # "none"
          /\ r[s].ptepoch = r[p].tepoch
      BY <2>1 DEF Siblings
    <3>2. s \in Ids \ {Root} /\ Parent[s] = p
      BY <3>1, TreeAssumption DEF TreeAssumption, Kids
    <3>3. r[s].status \in Alive
      BY <1>0, <2>2, <3>1 DEF Row, Status, Alive
    <3>4. ~r[s].superseded
      BY <1>0, <3>2, <3>3 DEF Under, UnderOK, Alive, Bound
    <3>5. s \notin Reached(r, k)
      BY <2>1, ReachedFacts
    <3> QED  BY <1>1, <3>1, <3>3, <3>4, <3>5 DEF ChildrenForTask
  <2>3. CASE z[p].status \in Draining
    <3>1. p \notin Settled(r, k) /\ z[p].status = r[p].status
      <4> HIDE DEF z
      <4> QED  BY <1>1, <2>3 DEF WokenOrSettled, Draining
    <3>2. ~Idle(r, c)
      BY <1>6, <2>0, <2>3, <3>1, ReachedFacts DEF SettledAt
    <3>3. PICK s \in Siblings(r, c) \ {c} : r[s].status \in Busy
      BY <3>2 DEF Idle
    <3>4. r[s].status \notin Terminal
      BY <3>3 DEF Busy, Draining, Terminal
    <3>5. s \in ChildrenForTask(z, p) /\ z[s].status \in Busy
      BY <1>3, <2>2, <3>3, <3>4
    <3> QED  BY <2>3, <3>5
  <2>4. CASE z[p].status \notin Draining
    <3>1. p \notin Woken(r, k)
      <4> HIDE DEF z
      <4> QED  BY <1>1, <2>0 DEF WokenOrSettled, Alive, Busy, Draining
    <3>2. \/ ~Concluded(r, k, c)
          \/ \E s \in Siblings(r, c) \ {c} : r[s].status \notin Terminal
      BY <1>6, <2>0, <3>1 DEF Woken
    <3>3. CASE ~Concluded(r, k, c)
      <4>1. c \in Ids
        BY <1>4, <2>1
      <4>2. z[c].status \in Alive
        <5>1. CASE c = k
          <6>1. c \notin Reached(r, k)
            BY <5>1, ReachedFacts, StackFacts
          <6>2. r[c].status \in Alive
            BY <3>3, <5>1 DEF Concluded, Settling, Alive
          <6> QED  BY <1>1, <4>1, <6>1, <6>2
        <5>2. CASE c # k
          <6>1. c \in Settled(r, k) /\ r[c].status \notin {"failing", "cancelling"}
            BY <1>6, <3>3, <5>2 DEF Reached, Concluded
          <6>2. WokenOrSettled(r, k, c, r[c], z[c])
            BY <1>1, <4>1
          <6> HIDE DEF z, c
          <6> QED  BY <6>1, <6>2 DEF WokenOrSettled, Alive
        <5> QED  BY <5>1, <5>2
      <4> QED  BY <1>3, <2>1, <2>4, <4>2
    <3>4. ASSUME NEW s \in Siblings(r, c) \ {c}, r[s].status \notin Terminal
          PROVE  \E i \in ChildrenForTask(z, p) :
                   IF z[p].status \in Draining THEN z[i].status \in Busy
                   ELSE z[i].status \in Alive
      <4>1. s \in ChildrenForTask(z, p) /\ z[s].status \in Alive
        BY <1>3, <2>2, <3>4
      <4> QED  BY <2>4, <4>1
    <3> QED  BY <3>2, <3>3, <3>4
  <2> QED  BY <2>3, <2>4
<1> QED  BY <1>5, <1>6

(* settleUp brings the tree back to its invariant.                         *)
LEMMA SettleUpSound ==
    ASSUME NEW r, NEW b, NEW k \in Ids, Settling(r, b, k)
    PROVE  TreeInv(settleUp(r, k), b)
<1> DEFINE z == settleUp(r, k)
<1>0. Root \in Ids
  BY TreeAssumption DEF TreeAssumption
<1>1. z \in [Ids -> Row] /\
      \A q \in Ids : Untouched(r[q], z[q]) /\ WokenOrSettled(r, k, q, r[q], z[q])
  BY SettleEffect
<1>2. Agree(z) /\ Under(z) /\ Batches(z, b) /\ \A p \in Ids : Waits(z, p)
  BY SettleAgree, SettleUnder, SettleBatches, SettleWaits
<1> HIDE DEF z
<1>3. z[Root].status # "none"
  BY <1>0, <1>1 DEF Settling, Sound, WokenOrSettled
<1>4. Held(z)
  <2>1. \A i \in Stack[k] : i \in Ids /\ r[i].held = ""
    BY StackFacts DEF Settling, Sound, Held
  <2>2. \A i \in Ids : i \in Woken(r, k) \/ i \in Settled(r, k) => r[i].held = ""
    BY <2>1, ReachedFacts DEF Woken
  <2>3. \A i \in Ids : z[i].held # "" => z[i] = r[i]
    BY <1>1, <2>2 DEF Untouched, WokenOrSettled
  <2> QED  BY <2>3 DEF Settling, Sound, Held
<1>5. Retired(z)
  <2>1. \A i \in Ids : z[i].superseded => r[i].status = "raised"
    BY <1>1 DEF Settling, Sound, Retired, Untouched
  <2>2. \A i \in Ids : r[i].status = "raised" => z[i].status = "raised"
    BY <1>1 DEF WokenOrSettled
  <2> QED  BY <2>1, <2>2 DEF Retired
<1> USE DEF z
<1> QED  BY <1>1, <1>2, <1>3, <1>4, <1>5 DEF TreeInv, Sound, Settling

-----------------------------------------------------------------------------
(* PauseTree and CancelTree.                                               *)

-----------------------------------------------------------------------------
(* Sound but for the agreement with the root.                              *)
Local(r, b) ==
    /\ r \in [Ids -> Row]
    /\ b \in [Ids -> SUBSET Ids]
    /\ Held(r)
    /\ Under(r)
    /\ Batches(r, b)
    /\ Retired(r)

(* The two stops, and that a stopped row has only rows to stop below it.   *)
Stop(r, from, draining, stopped) ==
    /\ \/ from = {"running"} /\ draining = "pausing" /\ stopped = "paused"
       \/ /\ from = {"running", "paused"}
          /\ draining = "cancelling" /\ stopped = "cancelled"
    /\ \A i \in Ids \ {Root} :
         r[Parent[i]].status \in from /\ r[i].status \in Bound =>
           r[i].status \in from

(* What a stop does to one row.                                            *)
StoppedRow(r, from, draining, stopped, i, y) ==
    \/ r[i].status \notin from /\ y = r[i]
    \/ /\ r[i].status \in from
       /\ y = [r[i] EXCEPT !.status = IF InFlight(r, i) THEN draining
                                      ELSE stopped]
       /\ y.status = IF InFlight(r, i) THEN draining ELSE stopped
       /\ y.phase = r[i].phase
       /\ Untouched(r[i], y)

(* StopTree, row by row.                                                   *)
LEMMA StopEffect ==
    ASSUME NEW r, r \in [Ids -> Row], NEW from, NEW draining, NEW stopped,
           Stop(r, from, draining, stopped)
    PROVE  /\ StopTree(r, from, draining, stopped) \in [Ids -> Row]
           /\ \A i \in Ids : StoppedRow(r, from, draining, stopped, i,
                               StopTree(r, from, draining, stopped)[i])
<1> DEFINE z == StopTree(r, from, draining, stopped)
           st(i) == IF InFlight(r, i) THEN draining ELSE stopped
<1>1. z = [i \in Ids |-> IF r[i].status \in from
                         THEN [r[i] EXCEPT !.status = st(i)] ELSE r[i]]
  BY DEF StopTree
<1>2. ASSUME NEW i \in Ids
      PROVE  z[i] \in Row /\ StoppedRow(r, from, draining, stopped, i, z[i])
  <2>1. st(i) \in Status
    BY DEF Stop, Status, Busy, Draining, Terminal
  <2>2. r[i] \in Row
    OBVIOUS
  <2>3. z[i] = IF r[i].status \in from
               THEN [r[i] EXCEPT !.status = st(i)] ELSE r[i]
    BY <1>1
  <2>4. [r[i] EXCEPT !.status = st(i)] \in Row
        /\ [r[i] EXCEPT !.status = st(i)].status = st(i)
        /\ [r[i] EXCEPT !.status = st(i)].phase = r[i].phase
        /\ Untouched(r[i], [r[i] EXCEPT !.status = st(i)])
    <3> HIDE DEF st
    <3> QED  BY <2>1, <2>2 DEF Row, Untouched
  <2> HIDE DEF z
  <2> QED  BY <2>2, <2>3, <2>4 DEF StoppedRow
<1>3. z = [i \in Ids |-> z[i]]
  BY <1>1
<1> HIDE DEF z
<1>4. z \in [Ids -> Row]
  BY <1>2, <1>3
<1> USE DEF z
<1> QED  BY <1>2, <1>4

(* A row in flight is busy, and so is everything above it.                 *)
LEMMA FlightFacts ==
    ASSUME NEW r, NEW b, Local(r, b), NEW i \in Ids, InFlight(r, i)
    PROVE  /\ r[i].status \in Busy
           /\ i # Root => InFlight(r, Parent[i])
           /\ InFlight(r, Root)
           /\ r[i].phase = "children" =>
                \E c \in ChildrenForTask(r, i) :
                  r[c].status \in Busy /\ InFlight(r, c)
<1>0. Root \in Ids
  BY TreeAssumption DEF TreeAssumption
<1>1. PICK h \in Ids : r[h].held # "" /\ (h = i \/ i \in Stack[h])
  BY DEF InFlight
<1>2. r[h].status \in Busy /\ r[h].phase # "children"
  BY <1>1 DEF Local, Held, Busy, Draining
<1>3. \A q \in Stack[h] : r[q].status \in Busy
  BY <1>2, AncestorsBusy DEF Local
<1>4. r[i].status \in Busy
  BY <1>1, <1>2, <1>3
<1>5. i # Root => InFlight(r, Parent[i])
  <2>1. i # Root => Parent[i] \in Stack[i] /\ Parent[i] \in Ids
    BY StackFacts, ParentFacts
  <2>2. i # Root => Parent[i] \in Stack[h]
    BY <1>1, <2>1, StackFacts
  <2> QED  BY <1>1, <2>2 DEF InFlight
<1>6. InFlight(r, Root)
  BY <1>0, <1>1, StackFacts DEF InFlight
<1>7. ASSUME r[i].phase = "children"
      PROVE  \E c \in ChildrenForTask(r, i) :
                  r[c].status \in Busy /\ InFlight(r, c)
  <2>1. i \in Stack[h]
    BY <1>1, <1>2, <1>7
  <2> DEFINE c == StepTo(h, i)
  <2>2. c \in Stack[h] \cup {h} /\ c \in Ids \ {Root} /\ Parent[c] = i
    BY <2>1, StepFacts
  <2>3. r[c].status \in Busy /\ InFlight(r, c)
    BY <1>1, <1>2, <1>3, <2>2 DEF InFlight
  <2>4. UnderOK(r, c, i)
    BY <2>2 DEF Local, Under
  <2>5. c \in ChildrenForTask(r, i)
    <3> HIDE DEF c
    <3> QED  BY <2>2, <2>3, <2>4
         DEF ChildrenForTask, Kids, UnderOK, Bound, Busy, Draining
  <2> QED  BY <2>3, <2>5
<1> QED  BY <1>4, <1>5, <1>6, <1>7

(* A stop keeps the local facts.                                           *)
LEMMA StopLocal ==
    ASSUME NEW r, NEW b, Local(r, b), NEW from, NEW draining, NEW stopped,
           Stop(r, from, draining, stopped)
    PROVE  Local(StopTree(r, from, draining, stopped), b)
<1> DEFINE z == StopTree(r, from, draining, stopped)
<1>1. z \in [Ids -> Row]
      /\ \A i \in Ids : StoppedRow(r, from, draining, stopped, i, z[i])
  BY StopEffect DEF Local
<1> HIDE DEF z
<1>2. \A i \in Ids : /\ Untouched(r[i], z[i]) /\ z[i].phase = r[i].phase
                     /\ r[i].status \in from => r[i].status \in {"running", "paused"}
                     /\ draining \in Draining /\ stopped \in {"paused", "cancelled"}
  BY <1>1 DEF StoppedRow, Untouched, Stop, Draining
<1>3. SameKeys(r, z)
  BY <1>1, <1>2 DEF SameKeys, Untouched, StoppedRow, Draining
<1>4. Held(z)
  <2>1. \A i \in Ids : z[i].held # "" => InFlight(r, i) /\ r[i].held = z[i].held
    BY <1>2 DEF InFlight, Untouched
  <2>2. ASSUME NEW i \in Ids, z[i].held # ""
        PROVE  /\ z[i].phase # "children"
               /\ z[i].status \in {"running", "pausing", "cancelling"}
               /\ z[i].held \in {"pausing", "cancelling"} => z[i].status = z[i].held
    <3>1. StoppedRow(r, from, draining, stopped, i, z[i]) /\ z[i].phase = r[i].phase
          /\ InFlight(r, i) /\ r[i].held = z[i].held
      BY <1>1, <1>2, <2>1, <2>2
    <3>2. /\ r[i].phase # "children"
          /\ r[i].status \in {"running", "pausing", "cancelling"}
          /\ r[i].held \in {"pausing", "cancelling"} => r[i].status = r[i].held
      BY <2>2, <3>1 DEF Local, Held
    <3>3. draining \in {"pausing", "cancelling"}
          /\ (r[i].status \in from => r[i].status = "running" \/ r[i].status = "paused")
      BY DEF Stop
    <3> QED  BY <3>1, <3>2, <3>3 DEF StoppedRow
  <2> QED  BY <2>2 DEF Held
<1>5. Under(z)
  <2> SUFFICES ASSUME NEW i \in Ids \ {Root}, NEW q \in Ids, q = Parent[i]
               PROVE  UnderOK(z, i, q)
    BY ParentFacts DEF Under
  <2>1. UnderOK(r, i, q)
    BY DEF Local, Under
  <2>2. /\ StoppedRow(r, from, draining, stopped, i, z[i])
        /\ StoppedRow(r, from, draining, stopped, q, z[q])
        /\ Untouched(r[i], z[i]) /\ z[i].phase = r[i].phase
        /\ Untouched(r[q], z[q]) /\ z[q].phase = r[q].phase
    BY <1>1, <1>2
  <2>3. r[i].status \in from /\ InFlight(r, i) =>
          r[i].status \in Busy /\ InFlight(r, q)
    BY FlightFacts
  <2>4. r[q].status \in from /\ r[i].status \in Bound => r[i].status \in from
    BY DEF Stop
  <2>5. \/ from = {"running"} /\ draining = "pausing" /\ stopped = "paused"
        \/ /\ from = {"running", "paused"}
           /\ draining = "cancelling" /\ stopped = "cancelled"
    BY DEF Stop
  <2>6. /\ z[i].status \in Bound => r[i].status \in Bound
        /\ z[i].status = "none" <=> r[i].status = "none"
        /\ z[q].status = "none" <=> r[q].status = "none"
        /\ z[q].status \in Alive => r[q].status \in Alive
        /\ r[q].status \in Alive => z[q].status \in Alive \cup {"cancelled"}
        /\ r[q].status \in {"failing", "failed", "cancelling", "cancelled"} =>
             z[q].status = r[q].status
        /\ z[i].status \in {"failing", "failed"} => r[i].status = z[i].status
    BY <1>2, <2>2, <2>5 DEF StoppedRow, Bound, Alive, Busy, Draining
  <2>7. z[i].status \in Busy => r[i].status \in Busy /\ z[q].status \in Busy
    <3>1. CASE r[i].status \in from
      <4> SUFFICES ASSUME InFlight(r, i)
                   PROVE  r[i].status \in Busy /\ z[q].status \in Busy
        BY <2>2, <2>5, <3>1 DEF StoppedRow, Busy, Draining
      <4>1. r[i].status \in Busy /\ InFlight(r, q) /\ r[q].status \in Busy
        BY <2>1, <2>3, <3>1 DEF UnderOK
      <4> QED  BY <1>2, <2>2, <4>1 DEF StoppedRow, Busy
    <3>2. CASE r[i].status \notin from
      BY <2>1, <2>2, <2>4, <3>2 DEF StoppedRow, UnderOK, Bound
    <3> QED  BY <3>1, <3>2
  <2>8. /\ z[i].status # "none" => z[q].status # "none"
        /\ z[i].status # "none" => z[i].ptepoch <= z[q].tepoch
        /\ z[i].status # "none" /\ z[q].status \in Alive /\ z[q].phase = "" =>
             z[i].ptepoch < z[q].tepoch
        /\ z[i].status \in Bound =>
             z[i].ptepoch = z[q].tepoch /\ ~z[i].superseded
    BY <2>1, <2>2, <2>6 DEF UnderOK, Untouched
  <2>9. z[i].status \in Busy => z[q].status \in Busy /\ z[q].phase = "children"
    BY <2>1, <2>2, <2>7 DEF UnderOK
  <2>10. /\ z[i].status \in Bound =>
              \/ z[q].status \in Alive /\ z[q].phase = "children"
              \/ z[q].status \in {"failed", "cancelled"}
         /\ z[i].status \in {"failing", "failed"} =>
              z[q].status \in {"failing", "failed", "cancelling", "cancelled"}
    BY <2>1, <2>2, <2>6 DEF UnderOK
  <2> QED  BY <2>8, <2>9, <2>10 DEF UnderOK
<1>6. Retired(z)
  <2>1. \A i \in Ids : z[i].superseded => r[i].status = "raised"
    BY <1>2 DEF Local, Retired, Untouched
  <2> QED  BY <1>1, <1>2, <2>1 DEF Retired, StoppedRow
<1>7. \A p \in Ids :
        /\ z[p].status \in Alive => r[p].status \in Alive
        /\ z[p].status = "failed" => r[p].status = "failed"
  BY <1>1, <1>2 DEF StoppedRow, Alive, Busy, Draining
<1>8. Batches(z, b)
  <2>1. b \in [Ids -> SUBSET Ids] /\ Batches(r, b)
    BY DEF Local
  <2>2. \A p \in Ids : /\ ChildrenForTask(z, p) = ChildrenForTask(r, p)
                       /\ Filled(r, b, p) => Filled(z, b, p)
                       /\ ChildrenForTask(r, p) \subseteq Ids
    BY <1>3, <2>1, KeysDecide DEF ChildrenForTask, Kids
  <2> QED  BY <1>2, <1>7, <2>1, <2>2 DEF Batches
<1> USE DEF z
<1> QED  BY <1>1, <1>4, <1>5, <1>6, <1>8 DEF Local

(* A wait survives a stop if a row that is not stopped waits for one that  *)
(* is not stopped either.                                                  *)
LEMMA StopWaits ==
    ASSUME NEW r, NEW b, Local(r, b), NEW from, NEW draining, NEW stopped,
           Stop(r, from, draining, stopped), NEW p \in Ids,
           r[p].status \in from => Waits(r, p),
           r[p].status \in Alive \ from /\ r[p].phase = "children" =>
             \E k \in ChildrenForTask(r, p) :
               /\ r[k].status \notin from
               /\ IF r[p].status \in Draining THEN r[k].status \in Busy
                  ELSE r[k].status \in Alive
    PROVE  Waits(StopTree(r, from, draining, stopped), p)
<1> DEFINE z == StopTree(r, from, draining, stopped)
<1>1. z \in [Ids -> Row]
      /\ \A i \in Ids : StoppedRow(r, from, draining, stopped, i, z[i])
  BY StopEffect DEF Local
<1> SUFFICES ASSUME z[p].status \in Alive, z[p].phase = "children"
             PROVE  \E k \in ChildrenForTask(z, p) :
                      IF z[p].status \in Draining THEN z[k].status \in Busy
                      ELSE z[k].status \in Alive
  BY DEF Waits
<1> HIDE DEF z
<1>2. \A i \in Ids : Untouched(r[i], z[i]) /\ z[i].phase = r[i].phase
  BY <1>1 DEF StoppedRow, Untouched
<1>3. \/ from = {"running"} /\ draining = "pausing" /\ stopped = "paused"
      \/ /\ from = {"running", "paused"}
         /\ draining = "cancelling" /\ stopped = "cancelled"
  BY DEF Stop
<1>4. SameKeys(r, z)
  BY <1>1, <1>2, <1>3 DEF SameKeys, Untouched, StoppedRow
<1>5. ChildrenForTask(z, p) = ChildrenForTask(r, p)
      /\ ChildrenForTask(r, p) \subseteq Ids \ {Root}
      /\ \A k \in ChildrenForTask(r, p) : Parent[k] = p /\ r[k].status # "none"
  <2>1. ChildrenForTask(z, p) = ChildrenForTask(r, p)
    BY <1>4 DEF SameKeys, ChildrenForTask, Kids
  <2>2. \A k \in ChildrenForTask(r, p) :
          k \in Ids \ {Root} /\ Parent[k] = p /\ r[k].status # "none"
    BY TreeAssumption DEF ChildrenForTask, Kids, TreeAssumption
  <2> QED  BY <2>1, <2>2
<1>6. CASE r[p].status \in from /\ InFlight(r, p)
  <2>1. PICK c \in ChildrenForTask(r, p) : r[c].status \in Busy /\ InFlight(r, c)
    BY <1>2, <1>6, FlightFacts
  <2>2. r[c].status \in from
    BY <1>5, <1>6, <2>1 DEF Stop, Bound
  <2>3. z[c].status \in Busy /\ z[c].status \in Alive
    BY <1>1, <1>3, <1>5, <2>1, <2>2 DEF StoppedRow, Busy, Draining, Alive
  <2> QED  BY <1>5, <2>3
<1>7. CASE r[p].status \in from /\ ~InFlight(r, p)
  <2>1. z[p].status = stopped /\ stopped = "paused" /\ r[p].status = "running"
    BY <1>1, <1>3, <1>7 DEF StoppedRow, Alive, Busy, Draining
  <2>2. PICK k \in ChildrenForTask(r, p) : r[k].status \in Alive
    BY <1>2, <1>7, <2>1 DEF Waits, Draining, Alive, Busy
  <2>3. r[k].status \in from
    BY <1>5, <1>7, <2>2 DEF Stop, Bound, Alive
  <2>4. z[k].status \in Alive
    BY <1>1, <1>3, <1>5, <2>1, <2>3 DEF StoppedRow, Busy, Draining, Alive
  <2> QED  BY <1>5, <2>1, <2>4 DEF Draining
<1>8. CASE r[p].status \notin from
  <2>1. z[p] = r[p]
    BY <1>1, <1>8 DEF StoppedRow
  <2>2. PICK k \in ChildrenForTask(r, p) :
               /\ r[k].status \notin from
               /\ IF r[p].status \in Draining THEN r[k].status \in Busy
                  ELSE r[k].status \in Alive
    BY <1>8, <2>1
  <2>3. z[k] = r[k]
    BY <1>1, <1>5, <2>2 DEF StoppedRow
  <2> QED  BY <1>5, <2>1, <2>2, <2>3
<1> QED  BY <1>6, <1>7, <1>8

(* A stop that finds no row to stop changes nothing.                       *)
LEMMA NothingToStop ==
    ASSUME NEW r, r \in [Ids -> Row], NEW from, NEW draining, NEW stopped,
           \A i \in Ids : r[i].status \notin from
    PROVE  StopTree(r, from, draining, stopped) = r
  BY DEF StopTree

(* PauseProcess and CancelProcess: the tree stops as one.                  *)
LEMMA StopInv ==
    ASSUME NEW r, NEW b, TreeInv(r, b), NEW from, NEW draining, NEW stopped,
           \/ from = {"running"} /\ draining = "pausing" /\ stopped = "paused"
           \/ /\ from = {"running", "paused"}
              /\ draining = "cancelling" /\ stopped = "cancelled",
           r[Root].status \in from \cup {"pausing", "paused", "cancelling"},
           r[Root].status = "pausing" => from = {"running"}
    PROVE  TreeInv(StopTree(r, from, draining, stopped), b)
<1> DEFINE z == StopTree(r, from, draining, stopped)
<1>0. Root \in Ids
  BY TreeAssumption DEF TreeAssumption
<1>1. Local(r, b) /\ Agree(r)
  BY DEF TreeInv, Sound, Local
<1>2. CASE r[Root].status \notin from
  <2>1. \A i \in Ids : r[i].status \in Bound =>
          r[i].status \in Allowed(r[Root].status)
    BY <1>1 DEF Agree
  <2>2. \A i \in Ids : r[i].status \notin from
    BY <1>2, <2>1 DEF Allowed, Bound, Busy, Draining
  <2>3. z = r
    BY <1>1, <2>2, NothingToStop DEF Local
  <2> QED  BY <2>3
<1>3. CASE r[Root].status \in from
  <2>1. \A i \in Ids : r[i].status \in Bound => r[i].status \in from
    BY <1>1, <1>3 DEF Agree, Allowed, Bound, Busy, Draining
  <2>2. Stop(r, from, draining, stopped)
    BY <2>1 DEF Stop
  <2>3. Local(z, b)
    BY <1>1, <2>2, StopLocal
  <2>4. \A i \in Ids : StoppedRow(r, from, draining, stopped, i, z[i])
    BY <1>1, <2>2, StopEffect DEF Local
  <2>5. ASSUME NEW p \in Ids  PROVE  Waits(z, p)
    <3>1. Waits(r, p)
      BY DEF TreeInv
    <3>2. r[p].status \in Alive => r[p].status \in from
      BY <2>1 DEF Alive, Bound
    <3> QED  BY <1>1, <2>2, <3>1, <3>2, StopWaits
  <2>6. Agree(z) /\ z[Root].status # "none"
    <3> HIDE DEF z
    <3>1. z[Root].status = IF InFlight(r, Root) THEN draining ELSE stopped
      BY <1>0, <1>3, <2>4 DEF StoppedRow
    <3>2. ASSUME NEW i \in Ids, z[i].status \in Bound
          PROVE  z[i].status \in Allowed(z[Root].status)
      <4>1. r[i].status \in from
        BY <2>1, <2>4, <3>2 DEF StoppedRow
      <4>2. z[i].status = IF InFlight(r, i) THEN draining ELSE stopped
        BY <2>4, <4>1 DEF StoppedRow
      <4>3. InFlight(r, i) => InFlight(r, Root)
        BY <1>1, FlightFacts
      <4> QED  BY <3>1, <4>2, <4>3 DEF Allowed
    <3> QED  BY <3>1, <3>2 DEF Agree
  <2> QED  BY <2>3, <2>5, <2>6 DEF TreeInv, Sound, Local
<1> QED  BY <1>2, <1>3

-----------------------------------------------------------------------------
(* The writes of an advance.                                               *)

-----------------------------------------------------------------------------
(* Above a row that is not over every row is tied to its spawner.          *)
LEMMA AncestorsBound ==
    ASSUME NEW r, Under(r), NEW k \in Ids, r[k].status \in Bound
    PROVE  \A q \in Stack[k] : r[q].status \in Bound
<1> DEFINE S == {i \in Ids : r[i].status \in Bound => \A q \in Stack[i] :
                   r[q].status \in Bound}
<1>1. ASSUME NEW i \in Ids, i = Root \/ Parent[i] \in S
      PROVE  i \in S
  <2>1. CASE i = Root
    BY <2>1, StackFacts
  <2>2. CASE i # Root
    <3>1. /\ Parent[i] \in S /\ Parent[i] \in Ids
          /\ Stack[i] = Stack[Parent[i]] \cup {Parent[i]}
      BY <1>1, <2>2, ParentFacts
    <3>2. r[i].status \in Bound => r[Parent[i]].status \in Bound
      BY <2>2 DEF Under, UnderOK, Alive, Bound
    <3> QED  BY <3>1, <3>2
  <2> QED  BY <2>1, <2>2
<1>2. \A i \in Ids : i \in S
  <2> HIDE DEF S
  <2> QED BY <1>1, TreeInduction
<1> QED  BY <1>2

(* A held row has nobody to wait for, and everybody above it waits for it. *)
LEMMA HeldRow ==
    ASSUME TreeInv(row, batch), NEW p \in Ids, row[p].held # ""
    PROVE  /\ row[p] \in Row
           /\ row[p].status \in {"running", "pausing", "cancelling"}
           /\ row[p].phase \in {"", "collecting"}
           /\ row[p].held \in {"pausing", "cancelling"} =>
                row[p].status = row[p].held
           /\ ~row[p].superseded
           /\ \A q \in Stack[p] :
                row[q].status \in Busy /\ row[q].phase = "children"
           /\ \A k \in Kids(p) : row[k].status \notin Bound
           /\ p # Root => /\ row[p].ptepoch = row[Parent[p]].tepoch
                          /\ UnderOK(row, p, Parent[p])
           /\ p = Root => \A i \in Ids \ {Root} : row[i].status \notin Bound
<1>1. row[p] \in Row /\ Held(row) /\ Under(row) /\ Retired(row)
  BY DEF TreeInv, Sound
<1>2. /\ row[p].status \in {"running", "pausing", "cancelling"}
      /\ row[p].phase \in {"", "collecting"}
      /\ row[p].held \in {"pausing", "cancelling"} => row[p].status = row[p].held
  BY <1>1 DEF Held, Row
<1>3. row[p].status \in Busy /\ ~row[p].superseded
  BY <1>1, <1>2 DEF Busy, Draining, Retired
<1>4. \A q \in Stack[p] : row[q].status \in Busy /\ row[q].phase = "children"
  BY <1>1, <1>3, AncestorsBusy
<1>5. \A k \in Kids(p) : row[k].status \notin Bound
  <2>1. \A k \in Kids(p) : k \in Ids \ {Root} /\ Parent[k] = p
    BY TreeAssumption DEF TreeAssumption, Kids
  <2>2. \A k \in Kids(p) : UnderOK(row, k, p)
    BY <1>1, <2>1 DEF Under
  <2> QED  BY <1>2, <2>2 DEF UnderOK
<1>6. p # Root => row[p].ptepoch = row[Parent[p]].tepoch /\ UnderOK(row, p, Parent[p])
  BY <1>1, <1>3 DEF Under, UnderOK, Bound
<1>7. ASSUME p = Root, NEW i \in Ids \ {Root}, row[i].status \in Bound
      PROVE  FALSE
  <2>1. Root \in Stack[i]
    BY StackFacts
  <2>2. /\ StepTo(i, Root) \in Stack[i] \cup {i} /\ StepTo(i, Root) \in Kids(Root)
    BY <2>1, StepFacts DEF Kids
  <2>3. row[StepTo(i, Root)].status \in Bound
    BY <1>1, <1>7, <2>2, AncestorsBound
  <2> QED  BY <1>5, <1>7, <2>2, <2>3
<1> QED  BY <1>1, <1>2, <1>3, <1>4, <1>5, <1>6, <1>7

(* What an advance writes into its own row, and nowhere else.              *)
Saves(z, p, s, ph, te) ==
    /\ z \in [Ids -> Row]
    /\ \A i \in Ids \ {p} : z[i] = row[i]
    /\ z[p].status = s /\ z[p].phase = ph /\ z[p].tepoch = te
    /\ z[p].held = "" /\ z[p].ptepoch = row[p].ptepoch
    /\ z[p].slot = row[p].slot /\ z[p].superseded = row[p].superseded

(* Released writes the row and gives the lease up.                         *)
LEMMA ReleasedRow ==
    ASSUME row \in [Ids -> Row], NEW p \in Ids, NEW s \in Status,
           NEW ph \in {"", "children", "collecting"}, NEW te \in 0..MaxEpoch,
           NEW ov, ov \in BOOLEAN, NEW z, z = Released(p, s, ph, te, ov)
    PROVE  Saves(z, p, s, ph, te)
<1> DEFINE y == [row[p] EXCEPT !.status = s, !.phase = ph, !.tepoch = te,
                               !.override = ov, !.held = ""]
<1>1. row[p] \in Row
  OBVIOUS
<1>2. /\ y \in Row
      /\ y.status = s /\ y.phase = ph /\ y.tepoch = te
      /\ y.held = "" /\ y.ptepoch = row[p].ptepoch
      /\ y.slot = row[p].slot /\ y.superseded = row[p].superseded
  BY <1>1 DEF Row
<1>3. z = [row EXCEPT ![p] = y]
  BY DEF Released
<1> HIDE DEF y
<1> QED  BY <1>2, <1>3 DEF Saves

(* What may be saved: an outcome, or a stop of the kind that was asked.    *)
Savable(p, s, ph) ==
    \/ s \in {"completed", "raised", "failed"} /\ ph = ""
    \/ s = "completed" /\ ph = row[p].phase
    \/ s = "paused" /\ row[p].status = "pausing" /\ ph = row[p].phase
    \/ s = "cancelled" /\ row[p].status = "cancelling" /\ ph = row[p].phase

(* The saved row agrees with its surroundings, but for its parent's wait   *)
(* and for the ancestors of a failed row.                                  *)
SavedOnly(z, p, s) ==
    /\ z \in [Ids -> Row] /\ Held(z) /\ Batches(z, batch) /\ Retired(z)
    /\ SameKeys(row, z)
    /\ \A i \in Ids \ {p} : z[i] = row[i]
    /\ z[p].status = s /\ z[p].phase # "children" /\ z[p].held = ""
    /\ \A i \in Ids \ {Root} :
         s # "failed" \/ i # p => UnderOK(z, i, Parent[i])
    /\ \A q \in Ids : q # Parent[p] => Waits(z, q)

(* What holds after the save and before the settle.                        *)
LEMMA SavedParts ==
    ASSUME TreeInv(row, batch), NEW p \in Ids, row[p].held # "",
           NEW s, NEW ph, Savable(p, s, ph), NEW ov, ov \in BOOLEAN,
           NEW z, z = Released(p, s, ph, row[p].tepoch, ov)
    PROVE  SavedOnly(z, p, s)
<1>0. /\ row[p] \in Row /\ row \in [Ids -> Row]
      /\ row[p].status \in {"running", "pausing", "cancelling"}
      /\ row[p].phase \in {"", "collecting"}
      /\ ~row[p].superseded
      /\ \A q \in Stack[p] :
           row[q].status \in Busy /\ row[q].phase = "children"
      /\ \A k \in Kids(p) : row[k].status \notin Bound
      /\ p # Root => /\ row[p].ptepoch = row[Parent[p]].tepoch
                     /\ UnderOK(row, p, Parent[p])
  BY HeldRow DEF TreeInv, Sound
<1>1. s \in Status /\ ph \in {"", "collecting"} /\ row[p].tepoch \in 0..MaxEpoch
      /\ s \in Terminal \cup {"paused"}
  BY <1>0 DEF Savable, Status, Terminal, Row
<1>2. /\ z \in [Ids -> Row]
      /\ \A i \in Ids \ {p} : z[i] = row[i]
      /\ z[p].status = s /\ z[p].phase = ph /\ z[p].tepoch = row[p].tepoch
      /\ z[p].held = "" /\ z[p].ptepoch = row[p].ptepoch
      /\ z[p].slot = row[p].slot /\ z[p].superseded = row[p].superseded
  <2>1. ph \in {"", "children", "collecting"}
    BY <1>1
  <2>2. PICK te \in 0..MaxEpoch : te = row[p].tepoch
    BY <1>1
  <2>3. Saves(z, p, s, ph, te)
    <3>1. row \in [Ids -> Row] /\ s \in Status
      BY <1>0, <1>1
    <3>2. z = Released(p, s, ph, te, ov)
      BY <2>2
    <3> QED  BY <2>1, <2>2, <3>1, <3>2, ReleasedRow
  <2> QED  BY <2>2, <2>3 DEF Saves
<1>3. Held(z)
  <2>1. \A i \in Ids : z[i].held # "" => z[i] = row[i]
    BY <1>2
  <2>2. Held(row)
    BY DEF TreeInv, Sound
  <2> QED  BY <2>1, <2>2 DEF Held
<1>4. Retired(z)
  BY <1>0, <1>2 DEF TreeInv, Sound, Retired
<1>5. SameKeys(row, z)
  BY <1>0, <1>1, <1>2 DEF SameKeys, Terminal
<1>6. \A q \in Ids : /\ z[q].status \in Alive => row[q].status \in Alive
                     /\ z[q].status \in Alive => z[q].phase = row[q].phase
                     /\ z[q].status \in Alive \cup {"failed"} =>
                          row[q].status \in Alive \cup {"failed"}
  BY <1>0, <1>2 DEF Savable, Alive, Busy, Draining
<1>7. Batches(z, batch)
  <2>1. batch \in [Ids -> SUBSET Ids] /\ Batches(row, batch)
    BY DEF TreeInv, Sound
  <2>2. ASSUME NEW q \in Ids
        PROVE  /\ ChildrenForTask(z, q) = ChildrenForTask(row, q)
               /\ Filled(row, batch, q) => Filled(z, batch, q)
    BY <1>5, <2>1, KeysDecide
  <2>3. \A q \in Ids : ChildrenForTask(row, q) \subseteq Ids
    BY DEF ChildrenForTask, Kids
  <2> QED  BY <1>6, <2>1, <2>2, <2>3 DEF Batches
<1>8. ASSUME NEW i \in Ids \ {Root}, s # "failed" \/ i # p
      PROVE  UnderOK(z, i, Parent[i])
  <2>1. Parent[i] \in Ids /\ Parent[i] \in Stack[i] /\ Parent[i] # i
    BY ParentFacts, StackFacts
  <2>2. UnderOK(row, i, Parent[i])
    BY DEF TreeInv, Sound, Under
  <2>3. CASE i = p
    <3>1. z[Parent[i]] = row[Parent[i]]
      BY <1>2, <2>1, <2>3
    <3>2. row[Parent[i]].status \in Busy /\ row[Parent[i]].phase = "children"
      BY <1>0, <2>1, <2>3
    <3> QED  BY <1>0, <1>1, <1>2, <1>8, <2>2, <2>3, <3>1, <3>2
             DEF UnderOK, Bound, Alive, Busy, Draining, Terminal
  <2>4. CASE i # p /\ Parent[i] = p
    <3>1. z[i] = row[i] /\ row[i].status \notin Bound
      BY <1>0, <1>2, <2>4 DEF Kids
    <3>2. z[p].status \in Alive /\ z[p].phase = "" =>
            row[p].status \in Alive /\ row[p].phase = ""
      BY <1>6
    <3> QED  BY <1>1, <1>2, <2>2, <2>4, <3>1, <3>2
             DEF UnderOK, Bound, Busy, Draining, Terminal
  <2>5. CASE i # p /\ Parent[i] # p
    <3>1. z[i] = row[i] /\ z[Parent[i]] = row[Parent[i]]
      BY <1>2, <2>1, <2>5
    <3> QED  BY <2>2, <3>1 DEF UnderOK
  <2> QED  BY <2>3, <2>4, <2>5
<1>9. ASSUME NEW q \in Ids, q # Parent[p], z[q].status \in Alive,
             z[q].phase = "children"
      PROVE  \E k \in ChildrenForTask(z, q) :
               IF z[q].status \in Draining THEN z[k].status \in Busy
               ELSE z[k].status \in Alive
  <2>1. q # p
    BY <1>1, <1>2, <1>9
  <2>2. z[q] = row[q]
    BY <1>2, <2>1
  <2>3. PICK k \in ChildrenForTask(row, q) :
          IF row[q].status \in Draining THEN row[k].status \in Busy
          ELSE row[k].status \in Alive
    BY <1>9, <2>2 DEF TreeInv, Waits
  <2>4. k \in Ids /\ k # p
    BY <1>9 DEF ChildrenForTask, Kids
  <2>5. z[k] = row[k] /\ k \in ChildrenForTask(z, q)
    <3>1. batch \in [Ids -> SUBSET Ids]
      BY DEF TreeInv, Sound
    <3>2. ChildrenForTask(z, q) = ChildrenForTask(row, q)
      BY <1>5, <3>1, KeysDecide
    <3> QED  BY <1>2, <2>3, <2>4, <3>2
  <2> QED  BY <2>2, <2>3, <2>5
<1> QED  BY <1>1, <1>2, <1>3, <1>4, <1>5, <1>7, <1>8, <1>9 DEF Waits, SavedOnly

(* The save of the root needs no settle.                                   *)
LEMMA SavedRoot ==
    ASSUME TreeInv(row, batch), row[Root].held # "",
           NEW s, NEW ph, Savable(Root, s, ph), NEW ov, ov \in BOOLEAN,
           NEW z, z = Released(Root, s, ph, row[Root].tepoch, ov)
    PROVE  TreeInv(z, batch)
<1>0. Root \in Ids /\ Parent[Root] = NoId /\ NoId \notin Ids
  BY TreeAssumption DEF TreeAssumption
<1>1. /\ z \in [Ids -> Row] /\ Held(z) /\ Batches(z, batch) /\ Retired(z)
      /\ \A i \in Ids \ {Root} : z[i] = row[i]
      /\ z[Root].status = s
      /\ \A i \in Ids \ {Root} :
           s # "failed" \/ i # Root => UnderOK(z, i, Parent[i])
      /\ \A q \in Ids : q # Parent[Root] => Waits(z, q)
  <2>1. SavedOnly(z, Root, s)
    BY <1>0, SavedParts
  <2> QED  BY <2>1 DEF SavedOnly
<1>2. Under(z) /\ \A q \in Ids : Waits(z, q)
  BY <1>0, <1>1 DEF Under
<1>3. s # "none" /\ s \in Terminal \cup {"paused"}
  BY DEF Savable, Terminal
<1>4. Agree(z)
  <2>1. \A i \in Ids \ {Root} : z[i].status \notin Bound
    BY <1>0, <1>1, HeldRow
  <2>2. s \in Bound => s \in Allowed(s)
    BY <1>3 DEF Allowed, Bound, Busy, Draining, Terminal
  <2> QED  BY <1>1, <2>1, <2>2 DEF Agree
<1> QED  BY <1>1, <1>2, <1>3, <1>4 DEF TreeInv, Sound

(* After the save of a child that did not fail, settleUp may run.          *)
LEMMA SavedChild ==
    ASSUME TreeInv(row, batch), NEW p \in Ids \ {Root}, row[p].held # "",
           NEW s, NEW ph, Savable(p, s, ph), s # "failed",
           NEW ov, ov \in BOOLEAN,
           NEW z, z = Released(p, s, ph, row[p].tepoch, ov)
    PROVE  Settling(z, batch, p)
<1>0. Root \in Ids /\ p \notin Stack[p] /\ Stack[p] \subseteq Ids
      /\ Parent[p] \in Ids /\ Parent[p] \in Stack[p]
  BY TreeAssumption, StackFacts, ParentFacts DEF TreeAssumption
<1>1. /\ z \in [Ids -> Row] /\ Held(z) /\ Batches(z, batch) /\ Retired(z)
      /\ SameKeys(row, z)
      /\ \A i \in Ids \ {p} : z[i] = row[i]
      /\ z[p].status = s
      /\ \A i \in Ids \ {Root} :
           s # "failed" \/ i # p => UnderOK(z, i, Parent[i])
      /\ \A q \in Ids : q # Parent[p] => Waits(z, q)
  <2>1. SavedOnly(z, p, s)
    BY SavedParts
  <2> QED  BY <2>1 DEF SavedOnly
<1>2. /\ \A q \in Stack[p] :
           row[q].status \in Busy /\ row[q].phase = "children"
      /\ row[p].ptepoch = row[Parent[p]].tepoch /\ ~row[p].superseded
      /\ row[p].status \in {"running", "pausing", "cancelling"}
  BY HeldRow
<1>3. Under(z) /\ \A q \in Ids : q # Parent[p] => Waits(z, q)
  BY <1>1 DEF Under
<1>4. s \in Terminal \cup {"paused"}
  BY DEF Savable, Terminal
<1>5. Agree(z) /\ z[Root].status # "none"
  <2>1. Agree(row) /\ row[Root].status # "none"
    BY DEF TreeInv, Sound
  <2>2. row[p].status \in Allowed(row[Root].status)
    BY <1>2, <2>1 DEF Agree, Bound, Busy, Draining
  <2>3. s \in Bound => s \in Allowed(row[Root].status)
    BY <2>2 DEF Savable, Allowed, Bound, Busy, Draining
  <2>4. z[Root] = row[Root]
    BY <1>0, <1>1
  <2> QED  BY <1>1, <2>1, <2>3, <2>4 DEF Agree
<1>6. Sound(z, batch)
  BY <1>1, <1>3, <1>5 DEF TreeInv, Sound
<1>7. z[p].ptepoch = z[Parent[p]].tepoch /\ ~z[p].superseded
  BY <1>0, <1>1, <1>2 DEF SameKeys
<1>8. \A q \in Stack[p] : z[q].status \in Busy /\ z[q].phase = "children"
  BY <1>0, <1>1, <1>2
<1> QED  BY <1>1, <1>3, <1>4, <1>6, <1>7, <1>8 DEF Settling

(* FailAncestors: the rows above a failed one fail with it.                *)
FailedRow(r, k, i, y) ==
    \/ /\ i \in Stack[k] /\ r[i].status \in {"running", "pausing", "paused"}
       /\ Untouched(r[i], y) /\ y.phase = r[i].phase /\ y.status = "failing"
    \/ /\ i \notin Stack[k] \/ r[i].status \notin {"running", "pausing", "paused"}
       /\ y = r[i]

(* FailAncestors, row by row.                                              *)
LEMMA FailEffect ==
    ASSUME NEW r, r \in [Ids -> Row], NEW k \in Ids
    PROVE  /\ FailAncestors(r, k) \in [Ids -> Row]
           /\ \A i \in Ids : FailedRow(r, k, i, FailAncestors(r, k)[i])
<1> DEFINE z == FailAncestors(r, k)
           y(i) == [r[i] EXCEPT !.status = "failing"]
<1>1. z = [i \in Ids |->
       IF i \in Stack[k] /\ r[i].status \in {"running", "pausing", "paused"}
       THEN y(i) ELSE r[i]]
  BY DEF FailAncestors
<1>2. ASSUME NEW i \in Ids
      PROVE  z[i] \in Row /\ FailedRow(r, k, i, z[i])
  <2>1. r[i] \in Row
    OBVIOUS
  <2>2. /\ y(i) \in Row /\ y(i).status = "failing" /\ y(i).phase = r[i].phase
        /\ Untouched(r[i], y(i))
    BY <2>1 DEF Row, Untouched, Status, Busy, Draining
  <2>3. z[i] =
       IF i \in Stack[k] /\ r[i].status \in {"running", "pausing", "paused"}
       THEN y(i) ELSE r[i]
    BY <1>1
  <2> HIDE DEF z, y
  <2> QED  BY <2>1, <2>2, <2>3 DEF FailedRow
<1>3. z = [i \in Ids |-> z[i]]
  BY <1>1
<1> HIDE DEF z
<1>4. z \in [Ids -> Row]
  BY <1>2, <1>3
<1> USE DEF z
<1> QED  BY <1>2, <1>4

(* A failed row and its ancestors: a: row p failed, b: a row above p, c: a *)
(* row elsewhere.                                                          *)
FailsUp(z, p) ==
    /\ z \in [Ids -> Row]
    /\ SameKeys(row, z)
    /\ z[p].status = "failed" /\ z[p].phase # "children" /\ z[p].held = ""
    /\ \A i \in Stack[p] :
         /\ z[i].status = IF row[i].status \in {"running", "pausing"}
                          THEN "failing" ELSE row[i].status
         /\ z[i].status \in {"failing", "cancelling"}
         /\ z[i].phase = "children" /\ z[i].held = ""
    /\ \A i \in Ids \ (Stack[p] \cup {p}) : z[i] = row[i]

(* A failure reaches every ancestor that is not cancelling.                *)
LEMMA FailsUpEffect ==
    ASSUME TreeInv(row, batch), NEW p \in Ids \ {Root}, row[p].held # "",
           NEW ov, ov \in BOOLEAN,
           NEW x, x = Released(p, "failed", "", row[p].tepoch, ov),
           NEW z, z = FailAncestors(x, p)
    PROVE  FailsUp(z, p) /\ SavedOnly(x, p, "failed")
<1>0. p \notin Stack[p] /\ Stack[p] \subseteq Ids
  BY StackFacts
<1>1. SavedOnly(x, p, "failed")
  <2>1. Savable(p, "failed", "")
    BY DEF Savable
  <2> QED  BY <2>1, SavedParts
<1>2. z \in [Ids -> Row] /\ \A i \in Ids : FailedRow(x, p, i, z[i])
  <2>1. x \in [Ids -> Row]
    BY <1>1 DEF SavedOnly
  <2> QED  BY <2>1, FailEffect
<1>3. z[p] = x[p]
  BY <1>0, <1>2 DEF FailedRow
<1>4. \A i \in Ids \ (Stack[p] \cup {p}) : z[i] = x[i] /\ x[i] = row[i]
  BY <1>1, <1>2 DEF FailedRow, SavedOnly
<1>5. ASSUME NEW i \in Stack[p]
      PROVE  /\ z[i].status = IF row[i].status \in {"running", "pausing"}
                              THEN "failing" ELSE row[i].status
             /\ z[i].status \in {"failing", "cancelling"}
             /\ z[i].phase = "children" /\ z[i].held = ""
             /\ Untouched(row[i], z[i])
  <2>1. i \in Ids /\ x[i] = row[i]
    BY <1>0, <1>1 DEF SavedOnly
  <2>2. row[i].status \in Busy /\ row[i].phase = "children"
    BY HeldRow
  <2>3. row[i].held = ""
    BY <2>1, <2>2 DEF TreeInv, Sound, Held
  <2>4. FailedRow(x, p, i, z[i])
    BY <1>2, <2>1
  <2> QED  BY <2>1, <2>2, <2>3, <2>4 DEF FailedRow, Untouched, Busy, Draining
<1>6. SameKeys(row, z)
  <2>1. SameKeys(row, x)
    BY <1>1 DEF SavedOnly
  <2>2. ASSUME NEW i \in Ids
        PROVE  /\ z[i].status = "none" <=> row[i].status = "none"
               /\ z[i].tepoch = row[i].tepoch /\ z[i].ptepoch = row[i].ptepoch
               /\ z[i].superseded = row[i].superseded /\ z[i].slot = row[i].slot
    <3>1. CASE i \in Stack[p]
      <4>1. row[i].status \in Busy
        BY <3>1, HeldRow
      <4> QED  BY <1>5, <3>1, <4>1 DEF Untouched, Busy, Draining
    <3>2. CASE i = p
      BY <1>3, <2>1, <3>2 DEF SameKeys
    <3>3. CASE i \notin Stack[p] \cup {p}
      BY <1>4, <3>3
    <3> QED  BY <3>1, <3>2, <3>3
  <2> QED  BY <2>2 DEF SameKeys
<1> QED  BY <1>1, <1>2, <1>3, <1>4, <1>5, <1>6 DEF FailsUp, SavedOnly

(* The local facts after FailAncestors.                                    *)
LEMMA FailsUpLocal ==
    ASSUME TreeInv(row, batch), NEW p \in Ids \ {Root}, row[p].held # "",
           NEW z, FailsUp(z, p)
    PROVE  Local(z, batch)
<1>0. p \notin Stack[p] /\ Stack[p] \subseteq Ids
  BY StackFacts
<1>1. /\ \A q \in Stack[p] :
           row[q].status \in Busy /\ row[q].phase = "children"
      /\ row[p].status \in {"running", "pausing", "cancelling"}
      /\ row[p].phase # "children"
      /\ \A k \in Kids(p) : row[k].status \notin Bound
  BY HeldRow
<1>2. ASSUME NEW i \in Ids
      PROVE  /\ z[i].status \in Bound => row[i].status \in Bound
             /\ z[i].status \in Busy => row[i].status \in Busy
             /\ z[i].status \in Alive => row[i].status \in Alive
             /\ z[i].status \in Alive => z[i].phase = row[i].phase
             /\ i # p /\ row[i].status \in Alive =>
                  z[i].status \in Alive /\ z[i].phase = row[i].phase
             /\ i # p /\ row[i].status \in Busy => z[i].status \in Busy
             /\ z[i].status \in Alive \cup {"failed"} =>
                  row[i].status \in Alive \cup {"failed"}
             /\ i # p => (z[i].status \in {"failed", "cancelled"}
                           <=> row[i].status \in {"failed", "cancelled"})
             /\ z[i].held # "" => z[i] = row[i]
             /\ row[i].status = "raised" => z[i].status = "raised"
  <2>1. CASE i \in Stack[p]
    <3>1. i # p
      BY <1>0, <2>1
    <3> QED  BY <1>1, <2>1, <3>1 DEF FailsUp, Bound, Busy, Draining, Alive
  <2>2. CASE i = p
    BY <1>1, <2>2 DEF FailsUp, Bound, Busy, Draining, Alive
  <2>3. CASE i \notin Stack[p] \cup {p}
    BY <2>3 DEF FailsUp
  <2> QED  BY <2>1, <2>2, <2>3
<1>3. Held(z)
  BY <1>2 DEF TreeInv, Sound, Held
<1>4. Retired(z)
  <2>1. \A i \in Ids : z[i].superseded => row[i].status = "raised"
    BY DEF TreeInv, Sound, Retired, FailsUp, SameKeys
  <2> QED  BY <1>2, <2>1 DEF Retired
<1>5. Batches(z, batch)
  <2>1. batch \in [Ids -> SUBSET Ids] /\ Batches(row, batch)
    BY DEF TreeInv, Sound
  <2>2. ASSUME NEW q \in Ids
        PROVE  /\ ChildrenForTask(z, q) = ChildrenForTask(row, q)
               /\ Filled(row, batch, q) => Filled(z, batch, q)
    BY <2>1, KeysDecide DEF FailsUp
  <2>3. \A q \in Ids : ChildrenForTask(row, q) \subseteq Ids
    BY DEF ChildrenForTask, Kids
  <2> QED  BY <1>2, <2>1, <2>2, <2>3 DEF Batches
<1>6. Under(z)
  <2> SUFFICES ASSUME NEW i \in Ids \ {Root}, NEW q \in Ids, q = Parent[i]
               PROVE  UnderOK(z, i, q)
    BY ParentFacts DEF Under
  <2>0. UnderOK(row, i, q) /\ q \in Stack[i]
    BY StackFacts DEF TreeInv, Sound, Under
  <2>1. /\ z[i].status = "none" <=> row[i].status = "none"
        /\ z[q].status = "none" <=> row[q].status = "none"
        /\ z[i].ptepoch = row[i].ptepoch /\ z[q].tepoch = row[q].tepoch
        /\ z[i].superseded = row[i].superseded
    BY DEF FailsUp, SameKeys
  <2>2. /\ z[i].status # "none" => z[q].status # "none"
        /\ z[i].status # "none" => z[i].ptepoch <= z[q].tepoch
        /\ z[i].status # "none" /\ z[q].status \in Alive /\ z[q].phase = "" =>
             z[i].ptepoch < z[q].tepoch
        /\ z[i].status \in Bound =>
             z[i].ptepoch = z[q].tepoch /\ ~z[i].superseded
    BY <1>2, <2>0, <2>1 DEF UnderOK
  <2>3. q = p => row[i].status \notin Bound
    BY <1>1 DEF Kids
  <2>4. z[i].status \in Busy => z[q].status \in Busy /\ z[q].phase = "children"
    <3> SUFFICES ASSUME z[i].status \in Busy
                 PROVE  z[q].status \in Busy /\ z[q].phase = "children"
      OBVIOUS
    <3>1. row[i].status \in Busy /\ row[q].status \in Busy
          /\ row[q].phase = "children" /\ q # p
      BY <1>2, <2>0, <2>3 DEF UnderOK, Bound
    <3>2. row[q].status \in Alive
      BY <3>1 DEF Alive
    <3> QED  BY <1>2, <3>1, <3>2
  <2>5. z[i].status \in Bound =>
              \/ z[q].status \in Alive /\ z[q].phase = "children"
              \/ z[q].status \in {"failed", "cancelled"}
    <3> SUFFICES ASSUME z[i].status \in Bound
                 PROVE  \/ z[q].status \in Alive /\ z[q].phase = "children"
                        \/ z[q].status \in {"failed", "cancelled"}
      OBVIOUS
    <3>1. q # p /\ (\/ row[q].status \in Alive /\ row[q].phase = "children"
                    \/ row[q].status \in {"failed", "cancelled"})
      BY <1>2, <2>0, <2>3 DEF UnderOK
    <3> QED  BY <1>2, <3>1
  <2>6. z[i].status \in {"failing", "failed"} =>
              z[q].status \in {"failing", "failed", "cancelling", "cancelled"}
    <3>1. CASE i \in Stack[p] \cup {p}
      <4>1. q \in Stack[p]
        BY <2>0, <3>1, StackFacts
      <4> QED  BY <4>1 DEF FailsUp
    <3>2. CASE i \notin Stack[p] \cup {p}
      <4> SUFFICES ASSUME z[i].status \in {"failing", "failed"}
                   PROVE  z[q].status
                            \in {"failing", "failed", "cancelling", "cancelled"}
        OBVIOUS
      <4>1. row[i].status \in {"failing", "failed"}
        BY <3>2 DEF FailsUp
      <4>2. row[q].status \in {"failing", "failed", "cancelling", "cancelled"}
            /\ q # p
        BY <2>0, <2>3, <4>1 DEF UnderOK, Bound, Busy, Draining
      <4> QED  BY <4>2 DEF FailsUp
    <3> QED  BY <3>1, <3>2
  <2> QED  BY <2>2, <2>4, <2>5, <2>6 DEF UnderOK
<1> QED  BY <1>3, <1>4, <1>5, <1>6 DEF Local, FailsUp, TreeInv, Sound

(* A failure below the root, the pause of the rest and the settle together *)
(* keep the invariant.                                                     *)
LEMMA FailedChild ==
    ASSUME TreeInv(row, batch), NEW p \in Ids \ {Root}, row[p].held # "",
           NEW ov, ov \in BOOLEAN,
           NEW x, x = Released(p, "failed", "", row[p].tepoch, ov)
    PROVE  TreeInv(FailInstanceAndAncestors(x, p), batch)
<1> DEFINE y == FailAncestors(x, p)
           z == PauseTree(y)
<1>0. /\ Root \in Ids /\ p \notin Stack[p] /\ Stack[p] \subseteq Ids
      /\ Parent[p] \in Stack[p] /\ Root \in Stack[p]
  BY StackFacts, TreeAssumption DEF TreeAssumption
<1>1. FailsUp(y, p) /\ SavedOnly(x, p, "failed")
  BY FailsUpEffect
<1> HIDE DEF y
<1>2. Local(y, batch)
  BY <1>1, FailsUpLocal
<1>3. /\ \A q \in Stack[p] :
           row[q].status \in Busy /\ row[q].phase = "children"
      /\ row[p].status \in {"running", "pausing", "cancelling"}
      /\ row[p].phase # "children"
      /\ row[p].ptepoch = row[Parent[p]].tepoch /\ ~row[p].superseded
  BY HeldRow
<1>4. \A i \in Ids : row[i].status \in Bound =>
        row[i].status \in Allowed(row[Root].status)
  BY DEF TreeInv, Sound, Agree
<1>5. \A i \in Ids : y[i].status = "running" =>
        i \notin Stack[p] \cup {p} /\ row[i].status = "running"
  BY <1>1 DEF FailsUp
<1>6. ASSUME NEW i \in Ids, row[i].status = "running"
      PROVE  row[Root].status = "running"
  BY <1>4, <1>6 DEF Bound, Busy, Allowed
<1>7. Stop(y, {"running"}, "pausing", "paused")
  <2>1. ASSUME NEW i \in Ids \ {Root}, y[Parent[i]].status = "running",
               y[i].status \in Bound
        PROVE  y[i].status = "running"
    <3>1. Parent[i] \in Ids /\ Parent[i] \in Stack[i]
      BY ParentFacts, StackFacts
    <3>2. Parent[i] \notin Stack[p] \cup {p} /\ row[Root].status = "running"
      BY <1>5, <1>6, <2>1, <3>1
    <3>3. i \notin Stack[p] \cup {p}
      BY <3>1, <3>2, StackFacts
    <3>4. y[i] = row[i]
      BY <1>1, <3>3 DEF FailsUp
    <3> QED  BY <1>4, <2>1, <3>2, <3>4 DEF Allowed
  <2> QED  BY <2>1 DEF Stop
<1>8. Local(z, batch)
      /\ \A i \in Ids : StoppedRow(y, {"running"}, "pausing", "paused", i, z[i])
  BY <1>2, <1>7, StopLocal, StopEffect DEF PauseTree, Local
<1>9. FailInstanceAndAncestors(x, p) = settleUp(z, p)
  <2>1. x[Root] = row[Root]
    BY <1>0, <1>1 DEF SavedOnly
  <2>2. row[Root].status \notin {"running", "pausing", "paused"} => z = y
    <3> SUFFICES ASSUME row[Root].status \notin {"running", "pausing", "paused"}
                 PROVE  z = y
      OBVIOUS
    <3>1. \A i \in Ids : y[i].status \notin {"running"}
      BY <1>5, <1>6
    <3> QED  BY <1>2, <3>1, NothingToStop DEF PauseTree, Local
  <2>3. FailInstanceAndAncestors(x, p) =
          settleUp(IF row[Root].status \in {"running", "pausing", "paused"}
                   THEN z ELSE y, p)
    BY <2>1 DEF FailInstanceAndAncestors, y
  <2> QED  BY <2>2, <2>3
<1>10. ASSUME NEW q \in Ids, q # Parent[p]
       PROVE  Waits(z, q)
  <2>0. batch \in [Ids -> SUBSET Ids] /\ Under(row)
    BY DEF TreeInv, Sound
  <2>1. ChildrenForTask(y, q) = ChildrenForTask(row, q)
    <3>1. SameKeys(row, y)
      BY <1>1 DEF FailsUp
    <3> QED  BY <2>0, <3>1, KeysDecide
  <2>2. \A k \in ChildrenForTask(row, q) : k \in Ids \ {Root} /\ Parent[k] = q
    BY TreeAssumption DEF TreeAssumption, ChildrenForTask, Kids
  <2>3. p \notin ChildrenForTask(row, q)
    BY <1>10, <2>2
  <2>4. CASE q \in Stack[p]
    <3> DEFINE c == StepTo(p, q)
    <3>1. c \in Stack[p] \cup {p} /\ c \in Ids \ {Root} /\ Parent[c] = q
      BY <2>4, StepFacts
    <3>2. c \in Stack[p]
      BY <1>10, <3>1
    <3>3. row[c].status \in Busy /\ UnderOK(row, c, q)
      BY <1>3, <2>0, <3>1, <3>2 DEF Under
    <3>4. c \in ChildrenForTask(row, q)
      <4> HIDE DEF c
      <4> QED  BY <3>1, <3>3
               DEF UnderOK, ChildrenForTask, Kids, Bound, Busy, Draining
    <3>5. /\ y[c].status \in {"failing", "cancelling"}
          /\ y[q].status \in {"failing", "cancelling"}
      BY <1>1, <2>4, <3>2 DEF FailsUp
    <3>6. /\ y[q].status \notin {"running"}
          /\ \E k \in ChildrenForTask(y, q) :
               /\ y[k].status \notin {"running"}
               /\ IF y[q].status \in Draining THEN y[k].status \in Busy
                  ELSE y[k].status \in Alive
      <4> HIDE DEF c
      <4> QED  BY <2>1, <3>4, <3>5 DEF Draining, Busy
    <3> QED  BY <1>2, <1>7, <3>6, StopWaits DEF PauseTree
  <2>5. CASE q = p
    <3>1. z[q].phase # "children"
      BY <1>1, <1>8, <2>5 DEF FailsUp, StoppedRow
    <3> QED  BY <3>1 DEF Waits
  <2>6. CASE q \notin Stack[p] \cup {p}
    <3>1. y[q] = row[q]
      BY <1>1, <2>6 DEF FailsUp
    <3>2. \A k \in ChildrenForTask(row, q) : y[k] = row[k]
      <4>1. \A k \in ChildrenForTask(row, q) : k \notin Stack[p]
        <5> SUFFICES ASSUME NEW k \in ChildrenForTask(row, q), k \in Stack[p]
                     PROVE  FALSE
          OBVIOUS
        <5>0. k \in Ids \ {Root} /\ Parent[k] = q
          BY <2>2
        <5>1. q \in Stack[k]
          BY <5>0, StackFacts
        <5> QED  BY <2>6, <5>1, StackFacts
      <4> QED  BY <1>1, <2>2, <2>3, <4>1 DEF FailsUp
    <3>3. Waits(row, q)
      BY DEF TreeInv
    <3>4. Waits(y, q)
      BY <2>1, <3>1, <3>2, <3>3 DEF Waits
    <3>5. ASSUME y[q].status \in Alive \ {"running"}, y[q].phase = "children"
          PROVE  \E k \in ChildrenForTask(y, q) :
               /\ y[k].status \notin {"running"}
               /\ IF y[q].status \in Draining THEN y[k].status \in Busy
                  ELSE y[k].status \in Alive
      <4>1. PICK k \in ChildrenForTask(y, q) :
               IF y[q].status \in Draining THEN y[k].status \in Busy
                  ELSE y[k].status \in Alive
        BY <3>4, <3>5 DEF Waits
      <4>2. y[k].status # "running"
        <5>1. k \in Ids /\ y[k] = row[k]
          BY <2>1, <2>2, <3>2, <4>1
        <5>2. row[q].status \in Alive \ {"running"}
          BY <3>1, <3>5
        <5>3. row[Root].status # "running"
          BY <1>4, <5>2 DEF Alive, Bound, Allowed
        <5> QED  BY <1>6, <5>1, <5>3
      <4> QED  BY <4>1, <4>2
    <3> QED  BY <1>2, <1>7, <3>4, <3>5, StopWaits DEF PauseTree
  <2> QED  BY <2>4, <2>5, <2>6
<1>11. \A i \in Stack[p] : z[i] = y[i]
  BY <1>0, <1>1, <1>8 DEF FailsUp, StoppedRow
<1>12. z[p] = y[p]
  BY <1>1, <1>8 DEF FailsUp, StoppedRow
<1>13. Agree(z)
  <2> SUFFICES ASSUME NEW i \in Ids, z[i].status \in Bound
               PROVE  z[i].status \in Allowed(z[Root].status)
    BY DEF Agree
  <2>1. z[Root].status = IF row[Root].status \in {"running", "pausing"}
                         THEN "failing" ELSE row[Root].status
    BY <1>0, <1>1, <1>11 DEF FailsUp
  <2>2. row[Root].status \in Busy
    BY <1>0, <1>3
  <2>3. CASE i = p
    <3>1. z[i].status = "failed"
      BY <1>1, <1>12, <2>3 DEF FailsUp
    <3> QED  BY <2>1, <2>2, <3>1 DEF Busy, Draining, Allowed
  <2>4. CASE i \in Stack[p]
    <3>1. z[i].status = IF row[i].status \in {"running", "pausing"}
                        THEN "failing" ELSE row[i].status
      BY <1>1, <1>11, <2>4 DEF FailsUp
    <3>2. row[i].status \in Busy /\ row[i].status \in Allowed(row[Root].status)
      BY <1>3, <1>4, <2>4 DEF Bound
    <3> QED  BY <2>1, <2>2, <3>1, <3>2 DEF Busy, Draining, Allowed
  <2>5. CASE i \notin Stack[p] \cup {p}
    <3>1. y[i] = row[i]
      BY <1>1, <2>5 DEF FailsUp
    <3>2. \/ z[i].status = row[i].status
          \/ row[i].status = "running" /\ z[i].status \in {"pausing", "paused"}
      BY <1>8, <3>1 DEF StoppedRow
    <3>3. row[i].status \in Bound
      BY <3>2 DEF Bound, Busy
    <3>4. row[i].status \in Allowed(row[Root].status)
      BY <1>4, <3>3
    <3> QED  BY <1>6, <2>1, <2>2, <3>2, <3>4, <1>5, <1>8, <3>1
             DEF Busy, Draining, Allowed, StoppedRow
  <2> QED  BY <2>3, <2>4, <2>5
<1>14. Settling(z, batch, p)
  <2>1. \A i \in Ids : Untouched(y[i], z[i])
    BY <1>8 DEF StoppedRow, Untouched
  <2>2. z[p].ptepoch = z[Parent[p]].tepoch /\ ~z[p].superseded
    <3>1. \A i \in Ids : /\ z[i].ptepoch = y[i].ptepoch /\ z[i].tepoch = y[i].tepoch
                         /\ z[i].superseded = y[i].superseded
      BY <2>1 DEF Untouched
    <3>2. \A i \in Ids : /\ y[i].ptepoch = row[i].ptepoch /\ y[i].tepoch = row[i].tepoch
                         /\ y[i].superseded = row[i].superseded
      BY <1>1 DEF FailsUp, SameKeys
    <3>3. p \in Ids /\ Parent[p] \in Ids
      BY <1>0
    <3> QED  BY <1>3, <3>1, <3>2, <3>3
  <2>3. z[p].status \in Terminal \cup {"paused"}
    BY <1>1, <1>12 DEF FailsUp, Terminal
  <2>4. \A q \in Stack[p] : z[q].status \in Busy /\ z[q].phase = "children"
    BY <1>1, <1>11 DEF FailsUp, Busy, Draining
  <2>5. z[Root].status # "none"
    BY <1>0, <2>4 DEF Busy, Draining
  <2>6. Sound(z, batch)
    BY <1>8, <1>13, <2>5 DEF Local, Sound
  <2> QED  BY <1>10, <2>2, <2>3, <2>4, <2>6 DEF Settling
<1> QED  BY <1>9, <1>14, SettleUpSound

(* saveAndNotify, for a row that is held.                                  *)
LEMMA SaveInv ==
    ASSUME TreeInv(row, batch), NEW p \in Ids, row[p].held # "",
           NEW s, NEW ph, Savable(p, s, ph), NEW ov, ov \in BOOLEAN,
           saveAndNotify(p, s, ph, ov)
    PROVE  TreeInv(row', batch)
<1>1. PICK x : x = Released(p, s, ph, row[p].tepoch, ov)
  OBVIOUS
<1>2. row' = IF s = "failed" THEN FailInstanceAndAncestors(x, p)
             ELSE FinishChild(x, p)
  BY <1>1 DEF saveAndNotify
<1>3. CASE p = Root
  <2>1. row' = x
    BY <1>2, <1>3 DEF FailInstanceAndAncestors, FinishChild
  <2>2. TreeInv(x, batch)
    BY <1>1, <1>3, SavedRoot
  <2> QED  BY <2>1, <2>2
<1>4. CASE p # Root /\ s = "failed"
  <2>1. ph = ""
    BY <1>4 DEF Savable
  <2>2. TreeInv(FailInstanceAndAncestors(x, p), batch)
    BY <1>1, <1>4, <2>1, FailedChild
  <2> QED  BY <1>2, <1>4, <2>2
<1>5. CASE p # Root /\ s # "failed"
  <2>1. Settling(x, batch, p)
    BY <1>1, <1>5, SavedChild
  <2>2. TreeInv(settleUp(x, p), batch)
    BY <2>1, SettleUpSound
  <2> QED  BY <1>2, <1>5, <2>2 DEF FinishChild
<1> QED  BY <1>3, <1>4, <1>5

=============================================================================
