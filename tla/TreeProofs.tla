----------------------------- MODULE TreeProofs -----------------------------
(***************************************************************************)
(* Proofs about Tree, for any tree of instances and any bounds: its types, *)
(* nothing runs under a stopped row, the root's status decides what the    *)
(* rows below may do, nobody waits for a batch that is over, a collect     *)
(* reads the batch it spawned, and outcomes are final.  The invariant, the *)
(* stops and the saves are in TreeStatusProofs; here are the batches of a  *)
(* task entry, resume and retry, the claim, and the step that joins them.  *)
(*                                                                         *)
(* The theorems assume that retry requests of one root do not overlap:     *)
(* RetryProcess checks the root's status outside its transaction, and a    *)
(* second request that read "failed" restarts rows of a tree that is       *)
(* running, pausing or paused again.                                       *)
(***************************************************************************)
EXTENDS TreeStatusProofs

-----------------------------------------------------------------------------
(* What decides which rows p's collect reads.                              *)
KeysAt(r, z, p) ==
    /\ z[p].tepoch = r[p].tepoch
    /\ \A i \in Kids(p) :
         /\ z[i].status = "none" <=> r[i].status = "none"
         /\ z[i].ptepoch = r[i].ptepoch
         /\ z[i].superseded = r[i].superseded /\ z[i].slot = r[i].slot

(* The batch of p depends on them alone.                                   *)
LEMMA KeysAtDecide ==
    ASSUME NEW r, NEW z, NEW b, NEW d, NEW p \in Ids, KeysAt(r, z, p), d[p] = b[p]
    PROVE  /\ ChildrenForTask(z, p) = ChildrenForTask(r, p)
           /\ Filled(r, b, p) => Filled(z, d, p)
<1>1. ChildrenForTask(z, p) = ChildrenForTask(r, p)
  BY DEF KeysAt, ChildrenForTask
<1>2. ChildrenForTask(r, p) \subseteq Kids(p)
  BY DEF ChildrenForTask
<1>3. \A j \in Kids(p) : z[j].slot = r[j].slot
  BY DEF KeysAt
<1>4. ASSUME Filled(r, b, p)  PROVE  Filled(z, d, p)
  <2>0. b[p] = ChildrenForTask(r, p) /\ d[p] = b[p] /\ b[p] \subseteq Kids(p)
    BY <1>2, <1>4 DEF Filled
  <2>1. \A j, k \in d[p] : z[j].slot = z[k].slot => j = k
    BY <1>3, <1>4, <2>0 DEF Filled
  <2>2. ASSUME NEW j \in Kids(p), z[j].status # "none", z[j].ptepoch = z[p].tepoch
        PROVE  \E k \in d[p] : z[k].slot = z[j].slot
    <3>1. r[j].status # "none" /\ r[j].ptepoch = r[p].tepoch
      BY <2>2 DEF KeysAt
    <3>2. PICK k \in b[p] : r[k].slot = r[j].slot
      BY <1>4, <3>1 DEF Filled
    <3> QED  BY <1>3, <2>0, <3>2
  <2> QED  BY <1>1, <2>0, <2>1, <2>2 DEF Filled
<1> QED  BY <1>1, <1>4

(* The batch and the wait of a row that a step leaves alone.               *)
BatchOK(r, b, p) ==
    /\ r[p].status \in Alive \cup {"failed"} /\ ChildrenForTask(r, p) # {} =>
         Filled(r, b, p)
    /\ r[p].status \in Alive /\ r[p].phase # "" => Filled(r, b, p)
    /\ r[p].status \in Alive /\ r[p].phase = "collecting" =>
         \A k \in ChildrenForTask(r, p) : r[k].status \notin Alive

(* The batch and the wait of p stand when a step leaves those columns, its *)
(* status, its phase and its children alone.                               *)
LEMMA RowKept ==
    ASSUME NEW r, NEW z, NEW b, NEW d, TreeInv(r, b), NEW p \in Ids,
           KeysAt(r, z, p), d[p] = b[p],
           z[p].status = r[p].status, z[p].phase = r[p].phase,
           \A k \in ChildrenForTask(r, p) : z[k].status = r[k].status
    PROVE  BatchOK(z, d, p) /\ Waits(z, p)
<1>1. /\ ChildrenForTask(z, p) = ChildrenForTask(r, p)
      /\ Filled(r, b, p) => Filled(z, d, p)
  BY KeysAtDecide
<1>2. BatchOK(r, b, p) /\ Waits(r, p)
  BY DEF TreeInv, Sound, Batches, BatchOK
<1>3. BatchOK(z, d, p)
  BY <1>1, <1>2 DEF BatchOK
<1>4. Waits(z, p)
  BY <1>1, <1>2 DEF Waits
<1> QED  BY <1>3, <1>4

(* Epochs are natural numbers.                                             *)
LEMMA EpochNat == \A n \in 0..MaxEpoch : n \in Nat
  BY TreeAssumption DEF TreeAssumption

(* A row of an earlier entry is not of the entry after.                    *)
LEMMA Earlier ==
    ASSUME NEW m \in Nat, NEW n \in Nat, NEW e \in Nat,
           (m <= n /\ e = n + 1) \/ (m < n /\ e = n)
    PROVE  m < e /\ m <= e /\ m # e
  OBVIOUS

(* What is at most another number and differs from it is less.             *)
LEMMA AtMost ==
    ASSUME NEW m \in Nat, NEW n \in Nat, m <= n, m # n
    PROVE  m < n
  OBVIOUS

(* A row sent on from a collect has spawned nothing in its task entry.     *)
LEMMA StrayEmpty ==
    ASSUME TreeInv(row, batch), NEW p \in Ids, row[p].held # "", Strayed(row, p)
    PROVE  /\ batch[p] = {}
           /\ \A k \in Kids(p) :
                row[k].status # "none" => row[k].ptepoch # row[p].tepoch
<1>1. row[p].status \in Alive
  BY HeldRow DEF Alive, Busy, Draining
<1>2. Filled(row, batch, p)
  BY <1>1 DEF Strayed, TreeInv, Sound, Batches
<1>3. ChildrenForTask(row, p) = {} /\ batch[p] = {}
  BY <1>2 DEF Filled, Strayed
<1>4. ASSUME NEW k \in Kids(p), row[k].status # "none"
      PROVE  row[k].ptepoch # row[p].tepoch
  BY <1>2, <1>3, <1>4 DEF Filled
<1> QED  BY <1>3, <1>4

(* A transition, an attempt or a park: the row goes on to a task entry     *)
(* that has spawned nothing, with an empty batch if it says collecting.    *)
LEMMA EnterInv ==
    ASSUME TreeInv(row, batch), NEW p \in Ids, row[p].held # "",
           NEW te \in 0..MaxEpoch,
           \/ te = row[p].tepoch
              /\ (row[p].phase = "" \/ Kids(p) = {} \/ Strayed(row, p))
           \/ te = row[p].tepoch + 1,
           NEW ph \in {"", "collecting"}, NEW ov, ov \in BOOLEAN,
           NEW z, z = Released(p, row[p].status, ph, te, ov),
           NEW d \in [Ids -> SUBSET Ids], \A q \in Ids \ {p} : d[q] = batch[q],
           ph = "collecting" => d[p] = {}
    PROVE  TreeInv(z, d)
<1>0. /\ row[p] \in Row /\ row \in [Ids -> Row]
      /\ batch \in [Ids -> SUBSET Ids] /\ Root \in Ids
      /\ row[p].status \in {"running", "pausing", "cancelling"}
      /\ ~row[p].superseded
      /\ \A k \in Kids(p) : row[k].status \notin Bound
      /\ p # Root => UnderOK(row, p, Parent[p])
  BY HeldRow, TreeAssumption DEF TreeInv, Sound, TreeAssumption
<1>1. Saves(z, p, row[p].status, ph, te)
  <2>1. PICK s \in Status : s = row[p].status
    BY <1>0 DEF Status, Busy, Draining
  <2>2. z = Released(p, s, ph, te, ov)
    BY <2>1
  <2>3. row \in [Ids -> Row] /\ ph \in {"", "children", "collecting"}
    BY <1>0
  <2>4. Saves(z, p, s, ph, te)
    BY <2>2, <2>3, ReleasedRow
  <2> QED  BY <2>1, <2>4
<1>2. /\ z \in [Ids -> Row]
      /\ \A i \in Ids \ {p} : z[i] = row[i]
      /\ z[p].status = row[p].status /\ z[p].phase = ph /\ z[p].tepoch = te
      /\ z[p].held = "" /\ z[p].ptepoch = row[p].ptepoch
      /\ z[p].slot = row[p].slot /\ z[p].superseded = row[p].superseded
  BY <1>1 DEF Saves
<1>3. ASSUME NEW k \in Kids(p), row[k].status # "none"
      PROVE  row[k].ptepoch < te /\ row[k].ptepoch <= te /\ row[k].ptepoch # te
  <2>1. k \in Ids \ {Root} /\ Parent[k] = p
    BY TreeAssumption DEF TreeAssumption, Kids
  <2>2. UnderOK(row, k, p)
    BY <2>1 DEF TreeInv, Sound, Under
  <2>3. row[k] \in Row
    BY <1>0, <2>1
  <2>4. row[k].ptepoch \in Nat /\ row[p].tepoch \in Nat /\ te \in Nat
    <3>1. row[k].ptepoch \in 0..MaxEpoch /\ row[p].tepoch \in 0..MaxEpoch
      BY <1>0, <2>3 DEF Row
    <3> QED  BY <3>1, EpochNat
  <2>5. row[k].ptepoch <= row[p].tepoch
        /\ (row[p].phase = "" => row[k].ptepoch < row[p].tepoch)
    BY <1>0, <1>3, <2>2 DEF UnderOK, Alive, Busy, Draining
  <2>5a. Strayed(row, p) => row[k].ptepoch # row[p].tepoch
    BY <1>3, StrayEmpty
  <2>5b. Strayed(row, p) => row[k].ptepoch < row[p].tepoch
    BY <2>4, <2>5, <2>5a, AtMost
  <2>6. \/ row[k].ptepoch <= row[p].tepoch /\ te = row[p].tepoch + 1
        \/ row[k].ptepoch < row[p].tepoch /\ te = row[p].tepoch
    BY <2>5, <2>5b
  <2> QED  BY <2>4, <2>6, Earlier
<1>4. ChildrenForTask(z, p) = {}
  <2>1. \A k \in Kids(p) : k \in Ids \ {p}
    <3>1. \A k \in Kids(p) : k \in Ids \ {Root} /\ Parent[k] = p
      BY TreeAssumption DEF TreeAssumption, Kids
    <3> QED  BY <3>1, ParentFacts, StackFacts
  <2> QED  BY <1>2, <1>3, <2>1 DEF ChildrenForTask
<1>5. ASSUME NEW q \in Ids
      PROVE  BatchOK(z, d, q) /\ Waits(z, q)
  <2>1. CASE q = p
    <3>1. ph = "collecting" => Filled(z, d, p)
      <4>1. \A k \in Kids(p) : k \in Ids \ {p}
        <5>1. \A k \in Kids(p) : k \in Ids \ {Root} /\ Parent[k] = p
          BY TreeAssumption DEF TreeAssumption, Kids
        <5> QED  BY <5>1, ParentFacts, StackFacts
      <4> QED  BY <1>2, <1>3, <1>4, <4>1 DEF Filled
    <3> QED  BY <1>2, <1>4, <2>1, <3>1 DEF BatchOK, Waits
  <2>2. CASE q # p
    <3>1. z[q] = row[q]
      BY <1>2, <2>2
    <3>2. KeysAt(row, z, q)
      BY <1>2, <3>1 DEF KeysAt, Kids
    <3>3. \A k \in ChildrenForTask(row, q) : z[k].status = row[k].status
      BY <1>2 DEF ChildrenForTask, Kids
    <3>4. d[q] = batch[q]
      BY <2>2
    <3> QED  BY <3>1, <3>2, <3>3, <3>4, RowKept
  <2> QED  BY <2>1, <2>2
<1>6. Batches(z, d) /\ \A q \in Ids : Waits(z, q)
  BY <1>5 DEF Batches, BatchOK
<1>7. Held(z) /\ Retired(z)
  <2>1. Held(row) /\ Retired(row)
    BY DEF TreeInv, Sound
  <2>2. \A i \in Ids : z[i].held # "" => z[i] = row[i]
    BY <1>2
  <2>3. Held(z)
    BY <2>1, <2>2 DEF Held
  <2>4. Retired(z)
    BY <1>0, <1>2, <2>1 DEF Retired
  <2> QED  BY <2>3, <2>4
<1>8. Agree(z) /\ z[Root].status # "none"
  <2>1. \A i \in Ids : z[i].status = row[i].status
    BY <1>2
  <2> QED  BY <1>0, <2>1 DEF TreeInv, Sound, Agree
<1>9. Under(z)
  <2> SUFFICES ASSUME NEW i \in Ids \ {Root}, NEW q \in Ids, q = Parent[i]
               PROVE  UnderOK(z, i, q)
    BY ParentFacts DEF Under
  <2>0. UnderOK(row, i, q) /\ q # i
    BY StackFacts DEF TreeInv, Sound, Under
  <2>1. CASE i = p
    BY <1>2, <2>0, <2>1 DEF UnderOK
  <2>2. CASE q = p
    <3>1. i \in Kids(p) /\ z[i] = row[i] /\ row[i].status \notin Bound
      BY <1>0, <1>2, <2>0, <2>2 DEF Kids
    <3>2. row[i].status # "none" => row[i].ptepoch < te /\ row[i].ptepoch <= te
      BY <1>3, <3>1
    <3> QED  BY <1>0, <1>2, <2>2, <3>1, <3>2 DEF UnderOK, Bound, Busy, Draining
  <2>3. CASE i # p /\ q # p
    BY <1>2, <2>0, <2>3 DEF UnderOK
  <2> QED  BY <2>1, <2>2, <2>3
<1> QED  BY <1>0, <1>2, <1>6, <1>7, <1>8, <1>9 DEF TreeInv, Sound

-----------------------------------------------------------------------------
(* A row inserted as spawned by p's current task entry.                    *)
Spawned(y, p) ==
    /\ y \in Row /\ y.status = row[p].status /\ y.phase = "" /\ y.held = ""
    /\ y.tepoch = 0 /\ y.ptepoch = row[p].tepoch /\ ~y.superseded

(* What Inserted makes, as one fact.                                       *)
Fresh(y, s, e, t) ==
    /\ y \in Row /\ y.status = s /\ y.phase = "" /\ y.held = ""
    /\ y.tepoch = 0 /\ y.ptepoch = e /\ y.slot = t /\ ~y.superseded

(* Inserted has the columns it says.                                       *)
LEMMA InsertedRow ==
    ASSUME NEW i \in Ids, NEW s \in Status \cup {"none"}, NEW e \in 0..MaxEpoch,
           NEW t \in Ids, NEW n \in Nat
    PROVE  Fresh(Inserted(i, s, e, t, n), s, e, t)
<1>1. 0 \in 0..MaxEpoch
  BY TreeAssumption DEF TreeAssumption
<1> QED  BY <1>1 DEF Inserted, Row, Fresh

(* Retiring A and inserting F, by a held row p that has nobody to wait for.*)
Refills(z, d, p, A, F) ==
    /\ z \in [Ids -> Row] /\ d \in [Ids -> SUBSET Ids]
    /\ F \subseteq Unborn(p) /\ F # {} /\ A \subseteq Raised(row, p)
    /\ \A i \in F : Spawned(z[i], p)
    /\ \A i \in A : /\ z[i].status = "raised" /\ z[i].phase = row[i].phase
                    /\ z[i].tepoch = row[i].tepoch
                    /\ z[i].ptepoch = row[i].ptepoch
                    /\ z[i].held = row[i].held
    /\ z[p].status = row[p].status /\ z[p].phase = "children"
    /\ z[p].held = "" /\ z[p].tepoch = row[p].tepoch
    /\ z[p].ptepoch = row[p].ptepoch /\ z[p].superseded = row[p].superseded
    /\ z[p].slot = row[p].slot
    /\ \A i \in Ids \ (A \cup F \cup {p}) : z[i] = row[i]
    /\ \A q \in Ids \ {p} : d[q] = batch[q]
    /\ Filled(z, d, p)

(* An epoch is not after itself.                                           *)
LEMMA LeqSelf == \A n \in Nat : n <= n
  OBVIOUS

(* A spawn or a re-spawn keeps the invariant.                              *)
LEMMA RefillInv ==
    ASSUME TreeInv(row, batch), NEW p \in Ids, row[p].held # "",
           NEW z, NEW d, NEW A, NEW F, Refills(z, d, p, A, F)
    PROVE  TreeInv(z, d)
<1>0. /\ row[p] \in Row /\ row \in [Ids -> Row] /\ Root \in Ids
      /\ row[p].status \in {"running", "pausing", "cancelling"}
      /\ row[p].status \in Busy /\ row[p].status # "none"
      /\ ~row[p].superseded
      /\ \A q \in Stack[p] :
           row[q].status \in Busy /\ row[q].phase = "children"
      /\ \A k \in Kids(p) : row[k].status \notin Bound
  BY HeldRow, TreeAssumption
     DEF TreeInv, Sound, TreeAssumption, Busy, Draining
<1>1. /\ \A i \in F : i \in Kids(p) /\ row[i].status = "none"
      /\ \A i \in A : /\ i \in Kids(p) /\ row[i].status = "raised"
                      /\ row[i].ptepoch = row[p].tepoch
  BY DEF Refills, Unborn, Raised, ChildrenForTask
<1>2. \A i \in Kids(p) : i \in Ids \ {Root} /\ i # p /\ Parent[i] = p
  <2>1. \A k \in Kids(p) : k \in Ids \ {Root} /\ Parent[k] = p
    BY TreeAssumption DEF TreeAssumption, Kids
  <2> QED  BY <2>1, ParentFacts, StackFacts
<1>3. row[Root].status # "none" /\ Agree(row) /\ Under(row) /\ Held(row)
      /\ Retired(row)
  BY DEF TreeInv, Sound
<1>4. \A i \in Ids : i \in A \/ i \in F \/ i = p \/ z[i] = row[i]
  BY DEF Refills
<1>5a. \A i \in F : /\ z[i].status = row[p].status /\ z[i].phase = ""
                     /\ z[i].held = "" /\ z[i].tepoch = 0
                     /\ z[i].ptepoch = row[p].tepoch /\ ~z[i].superseded
  BY DEF Refills, Spawned
<1>5b. \A i \in A : /\ z[i].status = row[i].status /\ z[i].phase = row[i].phase
                     /\ z[i].tepoch = row[i].tepoch /\ z[i].held = row[i].held
                     /\ z[i].ptepoch = row[i].ptepoch
  BY <1>1 DEF Refills
<1>5c. /\ z[p].status = row[p].status /\ z[p].phase = "children"
       /\ z[p].held = "" /\ z[p].tepoch = row[p].tepoch
       /\ z[p].ptepoch = row[p].ptepoch /\ z[p].superseded = row[p].superseded
       /\ z[p].slot = row[p].slot
  BY DEF Refills
<1>5. /\ \A i \in F : /\ z[i].status = row[p].status /\ z[i].phase = ""
                      /\ z[i].held = "" /\ z[i].tepoch = 0
                      /\ z[i].ptepoch = row[p].tepoch /\ ~z[i].superseded
      /\ \A i \in A : /\ z[i].status = row[i].status /\ z[i].phase = row[i].phase
                      /\ z[i].tepoch = row[i].tepoch /\ z[i].held = row[i].held
                      /\ z[i].ptepoch = row[i].ptepoch
      /\ z[p].status = row[p].status /\ z[p].phase = "children"
      /\ z[p].held = "" /\ z[p].tepoch = row[p].tepoch
      /\ z[p].ptepoch = row[p].ptepoch /\ z[p].superseded = row[p].superseded
  BY <1>5a, <1>5b, <1>5c
<1>6. Held(z)
  <2>1. \A i \in Ids : row[i].held # "" => row[i].status # "raised"
    BY <1>3 DEF Held
  <2>2. \A i \in Ids : z[i].held # "" => z[i] = row[i]
    BY <1>1, <1>2, <1>4, <1>5, <2>1
  <2> QED  BY <1>3, <2>2 DEF Held
<1>7. Retired(z)
  <2> SUFFICES ASSUME NEW i \in Ids, z[i].superseded  PROVE  z[i].status = "raised"
    BY DEF Retired
  <2>1. CASE i \in A
    BY <1>1, <1>5b, <2>1
  <2>2. CASE i \notin A
    <3>1. i \notin F /\ i # p
      BY <1>0, <1>5a, <1>5c
    <3>2. z[i] = row[i]
      BY <1>4, <2>2, <3>1
    <3> QED  BY <1>3, <3>2 DEF Retired
  <2> QED  BY <2>1, <2>2
<1>8. Agree(z) /\ z[Root].status # "none"
  <2>1. z[Root].status = row[Root].status
    BY <1>0, <1>1, <1>2, <1>4, <1>5
  <2>2. row[p].status \in Allowed(row[Root].status)
    BY <1>0, <1>3 DEF Agree, Bound
  <2>3. \A i \in Ids : z[i].status = row[i].status \/ z[i].status = row[p].status
    BY <1>4, <1>5
  <2> QED  BY <1>3, <2>1, <2>2, <2>3 DEF Agree
<1>9. ASSUME NEW i \in Ids \ {Root}, NEW q \in Ids, q = Parent[i]
      PROVE  UnderOK(z, i, q)
  <2>0. UnderOK(row, i, q) /\ q # i /\ q \in Stack[i]
    <3>1. Parent[i] \in Stack[i] /\ i \notin Stack[i]
      BY StackFacts
    <3> QED  BY <1>3, <1>9, <3>1 DEF Under
  <2>1. CASE i \in F
    <3>1. q = p
      BY <1>1, <1>2, <1>9, <2>1
    <3>2. row[p].tepoch <= row[p].tepoch
      <4>1. row[p].tepoch \in 0..MaxEpoch
        BY <1>0 DEF Row
      <4>2. row[p].tepoch \in Nat
        BY <4>1, EpochNat
      <4> QED  BY <4>2, LeqSelf
    <3> QED  BY <1>0, <1>5, <2>1, <3>1, <3>2
             DEF UnderOK, Bound, Alive, Busy, Draining
  <2>2. CASE i \notin F /\ q = p
    <3>1. i \in Kids(p) /\ i # p /\ row[i].status \notin Bound
      BY <1>0, <1>9, <2>0, <2>2 DEF Kids
    <3>2. z[i].status = row[i].status /\ z[i].ptepoch = row[i].ptepoch
      BY <1>4, <1>5, <2>2, <3>1
    <3> QED  BY <1>0, <1>5, <2>0, <2>2, <3>1, <3>2
             DEF UnderOK, Bound, Busy, Draining
  <2>3. CASE q # p /\ q \in F
    <3>1. row[i].status = "none"
      BY <1>1, <2>0, <2>3 DEF UnderOK
    <3>2. z[i] = row[i]
      BY <1>0, <1>1, <1>2, <1>4, <1>9, <2>3, <3>1
    <3> QED  BY <3>1, <3>2 DEF UnderOK, Bound, Busy, Draining
  <2>4. CASE i \notin F /\ q # p /\ q \notin F
    <3>1. i \notin A
      BY <1>1, <1>2, <1>9, <2>4
    <3>2. /\ z[i].status = row[i].status /\ z[i].ptepoch = row[i].ptepoch
          /\ z[i].superseded = row[i].superseded
      BY <1>4, <1>5, <2>4, <3>1
    <3>3. /\ z[q].status = row[q].status /\ z[q].phase = row[q].phase
          /\ z[q].tepoch = row[q].tepoch
      BY <1>4, <1>5, <2>4
    <3> QED  BY <2>0, <3>2, <3>3 DEF UnderOK
  <2> QED  BY <2>1, <2>2, <2>3, <2>4
<1>10. ASSUME NEW q \in Ids
       PROVE  BatchOK(z, d, q) /\ Waits(z, q)
  <2>1. CASE q = p
    <3>1. PICK i \in F : TRUE
      BY DEF Refills
    <3>2. i \in ChildrenForTask(z, p) /\ z[i].status \in Busy
      BY <1>0, <1>1, <1>5, <3>1 DEF ChildrenForTask
    <3>3. Filled(z, d, p)
      BY DEF Refills
    <3> QED  BY <1>0, <1>5, <2>1, <3>2, <3>3 DEF BatchOK, Waits, Alive
  <2>2. CASE q \in F
    <3>1. \A k \in Kids(q) : z[k].status = "none"
      <4> SUFFICES ASSUME NEW k \in Kids(q)  PROVE  z[k].status = "none"
        OBVIOUS
      <4>1. k \in Ids \ {Root} /\ Parent[k] = q
        BY TreeAssumption DEF TreeAssumption, Kids
      <4>2. row[k].status = "none"
        BY <1>1, <1>3, <2>2, <4>1 DEF Under, UnderOK
      <4>3. q # p
        BY <1>1, <1>2, <2>2
      <4> QED  BY <1>0, <1>1, <1>2, <1>4, <4>1, <4>2, <4>3
    <3>2. ChildrenForTask(z, q) = {}
      BY <3>1 DEF ChildrenForTask
    <3> QED  BY <1>5, <2>2, <3>2 DEF BatchOK, Waits
  <2>3. CASE q # p /\ q \notin F
    <3>1. \A k \in Kids(q) : k \in Ids /\ k \notin A /\ k \notin F
      BY <1>1, <1>2, <2>3 DEF Kids
    <3>2. KeysAt(row, z, q)
      <4>1. z[q].tepoch = row[q].tepoch
        BY <1>4, <1>5b, <2>3
      <4>2. \A k \in Kids(q) : k = p \/ z[k] = row[k]
        BY <1>4, <3>1
      <4> QED  BY <1>5c, <4>1, <4>2 DEF KeysAt
    <3>3. \A k \in ChildrenForTask(row, q) : z[k].status = row[k].status
      BY <1>4, <1>5, <3>1 DEF ChildrenForTask
    <3>4. z[q].status = row[q].status /\ z[q].phase = row[q].phase /\ d[q] = batch[q]
      BY <1>4, <1>5, <2>3 DEF Refills
    <3> QED  BY <3>2, <3>3, <3>4, RowKept
  <2> QED  BY <2>1, <2>2, <2>3
<1>11. Batches(z, d) /\ \A q \in Ids : Waits(z, q)
  BY <1>10 DEF Batches, BatchOK
<1>12. Under(z)
  BY <1>9, ParentFacts DEF Under
<1> QED  BY <1>6, <1>7, <1>8, <1>11, <1>12 DEF TreeInv, Sound, Refills

(* SpawnChildrenAndWait fills the first batch of an entry.                 *)
LEMMA SpawnInv ==
    ASSUME TreeInv(row, batch), NEW p \in Ids, Spawn(p)
    PROVE  TreeInv(row', batch')
<1>0. /\ row[p].held = "running" /\ row[p].phase = "" /\ row[p] \in Row
      /\ row \in [Ids -> Row] /\ batch \in [Ids -> SUBSET Ids]
      /\ row[p].status \in {"running", "pausing", "cancelling"}
      /\ row[p].tepoch \in 0..MaxEpoch /\ Under(row)
  BY HeldRow DEF Spawn, TreeInv, Sound, Row
<1>1. PICK S \in (SUBSET Unborn(p)) \ {{}} :
        /\ row' = [i \in Ids |->
                     IF i \in S
                     THEN Inserted(i, row[p].status, row[p].tepoch, i, 0)
                     ELSE IF i = p
                     THEN [row[p] EXCEPT !.phase = "children", !.held = ""]
                     ELSE row[i]]
        /\ batch' = [batch EXCEPT ![p] = S]
  BY DEF Spawn
<1> DEFINE y == [row[p] EXCEPT !.phase = "children", !.held = ""]
<1>2. /\ y \in Row /\ y.status = row[p].status /\ y.phase = "children"
      /\ y.held = "" /\ y.tepoch = row[p].tepoch /\ y.ptepoch = row[p].ptepoch
      /\ y.superseded = row[p].superseded /\ y.slot = row[p].slot
  BY <1>0 DEF Row
<1>3. \A i \in S : i \in Kids(p) /\ i \in Ids /\ row[i].status = "none" /\ i # p
  BY <1>0, <1>1 DEF Unborn, Kids
<1>4. /\ \A i \in S : row'[i] = Inserted(i, row[p].status, row[p].tepoch, i, 0)
      /\ row'[p] = y
      /\ \A i \in Ids \ (S \cup {p}) : row'[i] = row[i]
  BY <1>1, <1>3
<1> HIDE DEF y
<1>5. \A i \in S : Spawned(row'[i], p) /\ row'[i].slot = i
  <2> SUFFICES ASSUME NEW i \in S
               PROVE  Spawned(row'[i], p) /\ row'[i].slot = i
    OBVIOUS
  <2>1. PICK s \in Status \cup {"none"} : s = row[p].status
    BY <1>0 DEF Row
  <2>2. PICK e \in 0..MaxEpoch : e = row[p].tepoch
    BY <1>0
  <2>3. row'[i] = Inserted(i, s, e, i, 0) /\ i \in Ids /\ 0 \in Nat
    BY <1>3, <1>4, <2>1, <2>2
  <2>4. Fresh(row'[i], s, e, i)
    BY <2>3, InsertedRow
  <2> QED  BY <2>1, <2>2, <2>4 DEF Spawned, Fresh
<1>6. row' \in [Ids -> Row]
  <2>1. \A i \in Ids : row'[i] \in Row
    <3>1. \A i \in S : row'[i] \in Row
      BY <1>5 DEF Spawned
    <3>2. \A i \in Ids \ (S \cup {p}) : row'[i] \in Row
      BY <1>0, <1>4
    <3>3. row'[p] \in Row
      BY <1>2, <1>4
    <3> QED  BY <3>1, <3>2, <3>3
  <2>2. row' = [i \in Ids |-> row'[i]]
    BY <1>1
  <2> QED  BY <2>1, <2>2
<1>7. /\ batch' \in [Ids -> SUBSET Ids] /\ batch'[p] = S
      /\ \A q \in Ids \ {p} : batch'[q] = batch[q]
  BY <1>0, <1>1, <1>3
<1>8. \A k \in Kids(p) : k \notin S /\ row[k].status # "none" =>
        /\ row'[k] = row[k] /\ row[k].ptepoch # row[p].tepoch
  <2> SUFFICES ASSUME NEW k \in Kids(p), k \notin S, row[k].status # "none"
               PROVE  row'[k] = row[k] /\ row[k].ptepoch # row[p].tepoch
    OBVIOUS
  <2>1. k \in Ids \ {Root} /\ Parent[k] = p
    BY TreeAssumption DEF TreeAssumption, Kids
  <2>2. k # p
    BY <2>1, ParentFacts, StackFacts
  <2>3. row[p].status \in Alive
    BY <1>0 DEF Alive, Busy, Draining
  <2>4. row[k].ptepoch < row[p].tepoch
    BY <1>0, <2>1, <2>3 DEF Under, UnderOK
  <2>5. row[k].ptepoch \in Nat /\ row[p].tepoch \in Nat
    <3>1. row[k].ptepoch \in 0..MaxEpoch
      BY <1>0, <2>1 DEF Row
    <3> QED  BY <1>0, <3>1, EpochNat
  <2> QED  BY <1>4, <2>1, <2>2, <2>4, <2>5
<1>9. Filled(row', batch', p)
  <2>1. row'[p].tepoch = row[p].tepoch
    BY <1>2, <1>4
  <2>2. \A i \in S : /\ row'[i].status # "none" /\ ~row'[i].superseded
                     /\ row'[i].ptepoch = row[p].tepoch
    BY <1>0, <1>5 DEF Spawned
  <2>3. \A k \in Kids(p) \ S : row[k].status = "none" => row'[k].status = "none"
    BY <1>0, <1>4 DEF Kids
  <2>4. \A k \in Kids(p) : row'[k].status # "none" /\ row'[k].ptepoch = row'[p].tepoch
                           => k \in S
    BY <1>8, <2>1, <2>3
  <2>5. ChildrenForTask(row', p) = S
    BY <1>3, <2>1, <2>2, <2>4 DEF ChildrenForTask
  <2> QED  BY <1>5, <1>7, <2>4, <2>5 DEF Filled
<1>10. Refills(row', batch', p, {}, S)
  <2>1. \A i \in {} : FALSE
    OBVIOUS
  <2>2. S \subseteq Unborn(p) /\ S # {} /\ {} \subseteq Raised(row, p)
    BY <1>1
  <2>3. \A i \in Ids \ ({} \cup S \cup {p}) : row'[i] = row[i]
    BY <1>4
  <2>4. \A i \in S : Spawned(row'[i], p)
    BY <1>5
  <2> QED  BY <1>2, <1>4, <1>6, <1>7, <1>9, <2>2, <2>3, <2>4 DEF Refills
<1>11. row[p].held # ""
  BY <1>0
<1> QED
  <2>1. PICK z : z = row'
    OBVIOUS
  <2>2. PICK d : d = batch'
    OBVIOUS
  <2>3. Refills(z, d, p, {}, S)
    BY <1>10, <2>1, <2>2
  <2>4. TreeInv(z, d)
    BY <1>11, <2>3, RefillInv
  <2> QED  BY <2>1, <2>2, <2>4

(* RespawnSlotsAndWait refills the slots of the raised attempts.           *)
LEMMA RespawnInv ==
    ASSUME TreeInv(row, batch), NEW p \in Ids, Respawn(p)
    PROVE  TreeInv(row', batch')
<1>0. /\ row[p].held = "running" /\ row[p].phase = "collecting" /\ row[p] \in Row
      /\ row \in [Ids -> Row] /\ batch \in [Ids -> SUBSET Ids]
      /\ row[p].status \in {"running", "pausing", "cancelling"}
  BY HeldRow DEF Respawn, TreeInv, Sound, Row
<1>1. PICK A \in (SUBSET Raised(row, p)) \ {{}}, F \in SUBSET Unborn(p) :
      \E fresh \in Bijection(A, F) :
        /\ row' = [i \in Ids |->
                     IF i \in A THEN [row[i] EXCEPT !.superseded = TRUE]
                     ELSE IF i \in F
                     THEN LET old == CHOOSE k \in A : fresh[k] = i IN
                          Inserted(i, row[p].status, row[old].ptepoch,
                                   row[old].slot, row[old].attempt + 1)
                     ELSE IF i = p
                     THEN [row[p] EXCEPT !.phase = "children", !.held = "",
                                         !.override = FALSE]
                     ELSE row[i]]
        /\ batch' = [batch EXCEPT ![p] = (batch[p] \ A) \cup F]
  BY <1>0 DEF Respawn
<1>1a. PICK fresh \in Bijection(A, F) :
        /\ row' = [i \in Ids |->
                     IF i \in A THEN [row[i] EXCEPT !.superseded = TRUE]
                     ELSE IF i \in F
                     THEN LET old == CHOOSE k \in A : fresh[k] = i IN
                          Inserted(i, row[p].status, row[old].ptepoch,
                                   row[old].slot, row[old].attempt + 1)
                     ELSE IF i = p
                     THEN [row[p] EXCEPT !.phase = "children", !.held = "",
                                         !.override = FALSE]
                     ELSE row[i]]
        /\ batch' = [batch EXCEPT ![p] = (batch[p] \ A) \cup F]
  BY <1>1
<1> DEFINE y == [row[p] EXCEPT !.phase = "children", !.held = "",
                               !.override = FALSE]
           old(i) == CHOOSE k \in A : fresh[k] = i
<1>2. /\ y \in Row /\ y.status = row[p].status /\ y.phase = "children"
      /\ y.held = "" /\ y.tepoch = row[p].tepoch /\ y.ptepoch = row[p].ptepoch
      /\ y.superseded = row[p].superseded /\ y.slot = row[p].slot
  BY <1>0 DEF Row
<1>3. /\ \A i \in F : i \in Kids(p) /\ i \in Ids /\ row[i].status = "none"
                      /\ i # p
      /\ \A i \in A : /\ i \in Kids(p) /\ i \in Ids /\ row[i].status = "raised"
                      /\ row[i].ptepoch = row[p].tepoch /\ i # p
                      /\ ~row[i].superseded
  BY <1>0, <1>1 DEF Unborn, Kids, Raised, ChildrenForTask
<1>4. /\ fresh \in [A -> F]
      /\ \A j, k \in A : fresh[j] = fresh[k] => j = k
      /\ \A i \in F : \E k \in A : fresh[k] = i
  BY DEF Bijection, Injection, Surjection, IsInjective
<1>5. /\ \A i \in F : old(i) \in A /\ fresh[old(i)] = i
      /\ \A k \in A : fresh[k] \in F /\ old(fresh[k]) = k
  BY <1>4
<1>6. /\ \A i \in F : row'[i] = Inserted(i, row[p].status, row[old(i)].ptepoch,
                                  row[old(i)].slot, row[old(i)].attempt + 1)
      /\ \A i \in A : row'[i] = [row[i] EXCEPT !.superseded = TRUE]
      /\ row'[p] = y
      /\ \A i \in Ids \ (A \cup F \cup {p}) : row'[i] = row[i]
  <2>1. \A i \in F : i \notin A
    BY <1>3
  <2> QED  BY <1>1a, <1>3, <2>1
<1> HIDE DEF y, old
<1>7. \A i \in F : Spawned(row'[i], p) /\ row'[i].slot = row[old(i)].slot
  <2> SUFFICES ASSUME NEW i \in F
               PROVE  Spawned(row'[i], p) /\ row'[i].slot = row[old(i)].slot
    OBVIOUS
  <2>0. PICK k \in A : k = old(i)
    BY <1>5
  <2>1. PICK s \in Status \cup {"none"} : s = row[p].status
    BY <1>0 DEF Row
  <2>2. PICK e \in 0..MaxEpoch : e = row[k].ptepoch
    BY <1>0, <1>3 DEF Row
  <2>3. PICK t \in Ids : t = row[k].slot
    BY <1>0, <1>3 DEF Row
  <2>4. PICK n \in Nat : n = row[k].attempt + 1
    <3>1. row[k].attempt \in Nat
      BY <1>0, <1>3 DEF Row
    <3> QED  BY <3>1
  <2>5. row'[i] = Inserted(i, s, e, t, n) /\ i \in Ids /\ e = row[p].tepoch
    BY <1>3, <1>6, <2>0, <2>1, <2>2, <2>3, <2>4
  <2>6. Fresh(row'[i], s, e, t)
    BY <2>5, InsertedRow
  <2> QED  BY <2>0, <2>1, <2>2, <2>3, <2>5, <2>6 DEF Spawned, Fresh
<1>8. \A i \in A : /\ row'[i] \in Row /\ row'[i].status = "raised"
                   /\ row'[i].phase = row[i].phase
                   /\ row'[i].tepoch = row[i].tepoch
                   /\ row'[i].ptepoch = row[i].ptepoch
                   /\ row'[i].held = row[i].held
                   /\ row'[i].slot = row[i].slot /\ row'[i].superseded
  <2> SUFFICES ASSUME NEW i \in A, NEW w \in Row, w = row[i]
               PROVE  /\ row'[i] \in Row /\ row'[i].status = "raised"
                      /\ row'[i].phase = row[i].phase
                      /\ row'[i].tepoch = row[i].tepoch
                      /\ row'[i].ptepoch = row[i].ptepoch
                      /\ row'[i].held = row[i].held
                      /\ row'[i].slot = row[i].slot /\ row'[i].superseded
    BY <1>0, <1>3
  <2>1. row'[i] = [w EXCEPT !.superseded = TRUE] /\ w.status = "raised"
    BY <1>3, <1>6
  <2> QED  BY <2>1 DEF Row
<1>9. row' \in [Ids -> Row]
  <2>1. \A i \in Ids : row'[i] \in Row
    <3>1. \A i \in F : row'[i] \in Row
      BY <1>7 DEF Spawned
    <3>2. \A i \in Ids \ (A \cup F \cup {p}) : row'[i] \in Row
      BY <1>0, <1>6
    <3>3. row'[p] \in Row
      BY <1>2, <1>6
    <3> QED  BY <1>8, <3>1, <3>2, <3>3
  <2>2. row' = [i \in Ids |-> row'[i]]
    BY <1>1a
  <2> QED  BY <2>1, <2>2
<1>10. /\ batch' \in [Ids -> SUBSET Ids] /\ batch'[p] = (batch[p] \ A) \cup F
       /\ \A q \in Ids \ {p} : batch'[q] = batch[q]
  BY <1>0, <1>1a, <1>3
<1>11. Filled(row', batch', p)
  <2>0. row'[p].tepoch = row[p].tepoch
    BY <1>2, <1>6
  <2>1. Filled(row, batch, p)
    <3>1. row[p].status \in Alive
      BY <1>0 DEF Alive, Busy, Draining
    <3> QED  BY <1>0, <3>1 DEF TreeInv, Sound, Batches
  <2>2. A \subseteq batch[p] /\ batch[p] = ChildrenForTask(row, p)
    BY <1>1, <2>1 DEF Filled, Raised
  <2>3. \A k \in Kids(p) : k \in Ids /\ k # p
    <3>1. \A k \in Kids(p) : k \in Ids \ {Root} /\ Parent[k] = p
      BY TreeAssumption DEF TreeAssumption, Kids
    <3> QED  BY <3>1, ParentFacts, StackFacts
  <2>4. \A k \in Kids(p) \ (A \cup F) : row'[k] = row[k]
    BY <1>6, <2>3
  <2>5. \A i \in F : /\ row'[i].status # "none" /\ ~row'[i].superseded
                     /\ row'[i].ptepoch = row[p].tepoch
    BY <1>0, <1>7 DEF Spawned
  <2>6. ChildrenForTask(row', p) = (batch[p] \ A) \cup F
    <3>1. ASSUME NEW k \in Kids(p)
          PROVE  k \in ChildrenForTask(row', p) <=> k \in (batch[p] \ A) \cup F
      <4>1. CASE k \in F
        BY <1>3, <2>0, <2>5, <4>1 DEF ChildrenForTask
      <4>2. CASE k \in A
        BY <1>3, <1>8, <4>2 DEF ChildrenForTask
      <4>3. CASE k \notin A /\ k \notin F
        BY <2>0, <2>2, <2>4, <4>3 DEF ChildrenForTask
      <4> QED  BY <4>1, <4>2, <4>3
    <3>2. ChildrenForTask(row', p) \subseteq Kids(p)
      BY DEF ChildrenForTask
    <3>3. (batch[p] \ A) \cup F \subseteq Kids(p)
      BY <1>3, <2>2 DEF ChildrenForTask
    <3> QED  BY <3>1, <3>2, <3>3
  <2> DEFINE src(j) == IF j \in F THEN old(j) ELSE j
  <2>7. ASSUME NEW j \in batch'[p]
        PROVE  src(j) \in batch[p] /\ row'[j].slot = row[src(j)].slot
    <3>1. CASE j \in F
      BY <1>5, <1>7, <2>2, <3>1
    <3>2. CASE j \notin F
      <4>1. j \in batch[p] \ A /\ j \in Kids(p)
        BY <1>10, <2>2, <2>7, <3>2 DEF ChildrenForTask
      <4> QED  BY <2>4, <3>2, <4>1
    <3> QED  BY <3>1, <3>2
  <2>8. ASSUME NEW j \in batch'[p], NEW k \in batch'[p], src(j) = src(k)
        PROVE  j = k
    <3>1. \A i \in batch'[p] : i \in F \/ i \notin A
      BY <1>10
    <3>2. \A i \in F : old(i) \in A /\ fresh[old(i)] = i
      BY <1>5
    <3> QED  BY <2>8, <3>1, <3>2
  <2> HIDE DEF src
  <2>9. \A j, k \in batch'[p] : row'[j].slot = row'[k].slot => j = k
    <3>1. \A j, k \in batch[p] : row[j].slot = row[k].slot => j = k
      BY <2>1 DEF Filled
    <3>2. SUFFICES ASSUME NEW j \in batch'[p], NEW k \in batch'[p],
                         row'[j].slot = row'[k].slot
                  PROVE  j = k
      OBVIOUS
    <3>3. src(j) \in batch[p] /\ src(k) \in batch[p]
          /\ row[src(j)].slot = row[src(k)].slot
      BY <2>7, <3>2
    <3>4. src(j) = src(k)
      BY <3>1, <3>3
    <3> QED  BY <2>8, <3>4
  <2>10. ASSUME NEW j \in Kids(p), row'[j].status # "none",
                row'[j].ptepoch = row'[p].tepoch
         PROVE  \E k \in batch'[p] : row'[k].slot = row'[j].slot
    <3>1. CASE j \in F
      BY <1>10, <3>1
    <3>2. CASE j \notin F
      <4>1. row[j].status # "none" /\ row[j].ptepoch = row[p].tepoch
            /\ row'[j].slot = row[j].slot
        BY <1>3, <1>8, <2>0, <2>4, <2>10, <3>2
      <4>2. PICK k \in batch[p] : row[k].slot = row[j].slot
        BY <2>1, <4>1 DEF Filled
      <4>3. CASE k \in A
        <5>1. fresh[k] \in F /\ old(fresh[k]) = k
          BY <1>5, <4>3
        <5>2. row'[fresh[k]].slot = row[k].slot
          BY <1>7, <5>1
        <5> QED  BY <1>10, <4>1, <4>2, <5>1, <5>2
      <4>4. CASE k \notin A
        <5>1. k \in Kids(p) /\ row[k].status # "none"
          BY <2>2 DEF ChildrenForTask
        <5>2. k \notin F
          BY <1>3, <5>1
        <5> QED  BY <1>10, <2>4, <4>1, <4>2, <4>4, <5>1, <5>2
      <4> QED  BY <4>3, <4>4
    <3> QED  BY <3>1, <3>2
  <2>11. ChildrenForTask(row', p) = batch'[p]
    BY <1>10, <2>6
  <2> QED  BY <2>9, <2>10, <2>11 DEF Filled
<1>12. F # {}
  BY <1>1, <1>5
<1>13. Refills(row', batch', p, A, F)
  <2>1. F \subseteq Unborn(p) /\ A \subseteq Raised(row, p)
    BY <1>1
  <2>2. \A i \in F : Spawned(row'[i], p)
    BY <1>7
  <2> QED  BY <1>2, <1>6, <1>8, <1>9, <1>10, <1>11, <1>12, <2>1, <2>2 DEF Refills
<1>14. row[p].held # ""
  BY <1>0
<1> QED
  <2>1. PICK z : z = row'
    OBVIOUS
  <2>2. PICK d : d = batch'
    OBVIOUS
  <2>3. Refills(z, d, p, A, F)
    BY <1>13, <2>1, <2>2
  <2>4. TreeInv(z, d)
    BY <1>14, <2>3, RefillInv
  <2> QED  BY <2>1, <2>2, <2>4

-----------------------------------------------------------------------------
(* A stopped tree: what is not concluded is paused or failed, and nobody   *)
(* holds a row of it.                                                      *)
Stopped == {"paused", "failed"}

(* Under a paused or failed root everything not over is paused or failed,  *)
(* and nothing is claimed.                                                 *)
LEMMA StoppedTree ==
    ASSUME TreeInv(row, batch), row[Root].status \in Stopped
    PROVE  /\ \A i \in Ids : row[i].status \in Bound => row[i].status \in Stopped
           /\ \A i \in Ids : row[i].held = ""
<1>1. Agree(row) /\ Held(row)
  BY DEF TreeInv, Sound
<1>2. Allowed(row[Root].status) \subseteq Stopped
  BY DEF Allowed, Stopped
<1>3. \A i \in Ids : row[i].status \in Bound => row[i].status \in Stopped
  BY <1>1, <1>2 DEF Agree
<1>4. ASSUME NEW i \in Ids, row[i].held # ""  PROVE  FALSE
  <2>1. row[i].status \in {"running", "pausing", "cancelling"}
    BY <1>1, <1>4 DEF Held
  <2> QED  BY <1>3, <2>1 DEF Bound, Busy, Draining, Stopped
<1> QED  BY <1>3, <1>4

(* A failed row run again: it enters its task anew when the entry it       *)
(* failed in spawned nothing, waits for what is run again below it, or     *)
(* collects.                                                               *)
Rerun(z, i) ==
    \/ /\ ChildrenForTask(row, i) = {} /\ z[i].phase = ""
       /\ \/ Kids(i) = {} /\ z[i].tepoch = row[i].tepoch
          \/ z[i].tepoch = row[i].tepoch + 1
    \/ /\ ChildrenForTask(row, i) # {} /\ z[i].tepoch = row[i].tepoch
       /\ z[i].phase = IF \E k \in ChildrenForTask(row, i) :
                            row[k].status \in Stopped
                       THEN "children" ELSE "collecting"

(* A resume or a retry, row by row: everything stopped runs again.         *)
Restarts(z) ==
    /\ z \in [Ids -> Row]
    /\ \A i \in Ids :
         /\ z[i].ptepoch = row[i].ptepoch /\ z[i].slot = row[i].slot
         /\ z[i].superseded = row[i].superseded /\ z[i].held = row[i].held
         /\ row[i].status \in Stopped => z[i].status = "running"
         /\ row[i].status \notin Stopped => z[i] = row[i]
         /\ row[i].status = "paused" =>
              z[i].phase = row[i].phase /\ z[i].tepoch = row[i].tepoch
         /\ row[i].status = "failed" => Rerun(z, i)

(* The next task entry is after every entry so far.                        *)
LEMMA NextEpoch ==
    ASSUME NEW m \in Nat, NEW n \in Nat, m <= n
    PROVE  m < n + 1 /\ m <= n + 1 /\ m # n + 1
  OBVIOUS

(* Restarting a stopped tree keeps the invariant.                          *)
LEMMA RestartInv ==
    ASSUME TreeInv(row, batch), row[Root].status \in Stopped, NEW z, Restarts(z)
    PROVE  TreeInv(z, batch) /\ z[Root].status = "running"
<1>0. /\ row \in [Ids -> Row] /\ batch \in [Ids -> SUBSET Ids] /\ Root \in Ids
      /\ Held(row) /\ Under(row) /\ Retired(row) /\ Batches(row, batch)
      /\ \A q \in Ids : Waits(row, q)
  BY TreeAssumption DEF TreeInv, Sound, TreeAssumption
<1>1. /\ \A i \in Ids : row[i].status \in Bound => row[i].status \in Stopped
      /\ \A i \in Ids : row[i].held = ""
  BY StoppedTree
<1>2. \A i \in Ids :
        /\ z[i].status \in Bound =>
             row[i].status \in Stopped /\ z[i].status = "running"
        /\ z[i].status = "none" <=> row[i].status = "none"
        /\ row[i].status \in Stopped => z[i].status = "running"
        /\ row[i].status \notin Stopped => z[i] = row[i]
  BY <1>1 DEF Restarts, Stopped
<1>3. z[Root].status = "running"
  BY <1>0, <1>2
<1>4. Agree(z)
  BY <1>2, <1>3 DEF Agree, Allowed
<1>5. Held(z)
  BY <1>1 DEF Held, Restarts
<1>6. Retired(z)
  <2> SUFFICES ASSUME NEW i \in Ids, z[i].superseded  PROVE  z[i].status = "raised"
    BY DEF Retired
  <2>1. row[i].status = "raised"
    BY <1>0 DEF Restarts, Retired
  <2> QED  BY <1>2, <2>1 DEF Stopped
<1>7. \A i \in Ids :
        /\ row[i].status = "paused" =>
             z[i].phase = row[i].phase /\ z[i].tepoch = row[i].tepoch
        /\ row[i].status = "failed" => Rerun(z, i)
        /\ z[i].ptepoch = row[i].ptepoch /\ z[i].superseded = row[i].superseded
        /\ z[i].slot = row[i].slot
  BY DEF Restarts
<1>8. \A i \in Ids : row[i].tepoch \in Nat /\ row[i].ptepoch \in Nat
  <2>1. \A i \in Ids : row[i].tepoch \in 0..MaxEpoch /\ row[i].ptepoch \in 0..MaxEpoch
    BY <1>0 DEF Row
  <2> QED  BY <2>1, EpochNat
<1>9. \A k \in Ids \ {Root} : Parent[k] \in Ids /\ UnderOK(row, k, Parent[k])
  BY <1>0, ParentFacts DEF Under
<1>10. ASSUME NEW k \in Ids \ {Root}, NEW p \in Ids, p = Parent[k]
       PROVE  UnderOK(z, k, p)
  <2>0. UnderOK(row, k, p) /\ k \in Kids(p)
    BY <1>9, <1>10 DEF Kids
  <2>1. CASE row[p].status = "failed" /\ ChildrenForTask(row, p) = {}
    <3>1. /\ z[p].phase = "" /\ z[p].tepoch = row[p].tepoch + 1
          /\ z[p].status = "running"
      BY <1>2, <1>7, <2>0, <2>1 DEF Rerun, Stopped
    <3>2. row[k].status \notin Bound
      BY <2>0, <2>1 DEF UnderOK, ChildrenForTask, Bound, Busy, Draining
    <3>3. z[k].status = row[k].status /\ z[k].ptepoch = row[k].ptepoch
      BY <1>2, <3>2, <1>7 DEF Bound, Stopped
    <3>4. row[k].status # "none" =>
            z[k].ptepoch < z[p].tepoch /\ z[k].ptepoch <= z[p].tepoch
      <4>1. ASSUME row[k].status # "none"
            PROVE  z[k].ptepoch < z[p].tepoch /\ z[k].ptepoch <= z[p].tepoch
        <5>1. row[k].ptepoch <= row[p].tepoch
          BY <2>0, <4>1 DEF UnderOK
        <5>2. PICK m \in Nat : m = row[k].ptepoch
          BY <1>8
        <5>3. PICK n \in Nat : n = row[p].tepoch
          BY <1>8
        <5>4. m < n + 1 /\ m <= n + 1
          BY <5>1, <5>2, <5>3, NextEpoch
        <5> QED  BY <3>1, <3>3, <5>2, <5>3, <5>4
      <4> QED  BY <4>1
    <3> QED  BY <3>1, <3>2, <3>3, <3>4 DEF UnderOK, Bound, Busy, Draining
  <2>2. CASE ~(row[p].status = "failed" /\ ChildrenForTask(row, p) = {})
    <3>1. z[p].tepoch = row[p].tepoch
      BY <1>2, <1>7, <2>2 DEF Rerun, Stopped
    <3>2. ASSUME z[k].status \in Bound
          PROVE  /\ z[k].status = "running" /\ z[p].status = "running"
                 /\ z[p].phase = "children"
                 /\ z[k].ptepoch = z[p].tepoch /\ ~z[k].superseded
      <4>1. row[k].status \in Stopped /\ z[k].status = "running"
        BY <1>2, <3>2
      <4>2. row[k].status \in Bound
        BY <4>1 DEF Stopped, Bound
      <4>3. /\ row[k].ptepoch = row[p].tepoch /\ ~row[k].superseded
            /\ \/ row[p].status \in Alive /\ row[p].phase = "children"
               \/ row[p].status \in {"failed", "cancelled"}
        BY <2>0, <4>2 DEF UnderOK
      <4>4. row[p].status \in Stopped
        BY <1>1, <4>3 DEF Bound, Alive
      <4>5. k \in ChildrenForTask(row, p)
        BY <2>0, <4>1, <4>3 DEF ChildrenForTask, Stopped
      <4>6. CASE row[p].status = "paused"
        BY <1>2, <1>7, <3>1, <4>1, <4>3, <4>4, <4>6
      <4>7. CASE row[p].status = "failed"
        <5>1. Rerun(z, p)
          BY <1>7, <4>7
        <5>2. z[p].phase = "children"
          BY <4>1, <4>5, <5>1 DEF Rerun
        <5> QED  BY <1>2, <1>7, <3>1, <4>1, <4>3, <4>4, <5>2
      <4> QED  BY <4>4, <4>6, <4>7 DEF Stopped
    <3>3. row[p].status = "none" <=> z[p].status = "none"
      BY <1>2
    <3>4. row[k].status = "none" <=> z[k].status = "none"
      BY <1>2
    <3>5. z[k].ptepoch = row[k].ptepoch
      BY <1>7
    <3>6. z[p].status \in Alive /\ z[p].phase = "" =>
            row[p].status \in Alive /\ row[p].phase = ""
      <4>1. ASSUME z[p].status \in Alive, z[p].phase = ""
            PROVE  row[p].status \in Alive /\ row[p].phase = ""
        <5>1. row[p].status \in Stopped
          BY <1>2, <4>1 DEF Alive, Bound
        <5>2. row[p].status # "failed"
          BY <1>7, <2>2, <4>1 DEF Rerun
        <5> QED  BY <1>7, <4>1, <5>1, <5>2 DEF Stopped, Alive
      <4> QED  BY <4>1
    <3>7. z[k].status \in {"failing", "failed"} => FALSE
      BY <3>2 DEF Bound, Busy, Draining
    <3>8. z[k].status \in Busy => z[k].status \in Bound
      BY DEF Bound
    <3>9. "running" \in Busy /\ "running" \in Alive
      BY DEF Busy, Alive
    <3> QED  BY <2>0, <3>1, <3>2, <3>3, <3>4, <3>5, <3>6, <3>7, <3>8, <3>9
             DEF UnderOK
  <2> QED  BY <2>1, <2>2
<1>11. Under(z)
  BY <1>9, <1>10 DEF Under
<1>12. ASSUME NEW q \in Ids
       PROVE  BatchOK(z, batch, q) /\ Waits(z, q)
  <2>0. BatchOK(row, batch, q) /\ Waits(row, q)
    BY <1>0 DEF Batches, BatchOK
  <2>1. CASE row[q].status \notin Stopped
    <3>1. z[q].status \notin Bound
      BY <1>2, <2>1
    <3> QED  BY <3>1 DEF BatchOK, Waits, Bound, Alive
  <2>2. CASE row[q].status = "failed" /\ ChildrenForTask(row, q) = {}
    <3>1. z[q].phase = "" /\ (Kids(q) = {} \/ z[q].tepoch = row[q].tepoch + 1)
      BY <1>7, <2>2 DEF Rerun
    <3>2. ChildrenForTask(z, q) = {}
      <4> SUFFICES ASSUME NEW k \in Kids(q), z[k].status # "none",
                          z[k].ptepoch = z[q].tepoch
                   PROVE  FALSE
        BY DEF ChildrenForTask
      <4>1. k \in Ids \ {Root} /\ Parent[k] = q
        BY TreeAssumption DEF TreeAssumption, Kids
      <4>2. row[k].status # "none" /\ row[k].ptepoch = row[q].tepoch + 1
        BY <1>2, <1>7, <3>1, <4>1
      <4>3. row[k].ptepoch <= row[q].tepoch
        BY <1>9, <4>1, <4>2 DEF UnderOK
      <4> QED  BY <1>8, <4>1, <4>2, <4>3, NextEpoch
    <3> QED  BY <3>1, <3>2 DEF BatchOK, Waits
  <2>3. CASE row[q].status \in Stopped
             /\ ~(row[q].status = "failed" /\ ChildrenForTask(row, q) = {})
    <3>1. z[q].tepoch = row[q].tepoch /\ z[q].status = "running"
      BY <1>2, <1>7, <2>3 DEF Rerun, Stopped
    <3>2. KeysAt(row, z, q)
      BY <1>2, <1>7, <3>1 DEF KeysAt, Kids
    <3>3. /\ ChildrenForTask(z, q) = ChildrenForTask(row, q)
          /\ Filled(row, batch, q) => Filled(z, batch, q)
      BY <3>2, KeysAtDecide
    <3>4. \A k \in ChildrenForTask(row, q) :
            k \in Ids \ {Root} /\ Parent[k] = q /\ row[k].status # "none"
      BY TreeAssumption DEF TreeAssumption, Kids, ChildrenForTask
    <3>5. CASE row[q].status = "paused"
      <4>1. z[q].phase = row[q].phase /\ row[q].status \in Alive
            /\ row[q].status \notin Draining
        BY <1>7, <3>5 DEF Alive, Draining
      <4>2. \A k \in ChildrenForTask(row, q) : row[k].status # "failed"
        BY <1>9, <3>4, <3>5 DEF UnderOK
      <4>3. ASSUME NEW k \in ChildrenForTask(row, q)
            PROVE  row[k].status \in Alive <=> z[k].status \in Alive
        <5>1. row[k].status \in Alive => row[k].status \in Stopped
          BY <1>1, <3>4 DEF Alive, Bound
        <5>2. row[k].status \in Stopped => row[k].status \in Alive
          BY <4>2 DEF Stopped, Alive
        <5>3. "running" \in Alive
          BY DEF Alive, Busy
        <5> QED  BY <1>2, <3>4, <5>1, <5>2, <5>3
      <4>4. BatchOK(z, batch, q)
        BY <2>0, <3>1, <3>3, <4>1, <4>3 DEF BatchOK
      <4>5. Waits(z, q)
        <5>1. "running" \notin Draining
          BY DEF Draining
        <5> QED  BY <2>0, <3>1, <3>3, <4>1, <4>3, <5>1 DEF Waits
      <4> QED  BY <4>4, <4>5
    <3>6. CASE row[q].status = "failed"
      <4>1. /\ ChildrenForTask(row, q) # {}
            /\ z[q].phase = IF \E k \in ChildrenForTask(row, q) :
                                 row[k].status \in Stopped
                            THEN "children" ELSE "collecting"
        BY <1>7, <2>3, <3>6 DEF Rerun
      <4>2. \A k \in ChildrenForTask(row, q) :
              z[k].status \in Alive <=> row[k].status \in Stopped
        BY <1>2, <3>4 DEF Alive, Busy, Bound
      <4>3. Filled(row, batch, q)
        BY <2>0, <3>6, <4>1 DEF BatchOK
      <4>4. BatchOK(z, batch, q)
        BY <3>3, <4>1, <4>2, <4>3 DEF BatchOK
      <4>5. Waits(z, q)
        <5>1. "running" \notin Draining
          BY DEF Draining
        <5> QED  BY <3>1, <3>3, <4>1, <4>2, <5>1 DEF Waits
      <4> QED  BY <4>4, <4>5
    <3> QED  BY <2>3, <3>5, <3>6 DEF Stopped
  <2> QED  BY <2>1, <2>2, <2>3
<1>13. Batches(z, batch) /\ \A q \in Ids : Waits(z, q)
  BY <1>12 DEF Batches, BatchOK
<1> QED  BY <1>0, <1>3, <1>4, <1>5, <1>6, <1>11, <1>13 DEF TreeInv, Sound, Restarts

(* ResumeProcess acts on a paused root only, and restarts its tree.        *)
LEMMA ResumeInv ==
    ASSUME TreeInv(row, batch), ResumeProcess
    PROVE  /\ TreeInv(row', batch)
           /\ row[Root].status = "paused" /\ row'[Root].status = "running"
<1>0. Root \in Ids /\ row \in [Ids -> Row] /\ Agree(row) /\ Retired(row)
      /\ row[Root].status # "none" /\ row[Root] \in Row
  BY TreeAssumption DEF TreeAssumption, TreeInv, Sound
<1>1. PICK i \in Ids : row[i].status = "paused"
  BY DEF ResumeProcess
<1>2. "paused" \in Allowed(row[Root].status)
  BY <1>0, <1>1 DEF Agree, Bound
<1>3. row[Root].status = "paused"
  <2>1. row[Root].status \notin {"pausing", "failing", "cancelling", "failed"}
    BY DEF ResumeProcess, Draining
  <2> QED  BY <1>2, <2>1 DEF Allowed
<1>4. \A j \in Ids : row[j].status # "failed"
  BY <1>0, <1>3 DEF Agree, Bound, Allowed
<1>5. row' = Resumed(row)
  BY DEF ResumeProcess
<1>6. Restarts(row')
  <2>1. ASSUME NEW j \in Ids, NEW x \in Row, x = row[j], NEW y, y = row'[j]
        PROVE  /\ y \in Row
               /\ y.ptepoch = x.ptepoch /\ y.slot = x.slot
               /\ y.superseded = x.superseded /\ y.held = x.held
               /\ x.status \in Stopped => y.status = "running"
               /\ x.status \notin Stopped => y = x
               /\ x.status = "paused" => y.phase = x.phase /\ y.tepoch = x.tepoch
    <3>1. y = IF x.status = "paused" THEN [x EXCEPT !.status = "running"] ELSE x
      BY <1>5, <2>1 DEF Resumed
    <3>2. x.status # "failed"
      BY <1>4, <2>1
    <3>3. CASE x.status = "paused"
      BY <3>1, <3>3 DEF Row, Status, Busy, Stopped
    <3>4. CASE x.status # "paused"
      BY <3>1, <3>2, <3>4 DEF Stopped
    <3> QED  BY <3>3, <3>4
  <2>2. \A j \in Ids :
          /\ row'[j] \in Row
          /\ row'[j].ptepoch = row[j].ptepoch /\ row'[j].slot = row[j].slot
          /\ row'[j].superseded = row[j].superseded /\ row'[j].held = row[j].held
          /\ row[j].status \in Stopped => row'[j].status = "running"
          /\ row[j].status \notin Stopped => row'[j] = row[j]
          /\ row[j].status = "paused" =>
               row'[j].phase = row[j].phase /\ row'[j].tepoch = row[j].tepoch
    <3> TAKE j \in Ids
    <3>1. PICK x \in Row : x = row[j]
      BY <1>0
    <3>2. PICK y : y = row'[j]
      OBVIOUS
    <3>3. /\ y \in Row
          /\ y.ptepoch = x.ptepoch /\ y.slot = x.slot
          /\ y.superseded = x.superseded /\ y.held = x.held
          /\ x.status \in Stopped => y.status = "running"
          /\ x.status \notin Stopped => y = x
          /\ x.status = "paused" => y.phase = x.phase /\ y.tepoch = x.tepoch
      BY <2>1, <3>1, <3>2
    <3> QED  BY <3>1, <3>2, <3>3
  <2>3. row' = [j \in Ids |-> row'[j]]
    BY <1>5 DEF Resumed
  <2>4. row' \in [Ids -> Row]
    BY <2>2, <2>3
  <2> QED  BY <1>4, <2>2, <2>4 DEF Restarts
<1>7. row[Root].status \in Stopped
  BY <1>3 DEF Stopped
<1> QED
  <2>1. PICK z : z = row'
    OBVIOUS
  <2>2. TreeInv(z, batch) /\ z[Root].status = "running"
    BY <1>6, <1>7, <2>1, RestartInv
  <2> QED  BY <1>3, <2>1, <2>2

(* In a failed tree the walk from the root meets every failed row.         *)
LEMMA RevivedAll ==
    ASSUME TreeInv(row, batch), row[Root].status = "failed"
    PROVE  \A n \in Ids : n \in Revived <=> row[n].status = "failed"
<1>0. /\ \A i \in Ids : row[i].status \in Bound => row[i].status \in Stopped
      /\ Under(row) /\ Retired(row)
  BY StoppedTree DEF Stopped, TreeInv, Sound
<1> DEFINE Good(c) == /\ row[c].status = "failed"
                      /\ ~row[c].superseded
                      /\ c # Root => row[c].ptepoch = row[Parent[c]].tepoch
           S == {i \in Ids : row[i].status = "failed" =>
                   \A c \in Stack[i] \cup {i} : Good(c)}
<1>1. ASSUME NEW i \in Ids, row[i].status = "failed"
      PROVE  Good(i) /\ (i # Root => row[Parent[i]].status = "failed")
  <2>1. ~row[i].superseded
    BY <1>0, <1>1 DEF Retired
  <2>2. CASE i # Root
    <3>1. UnderOK(row, i, Parent[i]) /\ Parent[i] \in Ids
      BY <1>0, <2>2, ParentFacts DEF Under
    <3>2. row[i].ptepoch = row[Parent[i]].tepoch
      BY <1>1, <3>1 DEF UnderOK, Bound
    <3>3. row[Parent[i]].status \in {"failing", "failed", "cancelling", "cancelled"}
      BY <1>1, <3>1 DEF UnderOK
    <3>4. row[Parent[i]].status = "failed"
      BY <1>0, <3>1, <3>3 DEF Bound, Busy, Draining, Stopped
    <3> QED  BY <1>1, <2>1, <3>2, <3>4
  <2> QED  BY <1>1, <2>1, <2>2
<1>2. ASSUME NEW i \in Ids, i = Root \/ Parent[i] \in S
      PROVE  i \in S
  <2>1. CASE i = Root
    <3>1. Stack[i] = {}
      BY <2>1, StackFacts
    <3>2. row[i].status = "failed" => Good(i)
      BY <1>1
    <3> QED  BY <3>1, <3>2
  <2>2. CASE i # Root
    <3>1. Stack[i] = Stack[Parent[i]] \cup {Parent[i]} /\ Parent[i] \in S
      BY <1>2, <2>2, ParentFacts
    <3>2. row[i].status = "failed" => Good(i) /\ row[Parent[i]].status = "failed"
      BY <1>1, <2>2
    <3> HIDE DEF Good
    <3> QED  BY <3>1, <3>2
  <2> QED  BY <2>1, <2>2
<1>3. \A i \in Ids : i \in S
  <2> HIDE DEF S
  <2> QED  BY <1>2, TreeInduction
<1> QED  BY <1>3 DEF Revived

(* The transaction of RetryProcess on a failed root restarts its tree.     *)
LEMMA RetryInv ==
    ASSUME TreeInv(row, batch), row[Root].status = "failed", NEW o, RetryTx(o)
    PROVE  TreeInv(row', batch)
<1>0. Root \in Ids /\ row \in [Ids -> Row] /\ Retired(row)
  BY TreeAssumption DEF TreeAssumption, TreeInv, Sound
<1>1. \A n \in Ids : n \in Revived <=> row[n].status = "failed"
  BY RevivedAll
<1>2. \A i \in Ids : row[i].status \in Bound => row[i].status \in Stopped
  BY StoppedTree DEF Stopped
<1> DEFINE ep(i) == IF ChildrenForTask(row, i) = {} THEN EnterTask(i)
                    ELSE row[i].tepoch
           ph(i) == RevivedPhase(i)
           ov(i) == row[i].override \/ i = o
<1>3. \A i \in Ids :
        row'[i] = IF i \in Revived
                  THEN [row[i] EXCEPT !.status = "running", !.phase = ph(i),
                          !.tepoch = ep(i), !.override = ov(i)]
                  ELSE IF row[i].status = "paused" /\ ~row[i].superseded
                  THEN [row[i] EXCEPT !.status = "running"]
                  ELSE row[i]
  BY <1>0 DEF RetryTx
<1>4. ASSUME NEW i \in Ids, i \in Revived
      PROVE  ep(i) \in 0..MaxEpoch
  <2>1. row[i].tepoch \in 0..MaxEpoch
    BY <1>0 DEF Row
  <2>2. row[i].tepoch \in Nat /\ MaxEpoch \in Nat
    BY <2>1, EpochNat, TreeAssumption DEF TreeAssumption
  <2>3. ChildrenForTask(row, i) = {} => CanEnter(i)
    BY <1>4 DEF RetryTx
  <2>4. ASSUME NEW e \in Nat, e < MaxEpoch  PROVE  e + 1 \in 0..MaxEpoch
    BY <2>2, <2>4
  <2> QED  BY <2>1, <2>2, <2>3, <2>4 DEF CanEnter, EnterTask
<1>5. \A i \in Ids : ph(i) \in {"", "children", "collecting"} /\ ov(i) \in BOOLEAN
  BY DEF RevivedPhase
<1>6. ASSUME NEW i \in Ids, row[i].status = "failed"
      PROVE  /\ ChildrenForTask(row, i) = {} => ph(i) = ""
             /\ ChildrenForTask(row, i) # {} =>
                  ph(i) = IF \E k \in ChildrenForTask(row, i) :
                               row[k].status \in Stopped
                          THEN "children" ELSE "collecting"
             /\ ChildrenForTask(row, i) = {} =>
                  (Kids(i) = {} /\ ep(i) = row[i].tepoch)
                  \/ ep(i) = row[i].tepoch + 1
             /\ ChildrenForTask(row, i) # {} => ep(i) = row[i].tepoch
  <2>1. ASSUME NEW k \in ChildrenForTask(row, i)
        PROVE  (row[k].status \notin Terminal \/ k \in Revived)
                 <=> row[k].status \in Stopped
    <3>1. k \in Ids /\ row[k].status # "none" /\ row[k] \in Row
      BY <1>0 DEF ChildrenForTask, Kids
    <3>2. row[k].status \in Status
      BY <3>1 DEF Row
    <3> QED  BY <1>1, <1>2, <3>1, <3>2
             DEF Stopped, Terminal, Status, Bound, Busy, Draining
  <2> QED  BY <2>1 DEF RevivedPhase, EnterTask
<1> HIDE DEF ep, ph, ov
<1>7. ASSUME NEW j \in Ids, NEW x \in Row, x = row[j], NEW y, y = row'[j]
      PROVE  /\ y \in Row
             /\ y.ptepoch = x.ptepoch /\ y.slot = x.slot
             /\ y.superseded = x.superseded /\ y.held = x.held
             /\ x.status \in Stopped => y.status = "running"
             /\ x.status \notin Stopped => y = x
             /\ x.status = "paused" => y.phase = x.phase /\ y.tepoch = x.tepoch
             /\ x.status = "failed" => y.phase = ph(j) /\ y.tepoch = ep(j)
  <2>1. CASE x.status = "failed"
    <3>1. y = [x EXCEPT !.status = "running", !.phase = ph(j),
                        !.tepoch = ep(j), !.override = ov(j)]
      BY <1>1, <1>3, <1>7, <2>1
    <3>2. ep(j) \in 0..MaxEpoch /\ ph(j) \in {"", "children", "collecting"}
          /\ ov(j) \in BOOLEAN
      BY <1>1, <1>4, <1>5, <1>7, <2>1
    <3> QED  BY <2>1, <3>1, <3>2 DEF Row, Status, Busy, Stopped
  <2>2. CASE x.status = "paused"
    <3>1. ~x.superseded
      BY <1>0, <1>7, <2>2 DEF Retired
    <3>2. y = [x EXCEPT !.status = "running"]
      BY <1>1, <1>3, <1>7, <2>2, <3>1
    <3> QED  BY <2>2, <3>2 DEF Row, Status, Busy, Stopped
  <2>3. CASE x.status \notin {"failed", "paused"}
    BY <1>1, <1>3, <1>7, <2>3 DEF Stopped
  <2> QED  BY <2>1, <2>2, <2>3
<1>8. \A j \in Ids :
        /\ row'[j] \in Row
        /\ row'[j].ptepoch = row[j].ptepoch /\ row'[j].slot = row[j].slot
        /\ row'[j].superseded = row[j].superseded /\ row'[j].held = row[j].held
        /\ row[j].status \in Stopped => row'[j].status = "running"
        /\ row[j].status \notin Stopped => row'[j] = row[j]
        /\ row[j].status = "paused" =>
             row'[j].phase = row[j].phase /\ row'[j].tepoch = row[j].tepoch
        /\ row[j].status = "failed" =>
             row'[j].phase = ph(j) /\ row'[j].tepoch = ep(j)
  <2> TAKE j \in Ids
  <2>1. PICK x \in Row : x = row[j]
    BY <1>0
  <2>2. PICK y : y = row'[j]
    OBVIOUS
  <2>3. /\ y \in Row
        /\ y.ptepoch = x.ptepoch /\ y.slot = x.slot
        /\ y.superseded = x.superseded /\ y.held = x.held
        /\ x.status \in Stopped => y.status = "running"
        /\ x.status \notin Stopped => y = x
        /\ x.status = "paused" => y.phase = x.phase /\ y.tepoch = x.tepoch
        /\ x.status = "failed" => y.phase = ph(j) /\ y.tepoch = ep(j)
    BY <1>7, <2>1, <2>2
  <2> QED  BY <2>1, <2>2, <2>3
<1>9. \A j \in Ids : row[j].status = "failed" => Rerun(row', j)
  BY <1>6, <1>8 DEF Rerun
<1>10. row' \in [Ids -> Row]
  <2>1. row' = [j \in Ids |-> row'[j]]
    BY DEF RetryTx
  <2> QED  BY <1>8, <2>1
<1>11. Restarts(row')
  BY <1>8, <1>9, <1>10 DEF Restarts
<1> QED
  <2>1. PICK z : z = row'
    OBVIOUS
  <2>2. row[Root].status \in Stopped
    BY DEF Stopped
  <2>3. TreeInv(z, batch)
    BY <1>11, <2>1, <2>2, RestartInv
  <2> QED  BY <2>1, <2>3

(* A claim only marks the row as held.                                     *)
LEMMA ClaimInv ==
    ASSUME TreeInv(row, batch), NEW p \in Ids, Claim(p)
    PROVE  /\ TreeInv(row', batch)
           /\ \A i \in Ids : row'[i].status = row[i].status
           /\ \A i \in Ids : row[i].superseded => row'[i] = row[i]
<1>0. /\ row \in [Ids -> Row] /\ row[p] \in Row /\ Root \in Ids
      /\ row[p].status \in {"running", "pausing", "cancelling"}
      /\ row[p].phase # "children" /\ Held(row) /\ Retired(row)
  BY TreeAssumption DEF Claim, TreeInv, Sound, TreeAssumption
<1> DEFINE y == [row[p] EXCEPT !.held = row[p].status]
<1>1. row' = [row EXCEPT ![p] = y]
  BY <1>0 DEF Claim
<1>2. /\ y \in Row /\ y.held = row[p].status /\ y.status = row[p].status
      /\ y.phase = row[p].phase /\ y.tepoch = row[p].tepoch
      /\ y.ptepoch = row[p].ptepoch /\ y.slot = row[p].slot
      /\ y.superseded = row[p].superseded
  BY <1>0 DEF Row
<1> HIDE DEF y
<1>3. row' \in [Ids -> Row]
  BY <1>0, <1>1, <1>2
<1>4. \A i \in Ids : /\ row'[i].status = row[i].status
                     /\ row'[i].phase = row[i].phase
                     /\ row'[i].tepoch = row[i].tepoch
                     /\ row'[i].ptepoch = row[i].ptepoch
                     /\ row'[i].slot = row[i].slot
                     /\ row'[i].superseded = row[i].superseded
                     /\ i # p => row'[i] = row[i]
  BY <1>0, <1>1, <1>2
<1>5. Held(row')
  <2>1. row'[p].held = row[p].status
    BY <1>0, <1>1, <1>2
  <2>2. \A i \in Ids \ {p} : row'[i] = row[i]
    BY <1>4
  <2>3. row'[p].status = row[p].status /\ row'[p].phase = row[p].phase
    BY <1>4
  <2> QED  BY <1>0, <2>1, <2>2, <2>3 DEF Held
<1>6. Retired(row') /\ Agree(row') /\ row'[Root].status # "none"
  BY <1>0, <1>4 DEF Retired, Agree, TreeInv, Sound
<1>7. Under(row')
  <2>1. ASSUME NEW k \in Ids \ {Root}  PROVE  UnderOK(row', k, Parent[k])
    <3>1. Parent[k] \in Ids /\ UnderOK(row, k, Parent[k])
      BY ParentFacts DEF TreeInv, Sound, Under
    <3> QED  BY <1>4, <3>1 DEF UnderOK
  <2> QED  BY <2>1 DEF Under
<1>8. ASSUME NEW q \in Ids  PROVE  BatchOK(row', batch, q) /\ Waits(row', q)
  <2>1. PICK z : z = row'
    OBVIOUS
  <2>2. KeysAt(row, z, q)
    BY <1>4, <2>1 DEF KeysAt, Kids
  <2>3. \A k \in ChildrenForTask(row, q) : z[k].status = row[k].status
    BY <1>4, <2>1 DEF ChildrenForTask, Kids
  <2>4. z[q].status = row[q].status /\ z[q].phase = row[q].phase
    BY <1>4, <2>1
  <2>5. BatchOK(z, batch, q) /\ Waits(z, q)
    BY <2>2, <2>3, <2>4, RowKept
  <2> QED  BY <2>1, <2>5
<1>9. Batches(row', batch) /\ \A q \in Ids : Waits(row', q)
  BY <1>8 DEF Batches, BatchOK
<1>10. \A i \in Ids : row[i].superseded => row'[i] = row[i]
  <2>1. ~row[p].superseded
    BY <1>0 DEF Retired
  <2> QED  BY <1>4, <2>1
<1>11. TreeInv(row', batch)
  BY <1>3, <1>5, <1>6, <1>7, <1>9 DEF TreeInv, Sound
<1> QED  BY <1>4, <1>10, <1>11

-----------------------------------------------------------------------------
(* The invariant holds when the root is inserted.                          *)
LEMMA InitInv == Init => TreeInv(row, batch)
<1> SUFFICES ASSUME Init  PROVE  TreeInv(row, batch)
  OBVIOUS
<1>0. Root \in Ids /\ 0 \in 0..MaxEpoch /\ 0 \in Nat
  BY TreeAssumption DEF TreeAssumption
<1>1. row = [i \in Ids |->
               Inserted(i, IF i = Root THEN "running" ELSE "none", 0, i, 0)]
      /\ batch = [i \in Ids |-> {}]
  BY DEF Init
<1>2. ASSUME NEW i \in Ids
      PROVE  Fresh(row[i], IF i = Root THEN "running" ELSE "none", 0, i)
  <2>1. PICK s \in Status \cup {"none"} :
          s = IF i = Root THEN "running" ELSE "none"
    BY DEF Status, Busy
  <2>2. row[i] = Inserted(i, s, 0, i, 0)
    BY <1>1, <2>1
  <2>3. Fresh(row[i], s, 0, i)
    BY <1>0, <2>2, InsertedRow
  <2> QED  BY <2>1, <2>3
<1>3. \A i \in Ids : /\ row[i] \in Row /\ row[i].phase = "" /\ row[i].held = ""
                     /\ ~row[i].superseded
                     /\ row[i].status = IF i = Root THEN "running" ELSE "none"
  BY <1>2 DEF Fresh
<1>4. row \in [Ids -> Row] /\ batch \in [Ids -> SUBSET Ids]
  BY <1>1, <1>3
<1>5. row[Root].status = "running"
  BY <1>0, <1>3
<1>6. Held(row) /\ Retired(row)
  BY <1>3 DEF Held, Retired
<1>7. Agree(row)
  BY <1>3, <1>5 DEF Agree, Allowed, Bound, Busy, Draining
<1>8. Under(row)
  <2>1. \A k \in Ids \ {Root} : row[k].status = "none"
    BY <1>3
  <2> QED  BY <2>1 DEF Under, UnderOK, Bound, Busy, Draining
<1>9. \A p \in Ids : ChildrenForTask(row, p) = {}
  <2>1. \A p \in Ids : \A k \in Kids(p) : k \in Ids \ {Root}
    BY TreeAssumption DEF TreeAssumption, Kids
  <2> QED  BY <1>3, <2>1 DEF ChildrenForTask
<1>10. Batches(row, batch) /\ \A p \in Ids : Waits(row, p)
  BY <1>3, <1>9 DEF Batches, Waits
<1> QED  BY <1>4, <1>5, <1>6, <1>7, <1>8, <1>10 DEF TreeInv, Sound

(* A save changes the row, its ancestors, and what a failure pauses.       *)
LEMMA SaveKeeps ==
    ASSUME row \in [Ids -> Row], NEW p \in Ids, NEW s, NEW ph, NEW ov,
           saveAndNotify(p, s, ph, ov), NEW k \in Ids \ (Stack[p] \cup {p}),
           row[k].status # "running"
    PROVE  row'[k] = row[k]
<1>1. PICK x : x = Released(p, s, ph, row[p].tepoch, ov)
  OBVIOUS
<1>2. x[k] = row[k]
  BY <1>1 DEF Released
<1>3. \A r : settleUp(r, p)[k] = r[k]
  BY DEF settleUp, Reached
<1>4. FailAncestors(x, p)[k] = x[k]
  BY DEF FailAncestors
<1>5. PauseTree(FailAncestors(x, p))[k] = FailAncestors(x, p)[k]
  BY <1>2, <1>4 DEF PauseTree, StopTree
<1>6. row' = IF s = "failed" THEN FailInstanceAndAncestors(x, p)
             ELSE FinishChild(x, p)
  BY <1>1 DEF saveAndNotify
<1> QED  BY <1>2, <1>3, <1>4, <1>5, <1>6 DEF FailInstanceAndAncestors, FinishChild

(* What a step may do to the outcome of k, short of a retry.               *)
Kept(k) ==
    /\ row[k].status \in Terminal => row'[k].status = row[k].status
    /\ row[k].superseded => row'[k] = row[k]

(* Every write of an advance keeps the invariant and the outcomes.         *)
LEMMA AdvanceInv ==
    ASSUME TreeInv(row, batch), NEW p \in Ids, Advance(p)
    PROVE  TreeInv(row', batch') /\ \A k \in Ids : Kept(k)
<1>0. /\ row \in [Ids -> Row] /\ row[p] \in Row /\ Retired(row) /\ Held(row)
      /\ row[p].override \in BOOLEAN /\ row[p].tepoch \in 0..MaxEpoch
  BY DEF TreeInv, Sound, Row
<1>1. row[p].held # ""
  BY DEF Advance, SettleStop, RunTask, Spawn, Respawn, Collect, Interrupt
<1>2. /\ row[p].status \in {"running", "pausing", "cancelling"}
      /\ row[p].held \in {"pausing", "cancelling"} => row[p].status = row[p].held
      /\ \A q \in Stack[p] : row[q].status \in Busy
  BY <1>1, HeldRow
<1>3. \A k \in Ids : row[k].status \in Terminal \/ row[k].superseded =>
        /\ k \notin Stack[p] \cup {p}
        /\ row[k].status \in Terminal
        /\ row[k].status \notin {"running", "none"}
  BY <1>0, <1>2 DEF Retired, Terminal, Busy, Draining
<1>4. ASSUME NEW s, NEW ph, Savable(p, s, ph), NEW ov, ov \in BOOLEAN,
             saveAndNotify(p, s, ph, ov), UNCHANGED batch
      PROVE  TreeInv(row', batch') /\ \A k \in Ids : Kept(k)
  <2>1. TreeInv(row', batch)
    BY <1>1, <1>4, SaveInv
  <2>2. ASSUME NEW k \in Ids, row[k].status \in Terminal \/ row[k].superseded
        PROVE  row'[k] = row[k]
    <3>1. k \in Ids \ (Stack[p] \cup {p}) /\ row[k].status # "running"
      BY <1>3, <2>2
    <3> QED  BY <1>0, <1>4, <3>1, SaveKeeps
  <2> QED  BY <1>4, <2>1, <2>2 DEF Kept
<1>5. ASSUME NEW te \in 0..MaxEpoch,
             \/ te = row[p].tepoch
                /\ (row[p].phase = "" \/ Kids(p) = {} \/ Strayed(row, p))
             \/ te = row[p].tepoch + 1,
             NEW ph \in {"", "collecting"}, NEW ov, ov \in BOOLEAN,
             row' = Released(p, row[p].status, ph, te, ov),
             NEW d \in [Ids -> SUBSET Ids], batch' = d,
             \A q \in Ids \ {p} : d[q] = batch[q],
             ph = "collecting" => d[p] = {}
      PROVE  TreeInv(row', batch') /\ \A k \in Ids : Kept(k)
  <2>1. PICK z : z = row'
    OBVIOUS
  <2>2. TreeInv(z, d)
    BY <1>1, <1>5, <2>1, EnterInv
  <2>3. \A k \in Ids \ {p} : row'[k] = row[k]
    BY <1>0, <1>5 DEF Released
  <2> QED  BY <1>3, <1>5, <2>1, <2>2, <2>3 DEF Kept
<1>6. ASSUME CanEnter(p)
      PROVE  /\ EnterTask(p) \in 0..MaxEpoch
             /\ \/ EnterTask(p) = row[p].tepoch
                   /\ (row[p].phase = "" \/ Kids(p) = {} \/ Strayed(row, p))
                \/ EnterTask(p) = row[p].tepoch + 1
  <2>1. row[p].tepoch \in Nat /\ MaxEpoch \in Nat
    BY <1>0, EpochNat, TreeAssumption DEF TreeAssumption
  <2>2. ASSUME NEW e \in Nat, e < MaxEpoch  PROVE  e + 1 \in 0..MaxEpoch
    BY <2>1, <2>2
  <2> QED  BY <1>0, <1>6, <2>1, <2>2 DEF CanEnter, EnterTask
<1>6a. batch \in [Ids -> SUBSET Ids]
  BY DEF TreeInv, Sound
<1>7. CASE SettleStop(p)
  <2>0. UNCHANGED batch
    BY <1>7 DEF SettleStop
  <2>1. CASE row[p].held = "pausing"
             /\ saveAndNotify(p, "paused", row[p].phase, row[p].override)
    <3>1. Savable(p, "paused", row[p].phase)
      BY <1>2, <2>1 DEF Savable
    <3> QED  BY <1>0, <1>4, <2>0, <2>1, <3>1
  <2>2. CASE row[p].held = "cancelling"
             /\ saveAndNotify(p, "cancelled", row[p].phase, row[p].override)
    <3>1. Savable(p, "cancelled", row[p].phase)
      BY <1>2, <2>2 DEF Savable
    <3> QED  BY <1>0, <1>4, <2>0, <2>2, <3>1
  <2> QED  BY <1>7, <2>1, <2>2 DEF SettleStop
<1>8. CASE RunTask(p)
  <2>0. UNCHANGED batch /\ (row[p].phase = "" \/ Strayed(row, p))
    BY <1>8 DEF RunTask
  <2>1. PICK ph \in PhaseLeft(p) :
          \/ CanEnter(p) /\ row' = Released(p, row[p].status, ph, EnterTask(p),
                                            row[p].override)
          \/ row' = Released(p, row[p].status, ph, row[p].tepoch,
                             row[p].override)
          \/ saveAndNotify(p, "completed", ph, row[p].override)
          \/ \E s \in {"raised", "failed"} :
               saveAndNotify(p, s, "", row[p].override)
    BY <1>8 DEF RunTask
  <2>2. /\ ph \in {"", row[p].phase} /\ ph \in {"", "collecting"}
        /\ ph = "collecting" => batch[p] = {}
    <3>1. ph \in {"", row[p].phase}
      BY DEF PhaseLeft
    <3>2. Strayed(row, p) => row[p].phase = "collecting" /\ batch[p] = {}
      BY <1>1, StrayEmpty DEF Strayed
    <3> QED  BY <2>0, <3>1, <3>2
  <2>3. CASE CanEnter(p) /\ row' = Released(p, row[p].status, ph, EnterTask(p),
                                            row[p].override)
    BY <1>0, <1>5, <1>6, <1>6a, <2>0, <2>2, <2>3
  <2>4. CASE row' = Released(p, row[p].status, ph, row[p].tepoch,
                             row[p].override)
    BY <1>0, <1>5, <1>6a, <2>0, <2>2, <2>4
  <2>5. CASE saveAndNotify(p, "completed", ph, row[p].override)
    <3>1. Savable(p, "completed", ph)
      BY <2>2 DEF Savable
    <3> QED  BY <1>0, <1>4, <2>0, <2>5, <3>1
  <2>6. ASSUME NEW s \in {"raised", "failed"},
               saveAndNotify(p, s, "", row[p].override)
        PROVE  TreeInv(row', batch') /\ \A k \in Ids : Kept(k)
    <3>1. Savable(p, s, "")
      BY DEF Savable
    <3> QED  BY <1>0, <1>4, <2>0, <2>6, <3>1
  <2> QED  BY <2>1, <2>3, <2>4, <2>5, <2>6
<1>9. CASE Spawn(p)
  <2>1. TreeInv(row', batch')
    BY <1>9, SpawnInv
  <2>2. PICK S \in SUBSET Unborn(p) :
          \A i \in Ids : i \notin S /\ i # p => row'[i] = row[i]
    BY <1>9 DEF Spawn
  <2>3. \A i \in S : row[i].status = "none"
    BY DEF Unborn
  <2> QED  BY <1>3, <2>1, <2>2, <2>3 DEF Kept
<1>10. CASE Respawn(p)
  <2>1. TreeInv(row', batch')
    BY <1>10, RespawnInv
  <2>2. PICK A \in SUBSET Raised(row, p), F \in SUBSET Unborn(p) :
          \A i \in Ids :
            /\ i \in A => row'[i] = [row[i] EXCEPT !.superseded = TRUE]
            /\ i \notin A \cup F \cup {p} => row'[i] = row[i]
    BY <1>10 DEF Respawn
  <2>3. /\ \A i \in F : row[i].status = "none"
        /\ \A i \in A : i \in Ids /\ ~row[i].superseded
    BY DEF Unborn, Raised, ChildrenForTask, Kids
  <2>4. \A i \in A : row'[i].status = row[i].status
    <3> SUFFICES ASSUME NEW i \in A, NEW w \in Row, w = row[i]
                 PROVE  row'[i].status = row[i].status
      BY <1>0, <2>3
    <3>1. row'[i] = [w EXCEPT !.superseded = TRUE]
      BY <2>2, <2>3
    <3> QED  BY <3>1 DEF Row
  <2> QED  BY <1>3, <2>1, <2>2, <2>3, <2>4 DEF Kept
<1>11. CASE Collect(p)
  <2>0. UNCHANGED batch
    BY <1>11 DEF Collect
  <2>1. PICK ov \in BOOLEAN : ov = (row[p].override /\ Raised(row, p) = {})
    BY <1>0
  <2>2. CASE CanEnter(p) /\ row' = Released(p, row[p].status, "", EnterTask(p), ov)
    BY <1>0, <1>5, <1>6, <1>6a, <2>0, <2>2
  <2>3. ASSUME NEW s \in {"completed", "raised", "failed"},
               saveAndNotify(p, s, "", ov)
        PROVE  TreeInv(row', batch') /\ \A k \in Ids : Kept(k)
    <3>1. Savable(p, s, "")
      BY DEF Savable
    <3> QED  BY <1>0, <1>4, <2>0, <2>3, <3>1
  <2> QED  BY <1>11, <2>1, <2>2, <2>3 DEF Collect
<1>12. CASE Interrupt(p)
  <2>1. CASE /\ CanEnter(p)
             /\ row' = Released(p, row[p].status, "collecting", EnterTask(p),
                                row[p].override)
             /\ batch' = [batch EXCEPT ![p] = {}]
    <3>1. PICK d \in [Ids -> SUBSET Ids] :
            /\ batch' = d /\ d[p] = {} /\ \A q \in Ids \ {p} : d[q] = batch[q]
      BY <1>6a, <2>1
    <3> QED  BY <1>0, <1>5, <1>6, <2>1, <3>1
  <2>2. CASE saveAndNotify(p, "completed", "collecting", row[p].override)
             /\ UNCHANGED batch
    <3>1. Savable(p, "completed", "collecting")
      BY <1>12 DEF Savable, Interrupt
    <3> QED  BY <1>0, <1>4, <2>2, <3>1
  <2>3. ASSUME NEW s \in {"raised", "failed"},
               saveAndNotify(p, s, "", row[p].override), UNCHANGED batch
        PROVE  TreeInv(row', batch') /\ \A k \in Ids : Kept(k)
    <3>1. Savable(p, s, "")
      BY DEF Savable
    <3> QED  BY <1>0, <1>4, <2>3, <3>1
  <2> QED  BY <1>12, <2>1, <2>2, <2>3 DEF Interrupt
<1> QED  BY <1>7, <1>8, <1>9, <1>10, <1>11, <1>12 DEF Advance

(* So do the pause and the cancel.                                         *)
LEMMA StopsInv ==
    ASSUME TreeInv(row, batch), PauseProcess \/ CancelProcess
    PROVE  TreeInv(row', batch') /\ \A k \in Ids : Kept(k)
<1>0. row \in [Ids -> Row] /\ Retired(row)
  BY DEF TreeInv, Sound
<1>1. CASE PauseProcess
  <2>1. row' = StopTree(row, {"running"}, "pausing", "paused") /\ batch' = batch
    BY <1>1 DEF PauseProcess, PauseTree
  <2>2. row[Root].status \in {"running"} \cup {"pausing", "paused", "cancelling"}
    BY <1>1 DEF PauseProcess
  <2>3. TreeInv(StopTree(row, {"running"}, "pausing", "paused"), batch)
    BY <2>2, StopInv
  <2>4. \A k \in Ids : row[k].status \notin {"running"} => row'[k] = row[k]
    BY <2>1 DEF StopTree
  <2> QED  BY <1>0, <2>1, <2>3, <2>4 DEF Kept, Retired, Terminal
<1>2. CASE CancelProcess
  <2>1. row' = StopTree(row, {"running", "paused"}, "cancelling", "cancelled")
        /\ batch' = batch
    BY <1>2 DEF CancelProcess, CancelTree
  <2>2. row[Root].status
          \in {"running", "paused"} \cup {"pausing", "paused", "cancelling"}
        /\ row[Root].status # "pausing"
    BY <1>2 DEF CancelProcess
  <2>3. TreeInv(StopTree(row, {"running", "paused"}, "cancelling", "cancelled"),
                batch)
    BY <2>2, StopInv
  <2>4. \A k \in Ids : row[k].status \notin {"running", "paused"} => row'[k] = row[k]
    BY <2>1 DEF StopTree
  <2> QED  BY <1>0, <2>1, <2>3, <2>4 DEF Kept, Retired, Terminal
<1> QED  BY <1>1, <1>2

(* What OutcomesKept says of one step.                                     *)
Outcome(k) ==
    /\ row[k].status \in Terminal =>
         \/ row'[k].status = row[k].status
         \/ row[k].status = "failed" /\ row'[k].status = "running"
            /\ row[Root].status = "failed"
    /\ row[k].superseded => row'[k] = row[k]

(* Every step keeps the tree, the outcomes and, short of a retry, a failed *)
(* root.                                                                   *)
LEMMA RowsStep ==
    ASSUME TreeInv(row, batch), asked \in Nat,
           asked > 0 => row[Root].status = "failed", Next
    PROVE  /\ TreeInv(row', batch') /\ \A k \in Ids : Outcome(k)
           /\ row[Root].status = "failed" =>
                \/ row'[Root].status = "failed" /\ asked' \in {asked, asked + 1}
                \/ \E o : RetryTx(o)
           /\ row[Root].status # "failed" => asked' = asked
<1>0. Root \in Ids /\ row \in [Ids -> Row] /\ Retired(row)
  BY TreeAssumption DEF TreeAssumption, TreeInv, Sound
<1>1. row[Root].status = "failed" => \A i \in Ids : row[i].held = ""
  BY StoppedTree DEF Stopped
<1>2. (\A k \in Ids : Kept(k)) => \A k \in Ids : Outcome(k)
  BY DEF Kept, Outcome
<1>3. ASSUME NEW p \in Ids, Claim(p)
      PROVE  /\ TreeInv(row', batch') /\ \A k \in Ids : Outcome(k)
             /\ row'[Root].status = row[Root].status /\ asked' = asked
  <2>1. batch' = batch /\ asked' = asked
    BY <1>3 DEF Claim
  <2>2. /\ TreeInv(row', batch)
        /\ \A i \in Ids : row'[i].status = row[i].status
        /\ \A i \in Ids : row[i].superseded => row'[i] = row[i]
    BY <1>3, ClaimInv
  <2> QED  BY <1>0, <2>1, <2>2 DEF Outcome
<1>4. ASSUME NEW p \in Ids, Advance(p)
      PROVE  /\ TreeInv(row', batch') /\ \A k \in Ids : Outcome(k)
             /\ row[Root].status # "failed" /\ asked' = asked
  <2>1. row[p].held # "" /\ asked' = asked
    BY <1>4 DEF Advance, SettleStop, RunTask, Spawn, Respawn, Collect, Interrupt
  <2> QED  BY <1>1, <1>2, <1>4, <2>1, AdvanceInv
<1>5. ASSUME PauseProcess \/ CancelProcess
      PROVE  /\ TreeInv(row', batch') /\ \A k \in Ids : Outcome(k)
             /\ row[Root].status # "failed" /\ asked' = asked
  <2>1. row[Root].status # "failed" /\ asked' = asked
    BY <1>5 DEF PauseProcess, CancelProcess
  <2> QED  BY <1>2, <1>5, <2>1, StopsInv
<1>6. ASSUME ResumeProcess
      PROVE  /\ TreeInv(row', batch') /\ \A k \in Ids : Outcome(k)
             /\ row[Root].status # "failed" /\ asked' = asked
  <2>1. /\ batch' = batch /\ asked' = asked /\ row' = Resumed(row)
        /\ row[Root].status # "failed"
    BY <1>6 DEF ResumeProcess
  <2>2. TreeInv(row', batch)
    BY <1>6, ResumeInv
  <2>3. \A k \in Ids : row[k].status # "paused" => row'[k] = row[k]
    BY <2>1 DEF Resumed
  <2>4. \A k \in Ids : Kept(k)
    BY <1>0, <2>3 DEF Kept, Retired, Terminal
  <2> QED  BY <1>2, <2>1, <2>2, <2>4
<1>7. ASSUME RetryAsk
      PROVE  /\ TreeInv(row', batch') /\ \A k \in Ids : Outcome(k)
             /\ row[Root].status = "failed" /\ row'[Root].status = "failed"
             /\ asked' = asked + 1
  BY <1>7 DEF RetryAsk, Outcome
<1>8. ASSUME NEW o, RetryTx(o)
      PROVE  /\ TreeInv(row', batch') /\ \A k \in Ids : Outcome(k)
             /\ row[Root].status = "failed"
  <2>1. batch' = batch /\ row[Root].status = "failed"
    BY <1>8 DEF RetryTx
  <2>2. TreeInv(row', batch)
    BY <1>8, <2>1, RetryInv
  <2>3. \A n \in Ids : n \in Revived <=> row[n].status = "failed"
    BY <2>1, RevivedAll
  <2>4. ASSUME NEW k \in Ids  PROVE  Outcome(k)
    <3>1. CASE row[k].status \notin {"failed", "paused"}
      <4>1. row'[k] = row[k]
        BY <1>8, <2>3, <3>1 DEF RetryTx
      <4> QED  BY <4>1 DEF Outcome
    <3>2. CASE row[k].status = "paused"
      BY <1>0, <3>2 DEF Outcome, Terminal, Retired
    <3>3. CASE row[k].status = "failed"
      <4>1. ~row[k].superseded
        BY <1>0, <3>3 DEF Retired
      <4>2. \E w, ph, te, ov :
              /\ w \in Row /\ w = row[k]
              /\ row'[k] = [w EXCEPT !.status = "running", !.phase = ph,
                                     !.tepoch = te, !.override = ov]
        <5>1. PICK te : te = IF ChildrenForTask(row, k) = {} THEN EnterTask(k)
                             ELSE row[k].tepoch
          OBVIOUS
        <5> QED  BY <1>0, <1>8, <2>3, <3>3, <5>1 DEF RetryTx
      <4>3. row'[k].status = "running"
        BY <4>2 DEF Row
      <4> QED  BY <2>1, <3>3, <4>1, <4>3 DEF Outcome
    <3> QED  BY <3>1, <3>2, <3>3
  <2> QED  BY <2>1, <2>2, <2>4
<1>9. (\E p \in Ids : Claim(p) \/ Advance(p)) \/ PauseProcess \/ CancelProcess
      \/ ResumeProcess \/ RetryAsk \/ \E o \in Ids \cup {NoId} : RetryTx(o)
  BY DEF Next
<1> QED  BY <1>3, <1>4, <1>5, <1>6, <1>7, <1>8, <1>9

(* With one request at a time a retry is the last in progress.             *)
LEMMA Countdown ==
    ASSUME Retriers <= 1, NEW n \in 0..Retriers, n > 0
    PROVE  n - 1 = 0 /\ n - 1 \in 0..Retriers
  BY TreeAssumption DEF TreeAssumption

(* A bounded counter stays below its bound.                                *)
LEMMA CountUp ==
    ASSUME NEW m \in Nat, NEW n \in 0..m, n < m
    PROVE  n + 1 \in 0..m
  OBVIOUS

(* The invariant is inductive.                                             *)
LEMMA NextInv ==
    ASSUME Retriers <= 1, IInv, [Next]_vars
    PROVE  IInv'
<1>0. /\ TreeInv(row, batch) /\ verbs \in 0..MaxVerbs /\ asked \in 0..Retriers
      /\ asked > 0 => row[Root].status = "failed"
  BY DEF IInv
<1>1. CASE UNCHANGED vars
  <2>1. row' = row /\ batch' = batch /\ verbs' = verbs /\ asked' = asked
    BY <1>1 DEF vars
  <2>2. TreeInv(row, batch)' <=> TreeInv(row', batch')
    BY DEF TreeInv, Sound, Held, Agree, Under, UnderOK, Batches, Filled, Retired,
           Waits, ChildrenForTask
  <2> QED  BY <1>0, <2>1, <2>2 DEF IInv
<1>2. CASE Next
  <2>0. Retriers \in Nat /\ MaxVerbs \in Nat
    BY TreeAssumption DEF TreeAssumption
  <2>1. asked \in Nat /\ verbs \in Nat
    BY <1>0, <2>0
  <2>2. /\ TreeInv(row', batch')
        /\ row[Root].status = "failed" =>
             \/ row'[Root].status = "failed" /\ asked' \in {asked, asked + 1}
             \/ \E o : RetryTx(o)
        /\ row[Root].status # "failed" => asked' = asked
    BY <1>0, <1>2, <2>1, RowsStep
  <2>3. verbs' \in 0..MaxVerbs
    <3>1. verbs' = verbs \/ Verb
      BY <1>2 DEF Next, Claim, Advance, SettleStop, RunTask, Spawn, Respawn,
                  Collect, Interrupt, PauseProcess, CancelProcess, ResumeProcess,
                  RetryAsk, RetryTx
    <3>2. CASE Verb
      BY <1>0, <2>0, <3>2, CountUp DEF Verb
    <3> QED  BY <1>0, <3>1, <3>2
  <2>4. /\ asked' \in 0..Retriers
        /\ asked' > 0 => row'[Root].status = "failed"
    <3>1. CASE \E o : RetryTx(o)
      <4>1. asked > 0 /\ asked' = asked - 1
        BY <3>1 DEF RetryTx
      <4>2. asked' = 0 /\ asked' \in 0..Retriers
        BY <1>0, <4>1, Countdown
      <4>3. ~(0 > 0)
        OBVIOUS
      <4>4. ~(asked' > 0)
        BY <4>2, <4>3
      <4> QED  BY <4>2, <4>4
    <3>2. CASE ~\E o : RetryTx(o)
      <4>1. asked' = asked \/ (asked < Retriers /\ asked' = asked + 1)
        BY <1>2, <3>2 DEF Next, Claim, Advance, SettleStop, RunTask, Spawn,
                  Respawn, Collect, Interrupt, PauseProcess, CancelProcess,
                  ResumeProcess, RetryAsk
      <4>2. asked' \in 0..Retriers
        BY <1>0, <2>0, <4>1, CountUp
      <4>3. CASE row[Root].status = "failed"
        <5>1. row'[Root].status = "failed"
          BY <2>2, <3>2, <4>3
        <5> QED  BY <4>2, <5>1
      <4>4. CASE row[Root].status # "failed"
        <5>1. asked' = asked /\ ~(asked > 0)
          BY <1>0, <2>2, <4>4
        <5>2. ~(asked' > 0)
          BY <5>1
        <5> QED  BY <4>2, <5>2
      <4> QED  BY <4>2, <4>3, <4>4
    <3> QED  BY <3>1, <3>2
  <2>5. TreeInv(row, batch)' <=> TreeInv(row', batch')
    BY DEF TreeInv, Sound, Held, Agree, Under, UnderOK, Batches, Filled, Retired,
           Waits, ChildrenForTask
  <2> QED  BY <2>2, <2>3, <2>4, <2>5 DEF IInv
<1> QED  BY <1>1, <1>2

-----------------------------------------------------------------------------
(* The inductive invariant holds for every tree, as long as retries of one *)
(* root do not overlap: no claim, save, spawn, re-spawn, collect, stop,    *)
(* resume or retry leaves a row out of step with its parent or its root.   *)
THEOREM Invariance == ASSUME Retriers <= 1  PROVE  Spec => []IInv
<1>1. Init => IInv
  <2>1. Init => /\ verbs \in 0..MaxVerbs /\ asked \in 0..Retriers
                /\ ~(asked > 0)
    BY TreeAssumption DEF Init, TreeAssumption
  <2> QED  BY <2>1, InitInv DEF IInv
<1>2. IInv /\ [Next]_vars => IInv'
  BY NextInv
<1> QED  BY <1>1, <1>2, PTL DEF Spec

(* Rows keep their columns' types, and only a row that is running or       *)
(* draining and not waiting for children is claimed (ClaimInstances).      *)
THEOREM TypesHold == ASSUME Retriers <= 1  PROVE  Spec => []TypeOK
<1>1. IInv => TypeOK
  BY DEF IInv, TypeOK, TreeInv, Sound, Held
<1> QED  BY <1>1, Invariance, PTL

(* Live, as the invariant says it.                                         *)
LEMMA LiveAlive ==
    ASSUME TreeInv(row, batch), NEW i \in Ids
    PROVE  Live(i) <=> row[i].status \in Alive
<1>1. row[i].status \in Status \cup {"none"}
  BY DEF TreeInv, Sound, Row
<1> QED  BY <1>1 DEF Live, Alive, Status, Terminal, Busy, Draining

(* Nothing runs under a stopped row: PauseTree and CancelTree drain every  *)
(* row above a held one, and settleUp stops a parent after its children.   *)
THEOREM StoppedMeansQuiet == ASSUME Retriers <= 1  PROVE  Spec => []NothingBusyBelow
<1>1. IInv => NothingBusyBelow
  <2> SUFFICES ASSUME IInv, NEW i \in Ids, NEW k \in Ids, i \in Stack[k],
                      row[i].status \in Terminal \cup {"paused"},
                      row[k].status \in Busy
               PROVE  FALSE
    BY DEF NothingBusyBelow
  <2>1. Under(row)
    BY DEF IInv, TreeInv, Sound
  <2>2. row[i].status \in Busy
    BY <2>1, AncestorsBusy
  <2> QED  BY <2>2 DEF Terminal, Busy, Draining
<1> QED  BY <1>1, Invariance, PTL

(* The root's status decides what every row below may be doing, through    *)
(* failure, pause, cancel, resume and retry (failInstanceAndAncestors,     *)
(* PauseTree, CancelTree).                                                 *)
THEOREM OneStopOneTree == ASSUME Retriers <= 1  PROVE  Spec => []TreeAgrees
<1>1. IInv => TreeAgrees
  <2> SUFFICES ASSUME IInv, NEW k \in Ids,
                      Live(k) \/ row[k].status \in {"failed", "cancelled"}
               PROVE  row[k].status \in Allowed(row[Root].status)
    BY DEF TreeAgrees, Allowed
  <2>1. TreeInv(row, batch) /\ Agree(row)
    BY DEF IInv, TreeInv, Sound
  <2>2. row[k].status \in Bound
    BY <2>1, LiveAlive DEF Bound, Alive
  <2> QED  BY <2>1, <2>2 DEF Agree
<1> QED  BY <1>1, Invariance, PTL

(* A row parked on its children has a child whose conclusion wakes it, a   *)
(* draining one a child whose settling settles it (settleUp,               *)
(* SpawnChildrenAndWait, RespawnSlotsAndWait, revive).                     *)
THEOREM NobodyWaitsForNothing ==
    ASSUME Retriers <= 1  PROVE  Spec => []WaitsForSomeone
<1>1. IInv => WaitsForSomeone
  <2> SUFFICES ASSUME IInv, NEW p \in Ids, Live(p), row[p].phase = "children"
               PROVE  \E k \in ChildrenForTask(row, p) :
                        IF row[p].status \in Draining THEN row[k].status \in Busy
                        ELSE Live(k)
    BY DEF WaitsForSomeone
  <2>1. TreeInv(row, batch) /\ Waits(row, p)
    BY DEF IInv, TreeInv
  <2>2. row[p].status \in Alive
    BY <2>1, LiveAlive
  <2>3. \A k \in ChildrenForTask(row, p) : row[k].status \in Alive <=> Live(k)
    BY <2>1, LiveAlive DEF ChildrenForTask, Kids
  <2> QED  BY <2>1, <2>2, <2>3 DEF Waits
<1> QED  BY <1>1, Invariance, PTL

(* A collect reads every slot of the batch it spawned exactly once, by its *)
(* last attempt, and all of them concluded (GetChildrenForTask after       *)
(* RespawnSlotsAndWait and revive), and nothing at all after an            *)
(* interrupted collect was routed on (handleCallError).                    *)
THEOREM CollectReadsItsBatch ==
    ASSUME Retriers <= 1  PROVE  Spec => []CollectsItsBatch
<1>1. IInv => CollectsItsBatch
  <2> SUFFICES ASSUME IInv, NEW p \in Ids, Live(p), row[p].phase # ""
               PROVE  /\ ChildrenForTask(row, p) = batch[p]
                      /\ \A j, k \in batch[p] : row[j].slot = row[k].slot => j = k
                      /\ \A m \in batch[p] : \A j \in Siblings(row, m) :
                           \E k \in batch[p] : row[k].slot = row[j].slot
                      /\ row[p].phase = "collecting" =>
                           \A k \in batch[p] : ~Live(k)
    BY DEF CollectsItsBatch
  <2>1. TreeInv(row, batch) /\ Batches(row, batch)
    BY DEF IInv, TreeInv, Sound
  <2>2. row[p].status \in Alive
    BY <2>1, LiveAlive
  <2>3. Filled(row, batch, p)
    BY <2>1, <2>2 DEF Batches
  <2>4. ChildrenForTask(row, p) = batch[p]
    BY <2>3 DEF Filled
  <2>5. ASSUME NEW m \in batch[p], NEW j \in Siblings(row, m)
        PROVE  \E k \in batch[p] : row[k].slot = row[j].slot
    <3>1. Parent[m] = p /\ row[m].ptepoch = row[p].tepoch
      BY <2>4 DEF ChildrenForTask, Kids
    <3>2. j \in Kids(p) /\ row[j].status # "none" /\ row[j].ptepoch = row[p].tepoch
      BY <3>1 DEF Siblings, Kids
    <3> QED  BY <2>3, <3>2 DEF Filled
  <2>6. row[p].phase = "collecting" => \A k \in batch[p] : ~Live(k)
    <3>1. \A k \in batch[p] : k \in Ids
      BY <2>4 DEF ChildrenForTask, Kids
    <3>2. \A k \in batch[p] : Live(k) <=> row[k].status \in Alive
      BY <2>1, <3>1, LiveAlive
    <3> QED  BY <2>1, <2>2, <2>4, <3>2 DEF Batches
  <2>7. \A j, k \in batch[p] : row[j].slot = row[k].slot => j = k
    BY <2>3 DEF Filled
  <2> QED  BY <2>4, <2>5, <2>6, <2>7
<1> QED  BY <1>1, Invariance, PTL

(* A concluded row keeps its status, unless a retry of a failed root runs  *)
(* a failed row again, and a retired attempt never changes.                *)
THEOREM OutcomesAreFinal == ASSUME Retriers <= 1  PROVE  Spec => OutcomesKept
<1>1. IInv /\ [Next]_vars =>
        [\A k \in Ids :
           /\ row[k].status \in Terminal =>
                \/ row'[k].status = row[k].status
                \/ row[k].status = "failed" /\ row'[k].status = "running"
                   /\ row[Root].status = "failed"
           /\ row[k].superseded => row'[k] = row[k]]_vars
  <2> SUFFICES ASSUME IInv, Next  PROVE  \A k \in Ids : Outcome(k)
    BY DEF Outcome
  <2>1. asked \in Nat
    BY TreeAssumption DEF IInv, TreeAssumption
  <2> QED  BY <2>1, RowsStep DEF IInv
<1> QED  BY <1>1, Invariance, PTL DEF Spec, OutcomesKept

=============================================================================
