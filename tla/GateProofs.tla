----------------------------- MODULE GateProofs -----------------------------
(***************************************************************************)
(* Proofs about Gate, for any workers and rows, any lease duration and     *)
(* poll interval, and any clock: the floor under the leases a worker       *)
(* holds, and that it never takes over its own rows.                       *)
(***************************************************************************)
EXTENDS Gate, TLAPS

(* A lease of w that w knows of: in its held set, or claimed and about to  *)
(* be put there.                                                           *)
Own(w, r) == /\ row[r].holder = w
             /\ r \in held[w] \/ (pump[w].pc = "claimed" /\ r \in pump[w].claimed)

PumpStates == {"idle", "gate", "repair", "claim", "claiming", "claimed", "dispatch"}
RenewStates == {"idle", "read", "write", "done"}
PumpRecord == [pc: PumpStates, at: Nat, cutoff: Nat, graceUntil: Nat, claimed: SUBSET Rows]

(* Types, without the bound on the clock.                                  *)
GateType ==
    /\ now \in Nat
    /\ row \in [Rows -> [holder: Workers \cup {NoWorker}, expires: Nat]]
    /\ lastRenew \in [Workers -> Nat]
    /\ held \in [Workers -> SUBSET Rows]
    /\ pump \in [Workers -> PumpRecord]
    /\ renewal \in [Workers -> [Callers -> [pc: RenewStates, ids: SUBSET Rows, at: Nat]]]
    /\ running \in [Workers -> SUBSET Rows]
    /\ doomed \in [Workers -> SUBSET Rows]
    /\ returning \in [Workers -> SUBSET Rows]

(* No instant a worker remembers is in the future, and a claim or the      *)
(* start of a renewal is recent.                                           *)
ClockInv ==
    /\ now <= MaxTime
    /\ \A w \in Workers :
         /\ lastRenew[w] <= now /\ pump[w].at <= now /\ pump[w].cutoff <= now
         /\ pump[w].pc \in {"claiming", "claimed"} => now <= pump[w].at + MaxGap
         /\ \A c \in Callers :
              /\ renewal[w][c].at <= now
              /\ renewal[w][c].pc = "read" => now <= renewal[w][c].at + MaxGap

(* A pump carries claimed rows only between its claim and its dispatch.    *)
HeldInv ==
    \A w \in Workers : pump[w].pc \notin {"claimed", "dispatch"} => pump[w].claimed = {}

(* The floor under w's leases: for the last renewal it stored, and for     *)
(* every renewal under way that will not stamp the row.                    *)
FloorInv ==
    \A w \in Workers : \A r \in Rows : Own(w, r) =>
      /\ row[r].expires + 2 * MaxGap >= lastRenew[w] + LeaseDuration
      /\ pump[w].pc = "claimed" /\ r \in pump[w].claimed =>
           row[r].expires >= pump[w].at + LeaseDuration
      /\ \A c \in Callers :
           /\ renewal[w][c].pc = "read" /\ r \notin renewal[w][c].ids =>
                row[r].expires + MaxGap >= renewal[w][c].at + LeaseDuration
           /\ renewal[w][c].pc = "write" /\ r \notin renewal[w][c].ids =>
                row[r].expires + 2 * MaxGap >= renewal[w][c].at + LeaseDuration
           /\ renewal[w][c].pc = "done" =>
                row[r].expires + 2 * MaxGap >= renewal[w][c].at + LeaseDuration

(* Past the gate, no lease of w ends by the cutoff it carries.             *)
CutoffInv ==
    /\ \A r \in Rows : row[r].holder # NoWorker => row[r].expires > 0
    /\ \A w \in Workers :
         /\ pump[w].pc = "repair" => pump[w].cutoff = 0
         /\ renewal[w]["pump"].pc # "idle" => pump[w].pc = "repair"
         /\ pump[w].pc \in {"claim", "claiming"} =>
              \A r \in Rows : Own(w, r) => row[r].expires > pump[w].cutoff

IInv == GateType /\ ClockInv /\ HeldInv /\ FloorInv /\ CutoffInv

-----------------------------------------------------------------------------
LEMMA MarginNat == Margin \in Nat /\ 2 * MaxGap <= Margin /\ LeaseDuration > 0
<1>1. LeaseDuration \div 2 \in Nat
  BY GateAssumption
<1>. QED BY <1>1, GateAssumption DEF Margin

LEMMA InitInv == Init => IInv
<1>. SUFFICES ASSUME Init PROVE IInv
  OBVIOUS
<1>. USE GateAssumption DEF Init
<1>1. GateType
  BY DEF GateType, Quiet, PumpStates, PumpRecord, RenewStates
<1>2. ClockInv
  BY DEF ClockInv, Quiet
<1>3. HeldInv
  BY DEF HeldInv
<1>4. FloorInv
  BY DEF FloorInv, Own
<1>5. CutoffInv
  BY DEF CutoffInv, Own, Callers, Quiet
<1>. QED BY <1>1, <1>2, <1>3, <1>4, <1>5 DEF IInv

(* A step that only moves a renewal of w: what is left to show is what the *)
(* invariant says of the renewal itself.                                   *)
LEMMA RenewalStep ==
    ASSUME IInv, NEW w \in Workers, NEW c \in Callers,
           NEW new \in [pc: RenewStates, ids: SUBSET Rows, at: Nat],
           Renewal(w, c, new),
           UNCHANGED <<now, row, lastRenew, held, pump, running, doomed, returning>>,
           c = "pump" => pump[w].pc = "repair",
           new.at <= now, new.pc = "read" => now <= new.at + MaxGap,
           \A r \in Rows : Own(w, r) =>
             /\ new.pc = "read" /\ r \notin new.ids =>
                  row[r].expires + MaxGap >= new.at + LeaseDuration
             /\ new.pc = "write" /\ r \notin new.ids =>
                  row[r].expires + 2 * MaxGap >= new.at + LeaseDuration
             /\ new.pc = "done" => row[r].expires + 2 * MaxGap >= new.at + LeaseDuration
    PROVE  IInv'
<1>. USE DEF IInv, Renewal
<1>1. \A v \in Workers, d \in Callers :
        renewal'[v][d] = IF v = w /\ d = c THEN new ELSE renewal[v][d]
  BY DEF GateType
<1>2. GateType'
  <2>1. renewal' \in [Workers -> [Callers -> [pc: RenewStates, ids: SUBSET Rows, at: Nat]]]
    BY DEF GateType
  <2>. QED BY <2>1 DEF GateType
<1>3. ClockInv'
  BY <1>1 DEF ClockInv
<1>4. HeldInv' /\ CutoffInv'
  BY <1>1 DEF HeldInv, CutoffInv, Own, Callers
<1>5. FloorInv'
  BY <1>1 DEF FloorInv, Own
<1>. QED BY <1>2, <1>3, <1>4, <1>5

(* The start of a renewal: a row claimed but not yet held is missed, and   *)
(* its claim is recent.                                                    *)
LEMMA HeldLeasesStep ==
    ASSUME IInv, NEW w \in Workers, NEW c \in Callers, heldLeases(w, c)
    PROVE  IInv'
<1>. DEFINE new == [pc |-> "read", ids |-> held[w], at |-> now]
<1>1. new \in [pc: RenewStates, ids: SUBSET Rows, at: Nat] /\ new.at <= now
      /\ now <= new.at + MaxGap
  BY GateAssumption DEF IInv, GateType, RenewStates
<1>2. ASSUME NEW r \in Rows, Own(w, r), r \notin held[w]
      PROVE  row[r].expires + MaxGap >= now + LeaseDuration
  <2>1. r \in pump[w].claimed /\ pump[w].pc = "claimed"
    BY <1>2 DEF Own
  <2>2. row[r].expires >= pump[w].at + LeaseDuration /\ now <= pump[w].at + MaxGap
    BY <1>2, <2>1 DEF IInv, FloorInv, ClockInv
  <2>3. row[r].expires \in Nat /\ now \in Nat /\ pump[w].at \in Nat
    BY DEF IInv, GateType, PumpRecord
  <2>. QED BY <2>2, <2>3, GateAssumption
<1>3. /\ Renewal(w, c, new) /\ (c = "pump" => pump[w].pc = "repair")
      /\ UNCHANGED <<now, row, lastRenew, held, pump, running, doomed, returning>>
  BY DEF heldLeases
<1>4. \A r \in Rows : Own(w, r) =>
        /\ new.pc = "read" /\ r \notin new.ids =>
             row[r].expires + MaxGap >= new.at + LeaseDuration
        /\ new.pc # "write" /\ new.pc # "done"
  BY <1>2
<1>. HIDE DEF new
<1>. QED BY <1>1, <1>3, <1>4, RenewalStep

(* The instant of a renewal is read at most MaxGap after the held set.     *)
LEMMA RenewedAtStep ==
    ASSUME IInv, NEW w \in Workers, NEW c \in Callers, renewedAt(w, c)
    PROVE  IInv'
<1>. DEFINE new == [renewal[w][c] EXCEPT !.pc = "write", !.at = now]
<1>0. renewal[w][c] \in [pc: RenewStates, ids: SUBSET Rows, at: Nat] /\ now \in Nat
  BY DEF IInv, GateType
<1>1. /\ new \in [pc: RenewStates, ids: SUBSET Rows, at: Nat]
      /\ new.pc = "write" /\ new.at = now /\ new.ids = renewal[w][c].ids
  BY <1>0 DEF RenewStates
<1>2. /\ renewal[w][c].pc = "read" /\ Renewal(w, c, new)
      /\ UNCHANGED <<now, row, lastRenew, held, pump, running, doomed, returning>>
  BY DEF renewedAt
<1>3. now <= renewal[w][c].at + MaxGap /\ renewal[w][c].at \in Nat /\ now \in Nat
  BY <1>2 DEF IInv, ClockInv, GateType
<1>. HIDE DEF new
<1>4. ASSUME NEW r \in Rows, Own(w, r), r \notin new.ids
      PROVE  row[r].expires + 2 * MaxGap >= new.at + LeaseDuration
  <2>1. row[r].expires + MaxGap >= renewal[w][c].at + LeaseDuration /\ row[r].expires \in Nat
    BY <1>1, <1>2, <1>4 DEF IInv, FloorInv, GateType
  <2>. QED BY <1>1, <1>3, <2>1, GateAssumption
<1>5. new.at <= now
  BY <1>1, <1>3
<1>6. c = "pump" => pump[w].pc = "repair"
  BY <1>2 DEF IInv, CutoffInv
<1>. QED BY <1>1, <1>2, <1>4, <1>5, <1>6, RenewalStep

(* A renewal only moves expiries forward, and after its last chunk every   *)
(* listed row of w is stamped.                                             *)
LEMMA RenewChunkStep ==
    ASSUME IInv, NEW w \in Workers, NEW c \in Callers, RenewChunk(w, c)
    PROVE  IInv'
<1>. USE DEF IInv
<1>0. PICK S \in SUBSET Renewable(w, c), pc \in {"write", "done"} :
        /\ pc = "done" => S = Renewable(w, c)
        /\ row' = [r \in Rows |-> IF r \in S
                                  THEN [holder |-> w, expires |-> renewal[w][c].at + LeaseDuration]
                                  ELSE row[r]]
        /\ Renewal(w, c, [renewal[w][c] EXCEPT !.pc = pc])
  BY DEF RenewChunk
<1>1. renewal[w][c].pc = "write" /\ renewal[w][c] \in [pc: RenewStates, ids: SUBSET Rows, at: Nat]
  BY DEF RenewChunk, GateType
<1>2. UNCHANGED <<now, lastRenew, held, pump, running, doomed, returning>>
  BY DEF RenewChunk
<1>3. renewal[w][c].at + LeaseDuration \in Nat /\ S \subseteq Rows
  BY <1>1, GateAssumption DEF Renewable
<1>. DEFINE new == [renewal[w][c] EXCEPT !.pc = pc]
<1>a. /\ new \in [pc: RenewStates, ids: SUBSET Rows, at: Nat]
      /\ new.pc = pc /\ new.at = renewal[w][c].at /\ new.ids = renewal[w][c].ids
  BY <1>1 DEF RenewStates
<1>b. Renewal(w, c, new)
  BY <1>0
<1>. HIDE DEF new
<1>c. \A v \in Workers, d \in Callers :
        renewal'[v][d] = IF v = w /\ d = c THEN new ELSE renewal[v][d]
  BY <1>b DEF GateType, Renewal
<1>4. GateType'
  <2>1. renewal' \in [Workers -> [Callers -> [pc: RenewStates, ids: SUBSET Rows, at: Nat]]]
    BY <1>a, <1>b DEF GateType, Renewal
  <2>2. row' \in [Rows -> [holder: Workers \cup {NoWorker}, expires: Nat]]
    BY <1>0, <1>3 DEF GateType
  <2>. QED BY <1>2, <2>1, <2>2 DEF GateType
<1>5. \A q \in Rows : /\ row'[q].holder = row[q].holder
                      /\ row'[q].expires >= row[q].expires
                      /\ row[q].expires \in Nat /\ row'[q].expires \in Nat
  BY <1>0, <1>3 DEF GateType, Renewable
<1>6. ClockInv'
  BY <1>1, <1>2, <1>a, <1>c DEF ClockInv
<1>7. \A v \in Workers, q \in Rows : Own(v, q)' => Own(v, q)
  BY <1>2, <1>5 DEF Own
<1>d. ASSUME NEW q \in Rows, Own(w, q), pc = "done"
      PROVE  row'[q].expires + 2 * MaxGap >= new.at + LeaseDuration
  <2>1. row[q].expires \in Nat /\ row'[q].expires \in Nat /\ renewal[w][c].at \in Nat
    BY <1>1, <1>5
  <2>2. CASE q \in renewal[w][c].ids
    <3>1. row'[q].expires >= renewal[w][c].at + LeaseDuration
      BY <1>0, <1>3, <1>d, <2>1, <2>2, GateAssumption DEF Renewable, Own
    <3>. QED BY <1>a, <2>1, <3>1, GateAssumption
  <2>3. CASE q \notin renewal[w][c].ids
    <3>1. row[q].expires + 2 * MaxGap >= renewal[w][c].at + LeaseDuration
      BY <1>1, <1>d, <2>3 DEF FloorInv
    <3>. QED BY <1>5, <1>a, <2>1, <3>1, GateAssumption
  <2>. QED BY <2>2, <2>3
<1>8. FloorInv'
  <2>. SUFFICES ASSUME NEW v \in Workers, NEW q \in Rows, Own(v, q)'
                PROVE  /\ row'[q].expires + 2 * MaxGap >= lastRenew[v] + LeaseDuration
                       /\ pump[v].pc = "claimed" /\ q \in pump[v].claimed =>
                            row'[q].expires >= pump[v].at + LeaseDuration
                       /\ \A d \in Callers :
                            /\ renewal'[v][d].pc = "read" /\ q \notin renewal'[v][d].ids =>
                                 row'[q].expires + MaxGap >= renewal'[v][d].at + LeaseDuration
                            /\ renewal'[v][d].pc = "write" /\ q \notin renewal'[v][d].ids =>
                                 row'[q].expires + 2 * MaxGap >= renewal'[v][d].at + LeaseDuration
                            /\ renewal'[v][d].pc = "done" =>
                                 row'[q].expires + 2 * MaxGap >= renewal'[v][d].at + LeaseDuration
    BY <1>2 DEF FloorInv
  <2>1. Own(v, q)
    BY <1>7
  <2>2. /\ lastRenew[v] \in Nat /\ pump[v].at \in Nat
        /\ \A d \in Callers : renewal[v][d].at \in Nat
    BY DEF GateType, PumpRecord
  <2>3. /\ row'[q].expires + 2 * MaxGap >= lastRenew[v] + LeaseDuration
        /\ pump[v].pc = "claimed" /\ q \in pump[v].claimed =>
             row'[q].expires >= pump[v].at + LeaseDuration
    BY <1>5, <2>1, <2>2, GateAssumption DEF FloorInv
  <2>4. \A d \in Callers :
          /\ renewal[v][d].pc = "read" /\ q \notin renewal[v][d].ids =>
               row'[q].expires + MaxGap >= renewal[v][d].at + LeaseDuration
          /\ renewal[v][d].pc = "write" /\ q \notin renewal[v][d].ids =>
               row'[q].expires + 2 * MaxGap >= renewal[v][d].at + LeaseDuration
          /\ renewal[v][d].pc = "done" =>
               row'[q].expires + 2 * MaxGap >= renewal[v][d].at + LeaseDuration
    BY <1>5, <2>1, <2>2, GateAssumption DEF FloorInv
  <2>5. ASSUME NEW d \in Callers
        PROVE  /\ renewal'[v][d].pc = "read" /\ q \notin renewal'[v][d].ids =>
                    row'[q].expires + MaxGap >= renewal'[v][d].at + LeaseDuration
               /\ renewal'[v][d].pc = "write" /\ q \notin renewal'[v][d].ids =>
                    row'[q].expires + 2 * MaxGap >= renewal'[v][d].at + LeaseDuration
               /\ renewal'[v][d].pc = "done" =>
                    row'[q].expires + 2 * MaxGap >= renewal'[v][d].at + LeaseDuration
    <3>1. CASE v = w /\ d = c
      BY <1>1, <1>a, <1>c, <1>d, <2>1, <2>4, <3>1
    <3>2. CASE ~(v = w /\ d = c)
      BY <1>c, <2>4, <3>2
    <3>. QED BY <3>1, <3>2
  <2>. QED BY <2>3, <2>5
<1>9. HeldInv' /\ CutoffInv'
  <2>1. \A v \in Workers : pump[v].cutoff \in Nat
    BY DEF GateType, PumpRecord
  <2>2. \A v \in Workers : renewal'[v]["pump"].pc # "idle" => renewal[v]["pump"].pc # "idle"
    BY <1>1, <1>c DEF Callers
  <2>. QED BY <1>2, <1>5, <1>7, <2>1, <2>2 DEF HeldInv, CutoffInv
<1>. QED BY <1>4, <1>6, <1>8, <1>9

(* The end of a renewal: what it stores is at most the floor under every   *)
(* lease, and where the pump waited for it, the pump goes on to its claim  *)
(* without a takeover.                                                     *)
LEMMA EndStep ==
    ASSUME IInv, NEW w \in Workers, NEW c \in Callers,
           StoreRenewal(w, c) \/ RenewalFails(w, c)
    PROVE  IInv'
<1>. USE DEF IInv
<1>1. /\ Renewal(w, c, Quiet) /\ Repaired(w, c) /\ renewal[w][c].pc # "idle"
      /\ UNCHANGED <<now, row, held, running, doomed, returning>>
  BY DEF StoreRenewal, RenewalFails
<1>2. \A v \in Workers, d \in Callers :
        renewal'[v][d] = IF v = w /\ d = c THEN Quiet ELSE renewal[v][d]
  BY <1>1 DEF GateType, Renewal
<1>3. /\ pump' \in [Workers -> PumpRecord]
      /\ \A v \in Workers :
           /\ pump'[v].at = pump[v].at /\ pump'[v].cutoff = pump[v].cutoff
           /\ pump'[v].claimed = pump[v].claimed
           /\ pump'[v].pc = IF v = w /\ c = "pump" THEN "claim" ELSE pump[v].pc
  <2>1. pump[w] \in PumpRecord
    BY DEF GateType
  <2>2. [pump[w] EXCEPT !.pc = "claim"] \in PumpRecord
    BY <2>1 DEF PumpRecord, PumpStates
  <2>3. pump' \in [Workers -> PumpRecord]
    BY <1>1, <2>2 DEF Repaired, GateType
  <2>. QED BY <1>1, <2>1, <2>3 DEF Repaired, GateType, PumpRecord
<1>4. lastRenew' \in [Workers -> Nat] /\ \A v \in Workers :
        \/ lastRenew'[v] = lastRenew[v]
        \/ v = w /\ renewal[w][c].pc = "done" /\ lastRenew'[v] = renewal[w][c].at
  <2>1. CASE StoreRenewal(w, c)
    BY <2>1 DEF StoreRenewal, Stamp, GateType
  <2>2. CASE RenewalFails(w, c)
    BY <2>2 DEF RenewalFails, GateType
  <2>. QED BY <2>1, <2>2
<1>5. c = "pump" => pump[w].pc = "repair"
  BY <1>1 DEF CutoffInv
<1>6. GateType'
  <2>1. renewal' \in [Workers -> [Callers -> [pc: RenewStates, ids: SUBSET Rows, at: Nat]]]
    <3>1. Quiet \in [pc: RenewStates, ids: SUBSET Rows, at: Nat]
      BY DEF Quiet, RenewStates
    <3>. QED BY <1>1, <3>1 DEF GateType, Renewal
  <2>. QED BY <1>1, <1>3, <1>4, <2>1 DEF GateType
<1>7. ClockInv'
  <2>1. \A v \in Workers : lastRenew'[v] <= now
    BY <1>4 DEF ClockInv
  <2>2. \A v \in Workers, d \in Callers : /\ renewal'[v][d].at <= now
                                          /\ renewal'[v][d].pc = "read" =>
                                               now <= renewal'[v][d].at + MaxGap
    <3>1. Quiet.at <= now /\ Quiet.pc # "read"
      BY DEF Quiet, GateType
    <3>. QED BY <1>2, <3>1 DEF ClockInv
  <2>. QED BY <1>1, <1>3, <2>1, <2>2 DEF ClockInv
<1>8. HeldInv'
  BY <1>1, <1>3, <1>5 DEF HeldInv
<1>9. \A v \in Workers, r \in Rows : Own(v, r)' => Own(v, r)
  BY <1>1, <1>3 DEF Own
<1>10. FloorInv'
  BY <1>1, <1>2, <1>3, <1>4, <1>9 DEF FloorInv, Quiet
<1>11. CutoffInv'
  <2>1. \A v \in Workers, r \in Rows : Own(v, r) => row[r].expires > 0
    BY GateAssumption DEF CutoffInv, Own
  <2>. QED BY <1>1, <1>2, <1>3, <1>5, <1>9, <2>1 DEF CutoffInv, Quiet, Callers
<1>. QED BY <1>6, <1>7, <1>8, <1>10, <1>11

(* A step of the pump before it claims.                                    *)
LEMMA PumpStep ==
    ASSUME IInv, NEW w \in Workers,
           NEW new \in PumpRecord, new.pc \in {"gate", "repair", "claim", "claiming"},
           pump[w].pc \in {"idle", "gate", "claim"}, new.claimed = pump[w].claimed,
           pump' = [pump EXCEPT ![w] = new],
           UNCHANGED <<now, row, lastRenew, held, renewal, running, doomed, returning>>,
           new.at <= now, new.cutoff <= now,
           new.pc = "claiming" => now <= new.at + MaxGap,
           new.pc = "repair" => new.cutoff = 0,
           new.pc \in {"claim", "claiming"} =>
             \A r \in Rows : Own(w, r) => row[r].expires > new.cutoff
    PROVE  IInv'
<1>. USE DEF IInv
<1>1. \A v \in Workers : pump'[v] = IF v = w THEN new ELSE pump[v]
  BY DEF GateType
<1>2. GateType'
  BY DEF GateType
<1>3. ClockInv'
  BY <1>1 DEF ClockInv
<1>4. HeldInv'
  BY <1>1 DEF HeldInv
<1>5. \A v \in Workers, r \in Rows : Own(v, r)' => Own(v, r)
  BY <1>1 DEF Own
<1>6. FloorInv'
  BY <1>1, <1>5 DEF FloorInv
<1>7. CutoffInv'
  BY <1>1, <1>5 DEF CutoffInv
<1>. QED BY <1>2, <1>3, <1>4, <1>6, <1>7

(* At a gate that does not trip, every lease of w outlives the instant the *)
(* gate read, by what the margin leaves over the gaps.                     *)
LEMMA GateStep ==
    ASSUME IInv, NEW w \in Workers, gateClock(w) \/ leaseGate(w) \/ claimClock(w)
    PROVE  IInv'
<1>0. /\ pump[w] \in PumpRecord
      /\ pump[w].at \in Nat /\ pump[w].cutoff \in Nat
      /\ now \in Nat /\ pump[w].at <= now /\ pump[w].cutoff <= now
      /\ lastRenew[w] \in Nat
      /\ \A r \in Rows : row[r].expires \in Nat
  <2>1. pump[w] \in PumpRecord
    BY DEF IInv, GateType
  <2>. QED BY <2>1 DEF IInv, GateType, ClockInv, PumpRecord
<1>1. CASE gateClock(w)
  <2>. DEFINE new == [pump[w] EXCEPT !.pc = "gate", !.at = now]
  <2>0. new \in PumpRecord
    BY <1>0 DEF PumpRecord, PumpStates
  <2>1. /\ new.claimed = pump[w].claimed /\ new.pc = "gate" /\ new.at <= now /\ new.cutoff <= now
    BY <1>0 DEF PumpRecord
  <2>2. /\ pump' = [pump EXCEPT ![w] = new] /\ pump[w].pc = "idle"
        /\ UNCHANGED <<now, row, lastRenew, held, renewal, running, doomed, returning>>
    BY <1>1 DEF gateClock
  <2>. HIDE DEF new
  <2>. QED BY <2>0, <2>1, <2>2, PumpStep
<1>2. CASE leaseGate(w)
  <2>0. /\ pump[w].pc = "gate"
        /\ UNCHANGED <<now, row, lastRenew, held, renewal, running, doomed, returning>>
    BY <1>2 DEF leaseGate
  <2>1. \A r \in Rows : Own(w, r) => row[r].expires > 0
    BY GateAssumption DEF IInv, CutoffInv, Own
  <2>2. CASE Stale(w)
    <3>. DEFINE new == [pump[w] EXCEPT !.pc = "repair", !.at = 0, !.cutoff = SkipTakeover,
                                       !.graceUntil = pump[w].at + LeaseDuration]
    <3>0. new \in PumpRecord
      <4>1. pump[w].at + LeaseDuration \in Nat
        BY <1>0, GateAssumption
      <4>. QED BY <1>0, <4>1 DEF PumpRecord, PumpStates, SkipTakeover
    <3>1. /\ new.claimed = pump[w].claimed /\ new.pc = "repair" /\ new.cutoff = 0
          /\ new.at <= now /\ new.cutoff <= now
      BY <1>0 DEF PumpRecord, SkipTakeover
    <3>2. pump' = [pump EXCEPT ![w] = new]
      BY <1>2, <2>2 DEF leaseGate
    <3>. HIDE DEF new
    <3>. QED BY <2>0, <3>0, <3>1, <3>2, PumpStep
  <2>3. CASE ~Stale(w)
    <3>. DEFINE cut == IF pump[w].at < pump[w].graceUntil THEN SkipTakeover ELSE pump[w].at
                new == [pump[w] EXCEPT !.pc = "claim", !.at = 0, !.cutoff = cut]
    <3>1. cut \in {0, pump[w].at}
      BY DEF SkipTakeover
    <3>2. pump' = [pump EXCEPT ![w] = new]
      BY <1>2, <2>3 DEF leaseGate
    <3>. HIDE DEF cut
    <3>0. new \in PumpRecord
      <4>1. cut \in Nat
        BY <1>0, <3>1
      <4>. QED BY <1>0, <4>1 DEF PumpRecord, PumpStates
    <3>3. /\ new.claimed = pump[w].claimed /\ new.pc = "claim" /\ new.cutoff = cut
          /\ new.at <= now /\ new.cutoff <= now
      BY <1>0, <3>1 DEF PumpRecord
    <3>4. ASSUME NEW r \in Rows, Own(w, r) PROVE row[r].expires > pump[w].at
      <4>1. row[r].expires + 2 * MaxGap >= lastRenew[w] + LeaseDuration
        BY <3>4 DEF IInv, FloorInv
      <4>2. pump[w].at + Margin < lastRenew[w] + LeaseDuration
        BY <1>0, <2>3, MarginNat, GateAssumption DEF Stale
      <4>. QED BY <1>0, <4>1, <4>2, MarginNat, GateAssumption
    <3>5. \A r \in Rows : Own(w, r) => row[r].expires > cut
      BY <2>1, <3>1, <3>4
    <3>. HIDE DEF new
    <3>. QED BY <2>0, <3>0, <3>2, <3>3, <3>5, PumpStep
  <2>. QED BY <2>2, <2>3
<1>3. CASE claimClock(w)
  <2>. DEFINE new == [pump[w] EXCEPT !.pc = "claiming", !.at = now]
  <2>0. new \in PumpRecord
    BY <1>0 DEF PumpRecord, PumpStates
  <2>1. /\ new.claimed = pump[w].claimed /\ new.pc = "claiming" /\ new.cutoff = pump[w].cutoff
        /\ new.at <= now /\ new.cutoff <= now /\ now <= new.at + MaxGap
    BY <1>0, GateAssumption DEF PumpRecord
  <2>2. /\ pump' = [pump EXCEPT ![w] = new] /\ pump[w].pc = "claim"
        /\ UNCHANGED <<now, row, lastRenew, held, renewal, running, doomed, returning>>
    BY <1>3 DEF claimClock
  <2>3. \A r \in Rows : Own(w, r) => row[r].expires > pump[w].cutoff
    BY <2>2 DEF IInv, CutoffInv
  <2>. HIDE DEF new
  <2>. QED BY <2>0, <2>1, <2>2, <2>3, PumpStep
<1>. QED BY <1>1, <1>2, <1>3

(* A claim takes nothing the worker still holds under its own name.        *)
LEMMA TakesNotOwn ==
    ASSUME IInv, NEW w \in Workers, pump[w].pc = "claiming",
           NEW r \in Rows, Takeable(w, r)
    PROVE  ~Own(w, r)
<1>. SUFFICES ASSUME Own(w, r) PROVE FALSE
  OBVIOUS
<1>1. row[r].expires <= pump[w].cutoff
  BY GateAssumption DEF Takeable, Cutoff, Own
<1>2. row[r].expires > pump[w].cutoff /\ row[r].expires \in Nat /\ pump[w].cutoff \in Nat
  BY DEF IInv, CutoffInv, GateType, PumpRecord
<1>. QED BY <1>1, <1>2

(* The leases a claim grants end no more than MaxGap before a lease period *)
(* from now, and so above every floor.                                     *)
LEMMA ClaimStep ==
    ASSUME IInv, NEW w \in Workers, ClaimInstances(w)
    PROVE  IInv'
<1>. USE DEF IInv
<1>1. PICK S \in SUBSET Rows :
        /\ \A r \in S : Takeable(w, r)
        /\ row' = [r \in Rows |-> IF r \in S
                                  THEN [holder |-> w, expires |-> pump[w].at + LeaseDuration]
                                  ELSE row[r]]
        /\ doomed' = [v \in Workers |-> doomed[v] \cup (S \cap running[v])]
        /\ pump' = [pump EXCEPT ![w] = [pump[w] EXCEPT !.pc = "claimed", !.claimed = S]]
  BY DEF ClaimInstances
<1>2. /\ pump[w].pc = "claiming"
      /\ UNCHANGED <<now, lastRenew, held, renewal, running, returning>>
  BY DEF ClaimInstances
<1>3. /\ pump[w] \in PumpRecord /\ pump[w].at \in Nat /\ now \in Nat
      /\ now <= pump[w].at + MaxGap /\ pump[w].claimed = {}
  <2>1. pump[w] \in PumpRecord
    BY DEF GateType
  <2>. QED BY <1>2, <2>1 DEF GateType, PumpRecord, ClockInv, HeldInv
<1>4. [pump[w] EXCEPT !.pc = "claimed", !.claimed = S] \in PumpRecord
  BY <1>3 DEF PumpRecord, PumpStates
<1>5. \A v \in Workers : /\ pump'[v].at = pump[v].at /\ pump'[v].cutoff = pump[v].cutoff
                         /\ pump'[v].pc = IF v = w THEN "claimed" ELSE pump[v].pc
                         /\ pump'[v].claimed = IF v = w THEN S ELSE pump[v].claimed
  BY <1>1, <1>3 DEF GateType, PumpRecord
<1>6. pump[w].at + LeaseDuration \in Nat /\ pump[w].at + LeaseDuration > 0
  BY <1>3, GateAssumption
<1>7. \A r \in Rows : row'[r] = IF r \in S
                                THEN [holder |-> w, expires |-> pump[w].at + LeaseDuration]
                                ELSE row[r]
  BY <1>1
<1>8. GateType'
  <2>1. row' \in [Rows -> [holder: Workers \cup {NoWorker}, expires: Nat]]
    BY <1>1, <1>6 DEF GateType
  <2>2. pump' \in [Workers -> PumpRecord]
    BY <1>1, <1>4 DEF GateType
  <2>3. doomed' \in [Workers -> SUBSET Rows]
    BY <1>1 DEF GateType
  <2>. QED BY <1>2, <2>1, <2>2, <2>3 DEF GateType
<1>9. ClockInv'
  BY <1>2, <1>3, <1>5 DEF ClockInv
<1>10. HeldInv'
  BY <1>5 DEF HeldInv
<1>11. \A v \in Workers, r \in Rows : Own(v, r)' => (v = w /\ r \in S) \/ (Own(v, r) /\ r \notin S)
  BY <1>2, <1>3, <1>5, <1>7 DEF Own
<1>12. FloorInv'
  <2>. SUFFICES ASSUME NEW v \in Workers, NEW q \in Rows, Own(v, q)'
                PROVE  /\ row'[q].expires + 2 * MaxGap >= lastRenew[v] + LeaseDuration
                       /\ pump'[v].pc = "claimed" /\ q \in pump'[v].claimed =>
                            row'[q].expires >= pump'[v].at + LeaseDuration
                       /\ \A d \in Callers :
                            /\ renewal[v][d].pc = "read" /\ q \notin renewal[v][d].ids =>
                                 row'[q].expires + MaxGap >= renewal[v][d].at + LeaseDuration
                            /\ renewal[v][d].pc = "write" /\ q \notin renewal[v][d].ids =>
                                 row'[q].expires + 2 * MaxGap >= renewal[v][d].at + LeaseDuration
                            /\ renewal[v][d].pc = "done" =>
                                 row'[q].expires + 2 * MaxGap >= renewal[v][d].at + LeaseDuration
    BY <1>2 DEF FloorInv
  <2>1. CASE v = w /\ q \in S
    <3>1. row'[q].expires = pump[w].at + LeaseDuration
      BY <1>7, <2>1
    <3>2. row'[q].expires + MaxGap >= now + LeaseDuration
      BY <1>3, <3>1, GateAssumption
    <3>3. row'[q].expires \in Nat /\ row'[q].expires + 2 * MaxGap >= now + LeaseDuration
      BY <1>3, <1>6, <3>1, <3>2, GateAssumption
    <3>4. /\ lastRenew[v] \in Nat /\ lastRenew[v] <= now
          /\ \A d \in Callers : renewal[v][d].at \in Nat /\ renewal[v][d].at <= now
      BY DEF GateType, ClockInv
    <3>5. pump'[v].at = pump[w].at
      BY <1>5, <2>1
    <3>. QED BY <1>3, <3>1, <3>2, <3>3, <3>4, <3>5, GateAssumption
  <2>2. CASE ~(v = w /\ q \in S)
    <3>1. Own(v, q) /\ q \notin S
      BY <1>11, <2>2
    <3>2. row'[q] = row[q]
      BY <1>7, <3>1
    <3>3. pump'[v].pc = "claimed" /\ q \in pump'[v].claimed =>
            pump[v].pc = "claimed" /\ q \in pump[v].claimed /\ pump'[v].at = pump[v].at
      BY <1>5, <3>1
    <3>. QED BY <3>1, <3>2, <3>3 DEF FloorInv
  <2>. QED BY <2>1, <2>2
<1>13. CutoffInv'
  <2>1. \A r \in Rows : row'[r].holder # NoWorker => row'[r].expires > 0
    BY <1>6, <1>7 DEF CutoffInv
  <2>2. ASSUME NEW v \in Workers, pump'[v].pc \in {"claim", "claiming"}, NEW r \in Rows, Own(v, r)'
        PROVE  row'[r].expires > pump'[v].cutoff
    <3>1. v # w /\ pump[v].pc \in {"claim", "claiming"} /\ pump'[v].cutoff = pump[v].cutoff
      BY <1>5, <2>2
    <3>2. Own(v, r) /\ r \notin S
      BY <1>11, <2>2, <3>1
    <3>. QED BY <1>7, <3>1, <3>2 DEF CutoffInv
  <2>3. \A v \in Workers : /\ pump'[v].pc = "repair" => pump'[v].cutoff = 0
                           /\ renewal'[v]["pump"].pc # "idle" => pump'[v].pc = "repair"
    BY <1>2, <1>5 DEF CutoffInv
  <2>. QED BY <2>1, <2>2, <2>3 DEF CutoffInv
<1>. QED BY <1>8, <1>9, <1>10, <1>12, <1>13

(* Holding and dispatching move a claimed row from set to set.             *)
LEMMA DispatchStep ==
    ASSUME IInv, NEW w \in Workers, holdLease(w) \/ dispatch(w)
    PROVE  IInv'
<1>. USE DEF IInv
<1>0. pump[w] \in PumpRecord /\ pump[w].claimed \in SUBSET Rows /\ now \in Nat
  BY DEF GateType, PumpRecord
<1>1. CASE holdLease(w)
  <2>0. /\ pump[w].pc = "claimed"
        /\ UNCHANGED <<now, row, lastRenew, renewal, running, doomed, returning>>
        /\ held' = [held EXCEPT ![w] = held[w] \cup pump[w].claimed]
        /\ pump' = [pump EXCEPT ![w] = [pump[w] EXCEPT !.pc = "dispatch", !.at = 0,
                                                       !.cutoff = SkipTakeover]]
    BY <1>1 DEF holdLease
  <2>1. [pump[w] EXCEPT !.pc = "dispatch", !.at = 0, !.cutoff = SkipTakeover] \in PumpRecord
    BY <1>0 DEF PumpRecord, PumpStates, SkipTakeover
  <2>2. \A v \in Workers : /\ v # w => pump'[v] = pump[v] /\ held'[v] = held[v]
                           /\ pump'[w].claimed = pump[w].claimed /\ pump'[w].pc = "dispatch"
                           /\ pump'[w].at = 0 /\ pump'[w].cutoff = 0
                           /\ held'[w] = held[w] \cup pump[w].claimed
    BY <1>0, <2>0 DEF GateType, PumpRecord, SkipTakeover
  <2>3. GateType'
    BY <1>0, <2>0, <2>1 DEF GateType
  <2>4. ClockInv'
    BY <1>0, <2>0, <2>2 DEF ClockInv
  <2>5. HeldInv'
    BY <2>0, <2>2 DEF HeldInv
  <2>6. \A v \in Workers, r \in Rows : Own(v, r)' => Own(v, r)
    BY <2>0, <2>2 DEF Own
  <2>7. FloorInv'
    BY <2>0, <2>2, <2>6 DEF FloorInv
  <2>8. CutoffInv'
    BY <2>0, <2>2, <2>6 DEF CutoffInv
  <2>. QED BY <2>3, <2>4, <2>5, <2>7, <2>8
<1>2. CASE dispatch(w)
  <2>0. /\ pump[w].pc = "dispatch"
        /\ UNCHANGED <<now, row, lastRenew, held, renewal, doomed, returning>>
        /\ running' = [running EXCEPT ![w] = running[w] \cup pump[w].claimed]
        /\ pump' = [pump EXCEPT ![w] = [pump[w] EXCEPT !.pc = "idle", !.claimed = {}]]
    BY <1>2 DEF dispatch
  <2>1. [pump[w] EXCEPT !.pc = "idle", !.claimed = {}] \in PumpRecord
    BY <1>0 DEF PumpRecord, PumpStates
  <2>2. \A v \in Workers : /\ v # w => pump'[v] = pump[v] /\ running'[v] = running[v]
                           /\ pump'[w].claimed = {} /\ pump'[w].pc = "idle"
                           /\ pump'[w].at = pump[w].at /\ pump'[w].cutoff = pump[w].cutoff
                           /\ running'[w] = running[w] \cup pump[w].claimed
    BY <1>0, <2>0 DEF GateType, PumpRecord
  <2>3. GateType'
    BY <1>0, <2>0, <2>1 DEF GateType
  <2>4. ClockInv'
    BY <2>0, <2>2 DEF ClockInv
  <2>5. HeldInv'
    BY <2>0, <2>2 DEF HeldInv
  <2>6. \A v \in Workers, r \in Rows : Own(v, r)' => Own(v, r)
    BY <2>0, <2>2 DEF Own
  <2>7. FloorInv'
    BY <2>0, <2>2, <2>6 DEF FloorInv
  <2>8. CutoffInv'
    BY <2>0, <2>2, <2>6 DEF CutoffInv
  <2>. QED BY <2>3, <2>4, <2>5, <2>7, <2>8
<1>. QED BY <1>1, <1>2

LEMMA AdvanceStep ==
    ASSUME IInv, NEW w \in Workers, NEW r \in Rows, runAdvance(w, r) \/ dropLease(w, r)
    PROVE  IInv'
<1>. USE DEF IInv
<1>1. CASE runAdvance(w, r)
  <2>0. /\ r \in running[w]
        /\ UNCHANGED <<now, lastRenew, held, pump, renewal>>
        /\ running' = [running EXCEPT ![w] = running[w] \ {r}]
        /\ doomed' = [doomed EXCEPT ![w] = doomed[w] \ {r}]
        /\ returning' = [returning EXCEPT ![w] = returning[w] \cup {r}]
        /\ \/ row' = [row EXCEPT ![r] = [holder |-> NoWorker, expires |-> 0]]
           \/ row' = row
    BY <1>1 DEF runAdvance
  <2>1. GateType'
    <3>1. row' \in [Rows -> [holder: Workers \cup {NoWorker}, expires: Nat]]
      <4>1. [holder |-> NoWorker, expires |-> 0] \in [holder: Workers \cup {NoWorker}, expires: Nat]
        OBVIOUS
      <4>2. row \in [Rows -> [holder: Workers \cup {NoWorker}, expires: Nat]]
        BY DEF GateType
      <4>. QED BY <2>0, <4>1, <4>2
    <3>. QED BY <2>0, <3>1 DEF GateType
  <2>2. ClockInv'
    BY <2>0 DEF ClockInv
  <2>3. HeldInv'
    BY <2>0 DEF HeldInv, GateType
  <2>4. \A q \in Rows : row'[q].holder # NoWorker => row'[q] = row[q]
    BY <2>0 DEF GateType
  <2>5. \A v \in Workers, q \in Rows : Own(v, q)' => Own(v, q) /\ row'[q] = row[q]
    BY <2>0, <2>4, GateAssumption DEF Own
  <2>6. FloorInv'
    BY <2>0, <2>5 DEF FloorInv
  <2>7. CutoffInv'
    BY <2>0, <2>4, <2>5 DEF CutoffInv
  <2>. QED BY <2>1, <2>2, <2>3, <2>6, <2>7
<1>2. CASE dropLease(w, r)
  <2>0. /\ r \in returning[w]
        /\ UNCHANGED <<now, row, lastRenew, pump, renewal, running, doomed>>
        /\ returning' = [returning EXCEPT ![w] = returning[w] \ {r}]
        /\ held' = [held EXCEPT ![w] = held[w] \ {r}]
    BY <1>2 DEF dropLease
  <2>1. GateType'
    BY <2>0 DEF GateType
  <2>2. ClockInv'
    BY <2>0 DEF ClockInv
  <2>3. HeldInv'
    BY <2>0 DEF HeldInv, GateType
  <2>4. \A v \in Workers, q \in Rows : Own(v, q)' => Own(v, q)
    BY <2>0 DEF Own, GateType
  <2>5. FloorInv'
    BY <2>0, <2>4 DEF FloorInv
  <2>6. CutoffInv'
    BY <2>0, <2>4 DEF CutoffInv
  <2>. QED BY <2>1, <2>2, <2>3, <2>5, <2>6
<1>. QED BY <1>1, <1>2

LEMMA TickStep ==
    ASSUME IInv, Tick
    PROVE  IInv'
<1>. USE DEF IInv, Tick
<1>1. now \in Nat /\ now + 1 \in Nat /\ now + 1 <= MaxTime
  BY GateAssumption DEF GateType
<1>2. GateType'
  BY <1>1 DEF GateType
<1>3. ClockInv'
  <2>1. \A w \in Workers : /\ lastRenew[w] \in Nat /\ pump[w].at \in Nat /\ pump[w].cutoff \in Nat
                           /\ \A c \in Callers : renewal[w][c].at \in Nat
    BY DEF GateType, PumpRecord
  <2>2. \A w \in Workers : /\ lastRenew[w] <= now + 1 /\ pump[w].at <= now + 1
                           /\ pump[w].cutoff <= now + 1
                           /\ \A c \in Callers : renewal[w][c].at <= now + 1
    BY <1>1, <2>1 DEF ClockInv
  <2>3. \A w \in Workers :
          /\ pump[w].pc \in {"claiming", "claimed"} => now + 1 <= pump[w].at + MaxGap
          /\ \A c \in Callers : renewal[w][c].pc = "read" => now + 1 <= renewal[w][c].at + MaxGap
    BY <1>1, <2>1, GateAssumption DEF InTime
  <2>. QED BY <1>1, <2>2, <2>3 DEF ClockInv
<1>4. HeldInv' /\ FloorInv' /\ CutoffInv'
  BY DEF HeldInv, FloorInv, CutoffInv, Own
<1>. QED BY <1>2, <1>3, <1>4

LEMMA NextInv == IInv /\ [Next]_vars => IInv'
<1>. SUFFICES ASSUME IInv, [Next]_vars PROVE IInv'
  OBVIOUS
<1>1. ASSUME NEW w \in Workers, NEW c \in Callers,
             heldLeases(w, c) \/ renewedAt(w, c) \/ RenewChunk(w, c)
               \/ StoreRenewal(w, c) \/ RenewalFails(w, c)
      PROVE  IInv'
  BY <1>1, HeldLeasesStep, RenewedAtStep, RenewChunkStep, EndStep
<1>2. ASSUME NEW w \in Workers,
             gateClock(w) \/ leaseGate(w) \/ claimClock(w) \/ ClaimInstances(w)
               \/ holdLease(w) \/ dispatch(w)
      PROVE  IInv'
  BY <1>2, GateStep, ClaimStep, DispatchStep
<1>3. ASSUME NEW w \in Workers, NEW r \in Rows, runAdvance(w, r) \/ dropLease(w, r) PROVE IInv'
  BY <1>3, AdvanceStep
<1>4. CASE Tick
  BY <1>4, TickStep
<1>5. CASE UNCHANGED vars
  <2>. USE <1>5 DEF IInv, vars
  <2>1. GateType' /\ ClockInv' /\ HeldInv'
    BY DEF GateType, ClockInv, HeldInv
  <2>2. FloorInv' /\ CutoffInv'
    BY DEF FloorInv, CutoffInv, Own
  <2>. QED BY <2>1, <2>2
<1>. QED BY <1>1, <1>2, <1>3, <1>4, <1>5 DEF Next

LEMMA Invariance == Spec => []IInv
BY InitInv, NextInv, PTL DEF Spec

-----------------------------------------------------------------------------
(* Every variable keeps its type, and no instant exceeds the clock.        *)
THEOREM TypeCorrect == Spec => []TypeOK
<1>1. IInv => TypeOK
  <2>. SUFFICES ASSUME IInv PROVE TypeOK
    OBVIOUS
  <2>. USE GateAssumption DEF IInv
  <2>0. now \in 0..MaxTime /\ \A t \in Nat : t <= now => t \in 0..MaxTime
    BY DEF GateType, ClockInv
  <2>1. lastRenew \in [Workers -> 0..MaxTime]
    BY <2>0 DEF GateType, ClockInv
  <2>2. pump \in [Workers -> [pc: PumpStates, at: 0..MaxTime, cutoff: 0..MaxTime,
                             graceUntil: Nat, claimed: SUBSET Rows]]
    BY <2>0 DEF GateType, ClockInv, PumpRecord
  <2>3. renewal \in [Workers -> [Callers -> [pc: RenewStates, ids: SUBSET Rows, at: 0..MaxTime]]]
    BY <2>0 DEF GateType, ClockInv
  <2>. QED BY <2>0, <2>1, <2>2, <2>3 DEF GateType, TypeOK, PumpStates, RenewStates
<1>. QED BY <1>1, Invariance, PTL

(* The lease of every row in a worker's held set ends no earlier than a    *)
(* lease period after the last renewal the gate knows of, but for the two  *)
(* gaps: whatever the durations, the freezes, the failed renewals and the  *)
(* races with dropLease (engine.go:69).                                    *)
THEOREM FloorHolds == Spec => []LeaseFloor
<1>1. IInv => LeaseFloor
  BY DEF IInv, FloorInv, LeaseFloor, Own, GateType
<1>. QED BY <1>1, Invariance, PTL

(* So a claim whose cutoff is the instant the gate read never takes over a *)
(* row from the very worker that holds it.                                 *)
THEOREM OwnRowsAreSafe == Spec => NeverOwn
<1>. DEFINE Safe == \A w \in Workers :
              pump[w].pc = "claiming" /\ pump'[w].pc = "claimed" =>
                \A r \in pump'[w].claimed : ~(row[r].holder = w /\ r \in held[w])
<1>1. IInv /\ [Next]_vars => [Safe]_vars
  <2>. SUFFICES ASSUME IInv, [Next]_vars PROVE [Safe]_vars
    OBVIOUS
  <2>. SUFFICES ASSUME NEW w \in Workers, pump[w].pc = "claiming", pump'[w].pc = "claimed",
                       NEW r \in pump'[w].claimed, row[r].holder = w, r \in held[w]
                PROVE  FALSE
    OBVIOUS
  <2>0. pump \in [Workers -> PumpRecord] /\ pump[w] \in PumpRecord
    BY DEF IInv, GateType
  <2>1. ASSUME UNCHANGED pump PROVE FALSE
    BY <2>1
  <2>2. ASSUME NEW v \in Workers, NEW c \in Callers, Repaired(v, c) PROVE FALSE
    <3>1. pump' = pump \/ pump'[w].pc \in {pump[w].pc, "claim"}
      BY <2>0, <2>2 DEF Repaired, PumpRecord
    <3>. QED BY <3>1
  <2>3. ASSUME NEW v \in Workers, gateClock(v) \/ leaseGate(v) \/ claimClock(v)
                                    \/ holdLease(v) \/ dispatch(v)
        PROVE  FALSE
    <3>1. pump'[w].pc \in {pump[w].pc, "gate", "repair", "claim", "claiming", "dispatch", "idle"}
      <4>1. pump[v] \in PumpRecord
        BY DEF IInv, GateType
      <4>. QED BY <2>0, <2>3, <4>1
             DEF gateClock, leaseGate, claimClock, holdLease, dispatch, PumpRecord
    <3>. QED BY <3>1
  <2>4. ASSUME NEW v \in Workers, ClaimInstances(v) PROVE FALSE
    <3>1. CASE v = w
      <4>1. r \in Rows /\ Takeable(w, r)
        BY <2>0, <2>4, <3>1 DEF ClaimInstances, PumpRecord
      <4>. QED BY <4>1, TakesNotOwn DEF Own
    <3>2. CASE v # w
      BY <2>0, <2>4, <3>2 DEF ClaimInstances
    <3>. QED BY <3>1, <3>2
  <2>. QED BY <2>1, <2>2, <2>3, <2>4
         DEF Next, vars, heldLeases, renewedAt, RenewChunk, StoreRenewal,
             RenewalFails, runAdvance, dropLease, Tick
<1>. QED BY <1>1, Invariance, PTL DEF Spec, NeverOwn
=============================================================================
