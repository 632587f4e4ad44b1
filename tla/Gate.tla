-------------------------------- MODULE Gate --------------------------------
(***************************************************************************)
(* Leases and the clock: the renewals of a worker, the gate before each of *)
(* its claims, and the claim itself (internal/engine/engine.go, runPump,   *)
(* leaseGate, renewLeases; internal/db/db_claim.go).  Lease.tla lets a     *)
(* lease lapse at any time; here a lease lapses because the clock passed   *)
(* it, and the question is what a worker that was slow or frozen does when *)
(* it runs on.                                                             *)
(*                                                                         *)
(* A worker has a pump, which passes the gate, claims and dispatches, and  *)
(* a renewer; the gate may run a renewal of its own, so two may be under   *)
(* way at once.  The clock moves between any two steps, except that a      *)
(* claim, and the start of a renewal, last at most MaxGap: the code says   *)
(* that a freeze inside ClaimInstances is left to the fence.  A worker may *)
(* stop taking steps at any time.                                          *)
(***************************************************************************)
EXTENDS Naturals

CONSTANTS Workers, Rows,
          NoWorker,
          LeaseDuration,   \* --lease-duration in clock ticks
          PollEvery,       \* --poll
          MaxGap,          \* bound: how long a claim, or the start of a renewal, takes
          MaxTime          \* bound: the clock

VARIABLES now,         \* nowMillis
          row,         \* worker_id and lease_expires_at
          lastRenew,   \* e.lastRenewMs
          held,        \* e.held
          pump,        \* the loop of runPump and its graceUntilMs
          renewal,     \* the renewals under way, by caller
          running,     \* the rows under an advance (e.inflight)
          doomed,      \* those of them whose grant was taken over
          returning    \* rows whose advance has written, but not dropped its lease

vars == <<now, row, lastRenew, held, pump, renewal, running, doomed, returning>>

Callers == {"renewer", "pump"}
Quiet == [pc |-> "idle", ids |-> {}, at |-> 0]

(* One poll early, capped at half the lease.                               *)
Margin == IF PollEvery > LeaseDuration \div 2 THEN LeaseDuration \div 2 ELSE PollEvery

ASSUME GateAssumption ==
    /\ NoWorker \notin Workers
    /\ LeaseDuration \in Nat \ {0} /\ PollEvery \in Nat \ {0} /\ MaxTime \in Nat
    /\ MaxGap \in Nat /\ 2 * MaxGap <= Margin

SkipTakeover == 0

TypeOK ==
    /\ now \in 0..MaxTime
    /\ row \in [Rows -> [holder: Workers \cup {NoWorker}, expires: Nat]]
    /\ lastRenew \in [Workers -> 0..MaxTime]
    /\ held \in [Workers -> SUBSET Rows]
    /\ pump \in [Workers -> [pc: {"idle", "gate", "repair", "claim", "claiming", "claimed", "dispatch"},
                             at: 0..MaxTime, cutoff: 0..MaxTime, graceUntil: Nat,
                             claimed: SUBSET Rows]]
    /\ renewal \in [Workers -> [Callers -> [pc: {"idle", "read", "write", "done"},
                                            ids: SUBSET Rows, at: 0..MaxTime]]]
    /\ running \in [Workers -> SUBSET Rows]
    /\ doomed \in [Workers -> SUBSET Rows]
    /\ returning \in [Workers -> SUBSET Rows]

(* Run seeds lastRenewMs before its loops start.                           *)
Init ==
    /\ now = 0
    /\ row = [r \in Rows |-> [holder |-> NoWorker, expires |-> 0]]
    /\ lastRenew = [w \in Workers |-> 0]
    /\ held = [w \in Workers |-> {}]
    /\ pump = [w \in Workers |-> [pc |-> "idle", at |-> 0, cutoff |-> 0, graceUntil |-> 0,
                                  claimed |-> {}]]
    /\ renewal = [w \in Workers |-> [c \in Callers |-> Quiet]]
    /\ running = [w \in Workers |-> {}]
    /\ doomed = [w \in Workers |-> {}]
    /\ returning = [w \in Workers |-> {}]

-----------------------------------------------------------------------------
(* renewLeases: the held set is read, then RenewWorkerLeases reads the     *)
(* clock, stamps the rows in chunks and returns the instant it read.       *)
Renewal(w, c, new) == renewal' = [renewal EXCEPT ![w] = [renewal[w] EXCEPT ![c] = new]]

heldLeases(w, c) ==
    /\ renewal[w][c].pc = "idle"
    /\ c = "pump" => pump[w].pc = "repair"
    /\ Renewal(w, c, [pc |-> "read", ids |-> held[w], at |-> now])
    /\ UNCHANGED <<now, row, lastRenew, held, pump, running, doomed, returning>>

(* Where the pump goes on once its repair is over.                         *)
Repaired(w, c) ==
    pump' = IF c = "pump" THEN [pump EXCEPT ![w] = [pump[w] EXCEPT !.pc = "claim"]] ELSE pump

renewedAt(w, c) ==
    /\ renewal[w][c].pc = "read"
    /\ Renewal(w, c, [renewal[w][c] EXCEPT !.pc = "write", !.at = now])
    /\ UNCHANGED <<now, row, lastRenew, held, pump, running, doomed, returning>>

(* RenewWorkerLeasesChunk stamps as many rows as fit in a chunk; a chunk   *)
(* that is not full was the last one.                                      *)
Renewable(w, c) ==
    {r \in renewal[w][c].ids : /\ row[r].holder = w
                               /\ row[r].expires < renewal[w][c].at + LeaseDuration}

RenewChunk(w, c) ==
    /\ renewal[w][c].pc = "write"
    /\ \E S \in SUBSET Renewable(w, c), pc \in {"write", "done"} :
         /\ pc = "done" => S = Renewable(w, c)
         /\ row' = [r \in Rows |-> IF r \in S
                                   THEN [holder |-> w,
                                         expires |-> renewal[w][c].at + LeaseDuration]
                                   ELSE row[r]]
         /\ Renewal(w, c, [renewal[w][c] EXCEPT !.pc = pc])
    /\ UNCHANGED <<now, lastRenew, held, pump, running, doomed, returning>>

Stamp_late(w, c) == now

Stamp(w, c) == renewal[w][c].at

StoreRenewal(w, c) ==
    /\ renewal[w][c].pc = "done"
    /\ lastRenew' = [lastRenew EXCEPT ![w] = Stamp(w, c)]
    /\ Renewal(w, c, Quiet)
    /\ Repaired(w, c)
    /\ UNCHANGED <<now, row, held, running, doomed, returning>>

RenewalFails(w, c) ==
    /\ renewal[w][c].pc \in {"write", "done"}
    /\ Renewal(w, c, Quiet)
    /\ Repaired(w, c)
    /\ UNCHANGED <<now, row, lastRenew, held, running, doomed, returning>>

-----------------------------------------------------------------------------
(* leaseGate reads the clock, then the evidence.                           *)
gateClock(w) ==
    /\ pump[w].pc = "idle"
    /\ pump' = [pump EXCEPT ![w] = [pump[w] EXCEPT !.pc = "gate", !.at = now]]
    /\ UNCHANGED <<now, row, lastRenew, held, renewal, running, doomed, returning>>

Stale(w) == pump[w].at + Margin >= lastRenew[w] + LeaseDuration

leaseGate(w) ==
    /\ pump[w].pc = "gate"
    /\ pump' = [pump EXCEPT ![w] =
         IF Stale(w)
         THEN [pump[w] EXCEPT !.pc = "repair", !.at = 0, !.cutoff = SkipTakeover,
                              !.graceUntil = pump[w].at + LeaseDuration]
         ELSE [pump[w] EXCEPT !.pc = "claim", !.at = 0,
                              !.cutoff = IF pump[w].at < pump[w].graceUntil
                                         THEN SkipTakeover ELSE pump[w].at]]
    /\ UNCHANGED <<now, row, lastRenew, held, renewal, running, doomed, returning>>

(* ClaimInstances reads the clock for the expiry it grants ...             *)
claimClock(w) ==
    /\ pump[w].pc = "claim"
    /\ pump' = [pump EXCEPT ![w] = [pump[w] EXCEPT !.pc = "claiming", !.at = now]]
    /\ UNCHANGED <<now, row, lastRenew, held, renewal, running, doomed, returning>>

(* ... and takes rows that are free or whose lease ended by the cutoff;    *)
(* which of these are due, and how many, is left open.                     *)
Cutoff_now(w) == IF pump[w].cutoff = SkipTakeover THEN SkipTakeover ELSE now

Cutoff(w) == pump[w].cutoff

Takeable(w, r) == row[r].holder = NoWorker \/ row[r].expires <= Cutoff(w)

ClaimInstances(w) ==
    /\ pump[w].pc = "claiming"
    /\ \E S \in SUBSET Rows :
         /\ \A r \in S : Takeable(w, r)
         /\ row' = [r \in Rows |-> IF r \in S
                                   THEN [holder |-> w, expires |-> pump[w].at + LeaseDuration]
                                   ELSE row[r]]
         /\ doomed' = [v \in Workers |-> doomed[v] \cup (S \cap running[v])]
         /\ pump' = [pump EXCEPT ![w] = [pump[w] EXCEPT !.pc = "claimed", !.claimed = S]]
    /\ UNCHANGED <<now, lastRenew, held, renewal, running, returning>>

holdLease(w) ==
    /\ pump[w].pc = "claimed"
    /\ held' = [held EXCEPT ![w] = held[w] \cup pump[w].claimed]
    /\ pump' = [pump EXCEPT ![w] = [pump[w] EXCEPT !.pc = "dispatch", !.at = 0, !.cutoff = SkipTakeover]]
    /\ UNCHANGED <<now, row, lastRenew, renewal, running, doomed, returning>>

(* A row already under an advance here is left to that advance.            *)
dispatch(w) ==
    /\ pump[w].pc = "dispatch"
    /\ running' = [running EXCEPT ![w] = running[w] \cup pump[w].claimed]
    /\ pump' = [pump EXCEPT ![w] = [pump[w] EXCEPT !.pc = "idle", !.claimed = {}]]
    /\ UNCHANGED <<now, row, lastRenew, held, renewal, doomed, returning>>

-----------------------------------------------------------------------------
(* runAdvance: the marker goes, the write frees the row if the grant still *)
(* stands (or is not made: abandoned, failed), and on return the held      *)
(* entry goes.                                                             *)
runAdvance(w, r) ==
    /\ r \in running[w]
    /\ running' = [running EXCEPT ![w] = @ \ {r}]
    /\ doomed' = [doomed EXCEPT ![w] = @ \ {r}]
    /\ returning' = [returning EXCEPT ![w] = @ \cup {r}]
    /\ \/ /\ row[r].holder = w /\ r \notin doomed[w]
          /\ row' = [row EXCEPT ![r] = [holder |-> NoWorker, expires |-> 0]]
       \/ UNCHANGED row
    /\ UNCHANGED <<now, lastRenew, held, pump, renewal>>

dropLease(w, r) ==
    /\ r \in returning[w]
    /\ returning' = [returning EXCEPT ![w] = @ \ {r}]
    /\ held' = [held EXCEPT ![w] = @ \ {r}]
    /\ UNCHANGED <<now, row, lastRenew, pump, renewal, running, doomed>>

(* The clock, and with it every freeze.                                    *)
InTime(w) ==
    /\ pump[w].pc \in {"claiming", "claimed"} => now < pump[w].at + MaxGap
    /\ \A c \in Callers : renewal[w][c].pc = "read" => now < renewal[w][c].at + MaxGap

Tick ==
    /\ now < MaxTime
    /\ \A w \in Workers : InTime(w)
    /\ now' = now + 1
    /\ UNCHANGED <<row, lastRenew, held, pump, renewal, running, doomed, returning>>

Next ==
    \/ \E w \in Workers :
         \/ \E c \in Callers : \/ heldLeases(w, c) \/ renewedAt(w, c) \/ RenewChunk(w, c)
                               \/ StoreRenewal(w, c) \/ RenewalFails(w, c)
         \/ gateClock(w) \/ leaseGate(w)
         \/ claimClock(w) \/ ClaimInstances(w) \/ holdLease(w) \/ dispatch(w)
         \/ \E r \in Rows : runAdvance(w, r) \/ dropLease(w, r)
    \/ Tick

Spec == Init /\ [][Next]_vars

-----------------------------------------------------------------------------
(* What the gate rests on: a lease in a worker's held set ends no earlier  *)
(* than lastRenewMs + leaseDuration, but for the time a claim and the      *)
(* start of a renewal take (engine.go:69, renewLeases, and holdLease       *)
(* before dispatch in runPump).                                            *)
LeaseFloor ==
    \A w \in Workers : \A r \in held[w] :
      row[r].holder = w =>
        row[r].expires + 2 * MaxGap >= lastRenew[w] + LeaseDuration

(* However late it runs, a worker's claim never takes over from the worker *)
(* itself a row in its held set (leaseGate; Takeover: "re-reading the      *)
(* clock here would let a delayed claim take rows this worker is still     *)
(* advancing").                                                            *)
NeverOwn ==
    [][\A w \in Workers :
         pump[w].pc = "claiming" /\ pump'[w].pc = "claimed" =>
           \A r \in pump'[w].claimed : ~(row[r].holder = w /\ r \in held[w])]_vars
=============================================================================
