---------------------------- MODULE StoreProofs ----------------------------
(***************************************************************************)
(* Proofs about Store, for any contents, owners, grace window and number   *)
(* of failed sweeps, on both databases: its types, no row points at        *)
(* collected content, the grace window is kept on SQLite (both but for log *)
(* rows written after their instance moved on), and a revived instance is  *)
(* not pruned.                                                             *)
(***************************************************************************)
EXTENDS Store, TLAPS

Statements == {"clearing", "marking", "locking", "locked", "deleting"}

StoreType ==
    /\ dialect \in {"sqlite", "postgres"}
    /\ objects \in [Hashes -> [here: BOOLEAN, released: Ages \cup {Unmarked}]]
    /\ refs \subseteq Hashes \X Owners
    /\ row \in [Owners -> Row]
    /\ tx \in [Owners -> [open: BOOLEAN, val: SUBSET Hashes, put: SUBSET Hashes,
                          done: SUBSET Hashes, status: Present \cup {"none"}]]
    /\ copy \in [Logs -> [refs: SUBSET Hashes, late: BOOLEAN]]
    /\ sweep \in [pc: {"idle", "logs", "insts", "dropInsts", "clear", "mark",
                       "collect"} \cup Statements,
                  rows: SUBSET Hashes, locks: SUBSET Hashes,
                  orphans: SUBSET (Hashes \X Owners), failed: 0..MaxFailures]
    /\ candidates \subseteq Instances
    /\ unused \in [Hashes -> Ages]

(* An open write: of a row nothing else may conclude or prune, and what it *)
(* neither wrote nor will write it keeps from that row, or a log row from  *)
(* the instance its advance loaded.                                        *)
Loaded(o) == IF o \in Logs THEN copy[o].refs ELSE row[o].val

WriteInv ==
    \A o \in Owners :
      /\ ~tx[o].open => tx[o] = Idle
      /\ tx[o].open => /\ row[o].status \in {"none", "running"}
                       /\ o \in Logs => row[o].status = "none"
                       /\ tx[o].status \in Present
                       /\ tx[o].put \subseteq tx[o].val
                       /\ tx[o].done \subseteq tx[o].val
                       /\ tx[o].val \ (tx[o].put \cup tx[o].done) \subseteq Loaded(o)

(* What was loaded for a log row still to come is what the instance row    *)
(* refers to, or the copy is late.                                         *)
CopyInv ==
    \A l \in Logs : row[l].status = "none" /\ ~copy[l].late /\ copy[l].refs # {} =>
      row[Subject[l]].status = "running" /\ copy[l].refs \subseteq row[Subject[l]].val

(* Who holds what: a row claims what it points at, an owner that was never *)
(* stored or is gone points at nothing, and claimed content is there,      *)
(* unless the claim came late.                                             *)
ClaimInv ==
    /\ \A o \in Owners :
         /\ row[o].status \notin Present => row[o].val = {}
         /\ row[o].status = "none" => \A h \in Hashes : <<h, o>> \notin refs
         /\ \A h \in row[o].val : <<h, o>> \in refs
    /\ \A h \in Hashes, o \in Owners : <<h, o>> \in refs => objects[h].here \/ Passed(o, h)

(* What the sweep remembers stays true until it acts on it: an orphan's    *)
(* owner does not come back, and a row chosen for deletion was claimed     *)
(* again only by a write that took its mark off, or late.                  *)
SweepInv ==
    /\ sweep.orphans \subseteq refs
    /\ \A r \in sweep.orphans : row[r[2]].status = "gone"
    /\ sweep.pc = "deleting" =>
         \A h \in sweep.rows, o \in Owners :
           <<h, o>> \in refs => objects[h].released = Unmarked \/ Passed(o, h)

(* SQLite: no write runs inside a statement, so a row chosen for marking   *)
(* is still unclaimed; and a mark is at most as old as the disuse.         *)
GraceInv ==
    dialect = "sqlite" =>
      /\ sweep.pc \in Statements => \A o \in Owners : ~tx[o].open
      /\ sweep.pc = "marking" =>
           \A h \in sweep.rows, o \in Owners : <<h, o>> \notin refs
      /\ \A h \in Hashes : objects[h].released # Unmarked =>
           /\ ~Needed(h)
           /\ objects[h].released <= unused[h]

IInv == StoreType /\ WriteInv /\ CopyInv /\ ClaimInv /\ SweepInv /\ GraceInv

-----------------------------------------------------------------------------
LEMMA InitInv == Init => IInv
<1>. SUFFICES ASSUME Init PROVE IInv
  OBVIOUS
<1>. USE StoreAssumption
<1>1. StoreType
  BY DEF Init, StoreType, Row, Present, Concluded, Idle, Ages, Unmarked, Statements
<1>2. WriteInv /\ CopyInv
  BY DEF Init, WriteInv, CopyInv, Idle
<1>3. ClaimInv /\ SweepInv
  BY DEF Init, ClaimInv, SweepInv, Present, Concluded
<1>4. GraceInv
  BY DEF Init, GraceInv, Statements
<1>. QED BY <1>1, <1>2, <1>3, <1>4 DEF IInv

(* Opening a write changes nothing but the write.                          *)
LEMMA BeginStep ==
    ASSUME IInv, NEW o \in Owners,
           (o \in Instances /\ BeginWrite(o)) \/ (o \in Logs /\ BeginLog(o))
    PROVE  IInv'
<1>. USE DEF IInv
<1>0. o \in Instances => o \notin Logs
  BY StoreAssumption
<1>1. PICK val \in SUBSET Hashes, put \in SUBSET Hashes, status \in Present :
        /\ tx' = [tx EXCEPT ![o] = [open |-> TRUE, val |-> val, put |-> put,
                                    done |-> {}, status |-> status]]
        /\ put \subseteq val /\ val \ put \subseteq Loaded(o)
  <2>1. CASE o \in Instances /\ BeginWrite(o)
    BY <1>0, <2>1 DEF BeginWrite, Encodes, Present, Loaded
  <2>2. CASE o \in Logs /\ BeginLog(o)
    <3>1. PICK val \in (SUBSET Hashes) \ {{}}, put \in SUBSET Hashes :
            /\ put \subseteq val /\ val \ put \subseteq copy[o].refs
            /\ tx' = [tx EXCEPT ![o] = [open |-> TRUE, val |-> val, put |-> put,
                                        done |-> {}, status |-> "logged"]]
      BY <2>2 DEF BeginLog
    <3>2. val \ put \subseteq Loaded(o)
      BY <2>2, <3>1 DEF Loaded
    <3>3. "logged" \in Present
      BY DEF Present
    <3>. QED BY <3>1, <3>2, <3>3
  <2>. QED BY <2>1, <2>2
<1>2. /\ row[o].status \in {"none", "running"} /\ WriterFree /\ (o \in Logs => row[o].status = "none")
      /\ UNCHANGED <<dialect, objects, refs, row, copy, sweep, candidates, unused>>
  BY <1>0 DEF BeginWrite, BeginLog
<1>3. StoreType'
  BY <1>1, <1>2 DEF StoreType
<1>4. WriteInv' /\ CopyInv'
  BY <1>1, <1>2 DEF WriteInv, CopyInv, Loaded, StoreType
<1>5. ClaimInv' /\ SweepInv'
  BY <1>2 DEF ClaimInv, SweepInv, Passed
<1>6. GraceInv'
  BY <1>1, <1>2 DEF GraceInv, WriterFree, InStatement, Statements, StoreType, Needed, Passed
<1>. QED BY <1>3, <1>4, <1>5, <1>6

(* Loading a row for a log row that is still to come claims nothing.       *)
LEMMA LoadStep ==
    ASSUME IInv, NEW l \in Logs, LoadState(l)
    PROVE  IInv'
<1>. USE DEF IInv
<1>1. /\ copy' = [copy EXCEPT ![l] = [refs |-> row[Subject[l]].val, late |-> FALSE]]
      /\ ~tx[l].open /\ row[l].status = "none" /\ row[Subject[l]].status = "running"
      /\ UNCHANGED <<dialect, objects, refs, row, tx, sweep, candidates, unused>>
  BY DEF LoadState
<1>2. Subject[l] \in Owners /\ l \in Owners
  BY StoreAssumption DEF Owners
<1>3. StoreType'
  BY <1>1, <1>2 DEF StoreType, Row
<1>4. \A p \in Logs \ {l} : copy'[p] = copy[p]
  BY <1>1 DEF StoreType
<1>5. WriteInv'
  BY <1>1, <1>4 DEF WriteInv, Loaded
<1>6. CopyInv'
  BY <1>1, <1>4 DEF CopyInv, StoreType
<1>7. \A p \in Owners \ {l} : \A h : Passed(p, h)' <=> Passed(p, h)
  BY <1>4 DEF Passed
<1>8. row[l].val = {} /\ \A h \in Hashes : <<h, l>> \notin refs
  BY <1>1, <1>2 DEF ClaimInv, Present, Concluded
<1>9. ClaimInv' /\ SweepInv'
  BY <1>1, <1>7, <1>8 DEF ClaimInv, SweepInv, StoreType
<1>10. \A h \in Hashes : Needed(h)' => Needed(h)
  BY <1>1, <1>7, <1>8 DEF Needed
<1>11. GraceInv'
  BY <1>1, <1>10 DEF GraceInv
<1>. QED BY <1>3, <1>5, <1>6, <1>9, <1>11

LEMMA PutStep ==
    ASSUME IInv, NEW o \in Owners, NEW h \in Hashes, PutObject(o, h)
    PROVE  IInv'
<1>. USE DEF IInv, PutObject
<1>1. StoreType'
  <2>1. [tx[o] EXCEPT !.put = @ \ {h}, !.done = @ \cup {h}]
          \in [open: BOOLEAN, val: SUBSET Hashes, put: SUBSET Hashes,
               done: SUBSET Hashes, status: Present \cup {"none"}]
    <3>1. tx[o] \in [open: BOOLEAN, val: SUBSET Hashes, put: SUBSET Hashes,
                     done: SUBSET Hashes, status: Present \cup {"none"}]
      BY DEF StoreType
    <3>. QED BY <3>1
  <2>2. tx' \in [Owners -> [open: BOOLEAN, val: SUBSET Hashes, put: SUBSET Hashes,
                            done: SUBSET Hashes, status: Present \cup {"none"}]]
    BY <2>1 DEF StoreType
  <2>. QED BY <2>2 DEF StoreType
<1>2. WriteInv' /\ CopyInv'
  BY DEF WriteInv, CopyInv, Loaded, StoreType
<1>3. ClaimInv' /\ SweepInv'
  BY DEF ClaimInv, SweepInv, Passed
<1>4. GraceInv'
  BY DEF GraceInv, StoreType, Needed, Passed
<1>. QED BY <1>1, <1>2, <1>3, <1>4

LEMMA RollbackStep ==
    ASSUME IInv, NEW o \in Owners, Rollback(o)
    PROVE  IInv'
<1>. USE DEF IInv, Rollback, Idle
<1>1. StoreType'
  BY DEF StoreType
<1>2. WriteInv' /\ CopyInv'
  BY DEF WriteInv, CopyInv, Loaded, StoreType
<1>3. ClaimInv' /\ SweepInv'
  BY DEF ClaimInv, SweepInv, Passed
<1>4. GraceInv'
  BY DEF GraceInv, StoreType, Needed, Passed
<1>. QED BY <1>1, <1>2, <1>3, <1>4

(* Everything the committed row points at was written by this write, or    *)
(* was in the row it replaces, or for a log row in its instance's, and so  *)
(* is claimed and there; or it comes late.                                 *)
LEMMA CommitStep ==
    ASSUME IInv, NEW o \in Owners, Commit(o)
    PROVE  IInv'
<1>. USE DEF IInv
<1>1. /\ tx[o].open /\ tx[o].put = {} /\ tx[o].done \subseteq tx[o].val
      /\ tx[o].val \subseteq Hashes /\ row[o].val \subseteq Hashes
      /\ tx[o].val \ tx[o].done \subseteq Loaded(o)
      /\ row[o].status \in {"none", "running"} /\ tx[o].status \in Present
  BY DEF Commit, WriteInv, StoreType, Row
<1>2. /\ refs' = (refs \ (row[o].val \X {o})) \cup (tx[o].val \X {o})
      /\ objects' = [h \in Hashes |-> IF h \in tx[o].done
                                      THEN [here |-> TRUE, released |-> Unmarked]
                                      ELSE objects[h]]
      /\ row' = [row EXCEPT ![o] = [status |-> tx[o].status, val |-> tx[o].val, old |-> FALSE]]
      /\ tx' = [tx EXCEPT ![o] = Idle]
      /\ copy' = [l \in Logs |-> IF Subject[l] = o /\ row[l].status = "none" /\ copy[l].refs # {}
                                 THEN [copy[l] EXCEPT !.late = TRUE] ELSE copy[l]]
      /\ unused' = [h \in Hashes |-> IF h \in tx[o].val /\ ~Passed(o, h) THEN 0 ELSE unused[h]]
      /\ UNCHANGED <<dialect, sweep, candidates>>
  BY DEF Commit, Stored, ClaimObjects
<1>3. StoreType'
  <2>1. objects' \in [Hashes -> [here: BOOLEAN, released: Ages \cup {Unmarked}]]
    BY <1>2 DEF StoreType
  <2>2. refs' \subseteq Hashes \X Owners /\ row' \in [Owners -> Row]
    BY <1>1, <1>2 DEF StoreType, Row
  <2>3. unused' \in [Hashes -> Ages]
    BY <1>2, StoreAssumption DEF StoreType, Ages
  <2>4. copy' \in [Logs -> [refs: SUBSET Hashes, late: BOOLEAN]]
    <3>1. \A c \in [refs: SUBSET Hashes, late: BOOLEAN] :
            [c EXCEPT !.late = TRUE] \in [refs: SUBSET Hashes, late: BOOLEAN]
      OBVIOUS
    <3>2. \A l \in Logs : copy[l] \in [refs: SUBSET Hashes, late: BOOLEAN]
      BY DEF StoreType
    <3>. QED BY <1>2, <3>1, <3>2
  <2>. QED BY <1>2, <2>1, <2>2, <2>3, <2>4 DEF StoreType, Idle
<1>4. /\ \A p \in Owners \ {o} : row'[p] = row[p] /\ tx'[p] = tx[p]
      /\ tx'[o] = Idle /\ row'[o].status = tx[o].status /\ row'[o].val = tx[o].val
  BY <1>2 DEF StoreType
<1>5. \A l \in Logs : /\ copy'[l].refs = copy[l].refs
                      /\ copy'[l].late <=> copy[l].late \/ (/\ Subject[l] = o /\ row[l].status = "none"
                                                           /\ copy[l].refs # {})
  BY <1>2 DEF StoreType
<1>6. \A l \in Logs : Subject[l] # l /\ l \in Owners /\ Subject[l] \in Owners /\ Subject[l] \notin Logs
  BY StoreAssumption DEF Owners
<1>7. \A p \in Owners, h \in Hashes : Passed(p, h) => Passed(p, h)'
  BY <1>5 DEF Passed
<1>8. \A p \in Owners, h \in Hashes : row[p].status # "none" \/ p = o => (Passed(p, h)' <=> Passed(p, h))
  BY <1>5, <1>6 DEF Passed
<1>9. WriteInv' /\ CopyInv'
  <2>1. WriteInv'
    BY <1>4, <1>5 DEF WriteInv, Loaded, Idle
  <2>2. ASSUME NEW l \in Logs, row'[l].status = "none", ~copy'[l].late, copy'[l].refs # {}
        PROVE  row'[Subject[l]].status = "running" /\ copy'[l].refs \subseteq row'[Subject[l]].val
    <3>1. l # o
      BY <1>1, <1>4, <2>2 DEF Present, Concluded
    <3>2. row[l].status = "none" /\ ~copy[l].late /\ copy[l].refs = copy'[l].refs
      BY <1>4, <1>5, <1>6, <2>2, <3>1
    <3>3. Subject[l] # o
      BY <1>5, <2>2, <3>2
    <3>. QED BY <1>4, <1>6, <2>2, <3>2, <3>3 DEF CopyInv
  <2>. QED BY <2>1, <2>2 DEF CopyInv
<1>10. \A h \in Hashes : \A p \in Owners :
        <<h, p>> \in refs' <=> IF p = o THEN h \in tx[o].val \/ (<<h, o>> \in refs /\ h \notin row[o].val)
                               ELSE <<h, p>> \in refs
  BY <1>1, <1>2
<1>11. \A h \in tx[o].val \ tx[o].done : ~Passed(o, h) =>
         \E s \in Owners : h \in row[s].val /\ row[s].status \in Present /\ ~Passed(s, h)
  <2>. SUFFICES ASSUME NEW h \in tx[o].val \ tx[o].done, ~Passed(o, h)
                PROVE  \E s \in Owners : h \in row[s].val /\ row[s].status \in Present /\ ~Passed(s, h)
    OBVIOUS
  <2>1. h \in Loaded(o)
    BY <1>1
  <2>2. CASE o \in Logs
    <3>1. h \in copy[o].refs /\ ~copy[o].late
      BY <2>1, <2>2 DEF Loaded, Passed
    <3>2. row[o].status = "none"
      BY <1>1, <2>2 DEF WriteInv
    <3>3. row[Subject[o]].status = "running" /\ h \in row[Subject[o]].val
      BY <2>2, <3>1, <3>2 DEF CopyInv
    <3>4. ~Passed(Subject[o], h)
      BY <1>6, <2>2 DEF Passed
    <3>. QED BY <1>6, <2>2, <3>3, <3>4 DEF Present
  <2>3. CASE o \notin Logs
    <3>1. h \in row[o].val /\ row[o].status \in Present
      BY <2>1, <2>3 DEF Loaded, ClaimInv
    <3>. QED BY <3>1
  <2>. QED BY <2>2, <2>3
<1>12. \A h \in Hashes, p \in Owners : <<h, p>> \in refs' /\ h \notin tx[o].done /\ ~Passed(p, h)' =>
         \E s \in Owners : <<h, s>> \in refs /\ ~Passed(s, h)
  <2>. SUFFICES ASSUME NEW h \in Hashes, NEW p \in Owners, <<h, p>> \in refs', h \notin tx[o].done,
                       ~Passed(p, h)'
                PROVE  \E s \in Owners : <<h, s>> \in refs /\ ~Passed(s, h)
    OBVIOUS
  <2>1. ~Passed(p, h)
    BY <1>7
  <2>2. CASE <<h, p>> \in refs
    BY <2>1, <2>2
  <2>3. CASE <<h, p>> \notin refs
    <3>1. p = o /\ h \in tx[o].val
      BY <1>10, <2>3
    <3>2. PICK s \in Owners : h \in row[s].val /\ row[s].status \in Present /\ ~Passed(s, h)
      BY <1>11, <2>1, <3>1
    <3>. QED BY <3>2 DEF ClaimInv
  <2>. QED BY <2>2, <2>3
<1>13. ClaimInv'
  <2>1. \A h \in Hashes : objects'[h].here = (h \in tx[o].done \/ objects[h].here)
    BY <1>2 DEF StoreType
  <2>2. \A h \in Hashes, p \in Owners : <<h, p>> \in refs' => objects'[h].here \/ Passed(p, h)'
    BY <1>12, <2>1 DEF ClaimInv
  <2>3. ASSUME NEW p \in Owners
        PROVE  /\ row'[p].status \notin Present => row'[p].val = {}
               /\ row'[p].status = "none" => \A h \in Hashes : <<h, p>> \notin refs'
               /\ \A h \in row'[p].val : <<h, p>> \in refs'
    <3>1. CASE p = o
      BY <1>1, <1>4, <1>10, <3>1 DEF Present, Concluded
    <3>2. CASE p # o
      <4>1. row'[p] = row[p] /\ row[p].val \subseteq Hashes
        BY <1>4, <3>2 DEF StoreType, Row
      <4>. QED BY <1>10, <3>2, <4>1 DEF ClaimInv
    <3>. QED BY <3>1, <3>2
  <2>. QED BY <2>2, <2>3 DEF ClaimInv
<1>14. SweepInv'
  <2>1. \A r \in sweep.orphans : r \in refs' /\ row'[r[2]].status = "gone"
    <3>. SUFFICES ASSUME NEW r \in sweep.orphans PROVE r \in refs' /\ row'[r[2]].status = "gone"
      OBVIOUS
    <3>1. PICK h \in Hashes, p \in Owners : r = <<h, p>>
      BY DEF StoreType
    <3>2. r \in refs /\ row[p].status = "gone" /\ p # o
      BY <1>1, <3>1 DEF SweepInv
    <3>. QED BY <1>4, <1>10, <3>1, <3>2
  <2>2. sweep.pc = "deleting" => \A h \in sweep.rows, p \in Owners :
          <<h, p>> \in refs' => objects'[h].released = Unmarked \/ Passed(p, h)'
    BY <1>2, <1>12 DEF SweepInv, StoreType
  <2>. QED BY <1>2, <2>1, <2>2 DEF SweepInv
<1>15. GraceInv'
  <2>. SUFFICES ASSUME dialect = "sqlite" PROVE GraceInv'
    BY <1>2 DEF GraceInv
  <2>1. sweep.pc \notin Statements
    BY <1>1 DEF GraceInv
  <2>2. \A h \in Hashes : Needed(h)' => Needed(h) \/ (h \in tx[o].val /\ ~Passed(o, h))
    <3>. SUFFICES ASSUME NEW h \in Hashes, NEW p \in Owners,
                         row'[p].status \in Present, h \in row'[p].val, ~Passed(p, h)'
                  PROVE  Needed(h) \/ (h \in tx[o].val /\ ~Passed(o, h))
      BY DEF Needed
    <3>1. ~Passed(p, h)
      BY <1>7
    <3>. QED BY <1>4, <3>1 DEF Needed
  <2>3. \A h \in tx[o].val \ tx[o].done : ~Passed(o, h) => Needed(h)
    BY <1>11 DEF Needed
  <2>4. \A h \in Hashes : objects'[h].released # Unmarked =>
          ~Needed(h)' /\ objects'[h].released <= unused'[h]
    BY <1>1, <1>2, <2>2, <2>3 DEF GraceInv, StoreType
  <2>. QED BY <1>2, <2>1, <2>4 DEF GraceInv, Statements
<1>. QED BY <1>3, <1>9, <1>13, <1>14, <1>15

(* The two readings of orphans, and their removal: an orphan is a claim of *)
(* an owner that is gone, so no row loses a claim.                         *)
LEMMA OrphanStep ==
    ASSUME IInv, NEW S, NEW from, NEW to \in {"logs", "dropInsts"}, OrphanedRefs(S, from, to)
    PROVE  IInv'
<1>. USE DEF IInv, OrphanedRefs
<1>1. \A r \in Orphans(S) : r \in refs /\ row[r[2]].status = "gone"
  <2>. SUFFICES ASSUME NEW r \in Orphans(S) PROVE r \in refs /\ row[r[2]].status = "gone"
    OBVIOUS
  <2>1. PICK h \in Hashes, p \in Owners : r = <<h, p>>
    BY DEF Orphans, StoreType
  <2>. QED BY <2>1 DEF Orphans, ClaimInv, StoreType, Row
<1>2. StoreType'
  BY <1>1 DEF StoreType
<1>3. SweepInv'
  BY <1>1 DEF SweepInv, StoreType, Passed
<1>4. WriteInv' /\ CopyInv' /\ ClaimInv'
  BY DEF WriteInv, CopyInv, Loaded, ClaimInv, Passed
<1>5. GraceInv'
  BY DEF GraceInv, Statements, Needed, Passed, StoreType
<1>. QED BY <1>2, <1>3, <1>4, <1>5

LEMMA RetireStep ==
    ASSUME IInv, NEW from, NEW to \in {"insts", "clear"}, RetireOrphans(from, to)
    PROVE  IInv'
<1>. USE DEF IInv, RetireOrphans
<1>1. StoreType'
  BY DEF StoreType
<1>2. ClaimInv'
  <2>1. \A o \in Owners : \A h \in row[o].val : <<h, o>> \notin sweep.orphans
    BY DEF SweepInv, ClaimInv, Present, Concluded
  <2>. QED BY <2>1 DEF ClaimInv, Passed
<1>3. WriteInv' /\ CopyInv' /\ SweepInv'
  BY DEF WriteInv, CopyInv, Loaded, SweepInv, StoreType, Passed
<1>4. GraceInv'
  BY DEF GraceInv, Statements, Needed, Passed, StoreType
<1>. QED BY <1>1, <1>2, <1>3, <1>4

(* The snapshot of a statement only remembers the rows it selected.        *)
LEMMA SnapshotStep ==
    ASSUME IInv, NEW from, NEW to \in Statements \ {"locked"}, NEW S \in SUBSET Hashes,
           Snapshot(from, to, S),
           to \in {"marking", "deleting"} => \A h \in S : ~Claimed(h)
    PROVE  IInv'
<1>. USE DEF IInv, Snapshot
<1>1. StoreType'
  BY DEF StoreType, Statements
<1>2. WriteInv' /\ CopyInv' /\ ClaimInv'
  BY DEF WriteInv, CopyInv, Loaded, ClaimInv, Passed
<1>3. SweepInv'
  BY DEF SweepInv, StoreType, Claimed
<1>4. GraceInv'
  BY DEF GraceInv, Statements, Needed, Passed, StoreType, Claimed, WriterFree
<1>. QED BY <1>1, <1>2, <1>3, <1>4

(* The effect of a statement, where the content it keeps stays there and   *)
(* the marks it sets are on unclaimed content.                             *)
LEMMA EffectStep ==
    ASSUME IInv, NEW from, NEW to \in {"mark", "collect", "idle"}, NEW change,
           Effect(from, to, change),
           change \in [Hashes -> [here: BOOLEAN, released: Ages \cup {Unmarked}]],
           \A h \in Hashes, o \in Owners : <<h, o>> \in refs => change[h].here \/ Passed(o, h),
           dialect = "sqlite" => \A h \in Hashes : change[h].released # Unmarked =>
                                   ~Needed(h) /\ change[h].released <= unused[h]
    PROVE  IInv'
<1>. USE DEF IInv, Effect
<1>1. StoreType'
  BY DEF StoreType
<1>2. WriteInv' /\ CopyInv' /\ ClaimInv'
  BY DEF WriteInv, CopyInv, Loaded, ClaimInv, Passed
<1>3. SweepInv'
  BY DEF SweepInv, StoreType, Passed
<1>4. GraceInv'
  BY DEF GraceInv, Statements, Needed, Passed, StoreType
<1>. QED BY <1>1, <1>2, <1>3, <1>4

(* A row points only at what it claims.                                    *)
LEMMA NeededIsClaimed ==
    ASSUME IInv, NEW h, Needed(h)
    PROVE  Claimed(h)
BY DEF IInv, ClaimInv, Needed, Passed, Claimed

LEMMA ClearStep ==
    ASSUME IInv, ClearSnapshot \/ ClearObjectRelease
    PROVE  IInv'
<1>. DEFINE change == [h \in Hashes |-> IF h \in sweep.rows
                                        THEN [objects[h] EXCEPT !.released = Unmarked]
                                        ELSE objects[h]]
<1>1. CASE ClearSnapshot
  BY <1>1, SnapshotStep DEF ClearSnapshot, Statements
<1>2. CASE ClearObjectRelease
  <2>1. change \in [Hashes -> [here: BOOLEAN, released: Ages \cup {Unmarked}]]
    BY DEF IInv, StoreType
  <2>2. \A h \in Hashes : /\ change[h].here = objects[h].here
                          /\ change[h].released \in {Unmarked, objects[h].released}
    BY DEF IInv, StoreType
  <2>3. \A h \in Hashes, o \in Owners : <<h, o>> \in refs => change[h].here \/ Passed(o, h)
    BY <2>2 DEF IInv, ClaimInv
  <2>4. dialect = "sqlite" => \A h \in Hashes : change[h].released # Unmarked =>
                                ~Needed(h) /\ change[h].released <= unused[h]
    BY <2>2 DEF IInv, GraceInv
  <2>5. Effect("clearing", "mark", change)
    BY <1>2 DEF ClearObjectRelease
  <2>. HIDE DEF change
  <2>. QED BY <2>1, <2>3, <2>4, <2>5, EffectStep
<1>. QED BY <1>1, <1>2

(* On SQLite nothing claimed the content between the snapshot and the      *)
(* mark, so a fresh mark is on unreferenced content.                       *)
LEMMA MarkStep ==
    ASSUME IInv, MarkSnapshot \/ MarkObjectReleased
    PROVE  IInv'
<1>. DEFINE change == [h \in Hashes |->
                        IF h \in sweep.rows /\ objects[h].released = Unmarked
                        THEN [objects[h] EXCEPT !.released = 0] ELSE objects[h]]
<1>1. CASE MarkSnapshot
  BY <1>1, SnapshotStep DEF MarkSnapshot, Statements
<1>2. CASE MarkObjectReleased
  <2>1. change \in [Hashes -> [here: BOOLEAN, released: Ages \cup {Unmarked}]]
    BY StoreAssumption DEF IInv, StoreType, Ages, Unmarked
  <2>2. \A h \in Hashes : change[h].here = objects[h].here
    BY DEF IInv, StoreType
  <2>3. \A h \in Hashes, o \in Owners : <<h, o>> \in refs => change[h].here \/ Passed(o, h)
    BY <2>2 DEF IInv, ClaimInv
  <2>4. Effect("marking", "collect", change)
    BY <1>2 DEF MarkObjectReleased
  <2>5. ASSUME dialect = "sqlite", NEW h \in Hashes, change[h].released # Unmarked
        PROVE  ~Needed(h) /\ change[h].released <= unused[h]
    <3>1. CASE h \in sweep.rows /\ objects[h].released = Unmarked
      <4>1. ~Claimed(h)
        BY <2>4, <2>5, <3>1 DEF IInv, GraceInv, Effect, Claimed
      <4>2. change[h].released = 0 /\ unused[h] \in Nat
        BY <3>1, StoreAssumption DEF IInv, StoreType, Ages
      <4>. QED BY <4>1, <4>2, NeededIsClaimed
    <3>2. CASE ~(h \in sweep.rows /\ objects[h].released = Unmarked)
      BY <2>5, <3>2 DEF IInv, GraceInv
    <3>. QED BY <3>1, <3>2
  <2>. HIDE DEF change
  <2>. QED BY <2>1, <2>3, <2>4, <2>5, EffectStep
<1>. QED BY <1>1, <1>2

(* Content a row holds is not deleted: what was claimed since the snapshot *)
(* has lost its mark, and the delete looks at the mark again.              *)
LEMMA CollectStep ==
    ASSUME IInv, CollectSnapshot \/ CollectUnreferencedObjects
    PROVE  IInv'
<1>. DEFINE change == [h \in Hashes |-> IF h \in sweep.rows /\ Overdue(h)
                                        THEN [here |-> FALSE, released |-> Unmarked]
                                        ELSE objects[h]]
<1>1. CASE CollectSnapshot
  BY <1>1, SnapshotStep DEF CollectSnapshot, Statements
<1>2. CASE CollectUnreferencedObjects
  <2>1. change \in [Hashes -> [here: BOOLEAN, released: Ages \cup {Unmarked}]]
    BY DEF IInv, StoreType
  <2>2. Effect("deleting", "idle", change)
    BY <1>2 DEF CollectUnreferencedObjects
  <2>3. ASSUME NEW h \in Hashes, NEW o \in Owners, <<h, o>> \in refs
        PROVE  change[h].here \/ Passed(o, h)
    BY <2>2, <2>3 DEF IInv, SweepInv, ClaimInv, Effect, Overdue
  <2>4. dialect = "sqlite" => \A h \in Hashes : change[h].released # Unmarked =>
                                ~Needed(h) /\ change[h].released <= unused[h]
    BY DEF IInv, GraceInv
  <2>. HIDE DEF change
  <2>. QED BY <2>1, <2>2, <2>3, <2>4, EffectStep
<1>. QED BY <1>1, <1>2

LEMMA LockStep ==
    ASSUME IInv, LockSnapshot \/ LockUnclaimed \/ SweepFails
    PROVE  IInv'
<1>1. CASE LockSnapshot
  BY <1>1, SnapshotStep DEF LockSnapshot, Statements
<1>2. CASE LockUnclaimed
  <2>. USE <1>2 DEF IInv, LockUnclaimed
  <2>1. StoreType' /\ WriteInv' /\ CopyInv' /\ ClaimInv'
    BY DEF StoreType, WriteInv, CopyInv, Loaded, ClaimInv, Passed, Statements
  <2>2. SweepInv' /\ GraceInv'
    BY DEF SweepInv, GraceInv, Statements, StoreType, Needed, Passed
  <2>. QED BY <2>1, <2>2
<1>3. CASE SweepFails
  <2>. USE <1>3 DEF IInv, SweepFails
  <2>1. StoreType' /\ WriteInv' /\ CopyInv' /\ ClaimInv'
    BY StoreAssumption DEF StoreType, WriteInv, CopyInv, Loaded, ClaimInv, Passed
  <2>2. SweepInv' /\ GraceInv'
    BY DEF SweepInv, GraceInv, Statements, Needed, Passed
  <2>. QED BY <2>1, <2>2
<1>. QED BY <1>1, <1>2, <1>3

LEMMA SweepStep ==
    ASSUME IInv, CollectObjects \/ SweepFails
    PROVE  IInv'
BY OrphanStep, RetireStep, ClearStep, MarkStep, CollectStep, LockStep DEF CollectObjects

LEMMA RetryStep ==
    ASSUME IInv, NEW o \in Instances, RetryProcess(o)
    PROVE  IInv'
<1>. USE DEF IInv
<1>1. /\ o \in Owners /\ o \notin Logs /\ row[o].status = "failed"
      /\ row' = [row EXCEPT ![o] = [row[o] EXCEPT !.status = "running", !.old = FALSE]]
      /\ [row[o] EXCEPT !.status = "running", !.old = FALSE] \in Row
      /\ UNCHANGED <<dialect, objects, refs, tx, copy, sweep, candidates, unused>>
  <2>1. o \in Owners /\ row[o] \in Row /\ o \notin Logs
    BY StoreAssumption DEF Owners, StoreType
  <2>2. [row[o] EXCEPT !.status = "running", !.old = FALSE] \in Row
    BY <2>1 DEF Row, Present
  <2>. QED BY <2>1, <2>2 DEF RetryProcess
<1>2. \A p \in Owners : row'[p].val = row[p].val
  BY <1>1 DEF StoreType, Row
<1>3. \A p \in Owners : row'[p].status = IF p = o THEN "running" ELSE row[p].status
  BY <1>1 DEF StoreType, Row
<1>4. StoreType'
  BY <1>1 DEF StoreType
<1>5. WriteInv' /\ CopyInv'
  <2>1. \A l \in Logs : l \in Owners /\ Subject[l] \in Owners
    BY StoreAssumption DEF Owners
  <2>2. WriteInv'
    BY <1>1, <1>2, <1>3 DEF WriteInv, Loaded
  <2>. QED BY <1>1, <1>2, <1>3, <2>1, <2>2 DEF CopyInv
<1>6. ClaimInv'
  BY <1>1, <1>2, <1>3 DEF ClaimInv, Present, Concluded, Passed
<1>7. SweepInv'
  <2>1. \A r \in sweep.orphans : r[2] \in Owners
    BY DEF StoreType
  <2>. QED BY <1>1, <1>3, <2>1 DEF SweepInv, Passed
<1>8. GraceInv'
  <2>1. \A h \in Hashes : Needed(h)' => Needed(h)
    BY <1>1, <1>2, <1>3 DEF Needed, Passed, Present, Concluded
  <2>. QED BY <1>1, <2>1 DEF GraceInv
<1>. QED BY <1>4, <1>5, <1>6, <1>7, <1>8

(* Deleting rows: a deleted row was stored and has no open write.          *)
LEMMA DeleteStep ==
    ASSUME IInv, NEW S \in SUBSET Owners, row' = Deleted(S),
           \A o \in S : row[o].status \in Concluded \cup {"logged"},
           UNCHANGED <<dialect, objects, refs, tx, copy, sweep, unused>>,
           candidates' \in SUBSET Instances
    PROVE  IInv'
<1>. USE DEF IInv
<1>1. \A p \in Owners : row'[p] = IF p \in S THEN [status |-> "gone", val |-> {}, old |-> FALSE]
                                  ELSE row[p]
  BY DEF Deleted
<1>2. StoreType'
  <2>1. row' \in [Owners -> Row]
    BY DEF StoreType, Row, Deleted
  <2>. QED BY <2>1 DEF StoreType
<1>3. WriteInv' /\ CopyInv'
  <2>1. \A l \in Logs : l \in Owners /\ Subject[l] \in Owners
    BY StoreAssumption DEF Owners
  <2>2. WriteInv'
    BY <1>1 DEF WriteInv, Loaded, Concluded
  <2>. QED BY <1>1, <2>1, <2>2 DEF CopyInv, Concluded
<1>4. ClaimInv'
  BY <1>1 DEF ClaimInv, Present, Concluded, Passed
<1>5. SweepInv'
  <2>1. \A r \in sweep.orphans : r[2] \in Owners
    BY DEF StoreType
  <2>. QED BY <1>1, <2>1 DEF SweepInv, Passed
<1>6. GraceInv'
  <2>1. \A h \in Hashes : Needed(h)' => Needed(h)
    BY <1>1 DEF Needed, Passed, Present, Concluded
  <2>. QED BY <2>1 DEF GraceInv
<1>. QED BY <1>2, <1>3, <1>4, <1>5, <1>6

LEMMA PruneStep ==
    ASSUME IInv, ConcludedRootsBefore \/ PruneTrees \/ \E l \in Logs : PruneLog(l)
    PROVE  IInv'
<1>1. CASE ConcludedRootsBefore
  <2>. USE <1>1 DEF IInv, ConcludedRootsBefore
  <2>1. StoreType' /\ WriteInv' /\ CopyInv' /\ ClaimInv'
    BY DEF StoreType, WriteInv, CopyInv, Loaded, ClaimInv, Passed
  <2>2. SweepInv' /\ GraceInv'
    BY DEF SweepInv, GraceInv, Needed, Passed
  <2>. QED BY <2>1, <2>2
<1>2. CASE PruneTrees
  <2>. DEFINE S == LockConcludedTrees \cup
                     {l \in Logs : row[l].status = "logged" /\ Subject[l] \in LockConcludedTrees}
  <2>1. S \in SUBSET Owners /\ \A o \in S : row[o].status \in Concluded \cup {"logged"}
    BY DEF LockConcludedTrees, Prunable, Owners, IInv, StoreType
  <2>2. /\ row' = Deleted(S) /\ candidates' = {}
        /\ UNCHANGED <<dialect, objects, refs, tx, copy, sweep, unused>>
    BY <1>2 DEF PruneTrees
  <2>. HIDE DEF S
  <2>. QED BY <2>1, <2>2, DeleteStep
<1>3. ASSUME NEW l \in Logs, PruneLog(l) PROVE IInv'
  <2>1. {l} \in SUBSET Owners /\ \A o \in {l} : row[o].status \in Concluded \cup {"logged"}
    BY <1>3 DEF PruneLog, Owners
  <2>2. /\ row' = Deleted({l}) /\ candidates' \in SUBSET Instances
        /\ UNCHANGED <<dialect, objects, refs, tx, copy, sweep, unused>>
    BY <1>3 DEF PruneLog, IInv, StoreType
  <2>. QED BY <2>1, <2>2, DeleteStep
<1>. QED BY <1>1, <1>2, <1>3

(* Time passes outside a sweep: disuse grows at least as fast as marks.    *)
LEMMA TickStep ==
    ASSUME IInv, Tick
    PROVE  IInv'
<1>. USE DEF IInv
<1>1. /\ sweep.pc = "idle"
      /\ UNCHANGED <<dialect, refs, tx, copy, sweep, candidates>>
      /\ row' = [o \in Owners |-> [row[o] EXCEPT !.old = row[o].status \in Concluded]]
      /\ objects' = [h \in Hashes |-> IF objects[h].released = Unmarked THEN objects[h]
                                      ELSE [objects[h] EXCEPT !.released = Older(@)]]
      /\ unused' = [h \in Hashes |-> IF Needed(h) THEN 0 ELSE Older(unused[h])]
  BY DEF Tick
<1>2. \A age \in Ages : Older(age) \in Ages
  BY StoreAssumption DEF Older, Ages
<1>3. \A o \in Owners : row'[o].status = row[o].status /\ row'[o].val = row[o].val
  BY <1>1 DEF StoreType, Row
<1>4. \A h \in Hashes : /\ objects'[h].here = objects[h].here
                        /\ objects'[h].released = IF objects[h].released = Unmarked THEN Unmarked
                                                  ELSE Older(objects[h].released)
  BY <1>1 DEF StoreType
<1>5. StoreType'
  <2>1. row' \in [Owners -> Row]
    <3>1. \A r \in Row : \A b \in BOOLEAN : [r EXCEPT !.old = b] \in Row
      BY DEF Row
    <3>2. \A o \in Owners : row[o] \in Row /\ (row[o].status \in Concluded) \in BOOLEAN
      BY DEF StoreType
    <3>3. \A o \in Owners : [row[o] EXCEPT !.old = row[o].status \in Concluded] \in Row
      BY <3>1, <3>2, Zenon
    <3>. QED BY <1>1, <3>3
  <2>2. objects' \in [Hashes -> [here: BOOLEAN, released: Ages \cup {Unmarked}]]
    BY <1>1, <1>2 DEF StoreType
  <2>3. unused' \in [Hashes -> Ages]
    BY <1>1, <1>2, StoreAssumption DEF StoreType, Ages
  <2>. QED BY <1>1, <2>1, <2>2, <2>3 DEF StoreType
<1>6. WriteInv' /\ CopyInv' /\ ClaimInv'
  <2>1. \A l \in Logs : l \in Owners /\ Subject[l] \in Owners
    BY StoreAssumption DEF Owners
  <2>2. WriteInv' /\ ClaimInv'
    BY <1>1, <1>3, <1>4 DEF WriteInv, Loaded, ClaimInv, Passed
  <2>. QED BY <1>1, <1>3, <2>1, <2>2 DEF CopyInv
<1>7. SweepInv'
  <2>1. \A r \in sweep.orphans : r[2] \in Owners
    BY DEF StoreType
  <2>. QED BY <1>1, <1>3, <2>1 DEF SweepInv, Passed
<1>8. GraceInv'
  <2>. SUFFICES ASSUME dialect = "sqlite", NEW h \in Hashes, objects'[h].released # Unmarked
                PROVE  ~Needed(h)' /\ objects'[h].released <= unused'[h]
    BY <1>1 DEF GraceInv, Statements
  <2>1. objects[h].released # Unmarked /\ ~Needed(h) /\ objects[h].released <= unused[h]
    BY <1>4 DEF GraceInv
  <2>2. ~Needed(h)'
    BY <1>1, <1>3, <2>1 DEF Needed, Passed
  <2>3. objects[h].released \in Ages /\ unused[h] \in Ages
    BY <2>1 DEF StoreType
  <2>4. Older(objects[h].released) <= Older(unused[h])
    BY <2>1, <2>3, StoreAssumption DEF Older, Ages
  <2>. QED BY <1>1, <1>4, <2>1, <2>2, <2>4
<1>. QED BY <1>5, <1>6, <1>7, <1>8

LEMMA NextInv == IInv /\ [Next]_vars => IInv'
<1>. SUFFICES ASSUME IInv, [Next]_vars PROVE IInv'
  OBVIOUS
<1>1. ASSUME NEW o \in Instances, BeginWrite(o) \/ RetryProcess(o) PROVE IInv'
  BY <1>1, BeginStep, RetryStep DEF Owners
<1>2. ASSUME NEW l \in Logs, LoadState(l) \/ BeginLog(l) \/ PruneLog(l) PROVE IInv'
  BY <1>2, LoadStep, BeginStep, PruneStep DEF Owners
<1>3. ASSUME NEW o \in Owners, (\E h \in Hashes : PutObject(o, h)) \/ Commit(o) \/ Rollback(o)
      PROVE  IInv'
  BY <1>3, PutStep, CommitStep, RollbackStep
<1>4. CASE CollectObjects \/ SweepFails
  BY <1>4, SweepStep
<1>5. CASE ConcludedRootsBefore \/ PruneTrees
  BY <1>5, PruneStep
<1>6. CASE Tick
  BY <1>6, TickStep
<1>7. CASE UNCHANGED vars
  <2>. USE <1>7 DEF IInv, vars
  <2>1. StoreType' /\ WriteInv' /\ CopyInv' /\ ClaimInv'
    BY DEF StoreType, WriteInv, CopyInv, Loaded, ClaimInv, Passed
  <2>2. SweepInv' /\ GraceInv'
    BY DEF SweepInv, GraceInv, Needed, Passed
  <2>. QED BY <2>1, <2>2
<1>. QED BY <1>1, <1>2, <1>3, <1>4, <1>5, <1>6, <1>7 DEF Next

LEMMA Invariance == Spec => []IInv
BY InitInv, NextInv, PTL DEF Spec

-----------------------------------------------------------------------------
(* Every variable keeps its type: the sweep's memory of orphans stays      *)
(* within the claims, and a closed write leaves nothing behind.            *)
THEOREM TypeCorrect == Spec => []TypeOK
<1>1. IInv => TypeOK
  <2>. SUFFICES ASSUME IInv PROVE TypeOK
    OBVIOUS
  <2>1. \A o \in Owners : /\ tx[o].put \subseteq tx[o].val
                          /\ tx[o].done \subseteq tx[o].val
                          /\ ~tx[o].open => tx[o] = Idle
    BY DEF IInv, StoreType, WriteInv, Idle
  <2>2. /\ sweep.pc \in {"idle", "logs", "insts", "dropInsts", "clear", "clearing", "mark",
                         "marking", "collect", "locking", "locked", "deleting"}
        /\ sweep.rows \subseteq Hashes /\ sweep.locks \subseteq Hashes
        /\ sweep.orphans \subseteq refs /\ sweep.failed \in 0..MaxFailures
    BY DEF IInv, StoreType, SweepInv, Statements
  <2>. QED BY <2>1, <2>2 DEF IInv, StoreType, TypeOK
<1>. QED BY <1>1, Invariance, PTL

(* No stored row points at content that was collected, whatever writes,    *)
(* releases, prunes and sweeps interleave, on SQLite and on Postgres, but  *)
(* for what a log row took over from an instance row that had been saved   *)
(* since.                                                                  *)
THEOREM NothingDangles == Spec => []NoDangling
<1>1. IInv => NoDangling
  BY DEF IInv, ClaimInv, NoDangling, StoreType, Row
<1>. QED BY <1>1, Invariance, PTL

(* On SQLite content is deleted only after no row has pointed at it for    *)
(* longer than --object-grace, whatever that window is, such log rows      *)
(* apart.                                                                  *)
THEOREM GraceIsKept == Spec => GraceKept
<1>. DEFINE Kept == \A h \in Hashes :
              dialect = "sqlite" /\ objects[h].here /\ ~objects'[h].here => unused[h] > Grace
<1>1. IInv /\ [Next]_vars => [Kept]_vars
  <2>. SUFFICES ASSUME IInv, [Next]_vars PROVE [Kept]_vars
    OBVIOUS
  <2>1. ASSUME UNCHANGED objects PROVE Kept
    BY <2>1
  <2>2. ASSUME NEW o \in Owners, Commit(o) PROVE Kept
    BY <2>2 DEF Commit, Stored, IInv, StoreType
  <2>3. CASE Tick
    BY <2>3 DEF Tick, IInv, StoreType
  <2>4. CASE ClearObjectRelease \/ MarkObjectReleased
    BY <2>4 DEF ClearObjectRelease, MarkObjectReleased, Effect, IInv, StoreType
  <2>5. CASE CollectUnreferencedObjects
    <3>. SUFFICES ASSUME NEW h \in Hashes, dialect = "sqlite", objects[h].here, ~objects'[h].here
                  PROVE  unused[h] > Grace
      OBVIOUS
    <3>1. Overdue(h)
      BY <2>5 DEF CollectUnreferencedObjects, Effect
    <3>. QED BY <3>1, StoreAssumption DEF Overdue, IInv, GraceInv, StoreType, Ages, Unmarked
  <2>. QED BY <2>1, <2>2, <2>3, <2>4, <2>5
         DEF Next, vars, BeginWrite, LoadState, BeginLog, PutObject, Rollback, CollectObjects, OrphanedRefs,
             RetireOrphans, ClearSnapshot, MarkSnapshot, LockSnapshot, LockUnclaimed,
             CollectSnapshot, Snapshot, SweepFails, RetryProcess, ConcludedRootsBefore,
             PruneTrees, PruneLog
<1>. QED BY <1>1, Invariance, PTL DEF Spec, GraceKept

(* Pruning looks again under its lock: an instance that a retry set        *)
(* running after the candidates were read is not deleted.                  *)
THEOREM RevivedAreKept == Spec => RevivedIsKept
<1>. DEFINE Kept == \A o \in Instances : row[o].status = "running" => row'[o].status # "gone"
<1>1. IInv /\ [Next]_vars => [Kept]_vars
  <2>. SUFFICES ASSUME IInv, [Next]_vars PROVE [Kept]_vars
    OBVIOUS
  <2>0. Instances \subseteq Owners
    BY DEF Owners
  <2>1. ASSUME UNCHANGED row PROVE Kept
    BY <2>1
  <2>2. ASSUME NEW o \in Owners, Commit(o) PROVE Kept
    BY <2>0, <2>2 DEF Commit, IInv, StoreType, WriteInv, Present, Concluded
  <2>3. CASE Tick
    BY <2>0, <2>3 DEF Tick, IInv, StoreType, Row
  <2>4. ASSUME NEW o \in Instances, RetryProcess(o) PROVE Kept
    BY <2>0, <2>4 DEF RetryProcess, IInv, StoreType, Row
  <2>5. CASE PruneTrees
    BY <2>0, <2>5 DEF PruneTrees, LockConcludedTrees, Prunable, Deleted, Concluded
  <2>6. ASSUME NEW l \in Logs, PruneLog(l) PROVE Kept
    BY <2>0, <2>6 DEF PruneLog, Deleted
  <2>. QED BY <2>1, <2>2, <2>3, <2>4, <2>5, <2>6
         DEF Next, vars, BeginWrite, LoadState, BeginLog, PutObject, Rollback, CollectObjects, OrphanedRefs,
             RetireOrphans, ClearSnapshot, MarkSnapshot, LockSnapshot, LockUnclaimed,
             CollectSnapshot, ClearObjectRelease, MarkObjectReleased, CollectUnreferencedObjects,
             Snapshot, Effect, SweepFails, ConcludedRootsBefore
<1>. QED BY <1>1, Invariance, PTL DEF Spec, RevivedIsKept
=============================================================================
