------------------------------ MODULE Store ------------------------------
(* The object store and retention: large values are stored once by content *)
(* and held through claims, a sweep collects what nobody claims, and       *)
(* concluded instances and old log rows are pruned                         *)
(* (internal/db/db_objects.go, db_retention.go, db_logs.go and             *)
(* queries.sql).                                                           *)
(*                                                                         *)
(* A write is the transaction of persistState or AppendLogValue: Begin,    *)
(* PutObject for each piece of content, then Commit with the claims and    *)
(* the owner's row, or Rollback (a refused fence, an error, a crash).  An  *)
(* object row written by an open transaction is locked by it.  A statement *)
(* of the sweep is two steps, its snapshot and its effect: on Postgres     *)
(* writes run in between, and a statement that waited for a row re-checks  *)
(* that row and keeps its snapshot of the claims; on SQLite the single     *)
(* writer lets nothing run in between.  A tree is one row here.  A tick is *)
(* long beside a sweep, so a sweep sees one instant.                       *)
(*                                                                         *)
(* A log row may carry references of the instance row its advance loaded,  *)
(* which it claims and does not write again; nothing fences it, so the row *)
(* may have moved on since.                                                *)
EXTENDS Naturals, FiniteSets

CONSTANTS Hashes, Instances, Logs,
          Subject,      \* the instance a log row is about
          Grace,        \* --object-grace in ticks
          MaxFailures   \* bound: sweeps that fail

ASSUME StoreAssumption ==
    /\ Grace \in Nat /\ MaxFailures \in Nat
    /\ Instances \cap Logs = {} /\ Subject \in [Logs -> Instances]

VARIABLES dialect,      \* db.dialect
          objects,      \* objects: present, and the age of released_at
          refs,         \* object_refs: <<hash, owner>>
          row,          \* process_instances and process_logs
          tx,           \* the open write of each owner
          copy,         \* what the advance that will write a log row loaded; late: the row changed since
          sweep,        \* CollectObjects
          candidates,   \* PruneConcludedTrees: the roots read unlocked
          unused        \* ticks since a row last needed the hash

vars == <<dialect, objects, refs, row, tx, copy, sweep, candidates, unused>>

Owners == Instances \cup Logs

(* Ages stop counting once they exceed the grace window.                   *)
Unmarked == Grace + 2
Ages == 0..(Grace + 1)
Older(age) == IF age > Grace THEN age ELSE age + 1

Concluded == {"completed", "failed"}

Present == {"running", "logged"} \cup Concluded

Row == [status: Present \cup {"none", "gone"}, val: SUBSET Hashes,
        old: BOOLEAN]

Idle == [open |-> FALSE, val |-> {}, put |-> {}, done |-> {},
         status |-> "none"]

TypeOK ==
    /\ dialect \in {"sqlite", "postgres"}
    /\ objects \in [Hashes -> [here: BOOLEAN, released: Ages \cup {Unmarked}]]
    /\ refs \subseteq Hashes \X Owners
    /\ row \in [Owners -> Row]
    /\ \A o \in Owners :
         /\ tx[o].put \subseteq tx[o].val
         /\ tx[o].done \subseteq tx[o].val
         /\ ~tx[o].open => tx[o] = Idle
    /\ copy \in [Logs -> [refs: SUBSET Hashes, late: BOOLEAN]]
    /\ sweep.pc \in {"idle", "logs", "insts", "dropInsts", "clear",
                     "clearing", "mark", "marking", "collect", "locking",
                     "locked", "deleting"}
    /\ sweep.rows \subseteq Hashes /\ sweep.locks \subseteq Hashes
    /\ sweep.orphans \subseteq refs /\ sweep.failed \in 0..MaxFailures
    /\ candidates \subseteq Instances
    /\ unused \in [Hashes -> Ages]

Init ==
    /\ dialect \in {"sqlite", "postgres"}
    /\ objects = [h \in Hashes |-> [here |-> FALSE, released |-> Unmarked]]
    /\ refs = {}
    /\ row = [o \in Owners |-> [status |-> "none", val |-> {}, old |-> FALSE]]
    /\ tx = [o \in Owners |-> Idle]
    /\ copy = [l \in Logs |-> [refs |-> {}, late |-> FALSE]]
    /\ sweep = [pc |-> "idle", rows |-> {}, locks |-> {}, orphans |-> {},
                failed |-> 0]
    /\ candidates = {}
    /\ unused = [h \in Hashes |-> 0]

-----------------------------------------------------------------------------
Claimed(h) == \E o \in Owners : <<h, o>> \in refs

Referenced(h) == \E o \in Owners : row[o].status \in Present /\ h \in row[o].val

(* A reference a log row took over from an instance row that had changed.  *)
Passed(o, h) == o \in Logs /\ copy[o].late /\ h \in copy[o].refs

Needed(h) == \E o \in Owners : row[o].status \in Present /\ h \in row[o].val /\ ~Passed(o, h)

(* The row locks open writes hold on objects.                              *)
Written == UNION {tx[o].done : o \in Owners}

InStatement == sweep.pc \in {"clearing", "marking", "locking", "locked", "deleting"}

(* SQLite: one writer at a time, from its first write to its commit.       *)
WriterFree ==
    dialect = "sqlite" => /\ \A o \in Owners : ~tx[o].open
                          /\ ~InStatement

-----------------------------------------------------------------------------
(* encodeState: the value an advance leaves is any set of pieces; a piece  *)
(* the row already referenced may stay a reference or be cut again, a new  *)
(* one is content.                                                         *)
Encodes(o, val, put) ==
    /\ put \subseteq val
    /\ val \ row[o].val \subseteq put

(* SaveInstance, or an engine's write of a row it holds.                   *)
BeginWrite(o) ==
    /\ ~tx[o].open /\ WriterFree
    /\ row[o].status \in {"none", "running"}
    /\ \E val \in SUBSET Hashes, put \in SUBSET Hashes,
          status \in {"running"} \cup Concluded :
         /\ Encodes(o, val, put)
         /\ row[o].status = "none" => status = "running"
         /\ tx' = [tx EXCEPT ![o] = [open |-> TRUE, val |-> val, put |-> put,
                                     done |-> {}, status |-> status]]
    /\ UNCHANGED <<dialect, objects, refs, row, copy, sweep, candidates, unused>>

(* decodeState: the advance that will write log row l loads its instance.  *)
LoadState(l) ==
    /\ ~tx[l].open /\ row[l].status = "none"
    /\ row[Subject[l]].status = "running"
    /\ copy' = [copy EXCEPT ![l] = [refs |-> row[Subject[l]].val, late |-> FALSE]]
    /\ UNCHANGED <<dialect, objects, refs, row, tx, sweep, candidates, unused>>

(* AppendLogValue: a log row with objects; a marker in the payload stays a *)
(* reference, the rest is content.                                         *)
BeginLog(o) ==
    /\ ~tx[o].open /\ WriterFree
    /\ row[o].status = "none"
    /\ \E val \in (SUBSET Hashes) \ {{}}, put \in SUBSET Hashes :
         /\ put \subseteq val /\ val \ put \subseteq copy[o].refs
         /\ tx' = [tx EXCEPT ![o] = [open |-> TRUE, val |-> val, put |-> put,
                                     done |-> {}, status |-> "logged"]]
    /\ UNCHANGED <<dialect, objects, refs, row, copy, sweep, candidates, unused>>

(* PutObject: the upsert waits for the row lock of another write or of the *)
(* sweep, takes it and keeps it until the commit.                          *)
PutObject(o, h) ==
    /\ tx[o].open /\ h \in tx[o].put
    /\ h \notin Written \cup sweep.locks
    /\ tx' = [tx EXCEPT ![o] = [tx[o] EXCEPT !.put = @ \ {h}, !.done = @ \cup {h}]]
    /\ UNCHANGED <<dialect, objects, refs, row, copy, sweep, candidates, unused>>

(* The commit of claimObjects' content and claims, of the claims           *)
(* applyContextObjectDiff releases, and of the row.                        *)
Stored_keepsMark(o) ==
    [h \in Hashes |-> IF h \in tx[o].done
                      THEN [objects[h] EXCEPT !.here = TRUE] ELSE objects[h]]

Stored(o) ==
    [h \in Hashes |-> IF h \in tx[o].done
                      THEN [here |-> TRUE, released |-> Unmarked]
                      ELSE objects[h]]

ClaimObjects_written(o) ==
    (refs \ (row[o].val \X {o})) \cup (tx[o].done \X {o})

ClaimObjects(o) ==
    (refs \ (row[o].val \X {o})) \cup (tx[o].val \X {o})

Commit(o) ==
    /\ tx[o].open /\ tx[o].put = {}
    /\ objects' = Stored(o)
    /\ refs' = ClaimObjects(o)
    /\ row' = [row EXCEPT ![o] = [status |-> tx[o].status, val |-> tx[o].val,
                                  old |-> FALSE]]
    /\ tx' = [tx EXCEPT ![o] = Idle]
    /\ copy' = [l \in Logs |->
                  IF Subject[l] = o /\ row[l].status = "none" /\ copy[l].refs # {}
                  THEN [copy[l] EXCEPT !.late = TRUE] ELSE copy[l]]
    /\ unused' = [h \in Hashes |->
                    IF h \in tx[o].val /\ ~Passed(o, h) THEN 0 ELSE unused[h]]
    /\ UNCHANGED <<dialect, sweep, candidates>>

Rollback(o) ==
    /\ tx[o].open
    /\ tx' = [tx EXCEPT ![o] = Idle]
    /\ UNCHANGED <<dialect, objects, refs, row, copy, sweep, candidates, unused>>

-----------------------------------------------------------------------------
(* CollectObjects.  Its passes in order; a failed statement ends it.       *)
Orphans_logs(S) ==
    {r \in refs : r[2] \in S \cap Logs /\ row[r[2]].status \notin Present}

Orphans(S) == {r \in refs : r[2] \in S /\ row[r[2]].status \notin Present}

(* retireOrphanedLogRefs and retireOrphanedInstanceRefs: the orphans are   *)
(* read first and dropped in a transaction of their own.                   *)
OrphanedRefs(S, from, to) ==
    /\ sweep.pc = from
    /\ sweep' = [sweep EXCEPT !.pc = to, !.orphans = Orphans(S)]
    /\ UNCHANGED <<dialect, objects, refs, row, tx, copy, candidates, unused>>

RetireOrphans(from, to) ==
    /\ WriterFree
    /\ sweep.pc = from
    /\ refs' = refs \ sweep.orphans
    /\ sweep' = [sweep EXCEPT !.pc = to, !.orphans = {}]
    /\ UNCHANGED <<dialect, objects, row, tx, copy, candidates, unused>>

(* A statement over the object rows: the rows its snapshot selects ...     *)
Snapshot(from, to, S) ==
    /\ WriterFree
    /\ sweep.pc = from
    /\ sweep' = [sweep EXCEPT !.pc = to, !.rows = S]
    /\ UNCHANGED <<dialect, objects, refs, row, tx, copy, candidates, unused>>

(* ... and, once no write holds one of them, its effect on them.           *)
Effect(from, to, change) ==
    /\ sweep.pc = from
    /\ sweep.rows \cap Written = {}
    /\ objects' = change
    /\ sweep' = [sweep EXCEPT !.pc = to, !.rows = {}, !.locks = {}]
    /\ UNCHANGED <<dialect, refs, row, tx, copy, candidates, unused>>

Overdue(h) == objects[h].released # Unmarked /\ objects[h].released > Grace

(* ClearObjectRelease                                                      *)
ClearSnapshot ==
    Snapshot("clear", "clearing",
      {h \in Hashes : /\ objects[h].here /\ Claimed(h)
                      /\ objects[h].released # Unmarked})

ClearObjectRelease ==
    Effect("clearing", "mark",
      [h \in Hashes |-> IF h \in sweep.rows
                        THEN [objects[h] EXCEPT !.released = Unmarked]
                        ELSE objects[h]])

(* MarkObjectReleased                                                      *)
MarkSnapshot ==
    Snapshot("mark", "marking",
      {h \in Hashes : /\ objects[h].here /\ ~Claimed(h)
                      /\ objects[h].released = Unmarked})

MarkObjectReleased ==
    Effect("marking", "collect",
      [h \in Hashes |->
         IF h \in sweep.rows /\ objects[h].released = Unmarked
         THEN [objects[h] EXCEPT !.released = 0] ELSE objects[h]])

(* collectUnreferencedPG locks the unclaimed rows before its delete.       *)
LockSnapshot ==
    /\ dialect = "postgres"
    /\ Snapshot("collect", "locking",
         {h \in Hashes : objects[h].here /\ ~Claimed(h)})

LockUnclaimed ==
    /\ sweep.pc = "locking"
    /\ sweep.rows \cap Written = {}
    /\ sweep' = [sweep EXCEPT !.pc = "locked", !.rows = {},
                              !.locks = sweep.rows]
    /\ UNCHANGED <<dialect, objects, refs, row, tx, copy, candidates, unused>>

(* CollectUnreferencedObjects                                              *)
CollectSnapshot ==
    Snapshot(IF dialect = "postgres" THEN "locked" ELSE "collect", "deleting",
      {h \in Hashes : objects[h].here /\ ~Claimed(h) /\ Overdue(h)})

CollectUnreferencedObjects ==
    Effect("deleting", "idle",
      [h \in Hashes |-> IF h \in sweep.rows /\ Overdue(h)
                        THEN [here |-> FALSE, released |-> Unmarked]
                        ELSE objects[h]])

SweepFails ==
    /\ sweep.pc # "idle" /\ sweep.failed < MaxFailures
    /\ sweep' = [pc |-> "idle", rows |-> {}, locks |-> {}, orphans |-> {},
                 failed |-> sweep.failed + 1]
    /\ UNCHANGED <<dialect, objects, refs, row, tx, copy, candidates, unused>>

CollectObjects ==
    \/ OrphanedRefs(Logs, "idle", "logs")
    \/ RetireOrphans("logs", "insts")
    \/ OrphanedRefs(Instances, "insts", "dropInsts")
    \/ RetireOrphans("dropInsts", "clear")
    \/ ClearSnapshot \/ ClearObjectRelease
    \/ MarkSnapshot \/ MarkObjectReleased
    \/ LockSnapshot \/ LockUnclaimed
    \/ CollectSnapshot \/ CollectUnreferencedObjects

-----------------------------------------------------------------------------
(* RetryProcess on this row.                                               *)
RetryProcess(o) ==
    /\ WriterFree
    /\ row[o].status = "failed"
    /\ row' = [row EXCEPT ![o] = [row[o] EXCEPT !.status = "running", !.old = FALSE]]
    /\ UNCHANGED <<dialect, objects, refs, tx, copy, sweep, candidates, unused>>

(* PruneConcludedTrees reads its candidates unlocked.                      *)
Prunable(o) == row[o].status \in Concluded /\ row[o].old

ConcludedRootsBefore ==
    /\ candidates' = {o \in Instances : Prunable(o)}
    /\ UNCHANGED <<dialect, objects, refs, row, tx, copy, sweep, unused>>

(* pruneTrees: what still qualifies under the lock goes, with its logs.    *)
LockConcludedTrees_asRead == candidates

LockConcludedTrees == {o \in candidates : Prunable(o)}

Deleted(S) ==
    [o \in Owners |->
       IF o \in S THEN [status |-> "gone", val |-> {}, old |-> FALSE]
       ELSE row[o]]

PruneTrees ==
    LET pruned == LockConcludedTrees IN
    /\ WriterFree
    /\ candidates # {}
    /\ row' = Deleted(pruned \cup
                {l \in Logs : /\ row[l].status = "logged"
                              /\ Subject[l] \in pruned})
    /\ candidates' = {}
    /\ UNCHANGED <<dialect, objects, refs, tx, copy, sweep, unused>>

(* PruneLogs                                                               *)
PruneLog(l) ==
    /\ WriterFree
    /\ row[l].status = "logged"
    /\ row' = Deleted({l})
    /\ UNCHANGED <<dialect, objects, refs, tx, copy, sweep, candidates, unused>>

(* Time passes between sweeps.                                             *)
Tick ==
    /\ sweep.pc = "idle"
    /\ objects' = [h \in Hashes |->
                     IF objects[h].released = Unmarked THEN objects[h]
                     ELSE [objects[h] EXCEPT !.released = Older(@)]]
    /\ unused' = [h \in Hashes |->
                    IF Needed(h) THEN 0 ELSE Older(unused[h])]
    /\ row' = [o \in Owners |->
                 [row[o] EXCEPT !.old = row[o].status \in Concluded]]
    /\ UNCHANGED <<dialect, refs, tx, copy, sweep, candidates>>

Next ==
    \/ \E o \in Instances : BeginWrite(o) \/ RetryProcess(o)
    \/ \E l \in Logs : LoadState(l) \/ BeginLog(l) \/ PruneLog(l)
    \/ \E o \in Owners : \/ \E h \in Hashes : PutObject(o, h)
                         \/ Commit(o)
                         \/ Rollback(o)
    \/ CollectObjects \/ SweepFails
    \/ ConcludedRootsBefore \/ PruneTrees
    \/ Tick

Spec == Init /\ [][Next]_vars

(* Writes end, the pump keeps sweeping, waits for a row lock end and time  *)
(* passes; sweeps do not fail for ever (MaxFailures).                      *)
FairSpec ==
    /\ Spec
    /\ \A o \in Owners : WF_vars(Commit(o) \/ Rollback(o))
    /\ SF_vars(CollectObjects)
    /\ SF_vars(Tick)

-----------------------------------------------------------------------------
(* Nothing a row points at is gone: whatever writes, releases, prunes and  *)
(* sweeps race, the content behind every reference a stored row carries is *)
(* there (claimObjects, PutObject's lock and collectUnreferencedPG         *)
(* together).  The exception is a log row an advance wrote after another   *)
(* had saved its instance: a reference it took over may have been released *)
(* and collected by then (claimObjects does not look whether it is there). *)
NoDangling ==
    \A o \in Owners : row[o].status \in Present =>
      \A h \in row[o].val : objects[h].here \/ Passed(o, h)

(* A reference handed out stays fetchable for the grace window: content is *)
(* collected only when no row has pointed at it for longer than that, such *)
(* log rows apart (SQLite; MarkObjectReleased on Postgres is discussed in  *)
(* the README).                                                            *)
GraceKept ==
    [][\A h \in Hashes :
         dialect = "sqlite" /\ objects[h].here /\ ~objects'[h].here
           => unused[h] > Grace]_vars

(* A revived instance is kept: pruning never deletes a row that an         *)
(* operator's retry set running after the candidates were read.            *)
RevivedIsKept ==
    [][\A o \in Instances :
         row[o].status = "running" => row'[o].status # "gone"]_vars

(* A stored row or a write in progress points at h.                        *)
Wanted(h) == Referenced(h) \/ \E o \in Owners : h \in tx[o].val

(* Released content does not leak: once no row and no write wants a piece  *)
(* of content any more, it is collected, the claims of pruned rows         *)
(* included (retireOrphaned..Refs, MarkObjectReleased, CollectObjects).     *)
ReleasedIsCollected ==
    \A h \in Hashes : <>[]~Wanted(h) => <>[]~objects[h].here
==========================================================================
