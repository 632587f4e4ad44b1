# genroc: TLA+ models and proofs

genroc is a durable process orchestrator written in Go. A definition is a list of tasks; a running
process is a row of `process_instances`; any number of `genroc` processes (workers) share one SQLite
or Postgres database and have no other way to talk to each other. Two things make the system correct.
The first is a protocol on rows: who may advance a row, what a write may replace, how a stop reaches a
tree of rows, how an answer from outside meets a row about to wait for it, when content nobody points
at may be deleted. The second is a promise about data: a definition that was registered, and a
version an instance is moved to, never meet a value their types do not allow.

The modules in this directory model both from the code. TLC checks them on small instances; TLAPS
proves the protocols of leases, of the lease gate, of trees, of external tasks, of the object store and
of the registry for every instance. The source lines of every definition are in `PROJECT.json` under
`map`. Run `tlc -config <cfg> <module>` and `tlapm <module>.tla` here.

## 1. The system and its parts

| Part | Code | What makes it hard | Modules |
|---|---|---|---|
| Engine leases and advances | `internal/engine/engine.go`, `advance.go`, `action.go`, `error.go`; `internal/db/db_claim.go`, `db_instances.go` | leases lapse under live advances, a worker re-claims its own row, crashes between an action and its write, stops arriving mid-advance | `Lease`, `LeaseProofs` |
| Lease gate and clock | `engine.go` (`leaseGate`, `renewLeases`, `runPump`), `db_claim.go` | a frozen or slow worker acts on evidence that is out of date; two renewals at once | `Gate`, `GateProofs` |
| Instance trees | `db_lifecycle.go`, `child.go`, `collect.go` | verbs and advances of different rows interleave; wake-ups and settles climb; batches of several epochs coexist | `Tree`, `TreeStatusProofs`, `TreeProofs` |
| External tasks and signals | `db_external.go`, `db_external_claim.go`, `db_signals.go`, `handlers_external.go` | an answer races the arm, the deadline, the pause and a dead engine; only_once work handed out by a queue | `External`, `ExternalStepProofs`, `ExternalProofs` |
| Object store and retention | `db_objects.go`, `db_retention.go`, `db_logs.go` | content shared by owners, a sweep beside writers, two databases with different isolation | `Store`, `StoreProofs` |
| Schemas and expressions | `internal/schema`, `internal/expression`, `internal/shape` | static answers must be true of values nobody has seen yet | `Schema`, `Subset`, `Expr`, `Infer`; reference `Typing`, machine `Slot` |
| Checks of a definition | `internal/validation`, `internal/model`, `internal/errcode` | every path through branches, loops, failures and retries | `Definition`, `Contract`, `Flow`, `Generate`, `Children` |
| Running a process | `internal/engine`, `db_lifecycle.go`, `db_signals.go`, `db_upgrade.go` | types, failures, retries, batches and upgrades meet in one row | `Advance`, `Row`, `Process` |
| Versions and upgrades | `validation/compat.go`, `upgrade.go`, `handlers_upgrade.go`, `db_upgrade.go` | two documents are compared, then one instance with its history is moved | `Compat`, `Row`, `Process` |
| Large values outside the row | `evaluator.go`, `expression/refs.go`, `db/objectcut.go` | a marker seen where a value was meant | `Lazy` |
| Registry and channels | `handlers_definitions.go`, `handlers_channels.go`, `db_registry.go` | plans made outside a transaction, pins, caches of several servers | `Registry`, `RegistryProofs` |

`PROJECT.json` lists all 28 components with their files and the reason for each one left out, and the
hazards at the line where each bites.

How the parts interact. A client *applies* a batch of definitions: each is checked, its calls are
pinned to child versions, and a new version is stored. A worker's pump passes the *lease gate* and
*claims* rows: status running, pausing or cancelling, due, and unheld or held under a lapsed lease.
The claim sets `worker_id` and increments `lease_epoch`. Each claimed row is *advanced* in memory until
it must wait, conclude, or enter an `only_once` task; then one transaction writes the outcome if
`(worker_id, lease_epoch)` are still what the claim set (the *fence*). A spawning task inserts children
and parks its row; the last child to conclude wakes it. An external task parks its row; an answer is
appended to `process_signals` and makes the row claimable. Operator verbs act on whole trees; an
*upgrade* moves the rows of a stopped tree to other versions and migrates their stored state. Values
over the inline limit live in the object store; a sweep deletes content no row has owned for a grace
period.

The models cut the system along these seams. `Lease` lets a lease lapse at any moment and shows that
the fence makes this harmless; `Gate` has the clock and shows how rarely it happens. `Tree`, `External`
and `Process` rely on the fence: there a row has at most one advance whose write counts. `Tree` has
statuses without data, `Process` has data with the verbs of a tree as single steps. `Registry` has
documents without content, `Generate` and `Children` say what "checked" means. `Store` sees a row only
as an owner of content.

## 2. Modules

### Lease: claims, advances and the fenced write

State: `row` (the persisted columns of each instance; `entry` is a history column, the epoch at which
the task was entered, which a retry does not move), `adv[i][e]` (the advance under grant `e`: what it
read, what it computed, whether it took the row from a lapsed holder), `held`, `inflight` and `wstate`
of each worker, and the history `ran`: how many calls of an only_once task may have reached the remote
for each entry of it. Old advances stay alive beside newer ones: nothing kills an advance when its lease
is taken.

| Action | Code |
|---|---|
| `ClaimInstances` | the claim statement, `lease_epoch + 1`, take-over of a lapsed lease, the capacity of the semaphore |
| `dispatch` | the in-flight marker; a claim of a row this worker is still advancing is dropped |
| `SettleStop`, `Interrupted` | `prepareAdvance`: the stop a row asks for, the interrupted verdict on a re-claimed only_once task |
| `RunSwitch`, `executeAction`, `runDelay`, `OffTheEnd`, `YieldBeforeOnce` | one turn of the task loop, with its inline limit, `handleCallError` and `isRetryAllowed` |
| `persist`, `Abandon`, `dropLease` | the fenced write, its refusals and failures, an advance that ends without writing, the deferred clean-up of `runAdvance` |
| `RenewWorkerLeases`, `Expire`, `Freeze` | the renewer and the ways a lease lapses; `Freeze` is a lease lapsing although its holder lives |
| `Crash`, `drain` | process death; shutdown, where running advances finish or are abandoned |
| `PauseProcess`, `CancelProcess`, `ResumeProcess`, `RetryProcess` | the operator verbs on a tree of one row |

A switch or a handler may go to any task of the right kind, so every task graph over the given tasks
is covered.

### Gate: the clock, renewals and the claim

State: the clock `now`; holder and expiry of each row; per worker the last recorded renewal
(`lastRenewMs`), the held set, the pump (where it is in its loop, the instant it read, its cutoff and its
grace), the renewals under way (the renewer's and the gate's own), and the rows under an advance, those
whose grant was taken over, and those that have written but not dropped their lease. Each read of the
clock, of the held set and of the evidence, each chunk of a renewal and each write is a step, so the
clock may jump between any two. `MaxGap` is the one restriction: a claim from its clock reading to the
held set, and a renewal from its reading of the held set to its clock reading, last at most `MaxGap`,
with `2 * MaxGap <= Margin` (section 5 has what happens beyond it).

### Tree: trees of instances

State: `row` for every id of a bounded tree (rows not yet inserted have status `none`), the history
`batch` (which rows fill the slots of the last batch), and `asked` (retry requests that have read the
root's status but not run their transaction). One step is one transaction. `Advance(p)` is what the
holder of `p` may do: settle a requested stop, run its own task to a conclusion, a failure or a park,
spawn a batch, re-spawn raised slots, collect, or answer an interrupted collect (`Interrupt`, which can
leave a row on its next task with phase collecting and no batch). `settleUp` and the failure climb are closed forms;
`MCTree` has the loop as the code writes it, and `SettleUpIsTheLoop` compares the two in every
reachable state.

### External: waits for the outside

State: one row, its engine lease, the external claim columns, the buffered `signals` (a set: the id of
an answer is its `seq`, and the oldest is the one of the least id), the advance of the last grant, `marks` (lost marks a claim request has decided on but not yet written: two
transactions in the code), and the history the properties need. `Engine` groups what engines do (claim,
arm, peek an answer, act on a deadline or a lost mark, write); the remaining actions are the API.

### Store: content and its sweep

State: `objects`, `refs` (claims by owner), `row` (each owner and the references it carries), `tx` (a
write in progress), `copy` (the references the advance that will write a log row loaded, and whether
its instance was written since), `sweep` (how far a sweep is, and the snapshot its current statement works from),
`candidates` of a prune, and the history `unused` (how long no row has pointed at the content). `dialect`
is chosen in `Init`. On SQLite a statement waits until no writer is open and is atomic. On Postgres a
statement takes a snapshot, waits for row locks, and re-checks only the row it waited for. The sweep may
fail after any statement.

### Schema, Subset, Expr, Infer, Typing, Slot: types against values

Pure functions, translated one by one: `Validate` (conform with defaults and tolerance), the null
algebra, navigation, join and canonical form; `subsetWith` in its modes and `Conformed`; the evaluation
of expressions and the analysis of what they read; the static type of an expression. `Typing` holds the
reference, `Inhabits`: what it means for a value to be of a type. `Slot` is a machine around them: a
stored value and the type registration believes it has are created, upgraded, filled into a declared
slot and computed, and each static answer is given before the value is looked at. `broke` records that
the value contradicted it. `Known` lists the cases in which the code's answer is known to be wrong
(section 5); a chain ends when it meets one.

### Definition, Contract, Flow, Generate, Children, Compat: what registration decides

`ValidateDefinition` is the checks on the document alone; `Contract` the types of results and error
data by status and code; `Flow` which outputs are surely or possibly written on entry to a task and
what the conditions on the way prove; `Generate` the type check of the whole with the fixed point of
outputs in a cycle; `Children` the calls of other processes; `Compat` the report on two versions
(`Compare`), the migration of stored state (`MigrateState`) and the in-flight gate of an upgrade.

### Advance, Row, Process, Lazy: what then happens

`advance` is a function from a row, the one exchange it may have (`Answers`), the environment and its
batch to the row it writes and the children it starts: switch, fetch with its response contract, delay,
external, child, child_map and child_list, outputs, declared slots, error rules and retries. `Row` has
what is done to a row from outside: creation, outcomes, migration, and the promises the properties
name. `Process` is the machine: a tree, a plan of an upgrade, and the actions `Create`, `AdvanceRow`,
`Reclaim` (the holder died in the middle of a task), `SignalInstance`, `ClaimLapsed`, `Pause`, `Resume`,
`RetryProcess`, `PlanUpgrade` and `UpgradeInstances` (a plan is made from a read and written later, row
by row re-checked). Two history fields of a row serve the properties: `strayed`, an interrupted collect
sent it on with its phase, and `missed`, an upgrade of its tree was written without it (section 5). The functions are operator CONSTANTs of `Process` and `Slot`, given in the cfg, so that
the machines can be read without the functions.

`Lazy` shows a refinement. `Process` with markers for large values implements `Process` without
them, under the mapping that reads every marker as its value:
`Eager == INSTANCE Process WITH Large <- {}, inst <- loaded` and `Invisible == Eager!Spec`. It holds for
definitions whose reads the analysis of roots finds, which those of the run are (section 5).

### Registry: versions, pins, channels, caches

State: `definitions`, `dependencies` (pins), `channels`, `defCache` of each server, and `request`: what each
client is in the middle of. An apply reads its plan definition by definition (`planBatch`), validates,
commits in one transaction and drops cache entries afterwards; a read of a row and its entry into the
cache are two steps; a promotion moves one definition at a time; a server may restart at any time.
Requests of different clients interleave at each of these steps, applies of one process included. Two
history variables name what such applies do: `contested`, the versions stored while another apply had
planned the same version, and `behind`, the cache entries from before a commit their server did not see.

## 3. What the runs check

Passing runs:

| Run | Instance | States | What it shows |
|---|---|---|---|
| `lease` | 2 workers, 1 row, a switch, an only_once call and a delay, 3 grants, 1 fault, 2 verbs, fair | 299,412 | `OnlyOnce`: at most one call per entry of an only_once task; `NoLostUpdate`: a write that passes the fence replaces what its advance read; `StoppedIsUnheld`, `StopsHold`: a stop is not undone; `NoWedge`: no row ends neither settled nor claimable |
| `gate` | 1 worker, 1 row, lease 4, poll 2, gap 1, clock to 7 | 2,356,974 | `LeaseFloor`: a lease in the held set ends a lease period after the last recorded renewal or later; `NeverOwn`: however late, a claim does not take over a row its own worker holds |
| `tree` | a root, two child slots, a grandchild, 2 attempts, 4 verbs, one retry in progress, fair | 91,851 | `NothingBusyBelow`, `TreeAgrees`: a stopped row has nothing running below, the tree is in one stopping state; `WaitsForSomeone`: every parked parent has a child that will wake it; `CollectsItsBatch`: a collect reads its own batch, or none after an interrupted collect; `SettleUpIsTheLoop`; `OutcomesKept`: outcomes are final; `DrainEnds`: a pause, cancel or failure that has to wait settles |
| `external` | an only_once and an ordinary external task, 2 external workers, 2 answers, 2 claims, 1 lapse, 2 verbs, fair | 679,384 | `ResolvedIsUsed`, `ConsumedOnceInOrder`: an accepted answer is used, once, in order; `HandedOnce`: only_once work is in one pair of hands; `ClaimOfThisArming`, `LostIsEarned`, `AnsweredByHolder`: claims, lost marks and handles do not leak from one arming to the next; `ResolvedAdvances`: an accepted answer is acted on unless the instance is stopped first |
| `store` | one content hash shared by an instance and a log row, both databases, one failed sweep, fair | 230,504 | `NoDangling`: no reference of a stored row leads to collected content, those a log row took over late excepted; `GraceKept` (SQLite, the same exception); `RevivedIsKept`: pruning spares a revived instance; `ReleasedIsCollected` |
| `slot` | 19 schemas, 14 documents, 11 expressions, chains of 3 | 1,241 | `NeverBroke`: what subset, conform and inference promised is true of the value; `Fits`: the believed type is a type the value has |
| `process` | 15 processes in 21 versions, one pause, one retry, one upgrade | 13,356 | `NoTypeDefect`: no failure registration should have ruled out; `EntryHolds`: a row fits the context its task was typed in; `OutputPublished`; `UpgradePredicted`: what compat calls clean migrates; `ChildrenFollow`: a parent and the children it was planned with move together; `AttemptsBounded`: retries stay within what the rules grant; `Invisible`: the refinement of section 2 |
| `registry` | 2 clients, 2 servers, 2 channels, 7 documents, 6 batches, 4 requests | 303,313 | `SpawnChecked`: what a parent would spawn is a child it was checked against; `CacheAgrees`: a cache holds what is stored; `VersionsKept`: a stored version never changes; contested versions are excepted in each, and `CacheAgrees` says exactly when such an entry may be out of date |

Each property has a mutant of the code it guards (`PROJECT.json`, `mutants`): a dropped fence, a late
stamp, a verb that forgets an ancestor, a sweep without its re-check, a subset rule that is too kind, an
upgrade that moves only the rows it can. TLC finds the property violated in each.

Runs that show a disagreement between the code and what the repository says of it; the findings quote
the line each contradicts:

| Run | Property | What happens |
|---|---|---|
| `tree_retry` | `PausedNeedsResume` | `RetryProcess` tests the root's status before its transaction and not again under the lock; a late retry resumes a tree that was revived and paused meanwhile. |
| `external_stray` | `ParkedIsArmed` | The interrupted verdict routes a parked only_once external task through `on_error` without clearing the park; the handler task is then never claimed. |
| `external_stranded` | `SignalFound` | A signal delivered while an engine holds a parked row only to settle a pause is buffered without an un-park; after the resume nothing makes the row claimable. |
| `registry_overwrite` | `VersionsFixed` | Two applies plan the same next version from the latest one they read; the second commit writes its document over the first. |

### Bounds

* *Grants, faults, verbs* (`Lease`) bound how often something happens, never where. Three grants are a
  holder, the one that supersedes it and a third that supersedes that one while both are alive. The
  safety properties of `Lease`, `Gate`, `Tree`, `External` and `Store` do not rest on any bound but one
  (retries in progress, in `Tree`): section 4 proves them.
* *One instance row in `Lease`*: rows share only the worker's capacity and its sets, keyed by row.
* *Gate*: a lease of 4 ticks with a margin of 2 and a gap of 1 has every ordering of gate, renewal
  and claim around an expiry; 7 ticks are a lease, its lapse and a second lease.
* *Tree shape*: `settleUp` and the failure climb need a chain of three and a fork. Two retriers are
  in `tree_retry`, which needs them. `MaxEpoch = 1` is two
  entries of a task, so that a batch or an interrupted collect of the previous entry can be mistaken for
  one of the current; with four rows a slot has at most one re-spawn, and `MaxAttempts` lets it happen.
* *`MaxEpoch = 1`* in `External`: two entries of a task, so that a claim, a lost mark or an answer of
  the previous entry can be mistaken for one of the current.
* *Store*: two owners and one hash give sharing, hand-over and re-use after release; hashes interact
  only through lock order, and the proofs cover any number.
* *Slot*: the schemas differ in what is optional, nullable, defaulted, bounded, enumerated, nested, open,
  recursive and a choice; three operations compose an upgrade, a fill and a computation in any order.
  `conformedDepth` is 3 (32 in the code), deeper than any schema here but the recursive one.
* *Process*: each definition exercises one part of the language, and each has inputs and answers for
  every branch of it, malformed, cut and over-long bodies included. Definitions that must be refused are
  among them (a wrong branch of a narrowing, a 404 body read where a 500 may lead). `maxInlineTasks` is 2
  and `maxSolvePasses` 6 (1000 and 16 in the code), so that the first is reached. `RetriesOwn`
  is a switch: FALSE leaves out the operator's retry of a row whose failure overwrote the error it was
  entered with, in which the code is known to break `EntryHolds` (section 5).
* Symmetry of clients and servers is used in `registry`, which has no liveness property.

`CHECK_DEADLOCK FALSE` is set where a system that has settled has no step left (every run but `store`,
whose sweep goes on for ever).

### Fairness

* `Lease`: weak fairness of claiming, of an advance's next step, of a lapsed timer and of the expiry
  of a lease nobody renews. The pump polls on a timer, an advance is a goroutine that ends by its
  context, and clocks move. No fairness on renewals, verbs or faults. `NoWedge` ends either in a
  settled row or at the bound on grants.
* `Tree`: weak fairness of claiming and advancing a row, strong fairness of `SettleStop`: a row claimed
  while pausing settles unless its holder died in an only_once call, and holders do not die for ever.
* `External`: weak fairness of `Engine`. Nothing is assumed of clients and external workers.
* `Store`: weak fairness of ending a write, strong fairness of the sweep and of the clock, since a wait
  for a row lock is enabled and disabled by writers; sweeps fail a bounded number of times.
* The other machines have safety properties only, and no fairness.

## 4. What is proved

### LeaseProofs

For any workers, instances, tasks and bounds, from `LeaseAssumption` (the task kinds are disjoint,
`NoWorker` and `NoTask` are not a worker or a task, bounds are naturals):

| Theorem | Statement |
|---|---|
| `TypeCorrect` | `Spec => []TypeOK` |
| `AtMostOnce` | `Spec => []OnlyOnce` |
| `FencedWritesAreFresh` | `Spec => []NoLostUpdate` |
| `StoppedRowsAreUnheld` | `Spec => []StoppedIsUnheld` |
| `StopsAreKept` | `Spec => StopsHold`, an action property |

None is inductive by itself. The inductive invariant is `IInv == TypeOK /\ FenceInv /\ OnceInv`.

* `FenceInv` adds `GrantsMade` (an advance belongs to a grant already made, so a fresh claim's epoch is
  new and no old advance can pass the fence after it) and `StopAnswered` (a stop is written only in
  answer to the stop the row still asks for) to the two properties.
* `OnceInv` explains at-most-once. A call can only be made by a grant that took the row *unheld* and
  has not moved on (`MayCall`): a grant that took it from a lapsed holder gets the interrupted
  verdict instead, and an advance that reaches an only_once task after another task yields first.
  `OneCaller`: at most one such grant exists per entry, and none once a call was made. It is preserved
  because an unheld live row standing on an only_once task has not been tried (`UnheldUntried`), which
  needs the same of an outcome about to be written back without leaving the task (`WriteUntried`), that
  entries only grow (`EntryOrder`), and how far an advance can have moved from what it read (`Moves`).

### GateProofs

For any workers, rows, lease, poll interval and clock, from `GateAssumption` (positive durations,
`2 * MaxGap <= Margin`): `TypeCorrect`, `FloorHolds` (`Spec => []LeaseFloor`) and `OwnRowsAreSafe`
(`Spec => NeverOwn`). The invariant is `IInv == GateType /\ ClockInv /\ HeldInv /\ FloorInv /\ CutoffInv`.
The floor is not inductive: a renewal under way will replace the evidence, so `FloorInv` says for each
renewal, at each of its points, which rows already lie above the instant it will record (those it does
not stamp because they were claimed after it read the held set), and says it for claimed rows on their
way into the held set as well. `ClockInv` bounds how old those instants are. `CutoffInv` carries the floor
past the gate: the cutoff was chosen when evidence was fresh, a lease only grows while it is held, so no
own lease ends by the cutoff however late the claim runs.

### StoreProofs

For any contents, owners, grace window and number of failed sweeps, on both databases, from
`StoreAssumption`: `TypeCorrect`, `NothingDangles` (`Spec => []NoDangling`), `GraceIsKept`
(`Spec => GraceKept`) and `RevivedAreKept` (`Spec => RevivedIsKept`). The invariant is
`IInv == StoreType /\ WriteInv /\ CopyInv /\ ClaimInv /\ SweepInv /\ GraceInv`. `ClaimInv` is the heart:
a row claims what it points at and claimed content is there, unless a log row claimed it late (`Passed`,
section 5). `CopyInv` is why only a late claim is in danger: what an advance loaded is what its instance
refers to until another write of the instance. `WriteInv` is needed because a write keeps
references it did not write: what it neither wrote nor will write, it keeps from a row nobody can
prune meanwhile. `SweepInv` says what a sweep remembers between statements stays true until it acts: an
orphan's owner does not come back, and content chosen for deletion and claimed since has lost its mark,
which the delete re-checks. `GraceInv` holds on SQLite only.

### TreeStatusProofs and TreeProofs

For a tree of any shape, any number of slots, attempts, task entries and verbs, from `TreeAssumption`
(one root; every row's `call_stack` is its parent's and the parent), `RootedAssumption` (parents lead to the
root) and for `Retriers <= 1`:

| Theorem | Statement |
|---|---|
| `TypesHold` | `Spec => []TypeOK` |
| `StoppedMeansQuiet` | `Spec => []NothingBusyBelow` |
| `OneStopOneTree` | `Spec => []TreeAgrees` |
| `NobodyWaitsForNothing` | `Spec => []WaitsForSomeone` |
| `CollectReadsItsBatch` | `Spec => []CollectsItsBatch` |
| `OutcomesAreFinal` | `Spec => OutcomesKept`, an action property |

`Retriers <= 1` says that retry requests of one root do not overlap. The code does not enforce it, and
without it `TreeAgrees` and `WaitsForSomeone` are false: with `Retriers = 2` and four verbs TLC finds a
late retry that restarts paused rows below a root that is stopping, the state `tree_retry` reaches by its own
property. The other four rest on the same invariant. Everything else (verbs, claims, saves, spawns of any
rows in any order) overlaps freely.

The inductive invariant is `IInv`: `TreeInv(row, batch)`, the bounds, and that a retry that has read
"failed" still finds the root failed. `TreeInv` is `Sound`, what every row owes its parent and the root, and
`Waits`, that a waiting row has a child to wait for. It is taken apart this way because a save breaks
`Waits` for exactly one row, the parent, and `settleUp` repairs it: `Settling` is what holds in between, and
`SettleUpSound` shows that the rows `settleUp` reaches, wakes and settles are those that need it. The
clauses of `UnderOK` carry most of the weight. That a row not yet over belongs to the *present* task
entry of its parent makes the batches of `CollectsItsBatch` the right ones, and `StrayEmpty` says that the
batch of a row sent on from an interrupted collect is empty, so that it mixes no rows of the old entry in; that a busy row's parent is
busy and waits gives `NothingBusyBelow` up the whole stack; that a failure below has reached the parent is
why the walk of a retry meets every failed row (`RevivedAll`), and so why a retry leaves no parent waiting
for a row it did not revive. Facts about all ancestors are proved by `TreeInduction`: a set of rows that
contains the root, and every row whose parent it contains, is everything, which is what
`RootedAssumption` says.

### ExternalStepProofs and ExternalProofs

For any tasks, external workers and bounds, from `ExternalAssumption`: `TypeCorrect`, `AnswersAreUsed`
(`Spec => []ResolvedIsUsed`), `AnswersInOrder` (`Spec => []ConsumedOnceInOrder`), `OnceHandedOnce`
(`Spec => []HandedOnce`), `ClaimsOfTheirArming` (`Spec => []ClaimOfThisArming`), `LostEarned`
(`Spec => []LostIsEarned`) and `AnswersByHolder` (`Spec => AnsweredByHolder`, an action property). The invariant is
`IInv == ShapeInv /\ AdvanceInv /\ SignalsInv /\ ClaimsInv /\ EndsInv /\ LostInv`. `AdvanceInv` is the
heart: between the reads of an advance and its write the API may answer, signal, claim, release and mark,
yet what the advance read still describes the arming the row is in, and the write leaves that arming
unless it arms or settles a stop. `SignalsInv` adds that the answer it peeked is still the oldest;
`ClaimsInv` that a token never outlives the epoch of its grant, and that who holds work of this arming is
the claim holder, unless the arming is decided; `EndsInv` that an arming that ended is of the past, and an
answer that was promised to be used stays buffered until its arming ends; `LostInv` is stated for rows no
interrupted verdict has moved with their park (`external_stray` shows what happens to those).

### RegistryProofs

For any documents, batches, channels, servers, clients and number of requests, from `RegistryAssumption`
(a batch is finite and has one document per name): `SpawnsWereChecked`
(`Spec => []SpawnChecked`), `CachesHoldWhatIsStored` (`Spec => []CacheAgrees`) and `VersionsAreKept`
(`Spec => VersionsKept`, an action property). Requests overlap freely. All three speak of contested
versions in their own statement: those may change (`registry_overwrite`), a parent pinned to one may meet a
child it was not checked against, and a cache may hold what it was before.

The inductive invariant is `IInv`. `Kept` says what is stored: a version's pins cover exactly the references
that are not to itself, name the version the document asked for if it did, and lead to stored documents that
agree with it. `PlanOK` carries the same through a plan: between planning and commit others may commit,
move channels, promote and restart, yet every planned write is of a document checked against what is stored
*or what the same commit will store* (a sibling of its batch), under a version nobody has taken. Where
another apply did take it since, the version is in `contested` by then: the commit that stored it saw this
plan. The rest survives because nothing is ever removed. `CacheAgrees` is inductive with `ReadOK`, that a
read which missed the cache carries what is stored, or that a commit of a contested version came after it. Channels appear nowhere in the invariant: they
decide what a plan pins, and every pin is checked before it is stored.

### Only model-checked

* All liveness: `NoWedge`, `DrainEnds`, `ResolvedAdvances`, `ReleasedIsCollected`. TLAPS handles neither
  fairness nor ENABLED.
* `SettleUpIsTheLoop`, that the closed form of `settleUp` is the loop the code writes: the loop is a RECURSIVE
  operator.
* `Slot`, `Process` and the refinement `Invisible`: their functions on schemas, expressions and definitions
  are RECURSIVE operators, about which TLAPS cannot reason.

## 5. Known divergences without a run of their own

Met while modelling; each is between the code and something the repository says. The properties are
stated, or the instances chosen, so that everything else is checked.

Leases and the clock

* *The held set loses a live advance.* `runAdvance` drops its row from the held set when it returns
  (`advance.go:114`), after its write freed the row. If the same worker has re-claimed the row by then, the
  new advance is not renewed, its lease lapses, and even its own worker may take it over
  (`engine.go:262`: "a lease the draining advances hold must not lapse under them"). The fence keeps the
  data right; work is repeated, or an only_once task is reported interrupted. `LeaseFloor` and
  `NeverOwn` are stated, as `engine.go:69` is, over the held set.
* *Freezes at the wrong moment.* A freeze of more than half the margin between `heldLeases()` and the
  clock reading of a renewal, or inside `ClaimInstances`, breaks the floor `engine.go:69` states; the
  specification names only the second. `MaxGap` bounds both.
* *Workers that froze together.* A worker whose renewer wakes before its pump finds its evidence fresh and
  takes over the lapsed leases of peers that are alive (`specs/lease-fencing.md`: "Both wake orderings
  are then correct").
* *A claim whose commit is in doubt.* `ClaimInstances` returns its rows with the error of its commit;
  `runPump` puts them in the held set (`engine.go:341`) before it looks at the error and then dispatches
  none; their slots of the semaphore stay taken. If the commit did happen, the lease is renewed and
  nobody runs the row until the worker restarts.
  The models take a commit as all or nothing.

Trees and external tasks

* *Tree locks on Postgres.* `lockTree` selects the rows to lock from a snapshot; a spawn that commits
  while it waits adds rows the verb does not see (`queries.sql:280`, `db_lifecycle.go:339`).
* *Late answer under a lapsed lease.* An answer accepted while an engine's lapsed lease is still on the
  row may be overtaken by that engine's timeout or settle write. `ResolvedIsUsed` is stated for answers
  accepted while no engine holds the row.
* *Interrupted before answered.* `specs/external-outcome-as-signal.md` says the next claim pops the
  outcome of an only_once task; the interrupted verdict takes precedence over a buffered answer.
* *An interrupted collect.* When the engine that collects a batch for an only_once child task dies, the next
  claim gives the interrupted verdict (`advance.go:225-231`, `259-262`). A catch-all rule with a goto moves
  the task and its epoch and leaves the phase collecting (`error.go:139-150`). If the next task is a child
  task it takes the collect path and reads an empty batch (`child.go:18-22`): it spawns nothing, and its
  output is built from no results. `Tree` and `Process` have this; `CollectsItsBatch` says that no other row
  gets into such a batch, and `NoTypeDefect`, `EntryHolds`, `OutputPublished` and `UpgradePredicted` are stated
  for rows that are not `strayed` (a failure of a row above one is excepted from `NoTypeDefect` too).
* *One mark for a tree.* `RetryProcess` keeps one `overriddenID` for its whole walk (`db_lifecycle.go:718`,
  `753`, `835`). Of two revived rows that own raised slots only the last visited is marked, and the other
  collects its raised batch as before, against `db_lifecycle.go:750-751`: "A raised slot needs a FRESH
  child, whose input only the engine can evaluate: mark the parent and let its next collect re-spawn". `Tree`
  marks at most one row (`Overridden`).
* *Comments.* `db_instances.go:405-407` says `UpdateInstanceProgress` lands a pending pause; the statement
  leaves the status alone.

Object store

* *Grace window on Postgres.* `MarkObjectReleased` is an UPDATE whose condition reads `object_refs`. When
  it waits for a content row a writer has locked, Postgres re-checks the row with the statement's old
  snapshot of the claims, so content claimed meanwhile is marked released, and its next grace window may
  be counted from that mark. `db_objects.go:220` describes this trap for the DELETE, which is protected.
  `GraceKept` is stated for SQLite.
* *References a log row takes over.* A payload that holds a marker of the instance row is logged with the
  reference, which is claimed and not written again (`db_logs.go:78-107`, `db_objects.go:94-108`). Nothing
  fences a log row. When the advance that logs was superseded, and the new holder's write released the
  content and a sweep collected it, the log row points at nothing. `NoDangling` and `GraceKept` except those
  references (`Passed`) and no others; references of instances never dangle in either database.

Types against values (excluded by `Known` in `Typing`, but for unary minus, which is in no expression of the run)

* *Recursive subset.* A pair under comparison is assumed to hold, and is known only by its reference
  names (`subset.go:131`): a recursive type compared with an inline schema is accepted at its second
  visit, whatever the schema asks there.
* *Conform inserts null.* A required nullable property that is missing is set to null; `Conformed` keeps
  the type of the source, which has no null (`conformed.go`). For a choice of objects it writes inserted
  properties beside the arms.
* *Two-hop default.* A property defaulted by one version and filled by nobody counts as present when the
  next version is compared (`specs/compat-command.md:103-105`).
* *Nullable enum*, *overlapping oneOf*, *open map against a named property*: the relation accepts, the
  conform refuses. *Unary minus* keeps the bounds and the enum of its operand.

Registration against run time

* *A condition on a task's own output* is kept over the task's next run (`guards.go:18-21`), against the
  soundness bar of `specs/guard-narrowing.md`.
* *The analysis of roots* takes a value placed in an array or object literal for a copy, also where the
  literal is then read (`refs.go:229-237`), so a marker can be seen; `self.output` and the url, method, headers, query and accepted_status slots can copy a whole
  marker; a declared slot can be conformed to one; `last_error.message` can be cut. `Invisible` is checked on definitions with none of these.
* *Checks that miss a case.* Child tasks skip `validateRetry` (`validate.go:517-530`); a task may be
  named "end" (`wire.go:236-246`); the probes of non-status codes omit `http.disconnected`
  (`responses.go:192-198`); a status accepted but not declared keeps its raw body.
* *An unhandled failure overwrites the inbound error.* A task entered through `on_error` that fails
  without a rule replaces the `last_error` it was typed with (`error.go:122-128`); an operator's retry
  then runs it with another shape. `RetriesOwn` leaves these retries out.

Upgrades and the registry

* *Stale plan.* `UpgradeInstanceVersion` pins version, task, status and holder of the rows it moves; rows
  spawned since the plan are not in it and stay behind, against `db_upgrade.go:48-50`: "all or nothing: a
  half-migrated tree's parent and children disagree on which version describes their data".
  `ChildrenFollow` excepts the rows an upgrade `missed` in this way, and those below them.
* *The gate of an upgrade* does not look at guards, nor at the batch of a failed parent, nor again at an
  answer buffered for a later task; and accepts an added child_map key that compat refuses.
* *Two applies at once.* `planBatch` reads the latest version outside any transaction
  (`handlers_definitions.go:143`) and the insert upserts, so two applies of different content, or of one content with a child's channel moved between them, write the
  same version, which other servers have cached (`model/definition.go:329`: "immutable versioned
  blueprint"; `registry_overwrite`). The hash of the first content stays on the row, parents checked against
  it spawn the second, and other servers go on with the copy they cached. A promotion is not atomic
  (`handlers_channels.go:90`), and a pin that cannot be read is taken as the latest version
  (`db_registry.go:252`).

## 6. What is not modelled, and why

* *Durability levels*: which commits survive a power cut is decided in the database's log.
* *Postgres locks of a tree*: `Tree` makes a transaction one step, which is SQLite; `Store` has both.
* *The parser, templates as text, string formats and patterns, dates, decimals, delays and cron*: data with
  large domains and no interleaving, tested by tables in the repository.
* *`collapseDegenerateCycles`, `CompareSet`, `ApplySelection`, the choice of what to cut by size*:
  presentation of a type, and repetitions of a modelled operation over a list. `Compat` lists an issue once
  per place that raises it; the code drops repetitions from the listing (`compat.go:230-239`).
* *A database read that keeps failing* while an advance runs, which fails the instance (`action.go:338-340`
  for the buffered answer of an external task): `External` has no such read.
* *The manual tick mode*, whose steps are a subset of the pump's; *a clock that steps back*.
* *Audit log* (best effort by contract, read by no decision), *tokens*, *pagination*, *ids*, *HTTP
  decoding*, *generated code*, *CLI*, *language server*, *JavaScript worker*, *UI*: sequential, pure or
  presentation. The handlers that decide something are modelled with the operation they decide about.
