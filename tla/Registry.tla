------------------------------ MODULE Registry ------------------------------
(***************************************************************************)
(* The registry of definitions: batches planned outside any transaction    *)
(* and committed in one, the pins of a parent to the child versions it was *)
(* checked against, channels that point at versions, promotion from one    *)
(* channel to another, and each server's cache of definitions.             *)
(*                                                                         *)
(* What a definition says is abstract: its references to children, whether *)
(* its own checks pass (Sound), and which children it agrees with (Agree). *)
(* Children.tla and Generate.tla say what those two mean.  The reads that  *)
(* plan one definition are one step; those of a batch are not.             *)
(***************************************************************************)
EXTENDS Naturals, Sequences, FiniteSets, FiniteSetsExt, SequencesExt

CONSTANTS
    Docs,          \* [name, refs]: refs maps a task (and child_map key) to [name, version]; 0 names none
    Sound,         \* the documents whose own validation, types and config pass
    Agree,         \* <<parent, child>>: the child takes the inputs and gives the results parent expects
    Batches,       \* the sets of documents an apply may carry, one per name
    Channels,
    Servers,
    Clients,
    MaxRequests    \* bound: requests made

defaultChannel == "latest"
Names == {d.name : d \in Docs}

ASSUME RegistryAssumption ==
    /\ defaultChannel \in Channels /\ Sound \subseteq Docs /\ Agree \subseteq Docs \X Docs
    /\ \A d \in Docs : \A r \in DOMAIN d.refs : d.refs[r].version \in Nat
    /\ \A b \in Batches : b \subseteq Docs /\ IsFiniteSet(b) /\ \A d, e \in b : d.name = e.name => d = e
    /\ MaxRequests \in Nat

VARIABLES
    definitions,   \* <<name, version>> -> [doc, hash]
    dependencies,  \* <<name, version>> -> the pinned child of each reference
    channels,      \* <<name, channel>> -> version
    defCache,      \* server -> <<name, version>> -> document
    request,       \* client -> what it is in the middle of
    asked,         \* requests made
    contested,     \* history: versions stored while another apply had planned the same version
    behind         \* history: <<server, version>> cached from before a commit the server did not make

vars == <<definitions, dependencies, channels, defCache, request, asked, contested, behind>>

Idle == [k |-> "idle"]
None == <<>>

\* old with what new says of its keys.
Over(new, old) == [x \in DOMAIN new \cup DOMAIN old |-> IF x \in DOMAIN new THEN new[x] ELSE old[x]]

Init ==
    /\ definitions = None /\ dependencies = None /\ channels = None
    /\ defCache = [s \in Servers |-> None]
    /\ request = [c \in Clients |-> Idle]
    /\ asked = 0 /\ contested = {} /\ behind = {}

(***************************************************************************)
(* Queries.                                                                *)
(***************************************************************************)
VersionsOf(n) == {k[2] : k \in {x \in DOMAIN definitions : x[1] = n}}

\* 0 where there is none.
LatestVersion_onChannel(n) ==
    IF <<n, defaultChannel>> \in DOMAIN channels THEN channels[<<n, defaultChannel>>] ELSE Max({0} \cup VersionsOf(n))
LatestVersion(n) == Max({0} \cup VersionsOf(n))
GetChannel(n, ch) == IF <<n, ch>> \in DOMAIN channels THEN channels[<<n, ch>>] ELSE 0
FindVersionByHash(n, hash) == Max({0} \cup {v \in VersionsOf(n) : definitions[<<n, v>>].hash = hash})

\* GetDefinition on a server: the cached copy, else the row.
GetDefinition(s, key) ==
    IF key \in DOMAIN defCache[s] THEN <<defCache[s][key]>>
    ELSE IF key \in DOMAIN definitions THEN <<definitions[key].doc>> ELSE <<>>

\* The cache of a server after it was asked for keys.
Cached(s, keys) == Over(defCache[s], [k \in keys \cap DOMAIN definitions |-> definitions[k].doc])

\* The version a parent spawns from reference r, at run time.
ResolveChildVersion_unpinned(n, v, r) ==
    LET ref == definitions[<<n, v>>].doc.refs[r]
    IN  IF ref.version # 0 THEN ref.version ELSE IF ref.name = n THEN v ELSE LatestVersion(ref.name)
ResolveChildVersion(n, v, r) ==
    LET ref == definitions[<<n, v>>].doc.refs[r]
        pins == dependencies[<<n, v>>]
    IN  IF ref.version # 0 THEN ref.version
        ELSE IF ref.name = n THEN v
        ELSE IF r \in DOMAIN pins THEN pins[r].version ELSE LatestVersion(ref.name)

(***************************************************************************)
(* Planning.  A plan is for a channel; versions holds what the documents   *)
(* of the batch planned so far will be stored as.                          *)
(***************************************************************************)
\* Leaves first; none when documents of the batch refer to each other in a cycle.
topoSort(batch) ==
    {o \in SetToSeqs(batch) : \A i, j \in DOMAIN o : i < j => o[j].name \notin {ref.name : ref \in Range(o[i].refs)}}

\* 0 where the child is not on the channel.
resolveChildVersion(ref, ch, versions) ==
    IF ref.version # 0 THEN ref.version
    ELSE IF ref.name \in DOMAIN versions THEN versions[ref.name] ELSE GetChannel(ref.name, ch)

\* A reference to the document's own name runs at the caller's version and is not pinned.
isSelfRef(d, ref, v) == ref.name = d.name /\ ref.version \in {0, v}

buildResolvedDeps(d, v, ch, versions) ==
    [r \in {r \in DOMAIN d.refs : ~isSelfRef(d, d.refs[r], v)} |->
        [name |-> d.refs[r].name, version |-> resolveChildVersion(d.refs[r], ch, versions)]]

contentHash(d, deps) == <<d, deps>>

channelsFor(n, ch) == {ch} \cup (IF GetChannel(n, defaultChannel) = 0 THEN {defaultChannel} ELSE {})

\* batchGetter: a document of the batch at the version it will have, else what the server knows.
childSeen(q, pin) ==
    LET planned == {d \in q.batch : d.name = pin.name /\ pin.name \in DOMAIN q.versions}
        taken == {d \in planned : q.versions[pin.name] = pin.version}
    IN  IF taken # {} THEN <<CHOOSE d \in taken : TRUE>> ELSE GetDefinition(q.srv, <<pin.name, pin.version>>)

\* Generate, ValidateChildProcessRefs and ResolveConfig, on the copy with the pins baked in.
Validated(q, d, deps) ==
    /\ d \in Sound
    /\ \A r \in DOMAIN d.refs :
          LET child == IF r \in DOMAIN deps THEN childSeen(q, deps[r]) ELSE <<d>>
          IN  child # <<>> /\ <<d, child[1]>> \in Agree

\* <<>> where the document is refused, else what the commit will write: def is <<>> when the
\* content is already stored and only channels move.
planDefinition(q) ==
    LET d == Head(q.todo)
        newVersion == LatestVersion(d.name) + 1
        deps == buildResolvedDeps(d, newVersion, q.channel, q.versions)
        same == FindVersionByHash(d.name, contentHash(d, deps))
        write(def, v) == <<[def |-> def, name |-> d.name, version |-> v, deps |-> deps, to |-> channelsFor(d.name, q.channel)]>>
    IN  IF \E r \in DOMAIN deps : deps[r].version = 0 THEN <<>>
        ELSE IF same # 0 THEN write(<<>>, same)
        ELSE IF Validated(q, d, deps) THEN write(<<d>>, newVersion) ELSE <<>>

(***************************************************************************)
(* Requests.  A dry run, a refused batch and a failed commit end alike.    *)
(***************************************************************************)
Ask(c, r) ==
    /\ request[c] = Idle /\ asked < MaxRequests
    /\ request' = [request EXCEPT ![c] = r] /\ asked' = asked + 1

putDefinitions(c, s, batch, ch) ==
    /\ \E order \in topoSort(batch) :
          Ask(c, [k |-> "apply", srv |-> s, channel |-> ch, batch |-> batch, todo |-> order, versions |-> None, plan |-> {}])
    /\ UNCHANGED <<definitions, dependencies, channels, defCache, contested, behind>>

Planned(q, w) ==
    [q EXCEPT !.todo = Tail(q.todo), !.plan = q.plan \cup {w}, !.versions = Over([n \in {w.name} |-> w.version], q.versions)]

planBatch(c) ==
    LET q == request[c]
        w == planDefinition(q)
        read == {<<d.name, d.version>> : d \in Range(w[1].deps)}
    IN  /\ q.k = "apply" /\ q.todo # <<>>
        /\ request' = [request EXCEPT ![c] = IF w = <<>> THEN Idle ELSE Planned(q, w[1])]
        /\ defCache' = IF w = <<>> \/ w[1].def = <<>> THEN defCache
                       ELSE [defCache EXCEPT ![q.srv] = Cached(q.srv, read \ {<<n, q.versions[n]>> : n \in DOMAIN q.versions})]
        /\ UNCHANGED <<definitions, dependencies, channels, asked, contested, behind>>

validateDefinitions(c) ==
    /\ request[c].k = "apply" /\ request[c].todo = <<>>
    /\ request' = [request EXCEPT ![c] = Idle]
    /\ UNCHANGED <<definitions, dependencies, channels, defCache, asked, contested, behind>>

\* The statements of a commit.  A version already there keeps its hash.
KeyOf(w) == <<w.name, w.version>>
InsertDefinition(ws) ==
    [k \in {KeyOf(w) : w \in ws} |->
        LET w == CHOOSE w \in ws : KeyOf(w) = k
        IN  [doc |-> w.def[1], hash |-> IF k \in DOMAIN definitions THEN definitions[k].hash ELSE contentHash(w.def[1], w.deps)]]
InsertDependency(ws) == [k \in {KeyOf(w) : w \in ws} |-> (CHOOSE w \in ws : KeyOf(w) = k).deps]
UpsertChannel(ws) ==
    [p \in UNION {{w.name} \X w.to : w \in ws} |-> (CHOOSE w \in ws : w.name = p[1]).version]

NewKeys(q) == {KeyOf(w) : w \in {w \in q.plan : w.def # <<>>}}

\* A read that is under way has the row as it was before a commit of keys.
Outdated(keys) ==
    [c \in Clients |-> IF request[c].k = "read" /\ request[c].key \in keys THEN [request[c] EXCEPT !.late = TRUE] ELSE request[c]]

ApplyDefinitions(c) ==
    LET q == request[c]
        new == {w \in q.plan : w.def # <<>>}
        others == UNION {NewKeys(request[e]) : e \in {e \in Clients \ {c} : request[e].k = "apply"}}
    IN  /\ q.k = "apply" /\ q.todo = <<>>
        /\ definitions' = Over(InsertDefinition(new), definitions)
        /\ dependencies' = Over(InsertDependency(new), dependencies)
        /\ channels' = Over(UpsertChannel(q.plan), channels)
        /\ request' = [Outdated(NewKeys(q)) EXCEPT ![c] = [k |-> "committed", srv |-> q.srv, keys |-> NewKeys(q)]]
        /\ contested' = contested \cup (NewKeys(q) \cap others)
        /\ behind' = behind \cup {e \in (Servers \ {q.srv}) \X NewKeys(q) : e[2] \in DOMAIN defCache[e[1]]}
        /\ UNCHANGED <<defCache, asked>>

dropCached_keeps(c) ==
    LET q == request[c]
    IN  /\ q.k = "committed"
        /\ request' = [request EXCEPT ![c] = Idle]
        /\ UNCHANGED <<definitions, dependencies, channels, defCache, asked, contested, behind>>

\* After the commit, on the server that made it.
dropCached(c) ==
    LET q == request[c]
    IN  /\ q.k = "committed"
        /\ defCache' = [defCache EXCEPT ![q.srv] = [k \in DOMAIN @ \ q.keys |-> @[k]]]
        /\ behind' = behind \ ({q.srv} \X q.keys)
        /\ request' = [request EXCEPT ![c] = Idle]
        /\ UNCHANGED <<definitions, dependencies, channels, asked, contested>>

\* A read that misses the cache: the row, and later the store, with anything in between.
readRow(c, s, key) ==
    /\ key \in DOMAIN definitions \ DOMAIN defCache[s]
    /\ Ask(c, [k |-> "read", srv |-> s, key |-> key, doc |-> definitions[key].doc, late |-> FALSE])
    /\ UNCHANGED <<definitions, dependencies, channels, defCache, contested, behind>>

storeCached(c) ==
    LET q == request[c]
        entry == {<<q.srv, q.key>>}
    IN  /\ q.k = "read"
        /\ defCache' = [defCache EXCEPT ![q.srv] = Over([x \in {q.key} |-> q.doc], @)]
        /\ behind' = IF q.late THEN behind \cup entry ELSE behind \ entry
        /\ request' = [request EXCEPT ![c] = Idle]
        /\ UNCHANGED <<definitions, dependencies, channels, asked, contested>>

putChannel(c, s, key, ch) ==
    /\ request[c] = Idle /\ asked < MaxRequests /\ asked' = asked + 1
    /\ GetDefinition(s, key) # <<>>
    /\ channels' = Over([p \in {<<key[1], ch>>} |-> key[2]], channels)
    /\ defCache' = [defCache EXCEPT ![s] = Cached(s, {key})]
    /\ UNCHANGED <<definitions, dependencies, request, contested, behind>>

deleteChannel(c, n, ch) ==
    /\ request[c] = Idle /\ asked < MaxRequests /\ asked' = asked + 1
    /\ <<n, ch>> \in DOMAIN channels
    /\ channels' = [p \in DOMAIN channels \ {<<n, ch>>} |-> channels[p]]
    /\ UNCHANGED <<definitions, dependencies, defCache, request, contested, behind>>

LoadDefinitionsOnChannel(ch) == {<<p[1], channels[p]>> : p \in {x \in DOMAIN channels : x[2] = ch}}

\* Those of the loaded definitions that a root reaches through them.
subtree(loaded, root) ==
    LET next(ns) == {ref.name : ref \in UNION {Range(definitions[k].doc.refs) : k \in {x \in loaded : x[1] \in ns}}}
        reach[i \in 0 .. Cardinality(Names)] == IF i = 0 THEN {root} ELSE reach[i - 1] \cup next(reach[i - 1])
    IN  {k \in loaded : k[1] \in reach[Cardinality(Names)]}

promoteChannel(c, s, from, to, root) ==
    LET loaded == LoadDefinitionsOnChannel(from)
    IN  /\ from # to
        /\ Ask(c, [k |-> "promote", srv |-> s, to |-> to, todo |-> IF root = <<>> THEN loaded ELSE subtree(loaded, root[1])])
        /\ UNCHANGED <<definitions, dependencies, channels, defCache, contested, behind>>

\* One channel at a time, each a transaction of its own.
SaveChannel(c) ==
    LET q == request[c]
    IN  /\ q.k = "promote"
        /\ IF q.todo = {} THEN request' = [request EXCEPT ![c] = Idle] /\ UNCHANGED channels
           ELSE \E key \in q.todo :
                   /\ channels' = Over([p \in {<<key[1], q.to>>} |-> key[2]], channels)
                   /\ request' = [request EXCEPT ![c].todo = @ \ {key}]
        /\ UNCHANGED <<definitions, dependencies, defCache, asked, contested, behind>>

\* A server stops: its cache and its requests are gone, what it committed stays.
Restart(s) ==
    /\ asked < MaxRequests /\ asked' = asked + 1
    /\ defCache' = [defCache EXCEPT ![s] = None]
    /\ request' = [c \in Clients |-> IF request[c] # Idle /\ request[c].srv = s THEN Idle ELSE request[c]]
    /\ behind' = {e \in behind : e[1] # s}
    /\ UNCHANGED <<definitions, dependencies, channels, contested>>

Next ==
    \/ \E c \in Clients : \/ planBatch(c) \/ validateDefinitions(c) \/ ApplyDefinitions(c) \/ dropCached(c)
                          \/ storeCached(c) \/ SaveChannel(c)
    \/ \E c \in Clients, s \in Servers :
          \/ \E b \in Batches, ch \in Channels : putDefinitions(c, s, b, ch)
          \/ \E key \in DOMAIN definitions : readRow(c, s, key)
          \/ \E key \in DOMAIN definitions, ch \in Channels : putChannel(c, s, key, ch)
          \/ \E from, to \in Channels, root \in {<<>>} \cup {<<n>> : n \in Names} : promoteChannel(c, s, from, to, root)
    \/ \E c \in Clients, n \in Names, ch \in Channels : deleteChannel(c, n, ch)
    \/ \E s \in Servers : Restart(s)

Spec == Init /\ [][Next]_vars

(***************************************************************************)
(* Properties.                                                             *)
(***************************************************************************)
\* What a registered parent would spawn now is a stored version that agrees with it, whatever was
\* applied, moved or promoted since its registration (db_registry.go:242, planBatch): the types
\* registration checked across the call are those of the child that runs.  Not so for a child
\* whose version two applies planned at one time: the second to commit replaced what the parent
\* was checked against.
SpawnChecked ==
    \A k \in DOMAIN definitions : \A r \in DOMAIN definitions[k].doc.refs :
        LET child == <<definitions[k].doc.refs[r].name, ResolveChildVersion(k[1], k[2], r)>>
        IN  /\ child \in DOMAIN definitions
            /\ child \in contested \/ <<definitions[k].doc, definitions[child].doc>> \in Agree

\* A server runs the definition that is stored, or one it has no way to know was replaced
\* (db_registry.go:137-142, 147-166): a cached document differs from the row only for a version
\* two applies planned at one time, between a commit and its drop on the server that made it, or
\* when another server's commit came after the entry, or a commit after the read that filled it.
CacheAgrees ==
    \A s \in Servers : \A k \in DOMAIN defCache[s] :
        /\ k \in DOMAIN definitions
        /\ \/ defCache[s][k] = definitions[k].doc
           \/ /\ k \in contested
              /\ \/ <<s, k>> \in behind
                 \/ \E c \in Clients : request[c].k = "committed" /\ request[c].srv = s /\ k \in request[c].keys

\* A version once stored keeps its document and the children it was pinned to, and its hash finds
\* only its own content, unless another apply had planned the same version before it was stored
\* (planBatch takes LatestVersion + 1 outside the commit, InsertDefinition's conflict path writes
\* over it): deduplication and instances on the version rest on this.
VersionsKept ==
    [][\A k \in DOMAIN definitions \ contested :
          /\ definitions'[k] = definitions[k] /\ dependencies'[k] = dependencies[k]
          /\ definitions[k].hash = contentHash(definitions[k].doc, dependencies[k])]_vars

\* A stored version never changes: "the immutable versioned blueprint" (model/definition.go:329).
VersionsFixed ==
    [][\A k \in DOMAIN definitions : definitions'[k].doc = definitions[k].doc]_vars

=============================================================================
