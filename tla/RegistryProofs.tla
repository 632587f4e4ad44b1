--------------------------- MODULE RegistryProofs ---------------------------
(***************************************************************************)
(* Proofs about Registry, for any documents, batches, channels, servers    *)
(* and clients, and any overlap of their requests: a cache differs from    *)
(* what is stored only where its server cannot know, what a parent would   *)
(* spawn was checked against it, and a stored version does not change,     *)
(* the last two but for versions that two applies had planned at one time. *)
(***************************************************************************)
EXTENDS Registry, FiniteSetTheorems, WellFoundedInduction, TLAPS

(* The documents stored, each with its key, and those a plan will store.   *)
Stored == {<<k, definitions[k].doc>> : k \in DOMAIN definitions}
ToStore(plan) == {<<KeyOf(w), w.def[1]>> : w \in {w \in plan : w.def # <<>>}}

(* Document d, to run as version v with the pins deps: every reference is  *)
(* to d itself or pinned to the version asked for, and the document known  *)
(* under the pin agrees with d, unless the version is one of open.         *)
Checked(d, v, deps, known, open) ==
    \A r \in DOMAIN d.refs :
        IF r \in DOMAIN deps
        THEN /\ ~isSelfRef(d, d.refs[r], v)
             /\ deps[r].name = d.refs[r].name
             /\ d.refs[r].version # 0 => deps[r].version = d.refs[r].version
             /\ \E e \in Docs : /\ <<<<deps[r].name, deps[r].version>>, e>> \in known
                                /\ <<d, e>> \in Agree \/ <<deps[r].name, deps[r].version>> \in open
        ELSE isSelfRef(d, d.refs[r], v) /\ <<d, d>> \in Agree

(* What is stored.                                                         *)
Kept ==
    /\ DOMAIN dependencies = DOMAIN definitions
    /\ \E b \in Nat : \A k \in DOMAIN definitions : k \in Names \X (1 .. b)
    /\ \A k \in DOMAIN definitions :
          /\ definitions[k].doc \in Docs /\ definitions[k].doc.name = k[1]
          /\ k \in contested \/ definitions[k].hash = contentHash(definitions[k].doc, dependencies[k])
          /\ Checked(definitions[k].doc, k[2], dependencies[k], Stored, contested)

(* Write w of a plan, for document d: d is stored as that version, or was  *)
(* checked against what is stored and what the plan will store and the     *)
(* version is free; another apply may have stored the version since.       *)
Writes(plan, d, w) ==
    \/ /\ w.def = <<>> /\ KeyOf(w) \in DOMAIN definitions
       /\ definitions[KeyOf(w)].doc = d \/ KeyOf(w) \in contested
    \/ /\ w.def = <<d>>
       /\ KeyOf(w) \notin DOMAIN definitions \/ KeyOf(w) \in contested
       /\ Checked(d, w.version, w.deps, Stored \cup ToStore(plan), contested)

(* A write of q's plan is for a document of its batch.                     *)
WriteOK(q, w) ==
    /\ w.name \in DOMAIN q.versions /\ q.versions[w.name] = w.version
    /\ \E d \in q.batch : d.name = w.name /\ Writes(q.plan, d, w)

(* An apply under way: the rest of its batch in order, the versions its    *)
(* planned documents will have, and their writes, one per name.            *)
PlanOK(q) ==
    /\ q = [k |-> "apply", srv |-> q.srv, channel |-> q.channel, batch |-> q.batch,
            todo |-> q.todo, versions |-> q.versions, plan |-> q.plan]
    /\ q.srv \in Servers /\ q.batch \in Batches
    /\ q.todo \in Seq(q.batch)
    /\ \A i, j \in DOMAIN q.todo : q.todo[i].name = q.todo[j].name => i = j
    /\ \A i \in DOMAIN q.todo : q.todo[i].name \notin DOMAIN q.versions
    /\ \A n \in DOMAIN q.versions : \E w \in q.plan : w.name = n
    /\ \A w, x \in q.plan : w.name = x.name => w = x
    /\ \E b \in Nat : \A w \in q.plan : w.version \in 1 .. b
    /\ \A w \in q.plan : WriteOK(q, w)

(* A read under way carries what is stored, or knows it is late.           *)
ReadOK(q) ==
    /\ q = [k |-> "read", srv |-> q.srv, key |-> q.key, doc |-> q.doc, late |-> q.late]
    /\ q.srv \in Servers /\ q.key \in DOMAIN definitions
    /\ q.doc = definitions[q.key].doc \/ (q.late = TRUE /\ q.key \in contested)

(* What a client may be in the middle of.                                  *)
RequestOK(q) ==
    \/ q = Idle
    \/ q.k = "apply" /\ PlanOK(q)
    \/ q.k = "committed" /\ q.srv \in Servers
    \/ q.k = "read" /\ ReadOK(q)
    \/ q.k = "promote" /\ q = [k |-> "promote", srv |-> q.srv, to |-> q.to, todo |-> q.todo]

(* The inductive invariant.                                                *)
IInv ==
    /\ request = [c \in Clients |-> request[c]] /\ defCache = [s \in Servers |-> defCache[s]]
    /\ Kept
    /\ CacheAgrees
    /\ \A c \in Clients : RequestOK(request[c])

(* A non-empty set of numbers with a bound has a largest one.              *)
LEMMA LargestExists ==
    ASSUME NEW b \in Nat, NEW S, S \subseteq 0 .. b, S # {}
    PROVE  Max(S) \in S /\ \A y \in S : Max(S) >= y
<1>1. \E x \in S : \A y \in S : x >= y
  <2> DEFINE T == {b - x : x \in S}
  <2>0. \A x \in S : x \in Nat /\ b - x \in Nat
    OBVIOUS
  <2>1. T \subseteq Nat /\ T # {}
    BY <2>0
  <2> HIDE DEF T
  <2>2. PICK m \in T : \A t \in T : <<t, m>> \notin OpToRel(<, Nat)
    BY <2>1, WFMin, NatLessThanWellFounded
  <2>3. PICK x \in S : m = b - x
    BY <2>2 DEF T
  <2>4. ASSUME NEW y \in S  PROVE x >= y
    <3>1. b - y \in T /\ b - y \in Nat /\ m \in Nat
      BY <2>1 DEF T
    <3>2. ~(b - y < m)
      BY <2>2, <3>1 DEF OpToRel
    <3>3. x \in Nat /\ y \in Nat
      OBVIOUS
    <3> QED  BY <2>3, <3>2, <3>3
  <2> QED  BY <2>3, <2>4
<1> QED  BY <1>1 DEF Max

(* What Over is.                                                           *)
LEMMA OverFacts ==
    ASSUME NEW f, NEW g
    PROVE  /\ DOMAIN Over(f, g) = DOMAIN f \cup DOMAIN g
           /\ \A x \in DOMAIN f : Over(f, g)[x] = f[x]
           /\ \A x \in DOMAIN g \ DOMAIN f : Over(f, g)[x] = g[x]
  BY DEF Over

(* The versions of a name.                                                 *)
LEMMA VersionsBounded ==
    ASSUME Kept, NEW n
    PROVE  /\ \E b \in Nat : VersionsOf(n) \subseteq 1 .. b
           /\ \A v : v \in VersionsOf(n) <=> <<n, v>> \in DOMAIN definitions
<1>1. PICK b \in Nat : \A k \in DOMAIN definitions : k \in Names \X (1 .. b)
  BY DEF Kept
<1>2. \A k \in DOMAIN definitions : k = <<k[1], k[2]>> /\ k[2] \in 1 .. b
  BY <1>1
<1>3. VersionsOf(n) \subseteq 1 .. b
  BY <1>2 DEF VersionsOf
<1>4. ASSUME NEW v  PROVE v \in VersionsOf(n) <=> <<n, v>> \in DOMAIN definitions
  <2>1. ASSUME v \in VersionsOf(n)  PROVE <<n, v>> \in DOMAIN definitions
    <3>1. PICK k \in DOMAIN definitions : k[1] = n /\ k[2] = v
      BY <2>1 DEF VersionsOf
    <3> QED  BY <1>2, <3>1
  <2>2. ASSUME <<n, v>> \in DOMAIN definitions  PROVE v \in VersionsOf(n)
    BY <2>2 DEF VersionsOf
  <2> QED  BY <2>1, <2>2
<1> QED  BY <1>3, <1>4

(* The version after the latest is not taken.                              *)
LEMMA NextVersionFree ==
    ASSUME Kept, NEW n
    PROVE  LatestVersion(n) \in Nat /\ <<n, LatestVersion(n) + 1>> \notin DOMAIN definitions
<1>1. PICK b \in Nat : VersionsOf(n) \subseteq 1 .. b
  BY VersionsBounded
<1> DEFINE S == {0} \cup VersionsOf(n)
<1>2. S \subseteq 0 .. b /\ S # {}
  BY <1>1
<1>3. Max(S) \in S /\ \A y \in S : Max(S) >= y
  <2> HIDE DEF S
  <2> QED  BY <1>2, LargestExists
<1>4. LatestVersion(n) = Max(S)
  BY DEF LatestVersion
<1> HIDE DEF S
<1>5. Max(S) \in Nat /\ Max(S) + 1 \notin S
  <2>1. PICK m : m = Max(S)
    OBVIOUS
  <2>2. m \in 0 .. b /\ \A y \in S : m >= y
    BY <1>2, <1>3, <2>1
  <2>3. m \in Nat /\ m + 1 \notin S
    <3>1. m \in Nat /\ ~(m >= m + 1)
      BY <2>2
    <3> QED  BY <2>2, <3>1
  <2> QED  BY <2>1, <2>3
<1>6. LatestVersion(n) + 1 \notin VersionsOf(n)
  BY <1>4, <1>5 DEF S
<1> QED  BY <1>4, <1>5, <1>6, VersionsBounded

(* A version found by its hash is stored with that hash.                   *)
LEMMA FoundIsStored ==
    ASSUME Kept, NEW n, NEW h, FindVersionByHash(n, h) # 0
    PROVE  /\ FindVersionByHash(n, h) \in Nat \ {0}
           /\ <<n, FindVersionByHash(n, h)>> \in DOMAIN definitions
           /\ definitions[<<n, FindVersionByHash(n, h)>>].hash = h
<1>1. PICK b \in Nat : VersionsOf(n) \subseteq 1 .. b
  BY VersionsBounded
<1> DEFINE V == {v \in VersionsOf(n) : definitions[<<n, v>>].hash = h}
           S == {0} \cup V
<1>2. S \subseteq 0 .. b /\ S # {}
  BY <1>1
<1>3. Max(S) \in S
  <2> HIDE DEF S
  <2> QED  BY <1>2, LargestExists
<1>4. FindVersionByHash(n, h) = Max(S)
  BY DEF FindVersionByHash
<1>5. FindVersionByHash(n, h) \in V
  <2> HIDE DEF V
  <2> QED  BY <1>3, <1>4
<1>6. FindVersionByHash(n, h) \in VersionsOf(n)
      /\ definitions[<<n, FindVersionByHash(n, h)>>].hash = h
  <2> HIDE DEF FindVersionByHash
  <2> QED  BY <1>5
<1>7. FindVersionByHash(n, h) \in 1 .. b
  BY <1>1, <1>6
<1> QED  BY <1>6, <1>7, VersionsBounded

(* More is known: everything, or another document of an open version.      *)
Covers(more, open, known) ==
    \A x \in known : x \in more \/ (x[1] \in open /\ \E f \in Docs : <<x[1], f>> \in more)

(* Knowing more unchecks nothing.                                          *)
LEMMA CheckedGrows ==
    ASSUME NEW d, NEW v, NEW deps, NEW known, NEW open, NEW more, NEW wide,
           open \subseteq wide, Covers(more, wide, known), Checked(d, v, deps, known, open)
    PROVE  Checked(d, v, deps, more, wide)
<1> SUFFICES ASSUME NEW r \in DOMAIN d.refs, r \in DOMAIN deps,
                    NEW key, key = <<deps[r].name, deps[r].version>>
             PROVE  \E e \in Docs : <<key, e>> \in more /\ (<<d, e>> \in Agree \/ key \in wide)
  BY DEF Checked
<1>1. PICK e \in Docs : <<key, e>> \in known /\ (<<d, e>> \in Agree \/ key \in open)
  BY DEF Checked
<1>2. PICK x : x = <<key, e>>
  OBVIOUS
<1>3. x[1] = key
  BY <1>2
<1>4. x \in more \/ (x[1] \in wide /\ \E f \in Docs : <<x[1], f>> \in more)
  BY <1>1, <1>2 DEF Covers
<1> QED  BY <1>1, <1>2, <1>3, <1>4

(* A child that planning found is stored, or will be by the same commit,   *)
(* as another document only if its version is contested.                   *)
LEMMA SeenIsKnown ==
    ASSUME Kept, CacheAgrees, NEW q, PlanOK(q), NEW pin, childSeen(q, pin) # <<>>
    PROVE  \E e \in Docs : /\ <<<<pin.name, pin.version>>, e>> \in Stored \cup ToStore(q.plan)
                           /\ childSeen(q, pin) = <<e>> \/ <<pin.name, pin.version>> \in contested
<1> DEFINE taken == {d \in q.batch : /\ d.name = pin.name /\ pin.name \in DOMAIN q.versions
                                     /\ q.versions[pin.name] = pin.version}
           key == <<pin.name, pin.version>>
<1>0. q.srv \in Servers /\ q.batch \in Batches
  BY DEF PlanOK
<1>1. childSeen(q, pin) = IF taken # {} THEN <<CHOOSE d \in taken : TRUE>> ELSE GetDefinition(q.srv, key)
  <2>1. {d \in {d \in q.batch : d.name = pin.name /\ pin.name \in DOMAIN q.versions} :
           q.versions[pin.name] = pin.version} = taken
    OBVIOUS
  <2> QED  BY <2>1 DEF childSeen
<1>2. CASE taken # {}
  <2>1. PICK e \in taken : e = CHOOSE d \in taken : TRUE
    BY <1>2
  <2>2. PICK w \in q.plan : w.name = pin.name
    BY <2>1 DEF PlanOK
  <2>3. WriteOK(q, w)
    BY DEF PlanOK
  <2>4. PICK d \in q.batch :
          /\ d.name = w.name
          /\ \/ /\ KeyOf(w) \in DOMAIN definitions
                /\ definitions[KeyOf(w)].doc = d \/ KeyOf(w) \in contested
             \/ w.def = <<d>>
    BY <2>3 DEF WriteOK, Writes
  <2>5. d = e /\ e \in Docs
    BY <1>0, <2>1, <2>2, <2>4, RegistryAssumption DEF RegistryAssumption
  <2>6. KeyOf(w) = key
    BY <2>1, <2>2, <2>3 DEF WriteOK, KeyOf
  <2> HIDE DEF taken, key
  <2>7. \E f \in Docs : <<key, f>> \in Stored \cup ToStore(q.plan) /\ (f = e \/ key \in contested)
    <3>1. CASE KeyOf(w) \in DOMAIN definitions
               /\ (definitions[KeyOf(w)].doc = d \/ KeyOf(w) \in contested)
      <4>1. definitions[key].doc \in Docs /\ <<key, definitions[key].doc>> \in Stored
        BY <2>6, <3>1 DEF Stored, Kept
      <4> QED  BY <2>5, <2>6, <3>1, <4>1
    <3>2. CASE w.def = <<d>>
      <4>1. w.def # <<>> /\ w.def[1] = e
        BY <2>5, <3>2
      <4> QED  BY <2>5, <2>6, <4>1 DEF ToStore
    <3> QED  BY <2>4, <3>1, <3>2
  <2> QED  BY <1>1, <1>2, <2>1, <2>7 DEF key
<1>3. CASE taken = {}
  <2> HIDE DEF taken, key
  <2>1. childSeen(q, pin) = GetDefinition(q.srv, key)
    BY <1>1, <1>3
  <2>2. key \in DOMAIN definitions
        /\ (GetDefinition(q.srv, key) = <<definitions[key].doc>> \/ key \in contested)
    BY <1>0, <2>1 DEF GetDefinition, CacheAgrees
  <2>3. <<key, definitions[key].doc>> \in Stored /\ definitions[key].doc \in Docs
    BY <2>2 DEF Stored, Kept
  <2> QED  BY <2>1, <2>2, <2>3 DEF key
<1> QED  BY <1>2, <1>3

(* A document whose checks passed may be stored with the pins it was       *)
(* checked with.                                                           *)
LEMMA ValidatedIsChecked ==
    ASSUME Kept, CacheAgrees, NEW q, PlanOK(q), NEW d, NEW v, NEW ch,
           NEW deps, deps = buildResolvedDeps(d, v, ch, q.versions),
           Validated(q, d, deps)
    PROVE  Checked(d, v, deps, Stored \cup ToStore(q.plan), contested)
<1> SUFFICES ASSUME NEW r \in DOMAIN d.refs
             PROVE  IF r \in DOMAIN deps
                    THEN /\ ~isSelfRef(d, d.refs[r], v)
                         /\ deps[r].name = d.refs[r].name
                         /\ d.refs[r].version # 0 => deps[r].version = d.refs[r].version
                         /\ \E e \in Docs :
                              /\ <<<<deps[r].name, deps[r].version>>, e>> \in Stored \cup ToStore(q.plan)
                              /\ <<d, e>> \in Agree \/ <<deps[r].name, deps[r].version>> \in contested
                    ELSE isSelfRef(d, d.refs[r], v) /\ <<d, d>> \in Agree
  BY DEF Checked
<1>1. r \in DOMAIN deps <=> ~isSelfRef(d, d.refs[r], v)
  BY DEF buildResolvedDeps
<1>2. CASE r \in DOMAIN deps
  <2>1. deps[r].name = d.refs[r].name
        /\ (d.refs[r].version # 0 => deps[r].version = d.refs[r].version)
    BY <1>2 DEF buildResolvedDeps, resolveChildVersion
  <2>2. childSeen(q, deps[r]) # <<>> /\ <<d, childSeen(q, deps[r])[1]>> \in Agree
    BY <1>2 DEF Validated
  <2>3. PICK pin : pin = deps[r]
    OBVIOUS
  <2>4. PICK e \in Docs : /\ <<<<pin.name, pin.version>>, e>> \in Stored \cup ToStore(q.plan)
                          /\ childSeen(q, pin) = <<e>> \/ <<pin.name, pin.version>> \in contested
    BY <2>2, <2>3, SeenIsKnown
  <2>5. <<d, e>> \in Agree \/ <<pin.name, pin.version>> \in contested
    BY <2>2, <2>3, <2>4
  <2> QED  BY <1>1, <1>2, <2>1, <2>3, <2>4, <2>5
<1>3. CASE r \notin DOMAIN deps
  <2>1. <<d, d>> \in Agree
    BY <1>3 DEF Validated
  <2> QED  BY <1>1, <1>3, <2>1
<1> QED  BY <1>2, <1>3

(* What planning a document yields.                                        *)
PlannedFor(q, d, w) == w.name = d.name /\ w.version \in Nat \ {0} /\ Writes(q.plan, d, w)

(* Planning a document yields a version found by its hash, or a free one   *)
(* for a document that passed its checks.                                  *)
LEMMA PlanGives ==
    ASSUME Kept, CacheAgrees, NEW q, PlanOK(q), planDefinition(q) # <<>>
    PROVE  \E w : planDefinition(q) = <<w>> /\ PlannedFor(q, Head(q.todo), w)
<1>1. PICK d, n, v : d = Head(q.todo) /\ n = d.name /\ v = LatestVersion(n) + 1
  OBVIOUS
<1>2. PICK deps : deps = buildResolvedDeps(d, v, q.channel, q.versions)
  OBVIOUS
<1>3. PICK same : same = FindVersionByHash(n, contentHash(d, deps))
  OBVIOUS
<1>4. v \in Nat \ {0} /\ <<n, v>> \notin DOMAIN definitions
  BY <1>1, NextVersionFree
<1> DEFINE write(def, x) == [def |-> def, name |-> n, version |-> x, deps |-> deps,
                             to |-> channelsFor(n, q.channel)]
<1>5. \/ same # 0 /\ planDefinition(q) = <<write(<<>>, same)>>
      \/ Validated(q, d, deps) /\ planDefinition(q) = <<write(<<d>>, v)>>
  BY <1>1, <1>2, <1>3 DEF planDefinition
<1>6. CASE same # 0 /\ planDefinition(q) = <<write(<<>>, same)>>
  <2>1. PICK w : w = write(<<>>, same)
    OBVIOUS
  <2>2. w.name = n /\ w.version = same /\ w.def = <<>>
    BY <2>1
  <2>3. /\ same \in Nat \ {0} /\ <<n, same>> \in DOMAIN definitions
        /\ definitions[<<n, same>>].hash = contentHash(d, deps)
    BY <1>3, <1>6, FoundIsStored
  <2>4. definitions[<<n, same>>].doc = d \/ <<n, same>> \in contested
    BY <2>3 DEF Kept, contentHash
  <2>5. PlannedFor(q, d, w)
    BY <1>1, <2>2, <2>3, <2>4 DEF PlannedFor, Writes, KeyOf
  <2> QED  BY <1>1, <1>6, <2>1, <2>5
<1>7. CASE Validated(q, d, deps) /\ planDefinition(q) = <<write(<<d>>, v)>>
  <2>1. PICK w : w = write(<<d>>, v)
    OBVIOUS
  <2>2. w.name = n /\ w.version = v /\ w.def = <<d>> /\ w.deps = deps
    BY <2>1
  <2>3. Checked(d, v, deps, Stored \cup ToStore(q.plan), contested)
    BY <1>2, <1>7, ValidatedIsChecked
  <2>4. PlannedFor(q, d, w)
    BY <1>1, <1>4, <2>2, <2>3 DEF PlannedFor, Writes, KeyOf
  <2> QED  BY <1>1, <1>7, <2>1, <2>4
<1> QED  BY <1>5, <1>6, <1>7

(* The plan with one more write is a plan.                                 *)
LEMMA PlanStep ==
    ASSUME NEW q, PlanOK(q), q.todo # <<>>, NEW w, PlannedFor(q, Head(q.todo), w)
    PROVE  PlanOK(Planned(q, w)) /\ Planned(q, w).k = "apply" /\ Planned(q, w).batch = q.batch
<1>1. PICK z : z = Planned(q, w)
  OBVIOUS
<1>2. /\ z = [k |-> "apply", srv |-> q.srv, channel |-> q.channel, batch |-> q.batch,
              todo |-> Tail(q.todo), plan |-> q.plan \cup {w},
              versions |-> Over([n \in {w.name} |-> w.version], q.versions)]
  <2>1. PICK a1, a2, a3, a4, a5, a6 :
          q = [k |-> "apply", srv |-> a1, channel |-> a2, batch |-> a3,
               todo |-> a4, versions |-> a5, plan |-> a6]
    BY DEF PlanOK
  <2>2. /\ q.srv = a1 /\ q.channel = a2 /\ q.batch = a3 /\ q.todo = a4
        /\ q.versions = a5 /\ q.plan = a6
    BY <2>1
  <2>3. PICK t, y, u : t = Tail(q.todo) /\ y = q.plan \cup {w}
                       /\ u = Over([n \in {w.name} |-> w.version], q.versions)
    OBVIOUS
  <2>4. z = [q EXCEPT !.todo = t, !.plan = y, !.versions = u]
    BY <1>1, <2>3 DEF Planned
  <2>5. z = [k |-> "apply", srv |-> a1, channel |-> a2, batch |-> a3,
             todo |-> t, plan |-> y, versions |-> u]
    BY <2>1, <2>4
  <2> QED  BY <2>2, <2>3, <2>5
<1>3. /\ z.k = "apply" /\ z.srv = q.srv /\ z.channel = q.channel /\ z.batch = q.batch
      /\ z.todo = Tail(q.todo) /\ z.plan = q.plan \cup {w}
      /\ z.versions = Over([n \in {w.name} |-> w.version], q.versions)
      /\ z = [k |-> "apply", srv |-> z.srv, channel |-> z.channel, batch |-> z.batch,
              todo |-> z.todo, versions |-> z.versions, plan |-> z.plan]
  BY <1>2
<1>4. /\ DOMAIN z.versions = {w.name} \cup DOMAIN q.versions
      /\ z.versions[w.name] = w.version
      /\ \A n \in DOMAIN q.versions \ {w.name} : z.versions[n] = q.versions[n]
  <2>1. PICK f : f = [n \in {w.name} |-> w.version]
    OBVIOUS
  <2>2. DOMAIN f = {w.name} /\ f[w.name] = w.version
    BY <2>1
  <2>3. PICK g : g = q.versions
    OBVIOUS
  <2>4. z.versions = Over(f, g)
    BY <1>3, <2>1, <2>3
  <2>5. /\ DOMAIN Over(f, g) = DOMAIN f \cup DOMAIN g
        /\ \A x \in DOMAIN f : Over(f, g)[x] = f[x]
        /\ \A x \in DOMAIN g \ DOMAIN f : Over(f, g)[x] = g[x]
    BY OverFacts
  <2> QED  BY <2>2, <2>3, <2>4, <2>5
<1>5. q.todo \in Seq(q.batch) /\ Head(q.todo) = q.todo[1] /\ 1 \in DOMAIN q.todo
      /\ q.todo[1] \in q.batch
  BY DEF PlanOK
<1>6. w.name = q.todo[1].name /\ w.name \notin DOMAIN q.versions
  BY <1>5 DEF PlanOK, PlannedFor
<1>7. /\ z.todo \in Seq(z.batch)
      /\ \A i \in DOMAIN z.todo : /\ i + 1 \in DOMAIN q.todo /\ z.todo[i] = q.todo[i + 1]
                                  /\ i \in Nat /\ i + 1 # 1
  <2>1. PICK B : B = q.batch
    OBVIOUS
  <2>2. PICK s \in Seq(B) : s = q.todo
    BY <1>5, <2>1
  <2>3. /\ Tail(s) \in Seq(B)
        /\ \A i \in DOMAIN Tail(s) : /\ i + 1 \in DOMAIN s /\ Tail(s)[i] = s[i + 1]
                                      /\ i \in Nat /\ i + 1 # 1
    BY <2>2
  <2> QED  BY <1>3, <2>1, <2>2, <2>3
<1>8. \A i, j \in DOMAIN z.todo : z.todo[i].name = z.todo[j].name => i = j
  <2> TAKE i, j \in DOMAIN z.todo
  <2>1. z.todo[i].name = z.todo[j].name => i + 1 = j + 1
    BY <1>7 DEF PlanOK
  <2> QED  BY <1>7, <2>1
<1>9. \A i \in DOMAIN z.todo : z.todo[i].name \notin DOMAIN z.versions
  <2> TAKE i \in DOMAIN z.todo
  <2>1. z.todo[i].name # w.name
    BY <1>5, <1>6, <1>7 DEF PlanOK
  <2>2. z.todo[i].name \notin DOMAIN q.versions
    BY <1>7 DEF PlanOK
  <2> QED  BY <1>4, <2>1, <2>2
<1>10. \A n \in DOMAIN z.versions : \E x \in z.plan : x.name = n
  BY <1>3, <1>4 DEF PlanOK
<1>11. \A x \in q.plan : x.name \in DOMAIN q.versions /\ x.name # w.name
  BY <1>6 DEF PlanOK, WriteOK
<1>12. \A x, y \in z.plan : x.name = y.name => x = y
  BY <1>3, <1>11 DEF PlanOK
<1>13. \E b \in Nat : \A x \in z.plan : x.version \in 1 .. b
  <2>1. PICK b \in Nat : \A x \in q.plan : x.version \in 1 .. b
    BY DEF PlanOK
  <2>2. PICK v \in Nat \ {0} : v = w.version
    BY DEF PlannedFor
  <2>3. b + v \in Nat /\ v \in 1 .. (b + v) /\ \A u \in 1 .. b : u \in 1 .. (b + v)
    OBVIOUS
  <2> QED  BY <1>3, <2>1, <2>2, <2>3
<1>14. Covers(Stored \cup ToStore(z.plan), contested, Stored \cup ToStore(q.plan))
  BY <1>3 DEF ToStore, Covers
<1>15. ASSUME NEW x \in z.plan  PROVE WriteOK(z, x)
  <2>0. ASSUME NEW d, Writes(q.plan, d, x)  PROVE Writes(z.plan, d, x)
    <3>1. Checked(d, x.version, x.deps, Stored \cup ToStore(q.plan), contested)
            => Checked(d, x.version, x.deps, Stored \cup ToStore(z.plan), contested)
      BY <1>14, CheckedGrows
    <3> QED  BY <2>0, <3>1 DEF Writes
  <2>1. CASE x = w
    <3>1. Head(q.todo) \in z.batch /\ Writes(z.plan, Head(q.todo), x)
      BY <1>3, <1>5, <2>0, <2>1 DEF PlannedFor
    <3> QED  BY <1>4, <1>5, <1>6, <2>1, <3>1 DEF WriteOK
  <2>2. CASE x \in q.plan
    <3>1. PICK d \in q.batch : d.name = x.name /\ Writes(q.plan, d, x)
      BY <2>2 DEF PlanOK, WriteOK
    <3>2. Writes(z.plan, d, x)
      BY <2>0, <3>1
    <3>3. x.name \in DOMAIN z.versions /\ z.versions[x.name] = x.version
      BY <1>4, <1>11, <2>2 DEF PlanOK, WriteOK
    <3> QED  BY <1>3, <3>1, <3>2, <3>3 DEF WriteOK
  <2> QED  BY <1>3, <2>1, <2>2
<1>16. PlanOK(z)
  <2>1. z.srv \in Servers /\ z.batch \in Batches
    BY <1>3 DEF PlanOK
  <2> QED  BY <1>3, <1>7, <1>8, <1>9, <1>10, <1>12, <1>13, <1>15, <2>1 DEF PlanOK
<1> QED  BY <1>1, <1>3, <1>16

(* While nothing is stored, nothing that was checked against it changes.   *)
LEMMA StoreSame ==
    ASSUME UNCHANGED <<definitions, dependencies, contested>>
    PROVE  /\ Kept => Kept'
           /\ \A q : RequestOK(q) => RequestOK(q)'
<1>1. Stored' = Stored /\ contested' = contested
  BY DEF Stored
<1>2. Kept => Kept'
  <2> SUFFICES ASSUME Kept  PROVE Kept'
    OBVIOUS
  <2>1. ASSUME NEW k \in DOMAIN definitions'
        PROVE  /\ definitions'[k].doc \in Docs /\ definitions'[k].doc.name = k[1]
               /\ k \in contested' \/ definitions'[k].hash = contentHash(definitions'[k].doc, dependencies'[k])
               /\ Checked(definitions'[k].doc, k[2], dependencies'[k], Stored', contested')
    BY <1>1 DEF Kept
  <2> QED  BY <2>1 DEF Kept
<1>3. ASSUME NEW q, PlanOK(q)  PROVE PlanOK(q)'
  <2>1. ASSUME NEW w \in q.plan, WriteOK(q, w)  PROVE WriteOK(q, w)'
    BY <1>1, <2>1 DEF WriteOK, Writes, Checked, isSelfRef, ToStore, KeyOf
  <2> QED  BY <1>3, <2>1 DEF PlanOK
<1>4. ASSUME NEW q, RequestOK(q)  PROVE RequestOK(q)'
  BY <1>1, <1>3, <1>4 DEF RequestOK, ReadOK, Idle
<1> QED  BY <1>2, <1>4

(* A step that stores nothing and gives one client another request.        *)
LEMMA Moves ==
    ASSUME IInv, UNCHANGED <<definitions, dependencies, contested>>, NEW c \in Clients, NEW r,
           request' = [request EXCEPT ![c] = r], RequestOK(r),
           defCache' = [s \in Servers |-> defCache'[s]], CacheAgrees'
    PROVE  IInv'
<1>1. /\ request' = [e \in Clients |-> request'[e]] /\ request'[c] = r
      /\ \A e \in Clients \ {c} : request'[e] = request[e]
  BY DEF IInv
<1>2. \A e \in Clients : RequestOK(request'[e])
  BY <1>1 DEF IInv
<1>3. \A e \in Clients : RequestOK(request[e])'
  <2> TAKE e \in Clients
  <2>1. PICK q : q = request'[e]
    OBVIOUS
  <2>2. RequestOK(q)
    BY <1>2, <2>1
  <2>3. RequestOK(q)'
    BY <2>2, StoreSame
  <2> QED  BY <2>1, <2>3
<1>4. Kept'
  BY StoreSame DEF IInv
<1> QED  BY <1>1, <1>3, <1>4 DEF IInv

(* A cache entry after a step that stores nothing: as stored, known to be  *)
(* behind, or as it was, with the drop that is due on it still to come.    *)
Entry(u, k) ==
    \/ k \in DOMAIN definitions /\ defCache'[u][k] = definitions[k].doc
    \/ k \in DOMAIN definitions /\ k \in contested /\ <<u, k>> \in behind'
    \/ /\ k \in DOMAIN defCache[u] /\ defCache'[u][k] = defCache[u][k]
       /\ <<u, k>> \in behind => <<u, k>> \in behind'
       /\ \A c \in Clients : request[c].k = "committed" /\ request[c].srv = u /\ k \in request[c].keys
                             => request'[c] = request[c]

(* Caches of such entries agree.                                           *)
LEMMA EntriesAgree ==
    ASSUME CacheAgrees, UNCHANGED <<definitions, contested>>,
           \A u \in Servers : \A k \in DOMAIN defCache'[u] : Entry(u, k)
    PROVE  CacheAgrees'
<1> SUFFICES ASSUME NEW u \in Servers, NEW k \in DOMAIN defCache'[u]
             PROVE  /\ k \in DOMAIN definitions
                    /\ \/ defCache'[u][k] = definitions[k].doc
                       \/ /\ k \in contested
                          /\ \/ <<u, k>> \in behind'
                             \/ \E c \in Clients : /\ request'[c].k = "committed" /\ request'[c].srv = u
                                                    /\ k \in request'[c].keys
  BY DEF CacheAgrees
<1>1. Entry(u, k)
  OBVIOUS
<1>2. k \in DOMAIN defCache[u] =>
        /\ k \in DOMAIN definitions
        /\ \/ defCache[u][k] = definitions[k].doc
           \/ /\ k \in contested
              /\ \/ <<u, k>> \in behind
                 \/ \E c \in Clients : request[c].k = "committed" /\ request[c].srv = u /\ k \in request[c].keys
  BY DEF CacheAgrees
<1> QED  BY <1>1, <1>2 DEF Entry

(* A step of a client with no drop to make, that may put what is stored    *)
(* into one cache.                                                         *)
LEMMA CacheStep ==
    ASSUME IInv, UNCHANGED <<definitions, contested, behind>>, NEW c \in Clients, NEW r,
           request' = [request EXCEPT ![c] = r], r = request[c] \/ request[c].k # "committed",
           \/ UNCHANGED defCache
           \/ \E s \in Servers : \E keys : defCache' = [defCache EXCEPT ![s] = Cached(s, keys)]
    PROVE  defCache' = [u \in Servers |-> defCache'[u]] /\ CacheAgrees'
<1>1. \A e \in Clients : request[e].k = "committed" => request'[e] = request[e]
  BY DEF IInv
<1>2. /\ defCache' = [u \in Servers |-> defCache'[u]]
      /\ \A u \in Servers : defCache'[u] = defCache[u] \/ \E keys : defCache'[u] = Cached(u, keys)
  BY DEF IInv
<1>3. ASSUME NEW u \in Servers, NEW k \in DOMAIN defCache'[u]  PROVE Entry(u, k)
  <2>1. CASE defCache'[u] = defCache[u]
    BY <1>1, <1>3, <2>1 DEF Entry
  <2>2. ASSUME NEW keys, defCache'[u] = Cached(u, keys)  PROVE Entry(u, k)
    <3>1. \/ k \in DOMAIN defCache[u] /\ defCache'[u][k] = defCache[u][k]
          \/ k \in DOMAIN definitions /\ defCache'[u][k] = definitions[k].doc
      BY <1>3, <2>2 DEF Cached, Over
    <3> QED  BY <1>1, <3>1 DEF Entry
  <2> QED  BY <1>2, <2>1, <2>2
<1>4. CacheAgrees'
  BY <1>3, EntriesAgree DEF IInv
<1> QED  BY <1>2, <1>4

(* putDefinitions: an apply begins, with nothing planned.                  *)
LEMMA PutInv ==
    ASSUME IInv, NEW c \in Clients, NEW s \in Servers, NEW b \in Batches, NEW ch \in Channels,
           putDefinitions(c, s, b, ch)
    PROVE  IInv'
<1>1. PICK order \in topoSort(b) :
        Ask(c, [k |-> "apply", srv |-> s, channel |-> ch, batch |-> b, todo |-> order,
                versions |-> None, plan |-> {}])
  BY DEF putDefinitions
<1>2. PICK r : r = [k |-> "apply", srv |-> s, channel |-> ch, batch |-> b, todo |-> order,
                    versions |-> None, plan |-> {}]
  OBVIOUS
<1>3. request' = [request EXCEPT ![c] = r]
  BY <1>1, <1>2 DEF Ask
<1>4. PICK n \in Nat : n = Cardinality(b)
  BY RegistryAssumption, FS_CardinalityType DEF RegistryAssumption
<1>5. order \in [1 .. n -> b] /\ \A i, j \in 1 .. n : i # j => order[i] # order[j]
  BY <1>4 DEF topoSort, SetToSeqs
<1>6. order \in Seq(b) /\ DOMAIN order = 1 .. n
  BY <1>5
<1>7. \A i, j \in DOMAIN order : order[i].name = order[j].name => i = j
  BY <1>5, <1>6, RegistryAssumption DEF RegistryAssumption
<1>8. /\ r.k = "apply" /\ r.srv = s /\ r.channel = ch /\ r.batch = b /\ r.todo = order
      /\ r.versions = None /\ r.plan = {}
  BY <1>2
<1>9. DOMAIN r.versions = {}
  BY <1>8 DEF None
<1>10. PlanOK(r)
  <2>1. r = [k |-> "apply", srv |-> r.srv, channel |-> r.channel, batch |-> r.batch,
             todo |-> r.todo, versions |-> r.versions, plan |-> r.plan]
    BY <1>2, <1>8
  <2>2. \E m \in Nat : \A w \in r.plan : w.version \in 1 .. m
    BY <1>4, <1>8
  <2> QED  BY <1>6, <1>7, <1>8, <1>9, <2>1, <2>2 DEF PlanOK
<1>11. request[c].k # "committed"
  BY <1>1 DEF Ask, Idle
<1>12. UNCHANGED <<definitions, dependencies, defCache, contested, behind>>
  BY DEF putDefinitions
<1>13. RequestOK(r)
  BY <1>8, <1>10 DEF RequestOK
<1>14. defCache' = [u \in Servers |-> defCache'[u]] /\ CacheAgrees'
  BY <1>3, <1>11, <1>12, CacheStep
<1> QED  BY <1>3, <1>12, <1>13, <1>14, Moves

(* planBatch: one document more is planned, or the apply is refused.       *)
LEMMA PlanInv ==
    ASSUME IInv, NEW c \in Clients, planBatch(c)
    PROVE  IInv'
<1>1. PICK q : q = request[c]
  OBVIOUS
<1>2. q.k = "apply" /\ q.todo # <<>> /\ UNCHANGED <<definitions, dependencies, contested, behind>>
  BY <1>1 DEF planBatch
<1>3. PlanOK(q)
  <2>1. RequestOK(q)
    BY <1>1 DEF IInv
  <2> QED  BY <1>2, <2>1 DEF RequestOK, Idle
<1>4. Kept /\ CacheAgrees
  BY DEF IInv
<1>5. CASE planDefinition(q) = <<>>
  <2>1. request' = [request EXCEPT ![c] = Idle] /\ defCache' = defCache
    BY <1>1, <1>5 DEF planBatch
  <2>2. RequestOK(Idle)
    BY DEF RequestOK, Idle
  <2>3. defCache' = [u \in Servers |-> defCache'[u]] /\ CacheAgrees'
    BY <1>1, <1>2, <2>1, CacheStep
  <2> QED  BY <1>2, <2>1, <2>2, <2>3, Moves
<1>6. CASE planDefinition(q) # <<>>
  <2>1. PICK w : planDefinition(q) = <<w>> /\ PlannedFor(q, Head(q.todo), w)
    BY <1>3, <1>4, <1>6, PlanGives
  <2>2. PICK z : z = Planned(q, w)
    OBVIOUS
  <2>3. PlanOK(z) /\ z.k = "apply"
    BY <1>2, <1>3, <2>1, <2>2, PlanStep
  <2>4. <<w>>[1] = w /\ <<w>> # <<>>
    OBVIOUS
  <2>5. request' = [request EXCEPT ![c] = z]
    BY <1>1, <2>1, <2>2, <2>4 DEF planBatch
  <2>6. RequestOK(z)
    BY <2>3 DEF RequestOK
  <2>7. q.srv \in Servers
    BY <1>3 DEF PlanOK
  <2>8. \/ defCache' = defCache
        \/ \E s \in Servers : \E keys : defCache' = [defCache EXCEPT ![s] = Cached(s, keys)]
    BY <1>1, <2>1, <2>4, <2>7 DEF planBatch
  <2>9. defCache' = [u \in Servers |-> defCache'[u]] /\ CacheAgrees'
    BY <1>1, <1>2, <2>5, <2>8, CacheStep
  <2> QED  BY <1>2, <2>5, <2>6, <2>9, Moves
<1> QED  BY <1>5, <1>6

(* validateDefinitions: a dry run ends.                                    *)
LEMMA ValidateInv ==
    ASSUME IInv, NEW c \in Clients, validateDefinitions(c)
    PROVE  IInv'
<1>1. RequestOK(Idle)
  BY DEF RequestOK, Idle
<1>2. /\ UNCHANGED <<definitions, dependencies, contested, behind, defCache>>
      /\ request' = [request EXCEPT ![c] = Idle] /\ request[c].k # "committed"
  BY DEF validateDefinitions
<1>3. defCache' = [u \in Servers |-> defCache'[u]] /\ CacheAgrees'
  BY <1>2, CacheStep
<1> QED  BY <1>1, <1>2, <1>3, Moves

(* dropCached: the entries whose drop was due are gone.                    *)
LEMMA DropInv ==
    ASSUME IInv, NEW c \in Clients, dropCached(c)
    PROVE  IInv'
<1>1. RequestOK(Idle)
  BY DEF RequestOK, Idle
<1>2. PICK q : q = request[c]
  OBVIOUS
<1>3. /\ UNCHANGED <<definitions, dependencies, contested>> /\ q.k = "committed"
      /\ request' = [request EXCEPT ![c] = Idle] /\ behind' = behind \ ({q.srv} \X q.keys)
  BY <1>2 DEF dropCached
<1>4. RequestOK(q)
  BY <1>2 DEF IInv
<1>5. PICK s \in Servers : s = q.srv
  BY <1>3, <1>4 DEF RequestOK, Idle, PlanOK, ReadOK
<1>6. PICK f : f = [k \in DOMAIN defCache[s] \ q.keys |-> defCache[s][k]]
  OBVIOUS
<1>7. defCache' = [defCache EXCEPT ![s] = f]
  BY <1>2, <1>5, <1>6 DEF dropCached, IInv
<1>8. /\ defCache' = [u \in Servers |-> defCache'[u]] /\ defCache'[s] = f
      /\ \A u \in Servers \ {s} : defCache'[u] = defCache[u]
  BY <1>7 DEF IInv
<1>9. ASSUME NEW u \in Servers, NEW k \in DOMAIN defCache'[u]  PROVE Entry(u, k)
  <2>1. k \in DOMAIN defCache[u] /\ defCache'[u][k] = defCache[u][k]
    BY <1>6, <1>8, <1>9
  <2>2. u = s => k \notin q.keys
    BY <1>6, <1>8, <1>9
  <2>3. <<u, k>> \notin {q.srv} \X q.keys
    BY <1>5, <2>2
  <2>4. \A e \in Clients : request[e].k = "committed" /\ request[e].srv = u /\ k \in request[e].keys
                           => request'[e] = request[e]
    BY <1>2, <1>3, <1>5, <2>2 DEF IInv
  <2> QED  BY <1>3, <2>1, <2>3, <2>4 DEF Entry
<1>10. CacheAgrees'
  BY <1>3, <1>9, EntriesAgree DEF IInv
<1> QED  BY <1>1, <1>3, <1>8, <1>10, Moves

(* storeCached: a late read leaves an entry that is behind.                *)
LEMMA StoreInv ==
    ASSUME IInv, NEW c \in Clients, storeCached(c)
    PROVE  IInv'
<1>1. RequestOK(Idle)
  BY DEF RequestOK, Idle
<1>2. PICK q : q = request[c]
  OBVIOUS
<1>3. /\ UNCHANGED <<definitions, dependencies, contested>> /\ q.k = "read"
      /\ request' = [request EXCEPT ![c] = Idle]
      /\ behind' = IF q.late THEN behind \cup {<<q.srv, q.key>>} ELSE behind \ {<<q.srv, q.key>>}
  BY <1>2 DEF storeCached
<1>4. ReadOK(q)
  <2>1. RequestOK(q)
    BY <1>2 DEF IInv
  <2> QED  BY <1>3, <2>1 DEF RequestOK, Idle
<1>5. PICK s \in Servers : s = q.srv
  BY <1>4 DEF ReadOK
<1>6. PICK f : f = Over([x \in {q.key} |-> q.doc], defCache[s])
  OBVIOUS
<1>7. defCache' = [defCache EXCEPT ![s] = f]
  BY <1>2, <1>5, <1>6 DEF storeCached, IInv
<1>8. /\ defCache' = [u \in Servers |-> defCache'[u]] /\ defCache'[s] = f
      /\ \A u \in Servers \ {s} : defCache'[u] = defCache[u]
  BY <1>7 DEF IInv
<1>9. \A e \in Clients : request[e].k = "committed" => request'[e] = request[e]
  BY <1>2, <1>3 DEF IInv
<1>10. ASSUME NEW u \in Servers, NEW k \in DOMAIN defCache'[u]  PROVE Entry(u, k)
  <2>1. CASE u = s /\ k = q.key
    <3>1. defCache'[u][k] = q.doc /\ k \in DOMAIN definitions
      BY <1>4, <1>6, <1>8, <2>1 DEF Over, ReadOK
    <3>2. CASE q.doc = definitions[q.key].doc
      BY <2>1, <3>1, <3>2 DEF Entry
    <3>3. CASE q.late = TRUE /\ q.key \in contested
      BY <1>3, <1>5, <2>1, <3>1, <3>3 DEF Entry
    <3> QED  BY <1>4, <3>2, <3>3 DEF ReadOK
  <2>2. CASE ~(u = s /\ k = q.key)
    <3>1. k \in DOMAIN defCache[u] /\ defCache'[u][k] = defCache[u][k]
      BY <1>6, <1>8, <1>10, <2>2 DEF Over
    <3>2. <<u, k>> # <<q.srv, q.key>>
      BY <1>5, <2>2
    <3>3. <<u, k>> \in behind => <<u, k>> \in behind'
      BY <1>3, <3>2
    <3> QED  BY <1>9, <3>1, <3>3 DEF Entry
  <2> QED  BY <2>1, <2>2
<1>11. CacheAgrees'
  BY <1>3, <1>10, EntriesAgree DEF IInv
<1> QED  BY <1>1, <1>3, <1>8, <1>11, Moves

(* readRow: what the read carries is stored.                               *)
LEMMA ReadInv ==
    ASSUME IInv, NEW c \in Clients, NEW s \in Servers, NEW key \in DOMAIN definitions, readRow(c, s, key)
    PROVE  IInv'
<1>1. PICK r : r = [k |-> "read", srv |-> s, key |-> key, doc |-> definitions[key].doc, late |-> FALSE]
  OBVIOUS
<1>2. /\ request' = [request EXCEPT ![c] = r] /\ request[c].k # "committed"
      /\ UNCHANGED <<definitions, dependencies, defCache, contested, behind>>
  BY <1>1 DEF readRow, Ask, Idle
<1>3. /\ r.k = "read" /\ r.srv = s /\ r.key = key /\ r.doc = definitions[key].doc
      /\ r = [k |-> "read", srv |-> r.srv, key |-> r.key, doc |-> r.doc, late |-> r.late]
  BY <1>1
<1>4. RequestOK(r)
  BY <1>3 DEF RequestOK, ReadOK
<1>5. defCache' = [u \in Servers |-> defCache'[u]] /\ CacheAgrees'
  BY <1>2, CacheStep
<1> QED  BY <1>2, <1>4, <1>5, Moves

(* promoteChannel: a promotion begins.                                     *)
LEMMA PromoteInv ==
    ASSUME IInv, NEW c \in Clients, NEW s \in Servers, NEW from, NEW to, NEW root,
           promoteChannel(c, s, from, to, root)
    PROVE  IInv'
<1>1. PICK todo : Ask(c, [k |-> "promote", srv |-> s, to |-> to, todo |-> todo])
                  /\ UNCHANGED <<definitions, dependencies, defCache, contested, behind>>
  BY DEF promoteChannel
<1>2. PICK r : r = [k |-> "promote", srv |-> s, to |-> to, todo |-> todo]
  OBVIOUS
<1>3. request' = [request EXCEPT ![c] = r] /\ request[c].k # "committed"
  BY <1>1, <1>2 DEF Ask, Idle
<1>4. RequestOK(r)
  BY <1>2 DEF RequestOK
<1>5. defCache' = [u \in Servers |-> defCache'[u]] /\ CacheAgrees'
  BY <1>1, <1>3, CacheStep
<1> QED  BY <1>1, <1>3, <1>4, <1>5, Moves

(* SaveChannel: a promotion moves one channel, or ends.                    *)
LEMMA SaveChannelInv ==
    ASSUME IInv, NEW c \in Clients, SaveChannel(c)
    PROVE  IInv'
<1>1. PICK q : q = request[c]
  OBVIOUS
<1>2. q.k = "promote" /\ UNCHANGED <<definitions, dependencies, defCache, contested, behind>>
  BY <1>1 DEF SaveChannel
<1>3. RequestOK(q)
  BY <1>1 DEF IInv
<1>4. q = [k |-> "promote", srv |-> q.srv, to |-> q.to, todo |-> q.todo]
  BY <1>2, <1>3 DEF RequestOK, Idle
<1>5. CASE request' = [request EXCEPT ![c] = Idle]
  <2>1. RequestOK(Idle)
    BY DEF RequestOK, Idle
  <2>2. defCache' = [u \in Servers |-> defCache'[u]] /\ CacheAgrees'
    BY <1>1, <1>2, <1>5, CacheStep
  <2> QED  BY <1>2, <1>5, <2>1, <2>2, Moves
<1>6. ASSUME NEW key, request' = [request EXCEPT ![c].todo = @ \ {key}]
      PROVE  IInv'
  <2>1. PICK t : t = q.todo \ {key}
    OBVIOUS
  <2>2. PICK r : r = [k |-> "promote", srv |-> q.srv, to |-> q.to, todo |-> t]
    OBVIOUS
  <2>3. r = [q EXCEPT !.todo = t]
    <3>1. PICK a, d, e : q = [k |-> "promote", srv |-> a, to |-> d, todo |-> e]
      BY <1>4
    <3> QED  BY <2>2, <3>1
  <2>4. request' = [request EXCEPT ![c] = r]
    BY <1>1, <1>6, <2>1, <2>3 DEF IInv
  <2>5. RequestOK(r)
    BY <2>2 DEF RequestOK
  <2>6. defCache' = [u \in Servers |-> defCache'[u]] /\ CacheAgrees'
    BY <1>1, <1>2, <2>4, CacheStep
  <2> QED  BY <1>2, <2>4, <2>5, <2>6, Moves
<1> QED  BY <1>1, <1>5, <1>6 DEF SaveChannel

(* putChannel and deleteChannel: channels decide what a plan pins, never   *)
(* what is stored.                                                         *)
LEMMA ChannelInv ==
    ASSUME IInv, NEW c \in Clients,
           \/ \E s \in Servers : \E key, ch : putChannel(c, s, key, ch)
           \/ \E n, ch : deleteChannel(c, n, ch)
    PROVE  IInv'
<1>1. /\ UNCHANGED <<definitions, dependencies, request, contested, behind>>
      /\ \/ UNCHANGED defCache
         \/ \E s \in Servers : \E keys : defCache' = [defCache EXCEPT ![s] = Cached(s, keys)]
  BY DEF putChannel, deleteChannel
<1>2. PICK r : r = request[c]
  OBVIOUS
<1>3. request' = [request EXCEPT ![c] = r] /\ RequestOK(r)
  BY <1>1, <1>2 DEF IInv
<1>4. defCache' = [u \in Servers |-> defCache'[u]] /\ CacheAgrees'
  BY <1>1, <1>2, <1>3, CacheStep
<1> QED  BY <1>1, <1>3, <1>4, Moves

(* A server that stops takes its cache and its requests with it.           *)
LEMMA RestartInv ==
    ASSUME IInv, NEW s \in Servers, Restart(s)
    PROVE  IInv'
<1>1. /\ UNCHANGED <<definitions, dependencies, contested>> /\ request' = [e \in Clients |-> request'[e]]
      /\ \A e \in Clients : request'[e] = Idle \/ request'[e] = request[e]
      /\ \A e \in Clients : request[e].srv # s => request'[e] = request[e]
      /\ defCache' = [defCache EXCEPT ![s] = None] /\ behind' = {e \in behind : e[1] # s}
  BY DEF Restart
<1>2. DOMAIN None = {}
  BY DEF None
<1>3. /\ defCache' = [u \in Servers |-> defCache'[u]] /\ defCache'[s] = None
      /\ \A u \in Servers \ {s} : defCache'[u] = defCache[u]
  BY <1>1 DEF IInv
<1>4. ASSUME NEW u \in Servers, NEW k \in DOMAIN defCache'[u]  PROVE Entry(u, k)
  <2>1. u # s
    BY <1>2, <1>3, <1>4
  <2>2. k \in DOMAIN defCache[u] /\ defCache'[u][k] = defCache[u][k]
    BY <1>3, <1>4, <2>1
  <2>3. <<u, k>> \in behind => <<u, k>> \in behind'
    BY <1>1, <2>1
  <2> QED  BY <1>1, <2>1, <2>2, <2>3 DEF Entry
<1>5. CacheAgrees'
  BY <1>1, <1>4, EntriesAgree DEF IInv
<1>6. RequestOK(Idle)
  BY DEF RequestOK, Idle
<1>7. \A e \in Clients : RequestOK(request'[e])
  BY <1>1, <1>6 DEF IInv
<1>8. \A e \in Clients : RequestOK(request[e])'
  <2> TAKE e \in Clients
  <2>1. PICK q : q = request'[e]
    OBVIOUS
  <2>2. RequestOK(q)'
    BY <1>1, <1>7, <2>1, StoreSame
  <2> QED  BY <2>1, <2>2
<1>9. Kept'
  BY <1>1, StoreSame DEF IInv
<1> QED  BY <1>1, <1>3, <1>5, <1>8, <1>9 DEF IInv

(* What a commit leaves: what was stored, and the plan's new documents,    *)
(* under keys that were free or are contested.                             *)
Commits(new) ==
    /\ DOMAIN definitions' = DOMAIN definitions \cup {KeyOf(w) : w \in new}
    /\ DOMAIN dependencies' = DOMAIN definitions'
    /\ \A k \in DOMAIN definitions \ {KeyOf(w) : w \in new} :
          definitions'[k] = definitions[k] /\ dependencies'[k] = dependencies[k]
    /\ \A w \in new : /\ KeyOf(w) \notin DOMAIN definitions \/ KeyOf(w) \in contested
                      /\ definitions'[KeyOf(w)].doc = w.def[1] /\ w.def[1] \in Docs
                      /\ KeyOf(w) \in DOMAIN definitions
                         \/ definitions'[KeyOf(w)].hash = contentHash(w.def[1], w.deps)
                      /\ dependencies'[KeyOf(w)] = w.deps

(* A commit's statements do that.                                          *)
LEMMA CommitStores ==
    ASSUME Kept, NEW q, PlanOK(q), NEW new, new = {w \in q.plan : w.def # <<>>},
           definitions' = Over(InsertDefinition(new), definitions),
           dependencies' = Over(InsertDependency(new), dependencies)
    PROVE  Commits(new)
<1>1. PICK f, g : f = InsertDefinition(new) /\ g = InsertDependency(new)
  OBVIOUS
<1>2. DOMAIN f = {KeyOf(w) : w \in new} /\ DOMAIN g = {KeyOf(w) : w \in new}
  BY <1>1 DEF InsertDefinition, InsertDependency
<1>3. ASSUME NEW w \in new
      PROVE  (KeyOf(w) \notin DOMAIN definitions \/ KeyOf(w) \in contested) /\ w.def[1] \in Docs
  <2>1. WriteOK(q, w) /\ w.def # <<>>
    BY DEF PlanOK
  <2>2. PICK d \in q.batch : Writes(q.plan, d, w)
    BY <2>1 DEF WriteOK
  <2>3. w.def = <<d>> /\ (KeyOf(w) \notin DOMAIN definitions \/ KeyOf(w) \in contested)
    BY <2>1, <2>2 DEF Writes
  <2> QED  BY <2>3, RegistryAssumption DEF PlanOK, RegistryAssumption
<1>4. \A w, x \in new : KeyOf(w) = KeyOf(x) => w = x
  BY DEF PlanOK, KeyOf
<1>5. ASSUME NEW w \in new
      PROVE  /\ f[KeyOf(w)].doc = w.def[1]
             /\ KeyOf(w) \in DOMAIN definitions \/ f[KeyOf(w)].hash = contentHash(w.def[1], w.deps)
             /\ g[KeyOf(w)] = w.deps
  <2>1. (CHOOSE x \in new : KeyOf(x) = KeyOf(w)) = w
    BY <1>4
  <2>2. KeyOf(w) \in {KeyOf(x) : x \in new}
    OBVIOUS
  <2>3. f[KeyOf(w)] = [doc |-> w.def[1],
                       hash |-> IF KeyOf(w) \in DOMAIN definitions THEN definitions[KeyOf(w)].hash
                                ELSE contentHash(w.def[1], w.deps)]
    BY <1>1, <2>1, <2>2 DEF InsertDefinition
  <2>4. g[KeyOf(w)] = w.deps
    BY <1>1, <2>1, <2>2 DEF InsertDependency
  <2> QED  BY <2>3, <2>4
<1>6. definitions' = Over(f, definitions) /\ dependencies' = Over(g, dependencies)
  BY <1>1
<1>7. /\ DOMAIN definitions' = DOMAIN f \cup DOMAIN definitions
      /\ \A x \in DOMAIN f : definitions'[x] = f[x]
      /\ \A x \in DOMAIN definitions \ DOMAIN f : definitions'[x] = definitions[x]
  BY <1>6 DEF Over
<1>8. /\ DOMAIN dependencies' = DOMAIN g \cup DOMAIN dependencies
      /\ \A x \in DOMAIN g : dependencies'[x] = g[x]
      /\ \A x \in DOMAIN dependencies \ DOMAIN g : dependencies'[x] = dependencies[x]
  BY <1>6 DEF Over
<1>9. DOMAIN dependencies = DOMAIN definitions
  BY DEF Kept
<1>10. \A k \in DOMAIN definitions \ {KeyOf(w) : w \in new} :
         definitions'[k] = definitions[k] /\ dependencies'[k] = dependencies[k]
  BY <1>2, <1>7, <1>8, <1>9
<1>11. ASSUME NEW w \in new
       PROVE  /\ definitions'[KeyOf(w)].doc = w.def[1]
              /\ KeyOf(w) \in DOMAIN definitions
                 \/ definitions'[KeyOf(w)].hash = contentHash(w.def[1], w.deps)
              /\ dependencies'[KeyOf(w)] = w.deps
  <2>1. KeyOf(w) \in DOMAIN f /\ KeyOf(w) \in DOMAIN g
    BY <1>2
  <2>2. definitions'[KeyOf(w)] = f[KeyOf(w)] /\ dependencies'[KeyOf(w)] = g[KeyOf(w)]
    BY <1>7, <1>8, <2>1
  <2> QED  BY <1>5, <2>2
<1>12. /\ DOMAIN definitions' = DOMAIN definitions \cup {KeyOf(w) : w \in new}
       /\ DOMAIN dependencies' = DOMAIN definitions'
  BY <1>2, <1>7, <1>8, <1>9
<1> QED  BY <1>3, <1>10, <1>11, <1>12 DEF Commits

(* The plan's documents are stored, and nothing is forgotten but what a   *)
(* contested version was.                                                  *)
LEMMA CommitKnows ==
    ASSUME NEW new, Commits(new), contested \subseteq contested'
    PROVE  /\ Covers(Stored', contested', Stored)
           /\ {<<KeyOf(w), w.def[1]>> : w \in new} \subseteq Stored'
<1>1. ASSUME NEW w \in new  PROVE <<KeyOf(w), w.def[1]>> \in Stored'
  <2>1. KeyOf(w) \in DOMAIN definitions' /\ definitions'[KeyOf(w)].doc = w.def[1]
    BY DEF Commits
  <2> QED  BY <2>1 DEF Stored
<1>2. ASSUME NEW x \in Stored
      PROVE  x \in Stored' \/ (x[1] \in contested' /\ \E f \in Docs : <<x[1], f>> \in Stored')
  <2>1. PICK k \in DOMAIN definitions : x = <<k, definitions[k].doc>>
    BY <1>2 DEF Stored
  <2>2. x[1] = k
    BY <2>1
  <2>3. CASE k \in {KeyOf(w) : w \in new}
    <3>1. PICK w \in new : k = KeyOf(w)
      BY <2>3
    <3>2. k \in contested' /\ w.def[1] \in Docs
      BY <3>1 DEF Commits
    <3> QED  BY <1>1, <2>2, <3>1, <3>2
  <2>4. CASE k \notin {KeyOf(w) : w \in new}
    BY <2>1, <2>4 DEF Commits, Stored
  <2> QED  BY <2>3, <2>4
<1> QED  BY <1>1, <1>2 DEF Covers

(* What is stored after a commit is in order.                              *)
LEMMA CommitKeeps ==
    ASSUME Kept, NEW q, PlanOK(q), NEW new, new = {w \in q.plan : w.def # <<>>}, Commits(new),
           contested \subseteq contested'
    PROVE  Kept'
<1>1. \E b \in Nat : \A k \in DOMAIN definitions' : k \in Names \X (1 .. b)
  <2>1. PICK b1 \in Nat : \A k \in DOMAIN definitions : k \in Names \X (1 .. b1)
    BY DEF Kept
  <2>2. PICK b2 \in Nat : \A w \in q.plan : w.version \in 1 .. b2
    BY DEF PlanOK
  <2>3. /\ b1 + b2 \in Nat /\ \A u \in 1 .. b1 : u \in 1 .. (b1 + b2)
        /\ \A u \in 1 .. b2 : u \in 1 .. (b1 + b2)
    OBVIOUS
  <2>4. \A w \in q.plan : w.name \in Names
    BY RegistryAssumption DEF PlanOK, WriteOK, RegistryAssumption, Names
  <2>5. \A w \in new : KeyOf(w) \in Names \X (1 .. (b1 + b2))
    BY <2>2, <2>3, <2>4 DEF KeyOf
  <2>6. \A k \in DOMAIN definitions : k \in Names \X (1 .. (b1 + b2))
    BY <2>1, <2>3
  <2> QED  BY <2>3, <2>5, <2>6 DEF Commits
<1>2. PICK more, wide : more = Stored' /\ wide = contested'
  OBVIOUS
<1>3. Covers(more, wide, Stored) /\ Covers(more, wide, Stored \cup ToStore(q.plan)) /\ contested \subseteq wide
  <2>1. ToStore(q.plan) \subseteq more /\ Covers(more, wide, Stored)
    BY <1>2, CommitKnows DEF ToStore
  <2> QED  BY <1>2, <2>1 DEF Covers
<1>4. ASSUME NEW k \in DOMAIN definitions'
      PROVE  /\ definitions'[k].doc \in Docs /\ definitions'[k].doc.name = k[1]
             /\ k \in contested' \/ definitions'[k].hash = contentHash(definitions'[k].doc, dependencies'[k])
             /\ Checked(definitions'[k].doc, k[2], dependencies'[k], Stored', contested')
  <2>1. CASE k \in DOMAIN definitions \ {KeyOf(w) : w \in new}
    <3>1. definitions'[k] = definitions[k] /\ dependencies'[k] = dependencies[k]
      BY <2>1 DEF Commits
    <3>2. PICK d, v, deps : d = definitions[k].doc /\ v = k[2] /\ deps = dependencies[k]
      OBVIOUS
    <3>3. Checked(d, v, deps, Stored, contested)
      BY <2>1, <3>2 DEF Kept
    <3>4. Checked(d, v, deps, more, wide)
      BY <1>3, <3>3, CheckedGrows
    <3>5. /\ definitions[k].doc \in Docs /\ definitions[k].doc.name = k[1]
          /\ k \in contested \/ definitions[k].hash = contentHash(definitions[k].doc, dependencies[k])
      BY <2>1 DEF Kept
    <3> QED  BY <1>2, <1>3, <3>1, <3>2, <3>4, <3>5
  <2>2. CASE k \in {KeyOf(w) : w \in new}
    <3>1. PICK w \in new : k = KeyOf(w)
      BY <2>2
    <3>2. WriteOK(q, w) /\ w.def # <<>>
      BY <3>1 DEF PlanOK
    <3>3. PICK d \in q.batch : /\ d.name = w.name /\ w.def = <<d>>
                               /\ Checked(d, w.version, w.deps, Stored \cup ToStore(q.plan), contested)
      BY <3>2 DEF WriteOK, Writes
    <3>4. w.def[1] = d /\ k[1] = w.name /\ k[2] = w.version
      BY <3>1, <3>3 DEF KeyOf
    <3>5. PICK known : known = Stored \cup ToStore(q.plan)
      OBVIOUS
    <3>6. Checked(d, w.version, w.deps, more, wide)
      BY <1>3, <3>3, <3>5, CheckedGrows
    <3>7. /\ definitions'[k].doc = d /\ dependencies'[k] = w.deps /\ d \in Docs
          /\ k \in contested \/ definitions'[k].hash = contentHash(d, w.deps)
      BY <3>1, <3>4 DEF Commits
    <3> QED  BY <1>2, <1>3, <3>3, <3>4, <3>6, <3>7
  <2> QED  BY <2>1, <2>2 DEF Commits
<1> QED  BY <1>1, <1>4 DEF Kept, Commits

(* Another apply under way sees its children stored as before and its own  *)
(* new keys still free, but for contested versions.                        *)
LEMMA CommitSpares ==
    ASSUME NEW new, Commits(new), NEW z, PlanOK(z),
           contested \subseteq contested', {KeyOf(w) : w \in new} \cap NewKeys(z) \subseteq contested'
    PROVE  PlanOK(z)'
<1>1. PICK more, wide, known :
        more = Stored' \cup ToStore(z.plan) /\ wide = contested' /\ known = Stored \cup ToStore(z.plan)
  OBVIOUS
<1>2. Covers(more, wide, known) /\ contested \subseteq wide
  <2>1. Covers(Stored', contested', Stored)
    BY CommitKnows
  <2> QED  BY <1>1, <2>1 DEF Covers
<1>3. ASSUME NEW w \in z.plan  PROVE WriteOK(z, w)'
  <2>1. WriteOK(z, w)
    BY DEF PlanOK
  <2>2. PICK d \in z.batch : d.name = w.name /\ Writes(z.plan, d, w)
    BY <2>1 DEF WriteOK
  <2>3. w.name \in DOMAIN z.versions /\ z.versions[w.name] = w.version
    BY <2>1 DEF WriteOK
  <2>4. PICK key : key = KeyOf(w)
    OBVIOUS
  <2>5. CASE w.def = <<>>
    <3>1. key \in DOMAIN definitions /\ (definitions[key].doc = d \/ key \in contested)
      BY <2>2, <2>4, <2>5 DEF Writes
    <3>2. key \in DOMAIN definitions' /\ (definitions'[key].doc = d \/ key \in contested')
      BY <3>1 DEF Commits
    <3>3. /\ KeyOf(w) \in DOMAIN definitions'
          /\ definitions'[KeyOf(w)].doc = d \/ KeyOf(w) \in contested'
      BY <2>4, <3>2
    <3>4. Writes(z.plan, d, w)'
      BY <2>5, <3>3 DEF Writes, KeyOf
    <3> QED  BY <2>2, <2>3, <3>4 DEF WriteOK
  <2>6. CASE w.def # <<>>
    <3>1. /\ key \notin DOMAIN definitions \/ key \in contested
          /\ Checked(d, w.version, w.deps, known, contested)
      BY <1>1, <2>2, <2>4, <2>6 DEF Writes
    <3>2. Checked(d, w.version, w.deps, more, wide)
      BY <1>2, <3>1, CheckedGrows
    <3>3. key \in NewKeys(z)
      BY <2>4, <2>6 DEF NewKeys
    <3>4. key \notin DOMAIN definitions' \/ key \in contested'
      BY <3>1, <3>3 DEF Commits
    <3>5. Checked(d, w.version, w.deps, Stored' \cup ToStore(z.plan), contested')
      BY <1>1, <3>2
    <3>6. w.def = <<d>>
      BY <2>2, <2>6 DEF Writes
    <3>7. KeyOf(w) \notin DOMAIN definitions' \/ KeyOf(w) \in contested'
      BY <2>4, <3>4
    <3>8. Writes(z.plan, d, w)'
      BY <3>5, <3>6, <3>7 DEF Writes, KeyOf, ToStore, Checked, isSelfRef
    <3> QED  BY <2>2, <2>3, <3>8 DEF WriteOK
  <2> QED  BY <2>5, <2>6
<1> QED  BY <1>3 DEF PlanOK

(* ApplyDefinitions: the commit.                                           *)
LEMMA ApplyInv ==
    ASSUME IInv, NEW c \in Clients, ApplyDefinitions(c)
    PROVE  /\ IInv'
           /\ \A k \in DOMAIN definitions \ contested :
                definitions'[k] = definitions[k] /\ dependencies'[k] = dependencies[k]
<1>1. PICK q : q = request[c]
  OBVIOUS
<1>2. PICK new : new = {w \in q.plan : w.def # <<>>}
  OBVIOUS
<1>3. PICK keys : keys = {KeyOf(w) : w \in new}
  OBVIOUS
<1>4. NewKeys(q) = keys
  BY <1>2, <1>3 DEF NewKeys
<1>5. /\ q.k = "apply" /\ defCache' = defCache
      /\ request' = [Outdated(keys) EXCEPT ![c] = [k |-> "committed", srv |-> q.srv, keys |-> keys]]
      /\ definitions' = Over(InsertDefinition(new), definitions)
      /\ dependencies' = Over(InsertDependency(new), dependencies)
      /\ contested \subseteq contested'
      /\ \A e \in Clients \ {c} : request[e].k = "apply" => keys \cap NewKeys(request[e]) \subseteq contested'
      /\ behind' = behind \cup {e \in (Servers \ {q.srv}) \X keys : e[2] \in DOMAIN defCache[e[1]]}
  BY <1>1, <1>2, <1>4 DEF ApplyDefinitions
<1>6. PlanOK(q)
  <2>1. RequestOK(q)
    BY <1>1 DEF IInv
  <2> QED  BY <1>5, <2>1 DEF RequestOK, Idle
<1>7. Commits(new)
  BY <1>2, <1>5, <1>6, CommitStores DEF IInv
<1>8. /\ \A k \in DOMAIN definitions : k \in DOMAIN definitions'
      /\ \A k \in DOMAIN definitions \ keys :
            definitions'[k] = definitions[k] /\ dependencies'[k] = dependencies[k]
      /\ \A k \in DOMAIN definitions \cap keys : k \in contested
  BY <1>3, <1>7 DEF Commits
<1>9. Kept'
  BY <1>2, <1>5, <1>6, <1>7, CommitKeeps DEF IInv
<1>10. /\ request' = [e \in Clients |-> request'[e]]
       /\ request'[c] = [k |-> "committed", srv |-> q.srv, keys |-> keys]
       /\ \A e \in Clients \ {c} :
             request'[e] = IF request[e].k = "read" /\ request[e].key \in keys
                           THEN [request[e] EXCEPT !.late = TRUE] ELSE request[e]
  BY <1>5 DEF Outdated
<1>11. q.srv \in Servers
  BY <1>6 DEF PlanOK
<1>12. ASSUME NEW e \in Clients  PROVE RequestOK(request[e])'
  <2>1. PICK z : z = request'[e]
    OBVIOUS
  <2>2. CASE e = c
    <3>1. z.k = "committed" /\ z.srv \in Servers
      BY <1>10, <1>11, <2>1, <2>2
    <3>2. RequestOK(z)'
      BY <3>1 DEF RequestOK
    <3> QED  BY <2>1, <3>2
  <2>3. CASE e # c
    <3>1. PICK y : y = request[e] /\ RequestOK(y)
      BY DEF IInv
    <3>2. z = IF y.k = "read" /\ y.key \in keys THEN [y EXCEPT !.late = TRUE] ELSE y
      BY <1>10, <2>1, <2>3, <3>1
    <3>3. CASE y.k = "apply" /\ PlanOK(y)
      <4>1. z = y
        BY <3>2, <3>3
      <4>2. keys \cap NewKeys(y) \subseteq contested'
        BY <1>5, <2>3, <3>1, <3>3
      <4>3. PlanOK(y)'
        BY <1>3, <1>5, <1>7, <3>3, <4>2, CommitSpares
      <4>4. RequestOK(y)'
        BY <3>3, <4>3 DEF RequestOK
      <4> QED  BY <2>1, <4>1, <4>4
    <3>4. CASE y.k = "read" /\ ReadOK(y)
      <4>1. /\ z = [k |-> "read", srv |-> z.srv, key |-> z.key, doc |-> z.doc, late |-> z.late]
            /\ z.k = "read" /\ z.srv = y.srv /\ z.key = y.key /\ z.doc = y.doc
            /\ IF y.key \in keys THEN z.late = TRUE ELSE z.late = y.late
        BY <3>2, <3>4 DEF ReadOK
      <4>2. /\ y.srv \in Servers /\ y.key \in DOMAIN definitions
            /\ y.doc = definitions[y.key].doc \/ (y.late = TRUE /\ y.key \in contested)
        BY <3>4 DEF ReadOK
      <4>3. z.doc = definitions'[z.key].doc \/ (z.late = TRUE /\ z.key \in contested')
        BY <1>5, <1>8, <4>1, <4>2
      <4>4. z.srv \in Servers /\ z.key \in DOMAIN definitions'
        BY <1>8, <4>1, <4>2
      <4>5. ReadOK(z)'
        BY <4>1, <4>3, <4>4 DEF ReadOK
      <4>6. RequestOK(z)'
        BY <4>1, <4>5 DEF RequestOK
      <4> QED  BY <2>1, <4>6
    <3>5. CASE \/ y = Idle
               \/ y.k = "committed" /\ y.srv \in Servers
               \/ y.k = "promote" /\ y = [k |-> "promote", srv |-> y.srv, to |-> y.to, todo |-> y.todo]
      <4>1. z = y
        BY <3>2, <3>5 DEF Idle
      <4>2. RequestOK(y)'
        BY <3>5 DEF RequestOK, Idle
      <4> QED  BY <2>1, <4>1, <4>2
    <3> QED  BY <3>1, <3>3, <3>4, <3>5 DEF RequestOK
  <2> QED  BY <2>2, <2>3
<1>13. ASSUME NEW u \in Servers, NEW k \in DOMAIN defCache'[u]
       PROVE  /\ k \in DOMAIN definitions'
              /\ \/ defCache'[u][k] = definitions'[k].doc
                 \/ /\ k \in contested'
                    /\ \/ <<u, k>> \in behind'
                       \/ \E e \in Clients : /\ request'[e].k = "committed" /\ request'[e].srv = u
                                              /\ k \in request'[e].keys
  <2>1. /\ k \in DOMAIN definitions
        /\ \/ defCache[u][k] = definitions[k].doc
           \/ /\ k \in contested
              /\ \/ <<u, k>> \in behind
                 \/ \E e \in Clients : /\ request[e].k = "committed" /\ request[e].srv = u
                                        /\ k \in request[e].keys
    BY <1>5, <1>13 DEF IInv, CacheAgrees
  <2>2. CASE k \in keys
    <3>1. k \in contested'
      BY <1>5, <1>8, <2>1, <2>2
    <3>2. CASE u = q.srv
      <4>1. request'[c].k = "committed" /\ request'[c].srv = u /\ k \in request'[c].keys
        BY <1>10, <2>2, <3>2
      <4> QED  BY <1>8, <2>1, <3>1, <4>1
    <3>3. CASE u # q.srv
      <4>1. <<u, k>> \in (Servers \ {q.srv}) \X keys /\ <<u, k>>[2] \in DOMAIN defCache[<<u, k>>[1]]
        BY <1>5, <1>13, <2>2, <3>3
      <4>2. <<u, k>> \in behind'
        BY <1>5, <4>1
      <4> QED  BY <1>8, <2>1, <3>1, <4>2
    <3> QED  BY <3>2, <3>3
  <2>3. CASE k \notin keys
    <3>1. \A e \in Clients : request[e].k = "committed" => request'[e] = request[e]
      BY <1>1, <1>5, <1>10
    <3>2. definitions'[k] = definitions[k] /\ k \in DOMAIN definitions'
      BY <1>8, <2>1, <2>3
    <3>3. defCache'[u][k] = defCache[u][k] /\ behind \subseteq behind' /\ contested \subseteq contested'
      BY <1>5
    <3> QED  BY <2>1, <3>1, <3>2, <3>3
  <2> QED  BY <2>2, <2>3
<1>14. CacheAgrees'
  BY <1>13 DEF CacheAgrees
<1>15. defCache' = [s \in Servers |-> defCache'[s]]
  BY <1>5 DEF IInv
<1>16. IInv'
  BY <1>9, <1>10, <1>12, <1>14, <1>15 DEF IInv
<1> QED  BY <1>8, <1>16

(* An empty registry satisfies the invariant.                              *)
LEMMA InitInv == Init => IInv
<1> SUFFICES ASSUME Init  PROVE IInv
  OBVIOUS
<1>1. DOMAIN None = {} /\ 0 \in Nat
  BY DEF None
<1>2. request = [c \in Clients |-> request[c]] /\ defCache = [s \in Servers |-> defCache[s]]
      /\ \A c \in Clients : request[c] = Idle
  BY DEF Init
<1>3. CacheAgrees
  BY <1>1 DEF Init, CacheAgrees
<1>4. Kept
  BY <1>1 DEF Init, Kept
<1>5. \A c \in Clients : RequestOK(request[c])
  BY <1>2 DEF RequestOK, Idle
<1> QED  BY <1>2, <1>3, <1>4, <1>5 DEF IInv

(* Only a commit stores anything.                                          *)
LEMMA NextStores ==
    ASSUME [Next]_vars
    PROVE  (\E c \in Clients : ApplyDefinitions(c)) \/ UNCHANGED <<definitions, dependencies>>
  BY DEF Next, vars, planBatch, validateDefinitions, dropCached, storeCached, SaveChannel,
         putDefinitions, readRow, putChannel, promoteChannel, deleteChannel, Restart

(* The invariant is inductive.                                             *)
LEMMA NextInv ==
    ASSUME IInv, [Next]_vars
    PROVE  IInv'
<1>1. CASE UNCHANGED vars
  <2>1. \A c \in Clients : RequestOK(request[c])'
    <3> TAKE c \in Clients
    <3>1. PICK q : q = request[c]
      OBVIOUS
    <3>2. RequestOK(q)' /\ q = request'[c]
      BY <1>1, <3>1, StoreSame DEF IInv, vars
    <3> QED  BY <3>2
  <2>2. Kept'
    BY <1>1, StoreSame DEF IInv, vars
  <2>3. CacheAgrees'
    BY <1>1 DEF IInv, vars, CacheAgrees
  <2> QED  BY <1>1, <2>1, <2>2, <2>3 DEF IInv, vars
<1>2. CASE \E c \in Clients : \/ planBatch(c) \/ validateDefinitions(c) \/ ApplyDefinitions(c)
                              \/ dropCached(c) \/ storeCached(c) \/ SaveChannel(c)
  BY <1>2, PlanInv, ValidateInv, ApplyInv, DropInv, StoreInv, SaveChannelInv
<1>3. CASE \E c \in Clients, s \in Servers, b \in Batches, ch \in Channels : putDefinitions(c, s, b, ch)
  BY <1>3, PutInv
<1>4. CASE \E c \in Clients, s \in Servers, key \in DOMAIN definitions : readRow(c, s, key)
  BY <1>4, ReadInv
<1>5. CASE \E c \in Clients, s \in Servers : \E key, ch : putChannel(c, s, key, ch)
  BY <1>5, ChannelInv
<1>6. CASE \E c \in Clients, s \in Servers : \E from, to, root : promoteChannel(c, s, from, to, root)
  BY <1>6, PromoteInv
<1>7. CASE \E c \in Clients : \E n, ch : deleteChannel(c, n, ch)
  BY <1>7, ChannelInv
<1>8. CASE \E s \in Servers : Restart(s)
  BY <1>8, RestartInv
<1> QED  BY <1>1, <1>2, <1>3, <1>4, <1>5, <1>6, <1>7, <1>8 DEF Next

(* The invariant holds throughout.                                         *)
LEMMA Invariance == Spec => []IInv
<1>1. IInv /\ [Next]_vars => IInv'
  BY NextInv
<1> QED  BY <1>1, InitInv, PTL DEF Spec

(* GetDefinition, for any overlap of commits, drops and reads: a cache     *)
(* differs from what is stored only for a version two applies had planned  *)
(* at one time, until its server drops it or for as long as the server     *)
(* cannot know.                                                            *)
THEOREM CachesHoldWhatIsStored == Spec => []CacheAgrees
<1>1. IInv => CacheAgrees
  BY DEF IInv
<1> QED  BY <1>1, Invariance, PTL

(* ResolveChildVersion: what a registered parent would spawn is a stored   *)
(* version, and it was checked against that document unless two applies    *)
(* had planned the child's version at one time.                            *)
THEOREM SpawnsWereChecked == Spec => []SpawnChecked
<1>1. ASSUME IInv  PROVE SpawnChecked
  <2> SUFFICES ASSUME NEW k \in DOMAIN definitions, NEW r \in DOMAIN definitions[k].doc.refs,
                      NEW child,
                      child = <<definitions[k].doc.refs[r].name, ResolveChildVersion(k[1], k[2], r)>>
               PROVE  /\ child \in DOMAIN definitions
                      /\ child \in contested \/ <<definitions[k].doc, definitions[child].doc>> \in Agree
    BY DEF SpawnChecked
  <2>1. PICK d, deps, ref : d = definitions[k].doc /\ deps = dependencies[k] /\ ref = d.refs[r]
    OBVIOUS
  <2>2. d.name = k[1] /\ Checked(d, k[2], deps, Stored, contested) /\ k = <<k[1], k[2]>>
    BY <1>1, <2>1 DEF IInv, Kept
  <2>3. ResolveChildVersion(k[1], k[2], r) =
          IF ref.version # 0 THEN ref.version
          ELSE IF ref.name = k[1] THEN k[2]
          ELSE IF r \in DOMAIN deps THEN deps[r].version ELSE LatestVersion(ref.name)
    BY <2>1, <2>2 DEF ResolveChildVersion
  <2>4. CASE r \in DOMAIN deps
    <3>1. /\ ~isSelfRef(d, ref, k[2]) /\ deps[r].name = ref.name
          /\ ref.version # 0 => deps[r].version = ref.version
      BY <2>1, <2>2, <2>4 DEF Checked
    <3>2. PICK e \in Docs : /\ <<<<deps[r].name, deps[r].version>>, e>> \in Stored
                            /\ <<d, e>> \in Agree \/ <<deps[r].name, deps[r].version>> \in contested
      BY <2>1, <2>2, <2>4 DEF Checked
    <3>3. ResolveChildVersion(k[1], k[2], r) = deps[r].version
      BY <2>2, <2>3, <2>4, <3>1 DEF isSelfRef
    <3>4. child = <<deps[r].name, deps[r].version>>
      BY <2>1, <3>1, <3>3
    <3>5. child \in DOMAIN definitions /\ definitions[child].doc = e
      BY <3>2, <3>4 DEF Stored
    <3> QED  BY <2>1, <3>2, <3>4, <3>5
  <2>5. CASE r \notin DOMAIN deps
    <3>1. isSelfRef(d, ref, k[2]) /\ <<d, d>> \in Agree
      BY <2>1, <2>2, <2>5 DEF Checked
    <3>2. child = k
      BY <2>1, <2>2, <2>3, <3>1 DEF isSelfRef
    <3> QED  BY <2>1, <3>1, <3>2
  <2> QED  BY <2>4, <2>5
<1>2. IInv => SpawnChecked
  BY <1>1
<1> QED  BY <1>2, Invariance, PTL

(* InsertDefinition's conflict path is taken only for a version that two   *)
(* applies had planned at one time: any other stored version keeps its     *)
(* document, its pins and the hash of the two.                             *)
THEOREM VersionsAreKept == Spec => VersionsKept
<1>1. ASSUME IInv, [Next]_vars
      PROVE  [\A k \in DOMAIN definitions \ contested :
                /\ definitions'[k] = definitions[k] /\ dependencies'[k] = dependencies[k]
                /\ definitions[k].hash = contentHash(definitions[k].doc, dependencies[k])]_vars
  <2>1. \A k \in DOMAIN definitions \ contested :
          definitions'[k] = definitions[k] /\ dependencies'[k] = dependencies[k]
    BY <1>1, NextStores, ApplyInv
  <2>2. \A k \in DOMAIN definitions \ contested :
          definitions[k].hash = contentHash(definitions[k].doc, dependencies[k])
    BY <1>1 DEF IInv, Kept
  <2> QED  BY <2>1, <2>2
<1> QED  BY <1>1, Invariance, PTL DEF Spec, VersionsKept

=============================================================================
