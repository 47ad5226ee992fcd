-------------------------- MODULE RepositoryProofs --------------------------
(***************************************************************************)
(* Proofs about RepositoryController: its types, and that the allowlist    *)
(* has the specification of every live resource of which nothing is        *)
(* pending.  The argument follows a version of a resource on its way: what *)
(* is stored, in flight and cached (VersionInv), what the worker holds     *)
(* (WorkerInv), and what the allowlist has of the cache (CachedInv).       *)
(***************************************************************************)
EXTENDS RepositoryController, TLAPS

USE RepositoryAssumption, AllowlistAssumption

\* The versions that r can have.
Version(r) == {v \in Repository : v.state # "absent" => v.spec \in Specs[r]}

\* What travels to the cache are versions of r up to the stored one, which is
\* among them unless the cache already has it.
VersionInv ==
    \A r \in Resources :
        /\ repo[r] \in Version(r)
        /\ rcache[r] \in Version(r)
        /\ rwatch[r] \subseteq Version(r)
        /\ \A u \in rwatch[r] : /\ u.rv <= repo[r].rv
                                /\ u.rv = repo[r].rv => u = repo[r]
        /\ rwatch[r] = {} => rcache[r] = repo[r]
        /\ rwatch[r] # {} => repo[r] \in rwatch[r]

\* The worker's copy is the cached version, unless its key is queued again.
WorkerInv ==
    rpc # "idle" =>
        /\ rres \in Resources
        /\ rcopy \in Version(rres)
        /\ rcopy.state = IF rpc = "deleteHook" THEN "deleting" ELSE "live"
        /\ rpc # "buildClient" => rcopy.spec.key \in Names
        /\ rres \notin rqueue => /\ rcopy.spec = rcache[rres].spec
                                 /\ rcopy.state = rcache[rres].state

\* The allowlist has the cached version of a resource that is not queued or
\* in the worker's hands.
CachedInv ==
    \A r \in Resources :
        /\ rcache[r].state = "live"
        /\ Alone(r)
        /\ r \notin rqueue
        /\ rpc # "idle" => rres # r
        => EntryOf(rcache[r].spec) = rcache[r].spec

RepositoryInv == RepositoryTypeOK /\ VersionInv /\ WorkerInv /\ CachedInv

-----------------------------------------------------------------------------
(* The allowlist cache.                                                    *)

LEMMA SetLemma ==
    ASSUME NEW c \in Cache, NEW s \in RepositorySpec
    PROVE  /\ Set(c, s) \in Cache
           /\ EntryIn(Set(c, s), s) = s
           /\ \A t \in RepositorySpec :
                 t.key # s.key => EntryIn(Set(c, s), t) = EntryIn(c, t)
  BY DEF Cache, Set, EntryIn, IsPattern, RepositorySpec, Keys

LEMMA ClientLemma ==
    ASSUME NEW c \in Cache, NEW key \in Keys
    PROVE  /\ SetClient(c, key) \in Cache
           /\ \A t \in RepositorySpec : EntryIn(SetClient(c, key), t) = EntryIn(c, t)
  BY DEF Cache, SetClient, EntryIn, RepositorySpec, Keys

LEMMA DeleteLemma ==
    ASSUME NEW c \in Cache, NEW key \in Keys
    PROVE  /\ DeleteClient(Delete(c, key), key) \in Cache
           /\ \A t \in RepositorySpec :
                 t.key # key => EntryIn(DeleteClient(Delete(c, key), key), t) = EntryIn(c, t)
  BY DEF Cache, Delete, DeleteClient, EntryIn, RepositorySpec, Keys

\* Resources that share no key keep out of each other's entries.
LEMMA AloneLemma ==
    ASSUME NEW r \in Resources, Alone(r), NEW q \in Resources, q # r,
           NEW s \in Specs[r], NEW t \in Specs[q]
    PROVE  s.key # t.key
  BY DEF Alone, SharesKey

LEMMA SpecLemma ==
    ASSUME NEW r \in Resources, NEW v \in Version(r), v.state # "absent"
    PROVE  /\ v.spec \in Specs[r]
           /\ v.spec \in RepositorySpec
           /\ v.spec # Nil
           /\ v.spec.key \in Keys
           /\ ~IsPattern(v.spec) => v.spec.key \in Names
  BY DEF Version, RepositorySpec, IsPattern, Keys

LEMMA NoneVersion ==
    ASSUME NEW r \in Resources
    PROVE  NoRepository \in Version(r) /\ NoRepository \in Repository
  BY DEF Version, NoRepository, Repository

LEMMA EmptyCache == NewAllowlistCache \in Cache
  BY DEF NewAllowlistCache, Cache

-----------------------------------------------------------------------------
(* How a reconcile goes on, or ends, with a copy of r and the allowlist a. *)

Goes(pc, r, copy, a) == Call(pc, r, copy) /\ allow' = a

EndsWith(a) == Idle /\ allow' = a

Forgotten(key) == DeleteClient(Delete(allow, key), key)

LEMMA EnsureHookEffect ==
    ASSUME NEW r \in Resources, NEW a \in Cache, NEW copy \in Version(r),
           copy.state = "live", EnsureHook(r, a, copy)
    PROVE  \/ copy.spec.key \in Names /\ Goes("createHook", r, copy, a)
           \/ EndsWith(Set(a, copy.spec))
  BY SpecLemma DEF EnsureHook, NeedsHook, AddToAllowlist, Goes, EndsWith

\* What a call of the worker does to worker and allowlist.
LEMMA WorkerEffect ==
    ASSUME RepositoryTypeOK, WorkerInv, RepositoryWorker
    PROVE  /\ rres \in Resources /\ rcopy \in Version(rres) /\ rcopy.state # "absent"
           /\ \/ \E pc \in {"createHook", "saveHook"}, h \in Nat,
                    a \in {allow, SetClient(allow, rcopy.spec.key)} :
                    /\ rcopy.spec.key \in Names
                    /\ rcopy.state = "live"
                    /\ Goes(pc, rres, [rcopy EXCEPT !.hook = h], a)
              \/ /\ rcopy.state = "live"
                 /\ \E a \in {allow, SetClient(allow, rcopy.spec.key)} :
                       EndsWith(Set(a, rcopy.spec))
              \/ rcopy.state = "deleting" /\ EndsWith(Forgotten(rcopy.spec.key))
<1>1. rpc # "idle"
  BY DEF RepositoryWorker, BuildPATClient, CreateHook, SaveHook, DeleteHook
<1>2. /\ rres \in Resources /\ rcopy \in Version(rres) /\ rcopy.state # "absent"
      /\ rcopy \in Repository
      /\ rpc # "deleteHook" => rcopy.state = "live"
      /\ rpc = "deleteHook" => rcopy.state = "deleting"
      /\ rpc # "buildClient" => rcopy.spec.key \in Names
  BY <1>1 DEF WorkerInv, Version
<1>3. rcopy = [rcopy EXCEPT !.hook = rcopy.hook] /\ rcopy.hook \in Nat
  BY <1>2 DEF Repository
<1>4. CASE BuildPATClient
  <2>1. rpc = "buildClient" /\ rcopy.state = "live"
    BY <1>2, <1>4 DEF BuildPATClient
  <2>2. PICK a \in {allow, SetClient(allow, rcopy.spec.key)} :
           EnsureHook(rres, a, rcopy)
    BY <1>4 DEF BuildPATClient
  <2>3. a \in Cache
    BY <1>2, SpecLemma, ClientLemma DEF RepositoryTypeOK
  <2>4. \/ rcopy.spec.key \in Names /\ Goes("createHook", rres, rcopy, a)
        \/ EndsWith(Set(a, rcopy.spec))
    BY <1>2, <2>1, <2>2, <2>3, EnsureHookEffect
  <2>5. CASE rcopy.spec.key \in Names /\ Goes("createHook", rres, rcopy, a)
    <3>1. Goes("createHook", rres, [rcopy EXCEPT !.hook = rcopy.hook], a)
      BY <1>3, <2>5
    <3> QED  BY <1>2, <1>3, <2>1, <2>5, <3>1
  <2> QED  BY <1>2, <2>1, <2>4, <2>5
<1>5. CASE CreateHook
  <2>1. rpc = "createHook" /\ rcopy.state = "live" /\ rcopy.spec.key \in Names
    BY <1>2, <1>5 DEF CreateHook
  <2>2. \/ Goes("saveHook", rres, [rcopy EXCEPT !.hook = nextHook], allow)
        \/ EndsWith(Set(allow, rcopy.spec))
    BY <1>5 DEF CreateHook, AddToAllowlist, Goes, EndsWith
  <2>3. nextHook \in Nat
    BY DEF RepositoryTypeOK
  <2> QED  BY <1>2, <2>1, <2>2, <2>3
<1>6. CASE SaveHook
  <2>1. rcopy.state = "live" /\ EndsWith(Set(allow, rcopy.spec))
    BY <1>2, <1>6 DEF SaveHook, AddToAllowlist, EndsWith
  <2> QED  BY <1>2, <2>1
<1>7. CASE DeleteHook
  <2>1. rcopy.state = "deleting" /\ EndsWith(Forgotten(rcopy.spec.key))
    BY <1>2, <1>7 DEF DeleteHook, Forget, EndsWith, Forgotten
  <2> QED  BY <1>2, <2>1
<1> QED  BY <1>4, <1>5, <1>6, <1>7 DEF RepositoryWorker

\* What the start of a reconcile does to worker and allowlist.
LEMMA ReconcileEffect ==
    ASSUME RepositoryTypeOK, VersionInv, NEW r \in Resources, ReconcileRepository(r)
    PROVE  \/ rcache[r].state = "absent" /\ UNCHANGED <<allow, rpc, rres, rcopy>>
           \/ rcache[r].state = "deleting" /\ EndsWith(Forgotten(rcache[r].spec.key))
           \/ /\ rcache[r].state = "deleting"
              /\ rcache[r].spec.key \in Names
              /\ Goes("deleteHook", r, rcache[r], allow)
           \/ rcache[r].state = "live" /\ Goes("buildClient", r, rcache[r], allow)
           \/ /\ rcache[r].state = "live"
              /\ rcache[r].spec.key \in Names
              /\ Goes("createHook", r, rcache[r], allow)
           \/ rcache[r].state = "live" /\ EndsWith(Set(allow, rcache[r].spec))
<1>1. rcache[r] \in Version(r) /\ allow \in Cache
  BY DEF VersionInv, RepositoryTypeOK
<1>2. CASE rcache[r].state = "absent"
  BY <1>2 DEF ReconcileRepository, rworkerVars
<1>3. CASE rcache[r].state = "deleting"
  <2>1. \/ NeedsCleanup(rcache[r]) /\ Goes("deleteHook", r, rcache[r], allow)
        \/ EndsWith(Forgotten(rcache[r].spec.key))
    BY <1>3 DEF ReconcileRepository, Forget, Goes, EndsWith, Forgotten
  <2>2. NeedsCleanup(rcache[r]) => rcache[r].spec.key \in Names
    BY <1>1, <1>3, SpecLemma DEF NeedsCleanup
  <2> QED  BY <1>3, <2>1, <2>2
<1>4. CASE rcache[r].state = "live"
  <2>1. \/ Goes("buildClient", r, rcache[r], allow)
        \/ EnsureHook(r, allow, rcache[r])
    BY <1>4 DEF ReconcileRepository, Goes
  <2>2. CASE EnsureHook(r, allow, rcache[r])
    BY <1>1, <1>4, <2>2, EnsureHookEffect
  <2> QED  BY <1>4, <2>1, <2>2
<1> QED  BY <1>1, <1>2, <1>3, <1>4 DEF Version, Repository

-----------------------------------------------------------------------------
(* Versions.                                                               *)

LEMMA StoreVersion ==
    ASSUME VersionInv, NEW r \in Resources, NEW new \in Version(r), Store(r, new),
           repo \in [Resources -> Repository],
           rwatch \in [Resources -> SUBSET Repository], UNCHANGED rcache
    PROVE  /\ VersionInv'
           /\ repo' \in [Resources -> Repository]
           /\ rwatch' \in [Resources -> SUBSET Repository]
<1> DEFINE o == [new EXCEPT !.rv = repo[r].rv + 1]
<1>1. repo[r].rv \in Nat /\ repo[r] \in Repository
  BY DEF Repository
<1>2. o \in Version(r) /\ o.rv = repo[r].rv + 1 /\ o \in Repository
  <2>1. new \in Repository
    BY DEF Version
  <2>2. o.rv = repo[r].rv + 1 /\ o \in Repository
    <3>1. repo[r].rv + 1 \in Nat
      BY <1>1
    <3>2. \A n \in Nat : [new EXCEPT !.rv = n].rv = n /\ [new EXCEPT !.rv = n] \in Repository
      BY <2>1, Zenon DEF Repository
    <3> QED
      BY <3>1, <3>2
  <2>3. o.state = new.state /\ o.spec = new.spec
    BY <2>1 DEF Repository
  <2> QED
    BY <2>2, <2>3 DEF Version
<1>3. /\ repo' = [repo EXCEPT ![r] = o]
      /\ rwatch' = [rwatch EXCEPT ![r] = @ \cup {o}]
  BY DEF Store
<1> HIDE DEF o
<1>4. ASSUME NEW q \in Resources
      PROVE  /\ repo'[q] \in Version(q) /\ rcache'[q] \in Version(q)
             /\ rwatch'[q] \subseteq Version(q)
             /\ \A u \in rwatch'[q] : /\ u.rv <= repo'[q].rv
                                      /\ u.rv = repo'[q].rv => u = repo'[q]
             /\ rwatch'[q] = {} => rcache'[q] = repo'[q]
             /\ rwatch'[q] # {} => repo'[q] \in rwatch'[q]
  <2>1. CASE q = r
    <3>1. repo'[q] = o /\ rwatch'[q] = rwatch[r] \cup {o}
      BY <1>3, <2>1
    <3>2. \A u \in rwatch[r] : u.rv <= repo[r].rv /\ u.rv \in Nat
      BY DEF VersionInv, Repository
    <3>3. \A u \in rwatch[r] : u.rv <= o.rv /\ u.rv # o.rv
      BY <1>1, <1>2, <3>2
    <3>4. o.rv <= o.rv
      BY <1>1, <1>2
    <3> QED  BY <1>2, <2>1, <3>1, <3>3, <3>4 DEF VersionInv
  <2>2. CASE q # r
    <3>1. repo'[q] = repo[q] /\ rwatch'[q] = rwatch[q]
      BY <1>3, <2>2
    <3> QED  BY <3>1 DEF VersionInv
  <2> QED  BY <2>1, <2>2
<1>5. VersionInv'
  BY <1>4 DEF VersionInv
<1> QED  BY <1>2, <1>3, <1>5

\* An edit, or the end of a deletion, stores a version.
LEMMA EditStores ==
    ASSUME RepositoryTypeOK, VersionInv, NEW r \in Resources,
           Apply(r) \/ DeleteRepository(r) \/ Collect(r)
    PROVE  /\ \E new \in Version(r) : Store(r, new)
           /\ UNCHANGED <<rcache, rqueue, allow, hooks, nextHook, rpc, rres, rcopy>>
           /\ rbudget' \in [edit : 0 .. MaxEdits, fault : 0 .. MaxFaults,
                            crash : 0 .. MaxCrashes]
<1>1. repo[r] \in Version(r) /\ repo[r] \in Repository /\ NoRepository \in Version(r)
  BY NoneVersion DEF VersionInv, RepositoryTypeOK
<1>2. ASSUME NEW new \in Version(r), Edit(r, new)
      PROVE  /\ Store(r, new)
             /\ UNCHANGED <<rcache, rqueue, allow, hooks, nextHook, rpc, rres, rcopy>>
             /\ rbudget' \in [edit : 0 .. MaxEdits, fault : 0 .. MaxFaults,
                              crash : 0 .. MaxCrashes]
  <2>1. /\ Store(r, new) /\ rbudget.edit > 0
        /\ rbudget' = [rbudget EXCEPT !.edit = @ - 1]
        /\ UNCHANGED <<rcache, rqueue, allow, hooks, nextHook, rpc, rres, rcopy>>
    BY <1>2 DEF Edit, hookVars, rworkerVars
  <2>2. rbudget \in [edit : 0 .. MaxEdits, fault : 0 .. MaxFaults,
                     crash : 0 .. MaxCrashes]
    BY DEF RepositoryTypeOK
  <2>3. rbudget.edit - 1 \in 0 .. MaxEdits
    BY <2>1, <2>2
  <2>4. rbudget' \in [edit : 0 .. MaxEdits, fault : 0 .. MaxFaults,
                      crash : 0 .. MaxCrashes]
    BY <2>1, <2>2, <2>3
  <2> QED
    BY <2>1, <2>4
<1>3. CASE Apply(r)
  <2>1. PICK s \in Specs[r] :
           \/ Edit(r, [NoRepository EXCEPT !.state = "live", !.spec = s])
           \/ Edit(r, [repo[r] EXCEPT !.spec = s])
    BY <1>3, Zenon DEF Apply
  <2>2. s \in RepositorySpec
    OBVIOUS
  <2>3. [NoRepository EXCEPT !.state = "live", !.spec = s] \in Version(r)
    BY <2>2 DEF NoRepository, Version, Repository
  <2>4. [repo[r] EXCEPT !.spec = s] \in Version(r)
    <3>1. repo[r] \in Repository
      BY <1>1 DEF Version
    <3>2. /\ [repo[r] EXCEPT !.spec = s] \in Repository
          /\ [repo[r] EXCEPT !.spec = s].spec = s
      BY <2>2, <3>1, Zenon DEF Repository
    <3> QED
      BY <3>2 DEF Version
  <2>5. \E new \in Version(r) : Edit(r, new)
    BY <2>1, <2>3, <2>4
  <2> QED  BY <1>2, <2>5
<1>4. CASE DeleteRepository(r)
  <2>1. /\ repo[r].state = "live"
        /\ \/ Edit(r, NoRepository)
           \/ Edit(r, [repo[r] EXCEPT !.state = "deleting"])
    BY <1>4 DEF DeleteRepository
  <2>2. [repo[r] EXCEPT !.state = "deleting"] \in Version(r)
    BY <1>1, <2>1 DEF Version, Repository
  <2> QED  BY <1>1, <1>2, <2>1, <2>2
<1>5. CASE Collect(r)
  BY <1>1, <1>5 DEF Collect, hookVars, rworkerVars, RepositoryTypeOK
<1> QED  BY <1>3, <1>4, <1>5

\* A call of the worker stores nothing, or a version it holds.
LEMMA WorkerStores ==
    ASSUME WorkerInv, RepositoryWorker
    PROVE  /\ \/ UNCHANGED <<repo, rwatch>>
              \/ rres \in Resources /\ rcopy \in Version(rres) /\ Store(rres, rcopy)
           /\ UNCHANGED <<rcache, rqueue>>
<1>1. CASE BuildPATClient
  BY <1>1 DEF BuildPATClient
<1>2. CASE CreateHook
  BY <1>2 DEF CreateHook
<1>3. CASE DeleteHook
  BY <1>3 DEF DeleteHook
<1>4. CASE SaveHook
  BY <1>4 DEF SaveHook, WorkerInv
<1> QED  BY <1>1, <1>2, <1>3, <1>4 DEF RepositoryWorker

\* VersionInv and the types it speaks of, after a step.
VersionNext ==
    /\ VersionInv'
    /\ repo' \in [Resources -> Repository]
    /\ rwatch' \in [Resources -> SUBSET Repository]
    /\ rcache' \in [Resources -> Repository]

LEMMA VersionStep ==
    ASSUME RepositoryInv, [RepositoryNext]_rvars
    PROVE  VersionNext
<1> USE DEF RepositoryInv, VersionNext
<1>0. /\ repo \in [Resources -> Repository]
      /\ rwatch \in [Resources -> SUBSET Repository]
      /\ rcache \in [Resources -> Repository]
  BY DEF RepositoryTypeOK
<1>1. CASE UNCHANGED <<repo, rwatch, rcache>>
  BY <1>0, <1>1 DEF VersionInv
<1>2. ASSUME NEW r \in Resources, Apply(r) \/ DeleteRepository(r) \/ Collect(r)
      PROVE  VersionNext
  BY <1>0, <1>2, EditStores, StoreVersion
<1>3. ASSUME NEW r \in Resources, DeliverRepository(r)
      PROVE  VersionNext
  <2>1. PICK v \in rwatch[r] :
           /\ \A u \in rwatch[r] : v.rv <= u.rv
           /\ rcache' = [rcache EXCEPT ![r] = v]
           /\ rwatch' = [rwatch EXCEPT ![r] = @ \ {v}]
           /\ UNCHANGED repo
    BY <1>3 DEF DeliverRepository
  <2>2. /\ v \in Version(r) /\ repo[r] \in rwatch[r] /\ v \in Repository
        /\ repo[r].rv \in Nat /\ v.rv \in Nat
        /\ v.rv <= repo[r].rv /\ (v.rv = repo[r].rv => v = repo[r])
    BY <1>0 DEF VersionInv, Repository
  <2>3. \A u \in rwatch[r] : u.rv \in Nat /\ u.rv <= repo[r].rv
    BY <1>0 DEF VersionInv, Repository
  <2>4. rwatch[r] \ {v} # {} => repo[r] \in rwatch[r] \ {v}
    <3> SUFFICES ASSUME NEW u \in rwatch[r], u # v, repo[r] = v PROVE FALSE
      BY <2>2
    <3>1. v.rv <= u.rv /\ u.rv <= v.rv
      BY <2>1, <2>3
    <3>2. u.rv = v.rv
      BY <2>2, <2>3, <3>1
    <3> QED  BY <3>2 DEF VersionInv
  <2>5. rwatch[r] \ {v} = {} => v = repo[r]
    BY <2>2
  <2>6. ASSUME NEW q \in Resources
        PROVE  /\ repo'[q] \in Version(q) /\ rcache'[q] \in Version(q)
               /\ rwatch'[q] \subseteq Version(q)
               /\ \A u \in rwatch'[q] : /\ u.rv <= repo'[q].rv
                                        /\ u.rv = repo'[q].rv => u = repo'[q]
               /\ rwatch'[q] = {} => rcache'[q] = repo'[q]
               /\ rwatch'[q] # {} => repo'[q] \in rwatch'[q]
    <3>1. CASE q = r
      <4>1. rcache'[q] = v /\ rwatch'[q] = rwatch[r] \ {v} /\ repo'[q] = repo[r]
        BY <1>0, <2>1, <3>1
      <4> QED  BY <2>2, <2>4, <2>5, <3>1, <4>1 DEF VersionInv
    <3>2. CASE q # r
      <4>1. rcache'[q] = rcache[q] /\ rwatch'[q] = rwatch[q] /\ repo'[q] = repo[q]
        BY <1>0, <2>1, <3>2
      <4> QED  BY <4>1 DEF VersionInv
    <3> QED  BY <3>1, <3>2
  <2> QED  BY <1>0, <2>1, <2>2, <2>6 DEF VersionInv
<1>4. CASE RepositoryWorker
  <2>1. CASE UNCHANGED <<repo, rwatch>>
    BY <1>1, <1>4, <2>1, WorkerStores
  <2> QED  BY <1>0, <1>4, <2>1, WorkerStores, StoreVersion
<1>5. CASE RestartRepositories
  BY <1>0, <1>5 DEF RestartRepositories, VersionInv
<1>6. ASSUME NEW r \in Resources, Resync(r) \/ ReconcileRepository(r)
      PROVE  VersionNext
  BY <1>1, <1>6 DEF Resync, ReconcileRepository
<1> QED  BY <1>1, <1>2, <1>3, <1>4, <1>5, <1>6
         DEF RepositoryNext, RepositoryStep, rvars

-----------------------------------------------------------------------------
(* The worker.                                                             *)

\* What the worker holds once a reconcile of r goes on.
LEMMA GoesWorker ==
    ASSUME NEW r \in Resources, NEW copy \in Version(r), NEW a,
           NEW pc \in RepositoryPCs \ {"idle"}, Goes(pc, r, copy, a),
           copy.state = IF pc = "deleteHook" THEN "deleting" ELSE "live",
           pc # "buildClient" => copy.spec.key \in Names,
           r \notin rqueue' => /\ copy.spec = rcache'[r].spec
                               /\ copy.state = rcache'[r].state
    PROVE  WorkerInv'
  BY DEF Goes, Call, WorkerInv

LEMMA WorkerStep ==
    ASSUME RepositoryInv, [RepositoryNext]_rvars
    PROVE  WorkerInv'
<1> USE DEF RepositoryInv
<1>1. CASE UNCHANGED <<rpc, rres, rcopy, rqueue, rcache>>
  BY <1>1 DEF WorkerInv, Version
<1>2. ASSUME NEW r \in Resources, Apply(r) \/ DeleteRepository(r) \/ Collect(r)
      PROVE  WorkerInv'
  BY <1>1, <1>2, EditStores
<1>3. ASSUME NEW r \in Resources, DeliverRepository(r)
      PROVE  WorkerInv'
  <2>1. /\ UNCHANGED <<rpc, rres, rcopy>> /\ rqueue' = rqueue \cup {r}
        /\ \A q \in Resources \ {r} : rcache'[q] = rcache[q]
    BY <1>3 DEF DeliverRepository, rworkerVars, RepositoryTypeOK
  <2> QED  BY <2>1 DEF WorkerInv, Version
<1>4. ASSUME NEW r \in Resources, Resync(r)
      PROVE  WorkerInv'
  BY <1>4 DEF Resync, rworkerVars, WorkerInv, Version
<1>5. ASSUME NEW r \in Resources, ReconcileRepository(r)
      PROVE  WorkerInv'
  <2>1. rpc = "idle" /\ UNCHANGED rcache /\ rcache[r] \in Version(r)
    BY <1>5 DEF ReconcileRepository, VersionInv
  <2>2. CASE rpc' = "idle"
    BY <2>2 DEF WorkerInv
  <2>3. CASE /\ rcache[r].state = "deleting"
             /\ rcache[r].spec.key \in Names
             /\ Goes("deleteHook", r, rcache[r], allow)
    BY <2>1, <2>3, GoesWorker DEF RepositoryPCs
  <2>4. CASE rcache[r].state = "live" /\ Goes("buildClient", r, rcache[r], allow)
    BY <2>1, <2>4, GoesWorker DEF RepositoryPCs
  <2>5. CASE /\ rcache[r].state = "live"
             /\ rcache[r].spec.key \in Names
             /\ Goes("createHook", r, rcache[r], allow)
    BY <2>1, <2>5, GoesWorker DEF RepositoryPCs
  <2> QED  BY <1>5, <2>1, <2>2, <2>3, <2>4, <2>5, ReconcileEffect DEF EndsWith, Idle
<1>6. CASE RepositoryWorker
  <2>1. /\ rres \in Resources /\ rcopy \in Version(rres)
        /\ UNCHANGED <<rcache, rqueue>> /\ rpc # "idle"
    BY <1>6, WorkerEffect, WorkerStores
       DEF RepositoryWorker, BuildPATClient, CreateHook, SaveHook, DeleteHook
  <2>2. CASE rpc' = "idle"
    BY <2>2 DEF WorkerInv
  <2>3. ASSUME NEW pc \in {"createHook", "saveHook"}, NEW h \in Nat, NEW a,
               rcopy.spec.key \in Names, rcopy.state = "live",
               Goes(pc, rres, [rcopy EXCEPT !.hook = h], a)
        PROVE  WorkerInv'
    <3> DEFINE copy == [rcopy EXCEPT !.hook = h]
    <3>1. /\ copy \in Version(rres) /\ copy.state = rcopy.state
          /\ copy.spec = rcopy.spec
      BY <2>1 DEF Version, Repository
    <3>2. rres \notin rqueue => /\ rcopy.spec = rcache[rres].spec
                                /\ rcopy.state = rcache[rres].state
      BY <2>1 DEF WorkerInv
    <3>3. Goes(pc, rres, copy, a)
      BY <2>3
    <3> HIDE DEF copy
    <3> QED  BY <2>1, <2>3, <3>1, <3>2, <3>3, GoesWorker DEF RepositoryPCs
  <2> QED  BY <1>6, <2>2, <2>3, WorkerEffect DEF EndsWith, Idle
<1>7. CASE RestartRepositories
  BY <1>7 DEF RestartRepositories, Idle, WorkerInv
<1> QED  BY <1>1, <1>2, <1>3, <1>4, <1>5, <1>6, <1>7
         DEF RepositoryNext, RepositoryStep, rvars

-----------------------------------------------------------------------------
(* The allowlist.                                                          *)

\* What a step on a specification t can make of the allowlist.
Outcomes(t) ==
    {allow, SetClient(allow, t.key), Set(allow, t),
     Set(SetClient(allow, t.key), t), Forgotten(t.key)}

LEMMA OutcomesTyped ==
    ASSUME allow \in Cache, NEW t \in RepositorySpec
    PROVE  Outcomes(t) \subseteq Cache
<1>1. t.key \in Keys
  BY DEF RepositorySpec
<1>2. SetClient(allow, t.key) \in Cache /\ Forgotten(t.key) \in Cache
  BY <1>1, ClientLemma, DeleteLemma DEF Forgotten
<1>3. Set(allow, t) \in Cache /\ Set(SetClient(allow, t.key), t) \in Cache
  BY <1>2, SetLemma
<1> QED  BY <1>2, <1>3 DEF Outcomes

\* A step on a specification of another resource leaves the entry of one that
\* is alone with its name.
LEMMA EntryKept ==
    ASSUME allow \in Cache, NEW r \in Resources, NEW q \in Resources, q # r,
           Alone(r), NEW s \in Specs[r], NEW t \in Specs[q],
           NEW b \in Outcomes(t)
    PROVE  EntryIn(b, s) = EntryIn(allow, s)
<1>1. s \in RepositorySpec /\ t \in RepositorySpec /\ t.key \in Keys
  BY DEF RepositorySpec
<1>2. s.key # t.key
  BY AloneLemma
<1> DEFINE c == SetClient(allow, t.key)
<1>3. c \in Cache /\ EntryIn(c, s) = EntryIn(allow, s)
  BY <1>1, ClientLemma
<1>4. EntryIn(Set(allow, t), s) = EntryIn(allow, s)
  BY <1>1, <1>2, SetLemma
<1>5. EntryIn(Set(c, t), s) = EntryIn(c, s)
  BY <1>1, <1>2, <1>3, SetLemma
<1>6. EntryIn(Forgotten(t.key), s) = EntryIn(allow, s)
  BY <1>1, <1>2, DeleteLemma DEF Forgotten
<1> QED  BY <1>3, <1>4, <1>5, <1>6 DEF Outcomes

LEMMA ReconcileOutcome ==
    ASSUME RepositoryTypeOK, VersionInv, NEW r \in Resources,
           ReconcileRepository(r), rcache[r].state # "absent"
    PROVE  allow' \in Outcomes(rcache[r].spec)
  BY ReconcileEffect DEF Outcomes, Goes, EndsWith

LEMMA WorkerOutcome ==
    ASSUME RepositoryTypeOK, WorkerInv, RepositoryWorker
    PROVE  allow' \in Outcomes(rcopy.spec)
  BY WorkerEffect DEF Outcomes, Goes, EndsWith

LEMMA CachedStep ==
    ASSUME RepositoryInv, [RepositoryNext]_rvars
    PROVE  CachedInv'
<1> USE DEF RepositoryInv
<1>0. allow \in Cache /\ rcache \in [Resources -> Repository]
  BY DEF RepositoryTypeOK
<1>1. CASE UNCHANGED <<rcache, allow, rpc, rres>> /\ rqueue \subseteq rqueue'
  BY <1>1 DEF CachedInv, EntryOf, EntryIn
<1>2. ASSUME NEW r \in Resources, Apply(r) \/ DeleteRepository(r) \/ Collect(r)
      PROVE  CachedInv'
  BY <1>1, <1>2, EditStores
<1>3. ASSUME NEW q \in Resources, DeliverRepository(q)
      PROVE  CachedInv'
  <2>1. /\ UNCHANGED <<allow, rpc, rres>> /\ rqueue' = rqueue \cup {q}
        /\ \A r \in Resources \ {q} : rcache'[r] = rcache[r]
    BY <1>0, <1>3 DEF DeliverRepository, rworkerVars
  <2> QED  BY <2>1 DEF CachedInv, EntryOf, EntryIn
<1>4. ASSUME NEW r \in Resources, Resync(r)
      PROVE  CachedInv'
  BY <1>1, <1>4 DEF Resync, rworkerVars
<1>5. ASSUME NEW q \in Resources, ReconcileRepository(q),
             NEW r \in Resources, rcache'[r].state = "live", Alone(r),
             r \notin rqueue', rpc' # "idle" => rres' # r
      PROVE  EntryIn(allow', rcache'[r].spec) = rcache'[r].spec
  <2>1. /\ rpc = "idle" /\ rqueue' = rqueue \ {q} /\ UNCHANGED rcache
        /\ rcache[r] \in Version(r) /\ rcache[q] \in Version(q)
    BY <1>5 DEF ReconcileRepository, VersionInv
  <2>2. rcache[r].spec \in Specs[r] /\ rcache[r].spec \in RepositorySpec
    BY <1>5, <2>1, SpecLemma
  <2>3. CASE r # q
    <3>1. EntryIn(allow, rcache[r].spec) = rcache[r].spec
      BY <1>5, <2>1, <2>3 DEF CachedInv, EntryOf
    <3>2. CASE rcache[q].state = "absent"
      BY <1>5, <2>1, <3>1, <3>2, ReconcileEffect
    <3>3. CASE rcache[q].state # "absent"
      <4>1. rcache[q].spec \in Specs[q]
        BY <2>1, <3>3, SpecLemma
      <4>2. allow' \in Outcomes(rcache[q].spec)
        BY <1>5, <3>3, ReconcileOutcome
      <4>3. EntryIn(allow', rcache[r].spec) = EntryIn(allow, rcache[r].spec)
        BY <1>0, <1>5, <2>2, <2>3, <4>1, <4>2, EntryKept
      <4> QED  BY <2>1, <3>1, <4>3
    <3> QED  BY <3>2, <3>3
  <2>4. CASE r = q
    <3>1. allow' = Set(allow, rcache[r].spec)
      BY <1>5, <2>1, <2>4, ReconcileEffect DEF Goes, Call, EndsWith
    <3> QED  BY <1>0, <2>1, <2>2, <3>1, SetLemma
  <2> QED  BY <2>3, <2>4
<1>6. ASSUME RepositoryWorker,
             NEW r \in Resources, rcache'[r].state = "live", Alone(r),
             r \notin rqueue', rpc' # "idle" => rres' # r
      PROVE  EntryIn(allow', rcache'[r].spec) = rcache'[r].spec
  <2>1. /\ UNCHANGED <<rcache, rqueue>> /\ rpc # "idle"
        /\ rcache[r] \in Version(r)
        /\ rres \in Resources /\ rcopy \in Version(rres) /\ rcopy.state # "absent"
    BY <1>6, WorkerEffect, WorkerStores
       DEF RepositoryWorker, BuildPATClient, CreateHook, SaveHook, DeleteHook, VersionInv
  <2>2. /\ rcache[r].spec \in Specs[r] /\ rcache[r].spec \in RepositorySpec
        /\ rcopy.spec \in Specs[rres] /\ rcopy.spec.key \in Keys
    BY <1>6, <2>1, SpecLemma
  <2>3. CASE rres # r
    <3>1. EntryIn(allow, rcache[r].spec) = rcache[r].spec
      BY <1>6, <2>1, <2>3 DEF CachedInv, EntryOf
    <3>2. EntryIn(allow', rcache[r].spec) = EntryIn(allow, rcache[r].spec)
      BY <1>0, <1>6, <2>1, <2>2, <2>3, WorkerOutcome, EntryKept
    <3> QED  BY <2>1, <3>1, <3>2
  <2>4. CASE rres = r
    <3>1. rcopy.spec = rcache[r].spec /\ rcopy.state = "live"
      BY <1>6, <2>1, <2>4 DEF WorkerInv
    <3>2. PICK a \in {allow, SetClient(allow, rcopy.spec.key)} :
             allow' = Set(a, rcopy.spec)
      BY <1>6, <2>4, <3>1, WorkerEffect DEF Goes, Call, EndsWith
    <3>3. a \in Cache
      BY <1>0, <2>2, ClientLemma
    <3> QED  BY <2>1, <2>2, <3>1, <3>2, <3>3, SetLemma
  <2> QED  BY <2>3, <2>4
<1>7. CASE RestartRepositories
  BY <1>7 DEF RestartRepositories, CachedInv
<1> QED  BY <1>1, <1>2, <1>3, <1>4, <1>5, <1>6, <1>7
         DEF RepositoryNext, RepositoryStep, rvars, CachedInv, EntryOf

-----------------------------------------------------------------------------
(* Types.                                                                  *)

Budgeted == rbudget \in [edit : 0 .. MaxEdits, fault : 0 .. MaxFaults,
                         crash : 0 .. MaxCrashes]

LEMMA FaultLemma ==
    ASSUME Budgeted, RepositoryFault \/ UNCHANGED rbudget
    PROVE  Budgeted'
  BY DEF Budgeted, RepositoryFault

\* What only the worker's calls change besides the allowlist.
LEMMA HooksStep ==
    ASSUME RepositoryTypeOK, WorkerInv, RepositoryWorker
    PROVE  /\ hooks' \in [Names -> Nat]
           /\ nextHook' \in Nat \ {0}
           /\ Budgeted'
<1>1. /\ hooks \in [Names -> Nat] /\ nextHook \in Nat \ {0} /\ Budgeted
  BY DEF RepositoryTypeOK, Budgeted
<1>2. ASSUME NEW n \in Names, HookCreated(n)
      PROVE  hooks' \in [Names -> Nat] /\ nextHook' \in Nat \ {0}
  BY <1>1, <1>2 DEF HookCreated
<1>3. CASE BuildPATClient
  BY <1>1, <1>3, FaultLemma DEF BuildPATClient, hookVars
<1>4. CASE CreateHook
  <2>1. rcopy.spec.key \in Names
    BY <1>4 DEF CreateHook, WorkerInv
  <2>2. /\ HookCreated(rcopy.spec.key) \/ UNCHANGED <<hooks, nextHook>>
        /\ RepositoryFault \/ UNCHANGED rbudget
    BY <1>4 DEF CreateHook, hookVars
  <2> QED  BY <1>1, <1>2, <2>1, <2>2, FaultLemma
<1>5. CASE SaveHook
  BY <1>1, <1>5, FaultLemma DEF SaveHook, hookVars
<1>6. CASE DeleteHook
  BY <1>1, <1>6, FaultLemma DEF DeleteHook
<1> QED  BY <1>3, <1>4, <1>5, <1>6 DEF RepositoryWorker

\* The types of what VersionNext and WorkerInv do not speak of.
Rest ==
    /\ rqueue' \subseteq Resources
    /\ allow' \in Cache
    /\ hooks' \in [Names -> Nat]
    /\ nextHook' \in Nat \ {0}
    /\ rpc' \in RepositoryPCs
    /\ rres' \in Resources \cup {Nil}
    /\ rcopy' \in Repository
    /\ Budgeted'

LEMMA RestStep ==
    ASSUME RepositoryInv, [RepositoryNext]_rvars
    PROVE  Rest
<1> USE DEF RepositoryInv, Rest
<1>1. /\ rqueue \subseteq Resources /\ allow \in Cache
      /\ hooks \in [Names -> Nat] /\ nextHook \in Nat \ {0}
      /\ rpc \in RepositoryPCs /\ rres \in Resources \cup {Nil}
      /\ rcopy \in Repository /\ Budgeted
  BY DEF RepositoryTypeOK, Budgeted
<1>2. ASSUME NEW a \in Cache, EndsWith(a)
      PROVE  /\ allow' \in Cache /\ rpc' \in RepositoryPCs
             /\ rres' \in Resources \cup {Nil} /\ rcopy' \in Repository
  BY <1>2 DEF EndsWith, Idle, RepositoryPCs, NoRepository, Repository
<1>3. ASSUME NEW r \in Resources, NEW copy \in Version(r), NEW a \in Cache,
             NEW pc \in RepositoryPCs, Goes(pc, r, copy, a)
      PROVE  /\ allow' \in Cache /\ rpc' \in RepositoryPCs
             /\ rres' \in Resources \cup {Nil} /\ rcopy' \in Repository
  BY <1>3 DEF Goes, Call, Version
<1>4. ASSUME NEW r \in Resources, Apply(r) \/ DeleteRepository(r) \/ Collect(r)
      PROVE  Rest
  BY <1>1, <1>4, EditStores DEF Budgeted
<1>5. ASSUME NEW r \in Resources, DeliverRepository(r) \/ Resync(r)
      PROVE  Rest
  BY <1>1, <1>5 DEF DeliverRepository, Resync, hookVars, rworkerVars, Budgeted
<1>6. ASSUME NEW r \in Resources, ReconcileRepository(r)
      PROVE  Rest
  <2>1. /\ rqueue' \subseteq Resources /\ UNCHANGED <<hooks, nextHook, rbudget>>
        /\ rcache[r] \in Version(r)
    BY <1>1, <1>6 DEF ReconcileRepository, hookVars, VersionInv
  <2>2. CASE rcache[r].state = "absent"
    BY <1>1, <1>6, <2>1, <2>2, ReconcileEffect DEF Budgeted
  <2>3. CASE rcache[r].state # "absent"
    <3>1. rcache[r].spec \in RepositorySpec
      BY <2>1, <2>3, SpecLemma
    <3>2. Set(allow, rcache[r].spec) \in Cache /\ Forgotten(rcache[r].spec.key) \in Cache
      BY <1>1, <3>1, OutcomesTyped DEF Outcomes
    <3>3. /\ allow' \in Cache /\ rpc' \in RepositoryPCs
          /\ rres' \in Resources \cup {Nil} /\ rcopy' \in Repository
      BY <1>1, <1>2, <1>3, <1>6, <2>1, <2>3, <3>2, ReconcileEffect DEF RepositoryPCs
    <3> QED  BY <1>1, <2>1, <3>3 DEF Budgeted
  <2> QED  BY <2>2, <2>3
<1>7. CASE RepositoryWorker
  <2>1. /\ rres \in Resources /\ rcopy \in Version(rres) /\ rcopy.state # "absent"
        /\ UNCHANGED rqueue
    BY <1>7, WorkerEffect, WorkerStores
  <2>2. rcopy.spec \in RepositorySpec
    BY <2>1, SpecLemma
  <2>3. Outcomes(rcopy.spec) \subseteq Cache
    BY <1>1, <2>2, OutcomesTyped
  <2>4. \A h \in Nat : [rcopy EXCEPT !.hook = h] \in Version(rres)
    BY <1>1, <2>1 DEF Version, Repository
  <2>5. /\ allow' \in Cache /\ rpc' \in RepositoryPCs
        /\ rres' \in Resources \cup {Nil} /\ rcopy' \in Repository
    <3>1. CASE \E pc \in {"createHook", "saveHook"}, h \in Nat,
                  a \in {allow, SetClient(allow, rcopy.spec.key)} :
                  Goes(pc, rres, [rcopy EXCEPT !.hook = h], a)
      BY <1>3, <2>1, <2>3, <2>4, <3>1 DEF Outcomes, RepositoryPCs
    <3>2. CASE \E a \in {allow, SetClient(allow, rcopy.spec.key)} :
                  EndsWith(Set(a, rcopy.spec))
      BY <1>2, <2>3, <3>2 DEF Outcomes
    <3>3. CASE EndsWith(Forgotten(rcopy.spec.key))
      BY <1>2, <2>3, <3>3 DEF Outcomes
    <3> QED  BY <1>7, <3>1, <3>2, <3>3, WorkerEffect
  <2> QED  BY <1>1, <1>7, <2>1, <2>5, HooksStep
<1>8. CASE RestartRepositories
  <2>1. EndsWith(NewAllowlistCache) /\ rqueue' \subseteq Resources
        /\ UNCHANGED <<hooks, nextHook>>
    BY <1>8 DEF RestartRepositories, EndsWith, hookVars
  <2>2. Budgeted'
    BY <1>1, <1>8 DEF RestartRepositories, Budgeted
  <2> QED  BY <1>1, <1>2, <2>1, <2>2, EmptyCache
<1>9. CASE UNCHANGED rvars
  BY <1>1, <1>9 DEF rvars, Budgeted
<1> QED  BY <1>4, <1>5, <1>6, <1>7, <1>8, <1>9 DEF RepositoryNext, RepositoryStep

LEMMA TypeStep ==
    ASSUME RepositoryInv, [RepositoryNext]_rvars
    PROVE  RepositoryTypeOK'
<1>1. VersionNext /\ WorkerInv' /\ Rest
  BY VersionStep, WorkerStep, RestStep
<1>2. \A r \in Resources : repo'[r].state # "absent" => repo'[r].spec # Nil
  BY <1>1, SpecLemma DEF VersionNext, VersionInv
<1>3. rpc' # "idle" => rres' \in Resources /\ rcopy'.spec # Nil
  <2> SUFFICES ASSUME rpc' # "idle" PROVE rres' \in Resources /\ rcopy'.spec # Nil
    OBVIOUS
  <2>1. /\ rres' \in Resources /\ rcopy' \in Version(rres')
        /\ rcopy'.state # "absent"
    BY <1>1 DEF WorkerInv, Version
  <2> QED  BY <2>1, SpecLemma
<1> QED  BY <1>1, <1>2, <1>3 DEF RepositoryTypeOK, VersionNext, Rest, Budgeted

-----------------------------------------------------------------------------
(* The theorems.                                                           *)

LEMMA RepositoryInitial == RepositoryInit => RepositoryInv
<1> SUFFICES ASSUME RepositoryInit PROVE RepositoryInv
  OBVIOUS
<1>1. RepositoryTypeOK
  BY EmptyCache DEF RepositoryInit, RepositoryTypeOK, NoRepository, Repository,
                    RepositoryPCs
<1>2. VersionInv
  BY NoneVersion DEF RepositoryInit, VersionInv
<1>3. WorkerInv /\ CachedInv
  BY DEF RepositoryInit, WorkerInv, CachedInv, NoRepository
<1> QED  BY <1>1, <1>2, <1>3 DEF RepositoryInv

\* The strengthened invariant holds in every reachable state.
THEOREM RepositoryInductive == RepositorySpecification => []RepositoryInv
<1>1. RepositoryInv /\ [RepositoryNext]_rvars => RepositoryInv'
  BY TypeStep, VersionStep, WorkerStep, CachedStep DEF RepositoryInv, VersionNext
<1> QED  BY RepositoryInitial, <1>1, PTL DEF RepositorySpecification

\* The reconciler, the allowlist, the hooks and the resources keep their types,
\* whatever is edited, fails or crashes.
THEOREM RepositoryTypeCorrect == RepositorySpecification => []RepositoryTypeOK
<1>1. RepositoryInv => RepositoryTypeOK
  BY DEF RepositoryInv
<1> QED  BY RepositoryInductive, <1>1, PTL

\* Reconcile leaves the allowlist with the specification of every live resource
\* that shares its name with no other, once nothing of it is pending.
THEOREM AllowlistAgrees == RepositorySpecification => []AllowlistCurrent
<1>1. RepositoryInv => AllowlistCurrent
  BY DEF RepositoryInv, VersionInv, CachedInv, AllowlistCurrent, Pending
<1> QED  BY RepositoryInductive, <1>1, PTL

-----------------------------------------------------------------------------
(* The recorded hooks.                                                     *)

\* The versions of r outside the worker's hands.
Kept(r) == {repo[r], rcache[r]} \cup rwatch[r]

\* IDs are those of hooks there have been, and no two resources have the same.
OwnHooks ==
    /\ \A r \in Resources : \A v \in Kept(r) : v.hook < nextHook
    /\ \A r, q \in Resources : \A v \in Kept(r), u \in Kept(q) :
          v.hook # 0 /\ v.hook = u.hook => r = q

\* A resource that was created again has not the ID of a deleted one.
EndedHooks ==
    \A r \in Resources : \A v \in Kept(r) :
        repo[r].state = "live" /\ v.state = "deleting" /\ v.hook # 0
        => v.hook # repo[r].hook

\* The hook in the worker's hands: one that nobody has recorded yet, or one
\* that no live resource records any more.
WorkerHook ==
    /\ rpc \in {"createHook", "saveHook"} => ~IsPattern(rcopy.spec)
    /\ rpc = "saveHook" =>
         /\ rcopy.hook # 0
         /\ rcopy.hook < nextHook
         /\ hooks[rcopy.spec.key] = rcopy.hook
         /\ \A r \in Resources : \A v \in Kept(r) : v.hook # rcopy.hook
    /\ rpc = "deleteHook" =>
         /\ rcopy.hook # 0
         /\ \A r \in Resources :
              repo[r].state = "live" => repo[r].hook # rcopy.hook

HookInv == OwnHooks /\ EndedHooks /\ WorkerHook /\ RecordedHookExists

LEMMA KeptTypes ==
    ASSUME RepositoryTypeOK
    PROVE  /\ \A r \in Resources : Kept(r) \subseteq Repository
           /\ \A r \in Resources : repo[r] \in Kept(r) /\ rcache[r] \in Kept(r)
           /\ nextHook \in Nat \ {0}
           /\ \A v \in Repository : v.hook \in Nat
BY DEF RepositoryTypeOK, Kept, Repository

\* A step that stores nothing and leaves the hooks alone.
LEMMA KeptSame ==
    ASSUME HookInv, \A r \in Resources : Kept(r)' \subseteq Kept(r),
           UNCHANGED <<repo, hooks, nextHook>>
    PROVE  OwnHooks' /\ EndedHooks' /\ RecordedHookExists'
<1>1. OwnHooks'
  BY DEF HookInv, OwnHooks
<1>2. EndedHooks'
  BY DEF HookInv, EndedHooks
<1>3. RecordedHookExists'
  BY DEF HookInv, RecordedHookExists
<1> QED  BY <1>1, <1>2, <1>3

\* What a stored version adds to the others.
Adds(r, o) ==
    /\ repo'[r] = o
    /\ \A q \in Resources \ {r} : repo'[q] = repo[q] /\ Kept(q)' = Kept(q)
    /\ Kept(r)' \subseteq Kept(r) \cup {o}

LEMMA StoreAdds ==
    ASSUME RepositoryTypeOK, NEW r \in Resources, NEW new \in Repository,
           Store(r, new), UNCHANGED rcache
    PROVE  \E o \in Repository :
              /\ o.state = new.state /\ o.spec = new.spec /\ o.hook = new.hook
              /\ Adds(r, o)
<1> DEFINE o == [new EXCEPT !.rv = repo[r].rv + 1]
<1>1. /\ o \in Repository
      /\ o.state = new.state /\ o.spec = new.spec /\ o.hook = new.hook
  <2>1. repo[r].rv + 1 \in Nat
    BY DEF RepositoryTypeOK, Repository
  <2> QED
    BY <2>1 DEF Repository
<1>2. /\ repo' = [repo EXCEPT ![r] = o]
      /\ rwatch' = [rwatch EXCEPT ![r] = @ \cup {o}]
  BY DEF Store
<1> HIDE DEF o
<1>3. Adds(r, o)
  BY <1>2 DEF Adds, Kept, RepositoryTypeOK
<1> QED  BY <1>1, <1>3

\* A version without a hook, or with that of the version before it.
LEMMA StoreKeepsHook ==
    ASSUME RepositoryTypeOK, HookInv, NEW r \in Resources, NEW o \in Repository,
           Adds(r, o), UNCHANGED <<hooks, nextHook, rpc, rcopy>>,
           o.hook = 0 \/ o.hook = repo[r].hook,
           o.state = "live" /\ o.hook # 0 =>
               repo[r].state = "live" /\ o.spec.key = repo[r].spec.key
    PROVE  HookInv'
<1>1. /\ \A q \in Resources : repo[q] \in Kept(q) /\ Kept(q) \subseteq Repository
      /\ nextHook \in Nat \ {0}
  BY KeptTypes
<1>2. ASSUME NEW q \in Resources, NEW v \in Kept(q)', v.hook # 0
      PROVE  \E u \in Kept(q) : u.hook = v.hook
  BY <1>1, <1>2 DEF Adds
<1>3. \A q \in Resources : \A v \in Kept(q)' : v.hook < nextHook
  BY <1>1 DEF Adds, HookInv, OwnHooks
<1>4. OwnHooks'
  BY <1>2, <1>3 DEF HookInv, OwnHooks
<1>5. EndedHooks'
  BY <1>1 DEF Adds, HookInv, EndedHooks
<1>6. RecordedHookExists'
  BY DEF Adds, HookInv, RecordedHookExists, IsPattern
<1>7. WorkerHook'
  <2>1. \A q \in Resources : repo'[q].state = "live" /\ repo'[q].hook # 0 =>
           repo[q].state = "live" /\ repo[q].hook = repo'[q].hook
    BY DEF Adds
  <2>2. rpc = "saveHook" => \A q \in Resources : \A v \in Kept(q)' : v.hook # rcopy.hook
    BY <1>2 DEF HookInv, WorkerHook
  <2> QED  BY <2>1, <2>2 DEF HookInv, WorkerHook
<1> QED  BY <1>4, <1>5, <1>6, <1>7 DEF HookInv

\* Every specification of a resource is for the same repository.
KeepsRepository == \A r \in Resources : \A s, t \in Specs[r] : s.key = t.key

LEMMA EditKeepsHooks ==
    ASSUME KeepsRepository, RepositoryInv, HookInv, NEW r \in Resources,
           Apply(r) \/ DeleteRepository(r) \/ Collect(r)
    PROVE  HookInv'
<1>1. UNCHANGED <<rcache, hooks, nextHook, rpc, rcopy>>
  BY EditStores DEF RepositoryInv
<1>2. repo[r] \in Version(r) /\ repo[r] \in Repository /\ RepositoryTypeOK
  BY DEF RepositoryInv, RepositoryTypeOK, VersionInv
<1>3. ASSUME NEW new \in Repository, Store(r, new),
             new.hook = 0 \/ new.hook = repo[r].hook,
             new.state = "live" /\ new.hook # 0 =>
                 repo[r].state = "live" /\ new.spec.key = repo[r].spec.key
      PROVE  HookInv'
  BY <1>1, <1>2, <1>3, StoreAdds, StoreKeepsHook
<1>4. NoRepository \in Repository /\ NoRepository.hook = 0 /\ NoRepository.state = "absent"
  BY DEF NoRepository, Repository
<1>5. CASE Apply(r)
  <2>1. PICK s \in Specs[r] :
           \/ Edit(r, [NoRepository EXCEPT !.state = "live", !.spec = s])
           \/ repo[r].state = "live" /\ Edit(r, [repo[r] EXCEPT !.spec = s])
    BY <1>5, Zenon DEF Apply
  <2>2. s \in RepositorySpec
    OBVIOUS
  <2>3. CASE Edit(r, [NoRepository EXCEPT !.state = "live", !.spec = s])
    <3> DEFINE new == [NoRepository EXCEPT !.state = "live", !.spec = s]
    <3>1. new \in Repository /\ new.hook = 0
      BY <2>2 DEF NoRepository, Repository
    <3>2. Store(r, new)
      BY <2>3 DEF Edit
    <3> HIDE DEF new
    <3> QED  BY <1>3, <3>1, <3>2
  <2>4. CASE repo[r].state = "live" /\ Edit(r, [repo[r] EXCEPT !.spec = s])
    <3> DEFINE new == [repo[r] EXCEPT !.spec = s]
    <3>1. new \in Repository /\ new.hook = repo[r].hook /\ new.spec = s
      <4>1. \A v \in Repository :
              /\ [v EXCEPT !.spec = s] \in Repository
              /\ [v EXCEPT !.spec = s].hook = v.hook
              /\ [v EXCEPT !.spec = s].spec = s
        BY <2>2, Zenon DEF Repository
      <4> QED
        BY <1>2, <4>1
    <3>2. Store(r, new)
      BY <2>4 DEF Edit
    <3>3. s.key = repo[r].spec.key
      BY <1>2, <2>4, SpecLemma DEF KeepsRepository
    <3> HIDE DEF new
    <3> QED  BY <1>3, <2>4, <3>1, <3>2, <3>3
  <2> QED  BY <2>1, <2>3, <2>4, Zenon
<1>6. CASE DeleteRepository(r)
  <2>1. CASE Edit(r, NoRepository)
    BY <1>3, <1>4, <2>1 DEF Edit
  <2>2. CASE Edit(r, [repo[r] EXCEPT !.state = "deleting"])
    <3> DEFINE new == [repo[r] EXCEPT !.state = "deleting"]
    <3>1. new \in Repository /\ new.hook = repo[r].hook /\ new.state = "deleting"
      BY <1>2 DEF Repository
    <3>2. Store(r, new)
      BY <2>2 DEF Edit
    <3> HIDE DEF new
    <3> QED  BY <1>3, <3>1, <3>2
  <2> QED  BY <1>6, <2>1, <2>2 DEF DeleteRepository
<1>7. CASE Collect(r)
  BY <1>3, <1>4, <1>7 DEF Collect
<1> QED  BY <1>5, <1>6, <1>7

\* Where a resource goes after its client is resolved.
LEMMA EnsureHookHook ==
    ASSUME NEW r \in Resources, NEW a, NEW copy, EnsureHook(r, a, copy)
    PROVE  \/ rpc' = "createHook" /\ rcopy' = copy /\ ~IsPattern(copy.spec)
           \/ rpc' = "idle"
BY DEF EnsureHook, NeedsHook, AddToAllowlist, Idle, Call

\* The start of a reconcile takes a hook for deletion that no live resource
\* has recorded.
LEMMA ReconcileKeepsHooks ==
    ASSUME RepositoryInv, HookInv, NEW r \in Resources, ReconcileRepository(r)
    PROVE  HookInv'
<1>1. UNCHANGED <<repo, rwatch, rcache, hooks, nextHook>> /\ rpc = "idle"
  BY DEF ReconcileRepository, hookVars
<1>2. OwnHooks' /\ EndedHooks' /\ RecordedHookExists'
  BY <1>1, KeptSame DEF Kept
<1>3. /\ \A q \in Resources : repo[q] \in Kept(q) /\ rcache[q] \in Kept(q)
  BY KeptTypes DEF RepositoryInv
<1>4. \/ rpc' \in {"idle", "buildClient"}
      \/ rpc' = "createHook" /\ rcopy' = rcache[r] /\ ~IsPattern(rcache[r].spec)
      \/ /\ rpc' = "deleteHook" /\ rcopy' = rcache[r]
         /\ rcache[r].state = "deleting" /\ rcache[r].hook # 0
  BY <1>1, EnsureHookHook
     DEF ReconcileRepository, Forget, Idle, Call, rworkerVars, NeedsCleanup
<1>5. ASSUME rcache[r].state = "deleting", rcache[r].hook # 0,
             NEW q \in Resources, repo[q].state = "live"
      PROVE  repo[q].hook # rcache[r].hook
  BY <1>3, <1>5 DEF HookInv, OwnHooks, EndedHooks
<1>6. WorkerHook'
  BY <1>1, <1>4, <1>5 DEF WorkerHook
<1> QED  BY <1>2, <1>6 DEF HookInv

\* A new hook is nobody's yet.
LEMMA CreateKeepsHooks ==
    ASSUME RepositoryInv, HookInv, CreateHook
    PROVE  HookInv'
<1> DEFINE n == rcopy.spec.key
<1>1. UNCHANGED <<repo, rwatch, rcache>> /\ rpc = "createHook"
  BY DEF CreateHook
<1>2. /\ \A r \in Resources : repo[r] \in Kept(r) /\ Kept(r) \subseteq Repository
      /\ nextHook \in Nat \ {0} /\ hooks \in [Names -> Nat] /\ rcopy \in Repository
      /\ n \in Names /\ ~IsPattern(rcopy.spec)
      /\ \A v \in Repository : v.hook \in Nat
  BY <1>1, KeptTypes DEF RepositoryInv, WorkerInv, HookInv, WorkerHook, RepositoryTypeOK
<1>3. \A r \in Resources : Kept(r)' = Kept(r)
  BY <1>1 DEF Kept
<1>4. CASE UNCHANGED <<hooks, nextHook>>
  <2>1. rpc' = "idle"
    BY <1>2, <1>4 DEF CreateHook, HookCreated, AddToAllowlist, Idle
  <2> QED  BY <1>1, <1>3, <1>4, <2>1, KeptSame DEF HookInv, WorkerHook
<1>5. CASE HookCreated(n)
  <2>1. /\ hooks[n] = 0 /\ nextHook' = nextHook + 1
        /\ hooks' = [hooks EXCEPT ![n] = nextHook]
    BY <1>5 DEF HookCreated
  <2>2. \A r \in Resources : \A v \in Kept(r) : v.hook < nextHook /\ v.hook \in Nat
    BY <1>2 DEF HookInv, OwnHooks
  <2>3. OwnHooks'
    BY <1>2, <1>3, <2>1, <2>2 DEF HookInv, OwnHooks
  <2>4. EndedHooks'
    BY <1>1, <1>3 DEF HookInv, EndedHooks
  <2>5. RecordedHookExists'
    BY <1>1, <1>2, <2>1 DEF HookInv, RecordedHookExists
  <2>6. WorkerHook'
    <3>1. \/ rpc' = "idle"
          \/ rpc' = "saveHook" /\ rcopy' = [rcopy EXCEPT !.hook = nextHook]
      BY DEF CreateHook, AddToAllowlist, Idle, Call
    <3>2. CASE rpc' = "idle"
      BY <3>2 DEF WorkerHook
    <3>3. CASE rpc' = "saveHook" /\ rcopy' = [rcopy EXCEPT !.hook = nextHook]
      <4>1. rcopy'.hook = nextHook /\ rcopy'.spec = rcopy.spec
        BY <1>2, <3>3 DEF Repository
      <4>2. hooks'[rcopy'.spec.key] = nextHook
        BY <1>2, <2>1, <4>1
      <4>3. \A r \in Resources : \A v \in Kept(r)' : v.hook # nextHook
        BY <1>2, <1>3, <2>2
      <4> QED  BY <1>2, <2>1, <3>3, <4>1, <4>2, <4>3 DEF WorkerHook
    <3> QED  BY <3>1, <3>2, <3>3
  <2> QED  BY <2>3, <2>4, <2>5, <2>6 DEF HookInv
<1> QED  BY <1>4, <1>5 DEF CreateHook, hookVars

\* The recorded hook is the one that was just created.
LEMMA SaveKeepsHooks ==
    ASSUME RepositoryInv, HookInv, SaveHook
    PROVE  HookInv'
<1>1. /\ rpc = "saveHook" /\ rpc' = "idle" /\ UNCHANGED <<rcache, hooks, nextHook>>
      /\ UNCHANGED <<repo, rwatch>> \/ Store(rres, rcopy)
  BY DEF SaveHook, AddToAllowlist, Idle, hookVars
<1>2. WorkerHook'
  BY <1>1 DEF WorkerHook
<1>3. CASE UNCHANGED <<repo, rwatch>>
  <2>1. \A r \in Resources : Kept(r)' \subseteq Kept(r)
    BY <1>1, <1>3 DEF Kept
  <2> QED  BY <1>1, <1>2, <1>3, <2>1, KeptSame DEF HookInv
<1>4. CASE Store(rres, rcopy)
  <2>1. /\ RepositoryTypeOK /\ rres \in Resources /\ rcopy \in Repository
        /\ rcopy.state = "live"
    BY <1>1 DEF RepositoryInv, WorkerInv, RepositoryTypeOK
  <2> PICK r \in Resources : r = rres
    BY <2>1
  <2>2. PICK o \in Repository :
           /\ o.state = "live" /\ o.spec = rcopy.spec /\ o.hook = rcopy.hook
           /\ Adds(r, o)
    BY <1>1, <1>4, <2>1, StoreAdds
  <2>3. /\ o.hook # 0 /\ o.hook < nextHook /\ hooks[o.spec.key] = o.hook
        /\ ~IsPattern(o.spec)
        /\ \A q \in Resources : \A v \in Kept(q) : v.hook # o.hook
    BY <1>1, <2>2 DEF HookInv, WorkerHook
  <2>4. \A q \in Resources : \A v \in Kept(q)' : v \in Kept(q) \/ (q = r /\ v = o)
    BY <2>2 DEF Adds
  <2>5. OwnHooks'
    BY <1>1, <2>3, <2>4 DEF HookInv, OwnHooks
  <2>6. EndedHooks'
    BY <2>2, <2>3, <2>4 DEF Adds, HookInv, EndedHooks
  <2>7. RecordedHookExists'
    BY <1>1, <2>2, <2>3 DEF Adds, HookInv, RecordedHookExists
  <2> QED  BY <1>2, <2>5, <2>6, <2>7 DEF HookInv
<1> QED  BY <1>1, <1>3, <1>4

\* The deleted hook is one that no live resource has recorded.
LEMMA DeleteKeepsHooks ==
    ASSUME RepositoryInv, HookInv, DeleteHook
    PROVE  HookInv'
<1> DEFINE n == rcopy.spec.key
<1>1. /\ UNCHANGED <<repo, rwatch, rcache, nextHook>>
      /\ rpc = "deleteHook" /\ rpc' = "idle"
      /\ \/ UNCHANGED hooks
         \/ hooks' = [hooks EXCEPT ![n] = IF @ = rcopy.hook THEN 0 ELSE @]
  BY DEF DeleteHook, Forget, Idle
<1>2. WorkerHook'
  BY <1>1 DEF WorkerHook
<1>3. \A r \in Resources : Kept(r)' = Kept(r)
  BY <1>1 DEF Kept
<1>4. OwnHooks' /\ EndedHooks'
  BY <1>1, <1>3 DEF HookInv, OwnHooks, EndedHooks
<1>5. hooks \in [Names -> Nat] /\ n \in Names
  BY <1>1 DEF RepositoryInv, RepositoryTypeOK, WorkerInv
<1>6. \A m \in Names : hooks[m] # rcopy.hook => hooks'[m] = hooks[m]
  BY <1>1, <1>5
<1>7. ASSUME NEW r \in Resources, repo[r].state = "live", repo[r].hook # 0
      PROVE  ~IsPattern(repo[r].spec) /\ hooks'[repo[r].spec.key] = repo[r].hook
  <2>1. ~IsPattern(repo[r].spec) /\ hooks[repo[r].spec.key] = repo[r].hook
    BY <1>7 DEF HookInv, RecordedHookExists
  <2>2. repo[r].spec.key \in Names
    BY <1>7, <2>1, SpecLemma DEF RepositoryInv, VersionInv
  <2>3. repo[r].hook # rcopy.hook
    BY <1>1, <1>7 DEF HookInv, WorkerHook
  <2> QED  BY <1>6, <2>1, <2>2, <2>3
<1>8. RecordedHookExists'
  BY <1>1, <1>7 DEF RecordedHookExists
<1> QED  BY <1>2, <1>4, <1>8 DEF HookInv

LEMMA HookStep ==
    ASSUME KeepsRepository, RepositoryInv, HookInv, [RepositoryNext]_rvars
    PROVE  HookInv'
<1>1. ASSUME NEW r \in Resources, Apply(r) \/ DeleteRepository(r) \/ Collect(r)
      PROVE  HookInv'
  BY <1>1, EditKeepsHooks
<1>2. ASSUME NEW r \in Resources, DeliverRepository(r) \/ Resync(r)
      PROVE  HookInv'
  <2>1. UNCHANGED <<repo, hooks, nextHook, rpc, rcopy>>
    BY <1>2 DEF DeliverRepository, Resync, hookVars, rworkerVars
  <2>2. \A q \in Resources : Kept(q)' \subseteq Kept(q)
    BY <1>2 DEF DeliverRepository, Resync, Kept, RepositoryInv, RepositoryTypeOK
  <2>3. WorkerHook'
    BY <2>1, <2>2 DEF HookInv, WorkerHook
  <2> QED  BY <2>1, <2>2, <2>3, KeptSame DEF HookInv
<1>3. ASSUME NEW r \in Resources, ReconcileRepository(r)
      PROVE  HookInv'
  BY <1>3, ReconcileKeepsHooks
<1>4. CASE BuildPATClient
  <2>1. /\ UNCHANGED <<repo, rwatch, rcache, hooks, nextHook>>
        /\ rres \in Resources
    BY <1>4 DEF BuildPATClient, hookVars, RepositoryInv, WorkerInv
  <2>2. \/ rpc' = "createHook" /\ rcopy' = rcopy /\ ~IsPattern(rcopy.spec)
        \/ rpc' = "idle"
    BY <1>4, <2>1, EnsureHookHook DEF BuildPATClient
  <2>3. WorkerHook'
    BY <2>2 DEF WorkerHook
  <2> QED  BY <2>1, <2>3, KeptSame DEF Kept, HookInv
<1>5. CASE CreateHook
  BY <1>5, CreateKeepsHooks
<1>6. CASE SaveHook
  BY <1>6, SaveKeepsHooks
<1>7. CASE DeleteHook
  BY <1>7, DeleteKeepsHooks
<1>8. CASE RestartRepositories
  <2>1. UNCHANGED <<repo, hooks, nextHook>> /\ rpc' = "idle"
    BY <1>8 DEF RestartRepositories, Idle, hookVars
  <2>2. \A q \in Resources : Kept(q)' \subseteq Kept(q)
    BY <1>8 DEF RestartRepositories, Kept
  <2>3. WorkerHook'
    BY <2>1 DEF WorkerHook
  <2> QED  BY <2>1, <2>2, <2>3, KeptSame DEF HookInv
<1>9. CASE UNCHANGED rvars
  BY <1>9, KeptSame DEF rvars, Kept, HookInv, WorkerHook
<1> QED  BY <1>1, <1>2, <1>3, <1>4, <1>5, <1>6, <1>7, <1>8, <1>9
         DEF RepositoryNext, RepositoryStep, RepositoryWorker

\* If resources keep their repository, the ID in the status of a live resource
\* is that of the hook on it: Reconcile records no hook that was not created,
\* and cleanupRepo deletes none that a live resource still records.
THEOREM RecordedHooksExist ==
    ASSUME KeepsRepository
    PROVE  RepositorySpecification => []RecordedHookExists
<1>1. RepositoryInit => HookInv
  BY DEF RepositoryInit, HookInv, OwnHooks, EndedHooks, WorkerHook, Kept,
         RecordedHookExists, NoRepository
<1>2. RepositoryInv /\ HookInv /\ [RepositoryNext]_rvars => HookInv'
  BY HookStep
<1>3. HookInv => RecordedHookExists
  BY DEF HookInv
<1> QED
  BY <1>1, <1>2, <1>3, RepositoryInductive, PTL DEF RepositorySpecification

=============================================================================
