------------------------ MODULE RepositoryController ------------------------
(***************************************************************************)
(* The ClaudeRepository reconciler: it fills the allowlist from the stored *)
(* resources, keeps a client for a repository with its own token and a     *)
(* webhook on the GitHub repository, whose ID it records in the status.    *)
(*                                                                         *)
(* Its one worker reads resources from a lagging cache and is interrupted  *)
(* between any two calls; people create, edit and delete resources; calls  *)
(* fail or lose their reply; the operator crashes and restarts with an     *)
(* empty allowlist.  Every failure is only logged.                         *)
(***************************************************************************)
EXTENDS Allowlist

CONSTANTS
    Resources,     \* the names of the ClaudeRepository objects
    Specs,         \* Specs[r]: the specifications a person may give r
    GlobalClient,  \* whether there is a global GitHub client
    WebhookURL,    \* whether the operator knows its own URL
    MaxEdits,      \* bound on creations, edits and deletions
    MaxFaults,     \* bound on calls that fail or lose their reply
    MaxCrashes     \* bound on operator crashes

ASSUME RepositoryAssumption ==
    /\ Specs \in [Resources -> SUBSET RepositorySpec]
    /\ Nil \notin Resources \cup RepositorySpec
    /\ GlobalClient \in BOOLEAN
    /\ WebhookURL \in BOOLEAN
    /\ MaxEdits \in Nat
    /\ MaxFaults \in Nat
    /\ MaxCrashes \in Nat

VARIABLES
    repo,      \* repo[r]: the object stored by the API server
    rwatch,    \* rwatch[r]: stored versions the informer has not seen yet
    rcache,    \* rcache[r]: the version in the informer cache
    rqueue,    \* the keys in the work queue
    allow,     \* the AllowlistCache
    hooks,     \* hooks[n]: the ID of the hook on GitHub repository n, or 0
    nextHook,  \* the ID GitHub gives next
    rpc,       \* the next call of the worker
    rres,      \* the resource it reconciles
    rcopy,     \* its copy of that resource
    rbudget    \* edits, faults and crashes still to come

rworkerVars == <<rpc, rres, rcopy>>
hookVars    == <<hooks, nextHook>>
rvars == <<repo, rwatch, rcache, rqueue, allow, hooks, nextHook, rpc, rres,
           rcopy, rbudget>>

RepositoryPCs == {"idle", "buildClient", "createHook", "saveHook", "deleteHook"}

\* "deleting": the object has a DeletionTimestamp.
Repository == [state : {"absent", "live", "deleting"},
               spec : RepositorySpec \cup {Nil}, hook : Nat, rv : Nat]

NoRepository == [state |-> "absent", spec |-> Nil, hook |-> 0, rv |-> 0]

\* The state of the resources, the reconciler, the allowlist and the hooks; a
\* resource that is not absent has a specification, and so has the copy in
\* the hands of the worker.
RepositoryTypeOK ==
    /\ repo \in [Resources -> Repository]
    /\ rwatch \in [Resources -> SUBSET Repository]
    /\ rcache \in [Resources -> Repository]
    /\ rqueue \subseteq Resources
    /\ allow \in Cache
    /\ hooks \in [Names -> Nat]
    /\ nextHook \in Nat \ {0}
    /\ rpc \in RepositoryPCs
    /\ rres \in Resources \cup {Nil}
    /\ rcopy \in Repository
    /\ rpc # "idle" => rres \in Resources /\ rcopy.spec # Nil
    /\ \A r \in Resources : repo[r].state # "absent" => repo[r].spec # Nil
    /\ rbudget \in [edit : 0 .. MaxEdits, fault : 0 .. MaxFaults,
                    crash : 0 .. MaxCrashes]

RepositoryInit ==
    /\ repo = [r \in Resources |-> NoRepository]
    /\ rwatch = [r \in Resources |-> {}]
    /\ rcache = [r \in Resources |-> NoRepository]
    /\ rqueue = {}
    /\ allow = NewAllowlistCache
    /\ hooks = [n \in Names |-> 0]
    /\ nextHook = 1
    /\ rpc = "idle"
    /\ rres = Nil
    /\ rcopy = NoRepository
    /\ rbudget = [edit |-> MaxEdits, fault |-> MaxFaults, crash |-> MaxCrashes]

-----------------------------------------------------------------------------
(* The API server, the informer and the people who manage resources.      *)

RepositoryFault ==
    rbudget.fault > 0 /\ rbudget' = [rbudget EXCEPT !.fault = @ - 1]

\* Versions of a name keep growing when it is deleted and created again.
Store(r, new) ==
    LET o == [new EXCEPT !.rv = repo[r].rv + 1] IN
    /\ repo' = [repo EXCEPT ![r] = o]
    /\ rwatch' = [rwatch EXCEPT ![r] = @ \cup {o}]

Edit(r, new) ==
    /\ rbudget.edit > 0
    /\ rbudget' = [rbudget EXCEPT !.edit = @ - 1]
    /\ Store(r, new)
    /\ UNCHANGED <<rcache, rqueue, allow, hookVars, rworkerVars>>

\* kubectl apply: creates the resource, or changes its specification only.
Apply(r) ==
    \E s \in Specs[r] :
        \/ /\ repo[r].state = "absent"
           /\ Edit(r, [NoRepository EXCEPT !.state = "live", !.spec = s])
        \/ /\ repo[r].state = "live"
           /\ repo[r].spec # s
           /\ Edit(r, [repo[r] EXCEPT !.spec = s])

\* kubectl delete: the reconciler sets no finalizer, so the object is gone at
\* once, unless the person asked for a foreground deletion.
DeleteRepository(r) ==
    /\ repo[r].state = "live"
    /\ \/ Edit(r, NoRepository)
       \/ Edit(r, [repo[r] EXCEPT !.state = "deleting"])

\* The garbage collector ends a foreground deletion.
Collect(r) ==
    /\ repo[r].state = "deleting"
    /\ Store(r, NoRepository)
    /\ UNCHANGED <<rcache, rqueue, allow, hookVars, rworkerVars, rbudget>>

\* The informer sees the versions in order and enqueues the key for each.
DeliverRepository(r) ==
    \E v \in rwatch[r] :
        /\ \A u \in rwatch[r] : v.rv <= u.rv
        /\ rcache' = [rcache EXCEPT ![r] = v]
        /\ rwatch' = [rwatch EXCEPT ![r] = @ \ {v}]
        /\ rqueue' = rqueue \cup {r}
        /\ UNCHANGED <<repo, allow, hookVars, rworkerVars, rbudget>>

\* The periodic resync of the informer enqueues what is in its cache.
Resync(r) ==
    /\ rcache[r].state # "absent"
    /\ rqueue' = rqueue \cup {r}
    /\ UNCHANGED <<repo, rwatch, rcache, allow, hookVars, rworkerVars, rbudget>>

-----------------------------------------------------------------------------
(* The reconciler.  Each action is one call to another process and what    *)
(* the code does from its reply to the next call.                          *)

Call(pc, r, copy) == rpc' = pc /\ rres' = r /\ rcopy' = copy

\* A branch that does not return.
IdleMutant == UNCHANGED rpc /\ rres' = Nil /\ rcopy' = NoRepository

Idle == rpc' = "idle" /\ rres' = Nil /\ rcopy' = NoRepository

ResolveClient(a, key) == GetClient(a, key) \/ GlobalClient

\* The last lines of Reconcile.
AddToAllowlist(a, spec) == allow' = Set(a, spec) /\ Idle

NeedsHook(a, copy) ==
    /\ copy.hook = 0
    /\ WebhookURL
    /\ ~IsPattern(copy.spec)
    /\ ResolveClient(a, copy.spec.key)

\* Nothing to do for a resource that needs no hook.
EnsureHookMutant(r, a, copy) ==
    \/ NeedsHook(a, copy) /\ Call("createHook", r, copy) /\ allow' = a
    \/ ~NeedsHook(a, copy) /\ Idle /\ allow' = a

\* Reconcile once the client is resolved; a is the allowlist by then.
EnsureHook(r, a, copy) ==
    \/ NeedsHook(a, copy) /\ Call("createHook", r, copy) /\ allow' = a
    \/ ~NeedsHook(a, copy) /\ AddToAllowlist(a, copy.spec)

NeedsCleanup(copy) ==
    /\ copy.hook # 0
    /\ ~IsPattern(copy.spec)
    /\ ResolveClient(allow, copy.spec.key)

\* The end of cleanupRepo.
Forget(key) == allow' = DeleteClient(Delete(allow, key), key) /\ Idle

\* Reconcile up to its first call: a resource that is not found leaves
\* everything as it is.
ReconcileRepository(r) ==
    LET copy == rcache[r] IN
    /\ rpc = "idle"
    /\ r \in rqueue
    /\ rqueue' = rqueue \ {r}
    /\ \/ copy.state = "absent" /\ UNCHANGED <<allow, rworkerVars>>
       \/ /\ copy.state = "deleting"
          /\ \/ NeedsCleanup(copy) /\ Call("deleteHook", r, copy) /\ UNCHANGED allow
             \/ ~NeedsCleanup(copy) /\ Forget(copy.spec.key)
       \/ /\ copy.state = "live"
          /\ \/ copy.spec.pat /\ Call("buildClient", r, copy) /\ UNCHANGED allow
             \/ ~copy.spec.pat /\ EnsureHook(r, allow, copy)
    /\ UNCHANGED <<repo, rwatch, rcache, hookVars, rbudget>>

\* buildPATClient reads the Secret, which may fail or lack the key.
BuildPATClient ==
    /\ rpc = "buildClient"
    /\ \/ EnsureHook(rres, SetClient(allow, rcopy.spec.key), rcopy) /\ UNCHANGED rbudget
       \/ EnsureHook(rres, allow, rcopy) /\ RepositoryFault
    /\ UNCHANGED <<repo, rwatch, rcache, rqueue, hookVars>>

\* GitHub refuses a second hook with the same URL on a repository.
HookCreated(n) ==
    /\ hooks[n] = 0
    /\ hooks' = [hooks EXCEPT ![n] = nextHook]
    /\ nextHook' = nextHook + 1

\* The ID is recorded although the call failed.
CreateHookIDMutant ==
    /\ rpc = "createHook"
    /\ \/ /\ HookCreated(rcopy.spec.key)
          /\ Call("saveHook", rres, [rcopy EXCEPT !.hook = nextHook])
          /\ UNCHANGED rbudget
       \/ /\ RepositoryFault /\ UNCHANGED hookVars
          /\ Call("saveHook", rres, [rcopy EXCEPT !.hook = nextHook])
    /\ UNCHANGED <<repo, rwatch, rcache, rqueue, allow>>

\* A failure ends the reconcile.
CreateHookMutant ==
    /\ rpc = "createHook"
    /\ \/ /\ HookCreated(rcopy.spec.key)
          /\ Call("saveHook", rres, [rcopy EXCEPT !.hook = nextHook])
          /\ UNCHANGED rbudget
       \/ /\ hooks[rcopy.spec.key] # 0 \/ RepositoryFault
          /\ Idle
          /\ UNCHANGED <<hookVars, rbudget>>
    /\ UNCHANGED <<repo, rwatch, rcache, rqueue, allow>>

CreateHook ==
    /\ rpc = "createHook"
    /\ \/ /\ HookCreated(rcopy.spec.key)
          /\ Call("saveHook", rres, [rcopy EXCEPT !.hook = nextHook])
          /\ UNCHANGED <<allow, rbudget>>
       \/ /\ \/ hooks[rcopy.spec.key] # 0 /\ UNCHANGED <<hookVars, rbudget>>
             \/ RepositoryFault /\ UNCHANGED hookVars
             \/ RepositoryFault /\ HookCreated(rcopy.spec.key)
          /\ AddToAllowlist(allow, rcopy.spec)
    /\ UNCHANGED <<repo, rwatch, rcache, rqueue>>

\* The status update; one from an old version, or after a deletion, is refused.
SaveHook ==
    LET fresh == rcopy.rv = repo[rres].rv IN
    /\ rpc = "saveHook"
    /\ \/ fresh /\ Store(rres, rcopy) /\ UNCHANGED rbudget
       \/ ~fresh /\ UNCHANGED <<repo, rwatch, rbudget>>
       \/ RepositoryFault /\ UNCHANGED <<repo, rwatch>>
       \/ RepositoryFault /\ fresh /\ Store(rres, rcopy)
    /\ AddToAllowlist(allow, rcopy.spec)
    /\ UNCHANGED <<rcache, rqueue, hookVars>>

DeleteHook ==
    LET n == rcopy.spec.key IN
    /\ rpc = "deleteHook"
    /\ \/ hooks' = [hooks EXCEPT ![n] = IF @ = rcopy.hook THEN 0 ELSE @] /\ UNCHANGED rbudget
       \/ RepositoryFault /\ UNCHANGED hooks
    /\ Forget(n)
    /\ UNCHANGED <<repo, rwatch, rcache, rqueue, nextHook>>

\* A restart: the allowlist is new and the informer lists what is stored.
RestartRepositories ==
    /\ rbudget.crash > 0
    /\ rbudget' = [rbudget EXCEPT !.crash = @ - 1]
    /\ allow' = NewAllowlistCache
    /\ rcache' = repo
    /\ rwatch' = [r \in Resources |-> {}]
    /\ rqueue' = {r \in Resources : repo[r].state # "absent"}
    /\ Idle
    /\ UNCHANGED <<repo, hookVars>>

RepositoryWorker == BuildPATClient \/ CreateHook \/ SaveHook \/ DeleteHook

RepositoryStep ==
    \/ \E r \in Resources :
         \/ Apply(r) \/ DeleteRepository(r) \/ Collect(r)
         \/ DeliverRepository(r) \/ Resync(r) \/ ReconcileRepository(r)
    \/ RepositoryWorker

RepositoryNext == RepositoryStep \/ RestartRepositories

RepositorySpecification == RepositoryInit /\ [][RepositoryNext]_rvars

\* The informer and the worker are running goroutines, resyncs recur, the
\* garbage collector ends every deletion, and the queue serves a key that
\* keeps coming back.
RepositoryFairness ==
    /\ WF_rvars(RepositoryWorker)
    /\ \A r \in Resources :
         /\ WF_rvars(DeliverRepository(r))
         /\ WF_rvars(Resync(r))
         /\ WF_rvars(Collect(r))
         /\ SF_rvars(ReconcileRepository(r))

FairRepositories == RepositorySpecification /\ RepositoryFairness

-----------------------------------------------------------------------------
(* Properties.                                                             *)

\* Something about r is still on its way to the reconciler, or in its hands.
Pending(r) == rwatch[r] # {} \/ r \in rqueue \/ rres = r

SharesKey(r, q) == \E s \in Specs[r], t \in Specs[q] : s.key = t.key

Alone(r) == \A q \in Resources \ {r} : ~SharesKey(r, q)

EntryOf(s) == EntryIn(allow, s)

\* When nothing of a live resource is pending, the allowlist has exactly its
\* specification, whatever failed, crashed or was edited meanwhile: no error
\* branch of Reconcile may skip Allowlist.Set.
AllowlistCurrent ==
    \A r \in Resources :
        /\ repo[r].state = "live"
        /\ Alone(r)
        /\ ~Pending(r)
        => EntryOf(repo[r].spec) = repo[r].spec

\* The webhook ID in the status of a live resource is that of the hook on its
\* repository: Reconcile records no ID of a hook that was not created, and
\* cleanupRepo deletes no hook that a live resource still records.
RecordedHookExists ==
    \A r \in Resources :
        repo[r].state = "live" /\ repo[r].hook # 0
        => ~IsPattern(repo[r].spec) /\ hooks[repo[r].spec.key] = repo[r].hook

\* Once failures and edits cease, every live resource is represented on the
\* allowlist by itself or by another live resource of the same name.
AllowlistConverges ==
    <>[](\A r \in Resources :
            repo[r].state = "live" =>
                \E q \in Resources :
                    /\ repo[q].state = "live"
                    /\ repo[q].spec.key = repo[r].spec.key
                    /\ EntryOf(repo[r].spec) = repo[q].spec)

\* Once failures and edits cease, the repository of every live resource has a
\* webhook, although Reconcile only logs that it could not create it.
RepositoriesServed ==
    <>[](\A r \in Resources :
            /\ repo[r].state = "live"
            /\ WebhookURL
            /\ ~IsPattern(repo[r].spec)
            /\ ResolveClient(allow, repo[r].spec.key)
            => hooks[repo[r].spec.key] # 0)

\* "The webhook ID is stored in the resource status and cleaned up on
\* deletion": in the end, every hook the operator created is the one recorded by
\* a live resource of its repository.
HookAccountedFor ==
    <>[](\A n \in Names :
            hooks[n] # 0 => \E r \in Resources :
                                /\ repo[r].state = "live"
                                /\ repo[r].spec.key = n
                                /\ repo[r].hook = hooks[n])

=============================================================================
