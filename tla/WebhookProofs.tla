--------------------------- MODULE WebhookProofs ---------------------------
(***************************************************************************)
(* Proofs about WebhookHandler: deliveries do not disturb the repository   *)
(* reconciler, so its invariant holds beside them, and with it a refusal   *)
(* has its reason in the resources.                                        *)
(***************************************************************************)
EXTENDS WebhookHandler, RepositoryProofs

USE RepositoryAssumption, AllowlistAssumption, DeliveryAssumption

LEMMA GatesKeepRepositories ==
    ASSUME RepositoryInv, [WebhookNext]_wvars
    PROVE  RepositoryInv'
<1>1. CASE RepositoryStep \/ RestartRepositories \/ UNCHANGED rvars
  BY <1>1, TypeStep, VersionStep, WorkerStep, CachedStep
     DEF RepositoryNext, RepositoryInv, VersionNext
<1>2. ASSUME NEW d \in Deliveries, CheckPermission(d)
      PROVE  RepositoryInv'
  <2>1. /\ UNCHANGED <<repo, rwatch, rcache, rqueue, allow, hooks, nextHook>>
        /\ UNCHANGED <<rpc, rres, rcopy>>
        /\ RepositoryFault \/ UNCHANGED rbudget
    BY <1>2 DEF CheckPermission, hookVars, rworkerVars
  <2>2. Budgeted'
    BY <2>1, FaultLemma DEF RepositoryInv, RepositoryTypeOK, Budgeted
  <2>3. RepositoryTypeOK'
    BY <2>1, <2>2 DEF RepositoryInv, RepositoryTypeOK, Budgeted
  <2>4. VersionInv' /\ WorkerInv' /\ CachedInv'
    BY <2>1 DEF RepositoryInv, VersionInv, WorkerInv, CachedInv, Version, EntryOf,
                EntryIn
  <2> QED  BY <2>3, <2>4 DEF RepositoryInv
<1>3. ASSUME NEW d \in Deliveries, Receive(d) \/ MatchLabel(d) \/ IsUserAllowed(d)
      PROVE  UNCHANGED rvars
  BY <1>3 DEF Receive, MatchLabel, IsUserAllowed
<1>4. CASE UNCHANGED wvars
  BY <1>1, <1>4 DEF wvars, rvars
<1> QED  BY <1>1, <1>2, <1>3, <1>4 DEF WebhookNext, RestartWebhooks

-----------------------------------------------------------------------------
(* The gates.                                                              *)

\* The lists of a name contain the global ones.
LEMMA MergedLemma ==
    ASSUME allow \in Cache, NEW name \in Names,
           NEW list \in MergedAllowlists(allow, name)
    PROVE  GlobalUsers \subseteq list.users /\ list.roles \subseteq Roles
<1>1. Found(allow, name) \subseteq RepositorySpec
  BY DEF Found, Cache, Keys
<1>2. CASE Found(allow, name) = {}
  BY <1>2 DEF MergedAllowlists
<1>3. CASE Found(allow, name) # {}
  <2>1. PICK s \in Found(allow, name) :
           list = [users |-> GlobalUsers \cup s.users,
                   roles |-> GlobalRoles \cup s.roles]
    BY <1>3 DEF MergedAllowlists
  <2>2. s.roles \subseteq Roles
    BY <1>1 DEF RepositorySpec
  <2> QED  BY <2>1, <2>2
<1> QED  BY <1>2, <1>3

GateInv == GateTypeOK /\ GlobalUserNotDenied

\* One gate of d, seen from its own state and the roles it keeps.
LEMMA OneGate ==
    ASSUME GateInv, NEW d \in Deliveries, NEW pc \in GatePCs,
           NEW roles \in SUBSET Roles,
           gpc' = [gpc EXCEPT ![d] = pc], groles' = [groles EXCEPT ![d] = roles],
           (roles # {}) <=> (pc = "permission"),
           Delivery[d].user \in GlobalUsers => pc \notin {"denied", "permission"}
    PROVE  GateInv'
<1>1. gpc' \in [Deliveries -> GatePCs] /\ groles' \in [Deliveries -> SUBSET Roles]
  BY DEF GateInv, GateTypeOK
<1>2. ASSUME NEW e \in Deliveries
      PROVE  /\ (groles'[e] # {}) <=> (gpc'[e] = "permission")
             /\ Delivery[e].user \in GlobalUsers =>
                    gpc'[e] \notin {"denied", "permission"}
  <2>1. CASE e = d
    BY <2>1 DEF GateInv, GateTypeOK
  <2>2. CASE e # d
    <3>1. gpc'[e] = gpc[e] /\ groles'[e] = groles[e]
      BY <2>2 DEF GateInv, GateTypeOK
    <3> QED  BY <3>1 DEF GateInv, GateTypeOK, GlobalUserNotDenied
  <2> QED  BY <2>1, <2>2
<1> QED  BY <1>1, <1>2 DEF GateInv, GateTypeOK, GlobalUserNotDenied

LEMMA PassGate ==
    ASSUME GateInv, NEW d \in Deliveries, gpc[d] # "permission",
           NEW pc \in GatePCs \ {"permission"}, Pass(d, pc),
           Delivery[d].user \in GlobalUsers => pc # "denied"
    PROVE  GateInv'
<1>1. groles[d] = {} /\ groles \in [Deliveries -> SUBSET Roles]
  BY DEF GateInv, GateTypeOK
<1>2. groles' = [groles EXCEPT ![d] = {}] /\ gpc' = [gpc EXCEPT ![d] = pc]
  BY <1>1 DEF Pass
<1> QED  BY <1>2, OneGate

LEMMA GateStep ==
    ASSUME RepositoryInv, GateInv, [WebhookNext]_wvars
    PROVE  GateInv'
<1>1. CASE UNCHANGED <<gpc, groles>>
  BY <1>1 DEF GateInv, GateTypeOK, GlobalUserNotDenied
<1>2. ASSUME NEW d \in Deliveries, Receive(d)
      PROVE  GateInv'
  <2>1. gpc[d] = "new"
    BY <1>2 DEF Receive
  <2>2. PICK pc \in {"ignored", "notAllowed", "label", "user"} : Pass(d, pc)
    BY <1>2 DEF Receive
  <2> QED  BY <2>1, <2>2, PassGate DEF GatePCs, Answers
<1>3. ASSUME NEW d \in Deliveries, MatchLabel(d)
      PROVE  GateInv'
  <2>1. gpc[d] = "label" /\ (Pass(d, "user") \/ Pass(d, "ignored"))
    BY <1>3 DEF MatchLabel
  <2> QED  BY <2>1, PassGate DEF GatePCs, Answers
<1>4. ASSUME NEW d \in Deliveries, IsUserAllowed(d)
      PROVE  GateInv'
  <2> DEFINE user == Delivery[d].user
  <2>1. PICK list \in MergedAllowlists(allow, Delivery[d].name) :
           \/ Pass(d, "accepted")
           \/ /\ user \notin list.users
              /\ list.roles # {}
              /\ gpc' = [gpc EXCEPT ![d] = "permission"]
              /\ groles' = [groles EXCEPT ![d] = list.roles]
           \/ user \notin list.users /\ Pass(d, "denied")
    BY <1>4 DEF IsUserAllowed
  <2>2. gpc[d] = "user" /\ allow \in Cache /\ Delivery[d].name \in Names
    BY <1>4 DEF IsUserAllowed, RepositoryInv, RepositoryTypeOK, DeliveryRecord
  <2>3. GlobalUsers \subseteq list.users /\ list.roles \subseteq Roles
    BY <2>2, MergedLemma
  <2>4. CASE Pass(d, "accepted")
    BY <2>2, <2>4, PassGate DEF GatePCs, Answers
  <2>5. CASE /\ user \notin list.users
             /\ list.roles # {}
             /\ gpc' = [gpc EXCEPT ![d] = "permission"]
             /\ groles' = [groles EXCEPT ![d] = list.roles]
    BY <2>3, <2>5, OneGate DEF GatePCs
  <2>6. CASE user \notin list.users /\ Pass(d, "denied")
    BY <2>2, <2>3, <2>6, PassGate DEF GatePCs, Answers
  <2> QED  BY <2>1, <2>4, <2>5, <2>6
<1>5. ASSUME NEW d \in Deliveries, CheckPermission(d)
      PROVE  GateInv'
  <2>1. PICK pc \in {"accepted", "denied", "error"} :
           gpc' = [gpc EXCEPT ![d] = pc] /\ groles' = [groles EXCEPT ![d] = {}]
    BY <1>5 DEF CheckPermission
  <2>2. gpc[d] = "permission" /\ Delivery[d].user \notin GlobalUsers
    BY <1>5 DEF CheckPermission, GateInv, GlobalUserNotDenied
  <2> QED  BY <2>1, <2>2, OneGate DEF GatePCs, Answers
<1>6. CASE RestartWebhooks
  BY <1>6 DEF RestartWebhooks, GateInv, GateTypeOK, GlobalUserNotDenied, GatePCs,
              Answers
<1> QED  BY <1>1, <1>2, <1>3, <1>4, <1>5, <1>6 DEF WebhookNext, gateVars, wvars

\* Both invariants hold side by side in every reachable state.
THEOREM WebhookInductive == WebhookSpecification => [](RepositoryInv /\ GateInv)
<1>1. WebhookInit => RepositoryInv /\ GateInv
  BY RepositoryInitial
     DEF WebhookInit, GateInv, GateTypeOK, GlobalUserNotDenied, GatePCs
<1>2. RepositoryInv /\ GateInv /\ [WebhookNext]_wvars => (RepositoryInv /\ GateInv)'
  BY GatesKeepRepositories, GateStep
<1> QED  BY <1>1, <1>2, PTL DEF WebhookSpecification

\* The gates keep their types; roles are kept only for a permission check.
THEOREM GateTypeCorrect == WebhookSpecification => []GateTypeOK
<1>1. GateInv => GateTypeOK
  BY DEF GateInv
<1> QED  BY WebhookInductive, <1>1, PTL

\* IsUserAllowed denies no globally allowed user, whatever the resources say.
THEOREM GlobalUsersPass == WebhookSpecification => []GlobalUserNotDenied
<1>1. GateInv => GlobalUserNotDenied
  BY DEF GateInv
<1> QED  BY WebhookInductive, <1>1, PTL

-----------------------------------------------------------------------------
(* Refusals.                                                               *)

\* A name that the entry of a specification serves is allowed.
LEMMA ServedIsAllowed ==
    ASSUME NEW s \in RepositorySpec, NEW name \in Names, Serves(s, name),
           EntryIn(allow, s) = s
    PROVE  IsAllowed(allow, name)
<1>1. s # Nil
  OBVIOUS
<1>2. CASE s.key = name
  <2>1. allow.exact[name] = s
    BY <1>2 DEF EntryIn, IsPattern
  <2> QED  BY <1>1, <2>1 DEF IsAllowed, Found
<1>3. CASE IsPattern(s) /\ s.key \notin Invalid /\ name \in Covers[s.key]
  <2>1. s.key \in Patterns /\ allow.patterns[s.key] = s
    BY <1>3 DEF EntryIn, IsPattern
  <2>2. allow.exact[name] = Nil => allow.patterns[s.key] \in Found(allow, name)
    BY <1>1, <1>3, <2>1 DEF Found
  <2>3. allow.exact[name] # Nil => allow.exact[name] \in Found(allow, name)
    BY DEF Found
  <2> QED  BY <2>2, <2>3 DEF IsAllowed
<1> QED  BY <1>2, <1>3 DEF Serves

LEMMA RefusalHasReason ==
    ASSUME RepositoryInv, GateInv, [WebhookNext]_wvars, NEW d \in Deliveries,
           gpc[d] = "new", gpc'[d] = "notAllowed",
           NEW r \in Resources, repo[r].state = "live", Alone(r),
           Serves(repo[r].spec, Delivery[d].name)
    PROVE  Pending(r)
<1>0. gpc \in [Deliveries -> GatePCs]
  BY DEF GateInv, GateTypeOK
<1>1. ~IsAllowed(allow, Delivery[d].name)
  <2>1. ASSUME NEW e \in Deliveries, Receive(e)
        PROVE  ~IsAllowed(allow, Delivery[d].name)
    <3>1. PICK pc : Pass(e, pc)
      BY <2>1 DEF Receive
    <3>2. e = d
      BY <1>0, <3>1 DEF Pass
    <3>3. \A p \in GatePCs : Pass(d, p) => p = "notAllowed"
      BY <1>0 DEF Pass
    <3> QED  BY <2>1, <3>2, <3>3 DEF Receive, GatePCs, Answers
  <2>2. ASSUME NEW e \in Deliveries, MatchLabel(e) \/ IsUserAllowed(e)
        PROVE  FALSE
    <3>1. PICK pc \in {"user", "ignored", "accepted", "denied", "permission"} :
             gpc[e] # "new" /\ gpc' = [gpc EXCEPT ![e] = pc]
      BY <2>2 DEF MatchLabel, IsUserAllowed, Pass
    <3> QED  BY <1>0, <3>1
  <2>3. ASSUME NEW e \in Deliveries, CheckPermission(e)
        PROVE  FALSE
    <3>1. PICK pc \in {"accepted", "denied", "error"} : gpc' = [gpc EXCEPT ![e] = pc]
      BY <2>3 DEF CheckPermission
    <3> QED  BY <1>0, <3>1
  <2>4. ASSUME RestartWebhooks \/ UNCHANGED gpc
        PROVE  FALSE
    BY <2>4 DEF RestartWebhooks
  <2> QED  BY <2>1, <2>2, <2>3, <2>4 DEF WebhookNext, gateVars, wvars
<1>2. SUFFICES ASSUME ~Pending(r) PROVE FALSE
  OBVIOUS
<1>3. repo[r].spec \in RepositorySpec
  BY SpecLemma DEF RepositoryInv, VersionInv
<1>4. EntryIn(allow, repo[r].spec) = repo[r].spec
  BY <1>2 DEF RepositoryInv, VersionInv, CachedInv, Pending, EntryOf
<1>5. Delivery[d].name \in Names
  BY DEF DeliveryRecord
<1> QED  BY <1>1, <1>3, <1>4, <1>5, ServedIsAllowed

\* A delivery is answered "repo not allowed" only while every live resource
\* meant for its repository is still on its way to the allowlist.
THEOREM RefusalsJustified == WebhookSpecification => RefusedOnlyWhilePending
<1>1. RepositoryInv /\ GateInv /\ [WebhookNext]_wvars =>
        [\A d \in Deliveries :
           gpc[d] = "new" /\ gpc'[d] = "notAllowed" =>
               \A r \in Resources :
                   /\ repo[r].state = "live"
                   /\ Alone(r)
                   /\ Serves(repo[r].spec, Delivery[d].name)
                   => Pending(r)]_wvars
  BY RefusalHasReason
<1> QED  BY WebhookInductive, <1>1, PTL
         DEF WebhookSpecification, RefusedOnlyWhilePending

=============================================================================
