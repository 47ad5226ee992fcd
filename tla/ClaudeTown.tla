----------------------------- MODULE ClaudeTown -----------------------------
(***************************************************************************)
(* The operator as a whole: the gates and the repository reconciler of     *)
(* WebhookHandler in front of the tasks of TaskController, one process     *)
(* that crashes and restarts as one, and the comments by which it asks its *)
(* questions, which GitHub delivers to it like those of people.            *)
(***************************************************************************)
EXTENDS TaskController

CONSTANTS
    \* those of WebhookHandler; its deliveries are the Tasks
    Names, Patterns, Covers, Invalid, Labels, Users, Roles, GlobalUsers,
    GlobalRoles, Nil, Resources, Specs, GlobalClient, WebhookURL, MaxEdits,
    MaxGateFaults, Delivery, Bot, RoleOf,
    Echoes,      \* the deliveries that carry comments of the operator's own
    GlobalLogin, \* the login under which the global client comments
    PatLogin     \* the login that the tokens of repositories belong to

VARIABLES
    \* those of WebhookHandler
    repo, rwatch, rcache, rqueue, allow, hooks, nextHook, rpc, rres, rcopy,
    rbudget, gpc, groles,
    own,    \* the worker's run has the client of the repository's own token
    asked   \* asked[d]: the question that echo d carries has been posted

Gate == INSTANCE WebhookHandler WITH Deliveries <- Tasks,
                                     MaxFaults <- MaxGateFaults

gates == <<repo, rwatch, rcache, rqueue, allow, hooks, nextHook, rpc, rres,
           rcopy, rbudget, gpc, groles>>
townVars == <<vars, gates, own, asked>>

\* Both models have the same deliveries.  Questions mention the bot and are
\* comments on issues.
ASSUME TownAssumption ==
    /\ \A d \in Tasks : Delivery[d].kind = Event[d].kind
    /\ \A d, e \in Tasks :
          Delivery[d].name = Delivery[e].name <=> FullName(d) = FullName(e)
    /\ GlobalClient
    /\ \A t \in Tasks : HasClient[t]
    /\ {GlobalLogin, PatLogin} \subseteq Users
    /\ Echoes \subseteq Tasks
    /\ \A d \in Echoes : /\ Delivery[d].kind # "issues"
                         /\ Delivery[d].user \in {GlobalLogin, PatLogin}

TownInit ==
    /\ Init
    /\ Gate!WebhookInit
    /\ own = FALSE
    /\ asked = [d \in Tasks |-> FALSE]

-----------------------------------------------------------------------------
\* GitHub delivers a person's comment, label or review at any time, an own
\* comment once it has been posted.
Arrive(d) ==
    /\ d \in Echoes => asked[d]
    /\ Gate!Receive(d)
    /\ UNCHANGED <<vars, own, asked>>

Judge(d) == Gate!MatchLabel(d) \/ Gate!IsUserAllowed(d) \/ Gate!CheckPermission(d)

\* A gate that opens onto the next one, or stays shut.
PassOrRefuse(d) ==
    /\ Judge(d)
    /\ gpc'[d] # "accepted"
    /\ UNCHANGED <<vars, own, asked>>

\* The last gate, and what the handler does next: the list of waiting tasks,
\* which concerns nothing that the gates read.
Accept(d) ==
    /\ Judge(d)
    /\ gpc'[d] = "accepted"
    /\ HandleMention(d) \/ HandleLabel(d)
    /\ UNCHANGED <<own, asked>>

\* resolveGitHubClient: the repository's own client if the allowlist has one.
OwnClient(t) == Gate!GetClient(allow, Delivery[t].name)

Login == IF own THEN PatLogin ELSE GlobalLogin

\* An echo is the echo of one question.
Asked(t) ==
    \/ \E d \in Echoes :
         /\ ~asked[d]
         /\ Thread(d) = Thread(t)
         /\ Delivery[d].user = Login
         /\ asked' = [asked EXCEPT ![d] = TRUE]
    \/ /\ \A d \in Echoes :
            asked[d] \/ Thread(d) # Thread(t) \/ Delivery[d].user # Login
       /\ UNCHANGED asked

AskedIn(t) ==
    IF wpc = "askComment" /\ comments'[t].ask > comments[t].ask
    THEN Asked(t) ELSE UNCHANGED asked

\* The client is resolved ahead of the wait for the sandbox.
WorkMutant ==
    /\ Call
    /\ own' = IF wpc = "waitReady" THEN OwnClient(wtask) ELSE own /\ wpc' # "idle"
    /\ AskedIn(wtask)
    /\ UNCHANGED gates

\* A call of the task reconciler; the client of a run is resolved ahead of
\* GetCloneToken.
Work ==
    /\ Call
    /\ own' = IF wpc = "token" THEN OwnClient(wtask) ELSE own /\ wpc' # "idle"
    /\ AskedIn(wtask)
    /\ UNCHANGED gates

\* Everything else about tasks.
TaskStep ==
    /\ \/ \E d \in Tasks : ResumeClarification(d) \/ CreateTask(d)
       \/ \E t \in Tasks : Deliver(t) \/ DeleteTask(t) \/ Reconcile(t)
       \/ Tick
    /\ UNCHANGED <<gates, own, asked>>

\* Everything else about repositories.
RepositoryStep ==
    /\ Gate!RepositoryStep
    /\ UNCHANGED <<vars, gpc, groles, own, asked>>

\* One process: both parts lose what they had in memory.
Restart ==
    /\ Crash
    /\ Gate!RestartWebhooks
    /\ own' = FALSE
    /\ UNCHANGED asked

TownNext ==
    \/ \E d \in Tasks : Arrive(d) \/ PassOrRefuse(d) \/ Accept(d)
    \/ Work
    \/ TaskStep
    \/ RepositoryStep
    \/ Restart

TownSpec == TownInit /\ [][TownNext]_townVars

-----------------------------------------------------------------------------
(* Properties.                                                             *)

\* "Ignore comments from the bot itself": a question of the operator's own,
\* which mentions the bot for people to copy, neither answers a question nor
\* starts a task when GitHub delivers it.
OwnQuestionsIgnored == \A d \in Echoes : hpc[d] = "new"

\* "Per-repo PAT > global": a run has the client of its repository's own token
\* unless something of the resource is still on its way to the allowlist, or a
\* call has failed: neither a restart, after which tasks go on while the
\* repositories are reconciled anew, nor the minutes between the calls of one
\* pass let a run go on with the global client for longer than that.
OwnClientOnceServed ==
    [][\A r \in Resources :
          LET spec == repo[r].spec IN
          /\ wpc = "token" /\ wpc' = "exec"
          /\ repo[r].state = "live" /\ Gate!Alone(r) /\ ~Gate!Pending(r)
          /\ spec.pat /\ spec.key = Delivery[wtask].name
          /\ rbudget.fault = MaxGateFaults
          => own']_townVars

=============================================================================
