--------------------------- MODULE WebhookHandler ---------------------------
(***************************************************************************)
(* The gates a GitHub delivery passes before it becomes, or resumes, a     *)
(* task: event, action, mention, own comments, repository, label, user.    *)
(* Each delivery has its own goroutine, which queries the allowlist while  *)
(* the repository reconciler changes it.  What an accepted delivery does   *)
(* next is the subject of TaskController.                                  *)
(***************************************************************************)
EXTENDS RepositoryController

CONSTANTS
    Deliveries,
    Delivery,  \* Delivery[d]: what d says
    Bot,       \* the login of the bot
    RoleOf     \* RoleOf[u]: the permission of user u, or Nil

\* A delivery that is authentic and well formed.  mention: its text mentions
\* the bot; label: the label that was added, if one was.
DeliveryRecord ==
    [kind : {"issues", "issue_comment", "pull_request_review",
             "pull_request_review_comment", "other"},
     action : {"created", "submitted", "labeled", "edited"},
     name : Names, user : Users, mention : BOOLEAN,
     label : Labels \cup {Nil}]

ASSUME DeliveryAssumption ==
    /\ Delivery \in [Deliveries -> DeliveryRecord]
    /\ RoleOf \in [Users -> Roles \cup {Nil}]

VARIABLES
    gpc,    \* gpc[d]: the next gate of d, or how it was answered
    groles  \* groles[d]: the roles it compares with the user's permission

gateVars == <<gpc, groles>>
wvars == <<repo, rwatch, rcache, rqueue, allow, hooks, nextHook, rpc, rres,
           rcopy, rbudget, gpc, groles>>

\* Answers: "ignored", "notAllowed" and "denied" are 200, "error" is 500.
Answers == {"ignored", "notAllowed", "denied", "error", "accepted"}

GatePCs == {"new", "label", "user", "permission"} \cup Answers

\* The gates of every delivery; no roles are kept once it is answered.
GateTypeOK ==
    /\ gpc \in [Deliveries -> GatePCs]
    /\ groles \in [Deliveries -> SUBSET Roles]
    /\ \A d \in Deliveries : (groles[d] # {}) <=> (gpc[d] = "permission")

WebhookInit ==
    /\ RepositoryInit
    /\ gpc = [d \in Deliveries |-> "new"]
    /\ groles = [d \in Deliveries |-> {}]

-----------------------------------------------------------------------------
Pass(d, pc) == gpc' = [gpc EXCEPT ![d] = pc] /\ UNCHANGED groles

\* Comments are not told apart by who wrote them.
IsBotCommentMutant(user) == FALSE

IsBotComment(user) == user = Bot

\* What each handler asks of the payload before it asks the allowlist.
HandleIssueComment(e) ==
    e.action = "created" /\ e.mention /\ ~IsBotComment(e.user)

HandlePRReview(e) ==
    e.action = "submitted" /\ e.mention /\ ~IsBotComment(e.user)

HandlePRReviewComment(e) ==
    e.action = "created" /\ e.mention /\ ~IsBotComment(e.user)

HandleIssuesEvent(e) == e.action = "labeled"

\* The routing of ServeHTTP; other events are ignored.
Concerns(e) ==
    \/ e.kind = "issues" /\ HandleIssuesEvent(e)
    \/ e.kind = "issue_comment" /\ HandleIssueComment(e)
    \/ e.kind = "pull_request_review" /\ HandlePRReview(e)
    \/ e.kind = "pull_request_review_comment" /\ HandlePRReviewComment(e)

\* A handler up to IsRepoAllowed.
Receive(d) ==
    LET e == Delivery[d] IN
    /\ gpc[d] = "new"
    /\ \/ ~Concerns(e) /\ Pass(d, "ignored")
       \/ Concerns(e) /\ ~IsAllowed(allow, e.name) /\ Pass(d, "notAllowed")
       \/ /\ Concerns(e)
          /\ IsAllowed(allow, e.name)
          /\ Pass(d, IF e.kind = "issues" THEN "label" ELSE "user")
    /\ UNCHANGED rvars

\* handleIssuesEvent: the added label has to be one of the auto-labels.
MatchLabel(d) ==
    LET e == Delivery[d] IN
    /\ gpc[d] = "label"
    /\ \E autoLabels \in AutoLabels(allow, e.name) :
          \/ e.label \in autoLabels /\ Pass(d, "user")
          \/ e.label \notin autoLabels /\ Pass(d, "ignored")
    /\ UNCHANGED rvars

\* The permission is asked for without any role to compare it with.
IsUserAllowedMutant(d) ==
    LET user == Delivery[d].user IN
    /\ gpc[d] = "user"
    /\ \E list \in MergedAllowlists(allow, Delivery[d].name) :
          LET listed == (list.users = {} /\ list.roles = {}) \/ user \in list.users
          IN  \/ listed /\ Pass(d, "accepted")
              \/ /\ ~listed
                 /\ gpc' = [gpc EXCEPT ![d] = "permission"]
                 /\ groles' = [groles EXCEPT ![d] = list.roles]
    /\ UNCHANGED rvars

\* IsUserAllowed up to the call to GitHub: nobody is restricted by empty
\* lists, a listed user passes, and roles need a permission and a client.
IsUserAllowed(d) ==
    LET user == Delivery[d].user IN
    /\ gpc[d] = "user"
    /\ \E list \in MergedAllowlists(allow, Delivery[d].name) :
          LET listed == (list.users = {} /\ list.roles = {}) \/ user \in list.users
          IN  \/ listed /\ Pass(d, "accepted")
              \/ /\ ~listed
                 /\ list.roles # {} /\ GlobalClient
                 /\ gpc' = [gpc EXCEPT ![d] = "permission"]
                 /\ groles' = [groles EXCEPT ![d] = list.roles]
              \/ /\ ~listed
                 /\ list.roles = {} \/ ~GlobalClient
                 /\ Pass(d, "denied")
    /\ UNCHANGED rvars

\* The answer of GetUserRepoPermission; an error is answered with 500.
CheckPermission(d) ==
    LET perm == RoleOf[Delivery[d].user] IN
    /\ gpc[d] = "permission"
    /\ \/ perm \in groles[d] /\ gpc' = [gpc EXCEPT ![d] = "accepted"] /\ UNCHANGED rbudget
       \/ perm \notin groles[d] /\ gpc' = [gpc EXCEPT ![d] = "denied"] /\ UNCHANGED rbudget
       \/ RepositoryFault /\ gpc' = [gpc EXCEPT ![d] = "error"]
    /\ groles' = [groles EXCEPT ![d] = {}]
    /\ UNCHANGED <<repo, rwatch, rcache, rqueue, allow, hookVars, rworkerVars>>

\* A restart ends the goroutines that are under way without an answer.
RestartWebhooks ==
    /\ RestartRepositories
    /\ gpc' = [d \in Deliveries |->
                 IF gpc[d] \in {"new"} \cup Answers THEN gpc[d] ELSE "error"]
    /\ groles' = [d \in Deliveries |-> {}]

WebhookNext ==
    \/ RepositoryStep /\ UNCHANGED gateVars
    \/ \E d \in Deliveries :
         Receive(d) \/ MatchLabel(d) \/ IsUserAllowed(d) \/ CheckPermission(d)
    \/ RestartWebhooks

WebhookSpecification == WebhookInit /\ [][WebhookNext]_wvars

-----------------------------------------------------------------------------
(* Properties.                                                             *)

\* A resource is meant for a repository of this name.
Serves(s, name) ==
    \/ s.key = name
    \/ IsPattern(s) /\ s.key \notin Invalid /\ name \in Covers[s.key]

\* A delivery is answered "repo not allowed" only while whatever live resource
\* is meant for its repository still has to be reconciled: IsRepoAllowed, the
\* reconciler and the resources agree otherwise, patterns included.
RefusedOnlyWhilePending ==
    [][\A d \in Deliveries :
          gpc[d] = "new" /\ gpc'[d] = "notAllowed" =>
              \A r \in Resources :
                  /\ repo[r].state = "live"
                  /\ Alone(r)
                  /\ Serves(repo[r].spec, Delivery[d].name)
                  => Pending(r)]_wvars

\* The lists of a repository add to the global ones: whatever resources come
\* and go between its gates, a delivery by a globally allowed user is not
\* denied, nor made to depend on a permission.
GlobalUserNotDenied ==
    \A d \in Deliveries :
        Delivery[d].user \in GlobalUsers => gpc[d] \notin {"denied", "permission"}

=============================================================================
