----------------------------- MODULE ClaudeTask -----------------------------
(***************************************************************************)
(* The ClaudeTask custom resource: what the operator stores about a task,  *)
(* how a webhook delivery determines its specification, the name of its    *)
(* sandbox claim, and which waiting task a reply is matched with.          *)
(*                                                                         *)
(* Every webhook delivery that passed the handler's gates is a member of   *)
(* Tasks; a task is named after the delivery that created it, and an       *)
(* answer to a clarification question is named after the delivery that     *)
(* carried it.                                                             *)
(***************************************************************************)
EXTENDS Integers, Sequences

CONSTANTS
    Tasks,             \* webhook deliveries, and so the possible tasks
    Event,             \* Event[d]: kind, repository and thread number of d
    None,              \* no claim, no answer, no task
    MaxClarifications, \* spec.maxClarifications of every task
    HasClient          \* HasClient[t]: a GitHub client resolves for t's repo

Kinds == {"issue_comment", "issues", "pull_request_review",
          "pull_request_review_comment"}

\* Event[d].owner and .repo are the names split at their separators ("-", and
\* every run of other characters): a claim name has "-" for each of them.
ASSUME EventAssumption ==
    \A d \in Tasks : /\ Event[d].kind \in Kinds
                     /\ Event[d].number \in Nat \ {0}

ASSUME RoundsAssumption == MaxClarifications \in Nat

ASSUME ClientAssumption == HasClient \in [Tasks -> BOOLEAN]

-----------------------------------------------------------------------------
(* The TaskRequest a delivery is turned into.                              *)

FullName(d) == <<Event[d].owner, Event[d].repo>>

IssueEvents == {"issue_comment", "issues"}

\* TaskRequest.Issue and .PullRequest: the unused one is the zero value.
IssueNumber(d) == IF Event[d].kind \in IssueEvents THEN Event[d].number ELSE 0

PullRequestNumber(d) ==
    IF Event[d].kind \in IssueEvents THEN 0 ELSE Event[d].number

\* The GitHub thread a person sees: issues and pull requests of a repository
\* share one number space.
Thread(d) == <<FullName(d), Event[d].number>>

\* owner-repo-issue-N with every separator turned into "-": where the owner
\* ends and the repository starts is lost, and a pull request has N = 0.
ClaimName(owner, repo, issue) == <<owner \o repo, issue>>

ClaimOf(t) == ClaimName(Event[t].owner, Event[t].repo, IssueNumber(t))

Claims == {ClaimOf(t) : t \in Tasks}

ASSUME NoneAssumption == None \notin Tasks /\ None \notin Claims

-----------------------------------------------------------------------------
(* The stored object.  Status.StartTime is assigned together with          *)
(* SandboxClaimName, so claim # None also stands for StartTime # nil.  A   *)
(* pod is named by the generation of the claim it was bound to, 0 is the   *)
(* empty PodName.  An exchange is its answer, None while it is open; a     *)
(* reply mentions the bot, so it is never empty.  cost is the report's     *)
(* token count.                                                            *)

Phases == {"Absent", "Pending", "Running", "Waiting", "Completed", "Failed",
           "Gone"}

Terminal == {"Completed", "Failed"}

Object == [phase : Phases, claim : Claims \cup {None}, pod : Nat,
           clar : Seq(Tasks \cup {None}), cost : Nat, rv : Nat]

NoObject == [phase |-> "Absent", claim |-> None, pod |-> 0, clar |-> <<>>,
             cost |-> 0, rv |-> 0]

DefaultMaxClarifications == 3

MaxRounds == IF MaxClarifications = 0 THEN DefaultMaxClarifications
             ELSE MaxClarifications

\* Clarifications[n-1].Answer = req.ClarificationAnswer, when there is one.
WithAnswer(clar, answer) ==
    IF Len(clar) > 0 THEN [clar EXCEPT ![Len(clar)] = answer] ELSE clar

\* The task whose stored status is o takes the reply of delivery d.
Matches(d, t, o) ==
    /\ o.phase = "Waiting"
    /\ FullName(t) = FullName(d)
    /\ IssueNumber(d) > 0 => IssueNumber(t) = IssueNumber(d)
    /\ PullRequestNumber(d) > 0 => PullRequestNumber(t) = PullRequestNumber(d)

=============================================================================
