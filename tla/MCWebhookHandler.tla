-------------------------- MODULE MCWebhookHandler --------------------------
(***************************************************************************)
(* Instances of WebhookHandler for TLC: two deliveries and the resources   *)
(* that decide about them.                                                 *)
(***************************************************************************)
EXTENDS WebhookHandler, TLC

CONSTANTS r1, r2, n1, p1, p2, l1, u1, u2, u3, bot, admin, d1, d2, d3

Plain(key) == [key |-> key, labels |-> {}, users |-> {}, roles |-> {},
               pat |-> FALSE]

Labelled(key) == [Plain(key) EXCEPT !.labels = {l1}]

Restricted(key) == [Labelled(key) EXCEPT !.users = {u2}, !.roles = {admin}]

OnlyUsers(key) == [Labelled(key) EXCEPT !.users = {u2}]

\* The regular expression p1 matches every repository; p2 does not compile.
PatternCovers == [p \in Patterns |-> IF p = p1 THEN Names ELSE {}]

\* A pattern that people open and restrict, and one that does not compile.
PatternResources ==
    r1 :> {Labelled(p1), Restricted(p1), OnlyUsers(p1)} @@ r2 :> {Plain(p2)}

Comment(user) ==
    [kind |-> "issue_comment", action |-> "created", name |-> n1,
     user |-> user, mention |-> TRUE, label |-> Nil]

LabelEvent(user) ==
    [Comment(user) EXCEPT !.kind = "issues", !.action = "labeled",
                          !.mention = FALSE, !.label = l1]

\* A comment by a globally allowed user, a label by another, a bot's review.
MixedDeliveries ==
    d1 :> Comment(u1) @@ d2 :> LabelEvent(u3)
    @@ d3 :> [Comment(bot) EXCEPT !.kind = "pull_request_review",
                                !.action = "submitted"]

OnlyAdmin == [u \in Users |-> IF u = u3 THEN admin ELSE Nil]

=============================================================================
