---------------------------- MODULE MCClaudeTown ----------------------------
(***************************************************************************)
(* Instances of ClaudeTown for TLC: one issue of one repository, a mention *)
(* or label, a reply, and the operator's own question.                     *)
(***************************************************************************)
EXTENDS ClaudeTown, TLC

CONSTANTS r1, n1, l1, u1, u2, bot, admin, d1, d2, d3

OnIssue(kind) == [kind |-> kind, owner |-> <<"a">>, repo |-> <<"b">>, number |-> 1]

TownEvents ==
    d1 :> OnIssue("issues") @@ d2 :> OnIssue("issue_comment")
    @@ d3 :> OnIssue("issue_comment")

Comment(user) ==
    [kind |-> "issue_comment", action |-> "created", name |-> n1,
     user |-> user, mention |-> TRUE, label |-> Nil]

LabelEvent(user) ==
    [Comment(user) EXCEPT !.kind = "issues", !.action = "labeled",
                          !.mention = FALSE, !.label = l1]

\* A label, a reply, and the question under the bot's login or another.
UnderBot == d1 :> LabelEvent(u1) @@ d2 :> Comment(u1) @@ d3 :> Comment(bot)

UnderOwner == d1 :> LabelEvent(u1) @@ d2 :> Comment(u1) @@ d3 :> Comment(u2)

AllClients == [t \in Tasks |-> TRUE]

\* Without its resource, the global client stands in for the repository's own.
OwnToken ==
    r1 :> {[key |-> n1, labels |-> {l1}, users |-> {}, roles |-> {admin},
            pat |-> TRUE]}

NoPatterns == [p \in Patterns |-> {}]

AllAdmins == [u \in Users |-> admin]

=============================================================================
