-------------------------- MODULE MCTaskController --------------------------
(***************************************************************************)
(* Instances of TaskController for TLC: deliveries on small repositories.  *)
(***************************************************************************)
EXTENDS TaskController, TLC

CONSTANTS d1, d2, d3

Mention(owner, repo, number) ==
    [kind |-> "issue_comment", owner |-> owner, repo |-> repo,
     number |-> number]

Label(owner, repo, number) ==
    [kind |-> "issues", owner |-> owner, repo |-> repo, number |-> number]

Review(owner, repo, number) ==
    [kind |-> "pull_request_review", owner |-> owner, repo |-> repo,
     number |-> number]

AllClients == [t \in Tasks |-> TRUE]

\* One mention of the bot on an issue.
OneIssue == d1 :> Mention(<<"a">>, <<"b">>, 1)

\* A mention and a reply on the same issue.
OneThread == d1 :> Mention(<<"a">>, <<"b">>, 1) @@ d2 :> Mention(<<"a">>, <<"b">>, 1)

\* Nothing tells the two apart.
SameDeliveries == Permutations({d1, d2})

\* Reviews of two pull requests of one repository, and one more of the first.
TwoReviews ==
    d1 :> Review(<<"a">>, <<"b">>, 1)
    @@ d2 :> Review(<<"a">>, <<"b">>, 2)
    @@ d3 :> Review(<<"a">>, <<"b">>, 1)

\* A labelled issue and a comment on it in a repository with credentials, and
\* a labelled issue in one without.
TwoRepos ==
    d1 :> Label(<<"a">>, <<"b">>, 1) @@ d2 :> Mention(<<"a">>, <<"b">>, 1)
    @@ d3 :> Label(<<"a">>, <<"c">>, 1)

ThirdHasNone == [t \in Tasks |-> t # d3]

=============================================================================
