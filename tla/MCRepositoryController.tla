----------------------- MODULE MCRepositoryController -----------------------
(***************************************************************************)
(* Instances of RepositoryController for TLC: small sets of specifications *)
(* that people give the resources.                                         *)
(***************************************************************************)
EXTENDS RepositoryController, TLC

CONSTANTS r1, r2, r3, n1, n2, p1, l1, u1, u2, admin

Plain(key) == [key |-> key, labels |-> {}, users |-> {}, roles |-> {},
               pat |-> FALSE]

Labelled(key) == [Plain(key) EXCEPT !.labels = {l1}]

WithPAT(key) == [Plain(key) EXCEPT !.pat = TRUE]

PatternCoversAll == [p \in Patterns |-> Names]

\* Two resources for one repository, and one for another that may get labels
\* or a token of its own.
ThreeResources ==
    r1 :> {Plain(n1)} @@ r2 :> {Labelled(n1)} @@ r3 :> {Labelled(n2), WithPAT(n2)}

OneName == r1 :> {Plain(n1)}

=============================================================================
