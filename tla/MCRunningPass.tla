--------------------------- MODULE MCRunningPass ---------------------------
(***************************************************************************)
(* The instance of RunningPass for TLC: pages of two comments with a cap   *)
(* of one, the proportion of the code's 100 and 50.                        *)
(***************************************************************************)
EXTENDS RunningPass

\* The first comment is the root of the review thread.
ReviewThread == {1, 3, 4}

OneByBot == {2}

=============================================================================
