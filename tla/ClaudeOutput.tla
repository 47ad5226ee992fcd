---------------------------- MODULE ClaudeOutput ----------------------------
(***************************************************************************)
(* What the reconciler makes of the output of a run: the JSON object that  *)
(* parseClaudeOutput finds, the markers in its result, and the estimated   *)
(* cost that accumulateCost adds up.                                       *)
(*                                                                         *)
(* An output is a sequence of tokens: "open" and "close" are the braces of *)
(* JSON objects, "cost" is an object's total_cost_usd, the markers are     *)
(* Claude's, "text" is any other text, which may have braces in it.        *)
(***************************************************************************)
EXTENDS Subsequences

CONSTANT Scale  \* units of cost in the last digit of the $%.4f format

ASSUME ScaleAssumption == Scale \in Nat \ {0}

MarkerTokens == {"complete", "failed", "clarification"}

Tokens == MarkerTokens \cup {"open", "close", "cost", "text"}

TokensIn(s) == {s[i] : i \in DOMAIN s}

\* The objects that are open after the first n tokens.
Level(s, n) ==
    Cardinality({i \in 1 .. n : s[i] = "open"})
        - Cardinality({i \in 1 .. n : s[i] = "close"})

-----------------------------------------------------------------------------
(* parseClaudeOutput.                                                      *)

\* json.Unmarshal accepts s from the brace i on: one object, and nothing after
\* it.
Unmarshals(s, i) ==
    /\ s[i] = "open"
    /\ Level(s, Len(s)) = Level(s, i - 1)
    /\ \A n \in i .. Len(s) - 1 : Level(s, n) > Level(s, i - 1)

\* The tokens of an object's own fields: those of nested objects are fields
\* that claudeResult does not have.
Fields(s, first, last) ==
    ElementsAt(s, {i \in first .. last :
        s[i] \notin {"open", "close"} /\ Level(s, i) = Level(s, first - 1) + 1})

Braces(s) == {i \in DOMAIN s : s[i] \in {"open", "text"}}

\* Only the last brace is tried.
CandidatesMutant(s) ==
    {i \in Braces(s) : Unmarshals(s, i) /\ \A j \in Braces(s) : j <= i}

\* The braces from which the rest of the output unmarshals.
Candidates(s) == {i \in Braces(s) : Unmarshals(s, i)}

\* cost: total_cost_usd was found; text: what is searched for markers.
ParseClaudeOutput(s) ==
    LET starts == Candidates(s)
        last   == CHOOSE i \in starts : \A j \in starts : j <= i
        fields == Fields(s, last, Len(s))
    IN  IF starts = {} THEN [cost |-> FALSE, text |-> s]
        ELSE [cost |-> "cost" \in TokensIn(fields), text |-> fields]

\* parseClarification: something follows the first marker before another one.
ParseClarification(text) ==
    \E i \in DOMAIN text :
        /\ text[i] = "clarification"
        /\ \A j \in 1 .. i - 1 : text[j] # "clarification"
        /\ i < Len(text)
        /\ text[i + 1] \notin {"complete", "failed"}

\* The last part of reconcileRunning.
Outcome(err, text) ==
    IF ParseClarification(text) THEN "ask"
    ELSE IF err THEN "failed"
    ELSE IF "failed" \in TokensIn(text) /\ "complete" \notin TokensIn(text)
    THEN "failed"
    ELSE "completed"

-----------------------------------------------------------------------------
(* The reference: the output read from the beginning.                      *)

\* Every object that was begun was also ended.
WellFormed(s) ==
    /\ Level(s, Len(s)) = 0
    /\ \A n \in DOMAIN s : Level(s, n) >= 0

\* The objects of a well-formed output, as pairs of first and last position.
Objects(s) ==
    {o \in (DOMAIN s) \X (DOMAIN s) :
        /\ o[1] < o[2]
        /\ Level(s, o[1] - 1) = 0 /\ Level(s, o[2]) = 0
        /\ \A n \in o[1] .. o[2] - 1 : Level(s, n) > 0}

\* "the last top-level JSON object in the output", if the output ends with it.
Reference(s) ==
    LET final == {o \in Objects(s) : o[2] = Len(s)}
        o     == CHOOSE o \in final : TRUE
    IN  IF final = {} THEN s ELSE Fields(s, o[1], o[2])

-----------------------------------------------------------------------------
(* accumulateCost.                                                         *)

\* Cut off.
RoundedMutant(x) == {(x \div Scale) * Scale}

\* $%.4f: a nearest multiple of the last digit; which of two is open, since
\* the sum is a binary fraction.
Rounded(x) ==
    {e \in 0 .. x + Scale : /\ e % Scale = 0
                            /\ 2 * (e - x) <= Scale
                            /\ 2 * (x - e) <= Scale}

\* The estimate after a run whose result reports c.
AccumulateEstimate(estimate, c) == Rounded(estimate + c)

=============================================================================
