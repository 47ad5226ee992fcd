----------------------------- MODULE RunningPass -----------------------------
(***************************************************************************)
(* reconcileRunning of one task in detail, pass after pass: wait for the   *)
(* sandbox, get a token, fetch the thread, run Claude, read its output,    *)
(* add up the cost and decide.  TaskController takes each of these parts   *)
(* as one step; here they run against what changes meanwhile.              *)
(*                                                                         *)
(* Any update may be refused, and the pass is then repeated from what is   *)
(* stored.  What other actors do to the task is TaskController's subject.  *)
(***************************************************************************)
EXTENDS SandboxWait, ThreadContext, ClaudeOutput

CONSTANTS
    MaxRounds,  \* questions a task may ask
    MaxRuns,    \* bound on the runs of Claude
    MaxOutput,  \* bound on the tokens of an output
    MaxCost     \* bound on the cost of one run

ASSUME PassAssumption ==
    /\ MaxRounds \in Nat
    /\ MaxRuns \in Nat
    /\ MaxOutput \in Nat
    /\ MaxCost \in Nat

VARIABLES
    pc,      \* where reconcileRunning is, or that the task waits or is over
    stored,  \* the status in the API server
    copy,    \* the worker's copy of it
    output,  \* what the run has written
    err,     \* how the exec ended
    runs     \* runs of Claude so far

passVars == <<pc, stored, copy, output, err, runs>>
vars == <<claim, sandbox, changes, spc, events, expired, seenReady, result,
          source, thread, posted, shifted, fpc, page, fetched, context,
          pc, stored, copy, output, err, runs>>

Resting == {"idle", "waiting", "completed", "failed"}

PassPCs == Resting \cup {"wait", "token", "fetch", "exec", "decide",
                        "ask"}

\* asked: exchanges; estimate: the cost report's EstimatedCost.  exact and
\* counted are what the report stands for: the reported costs and their number.
Status == [pod : Nat, asked : Nat, estimate : Nat, exact : Nat, counted : Nat]

NewStatus == [pod |-> 0, asked |-> 0, estimate |-> 0, exact |-> 0,
              counted |-> 0]

PassTypeOK ==
    /\ WaitTypeOK
    /\ ThreadTypeOK
    /\ pc \in PassPCs
    /\ stored \in Status
    /\ copy \in Status
    /\ output \in Seq(Tokens)
    /\ err \in BOOLEAN
    /\ runs \in 0 .. MaxRuns

PassInit ==
    /\ WaitIdle
    /\ ThreadIdle
    /\ pc = "idle"
    /\ stored = NewStatus
    /\ copy = NewStatus
    /\ output = <<>>
    /\ err = FALSE
    /\ runs = 0

-----------------------------------------------------------------------------
(* The pass.                                                               *)

\* Nothing of the run that is over is kept.
Leave(next) ==
    /\ pc' = next
    /\ output' = <<>>
    /\ err' = FALSE

\* The update of the status, and what follows; it may be refused.
Update(new, next) ==
    \/ stored' = new /\ copy' = new /\ Leave(next)
    \/ UNCHANGED <<stored, copy>> /\ Leave("idle")

FailTask == Update(copy, "failed")

\* Reconcile of a running task with a sandbox claim.
Begin ==
    /\ pc = "idle"
    /\ runs < MaxRuns
    /\ copy' = stored
    /\ \/ stored.pod = 0 /\ pc' = "wait" /\ BeginWait
       \/ stored.pod # 0 /\ pc' = "token" /\ UNCHANGED waitVars
    /\ UNCHANGED <<threadVars, stored, output, err, runs>>

WaitForReady == pc = "wait" /\ WaitStep /\ UNCHANGED <<threadVars, passVars>>

\* The pod name is stored; a wait without a result fails the task.
SetPod ==
    /\ pc = "wait"
    /\ \/ result.ok /\ Update([copy EXCEPT !.pod = result.pod], "token")
       \/ ~result.ok /\ FailTask
    /\ EndWait
    /\ UNCHANGED <<threadVars, runs>>

GetCloneToken ==
    /\ pc = "token"
    /\ \/ pc' = "fetch" /\ BeginFetch /\ UNCHANGED <<stored, copy, output, err>>
       \/ FailTask /\ UNCHANGED threadVars
    /\ UNCHANGED <<waitVars, runs>>

FetchThread == pc = "fetch" /\ FetchStep /\ UNCHANGED <<waitVars, passVars>>

\* buildCommand and execInPod: one exec, whose commands run whether or not the
\* one before them fails.
StartRun ==
    /\ pc = "fetch"
    /\ EndFetch
    /\ runs' = runs + 1
    /\ pc' = "exec"
    /\ UNCHANGED <<waitVars, stored, copy, output, err>>

Outputs == UNION {[1 .. n -> Tokens] : n \in 0 .. MaxOutput}

\* The exec ends, by itself, by a lost connection or at its deadline, or fails
\* for want of a pod name; the report counts the cost that its output names.
EndRun ==
    /\ pc = "exec"
    /\ pc' = "decide"
    /\ err' \in BOOLEAN
    /\ output' \in Outputs
    /\ copy.pod = 0 => err' /\ output' = <<>>
    /\ \E cost \in IF ParseClaudeOutput(output').cost THEN 0 .. MaxCost ELSE {0} :
         \E estimate \in AccumulateEstimate(copy.estimate, cost) :
             copy' = [copy EXCEPT !.estimate = estimate, !.exact = @ + cost,
                                  !.counted = @ + 1]
    /\ UNCHANGED <<waitVars, threadVars, stored, runs>>

\* The result decides how the pass goes on.
Decision == Outcome(err, ParseClaudeOutput(output).text)

\* The update to Completed, or failTask.
Finish ==
    /\ pc = "decide"
    /\ LET decision == Decision IN decision # "ask" /\ Update(copy, decision)
    /\ UNCHANGED <<waitVars, threadVars, runs>>

\* Ahead of a question the cost is saved; an error is only logged.
SaveCost ==
    /\ pc = "decide"
    /\ Decision = "ask"
    /\ pc' = "ask"
    /\ stored' = copy \/ UNCHANGED stored
    /\ UNCHANGED <<waitVars, threadVars, copy, output, err, runs>>

\* handleClarification
Ask ==
    /\ pc = "ask"
    /\ \/ copy.asked >= MaxRounds /\ FailTask
       \/ copy.asked < MaxRounds /\ Update([copy EXCEPT !.asked = @ + 1], "waiting")
    /\ UNCHANGED <<waitVars, threadVars, runs>>

\* ResumeClarification
Answer ==
    /\ pc = "waiting"
    /\ pc' = "idle"
    /\ UNCHANGED <<waitVars, threadVars, stored, copy, output, err, runs>>

\* The reconciler's worker.
Worker ==
    \/ Begin \/ WaitForReady \/ SetPod \/ GetCloneToken \/ FetchThread
    \/ StartRun \/ Finish \/ SaveCost \/ Ask

\* What goes on around it.
Environment ==
    \/ Cluster /\ UNCHANGED <<threadVars, passVars>>
    \/ People /\ UNCHANGED <<waitVars, passVars>>
    \/ Answer

PassNext == Worker \/ EndRun \/ Environment

PassSpec == PassInit /\ [][PassNext]_vars

\* The worker is a running goroutine; the deadlines of the wait and of the
\* run (sandboxReadyTimeout, taskExecutionTimeout) pass.  That GitHub answers
\* every call is assumed: the operator's HTTP clients set no timeout.
PassFairness ==
    /\ WF_vars(Worker)
    /\ WF_vars(EndRun)
    /\ WF_vars(Cluster /\ expired' # expired /\ UNCHANGED <<threadVars, passVars>>)

FairPassSpec == PassSpec /\ PassFairness

-----------------------------------------------------------------------------
(* Properties.                                                             *)

\* The decision that follows a run is the one that the last top-level object
\* of its output calls for, or the whole output when something follows that
\* object; nested objects, text with braces and earlier messages do not count.
DecidedByLastObject ==
    pc = "decide" /\ WellFormed(output) =>
        Decision = Outcome(err, Reference(output))

\* "Costs accumulate across clarification rounds so you always see the running
\* total": what the estimate is off by is at most half a digit for each run,
\* although it is rounded, stored as text and parsed again every time.
EstimateClose ==
    \A s \in {stored, copy} :
        /\ 2 * (s.estimate - s.exact) <= Scale * s.counted
        /\ 2 * (s.exact - s.estimate) <= Scale * s.counted

\* Every pass comes to an end, since the one worker serves all tasks: no
\* missed event, silent watch or repeated page holds it for ever, provided that
\* GitHub answers and that comments are not posted without end.
PassEnds == pc \notin Resting ~> pc \in Resting

=============================================================================
