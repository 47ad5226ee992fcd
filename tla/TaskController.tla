--------------------------- MODULE TaskController ---------------------------
(***************************************************************************)
(* The life of ClaudeTasks in the operator: the webhook handlers that      *)
(* create and resume them, the API server that stores them, the informer   *)
(* cache that lags behind it, the work queue, and the reconciler, whose    *)
(* one worker is interrupted between any two of its calls.                 *)
(*                                                                         *)
(* An update with a stale resourceVersion is refused; every call may also  *)
(* fail, or be applied while its reply is lost; the operator may crash and *)
(* restart; a person may delete a task.  A budget bounds these events.     *)
(***************************************************************************)
EXTENDS ClaudeTask, FiniteSets

CONSTANTS
    Timeout,     \* clarificationWaitTimeout, in ticks of the clock
    MaxFaults,   \* bound on calls that fail or lose their reply
    MaxCrashes,  \* bound on operator crashes
    MaxDeletes,  \* bound on tasks deleted by a person
    MaxSpend     \* bound on what the Claude runs of one task use together

ASSUME BoundsAssumption ==
    /\ Timeout \in Nat
    /\ MaxFaults \in Nat
    /\ MaxCrashes \in Nat
    /\ MaxDeletes \in Nat
    /\ MaxSpend \in Nat

VARIABLES
    obj,       \* obj[t]: the object stored by the API server
    watch,     \* watch[t]: stored versions the informer has not seen yet
    cache,     \* cache[t]: the version in the informer cache
    queue,     \* the keys in the work queue, the delayed ones included
    claims,    \* claims[c]: the SandboxClaim object and its generation
    wpc,       \* the next call of the reconciler's worker
    wtask,     \* the task it reconciles
    wcopy,     \* its copy of that task
    hpc,       \* hpc[d]: the next call of the handler of delivery d
    htask,     \* htask[d]: the task it is about to resume
    hcopy,     \* hcopy[d]: its copy of that task
    clock,     \* clock[t]: time since StartTime and since the last update
    spent,     \* spent[t]: what the Claude runs of t have really used
    comments,  \* comments[t]: what was posted on the thread of t
    budget     \* faults, crashes and deletions still to come

storeVars   == <<obj, watch, clock>>
workerVars  == <<wpc, wtask, wcopy>>
handlerVars == <<hpc, htask, hcopy>>
vars == <<obj, watch, cache, queue, claims, wpc, wtask, wcopy, hpc, htask,
          hcopy, clock, spent, comments, budget>>

WorkerPCs == {"idle", "createClaim", "setRunning", "startComment",
              "waitReady", "setPod", "token", "exec", "saveCost", "ask",
              "askComment", "complete", "fail", "finalComment", "release"}

HandlerPCs == {"new", "resume", "create", "done"}

\* The markers in the result of a run; a clarification marker without a
\* question after it does not count as one.
Markers == {"complete", "failed", "clarification"}

Comments == [start : Nat, ask : Nat, final : Nat]

Sandboxes == [gen : Nat, live : BOOLEAN]

Clocks == [age : 0 .. Timeout + 1, idle : 0 .. Timeout + 1]

Budgets == [fault : 0 .. MaxFaults, crash : 0 .. MaxCrashes,
            delete : 0 .. MaxDeletes]

\* The state of every component.  The clocks saturate just past the timeout,
\* and the budget only shrinks.
TypeOK ==
    /\ obj \in [Tasks -> Object]
    /\ watch \in [Tasks -> SUBSET Object]
    /\ cache \in [Tasks -> Object]
    /\ queue \subseteq Tasks
    /\ claims \in [Claims -> Sandboxes]
    /\ wpc \in WorkerPCs
    /\ wtask \in Tasks \cup {None}
    /\ wpc # "idle" => wtask \in Tasks
    /\ wcopy \in Object
    /\ hpc \in [Tasks -> HandlerPCs]
    /\ htask \in [Tasks -> Tasks \cup {None}]
    /\ \A d \in Tasks : hpc[d] = "resume" => htask[d] \in Tasks
    /\ hcopy \in [Tasks -> Object]
    /\ clock \in [Tasks -> Clocks]
    /\ spent \in [Tasks -> Nat]
    /\ comments \in [Tasks -> Comments]
    /\ budget \in Budgets

Init ==
    /\ obj = [t \in Tasks |-> NoObject]
    /\ watch = [t \in Tasks |-> {}]
    /\ cache = [t \in Tasks |-> NoObject]
    /\ queue = {}
    /\ claims = [c \in Claims |-> [gen |-> 0, live |-> FALSE]]
    /\ wpc = "idle"
    /\ wtask = None
    /\ wcopy = NoObject
    /\ hpc = [d \in Tasks |-> "new"]
    /\ htask = [d \in Tasks |-> None]
    /\ hcopy = [d \in Tasks |-> NoObject]
    /\ clock = [t \in Tasks |-> [age |-> 0, idle |-> 0]]
    /\ spent = [t \in Tasks |-> 0]
    /\ comments = [t \in Tasks |-> [start |-> 0, ask |-> 0, final |-> 0]]
    /\ budget = [fault |-> MaxFaults, crash |-> MaxCrashes,
                 delete |-> MaxDeletes]

-----------------------------------------------------------------------------
(* The API server.                                                         *)

Fault == budget.fault > 0 /\ budget' = [budget EXCEPT !.fault = @ - 1]

\* Optimistic concurrency: an update carries the resourceVersion it read.
CanWrite(t, copy) == copy.rv = obj[t].rv

\* What a successful update of t stores; one that changes nothing is a no-op.
Stored(t, new) == IF new = obj[t] THEN new ELSE [new EXCEPT !.rv = @ + 1]

Put(t, new) ==
    LET o == Stored(t, new) IN
    /\ obj' = [obj EXCEPT ![t] = o]
    /\ watch' = [watch EXCEPT ![t] = @ \cup ({o} \ {obj[t]})]
    /\ clock' = [clock EXCEPT ![t].idle = IF o = obj[t] THEN @ ELSE 0]

\* The informer sees the versions of t in the order they were stored and
\* enqueues the key for each of them.
Deliver(t) ==
    \E v \in watch[t] :
        /\ \A u \in watch[t] : v.rv <= u.rv
        /\ cache' = [cache EXCEPT ![t] = v]
        /\ watch' = [watch EXCEPT ![t] = @ \ {v}]
        /\ queue' = queue \cup {t}
        /\ UNCHANGED <<obj, claims, workerVars, handlerVars, clock, spent,
                       comments, budget>>

\* kubectl delete: there is no finalizer, the object goes away at once.
DeleteTask(t) ==
    /\ budget.delete > 0
    /\ obj[t].phase \notin {"Absent", "Gone"}
    /\ budget' = [budget EXCEPT !.delete = @ - 1]
    /\ Put(t, [obj[t] EXCEPT !.phase = "Gone"])
    /\ UNCHANGED <<cache, queue, claims, workerVars, handlerVars, spent,
                   comments>>

Tick ==
    /\ clock' = [t \in Tasks |->
                   IF obj[t].phase \in {"Running", "Waiting"}
                   THEN [age  |-> IF clock[t].age > Timeout THEN clock[t].age
                                  ELSE clock[t].age + 1,
                         idle |-> IF clock[t].idle > Timeout THEN clock[t].idle
                                  ELSE clock[t].idle + 1]
                   ELSE clock[t]]
    /\ UNCHANGED <<obj, watch, cache, queue, claims, workerVars, handlerVars,
                   spent, comments, budget>>

-----------------------------------------------------------------------------
(* The webhook handlers, one goroutine per delivery.                       *)

\* ResumeClarification lists the cache and takes one of the waiting tasks
\* that match (the list has no order); no match, or an error, which is only
\* logged, goes on to CreateTask.
HandleMention(d) ==
    /\ hpc[d] = "new"
    /\ Event[d].kind # "issues"
    /\ \/ \E t \in Tasks :
            /\ Matches(d, t, cache[t])
            /\ hpc' = [hpc EXCEPT ![d] = "resume"]
            /\ htask' = [htask EXCEPT ![d] = t]
            /\ hcopy' = [hcopy EXCEPT ![d] = cache[t]]
            /\ UNCHANGED budget
       \/ /\ \/ (\A t \in Tasks : ~Matches(d, t, cache[t])) /\ UNCHANGED budget
             \/ Fault
          /\ hpc' = [hpc EXCEPT ![d] = "create"]
          /\ UNCHANGED <<htask, hcopy>>
    /\ UNCHANGED <<storeVars, cache, queue, claims, workerVars, spent,
                   comments>>

\* A label event never resumes.
HandleLabel(d) ==
    /\ hpc[d] = "new"
    /\ Event[d].kind = "issues"
    /\ hpc' = [hpc EXCEPT ![d] = "create"]
    /\ UNCHANGED <<storeVars, cache, queue, claims, workerVars, htask, hcopy,
                   spent, comments, budget>>

Answered(d) ==
    [hcopy[d] EXCEPT !.phase = "Running", !.clar = WithAnswer(@, d)]

\* On a conflict the answer goes to the latest version, unchecked.
ResumeClarificationMutant(d) ==
    LET t == htask[d] IN
    /\ hpc[d] = "resume"
    /\ obj[t].phase # "Gone"
    /\ Put(t, [obj[t] EXCEPT !.phase = "Running", !.clar = WithAnswer(@, d)])
    /\ hpc' = [hpc EXCEPT ![d] = "done"]
    /\ htask' = [htask EXCEPT ![d] = None]
    /\ hcopy' = [hcopy EXCEPT ![d] = NoObject]
    /\ UNCHANGED <<cache, queue, claims, workerVars, spent, comments, budget>>

\* The handler goes on although the task was resumed.
ResumeClarificationFallThroughMutant(d) ==
    LET t == htask[d] IN
    /\ hpc[d] = "resume"
    /\ CanWrite(t, hcopy[d])
    /\ Put(t, Answered(d))
    /\ hpc' = [hpc EXCEPT ![d] = "create"]
    /\ htask' = [htask EXCEPT ![d] = None]
    /\ hcopy' = [hcopy EXCEPT ![d] = NoObject]
    /\ UNCHANGED <<cache, queue, claims, workerVars, spent, comments, budget>>

\* The update that records the answer.  A conflict or a failure is returned
\* as an error, and the handler falls through to CreateTask.
ResumeClarification(d) ==
    LET t == htask[d] IN
    /\ hpc[d] = "resume"
    /\ \/ /\ CanWrite(t, hcopy[d])
          /\ Put(t, Answered(d))
          /\ hpc' = [hpc EXCEPT ![d] = "done"]
          /\ UNCHANGED budget
       \/ /\ ~CanWrite(t, hcopy[d])
          /\ hpc' = [hpc EXCEPT ![d] = "create"]
          /\ UNCHANGED <<storeVars, budget>>
       \/ /\ Fault
          /\ hpc' = [hpc EXCEPT ![d] = "create"]
          /\ \/ UNCHANGED storeVars
             \/ CanWrite(t, hcopy[d]) /\ Put(t, Answered(d))
    /\ htask' = [htask EXCEPT ![d] = None]
    /\ hcopy' = [hcopy EXCEPT ![d] = NoObject]
    /\ UNCHANGED <<cache, queue, claims, workerVars, spent, comments>>

\* A failed Create answers 500 and the delivery is over; so does one whose
\* reply is lost, which is a successful Create to everyone else.
CreateTask(d) ==
    /\ hpc[d] = "create"
    /\ hpc' = [hpc EXCEPT ![d] = "done"]
    /\ \/ Put(d, [NoObject EXCEPT !.phase = "Pending"]) /\ UNCHANGED budget
       \/ Fault /\ UNCHANGED storeVars
    /\ UNCHANGED <<cache, queue, claims, workerVars, htask, hcopy, spent,
                   comments>>

-----------------------------------------------------------------------------
(* The reconciler.  MaxConcurrentReconciles is left at 1: one worker takes *)
(* one key at a time.                                                      *)

\* Reconcile returns: the worker is free.
Return ==
    /\ wpc' = "idle"
    /\ wtask' = None
    /\ wcopy' = NoObject

ReturnRequeueMutant == Return /\ queue' = queue

\* Reconcile returns an error, or Requeue: the key comes back.
ReturnRequeue == Return /\ queue' = queue \cup {wtask}

\* Reconcile goes on with its next call.
Goto(call) == wpc' = call /\ UNCHANGED <<wtask, queue>>

\* A conflict is retried with the latest resourceVersion and the old status.
StatusUpdateMutant(new, call) ==
    LET latest == [new EXCEPT !.rv = obj[wtask].rv] IN
    /\ obj[wtask].phase # "Gone"
    /\ Put(wtask, latest)
    /\ wcopy' = Stored(wtask, latest)
    /\ Goto(call)
    /\ UNCHANGED budget

\* Status().Update of the worker's copy: on success it goes on, a conflict
\* or a failure is returned.  A lost reply is a failure to the worker.
StatusUpdate(new, call) ==
    \/ /\ CanWrite(wtask, wcopy)
       /\ Put(wtask, new)
       /\ wcopy' = Stored(wtask, new)
       /\ Goto(call)
       /\ UNCHANGED budget
    \/ /\ ~CanWrite(wtask, wcopy)
       /\ ReturnRequeue
       /\ UNCHANGED <<storeVars, budget>>
    \/ /\ Fault
       /\ ReturnRequeue
       /\ \/ UNCHANGED storeVars
          \/ CanWrite(wtask, wcopy) /\ Put(wtask, new)

\* commentOnTask: posted is what the thread of the task shows afterwards.
\* Nothing happens without a client; an error is only logged.
CommentOnTask(posted) ==
    \/ /\ comments' = IF HasClient[wtask]
                      THEN [comments EXCEPT ![wtask] = posted]
                      ELSE comments
       /\ UNCHANGED budget
    \/ Fault /\ UNCHANGED comments

ClarificationTimedOutMutant(t, o) == o.claim = None /\ clock[t].age > Timeout

\* Elapsed time is measured from StartTime.
ClarificationTimedOut(t, o) == o.claim # None /\ clock[t].age > Timeout

\* The first call that reconciling the cached version o leads to.
FirstCall(t, o) ==
    CASE o.phase = "Pending" -> "createClaim"
      [] o.phase = "Running" -> IF o.claim = None THEN "fail"
                                ELSE IF o.pod = 0 THEN "waitReady"
                                ELSE "token"
      [] o.phase = "Waiting" /\ ClarificationTimedOut(t, o) -> "fail"
      [] OTHER -> "idle"

\* The worker takes t and reads it from the cache.  A waiting task within
\* its time is requeued after five minutes, which is any later time here;
\* a finished or deleted one is dropped.
Reconcile(t) ==
    LET o == cache[t]
        call == FirstCall(t, o)
    IN
    /\ wpc = "idle"
    /\ t \in queue
    /\ wpc' = call
    /\ wtask' = IF call = "idle" THEN None ELSE t
    /\ wcopy' = IF call = "idle" THEN NoObject ELSE o
    /\ queue' = IF o.phase = "Waiting" /\ call = "idle" THEN queue
                ELSE queue \ {t}
    /\ UNCHANGED <<storeVars, cache, claims, handlerVars, spent, comments,
                   budget>>

\* reconcilePending: AlreadyExists is as good as success.
CreateClaim ==
    LET c == ClaimOf(wtask) IN
    /\ wpc = "createClaim"
    /\ \/ /\ claims' = IF claims[c].live THEN claims
                       ELSE [claims EXCEPT ![c] = [gen |-> @.gen + 1,
                                                   live |-> TRUE]]
          /\ Goto("setRunning")
          /\ UNCHANGED <<wcopy, budget>>
       \/ Fault /\ ReturnRequeue /\ UNCHANGED claims
    /\ UNCHANGED <<storeVars, cache, handlerVars, spent, comments>>

SetRunning ==
    /\ wpc = "setRunning"
    /\ StatusUpdate([wcopy EXCEPT !.phase = "Running",
                                  !.claim = ClaimOf(wtask)], "startComment")
    /\ UNCHANGED <<cache, claims, handlerVars, spent, comments>>

StartComment ==
    /\ wpc = "startComment"
    /\ CommentOnTask([comments[wtask] EXCEPT !.start = @ + 1])
    /\ ReturnRequeue
    /\ UNCHANGED <<storeVars, cache, claims, handlerVars, spent>>

\* reconcileRunning, no pod yet: a missing claim is an error; a ready sandbox
\* may lack the pod-name annotation, which leaves PodName empty.
WaitForReady ==
    LET s == claims[wcopy.claim] IN
    /\ wpc = "waitReady"
    /\ \/ /\ s.live
          /\ \/ wcopy' = [wcopy EXCEPT !.pod = s.gen] /\ UNCHANGED budget
             \/ Fault /\ UNCHANGED wcopy
          /\ Goto("setPod")
       \/ /\ (~s.live /\ UNCHANGED budget) \/ Fault
          /\ Goto("fail")
          /\ UNCHANGED wcopy
    /\ UNCHANGED <<storeVars, cache, claims, handlerVars, spent, comments>>

SetPod ==
    /\ wpc = "setPod"
    /\ StatusUpdate(wcopy, "token")
    /\ UNCHANGED <<cache, claims, handlerVars, spent, comments>>

\* GetCloneToken.  Without a client the call panics, and the manager turns
\* the recovered panic into an error of Reconcile.
GetCloneToken ==
    /\ wpc = "token"
    /\ \/ HasClient[wtask] /\ Goto("exec") /\ UNCHANGED <<wcopy, budget>>
       \/ HasClient[wtask] /\ Fault /\ Goto("fail") /\ UNCHANGED wcopy
       \/ ~HasClient[wtask] /\ ReturnRequeue /\ UNCHANGED budget
    /\ UNCHANGED <<storeVars, cache, claims, handlerVars, spent, comments>>

PodAlive(o) == claims[o.claim].live /\ claims[o.claim].gen = o.pod

\* What follows a run that ended with or without an error and left these
\* markers in its result.
AfterExec(err, markers) ==
    IF "clarification" \in markers THEN "saveCost"
    ELSE IF err THEN "fail"
    ELSE IF "failed" \in markers /\ "complete" \notin markers THEN "fail"
    ELSE "complete"

AccumulateCostMutant(total, c) == total + total + c

AccumulateCostSignMutant(total, c) == total - c

\* The token and duration counts of a run are added to the report.
AccumulateCost(total, c) == total + c

\* A run in a pod that is gone fails at once.  One in a live pod ends in any
\* way, and its usage is reported (1) or not (0).
ExecInPod ==
    /\ wpc = "exec"
    /\ \E err \in BOOLEAN, markers \in SUBSET Markers, c \in {0, 1} :
        /\ ~PodAlive(wcopy) => err /\ markers = {} /\ c = 0
        /\ spent[wtask] + c <= MaxSpend
        /\ spent' = [spent EXCEPT ![wtask] = @ + c]
        /\ wcopy' = [wcopy EXCEPT !.cost = AccumulateCost(@, c)]
        /\ Goto(AfterExec(err, markers))
    /\ UNCHANGED <<storeVars, cache, claims, handlerVars, comments, budget>>

\* The cost is saved before the question; a failure of this update is only
\* logged, and the next update carries the same resourceVersion.
SaveCost ==
    /\ wpc = "saveCost"
    /\ \/ /\ CanWrite(wtask, wcopy)
          /\ Put(wtask, wcopy)
          /\ wcopy' = Stored(wtask, wcopy)
          /\ UNCHANGED budget
       \/ ~CanWrite(wtask, wcopy) /\ UNCHANGED <<storeVars, wcopy, budget>>
       \/ /\ Fault
          /\ \/ UNCHANGED storeVars
             \/ CanWrite(wtask, wcopy) /\ Put(wtask, wcopy)
          /\ UNCHANGED wcopy
    /\ Goto("ask")
    /\ UNCHANGED <<cache, claims, handlerVars, spent, comments>>

RoundsExhaustedMutant(clar) == Len(clar) > MaxRounds

RoundsExhausted(clar) == Len(clar) >= MaxRounds

\* handleClarification
Ask ==
    /\ wpc = "ask"
    /\ \/ /\ RoundsExhausted(wcopy.clar)
          /\ Goto("fail")
          /\ UNCHANGED <<storeVars, wcopy, budget>>
       \/ /\ ~RoundsExhausted(wcopy.clar)
          /\ StatusUpdate([wcopy EXCEPT !.phase = "Waiting",
                                        !.clar = Append(@, None)],
                          "askComment")
    /\ UNCHANGED <<cache, claims, handlerVars, spent, comments>>

AskCommentMutant ==
    /\ wpc = "askComment"
    /\ CommentOnTask([comments[wtask] EXCEPT !.ask = @ + 1])
    /\ Goto("release")
    /\ UNCHANGED <<storeVars, cache, claims, wcopy, handlerVars, spent>>

\* That the question is posted is recorded, too.
AskCommentRecordMutant ==
    /\ wpc = "askComment"
    /\ CommentOnTask([comments[wtask] EXCEPT !.ask = @ + 1])
    /\ Return
    /\ IF CanWrite(wtask, wcopy)
       THEN /\ obj' = [obj EXCEPT ![wtask].rv = @ + 1]
            /\ watch' = [watch EXCEPT ![wtask] = @ \cup {obj'[wtask]}]
            /\ UNCHANGED clock
       ELSE UNCHANGED storeVars
    /\ UNCHANGED <<cache, queue, claims, handlerVars, spent>>

\* The question is posted and the worker is done; the status event brings
\* the key back.
AskComment ==
    /\ wpc = "askComment"
    /\ CommentOnTask([comments[wtask] EXCEPT !.ask = @ + 1])
    /\ Return
    /\ UNCHANGED <<storeVars, cache, queue, claims, handlerVars, spent>>

Complete ==
    /\ wpc = "complete"
    /\ StatusUpdate([wcopy EXCEPT !.phase = "Completed"], "finalComment")
    /\ UNCHANGED <<cache, claims, handlerVars, spent, comments>>

\* failTask
FailTask ==
    /\ wpc = "fail"
    /\ StatusUpdate([wcopy EXCEPT !.phase = "Failed"], "finalComment")
    /\ UNCHANGED <<cache, claims, handlerVars, spent, comments>>

\* The completion or failure comment of Complete and FailTask.
FinalComment ==
    /\ wpc = "finalComment"
    /\ CommentOnTask([comments[wtask] EXCEPT !.final = @ + 1])
    /\ Goto("release")
    /\ UNCHANGED <<storeVars, cache, claims, wcopy, handlerVars, spent>>

DeleteClaimMutant ==
    /\ wpc = "release"
    /\ claims' = IF wcopy.phase = "Failed" THEN claims
                 ELSE [claims EXCEPT ![wcopy.claim].live = FALSE]
    /\ Return
    /\ UNCHANGED <<storeVars, cache, queue, handlerVars, spent, comments,
                   budget>>

\* DeleteClaim, the last call of Complete and FailTask: NotFound is success,
\* any other error is only logged.
DeleteClaim ==
    LET c == wcopy.claim IN
    /\ wpc = "release"
    /\ \/ /\ claims' = IF c = None THEN claims
                       ELSE [claims EXCEPT ![c].live = FALSE]
          /\ UNCHANGED budget
       \/ Fault /\ UNCHANGED claims
    /\ Return
    /\ UNCHANGED <<storeVars, cache, queue, handlerVars, spent, comments>>

\* The operator dies and comes back: what was in memory is lost, the cache is
\* filled by a new list, every task is enqueued.
Crash ==
    /\ budget.crash > 0
    /\ budget' = [budget EXCEPT !.crash = @ - 1]
    /\ Return
    /\ cache' = obj
    /\ watch' = [t \in Tasks |-> {}]
    /\ queue' = {t \in Tasks : obj[t].phase \notin {"Absent", "Gone"}}
    /\ hpc' = [d \in Tasks |-> IF hpc[d] = "new" THEN "new" ELSE "done"]
    /\ htask' = [d \in Tasks |-> None]
    /\ hcopy' = [d \in Tasks |-> NoObject]
    /\ UNCHANGED <<obj, claims, clock, spent, comments>>

-----------------------------------------------------------------------------
Handle(d) ==
    \/ HandleMention(d)
    \/ HandleLabel(d)
    \/ ResumeClarification(d)
    \/ CreateTask(d)

\* The calls of one run of Reconcile.
Call ==
    \/ CreateClaim
    \/ SetRunning
    \/ StartComment
    \/ WaitForReady
    \/ SetPod
    \/ GetCloneToken
    \/ ExecInPod
    \/ SaveCost
    \/ Ask
    \/ AskComment
    \/ Complete
    \/ FailTask
    \/ FinalComment
    \/ DeleteClaim

Next ==
    \/ \E d \in Tasks : Handle(d)
    \/ \E t \in Tasks : Deliver(t) \/ DeleteTask(t) \/ Reconcile(t)
    \/ Call
    \/ Tick
    \/ Crash

Spec == Init /\ [][Next]_vars

\* The informer and the worker are goroutines that run; the work queue is
\* first in, first out, so that a key which keeps coming back has its turn;
\* time passes.  Nobody has to reply, and nothing has to fail.
Fairness ==
    /\ \A t \in Tasks : WF_vars(Deliver(t)) /\ SF_vars(Reconcile(t))
    /\ WF_vars(Call)
    /\ WF_vars(Tick)

FairSpec == Spec /\ Fairness

-----------------------------------------------------------------------------
(* Safety.                                                                 *)

AllAnswered(clar) == \A i \in DOMAIN clar : clar[i] # None

Active(t) == obj[t].phase \in {"Running", "Waiting"}

QuestionsOK(o) ==
    /\ Len(o.clar) <= MaxRounds
    /\ o.phase \in {"Pending", "Running", "Completed"} => AllAnswered(o.clar)
    /\ o.phase = "Waiting" =>
         /\ Len(o.clar) > 0
         /\ o.clar[Len(o.clar)] = None
         /\ \A i \in 1 .. Len(o.clar) - 1 : o.clar[i] # None

\* A waiting task has exactly one open question, the last one, a running or a
\* completed task has none, and no task ever asks more than maxRounds
\* questions (handleClarification, ResumeClarification), whatever the stale
\* reads, lost replies and repeated runs.
OneOpenQuestion == \A t \in Tasks : QuestionsOK(obj[t])

\* The token counts that a comment reports never exceed what the runs of Claude
\* have used: a run that is repeated after a refused update is not counted
\* twice, and the cost saved ahead of a question is not added again.
CostNotOverReported == \A t \in Tasks : obj[t].cost <= spent[t]

\* A task that shares its claim with no other task has its sandbox until it
\* has finished: the claim exists, and the pod in its status is the claim's.
SandboxHeld ==
    \A t \in Tasks :
        (/\ Active(t)
         /\ \A u \in Tasks \ {t} :
               ClaimOf(u) = ClaimOf(t) => obj[u].phase = "Absent")
        => /\ claims[obj[t].claim].live
           /\ obj[t].pod # 0 => claims[obj[t].claim].gen = obj[t].pod

\* Nothing but a failed call, or the death of the operator, leaves a sandbox
\* behind: otherwise a claim is there only for a task that has not ended (for
\* one that a person deleted nobody releases it), or it is about to be deleted.
\* A reconcile of a stale copy never brings back the claim of an ended task.
ClaimNotLeft ==
    budget.fault = MaxFaults /\ budget.crash = MaxCrashes =>
        \A c \in Claims : claims[c].live =>
            \/ \E t \in Tasks : /\ ClaimOf(t) = c
                                /\ obj[t].phase \notin {"Absent"} \cup Terminal
            \/ wpc \in {"finalComment", "release"} /\ ClaimOf(wtask) = c

\* A task that has not ended is on somebody's list: a version of it is on its
\* way to the informer, its key is in the queue, or the worker has it.  No
\* error path, lost reply or stale copy makes Reconcile return without leaving
\* something behind that brings the key back.
KeyNotLost ==
    \A t \in Tasks : obj[t].phase \in {"Pending", "Running", "Waiting"} =>
        \/ watch[t] # {}
        \/ t \in queue
        \/ wpc # "idle" /\ wtask = t

\* A thread reads one start comment, one comment for each question and one
\* final comment, the final one only when the task has ended, although the
\* reconciler may run any number of times on stale copies.
CommentedOnce ==
    \A t \in Tasks :
        /\ comments[t].start <= 1
        /\ comments[t].ask <= Len(obj[t].clar)
        /\ comments[t].final <= 1
        /\ comments[t].final = 1 => obj[t].phase \in Terminal \cup {"Gone"}

\* The exchanges that delivery d has answered.
AnsweredBy(d) ==
    UNION {{<<t, i>> : i \in {j \in DOMAIN obj[t].clar : obj[t].clar[j] = d}} :
             t \in Tasks}

\* A delivery answers at most one question, and starts a task only if it has
\* answered none, unless the reply to its update was lost: however handlers,
\* reconciler and repeated attempts interleave, a reply counts once.
ReplyCountsOnce ==
    \A d \in Tasks :
        /\ \A x, y \in AnsweredBy(d) : x = y
        /\ AnsweredBy(d) # {} /\ budget.fault = MaxFaults
           => obj[d].phase = "Absent"

\* No step loses or overwrites an answer that was recorded: a second reply, or
\* the reconciler writing a copy it read before the answer came, is refused.
AnswersKept ==
    [][\A t \in Tasks : \A i \in DOMAIN obj[t].clar :
          obj[t].clar[i] # None =>
            /\ i \in DOMAIN obj'[t].clar
            /\ obj'[t].clar[i] = obj[t].clar[i]]_vars

\* A reply does not pass an open question by unless a call fails: its handler
\* finds no waiting task only while the version with the question is still on
\* its way to the cache, and its update is refused only when the very question
\* it answers is closed, answered by another reply or ended with its task.
ReplyReachesQuestion ==
    [][\A d \in Tasks :
          Event[d].kind # "issues" /\ hpc'[d] = "create" /\ UNCHANGED budget =>
            /\ hpc[d] = "new" =>
                 \A t \in Tasks : Matches(d, t, obj[t]) => watch[t] # {}
            /\ hpc[d] = "resume" =>
                 \/ obj[htask[d]].phase \in Terminal \cup {"Gone"}
                 \/ obj[htask[d]].clar[Len(hcopy[d].clar)] # None]_vars

\* A task that has completed or failed stays so until it is deleted: the
\* answer that arrives while the timeout fails the task does not revive it.
TerminalIsFinal ==
    [][\A t \in Tasks : obj[t].phase \in Terminal =>
          obj'[t].phase \in {obj[t].phase, "Gone"}]_vars

-----------------------------------------------------------------------------
(* The abstract life cycle.                                                *)

Lifecycle == INSTANCE TaskLifecycle WITH
    phase <- [t \in Tasks |-> obj[t].phase],
    clar  <- [t \in Tasks |-> obj[t].clar],
    final <- [t \in Tasks |-> comments[t].final]

\* Seen through what is stored and what is posted, the operator does nothing
\* but the steps of the task's life cycle, each on the task as it then is.
ImplementsLifecycle == Lifecycle!Spec

-----------------------------------------------------------------------------
(* Liveness.                                                               *)

Settled(t) == obj[t].phase \in Terminal \cup {"Gone"}

\* Every task whose repository has a GitHub client completes, fails or is
\* deleted: no refused or failed update, crash, unanswered question or other
\* task that keeps failing leaves it pending, running or waiting for ever.
EveryTaskSettles ==
    \A t \in Tasks : HasClient[t] => (obj[t].phase = "Pending" ~> Settled(t))

\* Once every task with the claim has ended, the claim is deleted and stays
\* deleted ("6. The sandbox is released back to the pool").
SandboxReleased ==
    \A c \in Claims :
        <>[]((\A t \in Tasks : ClaimOf(t) = c => ~Active(t) /\ obj[t].phase # "Pending")
             => ~claims[c].live)

-----------------------------------------------------------------------------
(* What the repository says and the code does not do.                      *)

\* "If no response is received within 24 hours, the task times out": a task is
\* failed for want of an answer only when its question is that old.
TimeoutNotEarly ==
    [][\A t \in Tasks :
          (wpc = "idle" /\ wpc' = "fail" /\ wtask' = t /\ wcopy'.phase = "Waiting")
          => clock[t].idle > Timeout]_vars

\* "Repo was already cloned in a previous run": a run that resumes after an
\* answer reaches the pod the earlier run cloned into.
ResumeFindsClone ==
    (/\ wpc = "exec"
     /\ Len(wcopy.clar) > 0)
    => PodAlive(wcopy)

=============================================================================
