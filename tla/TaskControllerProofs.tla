------------------------ MODULE TaskControllerProofs ------------------------
(***************************************************************************)
(* Theorems about TaskController, for every set of deliveries, every bound *)
(* and every number of clarification rounds.                               *)
(***************************************************************************)
EXTENDS TaskController, SequenceTheorems, TLAPS

USE NoneAssumption, BoundsAssumption, RoundsAssumption, ClientAssumption

-----------------------------------------------------------------------------
(* Types.                                                                  *)

\* The worker waits for the sandbox of a claim it has read in the status.
ReadyClaim == wpc = "waitReady" => wcopy.claim \in Claims

TypeInv == TypeOK /\ ReadyClaim

\* Every task has a claim name.
LEMMA ClaimOfType == \A t \in Tasks : ClaimOf(t) \in Claims
BY DEF Claims

LEMMA NoObjectType == NoObject \in Object
BY DEF NoObject, Object, Phases

\* Assignments to the fields of an object.
LEMMA ObjectExcept ==
    ASSUME NEW o \in Object
    PROVE  /\ \A p \in Phases : [o EXCEPT !.phase = p] \in Object
           /\ \A n \in Nat : [o EXCEPT !.pod = n] \in Object
           /\ \A n \in Nat : [o EXCEPT !.cost = n] \in Object
           /\ \A p \in Phases, c \in Claims :
                 [o EXCEPT !.phase = p, !.claim = c] \in Object
           /\ \A p \in Phases, s \in Seq(Tasks \cup {None}) :
                 [o EXCEPT !.phase = p, !.clar = s] \in Object
BY DEF Object

\* A call that may fail takes from the budget of faults or leaves it alone.
LEMMA BudgetType ==
    ASSUME TypeOK, Fault \/ UNCHANGED budget
    PROVE  budget' \in Budgets
BY DEF Fault, TypeOK, Budgets

\* An answer leaves a sequence of exchanges a sequence of exchanges.
LEMMA WithAnswerType ==
    ASSUME NEW s \in Seq(Tasks \cup {None}), NEW d \in Tasks
    PROVE  /\ WithAnswer(s, d) \in Seq(Tasks \cup {None})
           /\ Len(WithAnswer(s, d)) = Len(s)
           /\ \A i \in 1 .. Len(s) :
                WithAnswer(s, d)[i] = IF i = Len(s) THEN d ELSE s[i]
<1>1. CASE Len(s) > 0
  <2>1. Len(s) \in 1 .. Len(s)
    BY <1>1, LenProperties
  <2> QED
    BY <1>1, <2>1, ExceptSeq DEF WithAnswer
<1>2. CASE ~(Len(s) > 0)
  <2>1. Len(s) = 0 /\ 1 .. Len(s) = {}
    BY <1>2, LenProperties
  <2> QED
    BY <1>2, <2>1 DEF WithAnswer
<1> QED
  BY <1>1, <1>2

\* An update stores a version of the right type and keeps everything else.
LEMMA PutType ==
    ASSUME TypeOK, NEW t \in Tasks, NEW new \in Object, Put(t, new)
    PROVE  /\ obj' \in [Tasks -> Object]
           /\ watch' \in [Tasks -> SUBSET Object]
           /\ clock' \in [Tasks -> Clocks]
           /\ Stored(t, new) \in Object
<1>0. obj \in [Tasks -> Object] /\ watch \in [Tasks -> SUBSET Object]
  BY DEF TypeOK
<1>1. Stored(t, new) \in Object
  <2>1. \A n \in Nat : [new EXCEPT !.rv = n] \in Object
    BY Zenon DEF Object
  <2>2. new.rv + 1 \in Nat
    BY DEF Object
  <2> QED
    BY <2>1, <2>2 DEF Stored
<1>2. clock' \in [Tasks -> Clocks]
  BY DEF Put, TypeOK, Clocks
<1>3. obj' \in [Tasks -> Object]
  BY <1>0, <1>1 DEF Put
<1>4. watch' \in [Tasks -> SUBSET Object]
  BY <1>0, <1>1 DEF Put
<1> QED
  BY <1>1, <1>2, <1>3, <1>4

\* A Status().Update of the worker, whatever its outcome.
LEMMA StatusUpdateType ==
    ASSUME TypeInv, wpc # "idle", NEW new \in Object,
           NEW call \in WorkerPCs \ {"waitReady"}, StatusUpdate(new, call)
    PROVE  /\ obj' \in [Tasks -> Object]
           /\ watch' \in [Tasks -> SUBSET Object]
           /\ clock' \in [Tasks -> Clocks]
           /\ queue' \subseteq Tasks
           /\ wpc' \in WorkerPCs \ {"waitReady"}
           /\ wtask' \in Tasks \cup {None}
           /\ wpc' # "idle" => wtask' \in Tasks
           /\ wcopy' \in Object
           /\ budget' \in Budgets
<1> USE DEF TypeInv
<1>0. wtask \in Tasks
  BY DEF TypeOK
<1>1. CASE /\ CanWrite(wtask, wcopy)
           /\ Put(wtask, new)
           /\ wcopy' = Stored(wtask, new)
           /\ Goto(call)
           /\ UNCHANGED budget
  BY <1>0, <1>1, PutType DEF Goto, TypeOK
<1>2. CASE /\ ~CanWrite(wtask, wcopy)
           /\ ReturnRequeue
           /\ UNCHANGED <<storeVars, budget>>
  BY <1>0, <1>2, NoObjectType DEF ReturnRequeue, Return, storeVars, TypeOK, WorkerPCs
<1>3. CASE /\ Fault
           /\ ReturnRequeue
           /\ \/ UNCHANGED storeVars
              \/ CanWrite(wtask, wcopy) /\ Put(wtask, new)
  <2>1. /\ obj' \in [Tasks -> Object]
        /\ watch' \in [Tasks -> SUBSET Object]
        /\ clock' \in [Tasks -> Clocks]
    BY <1>0, <1>3, PutType DEF storeVars, TypeOK
  <2>2. budget' \in Budgets
    BY <1>3, BudgetType
  <2> QED
    BY <1>0, <1>3, <2>1, <2>2, NoObjectType
    DEF ReturnRequeue, Return, TypeOK, WorkerPCs
<1> QED
  BY <1>1, <1>2, <1>3 DEF StatusUpdate

\* A comment, posted or not.
LEMMA CommentType ==
    ASSUME TypeOK, wtask \in Tasks, NEW posted \in Comments,
           CommentOnTask(posted)
    PROVE  /\ comments' \in [Tasks -> Comments]
           /\ budget' \in Budgets
<1>1. comments' \in [Tasks -> Comments]
  BY DEF CommentOnTask, TypeOK
<1> QED
  BY <1>1, BudgetType DEF CommentOnTask

\* One comment more.
LEMMA CommentsExcept ==
    ASSUME NEW c \in Comments
    PROVE  /\ [c EXCEPT !.start = @ + 1] \in Comments
           /\ [c EXCEPT !.ask = @ + 1] \in Comments
           /\ [c EXCEPT !.final = @ + 1] \in Comments
<1>1. c.start + 1 \in Nat /\ c.ask + 1 \in Nat /\ c.final + 1 \in Nat
  BY DEF Comments
<1>2. \A n \in Nat : /\ [c EXCEPT !.start = n] \in Comments
                     /\ [c EXCEPT !.ask = n] \in Comments
                     /\ [c EXCEPT !.final = n] \in Comments
  BY Zenon DEF Comments
<1> QED
  BY <1>1, <1>2

\* The handlers keep the types.
LEMMA HandleType ==
    ASSUME TypeInv, NEW d \in Tasks, Handle(d)
    PROVE  TypeInv'
<1> USE DEF TypeInv, ReadyClaim, workerVars, storeVars, handlerVars, HandlerPCs
<1>1. CASE HandleMention(d)
  <2>1. budget' \in Budgets
    BY <1>1, BudgetType DEF HandleMention
  <2>2. /\ hpc' \in [Tasks -> HandlerPCs]
        /\ htask' \in [Tasks -> Tasks \cup {None}]
        /\ hcopy' \in [Tasks -> Object]
    BY <1>1 DEF HandleMention, TypeOK
  <2>3. \A e \in Tasks : hpc'[e] = "resume" => htask'[e] \in Tasks
    BY <1>1 DEF HandleMention, TypeOK
  <2> QED
    BY <1>1, <2>1, <2>2, <2>3 DEF HandleMention, TypeOK
<1>2. CASE HandleLabel(d)
  BY <1>2 DEF HandleLabel, TypeOK
<1>3. CASE ResumeClarification(d)
  <2>1. htask[d] \in Tasks
    BY <1>3 DEF ResumeClarification, TypeOK
  <2>2. Answered(d) \in Object
    <3>1. hcopy[d] \in Object /\ hcopy[d].clar \in Seq(Tasks \cup {None})
      BY DEF TypeOK, Object
    <3> QED
      BY <3>1, WithAnswerType, ObjectExcept DEF Answered, Phases
  <2>3. /\ obj' \in [Tasks -> Object]
        /\ watch' \in [Tasks -> SUBSET Object]
        /\ clock' \in [Tasks -> Clocks]
    BY <1>3, <2>1, <2>2, PutType DEF ResumeClarification, TypeOK
  <2>4. budget' \in Budgets
    BY <1>3, BudgetType DEF ResumeClarification
  <2>5. /\ hpc' \in [Tasks -> HandlerPCs]
        /\ htask' \in [Tasks -> Tasks \cup {None}]
        /\ hcopy' \in [Tasks -> Object]
        /\ \A e \in Tasks : hpc'[e] = "resume" => htask'[e] \in Tasks
    BY <1>3, NoObjectType DEF ResumeClarification, TypeOK
  <2> QED
    BY <1>3, <2>3, <2>4, <2>5 DEF ResumeClarification, TypeOK
<1>4. CASE CreateTask(d)
  <2>1. [NoObject EXCEPT !.phase = "Pending"] \in Object
    BY NoObjectType, ObjectExcept DEF Phases
  <2>2. /\ obj' \in [Tasks -> Object]
        /\ watch' \in [Tasks -> SUBSET Object]
        /\ clock' \in [Tasks -> Clocks]
    BY <1>4, <2>1, PutType DEF CreateTask, TypeOK
  <2>3. budget' \in Budgets
    BY <1>4, BudgetType DEF CreateTask
  <2> QED
    BY <1>4, <2>2, <2>3 DEF CreateTask, TypeOK
<1> QED
  BY <1>1, <1>2, <1>3, <1>4 DEF Handle

\* The calls of Reconcile keep the types.
LEMMA CallType ==
    ASSUME TypeInv, Call
    PROVE  TypeInv'
<1> USE DEF TypeInv, workerVars, storeVars, handlerVars
<1>0. /\ wpc # "idle" /\ wtask \in Tasks /\ wcopy \in Object
      /\ wcopy.clar \in Seq(Tasks \cup {None})
      /\ comments[wtask] \in Comments
  BY DEF TypeOK, Object, Call, CreateClaim, SetRunning, StartComment,
         WaitForReady, SetPod, GetCloneToken, ExecInPod, SaveCost, Ask,
         AskComment, Complete, FailTask, FinalComment, DeleteClaim
<1>1. CASE CreateClaim
  <2>1. claims' \in [Claims -> Sandboxes]
    <3>1. claims[ClaimOf(wtask)] \in Sandboxes
      BY <1>0, ClaimOfType DEF TypeOK
    <3>2. [gen |-> claims[ClaimOf(wtask)].gen + 1, live |-> TRUE] \in Sandboxes
      BY <3>1 DEF Sandboxes
    <3> QED
      BY <1>0, <1>1, <3>2, ClaimOfType DEF CreateClaim, TypeOK
  <2>2. budget' \in Budgets
    BY <1>1, BudgetType DEF CreateClaim
  <2>3. /\ wpc' \in WorkerPCs \ {"waitReady"}
        /\ wtask' \in Tasks \cup {None}
        /\ wpc' # "idle" => wtask' \in Tasks
        /\ wcopy' \in Object
        /\ queue' \subseteq Tasks
    BY <1>0, <1>1, NoObjectType
    DEF CreateClaim, Goto, ReturnRequeue, Return, TypeOK, WorkerPCs
  <2> QED
    BY <1>1, <2>1, <2>2, <2>3 DEF CreateClaim, TypeOK, ReadyClaim
<1>2. CASE SetRunning
  <2>1. [wcopy EXCEPT !.phase = "Running", !.claim = ClaimOf(wtask)] \in Object
    BY <1>0, ObjectExcept, ClaimOfType DEF Phases
  <2>2. "startComment" \in WorkerPCs \ {"waitReady"}
    BY DEF WorkerPCs
  <2> QED
    BY <1>0, <1>2, <2>1, <2>2, StatusUpdateType
    DEF SetRunning, TypeOK, ReadyClaim
<1>3. CASE StartComment
  <2>1. [comments[wtask] EXCEPT !.start = @ + 1] \in Comments
    BY <1>0, CommentsExcept
  <2>2. comments' \in [Tasks -> Comments] /\ budget' \in Budgets
    BY <1>0, <1>3, <2>1, CommentType DEF StartComment
  <2>3. /\ wpc' = "idle" /\ wtask' = None /\ wcopy' \in Object
        /\ queue' \subseteq Tasks
    BY <1>0, <1>3, NoObjectType DEF StartComment, ReturnRequeue, Return, TypeOK
  <2>4. UNCHANGED <<storeVars, cache, claims, handlerVars, spent>>
    BY <1>3 DEF StartComment
  <2> QED
    BY <2>2, <2>3, <2>4 DEF TypeOK, ReadyClaim, WorkerPCs
<1>4. CASE WaitForReady
  <2>1. claims[wcopy.claim].gen \in Nat
    BY <1>4 DEF WaitForReady, ReadyClaim, TypeOK, Sandboxes
  <2>2. wcopy' \in Object
    <3>1. \/ wcopy' = [wcopy EXCEPT !.pod = claims[wcopy.claim].gen]
          \/ wcopy' = wcopy
      BY <1>4 DEF WaitForReady
    <3>2. [wcopy EXCEPT !.pod = claims[wcopy.claim].gen] \in Object
      BY <1>0, <2>1, ObjectExcept
    <3> QED
      BY <1>0, <3>1, <3>2
  <2>3. budget' \in Budgets
    BY <1>4, BudgetType DEF WaitForReady
  <2>4. /\ wpc' \in WorkerPCs \ {"waitReady"}
        /\ UNCHANGED <<wtask, queue>>
    BY <1>4 DEF WaitForReady, Goto, WorkerPCs
  <2> QED
    BY <1>0, <1>4, <2>2, <2>3, <2>4 DEF WaitForReady, TypeOK, ReadyClaim
<1>5. CASE SetPod
  <2>1. "token" \in WorkerPCs \ {"waitReady"}
    BY DEF WorkerPCs
  <2> QED
    BY <1>0, <1>5, <2>1, StatusUpdateType DEF SetPod, TypeOK, ReadyClaim
<1>6. CASE GetCloneToken
  <2>1. budget' \in Budgets
    BY <1>6, BudgetType DEF GetCloneToken
  <2> QED
    BY <1>0, <1>6, <2>1, NoObjectType
    DEF GetCloneToken, Goto, ReturnRequeue, Return, TypeOK, ReadyClaim, WorkerPCs
<1>7. CASE ExecInPod
  <2>1. PICK err \in BOOLEAN, markers \in SUBSET Markers, c \in {0, 1} :
            /\ spent' = [spent EXCEPT ![wtask] = @ + c]
            /\ wcopy' = [wcopy EXCEPT !.cost = AccumulateCost(@, c)]
            /\ Goto(AfterExec(err, markers))
    BY <1>7 DEF ExecInPod
  <2>2. wcopy.cost \in Nat /\ AccumulateCost(wcopy.cost, c) \in Nat
    BY <1>0 DEF Object, AccumulateCost
  <2>3. wcopy' \in Object
    BY <1>0, <2>1, <2>2, ObjectExcept
  <2>4. wpc' \in WorkerPCs \ {"waitReady"}
    BY <2>1 DEF Goto, AfterExec, WorkerPCs
  <2>5. spent' \in [Tasks -> Nat]
    BY <1>0, <2>1 DEF TypeOK
  <2> QED
    BY <1>0, <1>7, <2>1, <2>3, <2>4, <2>5
    DEF ExecInPod, Goto, TypeOK, ReadyClaim
<1>8. CASE SaveCost
  <2>1. budget' \in Budgets
    BY <1>8, BudgetType DEF SaveCost
  <2>2. /\ obj' \in [Tasks -> Object]
        /\ watch' \in [Tasks -> SUBSET Object]
        /\ clock' \in [Tasks -> Clocks]
        /\ wcopy' \in Object
    BY <1>0, <1>8, PutType DEF SaveCost, TypeOK
  <2> QED
    BY <1>0, <1>8, <2>1, <2>2 DEF SaveCost, Goto, TypeOK, ReadyClaim, WorkerPCs
<1>9. CASE Ask
  <2>1. CASE RoundsExhausted(wcopy.clar)
    BY <1>0, <1>9, <2>1 DEF Ask, Goto, TypeOK, ReadyClaim, WorkerPCs
  <2>2. CASE ~RoundsExhausted(wcopy.clar)
    <3>1. [wcopy EXCEPT !.phase = "Waiting", !.clar = Append(@, None)] \in Object
      <4>1. Append(wcopy.clar, None) \in Seq(Tasks \cup {None})
        BY <1>0, AppendProperties
      <4> QED
        BY <1>0, <4>1, ObjectExcept DEF Phases
    <3>2. "askComment" \in WorkerPCs \ {"waitReady"}
      BY DEF WorkerPCs
    <3> QED
      BY <1>0, <1>9, <2>2, <3>1, <3>2, StatusUpdateType DEF Ask, TypeOK, ReadyClaim
  <2> QED
    BY <2>1, <2>2
<1>10. CASE AskComment
  <2>1. [comments[wtask] EXCEPT !.ask = @ + 1] \in Comments
    BY <1>0, CommentsExcept
  <2>2. comments' \in [Tasks -> Comments] /\ budget' \in Budgets
    BY <1>0, <1>10, <2>1, CommentType DEF AskComment
  <2>3. wpc' = "idle" /\ wtask' = None /\ wcopy' \in Object
    BY <1>10, NoObjectType DEF AskComment, Return
  <2>4. UNCHANGED <<storeVars, cache, queue, claims, handlerVars, spent>>
    BY <1>10 DEF AskComment
  <2> QED
    BY <2>2, <2>3, <2>4 DEF TypeOK, ReadyClaim, WorkerPCs
<1>11. CASE Complete
  <2>1. [wcopy EXCEPT !.phase = "Completed"] \in Object
    BY <1>0, ObjectExcept DEF Phases
  <2>2. "finalComment" \in WorkerPCs \ {"waitReady"}
    BY DEF WorkerPCs
  <2> QED
    BY <1>0, <1>11, <2>1, <2>2, StatusUpdateType DEF Complete, TypeOK, ReadyClaim
<1>12. CASE FailTask
  <2>1. [wcopy EXCEPT !.phase = "Failed"] \in Object
    BY <1>0, ObjectExcept DEF Phases
  <2>2. "finalComment" \in WorkerPCs \ {"waitReady"}
    BY DEF WorkerPCs
  <2> QED
    BY <1>0, <1>12, <2>1, <2>2, StatusUpdateType DEF FailTask, TypeOK, ReadyClaim
<1>13. CASE FinalComment
  <2>1. [comments[wtask] EXCEPT !.final = @ + 1] \in Comments
    BY <1>0, CommentsExcept
  <2>2. comments' \in [Tasks -> Comments] /\ budget' \in Budgets
    BY <1>0, <1>13, <2>1, CommentType DEF FinalComment
  <2>3. /\ wpc' = "release"
        /\ UNCHANGED <<wtask, queue, storeVars, cache, claims, wcopy,
                       handlerVars, spent>>
    BY <1>13 DEF FinalComment, Goto
  <2> QED
    BY <1>0, <2>2, <2>3 DEF TypeOK, ReadyClaim, WorkerPCs
<1>14. CASE DeleteClaim
  <2>1. budget' \in Budgets
    BY <1>14, BudgetType DEF DeleteClaim
  <2>2. wcopy.claim \in Claims \cup {None}
    BY <1>0 DEF Object
  <2>3. claims' \in [Claims -> Sandboxes]
    <3>1. \A c \in Claims : [claims[c] EXCEPT !.live = FALSE] \in Sandboxes
      <4>1. \A s \in Sandboxes : [s EXCEPT !.live = FALSE] \in Sandboxes
        BY Zenon DEF Sandboxes
      <4> QED
        BY <4>1 DEF TypeOK
    <3>2. CASE UNCHANGED claims
      BY <3>2 DEF TypeOK
    <3>3. CASE /\ wcopy.claim # None
               /\ claims' = [claims EXCEPT ![wcopy.claim].live = FALSE]
      <4>1. wcopy.claim \in Claims
        BY <2>2, <3>3
      <4> QED
        BY <3>1, <3>3, <4>1 DEF TypeOK
    <3> QED
      BY <1>14, <3>2, <3>3 DEF DeleteClaim
  <2> QED
    BY <1>14, <2>1, <2>3, NoObjectType
    DEF DeleteClaim, Return, TypeOK, ReadyClaim, WorkerPCs
<1> QED
  BY <1>1, <1>2, <1>3, <1>4, <1>5, <1>6, <1>7, <1>8, <1>9, <1>10, <1>11,
     <1>12, <1>13, <1>14 DEF Call

\* The informer, the deletion of a task, the clock, a crash and the start of
\* Reconcile keep the types.
LEMMA EnvironmentType ==
    ASSUME TypeInv,
           \/ \E t \in Tasks : Deliver(t) \/ DeleteTask(t) \/ Reconcile(t)
           \/ Tick
           \/ Crash
    PROVE  TypeInv'
<1> USE DEF TypeInv, workerVars, storeVars, handlerVars
<1>1. ASSUME NEW t \in Tasks, Deliver(t) PROVE TypeInv'
  BY <1>1 DEF Deliver, TypeOK, ReadyClaim
<1>2. ASSUME NEW t \in Tasks, DeleteTask(t) PROVE TypeInv'
  <2>1. [obj[t] EXCEPT !.phase = "Gone"] \in Object
    BY ObjectExcept DEF TypeOK, Phases
  <2>2. budget' \in Budgets
    BY <1>2 DEF DeleteTask, TypeOK, Budgets
  <2> QED
    BY <1>2, <2>1, <2>2, PutType DEF DeleteTask, TypeOK, ReadyClaim
<1>3. ASSUME NEW t \in Tasks, Reconcile(t) PROVE TypeInv'
  <2>1. /\ FirstCall(t, cache[t]) \in WorkerPCs
        /\ FirstCall(t, cache[t]) = "waitReady" => cache[t].claim # None
    BY DEF FirstCall, WorkerPCs
  <2>2. cache[t].claim \in Claims \cup {None}
    BY DEF TypeOK, Object
  <2> QED
    BY <1>3, <2>1, <2>2, NoObjectType DEF Reconcile, TypeOK, ReadyClaim
<1>4. CASE Tick
  <2>1. clock' \in [Tasks -> Clocks]
    BY <1>4 DEF Tick, TypeOK, Clocks
  <2> QED
    BY <1>4, <2>1 DEF Tick, TypeOK, ReadyClaim
<1>5. CASE Crash
  <2>1. budget' \in Budgets
    BY <1>5 DEF Crash, TypeOK, Budgets
  <2>2. hpc' \in [Tasks -> HandlerPCs] /\ \A d \in Tasks : hpc'[d] # "resume"
    BY <1>5 DEF Crash, HandlerPCs
  <2> QED
    BY <1>5, <2>1, <2>2, NoObjectType
    DEF Crash, Return, TypeOK, ReadyClaim, WorkerPCs
<1> QED
  BY <1>1, <1>2, <1>3, <1>4, <1>5

LEMMA InitType == Init => TypeInv
<1> SUFFICES ASSUME Init PROVE TypeInv
  OBVIOUS
<1>1. clock \in [Tasks -> Clocks] /\ budget \in Budgets
  BY DEF Init, Clocks, Budgets
<1>2. comments \in [Tasks -> Comments]
  BY DEF Init, Comments
<1> QED
  BY <1>1, <1>2, NoObjectType
  DEF Init, TypeInv, TypeOK, ReadyClaim, WorkerPCs, HandlerPCs, Sandboxes

LEMMA StepType == TypeInv /\ [Next]_vars => TypeInv'
<1> SUFFICES ASSUME TypeInv, [Next]_vars PROVE TypeInv'
  OBVIOUS
<1>1. CASE UNCHANGED vars
  BY <1>1 DEF vars, TypeInv, TypeOK, ReadyClaim
<1>2. CASE Next
  BY <1>2, HandleType, CallType, EnvironmentType DEF Next
<1> QED
  BY <1>1, <1>2

\* Whatever the interleaving of handlers, informer, worker, faults and
\* crashes, every component keeps a state of its type: the clocks and the
\* budget stay within their bounds, and a worker or a handler that is busy
\* has a task.
THEOREM TypeCorrect == Spec => []TypeOK
<1>1. Init => TypeInv
  BY InitType
<1>2. TypeInv /\ [Next]_vars => TypeInv'
  BY StepType
<1>3. TypeInv => TypeOK
  BY DEF TypeInv
<1> QED
  BY <1>1, <1>2, <1>3, PTL DEF Spec

-----------------------------------------------------------------------------
(* Every copy of a task, wherever it is, is one the task could have been:  *)
(* its questions are in order, its claim is its own, it has no pod before  *)
(* it runs, and its cost is covered by what was spent.                     *)

Good(t, o, s) ==
    /\ QuestionsOK(o)
    /\ o.phase \in {"Running", "Waiting", "Completed", "Failed"} =>
          o.claim = ClaimOf(t)
    /\ o.phase = "Pending" => o.pod = 0
    /\ o.cost <= s

\* The phase of the worker's copy ahead of each call.
PhasesAt(pc) ==
    CASE pc \in {"createClaim", "setRunning"} -> {"Pending"}
      [] pc = "askComment" -> {"Waiting"}
      [] pc = "fail" -> {"Running", "Waiting"}
      [] pc \in {"finalComment", "release"} -> Terminal
      [] OTHER -> {"Running"}

StoreGood ==
    \A t \in Tasks :
        /\ Good(t, obj[t], spent[t])
        /\ Good(t, cache[t], spent[t])
        /\ \A v \in watch[t] : Good(t, v, spent[t])

HandlerGood ==
    \A d \in Tasks : hpc[d] = "resume" =>
        /\ Good(htask[d], hcopy[d], spent[htask[d]])
        /\ hcopy[d].phase = "Waiting"

WorkerGood ==
    wpc # "idle" =>
        /\ Good(wtask, wcopy, spent[wtask])
        /\ wcopy.phase \in PhasesAt(wpc)

GoodInv == TypeInv /\ StoreGood /\ HandlerGood /\ WorkerGood

LEMMA MaxRoundsType == MaxRounds \in Nat \ {0}
BY DEF MaxRounds, DefaultMaxClarifications

LEMMA NoObjectGood == \A t \in Tasks : Good(t, NoObject, 0)
BY MaxRoundsType DEF Good, QuestionsOK, NoObject, AllAnswered

\* The version number is no part of what makes a copy good.
LEMMA StoredGood ==
    ASSUME NEW t \in Tasks, NEW new \in Object, NEW s, Good(t, new, s)
    PROVE  /\ Good(t, Stored(t, new), s)
           /\ Stored(t, new).phase = new.phase
<1>1. /\ Stored(t, new).clar = new.clar
      /\ Stored(t, new).phase = new.phase
      /\ Stored(t, new).claim = new.claim
      /\ Stored(t, new).cost = new.cost
      /\ Stored(t, new).pod = new.pod
  BY DEF Stored, Object
<1> QED
  BY <1>1 DEF Good, QuestionsOK

\* A change of the phase alone.
LEMMA PhaseGood ==
    ASSUME NEW t \in Tasks, NEW o \in Object, NEW s, Good(t, o, s),
           o.phase \in {"Running", "Waiting"}
    PROVE  /\ Good(t, [o EXCEPT !.phase = "Failed"], s)
           /\ o.phase = "Running" => Good(t, [o EXCEPT !.phase = "Completed"], s)
BY DEF Good, QuestionsOK, Object

\* Deletion keeps the record of the questions.
LEMMA GoneGood ==
    ASSUME NEW t \in Tasks, NEW o \in Object, NEW s, Good(t, o, s)
    PROVE  Good(t, [o EXCEPT !.phase = "Gone"], s)
BY DEF Good, QuestionsOK, Object

\* A question is asked when there is a round left and none is open.
LEMMA AskGood ==
    ASSUME NEW t \in Tasks, NEW o \in Object, NEW s, Good(t, o, s),
           o.phase = "Running", ~RoundsExhausted(o.clar)
    PROVE  Good(t, [o EXCEPT !.phase = "Waiting", !.clar = Append(@, None)], s)
<1> DEFINE q == Append(o.clar, None)
           n == [o EXCEPT !.phase = "Waiting", !.clar = q]
<1>1. o.clar \in Seq(Tasks \cup {None}) /\ Len(o.clar) \in Nat
  BY LenProperties DEF Object
<1>2. /\ Len(q) = Len(o.clar) + 1
      /\ q[Len(q)] = None
      /\ \A i \in 1 .. Len(o.clar) : q[i] = o.clar[i]
  BY <1>1, AppendProperties
<1>3. AllAnswered(o.clar) /\ Len(o.clar) < MaxRounds
  BY <1>1, MaxRoundsType DEF Good, QuestionsOK, RoundsExhausted
<1>4. \A i \in 1 .. Len(q) - 1 : q[i] # None
  <2> SUFFICES ASSUME NEW i \in 1 .. Len(o.clar) PROVE o.clar[i] # None
    BY <1>1, <1>2
  <2>1. i \in DOMAIN o.clar
    BY <1>1, LenProperties
  <2> QED
    BY <1>3, <2>1 DEF AllAnswered
<1>5. n.phase = "Waiting" /\ n.clar = q /\ n.claim = o.claim /\ n.cost = o.cost
  BY DEF Object
<1>6. Len(q) > 0 /\ Len(q) <= MaxRounds
  BY <1>1, <1>2, <1>3, MaxRoundsType
<1> HIDE DEF q
<1>7. QuestionsOK(n)
  BY <1>2, <1>4, <1>5, <1>6 DEF QuestionsOK
<1> QED
  BY <1>5, <1>7 DEF Good, q

\* The answer closes the one open question.
LEMMA AnswerGood ==
    ASSUME NEW t \in Tasks, NEW d \in Tasks, NEW o \in Object, NEW s,
           Good(t, o, s), o.phase = "Waiting"
    PROVE  Good(t, [o EXCEPT !.phase = "Running", !.clar = WithAnswer(@, d)], s)
<1> DEFINE q == WithAnswer(o.clar, d)
           n == [o EXCEPT !.phase = "Running", !.clar = q]
<1>1. o.clar \in Seq(Tasks \cup {None}) /\ Len(o.clar) \in Nat
  BY LenProperties DEF Object
<1>2. /\ q \in Seq(Tasks \cup {None})
      /\ Len(q) = Len(o.clar)
      /\ \A i \in 1 .. Len(o.clar) : q[i] = IF i = Len(o.clar) THEN d ELSE o.clar[i]
  BY <1>1, WithAnswerType
<1>3. /\ Len(o.clar) <= MaxRounds
      /\ \A i \in 1 .. Len(o.clar) - 1 : o.clar[i] # None
  BY DEF Good, QuestionsOK
<1> HIDE DEF q
<1>4. AllAnswered(q)
  <2> SUFFICES ASSUME NEW i \in 1 .. Len(o.clar) PROVE q[i] # None
    BY <1>2, LenProperties DEF AllAnswered
  <2> QED
    BY <1>1, <1>2, <1>3
<1>5. n.phase = "Running" /\ n.clar = q /\ n.claim = o.claim /\ n.cost = o.cost
  BY DEF Object
<1>6. QuestionsOK(n)
  BY <1>2, <1>3, <1>4, <1>5 DEF QuestionsOK
<1> QED
  BY <1>5, <1>6 DEF Good, q

\* Storing a good copy leaves every stored version good.
LEMMA PutGood ==
    ASSUME GoodInv, NEW t \in Tasks, NEW new \in Object,
           Good(t, new, spent[t]), Put(t, new), UNCHANGED <<cache, spent>>
    PROVE  StoreGood'
<1>1. Good(t, Stored(t, new), spent[t])
  BY StoredGood
<1>2. \A u \in Tasks : Good(u, obj'[u], spent[u])
  BY <1>1 DEF Put, GoodInv, StoreGood, TypeInv, TypeOK
<1>3. \A u \in Tasks : \A v \in watch'[u] : Good(u, v, spent[u])
  BY <1>1 DEF Put, GoodInv, StoreGood, TypeInv, TypeOK
<1> QED
  BY <1>2, <1>3 DEF GoodInv, StoreGood

LEMMA StoreGoodStutter ==
    ASSUME GoodInv, UNCHANGED <<storeVars, cache, spent>>
    PROVE  StoreGood'
BY DEF GoodInv, StoreGood, storeVars

LEMMA HandlerGoodStutter ==
    ASSUME GoodInv, UNCHANGED <<handlerVars, spent>>
    PROVE  HandlerGood'
BY DEF GoodInv, HandlerGood, handlerVars

LEMMA WorkerGoodStutter ==
    ASSUME GoodInv, UNCHANGED <<workerVars, spent>>
    PROVE  WorkerGood'
BY DEF GoodInv, WorkerGood, workerVars

\* An update of the worker's copy that is good for its next call.
LEMMA StatusUpdateGood ==
    ASSUME GoodInv, wpc # "idle", NEW new \in Object, NEW call \in WorkerPCs,
           Good(wtask, new, spent[wtask]), new.phase \in PhasesAt(call),
           StatusUpdate(new, call), UNCHANGED <<cache, spent, handlerVars>>
    PROVE  StoreGood' /\ HandlerGood' /\ WorkerGood'
<1>0. wtask \in Tasks
  BY DEF GoodInv, TypeInv, TypeOK
<1>1. HandlerGood'
  BY HandlerGoodStutter
<1>2. CASE /\ CanWrite(wtask, wcopy)
           /\ Put(wtask, new)
           /\ wcopy' = Stored(wtask, new)
           /\ Goto(call)
  <2>1. StoreGood'
    BY <1>0, <1>2, PutGood
  <2>2. WorkerGood'
    BY <1>0, <1>2, StoredGood DEF Goto, WorkerGood
  <2> QED
    BY <1>1, <2>1, <2>2
<1>3. CASE ReturnRequeue /\ (UNCHANGED storeVars \/ Put(wtask, new))
  <2>1. StoreGood'
    BY <1>0, <1>3, PutGood, StoreGoodStutter
  <2>2. WorkerGood'
    BY <1>3 DEF ReturnRequeue, Return, WorkerGood
  <2> QED
    BY <1>1, <2>1, <2>2
<1> QED
  BY <1>2, <1>3 DEF StatusUpdate

LEMMA HandleGood ==
    ASSUME GoodInv, NEW d \in Tasks, Handle(d)
    PROVE  StoreGood' /\ HandlerGood' /\ WorkerGood'
<1>0. TypeOK /\ UNCHANGED <<workerVars, cache, spent>>
  BY DEF GoodInv, TypeInv, Handle, HandleMention, HandleLabel,
         ResumeClarification, CreateTask
<1>1. WorkerGood'
  BY <1>0, WorkerGoodStutter
<1>2. CASE HandleMention(d)
  <2>1. StoreGood'
    BY <1>0, <1>2, StoreGoodStutter DEF HandleMention
  <2>2. CASE hpc' = [hpc EXCEPT ![d] = "create"] /\ UNCHANGED <<htask, hcopy>>
    BY <1>0, <1>1, <2>1, <2>2 DEF GoodInv, HandlerGood, TypeOK
  <2>3. ASSUME NEW t \in Tasks, Matches(d, t, cache[t]),
               hpc' = [hpc EXCEPT ![d] = "resume"],
               htask' = [htask EXCEPT ![d] = t],
               hcopy' = [hcopy EXCEPT ![d] = cache[t]]
        PROVE  HandlerGood'
    <3>1. Good(t, cache[t], spent[t]) /\ cache[t].phase = "Waiting"
      BY <2>3 DEF GoodInv, StoreGood, Matches
    <3> QED
      BY <1>0, <2>3, <3>1 DEF GoodInv, HandlerGood, TypeOK
  <2> QED
    BY <1>1, <1>2, <2>1, <2>2, <2>3 DEF HandleMention
<1>3. CASE HandleLabel(d)
  <2>1. StoreGood'
    BY <1>0, <1>3, StoreGoodStutter DEF HandleLabel
  <2> QED
    BY <1>0, <1>1, <1>3, <2>1 DEF HandleLabel, GoodInv, HandlerGood, TypeOK
<1>4. CASE ResumeClarification(d)
  <2>1. /\ htask[d] \in Tasks /\ hcopy[d] \in Object
        /\ hcopy[d].clar \in Seq(Tasks \cup {None})
        /\ Good(htask[d], hcopy[d], spent[htask[d]])
        /\ hcopy[d].phase = "Waiting"
    BY <1>0, <1>4 DEF ResumeClarification, GoodInv, HandlerGood, TypeOK, Object
  <2>2. Answered(d) \in Object
    <3>1. WithAnswer(hcopy[d].clar, d) \in Seq(Tasks \cup {None})
      BY <2>1, WithAnswerType
    <3> QED
      BY <2>1, <3>1, ObjectExcept DEF Answered, Phases
  <2>3. Good(htask[d], Answered(d), spent[htask[d]])
    BY <2>1, AnswerGood DEF Answered
  <2>4. StoreGood'
    BY <1>0, <1>4, <2>1, <2>2, <2>3, PutGood, StoreGoodStutter
    DEF ResumeClarification
  <2>5. HandlerGood'
    BY <1>0, <1>4 DEF ResumeClarification, GoodInv, HandlerGood, TypeOK
  <2> QED
    BY <1>1, <2>4, <2>5
<1>5. CASE CreateTask(d)
  <2> DEFINE new == [NoObject EXCEPT !.phase = "Pending"]
  <2>1. new \in Object
    BY NoObjectType, ObjectExcept DEF Phases
  <2>2. spent[d] \in Nat
    BY <1>0 DEF TypeOK
  <2>3. Good(d, new, spent[d])
    BY <2>2, MaxRoundsType DEF Good, QuestionsOK, NoObject, AllAnswered
  <2> HIDE DEF new
  <2>4. Put(d, new) \/ UNCHANGED storeVars
    BY <1>5 DEF CreateTask, new
  <2>5. StoreGood'
    BY <1>0, <2>1, <2>3, <2>4, PutGood, StoreGoodStutter
  <2>6. HandlerGood'
    BY <1>0, <1>5 DEF CreateTask, GoodInv, HandlerGood, TypeOK
  <2> QED
    BY <1>1, <2>5, <2>6
<1> QED
  BY <1>2, <1>3, <1>4, <1>5 DEF Handle

\* A call that leaves the store alone and moves the worker on with its copy,
\* or makes it return.
LEMMA GotoGood ==
    ASSUME GoodInv, wpc # "idle", UNCHANGED <<storeVars, cache, handlerVars, spent>>,
           \/ Return
           \/ \E call \in WorkerPCs : /\ Goto(call)
                                      /\ UNCHANGED wcopy
                                      /\ wcopy.phase \in PhasesAt(call)
    PROVE  StoreGood' /\ HandlerGood' /\ WorkerGood'
<1>1. StoreGood' /\ HandlerGood'
  BY StoreGoodStutter, HandlerGoodStutter
<1>2. WorkerGood'
  BY DEF GoodInv, WorkerGood, Return, Goto
<1> QED
  BY <1>1, <1>2

LEMMA CallGood ==
    ASSUME GoodInv, Call
    PROVE  StoreGood' /\ HandlerGood' /\ WorkerGood'
<1>0. /\ wpc # "idle" /\ wtask \in Tasks /\ wcopy \in Object
      /\ wcopy.clar \in Seq(Tasks \cup {None})
      /\ Good(wtask, wcopy, spent[wtask])
      /\ wcopy.phase \in PhasesAt(wpc)
  BY DEF GoodInv, TypeInv, WorkerGood, TypeOK, Object, Call, CreateClaim,
         SetRunning, StartComment, WaitForReady, SetPod, GetCloneToken,
         ExecInPod, SaveCost, Ask, AskComment, Complete, FailTask,
         FinalComment, DeleteClaim
<1> USE DEF PhasesAt, WorkerPCs
<1>1. CASE CreateClaim
  BY <1>0, <1>1, GotoGood DEF CreateClaim, ReturnRequeue
<1>2. CASE SetRunning
  <2> DEFINE new == [wcopy EXCEPT !.phase = "Running", !.claim = ClaimOf(wtask)]
  <2>1. new \in Object
    BY <1>0, ObjectExcept, ClaimOfType DEF Phases
  <2>2. wcopy.phase = "Pending"
    BY <1>0, <1>2 DEF SetRunning
  <2>3. Good(wtask, new, spent[wtask]) /\ new.phase = "Running"
    BY <1>0, <2>2 DEF Good, QuestionsOK, Object
  <2> HIDE DEF new
  <2>4. StatusUpdate(new, "startComment") /\ UNCHANGED <<cache, spent, handlerVars>>
    BY <1>2 DEF SetRunning, new
  <2> QED
    BY <1>0, <2>1, <2>3, <2>4, StatusUpdateGood
<1>3. CASE StartComment
  BY <1>0, <1>3, GotoGood DEF StartComment, ReturnRequeue
<1>4. CASE WaitForReady
  <2>1. wcopy.phase = "Running" /\ claims[wcopy.claim].gen \in Nat
    BY <1>0, <1>4
    DEF WaitForReady, GoodInv, TypeInv, ReadyClaim, TypeOK, Sandboxes
  <2>2. /\ [wcopy EXCEPT !.pod = claims[wcopy.claim].gen].phase = "Running"
        /\ Good(wtask, [wcopy EXCEPT !.pod = claims[wcopy.claim].gen], spent[wtask])
    BY <1>0, <2>1 DEF Good, QuestionsOK, Object
  <2>3. StoreGood' /\ HandlerGood'
    BY <1>4, StoreGoodStutter, HandlerGoodStutter DEF WaitForReady
  <2>4. WorkerGood'
    BY <1>0, <1>4, <2>1, <2>2 DEF WaitForReady, Goto, WorkerGood
  <2> QED
    BY <2>3, <2>4
<1>5. CASE SetPod
  BY <1>0, <1>5, StatusUpdateGood DEF SetPod
<1>6. CASE GetCloneToken
  BY <1>0, <1>6, GotoGood DEF GetCloneToken, ReturnRequeue
<1>7. CASE ExecInPod
  <2>1. PICK err \in BOOLEAN, markers \in SUBSET Markers, c \in {0, 1} :
            /\ spent' = [spent EXCEPT ![wtask] = @ + c]
            /\ wcopy' = [wcopy EXCEPT !.cost = AccumulateCost(@, c)]
            /\ Goto(AfterExec(err, markers))
    BY <1>7 DEF ExecInPod
  <2>2. /\ \A t \in Tasks : spent[t] \in Nat /\ spent'[t] \in Nat /\ spent[t] <= spent'[t]
        /\ spent'[wtask] = spent[wtask] + c
    BY <1>0, <2>1 DEF GoodInv, TypeInv, TypeOK
  <2>3. ASSUME NEW t \in Tasks, NEW o \in Object, Good(t, o, spent[t])
        PROVE  Good(t, o, spent'[t])
    BY <2>2, <2>3 DEF Good, Object
  <2>4. StoreGood'
    BY <1>7, <2>3
    DEF ExecInPod, storeVars, GoodInv, TypeInv, TypeOK, StoreGood
  <2>5. HandlerGood'
    BY <1>7, <2>3
    DEF ExecInPod, handlerVars, GoodInv, TypeInv, TypeOK, HandlerGood
  <2>6. wcopy.phase = "Running"
    BY <1>0, <1>7 DEF ExecInPod
  <2>7. /\ wcopy'.phase = "Running" /\ wcopy'.clar = wcopy.clar
        /\ wcopy'.claim = wcopy.claim /\ wcopy'.cost = wcopy.cost + c
    BY <1>0, <2>1, <2>6 DEF Object, AccumulateCost
  <2>8. Good(wtask, wcopy', spent'[wtask])
    <3>1. wcopy.cost \in Nat
      BY <1>0 DEF Object
    <3> QED
      BY <1>0, <2>2, <2>6, <2>7, <3>1 DEF Good, QuestionsOK
  <2>9. WorkerGood'
    BY <2>1, <2>7, <2>8 DEF WorkerGood, Goto, AfterExec
  <2> QED
    BY <2>4, <2>5, <2>9
<1>8. CASE SaveCost
  <2>1. wcopy.phase = "Running"
    BY <1>0, <1>8 DEF SaveCost
  <2>2. StoreGood' /\ HandlerGood'
    BY <1>0, <1>8, PutGood, StoreGoodStutter, HandlerGoodStutter DEF SaveCost
  <2>3. WorkerGood'
    BY <1>0, <1>8, <2>1, StoredGood DEF SaveCost, Goto, WorkerGood
  <2> QED
    BY <2>2, <2>3
<1>9. CASE Ask
  <2>1. wcopy.phase = "Running"
    BY <1>0, <1>9 DEF Ask
  <2>2. CASE RoundsExhausted(wcopy.clar)
    BY <1>0, <1>9, <2>1, <2>2, GotoGood DEF Ask
  <2>3. CASE ~RoundsExhausted(wcopy.clar)
    <3> DEFINE new == [wcopy EXCEPT !.phase = "Waiting", !.clar = Append(@, None)]
    <3>1. Append(wcopy.clar, None) \in Seq(Tasks \cup {None})
      BY <1>0, AppendProperties
    <3>2. new \in Object /\ new.phase = "Waiting"
      <4>1. new \in Object
        BY <1>0, <3>1, ObjectExcept DEF Phases
      <4>2. new.phase = "Waiting"
        BY <1>0 DEF Object
      <4> QED
        BY <4>1, <4>2
    <3>3. Good(wtask, new, spent[wtask])
      BY <1>0, <2>1, <2>3, AskGood
    <3> HIDE DEF new
    <3>4. StatusUpdate(new, "askComment") /\ UNCHANGED <<cache, spent, handlerVars>>
      BY <1>9, <2>3 DEF Ask, new
    <3> QED
      BY <1>0, <3>2, <3>3, <3>4, StatusUpdateGood
  <2> QED
    BY <2>2, <2>3
<1>10. CASE AskComment
  BY <1>0, <1>10, GotoGood DEF AskComment
<1>11. CASE Complete
  <2> DEFINE new == [wcopy EXCEPT !.phase = "Completed"]
  <2>1. new \in Object /\ new.phase \in Terminal
    <3>1. new \in Object
      BY <1>0, ObjectExcept DEF Phases
    <3>2. new.phase \in Terminal
      BY <1>0 DEF Object, Terminal
    <3> QED
      BY <3>1, <3>2
  <2>2. Good(wtask, new, spent[wtask])
    BY <1>0, <1>11, PhaseGood DEF Complete
  <2> HIDE DEF new
  <2>3. StatusUpdate(new, "finalComment") /\ UNCHANGED <<cache, spent, handlerVars>>
    BY <1>11 DEF Complete, new
  <2> QED
    BY <1>0, <2>1, <2>2, <2>3, StatusUpdateGood
<1>12. CASE FailTask
  <2> DEFINE new == [wcopy EXCEPT !.phase = "Failed"]
  <2>1. new \in Object /\ new.phase \in Terminal
    <3>1. new \in Object
      BY <1>0, ObjectExcept DEF Phases
    <3>2. new.phase \in Terminal
      BY <1>0 DEF Object, Terminal
    <3> QED
      BY <3>1, <3>2
  <2>2. Good(wtask, new, spent[wtask])
    BY <1>0, <1>12, PhaseGood DEF FailTask
  <2> HIDE DEF new
  <2>3. StatusUpdate(new, "finalComment") /\ UNCHANGED <<cache, spent, handlerVars>>
    BY <1>12 DEF FailTask, new
  <2> QED
    BY <1>0, <2>1, <2>2, <2>3, StatusUpdateGood
<1>13. CASE FinalComment
  BY <1>0, <1>13, GotoGood DEF FinalComment
<1>14. CASE DeleteClaim
  BY <1>0, <1>14, GotoGood DEF DeleteClaim
<1> QED
  BY <1>1, <1>2, <1>3, <1>4, <1>5, <1>6, <1>7, <1>8, <1>9, <1>10, <1>11,
     <1>12, <1>13, <1>14 DEF Call

LEMMA EnvironmentGood ==
    ASSUME GoodInv,
           \/ \E t \in Tasks : Deliver(t) \/ DeleteTask(t) \/ Reconcile(t)
           \/ Tick
           \/ Crash
    PROVE  StoreGood' /\ HandlerGood' /\ WorkerGood'
<1>1. ASSUME NEW t \in Tasks, Deliver(t)
      PROVE  StoreGood' /\ HandlerGood' /\ WorkerGood'
  <2>1. StoreGood'
    BY <1>1 DEF Deliver, GoodInv, StoreGood, TypeInv, TypeOK
  <2> QED
    BY <1>1, <2>1, HandlerGoodStutter, WorkerGoodStutter DEF Deliver
<1>2. ASSUME NEW t \in Tasks, DeleteTask(t)
      PROVE  StoreGood' /\ HandlerGood' /\ WorkerGood'
  <2> DEFINE new == [obj[t] EXCEPT !.phase = "Gone"]
  <2>1. obj[t] \in Object /\ Good(t, obj[t], spent[t])
    BY DEF GoodInv, StoreGood, TypeInv, TypeOK
  <2>2. new \in Object /\ Good(t, new, spent[t])
    BY <2>1, ObjectExcept, GoneGood DEF Phases
  <2> HIDE DEF new
  <2>3. Put(t, new) /\ UNCHANGED <<cache, spent, workerVars, handlerVars>>
    BY <1>2 DEF DeleteTask, new
  <2> QED
    BY <2>2, <2>3, PutGood, HandlerGoodStutter, WorkerGoodStutter
<1>3. ASSUME NEW t \in Tasks, Reconcile(t)
      PROVE  StoreGood' /\ HandlerGood' /\ WorkerGood'
  <2>1. StoreGood' /\ HandlerGood'
    BY <1>3, StoreGoodStutter, HandlerGoodStutter DEF Reconcile
  <2>2. Good(t, cache[t], spent[t])
    BY DEF GoodInv, StoreGood
  <2>3. LET call == FirstCall(t, cache[t]) IN
        call # "idle" => cache[t].phase \in PhasesAt(call)
    BY DEF FirstCall, PhasesAt
  <2> QED
    BY <1>3, <2>1, <2>2, <2>3 DEF Reconcile, WorkerGood
<1>4. CASE Tick
  BY <1>4, HandlerGoodStutter, WorkerGoodStutter
  DEF Tick, GoodInv, StoreGood
<1>5. CASE Crash
  <2>1. StoreGood'
    BY <1>5 DEF Crash, GoodInv, StoreGood
  <2>2. HandlerGood'
    BY <1>5 DEF Crash, HandlerGood
  <2>3. WorkerGood'
    BY <1>5 DEF Crash, Return, WorkerGood
  <2> QED
    BY <2>1, <2>2, <2>3
<1> QED
  BY <1>1, <1>2, <1>3, <1>4, <1>5

LEMMA InitGood == Init => GoodInv
BY InitType, NoObjectGood
DEF Init, GoodInv, StoreGood, HandlerGood, WorkerGood

LEMMA StepGood == GoodInv /\ [Next]_vars => GoodInv'
<1> SUFFICES ASSUME GoodInv, [Next]_vars PROVE GoodInv'
  OBVIOUS
<1>1. TypeInv'
  BY StepType DEF GoodInv
<1>2. StoreGood' /\ HandlerGood' /\ WorkerGood'
  <2>1. CASE UNCHANGED vars
    BY <2>1, StoreGoodStutter, HandlerGoodStutter, WorkerGoodStutter
    DEF vars, storeVars, handlerVars, workerVars
  <2>2. CASE Next
    BY <2>2, HandleGood, CallGood, EnvironmentGood DEF Next
  <2> QED
    BY <2>1, <2>2
<1> QED
  BY <1>1, <1>2 DEF GoodInv

\* The questions of every task are in order: at most maxRounds of them, the
\* last one open exactly while the task waits.
THEOREM QuestionsInOrder == Spec => []OneOpenQuestion
<1>1. GoodInv => OneOpenQuestion
  BY DEF GoodInv, StoreGood, Good, OneOpenQuestion
<1> QED
  BY <1>1, InitGood, StepGood, PTL DEF Spec

\* No cost report exceeds what was spent, whatever runs were repeated.
THEOREM CostsCovered == Spec => []CostNotOverReported
<1>1. GoodInv => CostNotOverReported
  BY DEF GoodInv, StoreGood, Good, CostNotOverReported
<1> QED
  BY <1>1, InitGood, StepGood, PTL DEF Spec

=============================================================================
