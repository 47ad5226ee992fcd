------------------------- MODULE TaskSandboxProofs -------------------------
(***************************************************************************)
(* A task that shares its claim with no other task keeps its sandbox until *)
(* it has ended; unless something fails its claim is deleted then; its key *)
(* is never lost before; and a reply reaches the question it answers.      *)
(***************************************************************************)
EXTENDS TaskThreadProofs

\* No other task with the claim of t was ever created.
Sole(t) ==
    \A u \in Tasks \ {t} : ClaimOf(u) = ClaimOf(t) => obj[u].phase = "Absent"

\* The sandbox of t is there, and p is its pod if it is one.
Holds(t, p) ==
    /\ claims[ClaimOf(t)].live
    /\ p # 0 => claims[ClaimOf(t)].gen = p

HeldInv ==
    /\ ThreadInv
    /\ \A t \in Tasks : Active(t) /\ Sole(t) => Holds(t, obj[t].pod)
    /\ wpc = "setRunning" /\ Sole(wtask) => claims[ClaimOf(wtask)].live
    /\ wpc = "setPod" /\ Sole(wtask) /\ wcopy.pod # 0 =>
          claims[ClaimOf(wtask)].gen = wcopy.pod

\* A task that is active after a step was so before it with the same pod, or
\* has just been started, or has just been given its pod.
PodMoved ==
    \A t \in Tasks :
        obj'[t].phase \in {"Running", "Waiting"} =>
            \/ obj[t].phase \in {"Running", "Waiting"} /\ obj'[t].pod = obj[t].pod
            \/ t = wtask /\ wpc = "setRunning" /\ obj'[t].pod = 0
            \/ /\ t = wtask /\ wpc = "setPod" /\ obj'[t].pod = wcopy.pod
               /\ obj[t].phase \in {"Running", "Waiting"}

\* A change of the claims is the worker's.
ClaimsMoved ==
    \/ claims' = claims /\ wpc' # "setRunning"
    \/ claims' = claims /\ wpc' = "setRunning" /\ wpc = "setRunning" /\ wtask' = wtask
    \/ /\ wpc = "createClaim" /\ wpc' = "setRunning" /\ wtask' = wtask
       /\ claims' = IF claims[ClaimOf(wtask)].live THEN claims
                    ELSE [claims EXCEPT ![ClaimOf(wtask)] =
                             [gen |-> @.gen + 1, live |-> TRUE]]
    \/ /\ wpc = "release" /\ wpc' = "idle"
       /\ claims' = [claims EXCEPT ![ClaimOf(wtask)].live = FALSE]

\* The worker on its way to SetPod has the pod of the claim as it is.
PodRead ==
    wpc' = "setPod" =>
        /\ wtask' = wtask
        /\ \/ wpc = "setPod" /\ wcopy' = wcopy
           \/ wcopy'.pod = 0
           \/ wcopy'.pod = claims[ClaimOf(wtask)].gen

\* An accepted update changes no other task.
LEMMA PutPod ==
    ASSUME FreshInv, NEW t \in Tasks, NEW new \in Object, new.rv = obj[t].rv,
           Put(t, new),
           new.phase \in {"Running", "Waiting"} =>
               \/ obj[t].phase \in {"Running", "Waiting"} /\ new.pod = obj[t].pod
               \/ t = wtask /\ wpc = "setRunning" /\ new.pod = 0
               \/ /\ t = wtask /\ wpc = "setPod" /\ new.pod = wcopy.pod
                  /\ obj[t].phase \in {"Running", "Waiting"}
    PROVE  PodMoved
<1>1. TypeOK
  BY DEF FreshInv, GoodInv, TypeInv
<1>2. /\ \A u \in Tasks \ {t} : obj'[u] = obj[u]
      /\ obj'[t].phase = new.phase /\ obj'[t].pod = new.pod
  BY <1>1, PutEffect
<1> QED
  BY <1>2 DEF PodMoved

\* An update by the worker that keeps the pod of an active task, or starts it.
LEMMA StatusUpdatePod ==
    ASSUME FreshInv, wpc # "idle", NEW new \in Object, new.rv = wcopy.rv,
           NEW call, StatusUpdate(new, call),
           \/ /\ wpc # "setPod" /\ new.pod = wcopy.pod
              /\ wcopy.phase \in {"Running", "Waiting"}
           \/ wpc = "setRunning" /\ new.pod = 0
           \/ wpc = "setPod" /\ new = wcopy /\ wcopy.phase = "Running"
    PROVE  PodMoved
<1>0. wtask \in Tasks /\ WorkerCopyOf(wcopy, obj[wtask], wpc)
  BY DEF FreshInv, GoodInv, TypeInv, TypeOK, WorkerFresh
<1>1. CASE obj' = obj
  BY <1>1 DEF PodMoved
<1>2. CASE CanWrite(wtask, wcopy) /\ Put(wtask, new)
  <2>1. /\ new.rv = obj[wtask].rv /\ wcopy.phase = obj[wtask].phase
        /\ wpc # "setPod" => wcopy.pod = obj[wtask].pod
    BY <1>0, <1>2 DEF CanWrite, WorkerCopyOf
  <2> QED
    BY <1>0, <1>2, <2>1, PutPod
<1> QED
  BY <1>1, <1>2 DEF StatusUpdate, storeVars

LEMMA CallPod ==
    ASSUME FreshInv, Call
    PROVE  PodMoved
<1>0. /\ TypeOK /\ wpc # "idle" /\ wtask \in Tasks /\ wcopy \in Object
      /\ wcopy.clar \in Seq(Tasks \cup {None})
      /\ wcopy.phase \in PhasesAt(wpc)
      /\ WorkerCopyOf(wcopy, obj[wtask], wpc)
      /\ wcopy.phase = "Pending" => wcopy.pod = 0
  <2>1. wpc # "idle"
    BY DEF Call, CreateClaim, SetRunning, StartComment, WaitForReady, SetPod,
           GetCloneToken, ExecInPod, SaveCost, Ask, AskComment, Complete,
           FailTask, FinalComment, DeleteClaim
  <2> QED
    BY <2>1 DEF FreshInv, GoodInv, TypeInv, WorkerGood, WorkerFresh, TypeOK,
                Object, Good
<1>1. CASE obj' = obj
  BY <1>1 DEF PodMoved
<1>2. CASE SetRunning
  <2> DEFINE new == [wcopy EXCEPT !.phase = "Running", !.claim = ClaimOf(wtask)]
  <2>1. new \in Object
    BY <1>0, ObjectExcept, ClaimOfType DEF Phases
  <2>2. wcopy.pod = 0
    BY <1>0, <1>2 DEF SetRunning, PhasesAt
  <2>3. new.rv = wcopy.rv /\ new.pod = 0
    BY <1>0, <2>2 DEF Object
  <2>4. StatusUpdate(new, "startComment") /\ wpc = "setRunning"
    BY <1>2 DEF SetRunning
  <2> QED
    BY <1>0, <2>1, <2>3, <2>4, StatusUpdatePod
<1>3. CASE SetPod
  <2>1. wpc = "setPod" /\ StatusUpdate(wcopy, "token")
    BY <1>3 DEF SetPod
  <2>2. wcopy.phase = "Running"
    BY <1>0, <2>1 DEF PhasesAt
  <2> QED
    BY <1>0, <2>1, <2>2, StatusUpdatePod
<1>4. CASE SaveCost
  <2>1. wcopy.phase = "Running" /\ wpc = "saveCost"
    BY <1>0, <1>4 DEF SaveCost, PhasesAt
  <2>2. obj' = obj \/ (CanWrite(wtask, wcopy) /\ Put(wtask, wcopy))
    BY <1>4 DEF SaveCost, storeVars
  <2>3. ASSUME CanWrite(wtask, wcopy), Put(wtask, wcopy) PROVE PodMoved
    <3>1. /\ wcopy.rv = obj[wtask].rv /\ wcopy.phase = obj[wtask].phase
          /\ wcopy.pod = obj[wtask].pod
      BY <1>0, <2>1, <2>3 DEF CanWrite, WorkerCopyOf
    <3> QED
      BY <1>0, <2>1, <2>3, <3>1, PutPod
  <2> QED
    BY <1>1, <2>2, <2>3
<1>5. CASE Ask
  <2> DEFINE new == [wcopy EXCEPT !.phase = "Waiting", !.clar = Append(@, None)]
  <2>1. CASE RoundsExhausted(wcopy.clar)
    BY <1>1, <1>5, <2>1 DEF Ask, storeVars
  <2>2. CASE ~RoundsExhausted(wcopy.clar)
    <3>1. Append(wcopy.clar, None) \in Seq(Tasks \cup {None})
      BY <1>0, AppendProperties
    <3>2. new \in Object
      BY <1>0, <3>1, ObjectExcept DEF Phases
    <3>3. new.rv = wcopy.rv /\ new.pod = wcopy.pod
      BY <1>0 DEF Object
    <3>4. StatusUpdate(new, "askComment") /\ wpc = "ask"
      BY <1>5, <2>2 DEF Ask
    <3>5. wcopy.phase = "Running"
      BY <1>0, <3>4 DEF PhasesAt
    <3> QED
      BY <1>0, <3>2, <3>3, <3>4, <3>5, StatusUpdatePod
  <2> QED
    BY <2>1, <2>2
<1>6. CASE Complete \/ FailTask
  <2>1. PICK p \in Terminal :
            /\ StatusUpdate([wcopy EXCEPT !.phase = p], "finalComment")
            /\ wpc \in {"complete", "fail"}
    BY <1>6 DEF Complete, FailTask, Terminal
  <2> DEFINE new == [wcopy EXCEPT !.phase = p]
  <2>2. new \in Object
    BY <1>0, ObjectExcept DEF Phases, Terminal
  <2>3. new.rv = wcopy.rv /\ new.pod = wcopy.pod
    BY <1>0 DEF Object
  <2>4. wcopy.phase \in {"Running", "Waiting"}
    BY <1>0, <2>1 DEF PhasesAt
  <2> QED
    BY <1>0, <2>1, <2>2, <2>3, <2>4, StatusUpdatePod
<1> QED
  BY <1>1, <1>2, <1>3, <1>4, <1>5, <1>6
  DEF Call, CreateClaim, StartComment, WaitForReady, GetCloneToken, ExecInPod,
      AskComment, FinalComment, DeleteClaim, storeVars

LEMMA CallClaims ==
    ASSUME FreshInv, Call
    PROVE  ClaimsMoved /\ PodRead
<1>0. wpc # "idle" => wcopy.phase \in PhasesAt(wpc)
  BY DEF FreshInv, GoodInv, WorkerGood
<1>1. CASE CreateClaim
  BY <1>1 DEF CreateClaim, Goto, ReturnRequeue, Return, ClaimsMoved, PodRead
<1>2. CASE WaitForReady
  <2>1. wcopy \in Object /\ wpc = "waitReady" /\ wcopy.claim = ClaimOf(wtask)
    BY <1>0, <1>2 DEF WaitForReady, FreshInv, GoodInv, TypeInv, TypeOK,
                      WorkerGood, Good, PhasesAt
  <2>2. wcopy.pod = 0
    BY <2>1 DEF FreshInv, WorkerFresh
  <2>3. [wcopy EXCEPT !.pod = claims[wcopy.claim].gen].pod
          = claims[ClaimOf(wtask)].gen
    BY <2>1 DEF Object
  <2> QED
    BY <1>2, <2>1, <2>2, <2>3 DEF WaitForReady, Goto, ClaimsMoved, PodRead
<1>3. CASE DeleteClaim
  <2>1. wpc = "release" /\ wtask \in Tasks /\ wcopy.claim = ClaimOf(wtask)
    BY <1>0, <1>3 DEF DeleteClaim, FreshInv, GoodInv, TypeInv, TypeOK,
                      WorkerGood, Good, PhasesAt, Terminal
  <2>2. ClaimOf(wtask) # None
    BY <2>1, ClaimOfType, NoneAssumption
  <2> QED
    BY <1>3, <2>1, <2>2 DEF DeleteClaim, Return, ClaimsMoved, PodRead
<1>4. CASE SetRunning \/ SetPod \/ Ask \/ Complete \/ FailTask
  BY <1>4 DEF SetRunning, SetPod, Ask, Complete, FailTask, StatusUpdate, Goto,
              ReturnRequeue, Return, ClaimsMoved, PodRead
<1>5. CASE StartComment \/ GetCloneToken \/ SaveCost \/ AskComment \/ FinalComment
  BY <1>5 DEF StartComment, GetCloneToken, SaveCost, AskComment, FinalComment,
              Goto, ReturnRequeue, Return, ClaimsMoved, PodRead
<1>6. CASE ExecInPod
  BY <1>6 DEF ExecInPod, AfterExec, Goto, ClaimsMoved, PodRead
<1> QED
  BY <1>1, <1>2, <1>3, <1>4, <1>5, <1>6 DEF Call

LEMMA StepPod ==
    ASSUME FreshInv, [Next]_vars
    PROVE  PodMoved /\ ClaimsMoved /\ PodRead
<1>0. TypeOK
  BY DEF FreshInv, GoodInv, TypeInv
<1>1. ASSUME UNCHANGED <<workerVars, claims>> PROVE ClaimsMoved /\ PodRead
  BY <1>1 DEF workerVars, ClaimsMoved, PodRead
<1>2. ASSUME obj' = obj PROVE PodMoved
  BY <1>2 DEF PodMoved
<1>3. CASE Call
  BY <1>3, CallPod, CallClaims
<1>4. CASE Crash
  BY <1>2, <1>4 DEF Crash, Return, ClaimsMoved, PodRead
<1>5. ASSUME NEW t \in Tasks, Reconcile(t) PROVE PodMoved /\ ClaimsMoved /\ PodRead
  BY <1>2, <1>5 DEF Reconcile, FirstCall, storeVars, ClaimsMoved, PodRead
<1>6. CASE Tick \/ UNCHANGED vars \/ \E t \in Tasks : Deliver(t)
  BY <1>1, <1>2, <1>6 DEF Tick, vars, Deliver, workerVars
<1>7. ASSUME NEW t \in Tasks, DeleteTask(t) PROVE PodMoved /\ ClaimsMoved /\ PodRead
  <2> DEFINE new == [obj[t] EXCEPT !.phase = "Gone"]
  <2>0. obj[t] \in Object
    BY <1>0 DEF TypeOK
  <2>3. new \in Object
    BY <2>0, ObjectExcept DEF Phases
  <2>1. new \in Object /\ new.rv = obj[t].rv /\ new.phase = "Gone"
    BY <2>0, <2>3 DEF Object
  <2>2. Put(t, new) /\ UNCHANGED <<workerVars, claims>>
    BY <1>7 DEF DeleteTask
  <2> QED
    BY <1>1, <2>1, <2>2, PutPod
<1>8. ASSUME NEW d \in Tasks, Handle(d) PROVE PodMoved /\ ClaimsMoved /\ PodRead
  <2>1. UNCHANGED <<workerVars, claims>>
    BY <1>8 DEF Handle, HandleMention, HandleLabel, ResumeClarification, CreateTask
  <2>2. CASE HandleMention(d) \/ HandleLabel(d)
    BY <1>1, <1>2, <2>1, <2>2 DEF HandleMention, HandleLabel, storeVars
  <2>3. CASE ResumeClarification(d)
    <3>1. /\ htask[d] \in Tasks /\ hcopy[d] \in Object
          /\ Fresh(hcopy[d], obj[htask[d]]) /\ hcopy[d].phase = "Waiting"
      BY <1>0, <2>3 DEF ResumeClarification, TypeOK, FreshInv, HandlerFresh,
                        GoodInv, HandlerGood
    <3>2. obj' = obj \/ (CanWrite(htask[d], hcopy[d]) /\ Put(htask[d], Answered(d)))
      BY <2>3 DEF ResumeClarification, storeVars
    <3>3. ASSUME CanWrite(htask[d], hcopy[d]), Put(htask[d], Answered(d))
          PROVE  PodMoved
      <4>1. hcopy[d] = obj[htask[d]] /\ hcopy[d].rv = obj[htask[d]].rv
        BY <3>1, <3>3 DEF CanWrite, Fresh
      <4>2. /\ Answered(d) \in Object /\ Answered(d).rv = hcopy[d].rv
            /\ Answered(d).pod = hcopy[d].pod
        <5>1. WithAnswer(hcopy[d].clar, d) \in Seq(Tasks \cup {None})
          BY <3>1, WithAnswerType DEF Object
        <5>2. Answered(d) \in Object
          BY <3>1, <5>1, ObjectExcept DEF Answered, Phases
        <5> QED
          BY <3>1, <5>2 DEF Answered, Object
      <4> QED
        BY <3>1, <3>3, <4>1, <4>2, PutPod
    <3> QED
      BY <1>1, <1>2, <2>1, <3>2, <3>3
  <2>4. CASE CreateTask(d)
    <3> DEFINE new == [NoObject EXCEPT !.phase = "Pending"]
    <3>1. obj[d].phase = "Absent" /\ obj[d] = NoObject
      BY <2>4 DEF CreateTask, FreshInv, CreatedOnce
    <3>2. new \in Object /\ new.rv = obj[d].rv /\ new.phase = "Pending"
      BY <3>1, NoObjectType, ObjectExcept DEF NoObject, Phases
    <3>3. obj' = obj \/ Put(d, new)
      BY <2>4 DEF CreateTask, storeVars
    <3>4. ASSUME Put(d, new) PROVE PodMoved
      BY <3>2, <3>4, PutPod
    <3> QED
      BY <1>1, <1>2, <2>1, <3>3, <3>4
  <2> QED
    BY <1>8, <2>2, <2>3, <2>4 DEF Handle
<1> QED
  BY <1>3, <1>4, <1>5, <1>6, <1>7, <1>8 DEF Next

\* A task that is alone with its claim was so before.
LEMMA SoleBefore ==
    ASSUME FreshInv, [Next]_vars, NEW t \in Tasks, Sole(t)'
    PROVE  Sole(t)
<1>1. \A u \in Tasks : obj'[u].phase = "Absent" => obj[u].phase = "Absent"
  BY StepFresh DEF ObjMoved, Moved
<1> QED
  BY <1>1 DEF Sole

LEMMA StepHeld == HeldInv /\ [Next]_vars => HeldInv'
<1> SUFFICES ASSUME HeldInv, [Next]_vars PROVE HeldInv'
  OBVIOUS
<1>0. FreshInv /\ ThreadInv /\ ThreadInv'
  BY StepThreadInv DEF HeldInv, ThreadInv
<1>1. TypeOK /\ claims \in [Claims -> Sandboxes]
  BY <1>0 DEF FreshInv, GoodInv, TypeInv, TypeOK
<1>2. PodMoved /\ ClaimsMoved /\ PodRead
  BY <1>0, StepPod
<1>3. \A t \in Tasks : ClaimOf(t) \in Claims
  BY ClaimOfType
<1>4. wpc # "idle" => wtask \in Tasks /\ obj[wtask].phase # "Absent"
  BY <1>0, <1>1, Known DEF TypeOK
\* What a step does to the sandbox of a task that is active after it.
<1>5. ASSUME NEW t \in Tasks, Sole(t), claims[ClaimOf(t)].live,
             wpc = "release" => t # wtask
      PROVE  claims'[ClaimOf(t)] = claims[ClaimOf(t)]
  <2>1. CASE claims' = claims
    BY <2>1
  <2>2. CASE /\ wpc = "createClaim" /\ ~claims[ClaimOf(wtask)].live
             /\ claims' = [claims EXCEPT ![ClaimOf(wtask)] =
                              [gen |-> @.gen + 1, live |-> TRUE]]
    <3>1. ClaimOf(t) # ClaimOf(wtask)
      BY <1>5, <2>2
    <3> QED
      BY <1>1, <1>3, <2>2, <3>1
  <2>3. CASE /\ wpc = "release"
             /\ claims' = [claims EXCEPT ![ClaimOf(wtask)].live = FALSE]
    <3>1. ClaimOf(t) # ClaimOf(wtask)
      BY <1>4, <1>5, <2>3 DEF Sole
    <3> QED
      BY <1>1, <1>3, <2>3, <3>1
  <2> QED
    BY <1>2, <2>1, <2>2, <2>3 DEF ClaimsMoved
<1>6. ASSUME NEW t \in Tasks, Active(t)', Sole(t)'
      PROVE  Holds(t, obj[t].pod)'
  <2>1. Sole(t)
    BY <1>0, <1>6, SoleBefore
  <2>2. wpc = "release" => t # wtask
    <3> SUFFICES ASSUME wpc = "release", t = wtask PROVE FALSE
      OBVIOUS
    <3>1. obj[t].phase \in Ended
      BY <1>0 DEF ThreadInv, FinalInv
    <3>2. obj'[t].phase \in Ended
      BY <1>0, <3>1, StepGrown DEF Grown
    <3> QED
      BY <1>6, <3>2 DEF Active, Ended, Terminal
  <2>3. CASE obj[t].phase \in {"Running", "Waiting"} /\ obj'[t].pod = obj[t].pod
    <3>1. Holds(t, obj[t].pod)
      BY <2>1, <2>3 DEF HeldInv, Active
    <3>2. claims'[ClaimOf(t)] = claims[ClaimOf(t)]
      BY <1>5, <2>1, <2>2, <3>1 DEF Holds
    <3> QED
      BY <2>3, <3>1, <3>2 DEF Holds
  <2>4. CASE t = wtask /\ wpc = "setRunning" /\ obj'[t].pod = 0
    <3>1. claims[ClaimOf(t)].live
      BY <2>1, <2>4 DEF HeldInv
    <3>2. claims'[ClaimOf(t)] = claims[ClaimOf(t)]
      BY <1>5, <2>1, <2>2, <3>1
    <3> QED
      BY <2>4, <3>1, <3>2 DEF Holds
  <2>5. CASE /\ t = wtask /\ wpc = "setPod" /\ obj'[t].pod = wcopy.pod
             /\ obj[t].phase \in {"Running", "Waiting"}
    <3>1. /\ claims[ClaimOf(t)].live
          /\ wcopy.pod # 0 => claims[ClaimOf(t)].gen = wcopy.pod
      BY <2>1, <2>5 DEF HeldInv, Active, Holds
    <3>2. claims'[ClaimOf(t)] = claims[ClaimOf(t)]
      BY <1>5, <2>1, <2>2, <3>1
    <3> QED
      BY <2>5, <3>1, <3>2 DEF Holds
  <2> QED
    BY <1>2, <1>6, <2>3, <2>4, <2>5 DEF PodMoved, Active
<1>7. ASSUME wpc' = "setRunning", Sole(wtask)' PROVE claims'[ClaimOf(wtask')].live
  <2>1. /\ wtask' = wtask /\ wtask \in Tasks
        /\ wpc \in {"setRunning", "createClaim"}
    BY <1>2, <1>4, <1>7 DEF ClaimsMoved
  <2>2. CASE claims' = claims /\ wpc = "setRunning"
    <3>1. Sole(wtask)
      BY <1>0, <1>7, <2>1, SoleBefore DEF Sole
    <3> QED
      BY <2>1, <2>2, <3>1 DEF HeldInv
  <2>3. CASE claims' = IF claims[ClaimOf(wtask)].live THEN claims
                       ELSE [claims EXCEPT ![ClaimOf(wtask)] =
                                [gen |-> @.gen + 1, live |-> TRUE]]
    BY <1>1, <1>3, <2>1, <2>3
  <2> QED
    BY <1>2, <1>7, <2>1, <2>2, <2>3 DEF ClaimsMoved
<1>8. ASSUME wpc' = "setPod", Sole(wtask)', wcopy'.pod # 0
      PROVE  claims'[ClaimOf(wtask')].gen = wcopy'.pod
  <2>1. wtask' = wtask /\ claims' = claims
    BY <1>2, <1>8 DEF PodRead, ClaimsMoved
  <2>2. CASE wpc = "setPod" /\ wcopy' = wcopy
    <3>1. Sole(wtask)
      BY <1>0, <1>4, <1>8, <2>1, <2>2, SoleBefore DEF Sole
    <3> QED
      BY <1>8, <2>1, <2>2, <3>1 DEF HeldInv
  <2> QED
    BY <1>2, <1>8, <2>1, <2>2 DEF PodRead
<1> QED
  BY <1>0, <1>6, <1>7, <1>8 DEF HeldInv

\* The claim of a task that is alone with it lives, with the task's pod, from
\* the update that starts the task to the one that ends it.
THEOREM SandboxKept == Spec => []SandboxHeld
<1>1. Init => HeldInv
  <2> SUFFICES ASSUME Init PROVE HeldInv
    OBVIOUS
  <2>1. ThreadInv
    BY InitThread
  <2> QED
    BY <2>1 DEF Init, HeldInv, Active, NoObject
<1>2. HeldInv => SandboxHeld
  <2> SUFFICES ASSUME HeldInv, NEW t \in Tasks, Active(t), Sole(t)
               PROVE  /\ claims[obj[t].claim].live
                      /\ obj[t].pod # 0 => claims[obj[t].claim].gen = obj[t].pod
    BY DEF SandboxHeld, Sole
  <2>1. obj[t].claim = ClaimOf(t)
    BY DEF HeldInv, ThreadInv, FreshInv, GoodInv, StoreGood, Good, Active
  <2> QED
    BY <2>1 DEF HeldInv, Holds
<1>3. HeldInv /\ [Next]_vars => HeldInv'
  BY StepHeld
<1> QED
  BY <1>1, <1>2, <1>3, PTL DEF Spec

-----------------------------------------------------------------------------
(* The versions of a task on their way to the reconciler.                  *)

\* The version that is stored is cached, or on its way to the cache behind what
\* is cached.
SeenInv ==
    \A t \in Tasks : /\ obj[t] \in watch[t] \cup {cache[t]}
                     /\ \A v \in watch[t] : cache[t].rv <= v.rv

\* What a step does to the versions: nothing, or an update, or a delivery, or
\* the new list after a crash.
VersionsMoved ==
    \/ UNCHANGED <<obj, watch, cache>>
    \/ \E t \in Tasks : \E o :
          /\ obj' = [obj EXCEPT ![t] = o]
          /\ watch' = [watch EXCEPT ![t] = @ \cup ({o} \ {obj[t]})]
          /\ cache' = cache
    \/ \E t \in Tasks : Deliver(t)
    \/ Crash

LEMMA PutVersions ==
    ASSUME NEW t \in Tasks, NEW new, Put(t, new), UNCHANGED cache
    PROVE  VersionsMoved
BY DEF Put, VersionsMoved

LEMMA StatusUpdateVersions ==
    ASSUME wtask \in Tasks, NEW new, NEW call, StatusUpdate(new, call), UNCHANGED cache
    PROVE  VersionsMoved
<1>1. UNCHANGED storeVars \/ Put(wtask, new)
  BY DEF StatusUpdate
<1>2. CASE UNCHANGED storeVars
  BY <1>2 DEF storeVars, VersionsMoved
<1> QED
  BY <1>1, <1>2, PutVersions

LEMMA StepVersions ==
    ASSUME TypeOK, [Next]_vars
    PROVE  VersionsMoved
<1>1. ASSUME UNCHANGED <<storeVars, cache>> PROVE VersionsMoved
  BY <1>1 DEF storeVars, VersionsMoved
<1>2. CASE Call
  <2>0. wtask \in Tasks /\ UNCHANGED cache
    BY <1>2 DEF TypeOK, Call, CreateClaim, SetRunning, StartComment,
         WaitForReady, SetPod, GetCloneToken, ExecInPod, SaveCost, Ask,
         AskComment, Complete, FailTask, FinalComment, DeleteClaim
  <2>1. CASE SetRunning \/ SetPod \/ Complete \/ FailTask
    <3>1. \E new, call : StatusUpdate(new, call)
      BY <2>1 DEF SetRunning, SetPod, Complete, FailTask
    <3> QED
      BY <2>0, <3>1, StatusUpdateVersions
  <2>2. CASE Ask
    <3>1. UNCHANGED storeVars \/ \E new, call : StatusUpdate(new, call)
      BY <2>2 DEF Ask
    <3> QED
      BY <1>1, <2>0, <3>1, StatusUpdateVersions
  <2>3. CASE SaveCost
    <3>1. UNCHANGED storeVars \/ Put(wtask, wcopy)
      BY <2>3 DEF SaveCost
    <3> QED
      BY <1>1, <2>0, <3>1, PutVersions
  <2>4. CASE \/ CreateClaim \/ StartComment \/ WaitForReady \/ GetCloneToken
             \/ ExecInPod \/ AskComment \/ FinalComment \/ DeleteClaim
    BY <1>1, <2>4 DEF CreateClaim, StartComment, WaitForReady, GetCloneToken,
                      ExecInPod, AskComment, FinalComment, DeleteClaim
  <2> QED
    BY <1>2, <2>1, <2>2, <2>3, <2>4 DEF Call
<1>3. ASSUME NEW d \in Tasks, Handle(d) PROVE VersionsMoved
  <2>1. UNCHANGED cache
    BY <1>3 DEF Handle, HandleMention, HandleLabel, ResumeClarification, CreateTask
  <2>2. CASE HandleMention(d) \/ HandleLabel(d)
    BY <1>1, <2>1, <2>2 DEF HandleMention, HandleLabel
  <2>3. CASE ResumeClarification(d)
    <3>1. htask[d] \in Tasks
      BY <2>3 DEF ResumeClarification, TypeOK
    <3>2. UNCHANGED storeVars \/ Put(htask[d], Answered(d))
      BY <2>3 DEF ResumeClarification
    <3> QED
      BY <1>1, <2>1, <3>1, <3>2, PutVersions
  <2>4. CASE CreateTask(d)
    <3>1. UNCHANGED storeVars \/ Put(d, [NoObject EXCEPT !.phase = "Pending"])
      BY <2>4 DEF CreateTask
    <3> QED
      BY <1>1, <2>1, <3>1, PutVersions
  <2> QED
    BY <1>3, <2>2, <2>3, <2>4 DEF Handle
<1>4. ASSUME NEW t \in Tasks, DeleteTask(t) PROVE VersionsMoved
  <2>1. Put(t, [obj[t] EXCEPT !.phase = "Gone"]) /\ UNCHANGED cache
    BY <1>4 DEF DeleteTask
  <2> QED
    BY <2>1, PutVersions
<1>5. CASE UNCHANGED vars \/ Tick \/ \E t \in Tasks : Reconcile(t)
  BY <1>5 DEF vars, Tick, Reconcile, storeVars, VersionsMoved
<1>6. CASE Crash \/ \E t \in Tasks : Deliver(t)
  BY <1>6 DEF VersionsMoved
<1> QED
  BY <1>2, <1>3, <1>4, <1>5, <1>6 DEF Next

\* The versions of one task in a step.
VersionsOf(t) ==
    \/ obj'[t] = obj[t] /\ watch'[t] = watch[t] /\ cache'[t] = cache[t]
    \/ /\ obj'[t] # obj[t] /\ obj[t].rv < obj'[t].rv
       /\ watch'[t] = watch[t] \cup {obj'[t]} /\ cache'[t] = cache[t]
    \/ /\ obj'[t] = obj[t] /\ t \in queue'
       /\ cache'[t] \in watch[t] /\ watch'[t] = watch[t] \ {cache'[t]}
       /\ \A v \in watch[t] : cache'[t].rv <= v.rv
    \/ /\ Crash
       /\ obj'[t] = obj[t] /\ cache'[t] = obj[t] /\ watch'[t] = {}

LEMMA StepVersionsOf ==
    ASSUME FreshInv, SeenInv, [Next]_vars, NEW t \in Tasks
    PROVE  VersionsOf(t)
<1>0. TypeOK /\ TypeOK' /\ StoreFresh'
  BY StepFresh DEF FreshInv, GoodInv, TypeInv
<1>1. CASE UNCHANGED <<obj, watch, cache>>
  BY <1>1 DEF VersionsOf
<1>2. ASSUME NEW u \in Tasks, NEW o,
             obj' = [obj EXCEPT ![u] = o],
             watch' = [watch EXCEPT ![u] = @ \cup ({o} \ {obj[u]})],
             cache' = cache
      PROVE  VersionsOf(t)
  <2>1. CASE t # u \/ o = obj[u]
    <3>1. obj'[t] = obj[t]
      BY <1>0, <1>2, <2>1 DEF TypeOK
    <3>2. watch'[t] = watch[t]
      BY <1>0, <1>2, <2>1 DEF TypeOK
    <3> QED
      BY <1>2, <3>1, <3>2 DEF VersionsOf
  <2>2. CASE t = u /\ o # obj[u]
    <3>1. obj'[t] = o /\ watch'[t] = watch[t] \cup {o} /\ cache'[t] = cache[t]
      BY <1>0, <1>2, <2>2 DEF TypeOK
    <3>2. obj[t] \in watch'[t] \cup {cache'[t]}
      BY <3>1 DEF SeenInv
    <3>3. Fresh(obj[t], obj'[t])
      BY <1>0, <3>2 DEF StoreFresh
    <3>4. obj[t].rv \in Nat /\ obj'[t].rv \in Nat
      BY <1>0 DEF TypeOK, Object
    <3>5. obj[t].rv < obj'[t].rv
      BY <2>2, <3>1, <3>3, <3>4 DEF Fresh
    <3> QED
      BY <2>2, <3>1, <3>5 DEF VersionsOf
  <2> QED
    BY <2>1, <2>2
<1>3. ASSUME NEW u \in Tasks, Deliver(u) PROVE VersionsOf(t)
  <2>1. obj' = obj
    BY <1>3 DEF Deliver
  <2>2. CASE t # u
    <3>1. watch'[t] = watch[t] /\ cache'[t] = cache[t]
      BY <1>0, <1>3, <2>2 DEF Deliver, TypeOK
    <3> QED
      BY <2>1, <3>1 DEF VersionsOf
  <2>3. CASE t = u
    BY <1>0, <1>3, <2>1, <2>3 DEF Deliver, TypeOK, VersionsOf
  <2> QED
    BY <2>2, <2>3
<1>4. CASE Crash
  BY <1>4 DEF Crash, VersionsOf
<1> QED
  BY <1>0, <1>1, <1>2, <1>3, <1>4, StepVersions DEF VersionsMoved

LEMMA StepSeen ==
    ASSUME FreshInv, SeenInv, [Next]_vars
    PROVE  SeenInv'
<1> SUFFICES ASSUME NEW t \in Tasks
             PROVE  /\ obj'[t] \in watch'[t] \cup {cache'[t]}
                    /\ \A v \in watch'[t] : cache'[t].rv <= v.rv
  BY DEF SeenInv
<1>1. /\ obj[t] \in watch[t] \cup {cache[t]}
      /\ \A v \in watch[t] : cache[t].rv <= v.rv
  BY DEF SeenInv
<1>2. /\ cache[t].rv \in Nat /\ obj[t].rv \in Nat /\ obj'[t].rv \in Nat
      /\ \A v \in watch[t] : v.rv \in Nat /\ Fresh(v, obj[t])
      /\ cache[t].rv <= obj[t].rv
  <2>1. TypeOK /\ TypeOK' /\ StoreFresh
    BY StepFresh DEF FreshInv, GoodInv, TypeInv
  <2>2. cache[t] \in Object /\ obj[t] \in Object /\ obj'[t] \in Object
        /\ watch[t] \in SUBSET Object
    BY <2>1 DEF TypeOK
  <2> QED
    BY <2>1, <2>2 DEF Object, StoreFresh, Fresh
<1>3. CASE obj'[t] = obj[t] /\ watch'[t] = watch[t] /\ cache'[t] = cache[t]
  BY <1>1, <1>3
<1>4. CASE /\ obj[t].rv < obj'[t].rv
           /\ watch'[t] = watch[t] \cup {obj'[t]} /\ cache'[t] = cache[t]
  BY <1>1, <1>2, <1>4
<1>5. CASE /\ obj'[t] = obj[t]
           /\ cache'[t] \in watch[t] /\ watch'[t] = watch[t] \ {cache'[t]}
           /\ \A v \in watch[t] : cache'[t].rv <= v.rv
  <2>1. CASE obj[t] \in watch[t]
    BY <1>5, <2>1
  \* A version as new as the one stored is the one stored.
  <2>2. CASE obj[t] = cache[t]
    <3>1. cache'[t].rv <= obj[t].rv /\ obj[t].rv <= cache'[t].rv
      BY <1>1, <1>2, <1>5, <2>2 DEF Fresh
    <3>2. cache'[t] = obj[t]
      BY <1>2, <1>5, <3>1 DEF Fresh
    <3> QED
      BY <1>5, <3>2
  <2> QED
    BY <1>1, <1>5, <2>1, <2>2
<1>6. CASE obj'[t] = obj[t] /\ cache'[t] = obj[t] /\ watch'[t] = {}
  BY <1>6
<1> QED
  BY <1>3, <1>4, <1>5, <1>6, StepVersionsOf DEF VersionsOf

-----------------------------------------------------------------------------
(* A reply reaches the question it answers.                                *)

\* The question that the version o ends with is closed in the object cur.
Closed(o, cur) ==
    \/ cur.phase \in Ended
    \/ Len(o.clar) \in DOMAIN cur.clar /\ cur.clar[Len(o.clar)] # None

\* A waiting version is overtaken only by what closes its question.
Overtaken(o, cur) == o.phase = "Waiting" /\ o.rv < cur.rv => Closed(o, cur)

LateInv ==
    /\ FreshInv /\ SeenInv
    /\ \A t \in Tasks : \A o \in watch[t] \cup {cache[t]} : Overtaken(o, obj[t])
    /\ \A d \in Tasks : hpc[d] = "resume" => Overtaken(hcopy[d], obj[htask[d]])

\* A question that is closed stays closed.
LEMMA StepClosed ==
    ASSUME FreshInv, [Next]_vars, NEW t \in Tasks, NEW o, Closed(o, obj[t])
    PROVE  Closed(o, obj'[t])
<1>1. CASE obj[t].phase \in Ended
  BY <1>1, StepGrown DEF Grown, Closed
<1>2. CASE Len(o.clar) \in DOMAIN obj[t].clar /\ obj[t].clar[Len(o.clar)] # None
  BY <1>2, StepAnswers DEF Closed
<1> QED
  BY <1>1, <1>2 DEF Closed

\* What moves a waiting task closes the question it waits for.
LEMMA MovedCloses ==
    ASSUME TypeOK, NEW t \in Tasks, obj[t].phase = "Waiting",
           QuestionsOK(obj[t]), Moved(obj[t], obj'[t])
    PROVE  Closed(obj[t], obj'[t])
<1> DEFINE s == obj[t].clar
<1>0. s \in Seq(Tasks \cup {None}) /\ Len(s) \in Nat /\ Len(s) > 0
  BY LenProperties DEF TypeOK, Object, QuestionsOK
<1>1. CASE obj'[t].phase \in Ended
  BY <1>1 DEF Closed
<1>2. ASSUME NEW d \in Tasks, obj'[t].clar = WithAnswer(s, d)
      PROVE  Closed(obj[t], obj'[t])
  <2>1. /\ obj'[t].clar \in Seq(Tasks \cup {None})
        /\ Len(obj'[t].clar) = Len(s)
        /\ \A j \in 1 .. Len(s) : obj'[t].clar[j] = IF j = Len(s) THEN d ELSE s[j]
    BY <1>0, <1>2, WithAnswerType
  <2>2. Len(s) \in 1 .. Len(s)
    BY <1>0
  <2>3. Len(s) \in DOMAIN obj'[t].clar
    BY <2>1, <2>2, LenProperties
  <2>4. obj'[t].clar[Len(s)] = d
    BY <2>1, <2>2
  <2> QED
    BY <2>3, <2>4, NoneAssumption DEF Closed
<1> QED
  BY <1>1, <1>2 DEF Moved, Ended, Terminal

\* A version that is not newer than what is stored is overtaken rightly.
LEMMA StepOvertaken ==
    ASSUME FreshInv, [Next]_vars, NEW t \in Tasks, NEW o \in Object,
           Fresh(o, obj[t]), Overtaken(o, obj[t])
    PROVE  Overtaken(o, obj'[t])
<1> SUFFICES ASSUME o.phase = "Waiting", o.rv < obj'[t].rv
             PROVE  Closed(o, obj'[t])
  BY DEF Overtaken
<1>0. TypeOK /\ o.rv \in Nat /\ obj[t].rv \in Nat /\ QuestionsOK(obj[t])
  BY DEF FreshInv, GoodInv, StoreGood, Good, TypeInv, TypeOK, Object
<1>1. CASE o.rv < obj[t].rv
  BY <1>1, StepClosed DEF Overtaken
<1>2. CASE o.rv = obj[t].rv
  <2>1. o = obj[t]
    BY <1>2 DEF Fresh
  <2>2. obj'[t] # obj[t]
    BY <1>0, <2>1
  <2>3. Moved(obj[t], obj'[t])
    BY <2>2, StepFresh DEF ObjMoved
  <2> QED
    BY <1>0, <2>1, <2>3, MovedCloses
<1> QED
  BY <1>0, <1>1, <1>2 DEF Fresh

\* A handler that is to record an answer keeps its copy, or takes it from the
\* cache while nothing is stored.
LEMMA HandlerCopy ==
    ASSUME TypeOK, [Next]_vars, NEW d \in Tasks, hpc'[d] = "resume"
    PROVE  \/ /\ hpc[d] = "resume"
              /\ hcopy'[d] = hcopy[d] /\ htask'[d] = htask[d]
           \/ \E t \in Tasks : /\ htask'[d] = t /\ hcopy'[d] = cache[t]
                               /\ obj' = obj
<1>1. ASSUME NEW e \in Tasks, Handle(e)
      PROVE  \/ /\ hpc[d] = "resume"
                /\ hcopy'[d] = hcopy[d] /\ htask'[d] = htask[d]
             \/ \E t \in Tasks : /\ htask'[d] = t /\ hcopy'[d] = cache[t]
                                 /\ obj' = obj
  BY <1>1 DEF Handle, HandleMention, HandleLabel, ResumeClarification,
              CreateTask, TypeOK, storeVars
<1>2. CASE UNCHANGED handlerVars
  BY <1>2 DEF handlerVars
<1>3. Call => UNCHANGED handlerVars
  BY DEF Call, CreateClaim, SetRunning, StartComment, WaitForReady, SetPod,
         GetCloneToken, ExecInPod, SaveCost, Ask, AskComment, Complete,
         FailTask, FinalComment, DeleteClaim
<1>4. CASE UNCHANGED vars \/ Tick
           \/ \E t \in Tasks : Deliver(t) \/ DeleteTask(t) \/ Reconcile(t)
  BY <1>2, <1>4 DEF vars, Tick, Deliver, DeleteTask, Reconcile
<1>5. ~Crash
  BY DEF Crash, TypeOK
<1> QED
  BY <1>1, <1>2, <1>3, <1>4, <1>5 DEF Next

LEMMA StepLate == LateInv /\ [Next]_vars => LateInv'
<1> SUFFICES ASSUME LateInv, [Next]_vars PROVE LateInv'
  OBVIOUS
<1>0. /\ FreshInv /\ SeenInv /\ FreshInv' /\ SeenInv' /\ TypeOK /\ TypeOK'
      /\ StoreFresh
  BY StepFresh, StepSeen DEF LateInv, FreshInv, GoodInv, TypeInv
<1>1. ASSUME NEW t \in Tasks, NEW o \in watch[t] \cup {cache[t]}
      PROVE  Overtaken(o, obj'[t])
  <2>1. o \in Object /\ Fresh(o, obj[t])
    BY <1>0 DEF StoreFresh, TypeOK
  <2> QED
    BY <1>0, <2>1, StepOvertaken DEF LateInv
<1>2. ASSUME NEW t \in Tasks, NEW o \in watch'[t] \cup {cache'[t]}
      PROVE  Overtaken(o, obj'[t])
  <2>1. CASE o = obj'[t]
    <3>1. obj'[t].rv \in Nat
      BY <1>0 DEF TypeOK, Object
    <3> QED
      BY <2>1, <3>1 DEF Overtaken
  <2>2. o \in watch[t] \cup {cache[t], obj'[t]}
    BY <1>0, <1>2, StepVersionsOf DEF VersionsOf
  <2> QED
    BY <1>1, <2>1, <2>2
<1>3. ASSUME NEW d \in Tasks, hpc'[d] = "resume"
      PROVE  Overtaken(hcopy'[d], obj'[htask'[d]])
  <2>1. CASE /\ hpc[d] = "resume"
             /\ hcopy'[d] = hcopy[d] /\ htask'[d] = htask[d]
    <3>1. /\ hcopy[d] \in Object /\ htask[d] \in Tasks
          /\ Fresh(hcopy[d], obj[htask[d]]) /\ Overtaken(hcopy[d], obj[htask[d]])
      BY <1>0, <2>1 DEF TypeOK, FreshInv, HandlerFresh, LateInv
    <3> QED
      BY <1>0, <2>1, <3>1, StepOvertaken
  <2>2. ASSUME NEW t \in Tasks, htask'[d] = t, hcopy'[d] = cache[t], obj' = obj
        PROVE  Overtaken(hcopy'[d], obj'[htask'[d]])
    BY <1>1, <2>2
  <2> QED
    BY <1>0, <1>3, <2>1, <2>2, HandlerCopy
<1> QED
  BY <1>0, <1>2, <1>3 DEF LateInv

\* How a handler comes to give up looking for a question, or its update, while
\* no call fails.
LEMMA HandlerGivesUp ==
    ASSUME TypeOK, [Next]_vars, NEW d \in Tasks, Event[d].kind # "issues",
           hpc'[d] = "create", UNCHANGED budget
    PROVE  /\ hpc[d] = "new" => \A t \in Tasks : ~Matches(d, t, cache[t])
           /\ hpc[d] = "resume" => ~CanWrite(htask[d], hcopy[d])
<1>0. budget.fault \in Nat /\ ~Fault /\ ~Crash
  BY BoundsAssumption DEF TypeOK, Budgets, Fault, Crash
<1>1. ASSUME NEW e \in Tasks, Handle(e)
      PROVE  /\ hpc[d] = "new" => \A t \in Tasks : ~Matches(d, t, cache[t])
             /\ hpc[d] = "resume" => ~CanWrite(htask[d], hcopy[d])
  BY <1>0, <1>1 DEF Handle, HandleMention, HandleLabel, ResumeClarification,
                    CreateTask, TypeOK
<1>2. CASE UNCHANGED handlerVars
  BY <1>2 DEF handlerVars
<1>3. Call => UNCHANGED handlerVars
  BY DEF Call, CreateClaim, SetRunning, StartComment, WaitForReady, SetPod,
         GetCloneToken, ExecInPod, SaveCost, Ask, AskComment, Complete,
         FailTask, FinalComment, DeleteClaim
<1>4. CASE UNCHANGED vars \/ Tick
           \/ \E t \in Tasks : Deliver(t) \/ DeleteTask(t) \/ Reconcile(t)
  BY <1>2, <1>4 DEF vars, Tick, Deliver, DeleteTask, Reconcile
<1> QED
  BY <1>0, <1>1, <1>2, <1>3, <1>4 DEF Next

\* A reply passes an open question by only when a call fails or the version
\* with the question has yet to reach the cache; a refused update means that
\* the question is closed.
THEOREM RepliesReachQuestions == Spec => ReplyReachesQuestion
<1>1. Init => LateInv
  <2> SUFFICES ASSUME Init PROVE LateInv
    OBVIOUS
  <2>1. SeenInv
    BY DEF Init, SeenInv
  <2>2. \A t \in Tasks : \A o \in watch[t] \cup {cache[t]} : Overtaken(o, obj[t])
    BY DEF Init, Overtaken, NoObject
  <2>3. \A d \in Tasks : hpc[d] # "resume"
    BY DEF Init
  <2> QED
    BY <2>1, <2>2, <2>3, InitFresh DEF LateInv
<1>2. LateInv /\ [Next]_vars =>
        [\A d \in Tasks :
            Event[d].kind # "issues" /\ hpc'[d] = "create" /\ UNCHANGED budget =>
              /\ hpc[d] = "new" =>
                   \A t \in Tasks : Matches(d, t, obj[t]) => watch[t] # {}
              /\ hpc[d] = "resume" =>
                   \/ obj[htask[d]].phase \in Terminal \cup {"Gone"}
                   \/ obj[htask[d]].clar[Len(hcopy[d].clar)] # None]_vars
  <2> SUFFICES ASSUME LateInv, [Next]_vars, NEW d \in Tasks,
                      Event[d].kind # "issues", hpc'[d] = "create",
                      UNCHANGED budget
               PROVE  /\ hpc[d] = "new" =>
                           \A t \in Tasks : Matches(d, t, obj[t]) => watch[t] # {}
                      /\ hpc[d] = "resume" =>
                           \/ obj[htask[d]].phase \in Terminal \cup {"Gone"}
                           \/ obj[htask[d]].clar[Len(hcopy[d].clar)] # None
    OBVIOUS
  <2>0. FreshInv /\ SeenInv /\ TypeOK
    BY DEF LateInv, FreshInv, GoodInv, TypeInv
  <2>1. /\ hpc[d] = "new" => \A t \in Tasks : ~Matches(d, t, cache[t])
        /\ hpc[d] = "resume" => ~CanWrite(htask[d], hcopy[d])
    BY <2>0, HandlerGivesUp
  <2>2. ASSUME hpc[d] = "new", NEW t \in Tasks, Matches(d, t, obj[t])
        PROVE  watch[t] # {}
    <3>1. cache[t] # obj[t]
      BY <2>1, <2>2
    <3> QED
      BY <2>0, <3>1 DEF SeenInv
  <2>3. ASSUME hpc[d] = "resume"
        PROVE  Closed(hcopy[d], obj[htask[d]])
    <3>1. /\ hcopy[d].rv \in Nat /\ obj[htask[d]].rv \in Nat
          /\ Fresh(hcopy[d], obj[htask[d]]) /\ hcopy[d].phase = "Waiting"
          /\ Overtaken(hcopy[d], obj[htask[d]])
      BY <2>0, <2>3 DEF FreshInv, HandlerFresh, GoodInv, HandlerGood, LateInv,
                        TypeOK, Object
    <3>2. hcopy[d].rv # obj[htask[d]].rv
      BY <2>1, <2>3 DEF CanWrite
    <3> QED
      BY <3>1, <3>2 DEF Fresh, Overtaken
  <2> QED
    BY <2>2, <2>3 DEF Closed, Ended
<1>3. LateInv /\ [Next]_vars => LateInv'
  BY StepLate
<1> QED
  BY <1>1, <1>2, <1>3, PTL DEF Spec, ReplyReachesQuestion

-----------------------------------------------------------------------------
(* The keys.                                                               *)

InHand(t) == wpc # "idle" /\ wtask = t

\* When the worker is done with a question, the version that has it, or the key,
\* is still on its way.
KeyInv ==
    /\ ThreadInv /\ SeenInv
    /\ KeyNotLost
    /\ wpc = "askComment" => watch[wtask] # {} \/ wtask \in queue

\* Where the key of a task goes.
KeyMoved(t) ==
    \/ t \in queue'
    \/ InHand(t)'
    \/ Crash
    \/ /\ wpc = "idle" /\ cache[t].phase \in Ended \cup {"Absent"}
       /\ UNCHANGED <<obj, watch, cache>>
    \/ wpc \in {"askComment", "release"} /\ wtask = t /\ queue' = queue

\* The worker's next call keeps the task or gives the key back, but for the two
\* calls that end a reconcile without an error.
LEMMA CallKey ==
    ASSUME Call, wtask \in Tasks
    PROVE  /\ \/ wpc' # "idle" /\ wtask' = wtask
              \/ queue' = queue \cup {wtask}
              \/ wpc \in {"askComment", "release"}
           /\ queue' = queue \/ queue' = queue \cup {wtask}
<1>1. CASE CreateClaim \/ StartComment \/ WaitForReady \/ GetCloneToken
  BY <1>1 DEF CreateClaim, StartComment, WaitForReady, GetCloneToken, Goto,
              ReturnRequeue, Return
<1>2. CASE ExecInPod
  BY <1>2 DEF ExecInPod, AfterExec, Goto
<1>3. CASE SetRunning \/ SetPod \/ Ask \/ Complete \/ FailTask
  BY <1>3 DEF SetRunning, SetPod, Ask, Complete, FailTask, StatusUpdate, Goto,
              ReturnRequeue, Return
<1>4. CASE SaveCost \/ FinalComment
  BY <1>4 DEF SaveCost, FinalComment, Goto
<1>5. CASE AskComment \/ DeleteClaim
  BY <1>5 DEF AskComment, DeleteClaim
<1> QED
  BY <1>1, <1>2, <1>3, <1>4, <1>5 DEF Call

\* Only an idle worker takes a key from the queue.
LEMMA StepQueue ==
    ASSUME TypeOK, [Next]_vars, wpc # "idle", ~Crash
    PROVE  queue \subseteq queue'
<1>1. CASE Call
  BY <1>1, CallKey DEF TypeOK
<1>2. CASE \E t \in Tasks : Deliver(t) \/ DeleteTask(t) \/ Reconcile(t)
  BY <1>2 DEF Deliver, DeleteTask, Reconcile
<1>3. CASE \E d \in Tasks : Handle(d)
  BY <1>3 DEF Handle, HandleMention, HandleLabel, ResumeClarification, CreateTask
<1>4. CASE Tick \/ UNCHANGED vars
  BY <1>4 DEF Tick, vars
<1> QED
  BY <1>1, <1>2, <1>3, <1>4 DEF Next

LEMMA StepKey ==
    ASSUME TypeOK, [Next]_vars, NEW t \in Tasks, t \in queue \/ InHand(t)
    PROVE  KeyMoved(t)
<1>1. ASSUME UNCHANGED workerVars, queue \subseteq queue' PROVE KeyMoved(t)
  BY <1>1 DEF workerVars, KeyMoved, InHand
<1>2. CASE Call
  <2>0. wtask \in Tasks
    BY <1>2 DEF TypeOK, Call, CreateClaim, SetRunning, StartComment,
         WaitForReady, SetPod, GetCloneToken, ExecInPod, SaveCost, Ask,
         AskComment, Complete, FailTask, FinalComment, DeleteClaim
  <2>1. CASE t \in queue
    BY <1>2, <2>0, <2>1, CallKey DEF KeyMoved
  <2>2. CASE wtask = t
    <3>1. wpc \in {"askComment", "release"} => queue' = queue
      BY <1>2, CallKey, <2>0
      DEF Call, CreateClaim, SetRunning, StartComment,
         WaitForReady, SetPod, GetCloneToken, ExecInPod, SaveCost, Ask,
         AskComment, Complete, FailTask, FinalComment, DeleteClaim, Goto
    <3> QED
      BY <1>2, <2>0, <2>2, <3>1, CallKey DEF KeyMoved, InHand
  <2> QED
    BY <2>1, <2>2 DEF InHand
<1>3. CASE Crash
  BY <1>3 DEF KeyMoved
<1>4. ASSUME NEW u \in Tasks, Reconcile(u) PROVE KeyMoved(t)
  <2>0. /\ wpc = "idle" /\ t \in queue
        /\ UNCHANGED <<obj, watch, cache>>
        /\ wpc' = FirstCall(u, cache[u])
    BY <1>4 DEF Reconcile, storeVars, InHand
  <2>1. CASE t # u
    BY <1>4, <2>0, <2>1 DEF Reconcile, KeyMoved
  <2>2. CASE t = u /\ FirstCall(t, cache[t]) # "idle"
    BY <1>4, <2>0, <2>2 DEF Reconcile, KeyMoved, InHand
  <2>3. CASE t = u /\ FirstCall(t, cache[t]) = "idle" /\ cache[t].phase = "Waiting"
    BY <1>4, <2>0, <2>3 DEF Reconcile, KeyMoved
  <2>4. CASE t = u /\ FirstCall(t, cache[t]) = "idle" /\ cache[t].phase # "Waiting"
    <3>1. cache[t].phase \in Phases
      BY DEF TypeOK, Object
    <3>2. cache[t].phase \notin {"Pending", "Running"}
      BY <2>4 DEF FirstCall
    <3> QED
      BY <2>0, <2>4, <3>1, <3>2 DEF KeyMoved, Ended, Terminal, Phases
  <2> QED
    BY <2>1, <2>2, <2>3, <2>4
<1>5. ASSUME NEW u \in Tasks, Deliver(u) \/ DeleteTask(u) PROVE KeyMoved(t)
  BY <1>1, <1>5 DEF Deliver, DeleteTask
<1>6. ASSUME NEW d \in Tasks, Handle(d) PROVE KeyMoved(t)
  BY <1>1, <1>6 DEF Handle, HandleMention, HandleLabel, ResumeClarification, CreateTask
<1>7. CASE Tick \/ UNCHANGED vars
  BY <1>1, <1>7 DEF Tick, vars, workerVars
<1> QED
  BY <1>2, <1>3, <1>4, <1>5, <1>6, <1>7 DEF Next

\* A question is a new version.
LEMMA StepAsked ==
    ASSUME KeyInv, [Next]_vars, wpc' = "askComment"
    PROVE  watch'[wtask'] # {} \/ wtask' \in queue'
<1>0. /\ TypeOK /\ Arrives /\ FreshInv /\ SeenInv
      /\ wtask' = wtask /\ wtask \in Tasks
  BY StepThread DEF KeyInv, ThreadInv, FreshInv, GoodInv, TypeInv, Arrives
<1>1. VersionsOf(wtask)
  BY <1>0, StepVersionsOf
<1>2. ~Crash
  BY DEF Crash, Return
<1>3. CASE wpc # "askComment"
  <2>1. Len(obj'[wtask].clar) = Len(obj[wtask].clar) + 1
    BY <1>0, <1>3 DEF Arrives
  <2>2. Len(obj[wtask].clar) \in Nat
    BY <1>0, LenProperties DEF TypeOK, Object
  <2>3. obj'[wtask] # obj[wtask]
    BY <2>1, <2>2
  <2> QED
    BY <1>0, <1>1, <1>2, <2>3 DEF VersionsOf
<1>4. CASE wpc = "askComment"
  <2>1. CASE wtask \in queue
    <3>1. wtask \in queue'
      BY <1>0, <1>2, <1>4, <2>1, StepQueue
    <3> QED
      BY <1>0, <3>1
  <2>2. CASE watch[wtask] # {}
    BY <1>0, <1>1, <1>2, <2>2 DEF VersionsOf
  <2> QED
    BY <1>4, <2>1, <2>2 DEF KeyInv
<1> QED
  BY <1>3, <1>4

LEMMA StepKeyInv == KeyInv /\ [Next]_vars => KeyInv'
<1> SUFFICES ASSUME KeyInv, [Next]_vars PROVE KeyInv'
  OBVIOUS
<1>0. /\ ThreadInv /\ ThreadInv' /\ FreshInv /\ SeenInv /\ SeenInv' /\ TypeOK
  BY StepThreadInv, StepSeen DEF KeyInv, ThreadInv, FreshInv, GoodInv, TypeInv
<1>1. ASSUME NEW t \in Tasks, obj'[t].phase \in {"Pending", "Running", "Waiting"}
      PROVE  watch'[t] # {} \/ t \in queue' \/ InHand(t)'
  <2>1. VersionsOf(t)
    BY <1>0, StepVersionsOf
  <2>2. CASE Crash
    BY <1>1, <2>2 DEF Crash
  <2>3. CASE obj'[t] # obj[t]
    BY <2>1, <2>3 DEF VersionsOf, Crash
  <2>4. CASE watch[t] # {} /\ ~Crash
    BY <2>1, <2>4 DEF VersionsOf
  <2>5. CASE obj'[t] = obj[t] /\ watch[t] = {} /\ ~Crash
    <3>1. t \in queue \/ InHand(t)
      BY <1>1, <2>5 DEF KeyInv, KeyNotLost, InHand
    <3>2. KeyMoved(t)
      BY <1>0, <3>1, StepKey
    \* What is dropped has ended: the cache is up to date.
    <3>3. cache[t].phase \notin Ended \cup {"Absent"}
      BY <1>1, <2>5 DEF KeyInv, SeenInv, Ended, Terminal
    <3>4. CASE wpc \in {"askComment", "release"} /\ wtask = t /\ queue' = queue
      <4>1. wpc = "askComment"
        BY <1>0, <1>1, <2>5, <3>4 DEF ThreadInv, FinalInv, Ended, Terminal
      <4>2. t \in queue
        BY <2>5, <3>4, <4>1 DEF KeyInv
      <4> QED
        BY <3>4, <4>2
    <3> QED
      BY <2>5, <3>2, <3>3, <3>4 DEF KeyMoved
  <2> QED
    BY <2>2, <2>3, <2>4, <2>5
<1>2. KeyNotLost'
  BY <1>1 DEF KeyNotLost, InHand
<1> QED
  BY <1>0, <1>2, StepAsked DEF KeyInv

\* No task that has not ended is forgotten by the work queue, whatever fails and
\* however often the operator restarts.
THEOREM KeysKept == Spec => []KeyNotLost
<1>1. Init => KeyInv
  <2> SUFFICES ASSUME Init PROVE KeyInv
    OBVIOUS
  <2>1. SeenInv
    BY DEF Init, SeenInv
  <2>2. KeyNotLost
    BY DEF Init, KeyNotLost, NoObject
  <2> QED
    BY <2>1, <2>2, InitThread DEF Init, KeyInv
<1>2. KeyInv => KeyNotLost
  BY DEF KeyInv
<1> QED
  BY <1>1, <1>2, StepKeyInv, PTL DEF Spec

-----------------------------------------------------------------------------
(* The claims of ended tasks.                                              *)

Begun(o) == o.phase \notin {"Absent", "Pending"}

Versions(t) == watch[t] \cup {cache[t], obj[t]}

\* The calls for a task that was pending when the worker read it.
EarlyPCs == {"idle", "createClaim", "setRunning", "startComment"}

\* A task that has begun is seen as such ever after: no version that is newer
\* has it pending.  Hence an ended task is not pending in the cache either, and
\* the worker creates no claim for it.
PastInv ==
    /\ ThreadInv /\ SeenInv
    /\ \A t \in Tasks : \A x, y \in Versions(t) : x.rv <= y.rv /\ Begun(x) => Begun(y)
    /\ \A t \in Tasks : obj[t].phase \in Terminal => Begun(cache[t])
    /\ wpc \notin EarlyPCs => Begun(cache[wtask])
    /\ wpc = "createClaim" => obj[wtask].phase \notin Terminal

\* What an update leaves stored.
LEMMA PutPhase ==
    ASSUME TypeOK, NEW u \in Tasks, NEW new \in Object, Put(u, new), NEW t \in Tasks
    PROVE  obj'[t].phase = IF t = u THEN new.phase ELSE obj[t].phase
<1>1. Stored(u, new).phase = new.phase
  BY DEF Stored, Object
<1> QED
  BY <1>1 DEF Put, TypeOK

LEMMA StatusUpdatePhase ==
    ASSUME TypeOK, wtask \in Tasks, NEW new \in Object, NEW call,
           StatusUpdate(new, call), NEW t \in Tasks
    PROVE  \/ obj'[t].phase = obj[t].phase
           \/ /\ t = wtask /\ obj'[t].phase = new.phase
              /\ Fault \/ (wpc' = call /\ wtask' = wtask)
<1>1. CASE Put(wtask, new)
  <2>1. obj'[t].phase = obj[t].phase \/ (t = wtask /\ obj'[t].phase = new.phase)
    BY <1>1, PutPhase
  <2>2. \/ Fault \/ (wpc' = call /\ wtask' = wtask)
        \/ UNCHANGED storeVars
    BY DEF StatusUpdate, Goto
  <2> QED
    BY <2>1, <2>2 DEF storeVars
<1>2. CASE UNCHANGED storeVars
  BY <1>2 DEF storeVars
<1> QED
  BY <1>1, <1>2 DEF StatusUpdate

\* Only the worker ends a task, and unless that call fails it goes on to the
\* final comment.
EndedBy(t) ==
    obj[t].phase \notin Terminal /\ obj'[t].phase \in Terminal =>
        /\ wtask = t /\ wpc \in {"complete", "fail"}
        /\ Fault \/ (wpc' = "finalComment" /\ wtask' = t)

LEMMA CallEnds ==
    ASSUME FreshInv, Call, NEW t \in Tasks
    PROVE  EndedBy(t)
<1>0. /\ TypeOK /\ wtask \in Tasks /\ wcopy \in Object
      /\ wcopy.phase \in PhasesAt(wpc) /\ wcopy.clar \in Seq(Tasks \cup {None})
  <2>1. wpc # "idle"
    BY DEF Call, CreateClaim, SetRunning, StartComment, WaitForReady, SetPod,
           GetCloneToken, ExecInPod, SaveCost, Ask, AskComment, Complete,
           FailTask, FinalComment, DeleteClaim
  <2> QED
    BY <2>1 DEF FreshInv, GoodInv, TypeInv, WorkerGood, TypeOK, Object
<1>1. CASE obj' = obj
  BY <1>1 DEF EndedBy
<1>2. CASE SetRunning
  <2> DEFINE new == [wcopy EXCEPT !.phase = "Running", !.claim = ClaimOf(wtask)]
  <2>1. new \in Object /\ new.phase = "Running"
    <3>1. new \in Object
      BY <1>0, ObjectExcept, ClaimOfType DEF Phases
    <3> QED
      BY <1>0, <3>1 DEF Object
  <2>2. StatusUpdate(new, "startComment")
    BY <1>2 DEF SetRunning
  <2> QED
    BY <1>0, <2>1, <2>2, StatusUpdatePhase DEF EndedBy, Terminal
<1>3. CASE SetPod
  <2>1. wcopy.phase = "Running" /\ StatusUpdate(wcopy, "token")
    BY <1>0, <1>3 DEF SetPod, PhasesAt
  <2> QED
    BY <1>0, <2>1, StatusUpdatePhase DEF EndedBy, Terminal
<1>4. CASE SaveCost
  <2>1. wcopy.phase = "Running"
    BY <1>0, <1>4 DEF SaveCost, PhasesAt
  <2>2. obj' = obj \/ Put(wtask, wcopy)
    BY <1>4 DEF SaveCost, storeVars
  <2> QED
    BY <1>0, <1>1, <2>1, <2>2, PutPhase DEF EndedBy, Terminal
<1>5. CASE Ask
  <2> DEFINE new == [wcopy EXCEPT !.phase = "Waiting", !.clar = Append(@, None)]
  <2>1. new \in Object /\ new.phase = "Waiting"
    <3>1. Append(wcopy.clar, None) \in Seq(Tasks \cup {None})
      BY <1>0, AppendProperties
    <3>2. new \in Object
      BY <1>0, <3>1, ObjectExcept DEF Phases
    <3> QED
      BY <1>0, <3>2 DEF Object
  <2>2. obj' = obj \/ StatusUpdate(new, "askComment")
    BY <1>5 DEF Ask, storeVars
  <2> QED
    BY <1>0, <1>1, <2>1, <2>2, StatusUpdatePhase DEF EndedBy, Terminal
<1>6. CASE Complete \/ FailTask
  <2>1. PICK p \in Terminal :
            /\ StatusUpdate([wcopy EXCEPT !.phase = p], "finalComment")
            /\ wpc \in {"complete", "fail"}
    BY <1>6 DEF Complete, FailTask, Terminal
  <2>2. [wcopy EXCEPT !.phase = p] \in Object
    BY <1>0, ObjectExcept DEF Phases, Terminal
  <2> QED
    BY <1>0, <2>1, <2>2, StatusUpdatePhase DEF EndedBy
<1> QED
  BY <1>1, <1>2, <1>3, <1>4, <1>5, <1>6
  DEF Call, CreateClaim, StartComment, WaitForReady, GetCloneToken, ExecInPod,
      AskComment, FinalComment, DeleteClaim, storeVars

LEMMA StepEnds ==
    ASSUME FreshInv, [Next]_vars, NEW t \in Tasks
    PROVE  EndedBy(t)
<1>0. TypeOK
  BY DEF FreshInv, GoodInv, TypeInv
<1>1. ASSUME obj' = obj PROVE EndedBy(t)
  BY <1>1 DEF EndedBy
<1>2. ASSUME NEW u \in Tasks, NEW new \in Object, Put(u, new), new.phase \notin Terminal
      PROVE  EndedBy(t)
  BY <1>0, <1>2, PutPhase DEF EndedBy
<1>3. CASE Call
  BY <1>3, CallEnds
<1>4. ASSUME NEW u \in Tasks, DeleteTask(u) PROVE EndedBy(t)
  <2>1. obj[u] \in Object /\ [obj[u] EXCEPT !.phase = "Gone"] \in Object
    BY <1>0, ObjectExcept DEF TypeOK, Phases
  <2>2. [obj[u] EXCEPT !.phase = "Gone"].phase = "Gone"
    BY <2>1 DEF Object
  <2> QED
    BY <1>2, <1>4, <2>1, <2>2 DEF DeleteTask, Terminal
<1>5. ASSUME NEW d \in Tasks, Handle(d) PROVE EndedBy(t)
  <2>1. CASE HandleMention(d) \/ HandleLabel(d)
    BY <1>1, <2>1 DEF HandleMention, HandleLabel, storeVars
  <2>2. CASE ResumeClarification(d)
    <3>1. htask[d] \in Tasks /\ hcopy[d] \in Object
      BY <1>0, <2>2 DEF ResumeClarification, TypeOK
    <3>2. Answered(d) \in Object /\ Answered(d).phase = "Running"
      <4>1. WithAnswer(hcopy[d].clar, d) \in Seq(Tasks \cup {None})
        BY <3>1, WithAnswerType DEF Object
      <4>2. Answered(d) \in Object
        BY <3>1, <4>1, ObjectExcept DEF Answered, Phases
      <4> QED
        BY <3>1, <4>2 DEF Answered, Object
    <3>3. obj' = obj \/ Put(htask[d], Answered(d))
      BY <2>2 DEF ResumeClarification, storeVars
    <3> QED
      BY <1>1, <1>2, <3>1, <3>2, <3>3 DEF Terminal
  <2>3. CASE CreateTask(d)
    <3> DEFINE new == [NoObject EXCEPT !.phase = "Pending"]
    <3>1. new \in Object /\ new.phase = "Pending"
      BY NoObjectType, ObjectExcept DEF NoObject, Phases
    <3>2. obj' = obj \/ Put(d, new)
      BY <2>3 DEF CreateTask, storeVars
    <3> QED
      BY <1>1, <1>2, <3>1, <3>2 DEF Terminal
  <2> QED
    BY <1>5, <2>1, <2>2, <2>3 DEF Handle
<1>6. CASE \/ Tick \/ Crash \/ UNCHANGED vars
           \/ \E u \in Tasks : Deliver(u) \/ Reconcile(u)
  BY <1>1, <1>6 DEF Tick, Crash, vars, Deliver, Reconcile, storeVars
<1> QED
  BY <1>3, <1>4, <1>5, <1>6 DEF Next

\* The worker is past the start of a task because it was so before, or because
\* it has just read a version of the task that has begun.
LEMMA StepWorker ==
    ASSUME TypeOK, [Next]_vars, wpc' # "idle"
    PROVE  /\ wtask' \in Tasks
           /\ wpc' \notin EarlyPCs =>
                 \/ wtask' = wtask /\ wpc \notin EarlyPCs
                 \/ cache' = cache /\ Begun(cache[wtask'])
           /\ wpc' = "createClaim" =>
                 \/ wtask' = wtask /\ wpc = "createClaim"
                 \/ UNCHANGED <<obj, cache>> /\ ~Begun(cache[wtask'])
<1> USE DEF EarlyPCs
<1>1. ASSUME UNCHANGED workerVars
      PROVE  wtask' = wtask /\ wpc' = wpc /\ wtask' \in Tasks
  BY <1>1 DEF workerVars, TypeOK
<1>2. CASE Call
  <2>0. wtask \in Tasks
    BY <1>2 DEF TypeOK, Call, CreateClaim, SetRunning, StartComment,
         WaitForReady, SetPod, GetCloneToken, ExecInPod, SaveCost, Ask,
         AskComment, Complete, FailTask, FinalComment, DeleteClaim
  <2>1. CASE CreateClaim \/ StartComment \/ WaitForReady \/ GetCloneToken
    BY <2>0, <2>1 DEF CreateClaim, StartComment, WaitForReady, GetCloneToken,
                      Goto, ReturnRequeue, Return
  <2>2. CASE ExecInPod
    BY <2>0, <2>2 DEF ExecInPod, AfterExec, Goto
  <2>3. CASE SetRunning \/ SetPod \/ Ask \/ Complete \/ FailTask
    BY <2>0, <2>3 DEF SetRunning, SetPod, Ask, Complete, FailTask,
                      StatusUpdate, Goto, ReturnRequeue, Return
  <2>4. CASE SaveCost \/ FinalComment \/ AskComment \/ DeleteClaim
    BY <2>0, <2>4 DEF SaveCost, FinalComment, AskComment, DeleteClaim, Goto, Return
  <2> QED
    BY <1>2, <2>1, <2>2, <2>3, <2>4 DEF Call
<1>3. ASSUME NEW t \in Tasks, Reconcile(t)
      PROVE  /\ wtask' = t /\ UNCHANGED <<obj, cache>>
             /\ wpc' \notin EarlyPCs => Begun(cache[t])
             /\ wpc' = "createClaim" => ~Begun(cache[t])
  <2>1. /\ wtask' = t /\ UNCHANGED <<obj, cache>> /\ wpc' = FirstCall(t, cache[t])
    BY <1>3 DEF Reconcile, storeVars
  <2>2. /\ FirstCall(t, cache[t]) \notin EarlyPCs => Begun(cache[t])
        /\ FirstCall(t, cache[t]) = "createClaim" => ~Begun(cache[t])
    BY DEF FirstCall, Begun
  <2> QED
    BY <2>1, <2>2
<1>4. CASE Crash
  BY <1>4 DEF Crash, Return
<1>5. CASE \/ Tick \/ UNCHANGED vars
           \/ \E t \in Tasks : Deliver(t) \/ DeleteTask(t)
           \/ \E d \in Tasks : Handle(d)
  <2>1. UNCHANGED workerVars
    BY <1>5 DEF Tick, vars, workerVars, Deliver, DeleteTask, Handle,
                HandleMention, HandleLabel, ResumeClarification, CreateTask
  <2> QED
    BY <1>1, <2>1
<1> QED
  BY <1>2, <1>3, <1>4, <1>5 DEF Next

LEMMA StepPast == PastInv /\ [Next]_vars => PastInv'
<1> SUFFICES ASSUME PastInv, [Next]_vars PROVE PastInv'
  OBVIOUS
<1>0. /\ ThreadInv' /\ SeenInv /\ SeenInv' /\ FreshInv /\ TypeOK /\ TypeOK'
  BY StepThreadInv, StepSeen, StepFresh
  DEF PastInv, ThreadInv, FreshInv, GoodInv, TypeInv
<1>1. ASSUME NEW t \in Tasks
      PROVE  /\ \A x \in Versions(t) : x \in Object /\ x.rv \in Nat /\ x.rv <= obj[t].rv
             /\ obj'[t].rv \in Nat /\ cache[t].rv <= obj[t].rv
  <2>1. \A x \in Versions(t) : x \in Object /\ Fresh(x, obj[t])
    <3>1. obj[t] \in Object /\ obj[t].rv \in Nat
      BY <1>0 DEF TypeOK, Object
    <3>2. Fresh(obj[t], obj[t])
      BY <3>1 DEF Fresh
    <3> QED
      BY <1>0, <3>1, <3>2 DEF Versions, TypeOK, FreshInv, StoreFresh
  <2>2. obj'[t] \in Object
    BY <1>0 DEF TypeOK
  <2> QED
    BY <2>1, <2>2 DEF Object, Fresh, Versions
<1>2. ASSUME NEW t \in Tasks
      PROVE  Begun(obj[t]) => Begun(obj'[t])
  BY <1>0, StepGrown DEF Grown, Begun
<1>3. ASSUME NEW t \in Tasks
      PROVE  /\ \A x, y \in Versions(t)' : x.rv <= y.rv /\ Begun(x) => Begun(y)
             /\ Begun(cache[t]) => Begun(cache'[t])
  <2>0. \A x, y \in Versions(t) : x.rv <= y.rv /\ Begun(x) => Begun(y)
    BY DEF PastInv
  <2>1. CASE obj'[t] = obj[t] /\ watch'[t] = watch[t] /\ cache'[t] = cache[t]
    BY <2>0, <2>1 DEF Versions
  <2>2. CASE /\ obj[t].rv < obj'[t].rv
             /\ watch'[t] = watch[t] \cup {obj'[t]} /\ cache'[t] = cache[t]
    <3>1. \A x \in Versions(t)' : x \in Versions(t) \/ x = obj'[t]
      BY <2>2 DEF Versions
    <3>2. ASSUME NEW x \in Versions(t)
          PROVE  ~(obj'[t].rv <= x.rv) /\ (Begun(x) => Begun(obj'[t]))
      <4>1. /\ x.rv \in Nat /\ obj[t].rv \in Nat /\ obj'[t].rv \in Nat
            /\ x.rv <= obj[t].rv /\ obj[t] \in Versions(t)
        BY <1>1 DEF Versions
      <4>2. ~(obj'[t].rv <= x.rv)
        BY <2>2, <4>1
      <4>3. Begun(x) => Begun(obj[t])
        BY <2>0, <4>1
      <4> QED
        BY <1>2, <4>2, <4>3
    <3>3. ASSUME NEW x \in Versions(t)', NEW y \in Versions(t)', x.rv <= y.rv, Begun(x)
          PROVE  Begun(y)
      <4>1. CASE x \in Versions(t) /\ y \in Versions(t)
        BY <2>0, <3>3, <4>1
      <4>2. CASE y = obj'[t]
        BY <3>1, <3>2, <3>3, <4>2
      <4>3. CASE x = obj'[t] /\ y \in Versions(t)
        BY <3>2, <3>3, <4>3
      <4> QED
        BY <3>1, <4>1, <4>2, <4>3
    <3> QED
      BY <2>2, <3>3
  <2>3. CASE /\ obj'[t] = obj[t] /\ cache'[t] \in watch[t]
             /\ watch'[t] = watch[t] \ {cache'[t]}
    <3>1. cache[t].rv <= cache'[t].rv
      BY <1>0, <2>3 DEF SeenInv
    <3> QED
      BY <2>0, <2>3, <3>1 DEF Versions
  <2>4. CASE obj'[t] = obj[t] /\ cache'[t] = obj[t] /\ watch'[t] = {}
    BY <1>1, <2>0, <2>4 DEF Versions
  <2> QED
    BY <1>0, <2>1, <2>2, <2>3, <2>4, StepVersionsOf DEF VersionsOf
<1>4. ASSUME NEW t \in Tasks, obj'[t].phase \in Terminal PROVE Begun(cache'[t])
  <2>1. CASE obj[t].phase \in Terminal
    BY <1>3, <2>1 DEF PastInv
  <2>2. CASE obj[t].phase \notin Terminal
    <3>1. wtask = t /\ wpc \notin EarlyPCs
      BY <1>0, <1>4, <2>2, StepEnds DEF EndedBy, EarlyPCs
    <3> QED
      BY <1>3, <3>1 DEF PastInv
  <2> QED
    BY <2>1, <2>2
<1>5. wpc' \notin EarlyPCs => Begun(cache'[wtask'])
  <2> SUFFICES ASSUME wpc' \notin EarlyPCs PROVE Begun(cache'[wtask'])
    OBVIOUS
  <2>1. wpc' # "idle"
    BY DEF EarlyPCs
  <2> QED
    BY <1>0, <1>3, <2>1, StepWorker DEF PastInv
<1>6. wpc' = "createClaim" => obj'[wtask'].phase \notin Terminal
  <2> SUFFICES ASSUME wpc' = "createClaim", obj'[wtask'].phase \in Terminal PROVE FALSE
    OBVIOUS
  <2>1. wtask' \in Tasks
    BY <1>0, StepWorker
  <2>2. CASE wtask' = wtask /\ wpc = "createClaim"
    <3>1. obj[wtask].phase \notin Terminal
      BY <2>2 DEF PastInv
    <3> QED
      BY <1>0, <2>1, <2>2, <3>1, StepEnds DEF EndedBy
  <2>3. CASE UNCHANGED <<obj, cache>> /\ ~Begun(cache[wtask'])
    BY <2>1, <2>3 DEF PastInv
  <2> QED
    BY <1>0, <2>2, <2>3, StepWorker
<1> QED
  BY <1>0, <1>3, <1>4, <1>5, <1>6 DEF PastInv

NothingFailed == budget.fault = MaxFaults /\ budget.crash = MaxCrashes

\* The budget only shrinks: if nothing has failed, nothing fails in this step.
LEMMA StepBudget ==
    ASSUME TypeOK, [Next]_vars, NothingFailed'
    PROVE  NothingFailed /\ ~Fault /\ ~Crash
<1>1. \/ budget' = budget \/ Fault \/ Crash
      \/ \E t \in Tasks : DeleteTask(t)
  <2>1. CASE Call
    BY <2>1 DEF Call, CreateClaim, SetRunning, StartComment, WaitForReady, SetPod,
           GetCloneToken, ExecInPod, SaveCost, Ask, AskComment, Complete,
           FailTask, FinalComment, DeleteClaim, StatusUpdate, CommentOnTask
  <2>2. CASE \E d \in Tasks : Handle(d)
    BY <2>2 DEF Handle, HandleMention, HandleLabel, ResumeClarification, CreateTask
  <2>3. CASE \/ Tick \/ UNCHANGED vars
             \/ \E t \in Tasks : Deliver(t) \/ Reconcile(t)
    BY <2>3 DEF Tick, vars, Deliver, Reconcile
  <2> QED
    BY <2>1, <2>2, <2>3 DEF Next
<1>2. /\ budget.fault \in 0 .. MaxFaults /\ budget.crash \in 0 .. MaxCrashes
      /\ MaxFaults \in Nat /\ MaxCrashes \in Nat
  BY BoundsAssumption DEF TypeOK, Budgets
<1>3. ~Fault
  <2>1. Fault => budget'.fault = budget.fault - 1
    BY DEF Fault, TypeOK, Budgets
  <2> QED
    BY <1>2, <2>1 DEF NothingFailed
<1>4. ~Crash
  <2>1. Crash => budget'.crash = budget.crash - 1
    BY DEF Crash, TypeOK, Budgets
  <2> QED
    BY <1>2, <2>1 DEF NothingFailed
<1>5. ASSUME NEW t \in Tasks, DeleteTask(t)
      PROVE  budget'.fault = budget.fault /\ budget'.crash = budget.crash
  BY <1>5 DEF DeleteTask, TypeOK, Budgets
<1> QED
  BY <1>1, <1>3, <1>4, <1>5 DEF NothingFailed

\* Without a fault, the worker that is about to release a claim stays there
\* until the claim is gone.
LEMMA StepRelease ==
    ASSUME FreshInv, [Next]_vars, ~Fault, ~Crash,
           wpc \in {"finalComment", "release"}
    PROVE  \/ wpc' \in {"finalComment", "release"} /\ wtask' = wtask
           \/ ~claims'[ClaimOf(wtask)].live
<1>1. CASE Call
  <2>1. CASE FinalComment
    BY <2>1 DEF FinalComment, Goto
  <2>2. CASE DeleteClaim
    <3>1. /\ wpc = "release" /\ wtask \in Tasks /\ wcopy.claim = ClaimOf(wtask)
          /\ claims \in [Claims -> Sandboxes]
      BY <2>2 DEF DeleteClaim, FreshInv, GoodInv, TypeInv, TypeOK, WorkerGood,
                  Good, PhasesAt, Terminal
    <3>2. ClaimOf(wtask) # None /\ ClaimOf(wtask) \in Claims
      BY <3>1, ClaimOfType, NoneAssumption
    <3>3. claims' = [claims EXCEPT ![ClaimOf(wtask)].live = FALSE]
      BY <2>2, <3>1, <3>2 DEF DeleteClaim
    <3> QED
      BY <3>1, <3>2, <3>3 DEF Sandboxes
  <2> QED
    BY <1>1, <2>1, <2>2
    DEF Call, CreateClaim, SetRunning, StartComment, WaitForReady, SetPod,
        GetCloneToken, ExecInPod, SaveCost, Ask, AskComment, Complete, FailTask
<1>2. CASE \/ Tick \/ UNCHANGED vars
           \/ \E t \in Tasks : Deliver(t) \/ DeleteTask(t) \/ Reconcile(t)
           \/ \E d \in Tasks : Handle(d)
  BY <1>2 DEF Tick, vars, workerVars, Deliver, DeleteTask, Reconcile, Handle,
              HandleMention, HandleLabel, ResumeClarification, CreateTask
<1> QED
  BY <1>1, <1>2 DEF Next

\* A sandbox outlives its task only if a call has failed or the operator has
\* died: the last of what Complete and failTask do is to delete the claim, and
\* nothing recreates it.
THEOREM SandboxLeftOnlyByFault == Spec => []ClaimNotLeft
<1> DEFINE Open(t) == obj[t].phase \notin {"Absent"} \cup Terminal
           Inv == PastInv /\ ClaimNotLeft
<1>1. Init => Inv
  <2> SUFFICES ASSUME Init PROVE Inv
    OBVIOUS
  <2>1. \A t \in Tasks : obj[t] = NoObject /\ cache[t] = NoObject /\ watch[t] = {}
    BY DEF Init
  <2>2. SeenInv
    BY <2>1 DEF SeenInv
  <2>3. PastInv
    BY <2>1, <2>2, InitThread
    DEF Init, PastInv, Versions, Begun, NoObject, EarlyPCs, Terminal
  <2>4. \A c \in Claims : ~claims[c].live
    BY DEF Init
  <2> QED
    BY <2>3, <2>4 DEF ClaimNotLeft
<1>2. Inv /\ [Next]_vars => Inv'
  <2> SUFFICES ASSUME Inv, [Next]_vars, NothingFailed', NEW c \in Claims, claims'[c].live
               PROVE  \/ \E t \in Tasks : ClaimOf(t) = c /\ Open(t)'
                      \/ wpc' \in {"finalComment", "release"} /\ ClaimOf(wtask') = c
    BY StepPast DEF ClaimNotLeft, NothingFailed
  <2>0. /\ FreshInv /\ TypeOK /\ TypeOK'
        /\ NothingFailed /\ ~Fault /\ ~Crash
    BY StepFresh, StepBudget DEF PastInv, ThreadInv, FreshInv, GoodInv, TypeInv
  <2>1. ASSUME NEW t \in Tasks, Open(t)
        PROVE  \/ Open(t)'
               \/ wpc' = "finalComment" /\ wtask' = t
    <3>1. obj'[t].phase # "Absent"
      BY <2>0, <2>1, StepFresh DEF ObjMoved, Moved
    <3> QED
      BY <2>0, <2>1, <3>1, StepEnds DEF EndedBy
  <2>2. CASE claims[c].live
    <3>1. CASE \E t \in Tasks : ClaimOf(t) = c /\ Open(t)
      BY <2>1, <3>1
    <3>2. CASE wpc \in {"finalComment", "release"} /\ ClaimOf(wtask) = c
      BY <2>0, <3>2, StepRelease
    <3> QED
      BY <2>0, <2>2, <3>1, <3>2 DEF ClaimNotLeft, NothingFailed
  \* A claim is created for a task that is still to be started, or has been.
  <2>3. CASE ~claims[c].live
    <3>1. ClaimsMoved /\ claims \in [Claims -> Sandboxes]
      BY <2>0, StepPod DEF TypeOK
    <3>2. PICK t \in Tasks : t = wtask /\ wpc = "createClaim" /\ c = ClaimOf(t)
      BY <2>0, <2>3, <3>1 DEF ClaimsMoved, TypeOK, Sandboxes
    <3>3. Open(t)
      BY <2>0, <3>2, Known DEF PastInv
    <3>4. Open(t)'
      <4>1. wpc' # "finalComment"
        BY <2>0, <3>1, <3>2, <2>3 DEF ClaimsMoved
      <4> QED
        BY <2>1, <3>3, <4>1
    <3> QED
      BY <3>2, <3>4
  <2> QED
    BY <2>2, <2>3
<1>3. Inv => ClaimNotLeft
  OBVIOUS
<1> QED
  BY <1>1, <1>2, <1>3, PTL DEF Spec

=============================================================================
