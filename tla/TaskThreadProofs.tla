-------------------------- MODULE TaskThreadProofs --------------------------
(***************************************************************************)
(* What a reader of the GitHub thread can rely on: each comment comes at   *)
(* most once, and the operator, seen through the stored phases, the        *)
(* exchanges and the final comments, implements TaskLifecycle.             *)
(***************************************************************************)
EXTENDS TaskStoreProofs

Ended == Terminal \cup {"Gone"}

StartInv ==
    /\ \A t \in Tasks : /\ comments[t].start <= 1
                        /\ obj[t].phase \in {"Absent", "Pending"} =>
                              comments[t].start = 0
    /\ wpc = "startComment" =>
          /\ comments[wtask].start = 0
          /\ obj[wtask].phase \notin {"Absent", "Pending"}

AskInv ==
    /\ \A t \in Tasks : comments[t].ask <= Len(obj[t].clar)
    /\ wpc = "askComment" => comments[wtask].ask < Len(obj[wtask].clar)

FinalInv ==
    /\ \A t \in Tasks : /\ comments[t].final <= 1
                        /\ obj[t].phase \notin Ended => comments[t].final = 0
    /\ wpc = "finalComment" => comments[wtask].final = 0
    /\ wpc \in {"finalComment", "release"} => obj[wtask].phase \in Ended

ThreadInv == FreshInv /\ StartInv /\ AskInv /\ FinalInv

\* What never goes backwards in a stored task.
Grown(a, b) ==
    /\ a.phase \in Ended => b.phase \in Ended
    /\ b.phase \in {"Absent", "Pending"} => a.phase \in {"Absent", "Pending"}
    /\ Len(a.clar) <= Len(b.clar)

LEMMA StepGrown ==
    ASSUME FreshInv, [Next]_vars
    PROVE  \A t \in Tasks : Grown(obj[t], obj'[t])
<1> SUFFICES ASSUME NEW t \in Tasks PROVE Grown(obj[t], obj'[t])
  OBVIOUS
<1>1. /\ obj[t].clar \in Seq(Tasks \cup {None})
      /\ Len(obj[t].clar) \in Nat
  BY LenProperties DEF FreshInv, GoodInv, TypeInv, TypeOK, Object
<1>2. obj'[t] = obj[t] \/ Moved(obj[t], obj'[t])
  BY StepFresh DEF ObjMoved
<1>3. Len(obj[t].clar) <= Len(obj'[t].clar)
  <2>1. Len(Append(obj[t].clar, None)) = Len(obj[t].clar) + 1
    BY <1>1, AppendProperties
  <2>2. \A d \in Tasks : Len(WithAnswer(obj[t].clar, d)) = Len(obj[t].clar)
    BY <1>1, WithAnswerType
  <2>3. \/ obj'[t].clar = obj[t].clar
        \/ obj'[t].clar = Append(obj[t].clar, None)
        \/ \E d \in Tasks : obj'[t].clar = WithAnswer(obj[t].clar, d)
    BY <1>2 DEF Moved
  <2> QED
    BY <1>1, <2>1, <2>2, <2>3
<1> QED
  BY <1>2, <1>3 DEF Grown, Moved, Ended, Terminal

\* The worker on its way to a comment: it stays there, or it arrives by the
\* accepted update that the comment is about.
Arrives ==
    /\ wpc' \in {"startComment", "askComment", "finalComment", "release"} =>
          wtask' = wtask /\ wtask \in Tasks
    /\ wpc' = "startComment" /\ wpc # "startComment" =>
          obj[wtask].phase = "Pending" /\ obj'[wtask].phase = "Running"
    /\ wpc' = "askComment" /\ wpc # "askComment" =>
          Len(obj'[wtask].clar) = Len(obj[wtask].clar) + 1
    /\ wpc' = "finalComment" /\ wpc # "finalComment" =>
          obj[wtask].phase \notin Ended /\ obj'[wtask].phase \in Ended
    /\ wpc' = "release" => wpc \in {"release", "finalComment"}

\* What was posted, if anything, and by the call that posts it.
Posts ==
    \/ comments' = comments
    \/ /\ wpc = "startComment" /\ wpc' = "idle" /\ wtask \in Tasks
       /\ comments' = [comments EXCEPT ![wtask] =
                        [comments[wtask] EXCEPT !.start = @ + 1]]
    \/ /\ wpc = "askComment" /\ wpc' = "idle" /\ wtask \in Tasks
       /\ comments' = [comments EXCEPT ![wtask] =
                        [comments[wtask] EXCEPT !.ask = @ + 1]]
    \/ /\ wpc = "finalComment" /\ wpc' = "release" /\ wtask \in Tasks
       /\ comments' = [comments EXCEPT ![wtask] =
                        [comments[wtask] EXCEPT !.final = @ + 1]]

LEMMA CallThread ==
    ASSUME FreshInv, Call
    PROVE  Arrives /\ (comments' = comments \/ (obj' = obj /\ Posts))
<1>0. /\ TypeOK /\ wpc # "idle" /\ wtask \in Tasks /\ wcopy \in Object
      /\ wcopy.clar \in Seq(Tasks \cup {None})
      /\ wcopy.phase \in PhasesAt(wpc)
      /\ WorkerCopyOf(wcopy, obj[wtask], wpc)
  <2>1. wpc # "idle"
    BY DEF Call, CreateClaim, SetRunning, StartComment, WaitForReady, SetPod,
           GetCloneToken, ExecInPod, SaveCost, Ask, AskComment, Complete,
           FailTask, FinalComment, DeleteClaim
  <2> QED
    BY <2>1 DEF FreshInv, GoodInv, TypeInv, WorkerGood, WorkerFresh, TypeOK,
                Object
<1>1. CASE CreateClaim
  BY <1>1 DEF CreateClaim, Goto, ReturnRequeue, Return, Arrives
<1>2. CASE SetRunning
  <2> DEFINE new == [wcopy EXCEPT !.phase = "Running", !.claim = ClaimOf(wtask)]
  <2>1. new \in Object
    BY <1>0, ObjectExcept, ClaimOfType DEF Phases
  <2>2. new.rv = wcopy.rv /\ new.phase = "Running"
    BY <1>0 DEF Object
  <2>3. wcopy.phase = "Pending"
    BY <1>0, <1>2 DEF SetRunning, PhasesAt
  <2> HIDE DEF new
  <2>4. StatusUpdate(new, "startComment") /\ comments' = comments
    BY <1>2 DEF SetRunning, new
  <2>5. /\ wpc' \in {"idle", "startComment"}
        /\ wpc' = "startComment" =>
              CanWrite(wtask, wcopy) /\ Put(wtask, new) /\ wtask' = wtask
    BY <2>4 DEF StatusUpdate, Goto, ReturnRequeue, Return
  <2>6. ASSUME CanWrite(wtask, wcopy), Put(wtask, new)
        PROVE  obj[wtask].phase = "Pending" /\ obj'[wtask].phase = "Running"
    <3>1. new.rv = obj[wtask].rv /\ wcopy.phase = obj[wtask].phase
      BY <1>0, <2>2, <2>6 DEF CanWrite, WorkerCopyOf
    <3>2. obj'[wtask].phase = "Running"
      BY <1>0, <2>1, <2>2, <2>6, <3>1, PutEffect
    <3> QED
      BY <2>3, <3>1, <3>2
  <2> QED
    BY <1>0, <2>4, <2>5, <2>6 DEF Arrives
<1>3. CASE StartComment
  <2>1. Arrives
    BY <1>3 DEF StartComment, ReturnRequeue, Return, Arrives
  <2>2. comments' = comments \/ (obj' = obj /\ Posts)
    BY <1>0, <1>3
    DEF StartComment, CommentOnTask, ReturnRequeue, Return, Posts, storeVars
  <2> QED
    BY <2>1, <2>2
<1>4. CASE WaitForReady
  BY <1>4 DEF WaitForReady, Goto, Arrives
<1>5. CASE SetPod
  BY <1>5 DEF SetPod, StatusUpdate, Goto, ReturnRequeue, Return, Arrives
<1>6. CASE GetCloneToken
  BY <1>6 DEF GetCloneToken, Goto, ReturnRequeue, Return, Arrives
<1>7. CASE ExecInPod
  BY <1>7 DEF ExecInPod, Goto, AfterExec, Arrives
<1>8. CASE SaveCost
  BY <1>8 DEF SaveCost, Goto, Arrives
<1>9. CASE Ask
  <2> DEFINE new == [wcopy EXCEPT !.phase = "Waiting", !.clar = Append(@, None)]
  <2>1. CASE RoundsExhausted(wcopy.clar)
    BY <1>9, <2>1 DEF Ask, Goto, Arrives
  <2>2. CASE ~RoundsExhausted(wcopy.clar)
    <3>1. /\ Append(wcopy.clar, None) \in Seq(Tasks \cup {None})
          /\ Len(Append(wcopy.clar, None)) = Len(wcopy.clar) + 1
      BY <1>0, AppendProperties
    <3>2. new \in Object
      BY <1>0, <3>1, ObjectExcept DEF Phases
    <3>3. new.rv = wcopy.rv /\ new.clar = Append(wcopy.clar, None)
      BY <1>0 DEF Object
    <3> HIDE DEF new
    <3>4. StatusUpdate(new, "askComment") /\ comments' = comments
      BY <1>9, <2>2 DEF Ask, new
    <3>5. /\ wpc' \in {"idle", "askComment"}
          /\ wpc' = "askComment" =>
                CanWrite(wtask, wcopy) /\ Put(wtask, new) /\ wtask' = wtask
      BY <3>4 DEF StatusUpdate, Goto, ReturnRequeue, Return
    <3>6. ASSUME CanWrite(wtask, wcopy), Put(wtask, new)
          PROVE  Len(obj'[wtask].clar) = Len(obj[wtask].clar) + 1
      <4>1. new.rv = obj[wtask].rv /\ wcopy.clar = obj[wtask].clar
        BY <1>0, <3>3, <3>6 DEF CanWrite, WorkerCopyOf
      <4>2. obj'[wtask].clar = new.clar
        BY <1>0, <3>2, <3>6, <4>1, PutEffect
      <4> QED
        BY <3>1, <3>3, <4>1, <4>2
    <3> QED
      BY <1>0, <3>4, <3>5, <3>6 DEF Arrives
  <2> QED
    BY <2>1, <2>2
<1>10. CASE AskComment
  <2>1. Arrives
    BY <1>10 DEF AskComment, Return, Arrives
  <2>2. comments' = comments \/ (obj' = obj /\ Posts)
    BY <1>0, <1>10 DEF AskComment, CommentOnTask, Return, Posts, storeVars
  <2> QED
    BY <2>1, <2>2
<1>11. CASE Complete \/ FailTask
  <2>1. PICK p \in Terminal :
            /\ StatusUpdate([wcopy EXCEPT !.phase = p], "finalComment")
            /\ comments' = comments
    BY <1>11 DEF Complete, FailTask, Terminal
  <2> DEFINE new == [wcopy EXCEPT !.phase = p]
  <2>2. new \in Object
    BY <1>0, ObjectExcept DEF Phases, Terminal
  <2>3. new.rv = wcopy.rv /\ new.phase = p
    BY <1>0 DEF Object
  <2>4. wcopy.phase \in {"Running", "Waiting"}
    BY <1>0, <1>11 DEF Complete, FailTask, PhasesAt
  <2> HIDE DEF new
  <2>5. StatusUpdate(new, "finalComment")
    BY <2>1 DEF new
  <2>6. /\ wpc' \in {"idle", "finalComment"}
        /\ wpc' = "finalComment" =>
              CanWrite(wtask, wcopy) /\ Put(wtask, new) /\ wtask' = wtask
    BY <2>5 DEF StatusUpdate, Goto, ReturnRequeue, Return
  <2>7. ASSUME CanWrite(wtask, wcopy), Put(wtask, new)
        PROVE  obj[wtask].phase \notin Ended /\ obj'[wtask].phase \in Ended
    <3>1. new.rv = obj[wtask].rv /\ wcopy.phase = obj[wtask].phase
      BY <1>0, <2>3, <2>7 DEF CanWrite, WorkerCopyOf
    <3>2. obj'[wtask].phase = p
      BY <1>0, <2>2, <2>3, <2>7, <3>1, PutEffect
    <3> QED
      BY <2>4, <3>1, <3>2 DEF Ended, Terminal
  <2> QED
    BY <1>0, <2>1, <2>6, <2>7 DEF Arrives
<1>12. CASE FinalComment
  <2>1. Arrives
    BY <1>0, <1>12 DEF FinalComment, Goto, Arrives
  <2>2. comments' = comments \/ (obj' = obj /\ Posts)
    BY <1>0, <1>12 DEF FinalComment, CommentOnTask, Goto, Posts, storeVars
  <2> QED
    BY <2>1, <2>2
<1>13. CASE DeleteClaim
  BY <1>13 DEF DeleteClaim, Return, Arrives
<1> QED
  BY <1>1, <1>2, <1>3, <1>4, <1>5, <1>6, <1>7, <1>8, <1>9, <1>10, <1>11,
     <1>12, <1>13 DEF Call

LEMMA StepThread ==
    ASSUME FreshInv, [Next]_vars
    PROVE  Arrives /\ (comments' = comments \/ (obj' = obj /\ Posts))
<1>0. TypeOK
  BY DEF FreshInv, GoodInv, TypeInv
<1>1. CASE UNCHANGED workerVars /\ comments' = comments
  BY <1>0, <1>1 DEF workerVars, Arrives, TypeOK
<1>2. CASE Call
  BY <1>2, CallThread
<1>3. CASE Crash
  BY <1>3 DEF Crash, Return, Arrives
<1>4. ASSUME NEW t \in Tasks, Reconcile(t)
      PROVE  Arrives /\ comments' = comments
  BY <1>4 DEF Reconcile, FirstCall, Arrives
<1>5. CASE \/ \E d \in Tasks : Handle(d)
           \/ \E t \in Tasks : Deliver(t) \/ DeleteTask(t)
           \/ Tick
           \/ UNCHANGED vars
  <2>1. UNCHANGED workerVars /\ comments' = comments
    BY <1>5 DEF Handle, HandleMention, HandleLabel, ResumeClarification,
                CreateTask, Deliver, DeleteTask, Tick, vars, workerVars
  <2> QED
    BY <1>1, <2>1
<1> QED
  BY <1>2, <1>3, <1>4, <1>5 DEF Next

\* What a posted comment changes in the counts.
LEMMA PostEffect ==
    ASSUME TypeOK, Posts
    PROVE  /\ \A t \in Tasks : t # wtask => comments'[t] = comments[t]
           /\ \A t \in Tasks :
                /\ comments'[t].start = comments[t].start \/
                     (/\ wpc = "startComment" /\ wpc' = "idle" /\ t = wtask
                      /\ comments'[t].start = comments[t].start + 1)
                /\ comments'[t].ask = comments[t].ask \/
                     (/\ wpc = "askComment" /\ wpc' = "idle" /\ t = wtask
                      /\ comments'[t].ask = comments[t].ask + 1)
                /\ comments'[t].final = comments[t].final \/
                     (/\ wpc = "finalComment" /\ wpc' = "release" /\ t = wtask
                      /\ comments'[t].final = comments[t].final + 1)
<1>1. comments \in [Tasks -> Comments]
  BY DEF TypeOK
<1> QED
  BY <1>1 DEF Posts, Comments

LEMMA StepComments ==
    ASSUME ThreadInv, [Next]_vars
    PROVE  StartInv' /\ AskInv' /\ FinalInv'
<1>0. /\ TypeOK /\ Arrives
      /\ \A t \in Tasks : Grown(obj[t], obj'[t])
      /\ \A t \in Tasks : /\ Len(obj[t].clar) \in Nat /\ Len(obj'[t].clar) \in Nat
                          /\ comments[t].start \in Nat
                          /\ comments[t].ask \in Nat
                          /\ comments[t].final \in Nat
  <2>1. FreshInv' /\ TypeOK /\ TypeOK'
    BY StepFresh DEF ThreadInv, FreshInv, GoodInv, TypeInv
  <2>2. \A t \in Tasks : Len(obj[t].clar) \in Nat /\ Len(obj'[t].clar) \in Nat
    BY <2>1, LenProperties DEF TypeOK, Object
  <2> QED
    BY <2>1, <2>2, StepGrown, StepThread DEF ThreadInv, TypeOK, Comments
<1>1. CASE comments' = comments
  <2>1. StartInv'
    BY <1>0, <1>1 DEF ThreadInv, StartInv, Arrives, Grown
  <2>2. AskInv'
    <3>1. \A t \in Tasks : comments[t].ask <= Len(obj'[t].clar)
      BY <1>0 DEF ThreadInv, AskInv, Grown
    <3>2. ASSUME wpc' = "askComment"
          PROVE  comments[wtask].ask < Len(obj'[wtask].clar) /\ wtask' = wtask
      BY <1>0, <3>2 DEF ThreadInv, AskInv, Arrives, Grown
    <3> QED
      BY <1>1, <3>1, <3>2 DEF AskInv
  <2>3. FinalInv'
    <3>1. \A t \in Tasks : /\ comments[t].final <= 1
                           /\ obj'[t].phase \notin Ended => comments[t].final = 0
      BY <1>0 DEF ThreadInv, FinalInv, Grown
    <3>2. ASSUME wpc' = "finalComment"
          PROVE  comments[wtask].final = 0 /\ obj'[wtask].phase \in Ended
      BY <1>0, <3>2 DEF ThreadInv, FinalInv, Arrives, Grown
    <3>3. ASSUME wpc' = "release" PROVE obj'[wtask].phase \in Ended
      BY <1>0, <3>3 DEF ThreadInv, FinalInv, Arrives, Grown
    <3> QED
      BY <1>0, <1>1, <3>1, <3>2, <3>3 DEF FinalInv, Arrives
  <2> QED
    BY <2>1, <2>2, <2>3
<1>2. CASE obj' = obj /\ Posts
  <2>1. comments' = comments \/ wpc' \in {"idle", "release"}
    BY <1>2 DEF Posts
  <2>2. CASE wpc' \in {"idle", "release"}
    <3>1. StartInv'
      BY <1>0, <1>2, <2>2, PostEffect DEF ThreadInv, StartInv
    <3>2. AskInv'
      BY <1>0, <1>2, <2>2, PostEffect DEF ThreadInv, AskInv
    <3>3. FinalInv'
      BY <1>0, <1>2, <2>2, PostEffect DEF ThreadInv, FinalInv, Arrives
    <3> QED
      BY <3>1, <3>2, <3>3
  <2> QED
    BY <1>1, <2>1, <2>2
<1> QED
  BY <1>1, <1>2, StepThread DEF ThreadInv

LEMMA InitThread == Init => ThreadInv
<1> SUFFICES ASSUME Init PROVE ThreadInv
  OBVIOUS
<1>1. \A t \in Tasks : Len(obj[t].clar) = 0
  BY DEF Init, NoObject
<1> QED
  BY <1>1, InitFresh DEF Init, ThreadInv, StartInv, AskInv, FinalInv

LEMMA StepThreadInv == ThreadInv /\ [Next]_vars => ThreadInv'
BY StepFresh, StepComments DEF ThreadInv

\* The reader of the thread sees at most one start comment, one comment for
\* each question and one final comment, however often Reconcile ran.
THEOREM CommentsOnce == Spec => []CommentedOnce
<1>1. ThreadInv => CommentedOnce
  <2> SUFFICES ASSUME ThreadInv, NEW t \in Tasks
               PROVE  /\ comments[t].start <= 1
                      /\ comments[t].ask <= Len(obj[t].clar)
                      /\ comments[t].final <= 1
                      /\ comments[t].final = 1 => obj[t].phase \in Ended
    BY DEF CommentedOnce, Ended
  <2> QED
    BY DEF ThreadInv, StartInv, AskInv, FinalInv
<1> QED
  BY <1>1, InitThread, StepThreadInv, PTL DEF Spec

-----------------------------------------------------------------------------
(* The refinement.                                                         *)

phaseOf == [t \in Tasks |-> obj[t].phase]
clarOf  == [t \in Tasks |-> obj[t].clar]
finalOf == [t \in Tasks |-> comments[t].final]

\* A change of one stored task is a step of its life cycle or none.
LEMMA MovedSimulates ==
    ASSUME ThreadInv, NEW t \in Tasks, Moved(obj[t], obj'[t]),
           \A u \in Tasks \ {t} : obj'[u] = obj[u], comments' = comments
    PROVE  Lifecycle!Next \/ UNCHANGED Lifecycle!vars
<1>0. QuestionsOK(obj[t]) /\ obj[t].clar \in Seq(Tasks \cup {None})
  BY DEF ThreadInv, FreshInv, GoodInv, StoreGood, Good, TypeInv, TypeOK, Object
<1>1. /\ phaseOf' = [phaseOf EXCEPT ![t] = obj'[t].phase]
      /\ clarOf' = [clarOf EXCEPT ![t] = obj'[t].clar]
      /\ finalOf' = finalOf
      /\ phaseOf[t] = obj[t].phase /\ clarOf[t] = obj[t].clar
  BY DEF phaseOf, clarOf, finalOf
<1>2. CASE obj'[t].clar = obj[t].clar
  <2>1. clarOf' = clarOf
    BY <1>1, <1>2 DEF clarOf
  <2>2. CASE obj'[t].phase = obj[t].phase
    <3>1. phaseOf' = phaseOf
      BY <1>1, <2>2 DEF phaseOf
    <3> QED
      BY <1>1, <2>1, <3>1 DEF Lifecycle!vars, phaseOf, clarOf, finalOf
  <2>3. CASE obj[t].phase = "Absent" /\ obj'[t].phase = "Pending"
    <3>1. Lifecycle!Create(t)
      BY <1>1, <2>1, <2>3
      DEF Lifecycle!Create, Lifecycle!Move, phaseOf, clarOf, finalOf
    <3> QED
      BY <3>1 DEF Lifecycle!Next
  <2>4. CASE obj[t].phase = "Pending" /\ obj'[t].phase = "Running"
    <3>1. Lifecycle!Start(t)
      BY <1>1, <2>1, <2>4
      DEF Lifecycle!Start, Lifecycle!Move, phaseOf, clarOf, finalOf
    <3> QED
      BY <3>1 DEF Lifecycle!Next
  <2>5. CASE obj[t].phase = "Running" /\ obj'[t].phase = "Completed"
    <3>1. Lifecycle!Complete(t)
      BY <1>1, <2>1, <2>5
      DEF Lifecycle!Complete, Lifecycle!Move, phaseOf, clarOf, finalOf
    <3> QED
      BY <3>1 DEF Lifecycle!Next
  <2>6. CASE obj[t].phase \in {"Running", "Waiting"} /\ obj'[t].phase = "Failed"
    <3>1. Lifecycle!Fail(t)
      BY <1>1, <2>1, <2>6
      DEF Lifecycle!Fail, Lifecycle!Move, phaseOf, clarOf, finalOf
    <3> QED
      BY <3>1 DEF Lifecycle!Next
  <2>7. CASE obj[t].phase \notin {"Absent", "Gone"} /\ obj'[t].phase = "Gone"
    <3>1. obj[t].phase \in Phases
      BY DEF ThreadInv, FreshInv, GoodInv, TypeInv, TypeOK, Object
    <3>2. Lifecycle!Delete(t)
      BY <1>1, <2>1, <2>7, <3>1
      DEF Lifecycle!Delete, Lifecycle!Move, phaseOf, clarOf, finalOf, Phases
    <3> QED
      BY <3>2 DEF Lifecycle!Next
  <2>8. CASE obj[t].phase = "Waiting" /\ \E d \in Tasks : obj'[t].clar = WithAnswer(obj[t].clar, d)
    <3>1. PICK d \in Tasks : obj'[t].clar = WithAnswer(obj[t].clar, d)
      BY <2>8
    <3>2. /\ Len(obj[t].clar) > 0 /\ obj[t].clar[Len(obj[t].clar)] = None
          /\ Len(obj[t].clar) \in 1 .. Len(obj[t].clar)
      BY <1>0, <2>8, LenProperties DEF QuestionsOK
    <3>3. WithAnswer(obj[t].clar, d)[Len(obj[t].clar)] = d
      BY <1>0, <3>2, WithAnswerType
    <3> QED
      BY <1>2, <3>1, <3>2, <3>3, NoneAssumption
  <2> QED
    BY <1>0, <1>2, <2>2, <2>3, <2>4, <2>5, <2>6, <2>7, <2>8, AppendProperties DEF Moved
<1>3. CASE /\ obj[t].phase = "Running" /\ obj'[t].phase = "Waiting"
           /\ Len(obj[t].clar) < MaxRounds
           /\ obj'[t].clar = Append(obj[t].clar, None)
  <2>1. Lifecycle!Ask(t)
    BY <1>1, <1>3 DEF Lifecycle!Ask, Lifecycle!Move, phaseOf, clarOf, finalOf
  <2> QED
    BY <2>1 DEF Lifecycle!Next
<1>4. CASE /\ obj[t].phase = "Waiting" /\ obj'[t].phase = "Running"
           /\ \E d \in Tasks : obj'[t].clar = WithAnswer(obj[t].clar, d)
  <2>1. PICK d \in Tasks : obj'[t].clar = WithAnswer(obj[t].clar, d)
    BY <1>4
  <2>2. Len(obj[t].clar) > 0 /\ obj[t].clar[Len(obj[t].clar)] = None
    BY <1>0, <1>4 DEF QuestionsOK
  <2>3. obj'[t].clar = [obj[t].clar EXCEPT ![Len(obj[t].clar)] = d]
    BY <2>1, <2>2 DEF WithAnswer
  <2>4. Lifecycle!Answer(t, d)
    BY <1>1, <1>4, <2>2, <2>3
    DEF Lifecycle!Answer, Lifecycle!Move, phaseOf, clarOf, finalOf
  <2> QED
    BY <2>4 DEF Lifecycle!Next
<1> QED
  BY <1>2, <1>3, <1>4 DEF Moved

\* A posted comment is the final one of a task that has ended, or none that
\* the life cycle speaks of.
LEMMA PostSimulates ==
    ASSUME ThreadInv, obj' = obj, Posts
    PROVE  Lifecycle!Next \/ UNCHANGED Lifecycle!vars
<1>0. TypeOK
  BY DEF ThreadInv, FreshInv, GoodInv, TypeInv
<1>1. phaseOf' = phaseOf /\ clarOf' = clarOf
  BY DEF phaseOf, clarOf
<1>2. CASE \A t \in Tasks : comments'[t].final = comments[t].final
  <2>1. finalOf' = finalOf
    BY <1>2 DEF finalOf
  <2> QED
    BY <1>1, <2>1 DEF Lifecycle!vars, phaseOf, clarOf, finalOf
<1>3. CASE \E t \in Tasks : comments'[t].final # comments[t].final
  <2>0. PICK t \in Tasks : comments'[t].final # comments[t].final
    BY <1>3
  <2>1. /\ wpc = "finalComment" /\ t = wtask
        /\ comments'[t].final = comments[t].final + 1
        /\ \A u \in Tasks \ {t} : comments'[u] = comments[u]
    BY <1>0, <2>0, PostEffect
  <2>2. comments[t].final = 0 /\ obj[t].phase \in Ended
    BY <2>1 DEF ThreadInv, FinalInv
  <2>3. comments'[t].final = 1
    BY <2>1, <2>2
  <2>4. finalOf' = [finalOf EXCEPT ![t] = 1] /\ finalOf[t] = 0
    BY <2>1, <2>2, <2>3 DEF finalOf
  <2>5. phaseOf[t] \in {"Completed", "Failed", "Gone"}
    BY <2>2 DEF phaseOf, Ended, Terminal
  <2>6. Lifecycle!Announce(t)
    BY <1>1, <2>4, <2>5 DEF Lifecycle!Announce, phaseOf, clarOf, finalOf
  <2> QED
    BY <2>6 DEF Lifecycle!Next
<1> QED
  BY <1>2, <1>3

\* Seen through the stored tasks and the final comments, every behaviour of
\* the operator, stale caches, retries, lost replies and crashes included, is
\* a behaviour of the abstract life cycle.
THEOREM Refinement == Spec => ImplementsLifecycle
<1>1. Init => Lifecycle!Init
  BY DEF Init, NoObject, Lifecycle!Init
<1>2. ThreadInv /\ [Next]_vars => [Lifecycle!Next]_(Lifecycle!vars)
  <2> SUFFICES ASSUME ThreadInv, [Next]_vars
               PROVE  Lifecycle!Next \/ UNCHANGED Lifecycle!vars
    OBVIOUS
  <2>1. /\ ObjMoved
        /\ comments' = comments \/ (obj' = obj /\ Posts)
    BY StepFresh, StepThread DEF ThreadInv
  <2>2. CASE obj' = obj /\ Posts
    BY <2>2, PostSimulates
  <2>3. CASE comments' = comments
    BY <2>1, <2>2, <2>3, MovedSimulates DEF ObjMoved, Posts
  <2> QED
    BY <2>1, <2>2, <2>3
<1> QED
  BY <1>1, <1>2, InitThread, StepThreadInv, PTL
  DEF Spec, ImplementsLifecycle, Lifecycle!Spec

=============================================================================
