----------------------------- MODULE TownProofs -----------------------------
(***************************************************************************)
(* Proofs about ClaudeTown: what is proved of the tasks holds of them with *)
(* the gates and repositories around them, and the operator does not       *)
(* listen to itself when all its clients comment under the login that the  *)
(* gates know.                                                             *)
(***************************************************************************)
EXTENDS ClaudeTown, TaskSandboxProofs

\* A step of the whole is a step of the tasks or leaves them alone.
LEMMA TownStepTasks == [TownNext]_townVars => [Next]_vars
<1> SUFFICES ASSUME [TownNext]_townVars PROVE [Next]_vars
  OBVIOUS
<1>1. ASSUME NEW d \in Tasks, Arrive(d) \/ PassOrRefuse(d)
      PROVE  UNCHANGED vars
  BY <1>1 DEF Arrive, PassOrRefuse
<1>2. ASSUME NEW d \in Tasks, Accept(d)
      PROVE  Next
  BY <1>2 DEF Accept, Next, Handle
<1>3. CASE Work
  BY <1>3 DEF Work, Next
<1>4. CASE TaskStep
  BY <1>4 DEF TaskStep, Next, Handle
<1>5. CASE RepositoryStep
  BY <1>5 DEF RepositoryStep
<1>6. CASE Restart
  BY <1>6 DEF Restart, Next
<1>7. CASE UNCHANGED townVars
  BY <1>7 DEF townVars
<1> QED
  BY <1>1, <1>2, <1>3, <1>4, <1>5, <1>6, <1>7 DEF TownNext

\* So the whole behaves towards its tasks as TaskController says.
LEMMA TownTasks == TownSpec => Spec
<1>1. TownInit => Init
  BY DEF TownInit
<1> QED
  BY <1>1, TownStepTasks, PTL DEF TownSpec, Spec

\* With the gates, the clients that come and go with the repositories and the
\* questions that come back as deliveries, the operator keeps what TaskController
\* promises of a task, its claim and its thread.
THEOREM TownKeepsTasks ==
    TownSpec => /\ [](OneOpenQuestion /\ CostNotOverReported)
                /\ [](SandboxHeld /\ ClaimNotLeft /\ KeyNotLost)
                /\ [](CommentedOnce /\ ReplyCountsOnce)
                /\ AnswersKept /\ ReplyReachesQuestion
                /\ TerminalIsFinal /\ ImplementsLifecycle
BY TownTasks, QuestionsInOrder, CostsCovered, SandboxKept,
   SandboxLeftOnlyByFault, KeysKept, CommentsOnce, RepliesCountOnce,
   AnswersStay, RepliesReachQuestions, TerminalStays, Refinement, PTL

-----------------------------------------------------------------------------
(* The operator's own questions.                                           *)

\* A delivery of an own comment is at the first gate or was ignored there, and
\* its handler has done nothing.
EchoInv ==
    /\ hpc \in [Tasks -> HandlerPCs]
    /\ gpc \in [Tasks -> Gate!GatePCs]
    /\ \A d \in Echoes : hpc[d] = "new" /\ gpc[d] \in {"new", "ignored"}

\* The reconciler's calls are not about deliveries.
LEMMA CallKeepsHandlers == Call => UNCHANGED hpc
BY DEF Call, CreateClaim, SetRunning, StartComment, WaitForReady, SetPod,
       GetCloneToken, ExecInPod, SaveCost, Ask, AskComment, Complete, FailTask,
       FinalComment, DeleteClaim, handlerVars

\* A task's handler only moves once the gates have opened for its delivery.
LEMMA EchoTasks ==
    ASSUME EchoInv, TownNext
    PROVE  /\ hpc' \in [Tasks -> HandlerPCs]
           /\ \A d \in Echoes : hpc'[d] = "new"
<1> USE TownAssumption
<1>1. CASE UNCHANGED hpc
  BY <1>1 DEF EchoInv
<1>2. ASSUME NEW d \in Tasks, Arrive(d) \/ PassOrRefuse(d)
      PROVE  UNCHANGED hpc
  BY <1>2 DEF Arrive, PassOrRefuse, vars
<1>3. ASSUME NEW d \in Tasks, NEW pc \in HandlerPCs,
             hpc' = [hpc EXCEPT ![d] = pc], d \notin Echoes
      PROVE  /\ hpc' \in [Tasks -> HandlerPCs]
             /\ \A e \in Echoes : hpc'[e] = "new"
  BY <1>3 DEF EchoInv
<1>4. ASSUME NEW d \in Tasks, Accept(d)
      PROVE  /\ hpc' \in [Tasks -> HandlerPCs]
             /\ \A e \in Echoes : hpc'[e] = "new"
  <2>1. gpc[d] \in {"label", "user", "permission"}
    BY <1>4 DEF Accept, Judge, Gate!MatchLabel, Gate!IsUserAllowed,
                Gate!CheckPermission
  <2>2. d \notin Echoes
    BY <2>1 DEF EchoInv
  <2>3. PICK pc \in HandlerPCs : hpc' = [hpc EXCEPT ![d] = pc]
    BY <1>4 DEF Accept, HandleMention, HandleLabel, HandlerPCs
  <2> QED
    BY <1>3, <2>2, <2>3
<1>5. ASSUME NEW d \in Tasks, ResumeClarification(d) \/ CreateTask(d)
      PROVE  /\ hpc' \in [Tasks -> HandlerPCs]
             /\ \A e \in Echoes : hpc'[e] = "new"
  <2>1. hpc[d] # "new"
    BY <1>5 DEF ResumeClarification, CreateTask
  <2>2. PICK pc \in HandlerPCs : hpc' = [hpc EXCEPT ![d] = pc]
    BY <1>5 DEF ResumeClarification, CreateTask, HandlerPCs
  <2> QED
    BY <1>3, <2>1, <2>2 DEF EchoInv
<1>6. ASSUME NEW t \in Tasks, Deliver(t) \/ DeleteTask(t) \/ Reconcile(t) \/ Tick
      PROVE  UNCHANGED hpc
  BY <1>6 DEF Deliver, DeleteTask, Reconcile, Tick, handlerVars
<1>7. CASE TaskStep
  <2>1. CASE Tick
    BY <1>1, <2>1 DEF Tick, handlerVars
  <2> QED
    BY <1>1, <1>5, <1>6, <1>7, <2>1 DEF TaskStep
<1>8. CASE Work
  BY <1>1, <1>8, CallKeepsHandlers DEF Work
<1>9. CASE RepositoryStep
  BY <1>1, <1>9 DEF RepositoryStep, vars
<1>10. CASE Restart
  BY <1>10 DEF Restart, Crash, EchoInv, HandlerPCs
<1> QED
  BY <1>1, <1>2, <1>4, <1>7, <1>8, <1>9, <1>10 DEF TownNext

\* An own comment does not concern the gates.
LEMMA EchoGates ==
    ASSUME EchoInv, TownNext, GlobalLogin = Bot, PatLogin = Bot
    PROVE  /\ gpc' \in [Tasks -> Gate!GatePCs]
           /\ \A d \in Echoes : gpc'[d] \in {"new", "ignored"}
<1> USE TownAssumption
<1>1. CASE UNCHANGED gpc
  BY <1>1 DEF EchoInv
<1>2. \A d \in Echoes : ~Gate!Concerns(Delivery[d])
  BY DEF Gate!Concerns, Gate!HandleIssueComment, Gate!HandlePRReview,
         Gate!HandlePRReviewComment, Gate!IsBotComment
<1>3. ASSUME NEW d \in Tasks, NEW pc \in Gate!GatePCs,
             gpc' = [gpc EXCEPT ![d] = pc],
             d \in Echoes => pc = "ignored"
      PROVE  /\ gpc' \in [Tasks -> Gate!GatePCs]
             /\ \A e \in Echoes : gpc'[e] \in {"new", "ignored"}
  BY <1>3 DEF EchoInv
<1>4. ASSUME NEW d \in Tasks, Arrive(d)
      PROVE  /\ gpc' \in [Tasks -> Gate!GatePCs]
             /\ \A e \in Echoes : gpc'[e] \in {"new", "ignored"}
  <2>1. PICK pc \in Gate!GatePCs : /\ gpc' = [gpc EXCEPT ![d] = pc]
                                   /\ d \in Echoes => pc = "ignored"
    BY <1>2, <1>4 DEF Arrive, Gate!Receive, Gate!Pass, Gate!GatePCs, Gate!Answers
  <2> QED
    BY <1>3, <2>1
<1>5. ASSUME NEW d \in Tasks, Judge(d)
      PROVE  /\ gpc' \in [Tasks -> Gate!GatePCs]
             /\ \A e \in Echoes : gpc'[e] \in {"new", "ignored"}
  <2>1. gpc[d] \in {"label", "user", "permission"}
    BY <1>5 DEF Judge, Gate!MatchLabel, Gate!IsUserAllowed, Gate!CheckPermission
  <2>2. PICK pc \in Gate!GatePCs : gpc' = [gpc EXCEPT ![d] = pc]
    BY <1>5 DEF Judge, Gate!MatchLabel, Gate!IsUserAllowed, Gate!CheckPermission,
                Gate!Pass, Gate!GatePCs, Gate!Answers
  <2>3. d \notin Echoes
    BY <2>1 DEF EchoInv
  <2> QED
    BY <1>3, <2>2, <2>3
<1>6. CASE Work \/ TaskStep \/ RepositoryStep
  BY <1>1, <1>6 DEF Work, TaskStep, RepositoryStep, gates
<1>7. CASE Restart
  BY <1>7 DEF Restart, Gate!RestartWebhooks, EchoInv, Gate!GatePCs, Gate!Answers
<1> QED
  BY <1>4, <1>5, <1>6, <1>7 DEF TownNext, PassOrRefuse, Accept

\* The operator does not answer its own questions, nor start tasks with them,
\* as long as all its clients comment as the bot: repositories, deliveries,
\* tasks, faults and crashes may be any.
THEOREM DeafToItself ==
    ASSUME GlobalLogin = Bot, PatLogin = Bot
    PROVE  TownSpec => []OwnQuestionsIgnored
<1>1. TownInit => EchoInv
  BY TownAssumption DEF TownInit, Init, Gate!WebhookInit, EchoInv, HandlerPCs,
                        Gate!GatePCs
<1>2. EchoInv /\ [TownNext]_townVars => EchoInv'
  <2>1. ASSUME EchoInv, TownNext
        PROVE  EchoInv'
    BY <2>1, EchoTasks, EchoGates DEF EchoInv
  <2>2. ASSUME EchoInv, UNCHANGED townVars
        PROVE  EchoInv'
    BY <2>2 DEF townVars, vars, gates, EchoInv
  <2> QED
    BY <2>1, <2>2
<1>3. EchoInv => OwnQuestionsIgnored
  BY DEF EchoInv, OwnQuestionsIgnored
<1> QED
  BY <1>1, <1>2, <1>3, PTL DEF TownSpec

=============================================================================
