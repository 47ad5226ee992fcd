# A TLA+ model of Claude Town

Claude Town is a Kubernetes operator: a mention of the bot on GitHub becomes a
`ClaudeTask`, a sandbox is claimed, Claude runs in it by `kubectl exec`, may
ask questions that a person answers on GitHub, and ends with a comment. Which
repositories and people are served is configured by `ClaudeRepository`
resources. This directory models the life of a task, what happens in one pass
over a running task, the repository reconciler, the gates of the webhook
handlers, and the whole of them in one process; it checks the models with TLC on
small instances, and proves with TLAPS, for every instance, each safety property
that a passing run checks.

## 1. The system

| component | state | operations | source |
|---|---|---|---|
| webhook handlers | none of their own; one goroutine per delivery | gates, then resume a waiting task or create one | `internal/webhook/github.go` |
| task creation and resumption | a copy of the task between the cached list and the update | `CreateTask`, `ResumeClarification`, allowlist queries | `cmd/main.go` |
| ClaudeTask reconciler | a copy of the task for one `Reconcile` | Pending, Running, Waiting, the final states; comments; claims | `internal/controller/claudetask_controller.go` |
| sandbox client | none; `SandboxClaim` objects in the cluster | `ClaimName`, `CreateClaim`, `WaitForReady`, `DeleteClaim` | `internal/sandbox/client.go` |
| ClaudeTask resource | phase, claim, pod, exchanges, cost, times | stored by the API server with optimistic concurrency | `api/v1alpha1/claudetask_types.go` |
| ClaudeRepository reconciler | webhook IDs in the status | create and delete hooks, per-repository clients, fill the allowlist | `internal/controller/clauderepository_controller.go` |
| allowlist cache | maps under a mutex | exact and regex lookup, clients, merged user and role lists | `internal/controller/allowlist_cache.go` |
| Claude output, cost report | none | find the JSON result, markers, PR URL, add costs | `internal/controller/claudetask_controller.go` |
| GitHub clients | a cached installation token | comments, tokens, threads, hooks, permissions | `internal/github/` |

How they interact: the handlers and the reconciler never call one another. They
meet in the `ClaudeTask` objects. Both read them from the informer cache, which
lags behind the API server, and write them with the resourceVersion they read,
so that a write from an old version is refused. The reconcilers fill the
allowlist that the handlers query. Sandbox claims are named after the
repository and the issue, so tasks can meet in a claim as well.

What is hard in it:

- every call of a reconcile can fail, or be applied while its reply is lost,
  and the whole reconcile is then repeated on whatever the cache shows;
- replies race with one another, with the timeout and with the reconciler;
- the operator can die between any two calls, most painfully between a run of
  Claude and the update that records it, and between the final update and the
  deletion of the claim;
- claims are shared by name without any count of their users;
- a task that is not requeued, or that panics in the only worker, may stay
  where it is;
- a pass over a running task holds the only worker for as long as it waits for a
  sandbox and for Claude; it reads what others change meanwhile, sandboxes by
  read and watch, comments page by page;
- GitHub delivers the operator's own comments to it like anybody's.

`PROJECT.json` lists these hazards line by line with the properties that cover
them.

What makes each part correct: a handler resumes at most one task, overwrites
no answer and does not pass an open question by; the reconciler takes a task only along its life cycle, comments once
per event, reports no more usage than there was, keeps the sandbox while the
task needs it and lets it go afterwards, and settles every task; the allowlist
and the repository reconciler agree with the `ClaudeRepository` objects; a
repository that is served has a hook whose ID the resource knows; a
delivery is refused only for a reason that the resources give, and none that the
operator wrote is taken for a person's; a run works with the client of its
repository once that is served; a wait returns the pod of a sandbox that
was ready and misses no readiness; a thread is fetched in order and in bounds;
and the outcome of a run is that of the last object it wrote, its cost close to
the sum of what the runs reported.

## 2. The modules

- **ClaudeTask** – the resource as data: what a delivery turns into
  (`IssueNumber`, `PullRequestNumber`), `ClaimName`, the stored `Object`,
  `MaxRounds`, and which waiting task a reply `Matches`. A task has the name of
  the delivery that would create it, an answer the name of the delivery that
  carried it. Names of owners and repositories are sequences of segments,
  because `ClaimName` loses the difference between separators.
- **TaskController** – the system: handlers, API server, informer, work queue,
  the reconciler's one worker, the claims, the clock and the comments.
  `wpc`/`hpc` name the next call to another process; everything the code does
  between two such calls is one step. `obj[t]` is what is stored, `watch[t]`
  the versions on their way to `cache[t]`, `wcopy` and `hcopy[d]` the copies in
  memory, each with its `rv`. The API server, the informer, deletion by a
  person, time and restarts are external to the repository and modelled by
  what its code relies on.
- **TaskLifecycle** – the abstract specification: phases, exchanges and the
  final comment of each task, with atomic steps and no copies.
- **Allowlist** – the specification of a `ClaudeRepository` and the cache of
  them, as operators: each holds the mutex from beginning to end. A regular
  expression is the set of names it matches (`Covers`); one that does not
  compile is in `Invalid`. Where several patterns match, `Found` has them all,
  because a Go map has no order.
- **RepositoryController** – the `ClaudeRepository` reconciler with its own API
  server objects, informer, queue and one worker (`rpc`, `rres`, `rcopy`), the
  allowlist and the hooks on GitHub.
- **WebhookHandler** – extends RepositoryController by the gates of each
  delivery (`gpc[d]`), one step per query of the allowlist and per call.
- **SandboxWait** – `WaitForReady` and `waitForSandboxName`: two objects that
  another controller changes, read and watched by the client under one deadline.
  `spc` names its next call, `events` what the open watch still has for it.
- **ThreadContext** – `fetchThreadContext` with the calls of the two GitHub
  clients, page by page, while people write and delete comments.
- **Subsequences** – the elements of a sequence that a loop keeps, by their
  positions (`ElementsAt`), as in the loops of both GitHub clients over the
  comments of a page (`Kept`). It says what `SelectSeq` says, whose recursive
  definition the provers cannot use.
- **ClaudeOutput** – pure functions: the JSON object that `parseClaudeOutput`
  finds, the markers in its result, the outcome they call for, and the `$%.4f`
  round trip of the estimated cost; with a reference that reads the output from
  its beginning. The nesting of braces at a position (`Level`) is the difference
  of two cardinalities.
- **RunningPass** – extends these three to `reconcileRunning` in detail, pass
  after pass of one task. TaskController takes each of the parts as one step.
- **ClaudeTown** – TaskController and an instance of WebhookHandler in one
  process: the last gate of a delivery is also the first step of its handler, a
  restart is one of both, the client that the worker resolves depends on the
  allowlist, and a posted question is delivered back.
- **MCTaskController**, **MCRepositoryController**, **MCWebhookHandler**,
  **MCRunningPass**, **MCClaudeTown** – the constants of the runs.
- **TaskControllerProofs**, **TaskStoreProofs**, **TaskThreadProofs**,
  **TaskSandboxProofs** – the theorems about tasks, each module on top of the
  previous one.
- **RepositoryProofs**, **WebhookProofs** – those about the reconciler of
  repositories with the allowlist, and about the gates, which extend them.
- **RunningProofs**, **TownProofs** – those about RunningPass and ClaudeTown.

Actions and code: `HandleMention`, `HandleLabel`, `ResumeClarification`,
`CreateTask` are the parts of a handler; `Reconcile` is the read from the cache
and the dispatch on the phase; `CreateClaim`, `SetRunning`, `StartComment` are
`reconcilePending`; `WaitForReady`, `SetPod`, `GetCloneToken`, `ExecInPod`,
`SaveCost`, `Complete` and the tail shared with `failTask` (`FinalComment`,
`DeleteClaim`) are `reconcileRunning`; `Ask`, `AskComment` are
`handleClarification`; `FailTask` is `failTask`. In RepositoryController,
`ReconcileRepository` is `Reconcile` up to its first call, `BuildPATClient`,
`CreateHook` and `SaveHook` are its calls, each with what follows it, and
`DeleteHook` and `Forget` are `cleanupRepo`. In WebhookHandler, `Receive` is a
handler up to `IsRepoAllowed`, `MatchLabel` the label check of
`handleIssuesEvent`, `IsUserAllowed` and `CheckPermission` the method of
`taskCreator`. In SandboxWait every read, opening of a watch and event is an
action (`GetClaim`, `RecheckClaim`, `OpenClaimWatch`, `ClaimEvent`, `GetSandbox`,
`OpenSandboxWatch`, `SandboxEvent`, `WatchTimeout`), and the changes of the two
objects are `Cluster`; in ThreadContext, `GetHeader`, `GetComment`, `ListPage`
and `ListFails` are calls of the clients, and `People` write and delete. In
RunningPass, `Begin`, `WaitForReady`, `SetPod`, `GetCloneToken`, `FetchThread`,
`StartRun` (the start of the exec), `EndRun`, `SaveCost`, `Ask`,
`Finish` follow `reconcileRunning` line by line, and `Answer` is
`ResumeClarification`. In ClaudeTown, `Arrive`, `PassOrRefuse` and `Accept` are a
handler up to and including its last gate, `Work` a call of the task reconciler
with the client that the pass has resolved (`own`). The mutated operators that
stand before some definitions are plausible slips in the code; TLC refutes the
properties for each of them.

Abstractions: text (prompts, commands, comments, PR URLs) is left out; of the
output of a run only the set of markers and one unit of usage remain; a
GitHub client resolves for a repository or it does not, for ever; a pod is
named by the generation of its claim; a new claim's sandbox is ready when it is
waited for, or the wait fails as a fault. A run that the crash of the operator
interrupts has no effect and no reported usage. What the commands of a run do in
the pod is left out but for their output. `Kinds` has the two pull
request events; they differ only in text, and the runs use reviews.

GitHub refuses a second hook with the same URL and events on a repository; this
is the one thing the repository model assumes of it. People edit and delete
resources; a deletion is an ordinary one, after which the object is gone at
once, or a foreground one, during which the reconciler sees the
DeletionTimestamp. A missing Secret counts as a fault. Nobody edits a resource
that is being deleted, or removes a hook by hand. `Delete` and `DeleteClient` at the end of
`cleanupRepo` are one step: no query of a handler reads both maps. A delivery
that reaches the gates is authentic and well formed: the checks of method,
signature and JSON are left out. An accepted delivery is where TaskController
begins; ClaudeTown puts the two together.

In RunningPass the only writer of the task is the pass itself: an update may be
refused for any reason, and what other writers do to the stored task is
TaskController's subject. The objects of a wait are in any state when it begins.
An output is a sequence of tokens: braces of JSON objects, `total_cost_usd`,
markers, and any other text, which may itself have braces; a comment is its ID.
Costs are whole units with `Scale` of them in the last digit that `$%.4f` keeps.
What is fetched depends on the type of the task, which is chosen for each fetch.
In ClaudeTown the echoes, the deliveries that can carry an own question, are
chosen beforehand; the login of a question is that of the client resolved for
the pass. Start and final comments mention nobody and are not echoed.

## 3. The runs

Instances of `MCTaskController` (Task*). Bounds: one to three deliveries, at most
one fault, crash and deletion (`MaxFaults`, `MaxCrashes`, `MaxDeletes`), the
usage of a task (`MaxSpend`), and `Timeout` in ticks of a clock that stops just
past it.

| run | instance | checks | result |
|---|---|---|---|
| TaskFaults | two deliveries on an issue (symmetric), one fault, one deletion | types, questions, costs, sandbox, claims left, comments, answers, replies and the questions they reach, terminal phases, refinement of `TaskLifecycle` | holds |
| TaskSettles | two deliveries on an issue, one fault and one crash, fair | sandbox, comments, keys, refinement; every task settles | holds |
| TaskReleased | a thread of two deliveries, and a task without GitHub client; no fault or crash, fair | every other task settles, the claim is deleted in the end | holds |
| TaskLeak | one crash, fair | the claim is deleted in the end | violated |
| TaskSharedClaim | reviews of two pull requests | a resumed run finds its clone | violated |
| TaskEarlyTimeout | one issue, timeout of one tick | no timeout before the question is that old | violated |

Instances of `MCRepositoryController` (Repo*) and `MCWebhookHandler`
(Webhook*). Bounds: one to three resources, one to three specifications for each, `MaxEdits` creations, edits and deletions,
at most one fault and one crash.

| run | instance | checks | result |
|---|---|---|---|
| RepoServed | two resources of one repository and one of another, three edits, one fault, one crash, fair | types, the allowlist has what is stored, recorded hooks exist; the allowlist converges, repositories get hooks | holds |
| RepoHookLeft | one resource, created and deleted, fair | every hook is recorded by a live resource in the end | violated |
| WebhookGates | three deliveries, a valid and an invalid pattern, three edits, one fault, one crash | types, global users, refusals | holds |

The instances of `MCClaudeTown` have one issue of one repository, a label, a
person's reply and the operator's own question, and a resource with a token that
one edit creates; that of `MCRunningPass` one task.

| run | instance | checks | result |
|---|---|---|---|
| Town | bot and tokens share a login; two rounds, one crash | own questions are ignored; a run has its repository's own client once the repository is served | holds |
| TownPAT | the token belongs to somebody else; one round, no crash | own questions are ignored | violated |
| RunningPass | two runs, one round; three changes of the sandbox in each wait; four comments, pages of two with a cap of one, two fit; outputs of up to four tokens; fair | types, readiness, pod, order, bounds and completeness of the thread, decision, estimate; a pass ends | holds |

The violated properties are sentences of the README, of a comment or of a log
message that the code does not live up to; `PROJECT.json` quotes them under
"findings". In TaskLeak and TaskSharedClaim the counterexample is a loss of a
sandbox (kept for ever, or taken away under a waiting task); in RepoHookLeft
that of a hook; in TownPAT the operator answers its own question, or makes a task
of it.

A passing property that a violated one resembles is the part that does hold:
`RecordedHookExists` in RepoServed has resources that keep their repository;
`OwnQuestionsIgnored` in Town, clients whose login the gates know; `ClaimNotLeft`
in TaskFaults, the executions in which no call has failed yet.
`AllowlistCurrent` is about resources that are alone with their names;
`AllowlistConverges` covers the shared ones, which periodic resyncs put right.

Why the bounds are enough to meet the cases: two deliveries on one thread give
either two tasks that share a claim, or a task and its answer (that two answers
to one question race, or that one finds its question answered by the other, is
left to the proofs of `AnswersKept` and `ReplyReachesQuestion`); one fault or one
crash reaches every point of every call; one round of questions with a timeout
of zero ticks has both outcomes of the timeout check, and two rounds, in Town,
the second question. The one edit of Town creates the resource, and the restart
then empties the allowlist, at any point of a pass: `OwnClientOnceServed` is
checked while the reconciler fills it again and after. A failed call of the
repository reconciler is left to RepoServed.
Three edits create two resources and change or delete one of them, or create,
delete and recreate one, at any point of a reconcile. Pages of two with a cap of
one are the code's pages of 100 and cap of 50 in proportion, and four comments
fill two pages. Three changes of a sandbox are: ready, deleted, created again. Two
runs are a question and the run after its answer, or a run that is repeated
because an update was refused; with a last digit of three units and a cost of up
to two, rounding goes both ways. Four tokens are an object with a marker in it
after a marker outside, or an object in an object. The
safety properties are proved without the bounds (section 4).

Fairness (`Fairness`): informer and worker are running goroutines (weak
fairness of `Deliver` and of the worker's next call); the work queue serves keys in order, so a key that keeps coming back
has its turn (strong fairness of `Reconcile`, which other keys disable again
and again); time passes (weak fairness of `Tick`). Nothing is assumed of the
people who reply, and a handler may stop. `RepositoryFairness` is the same for
the repository reconciler, with the periodic resync of the informer (weak
fairness of `Resync`), the only retry after a logged error, and the garbage
collector, which ends a foreground deletion (weak fairness of `Collect`). Faults and crashes are bounded, so
the liveness results say: once failures cease. In RunningPass
(`PassFairness`) the worker is a running goroutine, and the deadlines of the wait
(`sandboxReadyTimeout`) and of the run (`taskExecutionTimeout`) pass: weak
fairness of `Worker`, of the expiry and of `EndRun`. No watch is assumed to have
an event, and no sandbox to become ready.

That the worker's next call ends is in part an assumption about others. The wait
and the run have deadlines of their own. The HTTP clients of GitHub set no timeout
and the reconciler's context has none, so a GitHub call that is never answered
would hold the one worker for ever: that GitHub answers or closes the connection
is assumed, here and in the Task runs, and the same of the API server. Likewise
`PassEnds` is about threads to which finitely many comments are posted
(`MaxPosted`); somebody who posts a full page for every page fetched is not
covered for review threads, which have no cap.

Deadlock is checked in the Task runs, where the clock always ticks, so this
only says that the model does not get stuck by mistake; progress is what
the liveness runs are for; the same goes for the Town runs. It is not checked in
the Repo and Webhook runs, where with every resource deleted and every delivery
answered there is nothing to do, and in RunningPass, where the runs are bounded
and a task may be over.

## 4. The proofs

Proved for every set of deliveries, every event, bound and timeout, from the
assumptions on the constants (`EventAssumption`, `RoundsAssumption`,
`ClientAssumption`, `NoneAssumption`, `BoundsAssumption`), and for every set of
resources, specifications, patterns, lists and deliveries
(`RepositoryAssumption`, `AllowlistAssumption`, `DeliveryAssumption`), every
cap, page size, scale, cost and number of changes and runs (`WaitAssumption`,
`ThreadAssumption`, `ScaleAssumption`, `PassAssumption`), and for the whole
(`TownAssumption`):

| theorem | statement |
|---|---|
| `TypeCorrect` | `Spec => []TypeOK` |
| `QuestionsInOrder` | `Spec => []OneOpenQuestion` |
| `CostsCovered` | `Spec => []CostNotOverReported` |
| `TerminalStays` | `Spec => TerminalIsFinal` |
| `AnswersStay` | `Spec => AnswersKept` |
| `RepliesCountOnce` | `Spec => []ReplyCountsOnce` |
| `RepliesReachQuestions` | `Spec => ReplyReachesQuestion` |
| `CommentsOnce` | `Spec => []CommentedOnce` |
| `Refinement` | `Spec => ImplementsLifecycle` |
| `SandboxKept` | `Spec => []SandboxHeld` |
| `KeysKept` | `Spec => []KeyNotLost` |
| `SandboxLeftOnlyByFault` | `Spec => []ClaimNotLeft` |
| `RepositoryTypeCorrect` | `RepositorySpecification => []RepositoryTypeOK` |
| `AllowlistAgrees` | `RepositorySpecification => []AllowlistCurrent` |
| `RecordedHooksExist` | if resources keep their repository, `RepositorySpecification => []RecordedHookExists` |
| `GateTypeCorrect` | `WebhookSpecification => []GateTypeOK` |
| `GlobalUsersPass` | `WebhookSpecification => []GlobalUserNotDenied` |
| `RefusalsJustified` | `WebhookSpecification => RefusedOnlyWhilePending` |
| `TownKeepsTasks` | `TownSpec` implies each of these properties of tasks but `TypeOK` |
| `DeafToItself` | if both logins are the bot's, `TownSpec => []OwnQuestionsIgnored` |
| `PassTypes` | `PassSpec => []PassTypeOK` |
| `ReadinessNotMissed` | `PassSpec => []ReadinessSeen` |
| `PodOnceReady` | `PassSpec => []PodWasReady` |
| `IssueFetchBounded` | `PassSpec => []FetchBounded` |
| `OrderKept` | `PassSpec => []FetchedInOrder` |
| `FetchComplete` | `PassSpec => ThreadComplete` |
| `LastObjectDecides` | `PassSpec => []DecidedByLastObject` |
| `EstimateStaysClose` | `PassSpec => []EstimateClose` |

The argument for the tasks, as a chain of inductive invariants, each of which
contains the previous one:

1. `TypeInv`: types, and that the worker waits only for a claim that exists.
2. `GoodInv`: *every copy* of a task (stored, in flight, cached, held by the
   worker or by a handler) is `Good`: its questions are in order, its claim is
   the task's, its cost is covered; and the phase of the worker's copy is the
   one its next call expects. The properties of the stored objects alone are
   not inductive, since copies are written back.
3. `FreshInv`: a copy with the stored version *is* the stored object
   (up to what the worker adds, `WorkerCopyOf`), and none is newer. Hence an
   accepted update starts from the stored object, and every change of a stored
   object is one of the moves of the life cycle (`Moved`). The action properties
   and the refinement follow. That a reply counts once (`ReplyInv`) relates the
   stored answers to where the handler of the reply is: an answer is recorded
   only by the handler that carries it, in the one step in which it leaves
   `ResumeClarification`.
4. `ThreadInv`: ahead of each comment, the comment has not been posted, because
   the worker got there by an accepted update that cannot be repeated.
5. `HeldInv`: the claim of a task that is alone with it is live from
   `CreateClaim` on; only the worker changes claims, and it deletes one only
   after the stored phase of its task has become final.
6. `KeyInv`, on top of `ThreadInv`: the stored version is in the cache or on its
   way there (`SeenInv`). Hence what the worker drops because it looks finished
   is finished, unless a newer version will bring the key back; a reconcile that
   asked a question leaves the new version behind, and all others that return
   without the key leave a task that has ended.
7. `PastInv`, likewise: among the versions of a task none that is pending is newer
   than one that has begun. Hence an ended task is not pending in the cache, nor in
   the hands of a worker that is about to create a claim. Without a fault the
   update that ends a task is followed by the deletion of its claim.
8. `LateInv`, on top of `SeenInv`: a version in which a task waits is followed only
   by versions in which that question is answered or the task has ended
   (`Overtaken`), in flight, in the cache and in the handler's hands. Nothing the
   reconciler writes gets in between, since a waiting task is moved by an answer,
   the timeout or a deletion alone (`Moved`). Hence a handler whose update is
   refused comes too late for the question, and one that finds no waiting task in
   the cache misses only a version that is still in flight.

`KeyNotLost` and `ClaimNotLeft` are what `EveryTaskSettles` and `SandboxReleased`
rest on and what can be proved of them; that the key is then taken, and the calls
made, is the fairness of queue and worker.

For the repositories (`RepositoryInv`) it follows a version of a resource on its
way to the allowlist, since stored object and allowlist alone say nothing about
what the worker is about to write:

1. `VersionInv`: what travels to the cache are versions of the resource up to the
   stored one, which is among them unless the cache already has it.
2. `WorkerInv`: the worker's copy is the cached version, unless the key has been
   queued again meanwhile.
3. `CachedInv`: of a resource that is neither queued nor in the worker's hands,
   the allowlist has the cached version.

On top of it `HookInv` follows the webhook IDs: no two resources have the same one
in any version (`OwnHooks`), a resource that was created again has not that of a
deleted version which the reconciler may still see (`EndedHooks`), and the hook
in the worker's hands is either created and recorded nowhere yet, or about to be
deleted and recorded by no live resource (`WorkerHook`). `RecordedHooksExist`
assumes that every specification of a resource names the same repository, as in
RepoServed: a resource that is edited to another one keeps the ID of the old hook.

The gates (`GateInv`) leave that invariant alone, because they change nothing the
reconciler reads but the number of faults left, so that the theorems about
repositories hold of the two together. A merged list contains the global one at
every moment (`MergedLemma`), hence a user on it passes whenever the gate asks;
and a refusal means that the allowlist has no entry for the name at that moment,
which by `AllowlistCurrent` leaves only a resource that is pending.

The whole (TownProofs) restricts when the handlers of TaskController start and
adds variables, so that each of its steps is one of TaskController or leaves that
alone (`TownStepTasks`); `TownKeepsTasks` carries the theorems over and has no
other content. `EchoInv` says that a delivery of an own
comment has not got past the first gate.

A pass is taken apart by `StepParts`: each step is one of the wait, one of the
fetch, or leaves them alone.

1. `WaitInv`: an open watch of something that is there now has an event that says
   so on its way, or its end (`ReadinessSeen`), and every ready version it still
   has was ready since the call (`ReadyKnown`); the watch begins with the object
   as it is, which closes the gap after the read.
2. `FetchTyped`: types, and that a fetch which has listed no page yet has
   nothing and is on page one.
3. `CapInv`: while more pages are to be fetched of an issue, the cap is not
   reached; a page adds at most `PerPage`.
4. `OrderInv`: IDs increase along the thread and along what was fetched, and
   what was fetched is older than all that stands on pages still to come. The
   last part survives a deletion because a comment only moves to an earlier
   position: one that is now beyond a page was beyond it before. That nothing is
   fetched twice follows; that nothing is skipped does not.
5. `WholeInv`: as long as nothing was deleted, what was fetched is what is wanted
   of the first `(page - 1) * PerPage` comments. The step needs that filtering
   page by page is filtering the whole (`KeptConcat`), and that people only
   append.
6. `CostInv`: each rounding adds at most half a digit to the error.
7. `WorkerInv`: types of the worker's variables, and that a pass which has not
   come to its run has a run left.

The lemmas on sequences at the beginning of RunningProofs count positions: `Nth`
exists and increases (`NthFacts`), and the cardinality of a set of positions is
that of the set shifted (`MovedCardinality`). They are proved once, from the
library's theorems on finite sets.

`LastObjectDecides` needs no invariant but the type of the output. Of two opening braces from
which the rest parses, the later would lie within the object of the earlier
(`OneCandidate`), so the scan from the end has at most one to find; and in an
output that ends with its last top-level object, the brace that opens this is one
(`CandidatesAreObjects`, `ParseIsReference`). When text follows that object there
is no candidate, and the reference is the whole output, as in the code (section
6). Outputs in which an object is not ended are outside the property
(`WellFormed`).

Only model-checked, because the prover has no support for it: the liveness
properties `EveryTaskSettles`, `SandboxReleased`, `AllowlistConverges`,
`RepositoriesServed` and `PassEnds`, and the counterexamples. `OwnClientOnceServed` is only
model-checked as well, though in the prover's reach: it needs an invariant of the
clients as `CachedInv` is one of the specifications.

## 5. Not modelled, and what is left

Left out for good: flags, certificates, metrics and wiring in `cmd/main.go`;
HTTP, signatures and JSON of deliveries and clients; the wording of prompts,
comments and cost reports, and `parsePRURL`, whose result is only shown; the
layout of a fetched thread; `GetPodIP`, which has no caller; the generated
deep-copy code, the chart and the manifests.

## 6. Other disagreements between code and words

Met while modelling, evident from the code, and not kept as runs:

- A reply on the conversation of a pull request is an `issue_comment` whose
  `Issue` is set, and review tasks have issue 0 (`cmd/main.go:163`): it resumes
  nothing and starts a second task, where `README.md:163` says that a reply
  mentioning the bot resumes the work.
- Without GitHub credentials `reconcileRunning` calls the nil client
  (`claudetask_controller.go:255`) and panics at every attempt; the log says
  "running without GitHub integration" (`cmd/main.go:363`). TaskReleased shows
  that such a task does not hold up the others.
- Nothing reads `maxConcurrentTasks` (`clauderepository_types.go:54`), and
  `labels` trigger tasks but do not restrict mentions, as the comment at
  `clauderepository_types.go:49` says they do.
- A deleted resource stays on the allowlist until a restart, although
  `IsRepoAllowed` "checks whether the given owner/repo has a ClaudeRepository
  resource" (`internal/webhook/github.go:37`).
- A resource edited to another repository keeps the ID of the old hook and gets
  no new one; one that gives up its `patSecretRef` keeps its client.
- The webhook server is started before the manager, which fills the allowlist
  (`cmd/main.go:460`): a mention that arrives in between is answered 200 with
  "repo not allowed" (`internal/webhook/github.go:192`) and lost, where
  `README.md:8` says that a mention becomes a task. `RefusedOnlyWhilePending`
  says when this can happen.
- `FetchIssueThread` "fetches the full issue thread" (`internal/github/client.go:147`):
  a comment that is deleted between two pages makes it skip another; the cap of
  50 is compared after a page of 100 was added, and only for issues; beyond cap
  and length it is the newest comments that are dropped.
- `parseClaudeOutput` finds "the last top-level JSON object in the output"
  (`claudetask_controller.go:633`) only if nothing follows it: with text after it
  the whole output is searched for markers and the cost is lost. Of a truncated
  output it may find a nested object.
- The commands of a run follow one another whether or not they succeed, and the
  status of the pipeline is that of `tee`, so Claude runs outside a clone that
  failed; a resumed run does not try to clone again. A pass that is repeated
  because its update was refused finds the clone of the run before: its `git
  clone` fails, and `cd repo` (`claudetask_controller.go:563`) still succeeds.
- `ResumeClarification` returns an error also when its update was applied and the
  reply lost; the handler logs the error and goes on to `CreateTask`
  (`internal/webhook/github.go:217`): the comment then both answers the question
  and starts a task. `ReplyCountsOnce` and `ReplyReachesQuestion`
  excuse a failed call.
- `IsUserAllowed` reads the merged lists after `IsRepoAllowed` has found the
  repository (`cmd/main.go:103`). If its entry is removed in between and there
  are no global lists, the lists are empty, which means that everybody is allowed;
  with global lists, these still decide. `GlobalUserNotDenied` is about the users
  on the global list only.
- A last event of a deleted sandbox whose condition is Ready counts as ready
  (`internal/sandbox/client.go:161`); `PodWasReady` says what is left of the
  promise.
- "Each GitHub comment includes a cost summary" (`README.md:169`), but a task
  that fails before its first run has none.
