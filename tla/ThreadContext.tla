---------------------------- MODULE ThreadContext ----------------------------
(***************************************************************************)
(* fetchThreadContext of the reconciler with the FetchIssueThread,         *)
(* FetchPRContext and FetchReviewCommentThread of the two GitHub clients:  *)
(* what people wrote, page by page, while they go on writing and deleting. *)
(*                                                                         *)
(* A comment is its ID, and IDs grow.                                      *)
(***************************************************************************)
EXTENDS Subsequences

CONSTANTS
    PerPage,              \* comments on a full page
    MaxCommentsPerThread,
    MaxThread,            \* the comments that fit into maxThreadChars
    InThread,             \* the comments of the review thread
    ByBot,                \* the comments written under the bot's login
    MaxPosted             \* bound on the comments people write

ASSUME ThreadAssumption ==
    /\ PerPage \in Nat \ {0}
    /\ MaxCommentsPerThread \in Nat \ {0}
    /\ MaxThread \in Nat
    /\ MaxPosted \in Nat

VARIABLES
    source,   \* what the task is about: its type and reviewCommentID
    thread,   \* the comments of the issue or pull request, oldest first
    posted,   \* the newest comment so far
    shifted,  \* a comment was deleted since the fetch began
    fpc,      \* the next call of fetchThreadContext
    page,     \* opts.Page
    fetched,  \* allComments, or threadComments
    context   \* what it returns

threadVars == <<source, thread, posted, shifted, fpc, page, fetched, context>>

\* An IssueSolve task; a PRReviewFix task without and with a review comment.
Sources == {"issue", "review", "reviewComment"}

FetchPCs == {"idle", "getHeader", "getComment", "list", "done"}

\* header: title and body of the issue or pull request.
NoContext == [header |-> FALSE, comments |-> <<>>]

ThreadTypeOK ==
    /\ source \in Sources
    /\ thread \in Seq(Nat)
    /\ posted \in 0 .. MaxPosted
    /\ shifted \in BOOLEAN
    /\ fpc \in FetchPCs
    /\ page \in Nat \ {0}
    /\ fetched \in Seq(Nat)
    /\ context \in [header : BOOLEAN, comments : Seq(Nat)]

ThreadIdle ==
    /\ source = "issue"
    /\ thread = <<>> /\ posted = 0 /\ shifted = FALSE /\ fpc = "idle"
    /\ page = 1 /\ fetched = <<>> /\ context = NoContext

\* fetchThreadContext is called for a task of some type (nothing else depends
\* on it); people have written any number of comments.
BeginFetch ==
    /\ fpc = "idle"
    /\ source' \in Sources
    /\ posted' \in 0 .. MaxPosted
    /\ thread' = [i \in 1 .. posted' |-> i]
    /\ fpc' = "getHeader"
    /\ UNCHANGED <<shifted, page, fetched, context>>

EndFetch ==
    /\ fpc = "done"
    /\ thread' = <<>> /\ posted' = 0 /\ shifted' = FALSE /\ fpc' = "idle"
    /\ page' = 1 /\ fetched' = <<>> /\ context' = NoContext
    /\ source' = "issue"

-----------------------------------------------------------------------------
(* People.                                                                 *)

Post ==
    /\ posted < MaxPosted
    /\ posted' = posted + 1
    /\ thread' = Append(thread, posted + 1)
    /\ UNCHANGED <<source, shifted, fpc, page, fetched, context>>

\* A deletion moves the later comments towards earlier pages.
DeleteComment ==
    \E i \in DOMAIN thread :
        /\ thread' = SubSeq(thread, 1, i - 1) \o SubSeq(thread, i + 1, Len(thread))
        /\ shifted' = TRUE
        /\ UNCHANGED <<source, posted, fpc, page, fetched, context>>

People == fpc \notin {"idle", "done"} /\ (Post \/ DeleteComment)

-----------------------------------------------------------------------------
(* The GitHub clients.  Any call may fail.                                 *)

Issue == source = "issue"

\* GitHub's page p, and whether the response names a next one.
Page(p) ==
    LET last == IF p * PerPage < Len(thread) THEN p * PerPage ELSE Len(thread)
    IN  SubSeq(thread, (p - 1) * PerPage + 1, last)

HasNext(p) == p * PerPage < Len(thread)

\* All comments of an issue, the thread's of a pull request.
Wanted(comments) == IF Issue THEN comments ELSE Kept(comments, InThread)

\* isBotUser comments are dropped; truncateThread keeps the beginning.
Formatted(comments) ==
    LET people == Kept(comments, Nat \ ByBot)
    IN  IF Len(people) <= MaxThread THEN people ELSE SubSeq(people, 1, MaxThread)

FetchGoto(pc) == fpc' = pc /\ UNCHANGED <<source, thread, posted, shifted, page>>

\* Issues.Get or PullRequests.Get.  Without it there is no issue context; a
\* review thread is fetched all the same.
GetHeader ==
    /\ fpc = "getHeader"
    /\ \E ok \in BOOLEAN :
         /\ context' = [context EXCEPT !.header = ok]
         /\ FetchGoto(IF Issue THEN IF ok THEN "list" ELSE "done"
                      ELSE IF source = "reviewComment" THEN "getComment" ELSE "done")
    /\ UNCHANGED fetched

\* PullRequests.GetComment: the root of the thread.
GetComment ==
    /\ fpc = "getComment"
    /\ FetchGoto("list") \/ FetchGoto("done")
    /\ UNCHANGED <<fetched, context>>

\* A failed list loses the part that was being fetched: for an issue, all.
ListFails ==
    /\ fpc = "list"
    /\ fetched' = <<>>
    /\ context' = IF Issue THEN NoContext ELSE context
    /\ FetchGoto("done")

\* The cap is meant for all threads.
LastPageMutant(all) == ~HasNext(page) \/ Len(all) >= MaxCommentsPerThread

\* The cap is forgotten.
LastPageUncappedMutant(all) == ~HasNext(page)

LastPage(all) == ~HasNext(page) \/ (Issue /\ Len(all) >= MaxCommentsPerThread)

\* opts.Page stays as it is.
ListPageMutant ==
    LET all == fetched \o Wanted(Page(page)) IN
    /\ fpc = "list"
    /\ fetched' = all
    /\ \/ /\ LastPage(all)
          /\ context' = [context EXCEPT !.comments = Formatted(all)]
          /\ FetchGoto("done")
       \/ /\ ~LastPage(all)
          /\ UNCHANGED <<source, thread, posted, shifted, fpc, page, context>>

ListPage ==
    LET all == fetched \o Wanted(Page(page)) IN
    /\ fpc = "list"
    /\ fetched' = all
    /\ \/ /\ LastPage(all)
          /\ context' = [context EXCEPT !.comments = Formatted(all)]
          /\ FetchGoto("done")
       \/ /\ ~LastPage(all)
          /\ page' = page + 1
          /\ UNCHANGED <<source, thread, posted, shifted, fpc, context>>

FetchStep == GetHeader \/ GetComment \/ ListFails \/ ListPage

-----------------------------------------------------------------------------
\* No comment is fetched twice and the order is that of the thread, whatever
\* people write and delete between two pages.
FetchedInOrder ==
    \A i, j \in DOMAIN fetched : i < j => fetched[i] < fetched[j]

\* Of an issue, fewer comments than the cap and one page are fetched; that is
\* what the cap amounts to, since it is compared after a page was added.
FetchBounded == Issue => Len(fetched) < MaxCommentsPerThread + PerPage

\* While nothing is deleted, nothing is skipped: a fetch that ends without an
\* error has every wanted comment of that moment, or an issue's cap.
ThreadComplete ==
    [][fpc = "list" /\ fpc' = "done" /\ fetched' # <<>> /\ ~shifted
       => fetched' = Wanted(thread)
          \/ (Issue /\ Len(fetched') >= MaxCommentsPerThread)]_threadVars

=============================================================================
