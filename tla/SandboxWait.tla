----------------------------- MODULE SandboxWait -----------------------------
(***************************************************************************)
(* WaitForReady of the sandbox client: from the name of a claim to a ready *)
(* sandbox and its pod, by reads and watches of two objects that another   *)
(* controller changes meanwhile, under one timeout.                        *)
(***************************************************************************)
EXTENDS Integers, Sequences

CONSTANTS
    MaxChanges,  \* bound on changes of the two objects during a wait
    Broken       \* the last event of a watch: an error, or the channel closed

\* gen numbers the sandboxes that had the name, and so their pods; annotated:
\* the pod-name annotation is set.
Sandbox == [exists : BOOLEAN, gen : Nat, ready : BOOLEAN, annotated : BOOLEAN]

\* bound: status.sandbox.Name is set.
Claim == [exists : BOOLEAN, bound : BOOLEAN]

ASSUME WaitAssumption ==
    /\ MaxChanges \in Nat
    /\ Broken \notin Sandbox \cup Claim

VARIABLES
    claim,     \* the SandboxClaim
    sandbox,   \* the Sandbox of the name that the claim is bound to
    changes,   \* changes still to come
    spc,       \* the next call of WaitForReady
    events,    \* the events of the open watch it has not taken yet
    expired,   \* the context's deadline has passed
    seenReady, \* pods of the ready versions there have been since the call
    result     \* what it returns

waitVars == <<claim, sandbox, changes, spc, events, expired, seenReady, result>>

WaitPCs == {"idle", "getClaim", "recheckClaim", "openClaimWatch", "claimWatch",
            "getSandbox", "openSandboxWatch", "sandboxWatch", "done"}

NoClaim == [exists |-> FALSE, bound |-> FALSE]

NoSandbox == [exists |-> FALSE, gen |-> 0, ready |-> FALSE, annotated |-> FALSE]

\* GetAnnotations()[PodNameAnnotation], 0 when it is missing.
PodName(s) == IF s.annotated THEN s.gen ELSE 0

Error == [ok |-> FALSE, pod |-> 0]

WaitTypeOK ==
    /\ claim \in Claim
    /\ sandbox \in Sandbox
    /\ changes \in 0 .. MaxChanges
    /\ spc \in WaitPCs
    /\ spc = "claimWatch" => events \in Seq(Claim \cup {Broken})
    /\ spc = "sandboxWatch" => events \in Seq(Sandbox \cup {Broken})
    /\ spc \notin {"claimWatch", "sandboxWatch"} => events = <<>>
    /\ expired \in BOOLEAN
    /\ seenReady \subseteq Nat
    /\ result \in [ok : BOOLEAN, pod : Nat]

\* Outside the call, the two objects are of no concern.
WaitIdle ==
    /\ claim = NoClaim
    /\ sandbox = NoSandbox
    /\ changes = 0
    /\ spc = "idle"
    /\ events = <<>>
    /\ expired = FALSE
    /\ seenReady = {}
    /\ result = Error

\* The versions of a sandbox that a wait may find.
FoundSandboxes == {s \in [exists : BOOLEAN, gen : {1}, ready : BOOLEAN,
                          annotated : BOOLEAN] : s.exists} \cup {NoSandbox}

\* WaitForReady is called; the objects are in any state.
BeginWait ==
    /\ spc = "idle"
    /\ claim' \in Claim
    /\ sandbox' \in FoundSandboxes
    /\ claim'.bound => claim'.exists
    /\ changes' = MaxChanges
    /\ spc' = "getClaim"
    /\ expired' = FALSE
    /\ seenReady' = IF sandbox'.ready THEN {PodName(sandbox')} ELSE {}
    /\ UNCHANGED <<events, result>>

EndWait ==
    /\ spc = "done"
    /\ claim' = NoClaim /\ sandbox' = NoSandbox /\ changes' = 0 /\ spc' = "idle"
    /\ events' = <<>> /\ expired' = FALSE /\ seenReady' = {} /\ result' = Error

-----------------------------------------------------------------------------
(* The cluster, while WaitForReady runs.                                   *)

Waiting == spc \notin {"idle", "done"}

\* An open watch has an event for every change; that of a deletion carries
\* the last version.
Notify(watch, version) ==
    events' = IF spc = watch THEN Append(events, version) ELSE events

ChangeClaim ==
    /\ changes > 0 /\ claim.exists
    /\ changes' = changes - 1
    /\ \/ /\ ~claim.bound
          /\ claim' = [claim EXCEPT !.bound = TRUE]
          /\ Notify("claimWatch", claim')
       \/ claim' = NoClaim /\ Notify("claimWatch", claim)
    /\ UNCHANGED <<sandbox, spc, expired, seenReady, result>>

\* Sandboxes come and go, with their conditions and annotations.
ChangeSandbox ==
    /\ changes > 0
    /\ changes' = changes - 1
    /\ \/ /\ ~sandbox.exists
          /\ sandbox' = [NoSandbox EXCEPT !.exists = TRUE, !.gen = sandbox.gen + 1]
          /\ Notify("sandboxWatch", sandbox')
       \/ /\ sandbox.exists
          /\ \/ sandbox' = [sandbox EXCEPT !.ready = ~@]
             \/ ~sandbox.annotated /\ sandbox' = [sandbox EXCEPT !.annotated = TRUE]
          /\ Notify("sandboxWatch", sandbox')
       \/ /\ sandbox.exists
          /\ sandbox' = [NoSandbox EXCEPT !.gen = sandbox.gen]
          /\ Notify("sandboxWatch", sandbox)
    /\ seenReady' = IF sandbox'.ready THEN seenReady \cup {PodName(sandbox')}
                    ELSE seenReady
    /\ UNCHANGED <<claim, spc, expired, result>>

BreakWatch ==
    /\ spc \in {"claimWatch", "sandboxWatch"}
    /\ Broken \notin {events[i] : i \in DOMAIN events}
    /\ events' = Append(events, Broken)
    /\ UNCHANGED <<claim, sandbox, changes, spc, expired, seenReady, result>>

Expire ==
    /\ ~expired
    /\ expired' = TRUE
    /\ UNCHANGED <<claim, sandbox, changes, spc, events, seenReady, result>>

Cluster == Waiting /\ (ChangeClaim \/ ChangeSandbox \/ BreakWatch \/ Expire)

-----------------------------------------------------------------------------
(* WaitForReady.  Any call may fail, and fails once the deadline passed.   *)

\* The watch that was open is not stopped.
ContinueMutant(pc) ==
    /\ spc' = pc
    /\ UNCHANGED <<claim, sandbox, changes, events, expired, seenReady, result>>

Continue(pc) ==
    /\ spc' = pc
    /\ events' = <<>>
    /\ UNCHANGED <<claim, sandbox, changes, expired, seenReady, result>>

Report(r) ==
    /\ spc' = "done"
    /\ events' = <<>>
    /\ result' = r
    /\ UNCHANGED <<claim, sandbox, changes, expired, seenReady>>

Succeed(s) == Report([ok |-> TRUE, pod |-> PodName(s)])

GetClaim ==
    /\ spc = "getClaim"
    /\ \/ Report(Error)
       \/ /\ claim.exists /\ ~expired
          /\ Continue(IF claim.bound THEN "getSandbox" ELSE "recheckClaim")

\* waitForSandboxName re-checks; an error is not looked at.
RecheckClaim ==
    /\ spc = "recheckClaim"
    /\ \/ Continue("openClaimWatch")
       \/ claim.bound /\ ~expired /\ Continue("getSandbox")

\* Only what happens from now on.
OpenMutant(watch, object) ==
    /\ ~expired
    /\ spc' = watch
    /\ events' = <<>>
    /\ UNCHANGED <<claim, sandbox, changes, expired, seenReady, result>>

\* A watch that asks for no resourceVersion begins with an event for the
\* object as it is.
Open(watch, object) ==
    /\ ~expired
    /\ spc' = watch
    /\ events' = IF object.exists THEN <<object>> ELSE <<>>
    /\ UNCHANGED <<claim, sandbox, changes, expired, seenReady, result>>

OpenClaimWatch ==
    /\ spc = "openClaimWatch"
    /\ Report(Error) \/ Open("claimWatch", claim)

Skip ==
    /\ events' = Tail(events)
    /\ UNCHANGED <<claim, sandbox, changes, spc, expired, seenReady, result>>

ClaimEvent ==
    /\ spc = "claimWatch"
    /\ events # <<>>
    /\ \/ Head(events) = Broken /\ Report(Error)
       \/ Head(events) # Broken /\ Head(events).bound /\ Continue("getSandbox")
       \/ Head(events) # Broken /\ ~Head(events).bound /\ Skip

\* The condition is not looked at.
GetSandboxMutant ==
    /\ spc = "getSandbox"
    /\ \/ Continue("openSandboxWatch")
       \/ sandbox.exists /\ ~expired /\ Succeed(sandbox)

\* An error is not looked at either.
GetSandbox ==
    /\ spc = "getSandbox"
    /\ \/ Continue("openSandboxWatch")
       \/ sandbox.exists /\ sandbox.ready /\ ~expired /\ Succeed(sandbox)

OpenSandboxWatch ==
    /\ spc = "openSandboxWatch"
    /\ Report(Error) \/ Open("sandboxWatch", sandbox)

\* The type of an event is looked at for errors only: the last version of a
\* deleted sandbox is as good as any other.
SandboxEvent ==
    /\ spc = "sandboxWatch"
    /\ events # <<>>
    /\ \/ Head(events) = Broken /\ Report(Error)
       \/ Head(events) # Broken /\ Head(events).ready /\ Succeed(Head(events))
       \/ Head(events) # Broken /\ ~Head(events).ready /\ Skip

\* Nothing wakes up a watch without events.
WatchTimeoutMutant == FALSE

\* ctx.Done(); when an event is there as well, either may be taken.
WatchTimeout ==
    /\ spc \in {"claimWatch", "sandboxWatch"}
    /\ expired
    /\ Report(Error)

WaitStep ==
    \/ GetClaim \/ RecheckClaim \/ OpenClaimWatch \/ ClaimEvent
    \/ GetSandbox \/ OpenSandboxWatch \/ SandboxEvent \/ WatchTimeout

-----------------------------------------------------------------------------
\* Readiness is not missed between a read and the watch that follows it, nor
\* later: while WaitForReady watches for something that is there now, an event
\* that says so, or the end of the watch, is on its way.
ReadinessSeen ==
    /\ spc = "claimWatch" /\ claim.bound =>
         \E i \in DOMAIN events : events[i] = Broken \/ events[i].bound
    /\ spc = "sandboxWatch" /\ sandbox.ready =>
         \E i \in DOMAIN events : events[i] = Broken \/ events[i].ready

\* The pod that WaitForReady returns is that of a sandbox that was ready at
\* some time since it was called, however late it takes the event.
PodWasReady == result.ok => result.pod \in seenReady

=============================================================================
