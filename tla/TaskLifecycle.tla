--------------------------- MODULE TaskLifecycle ---------------------------
(***************************************************************************)
(* What a ClaudeTask promises its reader: the phases it goes through, the  *)
(* questions it asks and the answers it keeps, and the one final comment.  *)
(* No caches, copies, retries or crashes: TaskController implements this.  *)
(***************************************************************************)
EXTENDS Integers, Sequences

CONSTANTS Tasks, None, MaxRounds

VARIABLES phase, clar, final

vars == <<phase, clar, final>>

Init ==
    /\ phase = [t \in Tasks |-> "Absent"]
    /\ clar = [t \in Tasks |-> <<>>]
    /\ final = [t \in Tasks |-> 0]

Move(t, from, to) ==
    /\ phase[t] \in from
    /\ phase' = [phase EXCEPT ![t] = to]

Create(t) == Move(t, {"Absent"}, "Pending") /\ UNCHANGED <<clar, final>>

Start(t) == Move(t, {"Pending"}, "Running") /\ UNCHANGED <<clar, final>>

Ask(t) ==
    /\ Move(t, {"Running"}, "Waiting")
    /\ Len(clar[t]) < MaxRounds
    /\ clar' = [clar EXCEPT ![t] = Append(@, None)]
    /\ UNCHANGED final

\* Only the open question takes the answer.
Answer(t, a) ==
    /\ Move(t, {"Waiting"}, "Running")
    /\ clar[t][Len(clar[t])] = None
    /\ clar' = [clar EXCEPT ![t] = [@ EXCEPT ![Len(@)] = a]]
    /\ UNCHANGED final

Complete(t) == Move(t, {"Running"}, "Completed") /\ UNCHANGED <<clar, final>>

\* A waiting task fails when its time is over.
Fail(t) == Move(t, {"Running", "Waiting"}, "Failed") /\ UNCHANGED <<clar, final>>

\* The final comment, once, of a task that has ended; it may have been
\* deleted by then.
Announce(t) ==
    /\ phase[t] \in {"Completed", "Failed", "Gone"}
    /\ final[t] = 0
    /\ final' = [final EXCEPT ![t] = 1]
    /\ UNCHANGED <<phase, clar>>

Delete(t) ==
    /\ Move(t, {"Pending", "Running", "Waiting", "Completed", "Failed"}, "Gone")
    /\ UNCHANGED <<clar, final>>

Next ==
    \E t \in Tasks :
        \/ Create(t)
        \/ Start(t)
        \/ Ask(t)
        \/ \E a \in Tasks : Answer(t, a)
        \/ Complete(t)
        \/ Fail(t)
        \/ Announce(t)
        \/ Delete(t)

Spec == Init /\ [][Next]_vars

=============================================================================
