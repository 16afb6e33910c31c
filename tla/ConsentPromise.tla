--------------------------- MODULE ConsentPromise ---------------------------
(***************************************************************************)
(* What the consent screen promises, whatever browsers, tabs, replicas and *)
(* reloads do: a client's request ends at most once, in a session or       *)
(* without one; whoever decides it, decides in the browser that was asked; *)
(* and it ends in a session only after that browser has approved it.       *)
(***************************************************************************)
EXTENDS Naturals

CONSTANTS Browser, Flow, NoBrowser

VARIABLES
    asked,      \* the browser each request was answered to
    decided,    \* the browser it was decided in last
    status,     \* how far each request is
    sessions    \* the sessions it ended in

vars == <<asked, decided, status, sessions>>

Init ==
    /\ asked = [f \in Flow |-> NoBrowser]
    /\ decided = [f \in Flow |-> NoBrowser]
    /\ status = [f \in Flow |-> "unused"]
    /\ sessions = [f \in Flow |-> 0]

Goes(f, from, to) == status[f] \in from /\ status' = [status EXCEPT ![f] = to]

Ask(f, b) ==
    /\ Goes(f, {"unused"}, "asked")
    /\ asked' = [asked EXCEPT ![f] = b]
    /\ UNCHANGED <<decided, sessions>>

\* Browser b submits the decision: the one that was asked, and no other.
Decides(f, b) ==
    /\ asked[f] = b
    /\ decided' = [decided EXCEPT ![f] = b]
    /\ UNCHANGED <<asked, sessions>>

Approve(f, b) == Goes(f, {"asked"}, "approved") /\ Decides(f, b)
Decline(f, b) == Goes(f, {"asked", "approved"}, "over") /\ Decides(f, b)

Fail(f) == Goes(f, {"approved"}, "over") /\ UNCHANGED <<asked, decided, sessions>>

Grant(f) ==
    /\ Goes(f, {"approved"}, "over")
    /\ sessions' = [sessions EXCEPT ![f] = @ + 1]
    /\ UNCHANGED <<asked, decided>>

Next ==
    \E f \in Flow :
        \/ \E b \in Browser : Ask(f, b) \/ Approve(f, b) \/ Decline(f, b)
        \/ Fail(f) \/ Grant(f)

Spec == Init /\ [][Next]_vars

\* A request has led to one session at most, and to none unless the browser it
\* was answered to is the one that decided it (ApproveFlow, TakeApprovedFlow).
SessionsAreDecided ==
    \A f \in Flow :
        /\ sessions[f] <= 1
        /\ sessions[f] > 0 => decided[f] = asked[f] /\ asked[f] # NoBrowser
=============================================================================
