--------------------------- MODULE CancellableWait ---------------------------
(***************************************************************************)
(* What the interruptible sleep promises its callers (spec section 4.1):   *)
(* a one-shot cancellation latch.  A call blocks; it may time out at any   *)
(* moment, it may return Interrupted only once the latch is set, and once  *)
(* the latch is set every blocked call is eventually released without      *)
(* waiting for its deadline.  A failing clock read ends a call at once.    *)
(***************************************************************************)
CONSTANTS Threads

VARIABLES
    cancelled,  \* the latch
    st          \* per thread: "idle", "blocked" or the outcome of its call

Outcomes == {"timedout", "interrupted", "failed"}

Init ==
    /\ cancelled = FALSE
    /\ st = [t \in Threads |-> "idle"]

Begin(t) ==
    /\ st[t] = "idle"
    /\ st' = [st EXCEPT ![t] = "blocked"]
    /\ UNCHANGED cancelled

Fail(t) ==
    /\ st[t] = "idle"
    /\ st' = [st EXCEPT ![t] = "failed"]
    /\ UNCHANGED cancelled

Cancel ==
    /\ cancelled' = TRUE
    /\ UNCHANGED st

TimeOut(t) ==
    /\ st[t] = "blocked"
    /\ st' = [st EXCEPT ![t] = "timedout"]
    /\ UNCHANGED cancelled

Interrupt(t) ==
    /\ st[t] = "blocked"
    /\ cancelled
    /\ st' = [st EXCEPT ![t] = "interrupted"]
    /\ UNCHANGED cancelled

Collect(t) ==
    /\ st[t] \in Outcomes
    /\ st' = [st EXCEPT ![t] = "idle"]
    /\ UNCHANGED cancelled

Next ==
    \/ Cancel
    \/ \E t \in Threads :
        Begin(t) \/ Fail(t) \/ TimeOut(t) \/ Interrupt(t) \/ Collect(t)

\* Only the release after cancellation is promised; a deadline is not
\* (the caller may sleep for longer than the model cares to wait).
Spec ==
    /\ Init
    /\ [][Next]_<<cancelled, st>>
    /\ \A t \in Threads : WF_<<cancelled, st>>(Interrupt(t))

=============================================================================
