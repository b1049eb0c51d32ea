--------------------------- MODULE MC_InterrUsleep ---------------------------
(***************************************************************************)
(* A harness for the interruptible sleep alone: Sleepers call              *)
(* interr_usleep() up to MaxCalls times each, Unblockers call              *)
(* interr_usleep_unblock() once each.  Checks that the code implements     *)
(* CancellableWait.                                                        *)
(***************************************************************************)
EXTENDS InterrUsleep

CONSTANTS
    Sleepers,     \* threads that call interr_usleep()
    Unblockers,   \* threads that call interr_usleep_unblock()
    MaxCalls      \* bound on the interr_usleep() calls of each sleeper

ASSUME
    /\ Sleepers \cup Unblockers = Threads
    /\ Sleepers \cap Unblockers = {}
    /\ MaxCalls \in Nat \ {0}

VARIABLES
    calls,        \* interr_usleep() calls completed by each sleeper
    unblocked     \* the unblockers whose call has begun

vars == <<ivars, calls, unblocked>>

Init ==
    /\ IUInit
    /\ calls = [t \in Sleepers |-> 0]
    /\ unblocked = {}

\* The caller reads the value interr_usleep() returned.
Collect(t) ==
    /\ slp[t] = "done"
    /\ slp' = [slp EXCEPT ![t] = "idle"]
    /\ res' = [res EXCEPT ![t] = "none"]
    /\ calls' = [calls EXCEPT ![t] = @ + 1]
    /\ UNCHANGED <<iflag, imutex, ret, unb, unblocked>>

Sleeper(t) ==
    \/ /\ calls[t] < MaxCalls
       /\ SleepCall(t)
       /\ UNCHANGED <<calls, unblocked>>
    \/ (SleepStep(t) \/ Timeout(t) \/ Spurious(t)) /\ UNCHANGED <<calls, unblocked>>
    \/ Collect(t)

Unblocker(t) ==
    \/ /\ t \notin unblocked
       /\ UnblockCall(t)
       /\ unblocked' = unblocked \cup {t}
       /\ UNCHANGED calls
    \/ UnblockStep(t) /\ UNCHANGED <<calls, unblocked>>

\* Every thread has made all its calls and returned from them.
Finished ==
    /\ \A t \in Sleepers : calls[t] = MaxCalls
    /\ \A t \in Unblockers : t \in unblocked /\ unb[t] = "idle"

Next ==
    \/ \E t \in Sleepers : Sleeper(t)
    \/ \E t \in Unblockers : Unblocker(t)
    \/ Finished /\ UNCHANGED vars

\* A thread that is inside a call keeps running; neither the calls, nor a
\* time-out, nor a spurious wake-up is assumed to ever happen.
Spec ==
    /\ Init
    /\ [][Next]_vars
    /\ \A t \in Sleepers : WF_vars(SleepStep(t) /\ UNCHANGED <<calls, unblocked>>)
    /\ \A t \in Sleepers : WF_vars(Collect(t))
    /\ \A t \in Unblockers : WF_vars(UnblockStep(t) /\ UNCHANGED <<calls, unblocked>>)

-----------------------------------------------------------------------------

TypeOK ==
    /\ IUTypeOK
    /\ calls \in [Sleepers -> 0..MaxCalls]
    /\ unblocked \subseteq Unblockers

\* The refinement mapping: the latch is flag_exit; a thread is blocked from
\* the moment it has a deadline until interr_usleep() returns, and then
\* holds the outcome the returned value stands for.
Outcome(t) ==
    CASE slp[t] = "idle"          -> "idle"
      [] InSleep(t)              -> "blocked"
      [] res[t] = "zero"         -> "timedout"
      [] res[t] = "EINTR"        -> "interrupted"
      [] res[t] = "minus1"       -> "failed"

Abs == INSTANCE CancellableWait WITH
            Threads <- Sleepers,
            cancelled <- (iflag = 1),
            st <- [t \in Sleepers |-> Outcome(t)]

\* interr_usleep()/interr_usleep_unblock() implement the cancellable wait:
\* EINTR is returned only after an unblock has set flag_exit (spurious
\* wake-ups are re-checked), and once flag_exit is set every blocked sleeper
\* is woken by the broadcast without relying on its deadline (no lost
\* wake-up between the flag test and pthread_cond_timedwait).
ImplementsCancellableWait == Abs!Spec

=============================================================================
