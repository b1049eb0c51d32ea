---------------------------- MODULE InterrUsleep ----------------------------
(***************************************************************************)
(* The interruptible usleep of src/src/libs/utils/interr_usleep.c.         *)
(*                                                                         *)
(* One context is shared by every thread of the process: a one-shot       *)
(* 'flag_exit', a mutex and a condition variable bound to the monotonic    *)
(* clock.  interr_usleep() blocks on the condition variable until the      *)
(* flag is set or the deadline passes; interr_usleep_unblock() runs the    *)
(* UNLOCK() macro: set the flag (outside the mutex), then lock, broadcast, *)
(* unlock.                                                                 *)
(*                                                                         *)
(* Each thread t has two independent sub-states, because a signal handler  *)
(* may run UNLOCK() on a thread that is itself inside interr_usleep():     *)
(*   slp[t]  where t is inside interr_usleep()                             *)
(*   unb[t]  where t is inside UNLOCK()                                    *)
(* Time is not a variable: the deadline passing is the action Timeout(t),  *)
(* which the condition variable may report at any moment of the wait.      *)
(***************************************************************************)
EXTENDS Naturals

CONSTANTS
    Threads,    \* the threads that may call interr_usleep or UNLOCK()
    NoThread    \* model value: the mutex is free

ASSUME NoThread \notin Threads

VARIABLES
    iflag,      \* interr_usleep_ctx->flag_exit
    imutex,     \* owner of interr_usleep_ctx->interr_mutex
    slp,        \* program point of each thread inside interr_usleep()
    ret,        \* the local ret_code of each thread's interr_usleep()
    res,        \* the value the call returned, until its caller reads it
    unb         \* program point of each thread inside UNLOCK()

ivars == <<iflag, imutex, slp, ret, res, unb>>

SleepPoints   == {"idle", "lock", "check", "wait", "reacq", "done"}
UnblockPoints == {"idle", "lock", "bcast", "unlock"}
\* pthread_cond_timedwait() results: 0 (signalled or spurious), ETIMEDOUT
CondResults   == {"0", "ETIMEDOUT"}
\* interr_usleep() results: 0 (slept), EINTR, -1 (clock failure)
SleepResults  == {"none", "zero", "EINTR", "minus1"}

\* The threads blocked in pthread_cond_timedwait, i.e. those a broadcast wakes.
Waiting == {t \in Threads : slp[t] = "wait"}

\* A thread is inside interr_usleep() and has not yet returned.
InSleep(t) == slp[t] \in {"lock", "check", "wait", "reacq"}

IUTypeOK ==
    /\ iflag \in {0, 1}
    /\ imutex \in Threads \cup {NoThread}
    /\ slp \in [Threads -> SleepPoints]
    /\ ret \in [Threads -> CondResults]
    /\ res \in [Threads -> SleepResults]
    /\ unb \in [Threads -> UnblockPoints]

\* interr_usleep_open(): the context starts with the flag clear and the
\* mutex free.
IUInit ==
    /\ iflag = 0
    /\ imutex = NoThread
    /\ slp = [t \in Threads |-> "idle"]
    /\ ret = [t \in Threads |-> "0"]
    /\ res = [t \in Threads |-> "none"]
    /\ unb = [t \in Threads |-> "idle"]

-----------------------------------------------------------------------------
(* interr_usleep(ctx, usec)                                                *)

\* Read the monotonic clock and compute the deadline; a failing
\* clock_gettime() returns -1 at once.
SleepCall(t) ==
    /\ slp[t] = "idle"
    /\ res[t] = "none"
    /\ \/ /\ slp' = [slp EXCEPT ![t] = "lock"]
          /\ UNCHANGED res
       \/ /\ slp' = [slp EXCEPT ![t] = "done"]
          /\ res' = [res EXCEPT ![t] = "minus1"]
    /\ UNCHANGED <<iflag, imutex, ret, unb>>

\* pthread_mutex_lock(); ret_code= 0;
SleepLock(t) ==
    /\ slp[t] = "lock"
    /\ imutex = NoThread
    /\ imutex' = t
    /\ ret' = [ret EXCEPT ![t] = "0"]
    /\ slp' = [slp EXCEPT ![t] = "check"]
    /\ UNCHANGED <<iflag, res, unb>>

\* Bug variant: the loop returns pthread_cond_timedwait's own code instead of
\* mapping it to 0/EINTR.
SleepCheckRawCode(t) ==
    /\ slp[t] = "check"
    /\ imutex' = NoThread
    /\ IF iflag = 0 /\ ret[t] # "ETIMEDOUT"
       THEN /\ slp' = [slp EXCEPT ![t] = "wait"]
            /\ UNCHANGED res
       ELSE /\ slp' = [slp EXCEPT ![t] = "done"]
            /\ res' = [res EXCEPT ![t] = ret[t]]
    /\ UNCHANGED <<iflag, ret, unb>>

\* The loop test, holding the mutex: either block on the condition variable
\* (which releases the mutex atomically), or leave the loop, unlock and
\* return 0 after a time-out and EINTR otherwise.
SleepCheck(t) ==
    /\ slp[t] = "check"
    /\ imutex' = NoThread
    /\ IF iflag = 0 /\ ret[t] # "ETIMEDOUT"
       THEN /\ slp' = [slp EXCEPT ![t] = "wait"]
            /\ UNCHANGED res
       ELSE /\ slp' = [slp EXCEPT ![t] = "done"]
            /\ res' = [res EXCEPT ![t] =
                        IF ret[t] = "ETIMEDOUT" THEN "zero" ELSE "EINTR"]
    /\ UNCHANGED <<iflag, ret, unb>>

\* The deadline passes while the thread is blocked.
Timeout(t) ==
    /\ slp[t] = "wait"
    /\ slp' = [slp EXCEPT ![t] = "reacq"]
    /\ ret' = [ret EXCEPT ![t] = "ETIMEDOUT"]
    /\ UNCHANGED <<iflag, imutex, res, unb>>

\* A spurious wake-up: pthread_cond_timedwait returns 0 without a broadcast.
Spurious(t) ==
    /\ slp[t] = "wait"
    /\ slp' = [slp EXCEPT ![t] = "reacq"]
    /\ ret' = [ret EXCEPT ![t] = "0"]
    /\ UNCHANGED <<iflag, imutex, res, unb>>

\* pthread_cond_timedwait re-acquires the mutex before it returns.
SleepReacquire(t) ==
    /\ slp[t] = "reacq"
    /\ imutex = NoThread
    /\ imutex' = t
    /\ slp' = [slp EXCEPT ![t] = "check"]
    /\ UNCHANGED <<iflag, ret, res, unb>>

-----------------------------------------------------------------------------
(* The UNLOCK() macro, run by interr_usleep_unblock() and by               *)
(* interr_usleep_close().                                                  *)

\* flag_exit= 1; -- written before the mutex is taken
UnblockCall(t) ==
    /\ unb[t] = "idle"
    /\ iflag' = 1
    /\ unb' = [unb EXCEPT ![t] = "lock"]
    /\ UNCHANGED <<imutex, slp, ret, res>>

\* pthread_mutex_lock(&interr_mutex);
UnblockLock(t) ==
    /\ unb[t] = "lock"
    /\ imutex = NoThread
    /\ imutex' = t
    /\ unb' = [unb EXCEPT ![t] = "bcast"]
    /\ UNCHANGED <<iflag, slp, ret, res>>

\* Bug variant: pthread_cond_signal() in place of the broadcast wakes only
\* one of the blocked threads.
UnblockSignalOne(t) ==
    /\ unb[t] = "bcast"
    /\ IF Waiting = {}
       THEN UNCHANGED <<slp, ret>>
       ELSE LET w == CHOOSE x \in Waiting : TRUE
            IN /\ slp' = [slp EXCEPT ![w] = "reacq"]
               /\ ret' = [ret EXCEPT ![w] = "0"]
    /\ unb' = [unb EXCEPT ![t] = "unlock"]
    /\ UNCHANGED <<iflag, imutex, res>>

\* pthread_cond_broadcast(&interr_signal): every blocked thread returns 0
\* from the wait once it gets the mutex back.
UnblockBroadcast(t) ==
    /\ unb[t] = "bcast"
    /\ slp' = [w \in Threads |-> IF w \in Waiting THEN "reacq" ELSE slp[w]]
    /\ ret' = [w \in Threads |-> IF w \in Waiting THEN "0" ELSE ret[w]]
    /\ unb' = [unb EXCEPT ![t] = "unlock"]
    /\ UNCHANGED <<iflag, imutex, res>>

\* Bug variant: UNLOCK() returns without releasing the mutex.
UnblockNoUnlock(t) ==
    /\ unb[t] = "unlock"
    /\ unb' = [unb EXCEPT ![t] = "idle"]
    /\ UNCHANGED <<iflag, imutex, slp, ret, res>>

\* pthread_mutex_unlock(&interr_mutex);
UnblockUnlock(t) ==
    /\ unb[t] = "unlock"
    /\ imutex' = NoThread
    /\ unb' = [unb EXCEPT ![t] = "idle"]
    /\ UNCHANGED <<iflag, slp, ret, res>>

-----------------------------------------------------------------------------

\* The steps a thread takes once it is inside a call; the calls themselves
\* and the wake-ups the kernel may or may not deliver are not among them.
SleepStep(t) ==
    SleepLock(t) \/ SleepCheck(t) \/ SleepReacquire(t)

UnblockStep(t) ==
    UnblockLock(t) \/ UnblockBroadcast(t) \/ UnblockUnlock(t)

=============================================================================
