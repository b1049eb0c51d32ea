-------------------------- MODULE TestRateLimiting --------------------------
(***************************************************************************)
(* The concurrency of src/src/apps/test-rate-limiting/test_rate_limiting.cpp *)
(*                                                                         *)
(*  - the main thread (main()): launches the origin, then for each setting *)
(*    launches the proxy, starts the sampling thread, runs the setting's   *)
(*    script, joins the client threads, drains, stops and joins the        *)
(*    sampler, and kills the proxy; every pause but the script's own goes  *)
(*    through the interruptible usleep, and EINTR jumps to 'end';          *)
(*  - the client threads (http_get_nginx / curl_req): one per request of a *)
(*    burst, each appending one record to clients_stats on success;       *)
(*  - the sampling thread (plottingThr): polls the status endpoint, stores *)
(*    the gauge in burst_level, and on exit dumps and clears clients_stats;*)
(*  - the SIGINT/SIGTERM handler (main_proc_quit_signal_handler), run on   *)
(*    whichever thread the kernel picks: sets flag_exit and unblocks the   *)
(*    interruptible usleep.                                                *)
(* The counters the sampler parses are left to CounterSampler; here only   *)
(* the gauge it stores in burst_level matters.                             *)
(***************************************************************************)
EXTENDS Naturals, FiniteSets, Sequences, SequencesExt

CONSTANTS
    Main, Plotter,  \* model values: the main and the sampling thread
    NoThread,       \* model value: the interr_usleep mutex is free
    Scripts,        \* per setting, its fxn as a sequence of steps
    SignalTargets,  \* the threads the kernel may run the handler on
    MaxSignals,     \* bound on the signals delivered
    NowMsec         \* json_object_get_int() of the "nowMsec" field

\* A step of a setting's fxn: http_get_nginx(..., n, ...) or usleep(...).
Burst(n) == [op |-> "burst", n |-> n]
Usleep   == [op |-> "usleep"]

Settings == 1..Len(Scripts)

\* The client threads the whole run spawns, numbered in spawn order.
Clients ==
    1..FoldLeft(LAMBDA acc, s : acc + (IF s.op = "burst" THEN s.n ELSE 0),
                0, FlattenSeq(Scripts))

Threads == {Main, Plotter} \cup Clients

\* The two signals main() installs main_proc_quit_signal_handler for.
Sigs == {"SIGINT", "SIGTERM"}

\* The contexts that run interr_usleep code: a thread's own code
\* <<t, "thread">>, and the handler for signal s on thread t <<t, s>>,
\* which has its own UNLOCK() program point and owns the interr_usleep
\* mutex while it holds it.
Contexts == Threads \X ({"thread"} \cup Sigs)

\* main()'s own code.
MainCtx == <<Main, "thread">>

ASSUME
    /\ \A i \in 1..Len(Scripts) : \A j \in 1..Len(Scripts[i]) :
          Scripts[i][j] = Usleep \/ Scripts[i][j] = Burst(Scripts[i][j].n)
    /\ SignalTargets \subseteq Threads
    /\ MaxSignals \in Nat
    /\ NowMsec \in Nat \ {0}

VARIABLES
    iflag, imutex, slp, ret, res, unb,   \* the interr_usleep context
    mpc,            \* program point of main()
    setting,        \* index i of the settings[] loop
    step,           \* next step of settings[i].fxn
    flag_exit,
    flag_exit_plotting_thr,
    burst_level,
    cpc,            \* program point of each client thread
    cset,           \* the setting whose fxn spawned each client
    ok,             \* clients whose request succeeded
    clients_threads,\* spawned, not yet joined client threads
    nextClient,     \* the id the next spawned client gets
    clients_stats,  \* the records in the shared vector
    written,        \* <<setting, client>>: records written to a setting's log
    flushed,        \* settings whose sampler has written its client log
    ppc,            \* program point of the sampling thread
    joinable,       \* plottingThread still holds a thread
    proxyUp, originUp,  \* the nginx proxy and origin processes
    signals,        \* signals delivered so far
    handling        \* per thread, the signals whose handler runs, innermost last

IU == INSTANCE InterrUsleep WITH Threads <- Contexts

iuVars     == <<iflag, imutex, slp, ret, res, unb>>
mainVars   == <<mpc, setting, step>>
flagVars   == <<flag_exit, flag_exit_plotting_thr, burst_level>>
clientVars == <<cpc, cset, ok, clients_threads, nextClient>>
logVars    == <<clients_stats, written, flushed>>
otherVars  == <<ppc, joinable, proxyUp, originUp, signals, handling>>
vars == <<iuVars, mainVars, flagVars, clientVars, logVars, otherVars>>

MainPoints ==
    {"origin", "wait_origin", "loop", "launch_proxy", "wait_proxy",
     "start_sampler", "script", "join", "drain", "drain_wait",
     "stop_sampler", "join_sampler", "wait_post", "kill_proxy", "end",
     "exited", "closing", "closed", "aborted"}
\* The interr_usleep() calls of main(), and where each continues unless
\* it returned EINTR.
AfterWait ==
    [wait_origin |-> "loop", wait_proxy |-> "start_sampler",
     drain_wait |-> "drain", wait_post |-> "kill_proxy"]
WaitPoints == DOMAIN AfterWait

TypeOK ==
    /\ IU!IUTypeOK
    /\ mpc \in MainPoints
    /\ setting \in 1..Len(Scripts) + 1
    /\ step \in Nat
    /\ flag_exit \in {0, 1}
    /\ flag_exit_plotting_thr \in {0, 1}
    /\ burst_level \in Nat
    /\ cpc \in [Clients -> {"unspawned", "request", "append", "done"}]
    /\ cset \in [Clients -> Settings \cup {0}]
    /\ ok \subseteq Clients
    /\ clients_threads \subseteq Clients
    /\ nextClient \in 1..Cardinality(Clients) + 1
    /\ clients_stats \subseteq Clients
    /\ written \subseteq Settings \X Clients
    /\ flushed \subseteq Settings
    /\ ppc \in {"none", "loop", "dump", "clear", "done"}
    /\ joinable \in BOOLEAN
    /\ proxyUp \in BOOLEAN
    /\ originUp \in BOOLEAN
    /\ signals \in 0..MaxSignals
    /\ handling \in [Threads -> {h \in Seq(Sigs) : Len(h) <= 2}]

\* The state once the operator has pressed ENTER (select_stdin returned):
\* globals at their static initial values, the signal handlers installed.
Init ==
    /\ IU!IUInit
    /\ mpc = "origin"
    /\ setting = 1
    /\ step = 1
    /\ flag_exit = 0
    /\ flag_exit_plotting_thr = 0
    /\ burst_level = 0
    /\ cpc = [c \in Clients |-> "unspawned"]
    /\ cset = [c \in Clients |-> 0]
    /\ ok = {}
    /\ clients_threads = {}
    /\ nextClient = 1
    /\ clients_stats = {}
    /\ written = {}
    /\ flushed = {}
    /\ ppc = "none"
    /\ joinable = FALSE
    /\ proxyUp = FALSE
    /\ originUp = FALSE
    /\ signals = 0
    /\ handling = [t \in Threads |-> <<>>]

-----------------------------------------------------------------------------
(* The process is running and thread t is not inside a signal handler.     *)
\* main() has returned: the process runs its destructors ("exited",
\* "closing"), has freed the interr_usleep context ("closed"), or has
\* aborted in std::terminate ("aborted").
Exited == mpc \in {"exited", "closing", "closed", "aborted"}

Running(t) == ~Exited /\ handling[t] = <<>>

MainRuns == Running(Main)

(***************************************************************************)
(* main()                                                                  *)
(***************************************************************************)

\* Remove and recreate TEST_DIR, write the origin's configuration and
\* fork-exec it.
LaunchOrigin ==
    /\ MainRuns
    /\ mpc = "origin"
    /\ originUp' = TRUE
    /\ mpc' = "wait_origin"
    /\ UNCHANGED <<iuVars, setting, step, flagVars, clientVars, logVars,
                   ppc, joinable, proxyUp, signals, handling>>

\* interr_usleep(interr_usleep_uptr.get(), ...) is entered.
MainWaitCall ==
    /\ MainRuns
    /\ mpc \in WaitPoints
    /\ IU!SleepCall(MainCtx)
    /\ UNCHANGED <<mainVars, flagVars, clientVars, logVars, otherVars>>

\* main() inside interr_usleep(): lock, loop test, re-acquire.
MainWaitStep ==
    /\ MainRuns
    /\ mpc \in WaitPoints
    /\ IU!SleepStep(MainCtx)
    /\ UNCHANGED <<mainVars, flagVars, clientVars, logVars, otherVars>>

\* The deadline of main()'s pthread_cond_timedwait passes.
MainTimeout ==
    /\ MainRuns
    /\ mpc \in WaitPoints
    /\ IU!Timeout(MainCtx)
    /\ UNCHANGED <<mainVars, flagVars, clientVars, logVars, otherVars>>

\* main()'s pthread_cond_timedwait wakes up spuriously.
MainSpurious ==
    /\ MainRuns
    /\ mpc \in WaitPoints
    /\ IU!Spurious(MainCtx)
    /\ UNCHANGED <<mainVars, flagVars, clientVars, logVars, otherVars>>

\* interr_usleep() returned: EINTR jumps to 'end'.
MainWaitReturn ==
    /\ MainRuns
    /\ mpc \in WaitPoints
    /\ slp[MainCtx] = "done"
    /\ slp' = [slp EXCEPT ![MainCtx] = "idle"]
    /\ res' = [res EXCEPT ![MainCtx] = "none"]
    /\ mpc' = IF res[MainCtx] = "EINTR" THEN "end" ELSE AfterWait[mpc]
    /\ UNCHANGED <<iflag, imutex, ret, unb, setting, step, flagVars,
                   clientVars, logVars, otherVars>>

\* for (i = 0; settings[i].fxn != nullptr; i++)
SettingLoop ==
    /\ MainRuns
    /\ mpc = "loop"
    /\ mpc' = IF setting <= Len(Scripts) THEN "launch_proxy" ELSE "end"
    /\ UNCHANGED <<iuVars, setting, step, flagVars, clientVars, logVars,
                   otherVars>>

\* configure_proxy(...); nginx_wrapper_open(nginx_argv[1]);
LaunchProxy ==
    /\ MainRuns
    /\ mpc = "launch_proxy"
    /\ proxyUp' = TRUE
    /\ mpc' = "wait_proxy"
    /\ UNCHANGED <<iuVars, setting, step, flagVars, clientVars, logVars,
                   ppc, joinable, originUp, signals, handling>>

\* Reset the sampler's flag and the gauge, take t0 and start plottingThr.
StartSampler ==
    /\ MainRuns
    /\ mpc = "start_sampler"
    /\ flag_exit_plotting_thr' = 0
    /\ burst_level' = 0
    /\ ppc' = "loop"
    /\ joinable' = TRUE
    /\ mpc' = "script"
    /\ step' = 1
    /\ UNCHANGED <<iuVars, setting, flag_exit, clientVars, logVars,
                   proxyUp, originUp, signals, handling>>

\* Bug variant: the spawn loop runs one request too many (<= for <).
ScriptBurstOffByOne ==
    /\ MainRuns
    /\ mpc = "script"
    /\ step <= Len(Scripts[setting])
    /\ Scripts[setting][step].op = "burst"
    /\ LET new == nextClient .. nextClient + Scripts[setting][step].n
       IN /\ cpc' = [c \in Clients |-> IF c \in new THEN "request" ELSE cpc[c]]
          /\ cset' = [c \in Clients |-> IF c \in new THEN setting ELSE cset[c]]
          /\ clients_threads' = clients_threads \cup (new \cap Clients)
          /\ nextClient' = nextClient + Cardinality(new)
    /\ step' = step + 1
    /\ UNCHANGED <<iuVars, mpc, setting, flagVars, ok, logVars, otherVars>>

\* A step of setting_ctx->fxn: http_get_nginx() pushes one client thread per
\* request onto clients_threads and returns without joining them.
ScriptBurst ==
    /\ MainRuns
    /\ mpc = "script"
    /\ step <= Len(Scripts[setting])
    /\ Scripts[setting][step].op = "burst"
    /\ LET new == nextClient .. nextClient + Scripts[setting][step].n - 1
       IN /\ cpc' = [c \in Clients |-> IF c \in new THEN "request" ELSE cpc[c]]
          /\ cset' = [c \in Clients |-> IF c \in new THEN setting ELSE cset[c]]
          /\ clients_threads' = clients_threads \cup new
          /\ nextClient' = nextClient + Cardinality(new)
    /\ step' = step + 1
    /\ UNCHANGED <<iuVars, mpc, setting, flagVars, ok, logVars, otherVars>>

\* The fxn's plain usleep(): it does not look at flag_exit.
ScriptUsleep ==
    /\ MainRuns
    /\ mpc = "script"
    /\ step <= Len(Scripts[setting])
    /\ Scripts[setting][step] = Usleep
    /\ step' = step + 1
    /\ UNCHANGED <<iuVars, mpc, setting, flagVars, clientVars, logVars,
                   otherVars>>

ScriptEnd ==
    /\ MainRuns
    /\ mpc = "script"
    /\ step > Len(Scripts[setting])
    /\ mpc' = "join"
    /\ UNCHANGED <<iuVars, setting, step, flagVars, clientVars, logVars,
                   otherVars>>

\* Bug variant: the client threads are left unjoined once flag_exit is set.
JoinClientsOrBail ==
    /\ MainRuns
    /\ mpc = "join"
    /\ IF flag_exit = 1
       THEN /\ mpc' = "end"
            /\ UNCHANGED clients_threads
       ELSE /\ \A c \in clients_threads : cpc[c] = "done"
            /\ clients_threads' = {}
            /\ mpc' = "drain"
    /\ UNCHANGED <<iuVars, setting, step, flagVars, cpc, cset, ok,
                   nextClient, logVars, otherVars>>

\* Bug variant: join() that does not wait for the thread to finish.
JoinClientsNoWait ==
    /\ MainRuns
    /\ mpc = "join"
    /\ clients_threads' = {}
    /\ mpc' = "drain"
    /\ UNCHANGED <<iuVars, setting, step, flagVars, cpc, cset, ok,
                   nextClient, logVars, otherVars>>

\* clients_threads[cli].join() for every client, then clear().
JoinClients ==
    /\ MainRuns
    /\ mpc = "join"
    /\ \A c \in clients_threads : cpc[c] = "done"
    /\ clients_threads' = {}
    /\ mpc' = "drain"
    /\ UNCHANGED <<iuVars, setting, step, flagVars, cpc, cset, ok,
                   nextClient, logVars, otherVars>>

\* Bug variant: the drain loop does not test flag_exit.
DrainTestNoFlag ==
    /\ MainRuns
    /\ mpc = "drain"
    /\ mpc' = IF burst_level > 0 THEN "drain_wait" ELSE "stop_sampler"
    /\ UNCHANGED <<iuVars, setting, step, flagVars, clientVars, logVars,
                   otherVars>>

\* while (!flag_exit && burst_level > 0) interr_usleep(..., 100 * 1000)
DrainTest ==
    /\ MainRuns
    /\ mpc = "drain"
    /\ mpc' = IF flag_exit = 0 /\ burst_level > 0 THEN "drain_wait"
                                                 ELSE "stop_sampler"
    /\ UNCHANGED <<iuVars, setting, step, flagVars, clientVars, logVars,
                   otherVars>>

\* flag_exit_plotting_thr = 1;
StopSampler ==
    /\ MainRuns
    /\ mpc = "stop_sampler"
    /\ flag_exit_plotting_thr' = 1
    /\ mpc' = "join_sampler"
    /\ UNCHANGED <<iuVars, setting, step, flag_exit, burst_level,
                   clientVars, logVars, otherVars>>

\* plottingThread.join();
JoinSampler ==
    /\ MainRuns
    /\ mpc = "join_sampler"
    /\ ppc = "done"
    /\ ppc' = "none"
    /\ joinable' = FALSE
    /\ mpc' = "wait_post"
    /\ UNCHANGED <<iuVars, setting, step, flagVars, clientVars, logVars,
                   proxyUp, originUp, signals, handling>>

\* nginx_wrapper_close(NGINX_PIDFILE, ...); unlink(CLIENT_STATSLOG); i++
KillProxy ==
    /\ MainRuns
    /\ mpc = "kill_proxy"
    /\ proxyUp' = FALSE
    /\ setting' = setting + 1
    /\ mpc' = "loop"
    /\ UNCHANGED <<iuVars, step, flagVars, clientVars, logVars,
                   ppc, joinable, originUp, signals, handling>>

\* end: flag_exit = 1; restore the terminal; kill the origin; remove
\* TEST_DIR; return from main() -- whatever is still running is not waited for.
MainEnd ==
    /\ MainRuns
    /\ mpc = "end"
    /\ flag_exit' = 1
    /\ originUp' = FALSE
    /\ mpc' = "exited"
    /\ UNCHANGED <<iuVars, setting, step, flag_exit_plotting_thr,
                   burst_level, clientVars, logVars, ppc, joinable,
                   proxyUp, signals, handling>>

(***************************************************************************)
(* After main() returns: the destructors                                   *)
(***************************************************************************)

\* The destructor of plottingThread (a local of main()) runs at the return,
\* that of the global clients_threads, declared after interr_usleep_uptr,
\* runs before the context's: a std::thread still joinable in either calls
\* std::terminate, which aborts the process.
Terminate ==
    /\ mpc = "exited"
    /\ handling[Main] = <<>>
    /\ joinable \/ clients_threads # {}
    /\ mpc' = "aborted"
    /\ UNCHANGED <<iuVars, setting, step, flagVars, clientVars, logVars,
                   otherVars>>

\* Otherwise interr_usleep_uptr's deleter runs interr_usleep_close(): its
\* UNLOCK() first sets the context's flag.
CloseCall ==
    /\ mpc = "exited"
    /\ handling[Main] = <<>>
    /\ ~joinable /\ clients_threads = {}
    /\ IU!UnblockCall(MainCtx)
    /\ mpc' = "closing"
    /\ UNCHANGED <<setting, step, flagVars, clientVars, logVars, otherVars>>

\* The rest of close's UNLOCK(): lock, broadcast, unlock.
CloseUnlock ==
    /\ mpc = "closing"
    /\ handling[Main] = <<>>
    /\ IU!UnblockStep(MainCtx)
    /\ UNCHANGED <<mainVars, flagVars, clientVars, logVars, otherVars>>

\* pthread_mutex_destroy(), pthread_cond_destroy() (failures only logged),
\* utils_logs_close() of the logger it opened itself, free(); from here on
\* interr_usleep_uptr.get() is a dangling pointer.
CloseFree ==
    /\ mpc = "closing"
    /\ handling[Main] = <<>>
    /\ unb[MainCtx] = "idle"
    /\ mpc' = "closed"
    /\ UNCHANGED <<iuVars, setting, step, flagVars, clientVars, logVars,
                   otherVars>>

(***************************************************************************)
(* The client threads: curl_req()                                          *)
(***************************************************************************)

\* libcurl_wrap_cli_request() to the proxy: a transport error is only
\* logged; a reply (any HTTP status) yields a record.
Request(c) ==
    /\ Running(c)
    /\ cpc[c] = "request"
    /\ \/ /\ cpc' = [cpc EXCEPT ![c] = "append"]
          /\ ok' = ok \cup {c}
       \/ /\ cpc' = [cpc EXCEPT ![c] = "done"]
          /\ UNCHANGED ok
    /\ UNCHANGED <<iuVars, mainVars, flagVars, cset, clients_threads,
                   nextClient, logVars, otherVars>>

\* std::lock_guard<std::mutex> lck(clients_stats_mutex); push_back(line)
PushRecord(c) ==
    /\ Running(c)
    /\ cpc[c] = "append"
    /\ clients_stats' = clients_stats \cup {c}
    /\ cpc' = [cpc EXCEPT ![c] = "done"]
    /\ UNCHANGED <<iuVars, mainVars, flagVars, cset, ok, clients_threads,
                   nextClient, written, flushed, otherVars>>

(***************************************************************************)
(* The sampling thread: plottingThr()                                      *)
(***************************************************************************)

\* The value trace_stats_responses() stores in burst_level: the status
\* JSON's "nowMsec" field, a clock that is never 0.
Gauge == NowMsec

\* One iteration of the while loop: fetch the status JSON, trace it (which
\* stores the gauge in burst_level) and usleep(100 ms).
SamplerTick ==
    /\ Running(Plotter)
    /\ ppc = "loop"
    /\ flag_exit = 0
    /\ flag_exit_plotting_thr = 0
    /\ burst_level' = Gauge
    /\ UNCHANGED <<iuVars, mainVars, flag_exit, flag_exit_plotting_thr,
                   clientVars, logVars, otherVars>>

\* while (!flag_exit && !flag_exit_plotting_thr) -- the loop ends.
SamplerStop ==
    /\ Running(Plotter)
    /\ ppc = "loop"
    /\ flag_exit = 1 \/ flag_exit_plotting_thr = 1
    /\ ppc' = "dump"
    /\ UNCHANGED <<iuVars, mainVars, flagVars, clientVars, logVars,
                   joinable, proxyUp, originUp, signals, handling>>

\* Write every record of clients_stats to CLIENT_STATSLOG -- without
\* taking clients_stats_mutex.
SamplerDump ==
    /\ Running(Plotter)
    /\ ppc = "dump"
    /\ written' = written \cup {<<setting, c>> : c \in clients_stats}
    /\ ppc' = "clear"
    /\ UNCHANGED <<iuVars, mainVars, flagVars, clientVars, clients_stats,
                   flushed, joinable, proxyUp, originUp, signals, handling>>

\* clients_stats.clear(); close the log and plot it with gnuplot.
SamplerClear ==
    /\ Running(Plotter)
    /\ ppc = "clear"
    /\ clients_stats' = {}
    /\ flushed' = flushed \cup {setting}
    /\ ppc' = "done"
    /\ UNCHANGED <<iuVars, mainVars, flagVars, clientVars, written,
                   joinable, proxyUp, originUp, signals, handling>>

(***************************************************************************)
(* main_proc_quit_signal_handler(), on the thread the kernel picks         *)
(***************************************************************************)

\* A thread of the process exists: main until the process ends, the
\* sampler and a client from their start to their end (one still running
\* when main() returns makes the process abort before the context is
\* closed, so its later steps are not modelled).
Alive(t) ==
    \/ t = Main /\ mpc # "aborted"
    \/ /\ ~Exited
       /\ \/ t = Plotter /\ ppc \in {"loop", "dump", "clear"}
          \/ t \in Clients /\ cpc[t] \in {"request", "append"}

\* Signal s interrupts thread t, which may itself be inside the handler of
\* the other signal: signal() blocks only the signal being handled.  The
\* handler's first statement sets flag_exit = 1; its putc() and printf()
\* follow, before it calls interr_usleep_unblock().
Signal(t, s) ==
    /\ signals < MaxSignals
    /\ t \in SignalTargets
    /\ Alive(t)
    /\ s \notin Range(handling[t])
    /\ flag_exit' = 1
    /\ handling' = [handling EXCEPT ![t] = Append(@, s)]
    /\ signals' = signals + 1
    /\ UNCHANGED <<iuVars, mainVars, flag_exit_plotting_thr, burst_level,
                   clientVars, logVars, ppc, joinable, proxyUp, originUp>>

\* A step of t's innermost handler: interr_usleep_unblock() enters
\* UNLOCK(), which sets the context's flag; then lock, broadcast, unlock;
\* after the unlock the handler returns to what it interrupted.
Handler(t) ==
    /\ Alive(t)
    /\ handling[t] # <<>>
    /\ LET f == <<t, Last(handling[t])>>
       IN \/ IU!UnblockCall(f) /\ UNCHANGED handling
          \/ /\ IU!UnblockStep(f)
             /\ handling' = IF unb'[f] = "idle"
                            THEN [handling EXCEPT ![t] = Front(@)]
                            ELSE handling
    /\ UNCHANGED <<mainVars, flagVars, clientVars, logVars, ppc, joinable,
                   proxyUp, originUp, signals>>

-----------------------------------------------------------------------------

MainStep ==
    \/ LaunchOrigin \/ MainWaitCall \/ MainWaitStep \/ MainTimeout
    \/ MainWaitReturn
    \/ SettingLoop \/ LaunchProxy \/ StartSampler
    \/ ScriptBurst \/ ScriptUsleep \/ ScriptEnd \/ JoinClients
    \/ DrainTest \/ StopSampler \/ JoinSampler \/ KillProxy \/ MainEnd

ClientStep(c) == Request(c) \/ PushRecord(c)

SamplerStep == SamplerTick \/ SamplerStop \/ SamplerDump \/ SamplerClear

Next ==
    \/ MainStep
    \/ MainSpurious
    \/ \E c \in Clients : ClientStep(c)
    \/ SamplerStep
    \/ \E t \in Threads : (\E s \in Sigs : Signal(t, s)) \/ Handler(t)
    \/ Terminate \/ CloseCall \/ CloseUnlock \/ CloseFree
    \/ Exited /\ UNCHANGED vars

\* Every thread keeps running while it can: the kernel schedules them all,
\* a time-out of interr_usleep() does come (its deadline is finite, so it
\* comes even if spurious wake-ups keep re-arming the wait: strong
\* fairness), and a started handler runs to its end.  A spurious wake-up
\* and a signal are not assumed to ever happen, nor are the destructors
\* that run after main() returns.
Fairness ==
    /\ WF_vars(MainStep)
    /\ SF_vars(MainTimeout)
    /\ \A c \in Clients : WF_vars(ClientStep(c))
    /\ WF_vars(SamplerStep)
    /\ \A t \in Threads : WF_vars(Handler(t))

Spec == Init /\ [][Next]_vars /\ Fairness

-----------------------------------------------------------------------------
(* Properties                                                              *)

\* The records of successful requests of setting s, and what the sampler
\* wrote to that setting's client log.
Succeeded(s) == {c \in ok : cset[c] = s}
WrittenFor(s) == {c \in Clients : <<s, c>> \in written}

\* Each setting's client-statistics log, once the sampler has written it,
\* holds exactly one record per successful request of that setting's bursts:
\* none lost, none from another setting.  It relies on main() joining every
\* client thread before it raises flag_exit_plotting_thr.
FlushedExactly ==
    \A s \in flushed : WrittenFor(s) = Succeeded(s)

\* Until a signal arrives, every client log the sampler has written holds
\* exactly its setting's successful requests (a signal lets the sampler
\* run on while clients still push: the lost_records run).
FlushedUntilSignal ==
    signals = 0 => FlushedExactly

\* When main() returns, every client thread it spawned has been joined
\* (a joinable std::thread destroyed at exit aborts the process).
ExitJoinsClients ==
    Exited => clients_threads = {}

\* When main() returns, it leaves nothing of the setting running: the
\* sampling thread is joined and the proxy process has been stopped.
CleanExit ==
    Exited => (~joinable /\ ~proxyUp /\ clients_threads = {})

\* The experiment ends: without a signal main() runs every setting and
\* returns, and a signal at any moment makes it return early.
ExperimentCompletes ==
    <>Exited

\* A signal that requests the exit makes main() return, even though the
\* gauge the drain loop waits on never drops to 0: the loop tests
\* flag_exit, and the handler's UNLOCK() cuts main()'s waits short.
ShutdownCompletes ==
    (flag_exit = 1) ~> Exited

=============================================================================
