--------------------------- MODULE CounterSampler ---------------------------
(***************************************************************************)
(* The sampling thread plottingThr() of test_rate_limiting.cpp, from       *)
(* fopen of stats.dat to the end of its while loop, against the counters   *)
(* of the nginx proxy it polls.                                            *)
(*                                                                         *)
(* Each iteration fetches /status/format/json from the proxy's status      *)
(* server (a new connection, so the fetch itself is one more accepted      *)
(* connection), reads CLOCK_REALTIME, and trace_stats() prints one row:    *)
(* the elapsed time, the accepted-connections delta less the fetch's own   *)
(* connection, the deltas of the "nginx-proxy" zone's request, 2xx and 5xx *)
(* counters, and the "nowMsec" gauge, which it also stores in burst_level. *)
(* The zone exists in the vts document only once a request of that server  *)
(* has completed; until then the code reads its counters as 0.             *)
(*                                                                         *)
(* The clock is CLOCK_REALTIME, which the system may set back.  Elapsed    *)
(* times are uint64_t differences, kept modulo 2^Width: the wrap happens   *)
(* exactly when the clock is below tstart, whatever the width.             *)
(***************************************************************************)
EXTENDS Naturals, Integers, Sequences, SequencesExt

CONSTANTS
    MaxClients,     \* bound on the client connections the proxy accepts
    MaxTicks,       \* bound on the loop's iterations
    MaxClockSets,   \* bound on the times the realtime clock is set back
    ClockStart,     \* the realtime clock when the sampler starts
    Width,          \* width of the uint64_t elapsed-time arithmetic
    Replies,        \* what a fetch may yield: "vts" and/or "none"
    NowMsec         \* json_object_get_int() of the document's "nowMsec"

ASSUME
    /\ MaxClients \in Nat /\ MaxTicks \in Nat /\ MaxClockSets \in Nat
    /\ ClockStart \in Nat /\ Width \in Nat \ {0}
    /\ Replies \subseteq {"vts", "none"} /\ Replies # {}
    /\ NowMsec \in Nat

VARIABLES
    accepted,       \* nginx "connections.accepted"
    reqs, r2xx, r5xx, \* the "nginx-proxy" zone's counters
    zone,           \* the zone is present in the vts document
    pending,        \* client requests accepted and not yet completed
    clock,          \* CLOCK_REALTIME, in sample periods
    clockSets,      \* times the clock has been set back
    tstart,         \* plottingThr's tstart
    prev,           \* trace_stats_ctx: the tot_*_prev fields
    rows,           \* the rows printed to stats.dat
    burst_level,
    stop,           \* flag_exit || flag_exit_plotting_thr
    spc,            \* "loop", "stopped" (left the loop) or "crashed"
    clientConns,    \* client connections accepted so far
    seen            \* client connections and completed requests at the last read

nginxVars == <<accepted, reqs, r2xx, r5xx, zone, pending, clientConns>>
vars == <<nginxVars, clock, clockSets, tstart, prev, rows, burst_level,
          stop, spc, seen>>

Mod == 2 ^ Width

\* uint64_t subtraction tcurr - tstart.
ElapsedSince(t0) == (clock - t0) % Mod

Zero == [acc |-> 0, req |-> 0, ok |-> 0, err |-> 0]

\* The vts document the fetch returns, as the code reads it.
Snapshot == [acc |-> accepted, zone |-> zone, req |-> reqs,
             ok |-> r2xx, err |-> r5xx, now |-> NowMsec]

TypeOK ==
    /\ accepted \in Nat /\ reqs \in Nat /\ r2xx \in Nat /\ r5xx \in Nat
    /\ zone \in BOOLEAN
    /\ pending \in Nat
    /\ clock \in Nat
    /\ clockSets \in 0..MaxClockSets
    /\ tstart \in Nat
    /\ prev \in [{"acc", "req", "ok", "err"} -> Nat]
    \* no printed delta is negative
    /\ rows \in Seq([t : 0..Mod - 1, acc : Nat, req : Nat, ok : Nat,
                     err : Nat, level : Nat])
    /\ burst_level \in Nat
    /\ stop \in BOOLEAN
    /\ spc \in {"loop", "stopped", "crashed"}
    /\ clientConns \in 0..MaxClients
    /\ seen \in [conns : Nat, reqs : Nat]

\* fopen(stats.dat); trace_stats_ctx with every tot_*_prev at 0;
\* tstart = utils_gettime_msecs().  The proxy was launched just before and
\* has served nothing yet.
Init ==
    /\ accepted = 0 /\ reqs = 0 /\ r2xx = 0 /\ r5xx = 0
    /\ zone = FALSE
    /\ pending = 0
    /\ clock = ClockStart
    /\ clockSets = 0
    /\ tstart = ClockStart
    /\ prev = Zero
    /\ rows = <<>>
    /\ burst_level = 0
    /\ stop = FALSE
    /\ spc = "loop"
    /\ clientConns = 0
    /\ seen = [conns |-> 0, reqs |-> 0]

-----------------------------------------------------------------------------
(* The proxy, driven by the client threads                                 *)

\* A client thread's connection is accepted.
ClientConnect ==
    /\ clientConns < MaxClients
    /\ accepted' = accepted + 1
    /\ pending' = pending + 1
    /\ clientConns' = clientConns + 1
    /\ UNCHANGED <<reqs, r2xx, r5xx, zone, clock, clockSets, tstart, prev,
                   rows, burst_level, stop, spc, seen>>

\* The request completes (proxied, or rejected by limit_req with 503) and
\* vts accounts it in the "nginx-proxy" zone, creating the zone if needed.
ClientComplete ==
    /\ pending > 0
    /\ pending' = pending - 1
    /\ reqs' = reqs + 1
    /\ \/ r2xx' = r2xx + 1 /\ UNCHANGED r5xx
       \/ r5xx' = r5xx + 1 /\ UNCHANGED r2xx
    /\ zone' = TRUE
    /\ UNCHANGED <<accepted, clientConns, clock, clockSets, tstart, prev,
                   rows, burst_level, stop, spc, seen>>

\* The realtime clock is set back (settimeofday, an NTP step).
ClockSetBack ==
    /\ clockSets < MaxClockSets
    /\ clock > 0
    /\ \E c \in 0..clock - 1 : clock' = c
    /\ clockSets' = clockSets + 1
    /\ UNCHANGED <<nginxVars, tstart, prev, rows, burst_level, stop, spc,
                   seen>>

\* main() raises flag_exit_plotting_thr (or a signal raises flag_exit).
RequestStop ==
    /\ ~stop
    /\ stop' = TRUE
    /\ UNCHANGED <<nginxVars, clock, clockSets, tstart, prev, rows,
                   burst_level, spc, seen>>

-----------------------------------------------------------------------------
(* trace_stats()                                                           *)

\* Bug variant: the fetch's own connection is not discounted.
IRequestsDeltaNoOffset(s, p) == s.acc - p.acc

\* trace_stats_irequests(): tot_accepted - tot_accepted_prev - 1.
IRequestsDelta(s, p) == s.acc - p.acc - 1

\* trace_stats_responses(): the zone's totals, 0 while the zone is absent.
ZoneTotals(s, p) ==
    IF s.zone THEN [req |-> s.req, ok |-> s.ok, err |-> s.err]
              ELSE [req |-> 0, ok |-> 0, err |-> 0]

\* Bug variant: the zone's deltas subtracted the wrong way round.
TraceRowSwapped(s, p) ==
    LET z == ZoneTotals(s, p)
    IN [t |-> ElapsedSince(tstart), acc |-> IRequestsDelta(s, p),
        req |-> p.req - z.req, ok |-> p.ok - z.ok, err |-> p.err - z.err,
        level |-> s.now]

\* The row trace_stats() prints for snapshot s, and the tot_*_prev it
\* leaves behind.
TraceRow(s, p) ==
    LET z == ZoneTotals(s, p)
    IN [t |-> ElapsedSince(tstart), acc |-> IRequestsDelta(s, p),
        req |-> z.req - p.req, ok |-> z.ok - p.ok, err |-> z.err - p.err,
        level |-> s.now]

TracePrev(s, p) ==
    LET z == ZoneTotals(s, p)
    IN [acc |-> s.acc, req |-> z.req, ok |-> z.ok, err |-> z.err]

-----------------------------------------------------------------------------
(* plottingThr()'s loop                                                    *)

\* One iteration: fetch the status document (the connection is accepted
\* before nginx renders it), read the clock, trace_stats(), usleep(100 ms).
\* A failed fetch or an empty body leaves response NULL; CHECK only logs it
\* and trace_stats(NULL) hands NULL to json_tokener_parse(), which
\* dereferences it: the process dies.
SamplerTick ==
    /\ spc = "loop"
    /\ ~stop
    /\ Len(rows) < MaxTicks
    /\ \E r \in Replies :
        \/ /\ r = "vts"
           /\ LET s == [Snapshot EXCEPT !.acc = accepted + 1]
              IN /\ accepted' = accepted + 1
                 /\ rows' = Append(rows, TraceRow(s, prev))
                 /\ prev' = TracePrev(s, prev)
                 /\ burst_level' = s.now
           /\ seen' = [conns |-> clientConns, reqs |-> reqs]
           /\ clock' = clock + 1
           /\ UNCHANGED spc
        \/ /\ r = "none"
           /\ spc' = "crashed"
           /\ UNCHANGED <<accepted, rows, prev, burst_level, seen, clock>>
    /\ UNCHANGED <<reqs, r2xx, r5xx, zone, pending, clientConns, clockSets,
                   tstart, stop>>

\* while (!flag_exit && !flag_exit_plotting_thr): the loop ends.
SamplerExit ==
    /\ spc = "loop"
    /\ stop
    /\ spc' = "stopped"
    /\ UNCHANGED <<nginxVars, clock, clockSets, tstart, prev, rows,
                   burst_level, stop, seen>>

Halted == spc # "loop"

Next ==
    \/ ClientConnect \/ ClientComplete \/ ClockSetBack \/ RequestStop
    \/ SamplerTick \/ SamplerExit
    \/ Halted /\ UNCHANGED vars

Spec == Init /\ [][Next]_vars

-----------------------------------------------------------------------------
(* Properties                                                              *)

SumOf(f) == FoldLeft(LAMBDA acc, r : acc + r[f], 0, rows)

\* The rows account for the traffic exactly, however the ticks interleave
\* with the clients: the accepted column sums to the client connections
\* accepted before the last read (each fetch's own connection is taken
\* out), the request column to the requests completed by then, and every
\* completed request is in the 2xx or the 5xx column.
RowsAccountForTraffic ==
    /\ SumOf("acc") = seen.conns
    /\ SumOf("req") = seen.reqs
    /\ SumOf("ok") + SumOf("err") = SumOf("req")

\* A failed metrics fetch ends the sampling of the setting, never the
\* process (spec 7, metrics errors).
SamplerSurvivesFetchFailure ==
    spc # "crashed"

=============================================================================
