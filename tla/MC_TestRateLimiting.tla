------------------------ MODULE MC_TestRateLimiting ------------------------
(***************************************************************************)
(* Model-checking instances of TestRateLimiting.  The settings[] table of  *)
(* test_rate_limiting.cpp is cut to two settings of its two shapes: a      *)
(* single burst ("setting-1") and burst, usleep, burst ("setting-2"), with *)
(* one request per burst: each burst still spawns its own client thread,   *)
(* and two bursts of one setting still overlap, which is what the          *)
(* properties are about.                                                   *)
(***************************************************************************)
EXTENDS TestRateLimiting

MCScripts == << <<Burst(1)>>, <<Burst(1), Usleep, Burst(1)>> >>

\* Every thread of the process but main().
MCNonMainTargets == {Plotter} \cup Clients

\* Every thread of the process.
MCAllTargets == Threads

=============================================================================
