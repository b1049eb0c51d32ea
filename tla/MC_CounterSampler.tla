------------------------- MODULE MC_CounterSampler -------------------------
(***************************************************************************)
(* Model-checking instances of CounterSampler.                             *)
(***************************************************************************)
EXTENDS CounterSampler

\* A fetch either returns the vts document or fails.
MCAllReplies == {"vts", "none"}

=============================================================================
