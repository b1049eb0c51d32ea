------------------------- MODULE MC_LibcurlRequest -------------------------
(***************************************************************************)
(* Model-checking instances of LibcurlRequest: every method (and one past  *)
(* the enum), bodies of NULL and of 0, 1 and 3 bytes read two bytes at a   *)
(* time at most, up to two caller headers, a reply of up to two chunks     *)
(* after one header line.                                                  *)
(***************************************************************************)
EXTENDS LibcurlRequest

MCMethods == {"GET", "POST", "PUT", "MAX"}

MCBodies == {NULL, 0, 1, 3}

\* Every failure but curl_slist_append's.
MCFaultsNoSlist == FaultKinds \ {"slist"}

=============================================================================
