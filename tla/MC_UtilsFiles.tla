--------------------------- MODULE MC_UtilsFiles ---------------------------
(***************************************************************************)
(* Model-checking instances of UtilsFiles: names a and b two levels deep,  *)
(* so that a plays the test directory and b what lies beside it; links    *)
(* found at start point at a (from a itself: a loop), at b (a directory   *)
(* outside a) or at b/a (a file, a directory or nothing).                 *)
(***************************************************************************)
EXTENDS UtilsFiles

MCNames == {"a", "b"}

MCTargets == {<<"a">>, <<"b">>, <<"b", "a">>}

MCCallPaths == {<<"a">>, <<"a", "b">>}

\* One string of two characters, so that a short write() leaves a part of it.
MCStrs == {<<"x", "y">>}

MCOps == {"mkpath", "dump2file", "rmpath", "file2buf"}

\* main() of test_rate_limiting.cpp: utils_rmpath(TEST_DIR) on whatever an
\* earlier run, or another user of /tmp, left there.
MCRmpathOps == {"rmpath"}
MCTestDir == {<<"a">>}

=============================================================================
