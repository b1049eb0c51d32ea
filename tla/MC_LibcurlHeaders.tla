------------------------ MODULE MC_LibcurlHeaders ------------------------
(***************************************************************************)
(* Bounded inputs for find_header(): tags of up to three characters over   *)
(* {a, A, b}, with and without a ':', arrays of up to three headers, and   *)
(* HDRS_MAX_NUM and HDRS_MAX_SIZE cut to 2 so that both limits are hit.    *)
(***************************************************************************)
EXTENDS LibcurlHeaders

MCLower == [c \in {"a", "A", "b"} |-> IF c = "A" THEN "a" ELSE c]

MCTags == {<<>>, <<"a">>, <<"A">>, <<"a", "b">>, <<"A", "b">>, <<"a", "b", "a">>}

MCHeaderSet ==
    [tag : MCTags, colon : BOOLEAN, val : {<<>>, <<"b">>}]

MCHeaders == SeqOf(MCHeaderSet, 3)

MCNeedles == {<<"a">>, <<"a", "b">>}

MCValNeedles == {NULL, <<"b">>}

=============================================================================
