--------------------------- MODULE LibcurlHeaders ---------------------------
(***************************************************************************)
(* find_header() of src/src/libs/utils/libcurl_wrap.c, the search           *)
(* libcurl_wrap_cli_request() uses to find a "User-Agent" among the        *)
(* caller's NULL-terminated header array, as a recursive operator, checked *)
(* against what it is meant to compute: the index of the first            *)
(* well-formed header whose tag is the needle, ignoring case.             *)
(*                                                                         *)
(* A header string is abstracted to the part before its first ':' (tag),  *)
(* whether it has a ':' at all (colon), and the text after it (val); the   *)
(* characters are drawn from a small alphabet in which case matters.      *)
(***************************************************************************)
EXTENDS Naturals, Sequences, SequencesExt

CONSTANTS
    Letters,        \* the characters of tags, values and needles
    Lower,          \* tolower() on Letters
    HdrsMaxNum,     \* HDRS_MAX_NUM
    HdrsMaxSize,    \* HDRS_MAX_SIZE
    Headers,        \* the header arrays to try
    Needles,        \* the hdr_needle strings to try
    ValNeedles,     \* the val_needle strings to try
    NULL            \* model value: a NULL val_needle

ASSUME Lower \in [Letters -> Letters]

VARIABLES headers, needle, valNeedle

vars == <<headers, needle, valNeedle>>

\* strncasecmp(s1, s2, n) == 0, comparing from position k on: a string ends
\* where its sequence ends (its NUL), and the comparison stops at n
\* characters, at a difference, or where both strings end.
RECURSIVE StrNCaseEqFrom(_, _, _, _)
StrNCaseEqFrom(s1, s2, n, k) ==
    IF k > n THEN TRUE
    ELSE IF k > Len(s1) \/ k > Len(s2) THEN k > Len(s1) /\ k > Len(s2)
    ELSE Lower[s1[k]] = Lower[s2[k]] /\ StrNCaseEqFrom(s1, s2, n, k + 1)

StrNCaseEq(s1, s2, n) == StrNCaseEqFrom(s1, s2, n, 1)

\* strstr(p, val) != NULL, p pointing at the ':' (Letters hold no ':').
HasInfix(s, v) ==
    \E i \in 0..Len(s) - Len(v) : SubSeq(s, i + 1, i + Len(v)) = v

\* One pass of the loop for index i (0-based): the header must have a ':'
\* after a non-empty tag of at most HDRS_MAX_SIZE characters, and
\* strncasecmp(hdr_needle, hdr, hdr_tag_size) compares only as many
\* characters as the tag has.
RECURSIVE FindHeaderFrom(_, _, _, _)
FindHeaderFrom(hs, nd, vn, i) ==
    IF i >= HdrsMaxNum \/ i >= Len(hs) THEN -1
    ELSE LET h == hs[i + 1]
         IN IF ~h.colon \/ Len(h.tag) = 0 \/ Len(h.tag) > HdrsMaxSize
            THEN FindHeaderFrom(hs, nd, vn, i + 1)
            ELSE IF StrNCaseEq(nd, h.tag, Len(h.tag))
                    /\ (vn = NULL \/ HasInfix(h.val, vn))
                 THEN i
                 ELSE FindHeaderFrom(hs, nd, vn, i + 1)

\* find_header(headers, hdr_needle, val_needle): -1 when there are no
\* headers, else the index of the first match or -1.
FindHeader(hs, nd, vn) ==
    IF Len(hs) = 0 THEN -1 ELSE FindHeaderFrom(hs, nd, vn, 0)

-----------------------------------------------------------------------------
(* The reference                                                           *)

SameIgnoringCase(s, t) ==
    Len(s) = Len(t) /\ \A k \in 1..Len(s) : Lower[s[k]] = Lower[t[k]]

\* The headers among the first HDRS_MAX_NUM that are well formed and carry
\* the needle as their tag (and val_needle in their value).
Matches(hs, nd, vn) ==
    {i \in 0..Len(hs) - 1 :
        /\ i < HdrsMaxNum
        /\ hs[i + 1].colon
        /\ 0 < Len(hs[i + 1].tag) /\ Len(hs[i + 1].tag) <= HdrsMaxSize
        /\ SameIgnoringCase(hs[i + 1].tag, nd)
        /\ vn = NULL \/ HasInfix(hs[i + 1].val, vn)}

FindHeaderRef(hs, nd, vn) ==
    IF Matches(hs, nd, vn) = {} THEN -1 ELSE Min(Matches(hs, nd, vn))

-----------------------------------------------------------------------------

Init ==
    /\ headers \in Headers
    /\ needle \in Needles
    /\ valNeedle \in ValNeedles

Next == UNCHANGED vars

Spec == Init /\ [][Next]_vars

\* find_header() returns the header whose tag is the needle: a header
\* "User:..." is not a "User-Agent" header (libcurl_wrap_cli_request passes
\* the header it finds to CURLOPT_USERAGENT).
FindsExactTag ==
    FindHeader(headers, needle, valNeedle) = FindHeaderRef(headers, needle, valNeedle)

=============================================================================
