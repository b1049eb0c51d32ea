\* Every header array of up to three headers against two needles, with and
\* without a value needle.
CONSTANTS
    Letters = {"a", "A", "b"}
    Lower <- MCLower
    HdrsMaxNum = 2
    HdrsMaxSize = 2
    Headers <- MCHeaders
    Needles <- MCNeedles
    ValNeedles <- MCValNeedles
    NULL = NULL

SPECIFICATION Spec

INVARIANT FindsExactTag
