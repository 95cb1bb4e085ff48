--------------------------- MODULE MCTextDirectives ---------------------------
EXTENDS TextDirectives

\* '"' (below the apostrophe: bit 7 set) and the apostrophe itself.
MCDelims == {34, 39}

\* "A" and "AB": one character takes parse_string's single-character
\* path, two distinguish the odd and even positions of FLS and REV.
MCContents == {<<65>>, <<65, 66>>}

\* The digits 1 and A.
MCHexVals == {1, 10}
=============================================================================
