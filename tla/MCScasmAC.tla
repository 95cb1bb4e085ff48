------------------------------ MODULE MCScasmAC ------------------------------
EXTENDS ScasmAC

\* Character codes.
A == 65
B == 66
C == 67
D == 68
E == 69
F == 70
Pct == 37

\* A 16-character table string ending in ch: tables 1 and 2 keep 15 of
\* its characters, table 3 all 16.
Long(ch) == [i \in 1..15 |-> 70 + i] \o <<ch>>

\* Table strings: the usual shape (a space and the end mark in table 1),
\* one holding a digit, two short ones and a long one whose last character
\* no message uses.
MCTableStrs == { <<A, B, Space, Pct>>, <<C, 50>>, <<D, E>>, Long(86) }

\* The same with the long string ending in E, a character messages use.
MCTableStrsWrap == { <<A, B, Space, Pct>>, <<C, 50>>, <<D, E>>, Long(E) }

\* Messages: table-1 text with the end mark, a digit run, characters of
\* the later tables, and a character no table holds.
MCMsgs == { <<A, Pct>>, <<B, 51>>, <<C, 50>>, <<E, A>>, <<D>>, <<F>> }
=============================================================================
