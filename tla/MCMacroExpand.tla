--------------------------- MODULE MCMacroExpand ---------------------------
(* Model values for MacroExpand.  Symbol values: zero, a nine-digit value, *)
(* and -1, which "%lu" of (uint32_t)val prints with ten digits.            *)
EXTENDS MacroExpand

MCSymVals == {0, 999999999, -1}

\* Merlin's ';' and ',', the separators skip_operand stops at.
MCCallSeps == {CSemi, CComma}

\* '.', '-' and '/': separators spec.md section 4.7 lists for Merlin that
\* skip_operand never stops at.
MCDeadSeps == {CDot, 45, 47}
=============================================================================
