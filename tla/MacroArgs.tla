------------------------------ MODULE MacroArgs ------------------------------
(***************************************************************************)
(* The macro argument reader: parse_macro_arg of the three syntax modules *)
(* (merlin/syntax.c:3694, scasm/syntax.c:3237, edtasm/syntax.c:2454), the *)
(* skip_operand each of them calls (merlin:256, scasm:149, edtasm:173)    *)
(* and Merlin's separator hook merlin_macro_param_sep (merlin:326).  A    *)
(* call line is a sequence of character codes (ASCII); NUL stands for the *)
(* end of the line.  Each reader returns the argument's text, the line    *)
(* from where it stopped on, and the syntax errors it reported.           *)
(*                                                                         *)
(* skip_string, escape and trim belong to vasm's core, not to this        *)
(* repository; they are modelled from what the syntax modules rely on.    *)
(***************************************************************************)
EXTENDS Integers, Sequences, SequencesExt

NUL == 0
CA == 65        \* an ordinary character of an argument
CComma == 44
CSemi == 59     \* commentchar of all three dialects
CDot == 46
CLPar == 40
CRPar == 41
CQuote == 34
CBlank == 32
CLt == 60
CGt == 62
CBsl == 92

CharAt(s, i) == IF i \in 1..Len(s) THEN s[i] ELSE NUL
From(s, i) == SubSeq(s, i, Len(s))

Arg(text, rest, err) == [text |-> text, rest |-> rest, err |-> err]

\* escape(s, NULL) - 1 at a backslash: the position of the escaped
\* character, or of the backslash when it ends the line.
EscapeLast(s, i) == IF CharAt(s, i + 1) # NUL THEN i + 1 ELSE i

\* The quote branch of skip_operand (merlin:282-292): a character constant
\* takes one character (an escape, or a doubled quote) and an optional
\* closing quote.  Returns the position of its last character.
CharConstLast(s, i) ==
    LET q == CharAt(s, i)
        j == CASE CharAt(s, i + 1) = NUL -> i
               [] CharAt(s, i + 1) = CBsl -> EscapeLast(s, i + 1)
               [] CharAt(s, i + 1) = q /\ CharAt(s, i + 2) = q -> i + 2
               [] OTHER -> i + 1
    IN IF CharAt(s, j + 1) = q THEN j + 1 ELSE j

\* skip_operand(0, s) of Merlin and SCASM (merlin:256-312, scasm:149-205):
\* the position it stops at and the errors 3 (too many closing
\* parentheses) and 4 (missing closing parenthesis) it reports.
RECURSIVE SkipOperand(_, _, _, _)
SkipOperand(s, i, par, igntrail) ==
    LET c == CharAt(s, i)
        Stop == [end |-> i, err |-> IF par # 0 THEN {4} ELSE {}]
    IN CASE c = CLPar -> SkipOperand(s, i + 1, par + 1, igntrail)
         [] c = CRPar ->
              LET r == SkipOperand(s, i + 1, IF par > 0 THEN par - 1 ELSE 0, igntrail)
              IN IF par > 0 THEN r ELSE [r EXCEPT !.err = @ \cup {3}]
         [] c = CQuote -> SkipOperand(s, CharConstLast(s, i) + 1, par, igntrail)
         [] c = CComma /\ par = 0 -> Stop
         [] igntrail /\ c = CBlank /\ par = 0 -> Stop
         [] c \in {NUL, CSemi} -> Stop
         [] OTHER -> SkipOperand(s, i + 1, par, igntrail)

\* skip_string(s, delim, NULL) at the opening quote (vasm core): the
\* position after the closing quote, a doubled quote and a backslash
\* escape standing for one character; NUL's position when unterminated.
RECURSIVE StringEnd(_, _, _)
StringEnd(s, i, q) ==
    CASE CharAt(s, i) = NUL -> i
      [] CharAt(s, i) = CBsl -> StringEnd(s, EscapeLast(s, i) + 1, q)
      [] CharAt(s, i) = q /\ CharAt(s, i + 1) = q -> StringEnd(s, i + 2, q)
      [] CharAt(s, i) = q -> i + 1
      [] OTHER -> StringEnd(s, i + 1, q)
SkipString(s, i) == StringEnd(s, i + 1, CharAt(s, i))

\* EDTASM's skip_operand (edtasm:173-220).  exp_skip writes a NUL over a
\* blank, ending the line there; trunc says it did.
RECURSIVE EdSkipOperand(_, _, _)
EdSkipOperand(s, i, par) ==
    LET c == CharAt(s, i)
        Stop(t) == [end |-> i, trunc |-> t, err |-> IF par # 0 THEN {4} ELSE {}]
    IN CASE c = CBlank -> Stop(TRUE)
         [] c = CLPar -> EdSkipOperand(s, i + 1, par + 1)
         [] c = CRPar ->
              LET r == EdSkipOperand(s, i + 1, IF par > 0 THEN par - 1 ELSE 0)
              IN IF par > 0 THEN r ELSE [r EXCEPT !.err = @ \cup {3}]
         [] c = CQuote -> EdSkipOperand(s, SkipString(s, i), par)
         [] c = NUL \/ (par = 0 /\ c \in {CComma, CSemi}) -> Stop(FALSE)
         [] OTHER -> EdSkipOperand(s, i + 1, par)

\* trim (vasm core): the text without its trailing blanks.
RECURSIVE Trim(_)
Trim(t) == IF t # <<>> /\ Last(t) = CBlank THEN Trim(Front(t)) ELSE t

-----------------------------------------------------------------------------
(* parse_macro_arg *)

\* Merlin (merlin:3694-3702): the argument is what skip_operand skips.
MerlinParseArg(s, igntrail) ==
    LET r == SkipOperand(s, 1, 0, igntrail)
    IN Arg(SubSeq(s, 1, r.end - 1), From(s, r.end), r.err)

\* SCASM (scasm:3237-3262): a leading quote is stripped together with its
\* closing quote, a backslash keeping the character after it inside.
RECURSIVE QuotedEnd(_, _, _)
QuotedEnd(s, i, q) ==
    CASE CharAt(s, i) \in {NUL, q} -> i
      [] CharAt(s, i) = CBsl /\ CharAt(s, i + 1) # NUL -> QuotedEnd(s, i + 2, q)
      [] OTHER -> QuotedEnd(s, i + 1, q)

\* Mutant: param->len taken after the closing quote was skipped.
ScasmParseArg_lenAfterQuote(s) ==
    IF CharAt(s, 1) = CQuote
    THEN LET k == QuotedEnd(s, 2, CQuote)
             e == IF CharAt(s, k) = CQuote THEN k + 1 ELSE k
         IN Arg(SubSeq(s, 2, e - 1), From(s, e), {})
    ELSE LET r == SkipOperand(s, 1, 0, TRUE)
         IN Arg(SubSeq(s, 1, r.end - 1), From(s, r.end), r.err)

ScasmParseArg(s) ==
    IF CharAt(s, 1) = CQuote
    THEN LET k == QuotedEnd(s, 2, CQuote)
         IN Arg(SubSeq(s, 2, k - 1), From(s, IF CharAt(s, k) = CQuote THEN k + 1 ELSE k), {})
    ELSE LET r == SkipOperand(s, 1, 0, TRUE)
         IN Arg(SubSeq(s, 1, r.end - 1), From(s, r.end), r.err)

\* EDTASM (edtasm:2454-2490): <...> up to the first single '>', each ">>"
\* shifted down to one '>' and quoted strings skipped whole; the text up
\* to the end of the line when no '>' closes it.
RECURSIVE Bracketed(_, _, _)
Bracketed(s, i, acc) ==
    CASE CharAt(s, i) = NUL -> Arg(acc, <<>>, {})
      [] CharAt(s, i) = CGt /\ CharAt(s, i + 1) = CGt -> Bracketed(s, i + 2, acc \o <<CGt>>)
      [] CharAt(s, i) = CGt -> Arg(acc, From(s, i + 1), {})
      [] CharAt(s, i) = CQuote ->
           LET j == SkipString(s, i) IN Bracketed(s, j, acc \o SubSeq(s, i, j - 1))
      [] OTHER -> Bracketed(s, i + 1, acc \o <<CharAt(s, i)>>)

EdParseArg(s) ==
    IF CharAt(s, 1) = CLt
    THEN Bracketed(s, 2, <<>>)
    ELSE LET r == EdSkipOperand(s, 1, 0)
         IN Arg(Trim(SubSeq(s, 1, r.end - 1)), IF r.trunc THEN <<>> ELSE From(s, r.end), r.err)

ParseMacroArg(d, s, igntrail) ==
    CASE d = "merlin" -> MerlinParseArg(s, igntrail)
      [] d = "scasm" -> ScasmParseArg(s)
      [] d = "edtasm" -> EdParseArg(s)

-----------------------------------------------------------------------------
(* The separator after an argument *)

RECURSIVE SkipBlanks(_)
SkipBlanks(s) == IF s # <<>> /\ Head(s) = CBlank THEN SkipBlanks(Tail(s)) ELSE s

MerlinSepChars == {CSemi, CComma, CDot, 45, 47, CLPar, CBlank}

\* merlin_macro_param_sep (merlin:326-340), MACRO_PARAM_SEP of Merlin:
\* the line after the separator and the blanks behind it, or NoSep.
NoSep == <<-1>>
MerlinParamSep(s) == IF CharAt(s, 1) \in MerlinSepChars THEN SkipBlanks(Tail(s)) ELSE NoSep

\* The core's separator for SCASM and EDTASM: a comma.
CommaSep(s) == IF CharAt(s, 1) = CComma THEN SkipBlanks(Tail(s)) ELSE NoSep

ParamSep(d, s) == IF d = "merlin" THEN MerlinParamSep(s) ELSE CommaSep(s)

-----------------------------------------------------------------------------
(* How spec.md section 4.7 says an argument is written *)

\* An argument of a call line: its text, the form it is written in, and
\* the separator written after it.  "bare" is the text as it is, "quoted"
\* the SCASM "text", "bracket" the EDTASM <text> with every '>' doubled.
DoubleGt(t) == FoldLeft(LAMBDA acc, c : acc \o (IF c = CGt THEN <<CGt, CGt>> ELSE <<c>>), <<>>, t)

Spelled(a) ==
    CASE a.form = "bare" -> a.text
      [] a.form = "quoted" -> <<CQuote>> \o a.text \o <<CQuote>>
      [] a.form = "bracket" -> <<CLt>> \o DoubleGt(a.text) \o <<CGt>>

CallLine(call) ==
    FoldLeft(LAMBDA acc, k : acc \o Spelled(call[k])
                              \o (IF k < Len(call) THEN <<call[k].sep>> ELSE <<>>),
             <<>>, [k \in 1..Len(call) |-> k])

Texts(call) == [k \in 1..Len(call) |-> call[k].text]
=============================================================================
