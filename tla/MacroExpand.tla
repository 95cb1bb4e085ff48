----------------------------- MODULE MacroExpand -----------------------------
(***************************************************************************)
(* expand_macro of the three syntax modules (merlin/syntax.c:3706,        *)
(* scasm/syntax.c:3270, edtasm/syntax.c:2493).  The reader (vasm's core,  *)
(* not part of this repository) walks one body line of a macro and hands *)
(* every escape character to expand_macro together with the space left in *)
(* the line buffer; expand_macro writes nc characters, moves the line     *)
(* pointer past what it consumed, or returns -1, upon which the reader    *)
(* reports "macro expansion too long".  A state is the reader part-way    *)
(* through one body line; one step handles the token at the pointer.      *)
(*                                                                         *)
(* A body line is a sequence of tokens: an ordinary character, or an      *)
(* escape (its escape characters and what follows them).  Output          *)
(* characters are integers: decimal digits 0..9 stand for themselves,     *)
(* parameter i's characters are ParamChar(i), and the rest are negative.  *)
(*                                                                         *)
(* An invocation either comes with its arguments as given, or from a call *)
(* line: the reader then first reads the arguments off the line with     *)
(* parse_macro_arg and the dialect's separator (MacroArgs), one argument  *)
(* per step, and expands a body line naming the first two with them.     *)
(***************************************************************************)
EXTENDS MacroArgs

CONSTANTS
    Dialects,       \* {"merlin", "scasm", "edtasm"}
    NumParams,      \* argument counts of the invocation (src->num_params)
    BsDigits,       \* digits N written as \N (Merlin, SCASM) or \\N (EDTASM)
    BrDigits,       \* digits N written as ]N (Merlin, SCASM)
    SymVals,        \* values of symbols named by \<sym>, in -67296..2^31-1
    Ids,            \* source ids (src->id) the invocation can have
    MaxSpace,       \* bound on the space left in the line buffer
    MaxLine,        \* bound on the tokens of a body line
    MaxArgs,        \* bound on the arguments written on a call line
    CallSeps,       \* the Merlin separators written between arguments
    Igntrail        \* values of Merlin's igntrail (the -i option)

VARIABLES
    dialect,    \* the syntax module assembled in
    escseq,     \* esc_sequences (vasm's -noesc option clears it)
    nparams,    \* src->num_params
    id,         \* src->id
    body,       \* the body line as fetched
    rest,       \* the tokens from the line pointer on
    given,      \* space in the line buffer when expansion began
    space,      \* dlen: the space left
    out,        \* what has been written into the line buffer
    status,     \* "expanding", "done" or "overflow"
    errors,     \* syntax errors reported
    igntrail,   \* Merlin's igntrail
    call,       \* the arguments as written on the call line
    unread,     \* the call line from the argument reader's pointer on
    args        \* the arguments read: the texts of src->param

\* what one expansion never changes
fixed == <<dialect, escseq, nparams, id, body, given, igntrail, call, unread, args>>
vars == <<dialect, escseq, nparams, id, body, rest, given, space, out, status, errors,
          igntrail, call, unread, args>>

Plain == -1         \* an ordinary character copied through
Bracket == -2       \* ']'
Backslash == -3     \* '\'
Underscore == -4    \* '_' that starts a unique id
LabChar == -5       \* a character of a name built by make_local_label
ParamChar(i) == 100 + i

\* Token codes.  A digit token's arg is the digit itself.
At == 10
Paren == 11
Same == 12          \* the escape character doubled: \\ or ]]
Count == 13         \* SCASM ]#
Name == 14          \* \NAME naming declared parameter val
Other == 15         \* anything else after the escape character
Dot == 16           \* EDTASM \\.label
Undef == 17         \* \<sym> of a symbol with no absolute value
NoClose == 18       \* \<sym without the closing '>'
NoSym == 19         \* \< not followed by a symbol
Sym == 20           \* \<sym> of a symbol whose value is val

Tok(e, a, v) == [esc |-> e, arg |-> a, val |-> v]
Chr == Tok("chr", 0, 0)

\* Parameter texts.  The second is empty, as in the call "M A,,C".
ParamText(i) == IF i = 1 THEN <<>> ELSE <<ParamChar(i), ParamChar(i)>>
NamedParams == 0..1
\* The name make_local_label(0, macro->name, ..., label, ...) builds.
LocalName == <<LabChar, LabChar, LabChar>>

BsTokens ==
    {Tok("\\", a, 0) : a \in BsDigits \cup {Same, At, Paren, Other, Undef, NoClose, NoSym}}
    \cup {Tok("\\", Name, j) : j \in NamedParams}
    \cup {Tok("\\", Sym, v) : v \in SymVals}
BrTokens(d) ==
    {Tok("]", a, 0) : a \in BrDigits \cup {Same} \cup (IF d = "scasm" THEN {Count} ELSE {})}
EdTokens ==
    {Tok("\\\\", a, 0) : a \in (BsDigits \ {0}) \cup {At, Dot, Other}}
    \cup {Tok("\\", Other, 0)}
Tokens(d) ==
    {Chr} \cup (IF d = "edtasm" THEN EdTokens ELSE BsTokens \cup BrTokens(d))
BodyLines(d) == UNION {[1..n -> Tokens(d)] : n \in 1..MaxLine}

-----------------------------------------------------------------------------
(* Conversions *)

\* sprintf "%d" / "%lu" of a natural number
RECURSIVE Decimal(_)
Decimal(n) == IF n < 10 THEN <<n>> ELSE Decimal(n \div 10) \o <<n % 10>>

\* "%0wlu": at least w digits, zero-padded
ZeroPad(s, w) == [i \in 1..(w - Len(s)) |-> 0] \o s

\* "%lu" of (uint32_t)val: a negative taddr wraps to 2^32 + val, whose
\* digits are 42949 followed by the five of 67296 + val (val >= -67296).
U32Decimal(v) ==
    IF v >= 0 THEN Decimal(v) ELSE Decimal(42949) \o ZeroPad(Decimal(67296 + v), 5)

\* "_%06lu" of src->id
UniqueId == <<Underscore>> \o ZeroPad(Decimal(id), 6)

-----------------------------------------------------------------------------
(* The reader's side of the contract (vasm core) *)

\* copy_macro_param: parameter n (0-based) if the invocation has it.
Param(n) == IF n < Len(args) THEN args[n + 1] ELSE <<>>
ParamCopy(n) == IF 0 <= n /\ n < nparams THEN Param(n) ELSE <<>>
CopyParamNc(n) == IF Len(ParamCopy(n)) > space THEN -1 ELSE Len(ParamCopy(n))

Expanding == status = "expanding" /\ rest # <<>>
Head1 == Head(rest)

\* expand_macro returned nc >= 0 having written w and consumed the token;
\* resid is what the token leaves in the line as ordinary characters.
Written(w, resid) ==
    /\ out' = out \o w
    /\ space' = space - Len(w)
    /\ rest' = resid \o Tail(rest)
    /\ UNCHANGED <<status, fixed>>

Overflow ==
    /\ status' = "overflow"
    /\ UNCHANGED <<out, space, rest, fixed>>

Result(nc, w, resid) == IF nc < 0 THEN Overflow ELSE Written(w, resid)

\* expand_macro returned 0 and left the pointer on the escape character:
\* the reader copies that character as an ordinary one.
CopyEscape(c, resid) == IF space < 1 THEN Overflow ELSE Written(<<c>>, resid)

ReadChar ==
    /\ Expanding /\ Head1 = Chr
    /\ CopyEscape(Plain, <<>>)
    /\ UNCHANGED errors

Finish ==
    /\ status = "expanding" /\ rest = <<>>
    /\ status' = "done"
    /\ UNCHANGED <<out, space, rest, errors, fixed>>

-----------------------------------------------------------------------------
(* Merlin and SCASM: the '\' escapes (merlin/syntax.c:3774-3850) *)

BsToken(a) == Expanding /\ dialect # "edtasm" /\ Head1.esc = "\\" /\ Head1.arg = a

BsBackslash ==
    /\ BsToken(Same)
    /\ LET w == IF escseq THEN <<Backslash, Backslash>> ELSE <<Backslash>>
       IN Result(IF space >= Len(w) THEN Len(w) ELSE -1, w, <<>>)
    /\ UNCHANGED errors

BsUniqueId_guard6 ==
    /\ BsToken(At)
    /\ Result(IF space > 6 THEN Len(UniqueId) ELSE -1, UniqueId, <<>>)
    /\ UNCHANGED errors

BsUniqueId ==
    /\ BsToken(At)
    /\ Result(IF space > 7 THEN Len(UniqueId) ELSE -1, UniqueId, <<>>)
    /\ UNCHANGED errors

BsParen ==
    /\ BsToken(Paren)
    /\ Written(<<>>, <<>>)
    /\ UNCHANGED errors

\* \<sym>: a value only for a symbol that evaluates; a missing '>' or a
\* missing name returns 0 with the pointer still on the '\'.
BsSymbol ==
    /\ Expanding /\ dialect # "edtasm" /\ Head1.esc = "\\"
    /\ \/ /\ Head1.arg = Sym
          /\ Result(IF space > 9 THEN Len(U32Decimal(Head1.val)) ELSE -1,
                    U32Decimal(Head1.val), <<>>)
          /\ UNCHANGED errors
       \/ /\ Head1.arg = Undef
          /\ Written(<<>>, <<>>)
          /\ UNCHANGED errors
       \/ /\ Head1.arg = NoClose
          /\ errors' = errors \cup {11}
          /\ CopyEscape(Backslash, <<Chr, Chr>>)
       \/ /\ Head1.arg = NoSym
          /\ errors' = errors \cup {10}
          /\ CopyEscape(Backslash, <<Chr>>)

\* \1..\9, \0 and \NAME
BsParam ==
    /\ Expanding /\ dialect # "edtasm" /\ Head1.esc = "\\"
    /\ \/ /\ Head1.arg \in 0..9
          /\ LET n == IF Head1.arg = 0 THEN 0 ELSE Head1.arg - 1
             IN Result(CopyParamNc(n), ParamCopy(n), <<>>)
       \/ /\ Head1.arg = Name
          /\ Result(CopyParamNc(Head1.val), ParamCopy(Head1.val), <<>>)
    /\ UNCHANGED errors

\* any other character: nc = 0, but the pointer has passed the '\'
BsOther ==
    /\ BsToken(Other)
    /\ Written(<<>>, <<Chr>>)
    /\ UNCHANGED errors

-----------------------------------------------------------------------------
(* Merlin and SCASM: the ']' escapes (merlin/syntax.c:3717-3772,          *)
(* scasm/syntax.c:3281-3328).  ']' followed by any other character is     *)
(* not a token of this model (see the README).                           *)

BrToken == Expanding /\ dialect # "edtasm" /\ Head1.esc = "]"

BrBracket ==
    /\ BrToken /\ Head1.arg = Same
    /\ Result(IF space >= 1 THEN 1 ELSE -1, <<Bracket>>, <<>>)
    /\ UNCHANGED errors

\* Merlin ]0, SCASM ]#: sprintf "%d" of num_params
BrCount ==
    /\ BrToken
    /\ Head1.arg = IF dialect = "merlin" THEN 0 ELSE Count
    /\ Result(IF space > 3 THEN Len(Decimal(nparams)) ELSE -1, Decimal(nparams), <<>>)
    /\ UNCHANGED errors

MerlinParam_err28 ==
    /\ BrToken /\ dialect = "merlin" /\ Head1.arg \in 1..9
    /\ IF Head1.arg - 1 > 7
       THEN /\ errors' = errors \cup {28}
            /\ Written(<<>>, <<>>)
       ELSE /\ Result(CopyParamNc(Head1.arg - 1), ParamCopy(Head1.arg - 1), <<>>)
            /\ UNCHANGED errors

\* Merlin ]1..]8; ]9 is error 29 and writes nothing
MerlinParam ==
    /\ BrToken /\ dialect = "merlin" /\ Head1.arg \in 1..9
    /\ IF Head1.arg - 1 > 7
       THEN /\ errors' = errors \cup {29}
            /\ Written(<<>>, <<>>)
       ELSE /\ Result(CopyParamNc(Head1.arg - 1), ParamCopy(Head1.arg - 1), <<>>)
            /\ UNCHANGED errors

ScasmParam_zeroFirst ==
    /\ BrToken /\ dialect = "scasm" /\ Head1.arg \in 0..9
    /\ LET n == IF Head1.arg = 0 THEN 0 ELSE Head1.arg - 1
       IN Result(CopyParamNc(n), ParamCopy(n), <<>>)
    /\ UNCHANGED errors

\* SCASM ]1..]9, ]0 the tenth
ScasmParam ==
    /\ BrToken /\ dialect = "scasm" /\ Head1.arg \in 0..9
    /\ LET n == IF Head1.arg = 0 THEN 9 ELSE Head1.arg - 1
       IN Result(CopyParamNc(n), ParamCopy(n), <<>>)
    /\ UNCHANGED errors

-----------------------------------------------------------------------------
(* EDTASM: only "\\" starts an expansion (edtasm/syntax.c:2493-2555).     *)
(* Whatever the branch, nc >= dlen is turned into -1 at the end.          *)

EdResult(nc, w, resid) == Result(IF nc >= space THEN -1 ELSE nc, w, resid)

EdToken == Expanding /\ dialect = "edtasm" /\ Head1.esc = "\\\\"

\* \\1..\\9: a parameter the invocation has and that is not empty
EdParam ==
    /\ EdToken /\ Head1.arg \in 1..9
    /\ LET n == Head1.arg
           len == Len(Param(n - 1))
       IN IF nparams > 0 /\ n <= nparams /\ len > 0
          THEN EdResult(IF space >= len THEN len ELSE -1, Param(n - 1), <<>>)
          ELSE EdResult(0, <<>>, <<>>)
    /\ UNCHANGED errors

EdUniqueId ==
    /\ EdToken /\ Head1.arg = At
    /\ EdResult(IF space > 7 THEN Len(UniqueId) ELSE -1, UniqueId, <<>>)
    /\ UNCHANGED errors

\* \\.label: the name is scoped by the macro's name, not by the invocation
EdLocal ==
    /\ EdToken /\ Head1.arg = Dot
    /\ EdResult(IF space >= Len(LocalName) THEN Len(LocalName) ELSE -1, LocalName, <<>>)
    /\ UNCHANGED errors

\* \\x: both backslashes are consumed and x stays as text
EdOther ==
    /\ EdToken /\ Head1.arg = Other
    /\ EdResult(0, <<>>, <<Chr>>)
    /\ UNCHANGED errors

\* a single '\': the test fails, 0 is returned with the pointer unmoved
EdSingle ==
    /\ Expanding /\ dialect = "edtasm" /\ Head1.esc = "\\"
    /\ CopyEscape(Backslash, <<Chr>>)
    /\ UNCHANGED errors

-----------------------------------------------------------------------------
(* Reading the arguments off the call line (vasm core's loop, spec.md    *)
(* section 4.7): parse_macro_arg, then the separator; another argument   *)
(* follows a separator, and the first one a line that is not empty.      *)

readVars == <<unread, args, status, nparams, errors>>

\* parse_macro_arg read an argument and a separator follows it.
ReadArg ==
    /\ status = "reading" /\ (unread # <<>> \/ args # <<>>)
    /\ LET r == ParseMacroArg(dialect, unread, igntrail)
       IN /\ ParamSep(dialect, r.rest) # NoSep
          /\ args' = Append(args, r.text)
          /\ unread' = ParamSep(dialect, r.rest)
          /\ errors' = errors \cup r.err
    /\ UNCHANGED <<status, nparams>>
    /\ UNCHANGED <<dialect, escseq, id, body, rest, given, space, out, igntrail, call>>

\* parse_macro_arg read the last argument: the invocation has them all.
ReadLastArg ==
    /\ status = "reading" /\ (unread # <<>> \/ args # <<>>)
    /\ LET r == ParseMacroArg(dialect, unread, igntrail)
       IN /\ ParamSep(dialect, r.rest) = NoSep
          /\ args' = Append(args, r.text)
          /\ unread' = r.rest
          /\ errors' = errors \cup r.err
    /\ status' = "expanding"
    /\ nparams' = Len(args')
    /\ UNCHANGED <<dialect, escseq, id, body, rest, given, space, out, igntrail, call>>

\* A call with nothing after the macro name has no arguments.
NoArgs ==
    /\ status = "reading" /\ unread = <<>> /\ args = <<>>
    /\ status' = "expanding"
    /\ UNCHANGED <<unread, args, nparams, errors>>
    /\ UNCHANGED <<dialect, escseq, id, body, rest, given, space, out, igntrail, call>>

-----------------------------------------------------------------------------

\* Arguments as written (MacroArgs): bare texts, a parenthesised one with
\* a comma inside, SCASM quoted and EDTASM bracketed texts of up to two
\* characters, the Merlin ones separated by a member of CallSeps.
BareTexts == {<<>>, <<CA>>, <<CLPar, CA, CComma, CA, CRPar>>}
Inner(d) == {CA, CComma, CBlank} \cup (IF d = "edtasm" THEN {CGt} ELSE {})
InnerTexts(d) == UNION {[1..n -> Inner(d)] : n \in 0..2}
ArgForms(d) ==
    [form : {"bare"}, text : BareTexts]
    \cup (IF d = "scasm" THEN [form : {"quoted"}, text : InnerTexts(d)] ELSE {})
    \cup (IF d = "edtasm" THEN [form : {"bracket"}, text : InnerTexts(d)] ELSE {})
Seps(d) == IF d = "merlin" THEN CallSeps ELSE {CComma}
Spaced(d) == {[form |-> f.form, text |-> f.text, sep |-> c] : f \in ArgForms(d), c \in Seps(d)}
Calls(d) ==
    {c \in {<<>>} \cup UNION {{p \o <<[f EXCEPT !.sep = NUL]>> : p \in [1..n -> Spaced(d)], f \in Spaced(d)}
                             : n \in 0..MaxArgs - 1} :
        c # <<>> => CallLine(c) # <<>>}

\* The body line of a call: \1\2, \\1\\2 in EDTASM.
ArgBody(d) == LET e == IF d = "edtasm" THEN "\\\\" ELSE "\\" IN <<Tok(e, 1, 0), Tok(e, 2, 0)>>

\* The arguments as given: parameter i is ParamText(i - 1).
GivenCall(n) ==
    [k \in 1..n |-> [form |-> "bare", text |-> ParamText(k - 1), sep |-> IF k < n THEN CComma ELSE NUL]]

Init ==
    \/ /\ dialect \in Dialects
       /\ escseq \in BOOLEAN
       /\ nparams \in NumParams
       /\ id \in Ids
       /\ body \in BodyLines(dialect)
       /\ rest = body
       /\ given \in 0..MaxSpace
       /\ space = given
       /\ out = <<>>
       /\ status = "expanding"
       /\ errors = {}
       /\ igntrail = FALSE
       /\ call = GivenCall(nparams)
       /\ unread = <<>>
       /\ args = Texts(call)
    \/ /\ dialect \in Dialects
       /\ escseq = TRUE
       /\ nparams = 0
       /\ id = CHOOSE i \in Ids : TRUE
       /\ body = ArgBody(dialect)
       /\ rest = body
       /\ given = MaxSpace
       /\ space = given
       /\ out = <<>>
       /\ status = "reading"
       /\ errors = {}
       /\ igntrail \in IF dialect = "merlin" THEN Igntrail ELSE {dialect = "scasm"}
       /\ call \in Calls(dialect)
       /\ unread = CallLine(call)
       /\ args = <<>>

\* The reader stops after the line, expanded or too long.
Stopped == status \in {"done", "overflow"} /\ UNCHANGED vars

Next ==
    \/ ReadArg \/ ReadLastArg \/ NoArgs
    \/ ReadChar \/ Finish
    \/ BsBackslash \/ BsUniqueId \/ BsParen \/ BsSymbol \/ BsParam \/ BsOther
    \/ BrBracket \/ BrCount \/ MerlinParam \/ ScasmParam
    \/ EdParam \/ EdUniqueId \/ EdLocal \/ EdOther \/ EdSingle
    \/ Stopped

Spec == Init /\ [][Next]_vars

-----------------------------------------------------------------------------
(* Properties *)

TypeOK ==
    /\ dialect \in Dialects /\ escseq \in BOOLEAN
    /\ nparams \in NumParams \cup 0..MaxArgs /\ id \in Ids
    /\ rest \in Seq(Tokens(dialect))
    /\ given \in 0..MaxSpace /\ space \in Int
    /\ out \in Seq(Int)
    /\ status \in {"reading", "expanding", "done", "overflow"}
    /\ errors \subseteq {3, 4, 10, 11, 29}
    /\ igntrail \in BOOLEAN
    /\ unread \in Seq(Int) /\ args \in Seq(Seq(Int))

\* The escape table of spec.md section 4.7: \N and the SCASM ]N are
\* parameter N with 0 meaning the tenth, Merlin's ]1..]8 parameter N, ]0
\* and ]# the parameter count, ]] a ']', \@ and \\@ the id as _NNNNNN, \<sym>
\* the unsigned decimal value, \() nothing, \\.label the macro's local name.
\* Where the table is silent (\\, errors, unknown escapes) the expected text
\* is what the reader would copy.
SpecParam(d) == ParamCopy(IF d = 0 THEN 9 ELSE d - 1)

SpecToken(t) ==
    CASE t.esc = "chr" -> <<Plain>>
      [] t.esc = "]" /\ t.arg = Same -> <<Bracket>>
      [] t.esc = "]" /\ (t.arg = Count \/ (dialect = "merlin" /\ t.arg = 0)) -> Decimal(nparams)
      [] t.esc = "]" /\ dialect = "merlin" /\ t.arg = 9 -> <<>>
      [] t.esc = "]" -> SpecParam(t.arg)
      [] t.esc = "\\\\" /\ t.arg = At -> UniqueId
      [] t.esc = "\\\\" /\ t.arg = Dot -> LocalName
      [] t.esc = "\\\\" /\ t.arg = Other -> <<Plain>>
      [] t.esc = "\\\\" -> ParamCopy(t.arg - 1)
      [] dialect = "edtasm" -> <<Backslash, Plain>>
      [] t.arg = Same -> IF escseq THEN <<Backslash, Backslash>> ELSE <<Backslash>>
      [] t.arg = At -> UniqueId
      [] t.arg = Sym -> U32Decimal(t.val)
      [] t.arg \in {Paren, Undef} -> <<>>
      [] t.arg = NoClose -> <<Backslash, Plain, Plain>>
      [] t.arg = NoSym -> <<Backslash, Plain>>
      [] t.arg = Name -> ParamCopy(t.val)
      [] t.arg = Other -> <<Plain>>
      [] OTHER -> SpecParam(t.arg)

SpecExpansion(l) == FoldLeft(LAMBDA acc, t : acc \o SpecToken(t), <<>>, l)

\* A body line that expand_macro and the reader get through without "macro
\* expansion too long" reads, in the line buffer, as the escape table says.
ExpandsPerSpec == status = "done" => out = SpecExpansion(body)

\* expand_macro never writes more characters than the dlen it is given:
\* whatever was written for the line fits the space there was.
WithinBuffer == Len(out) <= given

\* The argument reader (parse_macro_arg, skip_operand and the separator)
\* gives the macro the arguments written on the call line as spec.md
\* section 4.7 writes them: separated by the dialect's separators, SCASM
\* quotes stripped, EDTASM <...> with ">>" read as '>'.
ArgsAsWritten == status # "reading" => args = Texts(call)

=============================================================================
