---------------------------- MODULE TextDirectives ----------------------------
(***************************************************************************)
(* The string and hex-string directives of the Merlin and SCASM syntax     *)
(* modules, src/syntax/merlin/syntax.c and src/syntax/scasm/syntax.c: the  *)
(* bytes each handler adds as data atoms and the errors it reports, for   *)
(* one source line.  The handlers keep no state between lines, so a line   *)
(* is one step and the last line's input and output are the state.        *)
(*                                                                         *)
(* An operand is its delimiter code, its content (the byte codes between   *)
(* the delimiters), SCASM's '-' force flag and whether the closing         *)
(* delimiter was found.  The text after the last operand is either the end *)
(* of line (or a comment) or other text ("junk").  A hex operand field is  *)
(* a sequence of tokens: hex digit values, separators ('.', ',', blank)    *)
(* and a character that is none of these.                                  *)
(***************************************************************************)
EXTENDS Integers, Sequences, SequencesExt, Bitwise

CONSTANTS
    Dialects,    \* syntax modules checked: "merlin", "scasm"
    Delims,      \* delimiter codes
    Contents,    \* operand contents, sequences of 7-bit codes
    HexVals,     \* values of the hex digits a HEX/.HS/.HX field holds
    MaxOps,      \* bound on operands per line
    MaxHex       \* bound on tokens of a hex field

Sep == -1
Other == -2

\* The directives whose handlers loop over comma-separated operands.
MerlinLoopDirs == {"ASC", "AZ", "DCI", "INV", "FLS", "REV", "STR", "STRL"}
ScasmLoopDirs == {".AS", ".AZ", ".AT"}
LoopDirs == MerlinLoopDirs \cup ScasmLoopDirs

Operand == [delim : Delims, str : Contents \cup {<<>>}, force : BOOLEAN, closed : BOOLEAN]

\* Operand lists of up to MaxOps operands; an unclosed string runs to the
\* end of the line, so only the last one may be unclosed.
OperandLists ==
    {ops \in UNION {[1..n -> Operand] : n \in 1..MaxOps} :
        \A i \in 1..Len(ops) - 1 : ops[i].closed}

\* Separators and other characters as negative tokens.
HexFields == UNION {[1..n -> HexVals \cup {Sep, Other}] : n \in 0..MaxHex}

NoLine == [dir |-> "none", ops |-> <<>>, tail |-> "eol", toks |-> <<>>]

VARIABLES
    dialect,     \* the syntax module assembled with
    line,        \* the last line: directive, operands, tail, hex tokens
    bytes,       \* the bytes of the data atoms it added, in order
    errors       \* the error numbers it reported

vars == <<dialect, line, bytes, errors>>

\* Text after a blank in the operand field is a comment: SCASM's
\* init_syntax always sets igntrail; Merlin's is the -i option, left out.
igntrail == dialect = "scasm"

-----------------------------------------------------------------------------
(* The handlers' transformations of one operand's bytes.                  *)

\* apply_delimiter_highbit: a delimiter below the apostrophe sets bit 7.
HighBit(op) ==
    IF op.delim < 39 THEN [i \in DOMAIN op.str |-> op.str[i] | 128] ELSE op.str

SetBit7(s) == [i \in DOMAIN s |-> s[i] | 128]

\* Faulty variant of FlipLast: bit 7 added instead of toggled.
FlipLast_add(s) == [s EXCEPT ![Len(s)] = @ + 128]

FlipLast(s) == [s EXCEPT ![Len(s)] = @ ^^ 128]

AsBytes(op) == IF op.force THEN SetBit7(op.str) ELSE HighBit(op)

AzBytes(op) == HighBit(op) \o <<0>>

DciBytes(op) == FlipLast(HighBit(op))

InvBytes(op) == SetBit7(op.str)

\* Faulty variant of FlsBytes: the even 0-based indices are toggled.
FlsBytes_even(op) ==
    LET h == HighBit(op) IN [i \in DOMAIN h |-> IF (i - 1) % 2 = 0 THEN h[i] ^^ 128 ELSE h[i]]

FlsBytes(op) ==
    LET h == HighBit(op) IN [i \in DOMAIN h |-> IF (i - 1) % 2 = 1 THEN h[i] ^^ 128 ELSE h[i]]

RevBytes(op) == Reverse(HighBit(op))

StrBytes(op) ==
    <<IF Len(op.str) > 255 THEN 255 ELSE Len(op.str)>> \o HighBit(op)

StrlBytes(op) ==
    LET n == IF Len(op.str) > 65535 THEN 65535 ELSE Len(op.str)
    IN <<n % 256, (n \div 256) % 256>> \o HighBit(op)

Xform(dir, op) ==
    CASE dir = "ASC"  -> HighBit(op)
      [] dir = ".AS"  -> AsBytes(op)
      [] dir \in {"AZ", ".AZ"} -> AzBytes(op)
      [] dir \in {"DCI", ".AT"} -> DciBytes(op)
      [] dir = "INV"  -> InvBytes(op)
      [] dir = "FLS"  -> FlsBytes(op)
      [] dir = "REV"  -> RevBytes(op)
      [] dir = "STR"  -> StrBytes(op)
      [] dir = "STRL" -> StrlBytes(op)

\* The operand loop the string handlers share: an unclosed string is error
\* 30 and ends the line; after an operand a comma continues, the end of
\* line ends, other text is error 9 (SCASM with igntrail: a comment).
\* Atoms added before an error stay.
RECURSIVE OperandLoop(_, _, _)
OperandLoop(dir, ops, tail) ==
    LET op == Head(ops) IN
    IF ~op.closed THEN [out |-> <<>>, err |-> {30}]
    ELSE IF Len(ops) > 1
      THEN LET r == OperandLoop(dir, Tail(ops), tail)
           IN [out |-> Xform(dir, op) \o r.out, err |-> r.err]
    ELSE [out |-> Xform(dir, op),
          err |-> IF tail = "eol" \/ igntrail THEN {} ELSE {9}]

\* eol(): text other than a comment after the operands is error 6, unless
\* igntrail makes it a comment.
EolError(tail) == IF tail = "junk" /\ ~igntrail THEN {6} ELSE {}

\* The operand loop of SCASM's .CS and .PS: the bytes up to the closing
\* delimiter or the end of line, no delimiter rule; a delimiter alone at
\* the end of line is error 30 and frees the whole buffer ("abort"); text
\* other than a comma after an operand ends the loop, and eol() then
\* reports error 6 unless igntrail is set.
RECURSIVE RawLoop(_, _)
RawLoop(ops, tail) ==
    LET op == Head(ops) IN
    IF ~op.closed /\ op.str = <<>> THEN [out |-> <<>>, err |-> {30}, abort |-> TRUE]
    ELSE IF Len(ops) > 1
      THEN LET r == RawLoop(Tail(ops), tail)
           IN IF r.abort THEN r ELSE [r EXCEPT !.out = op.str \o @]
    ELSE [out |-> op.str, abort |-> FALSE,
          err |-> IF op.closed THEN EolError(tail) ELSE {}]

CsBytes(r) == IF r.abort THEN <<>> ELSE r.out

CzBytes(r) == CsBytes(r) \o <<0>>

PsBytes(r) ==
    IF r.abort \/ r.out = <<>> THEN <<>>
    ELSE <<IF Len(r.out) > 255 THEN 255 ELSE Len(r.out)>> \o r.out

RawBytes(dir, r) ==
    CASE dir = ".CS" -> CsBytes(r) [] dir = ".CZ" -> CzBytes(r) [] dir = ".PS" -> PsBytes(r)

\* The hex digits of a field up to its first character that is neither a
\* digit nor a separator (SCASM's counting loop and .HX's loop).
RECURSIVE HexRun(_)
HexRun(toks) ==
    IF toks = <<>> \/ toks[1] = Other THEN <<>>
    ELSE IF toks[1] = Sep THEN HexRun(Tail(toks))
    ELSE <<toks[1]>> \o HexRun(Tail(toks))

RECURSIVE SkipSeps(_)
SkipSeps(toks) == IF toks # <<>> /\ toks[1] = Sep THEN SkipSeps(Tail(toks)) ELSE toks

\* Merlin's HEX loop: separators are skipped before a byte, then two hex
\* digits must follow each other; a non-hex character where a byte starts
\* is error 15, a missing second digit error 14, and either frees all.
RECURSIVE MerlinHexLoop(_)
MerlinHexLoop(toks) ==
    LET t == SkipSeps(toks) IN
    IF t = <<>> THEN [out |-> <<>>, err |-> {}]
    ELSE IF t[1] = Other THEN [out |-> <<>>, err |-> {15}]
    ELSE IF Len(t) >= 2 /\ t[2] \in HexVals
      THEN LET r == MerlinHexLoop(SubSeq(t, 3, Len(t)))
           IN IF r.err # {} THEN r ELSE [r EXCEPT !.out = <<t[1] * 16 + t[2]>> \o @]
    ELSE [out |-> <<>>, err |-> {14}]

\* Faulty variant of HsBytes: an odd count pads the last digit.
HsBytes_padLast(d) ==
    IF Len(d) % 2 = 1
      THEN [i \in 1..Len(d) \div 2 |-> d[2 * i - 1] * 16 + d[2 * i]] \o <<d[Len(d)]>>
      ELSE [i \in 1..Len(d) \div 2 |-> d[2 * i - 1] * 16 + d[2 * i]]

\* SCASM's .HS: with an odd digit count the first digit is a byte 0N of
\* its own, then the digits pair up, separators allowed between them.
HsBytes(d) ==
    LET e == IF Len(d) % 2 = 1 THEN Tail(d) ELSE d
        pairs == [i \in 1..Len(e) \div 2 |-> e[2 * i - 1] * 16 + e[2 * i]]
    IN IF Len(d) % 2 = 1 THEN <<d[1]>> \o pairs ELSE pairs

\* eol() after a SCASM hex field: text after the digits is error 6
\* unless igntrail is set.
HexTrail(toks) ==
    IF Other \in Range(toks) /\ ~igntrail THEN {6} ELSE {}

-----------------------------------------------------------------------------
(* One action per directive handler.                                       *)

Emit(l, b, e) ==
    /\ line = NoLine
    /\ line' = l
    /\ bytes' = b
    /\ errors' = e
    /\ UNCHANGED dialect

\* A string handler with the shared operand loop; SCASM's '-' flag is
\* read by .AS only and its operands need their closing delimiter (an
\* unclosed one is left to the core's parse_string).
StringLine(dir, ops, tail) ==
    /\ dialect = IF dir \in MerlinLoopDirs THEN "merlin" ELSE "scasm"
    /\ dir # ".AS" => \A i \in 1..Len(ops) : ~ops[i].force
    /\ dir \in ScasmLoopDirs => \A i \in 1..Len(ops) : ops[i].closed
    /\ \A i \in 1..Len(ops) : ops[i].str # <<>>
    /\ LET r == OperandLoop(dir, ops, tail)
       IN Emit([NoLine EXCEPT !.dir = dir, !.ops = ops, !.tail = tail], r.out, r.err)

ASC(ops, tail) == StringLine("ASC", ops, tail)
AZ(ops, tail) == StringLine("AZ", ops, tail)
DCI(ops, tail) == StringLine("DCI", ops, tail)
INV(ops, tail) == StringLine("INV", ops, tail)
FLS(ops, tail) == StringLine("FLS", ops, tail)
REV(ops, tail) == StringLine("REV", ops, tail)
STR(ops, tail) == StringLine("STR", ops, tail)
STRL(ops, tail) == StringLine("STRL", ops, tail)
DotAS(ops, tail) == StringLine(".AS", ops, tail)
DotAZ(ops, tail) == StringLine(".AZ", ops, tail)
DotAT(ops, tail) == StringLine(".AT", ops, tail)

NoForce(ops) == \A i \in 1..Len(ops) : ~ops[i].force

\* do_text of Merlin and SCASM, for FCC (add 0) and FCS (add $80): one
\* string whose last byte gets "add", no delimiter rule.  parse_string
\* takes strings of two or more characters, then eol() checks the rest of
\* the line; a single character is stored directly and the rest is not
\* checked.
DoText(dir, add, op, tail) ==
    /\ dialect \in {"merlin", "scasm"}
    /\ op.closed /\ ~op.force /\ op.str # <<>>
    /\ Emit([NoLine EXCEPT !.dir = dir, !.ops = <<op>>, !.tail = tail],
            [op.str EXCEPT ![Len(op.str)] = (@ + add) % 256],
            IF Len(op.str) > 1 THEN EolError(tail) ELSE {})

FCC(op, tail) == DoText("FCC", 0, op, tail)
FCS(op, tail) == DoText("FCS", 128, op, tail)

\* A missing operand.
NoOperand == [delim |-> 0, str |-> <<>>, force |-> FALSE, closed |-> FALSE]

\* EDTASM's handle_fcc and handle_fcs: no operand is error 5, no closing
\* delimiter error 21, both without atom; otherwise the bytes verbatim,
\* FCS setting bit 7 of the last one, then eol(): text right after the
\* closing delimiter is error 6 (with or without allow_spaces; without
\* it, text after a blank is a comment).
EdString(dir, op, tail) ==
    /\ dialect = "edtasm"
    /\ ~op.force
    /\ Emit([NoLine EXCEPT !.dir = dir, !.ops = <<op>>, !.tail = tail],
            IF ~op.closed THEN <<>>
            ELSE IF dir = "FCS" /\ op.str # <<>> THEN [op.str EXCEPT ![Len(op.str)] = @ | 128]
            ELSE op.str,
            CASE op = NoOperand -> {5} [] ~op.closed -> {21}
              [] tail = "junk" -> {6} [] OTHER -> {})

EdFCC(op, tail) == EdString("FCC", op, tail)
EdFCS(op, tail) == EdString("FCS", op, tail)

\* SCASM's .CS, .CZ and .PS: the shared raw loop; an unclosed string has
\* taken the rest of the line.
RawLine(dir, ops, tail) ==
    /\ dialect = "scasm"
    /\ NoForce(ops)
    /\ ~ops[Len(ops)].closed => tail = "eol"
    /\ LET r == RawLoop(ops, tail)
       IN Emit([NoLine EXCEPT !.dir = dir, !.ops = ops, !.tail = tail], RawBytes(dir, r), r.err)


DotCS(ops, tail) == RawLine(".CS", ops, tail)
DotCZ(ops, tail) == RawLine(".CZ", ops, tail)
DotPS(ops, tail) == RawLine(".PS", ops, tail)

HEX(toks) ==
    /\ dialect = "merlin"
    /\ LET r == MerlinHexLoop(toks)
       IN Emit([NoLine EXCEPT !.dir = "HEX", !.toks = toks], r.out, r.err)

\* SCASM's .HS; eol() is called only without igntrail.
DotHS(toks) ==
    /\ dialect = "scasm"
    /\ Emit([NoLine EXCEPT !.dir = ".HS", !.toks = toks], HsBytes(HexRun(toks)), HexTrail(toks))

\* SCASM's .HX: a byte per digit.
DotHX(toks) ==
    /\ dialect = "scasm"
    /\ Emit([NoLine EXCEPT !.dir = ".HX", !.toks = toks], HexRun(toks), HexTrail(toks))

Init ==
    /\ dialect \in Dialects
    /\ line = NoLine
    /\ bytes = <<>>
    /\ errors = {}

\* One line is assembled; the handlers keep no state, so the model then
\* stays put.
Next ==
    \/ \E ops \in OperandLists, tail \in {"eol", "junk"} :
          \/ ASC(ops, tail) \/ AZ(ops, tail) \/ DCI(ops, tail) \/ INV(ops, tail)
          \/ FLS(ops, tail) \/ REV(ops, tail) \/ STR(ops, tail) \/ STRL(ops, tail)
          \/ DotAS(ops, tail) \/ DotAZ(ops, tail) \/ DotAT(ops, tail)
          \/ DotCS(ops, tail) \/ DotCZ(ops, tail) \/ DotPS(ops, tail)
    \/ \E op \in Operand, tail \in {"eol", "junk"} : FCC(op, tail) \/ FCS(op, tail)
    \/ \E op \in Operand \cup {NoOperand}, tail \in {"eol", "junk"} : EdFCC(op, tail) \/ EdFCS(op, tail)
    \/ \E toks \in HexFields : HEX(toks) \/ DotHS(toks) \/ DotHX(toks)
    \/ line # NoLine /\ UNCHANGED vars

Spec == Init /\ [][Next]_vars

-----------------------------------------------------------------------------

TypeOK ==
    /\ dialect \in Dialects
    /\ bytes \in Seq(0..255)
    /\ errors \subseteq {5, 6, 9, 14, 15, 21, 30}

(* The byte table of spec section 4.6, with the Merlin and SCASM          *)
(* delimiter rule of section 4.2 and SCASM's '-' flag of section 4.1.     *)
SpecHigh(d, b) == IF dialect # "edtasm" /\ d < 39 THEN (b % 128) + 128 ELSE b

Toggle7(b) == IF b >= 128 THEN b - 128 ELSE b + 128

SpecBytes(dir, op) ==
    LET s == [i \in 1..Len(op.str) |-> SpecHigh(op.delim, op.str[i])]
        n == Len(s)
    IN CASE dir = ".AS" /\ op.force -> [i \in 1..n |-> (op.str[i] % 128) + 128]
         [] dir \in {"ASC", ".AS", "FCC", ".CS"} -> s
         [] dir \in {"AZ", ".AZ", ".CZ"} -> Append(s, 0)
         [] dir \in {"DCI", ".AT"} -> [i \in 1..n |-> IF i = n THEN Toggle7(s[i]) ELSE s[i]]
         [] dir = "INV" -> [i \in 1..n |-> (s[i] % 128) + 128]
         [] dir = "FLS" -> [i \in 1..n |-> IF i % 2 = 0 THEN Toggle7(s[i]) ELSE s[i]]
         [] dir = "REV" -> [i \in 1..n |-> s[n + 1 - i]]
         [] dir \in {"STR", ".PS"} -> <<IF n < 255 THEN n ELSE 255>> \o s
         [] dir = "STRL" -> <<n % 256, n \div 256>> \o s
         [] dir = "FCS" -> [i \in 1..n |-> IF i = n THEN (s[i] + 128) % 256 ELSE s[i]]

\* The operands before the first one without its closing delimiter.
Kept(ops) ==
    IF \A i \in 1..Len(ops) : ops[i].closed THEN Len(ops)
    ELSE CHOOSE k \in 0..Len(ops) - 1 : ~ops[k + 1].closed /\ \A i \in 1..k : ops[i].closed

\* Spec sections 4.6 and 7: a line of ASC, AZ, DCI, INV, FLS, REV, STR,
\* STRL, .AS, .AZ or .AT, or of EDTASM's FCC or FCS, emits, operand after
\* operand, the table's bytes for each operand up to the first one that is
\* missing or has no closing delimiter; that one is abandoned with an
\* error (5, 21 or 30), and every operand is either reported or kept.
StringsFollowSpec ==
    line.dir \in LoopDirs \/ dialect = "edtasm" =>
        /\ bytes = FlattenSeq([i \in 1..Kept(line.ops) |-> SpecBytes(line.dir, line.ops[i])])
        /\ (Kept(line.ops) < Len(line.ops)) = (errors \cap {5, 21, 30} # {})

\* Spec sections 4.2 and 4.6 for Merlin's FCS and SCASM's .PS: a
\* one-operand line without errors emits the table's bytes, the delimiter
\* rule and the length prefix included (do_text and handle_ps).
FcsPsFollowSpec ==
    line.dir \in {"FCS", ".PS"} /\ errors = {} /\ Len(line.ops) = 1 =>
        bytes = SpecBytes(line.dir, line.ops[1])

(* Hex strings: digit pairs, high nibble first.                            *)
SpecPack(d) == [i \in 1..Len(d) \div 2 |-> 16 * d[2 * i - 1] + d[2 * i]]

\* The digits of a field before its first character that is neither a hex
\* digit nor a separator.
FieldDigits(toks) ==
    LET stop == {i \in 1..Len(toks) : toks[i] = Other}
        end == IF stop = {} THEN Len(toks) ELSE CHOOSE i \in stop : \A j \in stop : i <= j
    IN SelectSeq(SubSeq(toks, 1, end), LAMBDA t : t \in HexVals)

\* Spec sections 4.6 and 8: SCASM's .HS packs the digits of its field in
\* pairs after padding an odd count with a leading zero nibble, .HX stores
\* a digit per byte, and Merlin's HEX either packs an even number of
\* digits or rejects an odd count with error 14 and no bytes.
HexFollowsSpec ==
    LET d == FieldDigits(line.toks) IN
    /\ line.dir = ".HS" =>
          bytes = SpecPack(IF Len(d) % 2 = 1 THEN <<0>> \o d ELSE d)
    /\ line.dir = ".HX" => bytes = d
    /\ line.dir = "HEX" /\ errors = {} => Len(d) % 2 = 0 /\ bytes = SpecPack(d)
    /\ line.dir = "HEX" /\ Len(d) % 2 = 1 /\ Other \notin Range(line.toks) =>
          14 \in errors /\ bytes = <<>>

\* Spec section 4.6: separators are ignored between nibbles, so a Merlin
\* HEX field of digits and separators with an even digit count is packed.
MerlinHexSeparators ==
    LET d == FieldDigits(line.toks) IN
    line.dir = "HEX" /\ Other \notin Range(line.toks) /\ Len(d) % 2 = 0 =>
        errors = {} /\ bytes = SpecPack(d)
=============================================================================
