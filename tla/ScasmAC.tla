------------------------------- MODULE ScasmAC -------------------------------
(***************************************************************************)
(* SCASM's .AC text compression, handle_ac of src/syntax/scasm/syntax.c.   *)
(*                                                                         *)
(* Three tables map characters to nibble codes: a table-1 character is one *)
(* nibble j+1, a table-2 character the nibbles 0, j+1, a table-3 character *)
(* the nibbles 0, 0, j+1 (j the 0-based index).  A digit that no table     *)
(* holds stands for a run of spaces.  Nibbles are packed high nibble first *)
(* into one stream shared by all .AC lines: a message that ends on a half  *)
(* byte leaves the nibble pending for the next .AC line.                   *)
(*                                                                         *)
(* Characters are their codes; a string is the sequence of its codes.      *)
(***************************************************************************)
EXTENDS Integers, Sequences, SequencesExt, FiniteSetsExt

CONSTANTS
    TableStrs,   \* strings a ".AC n/.../" line may give a table
    Msgs,        \* strings a ".AC /.../" line may compress
    MaxLines

Space == 32
Digits == 48..57

VARIABLES
    ac_table,          \* ac_table1..3 with their lengths, as sequences
    ac_nibble_flag,
    ac_pending_nibble,
    lines,
    errors,            \* general_error numbers reported
    \* history, for the properties
    acbytes,           \* bytes of the data atoms .AC added since the last .AC 0
    acstream,          \* nibbles emitted since the last .AC 0
    acmsgs             \* per message: the string, its nibbles, the tables used

vars == <<ac_table, ac_nibble_flag, ac_pending_nibble, lines, errors,
          acbytes, acstream, acmsgs>>

Line ==
    /\ lines < MaxLines
    /\ lines' = lines + 1

\* The first 0-based index j of ch in table t, as j + 1 (0 when absent).
Code(t, ch) ==
    IF \E j \in 1..Len(t) : t[j] = ch
      THEN CHOOSE j \in 1..Len(t) : t[j] = ch /\ \A i \in 1..j-1 : t[i] # ch
      ELSE 0

\* Digit N stands for N spaces, '0' for ten.
BlankCount(ch) == IF ch = 48 THEN 10 ELSE ch - 48

\* Faulty variant of CharNibbles: table 2 codes from the 0-based index.
CharNibbles_t2index(tab, ch) ==
    CASE Code(tab[1], ch) > 0 -> <<Code(tab[1], ch)>>
      [] Code(tab[2], ch) > 0 -> <<0, Code(tab[2], ch) - 1>>
      [] Code(tab[3], ch) > 0 -> <<0, 0, Code(tab[3], ch)>>
      [] ch \in Digits /\ Code(tab[1], Space) > 0 ->
             [k \in 1..BlankCount(ch) |-> Code(tab[1], Space)]
      [] OTHER -> <<>>

\* The nibbles one character of the message emits: the table searches in
\* order, then the digit as a run of table-1 spaces; <<>> when not found.
CharNibbles(tab, ch) ==
    CASE Code(tab[1], ch) > 0 -> <<Code(tab[1], ch)>>
      [] Code(tab[2], ch) > 0 -> <<0, Code(tab[2], ch)>>
      [] Code(tab[3], ch) > 0 -> <<0, 0, Code(tab[3], ch)>>
      [] ch \in Digits /\ Code(tab[1], Space) > 0 ->
             [k \in 1..BlankCount(ch) |-> Code(tab[1], Space)]
      [] OTHER -> <<>>

Found(tab, ch) == CharNibbles(tab, ch) # <<>>

\* Faulty variant of EmitNibbles: the low nibble goes to the high half.
RECURSIVE EmitNibbles_swapped(_, _, _, _)
EmitNibbles_swapped(flag, pend, out, nibs) ==
    IF nibs = <<>> THEN [flag |-> flag, pend |-> pend, out |-> out]
    ELSE LET n == nibs[1] % 16 IN
         IF flag = 0 THEN EmitNibbles_swapped(1, n, out, Tail(nibs))
         ELSE EmitNibbles_swapped(0, pend, Append(out, n * 16 + pend), Tail(nibs))

\* EMIT_NIBBLE over a sequence of nibbles: at an even position the nibble
\* (masked to 4 bits) is kept pending, at an odd one a byte is completed
\* (the old pending nibble is left in the variable).
RECURSIVE EmitNibbles(_, _, _, _)
EmitNibbles(flag, pend, out, nibs) ==
    IF nibs = <<>> THEN [flag |-> flag, pend |-> pend, out |-> out]
    ELSE LET n == nibs[1] % 16 IN
         IF flag = 0 THEN EmitNibbles(1, n, out, Tail(nibs))
         ELSE EmitNibbles(0, pend, Append(out, pend * 16 + n), Tail(nibs))

\* ".AC 0": the stream starts again at a byte boundary.
AcInit ==
    /\ Line
    /\ ac_nibble_flag' = 0
    /\ ac_pending_nibble' = 0
    /\ acbytes' = <<>>
    /\ acstream' = <<>>
    /\ UNCHANGED <<ac_table, errors, acmsgs>>

\* Faulty variant of AcTable: every table takes up to 16 characters.
AcTable_maxlen16(n, str) ==
    /\ Line
    /\ ac_table' = IF str = <<>> THEN ac_table
                   ELSE [ac_table EXCEPT ![n] = SubSeq(str, 1, Min({Len(str), 16}))]
    /\ UNCHANGED <<ac_nibble_flag, ac_pending_nibble, errors, acbytes, acstream, acmsgs>>

\* ".AC n/str/" for n in 1..3: the table takes at most 15 characters (16
\* for table 3); an empty string leaves it as it was.
AcTable(n, str) ==
    /\ Line
    /\ ac_table' = IF str = <<>> THEN ac_table
                   ELSE [ac_table EXCEPT ![n] = SubSeq(str, 1, Min({Len(str), IF n = 3 THEN 16 ELSE 15}))]
    /\ UNCHANGED <<ac_nibble_flag, ac_pending_nibble, errors, acbytes, acstream, acmsgs>>

\* ".AC /str/": every character's nibbles into the stream, error 38 for a
\* character with no code, and a data atom of the completed bytes.
AcMessage(str) ==
    /\ Line
    /\ str # <<>>
    /\ LET nibs == FlattenSeq([i \in 1..Len(str) |-> CharNibbles(ac_table, str[i])])
           r == EmitNibbles(ac_nibble_flag, ac_pending_nibble, <<>>, nibs)
       IN /\ ac_nibble_flag' = r.flag
          /\ ac_pending_nibble' = r.pend
          /\ acbytes' = acbytes \o r.out
          /\ acstream' = acstream \o [i \in 1..Len(nibs) |-> nibs[i] % 16]
          /\ errors' = errors \cup (IF \A i \in 1..Len(str) : Found(ac_table, str[i])
                                      THEN {} ELSE {38})
          /\ acmsgs' = Append(acmsgs, [str |-> str, tab |-> ac_table,
                                       nibs |-> [i \in 1..Len(nibs) |-> nibs[i] % 16]])
    /\ UNCHANGED ac_table

\* The statics start zeroed: empty tables, even position.
Init ==
    /\ ac_table = <<<<>>, <<>>, <<>>>>
    /\ ac_nibble_flag = 0
    /\ ac_pending_nibble = 0
    /\ lines = 0
    /\ errors = {}
    /\ acbytes = <<>>
    /\ acstream = <<>>
    /\ acmsgs = <<>>

Next ==
    \/ AcInit
    \/ \E n \in 1..3, str \in TableStrs : AcTable(n, str)
    \/ \E str \in Msgs : AcMessage(str)
    \/ lines = MaxLines /\ UNCHANGED vars

Spec == Init /\ [][Next]_vars

-----------------------------------------------------------------------------

TypeOK ==
    \* codes j+1 of tables 1 and 2 fit a nibble (the arrays hold 16)
    /\ \A n \in 1..3 : Len(ac_table[n]) <= IF n = 3 THEN 16 ELSE 15
    /\ ac_nibble_flag \in {0, 1}
    /\ ac_pending_nibble \in 0..15
    /\ lines \in 0..MaxLines

\* The runtime decompressor of the spec (section 4.6): a nibble m > 0 is
\* table-1 entry m, 0 then m > 0 table-2 entry m, 0, 0, m table-3 entry m;
\* slot 0 of each table is reserved, so it decodes to no character (-1).
Entry(t, m) == IF m \in 1..Len(t) THEN t[m] ELSE -1

RECURSIVE Decode(_, _)
Decode(nibs, tab) ==
    IF nibs = <<>> THEN <<>>
    ELSE IF nibs[1] # 0 THEN <<Entry(tab[1], nibs[1])>> \o Decode(Tail(nibs), tab)
    ELSE IF Len(nibs) >= 2 /\ nibs[2] # 0
         THEN <<Entry(tab[2], nibs[2])>> \o Decode(SubSeq(nibs, 3, Len(nibs)), tab)
    ELSE IF Len(nibs) >= 3
         THEN <<Entry(tab[3], nibs[3])>> \o Decode(SubSeq(nibs, 4, Len(nibs)), tab)
    ELSE <<-1>>

\* What a message means: its characters, a digit no table holds being
\* that many spaces (spec section 3: "digits in place of a space run").
Expand(str, tab) ==
    FlattenSeq([i \in 1..Len(str) |->
        IF str[i] \in Digits /\ \A n \in 1..3 : Code(tab[n], str[i]) = 0
          THEN [k \in 1..BlankCount(str[i]) |-> Space]
          ELSE <<str[i]>>])

\* Every .AC message whose characters all have a code decodes, with the
\* tables in force when it was assembled, back to its text with the space
\* runs expanded: the table searches, the j+1 codes and the digit runs of
\* handle_ac agree with the decompressor.
AcRoundTrip ==
    \A k \in 1..Len(acmsgs) :
        (\A i \in 1..Len(acmsgs[k].str) : Found(acmsgs[k].tab, acmsgs[k].str[i]))
            => Decode(acmsgs[k].nibs, acmsgs[k].tab) = Expand(acmsgs[k].str, acmsgs[k].tab)

\* The data atoms of the .AC lines since the last .AC 0, read high nibble
\* first, followed by the pending nibble, are exactly the nibbles the
\* messages emitted, in order, across message boundaries that fall in the
\* middle of a byte.
AcStreamPacked ==
    FlattenSeq([i \in 1..Len(acbytes) |-> <<acbytes[i] \div 16, acbytes[i] % 16>>])
        \o (IF ac_nibble_flag = 1 THEN <<ac_pending_nibble>> ELSE <<>>)
    = acstream
=============================================================================
