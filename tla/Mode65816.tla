----------------------------- MODULE Mode65816 -----------------------------
(***************************************************************************)
(* 65816 register-size tracking in the Merlin parser: the directives XC,   *)
(* MX, LONGA and LONGI (handle_op, handle_mx, handle_longa, handle_longi)  *)
(* and the REP/SEP tracking at the end of parse().  The sizes are held by  *)
(* the 6502 back-end behind set_65816_sizes()/get_65816_sizes() and the    *)
(* CPU by set_cpu_type(); both are represented by variables here.          *)
(*                                                                         *)
(* m and x are the processor's M and X status bits (TRUE = 8 bits) as the  *)
(* program's REP/SEP instructions set them and its directives declare      *)
(* them; LONGA/LONGI declare the other register 8-bit, as their comments   *)
(* in the code say.  The assembler must encode immediates with the sizes   *)
(* these bits select.                                                      *)
(***************************************************************************)
EXTENDS Naturals, Bitwise

CONSTANTS
    Cpus,        \* CPU names an XC operand may give ("6502", "65c02", "65816")
    MaxLines

Level == [c \in {"6502", "65c02", "65816"} |-> CASE c = "6502"  -> 0
                                                [] c = "65c02" -> 1
                                                [] c = "65816" -> 2]

VARIABLES
    cpu_type,    \* back-end CPU selected by set_cpu_type()
    xc_level,    \* handle_op's own 0/1/2 record of the CPU level
    asize,       \* accumulator immediate size in the back-end
    xsize,       \* index immediate size in the back-end
    m, x,        \* declared status bits: TRUE is 8-bit
    step,        \* the directive or instruction of the last line
    lines

vars == <<cpu_type, xc_level, asize, xsize, m, x, step, lines>>

Size(bit8) == IF bit8 THEN 8 ELSE 16

Line(kind, arg) ==
    /\ lines < MaxLines
    /\ lines' = lines + 1
    /\ step' = [kind |-> kind, arg |-> arg, cpu |-> cpu_type]

-----------------------------------------------------------------------------

XC_noClamp(arg) ==
    /\ Line("xc", arg)
    /\ xc_level' = xc_level + 1
    /\ cpu_type' = IF xc_level + 1 >= 2 THEN "65816" ELSE "65c02"
    /\ UNCHANGED <<asize, xsize, m, x>>

\* XC: no operand increments the level up to 65816; OFF resets to 6502 and
\* 8-bit sizes; ON selects 65816; a CPU name selects it and sets the level
\* by its prefix.  An unknown name is error 24 and changes nothing.
XC(arg) ==
    /\ Line("xc", arg)
    /\ CASE arg = "" ->
              /\ xc_level' = IF xc_level + 1 >= 2 THEN 2 ELSE xc_level + 1
              /\ cpu_type' = IF xc_level + 1 >= 2 THEN "65816" ELSE "65c02"
              /\ UNCHANGED <<asize, xsize, m, x>>
         [] arg = "off" ->
              /\ xc_level' = 0 /\ cpu_type' = "6502"
              /\ asize' = 8 /\ xsize' = 8
              /\ m' = TRUE /\ x' = TRUE
         [] arg = "on" ->
              /\ xc_level' = 2 /\ cpu_type' = "65816"
              /\ UNCHANGED <<asize, xsize, m, x>>
         [] arg \in Cpus ->
              /\ cpu_type' = arg /\ xc_level' = Level[arg]
              /\ UNCHANGED <<asize, xsize, m, x>>
         [] OTHER ->
              UNCHANGED <<cpu_type, xc_level, asize, xsize, m, x>>

\* MX expr: bit 1 selects an 8-bit accumulator, bit 0 8-bit index registers;
\* it selects the 65816 and leaves xc_level alone.
MX(flags) ==
    /\ Line("mx", flags)
    /\ cpu_type' = "65816"
    /\ asize' = IF (flags & 2) # 0 THEN 8 ELSE 16
    /\ xsize' = IF (flags & 1) # 0 THEN 8 ELSE 16
    /\ m' = ((flags & 2) # 0) /\ x' = ((flags & 1) # 0)
    /\ UNCHANGED xc_level

\* LONGA ON|OFF: set_65816_sizes(mode ? 16 : 8, 8).  A missing ON/OFF is
\* error 10 and changes nothing.
LONGA(arg) ==
    /\ Line("longa", arg)
    /\ IF arg \in {"on", "off"}
         THEN /\ cpu_type' = "65816"
              /\ asize' = IF arg = "on" THEN 16 ELSE 8
              /\ xsize' = 8
              /\ m' = (arg = "off") /\ x' = TRUE
         ELSE UNCHANGED <<cpu_type, asize, xsize, m, x>>
    /\ UNCHANGED xc_level

\* LONGI ON|OFF: set_65816_sizes(8, mode ? 16 : 8).
LONGI(arg) ==
    /\ Line("longi", arg)
    /\ IF arg \in {"on", "off"}
         THEN /\ cpu_type' = "65816"
              /\ asize' = 8
              /\ xsize' = IF arg = "on" THEN 16 ELSE 8
              /\ x' = (arg = "off") /\ m' = TRUE
         ELSE UNCHANGED <<cpu_type, asize, xsize, m, x>>
    /\ UNCHANGED xc_level

RepSepSizes_swapped(is_rep, flags, a, i) ==
    [a |-> IF (flags & 16) # 0 THEN (IF is_rep THEN 16 ELSE 8) ELSE a,
     i |-> IF (flags & 32) # 0 THEN (IF is_rep THEN 16 ELSE 8) ELSE i]

\* The sizes REP (clear) or SEP (set) with operand bits flags gives from the
\* current ones: bit 0x20 is M, bit 0x10 is X.
RepSepSizes(is_rep, flags, a, i) ==
    [a |-> IF (flags & 32) # 0 THEN (IF is_rep THEN 16 ELSE 8) ELSE a,
     i |-> IF (flags & 16) # 0 THEN (IF is_rep THEN 16 ELSE 8) ELSE i]

\* A REP or SEP instruction with a constant operand: tracked only when the
\* selected CPU is the 65816; on other CPUs the instruction does not exist.
RepSep(is_rep, flags) ==
    /\ Line(IF is_rep THEN "rep" ELSE "sep", flags)
    /\ IF cpu_type = "65816"
         THEN LET new == RepSepSizes(is_rep, flags, asize, xsize)
              IN /\ asize' = new.a /\ xsize' = new.i
                 /\ m' = IF (flags & 32) # 0 THEN ~is_rep ELSE m
                 /\ x' = IF (flags & 16) # 0 THEN ~is_rep ELSE x
         ELSE UNCHANGED <<asize, xsize, m, x>>
    /\ UNCHANGED <<cpu_type, xc_level>>

Init ==
    /\ cpu_type = "6502"
    /\ xc_level = 0
    /\ asize = 8 /\ xsize = 8
    /\ m = TRUE /\ x = TRUE
    /\ step = [kind |-> "none", arg |-> "", cpu |-> "6502"]
    /\ lines = 0

Next ==
    \/ \E arg \in {"", "off", "on", "z80"} \cup Cpus : XC(arg)
    \/ \E flags \in 0..3 : MX(flags)
    \/ \E arg \in {"on", "off", ""} : LONGA(arg) \/ LONGI(arg)
    \/ \E is_rep \in BOOLEAN, flags \in {1, 16, 32, 48} : RepSep(is_rep, flags)
    \/ lines = MaxLines /\ UNCHANGED vars

Spec == Init /\ [][Next]_vars

-----------------------------------------------------------------------------

TypeOK ==
    /\ cpu_type \in {"6502", "65c02", "65816"}
    /\ xc_level \in 0..2
    /\ asize \in {8, 16} /\ xsize \in {8, 16}
    /\ m \in BOOLEAN /\ x \in BOOLEAN
    /\ lines \in 0..MaxLines

\* The immediate sizes the back-end holds are those the M and X bits select,
\* whatever sequence of XC, MX, LONGA/LONGI and tracked REP/SEP lines led
\* here: the REP/SEP tracking in parse() maps bit 0x20 to the accumulator
\* and 0x10 to the index registers, and XC OFF resets both to 8 bits.
SizesFollowStatusBits ==
    asize = Size(m) /\ xsize = Size(x)

\* Spec section 4.10: LONGA sets only the accumulator size; the index size
\* stays what it was.  handle_longa passes 8 for the index size.
LongaKeepsIndexSize ==
    [][step'.kind = "longa" => xsize' = xsize]_vars

\* Spec section 4.10: XC without operand upgrades the CPU one level
\* (6502 -> 65C02 -> 65816) and never lowers it.  handle_op counts from its
\* own xc_level, which MX and LONGA/LONGI do not update.
XcNeverDowngrades ==
    [][step'.kind = "xc" /\ step'.arg = "" => Level[cpu_type'] >= Level[cpu_type]]_vars
=============================================================================
