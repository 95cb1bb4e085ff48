---------------------------- MODULE DummySection ----------------------------
(***************************************************************************)
(* Dummy sections in Merlin (DUM/DUMMY/DSECT, DEND/ED) and SCASM (.DUMMY,  *)
(* .ED): handle_dsect, handle_dend and the ORG handler's dummy branch of   *)
(* src/syntax/merlin/syntax.c and src/syntax/scasm/syntax.c.               *)
(*                                                                         *)
(* The vasm core's sections are represented by their program counters:     *)
(* switch_offset_section(NULL, o) makes the offset section current with    *)
(* pc o, new_org(a) a fresh absolute section with pc a, new_section() a    *)
(* named one.  A label binds to the current section and its pc.            *)
(***************************************************************************)
EXTENDS Integers, Sequences

CONSTANTS
    Dialects,    \* syntax modules checked: "merlin", "scasm"
    Addrs,       \* constant operands of DUM and ORG
    Named,       \* section names a SECTION line may give
    MaxPc,       \* bound on any program counter
    MaxLines

\* Sections are named by pairs: the offset section, one absolute section per
\* ORG address, one per SECTION name.
Offset == <<"offset", 0>>
NoSect == <<"none", 0>>
OrgName(a) == <<"org", a>>
SectName(n) == <<"named", n>>

\* Operands other than a constant address: none, and an expression that is
\* not constant.
NoArg == -1
NonConst == -2
NoResume == -3
Sections == {OrgName(a) : a \in Addrs} \cup {SectName(n) : n \in Named} \cup {Offset}

VARIABLES
    dialect,         \* the syntax module assembled with, fixed for a run
    current_section,
    pc,              \* per section: its program counter
    dsect_active,
    last_alloc_sect, \* section saved by the first DUM of a block
    dsect_offs,      \* offset saved by DEND, where a bare DUM resumes
    lines,
    diag,            \* error of the last line
    \* history, for the properties
    outer,           \* the section current when the open block began
    labels,          \* sequence of [sect, at, inDummy] per label line
    resumeAt,        \* the offset counter at the last DEND closing a block
                     \* from the offset section, NoResume after one that
                     \* closed from another section
    bareStart        \* [at, want] of the last DUM without a constant address

vars == <<dialect, current_section, pc, dsect_active, last_alloc_sect, dsect_offs,
          lines, diag, outer, labels, resumeAt, bareStart>>

Dialect == dialect

Line ==
    /\ lines < MaxLines
    /\ lines' = lines + 1
    /\ UNCHANGED dialect

\* switch_offset_section(NULL, o).
SwitchOffset(o) ==
    /\ current_section' = Offset
    /\ pc' = [pc EXCEPT ![Offset] = o]

\* Faulty variant of OpenBlock: every DUM saves the current section.
OpenBlock_resave ==
    /\ last_alloc_sect' = current_section
    /\ dsect_active' = TRUE

\* The first DUM of a block saves the section it leaves; a consecutive DUM
\* keeps the saved one (Merlin silently, SCASM with error 35).
OpenBlock ==
    IF ~dsect_active
      THEN /\ last_alloc_sect' = current_section
           /\ dsect_active' = TRUE
      ELSE UNCHANGED <<last_alloc_sect, dsect_active>>

\* handle_dsect.  Merlin takes an optional operand (an address, or an
\* expression that is not constant: error 30 and the saved offset); SCASM
\* always resumes at the saved offset.
DUM(arg) ==
    /\ Line
    /\ Dialect = "scasm" => arg = NoArg
    /\ OpenBlock
    /\ SwitchOffset(IF arg \in Addrs THEN arg ELSE dsect_offs)
    /\ diag' = CASE arg = NonConst                      -> "expr_not_const"
                 [] Dialect = "scasm" /\ dsect_active    -> "dummy_active"
                 [] OTHER                               -> "none"
    /\ outer' = IF dsect_active THEN outer ELSE current_section
    /\ bareStart' = IF arg \in Addrs THEN bareStart ELSE [at |-> pc'[Offset], want |-> resumeAt]
    /\ UNCHANGED <<dsect_offs, labels, resumeAt>>

\* Faulty variant of DEND: no check that a block is open.
DEND_noGuard ==
    /\ Line
    /\ dsect_offs' = pc[current_section]
    /\ current_section' = last_alloc_sect
    /\ last_alloc_sect' = NoSect
    /\ dsect_active' = FALSE
    /\ diag' = "none"
    /\ UNCHANGED <<pc, outer, labels, resumeAt, bareStart>>

\* History for DEND: the offset it closes at, per spec 4.11.
ResumeHistory ==
    resumeAt' = IF dsect_active
                  THEN IF current_section = Offset THEN pc[Offset] ELSE NoResume
                  ELSE resumeAt

\* Faulty variant of DEND: the offset is not saved.
DEND_noSave ==
    /\ Line
    /\ IF dsect_active
         THEN /\ current_section' = last_alloc_sect
              /\ last_alloc_sect' = NoSect
              /\ dsect_active' = FALSE
              /\ diag' = "none"
         ELSE /\ diag' = "ed_without_dummy"
              /\ UNCHANGED <<current_section, last_alloc_sect, dsect_active>>
    /\ ResumeHistory
    /\ UNCHANGED <<dsect_offs, pc, outer, labels, bareStart>>

\* handle_dend: save the current section's pc and go back.
DEND ==
    /\ Line
    /\ IF dsect_active
         THEN /\ dsect_offs' = pc[current_section]
              /\ current_section' = last_alloc_sect
              /\ last_alloc_sect' = NoSect
              /\ dsect_active' = FALSE
              /\ diag' = "none"
         ELSE /\ diag' = "ed_without_dummy"
              /\ UNCHANGED <<dsect_offs, current_section, last_alloc_sect, dsect_active>>
    /\ ResumeHistory
    /\ UNCHANGED <<pc, outer, labels, bareStart>>

\* handle_org with a constant address: inside a dummy block it moves the
\* offset; otherwise set_section(new_org(addr)).  A non-constant operand is
\* an error and changes nothing.
ORG(arg) ==
    /\ Line
    /\ IF arg \in Addrs
         THEN /\ IF dsect_active
                   THEN SwitchOffset(arg)
                   ELSE /\ current_section' = OrgName(arg)
                        /\ pc' = [pc EXCEPT ![OrgName(arg)] = arg]
              /\ diag' = "none"
         ELSE /\ diag' = "expr_not_const"
              /\ UNCHANGED <<current_section, pc>>
    /\ UNCHANGED <<dsect_active, last_alloc_sect, dsect_offs, outer, labels, resumeAt, bareStart>>

\* handle_section: new_section() and set_section(), dummy block or not.
SECTION(name) ==
    /\ Line
    /\ current_section' = SectName(name)
    /\ diag' = "none"
    /\ UNCHANGED <<pc, dsect_active, last_alloc_sect, dsect_offs, outer, labels, resumeAt, bareStart>>

\* DS n, or "* = * + n": space in the current section.
DS(n) ==
    /\ Line
    /\ pc[current_section] + n <= MaxPc
    /\ pc' = [pc EXCEPT ![current_section] = @ + n]
    /\ diag' = "none"
    /\ UNCHANGED <<current_section, dsect_active, last_alloc_sect, dsect_offs,
                   outer, labels, resumeAt, bareStart>>

\* A label line: new_labsym(current_section, ...) at the current pc.
LABEL ==
    /\ Line
    /\ labels' = Append(labels, [sect |-> current_section,
                                 at |-> pc[current_section],
                                 inDummy |-> dsect_active])
    /\ diag' = "none"
    /\ UNCHANGED <<current_section, pc, dsect_active, last_alloc_sect, dsect_offs, outer, resumeAt, bareStart>>

\* End of source: an open block is error 23, "missing .ED".
EndOfSource ==
    /\ lines < MaxLines
    /\ lines' = MaxLines
    /\ UNCHANGED dialect
    /\ diag' = IF dsect_active THEN "missing_ed" ELSE "none"
    /\ UNCHANGED <<current_section, pc, dsect_active, last_alloc_sect, dsect_offs,
                   outer, labels, resumeAt, bareStart>>

\* Parsing starts in an absolute section made by an ORG to the first address.
Init ==
    LET a0 == CHOOSE a \in Addrs : \A b \in Addrs : a <= b
    IN /\ dialect \in Dialects
       /\ current_section = OrgName(a0)
       /\ pc = [s \in Sections |-> IF s = OrgName(a0) THEN a0 ELSE 0]
       /\ dsect_active = FALSE
       /\ last_alloc_sect = NoSect
       /\ dsect_offs = 0
       /\ lines = 0
       /\ diag = "none"
       /\ outer = NoSect
       /\ labels = <<>>
       /\ resumeAt = 0
       /\ bareStart = [at |-> 0, want |-> 0]

Next ==
    \/ \E arg \in Addrs \cup {NoArg, NonConst} : DUM(arg)
    \/ DEND
    \/ \E arg \in Addrs \cup {NonConst} : ORG(arg)
    \/ \E name \in Named : SECTION(name)
    \/ \E n \in {1, 2} : DS(n)
    \/ LABEL
    \/ EndOfSource
    \/ lines = MaxLines /\ UNCHANGED vars

Spec == Init /\ [][Next]_vars

-----------------------------------------------------------------------------

TypeOK ==
    /\ dialect \in Dialects
    /\ current_section \in Sections
    /\ pc \in [Sections -> 0..MaxPc]
    /\ dsect_active \in BOOLEAN
    /\ last_alloc_sect \in Sections \cup {NoSect}
    /\ dsect_offs \in 0..MaxPc
    /\ lines \in 0..MaxLines

\* Spec section 4.11: DEND restores the section that was current before the
\* block's first DUM, however many DUM, ORG and SECTION lines the block had
\* (Merlin's handle_dsect saves the section only when no block is open).
DendRestoresOuter ==
    [][dsect_active /\ ~dsect_active' => current_section' = outer]_vars

\* Spec section 4.11: labels defined inside a dummy block resolve to the
\* offset counter, not to an allocated section.
DummyLabelsAreOffsets ==
    \A i \in 1..Len(labels) : labels[i].inDummy => labels[i].sect = Offset

\* Spec section 4.11: "DEND saves the current offset", and a DUM without
\* an address (or with one that is not constant) starts the offset section
\* at that saved offset: handle_dend must store the offset counter into
\* dsect_offs and handle_dsect read it back, across any ORG, DS, label and
\* DUM lines in between.  Blocks that DEND closes from another section
\* (after a SECTION line) are the divergence DummyLabelsAreOffsets shows.
DumResumesAtSavedOffset ==
    bareStart.want # NoResume => bareStart.at = bareStart.want
=============================================================================
