------------------------------ MODULE CmdWriter ------------------------------
(***************************************************************************)
(* The TRS-DOS /CMD writer, src/output_cmd.c: write_output() over the      *)
(* section list and symbol list the assembler hands it, with the -exec=    *)
(* option of output_args().                                                *)
(*                                                                         *)
(* A section is [org, size, kind]: size is pc - org, kind is "code" (DATA  *)
(* atoms), "bss" (uninitialised SPACE atoms only) or "offset" (an          *)
(* UNALLOCATED section such as a dummy section).  The file is a sequence   *)
(* of blocks; a block's data is represented by the section it comes from   *)
(* and its byte count, its header fields by their 16-bit values.           *)
(***************************************************************************)
EXTENDS Integers, Sequences, SequencesExt, FiniteSets

CONSTANTS
    Orgs,        \* section origins
    Sizes,       \* section sizes (pc - org)
    Kinds,       \* section kinds present in the inputs
    NSecs,       \* bound on the number of sections
    ExecAddrs    \* addresses the -exec= symbol may have

W16 == 65536

\* The -exec= option: not given, a symbol defined at an address, or a name
\* with no symbol.
NoExec == [given |-> FALSE, found |-> FALSE, addr |-> 0]
Missing == [given |-> TRUE, found |-> FALSE, addr |-> 0]
ExecOptions == {NoExec, Missing} \cup {[given |-> TRUE, found |-> TRUE, addr |-> a] : a \in ExecAddrs}

Section == [org : Orgs, size : Sizes, kind : Kinds]

VARIABLES
    secs,        \* input: the section list, in creation order
    exec,        \* input: the -exec= option and its symbol
    imports,     \* input: whether the symbol list has an undefined IMPORT
    phase,       \* "symbols", "collect", "write", "transfer", "done", "failed"
    exec_addr,
    exec_symname_set,
    seclist,     \* sections to write, sorted by origin
    next,        \* index in seclist of the next load block
    out,         \* blocks written so far
    errors       \* output_error() numbers reported

vars == <<secs, exec, imports, phase, exec_addr, exec_symname_set, seclist, next,
          out, errors>>

-----------------------------------------------------------------------------

\* write_output() with no section returns before it looks at anything.
NoSections ==
    /\ phase = "symbols"
    /\ secs = <<>>
    /\ phase' = "done"
    /\ UNCHANGED <<secs, exec, imports, exec_addr, exec_symname_set, seclist, next,
                   out, errors>>

\* The symbol loop: an IMPORT is error 6; the symbol named by -exec= gives
\* exec_addr; a name never found is error 6.
ScanSymbols ==
    /\ phase = "symbols"
    /\ secs # <<>>
    /\ exec_addr' = IF exec.found THEN exec.addr ELSE exec_addr
    /\ exec_symname_set' = (exec.given /\ ~exec.found)
    /\ errors' = errors \cup (IF imports \/ (exec.given /\ ~exec.found) THEN {6} ELSE {})
    /\ phase' = "collect"
    /\ UNCHANGED <<secs, exec, imports, seclist, next, out>>

\* Two sections that both occupy a byte.
Overlap(s, t) == s.org < t.org + t.size /\ t.org < s.org + s.size

\* chk_sec_overlap() (vasm core): overlapping allocated sections are fatal.
Overlapping(ss) ==
    \E i, j \in 1..Len(ss) :
        /\ i < j /\ ss[i].kind # "offset" /\ ss[j].kind # "offset"
        /\ Overlap(ss[i], ss[j])

\* The sections the loop keeps: allocated and not empty.
Kept(s) == s.kind # "offset" /\ s.size # 0

\* orgcmp(): sections compare by their origin, unsigned.
OrgLess(s, t) == s.org < t.org

\* Faulty variant of Collect: the section list is not sorted.
Collect_unsorted ==
    /\ phase = "collect"
    /\ IF Overlapping(secs)
         THEN /\ phase' = "failed" /\ errors' = errors \cup {0}
              /\ UNCHANGED seclist
         ELSE /\ seclist' = SelectSeq(secs, Kept)
              /\ phase' = IF SelectSeq(secs, Kept) = <<>> THEN "done" ELSE "write"
              /\ UNCHANGED errors
    /\ UNCHANGED <<secs, exec, imports, exec_addr, exec_symname_set, next, out>>

\* The overlap check, the array of kept sections and its qsort() by origin
\* (orgcmp); with no section left write_output() returns at once.
Collect ==
    /\ phase = "collect"
    /\ IF Overlapping(secs)
         THEN /\ phase' = "failed" /\ errors' = errors \cup {0}
              /\ UNCHANGED seclist
         ELSE /\ seclist' = SortSeq(SelectSeq(secs, Kept), OrgLess)
              /\ phase' = IF SelectSeq(secs, Kept) = <<>> THEN "done" ELSE "write"
              /\ UNCHANGED errors
    /\ UNCHANGED <<secs, exec, imports, exec_addr, exec_symname_set, next, out>>

\* One load block: flag 1, fw16(segsize + 5), fw16(org), then every atom of
\* the section (DATA and SPACE alike) with its alignment padding.
LoadBlock(s) ==
    [flag |-> 1, len |-> (s.size + 5) % W16, addr |-> s.org % W16,
     from |-> s, bytes |-> s.size]

WriteLoadBlock ==
    /\ phase = "write"
    /\ out' = Append(out, LoadBlock(seclist[next]))
    /\ next' = next + 1
    /\ phase' = IF next = Len(seclist) THEN "transfer" ELSE "write"
    /\ UNCHANGED <<secs, exec, imports, exec_addr, exec_symname_set, seclist, errors>>

\* The transfer block: flag 2, length 2, exec_addr or, when it is 0, the
\* origin of the first sorted section.
WriteTransfer ==
    /\ phase = "transfer"
    /\ out' = Append(out, [flag |-> 2, len |-> 2,
                           addr |-> (IF exec_addr # 0 THEN exec_addr ELSE seclist[1].org) % W16,
                           from |-> seclist[1], bytes |-> 0])
    /\ phase' = "done"
    /\ UNCHANGED <<secs, exec, imports, exec_addr, exec_symname_set, seclist, next, errors>>

\* init_output_cmd() and output_args(), then the assembler's result.
Init ==
    /\ secs \in UNION {[1..n -> Section] : n \in 0..NSecs}
    /\ exec \in ExecOptions
    /\ imports \in BOOLEAN
    /\ phase = "symbols"
    /\ exec_addr = 0
    /\ exec_symname_set = exec.given
    /\ seclist = <<>>
    /\ next = 1
    /\ out = <<>>
    /\ errors = {}

Done == phase \in {"done", "failed"} /\ UNCHANGED vars

Next == NoSections \/ ScanSymbols \/ Collect \/ WriteLoadBlock \/ WriteTransfer \/ Done

Spec == Init /\ [][Next]_vars

-----------------------------------------------------------------------------

\* What spec section 4.13 says the file holds: a load block per allocated,
\* initialised, non-empty section (spec 8: BSS sections are skipped), by
\* origin, then a transfer block to the -exec= symbol or, without one, to
\* the origin of the first section.
SpecKept(s) == s.kind = "code" /\ s.size # 0
Expected == SortSeq(SelectSeq(secs, SpecKept), LAMBDA s, t : s.org < t.org)
ExpectedExec == IF exec.found THEN exec.addr ELSE Expected[1].org

\* A reader of the format of spec section 4.13 (flag, 16-bit length that
\* counts the 5-byte header, 16-bit address) takes len - 5 data bytes.
ReadBytes(b) == b.len - 5

\* When write_output() finishes without error, reading the file back with
\* the spec's format gives the load blocks of the spec's sections in order,
\* each with all of its bytes at its origin, then the transfer address.
FileMatchesSpec ==
    phase = "done" /\ errors = {} /\ Expected # <<>> =>
        /\ Len(out) = Len(Expected) + 1
        /\ \A i \in 1..Len(Expected) :
              /\ out[i].flag = 1
              /\ out[i].from = Expected[i]
              /\ out[i].addr = Expected[i].org
              /\ ReadBytes(out[i]) = out[i].bytes
        /\ Last(out).flag = 2
        /\ Last(out).addr = ExpectedExec
=============================================================================
