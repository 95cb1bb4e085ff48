----------------------------- MODULE CondEngine -----------------------------
(***************************************************************************)
(* Conditional assembly as the three dialect parsers implement it.         *)
(*                                                                         *)
(* The vasm core (cond.c, not part of this repository) keeps a level       *)
(* counter clev, an array cond[0..clev] of taken flags with cond[0] = 1,   *)
(* and a counter ifnesting of IFs met while skipping.  Each dialect's      *)
(* parse() asks cond_state() = cond[clev] for every line; when it is 0 the *)
(* line goes to a reduced scanner that only classifies the directive name  *)
(* (skip mode), otherwise the line is parsed and the directive's handler   *)
(* runs (taken mode).  The two classifications are made differently:       *)
(* handlers are found through the directive table, the skip scanner uses  *)
(* the name's first two letters (Merlin, SCASM) or the table's DT_ flags   *)
(* (EDTASM).  Predicates are evaluated by the core's expression evaluator  *)
(* and are a free choice here.                                             *)
(***************************************************************************)
EXTENDS Naturals, Sequences, SequencesExt

CONSTANTS
    Dialects,    \* dialects whose parse() loops are checked
    MAXCONDLEV,  \* size of the core's cond[] array
    MaxLines     \* source lines read before end of file

ASSUME Dialects \subseteq {"merlin", "scasm", "edtasm"}
ASSUME MAXCONDLEV \in Nat \ {0}

VARIABLES
    dialect,     \* the syntax module assembled with, fixed for a run
    clev,        \* current conditional level (core)
    cond,        \* cond[0..MAXCONDLEV]: taken flag per level (core)
    ifnesting,   \* IFs opened while skipping, not yet closed (core)
    assembled,   \* whether the last ordinary line was parsed and emitted
    diag,        \* diagnostic reported for the last line
    lines,       \* lines read so far
    ended,       \* parse() left its loop and ran cond_check()
    fatal,       \* a fatal error stopped the assembly
    lostFrame    \* history: an IF handler returned early without cond_if()

vars == <<dialect, clev, cond, ifnesting, assembled, diag, lines, ended, fatal, lostFrame>>

Dialect == dialect

-----------------------------------------------------------------------------
(* Directive tables: only the entries that reach the conditional engine.   *)
(* lead is the first two letters of the name, which the skip scanners of   *)
(* Merlin and SCASM test; flag is EDTASM's DIRF_TYPEMASK field.            *)

Entry(n, l, h, f) == [name |-> n, lead |-> l, handler |-> h, flag |-> f]

MerlinDirectives ==
    { Entry("ifdef", "if", "ifdef", "none"), Entry("ifused", "if", "ifused", "none"),
      Entry("ifblank", "if", "ifblank", "none"), Entry("ifne", "if", "ifexp", "none"),
      Entry("if", "if", "ifexp", "none"), Entry("do", "do", "ifexp", "none"),
      Entry("else", "el", "else", "none"), Entry("el", "el", "else", "none"),
      Entry("endif", "en", "endif", "none"), Entry("fi", "fi", "endif", "none"),
      Entry("fin", "fi", "fin", "none") }

ScasmDirectives ==
    { Entry("ifdef", "if", "ifdef", "none"), Entry("ifused", "if", "ifused", "none"),
      Entry("ifblank", "if", "ifblank", "none"), Entry("ifne", "if", "ifexp", "none"),
      Entry("if", "if", "ifexp", "none"), Entry("do", "do", "ifexp", "none"),
      Entry("else", "el", "else", "none"), Entry("el", "el", "else", "none"),
      Entry("endif", "en", "endif", "none"), Entry("fi", "fi", "endif", "none"),
      Entry("fin", "fi", "endif", "none") }

EdtasmDirectives ==
    { Entry("if", "if", "cond", "DT_IF"), Entry("cond", "co", "cond", "DT_IF"),
      Entry("ifne", "if", "ifexp", "DT_IF"), Entry("else", "el", "else", "DT_ELSE"),
      Entry("endc", "en", "endif", "DT_ENDIF"), Entry("endif", "en", "endif", "DT_ENDIF") }

Directives ==
    CASE Dialect = "merlin" -> MerlinDirectives
      [] Dialect = "scasm"  -> ScasmDirectives
      [] Dialect = "edtasm" -> EdtasmDirectives

\* Faulty variant of SkipClass: DO, whose name does not begin with "if", is
\* not counted as an IF while skipping.
SkipClass_noDo(e) ==
    IF Dialect = "edtasm"
      THEN CASE e.flag = "DT_IF"    -> "skipif"
             [] e.flag = "DT_ELSE"  -> "else"
             [] e.flag = "DT_ENDIF" -> "endif"
             [] OTHER               -> "other"
      ELSE CASE e.lead = "if"                      -> "skipif"
             [] e.handler = "else"                 -> "else"
             [] e.handler \in {"endif", "fin"}     -> "endif"
             [] OTHER                              -> "other"

\* Faulty variant of SkipClass: an ELSE met while skipping is not recognised.
SkipClass_noElse(e) ==
    IF Dialect = "edtasm"
      THEN CASE e.flag = "DT_IF"    -> "skipif"
             [] e.flag = "DT_ENDIF" -> "endif"
             [] OTHER               -> "other"
      ELSE CASE e.lead = "if" \/ e.name = "do"     -> "skipif"
             [] e.handler \in {"endif", "fin"}     -> "endif"
             [] OTHER                              -> "other"

\* What the skip scanner of parse() makes of a directive it meets.
SkipClass(e) ==
    IF Dialect = "edtasm"
      THEN CASE e.flag = "DT_IF"    -> "skipif"
             [] e.flag = "DT_ELSE"  -> "else"
             [] e.flag = "DT_ENDIF" -> "endif"
             [] OTHER               -> "other"
      ELSE CASE e.lead = "if" \/ e.name = "do"     -> "skipif"
             [] e.handler = "else"                 -> "else"
             [] e.handler \in {"endif", "fin"}     -> "endif"
             [] OTHER                              -> "other"

\* What an IF handler can do in taken mode: open a frame with the predicate's
\* value and report a diagnostic, or report an error and return early.
IfOutcomes(h) ==
    CASE h \in {"ifexp", "cond"} ->
            {[opens |-> TRUE, pred |-> p, diag |-> "none"] : p \in BOOLEAN}
            \cup {[opens |-> TRUE, pred |-> FALSE, diag |-> "expr_not_const"]}
      [] h = "ifblank" ->
            {[opens |-> TRUE, pred |-> p, diag |-> "none"] : p \in BOOLEAN}
      [] h = "ifdef" ->
            {[opens |-> TRUE, pred |-> p, diag |-> "none"] : p \in BOOLEAN}
            \cup {[opens |-> FALSE, pred |-> FALSE, diag |-> "ident_expected"]}
      [] h = "ifused" ->
            {[opens |-> TRUE, pred |-> p, diag |-> "none"] : p \in BOOLEAN}
            \cup {[opens |-> TRUE, pred |-> FALSE, diag |-> "used_defined"],
                  [opens |-> FALSE, pred |-> FALSE, diag |-> "ident_expected"]}
      [] OTHER -> {}

IfHandlers == {"ifexp", "cond", "ifblank", "ifdef", "ifused"}

-----------------------------------------------------------------------------
(* The core engine.                                                         *)

\* cond_if(flag): open a level; exceeding the array is a fatal error.
cond_if(flag) ==
    IF clev + 1 >= MAXCONDLEV
      THEN /\ fatal' = TRUE
           /\ UNCHANGED <<clev, cond>>
      ELSE /\ clev' = clev + 1
           /\ cond' = [cond EXCEPT ![clev + 1] = flag]
           /\ UNCHANGED fatal

cond_skipif == ifnesting' = ifnesting + 1

\* Faulty variant: ELSE met while skipping ignores the nesting count.
cond_else_noNesting == cond' = [cond EXCEPT ![clev] = TRUE]

cond_else ==
    cond' = IF ifnesting = 0 THEN [cond EXCEPT ![clev] = TRUE] ELSE cond

cond_skipelse ==
    IF clev > 0
      THEN /\ cond' = [cond EXCEPT ![clev] = FALSE]
           /\ diag' = "none"
      ELSE /\ diag' = "else_without_if"
           /\ UNCHANGED cond

\* Faulty variant: an unmatched ENDIF is reported but the level is still
\* decremented.
cond_endif_noGuard ==
    IF ifnesting = 0
      THEN /\ clev' = clev - 1
           /\ diag' = IF clev > 0 THEN "none" ELSE "endif_without_if"
           /\ UNCHANGED ifnesting
      ELSE /\ ifnesting' = ifnesting - 1 /\ diag' = "none"
           /\ UNCHANGED clev

cond_endif ==
    IF ifnesting = 0
      THEN IF clev > 0
             THEN /\ clev' = clev - 1 /\ diag' = "none"
                  /\ UNCHANGED ifnesting
             ELSE /\ diag' = "endif_without_if"
                  /\ UNCHANGED <<clev, ifnesting>>
      ELSE /\ ifnesting' = ifnesting - 1 /\ diag' = "none"
           /\ UNCHANGED clev

cond_state == cond[clev]

-----------------------------------------------------------------------------
(* One source line through parse().                                        *)

ReadLine ==
    /\ ~ended /\ ~fatal
    /\ lines < MaxLines
    /\ lines' = lines + 1
    /\ UNCHANGED dialect

\* Taken mode, an IF handler (ifdef, ifused, ifblank, ifexp, handle_cond).
TakenIf(e) ==
    /\ ReadLine /\ cond_state
    /\ e.handler \in IfHandlers
    /\ \E o \in IfOutcomes(e.handler) :
          IF o.opens
            THEN /\ cond_if(o.pred)
                 /\ diag' = IF clev + 1 >= MAXCONDLEV THEN "nesting_too_deep"
                                                       ELSE o.diag
                 /\ UNCHANGED lostFrame
            ELSE /\ diag' = o.diag /\ lostFrame' = TRUE
                 /\ UNCHANGED <<clev, cond, fatal>>
    /\ UNCHANGED <<ifnesting, assembled, ended>>

\* Taken mode, handle_else.
TakenElse(e) ==
    /\ ReadLine /\ cond_state
    /\ e.handler = "else"
    /\ cond_skipelse
    /\ UNCHANGED <<clev, ifnesting, assembled, ended, fatal, lostFrame>>

\* Taken mode, handle_endif.
TakenEndif(e) ==
    /\ ReadLine /\ cond_state
    /\ e.handler = "endif"
    /\ cond_endif
    /\ UNCHANGED <<cond, assembled, ended, fatal, lostFrame>>

\* Taken mode, Merlin's handle_fin: an unmatched FIN only warns.
TakenFin(e) ==
    /\ ReadLine /\ cond_state
    /\ e.handler = "fin"
    /\ IF clev > 0
         THEN cond_endif
         ELSE /\ diag' = "fin_without_do" /\ UNCHANGED <<clev, ifnesting>>
    /\ UNCHANGED <<cond, assembled, ended, fatal, lostFrame>>

\* Taken mode, any other line: parsed and emitted.
TakenLine ==
    /\ ReadLine /\ cond_state
    /\ assembled' = TRUE /\ diag' = "none"
    /\ UNCHANGED <<clev, cond, ifnesting, ended, fatal, lostFrame>>

\* Skip mode: the reduced scanner acts on the class of the directive only.
SkipDirective(e) ==
    /\ ReadLine /\ ~cond_state
    /\ diag' = "none"
    /\ CASE SkipClass(e) = "skipif" -> cond_skipif /\ UNCHANGED <<clev, cond>>
         [] SkipClass(e) = "else"   -> cond_else /\ UNCHANGED <<clev, ifnesting>>
         [] SkipClass(e) = "endif"  -> cond_endif /\ UNCHANGED cond
         [] OTHER                   -> UNCHANGED <<clev, cond, ifnesting>>
    /\ UNCHANGED <<assembled, ended, fatal, lostFrame>>

\* Skip mode, any other line: dropped.
SkipLine ==
    /\ ReadLine /\ ~cond_state
    /\ assembled' = FALSE /\ diag' = "none"
    /\ UNCHANGED <<clev, cond, ifnesting, ended, fatal, lostFrame>>

\* End of file: cond_check() reports an open level.
EndOfSource ==
    /\ ~ended /\ ~fatal
    /\ ended' = TRUE
    /\ diag' = IF clev > 0 THEN "unclosed_if" ELSE "none"
    /\ UNCHANGED <<dialect, clev, cond, ifnesting, assembled, lines, fatal, lostFrame>>

\* cond_init().
Init ==
    /\ dialect \in Dialects
    /\ clev = 0
    /\ cond = [i \in 0..MAXCONDLEV |-> i = 0]
    /\ ifnesting = 0
    /\ assembled = FALSE
    /\ diag = "none"
    /\ lines = 0
    /\ ended = FALSE
    /\ fatal = FALSE
    /\ lostFrame = FALSE

\* The assembler has stopped: nothing more happens.
Stopped == (ended \/ fatal) /\ UNCHANGED vars

Next ==
    \/ \E e \in Directives :
          TakenIf(e) \/ TakenElse(e) \/ TakenEndif(e) \/ TakenFin(e) \/ SkipDirective(e)
    \/ TakenLine \/ SkipLine
    \/ EndOfSource
    \/ Stopped

Spec == Init /\ [][Next]_vars

-----------------------------------------------------------------------------
(* Properties.                                                              *)

TypeOK ==
    /\ dialect \in Dialects
    /\ clev \in 0..MAXCONDLEV - 1
    /\ cond \in [0..MAXCONDLEV -> BOOLEAN]
    /\ ifnesting \in 0..MaxLines
    /\ assembled \in BOOLEAN
    /\ lines \in 0..MaxLines
    /\ {ended, fatal, lostFrame} \subseteq BOOLEAN

\* The frames of the abstract stack: one per core level, then one not-taken
\* frame per IF opened while skipping.
AbstractFrames ==
    [i \in 1..clev |-> cond[i]] \o [i \in 1..ifnesting |-> FALSE]

CS == INSTANCE CondStack WITH
        MaxDepth <- MAXCONDLEV - 1,
        frames <- AbstractFrames,
        failed <- fatal \/ lostFrame

\* The dialect's parse() loop with the core engine implements the frame stack
\* of spec section 4.9: each line is assembled exactly when every open IF is
\* taken, ELSE flips only a frame whose surroundings are taken, ENDIF/FIN pop
\* the IF they belong to even when it was opened in skipped code, unmatched
\* ELSE/ENDIF/FIN and open IFs at end of file are reported as the spec says.
CondRefinement == CS!Spec
=============================================================================
