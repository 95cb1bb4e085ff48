----------------------------- MODULE CondStack -----------------------------
(***************************************************************************)
(* What the conditional-assembly engine promises (spec section 4.9): a     *)
(* stack of frames, one per open IF, each recording whether its branch is  *)
(* taken.  A source line is assembled only when every open frame is taken. *)
(* The engine is abstracted from how the dialect parsers and the vasm core *)
(* implement it; CondEngine is shown to implement this module.             *)
(*                                                                         *)
(* The spec also gives a frame an in_else flag, which only ELSEIF consults; *)
(* no dialect in this repository reaches an ELSEIF handler (EDTASM's is    *)
(* absent from its directive table), so the flag is left out.               *)
(***************************************************************************)
EXTENDS Naturals, Sequences, SequencesExt

CONSTANTS
    MaxDepth    \* deepest nesting of frames opened in assembled code

VARIABLES
    frames,     \* sequence of BOOLEAN: taken flag per open frame, innermost last
    assembled,  \* whether the last ordinary source line was assembled
    diag,       \* diagnostic reported by the last line ("none" if none)
    ended,      \* end of source reached and checked
    failed      \* an error left the engine in an unspecified state

vars == <<frames, assembled, diag, ended, failed>>

Diagnostics ==
    {"none", "else_without_if", "endif_without_if", "fin_without_do",
     "ident_expected", "expr_not_const", "single_pass", "unclosed_if",
     "nesting_too_deep", "used_defined"}

\* Every open frame has its branch taken: the current line is assembled.
AllTaken(fs) == \A i \in 1..Len(fs) : fs[i]

\* A frame is opened in assembled code: it counts against the depth limit.
\* A frame opened inside a skipped branch is not taken, whatever its predicate.
Push(pred, d) ==
    /\ IF AllTaken(frames) /\ Len(frames) + 1 > MaxDepth
         THEN /\ diag' = "nesting_too_deep"
              /\ failed' = TRUE
              /\ UNCHANGED frames
         ELSE /\ frames' = Append(frames, AllTaken(frames) /\ pred)
              /\ diag' = IF AllTaken(frames) THEN d ELSE "none"
              /\ UNCHANGED failed
    /\ UNCHANGED <<assembled, ended>>

\* An assembled IF whose operand is malformed: an error, after which nothing
\* is promised.  In skipped code the same line is an ordinary Push.
BadIf ==
    /\ AllTaken(frames)
    /\ diag' = "ident_expected"
    /\ failed' = TRUE
    /\ UNCHANGED <<frames, assembled, ended>>

\* ELSE flips the innermost frame when the frames around it are taken.
Else ==
    /\ IF frames = <<>>
         THEN /\ diag' = "else_without_if" /\ UNCHANGED frames
         ELSE /\ frames' = IF AllTaken(Front(frames))
                             THEN [frames EXCEPT ![Len(frames)] = ~@]
                             ELSE frames
              /\ diag' = "none"
    /\ UNCHANGED <<assembled, ended, failed>>

\* ENDIF pops the innermost frame; tolerant is Merlin's FIN, which only warns.
EndIf(tolerant) ==
    /\ IF frames = <<>>
         THEN /\ diag' = IF tolerant THEN "fin_without_do" ELSE "endif_without_if"
              /\ UNCHANGED frames
         ELSE /\ frames' = Front(frames)
              /\ diag' = "none"
    /\ UNCHANGED <<assembled, ended, failed>>

\* Any other line: assembled exactly when every frame is taken.
Line ==
    /\ assembled' = AllTaken(frames)
    /\ diag' = "none"
    /\ UNCHANGED <<frames, ended, failed>>

\* End of source: an open frame is reported.
End ==
    /\ ended' = TRUE
    /\ diag' = IF frames # <<>> THEN "unclosed_if" ELSE "none"
    /\ UNCHANGED <<frames, assembled, failed>>

Init ==
    /\ frames = <<>>
    /\ assembled = FALSE
    /\ diag = "none"
    /\ ended = FALSE
    /\ failed = FALSE

\* After an error the stack may be anything.
Garbage ==
    /\ failed
    /\ frames' \in Seq(BOOLEAN)
    /\ UNCHANGED failed

Next ==
    \/ /\ ~ended /\ ~failed
       /\ \/ \E p \in BOOLEAN, d \in Diagnostics : Push(p, d)
          \/ BadIf \/ Else \/ EndIf(TRUE) \/ EndIf(FALSE) \/ Line \/ End
    \/ Garbage

Spec == Init /\ [][Next]_vars
=============================================================================
