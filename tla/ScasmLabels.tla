----------------------------- MODULE ScasmLabels -----------------------------
(***************************************************************************)
(* SCASM's label tiers, src/syntax/scasm/syntax.c: global labels, .N       *)
(* locals scoped to the last global label, and :N private labels scoped    *)
(* by scmasm_private_context, which every global label and every macro     *)
(* invocation (my_exec_macro) increments.                                  *)
(*                                                                         *)
(* A local label's symbol name is the pair <<last global, N>>, a private   *)
(* label's <<context, N>> (make_local_label over "_%d_N").  Macro bodies   *)
(* are not expanded: a call opens a frame, the body's lines are the        *)
(* following lines, and MacroEnd is the end of the macro's source frame.   *)
(*                                                                         *)
(* The binding directives (.GLOBAL/.XDEF/.XREF/.LIB/.XLIB/.EXTERN,       *)
(* .WEAK, .LOCAL) act on the same global names through new_import(); a     *)
(* symbol's binding flags are a number whose bits are the vasm core's      *)
(* EXPORT, WEAK and LOCAL flags.                                           *)
(*                                                                         *)
(* The .INLINE/.EINLINE directives keep a bounded stack of block ids and  *)
(* hand each block's id to the vasm core's set_last_global_label; the core *)
(* value is an id here and NullLabel for NULL.                             *)
(*                                                                         *)
(* History variables record, per definition and reference, the scope the  *)
(* spec gives it: "interval" counts global labels, "frame" is the private  *)
(* scope of spec sections 4.3 and 4.7 (a new one per global label and per  *)
(* macro invocation, the caller's again when the macro returns).           *)
(***************************************************************************)
EXTENDS Integers, Sequences, SequencesExt, FiniteSets, Bitwise

CONSTANTS
    Globals,     \* global label names
    Nums,        \* label numbers N written after '.' or ':'
    MaxDepth,    \* bound on macro nesting
    MaxLines,
    ExportFlag,  \* the bit values of the vasm core's EXPORT, WEAK and
    WeakFlag,    \* LOCAL symbol flags (symbol.h, not in this repository)
    LocalFlag,
    INLSTACKSIZE \* bound of inline_stack (100 in the code)

\* scmasm_last_global_label: <<>> for NULL, <<g>> for label g.
NoGlobal == <<>>

\* The core's last_global_label and saved_last_global_label when NULL.
NullLabel == -1

VARIABLES
    scmasm_last_global_label,
    scmasm_private_context,
    symflags,    \* per global name: its symbol's binding flags
    depth,       \* macro frames open
    lines,
    diag,        \* error of the last line
    inline_stack,            \* ids of the open inline blocks, innermost last
    inline_id,               \* handle_inline's static id
    last_global_label,       \* the vasm core's label context
    saved_last_global_label,
    \* history, for the properties
    interval,    \* number of global label lines so far
    frames,      \* stack of spec private scopes, innermost last
    nscopes,     \* spec private scopes opened so far
    defs,        \* set of [kind, name, n, interval, frame]
    refs,        \* set of [kind, name, n, interval, frame, blocks]
    blocks,      \* source lines of the .INLINE lines not yet closed
    before       \* last_global_label when the outermost open block began

inlineVars == <<inline_stack, inline_id, last_global_label, saved_last_global_label,
                blocks, before>>

vars == <<scmasm_last_global_label, scmasm_private_context, symflags, depth, lines,
          diag, interval, frames, nscopes, defs, refs, inlineVars>>

NextLine ==
    /\ lines < MaxLines
    /\ lines' = lines + 1

\* A line that is neither a binding nor an inline directive leaves the
\* binding flags and the inline state alone.
Line ==
    /\ NextLine
    /\ UNCHANGED <<symflags, inlineVars>>

\* A new spec private scope replacing the innermost one.
NewScope ==
    /\ nscopes' = nscopes + 1
    /\ frames' = [frames EXCEPT ![Len(frames)] = nscopes + 1]

\* A label record at the current scopes.
Rec(kind, name, n) ==
    [kind |-> kind, name |-> name, n |-> n, interval |-> interval, frame |-> frames[Len(frames)],
     blocks |-> blocks]

\* The names make_local_label builds.
PrivateName(n) == <<"private", scmasm_private_context, n>>
LocalName(n) == <<"local", scmasm_last_global_label, n>>

\* Faulty variant of GlobalLabel: the private context is not advanced.
GlobalLabel_noCtx(g) ==
    /\ Line
    /\ g \notin {d.name : d \in defs}
    /\ scmasm_last_global_label' = <<g>>
    /\ UNCHANGED scmasm_private_context
    /\ interval' = interval + 1
    /\ NewScope
    /\ defs' = defs \cup {[Rec("global", g, 0) EXCEPT !.interval = interval + 1]}
    /\ diag' = "none"
    /\ UNCHANGED <<depth, refs>>

\* Faulty variant of GlobalLabel: the .N context is not moved.
GlobalLabel_keepLast(g) ==
    /\ Line
    /\ g \notin {d.name : d \in defs}
    /\ scmasm_last_global_label' = IF scmasm_last_global_label = NoGlobal THEN <<g>>
                                   ELSE scmasm_last_global_label
    /\ scmasm_private_context' = scmasm_private_context + 1
    /\ interval' = interval + 1
    /\ NewScope
    /\ defs' = defs \cup {[Rec("global", g, 0) EXCEPT !.interval = interval + 1]}
    /\ diag' = "none"
    /\ UNCHANGED <<depth, refs>>

\* A plain label line (parse(), "it's just a label"): new_labsym, then the
\* label becomes the .N context and opens a new private scope.  A program
\* defines each global once.
GlobalLabel(g) ==
    /\ Line
    /\ g \notin {d.name : d \in defs}
    /\ scmasm_last_global_label' = <<g>>
    /\ scmasm_private_context' = scmasm_private_context + 1
    /\ interval' = interval + 1
    /\ NewScope
    /\ defs' = defs \cup {[Rec("global", g, 0) EXCEPT !.interval = interval + 1]}
    /\ diag' = "none"
    /\ UNCHANGED <<depth, refs>>

\* "NAME .EQ expr" or "NAME .SE expr": new_equate/new_abs and continue, no
\* change of label context.
EquateLine(g) ==
    /\ Line
    /\ g \notin {d.name : d \in defs}
    /\ defs' = defs \cup {Rec("equate", g, 0)}
    /\ diag' = "none"
    /\ UNCHANGED <<scmasm_last_global_label, scmasm_private_context, depth,
                   interval, frames, nscopes, refs>>

\* Faulty variant of PrivateLabelLine: the private label is taken for a
\* global one and becomes the .N context.
PrivateLabelLine_asGlobal(n) ==
    /\ Line
    /\ defs' = defs \cup {Rec("private", PrivateName(n), n)}
    /\ scmasm_last_global_label' = PrivateName(n)
    /\ scmasm_private_context' = scmasm_private_context + 1
    /\ diag' = "none"
    /\ UNCHANGED <<depth, interval, frames, nscopes, refs>>

\* ":N" at the start of a line: parse_label_field names it with the
\* current private context; the label-type check keeps it from becoming
\* the global context.
PrivateLabelLine(n) ==
    /\ Line
    /\ defs' = defs \cup {Rec("private", PrivateName(n), n)}
    /\ diag' = "none"
    /\ UNCHANGED <<scmasm_last_global_label, scmasm_private_context, depth,
                   interval, frames, nscopes, refs>>

\* ".N" at the start of a line: error 11 beyond 255, error 12 before any
\* global label, else a local of the last global label.
LocalLabelLine(n) ==
    /\ Line
    /\ CASE n > 255                              -> diag' = "bad_local_number" /\ UNCHANGED defs
         [] scmasm_last_global_label = NoGlobal   -> diag' = "no_global_context" /\ UNCHANGED defs
         [] OTHER -> /\ defs' = defs \cup {Rec("local", LocalName(n), n)}
                     /\ diag' = "none"
    /\ UNCHANGED <<scmasm_last_global_label, scmasm_private_context, depth,
                   interval, frames, nscopes, refs>>

\* An operand referring to ":N" or ".N": get_local_label, with the same
\* names and errors as the definitions.
RefLine(kind, n) ==
    /\ Line
    /\ IF kind = "private"
         THEN /\ refs' = refs \cup {Rec("private", PrivateName(n), n)}
              /\ diag' = "none"
         ELSE CASE n > 255                            -> diag' = "bad_local_number" /\ UNCHANGED refs
                [] scmasm_last_global_label = NoGlobal -> diag' = "no_global_context" /\ UNCHANGED refs
                [] OTHER -> /\ refs' = refs \cup {Rec("local", LocalName(n), n)}
                            /\ diag' = "none"
    /\ UNCHANGED <<scmasm_last_global_label, scmasm_private_context, depth,
                   interval, frames, nscopes, defs>>

\* ">NAME" or "_NAME" with a defined macro: execute_macro, whose
\* my_exec_macro hook advances the private context.
MacroCall ==
    /\ Line
    /\ depth < MaxDepth
    /\ depth' = depth + 1
    /\ scmasm_private_context' = scmasm_private_context + 1
    /\ nscopes' = nscopes + 1
    /\ frames' = Append(frames, nscopes + 1)
    /\ diag' = "none"
    /\ UNCHANGED <<scmasm_last_global_label, interval, defs, refs>>

\* The macro's source frame ends (.EM or its last line): nothing of the
\* label state is restored.
MacroEnd ==
    /\ depth > 0
    /\ Line
    /\ depth' = depth - 1
    /\ frames' = SubSeq(frames, 1, Len(frames) - 1)
    /\ diag' = "none"
    /\ UNCHANGED <<scmasm_last_global_label, scmasm_private_context, interval,
                   nscopes, defs, refs>>

-----------------------------------------------------------------------------
(* Binding directives (lines 1635-1673).                                   *)

\* A C comparison used as a number.
CBool(b) == IF b THEN 1 ELSE 0

BindMask == ExportFlag | WeakFlag | LocalFlag

\* do_binding's test "sym->flags&(EXPORT|WEAK|LOCAL)!=0 &&
\* sym->flags&(EXPORT|WEAK|LOCAL)!=bind" as C groups it: '!=' binds tighter
\* than '&', so each conjunct ANDs the flags with the 0 or 1 of a comparison.
BindingSet(fl, bind) ==
    /\ (fl & CBool(BindMask # 0)) # 0
    /\ (fl & CBool(BindMask # bind)) # 0

\* One name of the list: error 62 when the test holds, else flags |= bind.
BindName(acc, g, bind) ==
    IF BindingSet(acc.fl[g], bind)
      THEN [acc EXCEPT !.err = TRUE]
      ELSE [acc EXCEPT !.fl[g] = @ | bind]

\* handle_global (EXPORT), handle_weak (WEAK) or handle_local (LOCAL) with
\* the identifiers of the operand in order; do_binding returns at once
\* when the operand has no identifier (names = <<>>).
Binding(bind, names) ==
    /\ NextLine
    /\ LET r == FoldLeft(LAMBDA acc, g : BindName(acc, g, bind),
                         [fl |-> symflags, err |-> FALSE], names)
       IN /\ symflags' = r.fl
          /\ diag' = IF r.err THEN "binding_already_set" ELSE "none"
    /\ UNCHANGED <<scmasm_last_global_label, scmasm_private_context, depth,
                   interval, frames, nscopes, defs, refs, inlineVars>>

\* Operand lists of a binding directive: none, one name, two names.
NameLists == {<<>>} \cup {<<g>> : g \in Globals} \cup {<<g, h>> : g, h \in Globals}

-----------------------------------------------------------------------------
(* Inline blocks (lines 2141-2172).                                        *)

\* The label state an inline directive leaves alone.
InlineLine ==
    /\ NextLine
    /\ UNCHANGED <<scmasm_last_global_label, scmasm_private_context, symflags, depth,
                   interval, frames, nscopes, defs, refs>>

\* Faulty variant of INLINE: the core context is saved at every depth.
INLINE_saveAlways ==
    /\ InlineLine
    /\ IF Len(inline_stack) < INLSTACKSIZE
         THEN /\ last_global_label' = inline_id
              /\ saved_last_global_label' = last_global_label
              /\ inline_stack' = Append(inline_stack, inline_id)
              /\ inline_id' = inline_id + 1
              /\ diag' = "none"
         ELSE /\ diag' = "inline_nesting_exceeded"
              /\ UNCHANGED <<inline_stack, inline_id, last_global_label,
                             saved_last_global_label>>
    /\ blocks' = Append(blocks, lines + 1)
    /\ before' = IF blocks = <<>> THEN last_global_label ELSE before

\* ".INLINE" (handle_inline): below the bound, the block's id becomes the
\* core's label context, the previous context is saved when no block is
\* open, and the id is pushed; at the bound, error 16 and nothing else.
INLINE ==
    /\ InlineLine
    /\ IF Len(inline_stack) < INLSTACKSIZE
         THEN /\ last_global_label' = inline_id
              /\ saved_last_global_label' = IF inline_stack = <<>> THEN last_global_label
                                            ELSE saved_last_global_label
              /\ inline_stack' = Append(inline_stack, inline_id)
              /\ inline_id' = inline_id + 1
              /\ diag' = "none"
         ELSE /\ diag' = "inline_nesting_exceeded"
              /\ UNCHANGED <<inline_stack, inline_id, last_global_label,
                             saved_last_global_label>>
    /\ blocks' = Append(blocks, lines + 1)
    /\ before' = IF blocks = <<>> THEN last_global_label ELSE before

\* ".EINLINE" (handle_einline): pop; the outermost block gives back the
\* saved context and clears it, an inner one its enclosing block's id;
\* with no block on the stack, error 17.
EINLINE ==
    /\ InlineLine
    /\ IF inline_stack # <<>>
         THEN /\ inline_stack' = Front(inline_stack)
              /\ IF Len(inline_stack) = 1
                   THEN /\ last_global_label' = saved_last_global_label
                        /\ saved_last_global_label' = NullLabel
                   ELSE /\ last_global_label' = inline_stack[Len(inline_stack) - 1]
                        /\ UNCHANGED saved_last_global_label
              /\ diag' = "none"
         ELSE /\ diag' = "einline_without_inline"
              /\ UNCHANGED <<inline_stack, last_global_label, saved_last_global_label>>
    /\ blocks' = IF blocks = <<>> THEN blocks ELSE Front(blocks)
    /\ UNCHANGED <<inline_id, before>>

Init ==
    /\ scmasm_last_global_label = NoGlobal
    /\ scmasm_private_context = 0
    /\ symflags = [g \in Globals |-> 0]
    /\ depth = 0
    /\ lines = 0
    /\ diag = "none"
    /\ interval = 0
    /\ frames = <<0>>
    /\ nscopes = 0
    /\ defs = {}
    /\ refs = {}
    /\ inline_stack = <<>>
    /\ inline_id = 0
    /\ last_global_label = NullLabel
    /\ saved_last_global_label = NullLabel
    /\ blocks = <<>>
    /\ before = NullLabel

Next ==
    \/ \E g \in Globals : GlobalLabel(g) \/ EquateLine(g)
    \/ \E n \in Nums : PrivateLabelLine(n) \/ LocalLabelLine(n)
    \/ \E kind \in {"private", "local"}, n \in Nums : RefLine(kind, n)
    \/ MacroCall
    \/ MacroEnd
    \/ \E bind \in {ExportFlag, WeakFlag, LocalFlag}, names \in NameLists : Binding(bind, names)
    \/ INLINE
    \/ EINLINE
    \/ lines = MaxLines /\ UNCHANGED vars

Spec == Init /\ [][Next]_vars

-----------------------------------------------------------------------------

TypeOK ==
    /\ scmasm_last_global_label \in {<<g>> : g \in Globals} \cup {NoGlobal}
    /\ scmasm_private_context \in 0..MaxLines
    /\ depth \in 0..MaxDepth
    /\ Len(frames) = depth + 1
    /\ lines \in 0..MaxLines
    /\ symflags \in [Globals -> 0..BindMask]
    /\ inline_stack \in Seq(0..MaxLines) /\ Len(inline_stack) <= INLSTACKSIZE
    /\ inline_id \in 0..MaxLines

Privates(S) == {x \in S : x.kind = "private"}
Locals(S) == {x \in S : x.kind = "local"}

\* Spec sections 3 and 4.3: a .N reference means the .N defined between
\* the same two global labels, and no other: the name get_local_label
\* builds from scmasm_last_global_label equals the definition's exactly
\* when no label line that parse() takes for global lies between them.
LocalLabelScope ==
    \A r \in Locals(refs), d \in Locals(defs) :
        r.n = d.n => (r.name = d.name <=> r.interval = d.interval)

\* A :N reference never reaches a :N defined before an intervening
\* global label or after a later one: every global label line advances
\* scmasm_private_context, so equal names never cross a global label.
PrivateWithinGlobal ==
    \A r \in Privates(refs), d \in Privates(defs) :
        r.name = d.name => r.interval = d.interval

\* Spec section 4.7: the private context a macro invocation opens keeps
\* the :N labels defined inside from clashing with the caller's, so a :N
\* reference resolves only to a :N of its own private scope.
PrivateMacroScope ==
    \A r \in Privates(refs), d \in Privates(defs) :
        r.name = d.name => r.frame = d.frame

\* Spec section 2: a WEAK, EXPORT or LOCAL binding is monotonic, rebinding
\* a symbol to another kind fails ("binding already set"), so no symbol
\* ever carries two of the three flags that handle_global, handle_weak and
\* handle_local set through do_binding.
BindingMonotonic ==
    \A g \in Globals :
        Cardinality({f \in {ExportFlag, WeakFlag, LocalFlag} : (symflags[g] & f) # 0}) <= 1

\* Spec section 2's scope stack: the label context handle_inline and
\* handle_einline give the vasm core is the innermost open block's id, and
\* once the stack is empty again it is the context from before the
\* outermost source block, even when an .INLINE beyond INLSTACKSIZE made an
\* .EINLINE close its enclosing block early.
InlineContext ==
    last_global_label = IF inline_stack = <<>> THEN before ELSE Last(inline_stack)

\* Spec sections 2 and 5: inline blocks reset .N locals, so a .N reference
\* resolves only to a .N defined in a block that still encloses it; .N
\* names are built from scmasm_last_global_label, which handle_inline and
\* handle_einline never change.
InlineLocalsReset ==
    \A r \in Locals(refs), d \in Locals(defs) :
        r.name = d.name => IsPrefix(d.blocks, r.blocks)
=============================================================================
