---------------------------- MODULE MerlinLabels ----------------------------
(***************************************************************************)
(* The label taxonomy of the Merlin parser (src/syntax/merlin/syntax.c):   *)
(* variable labels ]NAME with their deferred "prepare, then finalize"      *)
(* rebinding, local labels :NAME scoped to the last global label, and the  *)
(* anonymous labels ':' referenced as :+ and :-.                           *)
(*                                                                         *)
(* A source line is one action: parse_label_field() on its label field,    *)
(* then the operand's expression (whose label references go through        *)
(* get_local_label()), then the label branch of parse().  The unid_N       *)
(* backing names are represented by N.                                     *)
(*                                                                         *)
(* The binding directives (XDEF/XREF/LIB/XLIB/GLOBAL/EXTERN, WEAK, LOCAL,  *)
(* ENT, EXT) act on the global names; a symbol's binding flags are a       *)
(* number whose bits are the vasm core's EXPORT, WEAK and LOCAL flags.     *)
(***************************************************************************)
EXTENDS Integers, Sequences, SequencesExt, FiniteSets, TLC, Bitwise

CONSTANTS
    VarNames,    \* variable label names ]NAME
    Globals,     \* global label names
    MacroNames,  \* names a "NAME MAC" line may carry (globals and ]NAMEs)
    MaxIds,      \* bound on varlabel_counter
    MaxAnon,     \* bound on anon_labno
    MaxLines,    \* bound on source lines
    BindDirectives, \* binding directives a line may use: subset of
                    \* {"global", "weak", "local", "ent", "ext"}
    ExportFlag,  \* the bit values of the vasm core's EXPORT, WEAK and
    WeakFlag,    \* LOCAL symbol flags (symbol.h, not in this repository)
    LocalFlag

None == -1                \* a NULL unique or pending name
NoVar == "<none>"         \* a NULL varlabel pointer, or no variable named
NoGlobal == "<none>"
NoRef == [var |-> NoVar, backing |-> None, at |-> 0]
NoAnonRef == [dir |-> "none", k |-> 0, anon |-> 0, refno |-> 0]
NotId == "<not an identifier>"   \* an operand parse_identifier rejects

VARIABLES
    unique,            \* varlabel->unique_name per ]NAME (None if NULL)
    pending,           \* varlabel->pending_name per ]NAME (None if NULL)
    definition_count,  \* varlabel->definition_count per ]NAME
    varlabel_counter,  \* next N of unid_N
    pending_varlabel,  \* ]NAME awaiting finalize_varlabel(), or NoVar
    merlin_last_global_label,
    anon_labno,        \* number of the last anonymous label defined
    lines,
    \* history, for the properties
    defs,              \* per ]NAME: backings bound by its definitions, in order
    fwd,               \* per ]NAME: backings handed out before its first definition
    ref,               \* the variable reference made by the last line, or NoRef,
                       \* with the number of definitions of it preceding it
    anonRef,           \* the anonymous reference of the last line
    symflags           \* per global name: its symbol's binding flags

labelVars == <<unique, pending, definition_count, varlabel_counter, pending_varlabel,
               merlin_last_global_label, anon_labno, defs, fwd, ref, anonRef>>

vars == <<labelVars, lines, symflags>>

-----------------------------------------------------------------------------
(* Variable label management (lines 110-202).                              *)

\* Faulty variant of GetUnique: the counter is incremented before it is used.
GetUnique_preIncrement(u, c, v) ==
    IF u[v] = None
      THEN [u |-> [u EXCEPT ![v] = c + 1], c |-> c + 1, name |-> c + 1]
      ELSE [u |-> u, c |-> c, name |-> u[v]]

\* get_varlabel_unique_name(): the current backing; a forward reference
\* creates it.  Yields the new unique, counter and the backing handed out.
GetUnique(u, c, v) ==
    IF u[v] = None
      THEN [u |-> [u EXCEPT ![v] = c], c |-> c + 1, name |-> c]
      ELSE [u |-> u, c |-> c, name |-> u[v]]

\* Faulty variants of Prepare: the first definition ignores the forward
\* reference's name; a redefinition reuses the current name.
Prepare_noAdopt(v) ==
    [p |-> [pending EXCEPT ![v] = varlabel_counter], c |-> varlabel_counter + 1]

Prepare_reuse(v) ==
    IF unique[v] # None
      THEN [p |-> [pending EXCEPT ![v] = unique[v]], c |-> varlabel_counter]
      ELSE [p |-> [pending EXCEPT ![v] = varlabel_counter], c |-> varlabel_counter + 1]

\* prepare_varlabel_definition(): the first definition adopts the name of an
\* earlier forward reference, any other takes a fresh unid.
Prepare(v) ==
    IF definition_count[v] = 0 /\ unique[v] # None
      THEN [p |-> [pending EXCEPT ![v] = unique[v]], c |-> varlabel_counter]
      ELSE [p |-> [pending EXCEPT ![v] = varlabel_counter], c |-> varlabel_counter + 1]

\* finalize_varlabel() applied to unique, pending and definition_count.
Finalize(pv, u, p, dc) ==
    IF pv # NoVar /\ p[pv] # None
      THEN [u |-> [u EXCEPT ![pv] = p[pv]], p |-> [p EXCEPT ![pv] = None],
            dc |-> [dc EXCEPT ![pv] = @ + 1]]
      ELSE [u |-> u, p |-> p, dc |-> dc]

-----------------------------------------------------------------------------

NextLine ==
    /\ lines < MaxLines
    /\ lines' = lines + 1

\* A line that is not a binding directive leaves the binding flags alone.
Step ==
    /\ NextLine
    /\ UNCHANGED symflags

\* A reference to ]r in the operand, made when the state is (u, c):
\* returns the updated state and records it for the properties.
RefOf(r, u, c) == IF r = NoVar THEN [u |-> u, c |-> c, name |-> None] ELSE GetUnique(u, c, r)

\* A reference inside the defining expression of ]r itself is not a forward
\* reference: it reads the value being replaced (see VarRefsResolveToLatest).
RecordRef(r, res, v) ==
    /\ ref' = IF r = NoVar THEN NoRef
              ELSE [var |-> r, backing |-> res.name, at |-> Len(defs[r])]
    /\ fwd' = IF r \notin {NoVar, v} /\ definition_count[r] = 0
                THEN [fwd EXCEPT ![r] = @ \cup {res.name}] ELSE fwd

\* Faulty variant of VarAssign: the new name is published before the
\* expression is evaluated.
VarAssign_finalizeFirst(v, r) ==
    /\ Step
    /\ LET pr  == Prepare(v)
           fin == Finalize(v, unique, pr.p, definition_count)
           res == RefOf(r, fin.u, pr.c)
       IN /\ res.c <= MaxIds
          /\ RecordRef(r, res, v)
          /\ defs' = [defs EXCEPT ![v] = Append(@, pr.p[v])]
          /\ unique' = res.u /\ pending' = fin.p /\ definition_count' = fin.dc
          /\ varlabel_counter' = res.c
    /\ pending_varlabel' = NoVar
    /\ anonRef' = NoAnonRef
    /\ UNCHANGED <<merlin_last_global_label, anon_labno>>

\* "]V EQU expr", "]V = expr" or "]V SET expr" whose expr may name ]r:
\* prepare, evaluate the expression, bind the pending name, finalize.
VarAssign(v, r) ==
    /\ Step
    /\ LET pr  == Prepare(v)
           res == RefOf(r, unique, pr.c)
           fin == Finalize(v, res.u, pr.p, definition_count)
       IN /\ res.c <= MaxIds
          /\ RecordRef(r, res, v)
          /\ defs' = [defs EXCEPT ![v] = Append(@, pr.p[v])]
          /\ unique' = fin.u /\ pending' = fin.p /\ definition_count' = fin.dc
          /\ varlabel_counter' = res.c
    /\ pending_varlabel' = NoVar
    /\ anonRef' = NoAnonRef
    /\ UNCHANGED <<merlin_last_global_label, anon_labno>>

\* The symbol name parse_label_field() returns for a label field.
LabName(lbl, p) == IF lbl \in VarNames THEN "unid_" \o ToString(p[lbl]) ELSE lbl

\* Faulty variant of GlobalContext: variable labels also become the context.
GlobalContext_always(is_varlabel, name) == name

\* The label of a plain label line becomes merlin_last_global_label unless a
\* variable label was pending.  Local label names begin with a space and
\* never reach this branch as a context here.
GlobalContext(is_varlabel, name) ==
    IF ~is_varlabel THEN name ELSE merlin_last_global_label

\* A line whose label field is a global name G or a variable label ]V, alone
\* or before an instruction whose operand may name ]r.  parse_label_field()
\* prepares ]V; the plain-label branch of parse() binds the label, finalizes
\* the pending variable label and, unless one was pending (is_varlabel),
\* makes the label the context of :NAME locals; the operand is parsed last.
LabelLine(lbl, r) ==
    /\ Step
    /\ LET pr  == IF lbl \in VarNames THEN Prepare(lbl)
                  ELSE [p |-> pending, c |-> varlabel_counter]
           pv  == IF lbl \in VarNames THEN lbl ELSE pending_varlabel
           is_varlabel == pv # NoVar
           fin == Finalize(pv, unique, pr.p, definition_count)
           res == RefOf(r, fin.u, pr.c)
       IN /\ res.c <= MaxIds
          /\ defs' = IF lbl \in VarNames
                       THEN [defs EXCEPT ![lbl] = Append(@, pr.p[lbl])] ELSE defs
          /\ unique' = res.u /\ pending' = fin.p /\ definition_count' = fin.dc
          /\ varlabel_counter' = res.c
          /\ ref' = IF r = NoVar THEN NoRef
                    ELSE [var |-> r, backing |-> res.name, at |-> Len(defs'[r])]
          /\ fwd' = IF r # NoVar /\ fin.dc[r] = 0
                      THEN [fwd EXCEPT ![r] = @ \cup {res.name}] ELSE fwd
          /\ merlin_last_global_label' = GlobalContext(is_varlabel, LabName(lbl, pr.p))
    /\ pending_varlabel' = NoVar
    /\ anonRef' = NoAnonRef
    /\ UNCHANGED anon_labno

\* A local label line ":NAME" (scoped to merlin_last_global_label) or an
\* anonymous label line ":" (defines number ++anon_labno): both are labels,
\* so the line finalizes a pending variable label.
LocalLine(anon) ==
    /\ Step
    /\ anon => anon_labno < MaxAnon
    /\ LET fin == Finalize(pending_varlabel, unique, pending, definition_count)
       IN /\ unique' = fin.u /\ pending' = fin.p /\ definition_count' = fin.dc
    /\ anon_labno' = IF anon THEN anon_labno + 1 ELSE anon_labno
    /\ pending_varlabel' = NoVar
    /\ ref' = NoRef /\ anonRef' = NoAnonRef
    /\ UNCHANGED <<varlabel_counter, merlin_last_global_label, defs, fwd>>

\* "* EQU expr": handle_org() then finalize_varlabel(); expr may name ]r.
OrgLine(r) ==
    /\ Step
    /\ LET res == RefOf(r, unique, varlabel_counter)
           fin == Finalize(pending_varlabel, res.u, pending, definition_count)
       IN /\ res.c <= MaxIds
          /\ RecordRef(r, res, NoVar)
          /\ unique' = fin.u /\ pending' = fin.p /\ definition_count' = fin.dc
          /\ varlabel_counter' = res.c
    /\ pending_varlabel' = NoVar
    /\ anonRef' = NoAnonRef
    /\ UNCHANGED <<merlin_last_global_label, anon_labno, defs>>

\* "NAME MAC": parse_label_field() has already prepared NAME when it is a
\* ]NAME; the macro-definition branch of parse() then continues with the
\* next line without finalize_varlabel().
MacroLine(m) ==
    /\ Step
    /\ IF m \in VarNames
         THEN LET pr == Prepare(m)
              IN /\ pr.c <= MaxIds
                 /\ pending' = pr.p /\ varlabel_counter' = pr.c
                 /\ pending_varlabel' = m
         ELSE UNCHANGED <<pending, varlabel_counter, pending_varlabel>>
    /\ ref' = NoRef /\ anonRef' = NoAnonRef
    /\ UNCHANGED <<unique, definition_count, merlin_last_global_label, anon_labno,
                   defs, fwd>>

\* An unlabelled instruction whose operand names ]r: no finalize.
RefLine(r) ==
    /\ Step
    /\ LET res == GetUnique(unique, varlabel_counter, r)
       IN /\ res.c <= MaxIds
          /\ RecordRef(r, res, NoVar)
          /\ unique' = res.u /\ varlabel_counter' = res.c
    /\ anonRef' = NoAnonRef
    /\ UNCHANGED <<pending, definition_count, pending_varlabel,
                   merlin_last_global_label, anon_labno, defs>>

\* get_local_label() on ":+", ":++", ":-" or ":--" (k signs of one kind):
\* the label number it names.  refno is unsigned in the code: a negative
\* value here stands for its wrap-around 2^32 + refno, which names no label.
AnonRefNo(dir, k) ==
    LET start == IF dir = "+" THEN anon_labno + 1 ELSE anon_labno
    IN IF dir = "+" THEN start + k ELSE start - k

\* An unlabelled instruction whose operand is an anonymous reference.
AnonRefLine(dir, k) ==
    /\ Step
    /\ anonRef' = [dir |-> dir, k |-> k, anon |-> anon_labno, refno |-> AnonRefNo(dir, k)]
    /\ ref' = NoRef
    /\ UNCHANGED <<unique, pending, definition_count, varlabel_counter, pending_varlabel,
                   merlin_last_global_label, anon_labno, defs, fwd>>

-----------------------------------------------------------------------------
(* Binding directives (lines 1637-1673, 2230-2290).  An unlabelled         *)
(* directive line calls no finalize_varlabel() and makes no reference.     *)

BindLine ==
    /\ NextLine
    /\ ref' = NoRef /\ anonRef' = NoAnonRef
    /\ UNCHANGED <<unique, pending, definition_count, varlabel_counter, pending_varlabel,
                   merlin_last_global_label, anon_labno, defs, fwd>>

\* A C comparison used as a number.
CBool(b) == IF b THEN 1 ELSE 0

BindMask == ExportFlag | WeakFlag | LocalFlag

\* do_binding's test "sym->flags&(EXPORT|WEAK|LOCAL)!=0 &&
\* sym->flags&(EXPORT|WEAK|LOCAL)!=bind", grouped as C groups it ('!='
\* binds tighter than '&').
BindingSet(fl, bind) ==
    /\ (fl & CBool(BindMask # 0)) # 0
    /\ (fl & CBool(BindMask # bind)) # 0

\* do_binding over the operand, one name at a time: it returns silently at
\* the first operand that is not an identifier; a name whose binding test
\* holds is error 62, any other gets flags |= bind.
DoBinding(fl, bind, ops) ==
    LET one(acc, g) ==
          CASE acc.stop           -> acc
            [] g = NotId          -> [acc EXCEPT !.stop = TRUE]
            [] BindingSet(acc.fl[g], bind) -> acc
            [] OTHER              -> [acc EXCEPT !.fl[g] = @ | bind]
    IN FoldLeft(one, [fl |-> fl, stop |-> FALSE], ops).fl

\* handle_ent: new_import and flags |= EXPORT for each name, with no
\* binding test; error 10 and return at an operand that is not an
\* identifier, after the names before it were exported.
Ent(fl, ops) ==
    LET one(acc, g) ==
          CASE acc.stop  -> acc
            [] g = NotId -> [acc EXCEPT !.stop = TRUE]
            [] OTHER     -> [acc EXCEPT !.fl[g] = @ | ExportFlag]
    IN FoldLeft(one, [fl |-> fl, stop |-> FALSE], ops).fl

\* A binding directive line: handle_global (XDEF, XREF, LIB, XLIB, GLOBAL,
\* EXTERN), handle_weak, handle_local, handle_ent, or handle_ext, whose only
\* effect per name is new_import (vasm core): it sets no flag.
Binding(dir, ops) ==
    /\ BindLine
    /\ symflags' = CASE dir = "global" -> DoBinding(symflags, ExportFlag, ops)
                     [] dir = "weak"   -> DoBinding(symflags, WeakFlag, ops)
                     [] dir = "local"  -> DoBinding(symflags, LocalFlag, ops)
                     [] dir = "ent"    -> Ent(symflags, ops)
                     [] dir = "ext"    -> symflags

\* Operand lists: none, one operand, two operands.
Operands == Globals \cup {NotId}
OperandLists == {<<>>} \cup {<<x>> : x \in Operands} \cup {<<x, y>> : x, y \in Operands}

Init ==
    /\ unique = [v \in VarNames |-> None]
    /\ pending = [v \in VarNames |-> None]
    /\ definition_count = [v \in VarNames |-> 0]
    /\ varlabel_counter = 0
    /\ pending_varlabel = NoVar
    /\ merlin_last_global_label = NoGlobal
    /\ anon_labno = 0
    /\ lines = 0
    /\ defs = [v \in VarNames |-> <<>>]
    /\ fwd = [v \in VarNames |-> {}]
    /\ ref = NoRef
    /\ anonRef = NoAnonRef
    /\ symflags = [g \in Globals |-> 0]

Refs == VarNames \cup {NoVar}

Next ==
    \/ \E v \in VarNames, r \in Refs : VarAssign(v, r)
    \/ \E lbl \in Globals \cup VarNames, r \in Refs : LabelLine(lbl, r)
    \/ \E anon \in BOOLEAN : LocalLine(anon)
    \/ \E r \in Refs : OrgLine(r)
    \/ \E m \in MacroNames : MacroLine(m)
    \/ \E r \in VarNames : RefLine(r)
    \/ \E dir \in {"+", "-"}, k \in 1..2 : AnonRefLine(dir, k)
    \/ \E dir \in BindDirectives, ops \in OperandLists : Binding(dir, ops)
    \/ lines = MaxLines /\ UNCHANGED vars

Spec == Init /\ [][Next]_vars

-----------------------------------------------------------------------------
(* Properties.                                                              *)

Backing == 0..MaxIds - 1
TypeOK ==
    /\ unique \in [VarNames -> Backing \cup {None}]
    /\ pending \in [VarNames -> Backing \cup {None}]
    /\ definition_count \in [VarNames -> 0..MaxLines]
    /\ varlabel_counter \in 0..MaxIds
    /\ pending_varlabel \in VarNames \cup {NoVar}
    /\ merlin_last_global_label \in STRING
    /\ anon_labno \in 0..MaxAnon
    /\ symflags \in [Globals -> 0..BindMask]

\* Spec section 8: a reference to ]NAME resolves to the backing bound by the
\* latest definition of ]NAME that precedes it; in particular the expression
\* of "]V EQU ]V+1" reads the previous ]V (old-value semantics).  This is
\* about prepare/finalize in parse() and get_varlabel_unique_name().
VarRefsResolveToLatest ==
    ref # NoRef /\ ref.at > 0 => ref.backing = defs[ref.var][ref.at]

\* A forward reference to ]NAME made before its first definition is given
\* the backing that this first definition then binds (spec section 3).
ForwardRefsAdopted ==
    \A v \in VarNames : defs[v] # <<>> => fwd[v] \subseteq {defs[v][1]}

\* Every definition of every variable label binds a backing no other
\* definition binds, so no two definitions alias one symbol.
BackingsDistinct ==
    \A v, w \in VarNames :
        \A i \in 1..Len(defs[v]), j \in 1..Len(defs[w]) :
            <<v, i>> # <<w, j>> => defs[v][i] # defs[w][j]

BindingMonotonic ==
    \A g \in Globals :
        Cardinality({f \in {ExportFlag, WeakFlag, LocalFlag} : (symflags[g] & f) # 0}) <= 1
=============================================================================
