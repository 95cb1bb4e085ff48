---------------------------- MODULE MCAofWriter ----------------------------
(***************************************************************************)
(* Inputs for AofWriter: the atoms an ARM program produces (a branch, a    *)
(* Thumb instruction, an ADR pair whose two relocations fuse, a data word, *)
(* a data half-word at a byte offset the writer rejects, reserved space),  *)
(* code, data and BSS sections built from them, and a symbol list with a   *)
(* label, an internal label, an import, an equate and a common symbol.     *)
(***************************************************************************)
EXTENDS AofWriter

Rel(t, bo, m, sz, s) ==
    [type |-> t, byteoff |-> bo, bitoff |-> 0, mask |-> m, size |-> sz, addend |-> 0, sym |-> s]

Branch == [type |-> "data", size |-> 4, relocs |-> <<Rel("pc", 0, 1, 24, "ext")>>]
ThumbBl == [type |-> "data", size |-> 2, relocs |-> <<Rel("pc", 0, 2, 11, "lab")>>]
AdrPair == [type |-> "data", size |-> 8, relocs |-> <<Rel("pc", 0, 3, 8, "lab"), Rel("pc", 0, 4, 8, "lab")>>]
Word == [type |-> "data", size |-> 4, relocs |-> <<Rel("abs", 0, DefMask, 32, "ext")>>]
BadHalf == [type |-> "data", size |-> 4, relocs |-> <<Rel("abs", 2, DefMask, 16, "lab")>>]
Space == [type |-> "space", size |-> 3, relocs |-> <<>>]

AtomSeqs(A) == {<<a>> : a \in A} \cup {<<a, b>> : a, b \in A}

MCSectionInputs ==
    [name : {"CODE"}, attr : {{"c"}}, align : {4}, abs : BOOLEAN, org : {16},
     atoms : AtomSeqs({Branch, ThumbBl, AdrPair})]
    \cup [name : {"DATA"}, attr : {{"w"}}, align : {0}, abs : {FALSE}, org : {0},
          atoms : AtomSeqs({Word, BadHalf, Space})]
    \cup [name : {"BSS"}, attr : {{"w", "u"}}, align : {0}, abs : {FALSE}, org : {0},
          atoms : {<<Space>>}]

Sym(n, t, sec, fl, sz) == [name |-> n, type |-> t, sec |-> sec, flags |-> fl, value |-> 0, size |-> sz]

MCSyms ==
    << Sym("lab", "lab", 1, {"export"}, 0), Sym("tmp", "lab", 1, {"intern"}, 0),
       Sym("ext", "import", 0, {}, 0), Sym("eq", "expr", 0, {}, 0),
       Sym("cm", "import", 0, {"common"}, 8), Sym("odd", "other", 0, {}, 0) >>

MCStrLen(n) ==
    CASE n \in {"CODE", "DATA"} -> 4
      [] n \in {"BSS", "lab", "tmp", "ext", "odd"} -> 3
      [] n \in {"eq", "cm"} -> 2
====
