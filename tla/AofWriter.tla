------------------------------ MODULE AofWriter ------------------------------
(***************************************************************************)
(* The Acorn Object Format writer, src/output_aof.c: write_output() with   *)
(* make_areas() (area headers, relocation scan and pair fusion),           *)
(* make_symt(), the string table of add_strt(), the chunk directory of     *)
(* add_chunk() and the write_* passes.                                     *)
(*                                                                         *)
(* A section is [name, attr, align, abs, org, atoms]; attr is the set of   *)
(* its attribute characters, an atom is [type, size, relocs] and a vasm    *)
(* relocation [type, byteoff, bitoff, mask, size, addend, sym].  Names are *)
(* strings whose strlen() is StrLen.  The written file is the sequence of  *)
(* its parts with their lengths; relocation words are kept as values.      *)
(***************************************************************************)
EXTENDS Integers, Sequences, SequencesExt, Bitwise

CONSTANTS
    SectionInputs,   \* sections the assembler may hand over
    NSecs,           \* bound on the number of sections
    Syms,            \* the symbol list, in order
    StrLen(_),       \* strlen() of a section or symbol name
    IdfnLen,         \* strlen(vasmname " " cpuname) + 1
    AreaLimit,       \* largest area size, 0xfffffffc
    APCS32Cpu,       \* cpu_type & ~AA2 is not 0
    HalfRelocCpu,    \* cpu_type & AA4TUP is not 0
    NoCase           \* the -nocase option

CHUNKS_RESERVED == 7
DirectoryEnd == 4 * 3 + CHUNKS_RESERVED * 16   \* initial chunk_offset
DefMask == 0                                    \* DEFMASK
Tag == [abs |-> 0, pc |-> 1, sd |-> 2]          \* AOF relocation types

SeqSum(s) == FoldLeft(LAMBDA a, b : a + b, 0, s)
Align4(n) == ((n + 3) \div 4) * 4               \* (n + 3) & ~3

SymOf(n) == Syms[CHOOSE k \in 1..Len(Syms) : Syms[k].name = n]
SymNames == {Syms[k].name : k \in 1..Len(Syms)}

VARIABLES
    secs,           \* input: the section list
    phase,          \* "areas", "symbols", "chunks", "write", "done", "aborted"
    strtab,         \* strtab_first..: [str, offs] in insertion order
    strtab_size,
    areas,          \* first_area..: area headers
    area_chunksize,
    symi,           \* next entry of the symbol list make_symt() looks at
    aofsyms,        \* aofsym_first..: symbol table entries
    symidx,         \* sym->idx
    secidx,         \* sec->idx, by position in the section list
    chunks,         \* first_chunk..: the directory in list order
    chunk_offset,
    file,           \* parts written: [id, len], directory header first
    relocs_out,     \* per area, the relocation records written
    errors

vars == <<secs, phase, strtab, strtab_size, areas, area_chunksize, symi, aofsyms,
          symidx, secidx, chunks, chunk_offset, file, relocs_out, errors>>

-----------------------------------------------------------------------------
(* The string table.                                                       *)

\* Faulty variant of AddStrt: a name already present gets the current size.
AddStrt_dupOffs(tab, size, name) ==
    IF \E k \in 1..Len(tab) : tab[k].str = name
      THEN [tab |-> tab, size |-> size, offs |-> size]
      ELSE [tab |-> Append(tab, [str |-> name, offs |-> size]),
            size |-> size + StrLen(name) + 1, offs |-> size]

\* add_strt(): a name already in the table keeps its offset; a new one is
\* appended at strtab_size, which grows by strlen + 1.
AddStrt(tab, size, name) ==
    IF \E k \in 1..Len(tab) : tab[k].str = name
      THEN [tab |-> tab, size |-> size,
            offs |-> tab[CHOOSE k \in 1..Len(tab) : tab[k].str = name].offs]
      ELSE [tab |-> Append(tab, [str |-> name, offs |-> size]),
            size |-> size + StrLen(name) + 1, offs |-> size]

-----------------------------------------------------------------------------
(* Relocations.                                                            *)

NoReloc == [type |-> "none", byteoff |-> 0, bitoff |-> 0, mask |-> 0, size |-> 0,
            addend |-> 0, sym |-> "none"]

\* Two successive vasm relocations that form one ARM relocation.
Pairs(r1, r2) ==
    /\ r2.type = r1.type
    /\ r1.byteoff = r2.byteoff /\ r1.addend = r2.addend
    /\ (r1.bitoff # r2.bitoff \/ r1.mask # r2.mask)

\* new_aof_reloc(): field type, Thumb bit in the offset, instruction count
\* and symbol-or-area flag; ok is FALSE where it returns NULL (error 4).
NewAofReloc(r1, r2, isz, offs) ==
    LET paired == r2 # NoReloc
        instr == isz >= 2 /\ (paired \/ r1.size \notin {16, 32})
        thumb == instr /\ (r1.size \in {11, 5} \/ (r1.size = 8 /\ ~paired /\ r1.type = "abs"))
        dsize == IF r1.byteoff # 0 \/ r1.bitoff # 0 \/ r1.mask # DefMask THEN 0 ELSE r1.size
        ft == IF instr THEN 3
              ELSE CASE dsize = 8 -> 0 [] dsize = 16 -> 1 [] dsize = 32 -> 2 [] OTHER -> -1
    IN [ok |-> r1.type \in DOMAIN Tag /\ ft >= 0,
        offset |-> IF thumb THEN offs | 1 ELSE offs,
        type |-> IF r1.type \in DOMAIN Tag THEN Tag[r1.type] ELSE 0,
        ft |-> ft,
        ii |-> IF ~instr THEN 0 ELSE IF paired THEN 2 ELSE 1,
        a |-> IF SymOf(r1.sym).type = "import" THEN 1 ELSE 0,
        sym |-> r1.sym]

\* The relocations of one atom, first to last, a fused pair taking two.
RECURSIVE AtomRelocs(_, _, _)
AtomRelocs(rl, isz, offs) ==
    IF rl = <<>> THEN <<>>
    ELSE LET fuse == Len(rl) >= 2 /\ Pairs(rl[1], rl[2])
             rest == IF fuse THEN Tail(Tail(rl)) ELSE Tail(rl)
         IN <<NewAofReloc(rl[1], IF fuse THEN rl[2] ELSE NoReloc, isz, offs)>>
            \o AtomRelocs(rest, isz, offs)

AtomOffset(s, k) == SeqSum([j \in 1..k - 1 |-> s.atoms[j].size])
RawSize(s) == AtomOffset(s, Len(s.atoms) + 1)

\* The scan of make_areas(): every atom's relocations at the atom's offset
\* from the section start; only DATA atoms have an instruction size.
SectionRelocs(s) ==
    FlattenSeq([k \in 1..Len(s.atoms) |->
                  AtomRelocs(s.atoms[k].relocs,
                             IF s.atoms[k].type = "data" THEN s.atoms[k].size ELSE 0,
                             AtomOffset(s, k))])

ThumbStep_noDemote(t, ar) ==
    IF ar.ft # 3 THEN t
    ELSE IF t < 0 THEN (IF ar.offset % 2 = 1 THEN 1 ELSE 0)
    ELSE t

\* The thumb flag of make_areas(): -1 before the first instruction
\* relocation, then 1 only while every one has the Thumb bit.
ThumbStep(t, ar) ==
    IF ar.ft # 3 THEN t
    ELSE IF t < 0 THEN (IF ar.offset % 2 = 1 THEN 1 ELSE 0)
    ELSE IF t = 1 /\ ar.offset % 2 = 0 THEN 0
    ELSE t

Thumb(ars) == FoldLeft(ThumbStep, -1, ars)

\* The attribute flags of make_areas() other than the alignment.
AreaFlags(s, ars) ==
    LET code == s.attr \cap {"c", "x"} # {}
    IN  (IF "w" \in s.attr THEN {} ELSE {"READONLY"})
        \cup (IF code THEN {"CODE"} ELSE {})
        \cup (IF "u" \in s.attr THEN {"NOINIT"} ELSE {})
        \cup (IF code /\ APCS32Cpu THEN {"APCS32"} ELSE {})
        \cup (IF code /\ HalfRelocCpu THEN {"HALFRELOC"} ELSE {})
        \cup (IF code /\ Thumb(ars) > 0 THEN {"THUMBRELOC"} ELSE {})
        \cup (IF s.abs THEN {"ABSOLUTE"} ELSE IF ars = <<>> THEN {"PIC"} ELSE {})

AddAreaHdr_countBss(size, hdr) == size + hdr.aligned_size + hdr.num_relocs * 8

\* add_areahdr(): an area without NOINIT adds its data and relocations to
\* the OBJ_AREA chunk size.
AddAreaHdr(size, hdr) ==
    IF "NOINIT" \in hdr.flags THEN size
    ELSE size + hdr.aligned_size + hdr.num_relocs * 8

\* sec->idx = sec_idx++: the areas made before this one.
SecIdx_fromOne == Len(areas) + 1
SecIdx == Len(areas)

\* One pass of the section loop of make_areas().  A size over the limit is
\* error 23 and leaves aligned_size uninitialised: any value may follow.
MakeArea ==
    /\ phase = "areas"
    /\ LET i == Len(areas) + 1
           s == secs[i]
           st == AddStrt(strtab, strtab_size, s.name)
           all == SectionRelocs(s)
           ars == SelectSeq(all, LAMBDA r : r.ok)
           raw == RawSize(s)
       IN \E asz \in IF raw <= AreaLimit THEN {Align4(raw)} ELSE 0..AreaLimit :
            LET hdr == [sec |-> i, name_offs |-> st.offs,
                        align |-> IF s.align < 2 THEN 2 ELSE s.align % 256,
                        flags |-> AreaFlags(s, ars), aligned_size |-> asz,
                        num_relocs |-> Len(ars),
                        base_addr |-> IF s.abs THEN s.org ELSE 0,
                        relocs |-> Reverse(ars)]
            IN /\ strtab' = st.tab /\ strtab_size' = st.size
               /\ areas' = Append(areas, hdr)
               /\ secidx' = [secidx EXCEPT ![i] = SecIdx]
               /\ area_chunksize' = AddAreaHdr(area_chunksize, hdr)
               /\ errors' = errors \cup (IF \E k \in 1..Len(all) : ~all[k].ok THEN {4} ELSE {})
                                   \cup (IF raw > AreaLimit THEN {23} ELSE {})
               /\ phase' = IF i = Len(secs) THEN "symbols" ELSE "areas"
    /\ UNCHANGED <<secs, symi, aofsyms, symidx, chunks, chunk_offset, file, relocs_out>>

-----------------------------------------------------------------------------
(* The symbol table.                                                       *)

AddSymt_preInc(cnt) == cnt + 1

\* add_symt() returns aofsym_cnt++: the entry's index from 0.
AddSymt(cnt) == cnt

SymAttr(sym) ==
    IF sym.type = "import"
      THEN {"EXTERN"} \cup (IF NoCase THEN {"NOCASE"} ELSE {})
           \cup (IF "common" \in sym.flags THEN {"COMMON"}
                 ELSE IF "weak" \in sym.flags THEN {"WEAK"} ELSE {})
      ELSE {IF "export" \in sym.flags THEN "GLOBAL" ELSE "LOCAL"}
           \cup (IF sym.type = "expr" THEN {"ABS"} ELSE {})

\* One pass of the loop of make_symt(): internal symbols and those of an
\* unknown type are left out; a label's section name is added to the string
\* table before the symbol's own name.
MakeSym ==
    /\ phase = "symbols"
    /\ LET sym == Syms[symi]
       IN IF "intern" \in sym.flags \/ sym.type = "other"
            THEN UNCHANGED <<strtab, strtab_size, aofsyms, symidx>>
            ELSE LET ast == IF sym.type = "lab"
                              THEN AddStrt(strtab, strtab_size, secs[sym.sec].name)
                              ELSE [tab |-> strtab, size |-> strtab_size, offs |-> 0]
                     nst == AddStrt(ast.tab, ast.size, sym.name)
                 IN /\ strtab' = nst.tab /\ strtab_size' = nst.size
                    /\ aofsyms' = Append(aofsyms,
                          [symname |-> nst.offs, attr |-> SymAttr(sym),
                           value |-> IF sym.type = "import" /\ "common" \in sym.flags
                                       THEN sym.size ELSE sym.value,
                           areaname |-> ast.offs, src |-> sym.name])
                    /\ symidx' = [symidx EXCEPT ![sym.name] = AddSymt(Len(aofsyms))]
    /\ symi' = symi + 1
    /\ phase' = IF symi = Len(Syms) THEN "chunks" ELSE "symbols"
    /\ UNCHANGED <<secs, areas, area_chunksize, secidx, chunks, chunk_offset, file, relocs_out, errors>>

-----------------------------------------------------------------------------
(* The chunk directory and the file.                                       *)

\* add_chunk(): OBJ_HEAD goes to the front of the list, every other chunk to
\* the end; each gets the running chunk_offset.
AddChunk(st, req) ==
    LET ch == [id |-> req.id, offs |-> st.off, size |-> req.len]
    IN [list |-> IF req.id = "OBJ_HEAD" THEN <<ch>> \o st.list ELSE Append(st.list, ch),
        off |-> st.off + req.len, bad |-> st.bad \/ req.len % 4 # 0]

\* The add_chunk() calls of write_output(), in order.
ChunkRequests ==
    (IF area_chunksize # 0 THEN <<[id |-> "OBJ_AREA", len |-> area_chunksize]>> ELSE <<>>)
    \o <<[id |-> "OBJ_IDFN", len |-> Align4(IdfnLen)]>>
    \o (IF aofsyms # <<>> THEN <<[id |-> "OBJ_SYMT", len |-> Len(aofsyms) * 16]>> ELSE <<>>)
    \o (IF strtab_size > 4 THEN <<[id |-> "OBJ_STRT", len |-> Align4(strtab_size)]>> ELSE <<>>)
    \o <<[id |-> "OBJ_HEAD", len |-> 4 * (6 + Len(areas) * 5)]>>

AddChunks ==
    /\ phase = "chunks"
    /\ LET r == FoldLeft(AddChunk, [list |-> <<>>, off |-> DirectoryEnd, bad |-> FALSE],
                         ChunkRequests)
       IN /\ chunks' = r.list /\ chunk_offset' = r.off
          /\ phase' = IF r.bad THEN "aborted" ELSE "write"
    /\ UNCHANGED <<secs, strtab, strtab_size, areas, area_chunksize, symi, aofsyms,
                   symidx, secidx, file, relocs_out, errors>>

\* The reader's position of the k-th string: 4, then strlen + 1 per string.
StrPos(k) == 4 + SeqSum([j \in 1..k - 1 |-> StrLen(strtab[j].str) + 1])

Pad4(n) == Align4(n) - n                        \* fwalign(f, n, 4)

\* A relocation record's info word without its top bit 0x80000000 (TLC's
\* integers are 32-bit signed): symbol or area index, FT, type, A and II.
Pack(r) ==
    LET id == IF r.a = 1 THEN symidx[r.sym] ELSE secidx[SymOf(r.sym).sec]
    IN (id & (2^24 - 1)) | ((r.ft & 3) * 2^24) | ((r.type & 1) * 2^26)
       | ((r.a & 1) * 2^27) | ((r.type & 2) * 2^27) | ((r.ii & 3) * 2^29)

\* Bytes write_areas() puts out for area i: its atoms, padding up to
\* aligned_size, 8 per relocation; nothing for a NOINIT area.
WrittenArea(i) ==
    IF "NOINIT" \in areas[i].flags THEN 0
    ELSE LET raw == RawSize(secs[areas[i].sec])
         IN raw + (areas[i].aligned_size - raw) + 8 * Len(areas[i].relocs)

\* The ierror(0) checks of the write passes.
InternalError ==
    \/ Len(chunks) > CHUNKS_RESERVED
    \/ \E i \in 1..Len(areas) :
          "NOINIT" \notin areas[i].flags /\ RawSize(secs[areas[i].sec]) > areas[i].aligned_size
    \/ \E k \in 1..Len(strtab) : strtab[k].offs # StrPos(k)
    \/ StrPos(Len(strtab) + 1) # strtab_size

\* The write_* calls of write_output(), in order: directory, areas, IDFN,
\* symbols, strings, header.
WriteFile ==
    /\ phase = "write"
    /\ IF InternalError
         THEN /\ phase' = "aborted"
              /\ UNCHANGED <<file, relocs_out>>
         ELSE /\ file' =
                   <<[id |-> "DIR", len |-> 12 + 16 * Len(chunks)
                                            + (CHUNKS_RESERVED - Len(chunks)) * 16]>>
                   \o (IF area_chunksize # 0
                         THEN <<[id |-> "OBJ_AREA",
                                 len |-> SeqSum([i \in 1..Len(areas) |-> WrittenArea(i)])]>>
                         ELSE <<>>)
                   \o <<[id |-> "OBJ_IDFN", len |-> IdfnLen + Pad4(IdfnLen)]>>
                   \o (IF aofsyms # <<>>
                         THEN <<[id |-> "OBJ_SYMT", len |-> 16 * Len(aofsyms)]>> ELSE <<>>)
                   \o (IF strtab_size > 4
                         THEN <<[id |-> "OBJ_STRT",
                                 len |-> StrPos(Len(strtab) + 1) + Pad4(strtab_size)]>>
                         ELSE <<>>)
                   \o <<[id |-> "OBJ_HEAD", len |-> 4 * 6 + 20 * Len(areas)]>>
              /\ relocs_out' =
                   [i \in 1..Len(areas) |->
                      IF "NOINIT" \in areas[i].flags THEN <<>>
                      ELSE [k \in 1..Len(areas[i].relocs) |->
                              [offset |-> areas[i].relocs[k].offset,
                               info |-> Pack(areas[i].relocs[k]),
                               sym |-> areas[i].relocs[k].sym]]]
              /\ phase' = "done"
    /\ UNCHANGED <<secs, strtab, strtab_size, areas, area_chunksize, symi, aofsyms,
                   symidx, secidx, chunks, chunk_offset, errors>>

\* The assembler hands over a list of sections with distinct names.  The
\* idx fields are whatever the core left in them before the writer runs:
\* 0, or a value beyond every table.
Init ==
    /\ secs \in {ss \in UNION {[1..n -> SectionInputs] : n \in 1..NSecs} :
                    \A j, k \in DOMAIN ss : j # k => ss[j].name # ss[k].name}
    /\ phase = "areas"
    /\ strtab = <<>> /\ strtab_size = 4
    /\ areas = <<>> /\ area_chunksize = 0
    /\ symi = 1 /\ aofsyms = <<>>
    /\ \E j \in {0, Len(Syms)} : symidx = [n \in SymNames |-> j]
    /\ \E j \in {0, NSecs} : secidx = [i \in 1..Len(secs) |-> j]
    /\ chunks = <<>> /\ chunk_offset = DirectoryEnd
    /\ file = <<>> /\ relocs_out = <<>>
    /\ errors = {}

Done == phase \in {"done", "aborted"} /\ UNCHANGED vars

Next == MakeArea \/ MakeSym \/ AddChunks \/ WriteFile \/ Done

Spec == Init /\ [][Next]_vars

-----------------------------------------------------------------------------
(* Properties.                                                             *)

\* Offset in the file of the j-th part written.
Pos(j) == SeqSum([k \in 1..j - 1 |-> file[k].len])

\* The string a reader finds at offset o of the written string table.
ReadStr(o) ==
    IF \E k \in 1..Len(strtab) : StrPos(k) = o
      THEN strtab[CHOOSE k \in 1..Len(strtab) : StrPos(k) = o].str
      ELSE "?"

\* Every slot of the chunk directory points at the bytes written for that
\* chunk: the offsets add_chunk() computes from the sizes make_areas(),
\* make_symt() and write_output() predict agree with what the write passes
\* put out, the BSS areas that add nothing included.
FileLayout ==
    phase = "done" =>
        /\ file[1].len = DirectoryEnd
        /\ Len(file) = Len(chunks) + 1
        /\ \A c \in 1..Len(chunks) : \E j \in 2..Len(file) :
              /\ file[j].id = chunks[c].id
              /\ Pos(j) = chunks[c].offs
              /\ file[j].len = chunks[c].size

\* Every name offset in an area header or symbol entry reads back, from the
\* written string table, the name it was made for, a name shared by a
\* section and a label's area included (add_strt() hands out each name once).
StringsReadBack ==
    phase = "done" =>
        /\ \A i \in 1..Len(areas) : ReadStr(areas[i].name_offs) = secs[areas[i].sec].name
        /\ \A e \in 1..Len(aofsyms) :
              /\ ReadStr(aofsyms[e].symname) = aofsyms[e].src
              /\ SymOf(aofsyms[e].src).type = "lab" =>
                    ReadStr(aofsyms[e].areaname) = secs[SymOf(aofsyms[e].src).sec].name

\* Every relocation record written decodes (spec 4.12 bit layout) to the
\* symbol table entry of the imported symbol it refers to, or to the area of
\* the section of a local one: the sym->idx and sec->idx that write_areas()
\* reads were set by make_symt() and make_areas() to those positions.
RelocTargetsResolve ==
    phase = "done" =>
        \A i \in 1..Len(relocs_out) : \A k \in 1..Len(relocs_out[i]) :
            LET w == relocs_out[i][k]
                id == w.info & (2^24 - 1)
            IN IF (shiftR(w.info, 27) & 1) = 1
                 THEN id < Len(aofsyms) /\ aofsyms[id + 1].src = w.sym
                 ELSE id < Len(areas) /\ areas[id + 1].sec = SymOf(w.sym).sec

\* Spec 4.12: a code area is marked THUMBRELOC exactly when it has
\* instruction relocations and all of them are Thumb relocations, whatever
\* order the ARM and Thumb instructions come in.
ThumbRelocAttr ==
    \A i \in 1..Len(areas) :
        LET ins == {r \in ToSet(areas[i].relocs) : r.ft = 3}
        IN ("THUMBRELOC" \in areas[i].flags)
             <=> ("CODE" \in areas[i].flags /\ ins # {} /\ \A r \in ins : r.offset % 2 = 1)

\* Spec section 8: in the chunk directory OBJ_HEAD is first and each slot's
\* offset + size is the next slot's offset.
DirectoryContiguous ==
    phase = "done" =>
        /\ chunks[1].id = "OBJ_HEAD"
        /\ \A c \in 1..Len(chunks) - 1 : chunks[c].offs + chunks[c].size = chunks[c + 1].offs
====
