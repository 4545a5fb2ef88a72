----------------------------- MODULE CoffWriter -----------------------------
(***************************************************************************)
(* The object file: codegen/coff_writer.cpp collects sections, symbols and *)
(* relocations and lays them out, codegen/coff.cpp reads such a file back. *)
(* The file is a sequence of chunks with sizes in bytes; a pointer of the  *)
(* file is the offset of a chunk.  A name is a pair of an identity and a   *)
(* length.                                                                 *)
(***************************************************************************)
EXTENDS Naturals, Sequences, FiniteSets

LOCAL INSTANCE SequencesExt

CONSTANTS
  SectionOrders,   \* the orders in which the map of sections may be walked
  SymbolNames,     \* pairs of an identity and a length
  ContentSizes,    \* lengths of section contents
  Offsets,         \* offsets in a section: symbol values and relocated places
  U16,             \* one more than the largest u16
  MaxSymbols,      \* bound: symbols in the file
  MaxRelocations   \* bound: relocations of a section

Section == {".data", ".code"}

ASSUME OrdersAssumption ==
  SectionOrders \subseteq {<< ".data", ".code" >>, << ".code", ".data" >>}
ASSUME NamesAssumption == \A n \in SymbolNames : n[2] \in Nat \ {0}
ASSUME BoundsAssumption ==
  MaxSymbols \in Nat /\ MaxRelocations \in Nat /\ ContentSizes \cup Offsets \subseteq Nat

VARIABLES
  sections,         \* content and relocations of each section
  symbols,          \* SymbolTableEntry, in the order of add_symbol
  strings,          \* string_table_
  stringTableSize,  \* string_table_size_
  added,            \* history: the names and kinds given to add_symbol
  file              \* what write_to_disk wrote, or empty

coffVars == << sections, symbols, strings, stringTableSize, added, file >>

-----------------------------------------------------------------------------
(* Building the file.                                                      *)

NoContent == [set |-> FALSE, size |-> 0]

(* The constructor, and the two add_section of the generator.              *)
Init ==
  /\ sections = [s \in Section |-> [content |-> NoContent, relocations |-> << >>]]
  /\ symbols = << >>
  /\ strings = << >>
  /\ stringTableSize = 4
  /\ added = << >>
  /\ file = << >>

(* Mistake: sections are counted from zero.                                *)
NumberedFromZero == [data |-> 0, fn |-> 1, ext |-> 0]

(* The generator numbers .data 1 and .code 2, and an external symbol 0.    *)
SectionNumber == [data |-> 1, fn |-> 2, ext |-> 0]

StorageClass(kind) == IF kind = "data" THEN "static" ELSE "external"

(* Mistake: the terminator of a long name is not counted.                  *)
BareNameSize(n) == n[2]

(* What a name adds to the size of the string table.                       *)
NameSize(n) == n[2] + 1

(* add_symbol, and add_to_string_table for a name of eight or more.        *)
AddSymbol(n, kind, value) ==
  /\ Len(symbols) < MaxSymbols
  /\ LET long == n[2] >= 8 IN
       /\ symbols' = Append(symbols,
            [inline |-> ~long,
             name |-> IF long THEN << >> ELSE n,
             offset |-> IF long THEN stringTableSize ELSE 0,
             scnum |-> SectionNumber[kind],
             sclass |-> StorageClass(kind),
             value |-> value])
       /\ IF long
            THEN /\ strings' = Append(strings, [value |-> n, offset |-> stringTableSize])
                 /\ stringTableSize' = stringTableSize + NameSize(n)
            ELSE UNCHANGED << strings, stringTableSize >>
  /\ added' = Append(added, [name |-> n, kind |-> kind])
  /\ UNCHANGED << sections, file >>

(* add_relocation with the index that add_symbol has returned.             *)
AddRelocation(s, symndx, vaddr) ==
  /\ Len(sections[s].relocations) < MaxRelocations
  /\ symndx < Len(symbols)
  /\ sections' = [sections EXCEPT
       ![s].relocations = Append(@, [vaddr |-> vaddr, symndx |-> symndx])]
  /\ UNCHANGED << symbols, strings, stringTableSize, added, file >>

SetSectionContent(s, size) ==
  /\ sections' = [sections EXCEPT ![s].content = [set |-> TRUE, size |-> size]]
  /\ UNCHANGED << symbols, strings, stringTableSize, added, file >>

-----------------------------------------------------------------------------
(* The layout of write_to_disk.                                            *)

FileHeaderSize == 20
SectionHeaderSize == 40
RelocationSize == 10
SymbolSize == 18

Chunk(kind, size, data) == [kind |-> kind, size |-> size, data |-> data]

Total(Value(_), seq) == FoldLeft(LAMBDA sum, e : sum + Value(e), 0, seq)

ContentSize(s) == sections[s].content.size
RelocationCount(s) == Len(sections[s].relocations)
HeaderCount(s) == RelocationCount(s) % U16

SectionsOffset(order) == FileHeaderSize + SectionHeaderSize * (Len(order) % U16)

(* Mistake: the symbols follow the contents, relocations forgotten.        *)
OffsetAfterContents(order) == SectionsOffset(order) + Total(ContentSize, order)

SymbolOffset(order) ==
  SectionsOffset(order)
  + Total(LAMBDA s : ContentSize(s) + RelocationCount(s) * RelocationSize, order)

FileHeader(order) ==
  Chunk("header", FileHeaderSize,
        [nscns |-> Len(order) % U16, nsyms |-> Len(symbols) % U16,
         symptr |-> SymbolOffset(order)])

(* The section pointer runs over the sections in the order of the map.     *)
SectionHeader(order, i) ==
  LET s == order[i]
      scnptr == SectionsOffset(order)
                + Total(LAMBDA t : ContentSize(t) + HeaderCount(t) * RelocationSize,
                        SubSeq(order, 1, i - 1))
  IN Chunk("section", SectionHeaderSize,
           [name |-> s, size |-> ContentSize(s), scnptr |-> scnptr,
            nreloc |-> HeaderCount(s),
            relptr |-> IF HeaderCount(s) > 0 THEN scnptr + ContentSize(s) ELSE 0])

SectionData(s) ==
  << Chunk("content", ContentSize(s), s) >>
  \o [i \in 1 .. RelocationCount(s) |->
        Chunk("relocation", RelocationSize, sections[s].relocations[i])]

Layout(order) ==
  << FileHeader(order) >>
  \o [i \in 1 .. Len(order) |-> SectionHeader(order, i)]
  \o FlattenSeq([i \in 1 .. Len(order) |-> SectionData(order[i])])
  \o [i \in 1 .. Len(symbols) |-> Chunk("symbol", SymbolSize, symbols[i])]
  \o << Chunk("tablesize", 4, stringTableSize) >>
  \o [i \in 1 .. Len(strings) |->
        Chunk("string", strings[i].value[2] + 1, strings[i].value)]

(* write_to_disk reads the content of every section.                       *)
WriteToDisk(order) ==
  /\ \A s \in Section : sections[s].content.set
  /\ file' = Layout(order)
  /\ UNCHANGED << sections, symbols, strings, stringTableSize, added >>

Building ==
  /\ file = << >>
  /\ \/ \E n \in SymbolNames, kind \in {"data", "fn", "ext"}, value \in Offsets :
          AddSymbol(n, kind, value)
     \/ \E k \in 0 .. (MaxSymbols - 1), vaddr \in Offsets : AddRelocation(".code", k, vaddr)
     \/ \E s \in Section, size \in ContentSizes :
          ~sections[s].content.set /\ SetSectionContent(s, size)

Writing == file = << >> /\ \E order \in SectionOrders : WriteToDisk(order)

Written == file # << >> /\ UNCHANGED coffVars

Next == Building \/ Writing \/ Written

Spec == Init /\ [][Next]_coffVars

-----------------------------------------------------------------------------
(* Reading the file back, as coff::read does.                              *)

OffsetOf(k) == Total(LAMBDA c : c.size, SubSeq(file, 1, k - 1))
FileSize == OffsetOf(Len(file) + 1)

(* The chunks of a kind at an offset: one, if the pointer is right.        *)
At(kind, o) == {k \in 1 .. Len(file) : file[k].kind = kind /\ OffsetOf(k) = o}
Holds(kind, o, data) == \E k \in At(kind, o) : file[k].data = data

Header == file[1].data
SectionHeaderAt(i) == FileHeaderSize + SectionHeaderSize * (i - 1)
SymbolAt(i) == Header.symptr + SymbolSize * (i - 1)
StringTable == Header.symptr + SymbolSize * Header.nsyms

(* Section i of the table has the header, content and relocations of s.    *)
ReadsSection(i, s) ==
  \E k \in At("section", SectionHeaderAt(i)) :
    LET header == file[k].data IN
      /\ header.name = s
      /\ header.size = ContentSize(s)
      /\ Holds("content", header.scnptr, s)
      /\ header.nreloc = RelocationCount(s)
      /\ \A r \in 1 .. RelocationCount(s) :
           Holds("relocation", header.relptr + RelocationSize * (r - 1),
                 sections[s].relocations[r])

ReadsSymbol(i) ==
  \E k \in At("symbol", SymbolAt(i)) :
    LET entry == file[k].data IN
      /\ entry = symbols[i]
      /\ IF entry.inline THEN entry.name = added[i].name
         ELSE Holds("string", StringTable + entry.offset, added[i].name)

(* Where the generator has put what a symbol stands for.                   *)
SectionOf == [data |-> ".data", fn |-> ".code"]

InItsSection(i) ==
  \E k \in At("symbol", SymbolAt(i)) :
    \E h \in At("section", SectionHeaderAt(file[k].data.scnum)) :
      file[h].data.name = SectionOf[added[i].kind]

-----------------------------------------------------------------------------
(* Whoever follows the offsets of the file finds every section, with its   *)
(* content and relocations, and every symbol with its name, in whatever    *)
(* order the sections were laid out (coff_writer.cpp:97-163, coff.cpp:13). *)
(* Where the section number of a symbol leads is said by SectionsNumbered. *)
ReadsBack ==
  file # << >> =>
    /\ Header.nscns = Cardinality(Section)
    /\ \A s \in Section : \E i \in 1 .. Header.nscns : ReadsSection(i, s)
    /\ Header.nsyms = Len(symbols)
    /\ \A i \in 1 .. Len(symbols) : ReadsSymbol(i)

(* coff.h:95 has the number of the section that a symbol belongs to, the   *)
(* first in the table being one.  The generator passes fixed numbers       *)
(* (generator.cpp:555, 571), and the table has the order of an unordered   *)
(* map (coff_writer.cpp:120): each number leads to the section with what   *)
(* the symbol stands for if .data comes first, and to the other if not.    *)
SectionsNumbered ==
  file # << >> =>
    \A i \in 1 .. Header.nsyms :
      added[i].kind # "ext" => (InItsSection(i) <=> file[2].data.name = ".data")

(* The size at the start of the string table counts itself and every       *)
(* string, and the table ends the file (coff_writer.cpp:15-17).            *)
StringTableSized ==
  file # << >> =>
    /\ Holds("tablesize", StringTable, FileSize - StringTable)
    /\ FileSize - StringTable >= 4
=============================================================================
