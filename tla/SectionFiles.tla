---------------------------- MODULE SectionFiles ----------------------------
(***************************************************************************)
(* The text of a document that is a container of sections: HWP 5, a        *)
(* compound file whose section streams are records                         *)
(* (goHwpTxt/pkg/hwp5), and HWPX, a zip archive whose sections are XML     *)
(* (goHwpTxt/pkg/hwpx). Both collect the sections, sort them by name as    *)
(* strings, and read one after the other.                                  *)
(*                                                                         *)
(* A section is its number; its paragraphs are numbers too. Compound files *)
(* have storages: the same section name can be in two of them. An archive  *)
(* may have headers, footers, notes and master pages in files of their     *)
(* own, which are read as sections are: all their names sort before those  *)
(* of the sections, none is another's, and they are left out here.         *)
(***************************************************************************)
EXTENDS Naturals, SequencesExt

CONSTANTS
    Counts,     \* the numbers of sections a document may have
    Copies,     \* the sections that may be in a second storage of a compound file
    Paras,      \* paragraphs in a section
    MaxShort    \* bound: sections that end early, or do not decompress

VARIABLES
    format,     \* "hwp5" or "hwpx"
    step,       \* "collect", "check", "open", "read", "ok" or "error"
    entries,    \* the sections in the container, in its order
    streams,    \* the entry each section name stands for
    names,      \* bodyTextSections or sectionFiles
    pos,        \* the section being read
    para,       \* its paragraphs read so far
    raw,        \* it is read without being decompressed
    text,       \* <<entry, paragraph>> of each paragraph written, or Noise
    short       \* history: entries whose records ended early, or were no records

sectionVars == <<format, step, entries, streams, names, pos, para, raw, text, short>>

Noise == <<0, 0>>       \* what records read from compressed bytes give

\* In the order of strings "Section10" comes before "Section2".
NameBefore(a, b) == IF a < 10 /\ b >= 10 THEN a <= b \div 10
                    ELSE IF a >= 10 /\ b < 10 THEN a \div 10 < b
                    ELSE a < b

\* sort.Strings, or sort.Slice by name: a name comes behind all that are before it
\* and, as names that are equal cannot be told apart, behind those like it that it was
\* behind already.
PlaceOf(s, i) == Cardinality({j \in DOMAIN s : \/ NameBefore(s[j], s[i])
                                               \/ s[j] = s[i] /\ j <= i})
PlacedAt(s, q) == CHOOSE i \in DOMAIN s : PlaceOf(s, i) = q
Sorted(s) == [q \in DOMAIN s |-> s[PlacedAt(s, q)]]

\* The container: each section, and in a compound file copies of some of them,
\* in a storage before or behind.
Numbers(n) == [i \in 1..n |-> i - 1]
Containers == {Numbers(n) : n \in Counts}
Compounds == Containers
             \cup {Numbers(n) \o <<c>> : n \in Counts, c \in Copies}
             \cup {<<c>> \o Numbers(n) : n \in Counts, c \in Copies}

Init == /\ format \in {"hwp5", "hwpx"}
        /\ entries \in IF format = "hwp5" THEN Compounds ELSE Containers
        /\ step = "collect"
        /\ streams = <<>> /\ names = <<>>
        /\ pos = 1 /\ para = 0 /\ raw = FALSE
        /\ text = <<>> /\ short = {}

-----------------------------------------------------------------------------
\* The loop over the entries. A map of names keeps the last entry of a name, the
\* list of names has each as often as it was met.
Collect == /\ step = "collect"
           /\ streams' = [n \in Range(entries) |->
                             Max({i \in DOMAIN entries : entries[i] = n})]
           /\ names' = entries
           /\ step' = "check"
           /\ UNCHANGED <<format, entries, pos, para, raw, text, short>>

\* An entry cannot be read, the archive cannot be opened, the header is missing,
\* is another program's, or says the file is encrypted.
Refuse == /\ step \in {"collect", "check"}
          /\ step' = "error"
          /\ UNCHANGED <<format, entries, streams, names, pos, para, raw, text, short>>

\* Mutant: the sections stay in the order of the container.
CheckUnsorted == /\ step = "check"
                 /\ step' = "open"
                 /\ UNCHANGED <<format, entries, streams, names, pos, para, raw, text, short>>

\* The header is accepted, and the names are sorted.
Check == /\ step = "check"
         /\ names' = Sorted(names)
         /\ step' = "open"
         /\ UNCHANGED <<format, entries, streams, pos, para, raw, text, short>>

Entry == streams[names[pos]]

\* The next section, or the end. When a section of a compound file does not
\* decompress, its bytes are read as they are.
Open == /\ step = "open"
        /\ \/ pos > Len(names) /\ step' = "ok" /\ UNCHANGED <<raw, short>>
           \/ pos <= Len(names) /\ step' = "read" /\ raw' = FALSE /\ UNCHANGED short
           \/ /\ pos <= Len(names) /\ format = "hwp5"
              /\ Cardinality(short) < MaxShort
              /\ step' = "read" /\ raw' = TRUE
              /\ short' = short \cup {Entry}
        /\ UNCHANGED <<format, entries, streams, names, pos, para, text>>

\* HWPTAG_PARA_TEXT, or <t> ... </p>. Other records and elements write nothing.
ReadParagraph == /\ step = "read"
                 /\ para < Paras
                 /\ para' = para + 1
                 /\ text' = Append(text, IF raw THEN Noise ELSE <<Entry, para + 1>>)
                 /\ UNCHANGED <<format, step, entries, streams, names, pos, raw, short>>

\* io.EOF: all has been read, or the records end where the size or the payload
\* of one should be, which ReadRecord does not tell from it. XML that ends early is
\* an error.
EndSection == /\ step = "read"
              /\ para < Paras => format = "hwp5" /\ Cardinality(short) < MaxShort
              /\ short' = IF para = Paras THEN short ELSE short \cup {Entry}
              /\ step' = "open"
              /\ pos' = pos + 1 /\ para' = 0
              /\ UNCHANGED <<format, entries, streams, names, raw, text>>

\* Mutant: what was written of the sections before is kept.
FailSectionKeeping == /\ step = "read"
                      /\ step' = "ok"
                      /\ UNCHANGED <<format, entries, streams, names, pos, para, raw, text, short>>

\* A record that is cut in the middle, or XML that does not parse: nothing is
\* returned of what was written so far.
FailSection == /\ step = "read"
               /\ step' = "error"
               /\ UNCHANGED <<format, entries, streams, names, pos, para, raw, text, short>>

Next == Collect \/ Refuse \/ Check \/ Open \/ ReadParagraph \/ EndSection \/ FailSection

Spec == Init /\ [][Next]_sectionVars

-----------------------------------------------------------------------------
\* The types of the state.
TypeOK == /\ format \in {"hwp5", "hwpx"}
          /\ step \in {"collect", "check", "open", "read", "ok", "error"}
          /\ pos \in 1..(Len(names) + 1) /\ para \in 0..Paras
          /\ text \in Seq({Noise} \cup ((DOMAIN entries) \X (1..Paras)))
          /\ short \subseteq DOMAIN entries

Times(e, k) == Cardinality({i \in DOMAIN text : text[i] = <<e, k>>})
Alone(e) == \A f \in DOMAIN entries \ {e} : entries[f] # entries[e]

\* The text of a document has each paragraph of each section once, unless the
\* records of the section end early; of two sections with one name, one is written
\* twice and the other never. An error anywhere leaves no text.
SectionsOnce ==
    step = "ok" => \A e \in DOMAIN entries \ short, k \in 1..Paras :
                      IF Alone(e) THEN Times(e, k) = 1 ELSE Times(e, k) \in {0, 2}

\* Sections are written in the order of their numbers, and their paragraphs in the
\* order they have, as long as there are ten sections at most.
SectionsInOrder ==
    (\A e \in DOMAIN entries : entries[e] < 10) =>
    \A i, j \in DOMAIN text : i < j /\ Noise \notin {text[i], text[j]} =>
        \/ entries[text[i][1]] < entries[text[j][1]]
        \/ entries[text[i][1]] = entries[text[j][1]] /\ (text[i][2] <= text[j][2] \/ ~Alone(text[i][1]))
=============================================================================
