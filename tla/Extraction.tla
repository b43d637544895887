----------------------------- MODULE Extraction -----------------------------
(***************************************************************************)
(* The text of a file: parser.Parse (internal/infra/parser/parser.go)      *)
(* chooses by the extension of its name, goHwpTxt.ExtractText (hwp.go) by  *)
(* the first bytes of the file, and the reader of that format does the     *)
(* rest: Hwp3, or SectionFiles for HWP 5 and HWPX. PDF is read by a        *)
(* library. Only files with a supported name come here                     *)
(* (internal/domain/document_file.go).                                     *)
(***************************************************************************)
EXTENDS Hwp3Format, Sequences

CONSTANTS Counts, Copies, Paras, MaxShort   \* see SectionFiles

ASSUME CountsAssumption == Counts \subseteq 0..99 /\ Copies \subseteq 0..99
ASSUME ParasAssumption == Paras \in Nat \ {0} /\ MaxShort \in Nat

VARIABLES
    file,       \* what decides on the reader: the name and the first bytes
    at,         \* "name", "parse", "detect", a reader, or an outcome
    phase, compressed, stack, paragraphs, pages, height, cut, units, seen, cutInside,
    format, step, entries, streams, names, pos, para, raw, text, short

Old == INSTANCE Hwp3
Sections == INSTANCE SectionFiles

oldVars == <<phase, stack, paragraphs, pages, height, units, seen, compressed, cut, cutInside>>
sectionVars == <<format, step, entries, streams, names, pos, para, raw, text, short>>
readerVars == <<oldVars, sectionVars>>
vars == <<file, at, readerVars>>

Extensions == {"hwp", "hwpx", "pdf", "other"}
Heads == {"short", "compound", "zip", "other"}
Files == [lock : BOOLEAN, extension : Extensions, head : Heads]
Readers == {"hwp3", "hwp5", "hwpx", "pdf"}
Outcomes == {"ignored", "unsupported", "text", "error"}

\* A compound file or an archive has sections; other files have none.
Init == /\ file \in Files
        /\ at = "name"
        /\ Old!Init
        /\ Sections!Init
        /\ format = (IF file.head = "zip" THEN "hwpx" ELSE "hwp5")
        /\ file.lock \/ file.head \notin {"compound", "zip"} \/ file.extension \notin {"hwp", "hwpx"}
              => entries = <<>>

-----------------------------------------------------------------------------
\* IsSupportedDocumentPath: the name of a lock file has "~$" in it.
IsSupportedDocumentPath == ~file.lock /\ file.extension \in {"hwp", "hwpx", "pdf"}

\* The scan and the watcher leave other files alone.
Filter == /\ at = "name"
          /\ at' = IF IsSupportedDocumentPath THEN "parse" ELSE "ignored"
          /\ UNCHANGED <<file, readerVars>>

\* Parse: the switch on the extension.
Parse == /\ at = "parse"
         /\ at' = CASE file.extension \in {"hwp", "hwpx"} -> "detect"
                    [] file.extension = "pdf" -> "pdf"
                    [] OTHER -> "unsupported"
         /\ UNCHANGED <<file, readerVars>>

\* ExtractText: the signatures. A file of less than eight bytes is refused.
Detect == /\ at = "detect"
          /\ at' = CASE file.head = "short" -> "error"
                     [] file.head = "compound" -> "hwp5"
                     [] file.head = "zip" -> "hwpx"
                     [] file.head = "other" -> "hwp3"
          /\ UNCHANGED <<file, readerVars>>

ReadHwp3 == /\ at = "hwp3"
            /\ Old!Next
            /\ UNCHANGED <<file, at, sectionVars>>

ReadSections == /\ at \in {"hwp5", "hwpx"}
                /\ Sections!Next
                /\ UNCHANGED <<file, at, oldVars>>

\* The library returns the text or an error: external.
ReadPDF == /\ at = "pdf"
           /\ at' \in {"text", "error"}
           /\ UNCHANGED <<file, readerVars>>

\* Parse returns what the reader returned.
Return == /\ \/ at = "hwp3" /\ phase \in {"ok", "error"} /\ at' = (IF phase = "ok" THEN "text" ELSE "error")
             \/ at \in {"hwp5", "hwpx"} /\ step \in {"ok", "error"}
                /\ at' = (IF step = "ok" THEN "text" ELSE "error")
          /\ UNCHANGED <<file, readerVars>>

Next == Filter \/ Parse \/ Detect \/ ReadHwp3 \/ ReadSections \/ ReadPDF \/ Return

\* The goroutine that extracts runs; when the data of the file end is not its doing.
Work == \/ Filter \/ Parse \/ Detect \/ ReadSections \/ ReadPDF \/ Return
        \/ at = "hwp3" /\ Old!Parse /\ UNCHANGED <<file, at, sectionVars>>

Spec == Init /\ [][Next]_vars /\ WF_vars(Work)

-----------------------------------------------------------------------------
\* The types of the state, of the readers' too.
TypeOK == /\ file \in Files
          /\ at \in {"name", "parse", "detect"} \cup Readers \cup Outcomes
          /\ Old!TypeOK /\ Sections!TypeOK

\* Of HWP 3: what is read is in the text in order (see Hwp3).
TextInOrder == Old!TextInOrder
NoOverrun == Old!NoOverrun
SyllablesKept == Old!SyllablesKept
CutNoticed == Old!CutNoticed

\* What the comments of hnc2unicode.go say of old Hangul (see Hwp3).
LettersWritten == Old!LettersWritten

\* Of HWP 5 and HWPX: the sections are in the text once, and in order (see
\* SectionFiles).
SectionsOnce == Sections!SectionsOnce
SectionsInOrder == Sections!SectionsInOrder

\* Extraction ends, with a text or an error, wherever the file ends and however
\* deeply its paragraphs are nested; a scan worker and the watcher wait for it.
ExtractionEnds == <>(at \in Outcomes)
=============================================================================
