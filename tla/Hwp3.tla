-------------------------------- MODULE Hwp3 --------------------------------
(***************************************************************************)
(* The text of an HWP 3 file (goHwpTxt/pkg/hwp3/hwpv3.go). parseParagraph  *)
(* reads a header, which says how many codes the paragraph has, and then   *)
(* the codes; some of them stand for a table, a drawing, a header or a     *)
(* note, whose own lists of paragraphs follow at once and are read by the  *)
(* same function. A list ends with a header that says zero codes, or where *)
(* the data end.                                                           *)
(*                                                                         *)
(* The file is not fixed beforehand: each read finds anything the format   *)
(* allows, the end of the data, or damage. The watcher indexes files that  *)
(* are being written, so data that end anywhere are ordinary input.        *)
(***************************************************************************)
EXTENDS Hwp3Format, HncCodes, SequencesExt, SequenceLoops

VARIABLES
    phase,      \* "front", "reading", "ok" or "error"
    compressed, \* what follows the front of the file is compressed
    stack,      \* the paragraphs being read, the innermost last
    paragraphs, \* doc.Paragraphs, as their texts
    pages,      \* doc.Pages, as numbers of paragraphs
    height,     \* y, in lines
    cut,        \* the data have ended
    units,      \* paragraphs and codes read so far
    seen,       \* history: the letters, tabs and line ends read
    cutInside   \* history: when the data ended a paragraph lacked codes

layout == <<paragraphs, pages, height>>
input == <<compressed, cut, cutInside>>
hwp3Vars == <<phase, stack, layout, units, seen, input>>

Letter(c) == <<"letter", c>>
Tab == <<"tab">>
NewLine == <<"newline">>
Break == <<"break">>        \* the line break put after a nested paragraph

\* A paragraph that says it has n codes and of which `count` are read, by nCharsRead;
\* `total` is what was read in truth. While lists > 0 a control's lists are read.
Paragraph(n) == [n |-> n, count |-> 0, total |-> 0, text |-> <<>>, lists |-> 0]

Init == /\ phase = "front"
        /\ compressed = FALSE
        /\ stack = <<>>
        /\ paragraphs = <<>> /\ pages = <<<<>>>> /\ height = 0
        /\ cut = FALSE /\ cutInside = FALSE
        /\ units = 0
        /\ seen = <<>>

Top == stack[Len(stack)]
SetTop(p) == stack' = [stack EXCEPT ![Len(stack)] = p]

AtHeader == phase = "reading" /\ (stack # <<>> => Top.lists > 0)
AtCode == phase = "reading" /\ stack # <<>> /\ Top.lists = 0 /\ Top.count < Top.n

-----------------------------------------------------------------------------
\* Signature, document information, summary, information block, fonts and styles:
\* read past, or the file is refused. The rest may be compressed.
ReadFront == /\ phase = "front"
             /\ phase' \in {"reading", "error"}
             /\ compressed' \in BOOLEAN
             /\ UNCHANGED <<stack, layout, units, seen, cut, cutInside>>

\* The data end between two reads. Compressed data do not: flate tells an end that
\* comes too early from one that is meant, and that is an error.
EndOfData == /\ phase = "reading"
             /\ ~cut /\ ~compressed
             /\ cut' = TRUE
             /\ cutInside' = \E i \in DOMAIN stack : stack[i].count < stack[i].n
             /\ UNCHANGED <<phase, compressed, stack, layout, units, seen>>

\* A read that fails: the data are damaged, or end inside what is read, or they
\* have ended and a code is wanted. The error goes up through every parseParagraph.
FailToRead == /\ (~cut /\ AtHeader) \/ AtCode
              /\ phase' = "error"
              /\ UNCHANGED <<stack, layout, units, seen, input>>

Take == /\ ~cut
        /\ units < MaxUnits
        /\ units' = units + 1

BeginParagraph(n) == /\ AtHeader
                     /\ Take
                     /\ Len(stack) < MaxDepth
                     /\ stack' = Append(stack, Paragraph(n))
                     /\ UNCHANGED <<phase, layout, seen, input>>

\* Mutant: the end of the data is taken for one more empty paragraph.
EndListUnlessCut == /\ AtHeader
                    /\ ~cut
                    /\ \/ stack = <<>> /\ phase' = "ok" /\ UNCHANGED stack
                       \/ /\ stack # <<>> /\ UNCHANGED phase
                          /\ SetTop([Top EXCEPT !.lists = @ - 1])
                    /\ UNCHANGED <<layout, units, seen, input>>

\* A header with no codes, or io.EOF where one should be.
EndList == /\ AtHeader
           /\ \/ stack = <<>> /\ phase' = "ok" /\ UNCHANGED stack
              \/ /\ stack # <<>> /\ UNCHANGED phase
                 /\ SetTop([Top EXCEPT !.lists = @ - 1])
           /\ UNCHANGED <<layout, units, seen, input>>

-----------------------------------------------------------------------------
(* The loop over the codes. *)

\* Mutant: the codes a control takes are not counted.
ReadUncounted(k, read, signs, lists) ==
    /\ AtCode
    /\ Take
    /\ SetTop([Top EXCEPT !.count = (@ + 1) % Width, !.total = @ + 1 + k,
                          !.text = @ \o signs, !.lists = lists])
    /\ seen' = seen \o read
    /\ UNCHANGED <<phase, layout, input>>

\* A code that takes k more, is read as text or not, gives signs, and has lists to
\* be read.
Read(k, read, signs, lists) ==
    /\ AtCode
    /\ Take
    /\ SetTop([Top EXCEPT !.count = (@ + 1 + k) % Width, !.total = @ + 1 + k,
                          !.text = @ \o signs, !.lists = lists])
    /\ seen' = seen \o read
    /\ UNCHANGED <<phase, layout, input>>

ReadLetter == \E c \in Codes : Read(0, <<Letter(c)>>, HncToUtf8(c), 0)
ReadTab == Read(3, <<Tab>>, <<Tab>>, 0)
ReadNewLine == Read(0, <<NewLine>>, <<NewLine>>, 0)
ReadControl == \E k \in Skips : Read(k, <<>>, <<>>, 0)

\* The cells and the caption of a table, each a list.
ReadTable == \E cells \in Cells : Read(3, <<>>, <<>>, cells + 1)

\* A drawing's caption, a header or footer, a footnote: one list.
ReadBox == Read(3, <<>>, <<>>, 1)

-----------------------------------------------------------------------------
(* The end of a paragraph. *)

Lines(text) == (Len(text) + LineWidth - 1) \div LineWidth

\* Mutant: a new page starts where the last one ended.
PlaceHigher(text) ==
    LET k == Len(paragraphs) + 1
        h == height + Lines(text)
    IN /\ paragraphs' = Append(paragraphs, text)
       /\ height' = h
       /\ pages' = IF h > PageLines THEN Append(pages, <<k>>)
                   ELSE [pages EXCEPT ![Len(pages)] = Append(@, k)]

\* parseParagraphs: the paragraph that does not fit goes to a new page.
Place(text) ==
    LET k == Len(paragraphs) + 1
        h == height + Lines(text)
    IN /\ paragraphs' = Append(paragraphs, text)
       /\ height' = IF h > PageLines THEN 0 ELSE h
       /\ pages' = IF h > PageLines THEN Append(pages, <<k>>)
                   ELSE [pages EXCEPT ![Len(pages)] = Append(@, k)]

\* Mutant: a paragraph ends where the data end.
AtEndOrCut == phase = "reading" /\ stack # <<>> /\ Top.lists = 0 /\ (cut \/ Top.count >= Top.n)

AtEnd == phase = "reading" /\ stack # <<>> /\ Top.lists = 0 /\ Top.count >= Top.n

\* Mutant: what is in a cell, a caption or a note is read and forgotten.
EndParagraphForgetting ==
    /\ AtEnd
    /\ stack' = Front(stack)
    /\ IF Len(stack) > 1 THEN UNCHANGED layout ELSE Place(Top.text)
    /\ UNCHANGED <<phase, units, seen, input>>

\* The text of a nested paragraph goes to the one it is in.
EndParagraph ==
    /\ AtEnd
    /\ LET outer == Front(stack) IN
       \/ /\ outer # <<>>
          /\ stack' = [outer EXCEPT ![Len(outer)].text = @ \o Append(Top.text, Break)]
          /\ UNCHANGED layout
       \/ /\ outer = <<>>
          /\ stack' = <<>>
          /\ Place(Top.text)
    /\ UNCHANGED <<phase, units, seen, input>>

-----------------------------------------------------------------------------
Parse == \/ ReadFront \/ FailToRead \/ EndList \/ EndParagraph
         \/ \E n \in Sizes : BeginParagraph(n)
         \/ ReadLetter \/ ReadTab \/ ReadNewLine \/ ReadControl \/ ReadTable \/ ReadBox

Next == Parse \/ EndOfData

Spec == Init /\ [][Next]_hwp3Vars

-----------------------------------------------------------------------------
\* The types of the state.
TypeOK == /\ phase \in {"front", "reading", "ok", "error"}
          /\ {compressed, cut, cutInside} \subseteq BOOLEAN
          /\ \A i \in DOMAIN stack : /\ stack[i].n \in Sizes
                                     /\ stack[i].count \in 0..(Width - 1)
                                     /\ stack[i].total \in Nat /\ stack[i].lists \in Nat
          /\ units \in 0..MaxUnits
          /\ height \in 0..PageLines

\* The pages hold the paragraphs in their order, each on one page, and only the
\* first page can stay empty.
PagesInOrder == /\ FlattenSeq(pages) = [i \in DOMAIN paragraphs |-> i]
                /\ \A i \in DOMAIN pages \ {1} : pages[i] # <<>>

\* All text that was read is in the document, once and in the order of the file:
\* in the paragraphs that are finished, then in those being read, from the
\* outermost to the innermost. The paragraphs are on the pages, in order, too.
Texts == FlattenSeq(paragraphs) \o FlattenSeq([i \in DOMAIN stack |-> stack[i].text])
Spelled(x) == IF x[1] = "letter" THEN HncToUtf8(x[2]) ELSE <<x>>
TextInOrder == /\ Without(Texts, Break)
                      = FlattenSeq([i \in DOMAIN seen |-> Spelled(seen[i])])
               /\ PagesInOrder

\* A paragraph does not run on into what follows it, beyond the rest of its last
\* control, unless it says it has so many codes that their count wraps around.
NoOverrun == \A i \in DOMAIN stack :
                stack[i].n + MaxSkip < Width => stack[i].total <= stack[i].n + MaxSkip

CodesRead == {c \in Codes : Letter(c) \in ToSet(seen)}

\* Modern syllables come out as the syllables of Unicode, and in the order of their
\* codes: as there are as many of the one as of the other, each as itself. The
\* tables let two more initials pass, which no syllable has.
SyllablesKept ==
    \A c \in CodesRead : c >= 32768 /\ Modern(c) /\ Initial(c) <= 20 =>
        /\ IsSyllable(HncToUtf8(c))
        /\ \A d \in CodesRead : c < d /\ Modern(d) /\ Initial(d) <= 20
                                => HncToUtf8(c)[1][2] < HncToUtf8(d)[1][2]

\* Every letter is written as the case that stands for it says: a modern syllable as
\* a syllable, a lone jamo or old Hangul as its letters.
LettersWritten ==
    \A c \in CodesRead : c >= 32768 =>
        IF Modern(c) THEN IsSyllable(HncToUtf8(c)) ELSE HncToUtf8(c) = Old(c)

\* A file that is cut off is taken for a whole one only when it ends where a
\* paragraph could begin, with all codes of the paragraphs around there.
CutNoticed == phase = "ok" => ~cutInside
=============================================================================
