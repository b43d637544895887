--------------------------- MODULE ExtractionProof ---------------------------
(***************************************************************************)
(* Proofs about the extraction of text: the codes of the letters of HWP 3, *)
(* its nested paragraphs (`Old`), and the sections of HWP 5 and HWPX       *)
(* (`Sections`), for any numbers in the formats and any bounds.            *)
(***************************************************************************)
EXTENDS Extraction, SequenceLemmas

-----------------------------------------------------------------------------
(* The letters. *)

\* The codes of Hangul.
High(c) == c \in Nat /\ 32768 <= c /\ c <= 65535

\* The three parts of a code, and what they may be.
LEMMA PartsOfCode ==
  ASSUME NEW c, High(c)
  PROVE  /\ Old!Initial(c) \in 0..31 /\ Old!Medial(c) \in 0..31 /\ Old!Final(c) \in 0..31
         /\ c = 32768 + Old!Initial(c) * 1024 + Old!Medial(c) * 32 + Old!Final(c)
BY SMT DEF High, Old!Initial, Old!Medial, Old!Final

\* The parts of a syllable, numbered as Unicode numbers them.
LEMMA NumbersOfParts ==
  ASSUME NEW c, High(c), Old!Modern(c), Old!Initial(c) <= 20
  PROVE  /\ Old!LMap(Old!Initial(c)) \in 0..18 /\ Old!VMap(Old!Medial(c)) \in 0..20 /\ Old!TMap(Old!Final(c)) \in 0..27
<1>1. Old!Initial(c) \in 2..20 /\ Old!Medial(c) \in Old!Medials /\ Old!Final(c) \in Old!Finals
  BY PartsOfCode DEF Old!Modern, Old!Initials
<1>2. Old!LMap(Old!Initial(c)) \in 0..18
  BY <1>1 DEF Old!LMap
<1>3. Old!VMap(Old!Medial(c)) \in 0..20
  BY <1>1 DEF Old!VMap, Old!Medials
<1>4. Old!TMap(Old!Final(c)) \in 0..27
  BY <1>1 DEF Old!TMap, Old!Finals
<1> QED  BY <1>2, <1>3, <1>4

\* The number of a syllable, whatever the numbers of its parts.
Number(l, v, t) == 44032 + l * 588 + v * 28 + t

LEMMA NumberBounds ==
  ASSUME NEW l \in 0..18, NEW v \in 0..20, NEW t \in 0..27
  PROVE  Number(l, v, t) \in Nat /\ Old!Hangul(Number(l, v, t))
BY DEF Number, Old!Hangul

LEMMA NumberGrows ==
  ASSUME NEW l \in 0..18, NEW v \in 0..20, NEW t \in 0..27,
         NEW m \in 0..18, NEW w \in 0..20, NEW u \in 0..27,
         l < m \/ (l = m /\ v < w) \/ (l = m /\ v = w /\ t < u)
  PROVE  Number(l, v, t) < Number(m, w, u)
<1>1. CASE l < m
  BY <1>1 DEF Number
<1>2. CASE l = m /\ v < w
  BY <1>2 DEF Number
<1>3. CASE l = m /\ v = w /\ t < u
  BY <1>3 DEF Number
<1> QED  BY <1>1, <1>2, <1>3

\* VMap and TMap keep the order of what is a vowel, or a final.
LEMMA VMapGrows ==
  ASSUME NEW v \in Old!Medials, NEW w \in Old!Medials, v < w
  PROVE  Old!VMap(v) < Old!VMap(w)
BY SMT DEF Old!Medials, Old!VMap

LEMMA TMapGrows ==
  ASSUME NEW t \in Old!Finals, NEW u \in Old!Finals, t < u
  PROVE  Old!TMap(t) < Old!TMap(u)
BY SMT DEF Old!Finals, Old!TMap

LEMMA SyllableInBlock ==
  ASSUME NEW c, High(c), Old!Modern(c), Old!Initial(c) <= 20
  PROVE  /\ Old!Syllable(c) \in Nat /\ Old!Hangul(Old!Syllable(c))
         /\ Old!HncToUtf8(c) = <<Old!Char(Old!Syllable(c))>>
<1>1. Old!Syllable(c) \in Nat /\ Old!Hangul(Old!Syllable(c))
  <2> DEFINE l == Old!LMap(Old!Initial(c))  v == Old!VMap(Old!Medial(c))  t == Old!TMap(Old!Final(c))
  <2>1. Old!Syllable(c) = Number(l, v, t)
    BY DEF Old!Syllable, Number
  <2>2. l \in 0..18 /\ v \in 0..20 /\ t \in 0..27
    BY NumbersOfParts
  <2> HIDE DEF l, v, t
  <2> QED  BY <2>1, <2>2, NumberBounds
<1>2. Old!HncToUtf8(c) = Old!Johab(c)
  BY DEF High, Old!HncToUtf8
<1>3. Old!Johab(c) = <<Old!Rune(Old!Syllable(c))>>
  BY DEF Old!Johab
<1>4. Old!Rune(Old!Syllable(c)) = Old!Char(Old!Syllable(c))
  BY <1>1 DEF Old!Rune, Old!Hangul
<1> QED  BY <1>1, <1>2, <1>3, <1>4

\* The order of the codes is the order of Unicode.
LEMMA SyllablesInOrder ==
  ASSUME NEW c, High(c), Old!Modern(c), Old!Initial(c) <= 20,
         NEW d, High(d), Old!Modern(d), Old!Initial(d) <= 20,
         c < d
  PROVE  Old!Syllable(c) < Old!Syllable(d)
<1> DEFINE l == Old!Initial(c)  v == Old!Medial(c)  t == Old!Final(c)
           m == Old!Initial(d)  w == Old!Medial(d)  u == Old!Final(d)
<1>1. /\ l \in 0..31 /\ v \in 0..31 /\ t \in 0..31
      /\ c = 32768 + l * 1024 + v * 32 + t
  BY PartsOfCode
<1>2. /\ m \in 0..31 /\ w \in 0..31 /\ u \in 0..31
      /\ d = 32768 + m * 1024 + w * 32 + u
  BY PartsOfCode
<1>3. /\ Old!LMap(l) \in 0..18 /\ Old!VMap(v) \in 0..20 /\ Old!TMap(t) \in 0..27
  BY NumbersOfParts
<1>4. /\ Old!LMap(m) \in 0..18 /\ Old!VMap(w) \in 0..20 /\ Old!TMap(u) \in 0..27
  BY NumbersOfParts
<1>5. v \in Old!Medials /\ w \in Old!Medials /\ t \in Old!Finals /\ u \in Old!Finals
  BY DEF Old!Modern
<1>6. /\ Old!Syllable(c) = Number(Old!LMap(l), Old!VMap(v), Old!TMap(t))
      /\ Old!Syllable(d) = Number(Old!LMap(m), Old!VMap(w), Old!TMap(u))
  BY DEF Old!Syllable, Number
<1> HIDE DEF l, v, t, m, w, u
<1>7. l < m \/ (l = m /\ v < w) \/ (l = m /\ v = w /\ t < u)
  BY <1>1, <1>2, SMT DEF High
<1>8. l < m => Old!LMap(l) < Old!LMap(m)
  BY <1>1, <1>2 DEF Old!LMap
<1>9. v < w => Old!VMap(v) < Old!VMap(w)
  BY <1>5, VMapGrows
<1>10. t < u => Old!TMap(t) < Old!TMap(u)
  BY <1>5, TMapGrows
<1> DEFINE a == Old!LMap(l)  b == Old!VMap(v)  e == Old!TMap(t)
           f == Old!LMap(m)  g == Old!VMap(w)  h == Old!TMap(u)
<1>11. /\ a \in 0..18 /\ b \in 0..20 /\ e \in 0..27
       /\ f \in 0..18 /\ g \in 0..20 /\ h \in 0..27
  BY <1>3, <1>4
<1>12. a < f \/ (a = f /\ b < g) \/ (a = f /\ b = g /\ e < h)
  BY <1>7, <1>8, <1>9, <1>10
<1> HIDE DEF a, b, e, f, g, h
<1>13. Number(a, b, e) < Number(f, g, h)
  BY <1>11, <1>12, NumberGrows
<1> QED  BY <1>6, <1>13 DEF a, b, e, f, g, h

\* A sign is told by its table and its place there, or is one of three by itself.
Tables == {"char", "hnc2uni_map", "ksc5601_2uni_page4a",
           "HNC_L1", "HNC_V1", "HNC_T1", "HNC_L2", "HNC_V2", "HNC_T2"}
Plain == (Tables \X Nat) \cup {Old!Tab, Old!NewLine}
Signs == Plain \cup {Old!Break}

LEMMA SingleSign == ASSUME NEW S, NEW x \in S PROVE <<x>> \in Seq(S)
OBVIOUS

LEMMA PlainSigns ==
  ASSUME NEW s \in Seq(Plain)
  PROVE  s \in Seq(Signs) /\ Without(s, Old!Break) = s
<1>1. Old!Break \notin Plain
  BY DEF Plain, Old!Break, Old!Tab, Old!NewLine
<1>2. Old!Break \notin ToSet(s)
  BY <1>1, ToSetTyped
<1>3. Plain \subseteq Signs
  BY DEF Signs
<1>4. s \in Seq(Signs)
  BY <1>3
<1> QED  BY <1>2, <1>4, WithoutSet

LEMMA SignsOfEntries ==
  ASSUME NEW table \in Tables, NEW i \in Nat
  PROVE  Old!Entry(table, i) \in Plain /\ <<Old!Entry(table, i)>> \in Seq(Plain)
<1>1. Old!Entry(table, i) \in Tables \X Nat
  BY DEF Old!Entry
<1>2. Old!Entry(table, i) \in Plain
  BY <1>1 DEF Plain
<1> QED  BY <1>2, SingleSign

LEMMA SignsOfChars ==
  ASSUME NEW u \in Nat
  PROVE  /\ Old!Char(u) \in Plain /\ <<Old!Char(u)>> \in Seq(Plain)
         /\ <<Old!Rune(u)>> \in Seq(Plain)
<1>1. ASSUME NEW w \in Nat
      PROVE  Old!Char(w) \in Plain
  <2>1. "char" \in Tables
    BY DEF Tables
  <2>2. Old!Char(w) = Old!Entry("char", w)
    BY DEF Old!Char, Old!Entry
  <2> QED  BY <2>1, <2>2, SignsOfEntries
<1>2. Old!Rune(u) \in Plain
  BY <1>1 DEF Old!Rune
<1> QED  BY <1>1, <1>2, SingleSign

LEMMA SignsOfLookup ==
  ASSUME NEW c \in Nat
  PROVE  Old!Lookup(c) \in Seq(Plain)
<1>1. <<Old!Char(4357), Old!Char(4467), Old!Char(4573)>> \in Seq(Plain)
  BY SignsOfChars
<1>2. <<Old!Char(4363), Old!Char(4449), Old!Char(4551)>> \in Seq(Plain)
  BY SignsOfChars
<1>3. <<Old!Entry("hnc2uni_map", c)>> \in Seq(Plain)
  BY SignsOfEntries DEF Tables
<1>4. << >> \in Seq(Plain)
  OBVIOUS
<1> QED  BY <1>1, <1>2, <1>3, <1>4 DEF Old!Lookup

LEMMA SignsOfOld ==
  ASSUME NEW c, High(c)
  PROVE  Old!Old(c) \in Seq(Plain)
<1> DEFINE l == Old!Initial(c)  v == Old!Medial(c)  t == Old!Final(c)
<1>1. l \in Nat /\ v \in Nat /\ t \in Nat
  BY PartsOfCode
<1>2. Old!Lookup(c) \in Seq(Plain)
  BY SignsOfLookup DEF High
<1> HIDE DEF l, v, t
<1>3. /\ <<Old!Entry("HNC_L1", l)>> \in Seq(Plain)
      /\ <<Old!Entry("HNC_V1", v)>> \in Seq(Plain)
      /\ <<Old!Entry("HNC_T1", t)>> \in Seq(Plain)
  BY <1>1, SignsOfEntries DEF Tables
<1>4. Old!Entry("HNC_L2", l) \in Plain /\ Old!Entry("HNC_V2", v) \in Plain /\ Old!Entry("HNC_T2", t) \in Plain
  BY <1>1, SignsOfEntries DEF Tables
<1>5. /\ <<Old!Entry("HNC_L2", l), Old!Entry("HNC_V2", v)>> \in Seq(Plain)
      /\ <<Old!Entry("HNC_L2", l), Old!Entry("HNC_V2", v), Old!Entry("HNC_T2", t)>> \in Seq(Plain)
  BY <1>4
<1>6. << >> \in Seq(Plain)
  OBVIOUS
<1> QED  BY <1>2, <1>3, <1>5, <1>6, Zenon DEF Old!Old, l, v, t

LEMMA SignsOfLetters ==
  ASSUME NEW c \in Codes
  PROVE  Old!HncToUtf8(c) \in Seq(Plain)
<1>1. c \in Nat /\ c <= 65535
  BY CodesAssumption
<1>2. << >> \in Seq(Plain) /\ <<Old!Char(c)>> \in Seq(Plain) /\ Old!Lookup(c) \in Seq(Plain)
  BY <1>1, SignsOfChars, SignsOfLookup
<1>3. ASSUME c - 16384 \in Nat
      PROVE  <<Old!Entry("ksc5601_2uni_page4a", c - 16384)>> \in Seq(Plain)
  BY <1>3, SignsOfEntries DEF Tables
<1>4. ASSUME High(c)
      PROVE  Old!Johab(c) \in Seq(Plain)
  <2>1. CASE Old!Modern(c)
    <3>1. /\ Old!LMap(Old!Initial(c)) \in Nat /\ Old!VMap(Old!Medial(c)) \in Nat /\ Old!TMap(Old!Final(c)) \in Nat
      <4>1. Old!Initial(c) \in Old!Initials /\ Old!Medial(c) \in Old!Medials /\ Old!Final(c) \in Old!Finals
        BY <2>1 DEF Old!Modern
      <4>2. Old!LMap(Old!Initial(c)) \in Nat
        BY <4>1 DEF Old!Initials, Old!LMap
      <4>3. Old!VMap(Old!Medial(c)) \in Nat
        BY <4>1 DEF Old!Medials, Old!VMap
      <4>4. Old!TMap(Old!Final(c)) \in Nat
        BY <4>1 DEF Old!Finals, Old!TMap
      <4> QED  BY <4>2, <4>3, <4>4
    <3>2. Old!Syllable(c) \in Nat
      BY <3>1 DEF Old!Syllable
    <3> QED  BY <2>1, <3>2, SignsOfChars DEF Old!Johab
  <2>2. CASE ~Old!Modern(c)
    BY <1>2, <1>4, <2>2, SignsOfOld DEF Old!Johab
  <2> QED  BY <2>1, <2>2
<1>5. CASE c < 32768
  <2>1. CASE 16384 <= c /\ c <= 21271
    <3>1. c - 16384 \in Nat
      BY <1>1, <2>1
    <3>2. Old!HncToUtf8(c) = IF c - 16384 < Old!PageSize
                         THEN <<Old!Entry("ksc5601_2uni_page4a", c - 16384)>> ELSE <<>>
      BY <2>1, <1>1 DEF Old!HncToUtf8
    <3> QED  BY <1>2, <1>3, <3>1, <3>2
  <2>2. CASE ~(16384 <= c /\ c <= 21271)
    BY <1>2, <1>5, <2>2 DEF Old!HncToUtf8
  <2> QED  BY <2>1, <2>2
<1>6. CASE 32768 <= c
  <2>1. High(c)
    BY <1>1, <1>6 DEF High
  <2>2. Old!HncToUtf8(c) = Old!Johab(c)
    BY <1>1, <1>6 DEF Old!HncToUtf8
  <2> QED  BY <1>4, <2>1, <2>2
<1> QED  BY <1>1, <1>5, <1>6

\* Modern syllables, whatever letters a file holds. HncToUtf8 (hnc2unicode.go)
\* makes of each a syllable of Unicode, and of two of them two in the same order.
THEOREM SyllablesAreKept == Spec => []SyllablesKept
<1>1. SyllablesKept
  <2> SUFFICES ASSUME NEW c \in Old!CodesRead, c >= 32768, Old!Modern(c), Old!Initial(c) <= 20
               PROVE  /\ Old!IsSyllable(Old!HncToUtf8(c))
                      /\ \A d \in Old!CodesRead : c < d /\ Old!Modern(d) /\ Old!Initial(d) <= 20
                             => Old!HncToUtf8(c)[1][2] < Old!HncToUtf8(d)[1][2]
    BY DEF SyllablesKept, Old!SyllablesKept
  <2>1. High(c)
    BY CodesAssumption DEF Old!CodesRead, High
  <2>2. /\ Old!Hangul(Old!Syllable(c)) /\ Old!HncToUtf8(c) = <<Old!Char(Old!Syllable(c))>>
    BY <2>1, SyllableInBlock
  <2>3. Old!IsSyllable(Old!HncToUtf8(c)) /\ Old!HncToUtf8(c)[1][2] = Old!Syllable(c)
    BY <2>2 DEF Old!IsSyllable, Old!Char
  <2>4. ASSUME NEW d \in Old!CodesRead, c < d, Old!Modern(d), Old!Initial(d) <= 20
        PROVE  Old!HncToUtf8(c)[1][2] < Old!HncToUtf8(d)[1][2]
    <3>1. High(d)
      BY <2>1, <2>4, CodesAssumption DEF Old!CodesRead, High
    <3>2. Old!HncToUtf8(d) = <<Old!Char(Old!Syllable(d))>>
      BY <2>4, <3>1, SyllableInBlock
    <3>3. Old!HncToUtf8(d)[1][2] = Old!Syllable(d)
      BY <3>2 DEF Old!Char
    <3> QED  BY <2>1, <2>3, <2>4, <3>1, <3>3, SyllablesInOrder
  <2> QED  BY <2>3, <2>4
<1> QED  BY <1>1, PTL

-----------------------------------------------------------------------------
(* The paragraphs. *)

ParagraphRecords == [n : Sizes, count : 0..(Width - 1), total : Nat, text : Seq(Signs), lists : Nat]

\* Unless its count may wrap around, a paragraph has read what it has counted.
Counted(p) == p.n + MaxSkip < Width => p.count = p.total /\ p.total <= p.n + MaxSkip

Lacking(s) == \E i \in DOMAIN s : s[i].count < s[i].n

\* The types, with those of the paragraphs being read.
Typed == Old!TypeOK /\ stack \in Seq(ParagraphRecords)

\* After an end inside a paragraph there is always a paragraph that lacks codes, and
\* it cannot be finished, so that the parse cannot end well.
CutInv == cutInside => /\ cut
                       /\ phase \in {"reading", "error"}
                       /\ phase = "reading" => Lacking(stack)

HwpInv == Typed /\ (\A i \in DOMAIN stack : Counted(stack[i])) /\ CutInv

\* What SetTop does to a sequence.
LEMMA SetLast ==
  ASSUME NEW S, NEW s \in Seq(S), s # << >>, NEW p \in S,
         NEW t, t = [s EXCEPT ![Len(s)] = p]
  PROVE  /\ t \in Seq(S) /\ DOMAIN t = DOMAIN s
         /\ Len(s) \in DOMAIN s /\ s[Len(s)] \in S
         /\ \A i \in DOMAIN s : t[i] = IF i = Len(s) THEN p ELSE s[i]
OBVIOUS

LEMMA FrontOfSeq ==
  ASSUME NEW S, NEW s \in Seq(S), s # << >>
  PROVE  /\ Old!Front(s) \in Seq(S) /\ DOMAIN Old!Front(s) = DOMAIN s \ {Len(s)}
         /\ \A i \in DOMAIN Old!Front(s) : Old!Front(s)[i] = s[i]
         /\ Len(s) \in DOMAIN s /\ s[Len(s)] \in S
BY DEF Old!Front

LEMMA SizeTyped ==
  ASSUME NEW n \in Sizes
  PROVE  n \in Nat /\ 0 < n /\ Width \in Nat \ {0} /\ MaxSkip \in Nat
<1>1. n \in 1..(Width - 1) /\ Width \in Nat \ {0} /\ MaxSkip \in Nat
  BY CountAssumption
<1> QED  BY <1>1

\* The paragraph of which a code is read.
LEMMA TopTyped ==
  ASSUME Typed, stack # << >>
  PROVE  /\ Old!Top \in ParagraphRecords /\ Len(stack) \in DOMAIN stack /\ Old!Top = stack[Len(stack)]
         /\ Old!Top.n \in Sizes /\ Old!Top.count \in 0..(Width - 1) /\ Old!Top.total \in Nat
         /\ Old!Top.text \in Seq(Signs) /\ Old!Top.lists \in Nat
<1>1. Len(stack) \in DOMAIN stack /\ stack[Len(stack)] \in ParagraphRecords
  BY DEF Typed
<1> QED  BY <1>1 DEF Old!Top, ParagraphRecords

LEMMA LinesTyped ==
  ASSUME NEW whole \in Seq(Signs)
  PROVE  Old!Lines(whole) \in Nat
<1>1. Len(whole) + LineWidth - 1 \in Nat
  BY LayoutAssumption
<1> QED  BY <1>1, LayoutAssumption DEF Old!Lines

\* A code is read: the count stays true, as its paragraph lacked a code before.
LEMMA ReadKeeps ==
  ASSUME HwpInv, NEW k \in 0..MaxSkip, NEW read, NEW signs \in Seq(Signs), NEW lists \in Nat,
         Old!Read(k, read, signs, lists)
  PROVE  HwpInv'
<1> DEFINE p == [Old!Top EXCEPT !.count = (@ + 1 + k) % Width, !.total = @ + 1 + k,
                            !.text = @ \o signs, !.lists = lists]
<1>1. /\ stack # << >> /\ Old!Top.count < Old!Top.n /\ phase = "reading"
      /\ ~cut /\ units < MaxUnits /\ units' = units + 1
      /\ stack' = [stack EXCEPT ![Len(stack)] = p]
      /\ UNCHANGED <<phase, paragraphs, pages, height, compressed, cut, cutInside>>
  BY DEF Old!Read, Old!AtCode, Old!Take, Old!SetTop, Old!layout, Old!input
<1>2. /\ Old!Top \in ParagraphRecords /\ Old!Top = stack[Len(stack)]
      /\ Old!Top.n \in Sizes /\ Old!Top.count \in 0..(Width - 1) /\ Old!Top.total \in Nat
      /\ Old!Top.text \in Seq(Signs) /\ Old!Top.lists \in Nat /\ Len(stack) \in DOMAIN stack
  BY <1>1, TopTyped DEF HwpInv
<1>3. Old!Top.n \in Nat /\ Width \in Nat \ {0} /\ MaxSkip \in Nat
  BY <1>2, SizeTyped
<1>4. p \in ParagraphRecords
  <2>1. (Old!Top.count + 1 + k) % Width \in 0..(Width - 1)
    BY <1>2, <1>3
  <2>2. Old!Top.total + 1 + k \in Nat /\ Old!Top.text \o signs \in Seq(Signs)
    BY <1>2, <1>3
  <2> QED  BY <1>2, <2>1, <2>2 DEF ParagraphRecords
<1>5. Counted(p)
  <2>1. /\ p.n = Old!Top.n /\ p.count = (Old!Top.count + 1 + k) % Width
        /\ p.total = Old!Top.total + 1 + k
    BY <1>2 DEF ParagraphRecords
  <2>2. Counted(Old!Top)
    BY <1>2 DEF HwpInv
  <2>3. ASSUME Old!Top.n + MaxSkip < Width
        PROVE  /\ Old!Top.count = Old!Top.total
               /\ Old!Top.count + 1 + k <= Old!Top.n + MaxSkip
               /\ (Old!Top.count + 1 + k) % Width = Old!Top.count + 1 + k
    <3>1. Old!Top.count + 1 + k <= Old!Top.n + MaxSkip
      BY <1>1, <1>2, <1>3
    <3>2. Old!Top.count + 1 + k \in 0..(Width - 1)
      BY <1>2, <1>3, <2>3, <3>1
    <3>3. (Old!Top.count + 1 + k) % Width = Old!Top.count + 1 + k
      BY <1>3, <3>2
    <3> QED  BY <2>2, <2>3, <3>1, <3>3 DEF Counted
  <2> QED  BY <2>1, <2>3 DEF Counted
<1> HIDE DEF p
<1>6. /\ stack' \in Seq(ParagraphRecords) /\ DOMAIN stack' = DOMAIN stack
      /\ \A i \in DOMAIN stack : stack'[i] = IF i = Len(stack) THEN p ELSE stack[i]
  BY <1>1, <1>4, SetLast DEF HwpInv, Typed
<1>7. \A i \in DOMAIN stack' : Counted(stack'[i])
  BY <1>5, <1>6 DEF HwpInv
<1>8. CutInv'
  BY <1>1 DEF HwpInv, CutInv
<1>9. Old!TypeOK'
  <2>1. \A i \in DOMAIN stack' : stack'[i] \in ParagraphRecords
    BY <1>6
  <2>2. \A i \in DOMAIN stack' : /\ stack'[i].n \in Sizes
                                 /\ stack'[i].count \in 0..(Width - 1)
                                 /\ stack'[i].total \in Nat /\ stack'[i].lists \in Nat
    BY <2>1 DEF ParagraphRecords
  <2>3. units' \in 0..MaxUnits
    BY <1>1, BoundAssumption DEF HwpInv, Typed, Old!TypeOK
  <2> QED  BY <1>1, <2>2, <2>3 DEF HwpInv, Typed, Old!TypeOK
<1> QED  BY <1>6, <1>7, <1>8, <1>9 DEF HwpInv, Typed

\* The text of a paragraph goes to the one around it.
LEMMA EndNestedKeeps ==
  ASSUME HwpInv, Old!EndParagraph, Old!Front(stack) # << >>
  PROVE  HwpInv'
<1> DEFINE outer == Old!Front(stack)
           whole == outer[Len(outer)].text \o Append(Old!Top.text, Old!Break)
           p == [outer[Len(outer)] EXCEPT !.text = whole]
<1>1. /\ stack # << >> /\ Old!Top.count >= Old!Top.n /\ phase = "reading"
      /\ stack' = [outer EXCEPT ![Len(outer)] = p]
      /\ UNCHANGED <<phase, paragraphs, pages, height, compressed, cut, cutInside, units>>
  <2>1. stack' = [outer EXCEPT ![Len(outer)].text = @ \o Append(Old!Top.text, Old!Break)]
        /\ UNCHANGED Old!layout
    BY DEF Old!EndParagraph
  <2> QED  BY <2>1 DEF Old!EndParagraph, Old!AtEnd, Old!layout, Old!input
<1>2. /\ outer \in Seq(ParagraphRecords) /\ DOMAIN outer = DOMAIN stack \ {Len(stack)}
      /\ \A i \in DOMAIN outer : outer[i] = stack[i]
  BY <1>1, FrontOfSeq DEF HwpInv, Typed
<1>3. Len(outer) \in DOMAIN outer /\ outer[Len(outer)] \in ParagraphRecords
  BY <1>2
<1>4. p \in ParagraphRecords /\ p.n = outer[Len(outer)].n /\ p.count = outer[Len(outer)].count
                  /\ p.total = outer[Len(outer)].total
  <2>1. Old!Top.text \in Seq(Signs)
    BY <1>1, TopTyped DEF HwpInv
  <2>2. whole \in Seq(Signs)
    <3>1. Old!Break \in Signs
      BY DEF Signs
    <3>2. outer[Len(outer)].text \in Seq(Signs)
      BY <1>3 DEF ParagraphRecords
    <3> QED  BY <2>1, <3>1, <3>2
  <2> HIDE DEF whole, outer
  <2> QED  BY <1>3, <2>2 DEF ParagraphRecords
<1> HIDE DEF p, whole, outer
<1>5. /\ stack' \in Seq(ParagraphRecords) /\ DOMAIN stack' = DOMAIN outer
      /\ \A i \in DOMAIN outer : stack'[i] = IF i = Len(outer) THEN p ELSE outer[i]
  BY <1>1, <1>2, <1>4, SetLast DEF outer
<1>6. \A i \in DOMAIN stack' : /\ stack'[i].n = stack[i].n /\ stack'[i].count = stack[i].count
                               /\ stack'[i].total = stack[i].total /\ i \in DOMAIN stack
  BY <1>2, <1>3, <1>4, <1>5
<1>7. \A i \in DOMAIN stack' : Counted(stack'[i])
  BY <1>6 DEF HwpInv, Counted
<1>8. CutInv'
  <2>1. Lacking(stack) => Lacking(stack')
    <3>1. ~(stack[Len(stack)].count < stack[Len(stack)].n)
      <4>1. Old!Top.n \in Nat /\ Old!Top.count \in 0..(Width - 1) /\ Width \in Nat
        BY <1>1, TopTyped, SizeTyped DEF HwpInv
      <4> QED  BY <1>1, <4>1 DEF Old!Top
    <3> SUFFICES ASSUME NEW i \in DOMAIN stack, stack[i].count < stack[i].n
                 PROVE  stack'[i].count < stack'[i].n /\ i \in DOMAIN stack'
      BY DEF Lacking
    <3>2. i \in DOMAIN stack'
      BY <1>2, <1>5, <3>1
    <3> QED  BY <1>6, <3>2
  <2> QED  BY <1>1, <2>1 DEF HwpInv, CutInv
<1>9. Old!TypeOK'
  <2>1. \A i \in DOMAIN stack' : stack'[i] \in ParagraphRecords
    BY <1>5
  <2>2. \A i \in DOMAIN stack' : /\ stack'[i].n \in Sizes
                                 /\ stack'[i].count \in 0..(Width - 1)
                                 /\ stack'[i].total \in Nat /\ stack'[i].lists \in Nat
    BY <2>1 DEF ParagraphRecords
  <2> QED  BY <1>1, <2>2 DEF HwpInv, Typed, Old!TypeOK
<1> QED  BY <1>5, <1>7, <1>8, <1>9 DEF HwpInv, Typed

\* The last one is put on a page; it lacks nothing, and there is no other.
LEMMA EndOuterKeeps ==
  ASSUME HwpInv, Old!EndParagraph, Old!Front(stack) = << >>
  PROVE  HwpInv'
<1>1. /\ stack # << >> /\ Old!Top.count >= Old!Top.n /\ phase = "reading"
      /\ stack' = << >> /\ Old!Place(Old!Top.text)
      /\ UNCHANGED <<phase, compressed, cut, cutInside, units>>
  BY DEF Old!EndParagraph, Old!AtEnd, Old!input
<1>2. DOMAIN stack = {Len(stack)}
  <2>1. DOMAIN Old!Front(stack) = DOMAIN stack \ {Len(stack)} /\ Len(stack) \in DOMAIN stack
    BY <1>1, FrontOfSeq DEF HwpInv, Typed
  <2>2. DOMAIN Old!Front(stack) = {}
    OBVIOUS
  <2> QED  BY <2>1, <2>2
<1>3. ~Lacking(stack)
  <2>1. Old!Top.n \in Nat /\ Old!Top.count \in 0..(Width - 1) /\ Width \in Nat
    BY <1>1, TopTyped, SizeTyped DEF HwpInv
  <2> QED  BY <1>1, <1>2, <2>1 DEF Old!Top, Lacking
<1>4. CutInv'
  BY <1>1, <1>3 DEF HwpInv, CutInv
<1>5. height' \in 0..PageLines
  <2>1. Old!Lines(Old!Top.text) \in Nat
    BY <1>1, TopTyped, LinesTyped DEF HwpInv
  <2>2. height \in 0..PageLines /\ PageLines \in Nat
    BY LayoutAssumption DEF HwpInv, Typed, Old!TypeOK
  <2>3. height' = IF height + Old!Lines(Old!Top.text) > PageLines THEN 0 ELSE height + Old!Lines(Old!Top.text)
    BY <1>1 DEF Old!Place
  <2> QED  BY <2>1, <2>2, <2>3
<1>6. Old!TypeOK'
  BY <1>1, <1>5 DEF HwpInv, Typed, Old!TypeOK
<1> QED  BY <1>1, <1>4, <1>6 DEF HwpInv, Typed

\* A new paragraph has read nothing.
LEMMA BeginKeeps ==
  ASSUME HwpInv, NEW n \in Sizes, Old!BeginParagraph(n)
  PROVE  HwpInv'
<1>1. /\ stack' = Append(stack, Old!Paragraph(n)) /\ units < MaxUnits /\ units' = units + 1
      /\ ~cut /\ UNCHANGED <<phase, paragraphs, pages, height, compressed, cut, cutInside>>
  BY DEF Old!BeginParagraph, Old!Take, Old!layout, Old!input
<1>2. n \in Nat /\ 0 < n /\ Width \in Nat \ {0} /\ MaxSkip \in Nat
  BY SizeTyped
<1>3. Old!Paragraph(n) \in ParagraphRecords /\ Counted(Old!Paragraph(n))
  BY <1>2 DEF Old!Paragraph, ParagraphRecords, Counted
<1>4. /\ stack' \in Seq(ParagraphRecords)
      /\ \A i \in DOMAIN stack' : stack'[i] = IF i \in DOMAIN stack THEN stack[i] ELSE Old!Paragraph(n)
  <2> DEFINE q == Old!Paragraph(n)
  <2> HIDE DEF q
  <2>1. stack \in Seq(ParagraphRecords) /\ q \in ParagraphRecords /\ stack' = Append(stack, q)
    BY <1>1, <1>3 DEF HwpInv, Typed, q
  <2>2. \A i \in DOMAIN stack' : stack'[i] = IF i \in DOMAIN stack THEN stack[i] ELSE q
    BY <2>1
  <2> QED  BY <2>1, <2>2 DEF q
<1>5. \A i \in DOMAIN stack' : Counted(stack'[i])
  BY <1>3, <1>4 DEF HwpInv
<1>6. CutInv'
  BY <1>1 DEF HwpInv, CutInv
<1>7. Old!TypeOK'
  <2>1. \A i \in DOMAIN stack' : stack'[i] \in ParagraphRecords
    BY <1>4
  <2>2. \A i \in DOMAIN stack' : /\ stack'[i].n \in Sizes
                                 /\ stack'[i].count \in 0..(Width - 1)
                                 /\ stack'[i].total \in Nat /\ stack'[i].lists \in Nat
    BY <2>1 DEF ParagraphRecords
  <2>3. units' \in 0..MaxUnits
    BY <1>1, BoundAssumption DEF HwpInv, Typed, Old!TypeOK
  <2> QED  BY <1>1, <2>2, <2>3 DEF HwpInv, Typed, Old!TypeOK
<1> QED  BY <1>4, <1>5, <1>6, <1>7 DEF HwpInv, Typed

\* The end of a list leaves the counts alone; the outermost list can end only where
\* no paragraph is being read, and so none lacks codes.
LEMMA EndListKeeps ==
  ASSUME HwpInv, Old!EndList
  PROVE  HwpInv'
<1>1. /\ phase = "reading"
      /\ UNCHANGED <<paragraphs, pages, height, compressed, cut, cutInside, units>>
  BY DEF Old!EndList, Old!AtHeader, Old!layout, Old!input
<1>2. CASE stack = << >>
  <2>1. phase' = "ok" /\ stack' = stack
    BY <1>2 DEF Old!EndList
  <2>2. ~Lacking(stack)
    BY <1>2 DEF Lacking
  <2>3. CutInv'
    BY <1>1, <2>2 DEF HwpInv, CutInv
  <2>4. Old!TypeOK'
    BY <1>1, <2>1 DEF HwpInv, Typed, Old!TypeOK
  <2> QED  BY <2>1, <2>3, <2>4 DEF HwpInv, Typed
<1>3. CASE stack # << >>
  <2> DEFINE p == [Old!Top EXCEPT !.lists = @ - 1]
  <2>1. /\ Old!Top.lists > 0 /\ UNCHANGED phase
        /\ stack' = [stack EXCEPT ![Len(stack)] = p]
    BY <1>3 DEF Old!EndList, Old!AtHeader, Old!SetTop
  <2>2. /\ Old!Top \in ParagraphRecords /\ Old!Top = stack[Len(stack)] /\ Old!Top.lists \in Nat
        /\ Len(stack) \in DOMAIN stack
    BY <1>3, TopTyped DEF HwpInv
  <2>3. p \in ParagraphRecords /\ p.n = Old!Top.n /\ p.count = Old!Top.count /\ p.total = Old!Top.total
    <3>1. Old!Top.lists - 1 \in Nat
      BY <2>1, <2>2
    <3> QED  BY <2>2, <3>1 DEF ParagraphRecords
  <2> HIDE DEF p
  <2>4. /\ stack' \in Seq(ParagraphRecords) /\ DOMAIN stack' = DOMAIN stack
        /\ \A i \in DOMAIN stack : stack'[i] = IF i = Len(stack) THEN p ELSE stack[i]
    BY <1>3, <2>1, <2>3, SetLast DEF HwpInv, Typed
  <2>5. \A i \in DOMAIN stack' : /\ stack'[i].n = stack[i].n /\ stack'[i].count = stack[i].count
                                 /\ stack'[i].total = stack[i].total
    BY <2>2, <2>3, <2>4
  <2>6. \A i \in DOMAIN stack' : Counted(stack'[i])
    BY <2>4, <2>5 DEF HwpInv, Counted
  <2>7. CutInv'
    BY <1>1, <2>1, <2>4, <2>5 DEF HwpInv, CutInv, Lacking
  <2>8. Old!TypeOK'
    <3>1. \A i \in DOMAIN stack' : stack'[i] \in ParagraphRecords
      BY <2>4
    <3>2. \A i \in DOMAIN stack' : /\ stack'[i].n \in Sizes
                                   /\ stack'[i].count \in 0..(Width - 1)
                                   /\ stack'[i].total \in Nat /\ stack'[i].lists \in Nat
      BY <3>1 DEF ParagraphRecords
    <3> QED  BY <1>1, <2>1, <3>2 DEF HwpInv, Typed, Old!TypeOK
  <2> QED  BY <2>4, <2>6, <2>7, <2>8 DEF HwpInv, Typed
<1> QED  BY <1>2, <1>3

LEMMA HwpInit == Old!Init => HwpInv
<1> SUFFICES ASSUME Old!Init PROVE HwpInv
  OBVIOUS
<1>1. stack \in Seq(ParagraphRecords) /\ DOMAIN stack = {}
  BY DEF Old!Init
<1>2. Old!TypeOK
  <2>1. units \in 0..MaxUnits /\ height \in 0..PageLines
    BY BoundAssumption, LayoutAssumption DEF Old!Init
  <2>2. {compressed, cut, cutInside} \subseteq BOOLEAN
    BY DEF Old!Init
  <2> QED  BY <1>1, <2>1, <2>2 DEF Old!Init, Old!TypeOK
<1> QED  BY <1>1, <1>2 DEF Old!Init, HwpInv, Typed, CutInv

LEMMA HwpStep == HwpInv /\ [Old!Next]_(Old!hwp3Vars) => HwpInv'
<1> SUFFICES ASSUME HwpInv, [Old!Next]_(Old!hwp3Vars) PROVE HwpInv'
  OBVIOUS
<1>0. 3 \in 0..MaxSkip /\ 0 \in 0..MaxSkip /\ Skips \subseteq 0..MaxSkip
  BY CountAssumption
<1>1. CASE Old!ReadFront
  <2>1. ~cutInside
    BY <1>1 DEF Old!ReadFront, HwpInv, CutInv
  <2>2. /\ phase' \in {"reading", "error"} /\ compressed' \in BOOLEAN
        /\ UNCHANGED <<stack, height, units, cut, cutInside>>
    BY <1>1 DEF Old!ReadFront, Old!layout
  <2> QED  BY <2>1, <2>2 DEF HwpInv, Typed, Old!TypeOK, CutInv
<1>2. CASE Old!EndOfData
  <2>1. /\ cut' = TRUE /\ phase = "reading" /\ cutInside' = Lacking(stack)
        /\ UNCHANGED <<phase, compressed, stack, height, units>>
    BY <1>2 DEF Old!EndOfData, Old!layout, Lacking
  <2>2. cutInside' \in BOOLEAN
    BY <2>1 DEF Lacking
  <2>3. CutInv'
    BY <2>1 DEF CutInv
  <2>4. Old!TypeOK'
    BY <2>1, <2>2 DEF HwpInv, Typed, Old!TypeOK
  <2> QED  BY <2>1, <2>3, <2>4 DEF HwpInv, Typed
<1>3. CASE Old!FailToRead
  <2>1. /\ phase' = "error"
        /\ UNCHANGED <<stack, height, units, compressed, cut, cutInside>>
    BY <1>3 DEF Old!FailToRead, Old!layout, Old!input
  <2> QED  BY <2>1 DEF HwpInv, Typed, Old!TypeOK, CutInv
<1>4. CASE Old!EndList
  BY <1>4, EndListKeeps
<1>5. CASE Old!EndParagraph
  BY <1>5, EndNestedKeeps, EndOuterKeeps
<1>6. CASE \E n \in Sizes : Old!BeginParagraph(n)
  BY <1>6, BeginKeeps
<1>7. CASE Old!ReadLetter
  <2>1. PICK c \in Codes : Old!Read(0, <<Old!Letter(c)>>, Old!HncToUtf8(c), 0)
    BY <1>7 DEF Old!ReadLetter
  <2>2. Old!HncToUtf8(c) \in Seq(Plain)
    BY SignsOfLetters
  <2>3. Old!HncToUtf8(c) \in Seq(Signs)
    BY <2>2, PlainSigns
  <2> QED  BY <1>0, <2>1, <2>3, ReadKeeps
<1>8. CASE Old!ReadTab
  <2>1. <<Old!Tab>> \in Seq(Signs)
    BY SingleSign DEF Signs, Plain
  <2> QED  BY <1>0, <1>8, <2>1, ReadKeeps DEF Old!ReadTab
<1>9. CASE Old!ReadNewLine
  <2>1. <<Old!NewLine>> \in Seq(Signs)
    BY SingleSign DEF Signs, Plain
  <2> QED  BY <1>0, <1>9, <2>1, ReadKeeps DEF Old!ReadNewLine
<1>10. << >> \in Seq(Signs)
  OBVIOUS
<1>11. CASE Old!ReadControl
  BY <1>0, <1>10, <1>11, ReadKeeps DEF Old!ReadControl
<1>12. CASE Old!ReadTable
  <2>1. PICK cells \in Cells : Old!Read(3, <<>>, <<>>, cells + 1)
    BY <1>12 DEF Old!ReadTable
  <2>2. cells + 1 \in Nat
    BY BoundAssumption
  <2> QED  BY <1>0, <1>10, <2>1, <2>2, ReadKeeps
<1>13. CASE Old!ReadBox
  BY <1>0, <1>10, <1>13, ReadKeeps DEF Old!ReadBox
<1>14. CASE UNCHANGED Old!hwp3Vars
  BY <1>14 DEF Old!hwp3Vars, Old!layout, Old!input, HwpInv, Typed, Old!TypeOK, CutInv, Lacking
<1> QED  BY <1>1, <1>2, <1>3, <1>4, <1>5, <1>6, <1>7, <1>8, <1>9, <1>11, <1>12, <1>13, <1>14
         DEF Old!Next, Old!Parse

\* While another reader has the file, this one stands still.
LEMMA HwpSteps == [Next]_vars => [Old!Next]_(Old!hwp3Vars)
<1>1. Next => Old!Next \/ UNCHANGED oldVars
  BY DEF Next, Filter, Parse, Detect, ReadHwp3, ReadSections, ReadPDF, Return, readerVars
<1>2. UNCHANGED vars => UNCHANGED oldVars
  BY DEF vars, readerVars
<1>3. UNCHANGED oldVars => UNCHANGED Old!hwp3Vars
  BY DEF oldVars, Old!hwp3Vars, Old!layout, Old!input
<1> QED  BY <1>1, <1>2, <1>3

LEMMA HwpInvariant == Spec => []HwpInv
<1>1. Init => HwpInv
  BY HwpInit DEF Init
<1>2. HwpInv /\ [Next]_vars => HwpInv'
  BY HwpStep, HwpSteps
<1> QED  BY <1>1, <1>2, PTL DEF Spec

\* The stack of nested lists, the counters and the pages of parseParagraph and
\* parseParagraphs (hwpv3.go) keep their types.
THEOREM ParseTyped == Spec => []Old!TypeOK
<1>1. HwpInv => Old!TypeOK
  BY DEF HwpInv, Typed
<1> QED  BY <1>1, HwpInvariant, PTL

\* The 16-bit nCharsRead of parseParagraph (hwpv3.go): whatever
\* controls a file holds, a paragraph reads at most the rest of its last control too
\* much, unless it claims so many codes that the count wraps around.
THEOREM ParagraphsEndInTime == Spec => []NoOverrun
<1>1. HwpInv => NoOverrun
  BY DEF HwpInv, Counted, NoOverrun, Old!NoOverrun
<1> QED  BY <1>1, HwpInvariant, PTL

\* parseParagraph and its nested lists (hwpv3.go): a parse that
\* ends well was not cut off inside a paragraph, at any depth.
THEOREM CutsAreNoticed == Spec => []CutNoticed
<1>1. HwpInv => CutNoticed
  BY DEF HwpInv, CutInv, CutNoticed, Old!CutNoticed
<1> QED  BY <1>1, HwpInvariant, PTL

-----------------------------------------------------------------------------
(* The reader of HWP 3 ends. *)

\* The lists that the paragraphs being read still have to read.
Due(s) == UNION {({i} \X (1..s[i].lists)) : i \in DOMAIN s}
Open(p) == IF p = "front" THEN 2 ELSE IF p = "reading" THEN 1 ELSE 0

\* How often a list or a paragraph can end, if nothing more is read.
ToEnd == Open(phase) + Len(stack) + Cardinality(Due(stack))

LEMMA DueAre ==
  ASSUME NEW s \in Seq(ParagraphRecords)
  PROVE  /\ IsFiniteSet(Due(s)) /\ Cardinality(Due(s)) \in Nat
         /\ \A x : x \in Due(s) <=> \E i \in DOMAIN s : \E k \in 1..s[i].lists : x = <<i, k>>
<1> DEFINE F(i) == {i} \X (1..s[i].lists)
           U == {F(i) : i \in DOMAIN s}
<1>1. ASSUME NEW i \in DOMAIN s PROVE s[i].lists \in Nat
  <2>1. s[i] \in ParagraphRecords
    OBVIOUS
  <2> QED  BY <2>1 DEF ParagraphRecords
<1>2. ASSUME NEW i \in DOMAIN s PROVE IsFiniteSet(F(i))
  <2>1. PICK l \in Nat : l = s[i].lists
    BY <1>1, <1>2
  <2>2. IsFiniteSet({i}) /\ IsFiniteSet(1..l)
    <3>1. IsFiniteSet({i})
      BY FS_Singleton, Zenon
    <3> QED  BY <3>1, FS_Interval
  <2>3. IsFiniteSet({i} \X (1..l))
    BY <2>2, FS_Product
  <2> QED  BY <2>1, <2>3
<1>3. IsFiniteSet(DOMAIN s)
  <2>1. DOMAIN s = 1..Len(s) /\ Len(s) \in Nat
    OBVIOUS
  <2> QED  BY <2>1, FS_Interval
<1>4. IsFiniteSet(U)
  <2> HIDE DEF F
  <2> DEFINE g == [i \in DOMAIN s |-> F(i)]
  <2>1. g \in Surjection(DOMAIN s, U)
    BY Zenon DEF Surjection
  <2> HIDE DEF g, U
  <2> QED  BY <1>3, <2>1, FS_Surjection
<1>5. Due(s) = UNION U
  BY DEF Due
<1>6. \A x : x \in UNION U <=> \E i \in DOMAIN s : \E k \in 1..s[i].lists : x = <<i, k>>
  OBVIOUS
<1>7. \A T \in U : IsFiniteSet(T)
  BY <1>2
<1> HIDE DEF U
<1>8. IsFiniteSet(UNION U)
  BY <1>4, <1>7, FS_UNION
<1> QED  BY <1>5, <1>6, <1>8, FS_CardinalityType

LEMMA ToEndTyped == Typed => ToEnd \in Nat
<1> SUFFICES ASSUME Typed PROVE ToEnd \in Nat
  OBVIOUS
<1>1. stack \in Seq(ParagraphRecords)
  BY DEF Typed
<1>2. Len(stack) \in Nat /\ Cardinality(Due(stack)) \in Nat
  BY <1>1, DueAre
<1> QED  BY <1>2 DEF ToEnd, Open

\* A step of the reader takes a unit of the file, or finds its end, or ends a list, a
\* paragraph or the whole.
Shortens == \/ ~cut /\ units' = units + 1 /\ units' <= MaxUnits
            \/ ~cut /\ cut' /\ UNCHANGED <<units, stack>>
            \/ UNCHANGED <<units, cut>> /\ ToEnd' < ToEnd

LEMMA ListEnds ==
  ASSUME Typed, stack # << >>, Old!Top.lists > 0,
         stack' = [stack EXCEPT ![Len(stack)] = [Old!Top EXCEPT !.lists = @ - 1]]
  PROVE  Len(stack') = Len(stack) /\ Cardinality(Due(stack')) = Cardinality(Due(stack)) - 1
<1> DEFINE p == [Old!Top EXCEPT !.lists = @ - 1]
<1>1. /\ stack \in Seq(ParagraphRecords) /\ Old!Top \in ParagraphRecords /\ Len(stack) \in DOMAIN stack
      /\ Old!Top = stack[Len(stack)] /\ Old!Top.lists \in Nat
  BY TopTyped DEF Typed
<1>2. PICK n \in Nat : n = Len(stack)
  BY <1>1
<1>3. PICK l \in Nat : l = Old!Top.lists /\ l # 0
  BY <1>1
<1>4. p \in ParagraphRecords /\ p.lists = l - 1
  <2>1. PICK y \in ParagraphRecords : y = Old!Top
    BY <1>1
  <2>2. PICK m \in Nat : m = l - 1
    BY <1>3
  <2>3. p = [y EXCEPT !.lists = m]
    BY <1>3, <2>1, <2>2
  <2> QED  BY <2>1, <2>2, <2>3 DEF ParagraphRecords
<1>5. PICK t : t = stack'
  OBVIOUS
<1>6. /\ t \in Seq(ParagraphRecords) /\ DOMAIN t = DOMAIN stack
      /\ \A i \in DOMAIN stack : t[i] = IF i = n THEN p ELSE stack[i]
  BY <1>1, <1>2, <1>4, <1>5, SetLast
<1>7. Len(t) = n
  BY <1>1, <1>2, <1>6
<1> HIDE DEF p
<1>8. \A x : x \in Due(t) <=> x \in Due(stack) \ {<<n, l>>}
  <2>1. ASSUME NEW x, x \in Due(t) PROVE x \in Due(stack) \ {<<n, l>>}
    <3>1. PICK i \in DOMAIN t : \E k \in 1..t[i].lists : x = <<i, k>>
      BY <1>6, <2>1, DueAre
    <3>2. PICK k \in 1..t[i].lists : x = <<i, k>>
      BY <3>1
    <3>3. i \in DOMAIN stack /\ k \in 1..stack[i].lists /\ ~(i = n /\ k = l)
      BY <1>1, <1>2, <1>3, <1>4, <1>6, <3>2
    <3>4. x \in Due(stack)
      BY <1>1, <3>2, <3>3, DueAre
    <3> QED  BY <3>2, <3>3, <3>4
  <2>2. ASSUME NEW x, x \in Due(stack), x # <<n, l>> PROVE x \in Due(t)
    <3>1. PICK i \in DOMAIN stack : \E k \in 1..stack[i].lists : x = <<i, k>>
      BY <1>1, <2>2, DueAre
    <3>2. PICK k \in 1..stack[i].lists : x = <<i, k>>
      BY <3>1
    <3>3. i \in DOMAIN t /\ k \in 1..t[i].lists
      BY <1>1, <1>2, <1>3, <1>4, <1>6, <2>2, <3>2
    <3> QED  BY <1>6, <3>2, <3>3, DueAre
  <2> QED  BY <2>1, <2>2
<1>9. <<n, l>> \in Due(stack)
  <2>1. n \in DOMAIN stack /\ l \in 1..stack[n].lists
    BY <1>1, <1>2, <1>3
  <2> QED  BY <1>1, <2>1, DueAre
<1>10. Due(t) = Due(stack) \ {<<n, l>>}
  BY <1>8
<1>11. Cardinality(Due(t)) = Cardinality(Due(stack)) - 1
  BY <1>1, <1>9, <1>10, DueAre, FS_RemoveElement
<1> QED  BY <1>2, <1>5, <1>7, <1>11

\* The paragraph that ends has no list left, and its text changes no list of the others.
LEMMA ParagraphEnds ==
  ASSUME Typed, Typed', Old!EndParagraph
  PROVE  Len(stack') < Len(stack) /\ Due(stack') = Due(stack)
<1>1. /\ stack # << >> /\ Old!Top.lists = 0
      /\ \/ Old!Front(stack) # <<>>
            /\ stack' = [Old!Front(stack) EXCEPT ![Len(Old!Front(stack))].text = @ \o Append(Old!Top.text, Old!Break)]
         \/ Old!Front(stack) = <<>> /\ stack' = <<>>
  BY DEF Old!EndParagraph, Old!AtEnd
<1>2. stack \in Seq(ParagraphRecords) /\ stack' \in Seq(ParagraphRecords)
  BY DEF Typed
<1>3. PICK g \in Seq(ParagraphRecords) : g = Old!Front(stack)
  BY <1>1, <1>2, FrontOfSeq
<1>4. DOMAIN g = DOMAIN stack \ {Len(stack)} /\ \A i \in DOMAIN g : g[i] = stack[i]
  BY <1>1, <1>2, <1>3, FrontOfSeq
<1>5. Len(stack) \in DOMAIN stack /\ stack[Len(stack)].lists = 0
  BY <1>1, TopTyped
<1>6. PICK t \in Seq(ParagraphRecords) : t = stack'
  BY <1>2
<1>7. DOMAIN t = DOMAIN g /\ \A i \in DOMAIN g : t[i].lists = g[i].lists
  <2>1. CASE g = << >>
    BY <1>1, <1>3, <1>6, <2>1
  <2>2. CASE g # << >>
    <3>1. PICK add : add = Append(Old!Top.text, Old!Break)
      OBVIOUS
    <3>2. t = [g EXCEPT ![Len(g)].text = @ \o add]
      BY <1>1, <1>3, <1>6, <2>2, <3>1
    <3>3. DOMAIN t = DOMAIN g
      BY <3>2
    <3>4. ASSUME NEW i \in DOMAIN g PROVE t[i].lists = g[i].lists
      <4>1. CASE i = Len(g)
        <5>1. t[i] = [g[i] EXCEPT !.text = @ \o add]
          BY <3>2, <4>1
        <5>2. g[i] \in ParagraphRecords
          OBVIOUS
        <5> QED  BY <5>1, <5>2 DEF ParagraphRecords
      <4>2. CASE i # Len(g)
        BY <3>2, <4>2
      <4> QED  BY <4>1, <4>2
    <3> QED  BY <3>3, <3>4
  <2> QED  BY <2>1, <2>2
<1>8. \A x : x \in Due(t) <=> x \in Due(stack)
  <2>1. ASSUME NEW x, x \in Due(t) PROVE x \in Due(stack)
    <3>1. PICK i \in DOMAIN t : \E k \in 1..t[i].lists : x = <<i, k>>
      BY <2>1, DueAre
    <3>2. PICK k \in 1..t[i].lists : x = <<i, k>>
      BY <3>1
    <3>3. i \in DOMAIN stack /\ k \in 1..stack[i].lists
      BY <1>4, <1>7, <3>2
    <3> QED  BY <1>2, <3>2, <3>3, DueAre
  <2>2. ASSUME NEW x, x \in Due(stack) PROVE x \in Due(t)
    <3>1. PICK i \in DOMAIN stack : \E k \in 1..stack[i].lists : x = <<i, k>>
      BY <1>2, <2>2, DueAre
    <3>2. PICK k \in 1..stack[i].lists : x = <<i, k>>
      BY <3>1
    <3>3. i # Len(stack)
      BY <1>5, <3>2
    <3>4. i \in DOMAIN t /\ k \in 1..t[i].lists
      BY <1>4, <1>7, <3>2, <3>3
    <3> QED  BY <3>2, <3>4, DueAre
  <2> QED  BY <2>1, <2>2
<1>9. Len(t) < Len(stack)
  <2>1. PICK m \in Nat, n \in Nat : m = Len(t) /\ n = Len(stack)
    BY <1>2
  <2>2. 1..m = (1..n) \ {n} /\ n # 0
    BY <1>1, <1>2, <1>4, <1>7, <2>1
  <2>3. n \notin 1..m
    BY <2>2
  <2>4. m < n
    BY <2>2, <2>3
  <2> QED  BY <2>1, <2>4
<1> QED  BY <1>6, <1>8, <1>9

LEMMA ParseStepShortens ==
  ASSUME HwpInv, HwpInv', Old!Next
  PROVE  Shortens
<1>1. Typed /\ Typed' /\ stack \in Seq(ParagraphRecords) /\ units' <= MaxUnits
  BY BoundAssumption DEF HwpInv, Typed, Old!TypeOK
<1>2. PICK n \in Nat, c \in Nat : n = Len(stack) /\ c = Cardinality(Due(stack))
  BY <1>1, DueAre
<1>3. ToEnd = Open(phase) + n + c
  BY <1>2 DEF ToEnd
<1>4. CASE Old!ReadFront
  <2>1. phase = "front" /\ phase' \in {"reading", "error"} /\ UNCHANGED <<stack, units, cut>>
    BY <1>4 DEF Old!ReadFront
  <2>2. ToEnd' = Open(phase') + n + c
    BY <1>2, <2>1 DEF ToEnd
  <2> QED  BY <1>3, <2>1, <2>2 DEF Open, Shortens
<1>5. CASE Old!FailToRead
  <2>1. phase = "reading" /\ phase' = "error" /\ UNCHANGED <<stack, units, cut>>
    BY <1>5 DEF Old!FailToRead, Old!AtHeader, Old!AtCode, Old!input
  <2>2. ToEnd' = Open(phase') + n + c
    BY <1>2, <2>1 DEF ToEnd
  <2> QED  BY <1>3, <2>1, <2>2 DEF Open, Shortens
<1>6. CASE Old!EndList
  <2>1. UNCHANGED <<units, cut>> /\ phase = "reading"
    BY <1>6 DEF Old!EndList, Old!AtHeader, Old!input
  <2>2. CASE stack = <<>>
    <3>1. phase' = "ok" /\ stack' = stack
      BY <1>6, <2>2 DEF Old!EndList
    <3>2. ToEnd' = Open(phase') + n + c
      BY <1>2, <3>1 DEF ToEnd
    <3> QED  BY <1>3, <2>1, <3>1, <3>2 DEF Open, Shortens
  <2>3. CASE stack # <<>>
    <3>1. /\ phase' = phase /\ Old!Top.lists > 0
          /\ stack' = [stack EXCEPT ![Len(stack)] = [Old!Top EXCEPT !.lists = @ - 1]]
      BY <1>6, <2>3 DEF Old!EndList, Old!SetTop, Old!AtHeader
    <3>2. Len(stack') = n /\ Cardinality(Due(stack')) = c - 1
      BY <1>1, <1>2, <2>3, <3>1, ListEnds
    <3>3. ToEnd' = Open(phase') + n + (c - 1)
      BY <3>2 DEF ToEnd
    <3> QED  BY <1>3, <2>1, <3>1, <3>3 DEF Open, Shortens
  <2> QED  BY <2>2, <2>3
<1>7. CASE Old!EndParagraph
  <2>1. UNCHANGED <<units, cut, phase>>
    BY <1>7 DEF Old!EndParagraph, Old!input
  <2>2. Len(stack') < n /\ Cardinality(Due(stack')) = c /\ Len(stack') \in Nat
    BY <1>1, <1>2, <1>7, ParagraphEnds DEF Typed
  <2>3. ToEnd' = Open(phase) + Len(stack') + c
    BY <2>1, <2>2 DEF ToEnd
  <2> QED  BY <1>3, <2>1, <2>2, <2>3 DEF Open, Shortens
<1>8. ASSUME Old!Take PROVE Shortens
  BY <1>1, <1>8 DEF Old!Take, Shortens
<1>9. CASE \/ \E n1 \in Sizes : Old!BeginParagraph(n1)
           \/ Old!ReadLetter \/ Old!ReadTab \/ Old!ReadNewLine \/ Old!ReadControl \/ Old!ReadTable \/ Old!ReadBox
  BY <1>8, <1>9 DEF Old!BeginParagraph, Old!ReadLetter, Old!ReadTab, Old!ReadNewLine, Old!ReadControl,
                    Old!ReadTable, Old!ReadBox, Old!Read
<1>10. CASE Old!EndOfData
  BY <1>10 DEF Old!EndOfData, Shortens
<1> QED  BY <1>4, <1>5, <1>6, <1>7, <1>9, <1>10 DEF Old!Next, Old!Parse

\* parseParagraphs and parseParagraph (hwpv3.go): each step of the reader takes
\* something of the file, of which there is an end, or leaves less to be ended; and
\* once the data have ended it reads nothing more. However deeply lists are nested and
\* wherever the data end, the reader cannot go on for ever.
THEOREM ParseShortens == Spec => [](ToEnd \in Nat) /\ [][Shortens]_oldVars
<1>1. HwpInv => ToEnd \in Nat
  BY ToEndTyped DEF HwpInv
<1>2. HwpInv /\ HwpInv' /\ [Next]_vars => [Shortens]_oldVars
  <2> SUFFICES ASSUME HwpInv, HwpInv', [Next]_vars PROVE Shortens \/ UNCHANGED oldVars
    OBVIOUS
  <2>1. Old!Next \/ UNCHANGED oldVars
    BY DEF Next, vars, readerVars, Filter, Parse, Detect, ReadHwp3, ReadSections, ReadPDF, Return
  <2> QED  BY <2>1, ParseStepShortens
<1> QED  BY <1>1, <1>2, HwpInvariant, PTL DEF Spec

-----------------------------------------------------------------------------
(* The text of HWP 3. *)

\* What is read of letters, tabs and line ends.
Reads == {Old!Letter(c) : c \in Codes} \cup {Old!Tab, Old!NewLine}

TextsOf(s) == [i \in DOMAIN s |-> s[i].text]
Spellings(s) == [i \in DOMAIN s |-> Old!Spelled(s[i])]

\* The history, what is finished and what is being read are lists of signs.
TextInv == /\ paragraphs \in Seq(Seq(Signs))
           /\ seen \in Seq(Reads)
           /\ Without(FlattenSeq(paragraphs) \o FlattenSeq(TextsOf(stack)), Old!Break)
                 = FlattenSeq(Spellings(seen))

LEMMA OldOperators ==
  /\ \A ss : Old!FlattenSeq(ss) = FlattenSeq(ss)
  /\ \A s, e : Old!Without(s, e) = Without(s, e)
BY Zenon DEF Old!FlattenSeq, FlattenSeq, Old!Without, Without

LEMMA SpelledPlain ==
  ASSUME NEW x \in Reads
  PROVE  Old!Spelled(x) \in Seq(Plain) /\ Old!Spelled(x) \in Seq(Signs)
<1>1. CASE x \in {Old!Letter(c) : c \in Codes}
  <2>1. PICK c \in Codes : x = Old!Letter(c)
    BY <1>1
  <2>2. Old!Spelled(x) = Old!HncToUtf8(c)
    BY <2>1 DEF Old!Spelled, Old!Letter
  <2> QED  BY <2>2, SignsOfLetters, PlainSigns
<1>2. CASE x \in {Old!Tab, Old!NewLine}
  <2>1. x \in Plain /\ Old!Spelled(x) = <<x>>
    BY <1>2 DEF Plain, Old!Spelled, Old!Tab, Old!NewLine
  <2> QED  BY <2>1, SingleSign, PlainSigns
<1> QED  BY <1>1, <1>2 DEF Reads

LEMMA TextsAppend ==
  ASSUME NEW s \in Seq(ParagraphRecords), NEW p \in ParagraphRecords
  PROVE  /\ TextsOf(s) \in Seq(Seq(Signs)) /\ p.text \in Seq(Signs)
         /\ TextsOf(Append(s, p)) = Append(TextsOf(s), p.text)
<1>1. PICK X : X = Seq(Signs)
  OBVIOUS
<1>2. \A q \in ParagraphRecords : q.text \in X
  BY <1>1 DEF ParagraphRecords
<1>3. PICK t \in Seq(ParagraphRecords) : t = Append(s, p)
  BY AppendTyped
<1>4. /\ DOMAIN s = 1..Len(s) /\ DOMAIN t = 1..(Len(s) + 1) /\ t[Len(s) + 1] = p
      /\ \A i \in 1..Len(s) : t[i] = s[i] /\ s[i] \in ParagraphRecords
  BY <1>3
<1>5. TextsOf(s) \in [1..Len(s) -> X]
  BY <1>2, <1>4 DEF TextsOf
<1>6. TextsOf(s) \in Seq(X) /\ Len(TextsOf(s)) = Len(s)
  BY <1>5
<1>7. PICK u \in Seq(X) : u = Append(TextsOf(s), p.text)
  BY <1>2, <1>6, AppendTyped
<1>8. /\ DOMAIN u = 1..(Len(s) + 1) /\ u[Len(s) + 1] = p.text
      /\ \A i \in 1..Len(s) : u[i] = TextsOf(s)[i]
  BY <1>2, <1>6, <1>7
<1>9. \A i \in 1..Len(s) : TextsOf(s)[i] = s[i].text
  BY <1>4 DEF TextsOf
<1>10. \A i \in 1..(Len(s) + 1) : u[i] = t[i].text
  <2>1. \A i \in 1..(Len(s) + 1) : i \in 1..Len(s) \/ i = Len(s) + 1
    OBVIOUS
  <2> QED  BY <1>4, <1>8, <1>9, <2>1
<1>11. u = [i \in DOMAIN t |-> t[i].text]
  BY <1>4, <1>7, <1>8, <1>10
<1>12. TextsOf(Append(s, p)) = Append(TextsOf(s), p.text)
  BY <1>3, <1>7, <1>11 DEF TextsOf
<1> QED  BY <1>1, <1>2, <1>6, <1>12

LEMMA SpellingsAppend ==
  ASSUME NEW s \in Seq(Reads), NEW x \in Reads
  PROVE  /\ Spellings(s) \in Seq(Seq(Signs)) /\ Old!Spelled(x) \in Seq(Signs)
         /\ Spellings(Append(s, x)) = Append(Spellings(s), Old!Spelled(x))
<1>1. PICK X : X = Seq(Signs)
  OBVIOUS
<1>2. \A q \in Reads : Old!Spelled(q) \in X
  BY <1>1, SpelledPlain
<1>3. PICK t \in Seq(Reads) : t = Append(s, x)
  BY AppendTyped
<1>4. /\ DOMAIN s = 1..Len(s) /\ DOMAIN t = 1..(Len(s) + 1) /\ t[Len(s) + 1] = x
      /\ \A i \in 1..Len(s) : t[i] = s[i] /\ s[i] \in Reads
  BY <1>3
<1>5. Spellings(s) \in [1..Len(s) -> X]
  BY <1>2, <1>4 DEF Spellings
<1>6. Spellings(s) \in Seq(X) /\ Len(Spellings(s)) = Len(s)
  BY <1>5
<1>7. PICK u \in Seq(X) : u = Append(Spellings(s), Old!Spelled(x))
  BY <1>2, <1>6, AppendTyped
<1>8. /\ DOMAIN u = 1..(Len(s) + 1) /\ u[Len(s) + 1] = Old!Spelled(x)
      /\ \A i \in 1..Len(s) : u[i] = Spellings(s)[i]
  BY <1>2, <1>6, <1>7
<1>9. \A i \in 1..Len(s) : Spellings(s)[i] = Old!Spelled(s[i])
  BY <1>4 DEF Spellings
<1>10. \A i \in 1..(Len(s) + 1) : u[i] = Old!Spelled(t[i])
  <2>1. \A i \in 1..(Len(s) + 1) : i \in 1..Len(s) \/ i = Len(s) + 1
    OBVIOUS
  <2> QED  BY <1>4, <1>8, <1>9, <2>1
<1>11. u = [i \in DOMAIN t |-> Old!Spelled(t[i])]
  <2>1. u = [i \in 1..(Len(s) + 1) |-> u[i]]
    BY <1>8
  <2> QED  BY <1>4, <1>10, <2>1, Zenon
<1>12. Spellings(Append(s, x)) = Append(Spellings(s), Old!Spelled(x))
  BY <1>3, <1>7, <1>11 DEF Spellings
<1> QED  BY <1>1, <1>2, <1>6, <1>12

\* The text of the paragraphs being read, with one paragraph more.
LEMMA TextAppend ==
  ASSUME NEW s \in Seq(ParagraphRecords), NEW p \in ParagraphRecords
  PROVE  /\ FlattenSeq(TextsOf(s)) \in Seq(Signs) /\ p.text \in Seq(Signs)
         /\ FlattenSeq(TextsOf(Append(s, p))) = FlattenSeq(TextsOf(s)) \o p.text
BY TextsAppend, FlattenTyped, FlattenAppend

LEMMA SpellingAppend ==
  ASSUME NEW s \in Seq(Reads), NEW x \in Reads
  PROVE  /\ FlattenSeq(Spellings(s)) \in Seq(Signs) /\ Old!Spelled(x) \in Seq(Signs)
         /\ FlattenSeq(Spellings(Append(s, x))) = FlattenSeq(Spellings(s)) \o Old!Spelled(x)
BY SpellingsAppend, FlattenTyped, FlattenAppend

LEMMA NoText == FlattenSeq(TextsOf(<< >>)) = << >> /\ FlattenSeq(Spellings(<< >>)) = << >>
<1>1. TextsOf(<< >>) = << >> /\ Spellings(<< >>) = << >>
  BY DEF TextsOf, Spellings
<1> QED  BY <1>1, FlattenEmpty

LEMMA TextTyped ==
  ASSUME NEW s \in Seq(ParagraphRecords)
  PROVE  FlattenSeq(TextsOf(s)) \in Seq(Signs)
<1>1. CASE s = << >>
  <2>1. << >> \in Seq(Signs)
    OBVIOUS
  <2> QED  BY <1>1, <2>1, NoText
<1>2. CASE s # << >>
  <2>1. s[1] \in ParagraphRecords
    BY <1>2
  <2> QED  BY <2>1, TextAppend
<1> QED  BY <1>1, <1>2

\* A stack, and the paragraph on top of it.
OnTop(s, f, x) == /\ s = Append(f, x) /\ x = s[Len(s)] /\ f = Old!Front(s)
                  /\ \A p \in ParagraphRecords : [s EXCEPT ![Len(s)] = p] = Append(f, p)

LEMMA StackSplit ==
  ASSUME NEW s \in Seq(ParagraphRecords), s # << >>
  PROVE  \E f \in Seq(ParagraphRecords), x \in ParagraphRecords : OnTop(s, f, x)
<1>1. Len(s) - 1 \in Nat /\ Len(s) = (Len(s) - 1) + 1
  OBVIOUS
<1>2. PICK n \in Nat : Len(s) = n + 1 /\ n = Len(s) - 1
  BY <1>1
<1>3. PICK f \in Seq(ParagraphRecords), x \in ParagraphRecords : s = Append(f, x) /\ Len(f) = n
  BY <1>2, LongerSequence
<1>4. x = s[Len(s)]
  BY <1>2, <1>3
<1>5. f = Old!Front(s)
  BY <1>2, <1>3 DEF Old!Front
<1>6. ASSUME NEW p \in ParagraphRecords PROVE [s EXCEPT ![Len(s)] = p] = Append(f, p)
  BY <1>3, ReplaceLast
<1> QED  BY <1>3, <1>4, <1>5, <1>6 DEF OnTop

\* A code is read: its signs are the last of the text, and what it is read as is the
\* last of what was read.
LEMMA ReadKeepsText ==
  ASSUME HwpInv, HwpInv', TextInv, NEW k \in 0..MaxSkip, NEW read \in Seq(Reads), NEW signs \in Seq(Plain),
         NEW lists \in Nat, Old!Read(k, read, signs, lists),
         FlattenSeq(Spellings(seen \o read)) = FlattenSeq(Spellings(seen)) \o signs
  PROVE  TextInv'
<1> DEFINE p == [Old!Top EXCEPT !.count = (@ + 1 + k) % Width, !.total = @ + 1 + k,
                            !.text = @ \o signs, !.lists = lists]
<1>1. /\ stack # << >> /\ stack' = [stack EXCEPT ![Len(stack)] = p]
      /\ seen' = seen \o read /\ paragraphs' = paragraphs
  BY DEF Old!Read, Old!AtCode, Old!Take, Old!SetTop, Old!layout
<1>2. PICK f \in Seq(ParagraphRecords), x \in ParagraphRecords :
         /\ stack = Append(f, x) /\ x = Old!Top
         /\ \A q \in ParagraphRecords : [stack EXCEPT ![Len(stack)] = q] = Append(f, q)
  <2>1. stack \in Seq(ParagraphRecords) /\ stack # << >> /\ Old!Top = stack[Len(stack)]
    BY <1>1 DEF HwpInv, Typed, Old!Top
  <2>2. PICK f \in Seq(ParagraphRecords), x \in ParagraphRecords : OnTop(stack, f, x)
    BY <2>1, StackSplit
  <2> QED  BY <2>1, <2>2 DEF OnTop
<1>3. p.text = x.text \o signs
  BY <1>2 DEF ParagraphRecords
<1> HIDE DEF p
<1>4. PICK q \in ParagraphRecords : q = p
  <2>1. Len(stack) \in DOMAIN stack /\ stack' \in Seq(ParagraphRecords)
    BY <1>1 DEF HwpInv, Typed
  <2>2. DOMAIN stack' = DOMAIN stack /\ stack'[Len(stack)] = p
    BY <1>1, <2>1
  <2>3. stack'[Len(stack)] \in ParagraphRecords
    BY <2>1, <2>2
  <2> QED  BY <2>2, <2>3
<1>5. stack' = Append(f, q)
  BY <1>1, <1>2, <1>4
<1> DEFINE a == FlattenSeq(paragraphs)  b == FlattenSeq(TextsOf(f))  c == x.text
<1>6. a \in Seq(Signs) /\ b \in Seq(Signs) /\ c \in Seq(Signs) /\ signs \in Seq(Signs)
      /\ Without(signs, Old!Break) = signs
  BY <1>2, FlattenTyped, TextTyped, TextAppend, PlainSigns DEF TextInv
<1>7. FlattenSeq(TextsOf(stack)) = b \o c /\ FlattenSeq(TextsOf(stack')) = b \o (c \o signs)
  BY <1>2, <1>3, <1>4, <1>5, TextAppend
<1>8. Without(a \o (b \o c), Old!Break) = FlattenSeq(Spellings(seen))
  BY <1>7 DEF TextInv
<1>9. seen' \in Seq(Reads)
  BY <1>1, ConcatTyped DEF TextInv
<1> HIDE DEF a, b, c
<1>10. Without(a \o (b \o (c \o signs)), Old!Break) = Without(a \o (b \o c), Old!Break) \o signs
  <2>1. LongerWithout(a, b, c, signs, Old!Break)
    BY <1>6, WithoutLonger
  <2> QED  BY <1>6, <2>1 DEF LongerWithout
<1>11. FlattenSeq(Spellings(seen')) = FlattenSeq(Spellings(seen)) \o signs
  BY <1>1
<1>12. Without(a \o FlattenSeq(TextsOf(stack')), Old!Break) = FlattenSeq(Spellings(seen'))
  BY <1>7, <1>8, <1>10, <1>11
<1> QED  BY <1>1, <1>9, <1>12 DEF TextInv, a

\* A code that is text is read as what its signs spell; a control is neither.
LEMMA ReadOneKeepsText ==
  ASSUME HwpInv, HwpInv', TextInv, NEW k \in 0..MaxSkip, NEW x \in Reads, NEW lists \in Nat,
         Old!Read(k, <<x>>, Old!Spelled(x), lists)
  PROVE  TextInv'
<1>1. seen \o <<x>> = Append(seen, x) /\ <<x>> \in Seq(Reads)
  BY DEF TextInv
<1>2. FlattenSeq(Spellings(seen \o <<x>>)) = FlattenSeq(Spellings(seen)) \o Old!Spelled(x)
  BY <1>1, SpellingAppend DEF TextInv
<1> QED  BY <1>1, <1>2, SpelledPlain, ReadKeepsText

LEMMA ReadNoneKeepsText ==
  ASSUME HwpInv, HwpInv', TextInv, NEW k \in 0..MaxSkip, NEW lists \in Nat, Old!Read(k, << >>, << >>, lists)
  PROVE  TextInv'
<1>1. << >> \in Seq(Reads) /\ << >> \in Seq(Plain) /\ seen \o << >> = seen
  BY ConcatEmpty DEF TextInv
<1>2. FlattenSeq(Spellings(seen)) \o << >> = FlattenSeq(Spellings(seen))
  <2>1. FlattenSeq(Spellings(seen)) \in Seq(Signs)
    <3>1. FlattenSeq(paragraphs) \o FlattenSeq(TextsOf(stack)) \in Seq(Signs)
      BY FlattenTyped, TextTyped, ConcatTyped DEF TextInv, HwpInv, Typed
    <3> QED  BY <3>1, WithoutTyped DEF TextInv
  <2> QED  BY <2>1, ConcatEmpty
<1> QED  BY <1>1, <1>2, ReadKeepsText

\* The text of a nested paragraph stays behind that of the one it is in, with a line
\* break that is in no text.
LEMMA EndNestedKeepsText ==
  ASSUME HwpInv, HwpInv', TextInv, Old!EndParagraph, Old!Front(stack) # << >>
  PROVE  TextInv'
<1>1. PICK outer : outer = Old!Front(stack)
  OBVIOUS
<1> DEFINE p == [outer[Len(outer)] EXCEPT !.text = @ \o Append(Old!Top.text, Old!Break)]
<1>2. /\ stack # << >> /\ outer # << >>
      /\ stack' = [outer EXCEPT ![Len(outer)] = p]
      /\ seen' = seen /\ paragraphs' = paragraphs
  <2>1. stack' = [outer EXCEPT ![Len(outer)].text = @ \o Append(Old!Top.text, Old!Break)]
        /\ UNCHANGED Old!layout
    BY <1>1 DEF Old!EndParagraph
  <2> QED  BY <1>1, <2>1 DEF Old!EndParagraph, Old!AtEnd, Old!layout
<1>3. PICK f \in Seq(ParagraphRecords), x \in ParagraphRecords :
         stack = Append(f, x) /\ x = Old!Top /\ f = outer
  BY <1>1, <1>2, StackSplit DEF HwpInv, Typed, Old!Top, OnTop
<1>4. PICK g \in Seq(ParagraphRecords), y \in ParagraphRecords :
         /\ f = Append(g, y) /\ y = outer[Len(outer)]
         /\ \A q \in ParagraphRecords : [outer EXCEPT ![Len(outer)] = q] = Append(g, q)
  <2>1. f \in Seq(ParagraphRecords) /\ f # << >>
    BY <1>2, <1>3
  <2>2. PICK g \in Seq(ParagraphRecords), y \in ParagraphRecords : OnTop(f, g, y)
    BY <2>1, StackSplit
  <2> QED  BY <1>3, <2>2 DEF OnTop
<1>5. p.text = y.text \o Append(x.text, Old!Break)
  BY <1>3, <1>4 DEF ParagraphRecords
<1>6. p \in ParagraphRecords
  <2>1. Old!Break \in Signs /\ x.text \in Seq(Signs) /\ y.text \in Seq(Signs)
    BY DEF Signs, ParagraphRecords
  <2>2. y.text \o Append(x.text, Old!Break) \in Seq(Signs)
    BY <2>1, AppendTyped, ConcatTyped
  <2>3. p = [y EXCEPT !.text = y.text \o Append(x.text, Old!Break)]
    BY <1>3, <1>4
  <2> HIDE DEF p
  <2> QED  BY <2>2, <2>3 DEF ParagraphRecords
<1> HIDE DEF p
<1>7. PICK q \in ParagraphRecords : q = p
  BY <1>6
<1>8. stack' = Append(g, q)
  BY <1>2, <1>4, <1>7
<1> DEFINE a == FlattenSeq(paragraphs)  b == FlattenSeq(TextsOf(g))  c == y.text  d == x.text
<1>9. a \in Seq(Signs) /\ b \in Seq(Signs) /\ c \in Seq(Signs) /\ d \in Seq(Signs) /\ Old!Break \in Signs
  BY <1>3, <1>4, FlattenTyped, TextTyped, TextAppend DEF TextInv, Signs
<1>10. /\ FlattenSeq(TextsOf(stack)) = (b \o c) \o d
       /\ FlattenSeq(TextsOf(stack')) = b \o (c \o Append(d, Old!Break))
  <2>1. FlattenSeq(TextsOf(f)) = b \o c
    BY <1>4, TextAppend
  <2>2. FlattenSeq(TextsOf(stack)) = (b \o c) \o d
    BY <1>3, <2>1, TextAppend
  <2>3. FlattenSeq(TextsOf(stack')) = b \o (c \o Append(d, Old!Break))
    BY <1>5, <1>7, <1>8, TextAppend
  <2> QED  BY <2>2, <2>3
<1>11. Without(a \o ((b \o c) \o d), Old!Break) = FlattenSeq(Spellings(seen))
  BY <1>10 DEF TextInv
<1> HIDE DEF a, b, c, d
<1>12. Without(a \o (b \o (c \o Append(d, Old!Break))), Old!Break) = Without(a \o ((b \o c) \o d), Old!Break)
  BY <1>9, WithoutLast
<1>13. Without(a \o FlattenSeq(TextsOf(stack')), Old!Break) = FlattenSeq(Spellings(seen))
  BY <1>10, <1>11, <1>12
<1> QED  BY <1>2, <1>13 DEF TextInv, a

\* The text of an outer one becomes the last of the document's.
LEMMA EndOuterKeepsText ==
  ASSUME HwpInv, TextInv, Old!EndParagraph, Old!Front(stack) = << >>
  PROVE  TextInv'
<1>1. /\ stack # << >> /\ stack' = << >> /\ seen' = seen
      /\ paragraphs' = Append(paragraphs, Old!Top.text)
  BY DEF Old!EndParagraph, Old!AtEnd, Old!Place
<1>2. PICK f \in Seq(ParagraphRecords), x \in ParagraphRecords :
         stack = Append(f, x) /\ x = Old!Top /\ f = << >>
  BY <1>1, StackSplit DEF HwpInv, Typed, Old!Top, OnTop
<1> DEFINE a == FlattenSeq(paragraphs)
<1>3. a \in Seq(Signs) /\ x.text \in Seq(Signs) /\ paragraphs \in Seq(Seq(Signs))
  BY FlattenTyped, TextAppend DEF TextInv
<1>4. FlattenSeq(paragraphs') = a \o x.text
  BY <1>1, <1>2, <1>3, FlattenAppend
<1>5. FlattenSeq(TextsOf(stack)) = x.text
  <2>1. FlattenSeq(TextsOf(Append(f, x))) = FlattenSeq(TextsOf(f)) \o x.text
    BY TextAppend
  <2>2. << >> \o x.text = x.text
    BY <1>3, ConcatEmpty
  <2> QED  BY <1>2, <2>1, <2>2, NoText
<1>6. FlattenSeq(TextsOf(stack')) = << >>
  BY <1>1, NoText
<1>7. (a \o x.text) \o << >> = a \o x.text
  BY <1>3, ConcatTyped, ConcatEmpty
<1>8. Without(FlattenSeq(paragraphs') \o FlattenSeq(TextsOf(stack')), Old!Break) = FlattenSeq(Spellings(seen))
  BY <1>4, <1>5, <1>6, <1>7 DEF TextInv
<1>9. paragraphs' \in Seq(Seq(Signs))
  <2>1. PICK X : X = Seq(Signs)
    OBVIOUS
  <2>2. Append(paragraphs, x.text) \in Seq(X)
    BY <1>3, <2>1, AppendTyped
  <2> QED  BY <1>1, <1>2, <2>1, <2>2
<1> QED  BY <1>1, <1>8, <1>9 DEF TextInv

\* A list that begins or ends changes no text.
LEMMA OtherKeepsText ==
  ASSUME HwpInv, TextInv, UNCHANGED <<paragraphs, seen>>,
         FlattenSeq(TextsOf(stack')) = FlattenSeq(TextsOf(stack))
  PROVE  TextInv'
BY DEF TextInv

LEMMA BeginKeepsText ==
  ASSUME HwpInv, TextInv, NEW n \in Sizes, Old!BeginParagraph(n)
  PROVE  TextInv'
<1>1. stack' = Append(stack, Old!Paragraph(n)) /\ UNCHANGED <<paragraphs, seen>>
  BY DEF Old!BeginParagraph, Old!layout
<1>2. Old!Paragraph(n) \in ParagraphRecords /\ Old!Paragraph(n).text = << >>
  BY SizeTyped DEF Old!Paragraph, ParagraphRecords
<1>3. PICK p \in ParagraphRecords : p = Old!Paragraph(n) /\ p.text = << >>
  BY <1>2
<1>4. FlattenSeq(TextsOf(Append(stack, p))) = FlattenSeq(TextsOf(stack)) \o p.text
      /\ FlattenSeq(TextsOf(stack)) \in Seq(Signs)
  BY TextAppend DEF HwpInv, Typed
<1>5. FlattenSeq(TextsOf(stack)) \o << >> = FlattenSeq(TextsOf(stack))
  BY <1>4, ConcatEmpty
<1> QED  BY <1>1, <1>3, <1>4, <1>5, OtherKeepsText

LEMMA EndListKeepsText ==
  ASSUME HwpInv, HwpInv', TextInv, Old!EndList
  PROVE  TextInv'
<1>1. UNCHANGED <<paragraphs, seen>>
  BY DEF Old!EndList, Old!layout
<1>2. CASE stack = << >>
  <2>1. stack' = stack
    BY <1>2 DEF Old!EndList
  <2> QED  BY <1>1, <2>1, OtherKeepsText
<1>3. CASE stack # << >>
  <2> DEFINE p == [Old!Top EXCEPT !.lists = @ - 1]
  <2>1. stack' = [stack EXCEPT ![Len(stack)] = p]
    BY <1>3 DEF Old!EndList, Old!AtHeader, Old!SetTop
  <2>2. PICK f \in Seq(ParagraphRecords), x \in ParagraphRecords :
           /\ stack = Append(f, x) /\ x = Old!Top
           /\ \A q \in ParagraphRecords : [stack EXCEPT ![Len(stack)] = q] = Append(f, q)
    BY <1>3, StackSplit DEF HwpInv, Typed, Old!Top, OnTop
  <2>3. p.text = x.text
    BY <2>2 DEF ParagraphRecords
  <2> HIDE DEF p
  <2>4. PICK q \in ParagraphRecords : q = p
    <3>1. Len(stack) \in DOMAIN stack /\ stack' \in Seq(ParagraphRecords)
      BY <1>3 DEF HwpInv, Typed
    <3>2. DOMAIN stack' = DOMAIN stack /\ stack'[Len(stack)] = p
      BY <2>1, <3>1
    <3>3. stack'[Len(stack)] \in ParagraphRecords
      BY <3>1, <3>2
    <3> QED  BY <3>2, <3>3
  <2>5. stack' = Append(f, q)
    BY <2>1, <2>2, <2>4
  <2>6. FlattenSeq(TextsOf(Append(f, q))) = FlattenSeq(TextsOf(f)) \o q.text
        /\ FlattenSeq(TextsOf(Append(f, x))) = FlattenSeq(TextsOf(f)) \o x.text
    BY TextAppend
  <2> QED  BY <1>1, <2>2, <2>3, <2>4, <2>5, <2>6, OtherKeepsText
<1> QED  BY <1>2, <1>3

PagesInv == pages \in Seq(Seq(Nat)) /\ pages # << >> /\ Old!PagesInOrder

Numbered(n) == [i \in 1..n |-> i]

LEMMA NextNumber ==
  ASSUME NEW n \in Nat
  PROVE  Numbered(n) \in Seq(Nat) /\ Numbered(n + 1) = Append(Numbered(n), n + 1)
<1>1. Numbered(n) \in Seq(Nat) /\ Len(Numbered(n)) = n
  BY DEF Numbered
<1>2. PICK s \in Seq(Nat) : s = Append(Numbered(n), n + 1)
  <2>1. n + 1 \in Nat
    OBVIOUS
  <2> QED  BY <1>1, <2>1, AppendTyped
<1>3. Len(s) = n + 1 /\ s[n + 1] = n + 1 /\ \A i \in 1..n : s[i] = Numbered(n)[i]
  BY <1>1, <1>2
<1>4. \A i \in 1..n : Numbered(n)[i] = i
  BY DEF Numbered
<1>5. \A i \in 1..(n + 1) : s[i] = i
  <2>1. \A i \in 1..(n + 1) : i \in 1..n \/ i = n + 1
    OBVIOUS
  <2> QED  BY <1>3, <1>4, <2>1
<1>6. s = [i \in 1..(n + 1) |-> s[i]]
  BY <1>3
<1>7. s = [i \in 1..(n + 1) |-> i]
  BY <1>5, <1>6, Zenon
<1> QED  BY <1>1, <1>2, <1>7 DEF Numbered

\* The next number goes to the last page, or to a new one.
LEMMA PageGrows ==
  ASSUME NEW ps \in Seq(Seq(Nat)), ps # << >>, NEW k \in Nat
  PROVE  /\ FlattenSeq(Append(ps, <<k>>)) = Append(FlattenSeq(ps), k)
         /\ FlattenSeq([ps EXCEPT ![Len(ps)] = Append(ps[Len(ps)], k)]) = Append(FlattenSeq(ps), k)
         /\ Append(ps, <<k>>) \in Seq(Seq(Nat))
         /\ [ps EXCEPT ![Len(ps)] = Append(ps[Len(ps)], k)] \in Seq(Seq(Nat))
<1>1. PICK X : X = Seq(Nat)
  OBVIOUS
<1>2. ps \in Seq(X) /\ Len(ps) \in Nat /\ Len(ps) # 0
  BY <1>1
<1>3. PICK n \in Nat : Len(ps) = n + 1
  <2>1. Len(ps) - 1 \in Nat /\ Len(ps) = (Len(ps) - 1) + 1
    BY <1>2
  <2> QED  BY <2>1
<1>4. PICK f \in Seq(X), x \in X : ps = Append(f, x) /\ Len(f) = n
  BY <1>2, <1>3, LongerSequence
<1>5. ps[Len(ps)] = x
  BY <1>3, <1>4
<1>6. PICK y \in X : y = Append(x, k)
  BY <1>1, AppendTyped
<1>7. [ps EXCEPT ![Len(ps)] = y] = Append(f, y)
  BY <1>4, ReplaceLast
<1>8. FlattenSeq(f) \in Seq(Nat) /\ FlattenSeq(ps) \in Seq(Nat)
  BY <1>1, <1>2, FlattenTyped
<1>9. FlattenSeq(Append(f, y)) = FlattenSeq(f) \o y /\ FlattenSeq(ps) = FlattenSeq(f) \o x
  BY <1>1, <1>4, FlattenAppend
<1>10. FlattenSeq(f) \o Append(x, k) = Append(FlattenSeq(f) \o x, k)
  BY <1>1, <1>8, ConcatAppend
<1>11. FlattenSeq(Append(f, y)) = Append(FlattenSeq(ps), k)
  BY <1>6, <1>9, <1>10
<1>12. Append(f, y) \in Seq(X)
  BY AppendTyped
<1>13. PICK z \in X : z = <<k>>
  BY <1>1, SingleSign
<1>14. FlattenSeq(Append(ps, z)) = FlattenSeq(ps) \o z
  BY <1>1, <1>2, FlattenAppend
<1>15. FlattenSeq(ps) \o <<k>> = Append(FlattenSeq(ps), k)
  BY <1>8
<1>16. Append(ps, z) \in Seq(X)
  BY <1>2, AppendTyped
<1> QED  BY <1>1, <1>5, <1>6, <1>7, <1>11, <1>12, <1>13, <1>14, <1>15, <1>16

\* A finished paragraph is placed behind those that are.
LEMMA PlaceKeepsPages ==
  ASSUME PagesInv, paragraphs \in Seq(Seq(Signs)), NEW whole \in Seq(Signs), Old!Place(whole)
  PROVE  PagesInv'
<1>1. PICK n \in Nat, k \in Nat : n = Len(paragraphs) /\ k = n + 1
  OBVIOUS
<1>2. paragraphs' = Append(paragraphs, whole)
  BY DEF Old!Place
<1>3. DOMAIN paragraphs = 1..n /\ DOMAIN paragraphs' = 1..(n + 1)
  BY <1>1, <1>2
<1>4. FlattenSeq(pages) = Numbered(n)
  BY <1>3, OldOperators DEF PagesInv, Old!PagesInOrder, Numbered
<1>5. Append(FlattenSeq(pages), k) = Numbered(n + 1)
  BY <1>1, <1>4, NextNumber
<1>6. PICK y : y = Append(pages[Len(pages)], k)
  OBVIOUS
<1>7. CASE pages' = Append(pages, <<k>>)
  <2>1. FlattenSeq(pages') = Numbered(n + 1) /\ pages' \in Seq(Seq(Nat))
    BY <1>5, <1>7, PageGrows DEF PagesInv
  <2>2. \A i \in DOMAIN pages' : (i \in DOMAIN pages /\ pages'[i] = pages[i]) \/ pages'[i] = <<k>>
    <3>1. PICK X : X = Seq(Nat)
      OBVIOUS
    <3>2. PICK z \in X : z = <<k>>
      BY <3>1, SingleSign
    <3>3. pages \in Seq(X) /\ pages' = Append(pages, z)
      BY <1>7, <3>1, <3>2 DEF PagesInv
    <3>4. \A i \in DOMAIN pages' : (i \in DOMAIN pages /\ pages'[i] = pages[i]) \/ pages'[i] = z
      BY <3>3
    <3> QED  BY <3>2, <3>4
  <2>3. pages' # << >>
    BY <1>7 DEF PagesInv
  <2>4. <<k>> # << >>
    OBVIOUS
  <2> QED  BY <1>3, <2>1, <2>2, <2>3, <2>4, OldOperators DEF PagesInv, Old!PagesInOrder, Numbered
<1>8. CASE pages' = [pages EXCEPT ![Len(pages)] = y]
  <2>1. FlattenSeq(pages') = Numbered(n + 1) /\ pages' \in Seq(Seq(Nat))
    BY <1>5, <1>6, <1>8, PageGrows DEF PagesInv
  <2>2. \A i \in DOMAIN pages' : i \in DOMAIN pages /\ (pages'[i] = pages[i] \/ pages'[i] = y)
    BY <1>8
  <2>3. y # << >>
    <3>1. pages[Len(pages)] \in Seq(Nat)
      BY DEF PagesInv
    <3>2. PICK x \in Seq(Nat) : x = pages[Len(pages)]
      BY <3>1
    <3>3. Append(x, k) # << >>
      OBVIOUS
    <3> QED  BY <1>6, <3>2, <3>3
  <2>4. pages' # << >>
    <3>1. DOMAIN pages' = DOMAIN pages /\ DOMAIN pages # {}
      BY <1>8 DEF PagesInv
    <3> QED  BY <3>1
  <2> QED  BY <1>3, <2>1, <2>2, <2>3, <2>4, OldOperators DEF PagesInv, Old!PagesInOrder, Numbered
<1>9. pages' = Append(pages, <<k>>) \/ pages' = [pages EXCEPT ![Len(pages)] = Append(pages[Len(pages)], k)]
  BY <1>1 DEF Old!Place
<1> QED  BY <1>6, <1>7, <1>8, <1>9

\* All that was read and all that was placed.
HwpTextInv == HwpInv /\ TextInv /\ PagesInv

LEMMA HwpTextInit == Old!Init => TextInv /\ PagesInv
<1> SUFFICES ASSUME Old!Init PROVE TextInv /\ PagesInv
  OBVIOUS
<1>1. paragraphs = << >> /\ seen = << >> /\ stack = << >> /\ pages = << << >> >>
  BY DEF Old!Init
<1>2. << >> \in Seq(Seq(Signs)) /\ << >> \in Seq(Reads) /\ << >> \in Seq(Signs) /\ << >> \in Seq(Nat)
  OBVIOUS
<1>3. TextInv
  <2>1. FlattenSeq(paragraphs) \o FlattenSeq(TextsOf(stack)) = << >>
    BY <1>1, <1>2, FlattenEmpty, NoText, ConcatEmpty
  <2> QED  BY <1>1, <1>2, <2>1, NoText, WithoutEmpty DEF TextInv
<1>4. PagesInv
  <2>1. PICK X : X = Seq(Nat)
    OBVIOUS
  <2>2. PICK z \in X : z = << >>
    BY <1>2, <2>1
  <2>3. pages = Append(<< >>, z) /\ << >> \in Seq(X)
    BY <1>1, <2>2
  <2>4. pages \in Seq(X) /\ DOMAIN pages = {1}
    BY <1>1, <2>2, <2>3, AppendTyped
  <2>5. FlattenSeq(pages) = << >>
    <3>1. FlattenSeq(Append(<< >>, z)) = FlattenSeq(<< >>) \o z
      BY <2>1, <2>3, FlattenAppend
    <3> QED  BY <1>2, <2>2, <2>3, <3>1, FlattenEmpty, ConcatEmpty
  <2>6. [i \in DOMAIN paragraphs |-> i] = << >>
    BY <1>1
  <2>7. Old!PagesInOrder
    BY <2>4, <2>5, <2>6, OldOperators DEF Old!PagesInOrder
  <2> QED  BY <1>1, <2>1, <2>4, <2>7 DEF PagesInv
<1> QED  BY <1>3, <1>4

LEMMA HwpTextStep == HwpTextInv /\ [Old!Next]_(Old!hwp3Vars) => HwpTextInv'
<1> SUFFICES ASSUME HwpTextInv, [Old!Next]_(Old!hwp3Vars) PROVE HwpTextInv'
  OBVIOUS
<1>1. HwpInv /\ TextInv /\ PagesInv /\ HwpInv'
  BY HwpStep DEF HwpTextInv
<1>2. 3 \in 0..MaxSkip /\ 0 \in 0..MaxSkip /\ Skips \subseteq 0..MaxSkip
  BY CountAssumption
<1>3. ASSUME UNCHANGED <<stack, paragraphs, pages, seen>> PROVE HwpTextInv'
  BY <1>1, <1>3 DEF HwpTextInv, TextInv, PagesInv, Old!PagesInOrder
<1>4. ASSUME UNCHANGED <<paragraphs, pages>>, TextInv' PROVE HwpTextInv'
  BY <1>1, <1>4 DEF HwpTextInv, PagesInv, Old!PagesInOrder
<1>5. ASSUME NEW k, NEW read, NEW signs, NEW lists, Old!Read(k, read, signs, lists)
      PROVE  UNCHANGED <<paragraphs, pages>>
  BY <1>5 DEF Old!Read, Old!layout
<1>6. CASE Old!ReadFront \/ Old!EndOfData \/ Old!FailToRead
  BY <1>3, <1>6 DEF Old!ReadFront, Old!EndOfData, Old!FailToRead, Old!layout
<1>7. CASE Old!EndList
  <2>1. UNCHANGED <<paragraphs, pages>>
    BY <1>7 DEF Old!EndList, Old!layout
  <2> QED  BY <1>1, <1>4, <1>7, <2>1, EndListKeepsText
<1>8. CASE Old!EndParagraph
  <2>1. CASE Old!Front(stack) = << >>
    <3>1. Old!Place(Old!Top.text) /\ stack # << >>
      BY <1>8, <2>1 DEF Old!EndParagraph, Old!AtEnd
    <3>2. Old!Top.text \in Seq(Signs)
      BY <1>1, <3>1, TopTyped DEF HwpInv
    <3>3. PagesInv'
      BY <1>1, <3>1, <3>2, PlaceKeepsPages DEF TextInv
    <3> QED  BY <1>1, <1>8, <2>1, <3>3, EndOuterKeepsText DEF HwpTextInv
  <2>2. CASE Old!Front(stack) # << >>
    <3>1. UNCHANGED <<paragraphs, pages>>
      BY <1>8, <2>2 DEF Old!EndParagraph, Old!layout
    <3> QED  BY <1>1, <1>4, <1>8, <2>2, <3>1, EndNestedKeepsText
  <2> QED  BY <2>1, <2>2
<1>9. CASE \E n \in Sizes : Old!BeginParagraph(n)
  <2>1. UNCHANGED <<paragraphs, pages>>
    BY <1>9 DEF Old!BeginParagraph, Old!layout
  <2> QED  BY <1>1, <1>4, <1>9, <2>1, BeginKeepsText
<1>10. CASE Old!ReadLetter
  <2>1. PICK c \in Codes : Old!Read(0, <<Old!Letter(c)>>, Old!HncToUtf8(c), 0)
    BY <1>10 DEF Old!ReadLetter
  <2>2. Old!Letter(c) \in Reads /\ Old!Spelled(Old!Letter(c)) = Old!HncToUtf8(c)
    BY DEF Reads, Old!Spelled, Old!Letter
  <2>3. TextInv'
    BY <1>1, <1>2, <2>1, <2>2, ReadOneKeepsText
  <2> QED  BY <1>4, <1>5, <2>1, <2>3
<1>11. CASE Old!ReadTab
  <2>1. Old!Tab \in Reads /\ Old!Spelled(Old!Tab) = <<Old!Tab>>
    BY DEF Reads, Old!Spelled, Old!Tab
  <2>2. Old!Read(3, <<Old!Tab>>, <<Old!Tab>>, 0)
    BY <1>11 DEF Old!ReadTab
  <2>3. TextInv'
    BY <1>1, <1>2, <2>1, <2>2, ReadOneKeepsText
  <2> QED  BY <1>4, <1>5, <2>2, <2>3
<1>12. CASE Old!ReadNewLine
  <2>1. Old!NewLine \in Reads /\ Old!Spelled(Old!NewLine) = <<Old!NewLine>>
    BY DEF Reads, Old!Spelled, Old!NewLine
  <2>2. Old!Read(0, <<Old!NewLine>>, <<Old!NewLine>>, 0)
    BY <1>12 DEF Old!ReadNewLine
  <2>3. TextInv'
    BY <1>1, <1>2, <2>1, <2>2, ReadOneKeepsText
  <2> QED  BY <1>4, <1>5, <2>2, <2>3
<1>13. ASSUME NEW k \in 0..MaxSkip, NEW lists \in Nat, Old!Read(k, << >>, << >>, lists)
       PROVE  HwpTextInv'
  BY <1>1, <1>4, <1>5, <1>13, ReadNoneKeepsText
<1>14. CASE Old!ReadControl
  BY <1>2, <1>13, <1>14 DEF Old!ReadControl
<1>15. CASE Old!ReadTable
  <2>1. PICK cells \in Cells : Old!Read(3, <<>>, <<>>, cells + 1)
    BY <1>15 DEF Old!ReadTable
  <2>2. cells + 1 \in Nat
    BY BoundAssumption
  <2> QED  BY <1>2, <1>13, <2>1, <2>2
<1>16. CASE Old!ReadBox
  BY <1>2, <1>13, <1>16 DEF Old!ReadBox
<1>17. CASE UNCHANGED Old!hwp3Vars
  BY <1>3, <1>17 DEF Old!hwp3Vars, Old!layout
<1> QED  BY <1>6, <1>7, <1>8, <1>9, <1>10, <1>11, <1>12, <1>14, <1>15, <1>16, <1>17
         DEF Old!Next, Old!Parse

LEMMA HwpTextInvariant == Spec => []HwpTextInv
<1>1. Init => HwpTextInv
  BY HwpInit, HwpTextInit DEF Init, HwpTextInv
<1>2. HwpTextInv /\ [Next]_vars => HwpTextInv'
  BY HwpTextStep, HwpSteps
<1> QED  BY <1>1, <1>2, PTL DEF Spec

\* All text that parseParagraph reads is in the document, once and in the order of the
\* file, at every depth of tables, notes and captions; and parseParagraphs puts the
\* paragraphs on the pages in their order, with no page empty but the first.
THEOREM TextIsInOrder == Spec => []TextInOrder
<1>1. HwpTextInv => TextInOrder
  BY OldOperators, Zenon DEF HwpTextInv, TextInv, PagesInv, TextInOrder, Old!TextInOrder, Old!Texts,
     TextsOf, Spellings
<1> QED  BY <1>1, HwpTextInvariant, PTL

-----------------------------------------------------------------------------
(* The order of the sections' names. *)

LEMMA NamesAreOrdered ==
  ASSUME NEW a \in Nat, NEW b \in Nat
  PROVE  /\ Sections!NameBefore(a, b) \/ Sections!NameBefore(b, a) \/ a = b
         /\ ~(Sections!NameBefore(a, b) /\ Sections!NameBefore(b, a))
         /\ ~Sections!NameBefore(a, a)
         /\ a < 10 /\ b < 10 => (Sections!NameBefore(a, b) <=> a < b)
BY SMT DEF Sections!NameBefore

LEMMA NamesAreTransitive ==
  ASSUME NEW a \in Nat, NEW b \in Nat, NEW c \in Nat,
         Sections!NameBefore(a, b), Sections!NameBefore(b, c)
  PROVE  Sections!NameBefore(a, c)
BY SMT DEF Sections!NameBefore

\* The names before one, and it.
Before(s, i) == {j \in 1..Len(s) : Sections!NameBefore(s[j], s[i]) \/ (s[j] = s[i] /\ j <= i)}

LEMMA SectionsCardinality == \A S : Sections!Cardinality(S) = Cardinality(S)
BY Zenon DEF Sections!Cardinality, Cardinality

LEMMA PlaceIs ==
  ASSUME NEW s \in Seq(Nat), NEW i \in 1..Len(s)
  PROVE  /\ Sections!PlaceOf(s, i) = Cardinality(Before(s, i))
         /\ IsFiniteSet(Before(s, i)) /\ i \in Before(s, i)
         /\ Sections!PlaceOf(s, i) \in 1..Len(s)
<1>1. DOMAIN s = 1..Len(s)
  OBVIOUS
<1>2. Sections!PlaceOf(s, i) = Cardinality(Before(s, i))
  BY <1>1, SectionsCardinality, Zenon DEF Sections!PlaceOf, Before
<1>3. IsFiniteSet(1..Len(s)) /\ Cardinality(1..Len(s)) = Len(s)
  <2>1. PICK n \in Nat : n = Len(s)
    OBVIOUS
  <2>2. IsFiniteSet(1..n) /\ Cardinality(1..n) = n
    BY FS_Interval
  <2> QED  BY <2>1, <2>2
<1>4. Before(s, i) \in SUBSET (1..Len(s)) /\ i \in Before(s, i)
  BY DEF Before
<1>5. /\ IsFiniteSet(Before(s, i)) /\ Cardinality(Before(s, i)) <= Len(s)
      /\ Cardinality(Before(s, i)) \in Nat /\ Cardinality(Before(s, i)) # 0
  BY <1>3, <1>4, FS_Subset, FS_CardinalityType, FS_EmptySet
<1> QED  BY <1>2, <1>4, <1>5

\* A name that is before another gets a place before it.
LEMMA PlacesKeepOrder ==
  ASSUME NEW s \in Seq(Nat), NEW i \in 1..Len(s), NEW j \in 1..Len(s),
         Sections!NameBefore(s[i], s[j]) \/ (s[i] = s[j] /\ i < j)
  PROVE  Sections!PlaceOf(s, i) < Sections!PlaceOf(s, j)
<1>1. s[i] \in Nat /\ s[j] \in Nat /\ \A k \in 1..Len(s) : s[k] \in Nat
  OBVIOUS
<1>2. j \notin Before(s, i)
  BY <1>1, NamesAreOrdered DEF Before
<1>3. Before(s, i) \subseteq Before(s, j)
  <2> SUFFICES ASSUME NEW k \in Before(s, i) PROVE k \in Before(s, j)
    OBVIOUS
  <2>1. k \in 1..Len(s) /\ s[k] \in Nat
    BY <1>1 DEF Before
  <2>2. CASE Sections!NameBefore(s[k], s[i])
    <3>1. Sections!NameBefore(s[k], s[j])
      BY <1>1, <2>1, <2>2, NamesAreTransitive
    <3> QED  BY <2>1, <3>1 DEF Before
  <2>3. CASE s[k] = s[i] /\ k <= i
    BY <2>1, <2>3 DEF Before
  <2> QED  BY <2>2, <2>3 DEF Before
<1>4. j \in Before(s, j) /\ IsFiniteSet(Before(s, j))
  BY PlaceIs
<1>5. Cardinality(Before(s, i)) <= Cardinality(Before(s, j))
      /\ (Cardinality(Before(s, i)) = Cardinality(Before(s, j)) => Before(s, i) = Before(s, j))
  BY <1>3, <1>4, FS_Subset
<1>6. Sections!PlaceOf(s, i) = Cardinality(Before(s, i)) /\ Sections!PlaceOf(s, i) \in 1..Len(s)
  BY PlaceIs
<1>7. Sections!PlaceOf(s, j) = Cardinality(Before(s, j)) /\ Sections!PlaceOf(s, j) \in 1..Len(s)
  BY PlaceIs
<1>8. Cardinality(Before(s, i)) \in Nat /\ Cardinality(Before(s, j)) \in Nat
  BY <1>6, <1>7
<1> QED  BY <1>2, <1>4, <1>5, <1>6, <1>7, <1>8

LEMMA PlacesDiffer ==
  ASSUME NEW s \in Seq(Nat), NEW i \in 1..Len(s), NEW j \in 1..Len(s),
         Sections!PlaceOf(s, i) = Sections!PlaceOf(s, j)
  PROVE  i = j
<1>1. SUFFICES ASSUME i # j PROVE FALSE
  OBVIOUS
<1>2. s[i] \in Nat /\ s[j] \in Nat
  OBVIOUS
<1>3. /\ Sections!PlaceOf(s, i) \in Nat /\ Sections!PlaceOf(s, j) \in Nat
  BY PlaceIs
<1>4. CASE Sections!NameBefore(s[i], s[j]) \/ (s[i] = s[j] /\ i < j)
  BY <1>3, <1>4, PlacesKeepOrder
<1>5. CASE Sections!NameBefore(s[j], s[i]) \/ (s[j] = s[i] /\ j < i)
  BY <1>3, <1>5, PlacesKeepOrder
<1> QED  BY <1>1, <1>2, <1>4, <1>5, NamesAreOrdered

\* Every place is taken.
LEMMA PlacesTaken ==
  ASSUME NEW s \in Seq(Nat), NEW q \in 1..Len(s)
  PROVE  \E i \in 1..Len(s) : Sections!PlaceOf(s, i) = q
<1> DEFINE f == [i \in 1..Len(s) |-> Sections!PlaceOf(s, i)]
<1>1. f \in [1..Len(s) -> 1..Len(s)]
  BY PlaceIs
<1>2. \A i, j \in 1..Len(s) : f[i] = f[j] => i = j
  BY PlacesDiffer
<1>3. IsFiniteSet(1..Len(s))
  BY FS_Interval
<1>4. f \in Surjection(1..Len(s), 1..Len(s))
  <2> HIDE DEF f
  <2>1. f \in Injection(1..Len(s), 1..Len(s))
    BY <1>1, <1>2 DEF Injection, IsInjective
  <2> QED  BY <1>3, <2>1, FS_Injection
<1>5. \A p \in 1..Len(s) : \E i \in 1..Len(s) : f[i] = p
  <2> HIDE DEF f
  <2> QED  BY <1>4 DEF Surjection
<1> QED  BY <1>5

\* The order of the sections: where each comes from, and where it goes.
Arranged(s, t, from, to) ==
  /\ Len(t) = Len(s)
  /\ from \in [1..Len(s) -> 1..Len(s)] /\ to \in [1..Len(s) -> 1..Len(s)]
  /\ \A i \in 1..Len(s) : from[to[i]] = i /\ to[from[i]] = i /\ t[i] = s[from[i]]
  /\ \A p, q \in 1..Len(s) : p < q => ~Sections!NameBefore(t[q], t[p])

LEMMA SortedIsArranged ==
  ASSUME NEW s \in Seq(Nat)
  PROVE  /\ Sections!Sorted(s) \in Seq(Nat)
         /\ \E from, to : Arranged(s, Sections!Sorted(s), from, to)
<1> DEFINE from == [q \in 1..Len(s) |-> Sections!PlacedAt(s, q)]
           to == [i \in 1..Len(s) |-> Sections!PlaceOf(s, i)]
<1>4. DOMAIN s = 1..Len(s)
  OBVIOUS
<1>1. \A q \in 1..Len(s) : from[q] \in 1..Len(s) /\ Sections!PlaceOf(s, from[q]) = q
  <2> SUFFICES ASSUME NEW q \in 1..Len(s)
               PROVE  Sections!PlacedAt(s, q) \in 1..Len(s) /\ Sections!PlaceOf(s, Sections!PlacedAt(s, q)) = q
    OBVIOUS
  <2>1. \E i \in DOMAIN s : Sections!PlaceOf(s, i) = q
    BY <1>4, PlacesTaken
  <2> QED  BY <1>4, <2>1, Zenon DEF Sections!PlacedAt
<1>2. \A i \in 1..Len(s) : to[i] \in 1..Len(s) /\ to[i] = Sections!PlaceOf(s, i)
  BY PlaceIs
<1>3. from \in [1..Len(s) -> 1..Len(s)] /\ to \in [1..Len(s) -> 1..Len(s)]
  BY <1>1, <1>2, <1>4
<1>5. Sections!Sorted(s) = [q \in 1..Len(s) |-> s[from[q]]]
  <2>1. Sections!Sorted(s) = [q \in 1..Len(s) |-> s[Sections!PlacedAt(s, q)]]
    BY <1>4, Zenon DEF Sections!Sorted
  <2> QED  BY <2>1
<1> HIDE DEF from, to
<1>6. \A q \in 1..Len(s) : s[from[q]] \in Nat
  BY <1>1
<1>7. Sections!Sorted(s) \in Seq(Nat) /\ Len(Sections!Sorted(s)) = Len(s)
  BY <1>5, <1>6
<1>8. ASSUME NEW i \in 1..Len(s)
      PROVE  from[to[i]] = i /\ to[from[i]] = i /\ Sections!Sorted(s)[i] = s[from[i]]
  <2>1. Sections!PlaceOf(s, from[to[i]]) = Sections!PlaceOf(s, i) /\ from[to[i]] \in 1..Len(s)
    BY <1>1, <1>2
  <2>2. from[to[i]] = i
    BY <2>1, PlacesDiffer
  <2> QED  BY <1>1, <1>2, <1>5, <2>2
<1>9. ASSUME NEW p \in 1..Len(s), NEW q \in 1..Len(s), p < q
      PROVE  ~Sections!NameBefore(Sections!Sorted(s)[q], Sections!Sorted(s)[p])
  <2> SUFFICES ASSUME Sections!NameBefore(s[from[q]], s[from[p]]) PROVE FALSE
    BY <1>8
  <2>1. from[q] \in 1..Len(s) /\ from[p] \in 1..Len(s)
    BY <1>1
  <2>2. Sections!PlaceOf(s, from[q]) < Sections!PlaceOf(s, from[p])
    BY <2>1, PlacesKeepOrder
  <2> QED  BY <1>1, <1>9, <2>2
<1>10. Arranged(s, Sections!Sorted(s), from, to)
  BY <1>3, <1>7, <1>8, <1>9 DEF Arranged
<1> QED  BY <1>7, <1>10

-----------------------------------------------------------------------------
(* The container. *)

LEMMA LargestExists ==
  ASSUME NEW n \in Nat, NEW S \in SUBSET (1..n), S # {}
  PROVE  Sections!Max(S) \in S
<1> DEFINE T == {m \in Nat : \A U \in SUBSET (1..m) : U # {} => \E x \in U : \A y \in U : x >= y}
<1>1. 0 \in T
  <2>1. \A U \in SUBSET (1..0) : U = {}
    OBVIOUS
  <2> QED  BY <2>1
<1>2. ASSUME NEW m \in Nat, m \in T PROVE m + 1 \in T
  <2> SUFFICES ASSUME NEW U \in SUBSET (1..(m + 1)), U # {}
               PROVE  \E x \in U : \A y \in U : x >= y
    OBVIOUS
  <2>1. CASE m + 1 \in U
    <3>1. \A y \in U : m + 1 >= y
      OBVIOUS
    <3> QED  BY <2>1, <3>1
  <2>2. CASE m + 1 \notin U
    <3>1. U \in SUBSET (1..m)
      BY <2>2
    <3> QED  BY <1>2, <3>1
  <2> QED  BY <2>1, <2>2
<1>3. T \in SUBSET Nat
  OBVIOUS
<1>4. n \in T
  <2> HIDE DEF T
  <2>1. T = Nat
    BY <1>1, <1>2, <1>3, NatSetInduction
  <2> QED  BY <2>1
<1>5. \E x \in S : \A y \in S : x >= y
  BY <1>4
<1>6. Sections!Max(S) = CHOOSE x \in S : \A y \in S : x >= y
  BY Zenon DEF Sections!Max
<1> QED  BY <1>5, <1>6

\* Every name stands for an entry that has it.
Stands(s, m) == \A i \in 1..Len(s) : m[s[i]] \in 1..Len(s) /\ s[m[s[i]]] = s[i]

LEMMA StreamsStand ==
  ASSUME NEW s \in Seq(Nat),
         NEW m, m = [n \in Sections!Range(s) |-> Sections!Max({i \in DOMAIN s : s[i] = n})]
  PROVE  Stands(s, m)
<1> SUFFICES ASSUME NEW i \in 1..Len(s) PROVE m[s[i]] \in 1..Len(s) /\ s[m[s[i]]] = s[i]
  BY DEF Stands
<1>1. DOMAIN s = 1..Len(s) /\ Len(s) \in Nat
  OBVIOUS
<1>2. s[i] \in Sections!Range(s)
  BY <1>1 DEF Sections!Range
<1> DEFINE S == {j \in DOMAIN s : s[j] = s[i]}
<1>3. m[s[i]] = Sections!Max(S)
  BY <1>2
<1>4. S \in SUBSET (1..Len(s)) /\ S # {}
  BY <1>1
<1>5. Sections!Max(S) \in S
  <2> HIDE DEF S
  <2> QED  BY <1>1, <1>4, LargestExists
<1> QED  BY <1>1, <1>3, <1>5

\* A section is in the container once, or twice.
Container(s) == /\ s \in Seq(Nat)
                /\ \A i, j, k \in 1..Len(s) : s[i] = s[j] /\ s[j] = s[k] => i = j \/ j = k \/ i = k

LEMMA NumbersAre ==
  ASSUME NEW n \in Nat
  PROVE  /\ Sections!Numbers(n) \in Seq(Nat) /\ Len(Sections!Numbers(n)) = n
         /\ \A i \in 1..n : Sections!Numbers(n)[i] = i - 1
BY DEF Sections!Numbers

LEMMA ContainersAre ==
  ASSUME NEW s \in Sections!Compounds \cup Sections!Containers
  PROVE  Container(s)
<1>1. Counts \subseteq Nat /\ Copies \subseteq Nat
  BY CountsAssumption
<1>2. CASE s \in Sections!Containers
  <2>1. PICK n \in Nat : s = Sections!Numbers(n)
    BY <1>1, <1>2 DEF Sections!Containers
  <2>2. s \in Seq(Nat) /\ Len(s) = n /\ \A i \in 1..n : s[i] = i - 1
    BY <2>1, NumbersAre
  <2> QED  BY <2>2 DEF Container
<1>3. CASE \E n \in Counts, c \in Copies : s = Sections!Numbers(n) \o <<c>>
  <2>1. PICK n \in Nat, c \in Nat : s = Sections!Numbers(n) \o <<c>>
    <3>1. PICK n \in Counts, c \in Copies : s = Sections!Numbers(n) \o <<c>>
      BY <1>3
    <3>2. n \in Nat /\ c \in Nat
      BY <1>1
    <3> QED  BY <3>1, <3>2
  <2>2. PICK t \in Seq(Nat) : t = Sections!Numbers(n)
    BY NumbersAre
  <2>3. Len(t) = n /\ \A i \in 1..n : t[i] = i - 1
    BY <2>2, NumbersAre
  <2>4. s \in Seq(Nat) /\ Len(s) = n + 1 /\ \A i \in 1..n : s[i] = t[i]
    BY <2>1, <2>2, <2>3
  <2>5. \A i \in 1..(n + 1) : i \in 1..n \/ i = n + 1
    OBVIOUS
  <2>6. \A i, j \in 1..n : s[i] = s[j] => i = j
    BY <2>3, <2>4
  <2> QED  BY <2>4, <2>5, <2>6 DEF Container
<1>4. CASE \E n \in Counts, c \in Copies : s = <<c>> \o Sections!Numbers(n)
  <2>1. PICK n \in Nat, c \in Nat : s = <<c>> \o Sections!Numbers(n)
    <3>1. PICK n \in Counts, c \in Copies : s = <<c>> \o Sections!Numbers(n)
      BY <1>4
    <3>2. n \in Nat /\ c \in Nat
      BY <1>1
    <3> QED  BY <3>1, <3>2
  <2>2. PICK t \in Seq(Nat) : t = Sections!Numbers(n)
    BY NumbersAre
  <2>3. Len(t) = n /\ \A i \in 1..n : t[i] = i - 1
    BY <2>2, NumbersAre
  <2>4. s \in Seq(Nat) /\ Len(s) = n + 1 /\ \A i \in 1..(n + 1) : i # 1 => s[i] = t[i - 1]
    BY <2>1, <2>2, <2>3
  <2>5. \A i \in 1..(n + 1) : i = 1 \/ i - 1 \in 1..n
    OBVIOUS
  <2>6. \A i, j \in 1..(n + 1) : i # 1 /\ j # 1 /\ s[i] = s[j] => i = j
    <3> SUFFICES ASSUME NEW i \in 1..(n + 1), NEW j \in 1..(n + 1), i # 1, j # 1, s[i] = s[j] PROVE i = j
      OBVIOUS
    <3>1. i - 1 \in 1..n /\ j - 1 \in 1..n
      BY <2>5
    <3>2. PICK a \in 1..n, b \in 1..n : a = i - 1 /\ b = j - 1
      BY <3>1
    <3>3. t[a] = t[b]
      BY <2>4, <3>2
    <3>4. t[a] = a - 1 /\ t[b] = b - 1
      BY <2>3
    <3>5. a = b
      <4>1. PICK x \in Int, y \in Int : x = a /\ y = b
        OBVIOUS
      <4>2. x - 1 = y - 1
        BY <3>3, <3>4, <4>1
      <4> QED  BY <4>1, <4>2
    <3> QED  BY <3>2, <3>5
  <2>7. ASSUME NEW i \in 1..(n + 1), NEW j \in 1..(n + 1), NEW k \in 1..(n + 1), s[i] = s[j], s[j] = s[k]
        PROVE  i = j \/ j = k \/ i = k
    BY <2>6, <2>7
  <2> QED  BY <2>4, <2>7 DEF Container
<1>5. \/ s \in Sections!Containers
      \/ \E n \in Counts, c \in Copies : s = Sections!Numbers(n) \o <<c>>
      \/ \E n \in Counts, c \in Copies : s = <<c>> \o Sections!Numbers(n)
  <2> DEFINE Behind(n, c) == Sections!Numbers(n) \o <<c>>
             Ahead(n, c) == <<c>> \o Sections!Numbers(n)
  <2>1. Sections!Compounds = Sections!Containers
                             \cup {Behind(n, c) : n \in Counts, c \in Copies}
                             \cup {Ahead(n, c) : n \in Counts, c \in Copies}
    BY DEF Sections!Compounds
  <2> SUFFICES \/ s \in Sections!Containers
               \/ \E n \in Counts, c \in Copies : s = Behind(n, c)
               \/ \E n \in Counts, c \in Copies : s = Ahead(n, c)
    OBVIOUS
  <2> HIDE DEF Behind, Ahead
  <2> QED  BY <2>1
<1> QED  BY <1>2, <1>3, <1>4, <1>5

-----------------------------------------------------------------------------
(* The text of the sections. *)

\* What a paragraph that was written is: no noise, or the entry and its paragraph.
Paragraphs(en) == {<<0, 0>>} \cup ((1..Len(en)) \X (1..Paras))
IsNoise(x) == x = <<0, 0>>

LEMMA ParagraphIs ==
  ASSUME NEW en \in Seq(Nat), NEW x \in Paragraphs(en), ~IsNoise(x)
  PROVE  x[1] \in 1..Len(en) /\ x[2] \in 1..Paras
BY DEF Paragraphs, IsNoise

LEMMA ParagraphOf ==
  ASSUME NEW en \in Seq(Nat), NEW e \in 1..Len(en), NEW k \in 1..Paras
  PROVE  /\ <<e, k>> \in Paragraphs(en) /\ ~IsNoise(<<e, k>>)
         /\ <<e, k>>[1] = e /\ <<e, k>>[2] = k
<1>1. e # 0
  OBVIOUS
<1> QED  BY <1>1 DEF Paragraphs, IsNoise

\* The places of the text where a paragraph is, and the names that it was or is to be
\* read under up to a position.
InText(s, e, k) == {i \in 1..Len(s) : s[i] = <<e, k>>}
ReadAs(m, t, e, k, p, h) == {q \in 1..Len(t) : m[t[q]] = e /\ (q < p \/ (q = p /\ k <= h))}

LEMMA InTextAppend ==
  ASSUME NEW S, NEW s \in Seq(S), NEW x \in S, NEW e, NEW k
  PROVE  /\ IsFiniteSet(InText(s, e, k))
         /\ x = <<e, k>> => Cardinality(InText(Append(s, x), e, k)) = Cardinality(InText(s, e, k)) + 1
         /\ x # <<e, k>> => InText(Append(s, x), e, k) = InText(s, e, k)
<1> DEFINE I == InText(s, e, k)
<1>1. PICK n \in Nat : n = Len(s)
  OBVIOUS
<1>2. PICK t \in Seq(S) : t = Append(s, x)
  BY AppendTyped
<1>3. Len(t) = n + 1 /\ t[n + 1] = x /\ \A i \in 1..n : t[i] = s[i]
  BY <1>1, <1>2
<1>4. IsFiniteSet(I)
  <2>1. IsFiniteSet(1..n)
    BY FS_Interval
  <2>2. I \in SUBSET (1..n)
    BY <1>1 DEF InText
  <2> QED  BY <2>1, <2>2, FS_Subset
<1>5. ASSUME x = <<e, k>> PROVE Cardinality(InText(t, e, k)) = Cardinality(I) + 1
  <2>1. InText(t, e, k) = I \cup {n + 1} /\ n + 1 \notin I
    BY <1>1, <1>3, <1>5 DEF InText
  <2> QED  BY <1>4, <2>1, FS_AddElement
<1>6. ASSUME x # <<e, k>> PROVE InText(t, e, k) = I
  <2>1. \A i \in 1..(n + 1) : i \in 1..n \/ i = n + 1
    OBVIOUS
  <2>2. \A i \in 1..(n + 1) : t[i] = <<e, k>> <=> i \in 1..n /\ s[i] = <<e, k>>
    BY <1>3, <1>6, <2>1
  <2>3. InText(t, e, k) = {i \in 1..(n + 1) : t[i] = <<e, k>>} /\ I = {i \in 1..n : s[i] = <<e, k>>}
    BY <1>1, <1>3 DEF InText
  <2>4. \A i : i \in InText(t, e, k) <=> i \in I
    <3> HIDE DEF I
    <3> QED  BY <2>2, <2>3
  <2> QED  BY <2>4
<1> QED  BY <1>2, <1>4, <1>5, <1>6

LEMMA ReadAsFinite ==
  ASSUME NEW m, NEW t \in Seq(Nat), NEW e, NEW k, NEW p, NEW h
  PROVE  IsFiniteSet(ReadAs(m, t, e, k, p, h))
<1>1. PICK n \in Nat : n = Len(t)
  OBVIOUS
<1>2. IsFiniteSet(1..n)
  BY FS_Interval
<1>3. ReadAs(m, t, e, k, p, h) \in SUBSET (1..n)
  BY <1>1 DEF ReadAs
<1> QED  BY <1>2, <1>3, FS_Subset

\* Reading one more paragraph of a section.
LEMMA ReadAsNext ==
  ASSUME NEW m, NEW t \in Seq(Nat), NEW e, NEW p \in 1..Len(t), NEW h \in Nat, NEW k,
         m[t[p]] = e, k = h + 1
  PROVE  Cardinality(ReadAs(m, t, e, k, p, k)) = Cardinality(ReadAs(m, t, e, k, p, h)) + 1
<1>1. ReadAs(m, t, e, k, p, k) = ReadAs(m, t, e, k, p, h) \cup {p} /\ p \notin ReadAs(m, t, e, k, p, h)
  BY DEF ReadAs
<1> QED  BY <1>1, ReadAsFinite, FS_AddElement

LEMMA ReadAsOther ==
  ASSUME NEW m, NEW t \in Seq(Nat), NEW e, NEW k \in Nat, NEW p \in 1..Len(t), NEW h \in Nat, NEW g,
         g = h + 1, m[t[p]] # e \/ k # g
  PROVE  ReadAs(m, t, e, k, p, g) = ReadAs(m, t, e, k, p, h)
<1>1. \A q \in 1..Len(t) : m[t[q]] = e => (q = p /\ k <= g <=> q = p /\ k <= h)
  OBVIOUS
<1> QED  BY <1>1 DEF ReadAs

\* Going on to the next section: what is past its end, or was read whole, stays.
LEMMA ReadAsSection ==
  ASSUME NEW m, NEW t \in Seq(Nat), NEW e, NEW k \in 1..Paras, NEW p \in 1..Len(t), NEW h \in Nat,
         m[t[p]] # e \/ h = Paras
  PROVE  ReadAs(m, t, e, k, p + 1, 0) = ReadAs(m, t, e, k, p, h)
<1>1. Paras \in Nat
  BY ParasAssumption
<1>2. \A q \in 1..Len(t) : m[t[q]] = e => (q < p + 1 \/ (q = p + 1 /\ k <= 0) <=> q < p \/ (q = p /\ k <= h))
  BY <1>1
<1> QED  BY <1>2 DEF ReadAs

-----------------------------------------------------------------------------
(* The invariant. *)

\* Each paragraph of a section that is read whole is written as often as its section's
\* name was met.
SecCounted == \A e \in (1..Len(entries)) \ short, k \in 1..Paras :
                 Cardinality(InText(text, e, k)) = Cardinality(ReadAs(streams, names, e, k, pos, para))

\* What is written is of a section that was read before, or of this one, before here.
SecPlaced == \A i \in 1..Len(text) : ~IsNoise(text[i]) =>
                \E q \in 1..Len(names) : /\ q <= pos /\ names[q] = entries[text[i][1]]
                                         /\ q = pos => text[i][2] <= para

AloneIn(en, e) == \A f \in (1..Len(en)) \ {e} : en[f] # en[e]
Follows(en, x, y) == \/ en[x[1]] < en[y[1]]
                     \/ en[x[1]] = en[y[1]] /\ (x[2] <= y[2] \/ ~AloneIn(en, x[1]))
InOrder(en, s) == (\A e \in 1..Len(en) : en[e] < 10) =>
                  \A i, j \in 1..Len(s) : i < j /\ ~IsNoise(s[i]) /\ ~IsNoise(s[j]) => Follows(en, s[i], s[j])

SecTyped == /\ format \in {"hwp5", "hwpx"}
            /\ step \in {"collect", "check", "open", "read", "ok", "error"}
            /\ Container(entries) /\ names \in Seq(Nat)
            /\ pos \in 1..(Len(names) + 1) /\ para \in 0..Paras
            /\ text \in Seq(Paragraphs(entries))
            /\ short \subseteq 1..Len(entries)

Reading == /\ \E from, to : Arranged(entries, names, from, to)
           /\ Stands(entries, streams) /\ SecCounted /\ SecPlaced

SecInv == /\ SecTyped
          /\ InOrder(entries, text)
          /\ step \in {"collect", "check"} => text = <<>> /\ pos = 1 /\ para = 0
          /\ step = "collect" => names = <<>>
          /\ step = "check" => names = entries /\ Stands(entries, streams)
          /\ step \in {"open", "read", "ok"} => Reading
          /\ step = "read" => pos <= Len(names) /\ (raw => streams[names[pos]] \in short)
          /\ step = "ok" => pos = Len(names) + 1

LEMMA SecInit == Sections!Init => SecInv
<1> SUFFICES ASSUME Sections!Init PROVE SecInv
  OBVIOUS
<1>1. Container(entries)
  <2>1. entries \in Sections!Compounds \cup Sections!Containers
    BY DEF Sections!Init
  <2> QED  BY <2>1, ContainersAre
<1>2. Paras \in Nat
  BY ParasAssumption
<1>3. <<>> \in Seq(Nat) /\ Len(<<>>) = 0 /\ <<>> \in Seq(Paragraphs(entries))
  BY EmptySeq
<1>4. SecTyped
  BY <1>1, <1>2, <1>3 DEF SecTyped, Sections!Init
<1>5. InOrder(entries, <<>>)
  BY <1>3 DEF InOrder
<1> QED  BY <1>4, <1>5 DEF SecInv, Sections!Init

\* The sections' names are there, and each is that of its entry.
LEMMA NameStands ==
  ASSUME NEW s \in Seq(Nat), NEW t \in Seq(Nat), NEW m, NEW from, NEW to,
         Arranged(s, t, from, to), Stands(s, m), NEW q \in 1..Len(t)
  PROVE  /\ from[q] \in 1..Len(s) /\ t[q] = s[from[q]] /\ to[from[q]] = q
         /\ m[t[q]] \in 1..Len(s) /\ s[m[t[q]]] = t[q]
<1>1. Len(t) = Len(s) /\ from[q] \in 1..Len(s) /\ t[q] = s[from[q]] /\ to[from[q]] = q
  BY DEF Arranged
<1> QED  BY <1>1 DEF Stands

\* A paragraph that is written next follows what was written.
LEMMA FollowsWritten ==
  ASSUME SecTyped, Reading, pos <= Len(names), para < Paras,
         \A e \in 1..Len(entries) : entries[e] < 10,
         NEW i \in 1..Len(text), ~IsNoise(text[i])
  PROVE  Follows(entries, text[i], <<streams[names[pos]], para + 1>>)
<1>1. PICK from, to : Arranged(entries, names, from, to)
  BY DEF Reading
<1>10. Stands(entries, streams)
  BY DEF Reading
<1>11. ASSUME NEW q \in 1..Len(names)
       PROVE  /\ from[q] \in 1..Len(entries) /\ names[q] = entries[from[q]] /\ to[from[q]] = q
              /\ entries[from[q]] \in Nat
  <2>1. entries \in Seq(Nat) /\ names \in Seq(Nat)
    BY DEF SecTyped, Container
  <2>2. PICK s \in Seq(Nat), u \in Seq(Nat) : s = entries /\ u = names
    BY <2>1
  <2>3. Arranged(s, u, from, to) /\ Stands(s, streams) /\ q \in 1..Len(u)
    BY <1>1, <1>10, <2>2
  <2>4. from[q] \in 1..Len(s) /\ u[q] = s[from[q]] /\ to[from[q]] = q
    BY <2>3 DEF Arranged
  <2> QED  BY <2>2, <2>4
<1>2. entries \in Seq(Nat) /\ names \in Seq(Nat) /\ pos \in 1..Len(names) /\ para \in Nat /\ Paras \in Nat
  BY ParasAssumption DEF SecTyped, Container
<1> DEFINE E == streams[names[pos]]
<1>3. /\ from[pos] \in 1..Len(entries) /\ names[pos] = entries[from[pos]] /\ to[from[pos]] = pos
      /\ E \in 1..Len(entries) /\ entries[E] = names[pos]
  BY <1>1, <1>2, <1>10, NameStands
<1>4. text[i][1] \in 1..Len(entries) /\ text[i][2] \in 1..Paras
  BY <1>2, ParagraphIs DEF SecTyped
<1>5. PICK q \in 1..Len(names) : /\ q <= pos /\ names[q] = entries[text[i][1]]
                                 /\ q = pos => text[i][2] <= para
  BY DEF Reading, SecPlaced
<1>6. from[q] \in 1..Len(entries) /\ names[q] = entries[from[q]] /\ to[from[q]] = q
  BY <1>5, <1>11
<1> DEFINE x == text[i]
           y == <<E, para + 1>>
<1>7. y[1] = E /\ y[2] = para + 1
  OBVIOUS
<1> HIDE DEF x, y, E
<1>8. CASE q = pos
  <2>1. entries[x[1]] = entries[y[1]] /\ x[2] <= y[2]
    BY <1>2, <1>3, <1>4, <1>5, <1>7, <1>8 DEF x
  <2> QED  BY <2>1 DEF Follows, x, y, E
<1>9. CASE q # pos
  <2>1. ~Sections!NameBefore(names[pos], names[q])
    <3>1. q \in 1..Len(entries) /\ pos \in 1..Len(entries) /\ q < pos
      BY <1>1, <1>2, <1>5, <1>9 DEF Arranged
    <3> QED  BY <1>1, <3>1 DEF Arranged
  <2>2. names[pos] \in Nat /\ names[q] \in Nat /\ names[pos] < 10 /\ names[q] < 10
    <3>1. entries[from[pos]] \in Nat /\ entries[from[q]] \in Nat
      BY <1>2, <1>11
    <3>2. entries[from[pos]] < 10 /\ entries[from[q]] < 10
      BY <1>3, <1>6
    <3> QED  BY <1>3, <1>6, <3>1, <3>2
  <2>3. names[q] < names[pos] \/ names[q] = names[pos]
    BY <2>1, <2>2, NamesAreOrdered
  <2>4. CASE names[q] < names[pos]
    <3>1. entries[x[1]] < entries[y[1]]
      BY <1>3, <1>5, <1>7, <2>4 DEF x
    <3> QED  BY <3>1 DEF Follows, x, y, E
  <2>5. CASE names[q] = names[pos]
    <3>1. entries[x[1]] = entries[y[1]]
      BY <1>3, <1>5, <1>7, <2>5 DEF x
    <3>2. from[q] # from[pos]
      BY <1>3, <1>6, <1>9
    <3>3. ~AloneIn(entries, x[1])
      BY <1>3, <1>4, <1>5, <1>6, <2>5, <3>2 DEF AloneIn, x
    <3> QED  BY <3>1, <3>3 DEF Follows, x, y, E
  <2> QED  BY <2>3, <2>4, <2>5
<1> QED  BY <1>8, <1>9

LEMMA EntryIs ==
  ASSUME SecTyped, Reading, pos \in 1..Len(names)
  PROVE  streams[names[pos]] \in 1..Len(entries) /\ entries[streams[names[pos]]] = names[pos]
<1>1. PICK from, to : Arranged(entries, names, from, to)
  BY DEF Reading
<1>2. Stands(entries, streams)
  BY DEF Reading
<1>3. entries \in Seq(Nat) /\ names \in Seq(Nat)
  BY DEF SecTyped, Container
<1> QED  BY <1>1, <1>2, <1>3, NameStands

LEMMA SecStep == SecInv /\ [Sections!Next]_(Sections!sectionVars) => SecInv'
<1> SUFFICES ASSUME SecInv, [Sections!Next]_(Sections!sectionVars) PROVE SecInv'
  OBVIOUS
<1>1. /\ SecTyped /\ InOrder(entries, text)
      /\ entries \in Seq(Nat) /\ names \in Seq(Nat) /\ Paras \in Nat
  BY ParasAssumption DEF SecInv, SecTyped, Container
<1>2. CASE UNCHANGED Sections!sectionVars
  BY <1>2 DEF Sections!sectionVars, SecInv, SecTyped, Reading, SecCounted, SecPlaced
<1>3. CASE Sections!Refuse
  <2>1. SecTyped'
    BY <1>1, <1>3 DEF Sections!Refuse, SecTyped
  <2>2. step' = "error" /\ entries' = entries /\ text' = text
    BY <1>3 DEF Sections!Refuse
  <2> QED  BY <1>1, <2>1, <2>2 DEF SecInv
<1>4. CASE Sections!FailSection
  <2>1. SecTyped'
    BY <1>1, <1>4 DEF Sections!FailSection, SecTyped
  <2>2. step' = "error" /\ entries' = entries /\ text' = text
    BY <1>4 DEF Sections!FailSection
  <2> QED  BY <1>1, <2>1, <2>2 DEF SecInv
<1>5. CASE Sections!Collect
  <2>1. names' = entries /\ entries' = entries /\ step' = "check" /\ text' = <<>> /\ pos' = 1 /\ para' = 0
    BY <1>5 DEF Sections!Collect, SecInv
  <2>2. streams' = [n \in Sections!Range(entries) |-> Sections!Max({i \in DOMAIN entries : entries[i] = n})]
    BY <1>5, Zenon DEF Sections!Collect
  <2>3. Stands(entries, streams')
    BY <1>1, <2>2, StreamsStand
  <2>4. SecTyped'
    <3>1. format' = format /\ short' = short /\ text' = text
      BY <1>5 DEF Sections!Collect
    <3> QED  BY <1>1, <2>1, <3>1 DEF SecTyped
  <2>5. InOrder(entries, text)'
    BY <1>1, <1>5 DEF Sections!Collect
  <2> QED  BY <2>1, <2>3, <2>4, <2>5 DEF SecInv
<1>6. CASE Sections!Check
  <2>1. /\ names' = Sections!Sorted(entries) /\ step' = "open" /\ entries' = entries /\ streams' = streams
        /\ text = <<>> /\ text' = text /\ pos' = 1 /\ para' = 0 /\ short' = short /\ format' = format
        /\ Stands(entries, streams)
    BY <1>6 DEF Sections!Check, SecInv
  <2>2. names' \in Seq(Nat) /\ \E from, to : Arranged(entries, names', from, to)
    BY <1>1, <2>1, SortedIsArranged
  <2>3. Len(names') \in Nat /\ Len(text') = 0
    BY <2>1, <2>2
  <2>4. SecTyped'
    BY <1>1, <2>1, <2>2, <2>3 DEF SecTyped
  <2>5. SecCounted'
    <3>1. ASSUME NEW e, NEW k \in 1..Paras
          PROVE  InText(text', e, k) = {} /\ ReadAs(streams', names', e, k, pos', para') = {}
      BY <1>1, <2>1, <2>3 DEF InText, ReadAs
    <3> QED  BY <3>1 DEF SecCounted
  <2>6. SecPlaced'
    BY <2>3 DEF SecPlaced
  <2>7. Reading'
    BY <2>1, <2>2, <2>5, <2>6 DEF Reading
  <2> QED  BY <1>1, <2>1, <2>4, <2>7 DEF SecInv
<1>7. CASE Sections!Open
  <2>1. /\ step = "open" /\ step' \in {"ok", "read"}
        /\ entries' = entries /\ streams' = streams /\ names' = names /\ pos' = pos /\ para' = para
        /\ text' = text /\ format' = format
        /\ step' = "ok" => pos > Len(names) /\ short' = short
        /\ step' = "read" => pos <= Len(names)
        /\ short' \in {short, short \cup {streams[names[pos]]}}
        /\ short' # short => pos <= Len(names)
        /\ step' = "read" /\ raw' => short' = short \cup {streams[names[pos]]}
    BY <1>7 DEF Sections!Open, Sections!Entry
  <2>2. Reading
    BY <2>1 DEF SecInv
  <2>3. ASSUME pos <= Len(names) PROVE streams[names[pos]] \in 1..Len(entries)
    <3>1. pos \in 1..Len(names)
      BY <1>1, <2>3 DEF SecTyped
    <3> QED  BY <1>1, <2>2, <3>1, EntryIs
  <2>4. SecTyped'
    BY <1>1, <2>1, <2>3 DEF SecTyped
  <2>5. SecCounted'
    BY <2>1, <2>2 DEF SecCounted, Reading
  <2>6. SecPlaced'
    BY <2>1, <2>2 DEF SecPlaced, Reading
  <2>7. Reading'
    BY <2>1, <2>2, <2>5, <2>6 DEF Reading
  <2>8. step' = "ok" => pos' = Len(names') + 1
    BY <1>1, <2>1 DEF SecTyped
  <2> QED  BY <1>1, <2>1, <2>4, <2>7, <2>8 DEF SecInv
<1>8. CASE Sections!ReadParagraph
  <2> DEFINE E == streams[names[pos]]
             x == IF raw THEN <<0, 0>> ELSE <<E, para + 1>>
  <2>1. /\ step = "read" /\ step' = step /\ para < Paras /\ para' = para + 1 /\ text' = Append(text, x)
        /\ entries' = entries /\ streams' = streams /\ names' = names /\ pos' = pos /\ raw' = raw
        /\ short' = short /\ format' = format
    BY <1>8 DEF Sections!ReadParagraph, Sections!Entry, Sections!Noise
  <2>2. Reading /\ pos <= Len(names) /\ (raw => E \in short)
    BY <2>1 DEF SecInv
  <2>3. pos \in 1..Len(names) /\ para \in Nat /\ para + 1 \in 1..Paras
    BY <1>1, <2>1, <2>2 DEF SecTyped
  <2>4. E \in 1..Len(entries) /\ entries[E] = names[pos]
    BY <1>1, <2>2, <2>3, EntryIs
  <2>5. x \in Paragraphs(entries) /\ (raw => IsNoise(x)) /\ (~raw => x = <<E, para + 1>>)
    <3> HIDE DEF E
    <3> QED  BY <1>1, <2>3, <2>4, ParagraphOf DEF Paragraphs, IsNoise
  <2> HIDE DEF x, E
  <2>6. PICK n \in Nat : n = Len(text)
    BY <1>1 DEF SecTyped
  <2>7. PICK t \in Seq(Paragraphs(entries)) : t = Append(text, x)
    BY <1>1, <2>5, AppendTyped DEF SecTyped
  <2>8. Len(t) = n + 1 /\ t[n + 1] = x /\ \A i \in 1..n : t[i] = text[i]
    BY <1>1, <2>6, <2>7 DEF SecTyped
  <2>9. SecTyped'
    BY <1>1, <2>1, <2>3, <2>7 DEF SecTyped
  <2>10. SecCounted'
    <3> SUFFICES ASSUME NEW e \in (1..Len(entries)) \ short, NEW k \in 1..Paras
                 PROVE  Cardinality(InText(t, e, k)) = Cardinality(ReadAs(streams, names, e, k, pos, para + 1))
      BY <2>1, <2>7 DEF SecCounted
    <3>1. Cardinality(InText(text, e, k)) = Cardinality(ReadAs(streams, names, e, k, pos, para))
      BY <2>2 DEF Reading, SecCounted
    <3>2. text \in Seq(Paragraphs(entries)) /\ k \in Nat
      BY <1>1 DEF SecTyped
    <3>3. CASE x = <<e, k>>
      <4>1. E = e /\ k = para + 1
        <5>1. ~IsNoise(x)
          BY <1>1, <3>3, ParagraphOf
        <5> QED  BY <2>5, <3>3, <5>1
      <4>2. Cardinality(InText(t, e, k)) = Cardinality(InText(text, e, k)) + 1
        BY <2>5, <2>7, <3>2, <3>3, InTextAppend
      <4>4. PICK h \in Nat : h = para /\ k = h + 1
        BY <2>3, <4>1
      <4>5. Cardinality(ReadAs(streams, names, e, k, pos, k)) = Cardinality(ReadAs(streams, names, e, k, pos, h)) + 1
        BY <1>1, <2>3, <4>1, <4>4, ReadAsNext DEF E
      <4>3. Cardinality(ReadAs(streams, names, e, k, pos, para + 1)) = Cardinality(ReadAs(streams, names, e, k, pos, para)) + 1
        BY <4>4, <4>5
      <4> QED  BY <3>1, <4>2, <4>3
    <3>4. CASE x # <<e, k>>
      <4>1. E # e \/ k # para + 1
        BY <2>2, <2>5, <3>4
      <4>2. InText(t, e, k) = InText(text, e, k)
        BY <2>5, <2>7, <3>2, <3>4, InTextAppend
      <4>3. PICK m, g : m = streams /\ g = para + 1
        OBVIOUS
      <4>4. m[names[pos]] # e \/ k # g
        BY <4>1, <4>3 DEF E
      <4>5. ReadAs(m, names, e, k, pos, g) = ReadAs(m, names, e, k, pos, para)
        <5>1. names \in Seq(Nat) /\ k \in Nat /\ pos \in 1..Len(names) /\ para \in Nat
          BY <1>1, <2>3, <3>2
        <5>2. g = para + 1
          BY <4>3
        <5> QED  BY <4>4, <5>1, <5>2, ReadAsOther
      <4> QED  BY <3>1, <4>2, <4>3, <4>5
    <3> QED  BY <3>3, <3>4
  <2>11. SecPlaced'
    <3> SUFFICES ASSUME NEW i \in 1..Len(t), ~IsNoise(t[i])
                 PROVE  \E q \in 1..Len(names) : /\ q <= pos /\ names[q] = entries[t[i][1]]
                                                 /\ q = pos => t[i][2] <= para + 1
      BY <2>1, <2>7 DEF SecPlaced
    <3>1. CASE i = n + 1
      <4>1. t[i] = <<E, para + 1>>
        BY <2>5, <2>8, <3>1
      <4>2. t[i][1] = E /\ t[i][2] = para + 1
        BY <4>1
      <4> QED  BY <2>3, <2>4, <4>2
    <3>2. CASE i \in 1..n
      <4>1. t[i] = text[i] /\ ~IsNoise(text[i])
        BY <2>8, <3>2
      <4>2. PICK q \in 1..Len(names) : /\ q <= pos /\ names[q] = entries[text[i][1]]
                                       /\ q = pos => text[i][2] <= para
        BY <2>2, <2>6, <3>2, <4>1 DEF Reading, SecPlaced
      <4>3. text[i][2] \in Nat
        BY <1>1, <2>6, <3>2, <4>1, ParagraphIs DEF SecTyped
      <4>4. q = pos => t[i][2] <= para + 1
        BY <2>3, <4>1, <4>2, <4>3
      <4> QED  BY <4>1, <4>2, <4>4
    <3> QED  BY <2>8, <3>1, <3>2
  <2>12. InOrder(entries, t)
    <3> SUFFICES ASSUME \A e \in 1..Len(entries) : entries[e] < 10,
                        NEW i \in 1..Len(t), NEW j \in 1..Len(t), i < j, ~IsNoise(t[i]), ~IsNoise(t[j])
                 PROVE  Follows(entries, t[i], t[j])
      BY DEF InOrder
    <3>1. i \in 1..n /\ t[i] = text[i]
      BY <2>8
    <3>2. CASE j \in 1..n
      <4>1. t[j] = text[j]
        BY <2>8, <3>2
      <4> QED  BY <1>1, <2>6, <3>1, <3>2, <4>1 DEF InOrder
    <3>3. CASE j = n + 1
      <4>1. t[j] = <<E, para + 1>>
        BY <2>5, <2>8, <3>3
      <4> QED  BY <1>1, <2>1, <2>2, <2>6, <3>1, <4>1, FollowsWritten DEF E
    <3> QED  BY <2>8, <3>2, <3>3
  <2>13. Reading'
    BY <2>1, <2>2, <2>10, <2>11 DEF Reading
  <2>14. streams'[names'[pos']] = E
    BY <2>1 DEF E
  <2>15. InOrder(entries, text)'
    BY <2>1, <2>7, <2>12
  <2> QED  BY <2>1, <2>2, <2>9, <2>13, <2>14, <2>15 DEF SecInv
<1>9. CASE Sections!EndSection
  <2> DEFINE E == streams[names[pos]]
  <2>1. /\ step = "read" /\ step' = "open" /\ pos' = pos + 1 /\ para' = 0
        /\ short' = IF para = Paras THEN short ELSE short \cup {E}
        /\ entries' = entries /\ streams' = streams /\ names' = names /\ text' = text /\ format' = format
    BY <1>9 DEF Sections!EndSection, Sections!Entry
  <2>2. Reading /\ pos <= Len(names)
    BY <2>1 DEF SecInv
  <2>3. pos \in 1..Len(names) /\ para \in Nat
    BY <1>1, <2>1, <2>2 DEF SecTyped
  <2>4. E \in 1..Len(entries)
    BY <1>1, <2>2, <2>3, EntryIs
  <2> HIDE DEF E
  <2>5. SecTyped'
    BY <1>1, <2>1, <2>3, <2>4 DEF SecTyped
  <2>6. SecCounted'
    <3> SUFFICES ASSUME NEW e \in (1..Len(entries)) \ short', NEW k \in 1..Paras
                 PROVE  Cardinality(InText(text, e, k)) = Cardinality(ReadAs(streams, names, e, k, pos + 1, 0))
      BY <2>1 DEF SecCounted
    <3>1. e \in (1..Len(entries)) \ short /\ (E # e \/ para = Paras)
      BY <2>1
    <3>2. Cardinality(InText(text, e, k)) = Cardinality(ReadAs(streams, names, e, k, pos, para))
      BY <2>2, <3>1 DEF Reading, SecCounted
    <3>3. ReadAs(streams, names, e, k, pos + 1, 0) = ReadAs(streams, names, e, k, pos, para)
      BY <1>1, <2>3, <3>1, ReadAsSection DEF E
    <3> QED  BY <3>2, <3>3
  <2>7. SecPlaced'
    <3> SUFFICES ASSUME NEW i \in 1..Len(text), ~IsNoise(text[i])
                 PROVE  \E q \in 1..Len(names) : /\ q <= pos + 1 /\ names[q] = entries[text[i][1]]
                                                 /\ q = pos + 1 => text[i][2] <= 0
      BY <2>1 DEF SecPlaced
    <3>1. PICK q \in 1..Len(names) : q <= pos /\ names[q] = entries[text[i][1]]
      BY <2>2 DEF Reading, SecPlaced
    <3> QED  BY <2>3, <3>1
  <2>8. Reading'
    BY <2>1, <2>2, <2>6, <2>7 DEF Reading
  <2> QED  BY <1>1, <2>1, <2>5, <2>8 DEF SecInv
<1> QED  BY <1>2, <1>3, <1>4, <1>5, <1>6, <1>7, <1>8, <1>9 DEF Sections!Next
\* END

LEMMA SecSteps == [Next]_vars => [Sections!Next]_(Sections!sectionVars)
<1>1. Next => Sections!Next \/ UNCHANGED sectionVars
  BY DEF Next, Filter, Parse, Detect, ReadHwp3, ReadSections, ReadPDF, Return, readerVars
<1>2. UNCHANGED vars => UNCHANGED sectionVars
  BY DEF vars, readerVars
<1>3. UNCHANGED sectionVars => UNCHANGED Sections!sectionVars
  BY DEF sectionVars, Sections!sectionVars
<1> QED  BY <1>1, <1>2, <1>3

LEMMA SecInvariant == Spec => []SecInv
<1>1. Init => SecInv
  BY SecInit DEF Init
<1>2. SecInv /\ [Next]_vars => SecInv'
  BY SecStep, SecSteps
<1> QED  BY <1>1, <1>2, PTL DEF Spec

\* The loops over the sections of extractTextWithOLE (hwp5/hwp.go) and of hwpx.go: whatever
\* sections a document has, up to ten, they come in the order of their numbers, and their
\* paragraphs in theirs.
THEOREM SectionsAreInOrder == Spec => []SectionsInOrder
<1>1. SecInv => SectionsInOrder
  <2> SUFFICES ASSUME SecInv PROVE SectionsInOrder
    OBVIOUS
  <2>1. DOMAIN entries = 1..Len(entries) /\ DOMAIN text = 1..Len(text)
    BY DEF SecInv, SecTyped, Container
  <2>2. \A i, j \in 1..Len(text) : <<0, 0>> \notin {text[i], text[j]} => ~IsNoise(text[i]) /\ ~IsNoise(text[j])
    BY DEF IsNoise
  <2>3. \A e : AloneIn(entries, e) <=> Sections!Alone(e)
    BY <2>1, Zenon DEF AloneIn, Sections!Alone
  <2>4. InOrder(entries, text)
    BY DEF SecInv
  <2> QED  BY <2>1, <2>2, <2>3, <2>4 DEF InOrder, Follows, SectionsInOrder, Sections!SectionsInOrder, Sections!Noise
<1> QED  BY <1>1, SecInvariant, PTL

\* How often the name of a section is in the list of names: once when it is its only
\* section, twice or never when there are two of the name, as the map has one of them.
NamesOf(m, t, e) == {q \in 1..Len(t) : m[t[q]] = e}

LEMMA NamesMet ==
  ASSUME NEW s \in Seq(Nat), Container(s), NEW t \in Seq(Nat), NEW m, NEW from, NEW to,
         Arranged(s, t, from, to), Stands(s, m), NEW e \in 1..Len(s)
  PROVE  IF AloneIn(s, e) THEN Cardinality(NamesOf(m, t, e)) = 1
                          ELSE Cardinality(NamesOf(m, t, e)) \in {0, 2}
<1> DEFINE Met == NamesOf(m, t, e)
<1>0. Met = {q \in 1..Len(t) : m[t[q]] = e}
  BY DEF NamesOf
<1> HIDE DEF Met
<1>1. /\ Len(t) = Len(s) /\ \A q \in 1..Len(t) : from[q] \in 1..Len(s) /\ t[q] = s[from[q]] /\ to[from[q]] = q
      /\ \A i \in 1..Len(s) : to[i] \in 1..Len(t) /\ from[to[i]] = i
  BY DEF Arranged
<1>2. \A q \in 1..Len(t) : m[t[q]] \in 1..Len(s) /\ s[m[t[q]]] = t[q]
  BY <1>1 DEF Stands
<1>3. \A i \in 1..Len(s) : m[s[i]] \in 1..Len(s) /\ s[m[s[i]]] = s[i]
  BY DEF Stands
<1>4. CASE AloneIn(s, e)
  <2>1. m[s[e]] = e
    BY <1>3, <1>4 DEF AloneIn
  <2>2. to[e] \in 1..Len(t) /\ m[t[to[e]]] = e
    BY <1>1, <2>1
  <2>3. ASSUME NEW q \in 1..Len(t), m[t[q]] = e PROVE q = to[e]
    <3>1. s[e] = s[from[q]] /\ from[q] \in 1..Len(s)
      BY <1>1, <1>2, <2>3
    <3>2. from[q] = e
      BY <1>4, <3>1 DEF AloneIn
    <3> QED  BY <1>1, <3>2
  <2>4. Met = {to[e]}
    BY <1>0, <2>2, <2>3
  <2>5. Cardinality(Met) = 1
    BY <2>4, FS_Singleton
  <2> QED  BY <1>4, <2>5 DEF Met
<1>5. CASE ~AloneIn(s, e)
  <2>1. PICK f \in 1..Len(s) : f # e /\ s[f] = s[e]
    BY <1>5 DEF AloneIn
  <2>2. CASE m[s[e]] # e
    <3>1. Met = {}
      <4> SUFFICES ASSUME NEW q \in 1..Len(t), m[t[q]] = e PROVE FALSE
        BY <1>0
      <4>1. s[e] = t[q]
        BY <1>2
      <4> QED  BY <2>2, <4>1
    <3>2. Cardinality(Met) = 0
      BY <3>1, FS_EmptySet
    <3> QED  BY <1>5, <3>2 DEF Met
  <2>3. CASE m[s[e]] = e
    <3>1. to[e] \in 1..Len(t) /\ to[f] \in 1..Len(t) /\ from[to[e]] = e /\ from[to[f]] = f
      BY <1>1
    <3>6. t[to[e]] = s[e] /\ t[to[f]] = s[f]
      BY <1>1, <3>1
    <3>7. to[e] # to[f] /\ m[t[to[e]]] = e /\ m[t[to[f]]] = e
      BY <2>1, <2>3, <3>1, <3>6
    <3>2. ASSUME NEW q \in 1..Len(t), m[t[q]] = e PROVE q = to[e] \/ q = to[f]
      <4>1. s[from[q]] = s[e] /\ from[q] \in 1..Len(s)
        BY <1>1, <1>2, <3>2
      <4>2. from[q] = e \/ from[q] = f
        BY <2>1, <4>1 DEF Container
      <4> QED  BY <1>1, <4>2
    <3>3. PICK a, b : a = to[e] /\ b = to[f]
      OBVIOUS
    <3>4. Met = {a} \cup {b} /\ b \notin {a}
      BY <1>0, <3>1, <3>2, <3>3, <3>7
    <3>5. Cardinality(Met) = 2
      <4>1. PICK U : U = {a}
        OBVIOUS
      <4>2. IsFiniteSet(U) /\ Cardinality(U) = 1 /\ b \notin U /\ Met = U \cup {b}
        BY <3>4, <4>1, FS_Singleton
      <4>3. Cardinality(U \cup {b}) = Cardinality(U) + 1
        BY <4>2, FS_AddElement
      <4> QED  BY <4>2, <4>3
    <3> QED  BY <1>5, <3>5 DEF Met
  <2> QED  BY <2>2, <2>3
<1> QED  BY <1>4, <1>5

\* The same loops: a document that is read to its end has each paragraph of each section
\* once, but for sections that end early; of two sections with one name, one is
\* written twice and the other never.
THEOREM SectionsAreOnce == Spec => []SectionsOnce
<1>1. SecInv => SectionsOnce
  <2> SUFFICES ASSUME SecInv, step = "ok", NEW e \in DOMAIN entries \ short, NEW k \in 1..Paras
               PROVE  IF Sections!Alone(e) THEN Sections!Times(e, k) = 1 ELSE Sections!Times(e, k) \in {0, 2}
    BY Zenon DEF SectionsOnce, Sections!SectionsOnce
  <2>1. /\ Container(entries) /\ entries \in Seq(Nat) /\ names \in Seq(Nat) /\ Reading
        /\ DOMAIN entries = 1..Len(entries) /\ DOMAIN text = 1..Len(text) /\ pos = Len(names) + 1
    BY DEF SecInv, SecTyped, Container
  <2>2. AloneIn(entries, e) <=> Sections!Alone(e)
    BY <2>1, Zenon DEF AloneIn, Sections!Alone
  <2>3. Sections!Times(e, k) = Cardinality(InText(text, e, k))
    BY <2>1, SectionsCardinality, Zenon DEF Sections!Times, InText
  <2>4. Cardinality(InText(text, e, k)) = Cardinality(ReadAs(streams, names, e, k, pos, para))
    BY <2>1 DEF Reading, SecCounted
  <2> DEFINE Met == NamesOf(streams, names, e)
  <2>5. ReadAs(streams, names, e, k, pos, para) = Met
    BY <2>1 DEF ReadAs, NamesOf
  <2>6. PICK from, to : Arranged(entries, names, from, to)
    BY <2>1 DEF Reading
  <2>7. IF AloneIn(entries, e) THEN Cardinality(Met) = 1 ELSE Cardinality(Met) \in {0, 2}
    BY <2>1, <2>6, NamesMet DEF Reading
  <2> HIDE DEF Met
  <2> QED  BY <2>2, <2>3, <2>4, <2>5, <2>7
<1> QED  BY <1>1, SecInvariant, PTL

\* The state that the readers keep, and what ExtractText made of the file, are of their types.
THEOREM ExtractionTyped == Spec => []TypeOK
<1> DEFINE Here == /\ file \in Files
                   /\ at \in {"name", "parse", "detect"} \cup Readers \cup Outcomes
<1>1. Init => Here
  BY DEF Init
<1>2. Here /\ [Next]_vars => Here'
  <2> SUFFICES ASSUME Here, [Next]_vars PROVE Here'
    OBVIOUS
  <2> QED  BY DEF Next, Filter, Parse, Detect, ReadHwp3, ReadSections, ReadPDF, Return, vars, Readers, Outcomes,
                  Files, Heads, Extensions
<1>3. SecInv => Sections!TypeOK
  <2> SUFFICES ASSUME SecInv PROVE Sections!TypeOK
    OBVIOUS
  <2>1. DOMAIN entries = 1..Len(entries)
    BY DEF SecInv, SecTyped, Container
  <2> QED  BY <2>1 DEF SecInv, SecTyped, Sections!TypeOK, Sections!Noise, Paragraphs
<1>4. Here /\ Old!TypeOK /\ SecInv => TypeOK
  BY <1>3 DEF TypeOK
<1> QED  BY <1>1, <1>2, <1>4, ParseTyped, SecInvariant, PTL DEF Spec
=============================================================================
