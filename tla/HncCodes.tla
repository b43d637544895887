------------------------------ MODULE HncCodes ------------------------------
(***************************************************************************)
(* The letters of HWP 3 (goHwpTxt/pkg/hwp3/hnc2unicode.go): what HncToUtf8 *)
(* makes of a 16-bit code. A result is a sequence of signs, empty when the *)
(* code is dropped. A sign is a code point, or an entry of one of the      *)
(* tables of hnc2unicode_tables.go, named by its table and its index: the  *)
(* tables that only say which character an entry is are not copied.        *)
(***************************************************************************)
EXTENDS Integers, Sequences

Char(u) == <<"char", u>>
Entry(table, i) == <<table, i>>

\* strings.Builder.WriteRune: a surrogate is no character.
Rune(u) == Char(IF 55296 <= u /\ u <= 57343 THEN 65533 ELSE u)

Initial(c) == (c \div 1024) % 32
Medial(c) == (c \div 32) % 32
Final(c) == c % 32

\* Mutant: the gap in V_MAP is taken for wider than it is.
VMapShifted(v) == IF v <= 7 THEN v - 3 ELSE IF v <= 15 THEN v - 6 ELSE IF v <= 23 THEN v - 8 ELSE v - 10

\* L_MAP, V_MAP and T_MAP: the number of a modern letter, from the index of its
\* code; the other indices hold NONE.
Initials == 2..22
Medials == (3..7) \cup (10..15) \cup (18..23) \cup (26..29)
Finals == (1..17) \cup (19..29)
LMap(l) == l - 2
VMap(v) == IF v <= 7 THEN v - 3 ELSE IF v <= 15 THEN v - 5 ELSE IF v <= 23 THEN v - 7 ELSE v - 9
TMap(t) == IF t <= 17 THEN t - 1 ELSE t - 2

Modern(c) == Initial(c) \in Initials /\ Medial(c) \in Medials /\ Final(c) \in Finals
Syllable(c) == 44032 + LMap(Initial(c)) * 588 + VMap(Medial(c)) * 28 + TMap(Final(c))

\* Where HNC_L1 and HNC_T1 hold FILL, and HNC_V1 FILL or NONE.
L1Fill(i) == i = 1
T1Fill(i) == i = 1
V1Blank(i) == i \in {0, 1, 2, 8, 9, 16}

\* The keys of hnc2uni_map, and the length of ksc5601_2uni_page4a.
Keys == UNION {127..135, 174..535, 8240..8262, {8282, 8486}, 8592..8603, {8652, 8680},
               8728..8729, {9618, 9671, 11086, 11214}, 11840..11858, {12032, 12049, 12056},
               12134..12135, {12316, 12586}, 13313..13344, {13348, 13353}, 13368..13372,
               13376..13378, 13382..13383, {13392, 13439, 13457}, 13505..13597, 13601..13694,
               13697..13708, 13712..13723, 13729..13752, 13761..13784, 13793..13794,
               13895..13908, {13941}, 14001..14069, 14167..14168, 14171..14174,
               21272..32151, 32256..32514}
PageSize == 4888

\* _hnc_to_utf8: two codes are spelled out, the others are looked up.
Lookup(c) == IF c = 48159 THEN <<Char(4357), Char(4467), Char(4573)>>
             ELSE IF c = 55298 THEN <<Char(4363), Char(4449), Char(4551)>>
             ELSE IF c \in Keys THEN <<Entry("hnc2uni_map", c)>>
             ELSE <<>>

\* The test around the jamo that stand alone and the syllables of old Hangul; it
\* asks the table of initials about the vowel.
OldGuard(c) == /\ ~L1Fill(Medial(c))
               /\ V1Blank(Medial(c)) /\ T1Fill(Final(c))

\* What is behind it, case by case.
Old(c) ==
    LET l == Initial(c)
        v == Medial(c)
        t == Final(c)
    IN IF ~L1Fill(l) /\ V1Blank(v) /\ T1Fill(t) THEN <<Entry("HNC_L1", l)>>
       ELSE IF L1Fill(l) /\ ~V1Blank(v) /\ T1Fill(t) THEN <<Entry("HNC_V1", v)>>
       ELSE IF L1Fill(l) /\ V1Blank(v) /\ ~T1Fill(t) THEN <<Entry("HNC_T1", t)>>
       ELSE IF ~L1Fill(l) /\ ~V1Blank(v) /\ T1Fill(t)
            THEN <<Entry("HNC_L2", l), Entry("HNC_V2", v)>>
       ELSE IF ~L1Fill(l) /\ ~V1Blank(v) /\ ~T1Fill(t)
            THEN <<Entry("HNC_L2", l), Entry("HNC_V2", v), Entry("HNC_T2", t)>>
       ELSE IF v = 0 THEN Lookup(c) ELSE <<>>

\* Modern syllables, and the rest of the codes from 0x8000.
Johab(c) == IF Modern(c) THEN <<Rune(Syllable(c))>>
            ELSE IF OldGuard(c) THEN Old(c)
            ELSE <<>>

HncToUtf8(c) ==
    IF c < 32 THEN <<>>
    ELSE IF c <= 126 THEN <<Char(c)>>
    ELSE IF 16384 <= c /\ c <= 21271
         THEN IF c - 16384 < PageSize THEN <<Entry("ksc5601_2uni_page4a", c - 16384)>> ELSE <<>>
    ELSE IF c < 32768 THEN Lookup(c)
    ELSE Johab(c)

-----------------------------------------------------------------------------
(* For the properties: a syllable of Unicode. *)

Hangul(u) == 44032 <= u /\ u <= 55203
IsSyllable(signs) == Len(signs) = 1 /\ signs[1][1] = "char" /\ Hangul(signs[1][2])
=============================================================================
