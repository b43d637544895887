------------------------------ MODULE Hwp3Format ------------------------------
(***************************************************************************)
(* What an HWP 3 file may hold, and how it is laid out on pages: the       *)
(* parameters of Hwp3.                                                     *)
(***************************************************************************)
EXTENDS Naturals

CONSTANTS
    Codes,      \* letters, as codes
    Skips,      \* how many codes more a control may take: 1 to 4, or 31
    MaxSkip,    \* the most of them
    Width,      \* codes are counted modulo Width: 2^16
    Sizes,      \* the numbers of codes a paragraph may say it has
    Cells,      \* the numbers of cells a table may have
    LineWidth,  \* signs in a line: 33
    PageLines,  \* lines on a page: 42, the most whose height is not above 762
    MaxUnits,   \* bound: paragraphs and codes in the file
    MaxDepth    \* bound: paragraphs within paragraphs

ASSUME CountAssumption ==
    /\ Width \in Nat \ {0}
    /\ Sizes \subseteq 1..(Width - 1)
    /\ MaxSkip \in Nat /\ 3 <= MaxSkip /\ Skips \subseteq 0..MaxSkip
ASSUME CodesAssumption == Codes \subseteq Nat /\ \A c \in Codes : 32 <= c /\ c <= 65535
ASSUME LayoutAssumption == LineWidth \in Nat \ {0} /\ PageLines \in Nat
ASSUME BoundAssumption == MaxUnits \in Nat /\ MaxDepth \in Nat /\ Cells \subseteq Nat
===============================================================================
