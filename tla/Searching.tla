------------------------------ MODULE Searching ------------------------------
(***************************************************************************)
(* A search, from the request to the page: searchHandler and               *)
(* highlightFragment (internal/server/server.go), Searcher.Search          *)
(* (internal/usecase/searching.go), Engine.Search with the query and the   *)
(* mapping it is built on (internal/infra/search), and the texts that were *)
(* indexed (internal/domain/document.go).                                  *)
(*                                                                         *)
(* A text is a sequence of signs: letters, the blanks that                 *)
(* NormalizeNoSpaceContent removes (space, tab, CR, LF), and wide blanks   *)
(* that only unicode counts as blank. bleve is external: what it makes of  *)
(* a text is modelled from buildIndexMapping, what a phrase or a query     *)
(* string finds is left open, and so are the fragments it returns.         *)
(***************************************************************************)
EXTENDS Naturals, SequencesExt, SequenceLoops

CONSTANTS
    Letters,
    Space,      \* a blank that is removed
    Wide,       \* a blank that is not
    MinQueryLength, MinGram, MaxGram,   \* PersonNameSearchPolicy: 2, 2 and 5
    MaxContent, \* bound: signs in the document
    MaxQuery,   \* bound: signs in the query
    MaxFragment \* bound: pieces of a fragment

ASSUME SignsAssumption == {Space, Wide} \cap Letters = {} /\ Space # Wide
ASSUME PolicyAssumption == /\ {MinQueryLength, MinGram, MaxGram} \subseteq Nat
                           /\ 2 <= MinGram /\ MinGram <= MaxGram
ASSUME RequestAssumption == {MaxContent, MaxQuery, MaxFragment} \subseteq Nat

Blanks == {Space, Wide}
Signs == Letters \cup Blanks
Modes == {"query", "exact", "ignoreSpaces"}

\* The pieces of a fragment: marks, and text that needs to be escaped for HTML. A
\* piece is written as it is, or escaped; an escaped mark is text.
Pieces == {"<mark>", "</mark>", "text"}
Raw(p) == [escaped |-> FALSE, piece |-> p]
Escaped(p) == [escaped |-> TRUE, piece |-> p]

VARIABLES
    stage,      \* "request", "search", "answered", "render", "done" or "refused"
    content,    \* domain.Document.Content, of the one document there is
    query, exact, ignoreSpaces,     \* the parameters of the request
    total,      \* the hits
    fragment,   \* the fragment of the hit, and what is left of it while it is rendered
    rest, page, openMarks

rendering == <<fragment, rest, page, openMarks>>
searchVars == <<stage, content, query, exact, ignoreSpaces, total, rendering>>

SearchInit == /\ stage = "request"
              /\ content \in SeqOf(Signs, MaxContent)
              /\ query \in SeqOf(Signs, MaxQuery)
              /\ exact \in BOOLEAN /\ ignoreSpaces \in BOOLEAN
              /\ total = 0
              /\ fragment = <<>> /\ rest = <<>> /\ page = <<>> /\ openMarks = 0

-----------------------------------------------------------------------------
(* domain: what is indexed, and what is asked. *)

NormalizeNoSpaceContent(s) == Without(s, Space)

SearchMode == IF ignoreSpaces THEN "ignoreSpaces" ELSE IF exact THEN "exact" ELSE "query"

\* Validate: the length of the query without the blanks around it.
Shown == {i \in DOMAIN query : query[i] \notin Blanks}
QueryLength == IF Shown = {} THEN 0 ELSE Max(Shown) - Min(Shown) + 1
Valid == QueryLength >= MinQueryLength

-----------------------------------------------------------------------------
(* bleve, as buildIndexMapping has it analyse a text: words, and their n-grams. *)

Factors(s) == {SubSeq(s, i, j) : i \in DOMAIN s, j \in DOMAIN s} \ {<<>>}
Parts(s) == {f \in Factors(s) : Range(f) \cap Blanks = {}}
Terms(s) == {p \in Parts(s) : Len(p) \in MinGram..MaxGram}

\* A MatchQuery finds a text that has a term of the query.
Matches(s) == Terms(query) \cap Terms(s) # {}

\* Mutant: the query for ignored spaces is put to the field of the other modes.
ResultsOnContent == IF SearchMode = "ignoreSpaces"
                    THEN {IF Matches(content) THEN 1 ELSE 0} ELSE {0, 1}

\* buildSearchRequest.
Results == IF SearchMode = "ignoreSpaces"
           THEN {IF Matches(NormalizeNoSpaceContent(content)) THEN 1 ELSE 0}
           ELSE {0, 1}

-----------------------------------------------------------------------------
\* Searcher.Search, and Engine.Search again: an invalid query is refused.
Validate == /\ stage = "request"
            /\ stage' = IF Valid THEN "search" ELSE "refused"
            /\ UNCHANGED <<content, query, exact, ignoreSpaces, total, rendering>>

\* The index answers, or returns an error.
Search == /\ stage = "search"
          /\ \/ stage' = "answered" /\ total' \in Results
             \/ stage' = "refused" /\ UNCHANGED total
          /\ UNCHANGED <<content, query, exact, ignoreSpaces, rendering>>

\* The handler has the hit and its fragment, and needs nothing else any more; with
\* no hit it says so and is done.
Map == /\ stage = "answered"
       /\ stage' = IF total = 0 THEN "done" ELSE "render"
       /\ fragment' \in IF total = 0 THEN {<<>>} ELSE SeqOf(Pieces, MaxFragment)
       /\ rest' = fragment'
       /\ content' = <<>> /\ query' = <<>>
       /\ UNCHANGED <<exact, ignoreSpaces, total, page, openMarks>>

-----------------------------------------------------------------------------
(* highlightFragment: a loop over what is left of the fragment. *)

OpenMark == /\ stage = "render"
            /\ rest # <<>> /\ Head(rest) = "<mark>"
            /\ page' = Append(page, Raw("<mark>"))
            /\ openMarks' = openMarks + 1
            /\ rest' = Tail(rest)
            /\ UNCHANGED <<stage, content, query, exact, ignoreSpaces, total, fragment>>

\* Mutant: a closing mark is restored whether one is open or not.
CloseAnyMark == /\ stage = "render"
                /\ rest # <<>> /\ Head(rest) = "</mark>"
                /\ page' = Append(page, Raw("</mark>"))
                /\ openMarks' = openMarks - 1
                /\ rest' = Tail(rest)
                /\ UNCHANGED <<stage, content, query, exact, ignoreSpaces, total, fragment>>

CloseMark == /\ stage = "render"
             /\ rest # <<>> /\ Head(rest) = "</mark>" /\ openMarks > 0
             /\ page' = Append(page, Raw("</mark>"))
             /\ openMarks' = openMarks - 1
             /\ rest' = Tail(rest)
             /\ UNCHANGED <<stage, content, query, exact, ignoreSpaces, total, fragment>>

\* The pieces at which the text before them ends.
Marks == IF openMarks > 0 THEN {"<mark>", "</mark>"} ELSE {"<mark>"}

\* Mutant: the text ends at a closing mark, whether a mark is open or not.
EscapeTextForever ==
    /\ stage = "render"
    /\ rest # <<>> /\ Head(rest) \notin Marks
    /\ LET ends == {i \in DOMAIN rest : rest[i] \in {"<mark>", "</mark>"}}
           n == IF ends = {} THEN Len(rest) ELSE Min(ends) - 1
       IN /\ page' = page \o [i \in 1..n |-> Escaped(rest[i])]
          /\ rest' = SubSeq(rest, n + 1, Len(rest))
    /\ UNCHANGED <<stage, content, query, exact, ignoreSpaces, total, fragment, openMarks>>

\* Mutant: the mark at which the text ends is taken with it.
EscapeTextWithMark ==
    /\ stage = "render"
    /\ rest # <<>> /\ Head(rest) \notin Marks
    /\ LET ends == {i \in DOMAIN rest : rest[i] \in Marks}
           n == IF ends = {} THEN Len(rest) ELSE Min(ends) - 1
       IN /\ page' = page \o [i \in 1..n |-> Escaped(rest[i])]
          /\ rest' = SubSeq(rest, n + 2, Len(rest))
    /\ UNCHANGED <<stage, content, query, exact, ignoreSpaces, total, fragment, openMarks>>

\* The text up to the next mark, or to the end, is escaped.
EscapeText ==
    /\ stage = "render"
    /\ rest # <<>> /\ Head(rest) \notin Marks
    /\ LET ends == {i \in DOMAIN rest : rest[i] \in Marks}
           n == IF ends = {} THEN Len(rest) ELSE Min(ends) - 1
       IN /\ page' = page \o [i \in 1..n |-> Escaped(rest[i])]
          /\ rest' = SubSeq(rest, n + 1, Len(rest))
    /\ UNCHANGED <<stage, content, query, exact, ignoreSpaces, total, fragment, openMarks>>

Write == /\ stage = "render"
         /\ rest = <<>>
         /\ stage' = "done"
         /\ UNCHANGED <<content, query, exact, ignoreSpaces, total, rendering>>

SearchNext == Validate \/ Search \/ Map \/ OpenMark \/ CloseMark \/ EscapeText \/ Write

SearchSpec == SearchInit /\ [][SearchNext]_searchVars /\ WF_searchVars(SearchNext)

-----------------------------------------------------------------------------
\* The types of the state.
SearchTypeOK == /\ stage \in {"request", "search", "answered", "render", "done", "refused"}
                /\ content \in Seq(Signs) /\ query \in Seq(Signs)
                /\ {exact, ignoreSpaces} \subseteq BOOLEAN
                /\ total \in {0, 1}
                /\ fragment \in Seq(Pieces) /\ rest \in Seq(Pieces)
                /\ page \in Seq([escaped : BOOLEAN, piece : Pieces])
                /\ openMarks \in 0..MaxFragment

\* The signs of s that stand next to each other when the spaces are gone.
Neighbours(s) == LET t == NormalizeNoSpaceContent(s)
                 IN {<<t[i], t[i + 1]>> : i \in 1..(Len(t) - 1)}
LetterPairs == {pair \in Neighbours(query) : Range(pair) \subseteq Letters}

\* nospace=true: a name of MinGram letters (two) or more is found however it is spaced in
\* the document (by blanks that are removed), and what is found has two letters of
\* the query next to each other. The query keeps its own blanks: one of single
\* letters is accepted, being long enough, and finds nothing.
IgnoreSpacesFinds ==
    stage = "answered" /\ SearchMode = "ignoreSpaces" =>
        /\ (\E w \in Parts(query) : Len(w) >= MinGram /\ w \in Factors(NormalizeNoSpaceContent(content)))
              => total = 1
        /\ total = 1 => LetterPairs \cap Neighbours(content) # {}
        /\ (\A w \in Parts(query) : Len(w) < MinGram) => total = 0

\* The page has the fragment, piece by piece, and nothing of it twice. Only marks
\* are written as they are, and never a closing one with none open: what is in a
\* document cannot close an element of the page.
Written(p, i) == Cardinality({j \in 1..i : page[j] = Raw(p)})
PageKeepsFragment ==
    /\ stage \in {"render", "done"} => [i \in DOMAIN page |-> page[i].piece] \o rest = fragment
    /\ \A i \in DOMAIN page : /\ page[i].escaped \/ page[i].piece # "text"
                              /\ Written("</mark>", i) <= Written("<mark>", i)
    /\ openMarks = Written("<mark>", Len(page)) - Written("</mark>", Len(page))

\* A request is answered: the loop over the fragment ends, whatever its marks.
SearchEnds == <>(stage \in {"done", "refused"})
=============================================================================
