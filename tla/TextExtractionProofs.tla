------------------------ MODULE TextExtractionProofs ------------------------
(***************************************************************************)
(* The limits and the status of an extraction, and that splitting loses    *)
(* nothing, for every file and every configuration of the limits.          *)
(***************************************************************************)
EXTENDS TextExtraction, TLAPS, WellFoundedInduction

\* Characters of the unit in work that are still to be placed exist, and the
\* page being filled respects the size of its kind.
SplitInv ==
    /\ at <= Len(units) => taken <= units[at].length
    /\ kind \in {"pdf", "feeds"} => taken = 0
    /\ kind = "docx" => current.length <= DocxSize
    /\ kind = "txt" => current.length <= TxtSize
    /\ kind \in {"docx", "txt"} =>
          \A i \in 1 .. Len(pages) : pages[i].length <= PageLimit

\* Before _apply_limits nothing is kept; meanwhile every kept page is the
\* page split off or a part of it, and "truncated" says which.
LimitInv ==
    /\ stage = "split" => limited = << >> /\ total = 0 /\ ~truncated
    /\ Len(limited) <= Len(pages) /\ Len(limited) <= MaxPages
    /\ \A i \in 1 .. Len(limited) : limited[i] <= PageLimit
    /\ total <= TextLimit
    /\ stage = "limit" =>
          (truncated <=> \E i \in 1 .. Len(limited) :
                            limited[i] # pages[i].length)

IInv == TypeOK /\ SplitInv /\ LimitInv /\ HonestStatus

LEMMA SmallerFact ==
    ASSUME NEW m \in Int, NEW n \in Int
    PROVE  /\ Smaller(m, n) \in Int
           /\ Smaller(m, n) <= m /\ Smaller(m, n) <= n
           /\ Smaller(m, n) \in {m, n}
BY DEF Smaller

LEMMA SizesFact ==
    /\ DocxSize \in Nat \ {0} /\ DocxSize <= PageLimit
    /\ TxtSize \in Nat \ {0} /\ TxtSize <= PageLimit
BY LimitsAssumption DEF DocxSize, TxtSize, Smaller

\* A page stays a page when a piece is added to it.
LEMMA WithFact ==
    ASSUME NEW page \in Page, NEW n \in Nat
    PROVE  /\ With(page, n) \in Page
           /\ With(page, n).length =
                 page.length + n + (IF page.length = 0 THEN 0 ELSE 2)
<1> DEFINE length == page.length + n + (IF page.length = 0 THEN 0 ELSE 2)
           content == page.content + n
<1>1. page.length \in Nat /\ page.content \in Nat
  BY DEF Page
<1>2. length \in Nat /\ content \in Nat
  BY <1>1
<1>3. With(page, n) = [page EXCEPT !.length = length, !.content = content]
  BY DEF With
<1>4. With(page, n) \in Page
  BY <1>2, <1>3 DEF Page
<1>5. With(page, n).length = length
  BY <1>3 DEF Page
<1> QED BY <1>4, <1>5

\* An empty page is a page, and a piece on it has no separator.
LEMMA BlankFact ==
    /\ Blank \in Page
    /\ \A n \in Nat : With(Blank, n) \in Page /\ With(Blank, n).length = n
<1>1. FALSE \in BOOLEAN
  OBVIOUS
<1>2. Blank \in Page /\ Blank.length = 0
  BY <1>1 DEF Blank, Page
<1> QED BY <1>2, WithFact

\* The files considered are sequences of units.
LEMMA FilesFact == ASSUME NEW f \in Files PROVE f \in Seq(Unit)
<1>1. PICK n \in 0 .. MaxUnits : f \in [1 .. n -> Unit]
  BY DEF Files
<1>2. n \in Nat
  BY FileAssumption
<1> QED BY <1>1, <1>2

\* Every unit has a length, and every page split off is a page.
LEMMA UnitFact ==
    ASSUME TypeOK, NEW i \in 1 .. Len(units)
    PROVE  units[i] \in Unit /\ units[i].length \in Nat
<1>1. units[i] \in Unit
  BY DEF TypeOK
<1> QED BY <1>1, FileAssumption DEF Unit

\* Flushing appends the page being filled.
LEMMA FlushedFact ==
    ASSUME TypeOK, SplitInv, kind \in {"docx", "txt"}
    PROVE  /\ Flushed \in Seq(Page)
           /\ \A i \in 1 .. Len(Flushed) : Flushed[i].length <= PageLimit
           /\ current.length <= PageLimit
<1>1. current \in Page /\ pages \in Seq(Page)
  BY DEF TypeOK
<1>2. current.length \in Nat
  BY <1>1 DEF Page
<1>3. current.length <= PageLimit
  BY <1>2, SizesFact, LimitsAssumption DEF SplitInv
<1> QED BY <1>1, <1>3 DEF Flushed, SplitInv

-----------------------------------------------------------------------------

LEMMA InitIInv == Init => IInv
<1> SUFFICES ASSUME Init PROVE IInv
  OBVIOUS
<1>1. units \in Seq(Unit)
  BY FilesFact DEF Init
<1>2. Blank \in Page /\ Blank.length = 0
  BY DEF Blank, Page
<1>3. short \in BOOLEAN
  BY DEF Init
<1>4. TypeOK
  <2>1. truncated \in BOOLEAN
    BY DEF Init
  <2>2. at \in 1 .. Len(units) + 1
    BY <1>1 DEF Init
  <2> QED BY <1>1, <1>2, <1>3, <2>1, <2>2 DEF Init, TypeOK, Statuses
<1>5. \A i \in 1 .. Len(units) : units[i].length \in Nat
  BY <1>4, UnitFact
<1>6. SplitInv
  BY <1>1, <1>2, <1>5, SizesFact DEF Init, SplitInv
<1>7. LimitInv
  BY LimitsAssumption DEF Init, LimitInv
<1>8. HonestStatus
  BY DEF Init, HonestStatus
<1> QED BY <1>4, <1>6, <1>7, <1>8 DEF IInv

\* A step that splits touches nothing that is kept.
LEMMA SplitKeeps ==
    ASSUME IInv, TypeOK', SplitInv', stage = "split",
           stage' \in {"split", "limit"},
           UNCHANGED <<file, result, status>>
    PROVE  IInv'
<1>1. limited' = << >> /\ total' = 0 /\ ~truncated'
  BY DEF IInv, LimitInv, result
<1>2. LimitInv'
  <2>1. Len(limited') = 0 /\ Len(pages') \in Nat
    BY <1>1 DEF TypeOK
  <2> QED BY <1>1, <2>1, LimitsAssumption DEF LimitInv
<1>3. HonestStatus'
  BY DEF HonestStatus
<1> QED BY <1>2, <1>3 DEF IInv

LEMMA BreakKeeps == ASSUME IInv, Fails \/ Raises PROVE IInv'
<1> USE DEF IInv
<1>0. /\ status' \in NoPages /\ stage = "split" /\ stage' = "done"
      /\ pages' = << >> /\ current' = Blank
      /\ UNCHANGED <<file, at, taken, result>>
  BY DEF Fails, Raises, BreaksOff, NoPages
<1>1. Blank \in Page /\ Blank.length = 0 /\ status' \in Statuses
  BY <1>0 DEF Blank, Page, NoPages, Statuses
<1>2. TypeOK'
  BY <1>0, <1>1 DEF TypeOK, file, result
<1>3. SplitInv'
  BY <1>0, <1>1, SizesFact DEF SplitInv, file
<1>4. LimitInv'
  BY <1>0, LimitsAssumption DEF LimitInv, file, result
<1>5. HonestStatus'
  BY <1>0 DEF HonestStatus
<1> QED BY <1>2, <1>3, <1>4, <1>5

LEMMA PdfKeeps == ASSUME IInv, PdfPage \/ PdfEnds PROVE IInv'
<1>1. CASE PdfPage
  <2>1. units[at].length \in Nat
    <3>1. TypeOK /\ at \in 1 .. Len(units)
      BY <1>1 DEF IInv, TypeOK, PdfPage
    <3> QED BY <3>1, UnitFact
  <2>2. pages' \in Seq(Page)
    <3>1. TRUE \in BOOLEAN /\ FALSE \in BOOLEAN
      OBVIOUS
    <3>2. [length |-> units[at].length, content |-> units[at].length,
           unread |-> FALSE] \in Page
      BY <2>1, <3>1 DEF Page
    <3>3. [Blank EXCEPT !.unread = TRUE] \in Page
      BY <3>1 DEF Page, Blank
    <3>4. pages \in Seq(Page)
      BY DEF IInv, TypeOK
    <3>5. \E p \in Page : pages' = Append(pages, p)
      BY <1>1, <3>2, <3>3 DEF PdfPage
    <3> QED BY <3>4, <3>5
  <2>3. TypeOK'
    BY <1>1, <2>2 DEF PdfPage, IInv, TypeOK, file, result
  <2>4. \A i \in 1 .. Len(units) : units[i].length >= 0
    BY UnitFact DEF IInv
  <2>5. SplitInv'
    BY <1>1, <2>3, <2>4 DEF PdfPage, IInv, SplitInv, TypeOK, file
  <2> QED BY <1>1, <2>3, <2>5, SplitKeeps DEF PdfPage
<1>2. CASE PdfEnds
  <2>1. TypeOK' /\ SplitInv'
    BY <1>2 DEF PdfEnds, SplitEnds, IInv, TypeOK, SplitInv, file, result
  <2> QED BY <1>2, <2>1, SplitKeeps DEF PdfEnds, SplitEnds
<1> QED BY <1>1, <1>2

LEMMA DocxKeeps == ASSUME IInv, DocxPiece PROVE IInv'
<1> DEFINE piece == Smaller(units[at].length - taken, DocxSize)
<1> USE DEF DocxPiece
<1>1. TypeOK /\ SplitInv /\ kind = "docx" /\ at \in 1 .. Len(units)
  BY DEF IInv, TypeOK
<1>2. units[at].length \in Nat /\ taken \in Nat /\ taken <= units[at].length
  BY <1>1, UnitFact DEF SplitInv, TypeOK
<1>3. /\ piece \in Nat /\ piece <= DocxSize
      /\ taken + piece <= units[at].length
  <2>1. units[at].length - taken \in Nat /\ DocxSize \in Nat
    BY <1>2, SizesFact
  <2> QED BY <1>2, <2>1 DEF Smaller
<1>4. /\ current \in Page /\ With(current, piece) \in Page
      /\ With(Blank, piece) \in Page /\ With(Blank, piece).length = piece
  BY <1>1, <1>3, WithFact, BlankFact DEF TypeOK
<1>5. /\ Flushed \in Seq(Page)
      /\ \A i \in 1 .. Len(Flushed) : Flushed[i].length <= PageLimit
  BY <1>1, FlushedFact
<1>6. /\ current' \in Page /\ current'.length <= DocxSize
      /\ pages' \in Seq(Page)
      /\ \A i \in 1 .. Len(pages') : pages'[i].length <= PageLimit
  <2>1. CASE ~SectionBegins /\ Fits(piece, DocxSize)
    BY <1>1, <1>4, <2>1 DEF Fits, TypeOK, SplitInv
  <2>2. CASE ~(~SectionBegins /\ Fits(piece, DocxSize))
    BY <1>3, <1>4, <1>5, <2>2
  <2> QED BY <2>1, <2>2
<1>7. at' \in 1 .. Len(units) + 1 /\ taken' \in Nat
      /\ (at' <= Len(units) => taken' <= units[at'].length)
  <2>1. CASE taken + piece = units[at].length
    <3>1. at' = at + 1 /\ taken' = 0
      BY <2>1
    <3>2. at' <= Len(units) => units[at'].length \in Nat
      BY <1>1, <3>1, UnitFact
    <3> QED BY <1>1, <3>1, <3>2
  <2>2. CASE taken + piece # units[at].length
    BY <1>1, <1>2, <1>3, <2>2
  <2> QED BY <2>1, <2>2
<1>8. TypeOK'
  BY <1>1, <1>6, <1>7 DEF TypeOK, file, result
<1>9. SplitInv'
  BY <1>1, <1>6, <1>7 DEF SplitInv, file
<1> QED BY <1>8, <1>9, SplitKeeps

LEMMA TxtFullPageKeeps == ASSUME IInv, TxtFullPage PROVE IInv'
<1> USE DEF TxtFullPage
<1>1. TypeOK /\ SplitInv /\ kind = "txt" /\ at \in 1 .. Len(units)
  BY DEF IInv, TypeOK
<1>2. units[at].length \in Nat /\ taken \in Nat
  BY <1>1, UnitFact DEF TypeOK
<1>3. /\ With(Blank, TxtSize) \in Page
      /\ With(Blank, TxtSize).length <= PageLimit
  <2>1. TxtSize \in Nat /\ TxtSize <= PageLimit /\ Blank \in Page
    BY SizesFact DEF Blank, Page
  <2> QED BY <2>1, BlankFact
<1>4. /\ Flushed \in Seq(Page)
      /\ \A i \in 1 .. Len(Flushed) : Flushed[i].length <= PageLimit
  BY <1>1, FlushedFact
<1>5. /\ pages' \in Seq(Page)
      /\ \A i \in 1 .. Len(pages') : pages'[i].length <= PageLimit
  BY <1>3, <1>4
<1>6. /\ at' = at /\ taken' = taken + TxtSize /\ taken' \in Nat
      /\ taken' <= units[at].length
  BY <1>2, SizesFact DEF Rest
<1>7. Blank \in Page /\ Blank.length = 0
  BY DEF Blank, Page
<1>8. TypeOK'
  BY <1>1, <1>5, <1>6, <1>7 DEF TypeOK, file, result
<1>9. SplitInv'
  BY <1>1, <1>5, <1>6, <1>7, SizesFact DEF SplitInv, file
<1> QED BY <1>8, <1>9, SplitKeeps

LEMMA TxtParagraphKeeps == ASSUME IInv, TxtParagraph PROVE IInv'
<1> DEFINE piece == units[at].length - taken
<1> USE DEF TxtParagraph
<1>1. TypeOK /\ SplitInv /\ kind = "txt" /\ at \in 1 .. Len(units)
  BY DEF IInv, TypeOK
<1>2. units[at].length \in Nat /\ taken \in Nat /\ taken <= units[at].length
  BY <1>1, UnitFact DEF SplitInv, TypeOK
<1>3. piece \in Nat /\ piece <= TxtSize
  BY <1>2
<1>4. /\ current \in Page /\ With(current, piece) \in Page
      /\ With(Blank, piece) \in Page /\ With(Blank, piece).length = piece
  BY <1>1, <1>3, WithFact, BlankFact DEF TypeOK
<1>5. /\ Flushed \in Seq(Page)
      /\ \A i \in 1 .. Len(Flushed) : Flushed[i].length <= PageLimit
  BY <1>1, FlushedFact
<1>6. /\ current' \in Page /\ current'.length <= TxtSize
      /\ pages' \in Seq(Page)
      /\ \A i \in 1 .. Len(pages') : pages'[i].length <= PageLimit
  <2>1. CASE Fits(piece, TxtSize)
    BY <1>1, <1>4, <2>1 DEF Fits, TypeOK, SplitInv
  <2>2. CASE ~Fits(piece, TxtSize)
    BY <1>3, <1>4, <1>5, <2>2
  <2> QED BY <2>1, <2>2
<1>7. at' \in 1 .. Len(units) + 1 /\ taken' = 0
      /\ (at' <= Len(units) => taken' <= units[at'].length)
  <2>1. at' <= Len(units) => units[at'].length \in Nat
    BY <1>1, UnitFact
  <2> QED BY <1>1, <2>1
<1>8. TypeOK'
  BY <1>1, <1>6, <1>7 DEF TypeOK, file, result
<1>9. SplitInv'
  BY <1>1, <1>6, <1>7 DEF SplitInv, file
<1> QED BY <1>8, <1>9, SplitKeeps

LEMMA LastPageKeeps == ASSUME IInv, LastPage PROVE IInv'
<1> USE DEF LastPage, SplitEnds
<1>1. TypeOK /\ SplitInv /\ kind \in {"docx", "txt"}
  BY DEF IInv
<1>2. /\ Flushed \in Seq(Page)
      /\ \A i \in 1 .. Len(Flushed) : Flushed[i].length <= PageLimit
      /\ current.length <= PageLimit
  BY <1>1, FlushedFact
<1>3. /\ pages' \in Seq(Page)
      /\ \A i \in 1 .. Len(pages') : pages'[i].length <= PageLimit
  BY <1>1, <1>2 DEF TypeOK
<1>4. Blank \in Page /\ Blank.length = 0
  BY DEF Blank, Page
<1>5. TypeOK'
  BY <1>1, <1>3, <1>4 DEF TypeOK, file, result
<1>6. SplitInv'
  BY <1>1, <1>3, <1>4, SizesFact DEF SplitInv, file
<1> QED BY <1>5, <1>6, SplitKeeps

LEMMA FeedsKeep == ASSUME IInv, FeedPages PROVE IInv'
<1> USE DEF FeedPages, SplitEnds
<1>1. TypeOK /\ SplitInv
  BY DEF IInv
<1>2. \A i \in 1 .. Len(units) : With(Blank, units[i].length) \in Page
  <2>1. Blank \in Page
    BY DEF Blank, Page
  <2> QED BY <1>1, <2>1, UnitFact, BlankFact
<1>3. pages' \in Seq(Page)
  BY <1>1, <1>2 DEF TypeOK
<1>4. TypeOK'
  BY <1>1, <1>3 DEF TypeOK, file, result
<1>5. SplitInv'
  BY <1>1 DEF SplitInv, file
<1> QED BY <1>4, <1>5, SplitKeeps

-----------------------------------------------------------------------------

\* What the pages that have been limited leave of the total.
LEMMA RemainingFact ==
    ASSUME total \in Nat, total <= TextLimit
    PROVE  Remaining \in Nat /\ total + Remaining = TextLimit
<1>1. TextLimit \in Nat
  BY LimitsAssumption
<1> QED BY <1>1 DEF Remaining

\* The page that is limited next.
LEMMA NextPageFact ==
    ASSUME NEW next \in 1 .. Len(pages), pages \in Seq(Page)
    PROVE  pages[next] \in Page /\ pages[next].length \in Nat
<1>1. pages[next] \in Page
  OBVIOUS
<1> QED BY <1>1 DEF Page

LEMMA LimitPageKeeps == ASSUME IInv, LimitPage PROVE IInv'
<1> DEFINE next == Len(limited) + 1
           page == pages[next]
           n    == Smaller(Smaller(page.length, PageLimit), Remaining)
<1> USE DEF LimitPage
<1>1. TypeOK /\ SplitInv /\ LimitInv
  BY DEF IInv
<1>2. /\ Len(limited) \in Nat /\ Len(pages) \in Nat
      /\ next <= Len(pages) /\ next <= MaxPages
  <2>1. Len(limited) \in Nat /\ Len(pages) \in Nat
    BY <1>1 DEF TypeOK
  <2> QED BY <2>1, LimitsAssumption, SmallerFact DEF Smaller
<1>3. page \in Page /\ page.length \in Nat
  <2>1. next \in 1 .. Len(pages)
    BY <1>2
  <2>2. pages \in Seq(Page)
    BY <1>1 DEF TypeOK
  <2> QED BY <2>1, <2>2, NextPageFact
<1>4. Remaining \in Nat /\ total + Remaining = TextLimit
  <2>1. total \in Nat /\ total <= TextLimit
    BY <1>1 DEF TypeOK, LimitInv
  <2> QED BY <2>1, RemainingFact
<1>5. /\ n \in Nat /\ n <= PageLimit /\ n <= page.length
      /\ total + n <= TextLimit
  BY <1>1, <1>3, <1>4, LimitsAssumption DEF Smaller, TypeOK
<1>6. limited' = Append(limited, n) /\ limited' \in Seq(Nat)
  BY <1>1, <1>5 DEF TypeOK
<1>7. /\ Len(limited') = next
      /\ \A i \in 1 .. next : limited'[i] = IF i = next THEN n ELSE limited[i]
  BY <1>1, <1>2, <1>6 DEF TypeOK
<1>8. truncated' \in BOOLEAN
  OBVIOUS
<1>9. TypeOK'
  BY <1>1, <1>5, <1>6, <1>8 DEF TypeOK, file
<1>10. SplitInv'
  BY <1>1 DEF SplitInv, file
<1>11. truncated' <=> \E i \in 1 .. next : limited'[i] # pages[i].length
  <2>1. truncated' <=> (truncated \/ n # page.length)
    <3>1. truncated' = (truncated \/ CutAnywhere(page, n))
      OBVIOUS
    <3>2. CutAnywhere(page, n) <=> n # page.length
      BY <1>3, <1>5 DEF CutAnywhere
    <3>3. truncated \in BOOLEAN /\ CutAnywhere(page, n) \in BOOLEAN
      BY <1>1 DEF TypeOK, CutAnywhere
    <3> QED BY <3>1, <3>2, <3>3
  <2>2. truncated <=> \E i \in 1 .. Len(limited) :
                         limited[i] # pages[i].length
    BY <1>1 DEF LimitInv
  <2>3. 1 .. next = (1 .. Len(limited)) \cup {next}
    BY <1>2
  <2>4. \A i \in 1 .. Len(limited) : limited'[i] = limited[i]
    BY <1>2, <1>7
  <2>5. limited'[next] = n
    BY <1>2, <1>7
  <2> QED BY <2>1, <2>2, <2>3, <2>4, <2>5
<1>12. LimitInv'
  BY <1>1, <1>2, <1>5, <1>7, <1>11 DEF LimitInv
<1>13. HonestStatus'
  BY DEF HonestStatus
<1> QED BY <1>9, <1>10, <1>12, <1>13 DEF IInv

LEMMA LimitsEndKeeps == ASSUME IInv, LimitsEnd PROVE IInv'
<1> USE DEF LimitsEnd
<1> DEFINE cut == \/ truncated
                  \/ Len(limited) < Len(pages)
                  \/ kind = "pdf" /\ Len(units) > MaxPages
<1>1. TypeOK /\ SplitInv /\ LimitInv
  BY DEF IInv
<1>2. truncated' = cut /\ cut \in BOOLEAN /\ status' = StatusOf(cut)
  BY <1>1 DEF TypeOK
<1>3. StatusOf(cut) \in Statuses
  BY DEF StatusOf, Statuses
<1>4. TypeOK' /\ SplitInv' /\ LimitInv'
  BY <1>1, <1>2, <1>3 DEF TypeOK, SplitInv, LimitInv, file
<1>5. (status' = "processed") <=>
         ~cut /\ ~short /\ \A i \in 1 .. Len(pages) : ~pages[i].unread
  <2>1. CASE pages = << >>
    BY <1>2, <2>1 DEF StatusOf
  <2>2. CASE pages # << >>
    <3>1. Len(pages) \in Nat /\ Len(pages) >= 1
      BY <1>1, <2>2 DEF TypeOK
    <3>2. 1 \in 1 .. Len(pages)
      BY <3>1
    <3> QED BY <1>2, <2>2, <3>2 DEF StatusOf
  <2> QED BY <2>1, <2>2
<1>6. /\ Len(limited) \in Nat /\ Len(pages) \in Nat /\ Len(units) \in Nat
      /\ Len(limited) <= Len(pages)
      /\ truncated <=> \E i \in 1 .. Len(limited) :
                          limited[i] # pages[i].length
  BY <1>1 DEF TypeOK, LimitInv
<1>7. ~cut <=> /\ Len(limited) = Len(pages)
               /\ \A i \in 1 .. Len(pages) : limited[i] = pages[i].length
               /\ kind = "pdf" => Len(units) <= MaxPages
  BY <1>6, LimitsAssumption
<1>7a. (status' = "processed") <=> Whole
  BY <1>5, <1>7 DEF Whole
<1>8. Whole' <=> Whole
  BY DEF Whole, file
<1>9. HonestStatus'
  BY <1>7a, <1>8 DEF HonestStatus
<1> QED BY <1>4, <1>9 DEF IInv

-----------------------------------------------------------------------------

LEMMA StutterKeeps == ASSUME IInv, UNCHANGED vars PROVE IInv'
BY DEF IInv, TypeOK, SplitInv, LimitInv, HonestStatus, Whole, vars

\* The inductive invariant of extract_document: how far the file has been
\* split, what has been kept of the pages, and what the status says of it.
THEOREM Invariance == Spec => []IInv
<1>1. IInv /\ [Next]_vars => IInv'
  <2> SUFFICES ASSUME IInv, [Next]_vars PROVE IInv'
    OBVIOUS
  <2>1. CASE Fails \/ Raises
    BY <2>1, BreakKeeps
  <2>2. CASE PdfPage \/ PdfEnds
    BY <2>2, PdfKeeps
  <2>3. CASE DocxPiece
    BY <2>3, DocxKeeps
  <2>4. CASE TxtFullPage
    BY <2>4, TxtFullPageKeeps
  <2>5. CASE TxtParagraph
    BY <2>5, TxtParagraphKeeps
  <2>6. CASE LastPage
    BY <2>6, LastPageKeeps
  <2>7. CASE FeedPages
    BY <2>7, FeedsKeep
  <2>8. CASE LimitPage
    BY <2>8, LimitPageKeeps
  <2>9. CASE LimitsEnd
    BY <2>9, LimitsEndKeeps
  <2>10. CASE UNCHANGED vars
    BY <2>10, StutterKeeps
  <2> QED
    BY <2>1, <2>2, <2>3, <2>4, <2>5, <2>6, <2>7, <2>8, <2>9, <2>10 DEF Next
<1> QED BY InitIInv, <1>1, PTL DEF Spec

\* However the file is split, the pages that process_document stores respect
\* extraction_max_pages, extraction_page_text_limit and extraction_text_limit.
THEOREM Limits == Spec => []LimitsRespected
<1>1. IInv => LimitsRespected
  BY DEF IInv, SplitInv, LimitInv, LimitsRespected
<1> QED BY <1>1, Invariance, PTL

\* "processed" is stored for a file exactly if no page of it is unread, cut
\* or left out.
THEOREM Honesty == Spec => []HonestStatus
<1>1. IInv => HonestStatus
  BY DEF IInv
<1> QED BY <1>1, Invariance, PTL

-----------------------------------------------------------------------------
(* Sums of sequences.  Sum is a recursive function: for the prover a value *)
(* chosen among the functions that satisfy its equation.  That one exists, *)
(* and that two of them agree, follows from the least number at which it   *)
(* would fail.                                                             *)

\* Of two numbers, the first the smaller.
Less == {p \in Nat \X Nat : p[1] < p[2]}

\* No numbers descend forever.
LEMMA LessIsWellFounded == IsWellFoundedOn(Less, Nat)
  BY NatLessThanWellFounded, Zenon DEF OpToRel, Less

\* A set of natural numbers has a least one.
LEMMA Least ==
    ASSUME NEW T \in SUBSET Nat, T # {}
    PROVE  \E x \in T : \A y \in T : x <= y
  <1>1. PICK x \in T : \A y \in T : ~(<<y, x>> \in Less)
    BY LessIsWellFounded, WFMin, Zenon
  <1>2. \A y \in T : ~(y < x)
    BY <1>1 DEF Less
  <1> QED
    BY <1>2

\* A running total of the first n numbers of f.
Totals(g, f, n) ==
    g = [i \in 0 .. n |-> IF i = 0 THEN 0 ELSE g[i - 1] + f[i]]

LEMMA TotalsAt ==
    ASSUME NEW f, NEW n, NEW g, Totals(g, f, n), NEW i \in 0 .. n
    PROVE  g[i] = IF i = 0 THEN 0 ELSE g[i - 1] + f[i]
  BY Zenon DEF Totals

\* Every sequence has running totals.
LEMMA TotalsExist ==
    ASSUME NEW f \in Seq(Nat)
    PROVE  \A n \in 0 .. Len(f) : \E g : Totals(g, f, n) /\ g[n] \in Nat
  <1> DEFINE U == {n \in 0 .. Len(f) : ~ \E g : Totals(g, f, n) /\ g[n] \in Nat}
  <1>1. Len(f) \in Nat /\ \A i \in 1 .. Len(f) : f[i] \in Nat
    OBVIOUS
  <1> SUFFICES ASSUME U # {} PROVE FALSE
    BY Zenon
  <1>2. PICK n \in U : \A m \in U : n <= m
    <2>1. U \in SUBSET Nat
      BY <1>1
    <2> QED
      BY <2>1, Least, Zenon
  <1>3. CASE n = 0
    <2> DEFINE g == [i \in 0 .. 0 |-> 0]
    <2>1. Totals(g, f, 0) /\ g[0] \in Nat
      BY DEF Totals
    <2> QED
      BY <1>2, <1>3, <2>1
  <1>4. CASE n # 0
    <2>1. n - 1 \in 0 .. Len(f) /\ n - 1 \notin U /\ n \in 1 .. Len(f)
      BY <1>1, <1>2, <1>4
    <2>2. PICK g : Totals(g, f, n - 1) /\ g[n - 1] \in Nat
      BY <2>1
    <2> DEFINE h == [i \in 0 .. n |-> IF i = n THEN g[n - 1] + f[n] ELSE g[i]]
    <2>3. h[n] \in Nat
      BY <1>1, <2>1, <2>2
    <2>4. Totals(h, f, n)
      <3>1. \A i \in 0 .. n : h[i] = IF i = 0 THEN 0 ELSE h[i - 1] + f[i]
        <4> SUFFICES ASSUME NEW i \in 0 .. n
                     PROVE  h[i] = IF i = 0 THEN 0 ELSE h[i - 1] + f[i]
          OBVIOUS
        <4>1. CASE i = n
          BY <4>1, <1>4, <2>1
        <4>2. CASE i # n
          <5>1. i \in 0 .. n - 1 /\ (i # 0 => i - 1 \in 0 .. n)
            BY <4>2, <2>1
          <5>2. g[i] = IF i = 0 THEN 0 ELSE g[i - 1] + f[i]
            BY <5>1, <2>2, TotalsAt
          <5> QED
            BY <4>2, <5>1, <5>2, <2>1
        <4> QED
          BY <4>1, <4>2
      <3> QED
        BY <3>1 DEF Totals
    <2> HIDE DEF h
    <2> QED
      BY <2>1, <2>3, <2>4, <1>2
  <1> QED
    BY <1>3, <1>4

\* f and e have the same first k numbers.
Agree(f, e, k) == \A i \in 1 .. k : f[i] = e[i]

\* Two running totals agree as far as both go on the same numbers.
LEMMA TotalsAgree ==
    ASSUME NEW f, NEW e, NEW g, NEW h,
           NEW n \in Nat, NEW m \in Nat, NEW k \in 0 .. n, k \in 0 .. m,
           Totals(g, f, n), Totals(h, e, m), Agree(f, e, k)
    PROVE  g[k] = h[k]
  <1> DEFINE U == {i \in 0 .. k : g[i] # h[i]}
  <1> SUFFICES ASSUME U # {} PROVE FALSE
    <2>1. k \in 0 .. k
      OBVIOUS
    <2> QED
      BY <2>1
  <1>1. PICK i \in U : \A j \in U : i <= j
    <2>1. U \in SUBSET Nat
      OBVIOUS
    <2> QED
      BY <2>1, Least, Zenon
  <1>2. /\ g[i] = IF i = 0 THEN 0 ELSE g[i - 1] + f[i]
        /\ h[i] = IF i = 0 THEN 0 ELSE h[i - 1] + e[i]
    <2>1. i \in 0 .. n /\ i \in 0 .. m
      OBVIOUS
    <2> QED
      BY <2>1, TotalsAt
  <1>3. i # 0
    BY <1>1, <1>2
  <1>4. i - 1 \in 0 .. k /\ i - 1 \notin U /\ i \in 1 .. k
    BY <1>1, <1>3
  <1> QED
    BY <1>1, <1>2, <1>3, <1>4 DEF Agree

\* Sum is the last running total.
LEMMA SumFact ==
    ASSUME NEW f \in Seq(Nat)
    PROVE  \E g : Totals(g, f, Len(f)) /\ Sum(f) = g[Len(f)] /\ Sum(f) \in Nat
  <1> DEFINE s == CHOOSE g : Totals(g, f, Len(f))
  <1>1. Len(f) \in 0 .. Len(f) /\ Len(f) \in Nat
    OBVIOUS
  <1>2. PICK g : Totals(g, f, Len(f)) /\ g[Len(f)] \in Nat
    BY <1>1, TotalsExist
  <1>3. Totals(s, f, Len(f))
    BY <1>2
  <1>4. Sum(f) = s[Len(f)]
    BY Zenon DEF Sum, Totals
  <1> HIDE DEF s
  <1>5. s[Len(f)] = g[Len(f)]
    <2>1. Agree(f, f, Len(f))
      BY DEF Agree
    <2> QED
      BY <2>1, <1>1, <1>2, <1>3, TotalsAgree
  <1> QED
    BY <1>2, <1>3, <1>4, <1>5

\* Nothing sums to zero.
LEMMA SumEmpty == Sum(<< >>) = 0
  <1>1. << >> \in Seq(Nat) /\ Len(<< >>) = 0
    OBVIOUS
  <1>2. PICK g : Totals(g, << >>, Len(<< >>)) /\ Sum(<< >>) = g[Len(<< >>)]
    BY <1>1, SumFact, Zenon
  <1> QED
    BY <1>1, <1>2 DEF Totals

\* One number more is added to the sum.
LEMMA SumOfAppend ==
    ASSUME NEW f \in Seq(Nat), NEW n \in Nat, NEW e \in Seq(Nat),
           Len(e) = Len(f) + 1, e[Len(e)] = n,
           \A i \in 1 .. Len(f) : e[i] = f[i]
    PROVE  Sum(e) = Sum(f) + n
  <1>1. PICK g : Totals(g, f, Len(f)) /\ Sum(f) = g[Len(f)]
    BY SumFact
  <1>2. PICK h : Totals(h, e, Len(e)) /\ Sum(e) = h[Len(e)]
    BY SumFact
  <1>3. Len(f) \in Nat /\ Len(e) \in Nat
    OBVIOUS
  <1>4. g[Len(f)] = h[Len(f)]
    <2>1. Len(f) \in 0 .. Len(f) /\ Len(f) \in 0 .. Len(e)
      BY <1>3
    <2>2. Agree(f, e, Len(f))
      BY DEF Agree
    <2>3. Totals(g, f, Len(f)) /\ Totals(h, e, Len(e))
      BY <1>1, <1>2
    <2> QED
      BY <1>3, <2>1, <2>2, <2>3, TotalsAgree
  <1>5. h[Len(e)] = h[Len(e) - 1] + e[Len(e)]
    <2>1. Len(e) \in 0 .. Len(e) /\ Len(e) # 0
      BY <1>3
    <2> QED
      BY <1>2, <2>1, TotalsAt
  <1> QED
    BY <1>1, <1>2, <1>3, <1>4, <1>5

-----------------------------------------------------------------------------
(* Nothing is lost.                                                        *)

\* A page that has no length has no content.
ContentInv == current.content <= current.length

\* What each page has of the file.
Contents(s) == [i \in 1 .. Len(s) |-> s[i].content]

\* There is no result before the end, and nothing is begun behind the text.
StageInv ==
    /\ stage # "done" => status = "none"
    /\ (kind \in {"docx", "txt"} /\ at > Len(units)) => taken = 0

CountInv == IInv /\ ContentInv /\ StageInv /\ NothingLost

\* Every step keeps StageInv.
LEMMA StageKeeps == ASSUME TypeOK, StageInv, [Next]_vars PROVE StageInv'
  <1>1. CASE Fails \/ Raises \/ LimitsEnd
    BY <1>1 DEF Fails, Raises, BreaksOff, LimitsEnd, StageInv, file
  <1>2. CASE DocxPiece \/ TxtFullPage \/ TxtParagraph
    <2>1. UNCHANGED <<kind, units, stage, status>> /\ at <= Len(units)
      BY <1>2 DEF DocxPiece, TxtFullPage, TxtParagraph, file
    <2>2. at' = at \/ taken' = 0
      BY <1>2 DEF DocxPiece, TxtFullPage, TxtParagraph, Rest
    <2>3. at \in Nat /\ Len(units) \in Nat
      BY DEF TypeOK
    <2> QED
      BY <2>1, <2>2, <2>3 DEF StageInv
  <1>3. CASE PdfPage \/ PdfEnds \/ FeedPages
    <2>1. /\ kind' \notin {"docx", "txt"} /\ stage = "split"
          /\ UNCHANGED status
      BY <1>3 DEF PdfPage, PdfEnds, FeedPages, SplitEnds, file
    <2> QED
      BY <2>1 DEF StageInv
  <1>4. CASE LimitPage \/ LastPage \/ UNCHANGED vars
    <2>1. UNCHANGED <<kind, units, at, taken, status>>
      BY <1>4 DEF LimitPage, LastPage, SplitEnds, vars, file
    <2>2. stage' = stage \/ stage = "split"
      BY <1>4 DEF LimitPage, LastPage, SplitEnds, vars
    <2> QED
      BY <2>1, <2>2 DEF StageInv
  <1> QED
    BY <1>1, <1>2, <1>3, <1>4 DEF Next

\* One more page adds its content.
LEMMA OneMorePage ==
    ASSUME NEW s \in Seq(Page), NEW p \in Page
    PROVE  /\ Append(s, p) \in Seq(Page)
           /\ Sum(Contents(Append(s, p))) = Sum(Contents(s)) + p.content
           /\ Sum(Contents(s)) \in Nat
  <1> DEFINE t == Append(s, p)
  <1>1. /\ t \in Seq(Page) /\ Len(t) = Len(s) + 1 /\ Len(s) \in Nat
        /\ \A i \in 1 .. Len(s) : t[i] = s[i]
        /\ t[Len(t)] = p
    OBVIOUS
  <1> HIDE DEF t
  <1>2. /\ Contents(s) \in Seq(Nat) /\ Len(Contents(s)) = Len(s)
        /\ Contents(t) \in Seq(Nat) /\ Len(Contents(t)) = Len(t)
        /\ p.content \in Nat
    <2>1. \A q \in Page : q.content \in Nat
      BY DEF Page
    <2>2. \A i \in 1 .. Len(s) : s[i] \in Page
      OBVIOUS
    <2>3. \A i \in 1 .. Len(t) : t[i] \in Page
      BY <1>1
    <2> QED
      BY <1>1, <2>1, <2>2, <2>3 DEF Contents
  <1>3. \A i \in 1 .. Len(Contents(s)) : Contents(t)[i] = Contents(s)[i]
    BY <1>1, <1>2 DEF Contents
  <1>4. Contents(t)[Len(Contents(t))] = p.content
    BY <1>1, <1>2 DEF Contents
  <1>5. Sum(Contents(t)) = Sum(Contents(s)) + p.content
    BY <1>1, <1>2, <1>3, <1>4, SumOfAppend
  <1>6. Sum(Contents(s)) \in Nat
    BY <1>2, SumFact
  <1> QED
    BY <1>1, <1>5, <1>6 DEF t

\* Flushing places what is on the page being filled.
LEMMA FlushedContent ==
    ASSUME TypeOK, ContentInv
    PROVE  /\ Flushed \in Seq(Page)
           /\ Sum(Contents(Flushed)) = Sum(Placed) + current.content
           /\ Sum(Placed) \in Nat /\ current.content \in Nat
  <1>1. /\ pages \in Seq(Page) /\ current \in Page
        /\ current.content \in Nat /\ current.length \in Nat
    BY DEF TypeOK, Page
  <1>2. Placed = Contents(pages)
    BY DEF Placed, Contents
  <1>3. current.length = 0 => current.content = 0
    BY <1>1 DEF ContentInv
  <1> QED
    BY <1>1, <1>2, <1>3, OneMorePage DEF Flushed

\* Going on to the next unit adds its characters.
LEMMA OneMoreUnit ==
    ASSUME TypeOK, at <= Len(units)
    PROVE  /\ Sum([i \in 1 .. at |-> units[i].length])
                = Sum(Read) + units[at].length
           /\ Sum(Read) \in Nat /\ units[at].length \in Nat
  <1> DEFINE e == [i \in 1 .. at |-> units[i].length]
  <1>1. at \in 1 .. Len(units) /\ Len(units) \in Nat
    BY DEF TypeOK
  <1>2. \A i \in 1 .. at : units[i].length \in Nat
    BY <1>1, UnitFact
  <1>3. /\ Read \in Seq(Nat) /\ Len(Read) = at - 1
        /\ e \in Seq(Nat) /\ Len(e) = at
    BY <1>1, <1>2 DEF Read
  <1>4. /\ \A i \in 1 .. Len(Read) : e[i] = Read[i]
        /\ e[Len(e)] = units[at].length
    BY <1>1, <1>3 DEF Read
  <1> HIDE DEF e
  <1>5. Sum(e) = Sum(Read) + units[at].length
    BY <1>1, <1>2, <1>3, <1>4, SumOfAppend
  <1>6. Sum(Read) \in Nat
    BY <1>3, SumFact
  <1> QED
    BY <1>1, <1>2, <1>5, <1>6 DEF e

\* A piece adds its characters to a page.
LEMMA PieceFact ==
    ASSUME NEW page \in Page, NEW n \in Nat, page.content <= page.length
    PROVE  /\ With(page, n) \in Page
           /\ With(page, n).content = page.content + n
           /\ With(page, n).content <= With(page, n).length
  <1>1. page.length \in Nat /\ page.content \in Nat
    BY DEF Page
  <1>2. With(page, n).content = page.content + n
    BY DEF With, Page
  <1>3. /\ With(page, n) \in Page
        /\ With(page, n).length = page.length + n
                                 + (IF page.length = 0 THEN 0 ELSE 2)
    BY WithFact
  <1>4. page.content + n
          <= page.length + n + (IF page.length = 0 THEN 0 ELSE 2)
    BY <1>1
  <1> QED
    BY <1>2, <1>3, <1>4

\* Splitting a unit: so many characters go from the unit to the pages.
LEMMA PieceKeeps ==
    ASSUME CountInv, kind \in {"docx", "txt"}, stage = "split",
           at <= Len(units), NEW n \in Nat,
           UNCHANGED <<file, stage, result, status>>,
           Sum(Placed') + current'.content = Sum(Placed) + current.content + n,
           current'.content <= current'.length,
           \/ at' = at /\ taken' = taken + n
           \/ at' = at + 1 /\ taken' = 0 /\ taken + n = units[at].length
    PROVE  ContentInv' /\ NothingLost'
  <1>1. /\ TypeOK /\ taken \in Nat /\ at \in Nat
        /\ status \notin NoPages => Sum(Placed) + current.content = Sum(Read) + taken
        /\ total = Sum(limited)
    BY DEF CountInv, IInv, TypeOK, NothingLost
  <1>2. Sum(Read') + taken' = Sum(Read) + taken + n
    <2>1. CASE at' = at /\ taken' = taken + n
      <3>1. Read' = Read
        BY <2>1 DEF Read, file
      <3>2. Sum(Read) \in Nat
        BY <1>1, OneMoreUnit
      <3> QED
        BY <1>1, <2>1, <3>1, <3>2
    <2>2. CASE at' = at + 1 /\ taken' = 0 /\ taken + n = units[at].length
      <3>1. Read' = [i \in 1 .. at |-> units[i].length]
        BY <1>1, <2>2 DEF Read, file
      <3> QED
        BY <1>1, <2>2, <3>1, OneMoreUnit
    <2> QED
      BY <2>1, <2>2
  <1>3. Sum(Placed) \in Nat /\ current.content \in Nat /\ Sum(Read) \in Nat
    BY <1>1, FlushedContent, OneMoreUnit DEF CountInv
  <1>4. /\ status' \notin NoPages =>
              Sum(Placed') + current'.content = Sum(Read') + taken'
        /\ total' = Sum(limited')
    BY <1>1, <1>2, <1>3 DEF result
  <1> QED
    BY <1>4 DEF ContentInv, NothingLost

\* A piece joins the page being filled or begins the next one.
LEMMA JoinOrBegin ==
    ASSUME TypeOK, ContentInv, NEW n \in Nat,
           \/ current' = With(current, n) /\ UNCHANGED pages
           \/ current' = With(Blank, n) /\ pages' = Flushed
    PROVE  /\ Sum(Placed') + current'.content
                = Sum(Placed) + current.content + n
           /\ current'.content <= current'.length
  <1>1. /\ Blank \in Page /\ Blank.content = 0 /\ Blank.length = 0
        /\ current \in Page
    BY BlankFact DEF Blank, TypeOK
  <1>2. CASE current' = With(current, n) /\ UNCHANGED pages
    <2>1. Placed' = Placed
      BY <1>2 DEF Placed
    <2>2. /\ current'.content = current.content + n
          /\ current'.content <= current'.length
      BY <1>1, <1>2, PieceFact DEF ContentInv
    <2> QED
      BY <2>1, <2>2, FlushedContent
  <1>3. CASE current' = With(Blank, n) /\ pages' = Flushed
    <2>1. Placed' = Contents(Flushed)
      BY <1>3 DEF Placed, Contents
    <2>2. /\ current'.content = n
          /\ current'.content <= current'.length
      BY <1>1, <1>3, PieceFact
    <2> QED
      BY <2>1, <2>2, FlushedContent
  <1> QED
    BY <1>2, <1>3

LEMMA DocxCounts ==
    ASSUME CountInv, DocxPiece PROVE ContentInv' /\ NothingLost'
  <1> DEFINE n == Smaller(units[at].length - taken, DocxSize)
  <1>1. /\ kind = "docx" /\ stage = "split" /\ at <= Len(units)
        /\ TypeOK /\ SplitInv /\ ContentInv
        /\ UNCHANGED <<file, stage, result, status>>
        /\ \/ current' = With(current, n) /\ UNCHANGED pages
           \/ current' = With(Blank, n) /\ pages' = Flushed
        /\ at' = IF taken + n = units[at].length THEN at + 1 ELSE at
        /\ taken' = IF taken + n = units[at].length THEN 0 ELSE taken + n
    BY DEF DocxPiece, CountInv, IInv
  <1>2. /\ units[at].length \in Nat /\ taken \in Nat
        /\ taken <= units[at].length /\ DocxSize \in Nat
    BY <1>1, OneMoreUnit, SizesFact DEF TypeOK, SplitInv
  <1>3. n \in Nat
    BY <1>2 DEF Smaller
  <1> HIDE DEF n
  <1>4. \/ at' = at /\ taken' = taken + n
        \/ at' = at + 1 /\ taken' = 0 /\ taken + n = units[at].length
    BY <1>1
  <1>5. /\ Sum(Placed') + current'.content = Sum(Placed) + current.content + n
        /\ current'.content <= current'.length
    BY <1>1, <1>3, JoinOrBegin
  <1> QED
    BY <1>1, <1>3, <1>4, <1>5, PieceKeeps

LEMMA TxtParagraphCounts ==
    ASSUME CountInv, TxtParagraph PROVE ContentInv' /\ NothingLost'
  <1> DEFINE n == units[at].length - taken
  <1>1. /\ kind = "txt" /\ stage = "split" /\ at <= Len(units)
        /\ TypeOK /\ SplitInv /\ ContentInv
        /\ UNCHANGED <<file, stage, result, status>>
        /\ \/ current' = With(current, n) /\ UNCHANGED pages
           \/ current' = With(Blank, n) /\ pages' = Flushed
        /\ at' = at + 1 /\ taken' = 0
    BY DEF TxtParagraph, CountInv, IInv
  <1>2. /\ units[at].length \in Nat /\ taken \in Nat
        /\ taken <= units[at].length
    BY <1>1, OneMoreUnit DEF TypeOK, SplitInv
  <1>3. n \in Nat /\ taken + n = units[at].length
    BY <1>2
  <1> HIDE DEF n
  <1>4. /\ Sum(Placed') + current'.content = Sum(Placed) + current.content + n
        /\ current'.content <= current'.length
    BY <1>1, <1>3, JoinOrBegin
  <1> QED
    BY <1>1, <1>3, <1>4, PieceKeeps

LEMMA TxtFullPageCounts ==
    ASSUME CountInv, TxtFullPage PROVE ContentInv' /\ NothingLost'
  <1>1. /\ kind = "txt" /\ stage = "split" /\ at <= Len(units)
        /\ TypeOK /\ ContentInv
        /\ UNCHANGED <<file, stage, result, status>>
        /\ pages' = Append(Flushed, With(Blank, TxtSize)) /\ current' = Blank
        /\ at' = at /\ taken' = taken + TxtSize
    BY DEF TxtFullPage, Rest, CountInv, IInv
  <1>2. /\ Blank \in Page /\ Blank.content = 0 /\ Blank.length = 0
        /\ TxtSize \in Nat
    BY BlankFact, SizesFact DEF Blank
  <1>3. With(Blank, TxtSize) \in Page /\ With(Blank, TxtSize).content = TxtSize
    BY <1>2, PieceFact
  <1>4. Placed' = Contents(Append(Flushed, With(Blank, TxtSize)))
    BY <1>1 DEF Placed, Contents
  <1>5. /\ Sum(Placed') + current'.content
              = Sum(Placed) + current.content + TxtSize
        /\ current'.content <= current'.length
    BY <1>1, <1>2, <1>3, <1>4, OneMorePage, FlushedContent
  <1> QED
    BY <1>1, <1>2, <1>5, PieceKeeps

LEMMA LastPageCounts ==
    ASSUME CountInv, LastPage PROVE ContentInv' /\ NothingLost'
  <1>1. /\ kind \in {"docx", "txt"} /\ TypeOK /\ ContentInv /\ NothingLost
        /\ pages' = IF pages = << >> THEN <<current>> ELSE Flushed
        /\ current' = Blank
        /\ UNCHANGED <<file, at, taken, result, status>>
    BY DEF LastPage, SplitEnds, CountInv, IInv
  <1>2. Blank.content = 0 /\ Blank.length = 0
    BY DEF Blank
  <1>3. Sum(Placed') = Sum(Placed) + current.content
    <2>1. CASE pages = << >>
      <3>1. /\ << >> \in Seq(Page) /\ current \in Page
            /\ pages' = Append(<< >>, current)
        BY <1>1, <2>1 DEF TypeOK
      <3>2. /\ Placed' = Contents(Append(<< >>, current))
            /\ Placed = Contents(<< >>)
        BY <2>1, <3>1 DEF Placed, Contents
      <3> QED
        BY <3>1, <3>2, OneMorePage
    <2>2. CASE pages # << >>
      <3>1. Placed' = Contents(Flushed)
        BY <1>1, <2>2 DEF Placed, Contents
      <3> QED
        BY <1>1, <3>1, FlushedContent
    <2> QED
      BY <2>1, <2>2
  <1>4. Read' = Read
    BY <1>1 DEF Read, file
  <1>5. Sum(Placed) \in Nat /\ current.content \in Nat
    BY <1>1, FlushedContent
  <1>6. Text' = Read' /\ taken = 0
    <2>1. at > Len(units) /\ at \in 1 .. Len(units) + 1 /\ Len(units) \in Nat
      BY <1>1 DEF LastPage, TypeOK
    <2> QED
      BY <1>1, <2>1 DEF Text, Read, file, StageInv, CountInv
  <1>7. ContentInv'
    BY <1>1, <1>2 DEF ContentInv
  <1>8. total' = Sum(limited')
    BY <1>1 DEF NothingLost, result
  <1>9. status \notin NoPages =>
           /\ Sum(Placed') + current'.content = Sum(Read') + taken'
           /\ Sum(Placed') = Sum(Text')
    <2> SUFFICES ASSUME status \notin NoPages
                 PROVE  /\ Sum(Placed') + current'.content = Sum(Read') + taken'
                        /\ Sum(Placed') = Sum(Text')
      OBVIOUS
    <2>1. Sum(Placed) + current.content = Sum(Read) + taken
      BY <1>1 DEF NothingLost
    <2>2. Sum(Placed') + 0 = Sum(Read) + taken
      BY <1>3, <1>5, <2>1
    <2>3. taken' = taken /\ current'.content = 0
      BY <1>1, <1>2
    <2>4. Sum(Read) \in Nat
      <3>1. Read \in Seq(Nat)
        BY <1>1, <1>6, UnitFact DEF Read, TypeOK
      <3> QED
        BY <3>1, SumFact
    <2>5. Sum(Placed') = Sum(Read)
      BY <1>3, <1>5, <1>6, <2>1, <2>4
    <2>6. Sum(Read) = Sum(Text')
      BY <1>4, <1>6
    <2>7. Sum(Placed') + current'.content = Sum(Read') + taken'
      BY <1>4, <2>2, <2>3
    <2> QED
      BY <2>5, <2>6, <2>7
  <1> QED
    BY <1>1, <1>7, <1>8, <1>9 DEF NothingLost, file, result

LEMMA LimitCounts ==
    ASSUME CountInv, LimitPage PROVE ContentInv' /\ NothingLost'
  <1> DEFINE page == pages[Len(limited) + 1]
             n    == Smaller(Smaller(page.length, PageLimit), Remaining)
  <1>1. /\ TypeOK /\ LimitInv /\ ContentInv /\ NothingLost
        /\ limited' = Append(limited, n) /\ total' = total + n
        /\ UNCHANGED <<file, at, taken, current, pages, status>>
    BY DEF LimitPage, CountInv, IInv
  <1>2. n \in Nat
    <2>1. /\ limited \in Seq(Nat) /\ pages \in Seq(Page) /\ total \in Nat
          /\ Len(limited) < Smaller(Len(pages), MaxPages)
          /\ total <= TextLimit
      BY <1>1 DEF TypeOK, LimitInv, LimitPage
    <2>2. Len(limited) + 1 \in 1 .. Len(pages)
      BY <2>1, LimitsAssumption DEF Smaller
    <2>3. page.length \in Nat /\ PageLimit \in Nat /\ Remaining \in Nat
      BY <2>1, <2>2, LimitsAssumption, NextPageFact, RemainingFact
    <2> QED
      BY <2>3 DEF Smaller
  <1> HIDE DEF n
  <1>3. /\ limited \in Seq(Nat) /\ limited' \in Seq(Nat)
        /\ Len(limited') = Len(limited) + 1 /\ limited'[Len(limited')] = n
        /\ \A i \in 1 .. Len(limited) : limited'[i] = limited[i]
    BY <1>1, <1>2 DEF TypeOK
  <1>4. Sum(limited') = Sum(limited) + n
    BY <1>2, <1>3, SumOfAppend
  <1>5. Placed' = Placed /\ Read' = Read /\ Text' = Text
    BY <1>1 DEF Placed, Read, Text, file
  <1>6. stage # "split"
    BY DEF LimitPage
  <1> QED
    BY <1>1, <1>4, <1>5, <1>6 DEF ContentInv, NothingLost, file

\* The steps on other kinds of files, and those that place nothing.
LEMMA OthersCount ==
    ASSUME CountInv,
           \/ Fails \/ Raises \/ PdfPage \/ PdfEnds \/ FeedPages \/ LimitsEnd
           \/ UNCHANGED vars
    PROVE  ContentInv' /\ NothingLost'
  <1>1. ContentInv /\ NothingLost
    BY DEF CountInv
  <1>2. CASE Fails \/ Raises
    <2>1. status' \in NoPages /\ current' = Blank /\ UNCHANGED result
      BY <1>2 DEF Fails, Raises, BreaksOff, NoPages
    <2> QED
      BY <1>1, <2>1 DEF ContentInv, NothingLost, Blank, result
  <1>3. CASE PdfPage \/ PdfEnds \/ FeedPages
    <2>1. /\ kind' \notin {"docx", "txt"} /\ UNCHANGED <<current, result>>
      BY <1>3 DEF PdfPage, PdfEnds, FeedPages, SplitEnds, file
    <2> QED
      BY <1>1, <2>1 DEF ContentInv, NothingLost, result
  <1>4. CASE LimitsEnd
    <2>1. status \notin NoPages
      BY <1>4 DEF LimitsEnd, CountInv, StageInv, NoPages
    <2> QED
      BY <1>1, <1>4, <2>1
      DEF ContentInv, NothingLost, Placed, Read, Text, LimitsEnd, file
  <1>5. CASE UNCHANGED vars
    BY <1>1, <1>5 DEF ContentInv, NothingLost, Placed, Read, Text, vars
  <1> QED
    BY <1>2, <1>3, <1>4, <1>5

LEMMA InitCounts == Init => CountInv
  <1> SUFFICES ASSUME Init PROVE CountInv
    OBVIOUS
  <1>1. /\ pages = << >> /\ current = Blank /\ at = 1 /\ taken = 0
        /\ limited = << >> /\ total = 0 /\ status = "none"
        /\ stage = "split"
    BY DEF Init
  <1>2. Placed = << >> /\ Read = << >>
    BY <1>1 DEF Placed, Read
  <1> QED
    BY <1>1, <1>2, InitIInv, SumEmpty
    DEF CountInv, ContentInv, StageInv, NothingLost, Blank

\* The sums are kept by every step: what has been placed on the pages is what
\* has been read of the file, and the reported count that of the kept pages.
THEOREM CountInvariance == Spec => []CountInv
  <1>1. CountInv /\ [Next]_vars => ContentInv' /\ NothingLost' /\ StageInv'
    <2> SUFFICES ASSUME CountInv, [Next]_vars
                 PROVE  ContentInv' /\ NothingLost' /\ StageInv'
      OBVIOUS
    <2>1. StageInv'
      BY StageKeeps DEF CountInv, IInv
    <2>2. CASE \/ Fails \/ Raises \/ PdfPage \/ PdfEnds \/ FeedPages \/ LimitsEnd
               \/ UNCHANGED vars
      BY <2>1, <2>2, OthersCount
    <2>3. CASE DocxPiece
      BY <2>1, <2>3, DocxCounts
    <2>4. CASE TxtFullPage
      BY <2>1, <2>4, TxtFullPageCounts
    <2>5. CASE TxtParagraph
      BY <2>1, <2>5, TxtParagraphCounts
    <2>6. CASE LastPage
      BY <2>1, <2>6, LastPageCounts
    <2>7. CASE LimitPage
      BY <2>1, <2>7, LimitCounts
    <2> QED
      BY <2>2, <2>3, <2>4, <2>5, <2>6, <2>7 DEF Next
  <1>2. Init => ContentInv /\ StageInv /\ NothingLost
    BY InitCounts DEF CountInv
  <1>3. CountInv <=> IInv /\ ContentInv /\ StageInv /\ NothingLost
    BY DEF CountInv
  <1> QED
    BY Invariance, <1>1, <1>2, <1>3, PTL DEF Spec

\* Splitting a DOCX or TXT file neither loses nor repeats a character, at
\* any size of pages and of units, and the reported count is that of the
\* stored pages (_split_section, _chunk_text and _apply_limits).
THEOREM NothingIsLost == Spec => []NothingLost
  <1>1. CountInv => NothingLost
    BY DEF CountInv
  <1> QED
    BY CountInvariance, <1>1, PTL
=============================================================================
