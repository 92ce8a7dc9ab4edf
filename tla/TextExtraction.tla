--------------------------- MODULE TextExtraction ---------------------------
(***************************************************************************)
(* The extraction of the source text of one stored file                    *)
(* (server/app/services/extraction.py): the file is split into pages, the  *)
(* pages are cut to the configured limits and the result gets its status.  *)
(* DocumentStore treats all this as one step; here are its loops, one      *)
(* action per turn.                                                        *)
(*                                                                         *)
(* Of a text only its length is kept, counted in characters, together with *)
(* how many of them come from the file and are not separators.  A unit of  *)
(* the file is a physical page of a PDF, a paragraph or table of a DOCX, a *)
(* paragraph or a form-feed page of a TXT.                                 *)
(***************************************************************************)
EXTENDS Integers, Sequences

CONSTANTS
    TextLimit,     \* extraction_text_limit
    PageLimit,     \* extraction_page_text_limit
    MaxPages,      \* extraction_max_pages
    SectionSize,   \* 20_000: the most characters of a DOCX page
    TextPageSize,  \* 12_000: the most characters of a TXT page
    Lengths,       \* the lengths of units considered
    MaxUnits       \* bound: units of the file

ASSUME LimitsAssumption ==
    /\ TextLimit \in Nat \ {0} /\ PageLimit \in Nat \ {0}
    /\ MaxPages \in Nat \ {0}
    /\ SectionSize \in Nat \ {0} /\ TextPageSize \in Nat \ {0}
ASSUME FileAssumption == Lengths \subseteq Nat /\ MaxUnits \in Nat

VARIABLES
    kind,       \* the kind of file
    units,      \* what the file consists of
    short,      \* the byte budget has cut the TXT input
    stage,      \* "split", "limit" or "done"
    at, taken,  \* the unit in work, and how many of its characters are placed
    current,    \* the page being filled
    pages,      \* the pages split off
    limited,    \* the pages that are kept
    total,      \* their characters
    truncated,  \* whether _apply_limits has cut something
    status      \* the status of the result

vars == <<kind, units, short, stage, at, taken, current, pages, limited,
          total, truncated, status>>

Kinds == {"pdf", "docx", "txt", "feeds"}   \* feeds: a TXT with form feeds

\* marked: a PDF page with meaningful embedded text; the heading of a DOCX.
Unit == [length: Lengths, marked: BOOLEAN]
Page == [length: Nat, content: Nat, unread: BOOLEAN]
Blank == [length |-> 0, content |-> 0, unread |-> FALSE]

Statuses == {"none", "processed", "partially_processed", "ocr_required",
             "failed", "raised"}

\* raised: an exception has left extract_document, and there is no result.
NoPages == {"failed", "raised"}

TypeOK ==
    /\ kind \in Kinds /\ units \in Seq(Unit) /\ short \in BOOLEAN
    /\ stage \in {"split", "limit", "done"}
    /\ at \in 1 .. Len(units) + 1 /\ taken \in Nat
    /\ current \in Page /\ pages \in Seq(Page)
    /\ limited \in Seq(Nat) /\ total \in Nat
    /\ truncated \in BOOLEAN /\ status \in Statuses

\* Normalised paragraphs and tables are not empty; pages may be.
Files == UNION {[1 .. n -> Unit] : n \in 0 .. MaxUnits}

Init ==
    /\ kind \in Kinds
    /\ units \in Files
    /\ kind \in {"docx", "txt"} =>
          \A i \in 1 .. Len(units) : units[i].length > 0
    /\ kind = "feeds" => Len(units) > 1
    /\ short \in (IF kind \in {"txt", "feeds"} THEN BOOLEAN ELSE {FALSE})
    /\ stage = "split" /\ at = 1 /\ taken = 0
    /\ current = Blank /\ pages = << >>
    /\ limited = << >> /\ total = 0 /\ truncated = FALSE
    /\ status = "none"

Smaller(m, n) == IF m < n THEN m ELSE n

file == <<kind, units, short>>
result == <<limited, total, truncated>>

-----------------------------------------------------------------------------
(* Splitting.                                                              *)

BreaksOff(outcome) ==
    /\ stage = "split"
    /\ stage' = "done"
    /\ status' = outcome
    /\ pages' = << >> /\ current' = Blank
    /\ UNCHANGED <<file, at, taken, result>>

\* A file that cannot be opened, decoded or read to its end yields no page.
Fails == BreaksOff("failed")

\* The libraries behind _extract_pdf and _extract_docx may raise what their
\* except clauses do not name (a DOCX part that is no XML does).
Raises == kind \in {"pdf", "docx"} /\ BreaksOff("raised")

SplitEnds ==
    /\ stage' = "limit"
    /\ UNCHANGED <<file, at, taken, result, status>>

\* _extract_pdf: a page without meaningful text is read by OCR, or not at all.
PdfPage ==
    /\ stage = "split" /\ kind = "pdf"
    /\ at <= Len(units) /\ at <= MaxPages
    /\ \/ pages' = Append(pages, [length  |-> units[at].length,
                                  content |-> units[at].length,
                                  unread  |-> FALSE])
       \/ /\ ~units[at].marked
          /\ pages' = Append(pages, [Blank EXCEPT !.unread = TRUE])
    /\ at' = at + 1
    /\ UNCHANGED <<file, stage, taken, current, result, status>>

PdfEnds ==
    /\ stage = "split" /\ kind = "pdf"
    /\ at > Len(units) \/ at > MaxPages
    /\ SplitEnds
    /\ UNCHANGED <<pages, current>>

\* page with a piece of n characters behind a separator of two.
With(page, n) ==
    [page EXCEPT !.length  = @ + n + (IF page.length = 0 THEN 0 ELSE 2),
                 !.content = @ + n]

Flushed == IF current.length = 0 THEN pages ELSE Append(pages, current)

DocxSize == Smaller(SectionSize, PageLimit)

SectionBegins == kind = "docx" /\ units[at].marked /\ taken = 0

\* Whether n more characters still fit on the current page.
Fits(n, size) == With(current, n).length <= size

\* _split_section: the pieces of a block are packed into the page; a
\* heading, or a piece that does not fit, begins the next one.
DocxPiece ==
    /\ stage = "split" /\ kind = "docx" /\ at <= Len(units)
    /\ LET piece == Smaller(units[at].length - taken, DocxSize)
           last  == taken + piece = units[at].length
       IN  /\ IF ~SectionBegins /\ Fits(piece, DocxSize)
              THEN /\ current' = With(current, piece)
                   /\ UNCHANGED pages
              ELSE /\ current' = With(Blank, piece)
                   /\ pages' = Flushed
           /\ at' = IF last THEN at + 1 ELSE at
           /\ taken' = IF last THEN 0 ELSE taken + piece
    /\ UNCHANGED <<file, stage, result, status>>

TxtSize == Smaller(TextPageSize, PageLimit)

\* What of a paragraph goes on after a full page has been cut off it.
NothingLeft(at0, taken0) == [at |-> at0 + 1, taken |-> 0]
Rest(at0, taken0)        == [at |-> at0, taken |-> taken0 + TxtSize]

\* _chunk_text: a paragraph longer than a page gives full pages of its own.
TxtFullPage ==
    /\ stage = "split" /\ kind = "txt" /\ at <= Len(units)
    /\ units[at].length - taken > TxtSize
    /\ pages' = Append(Flushed, With(Blank, TxtSize))
    /\ current' = Blank
    /\ at' = Rest(at, taken).at /\ taken' = Rest(at, taken).taken
    /\ UNCHANGED <<file, stage, result, status>>

\* What remains joins the current page if it fits.
TxtParagraph ==
    /\ stage = "split" /\ kind = "txt" /\ at <= Len(units)
    /\ LET piece == units[at].length - taken IN
       /\ piece <= TxtSize
       /\ IF Fits(piece, TxtSize)
          THEN current' = With(current, piece) /\ UNCHANGED pages
          ELSE current' = With(Blank, piece) /\ pages' = Flushed
    /\ at' = at + 1 /\ taken' = 0
    /\ UNCHANGED <<file, stage, result, status>>

\* The last page; a file without text has one empty page.
LastPage ==
    /\ stage = "split" /\ kind \in {"docx", "txt"}
    /\ at > Len(units)
    /\ pages' = IF pages = << >> THEN <<current>> ELSE Flushed
    /\ current' = Blank
    /\ SplitEnds

\* Form feeds: the pages of the file are the pages, whatever their length.
FeedPages ==
    /\ stage = "split" /\ kind = "feeds"
    /\ pages' = [i \in 1 .. Len(units) |-> With(Blank, units[i].length)]
    /\ SplitEnds
    /\ UNCHANGED current

-----------------------------------------------------------------------------
(* _apply_limits, and the status.                                          *)

\* What is left of the text limit.
OfOnePage == TextLimit
Remaining == TextLimit - total

\* Whether a page that keeps only n of its characters has been cut.
CutToRemaining(page, n) == n < Smaller(page.length, PageLimit)
CutAnywhere(page, n)    == n < page.length

LimitPage ==
    /\ stage = "limit"
    /\ Len(limited) < Smaller(Len(pages), MaxPages)
    /\ Remaining > 0
    /\ LET page == pages[Len(limited) + 1]
           n    == Smaller(Smaller(page.length, PageLimit), Remaining)
       IN  /\ limited' = Append(limited, n)
           /\ total' = total + n
           /\ truncated' = (truncated \/ CutAnywhere(page, n))
    /\ UNCHANGED <<file, stage, at, taken, current, pages, status>>

\* The status, from the pages without text and from what has been cut.
StatusOf(cut) ==
    IF pages # << >> /\ \A i \in 1 .. Len(pages) : pages[i].unread
    THEN "ocr_required"
    ELSE IF cut \/ short \/ \E i \in 1 .. Len(pages) : pages[i].unread
    THEN "partially_processed"
    ELSE "processed"

\* The loop ends with the pages or with a limit.
LimitsEnd ==
    /\ stage = "limit"
    /\ \/ Len(limited) = Smaller(Len(pages), MaxPages)
       \/ Remaining <= 0
    /\ LET cut == \/ truncated
                  \/ Len(limited) < Len(pages)
                  \/ kind = "pdf" /\ Len(units) > MaxPages
       IN  truncated' = cut /\ status' = StatusOf(cut)
    /\ stage' = "done"
    /\ UNCHANGED <<file, at, taken, current, pages, limited, total>>

-----------------------------------------------------------------------------

Next ==
    \/ Fails \/ Raises
    \/ PdfPage \/ PdfEnds
    \/ DocxPiece \/ TxtFullPage \/ TxtParagraph \/ LastPage \/ FeedPages
    \/ LimitPage \/ LimitsEnd

Spec == Init /\ [][Next]_vars

-----------------------------------------------------------------------------
(* Properties.                                                             *)

\* The kept pages respect the three limits, and a page split off by the
\* code itself respects the limit of a page before it is cut.
LimitsRespected ==
    /\ Len(limited) <= MaxPages
    /\ \A i \in 1 .. Len(limited) : limited[i] <= PageLimit
    /\ total <= TextLimit
    /\ kind \in {"docx", "txt"} =>
          \A i \in 1 .. Len(pages) : pages[i].length <= PageLimit

\* The result keeps the whole of every page.
Whole ==
    /\ ~short
    /\ Len(limited) = Len(pages)
    /\ \A i \in 1 .. Len(pages) : /\ ~pages[i].unread
                                  /\ limited[i] = pages[i].length
    /\ kind = "pdf" => Len(units) <= MaxPages

\* "processed" is said of a file exactly if nothing of it has been left out
\* (the truthful extraction result that process_document stores).
HonestStatus ==
    (stage = "done" /\ status \notin NoPages)
        => ((status = "processed") <=> Whole)

Sum(f) ==
    LET sum[i \in 0 .. Len(f)] == IF i = 0 THEN 0 ELSE sum[i - 1] + f[i]
    IN  sum[Len(f)]

Placed == [i \in 1 .. Len(pages) |-> pages[i].content]
Read   == [i \in 1 .. at - 1 |-> units[i].length]
Text   == [i \in 1 .. Len(units) |-> units[i].length]

\* Splitting neither loses nor repeats a character, wherever the pages are
\* cut, and ends with the text; and the count that is reported is that of the
\* stored pages.
NothingLost ==
    /\ (kind \in {"docx", "txt"} /\ status \notin NoPages) =>
          /\ Sum(Placed) + current.content = Sum(Read) + taken
          /\ stage # "split" => Sum(Placed) = Sum(Text)
    /\ total = Sum(limited)
=============================================================================
