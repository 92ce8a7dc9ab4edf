------------------------- MODULE CaseAnalysisProofs --------------------------
(***************************************************************************)
(* What a run reports, for any documents, records and overlapping calls.   *)
(*                                                                         *)
(* Steps of a call that leave the runs alone are CallStep, those that      *)
(* change its own run are RunStep; the start of a run and the coming and   *)
(* going of pages have a lemma each.  First comes what First and Newest    *)
(* choose, then what a run finds in what it has read.                      *)
(***************************************************************************)
EXTENDS CaseAnalysis, FiniteSetTheorems, WellFoundedInduction, TLAPS

-----------------------------------------------------------------------------
(* Least and greatest numbers.                                             *)

Less == {p \in Nat \X Nat : p[1] < p[2]}

LEMMA LessIsWellFounded == IsWellFoundedOn(Less, Nat)
  BY NatLessThanWellFounded, Zenon DEF OpToRel, Less

\* A set of natural numbers has a least one.
LEMMA Least ==
    ASSUME NEW T \in SUBSET Nat, T # {}
    PROVE  \E x \in T : \A y \in T : x <= y
  <1>1. PICK x \in T : \A y \in T : ~(<<y, x>> \in Less)
    BY LessIsWellFounded, WFMin, Zenon
  <1>2. \A y \in T : ~(y < x)
    BY <1>1 DEF Less
  <1> QED
    BY <1>2

\* A bounded one has a greatest: the least distance from the bound.
LEMMA Greatest ==
    ASSUME NEW n \in Nat, NEW T \in SUBSET (1 .. n), T # {}
    PROVE  \E x \in T : \A y \in T : x >= y
  <1> DEFINE U == {m \in Nat : \E x \in T : m = n - x}
  <1>1. PICK x \in T : TRUE
    OBVIOUS
  <1>2. n - x \in U
    BY <1>1
  <1>3. PICK u \in U : \A v \in U : u <= v
    BY <1>2, Least
  <1>4. PICK y \in T : u = n - y
    BY <1>3
  <1>5. \A z \in T : n - z \in U
    OBVIOUS
  <1>6. \A z \in T : n - y <= n - z
    BY <1>3, <1>4, <1>5
  <1> QED
    BY <1>4, <1>6

\* The first observation is one of the observations.
LEMMA FirstFact ==
    ASSUME NEW O \in SUBSET Observation, O # {}
    PROVE  First(O) \in O
  <1> DEFINE T == {o.at : o \in O}
  <1>1. T \in SUBSET Nat /\ T # {}
    BY DEF Observation
  <1>2. PICK x \in T : \A y \in T : x <= y
    BY <1>1, Least
  <1>3. PICK o \in O : o.at = x
    BY <1>2
  <1>4. \A p \in O : o.at <= p.at
    BY <1>2, <1>3
  <1> QED
    BY <1>4 DEF First

\* The newest committed run, 0 without any.
LatestIsNewest ==
    /\ LatestRun \in Nat
    /\ \A i \in Committed : LatestRun >= i
    /\ Committed # {} => LatestRun \in Committed

LEMMA LatestFact == TypeOK => LatestIsNewest
  <1> SUFFICES ASSUME TypeOK
               PROVE  /\ LatestRun \in Nat
                      /\ \A i \in Committed : LatestRun >= i
                      /\ Committed # {} => LatestRun \in Committed
    BY DEF LatestIsNewest
  <1>1. Len(runs) \in Nat /\ Committed \in SUBSET (1 .. Len(runs))
    BY DEF TypeOK, Committed
  <1>2. CASE Committed = {}
    BY <1>2 DEF LatestRun
  <1>3. CASE Committed # {}
    <2>1. PICK x \in Committed : \A y \in Committed : x >= y
      BY <1>1, <1>3, Greatest
    <2>2. /\ Newest(Committed) \in Committed
          /\ \A j \in Committed : Newest(Committed) >= j
      BY <2>1 DEF Newest
    <2>3. LatestRun = Newest(Committed)
      BY <1>3 DEF LatestRun
    <2>4. LatestRun \in Committed
      BY <2>2, <2>3, Zenon
    <2>5. \A j \in Committed : LatestRun >= j
      BY <2>2, <2>3, Zenon
    <2> QED
      BY <1>1, <2>4, <2>5
  <1> QED
    BY <1>2, <1>3

-----------------------------------------------------------------------------
(* What a run makes of what it has read.                                   *)

\* What is assumed of the records of a case.
IsReading(r) ==
    /\ r.pages \in [Documents -> Nat \ {0}]
    /\ r.lines \in Seq(Line)
    /\ \A i \in 1 .. Len(r.lines) :
          r.lines[i].number \in 1 .. r.pages[r.lines[i].document]

\* The pages that have been read are those of the loaded extractions.
LEMMA PagesFact ==
    ASSUME NEW r, IsReading(r), NEW S \in Sources
    PROVE  \A p \in SourcePages(r, S) :
              /\ p \in Page /\ p.extraction # 0
              /\ p.extraction = S[p.document]
              /\ p.number \in 1 .. r.pages[p.document]
  <1> SUFFICES ASSUME NEW p \in SourcePages(r, S)
               PROVE  /\ p \in Page /\ p.extraction # 0
                      /\ p.extraction = S[p.document]
                      /\ p.number \in 1 .. r.pages[p.document]
    OBVIOUS
  <1>1. PICK d \in Documents :
           /\ S[d] # 0
           /\ p \in [document: {d}, number: 1 .. r.pages[d], extraction: {S[d]}]
    BY DEF SourcePages
  <1>2. S[d] \in Extractions /\ r.pages[d] \in Nat
    BY DEF Sources, IsReading
  <1>3. /\ p = [document |-> p.document, number |-> p.number,
                extraction |-> p.extraction]
        /\ p.document = d /\ p.extraction = S[d] /\ p.number \in 1 .. r.pages[d]
    BY <1>1
  <1> QED
    BY <1>1, <1>2, <1>3 DEF Page

\* An observation is a line that has been read, on a page that has been read,
\* and there is one for each such line.
LEMMA ObservationsFact ==
    ASSUME NEW r, IsReading(r), NEW S \in Sources
    PROVE  /\ Observations(r, S) \in SUBSET Observation
           /\ \A o \in Observations(r, S) :
                 /\ o.at \in LinesRead(r, S) /\ o.line = r.lines[o.at]
                 /\ PageOf(o) \in SourcePages(r, S)
           /\ \A i \in LinesRead(r, S) : \E o \in Observations(r, S) : o.at = i
  <1>1. \A i \in LinesRead(r, S) :
           /\ i \in 1 .. Len(r.lines) /\ i \in Nat
           /\ r.lines[i] \in Line /\ S[r.lines[i].document] # 0
    BY DEF LinesRead, IsReading
  <1>2. ASSUME NEW i \in LinesRead(r, S),
               NEW o, o = [at |-> i, line |-> r.lines[i],
                           extraction |-> S[r.lines[i].document]]
        PROVE  /\ o \in Observation /\ o.at = i /\ o.line = r.lines[o.at]
               /\ PageOf(o) \in SourcePages(r, S)
    <2> DEFINE d == r.lines[i].document
    <2>1. /\ d \in Documents /\ S[d] \in Extractions /\ S[d] # 0
          /\ r.lines[i].number \in 1 .. r.pages[d]
      BY <1>1 DEF Line, Sources, IsReading
    <2>2. o \in Observation /\ o.at = i /\ o.line = r.lines[o.at]
      BY <1>1, <1>2, <2>1 DEF Observation
    <2>3. PageOf(o) = [document |-> d, number |-> r.lines[i].number,
                       extraction |-> S[d]]
      BY <1>2 DEF PageOf
    <2> HIDE DEF d
    <2>4. PageOf(o) \in [document: {d}, number: 1 .. r.pages[d],
                         extraction: {S[d]}]
      BY <2>1, <2>3
    <2> QED
      BY <2>1, <2>2, <2>4 DEF SourcePages
  <1> DEFINE Read(i) == [at |-> i, line |-> r.lines[i],
                         extraction |-> S[r.lines[i].document]]
  <1>3. Observations(r, S) = {Read(i) : i \in LinesRead(r, S)}
    BY DEF Observations
  <1>4. \A i \in LinesRead(r, S) :
           /\ Read(i) \in Observation /\ Read(i).at = i
           /\ Read(i).line = r.lines[Read(i).at]
           /\ PageOf(Read(i)) \in SourcePages(r, S)
    BY <1>2
  <1> HIDE DEF Read
  <1> QED
    BY <1>3, <1>4

\* The pages of a set of findings, one by one.
LEMMA CitedFact ==
    ASSUME NEW f, NEW p
    PROVE  p \in Cited(f) <=>
              \/ p \in f.facts \/ p \in f.timeline \/ p \in f.procedural
              \/ p \in f.citations
              \/ \E c \in f.contradictions : p = c.pages[1] \/ p = c.pages[2]
  BY DEF Cited

\* The findings of a reading are typed, cite pages that have been read, and
\* report exactly the keys of which the lines disagree.
LEMMA FindingsFact ==
    ASSUME NEW r, IsReading(r), NEW S \in Sources, NEW f,
           f = FindingsOf(SourcePages(r, S), Observations(r, S)),
           NEW run, run.found = f, run.read = S
    PROVE  /\ f \in Findings /\ Cited(f) \subseteq SourcePages(r, S)
           /\ IsReal(r, run) /\ IsWhole(r, run)
  <1> DEFINE O == Observations(r, S)
             P == SourcePages(r, S)
  <1>1. /\ O \in SUBSET Observation
        /\ \A o \in O : /\ o.at \in LinesRead(r, S) /\ o.line = r.lines[o.at]
                        /\ PageOf(o) \in P
        /\ \A i \in LinesRead(r, S) : \E o \in O : o.at = i
    BY ObservationsFact
  <1>2. \A p \in P : p \in Page
    BY PagesFact
  <1>3. /\ f.facts = FactPages(P, O) /\ f.timeline = TimelinePages(O)
        /\ f.contradictions = {ContradictionOf(O, k) : k \in Contradicted(O)}
        /\ f.procedural = {PageOf(o) : o \in Remarkable(O)}
        /\ f.citations = {}
        /\ f = [facts |-> f.facts, timeline |-> f.timeline,
                contradictions |-> f.contradictions,
                procedural |-> f.procedural, citations |-> f.citations]
    BY DEF FindingsOf
  <1> HIDE DEF O, P
  <1>4. \A k : WithKey(O, k) # {} =>
                 /\ First(WithKey(O, k)) \in O
                 /\ First(WithKey(O, k)).line.key = k
    <2> SUFFICES ASSUME NEW k, WithKey(O, k) # {}
                 PROVE  /\ First(WithKey(O, k)) \in O
                        /\ First(WithKey(O, k)).line.key = k
      OBVIOUS
    <2>1. First(WithKey(O, k)) \in WithKey(O, k)
      BY <1>1, FirstFact DEF WithKey
    <2> QED
      BY <2>1 DEF WithKey
  <1>5. \A k : Differing(O, k) # {} =>
                 /\ WithKey(O, k) # {}
                 /\ First(Differing(O, k)) \in O
                 /\ First(Differing(O, k)).line.key = k
                 /\ First(Differing(O, k)).line.value #
                       First(WithKey(O, k)).line.value
    <2> SUFFICES ASSUME NEW k, Differing(O, k) # {}
                 PROVE  /\ WithKey(O, k) # {}
                        /\ First(Differing(O, k)) \in O
                        /\ First(Differing(O, k)).line.key = k
                        /\ First(Differing(O, k)).line.value #
                              First(WithKey(O, k)).line.value
      OBVIOUS
    <2>1. Differing(O, k) \in SUBSET Observation
      BY <1>1 DEF Differing, WithKey
    <2>2. First(Differing(O, k)) \in Differing(O, k)
      BY <2>1, FirstFact
    <2> QED
      BY <2>2 DEF Differing, WithKey
  \* A contradiction is made of two observations that disagree on its key.
  <1>6. ASSUME NEW k \in Contradicted(O), NEW c, c = ContradictionOf(O, k)
        PROVE  \E o, p \in O :
                  /\ c = [first |-> o.at, second |-> p.at,
                          pages |-> <<PageOf(o), PageOf(p)>>]
                  /\ o.line.key = k /\ p.line.key = k
                  /\ o.line.value # p.line.value
    <2>1. Differing(O, k) # {}
      BY DEF Contradicted
    <2> DEFINE o == First(WithKey(O, k))
               p == First(Differing(O, k))
    <2>2. c = [first |-> o.at, second |-> p.at,
               pages |-> <<PageOf(o), PageOf(p)>>]
      BY <1>6 DEF ContradictionOf
    <2>3. /\ o \in O /\ p \in O /\ o.line.key = k /\ p.line.key = k
          /\ o.line.value # p.line.value
      BY <1>4, <1>5, <2>1
    <2> HIDE DEF o, p
    <2> QED
      BY <2>2, <2>3
  <1>7. \A c \in f.contradictions : \E k \in Contradicted(O) : \E o, p \in O :
           /\ c = ContradictionOf(O, k)
           /\ c.first = o.at /\ c.second = p.at
           /\ c.pages = <<PageOf(o), PageOf(p)>>
           /\ c = [first |-> c.first, second |-> c.second, pages |-> c.pages]
           /\ o.line.key = k /\ p.line.key = k /\ o.line.value # p.line.value
    <2> SUFFICES ASSUME NEW c \in f.contradictions
                 PROVE  \E k \in Contradicted(O) : \E o, p \in O :
                    /\ c = ContradictionOf(O, k)
                    /\ c.first = o.at /\ c.second = p.at
                    /\ c.pages = <<PageOf(o), PageOf(p)>>
                    /\ c = [first |-> c.first, second |-> c.second,
                            pages |-> c.pages]
                    /\ o.line.key = k /\ p.line.key = k
                    /\ o.line.value # p.line.value
      OBVIOUS
    <2>1. PICK k \in Contradicted(O) : c = ContradictionOf(O, k)
      BY <1>3
    <2>2. PICK o \in O, p \in O :
             /\ c = [first |-> o.at, second |-> p.at,
                     pages |-> <<PageOf(o), PageOf(p)>>]
             /\ o.line.key = k /\ p.line.key = k /\ o.line.value # p.line.value
      BY <1>6, <2>1
    <2>3. /\ c.first = o.at /\ c.second = p.at
          /\ c.pages = <<PageOf(o), PageOf(p)>>
          /\ c = [first |-> c.first, second |-> c.second, pages |-> c.pages]
      BY <2>2
    <2> QED
      BY <2>1, <2>2, <2>3, Zenon
  \* Every page that is cited has been read.
  <1>8. f.facts \subseteq P
    <2>1. CASE O = {}
      BY <1>3, <2>1 DEF FactPages, FirstPages
    <2>2. CASE O # {}
      <3> DEFINE earliest == {o \in O : Cardinality({p \in O : p.at < o.at}) < FactLimit}
      <3>1. f.facts = {PageOf(o) : o \in earliest}
        BY <1>3, <2>2 DEF FactPages
      <3>2. earliest \subseteq O
        BY Zenon
      <3> HIDE DEF earliest
      <3> QED
        BY <1>1, <3>1, <3>2
    <2> QED
      BY <2>1, <2>2
  <1>9. f.timeline \subseteq P
    <2> DEFINE timed == {o \in O : o.line.key \in TIMELINE_TITLES}
               earliest == {o \in timed :
                  Cardinality({p \in timed : Earlier(p, o)}) < TimelineLimit}
    <2>1. f.timeline = {PageOf(o) : o \in earliest}
      BY <1>3, Zenon DEF TimelinePages
    <2>2. earliest \subseteq O
      BY Zenon
    <2> HIDE DEF earliest
    <2> QED
      BY <1>1, <2>1, <2>2
  <1>10. f.procedural \subseteq P
    <2>1. ASSUME NEW o \in Remarkable(O) PROVE o \in O
      <3>1. CASE \E k \in Questioned(O) : o = First(WithKey(O, k))
        <4>1. PICK k \in Questioned(O) : o = First(WithKey(O, k))
          BY <3>1
        <4>2. \E p \in O : p.line.key = k
          BY DEF Questioned
        <4> QED
          BY <1>4, <4>1, <4>2 DEF WithKey
      <3>2. CASE \E k : Deficient(O, k) # {} /\ o = First(Deficient(O, k))
        <4>1. PICK k : Deficient(O, k) # {} /\ o = First(Deficient(O, k))
          BY <3>2
        <4>2. Deficient(O, k) \in SUBSET O
          BY DEF Deficient, WithKey
        <4>3. o \in Deficient(O, k)
          BY <1>1, <4>1, <4>2, FirstFact
        <4> QED
          BY <4>2, <4>3
      <3> QED
        BY <2>1, <3>1, <3>2 DEF Remarkable
    <2> QED
      BY <1>1, <1>3, <2>1
  <1>11. \A c \in f.contradictions : c.pages[1] \in P /\ c.pages[2] \in P
    BY <1>1, <1>7
  <1>12. Cited(f) \subseteq P
    BY <1>3, <1>8, <1>9, <1>10, <1>11, CitedFact
  <1>13. f \in Findings
    <2>1. \A c \in f.contradictions : c \in Contradiction
      <3> SUFFICES ASSUME NEW c \in f.contradictions PROVE c \in Contradiction
        OBVIOUS
      <3>1. PICK o \in O, p \in O :
               /\ c.first = o.at /\ c.second = p.at
               /\ c.pages = <<PageOf(o), PageOf(p)>>
               /\ c = [first |-> c.first, second |-> c.second, pages |-> c.pages]
        BY <1>7
      <3>2. o.at \in Nat /\ p.at \in Nat
        BY <1>1 DEF Observation
      <3>3. c.pages \in Page \X Page
        BY <1>1, <1>2, <3>1
      <3> QED
        BY <3>1, <3>2, <3>3 DEF Contradiction
    <2> QED
      BY <1>2, <1>3, <1>8, <1>9, <1>10, <2>1 DEF Findings
  <1>14. IsReal(r, run)
    <2> SUFFICES ASSUME NEW c \in f.contradictions
                 PROVE  /\ c.first \in LinesRead(r, S)
                        /\ c.second \in LinesRead(r, S)
                        /\ Disagree(r, c.first, c.second)
                        /\ IsOn(r, c.first, c.pages[1])
                        /\ IsOn(r, c.second, c.pages[2])
                        /\ \A b \in f.contradictions :
                              SameKey(r, b.first, c.first) => b = c
      BY DEF IsReal
    <2>1. PICK k \in Contradicted(O) : \E o, p \in O :
             /\ c = ContradictionOf(O, k)
             /\ c.first = o.at /\ c.second = p.at
             /\ c.pages = <<PageOf(o), PageOf(p)>>
             /\ o.line.key = k /\ p.line.key = k /\ o.line.value # p.line.value
      BY <1>7
    <2>2. PICK o \in O, p \in O :
             /\ c = ContradictionOf(O, k)
             /\ c.first = o.at /\ c.second = p.at
             /\ c.pages = <<PageOf(o), PageOf(p)>>
             /\ o.line.key = k /\ p.line.key = k /\ o.line.value # p.line.value
      BY <2>1
    <2>3. /\ r.lines[c.first] = o.line /\ r.lines[c.second] = p.line
          /\ c.first \in LinesRead(r, S) /\ c.second \in LinesRead(r, S)
      BY <1>1, <2>2
    <2>4. Disagree(r, c.first, c.second)
      BY <2>2, <2>3 DEF Disagree, SameKey, Contradicted
    <2>5. IsOn(r, c.first, c.pages[1]) /\ IsOn(r, c.second, c.pages[2])
      BY <2>2, <2>3 DEF IsOn, PageOf
    <2>6. ASSUME NEW b \in f.contradictions, SameKey(r, b.first, c.first)
          PROVE  b = c
      <3>1. PICK l \in Contradicted(O) : \E q \in O :
               b = ContradictionOf(O, l) /\ b.first = q.at /\ q.line.key = l
        BY <1>7
      <3>2. r.lines[b.first].key = l
        BY <1>1, <3>1
      <3>3. l = k
        BY <2>2, <2>3, <2>6, <3>2 DEF SameKey
      <3> QED
        BY <2>2, <3>1, <3>3
    <2> QED
      BY <2>3, <2>4, <2>5, <2>6
  <1>15. IsWhole(r, run)
    <2> SUFFICES ASSUME NEW i \in LinesRead(r, S), NEW j \in LinesRead(r, S),
                        Disagree(r, i, j)
                 PROVE  \E c \in f.contradictions : SameKey(r, c.first, i)
      BY DEF IsWhole
    <2>1. PICK o \in O, p \in O : o.at = i /\ p.at = j
      BY <1>1
    <2> DEFINE k == o.line.key
    <2>2. /\ r.lines[i].key = k /\ p.line.key = k /\ o.line.value # p.line.value
          /\ k \in CONTRADICTION_TITLES
      BY <1>1, <2>1 DEF Disagree, SameKey
    <2> HIDE DEF k
    <2>3. o \in WithKey(O, k) /\ p \in WithKey(O, k)
      BY <2>2 DEF WithKey, k
    <2>4. k \in Contradicted(O)
      BY <2>2, <2>3 DEF Contradicted, Differing
    <2>5. ContradictionOf(O, k) \in f.contradictions
      BY <1>3, <2>4
    <2>6. PICK q \in O : ContradictionOf(O, k).first = q.at /\ q.line.key = k
      BY <1>6, <2>4
    <2>7. r.lines[ContradictionOf(O, k).first].key = k
      BY <1>1, <2>6
    <2> QED
      BY <2>2, <2>5, <2>7 DEF SameKey
  <1> QED
    BY <1>12, <1>13, <1>14, <1>15 DEF P


-----------------------------------------------------------------------------
(* The parts of a run.                                                     *)

LEMMA IdleFact ==
    /\ Idle \in Call /\ Idle.at = "idle" /\ Unread \in Sources
    /\ NoFindings \in Findings /\ Cited(NoFindings) = {}
    /\ NewRun \in Run /\ NewRun.found = NoFindings /\ NewRun.status = "open"
  <1>1. Idle \in Call /\ Idle.at = "idle"
    BY BoundsAssumption DEF Idle, Call, Stages
  <1>2. Unread \in Sources
    BY BoundsAssumption DEF Unread, Sources, Extractions
  <1>3. NoFindings \in Findings
    BY DEF NoFindings, Findings
  <1>4. Cited(NoFindings) = {}
    BY DEF NoFindings, Cited
  <1> QED
    BY <1>1, <1>2, <1>3, <1>4 DEF NewRun, Run

\* Without findings everything holds of what is found.
LEMMA EmptyFact ==
    ASSUME NEW r, NEW S, NEW run, run.found = NoFindings
    PROVE  CitesPages(r, S, run.found) /\ IsReal(r, run)
  BY IdleFact DEF CitesPages, IsReal, NoFindings

\* Some kinds of findings, where all of them are real.
LEMMA UpToFact ==
    ASSUME NEW f \in Findings, NEW n, NEW r,
           NEW run, run.found = f, IsReal(r, run),
           NEW new, new.found = UpTo(n, f), new.read = run.read
    PROVE  /\ UpTo(n, f) \in Findings /\ Cited(UpTo(n, f)) \subseteq Cited(f)
           /\ IsReal(r, new)
  <1> DEFINE g == UpTo(n, f)
  <1>1. /\ g.facts \in {{}, f.facts} /\ g.timeline \in {{}, f.timeline}
        /\ g.contradictions \in {{}, f.contradictions}
        /\ g.procedural \in {{}, f.procedural} /\ g.citations = {}
        /\ g = [facts |-> g.facts, timeline |-> g.timeline,
                contradictions |-> g.contradictions,
                procedural |-> g.procedural, citations |-> g.citations]
    BY DEF UpTo
  <1> HIDE DEF g
  <1>2. g \in Findings
    BY <1>1 DEF Findings
  <1>3. Cited(g) \subseteq Cited(f)
    BY <1>1, CitedFact
  <1>4. IsReal(r, new)
    BY <1>1 DEF IsReal, g
  <1> QED
    BY <1>2, <1>3, <1>4 DEF g

\* The records of the case are one of the readings.
LEMMA SaysFact == TypeOK => IsReading(says)
  BY ReadingsAssumption DEF TypeOK, IsReading

\* What is inserted of what has been read cites existing pages.
LEMMA InsertedFact ==
    ASSUME TypeOK, NEW S \in Sources, NEW f,
           \A p \in Cited(f) : p \in SourcePages(says, S) /\ Referable(p)
    PROVE  CitesPages(says, document, f)
  BY SaysFact, PagesFact DEF CitesPages, Referable

\* A sequence with one element replaced.
LEMMA ReplaceFact ==
    ASSUME NEW T, NEW seq \in Seq(T), NEW i \in 1 .. Len(seq), NEW x \in T
    PROVE  /\ [seq EXCEPT ![i] = x] \in Seq(T)
           /\ Len([seq EXCEPT ![i] = x]) = Len(seq)
           /\ [seq EXCEPT ![i] = x][i] = x
           /\ \A j \in 1 .. Len(seq) : j # i => [seq EXCEPT ![i] = x][j] = seq[j]
  OBVIOUS

-----------------------------------------------------------------------------
(* The first state, and the two kinds of steps of a call.                  *)

LEMMA InitIInv == Init => IInv
  <1> SUFFICES ASSUME Init PROVE IInv
    OBVIOUS
  <1>1. /\ runs = << >> /\ Len(runs) = 0
        /\ \A c \in Calls : call[c] = Idle
    BY DEF Init
  <1>2. TypeOK
    <2>1. document \in Sources /\ extracted \in Extractions
      BY BoundsAssumption DEF Init, Sources, Extractions
    <2>2. runs \in Seq(Run) /\ Len(runs) <= MaxRequests
      BY <1>1, BoundsAssumption
    <2> QED
      BY <2>1, <2>2, IdleFact DEF Init, TypeOK
  <1>3. RunsOwned /\ RunsTrue
    BY <1>1, IdleFact DEF RunsOwned, RunsTrue, RunStages
  <1> QED
    BY <1>2, <1>3 DEF IInv

LEMMA StutterKeeps == ASSUME IInv, UNCHANGED vars PROVE IInv' /\ Committed' = Committed
  <1>1. Committed' = Committed
    BY DEF vars, Committed
  <1>2. TypeOK' /\ RunsOwned' /\ RunsTrue'
    BY DEF vars, IInv, TypeOK, RunsOwned, RunsTrue, RunOf
  <1> QED
    BY <1>1, <1>2 DEF IInv

\* A call goes on and the runs stay as they are.
LEMMA CallStep ==
    ASSUME IInv, NEW c \in Calls, NEW k \in Call,
           call' = [call EXCEPT ![c] = k],
           UNCHANGED <<says, document, extracted, runs, settings>>,
           answered' \in Nat, authorities' \in {"none", "stored"} \cup Calls,
           k.at # "stored",
           k.at \in RunStages => /\ call[c].at \in RunStages \ {"stored"}
                                 /\ k.run = call[c].run
    PROVE  IInv' /\ Committed' = Committed
  <1>0. TypeOK /\ RunsOwned /\ RunsTrue
    BY DEF IInv
  <1>1. /\ call' \in [Calls -> Call] /\ call'[c] = k
        /\ \A b \in Calls \ {c} : call'[b] = call[b]
    BY <1>0 DEF TypeOK
  <1>2. /\ says' = says /\ document' = document /\ extracted' = extracted
        /\ runs' = runs /\ settings' = settings
    OBVIOUS
  <1>3. TypeOK'
    BY <1>0, <1>1, <1>2 DEF TypeOK
  <1>4. RunsOwned'
    <2> SUFFICES ASSUME NEW b \in Calls, call'[b].at \in RunStages
                 PROVE  /\ call'[b].run \in 1 .. Len(runs')
                        /\ runs'[call'[b].run].status = "open"
                        /\ call'[b].at # "stored" =>
                              runs'[call'[b].run].found = NoFindings
                        /\ \A a \in Calls \ {b} : call'[a].at \in RunStages =>
                              call'[a].run # call'[b].run
      BY DEF RunsOwned, RunOf
    <2>1. \A a \in Calls : call'[a].at \in RunStages =>
             /\ call[a].at \in RunStages /\ call'[a].run = call[a].run
             /\ a = c => call[a].at # "stored"
      BY <1>1
    <2>2. /\ call[b].run \in 1 .. Len(runs)
          /\ runs[call[b].run].status = "open"
          /\ call[b].at # "stored" => runs[call[b].run].found = NoFindings
          /\ \A a \in Calls \ {b} : call[a].at \in RunStages =>
                call[a].run # call[b].run
      BY <1>0, <2>1 DEF RunsOwned, RunOf
    <2>3. call'[b].at # "stored" => call[b].at # "stored"
      BY <1>1, <2>1
    <2> QED
      BY <1>2, <2>1, <2>2, <2>3
  <1>5. RunsTrue'
    BY <1>0, <1>1, <1>2 DEF RunsTrue, RunOf
  <1>6. Committed' = Committed
    BY <1>2 DEF Committed
  <1> QED
    BY <1>3, <1>4, <1>5, <1>6 DEF IInv

\* A call changes its own run, and perhaps ends it.
LEMMA RunStep ==
    ASSUME IInv, NEW c \in Calls, call[c].at \in RunStages,
           NEW k \in Call, call' = [call EXCEPT ![c] = k],
           NEW new \in Run, Becomes(c, new),
           UNCHANGED <<says, document, extracted, settings, answered>>,
           authorities' \in {"none", "stored"} \cup Calls,
           CitesPages(says, document, new.found) /\ IsReal(says, new),
           new.status = "completed" \/ k.at = "stored" => IsWhole(says, new),
           k.at \in RunStages => /\ k.run = call[c].run /\ new.status = "open"
                                 /\ k.at # "stored" => new.found = NoFindings
    PROVE  IInv' /\ Committed \subseteq Committed'
  <1> DEFINE r == call[c].run
  <1>0. TypeOK /\ RunsOwned /\ RunsTrue
    BY DEF IInv
  <1>1. /\ call' \in [Calls -> Call] /\ call'[c] = k
        /\ \A b \in Calls \ {c} : call'[b] = call[b]
    BY <1>0 DEF TypeOK
  <1>2. /\ says' = says /\ document' = document /\ extracted' = extracted
        /\ settings' = settings /\ answered' = answered
    OBVIOUS
  <1>3. /\ r \in 1 .. Len(runs) /\ runs[r].status = "open"
        /\ \A b \in Calls \ {c} : call[b].at \in RunStages => call[b].run # r
    BY <1>0 DEF RunsOwned, RunOf
  <1>4. /\ runs \in Seq(Run) /\ runs' = [runs EXCEPT ![r] = new]
    BY <1>0 DEF TypeOK, Becomes
  <1> HIDE DEF r
  <1>5. /\ runs' \in Seq(Run) /\ Len(runs') = Len(runs) /\ runs'[r] = new
        /\ \A i \in 1 .. Len(runs) : i # r => runs'[i] = runs[i]
    <2> DEFINE seq == [runs EXCEPT ![r] = new]
    <2>1. r \in 1 .. Len(runs) /\ runs \in Seq(Run) /\ new \in Run
      BY <1>3, <1>4
    <2>2. /\ seq \in Seq(Run) /\ Len(seq) = Len(runs) /\ seq[r] = new
          /\ \A i \in 1 .. Len(runs) : i # r => seq[i] = runs[i]
      BY <2>1, ReplaceFact
    <2>3. runs' = seq
      BY <1>4
    <2> QED
      BY <2>2, <2>3, Zenon
  <1>6. TypeOK'
    BY <1>0, <1>1, <1>2, <1>5 DEF TypeOK
  <1>7. RunsOwned'
    <2> SUFFICES ASSUME NEW b \in Calls, call'[b].at \in RunStages
                 PROVE  /\ call'[b].run \in 1 .. Len(runs')
                        /\ runs'[call'[b].run].status = "open"
                        /\ call'[b].at # "stored" =>
                              runs'[call'[b].run].found = NoFindings
                        /\ \A a \in Calls \ {b} : call'[a].at \in RunStages =>
                              call'[a].run # call'[b].run
      BY DEF RunsOwned, RunOf
    <2>1. \A a \in Calls : call'[a].at \in RunStages =>
             call[a].at \in RunStages /\ call'[a].run = call[a].run
      BY <1>1 DEF r
    <2>2. /\ call[b].run \in 1 .. Len(runs)
          /\ runs[call[b].run].status = "open"
          /\ call[b].at # "stored" => runs[call[b].run].found = NoFindings
          /\ \A a \in Calls \ {b} : call[a].at \in RunStages =>
                call[a].run # call[b].run
      BY <1>0, <2>1 DEF RunsOwned, RunOf
    <2>3. b # c => call[b].run # r /\ call'[b] = call[b]
      BY <1>1, <1>3, <2>1
    <2>4. CASE b # c
      BY <1>5, <2>1, <2>2, <2>3, <2>4
    <2>5. CASE b = c
      BY <1>1, <1>5, <2>1, <2>2, <2>5 DEF r
    <2> QED
      BY <2>4, <2>5
  <1>8. RunsTrue'
    <2>1. \A i \in 1 .. Len(runs') :
             /\ CitesPages(says', document', runs'[i].found)
             /\ IsReal(says', runs'[i])
             /\ runs'[i].status = "completed" => IsWhole(says', runs'[i])
      BY <1>0, <1>2, <1>5 DEF RunsTrue
    <2>2. ASSUME NEW b \in Calls, call'[b].at = "stored"
          PROVE  IsWhole(says', runs'[call'[b].run])
      <3>1. CASE b # c
        <4>1. /\ call'[b] = call[b] /\ call[b].at \in RunStages
              /\ IsWhole(says, runs[call[b].run])
          BY <1>0, <1>1, <2>2, <3>1 DEF RunsTrue, RunOf, RunStages
        <4>2. call[b].run \in 1 .. Len(runs) /\ call[b].run # r
          BY <1>0, <1>3, <3>1, <4>1 DEF RunsOwned
        <4> QED
          BY <1>2, <1>5, <4>1, <4>2
      <3>2. CASE b = c
        BY <1>1, <1>2, <1>5, <2>2, <3>2 DEF RunStages, r
      <3> QED
        BY <3>1, <3>2
    <2> QED
      BY <2>1, <2>2 DEF RunsTrue, RunOf
  <1>9. Committed \subseteq Committed'
    BY <1>3, <1>5 DEF Committed
  <1> QED
    BY <1>6, <1>7, <1>8, <1>9 DEF IInv

-----------------------------------------------------------------------------
(* The actions.                                                            *)

\* What is known of the run of a call.
LEMMA OwnRun ==
    ASSUME IInv, NEW c \in Calls, call[c].at \in RunStages
    PROVE  /\ call[c] \in Call /\ call[c].run \in 1 .. Len(runs)
           /\ RunOf(c) \in Run /\ RunOf(c).status = "open"
           /\ RunOf(c).read \in Sources /\ RunOf(c).found \in Findings
           /\ call[c].at # "stored" => RunOf(c).found = NoFindings
           /\ CitesPages(says, document, RunOf(c).found)
           /\ IsReal(says, RunOf(c))
           /\ call[c].at = "stored" => IsWhole(says, RunOf(c))
  <1>1. /\ call[c] \in Call /\ call[c].run \in 1 .. Len(runs)
        /\ RunOf(c) \in Run /\ RunOf(c).status = "open"
        /\ call[c].at # "stored" => RunOf(c).found = NoFindings
    BY DEF IInv, TypeOK, RunsOwned, RunOf
  <1>2. /\ CitesPages(says, document, RunOf(c).found)
        /\ IsReal(says, RunOf(c))
        /\ call[c].at = "stored" => IsWhole(says, RunOf(c))
    BY <1>1 DEF IInv, RunsTrue, RunOf
  <1> QED
    BY <1>1, <1>2 DEF Run

\* Reading, and the authorities, which are no part of the run.
LEMMA ReadingKeeps ==
    ASSUME IInv, NEW c \in Calls,
           LoadSources(c) \/ ListAuthorities(c) \/ InsertAuthorities(c)
    PROVE  IInv' /\ Committed \subseteq Committed'
  <1>1. /\ call[c].at \in RunStages \ {"stored"} /\ call[c] \in Call
        /\ RunOf(c) \in Run /\ RunOf(c).found = NoFindings
        /\ RunOf(c).status = "open"
    BY OwnRun DEF LoadSources, ListAuthorities, InsertAuthorities, RunStages
  <1>2. authorities \in {"none", "stored"} \cup Calls /\ answered \in Nat
    BY DEF IInv, TypeOK
  <1>3. CASE LoadSources(c)
    <2> DEFINE k == [call[c] EXCEPT !.at = "loaded"]
               new == [RunOf(c) EXCEPT !.read = Loaded]
    <2>1. k \in Call /\ k.at = "loaded" /\ k.run = call[c].run
      BY <1>1 DEF Call, Stages, RunStages
    <2>2. Loaded \in Sources
      BY DEF IInv, TypeOK, Loaded
    <2>3. new \in Run /\ new.found = NoFindings /\ new.status = "open"
      BY <1>1, <2>2 DEF Run
    <2>4. /\ call' = [call EXCEPT ![c] = k] /\ Becomes(c, new)
          /\ UNCHANGED <<says, document, extracted, authorities, settings, answered>>
      BY <1>3 DEF LoadSources, Goes
    <2> HIDE DEF k, new
    <2>5. CitesPages(says, document, new.found) /\ IsReal(says, new)
      BY <2>3, EmptyFact
    <2>6. /\ k.at # "stored" /\ new.status # "completed"
          /\ authorities' \in {"none", "stored"} \cup Calls
          /\ UNCHANGED <<says, document, extracted, settings, answered>>
      BY <1>2, <2>1, <2>3, <2>4
    <2> QED
      BY <1>1, <2>1, <2>3, <2>4, <2>5, <2>6, RunStep
  <1>4. CASE ListAuthorities(c)
    <2> DEFINE known == authorities = "stored"
               k == [call[c] EXCEPT !.at = "listed", !.known = known]
    <2>1. k \in Call /\ k.at = "listed" /\ k.run = call[c].run
      BY <1>1 DEF Call, Stages, RunStages
    <2>2. /\ call' = [call EXCEPT ![c] = k]
          /\ UNCHANGED <<says, document, extracted, runs, authorities, settings, answered>>
      BY <1>4 DEF ListAuthorities
    <2> HIDE DEF k
    <2> QED
      BY <1>1, <1>2, <2>1, <2>2, CallStep
  <1>5. CASE InsertAuthorities(c)
    <2> DEFINE k == [call[c] EXCEPT !.at = "grounded"]
    <2>1. k \in Call /\ k.at = "grounded" /\ k.run = call[c].run
      BY <1>1 DEF Call, Stages, RunStages
    <2>2. /\ call' = [call EXCEPT ![c] = k]
          /\ UNCHANGED <<says, document, extracted, runs, settings, answered>>
          /\ authorities' \in {"none", "stored"} \cup Calls
      BY <1>2, <1>5 DEF InsertAuthorities, Goes
    <2> HIDE DEF k
    <2> QED
      BY <1>1, <1>2, <2>1, <2>2, CallStep
  <1> QED
    BY <1>3, <1>4, <1>5

\* What a run finds is typed, cites what it has read, and is exact.
LEMMA FoundFact ==
    ASSUME IInv, NEW c \in Calls, call[c].at \in RunStages,
           NEW run, run.found = Found(c), run.read = RunOf(c).read
    PROVE  /\ Found(c) \in Findings
           /\ \A p \in Cited(Found(c)) : p \in SourcePages(says, RunOf(c).read)
           /\ IsReal(says, run) /\ IsWhole(says, run)
  <1>1. IsReading(says) /\ RunOf(c).read \in Sources
    BY OwnRun, SaysFact DEF IInv
  <1>2. Found(c) = FindingsOf(SourcePages(says, RunOf(c).read),
                             Observations(says, RunOf(c).read))
    BY DEF Found
  <1> QED
    BY <1>1, <1>2, FindingsFact

LEMMA InsertResultsKeeps ==
    ASSUME IInv, NEW c \in Calls, InsertResults(c)
    PROVE  IInv' /\ Committed \subseteq Committed'
  <1> DEFINE k == [call[c] EXCEPT !.at = "stored"]
             new == [RunOf(c) EXCEPT !.found = Found(c)]
  <1>1. /\ call[c].at \in RunStages /\ call[c] \in Call /\ RunOf(c) \in Run
        /\ RunOf(c).status = "open" /\ RunOf(c).read \in Sources
    BY OwnRun DEF InsertResults, RunStages
  <1>2. k \in Call /\ k.at = "stored" /\ k.run = call[c].run
    BY <1>1 DEF Call, Stages, RunStages
  <1>3. new.found = Found(c) /\ new.read = RunOf(c).read /\ new.status = "open"
    BY <1>1 DEF Run
  <1>4. /\ call' = [call EXCEPT ![c] = k] /\ Becomes(c, new)
        /\ UNCHANGED <<says, document, extracted, settings, answered>>
        /\ authorities' = authorities /\ Insertable(Found(c))
    BY DEF InsertResults, Goes
  <1>5. authorities' \in {"none", "stored"} \cup Calls
    BY <1>4 DEF IInv, TypeOK
  <1>6. new \in Run
    BY <1>1, FoundFact DEF Run
  <1> HIDE DEF k, new
  <1>7. /\ IsReal(says, new) /\ IsWhole(says, new)
        /\ \A p \in Cited(new.found) : p \in SourcePages(says, new.read)
    BY <1>1, <1>3, FoundFact
  <1>8. CitesPages(says, document, new.found)
    BY <1>1, <1>3, <1>4, <1>7, InsertedFact DEF Insertable, IInv
  <1>9. k.at \in RunStages => /\ k.run = call[c].run /\ new.status = "open"
                              /\ k.at # "stored" => new.found = NoFindings
    BY <1>2, <1>3
  <1> QED
    BY <1>1, <1>2, <1>4, <1>5, <1>6, <1>7, <1>8, <1>9, RunStep

\* A run ends with what it has, if that is as it should be.
LEMMA RunEnds ==
    ASSUME IInv, NEW c \in Calls, call[c].at \in RunStages, Returns(c),
           NEW new \in Run, Becomes(c, new),
           UNCHANGED <<says, document, extracted, settings, answered>>,
           authorities' \in {"none", "stored"} \cup Calls,
           CitesPages(says, document, new.found) /\ IsReal(says, new),
           new.status = "completed" => IsWhole(says, new)
    PROVE  IInv' /\ Committed \subseteq Committed'
  <1>1. Idle \in Call /\ Idle.at \notin RunStages /\ Idle.at # "stored"
    BY IdleFact DEF RunStages
  <1>2. call' = [call EXCEPT ![c] = Idle]
    BY DEF Returns
  <1> QED
    BY <1>1, <1>2, RunStep

LEMMA VanishesKeeps ==
    ASSUME IInv, NEW c \in Calls, call[c].at \in RunStages, Vanishes(c)
    PROVE  IInv' /\ Committed \subseteq Committed'
  <1> DEFINE new == [NewRun EXCEPT !.status = "gone"]
  <1>1. new \in Run /\ new.found = NoFindings /\ new.status = "gone"
    BY IdleFact DEF Run, NewRun
  <1>2. /\ Becomes(c, new) /\ Returns(c)
        /\ UNCHANGED <<says, document, extracted, settings, answered>>
    BY DEF Vanishes
  <1>3. authorities' \in {"none", "stored"} \cup Calls
    BY DEF Vanishes, RolledBack, IInv, TypeOK
  <1> HIDE DEF new
  <1>4. CitesPages(says, document, new.found) /\ IsReal(says, new)
    BY <1>1, EmptyFact
  <1> QED
    BY <1>1, <1>2, <1>3, <1>4, RunEnds

\* A run without sources: there is nothing that could disagree.
LEMMA CompleteWithoutSourcesKeeps ==
    ASSUME IInv, NEW c \in Calls, CompleteWithoutSources(c)
    PROVE  IInv' /\ Committed \subseteq Committed'
  <1> DEFINE new == [RunOf(c) EXCEPT !.status = "completed",
                                     !.agents = "completed"]
  <1>1. /\ call[c].at \in RunStages /\ RunOf(c) \in Run
        /\ RunOf(c).found = NoFindings /\ RunOf(c).read = Unread
    BY OwnRun DEF CompleteWithoutSources, RunStages
  <1>2. new \in Run /\ new.found = NoFindings /\ new.read = Unread
    BY <1>1 DEF Run
  <1>3. /\ Becomes(c, new) /\ Returns(c) /\ authorities' = authorities
        /\ UNCHANGED <<says, document, extracted, settings, answered>>
    BY DEF CompleteWithoutSources
  <1>4. authorities' \in {"none", "stored"} \cup Calls
    BY <1>3 DEF IInv, TypeOK
  <1> HIDE DEF new
  <1>5. CitesPages(says, document, new.found) /\ IsReal(says, new)
    BY <1>2, EmptyFact
  <1>6. IsWhole(says, new)
    <2>1. says.lines \in Seq(Line)
      BY SaysFact DEF IsReading, IInv
    <2>2. \A i \in 1 .. Len(says.lines) : says.lines[i].document \in Documents
      <3>1. \A i \in 1 .. Len(says.lines) : says.lines[i] \in Line
        BY <2>1
      <3> QED
        BY <3>1 DEF Line
    <2>3. LinesRead(says, Unread) = {}
      BY <2>2 DEF LinesRead, Unread
    <2> QED
      BY <1>2, <2>3 DEF IsWhole
  <1> QED
    BY <1>1, <1>2, <1>3, <1>4, <1>5, <1>6, RunEnds

\* The findings of a stored run with the citations of its motion.
LEMMA WithCitationsFact ==
    ASSUME IInv, NEW c \in Calls, call[c].at = "stored", Insertable(WithCitations(c))
    PROVE  /\ WithCitations(c) \in Findings
           /\ WithCitations(c).contradictions = RunOf(c).found.contradictions
           /\ CitesPages(says, document, WithCitations(c))
  <1> DEFINE f == RunOf(c).found
             g == WithCitations(c)
             Q == CitationsOf(RunOf(c).read)
  <1>0. call[c].at \in RunStages
    BY DEF RunStages
  <1>1. /\ f \in Findings /\ RunOf(c).read \in Sources
        /\ CitesPages(says, document, f) /\ IsReading(says)
    BY <1>0, OwnRun, SaysFact DEF IInv
  <1>2. g = [f EXCEPT !.citations = Q]
    BY DEF WithCitations
  <1>3. \A p \in Q : p \in SourcePages(says, RunOf(c).read)
    BY DEF CitationsOf, FirstPages
  <1>4. \A p \in Q : /\ p \in Page /\ p.extraction = RunOf(c).read[p.document]
                     /\ p.number \in 1 .. says.pages[p.document]
    BY <1>1, <1>3, PagesFact
  <1> HIDE DEF f, g, Q
  <1>5. /\ g.facts = f.facts /\ g.timeline = f.timeline
        /\ g.procedural = f.procedural /\ g.citations = Q
        /\ g.contradictions = f.contradictions
    BY <1>1, <1>2 DEF Findings
  <1>6. g \in Findings
    BY <1>1, <1>2, <1>4 DEF Findings
  <1>7. \A p \in Cited(g) : p \in Cited(f) \/ p \in Q
    BY <1>5, CitedFact
  <1>8. \A p \in Q : Referable(p)
    BY <1>5, CitedFact DEF Insertable, g
  <1>9. CitesPages(says, document, g)
    BY <1>1, <1>4, <1>7, <1>8 DEF CitesPages, Referable
  <1> QED
    BY <1>5, <1>6, <1>9 DEF f, g

\* What is real and whole depends only on the contradictions and the reading.
LEMMA SameReports ==
    ASSUME NEW r, NEW run, NEW new, new.read = run.read,
           new.found.contradictions = run.found.contradictions
    PROVE  /\ IsReal(r, run) => IsReal(r, new)
           /\ IsWhole(r, run) => IsWhole(r, new)
  BY DEF IsReal, IsWhole

LEMMA CommitRunKeeps ==
    ASSUME IInv, NEW c \in Calls, CommitRun(c)
    PROVE  IInv' /\ Committed \subseteq Committed'
  <1> DEFINE new == [RunOf(c) EXCEPT !.status = "completed",
                                     !.agents = "completed",
                                     !.found = WithCitations(c)]
  <1>1. /\ call[c].at = "stored" /\ call[c].at \in RunStages
        /\ Insertable(WithCitations(c))
        /\ Becomes(c, new) /\ Returns(c) /\ authorities' = Kept(c)
        /\ UNCHANGED <<says, document, extracted, settings, answered>>
    BY DEF CommitRun, RunStages
  <1>2. /\ RunOf(c) \in Run /\ IsReal(says, RunOf(c)) /\ IsWhole(says, RunOf(c))
    BY <1>1, OwnRun
  <1>3. new \in Run /\ new.found = WithCitations(c) /\ new.read = RunOf(c).read
    BY <1>1, <1>2, WithCitationsFact DEF Run
  <1>4. authorities' \in {"none", "stored"} \cup Calls
    BY <1>1 DEF Kept, IInv, TypeOK
  <1> HIDE DEF new
  <1>5. /\ CitesPages(says, document, new.found)
        /\ new.found.contradictions = RunOf(c).found.contradictions
    BY <1>1, <1>3, WithCitationsFact
  <1>6. IsReal(says, new) /\ IsWhole(says, new)
    BY <1>2, <1>3, <1>5, SameReports
  <1> QED
    BY <1>1, <1>3, <1>4, <1>5, <1>6, RunEnds

LEMMA RunFailsKeeps ==
    ASSUME IInv, NEW c \in Calls, RunFails(c)
    PROVE  IInv' /\ Committed \subseteq Committed'
  <1>1. /\ call[c].at \in RunStages /\ RunOf(c) \in Run /\ RunOf(c).read \in Sources
        /\ RunOf(c).found \in Findings
        /\ CitesPages(says, document, RunOf(c).found) /\ IsReal(says, RunOf(c))
    BY OwnRun DEF RunFails, RunStages
  <1>2. /\ Returns(c) /\ authorities' = Kept(c)
        /\ UNCHANGED <<says, document, extracted, settings, answered>>
    BY DEF RunFails
  <1>3. authorities' \in {"none", "stored"} \cup Calls
    BY <1>2 DEF Kept, IInv, TypeOK
  \* It is enough that what is committed is as it should be.
  <1>4. ASSUME NEW f \in Findings, CommitFailed(c, f),
               CitesPages(says, document, f),
               NEW run, run.found = f, run.read = RunOf(c).read,
               IsReal(says, run)
        PROVE  IInv' /\ Committed \subseteq Committed'
    <2> DEFINE new == [RunOf(c) EXCEPT !.status = "failed", !.agents = "failed",
                                       !.found = f]
    <2>1. /\ new \in Run /\ new.found = f /\ new.read = RunOf(c).read
          /\ new.status = "failed"
      BY <1>1 DEF Run
    <2>2. Becomes(c, new)
      BY <1>4 DEF CommitFailed
    <2> HIDE DEF new
    <2>3. IsReal(says, new)
      BY <1>4, <2>1, SameReports
    <2>4. CitesPages(says, document, new.found)
      BY <1>4, <2>1
    <2> QED
      BY <1>1, <1>2, <1>3, <2>1, <2>2, <2>3, <2>4, RunEnds
  <1>5. ASSUME NEW n \in 0 .. 4, CommitFailed(c, UpTo(n, Found(c)))
        PROVE  IInv' /\ Committed \subseteq Committed'
    <2> DEFINE all == [RunOf(c) EXCEPT !.found = Found(c)]
               run == [RunOf(c) EXCEPT !.found = UpTo(n, Found(c))]
    <2>1. /\ all.found = Found(c) /\ all.read = RunOf(c).read
          /\ run.found = UpTo(n, Found(c)) /\ run.read = RunOf(c).read
      BY <1>1 DEF Run
    <2> HIDE DEF all, run
    <2>2. /\ Found(c) \in Findings /\ IsReal(says, all)
          /\ \A p \in Cited(Found(c)) : p \in SourcePages(says, RunOf(c).read)
      BY <1>1, <2>1, FoundFact
    <2>3. /\ UpTo(n, Found(c)) \in Findings /\ IsReal(says, run)
          /\ Cited(UpTo(n, Found(c))) \subseteq Cited(Found(c))
      BY <2>1, <2>2, UpToFact
    <2>4. CitesPages(says, document, UpTo(n, Found(c)))
      BY <1>1, <1>5, <2>2, <2>3, InsertedFact DEF CommitFailed, Insertable, IInv
    <2> QED
      BY <1>4, <1>5, <2>1, <2>3, <2>4
  <1>6. CASE CommitFailed(c, RunOf(c).found)
    BY <1>1, <1>4, <1>6
  <1>7. CASE call[c].at = "stored" /\ CommitFailed(c, WithCitations(c))
    <2> DEFINE run == [RunOf(c) EXCEPT !.found = WithCitations(c)]
    <2>1. run.found = WithCitations(c) /\ run.read = RunOf(c).read
      BY <1>1 DEF Run
    <2>2. /\ WithCitations(c) \in Findings
          /\ WithCitations(c).contradictions = RunOf(c).found.contradictions
          /\ CitesPages(says, document, WithCitations(c))
      BY <1>7, WithCitationsFact DEF CommitFailed
    <2> HIDE DEF run
    <2>3. IsReal(says, run)
      BY <1>1, <2>1, <2>2, SameReports
    <2> QED
      BY <1>4, <1>7, <2>1, <2>2, <2>3
  <1> QED
    BY <1>5, <1>6, <1>7 DEF RunFails

\* The copilot: a call outside the runs.
LEMMA CopilotKeeps ==
    ASSUME IInv, NEW c \in Calls,
           Ask(c) \/ ModelAnswers(c) \/ ModelFails(c) \/ Compose(c)
    PROVE  IInv' /\ Committed' = Committed
  <1>1. /\ call[c] \in Call /\ answered \in Nat
        /\ authorities \in {"none", "stored"} \cup Calls
    BY DEF IInv, TypeOK
  <1>2. ASSUME NEW at \in {"waiting", "composing"}, NEW attempt \in {0, 1},
               call' = [call EXCEPT ![c] = [Idle EXCEPT !.at = at,
                                                        !.attempt = attempt]],
               UNCHANGED <<says, document, extracted, runs, authorities,
                           settings, answered>>
        PROVE  IInv' /\ Committed' = Committed
    <2> DEFINE k == [Idle EXCEPT !.at = at, !.attempt = attempt]
    <2>0. at \in Stages /\ attempt \in 0 .. 2
      BY DEF Stages
    <2>1. k \in Call /\ k.at = at
      BY <2>0, IdleFact DEF Call
    <2>2. call' = [call EXCEPT ![c] = k]
      BY <1>2
    <2> HIDE DEF k
    <2> QED
      BY <1>1, <1>2, <2>1, <2>2, CallStep DEF RunStages
  <1>3. ASSUME Returns(c), answered' \in Nat,
               UNCHANGED <<says, document, extracted, runs, authorities, settings>>
        PROVE  IInv' /\ Committed' = Committed
    BY <1>1, <1>3, IdleFact, CallStep DEF Returns, RunStages
  <1>4. CASE Ask(c)
    <2>1. PICK similar \in BOOLEAN :
             LET asks == ~similar /\ Loaded # Unread /\ settings.nvidia_nim IN
             call' = [call EXCEPT ![c] =
                  [Idle EXCEPT !.at = IF asks THEN "waiting" ELSE "composing",
                               !.attempt = IF asks THEN 1 ELSE 0]]
      BY <1>4 DEF Ask
    <2> DEFINE asks == ~similar /\ Loaded # Unread /\ settings.nvidia_nim
               at == IF asks THEN "waiting" ELSE "composing"
               attempt == IF asks THEN 1 ELSE 0
    <2>2. at \in {"waiting", "composing"} /\ attempt \in {0, 1}
      OBVIOUS
    <2>3. call' = [call EXCEPT ![c] = [Idle EXCEPT !.at = at,
                                                   !.attempt = attempt]]
      BY <2>1
    <2>4. UNCHANGED <<says, document, extracted, runs, authorities, settings, answered>>
      BY <1>4 DEF Ask
    <2> HIDE DEF at, attempt
    <2> QED
      BY <2>2, <2>3, <2>4, <1>2
  <1>5. CASE Reply(c)
    BY <1>1, <1>3, <1>5 DEF Reply
  <1>6. CASE /\ call[c].at = "waiting" /\ call[c].attempt < 2
             /\ call' = [call EXCEPT ![c].attempt = @ + 1]
             /\ UNCHANGED <<says, document, extracted, runs, authorities,
                            settings, answered>>
    <2> DEFINE k == [call[c] EXCEPT !.attempt = call[c].attempt + 1]
    <2>1. call[c].attempt + 1 \in 0 .. 2
      BY <1>1, <1>6 DEF Call
    <2>2. k \in Call /\ k.at = "waiting"
      BY <1>1, <1>6, <2>1 DEF Call
    <2>3. call' = [call EXCEPT ![c] = k]
      BY <1>6
    <2> HIDE DEF k
    <2> QED
      BY <1>1, <1>6, <2>2, <2>3, CallStep DEF RunStages
  <1>7. CASE /\ Goes(c, "composing")
             /\ UNCHANGED <<says, document, extracted, runs, authorities,
                            settings, answered>>
    <2> DEFINE k == [call[c] EXCEPT !.at = "composing"]
    <2>1. k \in Call /\ k.at = "composing"
      BY <1>1 DEF Call, Stages
    <2>2. call' = [call EXCEPT ![c] = k]
      BY <1>7 DEF Goes
    <2> HIDE DEF k
    <2> QED
      BY <1>1, <1>7, <2>1, <2>2, CallStep DEF RunStages
  <1>8. CASE /\ Returns(c)
             /\ UNCHANGED <<says, document, extracted, runs, authorities,
                            settings, answered>>
    BY <1>1, <1>3, <1>8
  <1> QED
    BY <1>4, <1>5, <1>6, <1>7, <1>8 DEF ModelAnswers, ModelFails, Compose

\* A new run: open, empty and with a number of its own.
LEMMA StartRunKeeps ==
    ASSUME IInv, NEW c \in Calls, StartRun(c)
    PROVE  IInv' /\ Committed \subseteq Committed'
  <1> DEFINE n == Len(runs) + 1
             k == [Idle EXCEPT !.at = "started", !.run = n]
  <1>1. /\ TypeOK /\ RunsOwned /\ RunsTrue
        /\ Len(runs) \in Nat /\ n \in 1 .. MaxRequests
    <2>1. TypeOK /\ RunsOwned /\ RunsTrue
      BY DEF IInv
    <2>2. Len(runs) \in Nat /\ answered \in Nat /\ MaxRequests \in Nat
      BY <2>1, BoundsAssumption DEF TypeOK
    <2>3. Asking \subseteq Calls
      BY DEF Asking
    <2>4. Cardinality(Asking) \in Nat
      BY <2>3, CallsAssumption, FS_Subset, FS_CardinalityType
    <2>5. Len(runs) + Cardinality(Asking) + answered < MaxRequests
      BY DEF StartRun, Requests
    <2> QED
      BY <2>1, <2>2, <2>4, <2>5
  <1>2. k \in Call /\ k.at = "started" /\ k.run = n
    <2>1. n \in 0 .. MaxRequests /\ "started" \in Stages
      BY <1>1 DEF Stages, RunStages
    <2> HIDE DEF n
    <2> QED
      BY <2>1, IdleFact DEF Call
  <1>3. /\ runs' = Append(runs, NewRun) /\ call' = [call EXCEPT ![c] = k]
        /\ call[c].at = "idle"
        /\ says' = says /\ document' = document /\ extracted' = extracted
        /\ settings' = settings /\ authorities' = authorities
        /\ answered' = answered
    BY DEF StartRun
  <1> HIDE DEF k
  <1>4. /\ runs' \in Seq(Run) /\ Len(runs') = n /\ runs'[n] = NewRun
        /\ \A i \in 1 .. Len(runs) : runs'[i] = runs[i]
    BY <1>1, <1>3, IdleFact DEF TypeOK
  <1>5. /\ call' \in [Calls -> Call] /\ call'[c] = k
        /\ \A b \in Calls \ {c} : call'[b] = call[b]
    BY <1>1, <1>2, <1>3 DEF TypeOK
  <1>6. TypeOK'
    BY <1>1, <1>3, <1>4, <1>5 DEF TypeOK
  <1>7. RunsOwned'
    <2> SUFFICES ASSUME NEW b \in Calls, call'[b].at \in RunStages
                 PROVE  /\ call'[b].run \in 1 .. Len(runs')
                        /\ runs'[call'[b].run].status = "open"
                        /\ call'[b].at # "stored" =>
                              runs'[call'[b].run].found = NoFindings
                        /\ \A a \in Calls \ {b} : call'[a].at \in RunStages =>
                              call'[a].run # call'[b].run
      BY DEF RunsOwned, RunOf
    <2>1. \A a \in Calls \ {c} : call'[a].at \in RunStages =>
             /\ call'[a].run \in 1 .. Len(runs)
             /\ runs[call'[a].run].status = "open"
             /\ call'[a].at # "stored" => runs[call'[a].run].found = NoFindings
             /\ \A e \in Calls \ {a, c} : call'[e].at \in RunStages =>
                   call'[e].run # call'[a].run
      BY <1>1, <1>5 DEF RunsOwned, RunOf
    <2>2. \A a \in Calls \ {c} : call'[a].at \in RunStages =>
             call'[a].run # n /\ call'[a].run \in 1 .. Len(runs')
      BY <1>1, <1>4, <2>1
    <2>3. CASE b # c
      BY <1>2, <1>4, <1>5, <2>1, <2>2, <2>3
    <2>4. CASE b = c
      BY <1>1, <1>2, <1>4, <1>5, <2>2, <2>4, IdleFact
    <2> QED
      BY <2>3, <2>4
  <1>8. RunsTrue'
    <2>1. CitesPages(says, document, NewRun.found) /\ IsReal(says, NewRun)
      BY IdleFact, EmptyFact
    <2>2. \A i \in 1 .. Len(runs') : i \in 1 .. Len(runs) \/ i = n
      BY <1>1, <1>4
    <2>3. \A i \in 1 .. Len(runs') :
             /\ CitesPages(says', document', runs'[i].found)
             /\ IsReal(says', runs'[i])
             /\ runs'[i].status = "completed" => IsWhole(says', runs'[i])
      BY <1>1, <1>3, <1>4, <2>1, <2>2, IdleFact DEF RunsTrue
    <2>4. ASSUME NEW b \in Calls, call'[b].at = "stored"
          PROVE  IsWhole(says', runs'[call'[b].run])
      <3>1. call'[b] = call[b] /\ call[b].at = "stored"
        BY <1>2, <1>5, <2>4
      <3>2. call[b].run \in 1 .. Len(runs) /\ IsWhole(says, runs[call[b].run])
        BY <1>1, <3>1 DEF RunsOwned, RunsTrue, RunOf, RunStages
      <3> QED
        BY <1>3, <1>4, <3>1, <3>2
    <2> QED
      BY <2>3, <2>4 DEF RunsTrue, RunOf
  <1>9. Committed \subseteq Committed'
    BY <1>1, <1>4 DEF Committed
  <1> QED
    BY <1>6, <1>7, <1>8, <1>9 DEF IInv

-----------------------------------------------------------------------------
(* The pages come and go.                                                  *)

LEMMA ClearedPage ==
    ASSUME NEW d, NEW p \in Page
    PROVE  /\ Cleared(p, d) \in Page
           /\ Cleared(p, d).extraction # 0 =>
                 p.document # d /\ Cleared(p, d) = p
  <1>1. 0 \in Extractions
    BY BoundsAssumption DEF Extractions
  <1>2. CASE p.document = d
    <2>1. Cleared(p, d) = [p EXCEPT !.number = 0, !.extraction = 0]
      BY <1>2 DEF Cleared
    <2>2. /\ Cleared(p, d) = [document |-> p.document, number |-> 0, extraction |-> 0]
          /\ p.document \in Documents
      BY <2>1 DEF Page
    <2> QED
      BY <1>1, <2>2 DEF Page
  <1>3. CASE p.document # d
    BY <1>3 DEF Cleared
  <1> QED
    BY <1>2, <1>3

\* What is left of findings once the pages of d are gone.
LEMMA ClearedFact ==
    ASSUME NEW f \in Findings, NEW d
    PROVE  /\ ClearedFrom(f, d) \in Findings
           /\ f = NoFindings => ClearedFrom(f, d) = NoFindings
           /\ \A q \in Cited(ClearedFrom(f, d)) : \E p \in Cited(f) :
                 q = Cleared(p, d) /\ p \in Page
           /\ \A b \in ClearedFrom(f, d).contradictions :
                 \E c \in f.contradictions :
                    b = [c EXCEPT !.pages = <<Cleared(c.pages[1], d),
                                              Cleared(c.pages[2], d)>>]
           /\ \A c \in f.contradictions :
                 [c EXCEPT !.pages = <<Cleared(c.pages[1], d),
                                       Cleared(c.pages[2], d)>>]
                    \in ClearedFrom(f, d).contradictions
  <1> DEFINE g == ClearedFrom(f, d)
             B(c) == [c EXCEPT !.pages = <<Cleared(c.pages[1], d),
                                           Cleared(c.pages[2], d)>>]
  <1>1. /\ f.facts \in SUBSET Page /\ f.timeline \in SUBSET Page
        /\ f.procedural \in SUBSET Page /\ f.citations \in SUBSET Page
        /\ f.contradictions \in SUBSET Contradiction
    BY DEF Findings
  <1>2. /\ g.facts = ClearedAll(f.facts, d)
        /\ g.timeline = ClearedAll(f.timeline, d)
        /\ g.contradictions = {B(c) : c \in f.contradictions}
        /\ g.procedural = ClearedAll(f.procedural, d)
        /\ g.citations = ClearedAll(f.citations, d)
        /\ g = [facts |-> g.facts, timeline |-> g.timeline,
                contradictions |-> g.contradictions,
                procedural |-> g.procedural, citations |-> g.citations]
    BY DEF ClearedFrom
  <1>3. \A P \in SUBSET Page : ClearedAll(P, d) \in SUBSET Page
    BY ClearedPage DEF ClearedAll
  <1>4. \A c \in f.contradictions :
           /\ c.pages[1] \in Page /\ c.pages[2] \in Page
           /\ B(c) \in Contradiction
           /\ B(c).pages = <<Cleared(c.pages[1], d), Cleared(c.pages[2], d)>>
    <2> SUFFICES ASSUME NEW c \in f.contradictions
                 PROVE  /\ c.pages[1] \in Page /\ c.pages[2] \in Page
                        /\ B(c) \in Contradiction
                        /\ B(c).pages = <<Cleared(c.pages[1], d),
                                          Cleared(c.pages[2], d)>>
      OBVIOUS
    <2>1. c \in Contradiction /\ c.pages[1] \in Page /\ c.pages[2] \in Page
      BY <1>1 DEF Contradiction
    <2>2. <<Cleared(c.pages[1], d), Cleared(c.pages[2], d)>> \in Page \X Page
      BY <2>1, ClearedPage
    <2> QED
      BY <2>1, <2>2 DEF Contradiction
  <1> HIDE DEF g, B
  <1>5. g \in Findings
    <2>1. g.contradictions \in SUBSET Contradiction
      BY <1>2, <1>4
    <2> QED
      BY <1>1, <1>2, <1>3, <2>1 DEF Findings
  <1>6. f = NoFindings => g = NoFindings
    BY <1>2 DEF NoFindings, ClearedAll
  <1>7. ASSUME NEW q \in Cited(g)
        PROVE  \E p \in Cited(f) : q = Cleared(p, d) /\ p \in Page
    <2>1. CASE q \in g.facts \/ q \in g.timeline \/ q \in g.procedural
                  \/ q \in g.citations
      BY <1>1, <1>2, <2>1, CitedFact DEF ClearedAll
    <2>2. CASE \E b \in g.contradictions : q = b.pages[1] \/ q = b.pages[2]
      <3>1. PICK c \in f.contradictions :
               q = Cleared(c.pages[1], d) \/ q = Cleared(c.pages[2], d)
        BY <1>2, <1>4, <2>2
      <3> QED
        BY <1>4, <3>1, CitedFact
    <2> QED
      BY <1>7, <2>1, <2>2, CitedFact
  <1> QED
    BY <1>2, <1>5, <1>6, <1>7 DEF g, B

\* Clearing keeps what is reported, and where it still has a page.
LEMMA ClearedReports ==
    ASSUME NEW r, NEW run \in Run, NEW d
    PROVE  LET new == [run EXCEPT !.found = ClearedFrom(run.found, d)] IN
           /\ IsReal(r, run) => IsReal(r, new)
           /\ IsWhole(r, run) => IsWhole(r, new)
  <1> DEFINE f == run.found
             new == [run EXCEPT !.found = ClearedFrom(f, d)]
             g == new.found
             B(c) == [c EXCEPT !.pages = <<Cleared(c.pages[1], d),
                                           Cleared(c.pages[2], d)>>]
  <1>1. f \in Findings /\ g = ClearedFrom(f, d) /\ new.read = run.read
    BY DEF Run
  <1>2. /\ \A b \in g.contradictions : \E c \in f.contradictions : b = B(c)
        /\ \A c \in f.contradictions : B(c) \in g.contradictions
    <2>1. g = ClearedFrom(f, d)
      BY <1>1
    <2>2. g.contradictions = {B(c) : c \in f.contradictions}
      BY <2>1 DEF ClearedFrom
    <2> HIDE DEF B, g, f
    <2> QED
      BY <2>2
  <1>3. \A c \in f.contradictions :
           /\ B(c).first = c.first /\ B(c).second = c.second
           /\ c.pages[1] \in Page /\ c.pages[2] \in Page
           /\ B(c).pages[1] = Cleared(c.pages[1], d)
           /\ B(c).pages[2] = Cleared(c.pages[2], d)
    BY <1>1 DEF Findings, Contradiction
  <1> HIDE DEF new, B
  <1>4. ASSUME IsReal(r, run) PROVE IsReal(r, new)
    <2> SUFFICES ASSUME NEW e \in g.contradictions
                 PROVE  /\ e.first \in LinesRead(r, new.read)
                        /\ e.second \in LinesRead(r, new.read)
                        /\ Disagree(r, e.first, e.second)
                        /\ IsOn(r, e.first, e.pages[1])
                        /\ IsOn(r, e.second, e.pages[2])
                        /\ \A b \in g.contradictions :
                              SameKey(r, b.first, e.first) => b = e
      BY DEF IsReal
    <2>1. PICK c \in f.contradictions : e = B(c)
      BY <1>2
    <2>2. /\ c.first \in LinesRead(r, run.read) /\ c.second \in LinesRead(r, run.read)
          /\ Disagree(r, c.first, c.second)
          /\ IsOn(r, c.first, c.pages[1]) /\ IsOn(r, c.second, c.pages[2])
          /\ \A b \in f.contradictions : SameKey(r, b.first, c.first) => b = c
      BY <1>4 DEF IsReal
    <2>3. IsOn(r, e.first, e.pages[1]) /\ IsOn(r, e.second, e.pages[2])
      BY <1>3, <2>1, <2>2, ClearedPage DEF IsOn
    <2>4. ASSUME NEW b \in g.contradictions, SameKey(r, b.first, e.first)
          PROVE  b = e
      <3>1. PICK a \in f.contradictions : b = B(a)
        BY <1>2
      <3>2. a = c
        BY <1>3, <2>1, <2>2, <2>4, <3>1
      <3> QED
        BY <2>1, <3>1, <3>2
    <2> QED
      BY <1>1, <1>3, <2>1, <2>2, <2>3, <2>4
  <1>5. ASSUME IsWhole(r, run) PROVE IsWhole(r, new)
    <2> SUFFICES ASSUME NEW i \in LinesRead(r, new.read),
                        NEW j \in LinesRead(r, new.read), Disagree(r, i, j)
                 PROVE  \E c \in g.contradictions : SameKey(r, c.first, i)
      BY DEF IsWhole
    <2>1. PICK c \in f.contradictions : SameKey(r, c.first, i)
      BY <1>1, <1>5 DEF IsWhole
    <2> QED
      BY <1>2, <1>3, <2>1
  <1> QED
    BY <1>4, <1>5 DEF new

LEMMA PagesGoKeeps ==
    ASSUME IInv, NEW d \in Documents, PagesGo(d)
    PROVE  IInv' /\ Committed' = Committed
  <1>1. TypeOK /\ RunsOwned /\ RunsTrue
    BY DEF IInv
  <1>2. /\ document' = [document EXCEPT ![d] = 0]
        /\ runs' = WithoutPagesOf(d)
        /\ says' = says /\ extracted' = extracted /\ authorities' = authorities
        /\ call' = call /\ settings' = settings /\ answered' = answered
    BY DEF PagesGo
  <1>3. /\ document' \in Sources
        /\ \A e \in Documents \ {d} : document'[e] = document[e]
    BY <1>1, <1>2, BoundsAssumption DEF TypeOK, Sources, Extractions
  <1>4. /\ Len(runs) \in Nat
        /\ \A i \in 1 .. Len(runs) : runs[i] \in Run /\ runs[i].found \in Findings
    <2>1. Len(runs) \in Nat /\ \A i \in 1 .. Len(runs) : runs[i] \in Run
      BY <1>1 DEF TypeOK
    <2> QED
      BY <2>1 DEF Run
  <1> DEFINE R(i) == [runs[i] EXCEPT !.found = ClearedFrom(runs[i].found, d)]
  <1>5. \A i \in 1 .. Len(runs) :
           /\ R(i) \in Run /\ R(i).status = runs[i].status
           /\ R(i).found = ClearedFrom(runs[i].found, d)
    <2> SUFFICES ASSUME NEW i \in 1 .. Len(runs)
                 PROVE  /\ R(i) \in Run /\ R(i).status = runs[i].status
                        /\ R(i).found = ClearedFrom(runs[i].found, d)
      OBVIOUS
    <2>1. runs[i] \in Run /\ ClearedFrom(runs[i].found, d) \in Findings
      BY <1>4, ClearedFact
    <2> QED
      BY <2>1 DEF Run
  <1>6. \A i \in 1 .. Len(runs) :
           /\ IsReal(says, runs[i]) => IsReal(says, R(i))
           /\ IsWhole(says, runs[i]) => IsWhole(says, R(i))
    BY <1>4, ClearedReports
  <1>7. runs' = [i \in 1 .. Len(runs) |-> R(i)]
    BY <1>2 DEF WithoutPagesOf
  <1> HIDE DEF R
  <1>8. /\ Len(runs') = Len(runs) /\ runs' \in Seq(Run)
        /\ \A i \in 1 .. Len(runs) : runs'[i] = R(i)
    BY <1>4, <1>5, <1>7
  <1>9. TypeOK'
    BY <1>1, <1>2, <1>3, <1>8 DEF TypeOK
  <1>10. Committed' = Committed
    BY <1>5, <1>8 DEF Committed
  <1>11. RunsOwned'
    <2> SUFFICES ASSUME NEW c \in Calls, call[c].at \in RunStages
                 PROVE  /\ call[c].run \in 1 .. Len(runs')
                        /\ runs'[call[c].run].status = "open"
                        /\ call[c].at # "stored" =>
                              runs'[call[c].run].found = NoFindings
                        /\ \A b \in Calls \ {c} :
                              call[b].at \in RunStages => call[b].run # call[c].run
      BY <1>2 DEF RunsOwned, RunOf
    <2>1. /\ call[c].run \in 1 .. Len(runs)
          /\ runs[call[c].run].status = "open"
          /\ call[c].at # "stored" => runs[call[c].run].found = NoFindings
          /\ \A b \in Calls \ {c} :
                call[b].at \in RunStages => call[b].run # call[c].run
      BY <1>1 DEF RunsOwned, RunOf
    <2>2. call[c].at # "stored" => runs'[call[c].run].found = NoFindings
      BY <1>4, <1>5, <1>8, <2>1, ClearedFact
    <2> QED
      BY <1>5, <1>8, <2>1, <2>2
  <1>12. RunsTrue'
    <2>1. ASSUME NEW i \in 1 .. Len(runs)
          PROVE  CitesPages(says, document', runs'[i].found)
      <3>1. \A q \in Cited(runs'[i].found) : \E p \in Cited(runs[i].found) :
               q = Cleared(p, d) /\ p \in Page
        BY <1>4, <1>5, <1>8, ClearedFact
      <3>2. CitesPages(says, document, runs[i].found)
        BY <1>1 DEF RunsTrue
      <3>3. ASSUME NEW q \in Cited(runs'[i].found), q.extraction # 0
            PROVE  /\ q.extraction = document'[q.document]
                   /\ q.number \in 1 .. says.pages[q.document]
        <4>1. PICK p \in Cited(runs[i].found) : q = Cleared(p, d) /\ p \in Page
          BY <3>1
        <4>2. p.document # d /\ q = p /\ p.document \in Documents
          BY <3>3, <4>1, ClearedPage DEF Page
        <4> QED
          BY <1>3, <3>2, <3>3, <4>2 DEF CitesPages
      <3> QED
        BY <3>3 DEF CitesPages
    <2>2. \A i \in 1 .. Len(runs) :
             /\ IsReal(says, runs'[i])
             /\ runs'[i].status = "completed" => IsWhole(says, runs'[i])
      BY <1>1, <1>5, <1>6, <1>8 DEF RunsTrue
    <2>3. ASSUME NEW c \in Calls, call[c].at = "stored"
          PROVE  IsWhole(says, runs'[call[c].run])
      BY <1>1, <1>6, <1>8, <2>3 DEF RunsTrue, RunsOwned, RunOf, RunStages
    <2> QED
      BY <1>2, <1>8, <2>1, <2>2, <2>3 DEF RunsTrue, RunOf
  <1> QED
    BY <1>9, <1>10, <1>11, <1>12 DEF IInv

\* New pages are cited by nobody, and the old ones were not either.
LEMMA PagesComeKeeps ==
    ASSUME IInv, NEW d \in Documents, PagesCome(d)
    PROVE  IInv' /\ Committed' = Committed
  <1>1. TypeOK /\ RunsOwned /\ RunsTrue
    BY DEF IInv
  <1>2. /\ document[d] = 0 /\ extracted < MaxExtractions
        /\ extracted' = extracted + 1
        /\ document' = [document EXCEPT ![d] = extracted']
        /\ runs' = runs /\ says' = says /\ authorities' = authorities
        /\ call' = call /\ settings' = settings /\ answered' = answered
    BY DEF PagesCome
  <1>3. extracted' \in Extractions
    BY <1>1, <1>2, BoundsAssumption DEF TypeOK, Extractions
  <1>4. /\ document' \in Sources
        /\ \A e \in Documents \ {d} : document'[e] = document[e]
    BY <1>1, <1>2, <1>3 DEF TypeOK, Sources
  <1>5. TypeOK'
    BY <1>1, <1>2, <1>3, <1>4 DEF TypeOK
  <1>6. RunsOwned' /\ Committed' = Committed
    BY <1>1, <1>2 DEF RunsOwned, RunOf, Committed
  <1>7. ASSUME NEW i \in 1 .. Len(runs)
        PROVE  CitesPages(says, document', runs[i].found)
    <2>0. runs[i] \in Run
      BY <1>1 DEF TypeOK
    <2>1. CitesPages(says, document, runs[i].found) /\ runs[i].found \in Findings
      BY <1>1, <2>0 DEF RunsTrue, Run
    <2>2. \A p \in Cited(runs[i].found) : p \in Page
      BY <2>1, CitedFact DEF Findings, Contradiction
    <2> QED
      BY <1>2, <1>4, <2>1, <2>2 DEF CitesPages, Page
  <1>8. RunsTrue'
    BY <1>1, <1>2, <1>7 DEF RunsTrue, RunOf
  <1> QED
    BY <1>5, <1>6, <1>8 DEF IInv

-----------------------------------------------------------------------------
(* The theorems.                                                           *)

LEMMA NextKeeps ==
    ASSUME IInv, [Next]_vars
    PROVE  IInv' /\ Committed \subseteq Committed'
  <1>1. ASSUME NEW c \in Calls,
               StartRun(c) \/ Ask(c) \/ Progress(c) \/ RunIsLost(c)
        PROVE  IInv' /\ Committed \subseteq Committed'
    <2>1. CASE StartRun(c)
      BY <2>1, StartRunKeeps
    <2>2. CASE Ask(c) \/ ModelAnswers(c) \/ ModelFails(c) \/ Compose(c)
      BY <2>2, CopilotKeeps
    <2>3. CASE LoadSources(c) \/ ListAuthorities(c) \/ InsertAuthorities(c)
      BY <2>3, ReadingKeeps
    <2>4. CASE \/ RunIsLost(c) \/ AuthoritiesCollide(c) \/ ResultsCollide(c)
               \/ CommitCollides(c)
      BY <2>4, VanishesKeeps DEF RunIsLost, AuthoritiesCollide, ResultsCollide,
                                 CommitCollides, RunStages
    <2>5. CASE InsertResults(c) \/ CompleteWithoutSources(c) \/ RunFails(c)
                 \/ CommitRun(c)
      BY <2>5, InsertResultsKeeps, CompleteWithoutSourcesKeeps, RunFailsKeeps,
         CommitRunKeeps
    <2> QED
      BY <1>1, <2>1, <2>2, <2>3, <2>4, <2>5 DEF Progress
  <1>2. ASSUME NEW d \in Documents, PagesGo(d) \/ PagesCome(d)
        PROVE  IInv' /\ Committed \subseteq Committed'
    BY <1>2, PagesGoKeeps, PagesComeKeeps
  <1>3. CASE UNCHANGED vars
    BY <1>3, StutterKeeps
  <1> QED
    BY <1>1, <1>2, <1>3 DEF Next

\* The inductive invariant: every call in a run has an open run of its own,
\* which is empty until its results are flushed, and whatever a run holds,
\* committed or not, cites existing pages and reports contradictions that its
\* lines have, all of them once it is flushed whole.
THEOREM Invariance == Spec => []IInv
  <1>1. Init => IInv
    BY InitIInv
  <1>2. IInv /\ [Next]_vars => IInv'
    BY NextKeeps
  <1> QED
    BY <1>1, <1>2, PTL DEF Spec

\* Whatever runs, reprocessing and deletions overlap, a citation that is
\* still stored names a page that is still there.
THEOREM CitationsStand == Spec => []CitedPagesExist
  <1>1. IInv => CitedPagesExist
    BY DEF IInv, RunsTrue, CitedPagesExist, Committed
  <1> QED
    BY <1>1, Invariance, PTL

\* For any lines on any pages: a completed run reports a contradiction for a
\* key exactly when two lines that it has read record different values of it,
\* in one document or in two, and each between two such lines on their pages.
\* What a failed run leaves behind is such a contradiction too.
THEOREM ReportsAreExact == Spec => []ContradictionsAreExact
  <1>1. IInv => ContradictionsAreExact
    BY DEF IInv, RunsTrue, ContradictionsAreExact, Committed
  <1> QED
    BY <1>1, Invariance, PTL

\* The run whose results are shown is never one that was started before the
\* one shown until then, in whichever order overlapping runs commit.
THEOREM ShownOnlyAdvances == Spec => ShownNeverGoesBack
  <1>1. ASSUME IInv, [Next]_vars PROVE LatestRun' >= LatestRun
    <2>1. /\ LatestRun \in Nat /\ (Committed # {} => LatestRun \in Committed)
      BY <1>1, LatestFact DEF IInv, LatestIsNewest
    <2>2. TypeOK'
      BY <1>1, NextKeeps DEF IInv
    <2>3. LatestIsNewest'
      BY <2>2, LatestFact, PTL
    <2>4. Committed \subseteq Committed'
      BY <1>1, NextKeeps
    <2>5. CASE Committed = {}
      BY <2>3, <2>5 DEF LatestRun, LatestIsNewest
    <2>6. CASE Committed # {}
      BY <2>1, <2>3, <2>4, <2>6 DEF LatestIsNewest
    <2> QED
      BY <2>5, <2>6
  <1>2. IInv /\ [Next]_vars => [LatestRun' >= LatestRun]_vars
    BY <1>1
  <1> QED
    BY <1>2, Invariance, PTL DEF Spec, ShownNeverGoesBack
=============================================================================
