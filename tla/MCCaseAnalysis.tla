--------------------------- MODULE MCCaseAnalysis ---------------------------
(* Instances of CaseAnalysis for TLC.                                      *)
EXTENDS CaseAnalysis

On(d, n, k, v, t) ==
    [document |-> d, number |-> n, key |-> k, value |-> v, when |-> t]

\* Three lines of one key, the last of which disagrees with the first two,
\* and a document that contradicts itself about another on one page.
Records == [pages |-> <<2, 1>>,
            lines |-> <<On(1, 1, "seal_code", "A", 3),
                        On(1, 2, "arrest_time", "B", 1),
                        On(1, 2, "arrest_time", "A", 2),
                        On(1, 2, "seal_code", "A", 4),
                        On(2, 1, "seal_code", "B", 5),
                        On(2, 1, "electronic_certificate", "B", 0)>>]

\* A document without any line, and one with times in the wrong order.
Search == [pages |-> <<2, 1>>,
           lines |-> <<On(2, 1, "search_start_time", "A", 1),
                       On(2, 1, "authorisation_time", "B", 2)>>]

TwoDocuments == {Records, Search}

\* B is the later time, and says that something is incomplete.
Times == [v \in {"A", "B"} |-> IF v = "A" THEN 1 ELSE 2]

\* A model service, with or without the fallback.
WithModel == [nvidia_nim: {TRUE}, ai_fallback_enabled: BOOLEAN]
=============================================================================
