----------------------------- MODULE MCBootstrap -----------------------------
(* Instances of Bootstrap for TLC.                                         *)
EXTENDS Bootstrap

AllWorkspaces == [programs: Organisations,
                  activities: {{"accounts"}, {"records"}}]

\* The jury's second case stays pending; case 11 is the second of casework.
OneOrTwoCases ==
    [p \in Programs |-> CASE p = "jury"       -> {1, 2}
                          [] p = "case_11_12" -> {2}
                          [] OTHER            -> {1}]

TwoFilesAndOne == <<{1, 2}, {3}>>
=============================================================================
