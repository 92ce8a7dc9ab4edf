------------------------------ MODULE MCAppStore ------------------------------
(* Instances of AppStore for TLC.                                          *)
EXTENDS AppStore, TLC

CONSTANTS custody, fabrication, s1, s4, none, seed, claim, served

\* Safety only: the calls are alike.
CallsAlike == Permutations(Calls)

\* The seed's motion holds the phrase of the argument about custody.
Phrases == [text \in Bodies |-> CASE text = seed  -> {custody}
                                  [] text = claim -> {fabrication}
                                  [] OTHER        -> {}]

\* Everything is decided in mock mode, one thing in http mode.
ByMode == [mock |-> Arguments \X {"approved", "rejected"},
           http |-> {<<fabrication, "rejected">>}]

ByArgument == [a \in Arguments |-> IF a = custody THEN s1 ELSE s4]
=============================================================================
