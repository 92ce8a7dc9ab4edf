-------------------------- MODULE MCTextExtraction --------------------------
(* Instances of TextExtraction for TLC.                                    *)
EXTENDS TextExtraction
=============================================================================
