----------------------------- MODULE MCEntropy -----------------------------
(* The bounds of Entropy are all in the configuration; its draws are such  *)
(* as NothingIsDrawnTwice is about.                                        *)
EXTENDS Entropy

ASSUME MCShortDraws == ShortDraws
=============================================================================
