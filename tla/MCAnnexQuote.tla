---------------------------- MODULE MCAnnexQuote ----------------------------
(* Instances of AnnexQuote for TLC.                                        *)
EXTENDS AnnexQuote, TLC

\* Requests and annexes are only compared with each other.
Symmetry == Permutations(Request) \cup Permutations(Annex)
=============================================================================
