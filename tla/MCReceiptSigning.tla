-------------------------- MODULE MCReceiptSigning --------------------------
(* Instances of ReceiptSigning for TLC.                                    *)
EXTENDS ReceiptSigning, TLC

AllOps == PanelOp \cup SyncOp

\* Requests, documents and contents are only compared with each other.
Symmetry == Permutations(Request) \cup Permutations(Doc) \cup Permutations(Content)
=============================================================================
