--------------------------- MODULE MCOrderManager ---------------------------
(***************************************************************************)
(* Small instances of OrderManager.                                        *)
(***************************************************************************)
EXTENDS OrderManager, TLC

\* Nothing orders the codes or treats one of them specially.
CodeSymmetry == Permutations(Codes)
=============================================================================
