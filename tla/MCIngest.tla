------------------------------ MODULE MCIngest ------------------------------
(***************************************************************************)
(* Small instances of the ingest queue for TLC.                            *)
(***************************************************************************)
EXTENDS Ingest, TLC

KindSymmetry == Permutations(Kinds)
=============================================================================
