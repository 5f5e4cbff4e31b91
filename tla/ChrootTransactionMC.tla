------------------------- MODULE ChrootTransactionMC --------------------------
(***************************************************************************)
(* Small instances of ChrootTransaction for TLC.  The two processes are    *)
(* interchangeable, so the safety runs count them once.                    *)
(***************************************************************************)
EXTENDS ChrootTransaction, TLC

ProcessSymmetry == Permutations(Procs)
=============================================================================
