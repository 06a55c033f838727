--------------------------- MODULE MCSerialBridge ---------------------------
(***************************************************************************)
(* Model-checking instance of SerialBridge.  The blocks of a pool are      *)
(* interchangeable: no action prefers one, so the safety runs identify     *)
(* states that differ by a permutation of either pool.  The liveness runs  *)
(* do not use the symmetry.                                                *)
(***************************************************************************)
EXTENDS SerialBridge, TLC

PoolSymmetry == Permutations(RxBlocks) \cup Permutations(TxBlocks)
=============================================================================
