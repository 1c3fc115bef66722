----------------------------- MODULE MCSgKernIo -----------------------------
(* Callers are interchangeable.                                             *)
EXTENDS SgKernIo, TLC
CallerSymmetry == Permutations(Callers)
=============================================================================
