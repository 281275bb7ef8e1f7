--------------------------- MODULE MCAtomicQueue ---------------------------
(* Small instances of the bounded queue for TLC.                           *)
EXTENDS AtomicQueue

AllKinds == [protocol : {"any", "atomic"}, spsc : BOOLEAN]
=============================================================================
