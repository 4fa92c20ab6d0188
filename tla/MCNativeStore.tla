--------------------------- MODULE MCNativeStore ---------------------------
(* Small instances of NativeStore: one file for each file:// store.        *)
EXTENDS NativeStore

CONSTANTS p1, p2, f1, m1

OwnFile == [u \in Persisted |-> u]
=============================================================================
