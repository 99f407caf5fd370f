----------------------------- MODULE MCNativeThread -----------------------------
(* NativeThread for TLC. *)
EXTENDS NativeThread, TLC
=============================================================================
