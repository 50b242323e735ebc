---------------------------- MODULE MCInboundGuard ----------------------------
(***************************************************************************)
(* Instances of InboundGuard for TLC: the calls of the handler are         *)
(* interchangeable.                                                        *)
(***************************************************************************)
EXTENDS InboundGuard, TLC

Interchangeable == Permutations(Runs)
=============================================================================
