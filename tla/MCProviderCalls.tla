---------------------------- MODULE MCProviderCalls ----------------------------
(***************************************************************************)
(* Small instances of ProviderCalls for TLC: two models that differ only   *)
(* in what the constants say of them.                                      *)
(***************************************************************************)
EXTENDS ProviderCalls

CONSTANTS m1, m2
=============================================================================
