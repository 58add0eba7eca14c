--------------------------- MODULE MCMappingStore ---------------------------
(***************************************************************************)
(* A small instance of MappingStore for TLC: alice and bob already had a   *)
(* legacy identity each, bob's is disabled.                                *)
(***************************************************************************)
EXTENDS MappingStore, TLC

CONSTANTS alice, bob, k1, k2

MCUsers == {alice, bob}
MCPubkeys == {k1, k2}
MCLegacy == <<[user |-> alice, pubkey |-> k1, enabled |-> TRUE],
              [user |-> bob, pubkey |-> k2, enabled |-> FALSE]>>
=============================================================================
