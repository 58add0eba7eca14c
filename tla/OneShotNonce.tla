---------------------------- MODULE OneShotNonce ----------------------------
(***************************************************************************)
(* What auth/challenge.py promises its callers, without clocks, locks or   *)
(* tables: a nonce goes live once, is then either accepted for exactly one *)
(* caller or lapses, and never comes back.                                 *)
(***************************************************************************)
CONSTANT Nonces

VARIABLE phase

Phases == {"unissued", "live", "accepted", "lapsed"}

TypeOK == phase \in [Nonces -> Phases]

Init == phase = [n \in Nonces |-> "unissued"]

\* The live nonces that a step may drop without accepting them.
Live == {n \in Nonces : phase[n] = "live"}

\* A new nonce goes live; the same step may drop nonces that are out of time.
Issue(n, dropped) ==
    /\ phase[n] = "unissued"
    /\ phase' = [m \in Nonces |-> IF m = n THEN "live"
                                  ELSE IF m \in dropped THEN "lapsed"
                                  ELSE phase[m]]

\* The one caller that redeems a live nonce is told so.
Accept(n) ==
    /\ phase[n] = "live"
    /\ phase' = [phase EXCEPT ![n] = "accepted"]

\* A live nonce is lost: it expired, or the call that took it failed.
Lapse(n) ==
    /\ phase[n] = "live"
    /\ phase' = [phase EXCEPT ![n] = "lapsed"]

Next ==
    \/ \E n \in Nonces, dropped \in SUBSET Live : Issue(n, dropped)
    \/ \E n \in Nonces : Accept(n)
    \/ \E n \in Nonces : Lapse(n)

Spec == Init /\ [][Next]_phase
=============================================================================
