--------------------------- MODULE MCAuthService ---------------------------
(* The settings AuthService is started with when TLC checks it.            *)
EXTENDS AuthService

\* Before, during and after a pause.
OpenOrPaused == {[login |-> b, linking |-> b] : b \in BOOLEAN}
=============================================================================
