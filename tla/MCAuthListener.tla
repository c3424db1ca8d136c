---------------------------- MODULE MCAuthListener ----------------------------
(* AuthListener with the two apps that have a listener, as they are. *)
EXTENDS AuthListener

FirebaseBasic == [removesEarly |-> FALSE, hidesCancel |-> TRUE,
                  hasSignOut |-> TRUE, hasFacebook |-> FALSE]
AuthUIExample == [removesEarly |-> TRUE, hidesCancel |-> FALSE,
                  hasSignOut |-> FALSE, hasFacebook |-> TRUE]
BothApps == {FirebaseBasic, AuthUIExample}
===============================================================================
