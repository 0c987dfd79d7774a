--------------------------- MODULE MCObjectUpdate ---------------------------
(* Two devices of a user, one of which starts without the object.          *)
EXTENDS ObjectUpdate

MCDevices == {1, 2}
MCHolders == {1}
=============================================================================
