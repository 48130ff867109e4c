---------------------------- MODULE MCConnecting ----------------------------
(* Instances of Connecting for TLC. *)
EXTENDS Connecting

\* The authenticators that Connect tries.
BothMechanisms == <<"EXTERNAL", "DBUS_COOKIE_SHA1">>
=============================================================================
