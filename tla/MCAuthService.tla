---------------------------- MODULE MCAuthService ----------------------------
(* Small instances of AuthService. *)
EXTENDS AuthService, TLC

AllFaults == {"outage", "restart", "crash"}

NoFaults == {}
=============================================================================
