---------------------------- MODULE MCConnections ----------------------------
(* Small instances of Connections: an edit moves the connection to a database *)
(* that lacks one table of the first and has one that is new; a second edit   *)
(* moves it back.                                                             *)
EXTENDS Connections

CONSTANTS t1, t2, t3

MCSource == [v \in Settings |-> IF v % 2 = 0 THEN {t1, t2} ELSE {t2, t3}]
=============================================================================
