-------------------------- MODULE MCMultiThreadServer --------------------------
(* Values for TLC: what clients and operator do in each instance. *)
EXTENDS MultiThreadServer

Patient   == {}
Finishing == {"fin"}
Leaving   == {"fin", "signal"}
Unruly    == {"pipeline", "fin", "reset", "signal"}
===============================================================================
