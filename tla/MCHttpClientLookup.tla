--------------------------- MODULE MCHttpClientLookup ---------------------------
(* Values for TLC: everything goes wrong, with the client and its resolver. *)
EXTENDS HttpClientLookup

AnyEnv    == {"badurl", "nodns", "icmp", "refuse", "break"}
AnyFaults == {"empty", "icmp", "nosend", "nosocket"}
===============================================================================
