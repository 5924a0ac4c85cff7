------------------------------ MODULE MCHttpHosts ------------------------------
(* Values for TLC: the programs looked at in each instance. *)
EXTENDS HttpHosts

All == {"dll", "http", "https"}
===============================================================================
