------------------------------ MODULE MCHttpClient ------------------------------
(* Values for TLC: nothing goes wrong around the client. *)
EXTENDS HttpClient

Nothing == {}
===============================================================================
