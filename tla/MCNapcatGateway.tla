---- MODULE MCNapcatGateway ----
(* A small instance of NapcatGateway: a connection and the one that replaces it. *)
EXTENDS NapcatGateway
====
