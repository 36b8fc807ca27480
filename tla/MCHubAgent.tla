---- MODULE MCHubAgent ----
(* A small instance of HubAgent: two sessions, two overlapping receive loops. *)
EXTENDS HubAgent

MCKeyOf == [e \in Events |-> IF e = 2 THEN "group_2" ELSE "private_1"]
MCKeys == {"private_1", "group_2"}
====
