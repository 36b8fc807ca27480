---- MODULE MCHubSessions ----
(* A small instance of HubSessions: two sessions, two overlapping receive loops. *)
EXTENDS HubSessions

MCKeyOf == [e \in Events |-> IF e = 2 THEN "group_2" ELSE "private_1"]
MCKeys == {"private_1", "group_2"}
====
