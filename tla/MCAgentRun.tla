---- MODULE MCAgentRun ----
(* A small instance of AgentRun: one session id that may be created twice, two chats. *)
EXTENDS AgentRun, TLC

ChatSymmetry == Permutations(Chats)
====
