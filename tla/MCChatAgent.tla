----------------------------- MODULE MCChatAgent ----------------------------
(* Model values for the run of ChatAgent.                                  *)
EXTENDS ChatAgent

CONSTANTS q1, q2
=============================================================================
