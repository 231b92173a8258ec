------------------------ MODULE MCAgentConversation -------------------------
(* Two turns on one conversation: the first with a pinned prompt, a schema  *)
(* and a title, the second plain.                                          *)
EXTENDS AgentConversation, TLC

CONSTANTS t1, t2

\* Three commits for the tool loop, the request for the schema and its answer.
MCMaxCommits == t1 :> 3 @@ t2 :> 1
=============================================================================
