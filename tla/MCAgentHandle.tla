--------------------------- MODULE MCAgentHandle ---------------------------
(* Small instances of AgentHandle.                                          *)
EXTENDS AgentHandle, TLC

\* A refusal, an acceptance with its data, and a reply that says nothing and
\* whose data does not decode: one of each that the code tells apart.
MCReplies ==
    {[success |-> "false", decodes |-> FALSE], [success |-> "true", decodes |-> TRUE],
     [success |-> "absent", decodes |-> FALSE]}

Symmetry == Permutations(Callers) \cup Permutations(Subs) \cup Permutations(Closers)
=============================================================================
