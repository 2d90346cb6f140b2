-------------------------- MODULE MCSessionManager --------------------------
(* Small instances of SessionManager.                                        *)
EXTENDS SessionManager, TLC

Symmetry == Permutations(Clients)

\* States that differ in what the last requests were told only: no action and
\* no invariant but the type invariant reads it.
Untold == <<serverVars, rows, transcripts, procVars, pc, target, held, wasDead, crashes>>
=============================================================================
