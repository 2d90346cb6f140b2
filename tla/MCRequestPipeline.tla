-------------------------- MODULE MCRequestPipeline --------------------------
(* Three keys: one that reads, one that reads and writes, an administrator's. *)
EXTENDS RequestPipeline

MCKeys == {"dashboard", "bot", "myapp"}
MCScopesOf == [dashboard |-> {"sessions.read"},
               bot |-> {"sessions.read", "sessions.write"},
               myapp |-> {"admin"}]
MCNoToken == "none"
=============================================================================
