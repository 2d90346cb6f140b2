---------------------------- MODULE CommandCalls ----------------------------
(* What a caller of an agent handle is promised: the abstract specification *)
(* that AgentHandle implements. A request is issued once; Pi answers it at   *)
(* most once, while it runs; the caller gets at most one result, and        *)
(* success only on an answer that does not refuse it, a query (GetState,    *)
(* GetMessages) only on data that decodes. The promise is weaker for a      *)
(* prompt (Prompt, Abort): once Pi has exited the code may report a prompt  *)
(* nobody answered as a success. It is no promise of Pi's word: an answer   *)
(* that leaves success out counts as one.                                   *)

CONSTANT Requests

Replies == {r \in [success: {"true", "false", "absent"}, decodes: BOOLEAN] :
               r.success = "false" => ~r.decodes}
NoReply == [success |-> "none", decodes |-> FALSE]

VARIABLES
    kind,     \* "none" until the request is issued
    reply,    \* Pi's answer
    result,   \* what the call returned
    alive     \* whether Pi runs

vars == <<kind, reply, result, alive>>

Init ==
    /\ kind = [r \in Requests |-> "none"]
    /\ reply = [r \in Requests |-> NoReply]
    /\ result = [r \in Requests |-> "none"]
    /\ alive = TRUE

Issue(r) ==
    /\ kind[r] = "none"
    /\ \E k \in {"prompt", "query"} : kind' = [kind EXCEPT ![r] = k]
    /\ UNCHANGED <<reply, result, alive>>

Answer(r) ==
    /\ alive /\ kind[r] # "none" /\ reply[r] = NoReply
    /\ \E said \in Replies : reply' = [reply EXCEPT ![r] = said]
    /\ UNCHANGED <<kind, result, alive>>

Succeed(r) ==
    /\ kind[r] # "none" /\ result[r] = "none"
    /\ \/ reply[r].success \in {"true", "absent"} /\ (kind[r] = "query" => reply[r].decodes)
       \/ kind[r] = "prompt" /\ ~alive
    /\ result' = [result EXCEPT ![r] = "ok"]
    /\ UNCHANGED <<kind, reply, alive>>

Fail(r) ==
    /\ kind[r] # "none" /\ result[r] = "none"
    /\ result' = [result EXCEPT ![r] = "error"]
    /\ UNCHANGED <<kind, reply, alive>>

Exit ==
    /\ alive
    /\ alive' = FALSE
    /\ UNCHANGED <<kind, reply, result>>

Next == Exit \/ \E r \in Requests : Issue(r) \/ Answer(r) \/ Succeed(r) \/ Fail(r)

Spec == Init /\ [][Next]_vars
=============================================================================
