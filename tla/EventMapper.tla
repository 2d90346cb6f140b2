---------------------------- MODULE EventMapper ----------------------------
(* MapRPCLine of src/internal/rpc/mapper.go: which gateway event, if any,   *)
(* subscribers get for a line of Pi's stdout. Of a line the model keeps its *)
(* type, the type of the assistantMessageEvent inside a message_update, and *)
(* how well its fields fit the Go structs it is decoded into; of an event,  *)
(* its type. What the events carry is passed through as it came.            *)
EXTENDS Sequences

Shapes == {
    "fits",   \* every field has the type the mapper decodes it into
    "field",  \* a field only the mapper decodes has another JSON type
    "header"} \* id, command, success or error, which readLoop decodes, has

Line(type, sub, shape) == [type |-> type, sub |-> sub, shape |-> shape]

EventType == [
    agent_start           |-> "agent.run.start",
    agent_end             |-> "agent.run.end",
    turn_start            |-> "agent.turn.start",
    turn_end              |-> "agent.turn.end",
    message_start         |-> "agent.message.start",
    message_end           |-> "agent.message.end",
    tool_execution_start  |-> "agent.tool.start",
    tool_execution_update |-> "agent.tool.update",
    tool_execution_end    |-> "agent.tool.end",
    compaction_start      |-> "agent.compaction.start",
    compaction_end        |-> "agent.compaction.end",
    auto_retry_start      |-> "agent.retry.start",
    auto_retry_end        |-> "agent.retry.end",
    queue_update          |-> "agent.queue.update",
    extension_ui_request  |-> "agent.ui.request",
    extension_error       |-> "agent.extension.error"]

UpdateType == [
    text_start     |-> "agent.text.start",
    text_delta     |-> "agent.text.delta",
    text_end       |-> "agent.text.end",
    thinking_start |-> "agent.thinking.start",
    thinking_delta |-> "agent.thinking.delta",
    thinking_end   |-> "agent.thinking.end",
    toolcall_start |-> "agent.toolcall.start",
    toolcall_delta |-> "agent.toolcall.delta",
    toolcall_end   |-> "agent.toolcall.end",
    done           |-> "agent.message.done",
    error          |-> "agent.message.error",
    start          |-> "agent.message.start"]

\* A field of another type leaves these without an event; the fields of the
\* others are raw JSON, or (compaction) the event is sent without them.
\* Mutated form of Strict: compaction lines are strict too.
StrictEnds == DOMAIN EventType \ {"agent_start", "agent_end", "turn_start", "turn_end",
                                  "message_start", "message_end"}
Strict == {"tool_execution_start", "tool_execution_update", "tool_execution_end",
           "auto_retry_start", "auto_retry_end", "queue_update",
           "extension_ui_request", "extension_error", "message_update"}

MapRPCLine(line) ==
    CASE line.type = "response" -> <<>>
      [] line.shape = "field" /\ line.type \in Strict -> <<>>
      [] line.type = "message_update" /\ line.sub \in DOMAIN UpdateType -> <<UpdateType[line.sub]>>
      [] line.type \in DOMAIN EventType -> <<EventType[line.type]>>
      [] OTHER -> <<"agent.unknown">>

\* readLoop decodes the envelope first and skips a line that does not fit it.
EventsOf(line) == IF line.shape = "header" THEN <<>> ELSE MapRPCLine(line)
=============================================================================
