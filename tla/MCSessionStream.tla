-------------------------- MODULE MCSessionStream --------------------------
EXTENDS SessionStream

\* A compaction whose end has an odd field, a UI request, and a tool
\* line the mapper has no event for.
SomeLines == {
    Line("compaction_start", "", "fits"), Line("compaction_end", "", "field"),
    Line("extension_ui_request", "", "fits"), Line("tool_execution_end", "", "field")}
=============================================================================
