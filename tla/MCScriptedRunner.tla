--------------------------- MODULE MCScriptedRunner ---------------------------
(* Small packs for ScriptedRunner: steps, mutations and a target.           *)
EXTENDS ScriptedRunner

CONSTANTS t1, c1, c2

Fault(type, occurrence, duration) ==
    [type |-> type, applies_to |-> AnyTool, occurrence |-> occurrence, duration |-> duration]

Call(context, attempts, on) ==
    [call |-> t1, context |-> context, max_attempts |-> attempts, on |-> on]

\* Two steps that call one tool; the first one is retried.
RetriedThenPlain ==
    << Call(c1, 2, {"timeout", "retryable_error", "rate_limit"}), Call(c1, 1, {}) >>
OtherContext ==
    << Call(c1, 1, {}), Call(c2, 2, {"retryable_error", "timeout"}), Call(c1, 1, {}) >>
Twice == << Call(c1, 2, {"timeout"}) >>

\* The first call is duplicated and loses its response, the second one is
\* denied, the third one is slow and gets a stale result.
Mixed ==
    << Fault("duplicate_call", 1, "none"), Fault("retryable_error", 1, "none"),
       Fault("rate_limit", 2, "none"), Fault("slow_stream", 3, "short"),
       Fault("stale_result", 3, "none") >>
StaleThenLong ==
    << Fault("truncated_response", 2, "none"), Fault("stale_result", 3, "none"),
       Fault("progress_stall", 4, "long") >>
\* The first call loses its response after two other mutations of it.
PartialThenLost ==
    << Fault("slow_stream", 1, "short"), Fault("partial_success", 1, "none"),
       Fault("commit_then_response_lost", 1, "none"), Fault("retryable_error", 2, "none") >>

Pack(steps, mutations, disturbances) ==
    [steps |-> steps, mutations |-> mutations, disturbances |-> disturbances]

\* Disconnects and signals in packs of their own, since either ends a run at every await.
RunPacks ==
    { Pack(RetriedThenPlain, Mixed, {"disconnect", "setup"}),
      Pack(OtherContext, StaleThenLong, {"signal", "slow_close"}),
      Pack(Twice, PartialThenLost, {"disconnect"}) }

\* A target behind McpStdioClient says nothing of commits.
StdioAnswers == [error: {"none", "server_error"}, commit: {"unknown"}]
===============================================================================
