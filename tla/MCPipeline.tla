----------------------------- MODULE MCPipeline -----------------------------
(* The program with queues and thread pools small enough to fill up.       *)
EXTENDS Pipeline
=============================================================================
