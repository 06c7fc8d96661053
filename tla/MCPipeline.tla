----------------------------- MODULE MCPipeline -----------------------------
(* Instances of PipelineProps for TLC. *)
EXTENDS PipelineProps, TLC

CONSTANTS u1, u2, k1

TwoUploads == {u1, u2}
OneKey == {k1}

\* Both uploads in one month with one mime type.
SameKey == u1 :> k1 @@ u2 :> k1
=============================================================================
