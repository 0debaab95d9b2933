--------------------------- MODULE MCPipelineCache ---------------------------
(* PipelineCache on a small instance.                                        *)
EXTENDS PipelineCache
=============================================================================
