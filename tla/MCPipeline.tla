----------------------------- MODULE MCPipeline -----------------------------
(***************************************************************************)
(* Two runs, the first with two events: when it ends, one of them may be   *)
(* anywhere while another is still on its way, and both may meet one of    *)
(* the second run.                                                         *)
(***************************************************************************)
EXTENDS Pipeline

MCDatasets == <<{1, 2}, {1}>>
=============================================================================
