-------------------------- MODULE MCParallelUpload --------------------------
(* Part sizes of the runs over ParallelUpload.                             *)
EXTENDS ParallelUpload

SmallPartSizes == <<1, 2, 3>>
=============================================================================
