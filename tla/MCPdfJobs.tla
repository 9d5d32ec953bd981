----------------------------- MODULE MCPdfJobs -----------------------------
(* PdfJobs on small instances.  The runs check liveness or a history, so   *)
(* pods and jobs are not permuted.                                         *)
EXTENDS PdfJobs

CONSTANTS j1, p1
=============================================================================
