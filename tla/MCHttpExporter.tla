--------------------------- MODULE MCHttpExporter ---------------------------
(***************************************************************************)
(* Instances of HttpExporter for TLC.  Two ticks of budget against         *)
(* requests of one and waits of one or two: a batch can run out of         *)
(* attempts, of budget before a wait, and of budget inside a request.      *)
(* MaxBatches = QueueSize + 2 lets a batch be in the worker's hands, the   *)
(* queue be full, and one more overflow it.                                *)
(***************************************************************************)
EXTENDS HttpExporter
=============================================================================
