--------------------------- MODULE MCErrorBudget ----------------------------
(***************************************************************************)
(* Instance of ErrorBudget for TLC: two sections, two kinds with two keys  *)
(* each, a cap of two entries, two samples a key and three keys a section, *)
(* so that four failures reach every refusal, fold and ceiling.            *)
(***************************************************************************)
EXTENDS ErrorBudget
=============================================================================
