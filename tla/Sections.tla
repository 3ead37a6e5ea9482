------------------------------ MODULE Sections ------------------------------
(***************************************************************************)
(* internal/collector/errors.go: the status of a section, and what the     *)
(* outcome of one API call does to it.                                     *)
(***************************************************************************)
EXTENDS Naturals

Statuses == {"ok", "skipped", "partial", "failed", "unauthorized"}

StatusRank(s) ==
  CASE s = "ok" -> 0 [] s = "skipped" -> 1 [] s = "partial" -> 2
    [] s = "failed" -> 3 [] s = "unauthorized" -> 4

Downgrade(status, s) == IF StatusRank(s) > StatusRank(status) THEN s ELSE status

\* How a call ends.  "shards": some brokers failed and the others answered;
\* "allShards" and "allDenied": every broker failed, in the second case one of
\* them for want of authorization; "denied": a bare authorization error.
Outcomes == {"none", "shards", "allShards", "allDenied", "denied", "error"}

Usable(outcome) == outcome \in {"none", "shards"}

\* request: the status after a call that ended this way.
Request(status, outcome) ==
  CASE outcome = "none" -> status
    [] outcome = "shards" -> Downgrade(status, "partial")
    [] outcome \in {"allShards", "error"} -> Downgrade(status, "failed")
    [] outcome \in {"allDenied", "denied"} -> Downgrade(status, "unauthorized")

\* Mutant of RequestPartial: the data is shipped under the failed status.
RequestWhole(status, outcome, gotData) == Request(status, outcome)

\* requestPartial: data that came with the error corrects the status.
RequestPartial(status, outcome, gotData) ==
  LET after == Request(status, outcome)
  IN  IF ~Usable(outcome) /\ gotData /\ after \in {"failed", "unauthorized"} THEN "partial" ELSE after

\* record, for a failure of one entity.
RecordEntity(status) == Downgrade(status, "partial")
=============================================================================
