---------------------------- MODULE WindowLedger ----------------------------
(***************************************************************************)
(* What the RPC statistics promise, without a lock and without counters:   *)
(* every observation lands, at once and for good, in the window that is    *)
(* open, windows close one after the other, and what is shipped for a      *)
(* window is the tally of exactly the observations that landed in it       *)
(* (the comment on rpcHooks.snapshot: "neither lost nor counted twice").   *)
(***************************************************************************)
EXTENDS Naturals, Sequences

CONSTANTS
  Calls,             \* the observations
  IsTally(_, _)      \* IsTally(r, S): report r tells of the observations S

VARIABLES
  open,      \* the open window
  landed,    \* landed[c]: the window observation c landed in, 0 before
  reports    \* what was shipped for the windows 1, 2, ...

vars == <<open, landed, reports>>

Init == open = 1 /\ landed = [c \in Calls |-> 0] /\ reports = <<>>

Record(c) ==
  /\ landed[c] = 0
  /\ landed' = [landed EXCEPT ![c] = open]
  /\ UNCHANGED <<open, reports>>

\* A window is shipped before the next one closes.
CloseWindow ==
  /\ Len(reports) = open - 1
  /\ open' = open + 1
  /\ UNCHANGED <<landed, reports>>

Ship ==
  /\ Len(reports) = open - 2 /\ Len(reports') = open - 1
  /\ reports' = Append(reports, reports'[open - 1])
  /\ IsTally(reports'[open - 1], {c \in Calls : landed[c] = open - 1})
  /\ UNCHANGED <<open, landed>>

Next == CloseWindow \/ Ship \/ \E c \in Calls : Record(c)

Spec == Init /\ [][Next]_vars
=============================================================================
