------------------------------ MODULE RpcHooks -------------------------------
(***************************************************************************)
(* internal/kafka/hooks.go and the one caller of its snapshot: kgo fires a *)
(* hook on its own goroutine for every round trip, dial, disconnect and    *)
(* throttle, each hook updates several counters under one mutex, and once  *)
(* per cycle the collector detaches the window, opens the next one and     *)
(* turns what it detached into rows outside the lock.                      *)
(*                                                                         *)
(* The accumulators are on a heap: accum[w] is the map made for window w,  *)
(* a hook that has looked its row up holds the window's number, and so     *)
(* does a snapshot that has detached it.  What a hook call will observe is *)
(* a constant; whether and when it fires is open.                          *)
(***************************************************************************)
EXTENDS Integers, Sequences, FiniteSets, FiniteSetsExt, SequencesExt

CONSTANTS
  Calls,      \* the hook calls, as numbers
  Saw,        \* Saw[c]: what call c observes: [kind, broker, api, ok, took]
  Bounds,     \* LatencyHistogram.BoundsUs, in ticks
  TicksPerMs, \* resolution of the clock
  CycleTicks, \* how long it may be from one snapshot to the next
  MaxCycles   \* bound on the cycles

Kinds == {"e2e", "connect", "disconnect", "throttle"}

ASSUME CallsAssumption ==
  \A c \in Calls : c \in Nat \ {0} /\ Saw[c].kind \in Kinds /\ Saw[c].ok \in BOOLEAN /\ Saw[c].took \in Int
ASSUME ConstantsAssumption ==
  /\ Bounds \in Seq(Int) /\ TicksPerMs \in Nat \ {0}
  /\ CycleTicks \subseteq Nat /\ MaxCycles \in Nat

VARIABLES
  mutex,    \* h.mu: the call or the collector that holds it
  since, open,   \* h.since; the window h.brokers points to
  accum,    \* accum[w]: the brokerAccum rows of window w
  fired,    \* fired[c]: where the goroutine of call c stands
  todo,     \* todo[c]: updates of the hook that are still to be made
  held,     \* held[c]: the window whose row the hook looked up
  awaited,  \* requests of this cycle that a phase is waiting for
  cycle, pc,     \* the cycle and where the collector stands in it
  now, rows, left,   \* snapshot's locals: its argument, the rows, brokers not converted yet
  shipped   \* Batch.Agent.RPC of the cycles 1, 2, ...

hookVars == <<fired, todo, held>>
collectorVars == <<cycle, pc, now, rows, left, shipped>>
vars == <<mutex, since, open, accum, hookVars, awaited, collectorVars>>

Nobody == 0
Collector == -1
Brokers == {Saw[c].broker : c \in Calls}
None == -1

-----------------------------------------------------------------------------
(* LatencyHistogram *)

NoHistogram == [count |-> 0, sum |-> 0, max |-> None, counts |-> <<>>]

EnsureBuckets(h) ==
  IF h.counts = <<>> THEN [h EXCEPT !.counts = [i \in 1..(Len(Bounds) + 1) |-> 0]] ELSE h

\* The bucket of a duration: the first whose inclusive bound holds it, else the
\* overflow bucket.
Bucket(us) == Cardinality({i \in DOMAIN Bounds : us > Bounds[i]}) + 1

Clamp(d) == IF d < 0 THEN 0 ELSE d

Observe(h, d) ==
  LET us == Clamp(d)
      e == EnsureBuckets(h)
  IN [count |-> e.count + 1, sum |-> e.sum + us,
      max |-> IF e.max = None \/ us > e.max THEN us ELSE e.max,
      counts |-> [e.counts EXCEPT ![Bucket(us)] = @ + 1]]

-----------------------------------------------------------------------------
(* The hooks *)

NewApi == [e2e |-> NoHistogram, writeWait |-> NoHistogram, errors |-> 0, bytes |-> 0]
NewBroker ==
  [apis |-> <<>>, attempts |-> 0, failures |-> 0, latency |-> NoHistogram,
   disconnects |-> 0, lastErr |-> None, events |-> 0, throttled |-> 0]

\* What the body of each hook does, one field after the other.
Body(c) ==
  CASE Saw[c].kind = "e2e" /\ Saw[c].ok      -> <<"look", "bytes", "e2e", "writeWait">>
    [] Saw[c].kind = "e2e" /\ ~Saw[c].ok     -> <<"look", "bytes", "errors">>
    [] Saw[c].kind = "connect" /\ Saw[c].ok  -> <<"look", "attempts", "latency">>
    [] Saw[c].kind = "connect" /\ ~Saw[c].ok -> <<"look", "attempts", "failures", "lastErr">>
    [] Saw[c].kind = "disconnect"       -> <<"look", "disconnects">>
    [] Saw[c].kind = "throttle"         -> <<"look", "events", "throttled">>

With(f, k, v) == [x \in DOMAIN f \cup {k} |-> IF x = k THEN v ELSE f[x]]

\* broker and api: the rows, created when they are missing.
Looked(window, c) ==
  LET b == IF Saw[c].broker \in DOMAIN window THEN window[Saw[c].broker] ELSE NewBroker
      looked == IF Saw[c].kind = "e2e" /\ Saw[c].api \notin DOMAIN b.apis
                THEN [b EXCEPT !.apis = With(@, Saw[c].api, NewApi)] ELSE b
  IN With(window, Saw[c].broker, looked)

Updated(b, step, c) ==
  CASE step = "bytes"       -> [b EXCEPT !.apis[Saw[c].api].bytes = @ + 1]
    [] step = "errors"      -> [b EXCEPT !.apis[Saw[c].api].errors = @ + 1]
    [] step = "e2e"         -> [b EXCEPT !.apis[Saw[c].api].e2e = Observe(@, Saw[c].took)]
    [] step = "writeWait"   -> [b EXCEPT !.apis[Saw[c].api].writeWait = Observe(@, Saw[c].took)]
    [] step = "attempts"    -> [b EXCEPT !.attempts = @ + 1]
    [] step = "failures"    -> [b EXCEPT !.failures = @ + 1]
    [] step = "lastErr"     -> [b EXCEPT !.lastErr = c]
    [] step = "latency"     -> [b EXCEPT !.latency = Observe(@, Saw[c].took)]
    [] step = "disconnects" -> [b EXCEPT !.disconnects = @ + 1]
    [] step = "events"      -> [b EXCEPT !.events = @ + 1]
    [] step = "throttled"   -> [b EXCEPT !.throttled = @ + Saw[c].took]

Init ==
  /\ mutex = Nobody /\ since = 0 /\ open = 1
  /\ accum = [w \in 1..(MaxCycles + 1) |-> <<>>]
  /\ fired = [c \in Calls |-> "no"] /\ todo = [c \in Calls |-> <<>>] /\ held = [c \in Calls |-> 0]
  /\ awaited = {}
  /\ cycle = 1 /\ pc = "phases" /\ now = 0 /\ rows = <<>> /\ left = {} /\ shipped = <<>>

\* A phase sends a request.
Issue(c) ==
  /\ pc = "phases" /\ cycle <= MaxCycles
  /\ fired[c] = "no" /\ Saw[c].kind = "e2e"
  /\ fired' = [fired EXCEPT ![c] = "inflight"]
  /\ awaited' = awaited \cup {c}
  /\ UNCHANGED <<mutex, since, open, accum, todo, held, collectorVars>>

\* The request's context ends before its response: the phase moves on and the
\* hook still fires, later.
Abandon(c) ==
  /\ c \in awaited /\ fired[c] # "returned"
  /\ awaited' = awaited \ {c}
  /\ UNCHANGED <<mutex, since, open, accum, hookVars, collectorVars>>

\* kgo calls the hook: for a round trip once it has ended, for the rest of its
\* own accord.
Due(c) ==
  /\ cycle <= MaxCycles
  /\ fired[c] = IF Saw[c].kind = "e2e" THEN "inflight" ELSE "no"

\* Mutant of HookLocks: the mutex is not taken.
HookLocksNothing(c) ==
  /\ Due(c)
  /\ UNCHANGED mutex
  /\ fired' = [fired EXCEPT ![c] = "locked"]
  /\ todo' = [todo EXCEPT ![c] = Body(c)]
  /\ UNCHANGED <<since, open, accum, held, awaited, collectorVars>>

HookLocks(c) ==
  /\ Due(c)
  /\ mutex = Nobody /\ mutex' = c
  /\ fired' = [fired EXCEPT ![c] = "locked"]
  /\ todo' = [todo EXCEPT ![c] = Body(c)]
  /\ UNCHANGED <<since, open, accum, held, awaited, collectorVars>>

HookLooks(c) ==
  /\ fired[c] = "locked" /\ todo[c] # <<>> /\ Head(todo[c]) = "look"
  /\ accum' = [accum EXCEPT ![open] = Looked(@, c)]
  /\ held' = [held EXCEPT ![c] = open]
  /\ todo' = [todo EXCEPT ![c] = Tail(@)]
  /\ UNCHANGED <<mutex, since, open, fired, awaited, collectorVars>>

HookUpdates(c) ==
  /\ fired[c] = "locked" /\ todo[c] # <<>> /\ Head(todo[c]) # "look"
  /\ accum' = [accum EXCEPT ![held[c]][Saw[c].broker] = Updated(@, Head(todo[c]), c)]
  /\ todo' = [todo EXCEPT ![c] = Tail(@)]
  /\ UNCHANGED <<mutex, since, open, fired, held, awaited, collectorVars>>

\* Mutant of HookUnlocks: the early return of a failed dial keeps the lock.
HookUnlocksOnSuccess(c) ==
  /\ fired[c] = "locked" /\ todo[c] = <<>>
  /\ mutex' = IF Saw[c].ok THEN Nobody ELSE mutex
  /\ fired' = [fired EXCEPT ![c] = "returned"]
  /\ UNCHANGED <<since, open, accum, todo, held, awaited, collectorVars>>

HookUnlocks(c) ==
  /\ fired[c] = "locked" /\ todo[c] = <<>>
  /\ mutex' = Nobody
  /\ fired' = [fired EXCEPT ![c] = "returned"]
  /\ UNCHANGED <<since, open, accum, todo, held, awaited, collectorVars>>

-----------------------------------------------------------------------------
(* The collector *)

\* Mutant of PhasesDone: the snapshot is taken beside the phases.
PhasesDoneEarly ==
  /\ pc = "phases" /\ cycle <= MaxCycles
  /\ (\E t \in CycleTicks : now' = since + t) /\ pc' = "lock"
  /\ UNCHANGED <<mutex, since, open, accum, hookVars, awaited, cycle, rows, left, shipped>>

\* wg.Wait: no phase is waiting for a request.  RPCSnapshot reads the clock
\* (Go's is monotonic) before snapshot asks for the lock.
PhasesDone ==
  /\ pc = "phases" /\ cycle <= MaxCycles
  /\ \A c \in awaited : fired[c] = "returned"
  /\ (\E t \in CycleTicks : now' = since + t) /\ pc' = "lock"
  /\ UNCHANGED <<mutex, since, open, accum, hookVars, awaited, cycle, rows, left, shipped>>

\* Mutant of SnapshotLocks: the map is taken while a hook is at work on it.
SnapshotLocksNothing ==
  /\ pc = "lock" /\ pc' = "swap" /\ UNCHANGED mutex
  /\ UNCHANGED <<since, open, accum, hookVars, awaited, cycle, now, rows, left, shipped>>

SnapshotLocks ==
  /\ pc = "lock" /\ mutex = Nobody /\ mutex' = Collector /\ pc' = "swap"
  /\ UNCHANGED <<since, open, accum, hookVars, awaited, cycle, now, rows, left, shipped>>

\* Mutant of WindowMs: milliseconds are rounded up.
WindowMsRoundedUp == (Clamp(now - since) + TicksPerMs - 1) \div TicksPerMs

WindowMs == Clamp(now - since) \div TicksPerMs

\* Detach the map, make an empty one, move since.
SnapshotSwaps ==
  /\ pc = "swap" /\ pc' = "unlock"
  /\ open' = open + 1
  /\ since' = now
  /\ left' = DOMAIN accum[open]
  /\ rows' = [windowMs |-> WindowMs, brokers |-> <<>>]
  /\ UNCHANGED <<mutex, accum, hookVars, awaited, cycle, now, shipped>>

SnapshotUnlocks ==
  /\ pc = "unlock" /\ mutex' = Nobody /\ pc' = "convert"
  /\ UNCHANGED <<since, open, accum, hookVars, awaited, cycle, now, rows, left, shipped>>

\* One broker's accumulators as a row of the batch.
ApiRow(c) == [c EXCEPT !.e2e = EnsureBuckets(@), !.writeWait = EnsureBuckets(@)]
Row(b) ==
  [b EXCEPT !.latency = EnsureBuckets(@), !.throttled = @ \div TicksPerMs,
            !.apis = [a \in DOMAIN @ |-> ApiRow(@[a])]]

\* The loop over the detached map, in the map's own order.
SnapshotConverts(id) ==
  /\ pc = "convert" /\ id \in left
  /\ rows' = [rows EXCEPT !.brokers = With(@, id, Row(accum[open - 1][id]))]
  /\ left' = left \ {id}
  /\ UNCHANGED <<mutex, since, open, accum, hookVars, awaited, cycle, pc, now, shipped>>

\* The batch ships and the next cycle begins.
SnapshotReturns ==
  /\ pc = "convert" /\ left = {}
  /\ shipped' = Append(shipped, rows)
  /\ cycle' = cycle + 1 /\ pc' = "phases" /\ awaited' = {}
  /\ now' = 0 /\ rows' = <<>>
  /\ UNCHANGED <<mutex, since, open, accum, hookVars, left>>

Hook(c) == HookLocks(c) \/ HookLooks(c) \/ HookUpdates(c) \/ HookUnlocks(c)

Collect == PhasesDone \/ SnapshotLocks \/ SnapshotSwaps \/ SnapshotUnlocks
             \/ (\E id \in Brokers : SnapshotConverts(id)) \/ SnapshotReturns

Next == Collect \/ \E c \in Calls : Issue(c) \/ Abandon(c) \/ Hook(c)

Spec == Init /\ [][Next]_vars

\* A goroutine that can run does, and sync.Mutex hands the lock to whoever has
\* waited longest once it starves: the collector gets it in the end.
FairSpec ==
  /\ Spec
  /\ \A c \in Calls : WF_vars(HookLooks(c) \/ HookUpdates(c) \/ HookUnlocks(c))
  /\ SF_vars(SnapshotLocks)
  /\ WF_vars(SnapshotSwaps \/ SnapshotUnlocks \/ (\E id \in Brokers : SnapshotConverts(id)) \/ SnapshotReturns)

-----------------------------------------------------------------------------
(* Properties *)

\* The types; the heap holds rows of called brokers only.
TypeOK ==
  /\ since \in Nat /\ now \in Nat
  /\ mutex \in Calls \cup {Nobody, Collector} /\ open \in 1..(MaxCycles + 1)
  /\ \A w \in DOMAIN accum : DOMAIN accum[w] \subseteq Brokers
  /\ fired \in [Calls -> {"no", "inflight", "locked", "returned"}]
  /\ awaited \subseteq Calls /\ cycle \in 1..(MaxCycles + 1)
  /\ pc \in {"phases", "lock", "swap", "unlock", "convert"}

\* How many of the calls S observe kind k on broker b with outcome ok.
Of(S, k, b, ok) == {c \in S : Saw[c].kind = k /\ Saw[c].broker = b /\ Saw[c].ok = ok}

\* h is the histogram of what the calls S took.
IsHistogram(h, S) ==
  /\ h.count = Cardinality(S)
  /\ h.sum = FoldSet(LAMBDA c, n : Clamp(Saw[c].took) + n, 0, S)
  /\ IF S = {} THEN h.max = None
     ELSE h.max \in {Clamp(Saw[c].took) : c \in S} /\ \A c \in S : Clamp(Saw[c].took) <= h.max
  /\ Len(h.counts) = Len(Bounds) + 1
  /\ \A i \in DOMAIN h.counts :
       h.counts[i] = Cardinality({c \in S : /\ i > 1 => Clamp(Saw[c].took) > Bounds[i - 1]
                                            /\ i <= Len(Bounds) => Clamp(Saw[c].took) <= Bounds[i]})

\* Report r tells of exactly the calls S: the counters of every row agree with
\* one another and with the calls (BrokerRPC: ConnectLatency's count is
\* ConnectAttempts - ConnectFailures; BrokerAPIRPC: bytes of failed requests
\* count, their timings do not).
IsTally(r, S) ==
  /\ DOMAIN r.brokers = {Saw[c].broker : c \in S}
  /\ \A b \in DOMAIN r.brokers :
       LET row == r.brokers[b]
           failed == Of(S, "connect", b, FALSE)
           trips == {c \in S : Saw[c].kind = "e2e" /\ Saw[c].broker = b}
           waits == Of(S, "throttle", b, TRUE)
       IN /\ row.failures = Cardinality(failed)
          /\ row.attempts - row.failures = row.latency.count
          /\ IsHistogram(row.latency, Of(S, "connect", b, TRUE))
          /\ IF failed = {} THEN row.lastErr = None ELSE row.lastErr \in failed
          /\ row.disconnects = Cardinality(Of(S, "disconnect", b, TRUE))
          /\ row.events = Cardinality(waits)
          /\ row.throttled = FoldSet(LAMBDA c, n : Saw[c].took + n, 0, waits) \div TicksPerMs
          /\ DOMAIN row.apis = {Saw[c].api : c \in trips}
          /\ \A a \in DOMAIN row.apis :
               LET on == {c \in trips : Saw[c].api = a}
                   ok == {c \in on : Saw[c].ok}
               IN /\ row.apis[a].bytes = Cardinality(on)
                  /\ row.apis[a].errors = Cardinality(on \ ok)
                  /\ IsHistogram(row.apis[a].e2e, ok)
                  /\ IsHistogram(row.apis[a].writeWait, ok)

\* A call lands when its hook returns, in the window whose row it updated.
Ledger == INSTANCE WindowLedger WITH
  landed <- [c \in Calls |-> IF fired[c] = "returned" THEN held[c] ELSE 0],
  reports <- shipped

\* snapshot's comment: an observation that lands in the middle of a snapshot is
\* wholly in the window returned or wholly in the next; none is lost, counted
\* twice or torn, however hooks, swap and conversion interleave.
ImplementsLedger == Ledger!Spec

\* A window that was detached never changes again, which is what makes it safe
\* to convert it, and to ship histograms that share its arrays, without the lock.
DetachedFrozen == [][\A w \in 1..(open - 1) : accum'[w] = accum[w]]_vars

\* collectRPC's comment: the window covers this cycle's own traffic.  A request
\* a phase of this cycle waited for is in this cycle's window; one it gave up on
\* lands wherever its hook fires.
OwnTrafficCovered ==
  \A c \in awaited : /\ pc # "phases" => fired[c] = "returned"
                     /\ fired[c] = "returned" => held[c] = cycle

\* The sum of window_ms over a sequence of reports.
Reported(rs) ==
  LET sum[i \in 0..Len(rs)] == IF i = 0 THEN 0 ELSE sum[i - 1] + rs[i].windowMs
  IN  sum[Len(rs)]

\* The windows tile the time since the client was made: every rate divides by
\* window_ms, and the windows together lose less than a millisecond each and
\* never overlap.
WindowsTile ==
  LET total == Reported(shipped) * TicksPerMs
  IN pc = "phases" => total <= since /\ since <= total + Len(shipped) * (TicksPerMs - 1)

\* No hook keeps the lock: a snapshot that asks for it gets it and the cycle
\* goes on to ship its batch.
SnapshotCompletes == (pc = "lock") ~> (pc = "phases")
=============================================================================
