------------------------ MODULE CollectPhasesProofs -------------------------
(***************************************************************************)
(* Proofs about CollectPhases, for every call, every interval and every    *)
(* length of the log.                                                      *)
(***************************************************************************)
EXTENDS CollectPhases, TLAPS

\* The steps of collectTopics after its start, in their order.
TopicSteps == {"await", "lso", "end", "maxTS", "local", "remote"}

\* The rounds of collectEpochProbes.
RoundSteps == {"last", "two", "three", "four"}

Steps(g) ==
  CASE g = "groups" -> {"wait", "enrich", "done"}
    [] g = "share" -> {"wait", "shareOffsets", "done"}
    [] g = "topics" -> TopicSteps \cup {"wait", "done"}
    [] g = "epoch" -> RoundSteps \cup {"wait", "done"}
    [] OTHER -> {"wait", "done"}

\* The section a goroutine other than "topics" and "list" fills.
SectionOf(g) ==
  CASE g = "cluster" -> "cluster" [] g = "groups" -> "groups" [] g = "offsets" -> "offsets"
    [] g = "window" -> "topics_window" [] g = "logDirs" -> "log_dirs" [] g = "share" -> "share_groups"
    [] g = "topicConfigs" -> "topic_configs" [] g = "brokerConfigs" -> "broker_configs"
    [] g = "reassign" -> "reassignments" [] g = "epoch" -> "epoch_probes"

OneSection == Goroutines \ {"topics", "list"}
TopicSections == LaterTopicSections \cup {"topics"}

\* The sections collectTopics has filled at a step.
FilledBy(step) ==
  CASE step = "wait" -> {}
    [] step \in {"await", "lso"} -> {"topics"}
    [] step = "end" -> {"topics", "topics_lso"}
    [] step = "maxTS" -> {"topics", "topics_lso", "topics_end"}
    [] step = "local" -> {"topics", "topics_lso", "topics_end", "topics_max_timestamp"}
    [] step = "remote" -> TopicSections \ {"topics_remote_end"}
    [] OTHER -> TopicSections

Types ==
  /\ call \in Calls
  /\ log \in [start : Nat, committed : Nat, lso : Nat, hw : Nat]
  /\ pc \in [Goroutines -> UNION {Steps(g) : g \in Goroutines}]
  /\ \A g \in Goroutines : pc[g] \in Steps(g)
  /\ meta \in {"pending", "failed", "some", "none"}
  /\ listing \in [ids : BOOLEAN, err : {"none", "error", "denied"}]
  /\ status \in [SectionNames -> Statuses \cup {"absent"}]
  /\ data \in [SectionNames -> Nat \cup {Null}]

\* A goroutine that is past its wait has seen the channels it waits for close.
Waited == \A g \in Goroutines : pc[g] # "wait" => \A h \in Waits[g] : Done(h)

\* A section has a status from the moment the goroutine that owns it is past it.
Filled ==
  /\ \A g \in OneSection : pc[g] # "wait" => status[SectionOf(g)] \in Statuses
  /\ \A s \in FilledBy(pc["topics"]) : status[s] \in Statuses
  /\ batch => status["broker_rpc"] \in Statuses /\ \A g \in WaitGroup : Done(g)

-----------------------------------------------------------------------------
(* What the helpers return *)

LEMMA StatusTypes ==
  /\ \A st \in Statuses : RecordEntity(st) \in Statuses /\ RecordEntity(st) # "ok"
  /\ \A st \in Statuses, o \in Outcomes : Request(st, o) \in Statuses
  /\ \A st \in Statuses, o \in Outcomes, got \in BOOLEAN : RequestPartial(st, o, got) \in Statuses
<1>1. \A st \in Statuses : RecordEntity(st) \in Statuses /\ RecordEntity(st) # "ok"
  BY DEF RecordEntity, Downgrade, StatusRank, Statuses
<1>2. \A st \in Statuses, o \in Outcomes : Request(st, o) \in Statuses
  BY DEF Request, Downgrade, Statuses, Outcomes
<1>3. "partial" \in Statuses
  BY DEF Statuses
<1> QED
  BY <1>1, <1>2, <1>3 DEF RequestPartial

LEMMA AnswersAreReplies ==
  ASSUME Types
  PROVE  Answers \subseteq AllReplies
<1>1. call.replies \subseteq AllReplies /\ "error" \in AllReplies
  BY CallsAssumption DEF Types, AllReplies
<1> QED
  BY <1>1 DEF Answers

LEMMA OutcomeTypes ==
  ASSUME NEW r \in AllReplies
  PROVE  OutcomeOf(r) \in Outcomes /\ GotData(r) \in BOOLEAN /\ HasOurs(r) \in BOOLEAN
BY DEF OutcomeOf, AllReplies, Outcomes, GotData, HasOurs

\* What a reply makes of its section: what is failed has no data, what is ok
\* has all of it.
LEMMA SampleStatusHonest ==
  ASSUME NEW r \in AllReplies
  PROVE  /\ SampleStatus("ok", r) \in Statuses
         /\ SampleStatus("ok", r) \in {"failed", "unauthorized"} => ~HasOurs(r) /\ ~GotData(r)
         /\ SampleStatus("ok", r) = "ok" => HasOurs(r)
         /\ r = "error" => SampleStatus("ok", r) = "failed"
<1> USE DEF SampleStatus, RequestPartial, Request, RecordEntity, Downgrade, StatusRank, Usable, OutcomeOf,
            GotData, HasOurs, Statuses
<1>1. CASE r = "ok"
  BY <1>1
<1>2. CASE r = "missing"
  BY <1>2
<1>3. CASE r = "shards"
  BY <1>3
<1>4. CASE r = "shardsOther"
  BY <1>4
<1>5. CASE r = "allShards"
  BY <1>5
<1>6. CASE r = "allDenied"
  BY <1>6
<1>7. CASE r = "denied"
  BY <1>7
<1>8. CASE r = "deniedLate"
  BY <1>8
<1>9. CASE r = "error"
  BY <1>9
<1> QED
  BY <1>1, <1>2, <1>3, <1>4, <1>5, <1>6, <1>7, <1>8, <1>9 DEF AllReplies

\* The same where a missing partition is not recorded, except that "ok" then
\* does not promise it.
LEMMA PartialStatusHonest ==
  ASSUME NEW r \in AllReplies
  PROVE  /\ RequestPartial("ok", OutcomeOf(r), GotData(r)) \in Statuses
         /\ RequestPartial("ok", OutcomeOf(r), GotData(r)) \in {"failed", "unauthorized"} => ~HasOurs(r)
         /\ r = "error" => RequestPartial("ok", OutcomeOf(r), GotData(r)) = "failed"
<1> USE DEF RequestPartial, Request, Downgrade, StatusRank, Usable, OutcomeOf, GotData, HasOurs, Statuses
<1>1. CASE r = "ok"
  BY <1>1
<1>2. CASE r = "missing"
  BY <1>2
<1>3. CASE r = "shards"
  BY <1>3
<1>4. CASE r = "shardsOther"
  BY <1>4
<1>5. CASE r = "allShards"
  BY <1>5
<1>6. CASE r = "allDenied"
  BY <1>6
<1>7. CASE r = "denied"
  BY <1>7
<1>8. CASE r = "deniedLate"
  BY <1>8
<1>9. CASE r = "error"
  BY <1>9
<1> QED
  BY <1>1, <1>2, <1>3, <1>4, <1>5, <1>6, <1>7, <1>8, <1>9 DEF AllReplies

\* A later request leaves a section ok only if it is answered with data.
LEMMA LaterStatus ==
  ASSUME NEW st \in Statuses, NEW r \in AllReplies
  PROVE  SampleStatus(st, r) \in Statuses /\ (SampleStatus(st, r) = "ok" => GotData(r))
<1>1. OutcomeOf(r) \in Outcomes /\ GotData(r) \in BOOLEAN
  BY OutcomeTypes
<1>2. RequestPartial(st, OutcomeOf(r), GotData(r)) \in Statuses
  BY <1>1, StatusTypes
<1>3. SampleStatus(st, r) \in Statuses
  BY <1>2, StatusTypes DEF SampleStatus
<1>4. ASSUME ~GotData(r)
      PROVE  SampleStatus(st, r) # "ok"
  <2>1. SampleStatus(st, r) = Request(st, OutcomeOf(r))
    BY <1>4 DEF SampleStatus, RequestPartial
  <2>2. r \in {"allShards", "allDenied", "denied", "error"}
    BY <1>4 DEF GotData, AllReplies
  <2>3. OutcomeOf(r) \in {"allShards", "allDenied", "denied", "error"}
    BY <2>2 DEF OutcomeOf
  <2> QED
    BY <2>1, <2>3 DEF Request, Downgrade, StatusRank, Statuses
<1> QED
  BY <1>3, <1>4

LEMMA DescribeTypes ==
  ASSUME NEW st \in Statuses, NEW r \in AllReplies
  PROVE  DescribeStatus(st, r) \in Statuses /\ DescribeData(r) \in Nat \cup {Null}
<1>1. DescribeStatus(st, r) \in Statuses
  BY OutcomeTypes, StatusTypes DEF DescribeStatus
<1> QED
  BY <1>1 DEF DescribeData, Shipped, Null

-----------------------------------------------------------------------------
(* The kinds of steps *)

\* The cluster moves: offsets grow, and keep their order.
LogOrdered(l) == l.start <= l.lso /\ l.committed <= l.lso /\ l.lso <= l.hw

LogStep ==
  /\ log' \in [start : Nat, committed : Nat, lso : Nat, hw : Nat] /\ LogOrdered(log')
  /\ \A f \in {"start", "committed", "lso", "hw"} : log[f] <= log'[f]
  /\ UNCHANGED <<expired, call, pc, meta, listing, status, data, batch, early>>

\* What a step of g that fills its section with d under status st may not do.
Honest(g, st, d) ==
  /\ g \in {"cluster", "window", "reassign"} /\ st \in {"failed", "unauthorized"} => d = Null
  /\ g = "window" => (d # Null => d <= log.hw) /\ (st = "ok" => d # Null)
  /\ g = "offsets" => /\ d # Null => d = log.committed
                      /\ st = "ok" /\ listing.ids => d # Null

\* A goroutine with one section takes its turn.
PhaseStep(g, to, st, d) ==
  /\ Ready(g) /\ to \in Steps(g) \ {"wait"}
  /\ st \in Statuses /\ d \in Nat \cup {Null} /\ Honest(g, st, d)
  /\ pc' = [pc EXCEPT ![g] = to]
  /\ status' = [status EXCEPT ![SectionOf(g)] = st] /\ data' = [data EXCEPT ![SectionOf(g)] = d]
  /\ IF g = "cluster" THEN meta' \in {"failed", "some", "none"} ELSE meta' = meta
  /\ g = "epoch" /\ to = "done" => st # "ok"
  /\ UNCHANGED <<log, expired, call, listing, batch, early>>

\* The next request of a phase that has more than one.
SecondStep(g, to, st, d) ==
  /\ pc[g] \notin {"wait", "done"} /\ to \in Steps(g) \ {"wait"}
  /\ st \in Statuses /\ d \in Nat \cup {Null} /\ (g = "epoch" /\ st = "ok" => d # Null)
  /\ pc' = [pc EXCEPT ![g] = to]
  /\ status' = [status EXCEPT ![SectionOf(g)] = st] /\ data' = [data EXCEPT ![SectionOf(g)] = d]
  /\ UNCHANGED <<log, expired, call, meta, listing, batch, early>>

\* A List*Offsets call of collectTopics.
SampleStep(s, from, to, st, d) ==
  /\ pc["topics"] = from /\ pc' = [pc EXCEPT !["topics"] = to]
  /\ st \in Statuses /\ d \in Nat \cup {Null}
  /\ status' = [status EXCEPT ![s] = st] /\ data' = [data EXCEPT ![s] = d]
  /\ early' = IF Done("offsets") \/ s \notin Ceilings THEN early ELSE early \cup {s}
  /\ st \in {"failed", "unauthorized"} => d = Null
  /\ st = "ok" /\ s # "topics_max_timestamp" => d # Null
  /\ expired => d = Null /\ st \in {"failed", "skipped"}
  /\ UNCHANGED <<log, expired, call, meta, listing, batch>>

LEMMA LogSteps ==
  ASSUME Types, LogOrdered(log), Produce \/ EndTransaction \/ Consume \/ Retention
  PROVE  LogStep
<1>1. log.start \in Nat /\ log.committed \in Nat /\ log.lso \in Nat /\ log.hw \in Nat /\ call.maxOffset \in Nat
      /\ log \in [start : Nat, committed : Nat, lso : Nat, hw : Nat]
  BY CallsAssumption DEF Types
<1>2. UNCHANGED <<expired, call, pc, meta, listing, status, data, batch, early>>
  BY DEF Produce, EndTransaction, Consume, Retention, Moves
<1>3. ASSUME NEW l \in [start : Nat, committed : Nat, lso : Nat, hw : Nat], log' = l, LogOrdered(l),
             log.start <= l.start, log.committed <= l.committed, log.lso <= l.lso, log.hw <= l.hw
      PROVE  LogStep
  BY <1>2, <1>3 DEF LogStep
<1>4. CASE Produce
  <2>1. PICK o \in (log.hw + 1)..call.maxOffset : log' = [log EXCEPT !.hw = o]
    BY <1>4 DEF Produce, Moves
  <2>2. PICK l : l = [log EXCEPT !.hw = o]
    OBVIOUS
  <2>3. o \in Nat /\ log.hw <= o
    BY <1>1, <2>1
  <2>4. l \in [start : Nat, committed : Nat, lso : Nat, hw : Nat]
        /\ l.start = log.start /\ l.committed = log.committed /\ l.lso = log.lso /\ l.hw = o
    BY <1>1, <2>2, <2>3
  <2>5. LogOrdered(l)
    BY <1>1, <2>3, <2>4 DEF LogOrdered
  <2> QED
    BY <1>1, <1>3, <2>1, <2>2, <2>3, <2>4, <2>5
<1>5. CASE EndTransaction
  <2>1. PICK o \in (log.lso + 1)..log.hw : log' = [log EXCEPT !.lso = o]
    BY <1>5 DEF EndTransaction, Moves
  <2>2. PICK l : l = [log EXCEPT !.lso = o]
    OBVIOUS
  <2>3. o \in Nat /\ log.lso <= o /\ o <= log.hw
    BY <1>1, <2>1
  <2>4. l \in [start : Nat, committed : Nat, lso : Nat, hw : Nat]
        /\ l.start = log.start /\ l.committed = log.committed /\ l.lso = o /\ l.hw = log.hw
    BY <1>1, <2>2, <2>3
  <2>5. LogOrdered(l)
    BY <1>1, <2>3, <2>4 DEF LogOrdered
  <2> QED
    BY <1>1, <1>3, <2>1, <2>2, <2>3, <2>4, <2>5
<1>6. CASE Consume
  <2>1. PICK o \in (log.committed + 1)..log.lso : log' = [log EXCEPT !.committed = o]
    BY <1>6 DEF Consume, Moves
  <2>2. PICK l : l = [log EXCEPT !.committed = o]
    OBVIOUS
  <2>3. o \in Nat /\ log.committed <= o /\ o <= log.lso
    BY <1>1, <2>1
  <2>4. l \in [start : Nat, committed : Nat, lso : Nat, hw : Nat]
        /\ l.start = log.start /\ l.committed = o /\ l.lso = log.lso /\ l.hw = log.hw
    BY <1>1, <2>2, <2>3
  <2>5. LogOrdered(l)
    BY <1>1, <2>3, <2>4 DEF LogOrdered
  <2> QED
    BY <1>1, <1>3, <2>1, <2>2, <2>3, <2>4, <2>5
<1>7. CASE Retention
  <2>1. PICK o \in (log.start + 1)..log.hw :
          log' = [log EXCEPT !.start = o, !.lso = IF @ < o THEN o ELSE @]
    BY <1>7 DEF Retention
  <2>2. PICK m : m = IF log.lso < o THEN o ELSE log.lso
    OBVIOUS
  <2>3. PICK l : l = [log EXCEPT !.start = o, !.lso = m]
    OBVIOUS
  <2>4. o \in Nat /\ log.start <= o /\ o <= log.hw
    BY <1>1, <2>1
  <2>5. m \in Nat /\ log.lso <= m /\ o <= m /\ m <= log.hw
    BY <1>1, <2>2, <2>4 DEF LogOrdered
  <2>6. l \in [start : Nat, committed : Nat, lso : Nat, hw : Nat]
        /\ l.start = o /\ l.committed = log.committed /\ l.lso = m /\ l.hw = log.hw
    BY <1>1, <2>3, <2>4, <2>5
  <2>7. LogOrdered(l)
    BY <1>1, <2>4, <2>5, <2>6 DEF LogOrdered
  <2>8. log' = l
    BY <2>1, <2>2, <2>3
  <2> QED
    BY <1>1, <1>3, <2>4, <2>5, <2>6, <2>7, <2>8
<1> QED
  BY <1>4, <1>5, <1>6, <1>7

LEMMA ListedStatus ==
  ASSUME Types
  PROVE  Request("ok", listing.err) \in Statuses
<1>1. listing.err \in Outcomes
  BY DEF Types, Outcomes
<1>2. "ok" \in Statuses
  BY DEF Statuses
<1> QED
  BY <1>1, <1>2, StatusTypes

LEMMA ClusterStep ==
  ASSUME Types, CollectCluster
  PROVE  \E st, d : PhaseStep("cluster", "done", st, d)
<1>1. PICK r \in WholeAnswers :
        /\ status' = [status EXCEPT !["cluster"] = Request("ok", OutcomeOf(r))]
        /\ data' = [data EXCEPT !["cluster"] = DescribeData(r)]
        /\ meta' \in IF Usable(OutcomeOf(r)) THEN {"some", "none"} ELSE {"failed"}
  BY DEF CollectCluster, Fill
<1>2. PICK st : st = Request("ok", OutcomeOf(r))
  OBVIOUS
<1>3. PICK d : d = DescribeData(r)
  OBVIOUS
<1>4. r \in {"ok", "denied", "error"}
  BY DEF WholeAnswers
<1>5. /\ st \in Statuses /\ d \in Nat \cup {Null}
      /\ st \in {"failed", "unauthorized"} => d = Null
  BY <1>2, <1>3, <1>4 DEF Request, OutcomeOf, DescribeData, GotData, Downgrade, StatusRank, Statuses, Null, Shipped
<1>6. Honest("cluster", st, d)
  BY <1>5 DEF Honest
<1>7. meta' \in {"failed", "some", "none"}
  BY <1>1
<1>8. Ready("cluster") /\ pc' = [pc EXCEPT !["cluster"] = "done"]
      /\ UNCHANGED <<log, expired, call, listing, batch, early>>
  BY DEF CollectCluster, Step
<1>9. "done" \in Steps("cluster") \ {"wait"} /\ SectionOf("cluster") = "cluster"
  BY DEF Steps, SectionOf
<1>10. PhaseStep("cluster", "done", st, d)
  BY <1>1, <1>2, <1>3, <1>5, <1>6, <1>7, <1>8, <1>9 DEF PhaseStep
<1> QED
  BY <1>10

LEMMA GroupsStep ==
  ASSUME Types, CollectGroups
  PROVE  \E to, st, d : PhaseStep("groups", to, st, d)
<1>1. SUFFICES ASSUME NEW to \in {"enrich", "done"}, NEW st \in Statuses, NEW d \in Nat \cup {Null},
                      status' = [status EXCEPT !["groups"] = st], data' = [data EXCEPT !["groups"] = d],
                      pc' = [pc EXCEPT !["groups"] = to]
               PROVE  PhaseStep("groups", to, st, d)
  <2>1. CASE ~listing.ids
    <3>1. status' = [status EXCEPT !["groups"] = Request("ok", listing.err)]
          /\ data' = [data EXCEPT !["groups"] = Null] /\ pc' = [pc EXCEPT !["groups"] = "done"]
      BY <2>1 DEF CollectGroups, Fill, Step
    <3> QED
      BY <3>1, <1>1, ListedStatus
  <2>2. CASE listing.ids
    <3>1. PICK r \in DescribeAnswers :
            /\ status' = [status EXCEPT !["groups"] = DescribeStatus(Request("ok", listing.err), r)]
            /\ data' = [data EXCEPT !["groups"] = DescribeData(r)]
            /\ pc' = [pc EXCEPT !["groups"] = IF GotData(r) /\ "consumerGroups" \in call.enabled THEN "enrich" ELSE "done"]
      BY <2>2 DEF CollectGroups, Fill, Step
    <3>2. r \in AllReplies
      BY AnswersAreReplies DEF DescribeAnswers
    <3>3. DescribeStatus(Request("ok", listing.err), r) \in Statuses /\ DescribeData(r) \in Nat \cup {Null}
      BY <3>2, ListedStatus, DescribeTypes
    <3>4. (IF GotData(r) /\ "consumerGroups" \in call.enabled THEN "enrich" ELSE "done") \in {"enrich", "done"}
      OBVIOUS
    <3> QED
      BY <3>1, <3>3, <3>4, <1>1
  <2> QED
    BY <2>1, <2>2
<1>2. Honest("groups", st, d)
  BY DEF Honest
<1>3. Ready("groups") /\ UNCHANGED <<log, expired, call, meta, listing, batch, early>>
  BY DEF CollectGroups
<1>4. to \in Steps("groups") \ {"wait"} /\ SectionOf("groups") = "groups"
  BY <1>1 DEF Steps, SectionOf
<1> QED
  BY <1>1, <1>2, <1>3, <1>4 DEF PhaseStep

LEMMA OffsetsStep ==
  ASSUME Types, CollectOffsets
  PROVE  \E st, d : PhaseStep("offsets", "done", st, d) /\ (d # Null => ~expired)
<1> DEFINE listed == Request("ok", listing.err)
<1>1. listed \in Statuses /\ RecordEntity(listed) \in Statuses /\ RecordEntity(listed) # "ok"
      /\ log.committed \in Nat
  BY ListedStatus, StatusTypes DEF Types
<1>2. Ready("offsets") /\ pc' = [pc EXCEPT !["offsets"] = "done"]
      /\ UNCHANGED <<log, expired, call, meta, listing, batch, early>>
  BY DEF CollectOffsets, Step
<1>3. "done" \in Steps("offsets") \ {"wait"} /\ SectionOf("offsets") = "offsets"
  BY DEF Steps, SectionOf
<1>4. ASSUME NEW st \in Statuses, NEW d \in Nat \cup {Null}, Honest("offsets", st, d),
             status' = [status EXCEPT !["offsets"] = st], data' = [data EXCEPT !["offsets"] = d]
      PROVE  PhaseStep("offsets", "done", st, d)
  BY <1>2, <1>3, <1>4 DEF PhaseStep
<1>5. \/ /\ ~listing.ids
         /\ status' = [status EXCEPT !["offsets"] = listed] /\ data' = [data EXCEPT !["offsets"] = Null]
      \/ /\ ~expired
         /\ status' = [status EXCEPT !["offsets"] = listed] /\ data' = [data EXCEPT !["offsets"] = log.committed]
      \/ /\ status' = [status EXCEPT !["offsets"] = RecordEntity(listed)]
         /\ data' = [data EXCEPT !["offsets"] = Null]
  BY DEF CollectOffsets, Fill
<1> HIDE DEF listed
<1>6. CASE ~listing.ids
           /\ status' = [status EXCEPT !["offsets"] = listed] /\ data' = [data EXCEPT !["offsets"] = Null]
  <2>1. Honest("offsets", listed, Null)
    BY <1>6 DEF Honest
  <2>2. PhaseStep("offsets", "done", listed, Null)
    BY <1>1, <1>4, <1>6, <2>1
  <2> QED
    BY <2>2
<1>7. CASE ~expired
           /\ status' = [status EXCEPT !["offsets"] = listed] /\ data' = [data EXCEPT !["offsets"] = log.committed]
  <2>1. Honest("offsets", listed, log.committed)
    BY <1>1, <1>7 DEF Honest, Null
  <2>2. PhaseStep("offsets", "done", listed, log.committed)
    BY <1>1, <1>4, <1>7, <2>1
  <2> QED
    BY <1>7, <2>2
<1>8. CASE /\ status' = [status EXCEPT !["offsets"] = RecordEntity(listed)]
           /\ data' = [data EXCEPT !["offsets"] = Null]
  <2>1. Honest("offsets", RecordEntity(listed), Null)
    BY <1>1, <1>8 DEF Honest
  <2>2. PhaseStep("offsets", "done", RecordEntity(listed), Null)
    BY <1>1, <1>4, <1>8, <2>1
  <2> QED
    BY <2>2
<1> QED
  BY <1>5, <1>6, <1>7, <1>8

LEMMA WindowStep ==
  ASSUME Types, CollectThroughputWindow
  PROVE  \E st, d : PhaseStep("window", "done", st, d)
<1>1. Ready("window") /\ pc' = [pc EXCEPT !["window"] = "done"]
      /\ UNCHANGED <<log, expired, call, meta, listing, batch, early>>
  BY DEF CollectThroughputWindow, Step
<1>2. "done" \in Steps("window") \ {"wait"} /\ SectionOf("window") = "topics_window"
  BY DEF Steps, SectionOf
<1>3. ASSUME NEW st \in Statuses, NEW d \in Nat \cup {Null}, Honest("window", st, d),
             status' = [status EXCEPT !["topics_window"] = st], data' = [data EXCEPT !["topics_window"] = d]
      PROVE  PhaseStep("window", "done", st, d)
  BY <1>1, <1>2, <1>3 DEF PhaseStep
<1>4. CASE ~RunWindow \/ meta # "some"
  <2>1. status' = [status EXCEPT !["topics_window"] = "skipped"] /\ data' = [data EXCEPT !["topics_window"] = Null]
    BY <1>4 DEF CollectThroughputWindow, Fill
  <2>2. "skipped" \in Statuses /\ Honest("window", "skipped", Null)
    BY DEF Honest, Statuses
  <2> QED
    BY <1>3, <2>1, <2>2
<1>5. CASE ~(~RunWindow \/ meta # "some")
  <2>1. PICK r \in Answers : \E o \in log.start..log.hw :
          /\ status' = [status EXCEPT !["topics_window"] = SampleStatus("ok", r)]
          /\ data' = [data EXCEPT !["topics_window"] = IF HasOurs(r) THEN o ELSE Null]
    BY <1>5 DEF CollectThroughputWindow, Fill
  <2>2. PICK o \in log.start..log.hw :
          /\ status' = [status EXCEPT !["topics_window"] = SampleStatus("ok", r)]
          /\ data' = [data EXCEPT !["topics_window"] = IF HasOurs(r) THEN o ELSE Null]
    BY <2>1
  <2>3. o \in Nat /\ o <= log.hw /\ o # Null
    BY DEF Types, Null
  <2>4. r \in AllReplies
    BY AnswersAreReplies
  <2>5. /\ SampleStatus("ok", r) \in Statuses
        /\ SampleStatus("ok", r) \in {"failed", "unauthorized"} => ~HasOurs(r)
        /\ SampleStatus("ok", r) = "ok" => HasOurs(r)
    BY <2>4, SampleStatusHonest
  <2>6. PICK d : d = IF HasOurs(r) THEN o ELSE Null
    OBVIOUS
  <2>7. d \in Nat \cup {Null} /\ (d # Null => d <= log.hw) /\ (d = Null <=> ~HasOurs(r))
    BY <2>3, <2>6
  <2>8. Honest("window", SampleStatus("ok", r), d)
    BY <2>5, <2>7 DEF Honest
  <2> QED
    BY <1>3, <2>2, <2>5, <2>6, <2>7, <2>8
<1> QED
  BY <1>4, <1>5

LEMMA DescribeStep ==
  ASSUME Types, NEW g \in {"logDirs", "topicConfigs", "brokerConfigs", "reassign", "share"},
         NEW answers \in SUBSET AllReplies, g = "reassign" => answers \subseteq {"ok", "denied", "error"},
         NEW runs, Describe(g, SectionOf(g), answers, runs)
  PROVE  \E st, d : PhaseStep(g, "done", st, d)
<1>1. Ready(g) /\ pc' = [pc EXCEPT ![g] = "done"]
      /\ UNCHANGED <<log, expired, call, meta, listing, batch, early>>
  BY DEF Describe, On, Step
<1>2. "done" \in Steps(g) \ {"wait"} /\ g \notin {"cluster", "offsets", "window", "epoch"}
  BY DEF Steps
<1>3. ASSUME NEW st \in Statuses, NEW d \in Nat \cup {Null}, Honest(g, st, d),
             status' = [status EXCEPT ![SectionOf(g)] = st], data' = [data EXCEPT ![SectionOf(g)] = d]
      PROVE  PhaseStep(g, "done", st, d)
  BY <1>1, <1>2, <1>3 DEF PhaseStep
<1>4. CASE ~runs
  <2>1. status' = [status EXCEPT ![SectionOf(g)] = "skipped"] /\ data' = [data EXCEPT ![SectionOf(g)] = Null]
    BY <1>4 DEF Describe, Fill
  <2>2. "skipped" \in Statuses /\ Honest(g, "skipped", Null)
    BY <1>2 DEF Honest, Statuses
  <2> QED
    BY <1>3, <2>1, <2>2
<1>5. CASE runs
  <2>1. PICK r \in answers :
          /\ status' = [status EXCEPT ![SectionOf(g)] = DescribeStatus("ok", r)]
          /\ data' = [data EXCEPT ![SectionOf(g)] = DescribeData(r)]
    BY <1>5 DEF Describe, Fill
  <2>2. "ok" \in Statuses /\ r \in AllReplies
    BY DEF Statuses
  <2>3. DescribeStatus("ok", r) \in Statuses /\ DescribeData(r) \in Nat \cup {Null}
    BY <2>2, DescribeTypes
  <2>4. r \in {"ok", "denied", "error"} /\ DescribeStatus("ok", r) \in {"failed", "unauthorized"} => DescribeData(r) = Null
    BY DEF DescribeStatus, DescribeData, Request, OutcomeOf, GotData, Downgrade, StatusRank
  <2>5. Honest(g, DescribeStatus("ok", r), DescribeData(r))
    BY <1>2, <2>1, <2>4 DEF Honest
  <2> QED
    BY <1>3, <2>1, <2>3, <2>5
<1> QED
  BY <1>4, <1>5

LEMMA RoundNames ==
  /\ \A k \in DOMAIN Rounds : Rounds[k] \in RoundSteps
  /\ \A k \in DOMAIN Rounds : k # 1 => Rounds[k - 1] \in RoundSteps
<1>1. DOMAIN Rounds = 1..4
  BY DEF Rounds
<1>2. Rounds[1] = "last" /\ Rounds[2] = "two" /\ Rounds[3] = "three" /\ Rounds[4] = "four"
  BY DEF Rounds
<1>3. \A k \in 1..4 : k = 1 \/ k = 2 \/ k = 3 \/ k = 4
  OBVIOUS
<1>4. \A k \in 1..4 : Rounds[k] \in RoundSteps
  BY <1>2, <1>3 DEF RoundSteps
<1>5. \A k \in 1..4 : k # 1 => k - 1 \in 1..4
  OBVIOUS
<1> QED
  BY <1>1, <1>4, <1>5

LEMMA EpochStep ==
  ASSUME Types, CollectEpochProbes
  PROVE  \E to, st, d : PhaseStep("epoch", to, st, d)
<1>1. Ready("epoch") /\ UNCHANGED <<log, expired, call, meta, listing, batch, early>>
  BY DEF CollectEpochProbes, On
<1>2. SectionOf("epoch") = "epoch_probes" /\ Steps("epoch") = RoundSteps \cup {"wait", "done"}
  BY DEF Steps, SectionOf
<1>3. ASSUME NEW to \in Steps("epoch") \ {"wait"}, NEW st \in Statuses, to = "done" => st # "ok",
             pc' = [pc EXCEPT !["epoch"] = to],
             status' = [status EXCEPT !["epoch_probes"] = st], data' = [data EXCEPT !["epoch_probes"] = Null]
      PROVE  PhaseStep("epoch", to, st, Null)
  <2>1. Honest("epoch", st, Null)
    BY DEF Honest
  <2> QED
    BY <1>1, <1>2, <1>3, <2>1 DEF PhaseStep
<1>4. CASE Fill("epoch_probes", "skipped", Null) /\ Step("epoch", "done")
  <2>1. "skipped" \in Statuses /\ "done" \in Steps("epoch") \ {"wait"}
    BY <1>2 DEF Statuses
  <2>2. PhaseStep("epoch", "done", "skipped", Null)
    BY <1>3, <1>4, <2>1 DEF Fill, Step
  <2> QED
    BY <2>2
<1>5. CASE Fill("epoch_probes", "ok", Null) /\ \E k \in DOMAIN Rounds : Step("epoch", Rounds[k])
  <2>1. PICK k \in DOMAIN Rounds : Step("epoch", Rounds[k])
    BY <1>5
  <2>2. PICK to : to = Rounds[k]
    OBVIOUS
  <2>3. to \in Steps("epoch") \ {"wait"} /\ to # "done"
    BY <1>2, <2>2, RoundNames DEF RoundSteps
  <2>4. "ok" \in Statuses
    BY DEF Statuses
  <2>5. PhaseStep("epoch", to, "ok", Null)
    BY <1>3, <1>5, <2>1, <2>2, <2>3, <2>4 DEF Fill, Step
  <2> QED
    BY <2>5
<1> QED
  BY <1>4, <1>5 DEF CollectEpochProbes

LEMMA ShareStep ==
  ASSUME Types, CollectShareGroups
  PROVE  \E to, st, d : PhaseStep("share", to, st, d)
<1>1. CASE Describe("share", "share_groups", DescribeAnswers, FALSE)
  <2>1. SectionOf("share") = "share_groups" /\ DescribeAnswers \in SUBSET AllReplies
    BY AnswersAreReplies DEF SectionOf, DescribeAnswers
  <2>2. Describe("share", SectionOf("share"), DescribeAnswers, FALSE)
    BY <1>1, <2>1
  <2>3. \E st, d : PhaseStep("share", "done", st, d)
    BY <2>1, <2>2, DescribeStep
  <2> QED
    BY <2>3
<1>2. CASE ~Describe("share", "share_groups", DescribeAnswers, FALSE)
  <2>1. PICK r \in DescribeAnswers :
          /\ status' = [status EXCEPT !["share_groups"] = DescribeStatus("ok", r)]
          /\ data' = [data EXCEPT !["share_groups"] = DescribeData(r)]
          /\ pc' = [pc EXCEPT !["share"] = IF GotData(r) THEN "shareOffsets" ELSE "done"]
    BY <1>2 DEF CollectShareGroups, Fill, Step
  <2>2. Ready("share") /\ UNCHANGED <<log, expired, call, meta, listing, batch, early>>
    BY <1>2 DEF CollectShareGroups, On
  <2>3. "ok" \in Statuses /\ r \in AllReplies
    BY AnswersAreReplies DEF Statuses, DescribeAnswers
  <2>4. DescribeStatus("ok", r) \in Statuses /\ DescribeData(r) \in Nat \cup {Null}
    BY <2>3, DescribeTypes
  <2>5. PICK to : to = IF GotData(r) THEN "shareOffsets" ELSE "done"
    OBVIOUS
  <2>6. to \in Steps("share") \ {"wait"} /\ SectionOf("share") = "share_groups"
    BY <2>5 DEF Steps, SectionOf
  <2>7. Honest("share", DescribeStatus("ok", r), DescribeData(r))
    BY DEF Honest
  <2>8. PhaseStep("share", to, DescribeStatus("ok", r), DescribeData(r))
    BY <2>1, <2>2, <2>4, <2>5, <2>6, <2>7 DEF PhaseStep
  <2> QED
    BY <2>8
<1> QED
  BY <1>1, <1>2

LEMMA SecondSteps ==
  ASSUME Types, Filled
  PROVE  /\ EnrichConsumerGroups => \E to, st, d : SecondStep("groups", to, st, d)
         /\ DescribeShareGroupOffsets => \E to, st, d : SecondStep("share", to, st, d)
         /\ AskRound => \E to, st, d : SecondStep("epoch", to, st, d)
<1>1. ASSUME NEW g \in {"groups", "share"}, pc[g] \notin {"wait", "done"}, pc' = [pc EXCEPT ![g] = "done"],
             NEW st \in Statuses, status' = [status EXCEPT ![SectionOf(g)] = st],
             UNCHANGED <<log, expired, call, meta, listing, data, batch, early>>
      PROVE  \E to, d : SecondStep(g, to, st, d)
  <2>1. SectionOf(g) \in SectionNames /\ "done" \in Steps(g) \ {"wait"} /\ g # "epoch"
    BY DEF SectionOf, SectionNames, Steps
  <2>2. data \in [SectionNames -> Nat \cup {Null}]
    BY DEF Types
  <2>3. PICK d : d = data[SectionOf(g)]
    OBVIOUS
  <2>4. d \in Nat \cup {Null} /\ data' = [data EXCEPT ![SectionOf(g)] = d]
    BY <1>1, <2>1, <2>2, <2>3
  <2>5. SecondStep(g, "done", st, d)
    BY <1>1, <2>1, <2>4 DEF SecondStep
  <2> QED
    BY <2>5
<1>2. ASSUME EnrichConsumerGroups
      PROVE  \E to, st, d : SecondStep("groups", to, st, d)
  <2>1. PICK r \in Answers :
          status' = [status EXCEPT !["groups"] = RequestPartial(status["groups"], OutcomeOf(r), GotData(r))]
    BY <1>2 DEF EnrichConsumerGroups
  <2>2. pc["groups"] = "enrich" /\ pc' = [pc EXCEPT !["groups"] = "done"] /\ SectionOf("groups") = "groups"
        /\ UNCHANGED <<log, expired, call, meta, listing, data, batch, early>>
    BY <1>2 DEF EnrichConsumerGroups, Step, SectionOf
  <2>3. "groups" \in OneSection
    BY DEF OneSection, Goroutines, WaitGroup
  <2>4. status["groups"] \in Statuses
    BY <2>2, <2>3 DEF Filled
  <2>5. PICK st : st = RequestPartial(status["groups"], OutcomeOf(r), GotData(r))
    OBVIOUS
  <2>6. st \in Statuses
    BY <2>4, <2>5, AnswersAreReplies, OutcomeTypes, StatusTypes
  <2>7. \E to, d : SecondStep("groups", to, st, d)
    BY <1>1, <2>1, <2>2, <2>5, <2>6
  <2> QED
    BY <2>7
<1>3. ASSUME DescribeShareGroupOffsets
      PROVE  \E to, st, d : SecondStep("share", to, st, d)
  <2>1. PICK r \in DescribeAnswers :
          status' = [status EXCEPT !["share_groups"] = RequestPartial(status["share_groups"], OutcomeOf(r), TRUE)]
    BY <1>3 DEF DescribeShareGroupOffsets
  <2>2. pc["share"] = "shareOffsets" /\ pc' = [pc EXCEPT !["share"] = "done"] /\ SectionOf("share") = "share_groups"
        /\ UNCHANGED <<log, expired, call, meta, listing, data, batch, early>>
    BY <1>3 DEF DescribeShareGroupOffsets, Step, SectionOf
  <2>3. "share" \in OneSection
    BY DEF OneSection, Goroutines, WaitGroup
  <2>4. status["share_groups"] \in Statuses
    BY <2>2, <2>3 DEF Filled
  <2>5. r \in AllReplies
    BY AnswersAreReplies DEF DescribeAnswers
  <2>6. PICK st : st = RequestPartial(status["share_groups"], OutcomeOf(r), TRUE)
    OBVIOUS
  <2>7. st \in Statuses
    BY <2>4, <2>5, <2>6, OutcomeTypes, StatusTypes
  <2>8. \E to, d : SecondStep("share", to, st, d)
    BY <1>1, <2>1, <2>2, <2>6, <2>7
  <2> QED
    BY <2>8
<1>4. ASSUME AskRound
      PROVE  \E to, st, d : SecondStep("epoch", to, st, d)
  <2>1. PICK k \in DOMAIN Rounds :
          pc["epoch"] = Rounds[k] /\ pc' = [pc EXCEPT !["epoch"] = IF k = 1 THEN "done" ELSE Rounds[k - 1]]
    BY <1>4 DEF AskRound, Step
  <2>2. PICK r \in Answers :
          /\ status' = [status EXCEPT !["epoch_probes"] = SampleStatus(status["epoch_probes"], r)]
          /\ data' = [data EXCEPT !["epoch_probes"] = IF GotData(r) THEN Shipped ELSE data["epoch_probes"]]
    BY <1>4 DEF AskRound, Fill
  <2>3. UNCHANGED <<log, expired, call, meta, listing, batch, early>>
    BY <1>4 DEF AskRound
  <2>4. PICK to : to = IF k = 1 THEN "done" ELSE Rounds[k - 1]
    OBVIOUS
  <2>5. /\ pc["epoch"] \notin {"wait", "done"} /\ to \in Steps("epoch") \ {"wait"}
        /\ SectionOf("epoch") = "epoch_probes" /\ "epoch_probes" \in SectionNames /\ "epoch" \in OneSection
    BY <2>1, <2>4, RoundNames DEF RoundSteps, Steps, SectionOf, SectionNames, OneSection, Goroutines, WaitGroup
  <2>6. status["epoch_probes"] \in Statuses
    BY <2>5 DEF Filled
  <2>7. r \in AllReplies
    BY AnswersAreReplies
  <2>8. PICK st : st = SampleStatus(status["epoch_probes"], r)
    OBVIOUS
  <2>9. st \in Statuses /\ (st = "ok" => GotData(r))
    BY <2>6, <2>7, <2>8, LaterStatus
  <2>10. PICK d : d = IF GotData(r) THEN Shipped ELSE data["epoch_probes"]
    OBVIOUS
  <2>11. d \in Nat \cup {Null} /\ (st = "ok" => d # Null)
    BY <2>5, <2>9, <2>10 DEF Types, Shipped, Null
  <2>12. SecondStep("epoch", to, st, d)
    BY <2>1, <2>2, <2>3, <2>4, <2>5, <2>8, <2>9, <2>10, <2>11 DEF SecondStep
  <2> QED
    BY <2>12
<1> QED
  BY <1>2, <1>3, <1>4

LEMMA SampleSteps ==
  ASSUME Types, NEW s \in TopicSections, NEW runs, NEW o \in Nat, NEW from, NEW to,
         pc["topics"] = from, SampleOffsets(s, runs, o, to)
  PROVE  \E st, d : SampleStep(s, from, to, st, d) /\ d \in {o, Null}
<1>1. /\ pc' = [pc EXCEPT !["topics"] = to]
      /\ early' = IF Done("offsets") \/ s \notin Ceilings THEN early ELSE early \cup {s}
      /\ UNCHANGED <<log, expired, call, meta, listing, batch>>
  BY DEF SampleOffsets, Step
<1>2. CASE ~runs
  <2>1. status' = [status EXCEPT ![s] = "skipped"] /\ data' = [data EXCEPT ![s] = Null]
    BY <1>2 DEF SampleOffsets, Fill
  <2>2. SampleStep(s, from, to, "skipped", Null)
    BY <1>1, <2>1 DEF SampleStep, Statuses
  <2> QED
    BY <2>2
<1>3. CASE runs
  <2>1. PICK r \in Answers : \E st \in SampleStatuses(s, r) :
          status' = [status EXCEPT ![s] = st] /\ data' = [data EXCEPT ![s] = IF HasOurs(r) THEN o ELSE Null]
    BY <1>3 DEF SampleOffsets, Fill
  <2>2. PICK st \in SampleStatuses(s, r) :
          status' = [status EXCEPT ![s] = st] /\ data' = [data EXCEPT ![s] = IF HasOurs(r) THEN o ELSE Null]
    BY <2>1
  <2>3. r \in AllReplies
    BY AnswersAreReplies
  <2>4. \/ st = SampleStatus("ok", r)
        \/ s = "topics_max_timestamp" /\ st = RequestPartial("ok", OutcomeOf(r), GotData(r))
    BY DEF SampleStatuses
  <2>5. /\ st \in Statuses
        /\ st \in {"failed", "unauthorized"} => ~HasOurs(r)
        /\ st = "ok" /\ s # "topics_max_timestamp" => HasOurs(r)
        /\ r = "error" => st = "failed" /\ ~HasOurs(r)
    <3>1. r = "error" => ~HasOurs(r)
      BY DEF HasOurs
    <3> QED
      BY <2>3, <2>4, <3>1, SampleStatusHonest, PartialStatusHonest
  <2>6. PICK d : d = IF HasOurs(r) THEN o ELSE Null
    OBVIOUS
  <2>7. d \in Nat \cup {Null} /\ d \in {o, Null} /\ (d = Null <=> ~HasOurs(r))
    BY <2>6 DEF Null
  <2>8. expired => r = "error"
    BY DEF Answers
  <2>9. SampleStep(s, from, to, st, d)
    BY <1>1, <2>2, <2>5, <2>6, <2>7, <2>8 DEF SampleStep
  <2> QED
    BY <2>7, <2>9
<1> QED
  BY <1>2, <1>3

\* One of the offset calls, which samples o if it is answered.
Sampled(s, from, to, o) == \E st, d : SampleStep(s, from, to, st, d) /\ d \in {o, Null}

TopicCalls ==
  \/ Ready("topics") /\ meta = "some" /\ Sampled("topics", "wait", "await", log.start)
  \/ Sampled("topics_lso", "lso", "end", log.lso)
  \/ Sampled("topics_end", "end", "maxTS", log.hw)
  \/ Sampled("topics_max_timestamp", "maxTS", "local", Shipped)
  \/ Sampled("topics_local_start", "local", "remote", Shipped)
  \/ Sampled("topics_remote_end", "remote", "done", Shipped)

Phases ==
  \E g \in OneSection : \E to, st, d : PhaseStep(g, to, st, d) /\ (g = "offsets" /\ d # Null => ~expired)

Seconds == \E g \in {"groups", "share", "epoch"} : \E to, st, d : SecondStep(g, to, st, d)

LEMMA TopicCallKinds ==
  ASSUME Types, Topics
  PROVE  SkipTopics \/ AwaitFloors \/ TopicCalls
<1>1. log.start \in Nat /\ log.lso \in Nat /\ log.hw \in Nat /\ Shipped \in Nat
  BY DEF Types, Shipped
<1>2. TopicSections = {"topics", "topics_lso", "topics_end", "topics_max_timestamp", "topics_local_start",
                       "topics_remote_end"}
  BY DEF TopicSections, LaterTopicSections
<1>3. ListStartOffsets => Ready("topics") /\ meta = "some" /\ Sampled("topics", "wait", "await", log.start)
  BY <1>1, <1>2, SampleSteps DEF ListStartOffsets, Sampled, Ready
<1>4. ListCommittedOffsets => Sampled("topics_lso", "lso", "end", log.lso)
  BY <1>1, <1>2, SampleSteps DEF ListCommittedOffsets, Sampled
<1>5. ListEndOffsets => Sampled("topics_end", "end", "maxTS", log.hw)
  BY <1>1, <1>2, SampleSteps DEF ListEndOffsets, Sampled
<1>6. ListMaxTimestampOffsets => Sampled("topics_max_timestamp", "maxTS", "local", Shipped)
  BY <1>1, <1>2, SampleSteps DEF ListMaxTimestampOffsets, Sampled
<1>7. ListLocalLogStartOffsets => Sampled("topics_local_start", "local", "remote", Shipped)
  BY <1>1, <1>2, SampleSteps DEF ListLocalLogStartOffsets, Sampled
<1>8. ListLatestRemoteOffsets => Sampled("topics_remote_end", "remote", "done", Shipped)
  BY <1>1, <1>2, SampleSteps DEF ListLatestRemoteOffsets, Sampled
<1> QED
  BY <1>3, <1>4, <1>5, <1>6, <1>7, <1>8 DEF Topics, TopicCalls

LEMMA PhaseKinds ==
  ASSUME Types,
         \/ CollectCluster \/ CollectGroups \/ CollectOffsets \/ CollectThroughputWindow \/ CollectLogDirs
         \/ CollectTopicConfigs \/ CollectBrokerConfigs \/ CollectReassignments \/ CollectEpochProbes
         \/ CollectShareGroups
  PROVE  Phases
<1>1. {"cluster", "groups", "offsets", "window", "logDirs", "topicConfigs", "brokerConfigs", "reassign", "epoch",
       "share"} \subseteq OneSection
  BY DEF OneSection, Goroutines, WaitGroup
<1>2. /\ SectionOf("logDirs") = "log_dirs" /\ SectionOf("topicConfigs") = "topic_configs"
      /\ SectionOf("brokerConfigs") = "broker_configs" /\ SectionOf("reassign") = "reassignments"
  BY DEF SectionOf
<1>3. /\ DescribeAnswers \in SUBSET AllReplies /\ WholeAnswers \in SUBSET AllReplies
      /\ WholeAnswers \subseteq {"ok", "denied", "error"}
  BY AnswersAreReplies DEF DescribeAnswers, WholeAnswers
<1>4. ASSUME NEW g \in OneSection, g # "offsets", NEW to, \E st, d : PhaseStep(g, to, st, d)
      PROVE  Phases
  BY <1>4 DEF Phases
<1>5. CASE CollectCluster
  BY <1>1, <1>4, <1>5, ClusterStep
<1>6. CASE CollectGroups
  BY <1>1, <1>4, <1>6, GroupsStep
<1>7. CASE CollectOffsets
  BY <1>1, <1>7, OffsetsStep DEF Phases
<1>8. CASE CollectThroughputWindow
  BY <1>1, <1>4, <1>8, WindowStep
<1>9. CASE CollectLogDirs
  <2>1. \E st, d : PhaseStep("logDirs", "done", st, d)
    BY <1>2, <1>3, <1>9, DescribeStep DEF CollectLogDirs
  <2> QED
    BY <1>1, <1>4, <2>1
<1>10. CASE CollectTopicConfigs
  <2>1. \E st, d : PhaseStep("topicConfigs", "done", st, d)
    BY <1>2, <1>3, <1>10, DescribeStep DEF CollectTopicConfigs
  <2> QED
    BY <1>1, <1>4, <2>1
<1>11. CASE CollectBrokerConfigs
  <2>1. \E st, d : PhaseStep("brokerConfigs", "done", st, d)
    BY <1>2, <1>3, <1>11, DescribeStep DEF CollectBrokerConfigs
  <2> QED
    BY <1>1, <1>4, <2>1
<1>12. CASE CollectReassignments
  <2>1. PICK runs : Describe("reassign", "reassignments", WholeAnswers, runs)
    BY <1>12 DEF CollectReassignments
  <2>2. \E st, d : PhaseStep("reassign", "done", st, d)
    BY <1>2, <1>3, <2>1, DescribeStep
  <2> QED
    BY <1>1, <1>4, <2>2
<1>13. CASE CollectEpochProbes
  BY <1>1, <1>4, <1>13, EpochStep
<1>14. CASE CollectShareGroups
  BY <1>1, <1>4, <1>14, ShareStep
<1> QED
  BY <1>5, <1>6, <1>7, <1>8, <1>9, <1>10, <1>11, <1>12, <1>13, <1>14

LEMMA StepKinds ==
  ASSUME Types, LogOrdered(log), Filled, Next
  PROVE  \/ LogStep \/ Timeout \/ Phases \/ Seconds \/ ListGroups
         \/ SkipTopics \/ AwaitFloors \/ TopicCalls \/ SkipOff \/ BuildBatch
<1>1. CASE Produce \/ EndTransaction \/ Consume \/ Retention
  BY <1>1, LogSteps
<1>2. CASE Topics
  BY <1>2, TopicCallKinds
<1>3. CASE \/ CollectCluster \/ CollectGroups \/ CollectOffsets \/ CollectThroughputWindow \/ CollectLogDirs
           \/ CollectTopicConfigs \/ CollectBrokerConfigs \/ CollectReassignments \/ CollectEpochProbes
           \/ CollectShareGroups
  BY <1>3, PhaseKinds
<1>4. CASE EnrichConsumerGroups \/ DescribeShareGroupOffsets \/ AskRound
  BY <1>4, SecondSteps DEF Seconds
<1> QED
  BY <1>1, <1>2, <1>3, <1>4 DEF Next, Collect
-----------------------------------------------------------------------------
(* No channel closes early and no section is left out *)

LEMMA SectionsApart ==
  /\ \A g \in OneSection : SectionOf(g) \in SectionNames \ (TopicSections \cup {"broker_rpc"})
  /\ \A g, h \in OneSection : SectionOf(g) = SectionOf(h) => g = h
<1>1. OneSection = {"cluster", "groups", "offsets", "window", "logDirs", "share", "topicConfigs", "brokerConfigs",
                    "reassign", "epoch"}
  BY DEF OneSection, Goroutines, WaitGroup
<1>2. \A g \in OneSection : SectionOf(g) \in SectionNames \ (TopicSections \cup {"broker_rpc"})
  BY <1>1 DEF SectionOf, SectionNames, TopicSections, LaterTopicSections
<1>3. \A g, h \in OneSection : SectionOf(g) = SectionOf(h) => g = h
  BY <1>1 DEF SectionOf
<1> QED
  BY <1>2, <1>3

LEMMA StatusesPresent == "absent" \notin Statuses /\ "ok" \in Statuses /\ "skipped" \in Statuses
BY DEF Statuses

Base == Types /\ LogOrdered(log) /\ Waited /\ Filled

\* How the goroutines advance: one starts when the channels it waits for are
\* closed, none goes back, and whoever leaves a step has filled its section.
Advances ==
  /\ \A g \in Goroutines : Done(g) => pc'[g] = "done"
  /\ \A g \in Goroutines : pc[g] # "wait" => pc'[g] # "wait"
  /\ \A g \in Goroutines : pc[g] = "wait" /\ pc'[g] # "wait" => Ready(g)
  /\ \A s \in SectionNames : status[s] \in Statuses => status'[s] \in Statuses
  /\ \A g \in OneSection : pc[g] = "wait" /\ pc'[g] # "wait" => status'[SectionOf(g)] \in Statuses
  /\ \A s \in FilledBy(pc'["topics"]) : s \in FilledBy(pc["topics"]) \/ status'[s] \in Statuses
  /\ batch' => batch \/ (status'["broker_rpc"] \in Statuses /\ \A g \in WaitGroup : Done(g))

LEMMA TypesUnfolded ==
  ASSUME Types
  PROVE  /\ pc \in [Goroutines -> UNION {Steps(g) : g \in Goroutines}]
         /\ \A g \in Goroutines : pc[g] \in Steps(g)
         /\ status \in [SectionNames -> Statuses \cup {"absent"}]
         /\ data \in [SectionNames -> Nat \cup {Null}]
BY DEF Types

\* A goroutine that moves keeps the type of pc.
LEMMA PcTyped ==
  ASSUME Types, NEW g \in Goroutines, NEW to \in Steps(g), pc' = [pc EXCEPT ![g] = to]
  PROVE  /\ pc' \in [Goroutines -> UNION {Steps(h) : h \in Goroutines}]
         /\ \A h \in Goroutines : pc'[h] \in Steps(h)
         /\ pc'[g] = to /\ \A h \in Goroutines : h # g => pc'[h] = pc[h]
<1>1. to \in UNION {Steps(h) : h \in Goroutines}
  OBVIOUS
<1>2. pc \in [Goroutines -> UNION {Steps(h) : h \in Goroutines}] /\ \A h \in Goroutines : pc[h] \in Steps(h)
  BY DEF Types
<1>3. pc' \in [Goroutines -> UNION {Steps(h) : h \in Goroutines}]
  BY <1>1, <1>2
<1>4. pc'[g] = to /\ \A h \in Goroutines : h # g => pc'[h] = pc[h]
  BY <1>2
<1> QED
  BY <1>2, <1>3, <1>4

LEMMA FillTyped ==
  ASSUME Types, NEW s \in SectionNames, NEW st \in Statuses, status' = [status EXCEPT ![s] = st]
  PROVE  /\ status' \in [SectionNames -> Statuses \cup {"absent"}]
         /\ status'[s] = st /\ \A t \in SectionNames : t # s => status'[t] = status[t]
BY DEF Types

LEMMA DataTyped ==
  ASSUME Types, NEW s \in SectionNames, NEW d \in Nat \cup {Null}, data' = [data EXCEPT ![s] = d]
  PROVE  /\ data' \in [SectionNames -> Nat \cup {Null}]
         /\ data'[s] = d /\ \A t \in SectionNames : t # s => data'[t] = data[t]
BY DEF Types

LEMMA QuietAdvances ==
  ASSUME Base, UNCHANGED <<pc, status, batch>>
  PROVE  Advances
BY DEF Advances, Done

LEMMA GoroutineNames ==
  /\ OneSection \subseteq Goroutines /\ {"topics", "list"} \subseteq Goroutines /\ {"groups", "share", "epoch"} \subseteq OneSection
  /\ "topics" \notin OneSection /\ "list" \notin OneSection /\ Goroutines = OneSection \cup {"topics", "list"}
  /\ "broker_rpc" \in SectionNames /\ TopicSections \subseteq SectionNames
BY DEF OneSection, Goroutines, WaitGroup, SectionNames, TopicSections, LaterTopicSections

LEMMA PhaseAdvances ==
  ASSUME Base, NEW g \in OneSection, NEW to, NEW st, NEW d, PhaseStep(g, to, st, d)
  PROVE  Types' /\ Advances
<1>1. /\ Ready(g) /\ pc[g] = "wait" /\ to \in Steps(g) /\ to # "wait" /\ g \in Goroutines /\ g # "topics"
      /\ st \in Statuses /\ d \in Nat \cup {Null} /\ pc' = [pc EXCEPT ![g] = to]
      /\ status' = [status EXCEPT ![SectionOf(g)] = st] /\ data' = [data EXCEPT ![SectionOf(g)] = d]
      /\ SectionOf(g) \in SectionNames
  BY SectionsApart, GoroutineNames DEF PhaseStep, Ready
<1>2. log' = log /\ call' = call /\ listing' = listing /\ batch' = batch /\ (meta' = meta \/ meta' \in {"failed", "some", "none"})
  BY DEF PhaseStep
<1>3. Types
  BY DEF Base
<1>4. /\ pc' \in [Goroutines -> UNION {Steps(h) : h \in Goroutines}]
      /\ \A h \in Goroutines : pc'[h] \in Steps(h)
      /\ pc'[g] = to /\ \A h \in Goroutines : h # g => pc'[h] = pc[h]
  BY <1>1, <1>3, PcTyped
<1>5. /\ status' \in [SectionNames -> Statuses \cup {"absent"}]
      /\ status'[SectionOf(g)] = st /\ \A t \in SectionNames : t # SectionOf(g) => status'[t] = status[t]
  BY <1>1, <1>3, FillTyped
<1>6. data' \in [SectionNames -> Nat \cup {Null}]
  BY <1>1, <1>3, DataTyped
<1>7. Types'
  BY <1>2, <1>3, <1>4, <1>5, <1>6 DEF Types
<1>8. pc'["topics"] = pc["topics"]
  BY <1>1, <1>4, GoroutineNames
<1>9. Advances
  BY <1>1, <1>2, <1>4, <1>5, <1>8, GoroutineNames DEF Advances, Done
<1> QED
  BY <1>7, <1>9

LEMMA SecondAdvances ==
  ASSUME Base, NEW g \in {"groups", "share", "epoch"}, NEW to, NEW st, NEW d, SecondStep(g, to, st, d)
  PROVE  Types' /\ Advances
<1>1. /\ pc[g] \notin {"wait", "done"} /\ to \in Steps(g) /\ to # "wait" /\ g \in Goroutines /\ g # "topics"
      /\ g \in OneSection /\ st \in Statuses /\ d \in Nat \cup {Null} /\ pc' = [pc EXCEPT ![g] = to]
      /\ status' = [status EXCEPT ![SectionOf(g)] = st] /\ data' = [data EXCEPT ![SectionOf(g)] = d]
      /\ SectionOf(g) \in SectionNames
  BY SectionsApart, GoroutineNames DEF SecondStep
<1>2. UNCHANGED <<log, call, meta, listing, batch>>
  BY DEF SecondStep
<1>3. Types
  BY DEF Base
<1>4. /\ pc' \in [Goroutines -> UNION {Steps(h) : h \in Goroutines}]
      /\ \A h \in Goroutines : pc'[h] \in Steps(h)
      /\ pc'[g] = to /\ \A h \in Goroutines : h # g => pc'[h] = pc[h]
  BY <1>1, <1>3, PcTyped
<1>5. /\ status' \in [SectionNames -> Statuses \cup {"absent"}]
      /\ status'[SectionOf(g)] = st /\ \A t \in SectionNames : t # SectionOf(g) => status'[t] = status[t]
  BY <1>1, <1>3, FillTyped
<1>6. data' \in [SectionNames -> Nat \cup {Null}]
  BY <1>1, <1>3, DataTyped
<1>7. Types'
  BY <1>2, <1>3, <1>4, <1>5, <1>6 DEF Types
<1>8. pc'["topics"] = pc["topics"]
  BY <1>1, <1>4, GoroutineNames
<1>9. Advances
  BY <1>1, <1>2, <1>4, <1>5, <1>8, GoroutineNames DEF Advances, Done
<1> QED
  BY <1>7, <1>9

\* A section collectTopics leaves to the step after it.
Call(s, from, to) ==
  \/ s = "topics" /\ from = "wait" /\ to = "await"
  \/ s = "topics_lso" /\ from = "lso" /\ to = "end"
  \/ s = "topics_end" /\ from = "end" /\ to = "maxTS"
  \/ s = "topics_max_timestamp" /\ from = "maxTS" /\ to = "local"
  \/ s = "topics_local_start" /\ from = "local" /\ to = "remote"
  \/ s = "topics_remote_end" /\ from = "remote" /\ to = "done"

LEMMA CallFills ==
  ASSUME NEW s, NEW from, NEW to, Call(s, from, to)
  PROVE  /\ to \in Steps("topics") /\ to # "wait" /\ from # "done" /\ s \in TopicSections
         /\ \A t \in FilledBy(to) : t = s \/ t \in FilledBy(from)
<1> USE DEF Call, Steps, TopicSteps, FilledBy, TopicSections, LaterTopicSections
<1>1. to \in Steps("topics") /\ to # "wait" /\ from # "done" /\ s \in TopicSections
  OBVIOUS
<1>2. \A t \in FilledBy(to) : t = s \/ t \in FilledBy(from)
  OBVIOUS
<1> QED
  BY <1>1, <1>2

LEMMA SampleAdvances ==
  ASSUME Base, NEW s, NEW from, NEW to, NEW st, NEW d, Call(s, from, to), SampleStep(s, from, to, st, d),
         from = "wait" => Ready("topics")
  PROVE  Types' /\ Advances
<1>1. /\ pc["topics"] = from /\ pc' = [pc EXCEPT !["topics"] = to]
      /\ st \in Statuses /\ d \in Nat \cup {Null}
      /\ status' = [status EXCEPT ![s] = st] /\ data' = [data EXCEPT ![s] = d]
      /\ UNCHANGED <<log, call, meta, listing, batch>>
  BY DEF SampleStep
<1>2. /\ to \in Steps("topics") /\ to # "wait" /\ from # "done" /\ s \in SectionNames
      /\ \A t \in FilledBy(to) : t = s \/ t \in FilledBy(from)
  BY CallFills, GoroutineNames
<1>3. Types
  BY DEF Base
<1>4. /\ pc' \in [Goroutines -> UNION {Steps(h) : h \in Goroutines}]
      /\ \A h \in Goroutines : pc'[h] \in Steps(h)
      /\ pc'["topics"] = to /\ \A h \in Goroutines : h # "topics" => pc'[h] = pc[h]
  BY <1>1, <1>2, <1>3, PcTyped, GoroutineNames
<1>5. /\ status' \in [SectionNames -> Statuses \cup {"absent"}]
      /\ status'[s] = st /\ \A t \in SectionNames : t # s => status'[t] = status[t]
  BY <1>1, <1>2, <1>3, FillTyped
<1>6. data' \in [SectionNames -> Nat \cup {Null}]
  BY <1>1, <1>2, <1>3, DataTyped
<1>7. Types'
  BY <1>1, <1>3, <1>4, <1>5, <1>6 DEF Types
<1>8. Advances
  BY <1>1, <1>2, <1>4, <1>5, GoroutineNames DEF Advances, Done
<1> QED
  BY <1>7, <1>8

LEMMA TopicCallsSplit ==
  ASSUME TopicCalls
  PROVE  \E s, from, to, st, d :
           Call(s, from, to) /\ SampleStep(s, from, to, st, d) /\ (from = "wait" => Ready("topics"))
<1>1. CASE Ready("topics") /\ Sampled("topics", "wait", "await", log.start)
  BY <1>1 DEF Sampled, Call
<1>2. CASE Sampled("topics_lso", "lso", "end", log.lso)
  BY <1>2 DEF Sampled, Call
<1>3. CASE Sampled("topics_end", "end", "maxTS", log.hw)
  BY <1>3 DEF Sampled, Call
<1>4. CASE Sampled("topics_max_timestamp", "maxTS", "local", Shipped)
  BY <1>4 DEF Sampled, Call
<1>5. CASE Sampled("topics_local_start", "local", "remote", Shipped)
  BY <1>5 DEF Sampled, Call
<1>6. CASE Sampled("topics_remote_end", "remote", "done", Shipped)
  BY <1>6 DEF Sampled, Call
<1> QED
  BY <1>1, <1>2, <1>3, <1>4, <1>5, <1>6 DEF TopicCalls

LEMMA ListAdvances ==
  ASSUME Base, ListGroups
  PROVE  Types' /\ Advances
<1>1. /\ Ready("list") /\ pc["list"] = "wait" /\ pc' = [pc EXCEPT !["list"] = "done"]
      /\ UNCHANGED <<log, call, meta, status, data, batch>>
  BY DEF ListGroups, Step, Ready
<1>2. PICK r : listing' \in [ids : IF r = "none" THEN {FALSE} ELSE BOOLEAN,
                             err : IF r = "all" THEN {"none"} ELSE {"error", "denied"}]
  BY DEF ListGroups
<1>3. listing' \in [ids : BOOLEAN, err : {"none", "error", "denied"}]
  BY <1>2
<1>4. Types
  BY DEF Base
<1>5. "done" \in Steps("list")
  BY DEF Steps
<1>6. /\ pc' \in [Goroutines -> UNION {Steps(h) : h \in Goroutines}]
      /\ \A h \in Goroutines : pc'[h] \in Steps(h)
      /\ pc'["list"] = "done" /\ \A h \in Goroutines : h # "list" => pc'[h] = pc[h]
  BY <1>1, <1>4, <1>5, PcTyped, GoroutineNames
<1>7. Types'
  BY <1>1, <1>3, <1>4, <1>6 DEF Types
<1>8. Advances
  BY <1>1, <1>6, GoroutineNames DEF Advances, Done
<1> QED
  BY <1>7, <1>8

LEMMA AwaitAdvances ==
  ASSUME Base, AwaitFloors
  PROVE  Types' /\ Advances
<1>1. /\ pc["topics"] = "await" /\ pc' = [pc EXCEPT !["topics"] = "lso"]
      /\ UNCHANGED <<log, call, meta, listing, status, data, batch>>
  BY DEF AwaitFloors, Step
<1>2. Types
  BY DEF Base
<1>3. "lso" \in Steps("topics") /\ FilledBy("lso") = FilledBy("await")
  BY DEF Steps, TopicSteps, FilledBy
<1>4. /\ pc' \in [Goroutines -> UNION {Steps(h) : h \in Goroutines}]
      /\ \A h \in Goroutines : pc'[h] \in Steps(h)
      /\ pc'["topics"] = "lso" /\ \A h \in Goroutines : h # "topics" => pc'[h] = pc[h]
  BY <1>1, <1>2, <1>3, PcTyped, GoroutineNames
<1>5. Types'
  BY <1>1, <1>2, <1>4 DEF Types
<1>6. Advances
  BY <1>1, <1>3, <1>4, GoroutineNames DEF Advances, Done
<1> QED
  BY <1>5, <1>6

LEMMA SkipTopicsAdvances ==
  ASSUME Base, SkipTopics
  PROVE  Types' /\ Advances
<1>1. /\ Ready("topics") /\ pc["topics"] = "wait" /\ pc' = [pc EXCEPT !["topics"] = "done"]
      /\ UNCHANGED <<log, call, meta, listing, data, batch>>
  BY DEF SkipTopics, Step, Ready
<1>2. Types
  BY DEF Base
<1>3. "done" \in Steps("topics") /\ FilledBy("done") = TopicSections
  BY DEF Steps, FilledBy
<1>4. /\ pc' \in [Goroutines -> UNION {Steps(h) : h \in Goroutines}]
      /\ \A h \in Goroutines : pc'[h] \in Steps(h)
      /\ pc'["topics"] = "done" /\ \A h \in Goroutines : h # "topics" => pc'[h] = pc[h]
  BY <1>1, <1>2, <1>3, PcTyped, GoroutineNames
<1>5. status \in [SectionNames -> Statuses \cup {"absent"}]
  BY <1>2 DEF Types
<1>6. status' = [s \in SectionNames |->
                  IF s \in LaterTopicSections THEN "skipped"
                  ELSE IF s = "topics" THEN (IF meta = "failed" THEN "skipped" ELSE "ok")
                  ELSE status[s]]
  BY DEF SkipTopics
<1>7. \A s \in SectionNames : IF s \in TopicSections THEN status'[s] \in Statuses ELSE status'[s] = status[s]
  BY <1>6, StatusesPresent DEF TopicSections
<1>8. status' \in [SectionNames -> Statuses \cup {"absent"}]
  BY <1>5, <1>6, StatusesPresent
<1>9. Types'
  BY <1>1, <1>2, <1>4, <1>8 DEF Types
<1>10. Advances
  BY <1>1, <1>3, <1>4, <1>7, GoroutineNames DEF Advances, Done
<1> QED
  BY <1>9, <1>10

LEMMA OffSections ==
  \A g \in Off : g \in OneSection /\ "done" \in Steps(g) /\ Optional[g][2] = SectionOf(g)
                 /\ g \notin {"cluster", "groups", "offsets", "window"}
<1>1. DOMAIN Optional = {"logDirs", "topicConfigs", "brokerConfigs", "share", "reassign", "epoch"}
  BY DEF Optional
<1>2. /\ Optional["logDirs"][2] = "log_dirs" /\ Optional["topicConfigs"][2] = "topic_configs"
      /\ Optional["brokerConfigs"][2] = "broker_configs" /\ Optional["share"][2] = "share_groups"
      /\ Optional["reassign"][2] = "reassignments" /\ Optional["epoch"][2] = "epoch_probes"
  BY DEF Optional
<1>3. \A g \in DOMAIN Optional : Optional[g][2] = SectionOf(g)
  BY <1>1, <1>2 DEF SectionOf
<1>4. \A g \in DOMAIN Optional : g \in OneSection /\ "done" \in Steps(g) /\ g \notin {"cluster", "groups", "offsets", "window"}
  BY <1>1 DEF OneSection, Goroutines, WaitGroup, Steps
<1> QED
  BY <1>3, <1>4 DEF Off

LEMMA SkipOffEffect ==
  ASSUME Types, SkipOff
  PROVE  /\ \A g \in Goroutines : pc'[g] = IF g \in Off THEN "done" ELSE pc[g]
         /\ \A g \in Off : status'[SectionOf(g)] = "skipped"
         /\ \A s \in SectionNames : (\A g \in Off : SectionOf(g) # s) => status'[s] = status[s]
         /\ \A s \in SectionNames : status'[s] \in {"skipped", status[s]}
         /\ \A g \in Off : Ready(g)
         /\ status' \in [SectionNames -> Statuses \cup {"absent"}]
<1>1. pc' = [g \in Goroutines |-> IF g \in Off THEN "done" ELSE pc[g]] /\ \A g \in Off : Ready(g)
  BY DEF SkipOff
<1>2. status' = [s \in SectionNames |-> IF \E g \in Off : Optional[g][2] = s THEN "skipped" ELSE status[s]]
  BY DEF SkipOff
<1>3. \A g \in Off : Optional[g][2] = SectionOf(g) /\ SectionOf(g) \in SectionNames
  BY OffSections, SectionsApart
<1>4. \A g \in Off : status'[SectionOf(g)] = "skipped"
  BY <1>2, <1>3
<1>5. \A s \in SectionNames : (\A g \in Off : SectionOf(g) # s) => status'[s] = status[s]
  BY <1>2, <1>3
<1>6. \A s \in SectionNames : status'[s] \in {"skipped", status[s]}
  BY <1>2
<1>7. status' \in [SectionNames -> Statuses \cup {"absent"}]
  BY <1>2, StatusesPresent DEF Types
<1> QED
  BY <1>1, <1>4, <1>5, <1>6, <1>7

LEMMA SkipOffAdvances ==
  ASSUME Base, SkipOff
  PROVE  Types' /\ Advances
<1>1. Types
  BY DEF Base
<1>2. /\ \A g \in Goroutines : pc'[g] = IF g \in Off THEN "done" ELSE pc[g]
      /\ \A g \in Off : status'[SectionOf(g)] = "skipped"
      /\ \A s \in SectionNames : status'[s] \in {"skipped", status[s]}
      /\ \A g \in Off : Ready(g)
      /\ status' \in [SectionNames -> Statuses \cup {"absent"}]
  BY <1>1, SkipOffEffect
<1>3. pc' = [g \in Goroutines |-> IF g \in Off THEN "done" ELSE pc[g]]
      /\ UNCHANGED <<log, call, meta, listing, data, batch>>
  BY DEF SkipOff
<1>4. \A g \in Off : g \in OneSection /\ "done" \in Steps(g) /\ g \in Goroutines /\ g # "topics"
  BY OffSections, GoroutineNames
<1>5. \A g \in Goroutines : pc'[g] \in Steps(g)
  BY <1>1, <1>2, <1>4 DEF Types
<1>6. \A g \in Goroutines : pc'[g] \in UNION {Steps(h) : h \in Goroutines}
  BY <1>5
<1>7. pc' \in [Goroutines -> UNION {Steps(h) : h \in Goroutines}]
  BY <1>2, <1>3, <1>6
<1>8. Types'
  BY <1>1, <1>2, <1>3, <1>5, <1>7 DEF Types
<1>9. pc'["topics"] = pc["topics"]
  BY <1>2, <1>4, GoroutineNames
<1>10. Advances
  BY <1>2, <1>3, <1>4, <1>9, StatusesPresent, GoroutineNames DEF Advances, Done, Ready
<1> QED
  BY <1>8, <1>10

LEMMA BuildAdvances ==
  ASSUME Base, BuildBatch
  PROVE  Types' /\ Advances
<1>1. /\ UNCHANGED <<log, call, pc, meta, listing>> /\ \A g \in WaitGroup : Done(g)
      /\ status' = [status EXCEPT !["broker_rpc"] = "ok"] /\ data' = [data EXCEPT !["broker_rpc"] = Shipped]
  BY DEF BuildBatch, CollectRPC, Fill
<1>2. Types
  BY DEF Base
<1>3. /\ status' \in [SectionNames -> Statuses \cup {"absent"}]
      /\ status'["broker_rpc"] = "ok" /\ \A t \in SectionNames : t # "broker_rpc" => status'[t] = status[t]
  BY <1>1, <1>2, FillTyped, StatusesPresent, GoroutineNames
<1>4. data' \in [SectionNames -> Nat \cup {Null}]
  BY <1>1, <1>2, DataTyped, GoroutineNames DEF Shipped
<1>5. Types'
  BY <1>1, <1>2, <1>3, <1>4 DEF Types
<1>6. Advances
  BY <1>1, <1>3, StatusesPresent DEF Advances, Done
<1> QED
  BY <1>5, <1>6

LEMMA NextAdvances ==
  ASSUME Base, Next
  PROVE  Types' /\ Advances /\ LogOrdered(log')
<1>1. \/ LogStep \/ Timeout \/ Phases \/ Seconds \/ ListGroups
      \/ SkipTopics \/ AwaitFloors \/ TopicCalls \/ SkipOff \/ BuildBatch
  BY StepKinds DEF Base
<1>2. LogOrdered(log)
  BY DEF Base
<1>3. CASE LogStep
  <2>1. LogOrdered(log') /\ UNCHANGED <<expired, call, pc, meta, listing, status, data, batch, early>>
        /\ log' \in [start : Nat, committed : Nat, lso : Nat, hw : Nat]
    BY <1>3 DEF LogStep
  <2>2. Types'
    BY <2>1 DEF Base, Types
  <2> QED
    BY <2>1, <2>2, QuietAdvances
<1>4. CASE Timeout
  <2>1. UNCHANGED <<log, call, pc, meta, listing, status, data, batch, early>>
    BY <1>4 DEF Timeout
  <2>2. Types'
    BY <2>1 DEF Base, Types
  <2> QED
    BY <1>2, <2>1, <2>2, QuietAdvances
<1>5. CASE Phases
  <2>1. PICK g, to, st, d : g \in OneSection /\ PhaseStep(g, to, st, d)
    BY <1>5 DEF Phases
  <2>2. log' = log
    BY <2>1 DEF PhaseStep
  <2> QED
    BY <1>2, <2>1, <2>2, PhaseAdvances
<1>6. CASE Seconds
  <2>1. PICK g, to, st, d : g \in {"groups", "share", "epoch"} /\ SecondStep(g, to, st, d)
    BY <1>6 DEF Seconds
  <2>2. log' = log
    BY <2>1 DEF SecondStep
  <2> QED
    BY <1>2, <2>1, <2>2, SecondAdvances
<1>7. CASE TopicCalls
  <2>1. PICK s, from, to, st, d :
          Call(s, from, to) /\ SampleStep(s, from, to, st, d) /\ (from = "wait" => Ready("topics"))
    BY <1>7, TopicCallsSplit
  <2>2. log' = log
    BY <2>1 DEF SampleStep
  <2> QED
    BY <1>2, <2>1, <2>2, SampleAdvances
<1>8. CASE ListGroups \/ SkipTopics \/ AwaitFloors \/ SkipOff \/ BuildBatch
  <2>1. log' = log
    BY <1>8 DEF ListGroups, SkipTopics, AwaitFloors, SkipOff, BuildBatch
  <2> QED
    BY <1>2, <1>8, <2>1, ListAdvances, SkipTopicsAdvances, AwaitAdvances, SkipOffAdvances, BuildAdvances
<1> QED
  BY <1>1, <1>3, <1>4, <1>5, <1>6, <1>7, <1>8

LEMMA WaitsTyped == \A g \in Goroutines : Waits[g] \subseteq Goroutines
BY DEF Waits, Goroutines, WaitGroup

LEMMA WaitGroupCounts == WaitGroup \subseteq Goroutines
BY DEF Goroutines

LEMMA FilledBySections == \A p : FilledBy(p) \subseteq TopicSections
BY DEF FilledBy, TopicSections, LaterTopicSections

LEMMA BaseStep ==
  ASSUME Base, Next
  PROVE  Base'
<1>1. Types' /\ Advances /\ LogOrdered(log')
  BY NextAdvances
<1>2. Waited'
  BY <1>1, WaitsTyped DEF Base, Waited, Advances, Ready, Done
<1>3. ASSUME NEW g \in OneSection, pc'[g] # "wait"
      PROVE  status'[SectionOf(g)] \in Statuses
  <2>1. g \in Goroutines /\ SectionOf(g) \in SectionNames
    BY SectionsApart, GoroutineNames
  <2> QED
    BY <1>1, <1>3, <2>1 DEF Base, Filled, Advances
<1>4. ASSUME NEW s \in FilledBy(pc'["topics"])
      PROVE  status'[s] \in Statuses
  <2>1. s \in SectionNames
    BY FilledBySections, GoroutineNames
  <2> QED
    BY <1>1, <1>4, <2>1 DEF Base, Filled, Advances
<1>5. ASSUME batch'
      PROVE  status'["broker_rpc"] \in Statuses /\ \A g \in WaitGroup : pc'[g] = "done"
  BY <1>1, <1>5, WaitGroupCounts, GoroutineNames DEF Base, Filled, Advances, Done
<1>6. Filled'
  BY <1>3, <1>4, <1>5 DEF Filled, Done
<1> QED
  BY <1>1, <1>2, <1>6 DEF Base, LogOrdered

LEMMA BaseInit == Init => Base
<1> SUFFICES ASSUME Init PROVE Base
  OBVIOUS
<1>1. /\ call \in Calls
      /\ log = [start |-> 0, committed |-> 0, lso |-> 0, hw |-> 0] /\ pc = [g \in Goroutines |-> "wait"]
      /\ meta = "pending" /\ listing = [ids |-> FALSE, err |-> "none"]
      /\ status = [s \in SectionNames |-> "absent"] /\ data = [s \in SectionNames |-> Null] /\ batch = FALSE
  BY DEF Init
<1>2. \A g \in Goroutines : pc[g] = "wait" /\ "wait" \in Steps(g)
  BY <1>1 DEF Steps
<1>3. pc \in [Goroutines -> UNION {Steps(g) : g \in Goroutines}]
  <2>1. \A g \in Goroutines : "wait" \in UNION {Steps(h) : h \in Goroutines}
    BY <1>2
  <2> QED
    BY <1>1, <2>1
<1>4. Types
  BY <1>1, <1>2, <1>3 DEF Types
<1>5. LogOrdered(log)
  BY <1>1 DEF LogOrdered
<1>6. Waited
  BY <1>2 DEF Waited
<1>7. Filled
  <2>1. FilledBy(pc["topics"]) = {} /\ \A g \in OneSection : pc[g] = "wait"
    BY <1>2, GoroutineNames DEF FilledBy
  <2> QED
    BY <1>1, <2>1 DEF Filled
<1> QED
  BY <1>4, <1>5, <1>6, <1>7 DEF Base

LEMMA BaseStutter ==
  ASSUME Base, UNCHANGED vars
  PROVE  Base'
BY DEF Base, vars, Types, LogOrdered, Waited, Filled, Done

\* The inductive invariant of the goroutines holds in every state.
THEOREM BaseHolds == Spec => []Base
<1>1. Base /\ [Next]_vars => Base'
  BY BaseStep, BaseStutter
<1> QED
  BY <1>1, BaseInit, PTL DEF Spec

LEMMA SectionsOwned ==
  ASSUME NEW s \in SectionNames
  PROVE  s = "broker_rpc" \/ s \in TopicSections \/ \E g \in OneSection : SectionOf(g) = s
<1>1. OneSection = {"cluster", "groups", "offsets", "window", "logDirs", "share", "topicConfigs", "brokerConfigs",
                    "reassign", "epoch"}
  BY DEF OneSection, Goroutines, WaitGroup
<1> QED
  BY <1>1 DEF SectionNames, TopicSections, LaterTopicSections, SectionOf

\* Every batch carries all seventeen sections and leaves no goroutine of its
\* cycle behind: the sections follow their owners, and the goroutine of
\* ListGroups, which wg does not count, is waited for by one that it counts.
THEOREM AllSectionsShip == Spec => []EverySectionShips
<1>1. Base => EverySectionShips
  <2> SUFFICES ASSUME Base, batch
               PROVE  /\ \A s \in SectionNames : status[s] # "absent"
                      /\ \A g \in Goroutines : Done(g)
    BY DEF EverySectionShips
  <2>1. status["broker_rpc"] \in Statuses /\ \A g \in WaitGroup : Done(g)
    BY DEF Base, Filled
  <2>2. "groups" \in Goroutines /\ "list" \in Waits["groups"] /\ "groups" \in WaitGroup
        /\ "topics" \in WaitGroup /\ OneSection \subseteq WaitGroup
    BY DEF Waits, Goroutines, WaitGroup, OneSection
  <2>3. Done("list")
    BY <2>1, <2>2 DEF Base, Waited, Done
  <2>4. \A g \in Goroutines : Done(g)
    BY <2>1, <2>3 DEF Goroutines
  <2>5. FilledBy(pc["topics"]) = TopicSections
    BY <2>1, <2>2 DEF Done, FilledBy
  <2>6. \A s \in TopicSections : status[s] \in Statuses
    BY <2>5 DEF Base, Filled
  <2>7. \A g \in OneSection : status[SectionOf(g)] \in Statuses
    BY <2>1, <2>2 DEF Base, Filled, Done
  <2>8. \A s \in SectionNames : status[s] \in Statuses
    BY <2>1, <2>2, <2>6, <2>7, SectionsOwned
  <2> QED
    BY <2>4, <2>8, StatusesPresent
<1> QED
  BY <1>1, BaseHolds, PTL

-----------------------------------------------------------------------------
(* The offset chain *)

ChainSections == {"offsets", "topics_window", "topics", "topics_lso", "topics_end"}

Fields == {"start", "committed", "lso", "hw"}

\* What a step that samples none of the chain does to it.
Calm ==
  /\ \A s \in ChainSections : data'[s] = data[s]
  /\ \A f \in Fields : log[f] <= log'[f]
  /\ early' = early /\ (expired => expired')
  /\ \A s \in Ceilings : status'[s] \in {status[s], "skipped"}
  /\ \/ pc'["topics"] = pc["topics"]
     \/ pc["topics"] = "await" /\ pc'["topics"] = "lso" /\ (expired \/ (Done("offsets") /\ Done("window")))
     \/ pc["topics"] \notin {"await", "lso", "end"} /\ pc'["topics"] \in {"local", "remote", "done"}

\* A step that samples d for s.
Changes(s, d) ==
  /\ data'[s] = d /\ d \in Nat \cup {Null} /\ \A t \in ChainSections \ {s} : data'[t] = data[t]
  /\ log' = log /\ expired' = expired

\* The sections outside collectTopics that are of the chain.
FloorStep(g, s, d) ==
  /\ Changes(s, d) /\ pc[g] = "wait" /\ pc'[g] = "done" /\ pc'["topics"] = pc["topics"] /\ early' = early
  /\ \A t \in Ceilings : status'[t] = status[t]

OffsetsSampled ==
  \E d : FloorStep("offsets", "offsets", d) /\ (d # Null => d = log.committed)

WindowSampled ==
  \E d : FloorStep("window", "topics_window", d) /\ (d # Null => d <= log.hw)

\* A call of collectTopics that is of the chain.
CallStep(s, from, to, o, d) ==
  /\ Changes(s, d) /\ pc["topics"] = from /\ pc'["topics"] = to
  /\ d # Null => d = o /\ ~expired
  /\ expired => status'[s] \in {"failed", "skipped"}
  /\ early' = IF Done("offsets") \/ s \notin Ceilings THEN early ELSE early \cup {s}
  /\ \A t \in Ceilings \ {s} : status'[t] = status[t]

ChainStep ==
  \/ Calm \/ OffsetsSampled \/ WindowSampled
  \/ \E d : CallStep("topics", "wait", "await", log.start, d)
  \/ \E d : CallStep("topics_lso", "lso", "end", log.lso, d)
  \/ \E d : CallStep("topics_end", "end", "maxTS", log.hw, d)

LEMMA ChainNames ==
  /\ ChainSections \subseteq SectionNames /\ Ceilings \subseteq ChainSections /\ Ceilings \subseteq TopicSections
  /\ {"offsets", "window"} \subseteq OneSection
  /\ SectionOf("offsets") = "offsets" /\ SectionOf("window") = "topics_window"
  /\ \A g \in OneSection : SectionOf(g) \in ChainSections => g \in {"offsets", "window"}
<1>1. ChainSections \subseteq SectionNames /\ Ceilings \subseteq ChainSections /\ Ceilings \subseteq TopicSections
      /\ {"offsets", "window"} \subseteq OneSection
  BY DEF ChainSections, SectionNames, Ceilings, TopicSections, LaterTopicSections, OneSection, Goroutines, WaitGroup
<1>2. SectionOf("offsets") = "offsets" /\ SectionOf("window") = "topics_window"
  BY DEF SectionOf
<1>3. \A s \in ChainSections : s \in TopicSections \/ s \in {SectionOf("offsets"), SectionOf("window")}
  BY <1>2 DEF ChainSections, TopicSections, LaterTopicSections
<1>4. \A g \in OneSection : SectionOf(g) \in ChainSections => g \in {"offsets", "window"}
  BY <1>1, <1>3, SectionsApart
<1> QED
  BY <1>1, <1>2, <1>4

LEMMA LogStays ==
  ASSUME Types, log' = log
  PROVE  \A f \in Fields : log[f] <= log'[f]
BY DEF Types, Fields

LEMMA PhaseChain ==
  ASSUME Base, NEW g \in OneSection, NEW to, NEW st, NEW d, PhaseStep(g, to, st, d)
  PROVE  ChainStep
<1>1. /\ pc[g] = "wait" /\ to \in Steps(g) /\ to # "wait" /\ g \in Goroutines /\ g # "topics"
      /\ st \in Statuses /\ d \in Nat \cup {Null} /\ pc' = [pc EXCEPT ![g] = to]
      /\ status' = [status EXCEPT ![SectionOf(g)] = st] /\ data' = [data EXCEPT ![SectionOf(g)] = d]
      /\ SectionOf(g) \in SectionNames /\ SectionOf(g) \notin TopicSections
      /\ UNCHANGED <<log, expired, early>> /\ Honest(g, st, d)
  BY SectionsApart, GoroutineNames DEF PhaseStep, Ready
<1>2. Types
  BY DEF Base
<1>3. pc'[g] = to /\ pc'["topics"] = pc["topics"]
  BY <1>1, <1>2, PcTyped, GoroutineNames
<1>4. \A t \in SectionNames : t # SectionOf(g) => status'[t] = status[t]
  BY <1>1, <1>2, FillTyped
<1>5. data'[SectionOf(g)] = d /\ \A t \in SectionNames : t # SectionOf(g) => data'[t] = data[t]
  BY <1>1, <1>2, DataTyped
<1>6. \A t \in Ceilings : status'[t] = status[t]
  BY <1>1, <1>4, ChainNames
<1>7. CASE g = "offsets"
  <2>1. to = "done" /\ SectionOf(g) = "offsets"
    BY <1>1, <1>7, ChainNames DEF Steps
  <2>2. Changes("offsets", d)
    BY <1>1, <1>5, <2>1, ChainNames DEF Changes
  <2>3. FloorStep("offsets", "offsets", d)
    BY <1>1, <1>3, <1>6, <1>7, <2>1, <2>2 DEF FloorStep
  <2>4. d # Null => d = log.committed
    BY <1>1, <1>7 DEF Honest
  <2> QED
    BY <2>3, <2>4 DEF ChainStep, OffsetsSampled
<1>8. CASE g = "window"
  <2>1. to = "done" /\ SectionOf(g) = "topics_window"
    BY <1>1, <1>8, ChainNames DEF Steps
  <2>2. Changes("topics_window", d)
    BY <1>1, <1>5, <2>1, ChainNames DEF Changes
  <2>3. FloorStep("window", "topics_window", d)
    BY <1>1, <1>3, <1>6, <1>8, <2>1, <2>2 DEF FloorStep
  <2>4. d # Null => d <= log.hw
    BY <1>1, <1>8 DEF Honest
  <2> QED
    BY <2>3, <2>4 DEF ChainStep, WindowSampled
<1>9. CASE g \notin {"offsets", "window"}
  <2>1. \A s \in ChainSections : data'[s] = data[s]
    BY <1>1, <1>5, <1>9, ChainNames
  <2>2. Calm
    BY <1>1, <1>2, <1>3, <1>6, <1>9, <2>1, LogStays DEF Calm
  <2> QED
    BY <2>2 DEF ChainStep
<1> QED
  BY <1>7, <1>8, <1>9

LEMMA CallChain ==
  ASSUME Base, NEW s, NEW from, NEW to, NEW o, Call(s, from, to), Sampled(s, from, to, o)
  PROVE  IF s \in ChainSections THEN \E d : CallStep(s, from, to, o, d) ELSE Calm
<1>1. PICK st, d : SampleStep(s, from, to, st, d) /\ d \in {o, Null}
  BY DEF Sampled
<1>2. /\ pc["topics"] = from /\ pc' = [pc EXCEPT !["topics"] = to]
      /\ st \in Statuses /\ d \in Nat \cup {Null}
      /\ status' = [status EXCEPT ![s] = st] /\ data' = [data EXCEPT ![s] = d]
      /\ early' = IF Done("offsets") \/ s \notin Ceilings THEN early ELSE early \cup {s}
      /\ UNCHANGED <<log, expired>>
      /\ (expired => d = Null /\ st \in {"failed", "skipped"})
  BY <1>1 DEF SampleStep
<1>3. Types
  BY DEF Base
<1>4. to \in Steps("topics") /\ s \in SectionNames
  BY CallFills, GoroutineNames
<1>5. pc'["topics"] = to
  BY <1>2, <1>3, <1>4, PcTyped, GoroutineNames
<1>6. status'[s] = st /\ \A t \in SectionNames : t # s => status'[t] = status[t]
  BY <1>2, <1>3, <1>4, FillTyped
<1>7. data'[s] = d /\ \A t \in SectionNames : t # s => data'[t] = data[t]
  BY <1>2, <1>3, <1>4, DataTyped
<1>8. CASE s \in ChainSections
  <2>1. Changes(s, d)
    BY <1>2, <1>7, ChainNames DEF Changes
  <2>2. \A t \in Ceilings \ {s} : status'[t] = status[t]
    BY <1>6, ChainNames
  <2>3. CallStep(s, from, to, o, d)
    BY <1>1, <1>2, <1>5, <1>6, <2>1, <2>2 DEF CallStep
  <2> QED
    BY <1>8, <2>3
<1>9. CASE s \notin ChainSections
  <2>1. \A t \in ChainSections : data'[t] = data[t]
    BY <1>7, <1>9, ChainNames
  <2>2. s \notin Ceilings /\ \A t \in Ceilings : status'[t] = status[t]
    BY <1>6, <1>9, ChainNames
  <2>3. from \notin {"await", "lso", "end"} /\ to \in {"local", "remote", "done"}
    BY <1>9 DEF Call, ChainSections
  <2>4. Calm
    BY <1>2, <1>3, <1>5, <2>1, <2>2, <2>3, LogStays DEF Calm
  <2> QED
    BY <1>9, <2>4
<1> QED
  BY <1>8, <1>9

LEMMA CallsChain ==
  ASSUME Base, TopicCalls
  PROVE  ChainStep
<1>1. {"topics", "topics_lso", "topics_end"} \subseteq ChainSections
      /\ {"topics_max_timestamp", "topics_local_start", "topics_remote_end"} \cap ChainSections = {}
  BY DEF ChainSections
<1>2. CASE Sampled("topics", "wait", "await", log.start)
  BY <1>1, <1>2, CallChain DEF Call, ChainStep
<1>3. CASE Sampled("topics_lso", "lso", "end", log.lso)
  BY <1>1, <1>3, CallChain DEF Call, ChainStep
<1>4. CASE Sampled("topics_end", "end", "maxTS", log.hw)
  BY <1>1, <1>4, CallChain DEF Call, ChainStep
<1>5. CASE Sampled("topics_max_timestamp", "maxTS", "local", Shipped)
  BY <1>1, <1>5, CallChain DEF Call, ChainStep
<1>6. CASE Sampled("topics_local_start", "local", "remote", Shipped)
  BY <1>1, <1>6, CallChain DEF Call, ChainStep
<1>7. CASE Sampled("topics_remote_end", "remote", "done", Shipped)
  BY <1>1, <1>7, CallChain DEF Call, ChainStep
<1> QED
  BY <1>2, <1>3, <1>4, <1>5, <1>6, <1>7 DEF TopicCalls

LEMMA QuietChain ==
  ASSUME Base, UNCHANGED <<early, log, expired>>, pc'["topics"] = pc["topics"],
         \A s \in ChainSections : data'[s] = data[s], \A s \in Ceilings : status'[s] = status[s]
  PROVE  ChainStep
<1>1. Calm
  BY LogStays DEF Calm, Base
<1> QED
  BY <1>1 DEF ChainStep

LEMMA NextChain ==
  ASSUME Base, Next
  PROVE  ChainStep
<1>1. \/ LogStep \/ Timeout \/ Phases \/ Seconds \/ ListGroups
      \/ SkipTopics \/ AwaitFloors \/ TopicCalls \/ SkipOff \/ BuildBatch
  BY StepKinds DEF Base
<1>2. Types
  BY DEF Base
<1>3. CASE LogStep
  <2>1. (\A f \in Fields : log[f] <= log'[f]) /\ UNCHANGED <<expired, pc, status, data, early>>
    BY <1>3 DEF LogStep, Fields
  <2>2. Calm
    BY <2>1 DEF Calm
  <2> QED
    BY <2>2 DEF ChainStep
<1>4. CASE Timeout
  <2>1. UNCHANGED <<log, pc, status, data, early>> /\ expired'
    BY <1>4 DEF Timeout
  <2>2. Calm
    BY <1>2, <2>1, LogStays DEF Calm
  <2> QED
    BY <2>2 DEF ChainStep
<1>5. CASE Phases
  BY <1>5, PhaseChain DEF Phases
<1>6. CASE Seconds
  <2>1. PICK g, to, st, d : g \in {"groups", "share", "epoch"} /\ SecondStep(g, to, st, d)
    BY <1>6 DEF Seconds
  <2>2. /\ g \in OneSection /\ g \in Goroutines /\ g \notin {"topics", "offsets", "window"} /\ to \in Steps(g)
        /\ st \in Statuses /\ d \in Nat \cup {Null} /\ pc' = [pc EXCEPT ![g] = to]
        /\ status' = [status EXCEPT ![SectionOf(g)] = st] /\ data' = [data EXCEPT ![SectionOf(g)] = d]
        /\ UNCHANGED <<log, expired, early>>
    BY <2>1, GoroutineNames DEF SecondStep
  <2>3. SectionOf(g) \in SectionNames /\ SectionOf(g) \notin TopicSections /\ SectionOf(g) \notin ChainSections
    BY <2>2, SectionsApart, ChainNames
  <2>4. pc'["topics"] = pc["topics"]
    BY <1>2, <2>2, PcTyped, GoroutineNames
  <2>5. \A s \in Ceilings : status'[s] = status[s]
    BY <1>2, <2>2, <2>3, FillTyped, ChainNames
  <2>6. \A s \in ChainSections : data'[s] = data[s]
    BY <1>2, <2>2, <2>3, DataTyped, ChainNames
  <2> QED
    BY <2>2, <2>4, <2>5, <2>6, QuietChain
<1>7. CASE ListGroups
  <2>1. pc' = [pc EXCEPT !["list"] = "done"] /\ "done" \in Steps("list")
        /\ UNCHANGED <<log, expired, status, data, early>>
    BY <1>7 DEF ListGroups, Step, Steps
  <2>2. pc'["topics"] = pc["topics"]
    BY <1>2, <2>1, PcTyped, GoroutineNames
  <2> QED
    BY <2>1, <2>2, QuietChain
<1>8. CASE SkipTopics
  <2>1. /\ pc' = [pc EXCEPT !["topics"] = "done"] /\ pc["topics"] = "wait" /\ "done" \in Steps("topics")
        /\ UNCHANGED <<log, expired, data, early>>
        /\ status' = [s \in SectionNames |->
                        IF s \in LaterTopicSections THEN "skipped"
                        ELSE IF s = "topics" THEN (IF meta = "failed" THEN "skipped" ELSE "ok")
                        ELSE status[s]]
    BY <1>8 DEF SkipTopics, Step, Steps, Ready
  <2>2. pc'["topics"] = "done"
    BY <1>2, <2>1, PcTyped, GoroutineNames
  <2>3. \A s \in Ceilings : s \in LaterTopicSections /\ s \in SectionNames
    BY DEF Ceilings, LaterTopicSections, SectionNames
  <2>4. \A s \in Ceilings : status'[s] = "skipped"
    BY <2>1, <2>3
  <2>5. Calm
    BY <1>2, <2>1, <2>2, <2>4, LogStays DEF Calm
  <2> QED
    BY <2>5 DEF ChainStep
<1>9. CASE AwaitFloors
  <2>1. /\ pc' = [pc EXCEPT !["topics"] = "lso"] /\ pc["topics"] = "await" /\ "lso" \in Steps("topics")
        /\ UNCHANGED <<log, expired, status, data, early>>
        /\ (expired \/ (Done("offsets") /\ Done("window")))
    BY <1>9 DEF AwaitFloors, Step, Steps, TopicSteps
  <2>2. pc'["topics"] = "lso"
    BY <1>2, <2>1, PcTyped, GoroutineNames
  <2>3. Calm
    BY <1>2, <2>1, <2>2, LogStays DEF Calm
  <2> QED
    BY <2>3 DEF ChainStep
<1>10. CASE TopicCalls
  BY <1>10, CallsChain
<1>11. CASE SkipOff
  <2>1. UNCHANGED <<log, expired, data, early>>
    BY <1>11 DEF SkipOff
  <2>2. pc'["topics"] = pc["topics"]
    BY <1>2, <1>11, SkipOffEffect, OffSections, GoroutineNames
  <2>3. \A g \in Off : SectionOf(g) \notin TopicSections
    BY OffSections, SectionsApart
  <2>4. \A s \in Ceilings : status'[s] = status[s]
    BY <1>2, <1>11, <2>3, SkipOffEffect, ChainNames
  <2> QED
    BY <2>1, <2>2, <2>4, QuietChain
<1>12. CASE BuildBatch
  <2>1. /\ status' = [status EXCEPT !["broker_rpc"] = "ok"] /\ data' = [data EXCEPT !["broker_rpc"] = Shipped]
        /\ UNCHANGED <<log, expired, pc, early>>
    BY <1>12 DEF BuildBatch, CollectRPC, Fill
  <2>2. "broker_rpc" \notin ChainSections /\ Shipped \in Nat \cup {Null}
    BY DEF ChainSections, Shipped
  <2>3. \A s \in ChainSections : data'[s] = data[s]
    BY <1>2, <2>1, <2>2, DataTyped, ChainNames, GoroutineNames
  <2>4. \A s \in Ceilings : status'[s] = status[s]
    BY <1>2, <2>1, <2>2, FillTyped, ChainNames, GoroutineNames, StatusesPresent
  <2>5. Calm
    BY <1>2, <2>1, <2>3, <2>4, LogStays DEF Calm
  <2> QED
    BY <2>5 DEF ChainStep
<1> QED
  BY <1>1, <1>3, <1>4, <1>5, <1>6, <1>7, <1>8, <1>9, <1>10, <1>11, <1>12

\* The ceilings are asked for with the floors in, or with the context over.
Awaited == pc["topics"] \in {"lso", "end"} => expired \/ (Done("offsets") /\ Done("window"))

\* Whose turn it was when a sample of the chain was taken.
Turns ==
  /\ data["offsets"] # Null => Done("offsets")
  /\ data["topics_window"] # Null => Done("window")
  /\ data["topics"] # Null => pc["topics"] # "wait"
  /\ data["topics_lso"] # Null => pc["topics"] \notin {"wait", "await", "lso"}
  /\ data["topics_end"] # Null => pc["topics"] \notin {"wait", "await", "lso", "end"}
  /\ data["topics_lso"] # Null \/ data["topics_end"] # Null => Done("offsets") /\ Done("window")

\* The log has not gone back behind a sample.
Behind ==
  /\ data["offsets"] # Null => data["offsets"] <= log.committed
  /\ data["topics_window"] # Null => data["topics_window"] <= log.hw
  /\ data["topics"] # Null => data["topics"] <= log.start
  /\ data["topics_lso"] # Null => data["topics_lso"] <= log.lso

\* No sample is above one that was taken after it and bounds it.
NotAbove(s, t) == data[s] # Null /\ data[t] # Null => data[s] <= data[t]
InOrder ==
  /\ NotAbove("offsets", "topics_lso") /\ NotAbove("offsets", "topics_end")
  /\ NotAbove("topics_window", "topics_end") /\ NotAbove("topics_lso", "topics_end")
  /\ NotAbove("topics", "topics_lso") /\ NotAbove("topics", "topics_end")

Chain == Awaited /\ Turns /\ Behind /\ InOrder

LEMMA DataIsOffset ==
  ASSUME Types
  PROVE  /\ \A s \in ChainSections : data[s] \in Nat \cup {Null}
         /\ \A f \in Fields : log[f] \in Nat
BY ChainNames DEF Types, Fields

LEMMA AwaitedStep ==
  ASSUME Base, Awaited, Advances, ChainStep
  PROVE  Awaited'
<1>1. (Done("offsets") => pc'["offsets"] = "done") /\ (Done("window") => pc'["window"] = "done")
  BY ChainNames, GoroutineNames DEF Advances
<1>2. CASE Calm
  BY <1>1, <1>2 DEF Calm, Awaited, Done
<1>3. CASE OffsetsSampled \/ WindowSampled
  BY <1>1, <1>3 DEF OffsetsSampled, WindowSampled, FloorStep, Changes, Awaited, Done
<1>4. CASE \E d : CallStep("topics", "wait", "await", log.start, d)
  BY <1>4 DEF CallStep, Awaited
<1>5. CASE \E d : CallStep("topics_lso", "lso", "end", log.lso, d)
  BY <1>1, <1>5 DEF CallStep, Changes, Awaited, Done
<1>6. CASE \E d : CallStep("topics_end", "end", "maxTS", log.hw, d)
  BY <1>6 DEF CallStep, Awaited
<1> QED
  BY <1>2, <1>3, <1>4, <1>5, <1>6 DEF ChainStep

LEMMA TurnsStep ==
  ASSUME Base, Awaited, Turns, Advances, ChainStep
  PROVE  Turns'
<1>1. /\ Done("offsets") => pc'["offsets"] = "done"
      /\ Done("window") => pc'["window"] = "done"
      /\ pc["topics"] # "wait" => pc'["topics"] # "wait"
  BY ChainNames, GoroutineNames DEF Advances
<1>2. CASE Calm
  <2>1. \A s \in {"offsets", "topics_window", "topics", "topics_lso", "topics_end"} : data'[s] = data[s]
    BY <1>2 DEF Calm, ChainSections
  <2>2. pc["topics"] \notin {"wait", "await", "lso"} => pc'["topics"] \notin {"wait", "await", "lso"}
    BY <1>2 DEF Calm
  <2>3. pc["topics"] \notin {"wait", "await", "lso", "end"} => pc'["topics"] \notin {"wait", "await", "lso", "end"}
    BY <1>2 DEF Calm
  <2> QED
    BY <1>1, <2>1, <2>2, <2>3 DEF Turns, Done
<1>3. CASE OffsetsSampled
  <2>1. /\ \A s \in {"topics_window", "topics", "topics_lso", "topics_end"} : data'[s] = data[s]
        /\ pc'["topics"] = pc["topics"] /\ pc'["offsets"] = "done"
    BY <1>3 DEF OffsetsSampled, FloorStep, Changes, ChainSections
  <2> QED
    BY <1>1, <2>1 DEF Turns, Done
<1>4. CASE WindowSampled
  <2>1. /\ \A s \in {"offsets", "topics", "topics_lso", "topics_end"} : data'[s] = data[s]
        /\ pc'["topics"] = pc["topics"] /\ pc'["window"] = "done"
    BY <1>4 DEF WindowSampled, FloorStep, Changes, ChainSections
  <2> QED
    BY <1>1, <2>1 DEF Turns, Done
<1>5. CASE \E d : CallStep("topics", "wait", "await", log.start, d)
  <2>1. /\ \A s \in {"offsets", "topics_window", "topics_lso", "topics_end"} : data'[s] = data[s]
        /\ pc["topics"] = "wait" /\ pc'["topics"] = "await"
    BY <1>5 DEF CallStep, Changes, ChainSections
  <2> QED
    BY <1>1, <2>1 DEF Turns, Done
<1>6. CASE \E d : CallStep("topics_lso", "lso", "end", log.lso, d)
  <2>1. /\ \A s \in {"offsets", "topics_window", "topics", "topics_end"} : data'[s] = data[s]
        /\ pc["topics"] = "lso" /\ pc'["topics"] = "end" /\ (data'["topics_lso"] # Null => ~expired)
    BY <1>6 DEF CallStep, Changes, ChainSections
  <2> QED
    BY <1>1, <2>1 DEF Turns, Done, Awaited
<1>7. CASE \E d : CallStep("topics_end", "end", "maxTS", log.hw, d)
  <2>1. /\ \A s \in {"offsets", "topics_window", "topics", "topics_lso"} : data'[s] = data[s]
        /\ pc["topics"] = "end" /\ pc'["topics"] = "maxTS" /\ (data'["topics_end"] # Null => ~expired)
    BY <1>7 DEF CallStep, Changes, ChainSections
  <2> QED
    BY <1>1, <2>1 DEF Turns, Done, Awaited
<1> QED
  BY <1>2, <1>3, <1>4, <1>5, <1>6, <1>7 DEF ChainStep

LEMMA BehindStep ==
  ASSUME Base, Behind, ChainStep, Types'
  PROVE  Behind'
<1>1. /\ \A s \in {"offsets", "topics_window", "topics", "topics_lso", "topics_end"} : data[s] \in Nat \cup {Null}
      /\ \A f \in {"start", "committed", "lso", "hw"} : log[f] \in Nat
  BY DataIsOffset DEF Base, ChainSections, Fields
<1>2. CASE Calm
  <2>1. /\ \A s \in {"offsets", "topics_window", "topics", "topics_lso"} : data'[s] = data[s]
        /\ \A f \in {"start", "committed", "lso", "hw"} : log[f] <= log'[f]
    BY <1>2 DEF Calm, ChainSections, Fields
  <2>2. \A f \in {"start", "committed", "lso", "hw"} : log'[f] \in Nat
    BY DEF Types
  <2> QED
    BY <1>1, <2>1, <2>2 DEF Behind, Null
<1>3. CASE OffsetsSampled
  <2>1. /\ \A s \in {"topics_window", "topics", "topics_lso"} : data'[s] = data[s]
        /\ log' = log /\ (data'["offsets"] # Null => data'["offsets"] = log.committed)
    BY <1>3 DEF OffsetsSampled, FloorStep, Changes, ChainSections
  <2> QED
    BY <1>1, <2>1 DEF Behind
<1>4. CASE WindowSampled
  <2>1. /\ \A s \in {"offsets", "topics", "topics_lso"} : data'[s] = data[s]
        /\ log' = log /\ (data'["topics_window"] # Null => data'["topics_window"] <= log.hw)
    BY <1>4 DEF WindowSampled, FloorStep, Changes, ChainSections
  <2> QED
    BY <1>1, <2>1 DEF Behind
<1>5. CASE \E d : CallStep("topics", "wait", "await", log.start, d)
  <2>1. /\ \A s \in {"offsets", "topics_window", "topics_lso"} : data'[s] = data[s]
        /\ log' = log /\ (data'["topics"] # Null => data'["topics"] = log.start)
    BY <1>5 DEF CallStep, Changes, ChainSections
  <2> QED
    BY <1>1, <2>1 DEF Behind
<1>6. CASE \E d : CallStep("topics_lso", "lso", "end", log.lso, d)
  <2>1. /\ \A s \in {"offsets", "topics_window", "topics"} : data'[s] = data[s]
        /\ log' = log /\ (data'["topics_lso"] # Null => data'["topics_lso"] = log.lso)
    BY <1>6 DEF CallStep, Changes, ChainSections
  <2> QED
    BY <1>1, <2>1 DEF Behind
<1>7. CASE \E d : CallStep("topics_end", "end", "maxTS", log.hw, d)
  <2>1. /\ \A s \in {"offsets", "topics_window", "topics", "topics_lso"} : data'[s] = data[s]
        /\ log' = log
    BY <1>7 DEF CallStep, Changes, ChainSections
  <2> QED
    BY <1>1, <2>1 DEF Behind
<1> QED
  BY <1>2, <1>3, <1>4, <1>5, <1>6, <1>7 DEF ChainStep

\* Here the order of the calls matters: a floor is never sampled once a ceiling
\* is in, and a ceiling sampled now is no lower than the log was before.
LEMMA InOrderStep ==
  ASSUME Base, Turns, Behind, InOrder, ChainStep
  PROVE  InOrder'
<1>1. /\ \A s \in {"offsets", "topics_window", "topics", "topics_lso", "topics_end"} : data[s] \in Nat \cup {Null}
      /\ \A f \in {"start", "committed", "lso", "hw"} : log[f] \in Nat
      /\ log.start <= log.lso /\ log.committed <= log.lso /\ log.lso <= log.hw
  BY DataIsOffset DEF Base, ChainSections, Fields, LogOrdered
<1>2. CASE Calm
  <2>1. \A s \in {"offsets", "topics_window", "topics", "topics_lso", "topics_end"} : data'[s] = data[s]
    BY <1>2 DEF Calm, ChainSections
  <2> QED
    BY <2>1 DEF InOrder, NotAbove
<1>3. CASE OffsetsSampled
  <2>1. /\ \A s \in {"topics_window", "topics", "topics_lso", "topics_end"} : data'[s] = data[s]
        /\ pc["offsets"] = "wait"
    BY <1>3 DEF OffsetsSampled, FloorStep, Changes, ChainSections
  <2>2. data["topics_lso"] = Null /\ data["topics_end"] = Null
    BY <2>1 DEF Turns, Done
  <2> QED
    BY <2>1, <2>2 DEF InOrder, NotAbove
<1>4. CASE WindowSampled
  <2>1. /\ \A s \in {"offsets", "topics", "topics_lso", "topics_end"} : data'[s] = data[s]
        /\ pc["window"] = "wait"
    BY <1>4 DEF WindowSampled, FloorStep, Changes, ChainSections
  <2>2. data["topics_lso"] = Null /\ data["topics_end"] = Null
    BY <2>1 DEF Turns, Done
  <2> QED
    BY <2>1, <2>2 DEF InOrder, NotAbove
<1>5. CASE \E d : CallStep("topics", "wait", "await", log.start, d)
  <2>1. /\ \A s \in {"offsets", "topics_window", "topics_lso", "topics_end"} : data'[s] = data[s]
        /\ pc["topics"] = "wait"
    BY <1>5 DEF CallStep, Changes, ChainSections
  <2>2. data["topics_lso"] = Null /\ data["topics_end"] = Null
    BY <2>1 DEF Turns
  <2> QED
    BY <2>1, <2>2 DEF InOrder, NotAbove
<1>6. CASE \E d : CallStep("topics_lso", "lso", "end", log.lso, d)
  <2>1. /\ \A s \in {"offsets", "topics_window", "topics", "topics_end"} : data'[s] = data[s]
        /\ pc["topics"] = "lso" /\ (data'["topics_lso"] # Null => data'["topics_lso"] = log.lso)
    BY <1>6 DEF CallStep, Changes, ChainSections
  <2>2. data["topics_end"] = Null
    BY <2>1 DEF Turns
  <2>3. /\ data["offsets"] # Null => data["offsets"] <= log.lso
        /\ data["topics"] # Null => data["topics"] <= log.lso
    BY <1>1 DEF Behind, Null
  <2> QED
    BY <2>1, <2>2, <2>3 DEF InOrder, NotAbove
<1>7. CASE \E d : CallStep("topics_end", "end", "maxTS", log.hw, d)
  <2>1. /\ \A s \in {"offsets", "topics_window", "topics", "topics_lso"} : data'[s] = data[s]
        /\ data'["topics_end"] # Null => data'["topics_end"] = log.hw
    BY <1>7 DEF CallStep, Changes, ChainSections
  <2>2. \A s \in {"offsets", "topics_window", "topics", "topics_lso"} : data[s] # Null => data[s] <= log.hw
    BY <1>1 DEF Behind, Null
  <2> QED
    BY <2>1, <2>2 DEF InOrder, NotAbove
<1> QED
  BY <1>2, <1>3, <1>4, <1>5, <1>6, <1>7 DEF ChainStep

\* A ceiling asked for before the committed offsets were in was asked for under
\* a context that was over, and shipped as failed or skipped.
Early ==
  /\ "topics_lso" \in early => /\ status["topics_lso"] \notin {"ok", "partial"}
                               /\ pc["topics"] \notin {"wait", "await", "lso"}
  /\ "topics_end" \in early => /\ status["topics_end"] \notin {"ok", "partial"}
                               /\ pc["topics"] \notin {"wait", "await", "lso", "end"}

LEMMA EarlyStep ==
  ASSUME Base, Awaited, Early, Advances, ChainStep
  PROVE  Early'
<1>1. pc["topics"] # "wait" => pc'["topics"] # "wait"
  BY GoroutineNames DEF Advances
<1>2. CASE Calm
  <2>1. /\ early' = early
        /\ status'["topics_lso"] \in {status["topics_lso"], "skipped"}
        /\ status'["topics_end"] \in {status["topics_end"], "skipped"}
    BY <1>2 DEF Calm, Ceilings
  <2>2. pc["topics"] \notin {"wait", "await", "lso"} => pc'["topics"] \notin {"wait", "await", "lso"}
    BY <1>2 DEF Calm
  <2>3. pc["topics"] \notin {"wait", "await", "lso", "end"} => pc'["topics"] \notin {"wait", "await", "lso", "end"}
    BY <1>2 DEF Calm
  <2> QED
    BY <2>1, <2>2, <2>3 DEF Early
<1>3. CASE OffsetsSampled \/ WindowSampled
  <2>1. /\ early' = early /\ pc'["topics"] = pc["topics"]
        /\ status'["topics_lso"] = status["topics_lso"] /\ status'["topics_end"] = status["topics_end"]
    BY <1>3 DEF OffsetsSampled, WindowSampled, FloorStep, Ceilings
  <2> QED
    BY <2>1 DEF Early
<1>4. CASE \E d : CallStep("topics", "wait", "await", log.start, d)
  <2>1. early' = early /\ pc["topics"] = "wait"
    BY <1>4 DEF CallStep, Ceilings
  <2> QED
    BY <2>1 DEF Early
<1>5. CASE \E d : CallStep("topics_lso", "lso", "end", log.lso, d)
  <2>1. /\ early' = IF Done("offsets") THEN early ELSE early \cup {"topics_lso"}
        /\ pc["topics"] = "lso" /\ pc'["topics"] = "end"
        /\ expired => status'["topics_lso"] \in {"failed", "skipped"}
    BY <1>5 DEF CallStep, Ceilings
  <2>2. "topics_lso" \notin early /\ "topics_end" \notin early
    BY <2>1 DEF Early
  <2>3. "topics_lso" \in early' => expired
    BY <2>1, <2>2 DEF Awaited
  <2> QED
    BY <2>1, <2>2, <2>3 DEF Early
<1>6. CASE \E d : CallStep("topics_end", "end", "maxTS", log.hw, d)
  <2>1. /\ early' = IF Done("offsets") THEN early ELSE early \cup {"topics_end"}
        /\ pc["topics"] = "end" /\ pc'["topics"] = "maxTS"
        /\ expired => status'["topics_end"] \in {"failed", "skipped"}
        /\ status'["topics_lso"] = status["topics_lso"]
    BY <1>6 DEF CallStep, Ceilings
  <2>2. "topics_end" \notin early
    BY <2>1 DEF Early
  <2>3. "topics_end" \in early' => expired
    BY <2>1, <2>2 DEF Awaited
  <2> QED
    BY <2>1, <2>2, <2>3 DEF Early
<1> QED
  BY <1>2, <1>3, <1>4, <1>5, <1>6 DEF ChainStep

ChainInv == Base /\ Chain /\ Early

\* The inductive invariant of the offset chain holds in every state.
THEOREM ChainHolds == Spec => []ChainInv
<1>1. Init => ChainInv
  <2> SUFFICES ASSUME Init PROVE ChainInv
    OBVIOUS
  <2>1. pc = [g \in Goroutines |-> "wait"] /\ data = [s \in SectionNames |-> Null] /\ early = {}
    BY DEF Init
  <2>2. pc["topics"] = "wait" /\ \A s \in ChainSections : data[s] = Null
    BY <2>1, GoroutineNames, ChainNames
  <2>3. \A s \in {"offsets", "topics_window", "topics", "topics_lso", "topics_end"} : data[s] = Null
    BY <2>2 DEF ChainSections
  <2>4. Chain
    BY <2>2, <2>3 DEF Chain, Awaited, Turns, Behind, InOrder, NotAbove
  <2>5. Early
    BY <2>1 DEF Early
  <2> QED
    BY <2>4, <2>5, BaseInit DEF ChainInv
<1>2. ASSUME ChainInv, Next
      PROVE  ChainInv'
  <2>1. Base /\ Awaited /\ Turns /\ Behind /\ InOrder /\ Early
    BY <1>2 DEF ChainInv, Chain
  <2>2. Base' /\ Types' /\ Advances /\ ChainStep
    BY <1>2, <2>1, BaseStep, NextAdvances, NextChain
  <2>3. Awaited' /\ Turns' /\ Behind' /\ InOrder'
    BY <2>1, <2>2, AwaitedStep, TurnsStep, BehindStep, InOrderStep
  <2>4. Early'
    BY <2>1, <2>2, EarlyStep
  <2> QED
    BY <2>2, <2>3, <2>4 DEF ChainInv, Chain
<1>3. ASSUME ChainInv, UNCHANGED vars
      PROVE  ChainInv'
  <2>1. Base'
    BY <1>3, BaseStutter DEF ChainInv
  <2>2. (Chain /\ Early)'
    BY <1>3 DEF ChainInv, Chain, Awaited, Turns, Behind, InOrder, NotAbove, Early, Done, vars
  <2> QED
    BY <2>1, <2>2 DEF ChainInv
<1> QED
  BY <1>1, <1>2, <1>3, PTL DEF Spec

\* The differences the receiver takes between the samples are never negative,
\* however the calls interleave with the log, the consumer and the timeout.
THEOREM DifferencesNotNegative == Spec => []NeverNegative
<1>1. ChainInv => NeverNegative
  BY DEF ChainInv, Chain, InOrder, NotAbove, NeverNegative, Both
<1> QED
  BY <1>1, ChainHolds, PTL

\* The mock ingest server objects to nothing the collector ships.
THEOREM BatchesAccepted == Spec => []IngestAccepts
<1>1. ChainInv /\ EverySectionShips => IngestAccepts
  <2> SUFFICES ASSUME ChainInv, EverySectionShips, batch
               PROVE  Verdicts = {}
    BY DEF IngestAccepts
  <2>1. ~\E s \in SectionNames : status[s] = "absent"
    BY DEF EverySectionShips
  <2>2. /\ "topics_end" \in early => status["topics_end"] \notin {"ok", "partial"}
        /\ "topics_lso" \in early => status["topics_lso"] \notin {"ok", "partial"}
    BY DEF ChainInv, Early
  <2>3. /\ ~("topics_end" \in early /\ SectionsUsable({"topics_end", "offsets"}))
        /\ ~("topics_lso" \in early /\ SectionsUsable({"topics_end", "offsets", "topics_lso"}))
    BY <2>2 DEF SectionsUsable
  <2>4. \A s \in {"offsets", "topics_window", "topics", "topics_lso", "topics_end"} : data[s] \in Nat \cup {Null}
    BY DataIsOffset DEF ChainInv, Base, ChainSections
  <2>5. /\ NotAbove("topics", "topics_end") /\ NotAbove("topics_lso", "topics_end")
        /\ NotAbove("topics", "topics_lso") /\ NotAbove("offsets", "topics_end")
    BY DEF ChainInv, Chain, InOrder
  <2>6. /\ ~Below("topics_end", "topics") /\ ~Below("topics_end", "topics_lso")
        /\ ~Below("topics_lso", "topics") /\ ~Below("topics_end", "offsets")
    BY <2>4, <2>5 DEF NotAbove, Below, Both, Null
  <2>7. DOMAIN Objections = {"missing", "phase_order", "lso_before_offsets", "offset_inverted",
                             "lso_above_end_offset", "lso_below_start_offset", "negative_lag"}
    BY DEF Objections
  <2>8. \A code \in DOMAIN Objections : ~Objections[code]
    <3>1. ~Objections["missing"]
      BY <2>1 DEF Objections
    <3>2. ~Objections["phase_order"] /\ ~Objections["lso_before_offsets"]
      BY <2>3 DEF Objections
    <3>3. ~Objections["offset_inverted"] /\ ~Objections["lso_above_end_offset"]
          /\ ~Objections["lso_below_start_offset"] /\ ~Objections["negative_lag"]
      BY <2>6 DEF Objections
    <3> QED
      BY <2>7, <3>1, <3>2, <3>3
  <2> QED
    BY <2>8 DEF Verdicts
<1> QED
  BY <1>1, ChainHolds, AllSectionsShip, PTL

-----------------------------------------------------------------------------
(* Status and data *)

\* A goroutine that has not started has reported nothing.
Untouched ==
  /\ \A g \in OneSection : pc[g] = "wait" => status[SectionOf(g)] = "absent"
  /\ pc["topics"] = "wait" => \A s \in TopicSections : status[s] = "absent"

DescribedSections == {"groups", "offsets", "log_dirs", "topic_configs", "broker_configs", "share_groups",
                      "epoch_probes"}
SilentSections == SectionNames \ DescribedSections

\* A section that failed is empty.
Silent == \A s \in SilentSections : status[s] \in {"failed", "unauthorized"} => data[s] = Null

\* A section that is ok carries what was asked for.
TruthfulSections == (TopicSections \ {"topics_max_timestamp"}) \cup {"topics_window"}
Truthful ==
  \A s \in TruthfulSections : status[s] = "ok" /\ meta = "some" => data[s] # Null
Listed == status["offsets"] = "ok" /\ listing.ids => data["offsets"] # Null

\* The epoch probes have an answer, unless the first round is still to come.
Probed ==
  pc["epoch"] \in {"wait", "done"} /\ status["epoch_probes"] = "ok" => data["epoch_probes"] # Null

Faithful == Untouched /\ Silent /\ Truthful /\ Listed /\ Probed

LEMMA SilentNames ==
  /\ SilentSections \subseteq SectionNames /\ TopicSections \cup {"broker_rpc"} \subseteq SilentSections
  /\ TopicSections \cup {"topics_window", "offsets"} \subseteq SectionNames
  /\ "offsets" \notin TopicSections /\ "topics_window" \notin TopicSections
  /\ "broker_rpc" \notin TopicSections \cup {"topics_window", "offsets", "epoch_probes"}
  /\ "epoch_probes" \in SectionNames /\ "epoch_probes" \notin TopicSections /\ "epoch" \in OneSection
  /\ SectionOf("epoch") = "epoch_probes"
  /\ TruthfulSections \subseteq TopicSections \cup {"topics_window"} /\ "topics_max_timestamp" \notin TruthfulSections
  /\ \A g \in OneSection : SectionOf(g) \in SilentSections => g \in {"cluster", "window", "reassign"}
<1>1. OneSection = {"cluster", "groups", "offsets", "window", "logDirs", "share", "topicConfigs", "brokerConfigs",
                    "reassign", "epoch"}
  BY DEF OneSection, Goroutines, WaitGroup
<1>2. \A g \in OneSection : SectionOf(g) \in SilentSections => g \in {"cluster", "window", "reassign"}
  BY <1>1 DEF SectionOf, SilentSections, DescribedSections
<1>3. /\ SilentSections \subseteq SectionNames /\ TopicSections \cup {"broker_rpc"} \subseteq SilentSections
      /\ TopicSections \cup {"topics_window", "offsets"} \subseteq SectionNames
      /\ "offsets" \notin TopicSections /\ "topics_window" \notin TopicSections
      /\ "broker_rpc" \notin TopicSections \cup {"topics_window", "offsets", "epoch_probes"}
      /\ "epoch_probes" \in SectionNames /\ "epoch_probes" \notin TopicSections
  BY DEF SilentSections, DescribedSections, SectionNames, TopicSections, LaterTopicSections
<1>4. "epoch" \in OneSection /\ SectionOf("epoch") = "epoch_probes"
  BY <1>1 DEF SectionOf
<1>5. TruthfulSections \subseteq TopicSections \cup {"topics_window"} /\ "topics_max_timestamp" \notin TruthfulSections
  BY DEF TruthfulSections
<1> QED
  BY <1>2, <1>3, <1>4, <1>5

LEMMA PhaseFaithful ==
  ASSUME Base, Faithful, NEW g \in OneSection, NEW to, NEW st, NEW d, PhaseStep(g, to, st, d)
  PROVE  Faithful'
<1>1. /\ pc[g] = "wait" /\ to \in Steps(g) /\ to # "wait" /\ g \in Goroutines /\ g # "topics"
      /\ st \in Statuses /\ d \in Nat \cup {Null} /\ pc' = [pc EXCEPT ![g] = to]
      /\ status' = [status EXCEPT ![SectionOf(g)] = st] /\ data' = [data EXCEPT ![SectionOf(g)] = d]
      /\ SectionOf(g) \in SectionNames /\ SectionOf(g) \notin TopicSections
      /\ Honest(g, st, d) /\ listing' = listing /\ (g # "cluster" => meta' = meta)
      /\ (g = "epoch" /\ to = "done" => st # "ok")
  BY SectionsApart, GoroutineNames DEF PhaseStep, Ready
<1>2. Types
  BY DEF Base
<1>3. pc'[g] = to /\ \A h \in Goroutines : h # g => pc'[h] = pc[h]
  BY <1>1, <1>2, PcTyped
<1>4. status'[SectionOf(g)] = st /\ \A t \in SectionNames : t # SectionOf(g) => status'[t] = status[t]
  BY <1>1, <1>2, FillTyped
<1>5. data'[SectionOf(g)] = d /\ \A t \in SectionNames : t # SectionOf(g) => data'[t] = data[t]
  BY <1>1, <1>2, DataTyped
<1>6. Untouched'
  <2>1. \A h \in OneSection : pc'[h] = "wait" => status'[SectionOf(h)] = "absent"
    BY <1>1, <1>3, <1>4, SectionsApart, GoroutineNames DEF Faithful, Untouched
  <2>2. pc'["topics"] = "wait" => \A s \in TopicSections : status'[s] = "absent"
    BY <1>1, <1>3, <1>4, GoroutineNames DEF Faithful, Untouched
  <2> QED
    BY <2>1, <2>2 DEF Untouched
<1>7. Silent'
  <2> SUFFICES ASSUME NEW s \in SilentSections, status'[s] \in {"failed", "unauthorized"}
               PROVE  data'[s] = Null
    BY DEF Silent
  <2>1. CASE s = SectionOf(g)
    BY <1>1, <1>4, <1>5, <2>1, SilentNames DEF Honest
  <2>2. CASE s # SectionOf(g)
    BY <1>4, <1>5, <2>2, SilentNames DEF Faithful, Silent
  <2> QED
    BY <2>1, <2>2
<1>8. Truthful'
  <2> SUFFICES ASSUME NEW s \in TruthfulSections, status'[s] = "ok", meta' = "some"
               PROVE  data'[s] # Null
    BY DEF Truthful
  <2>0. s \in TopicSections \cup {"topics_window"}
    BY SilentNames
  <2>1. CASE g = "cluster"
    <3>1. pc["topics"] = "wait" /\ pc["window"] = "wait"
      <4>1. "topics" \in Goroutines /\ "window" \in Goroutines /\ "cluster" \in Waits["topics"] /\ "cluster" \in Waits["window"]
        BY DEF Goroutines, WaitGroup, Waits
      <4> QED
        BY <1>1, <2>1, <4>1 DEF Base, Waited, Done
    <3>2. status[s] = "absent"
      BY <2>0, <3>1, ChainNames DEF Faithful, Untouched
    <3>3. s # SectionOf(g)
      BY <1>1, <2>0, <2>1, ChainNames, SectionsApart
    <3>4. status'[s] = status[s]
      BY <1>4, <2>0, <3>3, SilentNames
    <3> QED
      BY <3>2, <3>4
  <2>2. CASE g = "window"
    <3>1. SectionOf(g) = "topics_window" /\ meta' = meta
      BY <1>1, <2>2, ChainNames
    <3>2. s = "topics_window" => d # Null
      BY <1>1, <1>4, <2>2, <3>1 DEF Honest
    <3> QED
      BY <1>4, <1>5, <2>0, <3>1, <3>2, SilentNames DEF Faithful, Truthful
  <2>3. CASE g \notin {"cluster", "window"}
    <3>1. SectionOf(g) # "topics_window" /\ meta' = meta
      BY <1>1, <2>3, ChainNames, SectionsApart
    <3> QED
      BY <1>1, <1>4, <1>5, <2>0, <3>1, SilentNames DEF Faithful, Truthful
  <2> QED
    BY <2>1, <2>2, <2>3
<1>9. Listed'
  <2>1. CASE g = "offsets"
    BY <1>1, <1>4, <1>5, <2>1, ChainNames DEF Honest, Listed
  <2>2. CASE g # "offsets"
    <3>1. SectionOf(g) # "offsets"
      BY <2>2, ChainNames, SectionsApart
    <3> QED
      BY <1>1, <1>4, <1>5, <3>1, SilentNames DEF Faithful, Listed
  <2> QED
    BY <2>1, <2>2
<1>10. Probed'
  <2>1. CASE g = "epoch"
    BY <1>1, <1>3, <1>4, <2>1, SilentNames DEF Probed
  <2>2. CASE g # "epoch"
    <3>1. SectionOf(g) # "epoch_probes" /\ "epoch" \in Goroutines
      BY <2>2, SilentNames, SectionsApart, GoroutineNames
    <3> QED
      BY <1>1, <1>3, <1>4, <1>5, <2>2, <3>1, SilentNames DEF Faithful, Probed
  <2> QED
    BY <2>1, <2>2
<1> QED
  BY <1>6, <1>7, <1>8, <1>9, <1>10 DEF Faithful

LEMMA SecondFaithful ==
  ASSUME Base, Faithful, NEW g \in {"groups", "share", "epoch"}, NEW to, NEW st, NEW d, SecondStep(g, to, st, d)
  PROVE  Faithful'
<1>1. /\ pc[g] # "wait" /\ to \in Steps(g) /\ to # "wait" /\ g \in Goroutines /\ g \in OneSection /\ g # "topics"
      /\ st \in Statuses /\ d \in Nat \cup {Null} /\ (g = "epoch" /\ st = "ok" => d # Null)
      /\ pc' = [pc EXCEPT ![g] = to]
      /\ status' = [status EXCEPT ![SectionOf(g)] = st] /\ data' = [data EXCEPT ![SectionOf(g)] = d]
      /\ UNCHANGED <<meta, listing>>
  BY GoroutineNames DEF SecondStep
<1>2. Types /\ SectionOf(g) \in SectionNames /\ SectionOf(g) \notin TopicSections
  BY <1>1, SectionsApart DEF Base
<1>3. SectionOf(g) \notin SilentSections /\ SectionOf(g) \notin {"topics_window", "offsets"}
  BY <1>1, SilentNames, ChainNames, SectionsApart
<1>4. pc'[g] = to /\ \A h \in Goroutines : h # g => pc'[h] = pc[h]
  BY <1>1, <1>2, PcTyped
<1>5. status'[SectionOf(g)] = st /\ \A t \in SectionNames : t # SectionOf(g) => status'[t] = status[t]
  BY <1>1, <1>2, FillTyped
<1>6. data'[SectionOf(g)] = d /\ \A t \in SectionNames : t # SectionOf(g) => data'[t] = data[t]
  BY <1>1, <1>2, DataTyped
<1>7. \A h \in OneSection : pc'[h] = "wait" => status'[SectionOf(h)] = "absent"
  BY <1>1, <1>4, <1>5, SectionsApart, GoroutineNames DEF Faithful, Untouched
<1>8. pc'["topics"] = "wait" => \A s \in TopicSections : status'[s] = "absent"
  BY <1>1, <1>2, <1>4, <1>5, GoroutineNames DEF Faithful, Untouched
<1>9. Silent' /\ Truthful' /\ Listed'
  BY <1>1, <1>2, <1>3, <1>5, <1>6, SilentNames DEF Faithful, Silent, Truthful, Listed
<1>10. Probed'
  <2>1. CASE g = "epoch"
    BY <1>1, <1>5, <1>6, <2>1, SilentNames DEF Probed
  <2>2. CASE g # "epoch"
    <3>1. SectionOf(g) # "epoch_probes" /\ "epoch" \in Goroutines
      BY <1>1, <2>2, SilentNames, SectionsApart, GoroutineNames
    <3> QED
      BY <1>4, <1>5, <1>6, <2>2, <3>1, SilentNames DEF Faithful, Probed
  <2> QED
    BY <2>1, <2>2
<1> QED
  BY <1>7, <1>8, <1>9, <1>10 DEF Faithful, Untouched

LEMMA CallFaithful ==
  ASSUME Base, Faithful, NEW s, NEW from, NEW to, NEW st, NEW d, Call(s, from, to), SampleStep(s, from, to, st, d)
  PROVE  Faithful'
<1>1. /\ pc["topics"] = from /\ pc' = [pc EXCEPT !["topics"] = to]
      /\ st \in Statuses /\ d \in Nat \cup {Null}
      /\ status' = [status EXCEPT ![s] = st] /\ data' = [data EXCEPT ![s] = d]
      /\ (st \in {"failed", "unauthorized"} => d = Null) /\ (st = "ok" /\ s # "topics_max_timestamp" => d # Null)
      /\ UNCHANGED <<meta, listing>>
  BY DEF SampleStep
<1>2. Types
  BY DEF Base
<1>3. to \in Steps("topics") /\ to # "wait" /\ s \in TopicSections /\ s \in SectionNames
  BY CallFills, GoroutineNames
<1>4. pc'["topics"] = to /\ \A h \in Goroutines : h # "topics" => pc'[h] = pc[h]
  BY <1>1, <1>2, <1>3, PcTyped, GoroutineNames
<1>5. status'[s] = st /\ \A t \in SectionNames : t # s => status'[t] = status[t]
  BY <1>1, <1>2, <1>3, FillTyped
<1>6. data'[s] = d /\ \A t \in SectionNames : t # s => data'[t] = data[t]
  BY <1>1, <1>2, <1>3, DataTyped
<1>7. \A h \in OneSection : pc'[h] = "wait" => status'[SectionOf(h)] = "absent"
  BY <1>3, <1>4, <1>5, SectionsApart, GoroutineNames DEF Faithful, Untouched
<1>8. Untouched'
  BY <1>3, <1>4, <1>7 DEF Untouched
<1>9. Silent' /\ Truthful'
  BY <1>1, <1>5, <1>6, SilentNames DEF Faithful, Silent, Truthful
<1>10. Listed'
  BY <1>1, <1>3, <1>5, <1>6, SilentNames DEF Faithful, Listed
<1>11. Probed'
  BY <1>3, <1>4, <1>5, <1>6, SilentNames, GoroutineNames DEF Faithful, Probed
<1> QED
  BY <1>8, <1>9, <1>10, <1>11 DEF Faithful

LEMMA SkipTopicsFaithful ==
  ASSUME Base, Faithful, SkipTopics
  PROVE  Faithful'
<1>1. /\ meta # "some" /\ pc' = [pc EXCEPT !["topics"] = "done"] /\ "done" \in Steps("topics")
      /\ UNCHANGED <<meta, listing, data>>
      /\ status' = [s \in SectionNames |->
                      IF s \in LaterTopicSections THEN "skipped"
                      ELSE IF s = "topics" THEN (IF meta = "failed" THEN "skipped" ELSE "ok")
                      ELSE status[s]]
  BY DEF SkipTopics, Step, Steps
<1>2. Types
  BY DEF Base
<1>3. pc'["topics"] = "done" /\ \A h \in Goroutines : h # "topics" => pc'[h] = pc[h]
  BY <1>1, <1>2, PcTyped, GoroutineNames
<1>4. \A s \in SectionNames : IF s \in TopicSections THEN status'[s] \in {"skipped", "ok"} ELSE status'[s] = status[s]
  BY <1>1 DEF TopicSections
<1>5. Untouched'
  BY <1>3, <1>4, SectionsApart, GoroutineNames DEF Faithful, Untouched
<1>6. Silent' /\ Truthful' /\ Listed'
  BY <1>1, <1>4, SilentNames DEF Faithful, Silent, Truthful, Listed
<1>7. Probed'
  BY <1>1, <1>3, <1>4, SilentNames, GoroutineNames DEF Faithful, Probed
<1> QED
  BY <1>5, <1>6, <1>7 DEF Faithful

LEMMA SkipOffFaithful ==
  ASSUME Base, Faithful, SkipOff
  PROVE  Faithful'
<1>1. /\ \A g \in Goroutines : pc'[g] = IF g \in Off THEN "done" ELSE pc[g]
      /\ \A s \in SectionNames : (\A g \in Off : SectionOf(g) # s) => status'[s] = status[s]
      /\ \A s \in SectionNames : status'[s] \in {"skipped", status[s]}
      /\ \A g \in Off : status'[SectionOf(g)] = "skipped"
  BY SkipOffEffect DEF Base
<1>2. UNCHANGED <<meta, listing, data>>
  BY DEF SkipOff
<1>3. \A g \in Off : g \in OneSection /\ g # "topics" /\ SectionOf(g) \notin TopicSections
  BY OffSections, SectionsApart, GoroutineNames
<1>4. \A h \in OneSection : pc'[h] = "wait" => status'[SectionOf(h)] = "absent"
  BY <1>1, <1>3, SectionsApart, GoroutineNames DEF Faithful, Untouched
<1>5. pc'["topics"] = "wait" => \A s \in TopicSections : status'[s] = "absent"
  BY <1>1, <1>3, GoroutineNames DEF Faithful, Untouched
<1>6. Silent' /\ Truthful' /\ Listed'
  BY <1>1, <1>2, SilentNames DEF Faithful, Silent, Truthful, Listed
<1>7. Probed'
  BY <1>1, <1>2, SilentNames, GoroutineNames DEF Faithful, Probed
<1> QED
  BY <1>4, <1>5, <1>6, <1>7 DEF Faithful, Untouched

LEMMA BuildFaithful ==
  ASSUME Base, Faithful, BuildBatch
  PROVE  Faithful'
<1>1. /\ status' = [status EXCEPT !["broker_rpc"] = "ok"] /\ data' = [data EXCEPT !["broker_rpc"] = Shipped]
      /\ UNCHANGED <<pc, meta, listing>>
  BY DEF BuildBatch, CollectRPC, Fill
<1>2. Types /\ Shipped \in Nat \cup {Null}
  BY DEF Base, Shipped
<1>3. status'["broker_rpc"] = "ok" /\ \A t \in SectionNames : t # "broker_rpc" => status'[t] = status[t]
  BY <1>1, <1>2, FillTyped, StatusesPresent, GoroutineNames
<1>4. \A t \in SectionNames : t # "broker_rpc" => data'[t] = data[t]
  BY <1>1, <1>2, DataTyped, GoroutineNames
<1>5. Untouched'
  BY <1>1, <1>3, SectionsApart, SilentNames DEF Faithful, Untouched
<1>6. Silent' /\ Truthful' /\ Listed'
  BY <1>1, <1>3, <1>4, SilentNames DEF Faithful, Silent, Truthful, Listed
<1>7. Probed'
  BY <1>1, <1>3, <1>4, SilentNames DEF Faithful, Probed
<1> QED
  BY <1>5, <1>6, <1>7 DEF Faithful

LEMMA ListFaithful ==
  ASSUME Base, Faithful, ListGroups
  PROVE  Faithful'
<1>1. /\ pc["list"] = "wait" /\ pc' = [pc EXCEPT !["list"] = "done"] /\ "done" \in Steps("list")
      /\ UNCHANGED <<meta, status, data>>
  BY DEF ListGroups, Step, Ready, Steps
<1>2. pc'["list"] = "done" /\ \A h \in Goroutines : h # "list" => pc'[h] = pc[h]
  BY <1>1, PcTyped, GoroutineNames DEF Base
<1>3. pc["offsets"] = "wait"
  <2>1. "offsets" \in Goroutines /\ "list" \in Waits["offsets"]
    BY DEF Goroutines, WaitGroup, Waits
  <2> QED
    BY <1>1, <2>1 DEF Base, Waited, Done
<1>4. status["offsets"] = "absent"
  BY <1>3, ChainNames DEF Faithful, Untouched
<1>5. Untouched'
  BY <1>1, <1>2, GoroutineNames DEF Faithful, Untouched
<1>6. Silent' /\ Truthful' /\ Listed'
  BY <1>1, <1>4 DEF Faithful, Silent, Truthful, Listed
<1>7. Probed'
  BY <1>1, <1>2, SilentNames, GoroutineNames DEF Faithful, Probed
<1> QED
  BY <1>5, <1>6, <1>7 DEF Faithful

LEMMA QuietFaithful ==
  ASSUME Faithful, UNCHANGED <<pc, meta, listing, status, data>>
  PROVE  Faithful'
BY DEF Faithful, Untouched, Silent, Truthful, Listed, Probed

LEMMA FaithfulStep ==
  ASSUME Base, Faithful, Next
  PROVE  Faithful'
<1>1. \/ LogStep \/ Timeout \/ Phases \/ Seconds \/ ListGroups
      \/ SkipTopics \/ AwaitFloors \/ TopicCalls \/ SkipOff \/ BuildBatch
  BY StepKinds DEF Base
<1>2. CASE LogStep \/ Timeout
  <2>1. UNCHANGED <<pc, meta, listing, status, data>>
    BY <1>2 DEF LogStep, Timeout
  <2> QED
    BY <2>1, QuietFaithful
<1>3. CASE Phases
  BY <1>3, PhaseFaithful DEF Phases
<1>4. CASE Seconds
  BY <1>4, SecondFaithful DEF Seconds
<1>5. CASE AwaitFloors
  <2>1. /\ pc["topics"] = "await" /\ pc' = [pc EXCEPT !["topics"] = "lso"] /\ "lso" \in Steps("topics")
        /\ UNCHANGED <<meta, listing, status, data>>
    BY <1>5 DEF AwaitFloors, Step, Steps, TopicSteps
  <2>2. pc'["topics"] = "lso" /\ \A h \in Goroutines : h # "topics" => pc'[h] = pc[h]
    BY <2>1, PcTyped, GoroutineNames DEF Base
  <2>3. Untouched'
    BY <2>1, <2>2, GoroutineNames DEF Faithful, Untouched
  <2>4. Silent' /\ Truthful' /\ Listed'
    BY <2>1 DEF Faithful, Silent, Truthful, Listed
  <2>5. Probed'
    BY <2>1, <2>2, SilentNames, GoroutineNames DEF Faithful, Probed
  <2> QED
    BY <2>3, <2>4, <2>5 DEF Faithful
<1>6. CASE TopicCalls
  BY <1>6, TopicCallsSplit, CallFaithful
<1> QED
  BY <1>1, <1>2, <1>3, <1>4, <1>5, <1>6, ListFaithful, SkipTopicsFaithful, SkipOffFaithful, BuildFaithful

\* The status of a section promises neither more nor less than it carries, in
\* every batch and whatever was answered, for the sections and the halves that
\* StatusHonest names: a max timestamp section may be ok without the partition,
\* and epoch probes failed with the answers of the rounds before.
THEOREM StatusesStayHonest == Spec => []StatusHonest
<1>1. Init => Faithful
  <2> SUFFICES ASSUME Init PROVE Faithful
    OBVIOUS
  <2>1. \A s \in SectionNames : status[s] = "absent"
    BY DEF Init
  <2> QED
    BY <2>1, SilentNames, SectionsApart DEF Faithful, Untouched, Silent, Truthful, Listed, Probed
<1>2. Base /\ Faithful /\ [Next]_vars => Faithful'
  <2>1. ASSUME Faithful, UNCHANGED vars
        PROVE  Faithful'
    BY <2>1, QuietFaithful DEF vars
  <2> QED
    BY <2>1, FaithfulStep
<1>3. Base /\ Faithful => StatusHonest
  <2> SUFFICES ASSUME Base, Faithful, batch
               PROVE  StatusHonest
    BY DEF StatusHonest
  <2>1. NoDataIn(SilentSections)
    BY DEF Faithful, Silent, NoDataIn
  <2>2. \A s \in TruthfulSections : status[s] = "ok" /\ meta = "some" => data[s] # Null
    BY DEF Faithful, Truthful
  <2>3. TruthfulSections = {"topics", "topics_window"} \cup (LaterTopicSections \ {"topics_max_timestamp"})
    BY DEF TruthfulSections, TopicSections
  <2>4. pc["epoch"] = "done"
    BY DEF Base, Filled, WaitGroup, Done
  <2>5. status["epoch_probes"] = "ok" => data["epoch_probes"] # Null
    BY <2>4 DEF Faithful, Probed
  <2>6. status["offsets"] = "ok" /\ listing.ids => data["offsets"] # Null
    BY DEF Faithful, Listed
  <2> QED
    BY <2>1, <2>2, <2>3, <2>5, <2>6 DEF StatusHonest, SilentSections, DescribedSections
<1> QED
  BY <1>1, <1>2, <1>3, BaseHolds, PTL DEF Spec
=============================================================================
