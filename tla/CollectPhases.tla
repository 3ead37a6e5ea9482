--------------------------- MODULE CollectPhases ----------------------------
(***************************************************************************)
(* internal/collector: the goroutines of one Collect call, the channels    *)
(* that order them, and the section each of them fills, while the cluster  *)
(* they sample keeps moving and the collection timeout may strike at any   *)
(* moment.                                                                 *)
(*                                                                         *)
(* A channel is closed when the goroutine that owns it is done.  The       *)
(* cluster is one partition with one consumer that reads committed records *)
(* only; a section carries the sample of that partition, or of that group. *)
(* The other data of a section is abstracted to whether it is shipped.     *)
(***************************************************************************)
EXTENDS Integers, Sections

CONSTANTS
  Calls,       \* the calls of Collect considered: the cycle number, the switches that are
               \* on after the capability gates, how requests may be answered meanwhile,
               \* and the bound on the log
  ListReplies, \* how the ListGroups broadcast may be answered
  WindowEvery, LogDirsEvery, ConfigsEvery, MaxTimestampEvery

Switches == {"lso", "window", "maxTS", "tiered", "latestTiered", "logDirs", "configs",
             "shareGroups", "consumerGroups", "reassignments", "epochProbes"}

AllReplies == {"ok", "missing", "shards", "shardsOther", "allShards", "allDenied", "denied",
               "deniedLate", "error"}

ASSUME CallsAssumption ==
  \A c \in Calls : /\ c.n \in Nat /\ c.enabled \subseteq Switches
                   /\ c.replies \subseteq AllReplies /\ "error" \in c.replies
                   /\ c.maxOffset \in Nat

ASSUME ConstantsAssumption ==
  /\ ListReplies \subseteq {"all", "some", "none"}
  /\ {WindowEvery, LogDirsEvery, ConfigsEvery, MaxTimestampEvery} \subseteq Nat

VARIABLES
  log,        \* the partition: start, committed, lso and hw offsets
  expired,    \* the context of this Collect is done
  call,       \* this Collect: one of Calls
  pc,         \* per goroutine
  meta,       \* topicDetails: "failed", or whether any topic is selected
  listing,    \* groupIDs and listErr
  status,     \* per section
  data,       \* per section: the sample it ships, or Null
  batch,      \* the batch has been built
  overrun,    \* the consumer has been behind start, at any moment
  early       \* ceilings sampled before the committed offsets were in

vars == <<log, expired, call, pc, meta, listing, status, data, batch, overrun, early>>

Null == -1
Shipped == 0

SectionNames ==
  {"cluster", "topics", "topics_window", "topics_lso", "topics_end", "topics_max_timestamp",
   "topics_local_start", "topics_remote_end", "groups", "offsets", "epoch_probes", "log_dirs",
   "reassignments", "topic_configs", "broker_configs", "share_groups", "broker_rpc"}

\* The goroutines wg counts, and the one it does not.
WaitGroup == {"cluster", "groups", "offsets", "window", "topics", "logDirs", "share",
              "topicConfigs", "brokerConfigs", "reassign", "epoch"}
Goroutines == WaitGroup \cup {"list"}

\* Whose channels a goroutine receives from before it starts.
Waits == [g \in Goroutines |->
  CASE g \in {"cluster", "list"} -> {}
    [] g \in {"groups", "share"} -> {"list"}
    [] g = "offsets" -> {"cluster", "list"}
    [] g \in {"window", "topics"} -> {"cluster"}
    [] g \in {"logDirs", "brokerConfigs"} -> {"cluster", "topics"}
    [] g \in {"topicConfigs", "reassign"} -> {"topics"}
    [] g = "epoch" -> {"offsets", "topics"}]

Done(g) == pc[g] = "done"
Ready(g) == pc[g] = "wait" /\ \A h \in Waits[g] : Done(h)

\* runsThisCycle, with the phase offsets.
EveryNth(every) == IF every < 1 THEN 1 ELSE every
RunsThisCycle(switch, every, offset) == switch \in call.enabled /\ (call.n + offset) % EveryNth(every) = 0
RunWindow == RunsThisCycle("window", WindowEvery, 0)
RunDirs == RunsThisCycle("logDirs", LogDirsEvery, 0)
RunConfigs == RunsThisCycle("configs", ConfigsEvery, 5)
RunMaxTS == RunsThisCycle("maxTS", MaxTimestampEvery, 2)

Init ==
  /\ log = [start |-> 0, committed |-> 0, lso |-> 0, hw |-> 0]
  /\ expired = FALSE
  /\ call \in Calls
  /\ pc = [g \in Goroutines |-> "wait"]
  /\ meta = "pending"
  /\ listing = [ids |-> FALSE, err |-> "none"]
  /\ status = [s \in SectionNames |-> "absent"]
  /\ data = [s \in SectionNames |-> Null]
  /\ batch = FALSE /\ overrun = FALSE /\ early = {}

-----------------------------------------------------------------------------
(* The cluster and the clock *)

\* The log moves as long as a phase may still sample it: the last to do so is
\* the call for the end offsets, for once the context is over requests fail.
LogMoves == call.maxOffset > 0 /\ pc["topics"] \in {"wait", "await", "lso", "end"}

WatchOverrun == overrun' = (overrun \/ log'.committed < log'.start)

Moves(field, limit) ==
  /\ LogMoves
  /\ \E o \in (log[field] + 1)..limit : log' = [log EXCEPT ![field] = o]
  /\ WatchOverrun
  /\ UNCHANGED <<expired, call, pc, meta, listing, status, data, batch, early>>

Produce == Moves("hw", call.maxOffset)
EndTransaction == Moves("lso", log.hw)
Consume == Moves("committed", log.lso)

\* Retention or DeleteRecords: an aborted or unfinished transaction goes with
\* the records it is in, so the last stable offset is never below the start.
Retention ==
  /\ LogMoves
  /\ \E o \in (log.start + 1)..log.hw :
       log' = [log EXCEPT !.start = o, !.lso = IF @ < o THEN o ELSE @]
  /\ WatchOverrun
  /\ UNCHANGED <<expired, call, pc, meta, listing, status, data, batch, early>>

Timeout ==
  /\ ~expired /\ ~batch
  /\ expired' = TRUE
  /\ UNCHANGED <<log, call, pc, meta, listing, status, data, batch, overrun, early>>

-----------------------------------------------------------------------------
(* Requests *)

\* A request under a context that is done fails.
Answers == IF expired THEN {"error"} ELSE call.replies

OutcomeOf(r) ==
  CASE r \in {"ok", "missing"} -> "none"
    [] r \in {"shards", "shardsOther"} -> "shards"
    [] r = "deniedLate" -> "denied"
    [] OTHER -> r

GotData(r) == r \in {"ok", "missing", "shards", "shardsOther", "deniedLate"}
HasOurs(r) == r \in {"ok", "shards", "deniedLate"}

\* The status after a reply that is looked up for the partition: what the call
\* does to it, and the error of a partition that a usable reply should have and
\* has not.
SampleStatus(before, r) ==
  LET after == RequestPartial(before, OutcomeOf(r), GotData(r))
  IN  IF GotData(r) /\ ~HasOurs(r) THEN RecordEntity(after) ELSE after

\* A List*Offsets reply does that for its section.  Only maxTimestamp records
\* nothing of a partition missing from a topic that is listed.
SampleStatuses(s, r) ==
  {SampleStatus("ok", r)} \cup
    (IF s = "topics_max_timestamp" THEN {RequestPartial("ok", OutcomeOf(r), GotData(r))} ELSE {})

\* A request to one broker has no shards, and no data when it fails.
WholeAnswers == Answers \cap {"ok", "denied", "error"}

\* The phases that describe keep every row they got, whatever request says of
\* the reply, and correct no status; "missing" is a row with an error.
DescribeAnswers == Answers \ {"shardsOther"}
DescribeStatus(before, r) ==
  LET after == Request(before, OutcomeOf(r)) IN IF r = "missing" THEN RecordEntity(after) ELSE after
DescribeData(r) == IF GotData(r) THEN Shipped ELSE Null

Step(g, to) == pc' = [pc EXCEPT ![g] = to]
Fill(s, st, d) == status' = [status EXCEPT ![s] = st] /\ data' = [data EXCEPT ![s] = d]

-----------------------------------------------------------------------------
(* The phases *)

CollectCluster ==
  /\ Ready("cluster")
  /\ \E r \in WholeAnswers :
       /\ Fill("cluster", Request("ok", OutcomeOf(r)), DescribeData(r))
       /\ meta' \in IF Usable(OutcomeOf(r)) THEN {"some", "none"} ELSE {"failed"}
  /\ Step("cluster", "done")
  /\ UNCHANGED <<log, expired, call, listing, batch, overrun, early>>

\* listGroups returns the groups of the brokers that answered, and the first
\* broker's error as it is, not as a shard error.
ListGroups ==
  /\ Ready("list")
  /\ \E r \in IF expired THEN {"none"} ELSE ListReplies :
       /\ listing' \in [ids : IF r = "none" THEN {FALSE} ELSE BOOLEAN,
                        err : IF r = "all" THEN {"none"} ELSE {"error", "denied"}]
  /\ Step("list", "done")
  /\ UNCHANGED <<log, expired, call, meta, status, data, batch, overrun, early>>

CollectGroups ==
  /\ Ready("groups")
  /\ LET listed == Request("ok", listing.err) IN
     IF ~listing.ids THEN Fill("groups", listed, Null) /\ Step("groups", "done")
     ELSE \E r \in DescribeAnswers :
            /\ Fill("groups", DescribeStatus(listed, r), DescribeData(r))
            /\ Step("groups", IF GotData(r) /\ "consumerGroups" \in call.enabled THEN "enrich" ELSE "done")
  /\ UNCHANGED <<log, expired, call, meta, listing, batch, overrun, early>>

\* enrichConsumerGroups: an overlay on groups that are shipped anyway.
EnrichConsumerGroups ==
  /\ pc["groups"] = "enrich"
  /\ \E r \in Answers \ {"missing"} :
       status' = [status EXCEPT !["groups"] = RequestPartial(@, OutcomeOf(r), GotData(r))]
  /\ Step("groups", "done")
  /\ UNCHANGED <<log, expired, call, meta, listing, data, batch, overrun, early>>

\* FetchManyOffsets has no error of its own; a group it cannot answer for is
\* emitted without offsets, with an error.
CollectOffsets ==
  /\ Ready("offsets")
  /\ LET listed == Request("ok", listing.err) IN
     IF ~listing.ids THEN Fill("offsets", listed, Null)
     ELSE \/ ~expired /\ Fill("offsets", listed, log.committed)
          \/ Fill("offsets", RecordEntity(listed), Null)
  /\ Step("offsets", "done")
  /\ UNCHANGED <<log, expired, call, meta, listing, batch, overrun, early>>

\* A first offset at or after a past instant: any offset up to the high
\* watermark.
CollectThroughputWindow ==
  /\ Ready("window")
  /\ IF ~RunWindow \/ meta # "some" THEN Fill("topics_window", "skipped", Null)
     ELSE \E r \in Answers : \E o \in log.start..log.hw :
            Fill("topics_window", SampleStatus("ok", r), IF HasOurs(r) THEN o ELSE Null)
  /\ Step("window", "done")
  /\ UNCHANGED <<log, expired, call, meta, listing, batch, overrun, early>>

LaterTopicSections == {"topics_lso", "topics_end", "topics_max_timestamp", "topics_local_start",
                       "topics_remote_end"}

\* collectTopics without a topic to ask about.
SkipTopics ==
  /\ Ready("topics") /\ meta # "some"
  /\ status' = [s \in SectionNames |->
                  IF s \in LaterTopicSections THEN "skipped"
                  ELSE IF s = "topics" THEN (IF meta = "failed" THEN "skipped" ELSE "ok")
                  ELSE status[s]]
  /\ Step("topics", "done")
  /\ UNCHANGED <<log, expired, call, meta, listing, data, batch, overrun, early>>

Ceilings == {"topics_lso", "topics_end"}

\* One List*Offsets call of collectTopics.
SampleOffsets(s, runs, offset, to) ==
  /\ IF ~runs THEN Fill(s, "skipped", Null)
     ELSE \E r \in Answers : \E st \in SampleStatuses(s, r) : Fill(s, st, IF HasOurs(r) THEN offset ELSE Null)
  /\ Step("topics", to)
  /\ early' = IF Done("offsets") \/ s \notin Ceilings THEN early ELSE early \cup {s}
  /\ UNCHANGED <<log, expired, call, meta, listing, batch, overrun>>

\* Mutant of ListStartOffsets: the end is asked for in place of the start.
ListStartOffsetsLatest ==
  Ready("topics") /\ meta = "some" /\ SampleOffsets("topics", TRUE, log.hw, "await")

ListStartOffsets == Ready("topics") /\ meta = "some" /\ SampleOffsets("topics", TRUE, log.start, "await")

\* Mutants of AwaitFloors: the ceilings wait for nothing, or also for a phase
\* that waits for them.
AwaitNothing ==
  /\ pc["topics"] = "await"
  /\ Step("topics", "lso")
  /\ UNCHANGED <<log, expired, call, meta, listing, status, data, batch, overrun, early>>

AwaitEpochProbes ==
  /\ pc["topics"] = "await"
  /\ expired \/ (Done("offsets") /\ Done("window") /\ Done("epoch"))
  /\ Step("topics", "lso")
  /\ UNCHANGED <<log, expired, call, meta, listing, status, data, batch, overrun, early>>

\* Both ceilings wait for the samples below them, or for the context.
AwaitFloors ==
  /\ pc["topics"] = "await"
  /\ expired \/ (Done("offsets") /\ Done("window"))
  /\ Step("topics", "lso")
  /\ UNCHANGED <<log, expired, call, meta, listing, status, data, batch, overrun, early>>

ListCommittedOffsets == pc["topics"] = "lso" /\ SampleOffsets("topics_lso", "lso" \in call.enabled, log.lso, "end")
ListEndOffsets == pc["topics"] = "end" /\ SampleOffsets("topics_end", TRUE, log.hw, "maxTS")
ListMaxTimestampOffsets ==
  pc["topics"] = "maxTS" /\ SampleOffsets("topics_max_timestamp", RunMaxTS, Shipped, "local")
ListLocalLogStartOffsets ==
  pc["topics"] = "local" /\ SampleOffsets("topics_local_start", "tiered" \in call.enabled, Shipped, "remote")
ListLatestRemoteOffsets ==
  /\ pc["topics"] = "remote"
  /\ SampleOffsets("topics_remote_end", {"tiered", "latestTiered"} \subseteq call.enabled, Shipped, "done")

\* The phases outside the offset chain that can be switched off.
Optional == [logDirs |-> <<"logDirs", "log_dirs">>, topicConfigs |-> <<"configs", "topic_configs">>,
             brokerConfigs |-> <<"configs", "broker_configs">>, share |-> <<"shareGroups", "share_groups">>,
             reassign |-> <<"reassignments", "reassignments">>, epoch |-> <<"epochProbes", "epoch_probes">>]
Off == {g \in DOMAIN Optional : Optional[g][1] \notin call.enabled}

\* A goroutine whose phase is off waits its turn and reports skipped.  Nobody
\* but wg waits for it, so those that are off take their step together.
SkipOff ==
  /\ Off # {} /\ \A g \in Off : Ready(g)
  /\ pc' = [g \in Goroutines |-> IF g \in Off THEN "done" ELSE pc[g]]
  /\ status' = [s \in SectionNames |-> IF \E g \in Off : Optional[g][2] = s THEN "skipped" ELSE status[s]]
  /\ UNCHANGED <<log, expired, call, meta, listing, data, batch, overrun, early>>

On(g) == g \notin Off /\ Ready(g)

\* A phase outside the offset chain: skipped, or one request.
Describe(g, s, answers, runs) ==
  /\ On(g)
  /\ IF ~runs THEN Fill(s, "skipped", Null)
     ELSE \E r \in answers : Fill(s, DescribeStatus("ok", r), DescribeData(r))
  /\ Step(g, "done")
  /\ UNCHANGED <<log, expired, call, meta, listing, batch, overrun, early>>

CollectLogDirs == Describe("logDirs", "log_dirs", DescribeAnswers, RunDirs /\ meta = "some")
CollectTopicConfigs ==
  Describe("topicConfigs", "topic_configs", DescribeAnswers, RunConfigs /\ meta = "some")
CollectBrokerConfigs ==
  Describe("brokerConfigs", "broker_configs", DescribeAnswers, RunConfigs /\ meta # "failed")

\* Triggered by an under-replicated partition among the topics shipped.
CollectReassignments ==
  \E urp \in BOOLEAN :
    Describe("reassign", "reassignments", WholeAnswers, meta = "some" /\ urp)

\* The rounds collectEpochProbes has yet to ask, four at most.
Rounds == <<"last", "two", "three", "four">>

\* Triggered by a committed epoch that is not the partition's current one.
CollectEpochProbes ==
  /\ On("epoch")
  /\ \/ Fill("epoch_probes", "skipped", Null) /\ Step("epoch", "done")
     \/ /\ meta = "some" /\ data["offsets"] # Null
        /\ Fill("epoch_probes", "ok", Null)
        /\ \E k \in DOMAIN Rounds : Step("epoch", Rounds[k])
  /\ UNCHANGED <<log, expired, call, meta, listing, batch, overrun, early>>

\* One OffsetForLeaderEpoch request.  The data are the leaders' answers; a row
\* without one repeats its trigger.  The rows are built after the last round,
\* but the error of a missing answer is the same to the status at either time.
AskRound ==
  /\ \E k \in DOMAIN Rounds :
       pc["epoch"] = Rounds[k] /\ Step("epoch", IF k = 1 THEN "done" ELSE Rounds[k - 1])
  /\ \E r \in Answers :
       Fill("epoch_probes", SampleStatus(status["epoch_probes"], r),
            IF GotData(r) THEN Shipped ELSE data["epoch_probes"])
  /\ UNCHANGED <<log, expired, call, meta, listing, batch, overrun, early>>

\* Triggered by a group of the share type in the listing.
CollectShareGroups ==
  \/ Describe("share", "share_groups", DescribeAnswers, FALSE)
  \/ /\ On("share") /\ listing.ids
     /\ \E r \in DescribeAnswers :
          /\ Fill("share_groups", DescribeStatus("ok", r), DescribeData(r))
          /\ Step("share", IF GotData(r) THEN "shareOffsets" ELSE "done")
     /\ UNCHANGED <<log, expired, call, meta, listing, batch, overrun, early>>

\* Start offsets of the share groups: a second request that may fail alone.
DescribeShareGroupOffsets ==
  /\ pc["share"] = "shareOffsets"
  /\ \E r \in DescribeAnswers \ {"missing"} :
       status' = [status EXCEPT !["share_groups"] = RequestPartial(@, OutcomeOf(r), TRUE)]
  /\ Step("share", "done")
  /\ UNCHANGED <<log, expired, call, meta, listing, data, batch, overrun, early>>

\* collectRPC: every client has the hooks, so the snapshot is never nil.
CollectRPC == Fill("broker_rpc", "ok", Shipped)

\* Mutant of BuildBatch: wg.Add counts one goroutine too few.
BuildBatchEarly ==
  /\ ~batch /\ \A g \in WaitGroup \ {"epoch"} : Done(g)
  /\ batch' = TRUE
  /\ CollectRPC
  /\ UNCHANGED <<log, expired, call, pc, meta, listing, overrun, early>>

\* wg.Wait returns; the batch is built and the RPC window drained.
BuildBatch ==
  /\ ~batch /\ \A g \in WaitGroup : Done(g)
  /\ batch' = TRUE
  /\ CollectRPC
  /\ UNCHANGED <<log, expired, call, pc, meta, listing, overrun, early>>

-----------------------------------------------------------------------------
(* The mock ingest server's view of the batch *)

Both(s, t) == data[s] # Null /\ data[t] # Null
Below(s, t) == Both(s, t) /\ data[s] < data[t]

\* usable; transport errors silence it too and are not told apart here.
SectionsUsable(sections) == \A s \in sections : status[s] \in {"ok", "partial"}

\* What checkSections and checkData object to, of what is modelled here.
Objections ==
  [missing        |-> \E s \in SectionNames : status[s] = "absent",
   phase_order    |-> "topics_end" \in early /\ SectionsUsable({"topics_end", "offsets"}),
   lso_before_offsets |-> "topics_lso" \in early /\ SectionsUsable({"topics_end", "offsets", "topics_lso"}),
   offset_inverted        |-> Below("topics_end", "topics"),
   lso_above_end_offset   |-> Below("topics_end", "topics_lso"),
   lso_below_start_offset |-> Below("topics_lso", "topics"),
   negative_lag   |-> Below("topics_end", "offsets") /\ SectionsUsable({"topics_end", "offsets"})]
Verdicts == {code \in DOMAIN Objections : Objections[code]}

-----------------------------------------------------------------------------
Topics ==
  \/ SkipTopics \/ ListStartOffsets \/ AwaitFloors \/ ListCommittedOffsets \/ ListEndOffsets
  \/ ListMaxTimestampOffsets \/ ListLocalLogStartOffsets \/ ListLatestRemoteOffsets

Collect ==
  \/ CollectCluster \/ ListGroups \/ CollectGroups \/ EnrichConsumerGroups \/ CollectOffsets
  \/ CollectThroughputWindow \/ Topics
  \/ CollectLogDirs \/ CollectTopicConfigs \/ CollectBrokerConfigs
  \/ CollectReassignments \/ CollectEpochProbes \/ AskRound \/ SkipOff
  \/ CollectShareGroups \/ DescribeShareGroupOffsets
  \/ BuildBatch

Next ==
  \/ Produce \/ EndTransaction \/ Consume \/ Retention
  \/ Timeout
  \/ Collect

Spec == Init /\ [][Next]_vars

\* A goroutine that can run does, and every request returns: the client honours
\* the context, which the timeout ends.
FairSpec == Spec /\ WF_vars(Collect)

-----------------------------------------------------------------------------
(* Properties *)

\* The skew between the calls never makes a difference negative, however the
\* goroutines interleave with the log and the timeout: lag against either
\* ceiling, the open-transaction backlog and the record count of the window.
NeverNegative ==
  /\ Both("offsets", "topics_end") => data["offsets"] <= data["topics_end"]
  /\ Both("offsets", "topics_lso") => data["offsets"] <= data["topics_lso"]
  /\ Both("topics_lso", "topics_end") => data["topics_lso"] <= data["topics_end"]
  /\ Both("topics_window", "topics_end") => data["topics_window"] <= data["topics_end"]

\* README: consumer overrun, committed < start_offset, has start sampled before
\* committed, so that a batch which shows an overrun shows one that happened.
OverrunIsReal == batch /\ Below("offsets", "topics") => overrun

\* The receiving side finds nothing to object to in any batch, however the
\* phases interleaved and whatever was answered: the checks on sections and on
\* offsets that the collector's order of sampling is there to satisfy
\* (checkData: if this fires, that ordering regressed).
IngestAccepts == batch => Verdicts = {}

\* All seventeen sections are in every batch, whatever failed and whenever the
\* timeout struck, and nothing of the cycle is still running when the RPC
\* window is drained, the uncounted ListGroups goroutine included.
EverySectionShips ==
  batch => /\ \A s \in SectionNames : status[s] # "absent"
           /\ \A g \in Goroutines : Done(g)

NoDataIn(sections) ==
  batch => \A s \in sections : status[s] \in {"failed", "unauthorized"} => data[s] = Null

\* A status promises neither more nor less than its section carries.  "ok" is
\* complete: an offset section that is ok carries the partition, unless there
\* was none to ask about, and the epoch probes an answer.  "failed" and
\* "unauthorized" mean no data at all (requestPartial).  The phases that start
\* from the group listing, those that describe and the epoch probes, whose
\* rounds fail one by one, do not keep the second half (NoSectionFailsWithData),
\* and the max timestamps not the first; the rest of the offset chain and the
\* requests to one broker keep both.
StatusHonest ==
  batch =>
    /\ NoDataIn(SectionNames \ {"groups", "offsets", "log_dirs", "topic_configs", "broker_configs", "share_groups",
                                "epoch_probes"})
    /\ \A s \in {"topics", "topics_window"} \cup (LaterTopicSections \ {"topics_max_timestamp"}) :
         status[s] = "ok" /\ meta = "some" => data[s] # Null
    /\ status["offsets"] = "ok" /\ listing.ids => data["offsets"] # Null
    /\ status["epoch_probes"] = "ok" => data["epoch_probes"] # Null

\* "failed" means no data, of every section: one slow broker out of thirty is a
\* partial section (request).
NoSectionFailsWithData == NoDataIn(SectionNames)

\* Collect always returns a batch.
Terminates == <>batch
=============================================================================
