------------------------------ MODULE MCStartup ------------------------------
EXTENDS Startup

CONSTANTS b1, b2

MCBrokers == {b1, b2}

\* Three releases with thresholds between any two neighbours: 0.10, 2.5 and 4.0.
MCReleases == 1..3
MCKeysOf ==
  <<[ListOffsets |-> 1, Metadata |-> 2, ListGroups |-> 0],
    [ListOffsets |-> 5, Metadata |-> 9, ListGroups |-> 3, OffsetForLeaderEpoch |-> 3,
     DescribeLogDirs |-> 1, DescribeConfigs |-> 2, ListPartitionReassignments |-> 0],
    [ListOffsets |-> 10, Metadata |-> 13, ListGroups |-> 5, OffsetForLeaderEpoch |-> 4,
     DescribeLogDirs |-> 4, DescribeConfigs |-> 4, ListPartitionReassignments |-> 0,
     ConsumerGroupDescribe |-> 1, ShareGroupDescribe |-> 1]>>

Entry(len, opens, closes, compiles) ==
  [len |-> len, opens |-> opens, closes |-> closes, compiles |-> compiles]

\* A file agent with everything at its default.
Base ==
  [n |-> [k \in Numbers |-> Unset], b |-> [k \in DOMAIN Switches |-> Unset],
   brokers |-> TRUE, mechanism |-> "", credentials |-> FALSE, mode |-> "", endpoint |-> "",
   key |-> FALSE, patterns |-> {}, states |-> {}]
HTTP == [Base EXCEPT !.endpoint = "url", !.key = TRUE]

\* One setting changed, to something that is wrong or at a boundary.
Edits(e) ==
  {[e EXCEPT !.n[k] = v] : k \in Numbers, v \in {Junk, -1, 0}}
  \cup {[e EXCEPT !.n["COLLECTION_INTERVAL"] = v] : v \in {5, 15, 60000}}
  \cup {[e EXCEPT !.n["COLLECTION_TIMEOUT"] = v] : v \in {3000, 40000}}
  \cup {[e EXCEPT !.b = [k \in DOMAIN Switches |-> v]] : v \in {Junk, 0, 1}}
  \cup {[e EXCEPT !.mechanism = m, !.credentials = c] : m \in {"PLAIN", "bogus"}, c \in BOOLEAN}
  \cup {[e EXCEPT !.mode = m] : m \in {"stdout", "http", "bogus"}}
  \cup {[e EXCEPT !.endpoint = "hostless"], [e EXCEPT !.key = ~@], [e EXCEPT !.brokers = FALSE]}
  \cup {[e EXCEPT !.patterns = {p}] : p \in
         {Entry(1, TRUE, TRUE, FALSE), Entry(2, TRUE, TRUE, FALSE), Entry(5, TRUE, FALSE, FALSE),
          Entry(5, TRUE, TRUE, FALSE), Entry(5, TRUE, TRUE, TRUE)}}
  \cup {[e EXCEPT !.states = s] : s \in {{"Stable"}, {"misspelt"}}}

\* One change, or a second one on top of a selected state or of the switches.
MCEnvs ==
  LET one == {Base, HTTP} \cup Edits(Base) \cup Edits(HTTP)
  IN  one \cup {e \in UNION {Edits(f) : f \in one} :
                  e.states # {} \/ e.b["Configs"] # Unset}
=============================================================================
