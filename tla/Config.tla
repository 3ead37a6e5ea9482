------------------------------- MODULE Config --------------------------------
(***************************************************************************)
(* internal/config: the environment as Load reads it.  A numeric setting   *)
(* is Unset, Junk (it does not parse) or a number (durations in            *)
(* milliseconds); a switch is the same with 0 and 1 for false and true;    *)
(* other settings are named by what distinguishes them.                    *)
(***************************************************************************)
EXTENDS Integers

Unset == -1000000
Junk == -1000001
Anything == -999999

Defaults ==
  [EXPORT_FILE_MAX_MB |-> 100, EXPORT_FILE_MAX_BACKUPS |-> 3, EXPORT_QUEUE_SIZE |-> 20,
   EXPORT_MAX_RETRIES |-> 3, EXPORT_BASE_DELAY |-> 1000, EXPORT_TIMEOUT |-> 10000,
   COLLECTION_INTERVAL |-> 5000, COLLECTION_TIMEOUT |-> Unset,
   LOG_DIRS_EVERY |-> 24, THROUGHPUT_WINDOW |-> 300000, THROUGHPUT_WINDOW_EVERY |-> 1,
   MAX_TIMESTAMP_EVERY |-> 12, CONFIGS_EVERY |-> 360, MAX_ERRORS |-> 1000, MAX_ERROR_SAMPLES |-> 1]

Numbers == DOMAIN Defaults

Switches ==
  [LastStableOffset |-> 1, ConsumerGroups |-> 1, LogDirs |-> 1, ThroughputWindow |-> 0,
   MaxTimestamp |-> 1, TieredOffsets |-> 0, ShareGroups |-> 0, Configs |-> 1]

\* Mutant of Least: zero is let through everywhere.
LeastZero == [k \in Numbers |-> IF k = "EXPORT_FILE_MAX_MB" THEN Anything ELSE 0]

\* The least value of each number that is accepted.
Least == [k \in Numbers |->
  CASE k = "EXPORT_FILE_MAX_MB" -> Anything
    [] k \in {"EXPORT_FILE_MAX_BACKUPS", "EXPORT_MAX_RETRIES", "MAX_ERRORS"} -> 0
    [] OTHER -> 1]

\* integer, duration and boolean of the parser: a value that does not parse is
\* reported and read as the default.
Parsed(v, default) == IF v \in {Unset, Junk} THEN default ELSE v

\* COLLECTION_TIMEOUT is derived from the interval when it is not set.
DefaultOf(env, k) ==
  IF k = "COLLECTION_TIMEOUT"
  THEN (Parsed(env.n["COLLECTION_INTERVAL"], Defaults["COLLECTION_INTERVAL"]) * 80) \div 100
  ELSE Defaults[k]

Number(env, k) == Parsed(env.n[k], DefaultOf(env, k))

\* An explicit mode wins; without one an endpoint means http.
ExportMode(env) ==
  IF env.mode # "" THEN env.mode ELSE IF env.endpoint # "" THEN "http" ELSE "file"

\* validatePattern: only an entry wrapped in slashes is a regular expression, and
\* only that can fail.  An entry is its length, whether it begins and ends with
\* a slash, and whether what is between them compiles.
ValidatePattern(e) ==
  \/ e.len < 2
  \/ ~e.opens
  \/ ~e.closes
  \/ e.len > 2 /\ e.compiles

NumberFaults(env) ==
  {k \in Numbers : env.n[k] = Junk \/ Number(env, k) < Least[k]}
  \cup {k \in DOMAIN Switches : env.b[k] = Junk}

KafkaFaults(env) ==
  {k \in {"KAFKA_BROKERS", "KAFKA_SASL_MECHANISM", "KAFKA_SASL_PASSWORD"} :
     \/ k = "KAFKA_BROKERS" /\ ~env.brokers
     \/ k = "KAFKA_SASL_MECHANISM" /\ env.mechanism \notin {"", "PLAIN", "SCRAM"}
     \/ k = "KAFKA_SASL_PASSWORD" /\ env.mechanism # "" /\ ~env.credentials}

\* The endpoint and the key matter in http mode only.
ExportFaults(env) ==
  {k \in {"EXPORT_MODE", "EXPORT_ENDPOINT", "API_KEY"} :
     \/ k = "EXPORT_MODE" /\ ExportMode(env) \notin {"file", "http", "stdout"}
     \/ k = "EXPORT_ENDPOINT" /\ ExportMode(env) = "http" /\ env.endpoint # "url"
     \/ k = "API_KEY" /\ ExportMode(env) = "http" /\ ~env.key}

SelectionFaults(env) ==
  {k \in {"PATTERNS", "GROUP_STATES"} :
     \/ k = "PATTERNS" /\ \E e \in env.patterns : ~ValidatePattern(e)
     \/ k = "GROUP_STATES" /\ "misspelt" \in env.states}

\* Everything the parser has accumulated when Load asks for its result.
Complaints(env) ==
  NumberFaults(env) \cup KafkaFaults(env) \cup ExportFaults(env) \cup SelectionFaults(env)

\* The configuration Load returns when there is nothing to complain about.
Load(env) ==
  [n |-> [k \in Numbers |-> Number(env, k)],
   on |-> {k \in DOMAIN Switches : Parsed(env.b[k], Switches[k]) = 1},
   mode |-> ExportMode(env), endpoint |-> env.endpoint, key |-> env.key,
   mechanism |-> env.mechanism, credentials |-> env.credentials,
   patterns |-> env.patterns, states |-> env.states]
=============================================================================
