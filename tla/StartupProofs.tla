---------------------------- MODULE StartupProofs ----------------------------
(***************************************************************************)
(* Proofs about Startup, for every set of environments, every number of    *)
(* brokers and every history of releases.                                  *)
(***************************************************************************)
EXTENDS Startup, TLAPS, WellFoundedInduction

\* Every set of natural numbers that is not empty has a least element.
LEMMA LeastExists ==
  ASSUME NEW T, T \subseteq Nat, T # {}
  PROVE  \E v \in T : \A w \in T : v <= w
<1>1. PICK v \in T : \A w \in T : ~(<<w, v>> \in OpToRel(<, Nat))
  BY WFMin, NatLessThanWellFounded
<1>2. \A w \in T : ~(w < v)
  BY <1>1 DEF OpToRel
<1> QED
  BY <1>2

\* foldCapabilities and atLeast together ask every broker: the floors reach a
\* version exactly when each broker by itself does.
LEMMA FoldAsksEveryBroker ==
  ASSUME NEW f, NEW what \in DOMAIN Needs,
         DOMAIN f # {},
         \A b \in DOMAIN f : \A k \in DOMAIN f[b] : f[b][k] \in Nat
  PROVE  AtLeast(Fold(f), what) <=> \A b \in DOMAIN f : Serves(f[b], what)
<1> DEFINE key == Needs[what][1]
           least == Needs[what][2]
           shared == {k \in ProbedKeys : DOMAIN f # {} /\ \A b \in DOMAIN f : k \in DOMAIN f[b]}
           offered == {f[b][key] : b \in DOMAIN f}
<1>1. key \in ProbedKeys /\ least \in Nat
  BY DEF Needs, ProbedKeys
<1>2. DOMAIN Fold(f) = shared
  BY DEF Fold
<1>3. CASE key \notin shared
  BY <1>1, <1>2, <1>3 DEF AtLeast, Serves
<1>4. CASE key \in shared
  <2>1. offered # {} /\ offered \subseteq Nat
    BY <1>4
  <2>2. Fold(f)[key] = CHOOSE v \in offered : \A w \in offered : v <= w
    BY <1>4 DEF Fold
  <2>3. Fold(f)[key] \in offered /\ \A w \in offered : Fold(f)[key] <= w
    <3> HIDE DEF offered
    <3> QED
      BY <2>1, <2>2, LeastExists
  <2>4. Fold(f)[key] >= least <=> \A b \in DOMAIN f : f[b][key] >= least
    <3>1. \A b \in DOMAIN f : f[b][key] \in offered
      OBVIOUS
    <3>2. PICK b \in DOMAIN f : Fold(f)[key] = f[b][key]
      BY <2>3
    <3> HIDE DEF offered, key, least
    <3>3. \A c \in DOMAIN f : f[c][key] \in Nat /\ f[b][key] <= f[c][key]
      BY <2>1, <2>3, <3>1, <3>2
    <3> QED
      BY <1>1, <3>2, <3>3
  <2> HIDE DEF offered
  <2> QED
    BY <1>2, <1>4, <2>4 DEF AtLeast, Serves
<1> QED
  BY <1>3, <1>4

\* What a broker of a release serves, a broker of a later release serves too.
LEMMA LaterServes ==
  ASSUME NEW r \in Releases, NEW s \in Releases, r <= s, NEW what \in DOMAIN Needs,
         Serves(KeysOf[r], what)
  PROVE  Serves(KeysOf[s], what)
<1> DEFINE key == Needs[what][1]
           least == Needs[what][2]
<1>1. least \in Nat
  BY DEF Needs
<1>2. key \in DOMAIN KeysOf[r] /\ KeysOf[r][key] >= least
  BY DEF Serves
<1>3. key \in DOMAIN KeysOf[s] /\ KeysOf[r][key] <= KeysOf[s][key]
  BY <1>2, ReleasesGrow
<1>4. KeysOf[r][key] \in Nat /\ KeysOf[s][key] \in Nat
  BY <1>2, <1>3, ReleasesGrow
<1> HIDE DEF key, least
<1>5. KeysOf[s][key] >= least
  BY <1>1, <1>2, <1>3, <1>4
<1> QED
  BY <1>3, <1>5 DEF Serves, key, least

-----------------------------------------------------------------------------
(* The inductive invariant *)

Types ==
  /\ env \in Envs
  /\ release \in [Brokers -> Releases]
  /\ answer \in [Brokers -> Releases \cup {Silent, Refused}]

\* A fingerprint that is known was folded from the answers still at hand, every
\* broker having given one, and none has been downgraded since.
Answered ==
  /\ caps = [known |-> TRUE, from |-> [b \in Brokers |-> KeysOf[answer[b]]]]
  /\ \A b \in Brokers : answer[b] \in Releases

Probed ==
  /\ \A b \in Brokers : answer[b] \in Releases => answer[b] <= release[b]
  /\ caps = Unknown \/ Answered
  /\ pc \in Probing => caps = Unknown

Decided == {"collector", "exporter", "ready", "running", "closing", "stopped"}

\* What New has decided so far follows from the configuration and the fingerprint.
Settings ==
  CASE cfg.mode = "http" -> HTTPSettings
    [] cfg.mode = "file" -> FileSettings
    [] OTHER -> [mode |-> cfg.mode, n |-> <<>>]

Loaded ==
  /\ pc \notin {"load", "failed"} => Complaints(env) = {} /\ cfg = Load(env)
  /\ pc \in {"ready", "running"} => exporter = Settings
  /\ cause \in {"none", "config", "kgo", "unreachable", "filter", "open"}

Gating ==
  /\ pc \in {"gates", "gatesProbing"} \cup Decided /\ cfg.states # {} => FilterCheck(caps)
  /\ pc \in Decided => on = OptionsFor(caps)

LEMMA ReleasesAreNat == Releases \subseteq Nat
  BY ReleasesGrow

LEMMA ReleasesAreNotErrors == Silent \notin Releases /\ Refused \notin Releases
  BY ReleasesGrow DEF Silent, Refused

\* The steps that touch neither the brokers' answers nor the fingerprint.
Quiet ==
  \/ LoadConfig \/ NewClient \/ PingAnswered \/ PingExpires \/ NewCollector \/ NewExporter
  \/ Run \/ CloseExporter \/ CloseClient \/ DeadlinePasses

LEMMA QuietKeeps ==
  ASSUME Quiet
  PROVE  /\ env' = env /\ release' = release /\ answer' = answer /\ caps' = caps
         /\ on' = on
         /\ pc' \notin Probing \/ pc' = pc
  BY DEF Quiet, LoadConfig, NewClient, PingAnswered, PingExpires, NewCollector, NewExporter,
         Run, CloseExporter, CloseClient, DeadlinePasses, Goto, Fail, Probing

\* The invariant of the probe: what is cached is what every broker said, and it
\* is still true of it.
LEMMA ProbeInvariant == Spec => [](Types /\ Probed)
<1>1. Init => Types /\ Probed
  <2> SUFFICES ASSUME Init PROVE Types /\ Probed
    OBVIOUS
  <2>1. Types
    BY DEF Init, Types
  <2>2. \A b \in Brokers : answer[b] \notin Releases
    BY ReleasesAreNotErrors DEF Init
  <2> QED
    BY <2>1, <2>2 DEF Init, Probed, Probing
<1>2. Types /\ Probed /\ [Next]_vars => (Types /\ Probed)'
  <2> SUFFICES ASSUME Types, Probed, [Next]_vars
               PROVE  Types' /\ Probed'
    OBVIOUS
  <2> USE DEF Types
  <2>1. CASE Quiet
    <3>1. Types'
      BY <2>1, QuietKeeps
    <3> QED
      BY <2>1, QuietKeeps, <3>1 DEF Probed, Answered
  <2>2. CASE ProbeAsks
    <3>1. env' = env /\ release' = release /\ caps' = caps /\ answer' = [b \in Brokers |-> Silent]
      BY <2>2 DEF ProbeAsks, Goto
    <3>2. caps = Unknown
      BY <2>2 DEF ProbeAsks, Probed, Answered
    <3>3. \A b \in Brokers : answer'[b] \notin Releases
      BY <3>1, ReleasesAreNotErrors
    <3>4. Types'
      BY <3>1
    <3> QED
      BY <3>1, <3>2, <3>3, <3>4 DEF Probed
  <2>3. ASSUME NEW b \in Brokers, BrokerAnswers(b)
        PROVE  Types' /\ Probed'
    <3>1. env' = env /\ release' = release /\ caps' = caps /\ pc' = pc /\ pc \in Probing
      BY <2>3 DEF BrokerAnswers
    <3>2. PICK a \in {release[b], Refused} : answer' = [answer EXCEPT ![b] = a]
      BY <2>3 DEF BrokerAnswers
    <3>3. Types'
      BY <3>1, <3>2
    <3>4. \A c \in Brokers : answer'[c] \in Releases => answer'[c] <= release'[c]
      BY <3>1, <3>2, ReleasesAreNat, ReleasesAreNotErrors DEF Probed
    <3> QED
      BY <3>1, <3>3, <3>4 DEF Probed
  <2>4. ASSUME NEW b \in Brokers, BrokerTimesOut(b)
        PROVE  Types' /\ Probed'
    <3>1. env' = env /\ release' = release /\ caps' = caps /\ pc' = pc /\ pc \in Probing
          /\ answer' = [answer EXCEPT ![b] = Refused]
      BY <2>4 DEF BrokerTimesOut
    <3>2. Types'
      BY <3>1
    <3>3. \A c \in Brokers : answer'[c] \in Releases => answer'[c] <= release'[c]
      BY <3>1, ReleasesAreNotErrors DEF Probed
    <3> QED
      BY <3>1, <3>2, <3>3 DEF Probed
  <2>5. ASSUME NEW b \in Brokers, Upgrade(b)
        PROVE  Types' /\ Probed'
    <3>1. env' = env /\ answer' = answer /\ caps' = caps /\ pc' = pc
          /\ release[b] + 1 \in Releases /\ release' = [release EXCEPT ![b] = @ + 1]
      BY <2>5 DEF Upgrade
    <3>2. Types'
      BY <3>1
    <3>3. \A c \in Brokers : answer'[c] \in Releases => answer'[c] <= release'[c]
      <4> SUFFICES ASSUME NEW c \in Brokers, answer[c] \in Releases
                   PROVE  answer[c] <= release'[c]
        BY <3>1
      <4>1. answer[c] \in Nat /\ release[c] \in Nat /\ answer[c] <= release[c]
        BY ReleasesAreNat DEF Probed
      <4>2. release'[c] = release[c] \/ release'[c] = release[c] + 1
        BY <3>1
      <4> QED
        BY <4>1, <4>2
    <3>4. Answered => Answered'
      BY <3>1 DEF Answered
    <3> QED
      BY <3>1, <3>2, <3>3, <3>4 DEF Probed
  <2>6. ASSUME NEW found, found \in {Unknown, Fingerprint}, pc \in Probing,
               found # Unknown => \A b \in Brokers : answer[b] # Silent,
               FilterDecides(found) \/ GatesDecide(found)
        PROVE  Types' /\ Probed'
    <3>1. env' = env /\ answer' = answer /\ release' = release /\ pc' \notin Probing
          /\ (caps' = caps \/ caps' = found)
      BY <2>6 DEF FilterDecides, GatesDecide, Goto, Fail, Probing
    <3>2. found = Unknown
          \/ (/\ found = [known |-> TRUE, from |-> [b \in Brokers |-> KeysOf[answer[b]]]]
              /\ \A b \in Brokers : answer[b] \in Releases)
      <4>1. CASE \A b \in Brokers : answer[b] # Refused
        BY <2>6, <4>1 DEF Fingerprint
      <4>2. CASE ~ \A b \in Brokers : answer[b] # Refused
        BY <2>6, <4>2 DEF Fingerprint
      <4> QED
        BY <4>1, <4>2
    <3>3. Types'
      BY <3>1
    <3>4. caps' = Unknown \/ Answered'
      BY <3>1, <3>2 DEF Probed, Answered
    <3>5. \A c \in Brokers : answer'[c] \in Releases => answer'[c] <= release'[c]
      BY <3>1 DEF Probed
    <3> QED
      BY <3>1, <3>3, <3>4, <3>5 DEF Probed
  <2>7. CASE ProbeReturns
    BY <2>7, <2>6 DEF ProbeReturns
  <2>8. CASE ProbeFails
    BY <2>8, <2>6 DEF ProbeFails
  <2>9. CASE ProbeCached
    <3>1. env' = env /\ answer' = answer /\ release' = release /\ pc' \notin Probing /\ caps' = caps
      BY <2>9 DEF ProbeCached, GatesDecide, Goto, Probing
    <3>2. Types'
      BY <3>1
    <3> QED
      BY <3>1, <3>2 DEF Probed, Answered
  <2>10. CASE UNCHANGED vars
    <3>1. Types'
      BY <2>10 DEF vars
    <3> QED
      BY <2>10, <3>1 DEF vars, Probed, Answered
  <2> QED
    BY <2>1, <2>2, <2>3, <2>4, <2>5, <2>7, <2>8, <2>9, <2>10 DEF Next, Step, Quiet
<1> QED
  BY <1>1, <1>2, PTL DEF Spec

-----------------------------------------------------------------------------
(* The configuration *)

\* A configuration Load has nothing to say about has no number below its least
\* value, whatever it was read from.
LEMMA NumbersHold ==
  ASSUME env \in Envs, Complaints(env) = {}, cfg = Load(env)
  PROVE  \A k \in Numbers : cfg.n[k] \in Int /\ ~(cfg.n[k] < Least[k])
<1>1. env.n \in [Numbers -> Int]
  BY EnvsAssumption
<1>2. \A k \in Numbers : Defaults[k] \in Int
  BY DEF Numbers, Defaults, Unset
<1>3. "COLLECTION_INTERVAL" \in Numbers
  BY DEF Numbers, Defaults
<1>4. \A k \in Numbers : Number(env, k) \in Int
  <2>1. \A k \in Numbers : DefaultOf(env, k) \in Int
    BY <1>1, <1>2, <1>3 DEF DefaultOf, Parsed
  <2> QED
    BY <1>1, <2>1 DEF Number, Parsed
<1>5. \A k \in Numbers : ~(Number(env, k) < Least[k])
  BY DEF Complaints, NumberFaults
<1>6. \A k \in Numbers : cfg.n[k] = Number(env, k)
  BY DEF Load
<1> QED
  BY <1>4, <1>5, <1>6

\* The settings the exporters correct themselves are among those Load checked.
LEMMA LeastOfExporters ==
  /\ {"EXPORT_QUEUE_SIZE", "EXPORT_MAX_RETRIES", "EXPORT_BASE_DELAY", "EXPORT_TIMEOUT",
      "EXPORT_FILE_MAX_BACKUPS", "COLLECTION_INTERVAL", "EXPORT_FILE_MAX_MB"} \subseteq Numbers
  /\ Least["EXPORT_QUEUE_SIZE"] = 1 /\ Least["EXPORT_BASE_DELAY"] = 1
  /\ Least["EXPORT_TIMEOUT"] = 1 /\ Least["COLLECTION_INTERVAL"] = 1
  /\ Least["EXPORT_MAX_RETRIES"] = 0 /\ Least["EXPORT_FILE_MAX_BACKUPS"] = 0
<1>1. {"EXPORT_QUEUE_SIZE", "EXPORT_MAX_RETRIES", "EXPORT_BASE_DELAY", "EXPORT_TIMEOUT",
      "EXPORT_FILE_MAX_BACKUPS", "COLLECTION_INTERVAL", "EXPORT_FILE_MAX_MB"} \subseteq Numbers
  BY DEF Numbers, Defaults
<1> QED
  BY <1>1 DEF Least

\* validatePattern and compilePattern, written twice in the code, agree.
LEMMA PatternsAgree ==
  ASSUME NEW e, e.len \in Nat, ValidatePattern(e)
  PROVE  Compiles(e)
  BY DEF ValidatePattern, Compiles

\* What Load has let pass, no later constructor refuses.
LEMMA NothingLeftToRefuse ==
  ASSUME env \in Envs, Complaints(env) = {}, cfg = Load(env)
  PROVE  /\ cfg.mechanism \in {"", "PLAIN", "SCRAM"}
         /\ MetadataMinAge(cfg.n["COLLECTION_INTERVAL"]) >= 10
         /\ cfg.n["COLLECTION_INTERVAL"] > 0
         /\ \A e \in cfg.patterns : Compiles(e)
         /\ cfg.mode \in {"http", "file", "stdout"}
         /\ cfg.mode = "http" => cfg.endpoint # "" /\ cfg.key
<1>1. cfg.mechanism \in {"", "PLAIN", "SCRAM"}
  <2>1. "KAFKA_SASL_MECHANISM" \notin KafkaFaults(env)
    BY DEF Complaints
  <2> QED
    BY <2>1 DEF KafkaFaults, Load
<1>2. cfg.n["COLLECTION_INTERVAL"] \in Int /\ cfg.n["COLLECTION_INTERVAL"] > 0
  BY NumbersHold, LeastOfExporters
<1>3. MetadataMinAge(cfg.n["COLLECTION_INTERVAL"]) >= 10
  BY <1>2 DEF MetadataMinAge
<1>4. \A e \in cfg.patterns : Compiles(e)
  <2>1. "PATTERNS" \notin SelectionFaults(env)
    BY DEF Complaints
  <2>2. \A e \in env.patterns : ValidatePattern(e)
    BY <2>1 DEF SelectionFaults
  <2>3. \A e \in env.patterns : e.len \in Nat
    BY EnvsAssumption
  <2> QED
    BY <2>2, <2>3, PatternsAgree DEF Load
<1>5. cfg.mode \in {"http", "file", "stdout"}
  <2>1. "EXPORT_MODE" \notin ExportFaults(env)
    BY DEF Complaints
  <2> QED
    BY <2>1 DEF ExportFaults, Load
<1>6. cfg.mode = "http" => cfg.endpoint # "" /\ cfg.key
  <2>1. "EXPORT_ENDPOINT" \notin ExportFaults(env) /\ "API_KEY" \notin ExportFaults(env)
    BY DEF Complaints
  <2> QED
    BY <2>1 DEF ExportFaults, Load
<1> QED
  BY <1>1, <1>2, <1>3, <1>4, <1>5, <1>6

\* The probe's steps do not touch the configuration.
Asking ==
  \/ ProbeAsks \/ ProbeReturns \/ ProbeFails \/ ProbeCached \/ DeadlinePasses
  \/ \E b \in Brokers : BrokerAnswers(b) \/ BrokerTimesOut(b) \/ Upgrade(b)

LEMMA AskingKeeps ==
  ASSUME Asking
  PROVE  /\ env' = env /\ cfg' = cfg /\ exporter' = exporter
         /\ (cause' = cause \/ cause' = "filter")
         /\ \/ pc' = pc
            \/ pc' = "failed"
            \/ pc \notin {"load", "failed"} /\ pc' \notin {"load", "failed", "ready", "running"}
<1> USE DEF Goto, Fail, Probing
<1>1. CASE ProbeAsks
  BY <1>1 DEF ProbeAsks
<1>2. CASE ProbeReturns
  BY <1>2 DEF ProbeReturns, FilterDecides, GatesDecide
<1>3. CASE ProbeFails
  BY <1>3 DEF ProbeFails, FilterDecides, GatesDecide
<1>4. CASE ProbeCached
  BY <1>4 DEF ProbeCached, GatesDecide
<1>5. CASE DeadlinePasses
  BY <1>5 DEF DeadlinePasses
<1>6. CASE \E b \in Brokers : BrokerAnswers(b) \/ BrokerTimesOut(b) \/ Upgrade(b)
  BY <1>6 DEF BrokerAnswers, BrokerTimesOut, Upgrade
<1> QED
  BY <1>1, <1>2, <1>3, <1>4, <1>5, <1>6 DEF Asking

\* The invariant of the configuration: past Load it is the one Load returned, and
\* the only causes of failure are those Load cannot know of.
LEMMA LoadInvariant == Spec => []Loaded
<1>1. Init => Loaded
  BY DEF Init, Loaded
<1>2. Types /\ Loaded /\ [Next]_vars => Loaded'
  <2> SUFFICES ASSUME Types, Loaded, [Next]_vars
               PROVE  Loaded'
    OBVIOUS
  <2>t. env \in Envs
    BY DEF Types
  <2>c. cause \in {"none", "config", "kgo", "unreachable", "filter", "open"}
    BY DEF Loaded
  <2>s. cfg' = cfg => Settings' = Settings
    BY DEF Settings, HTTPSettings, FileSettings
  <2>f. ASSUME NEW why \in {"config", "kgo", "unreachable", "filter", "open"}, Fail(why)
        PROVE  Loaded'
    BY <2>f DEF Fail, Loaded
  <2>g. ASSUME NEW where, where \notin {"load", "failed", "ready", "running"},
               Goto(where), cfg' = cfg, pc \notin {"load", "failed"}
        PROVE  Loaded'
    BY <2>g DEF Goto, Loaded
  <2>p. pc \notin {"load", "failed"} => Complaints(env) = {} /\ cfg = Load(env)
    BY DEF Loaded
  <2>1. CASE LoadConfig
    <3>1. CASE Fail("config")
      BY <3>1, <2>f
    <3>2. CASE Complaints(env) = {} /\ cfg' = Load(env) /\ Goto("dial")
      BY <3>2, <2>c DEF Goto, Loaded
    <3> QED
      BY <2>1, <3>1, <3>2 DEF LoadConfig
  <2>2. CASE NewClient
    <3> DEFINE age == MetadataMinAge(cfg.n["COLLECTION_INTERVAL"])
    <3>1. cfg.mechanism \in {"", "PLAIN", "SCRAM"} /\ age >= 10 /\ ~(age < 10)
      <4>1. Complaints(env) = {} /\ cfg = Load(env)
        BY <2>2, <2>p DEF NewClient
      <4>2. cfg.n["COLLECTION_INTERVAL"] \in Int
        BY <4>1, <2>t, NumbersHold, LeastOfExporters
      <4>3. age \in Int /\ age >= 10
        BY <4>2 DEF MetadataMinAge
      <4>4. cfg.mechanism \in {"", "PLAIN", "SCRAM"}
        BY <4>1, <2>t, NothingLeftToRefuse
      <4> HIDE DEF age
      <4>5. ~(age < 10)
        BY <4>3
      <4> QED
        BY <4>3, <4>4, <4>5
    <3>2. CASE Fail("kgo")
      BY <3>2, <2>f
    <3>3. CASE Goto("ping") /\ cfg' = cfg
      BY <3>3, <2>2, <2>g DEF NewClient
    <3> QED
      BY <2>2, <3>1, <3>2, <3>3 DEF NewClient
  <2>3. CASE PingAnswered
    <3>1. CASE Fail("unreachable")
      BY <3>1, <2>f
    <3>2. CASE Goto(IF cfg.states # {} THEN "filter" ELSE "gates") /\ cfg' = cfg
      BY <3>2, <2>3, <2>g DEF PingAnswered
    <3> QED
      BY <2>3, <3>1, <3>2 DEF PingAnswered
  <2>4. CASE PingExpires
    BY <2>4, <2>f DEF PingExpires
  <2>5. CASE Asking
    BY <2>5, <2>s, AskingKeeps DEF Loaded
  <2>6. CASE NewCollector
    <3>1. \A e \in cfg.patterns : Compiles(e)
      BY <2>6, <2>p, <2>t, NothingLeftToRefuse DEF NewCollector
    <3>2. Goto("exporter") /\ cfg' = cfg /\ pc = "collector"
      BY <2>6, <3>1 DEF NewCollector
    <3> QED
      BY <3>2, <2>g
  <2>7. CASE NewExporter
    <3>1. /\ cfg.mode \in {"http", "file", "stdout"}
          /\ cfg.mode = "http" => cfg.endpoint # "" /\ cfg.key
      BY <2>7, <2>p, <2>t, NothingLeftToRefuse DEF NewExporter
    <3>2. CASE Fail("open")
      BY <3>2, <2>f
    <3>3. CASE exporter' = Settings /\ Goto("ready") /\ cfg' = cfg
      BY <3>3, <2>7, <2>s, <2>c, <2>p DEF NewExporter, Goto, Loaded
    <3> QED
      BY <2>7, <3>1, <3>2, <3>3 DEF NewExporter, Settings
  <2>8. CASE Run
    <3> DEFINE i == cfg.n["COLLECTION_INTERVAL"]
    <3>1. ~(i <= 0)
      <4>1. Complaints(env) = {} /\ cfg = Load(env)
        BY <2>8, <2>p DEF Run
      <4>2. i \in Int /\ ~(i < 1)
        BY <4>1, <2>t, NumbersHold, LeastOfExporters
      <4> HIDE DEF i
      <4> QED
        BY <4>2
    <3>2. Goto("running") /\ cfg' = cfg /\ exporter' = exporter /\ pc = "ready"
      BY <2>8, <3>1 DEF Run
    <3> QED
      BY <3>2, <2>s, <2>c DEF Goto, Loaded
  <2>9. CASE CloseExporter
    BY <2>9, <2>g DEF CloseExporter
  <2>10. CASE CloseClient
    BY <2>10, <2>g DEF CloseClient
  <2>11. CASE UNCHANGED vars
    BY <2>11, <2>s DEF vars, Loaded
  <2> QED
    BY <2>1, <2>2, <2>3, <2>4, <2>5, <2>6, <2>7, <2>8, <2>9, <2>10, <2>11
    DEF Next, Step, Asking
<1> QED
  BY <1>1, <1>2, ProbeInvariant, PTL DEF Spec

\* Load's promise, for every environment: buildSASL, kgo's bounds, the collector's
\* filters, export.New and the ticker never meet a setting they must refuse, and
\* the exporter works with the numbers the operator was shown, a size of zero
\* apart.  A broker address that kgo cannot parse and an output file that cannot
\* be opened are not Load's to find.
THEOREM LoadCatchesConfigFaults == Spec => []ConfigFaultsCaughtByLoad
<1>1. Types /\ Loaded => ConfigFaultsCaughtByLoad
  <2> SUFFICES ASSUME Types, Loaded PROVE ConfigFaultsCaughtByLoad
    OBVIOUS
  <2>1. cause \notin {"sasl", "minage", "pattern", "mode", "endpoint", "panic"}
    BY DEF Loaded
  <2>2. ASSUME pc = "running", NEW k \in DOMAIN exporter.n
        PROVE  exporter.n[k] = cfg.n[k] \/ (k = "EXPORT_FILE_MAX_MB" /\ cfg.n[k] = 0)
    <3>1. /\ exporter = Settings
          /\ \A j \in Numbers : cfg.n[j] \in Int /\ ~(cfg.n[j] < Least[j])
          /\ cfg.mode \in {"http", "file", "stdout"}
      BY <2>2, NumbersHold, NothingLeftToRefuse DEF Types, Loaded
    <3>2. CASE cfg.mode = "http"
      <4>1. exporter = HTTPSettings
        BY <3>1, <3>2 DEF Settings
      <4>2. k \in {"EXPORT_QUEUE_SIZE", "EXPORT_MAX_RETRIES", "EXPORT_BASE_DELAY", "EXPORT_TIMEOUT"}
        BY <2>2, <4>1 DEF HTTPSettings
      <4>3. ~(cfg.n[k] < (IF k = "EXPORT_MAX_RETRIES" THEN 0 ELSE 1))
        BY <3>1, <4>2, LeastOfExporters
      <4> QED
        BY <4>1, <4>2, <4>3 DEF HTTPSettings
    <3>3. CASE cfg.mode = "file"
      <4>1. exporter = FileSettings
        BY <3>1, <3>3 DEF Settings
      <4>2. k \in {"EXPORT_FILE_MAX_MB", "EXPORT_FILE_MAX_BACKUPS"}
        BY <2>2, <4>1 DEF FileSettings
      <4>3. ~(cfg.n["EXPORT_FILE_MAX_BACKUPS"] < 0)
        BY <3>1, LeastOfExporters
      <4>4. /\ exporter.n["EXPORT_FILE_MAX_BACKUPS"] = cfg.n["EXPORT_FILE_MAX_BACKUPS"]
            /\ exporter.n["EXPORT_FILE_MAX_MB"]
                 = IF cfg.n["EXPORT_FILE_MAX_MB"] = 0 THEN 100 ELSE cfg.n["EXPORT_FILE_MAX_MB"]
        BY <4>1, <4>3 DEF FileSettings
      <4> QED
        BY <4>2, <4>4
    <3>4. CASE cfg.mode = "stdout"
      <4>1. exporter.n = <<>>
        BY <3>1, <3>4 DEF Settings
      <4> QED
        BY <2>2, <4>1
    <3> QED
      BY <3>1, <3>2, <3>3, <3>4
  <2> QED
    BY <2>1, <2>2 DEF ConfigFaultsCaughtByLoad
<1> QED
  BY <1>1, ProbeInvariant, LoadInvariant, PTL

-----------------------------------------------------------------------------
(* The gates *)

\* The invariant of the decisions: the phases are those the cached fingerprint
\* allows, and a configured filter was checked against it before.
LEMMA GatingInvariant == Spec => []Gating
<1>1. Init => Gating
  BY DEF Init, Gating, Decided
<1>2. Probed /\ Gating /\ [Next]_vars => Gating'
  <2> SUFFICES ASSUME Probed, Gating, [Next]_vars
               PROVE  Gating'
    OBVIOUS
  <2>o. cfg' = cfg => OptionsFor(caps)' = OptionsFor(caps')
    BY DEF OptionsFor, CollectorOptions
  <2>s. cfg' = cfg /\ caps' = caps => OptionsFor(caps)' = OptionsFor(caps)
    BY DEF OptionsFor, CollectorOptions
  <2>a. ASSUME cfg' = cfg, caps' = caps, on' = on,
               \/ pc' = pc
               \/ pc' \notin {"gates", "gatesProbing"} \cup Decided
               \/ pc \in Decided
        PROVE  Gating'
    BY <2>a, <2>s DEF Gating, FilterCheck
  <2>1. CASE LoadConfig \/ NewClient \/ PingExpires
    <3>1. pc' \in {"failed", "dial", "ping"}
      BY <2>1 DEF LoadConfig, NewClient, PingExpires, Goto, Fail
    <3> QED
      BY <3>1 DEF Gating, Decided
  <2>2. CASE PingAnswered
    <3>1. CASE pc' = "failed"
      BY <3>1 DEF Gating, Decided
    <3>2. CASE pc' = (IF cfg.states # {} THEN "filter" ELSE "gates") /\ cfg' = cfg
      BY <3>2 DEF Gating, Decided
    <3> QED
      BY <2>2, <3>1, <3>2 DEF PingAnswered, Goto, Fail
  <2>3. CASE NewCollector \/ NewExporter \/ Run \/ CloseExporter \/ CloseClient \/ DeadlinePasses
    <3>1. cfg' = cfg /\ caps' = caps /\ on' = on
      BY <2>3 DEF NewCollector, NewExporter, Run, CloseExporter, CloseClient, DeadlinePasses, Goto, Fail
    <3>2. pc \in Decided \/ pc' = pc
      BY <2>3 DEF NewCollector, NewExporter, Run, CloseExporter, CloseClient, DeadlinePasses, Decided
    <3> QED
      BY <3>1, <3>2, <2>a
  <2>4. CASE ProbeAsks
    <3>1. cfg' = cfg /\ caps' = caps /\ on' = on /\ ~caps.known
          /\ (pc' = "filterProbing" \/ (pc = "gates" /\ pc' = "gatesProbing"))
      BY <2>4 DEF ProbeAsks, Goto
    <3>2. CASE pc' = "filterProbing"
      BY <3>2 DEF Gating, Decided
    <3>3. CASE pc = "gates" /\ pc' = "gatesProbing"
      BY <3>1, <3>3 DEF Gating, FilterCheck, Decided
    <3> QED
      BY <3>1, <3>2, <3>3
  <2>5. CASE \E b \in Brokers : BrokerAnswers(b) \/ BrokerTimesOut(b) \/ Upgrade(b)
    <3>1. cfg' = cfg /\ caps' = caps /\ on' = on /\ pc' = pc
      BY <2>5 DEF BrokerAnswers, BrokerTimesOut, Upgrade
    <3> QED
      BY <3>1, <2>a
  <2>6. ASSUME NEW found, FilterDecides(found)
        PROVE  Gating'
    <3>1. CASE pc' = "failed"
      BY <3>1 DEF Gating, Decided
    <3>2. CASE FilterCheck(found) /\ caps' = found /\ pc' = "gates"
      BY <3>2 DEF Gating, Decided, FilterCheck
    <3> QED
      BY <2>6, <3>1, <3>2 DEF FilterDecides, Goto, Fail
  <2>7. ASSUME NEW found, GatesDecide(found), cfg.states # {} => FilterCheck(found)
        PROVE  Gating'
    <3>1. cfg' = cfg /\ caps' = found /\ on' = OptionsFor(found) /\ pc' = "collector"
      BY <2>7 DEF GatesDecide, Goto
    <3> QED
      BY <3>1, <2>7, <2>o DEF Gating, Decided, FilterCheck
  <2>8. pc = "gatesProbing" => cfg.states = {}
    BY DEF Gating, Probed, Probing, FilterCheck, Unknown
  <2>9. CASE ProbeReturns
    BY <2>9, <2>6, <2>7, <2>8 DEF ProbeReturns, Probing
  <2>10. CASE ProbeFails
    BY <2>10, <2>6, <2>7, <2>8 DEF ProbeFails, Probing
  <2>11. CASE ProbeCached
    <3>1. cfg.states # {} => FilterCheck(caps)
      BY <2>11 DEF ProbeCached, Gating
    <3> QED
      BY <2>11, <2>7, <3>1 DEF ProbeCached
  <2>12. CASE UNCHANGED vars
    BY <2>12, <2>a DEF vars
  <2> QED
    BY <2>1, <2>2, <2>3, <2>4, <2>5, <2>9, <2>10, <2>11, <2>12 DEF Next, Step
<1> QED
  BY <1>1, <1>2, ProbeInvariant, PTL DEF Spec

\* What a known fingerprint says of every broker is what each of them answered.
LEMMA FloorsAreAnswers ==
  ASSUME Types, Probed, caps.known, NEW what \in DOMAIN Needs
  PROVE  /\ \A b \in Brokers : answer[b] \in Releases
         /\ AtLeast(Fold(caps.from), what) <=> \A b \in Brokers : Serves(KeysOf[answer[b]], what)
<1>1. Answered
  BY DEF Probed, Unknown
<1> DEFINE f == [b \in Brokers |-> KeysOf[answer[b]]]
<1>2. caps.from = f /\ DOMAIN f = Brokers /\ \A b \in Brokers : f[b] = KeysOf[answer[b]]
  BY <1>1 DEF Answered
<1>3. \A b \in Brokers : answer[b] \in Releases
  BY <1>1 DEF Answered
<1>4. \A b \in DOMAIN f : \A k \in DOMAIN f[b] : f[b][k] \in Nat
  BY <1>2, <1>3, ReleasesGrow
<1> HIDE DEF f
<1>5. AtLeast(Fold(f), what) <=> \A b \in DOMAIN f : Serves(f[b], what)
  BY <1>2, <1>4, FoldAsksEveryBroker, BrokersAssumption
<1>6. (\A b \in DOMAIN f : Serves(f[b], what)) <=> (\A b \in Brokers : Serves(KeysOf[answer[b]], what))
  BY <1>2
<1> QED
  BY <1>2, <1>3, <1>5, <1>6

LEMMA NamesAreNeeds ==
  Gated \subseteq DOMAIN Needs /\ WireFeatures \subseteq DOMAIN Needs /\ "GroupStatesFilter" \in DOMAIN Needs
  BY DEF Gated, WireFeatures, Needs

\* What a broker answered it serves, it serves now, whatever was upgraded since.
LEMMA AnswersStayTrue ==
  ASSUME Types, Probed, caps.known, NEW what \in DOMAIN Needs,
         AtLeast(Fold(caps.from), what), NEW b \in Brokers
  PROVE  Serves(KeysOf[release[b]], what)
<1>1. answer[b] \in Releases /\ Serves(KeysOf[answer[b]], what)
  BY FloorsAreAnswers
<1>2. answer[b] <= release[b] /\ release[b] \in Releases
  BY <1>1 DEF Types, Probed
<1> QED
  BY <1>1, <1>2, LaterServes

\* The capability gates under a rolling upgrade: a phase that is on, and a feature
\* the batches announce, is served by every broker now, however the upgrade, the
\* probe and its deadline interleave.
THEOREM GatesStaySound == Spec => []GatesSound
<1>1. Types /\ Probed /\ Gating => GatesSound
  <2> SUFFICES ASSUME Types, Probed, Gating, pc = "running", caps.known,
                      NEW what \in (on \cap Gated) \cup Features(Fold(caps.from)),
                      NEW b \in Brokers
               PROVE  Serves(KeysOf[release[b]], what)
    BY DEF GatesSound
  <2>1. CASE what \in on \cap Gated
    <3>1. on = Gates(CollectorOptions, Fold(caps.from))
      BY DEF Gating, Decided, OptionsFor
    <3>2. AtLeast(Fold(caps.from), what)
      BY <2>1, <3>1 DEF Gates
    <3> QED
      BY <2>1, <3>2, AnswersStayTrue, NamesAreNeeds
  <2>2. CASE what \in Features(Fold(caps.from))
    <3>1. AtLeast(Fold(caps.from), what) /\ what \in WireFeatures
      BY <2>2 DEF Features
    <3> QED
      BY <3>1, AnswersStayTrue, NamesAreNeeds
  <2> QED
    BY <2>1, <2>2
<1> QED
  BY <1>1, ProbeInvariant, GatingInvariant, PTL

\* GROUP_STATES is honoured or refused: an agent that runs with it knows that
\* every broker filters, and every broker still does.
THEOREM FilterStaysHonoured == Spec => []FilterHonoured
<1>1. Types /\ Probed /\ Gating => FilterHonoured
  <2> SUFFICES ASSUME Types, Probed, Gating, pc = "running", cfg.states # {}
               PROVE  caps.known /\ \A b \in Brokers : Serves(KeysOf[release[b]], "GroupStatesFilter")
    BY DEF FilterHonoured
  <2>1. caps.known /\ AtLeast(Fold(caps.from), "GroupStatesFilter")
    BY DEF Gating, Decided, FilterCheck
  <2> QED
    BY <2>1, AnswersStayTrue, NamesAreNeeds
<1> QED
  BY <1>1, ProbeInvariant, GatingInvariant, PTL

\* A configured phase is missing only because a broker said it cannot serve it: a
\* probe that failed, timed out or was refused switches nothing off.
THEOREM NothingDisabledByDefault == Spec => []DisabledForCause
<1>1. Types /\ Probed /\ Gating => DisabledForCause
  <2> SUFFICES ASSUME Types, Probed, Gating, pc = "running",
                      NEW what \in CollectorOptions \ on
               PROVE  \E b \in Brokers : answer[b] \in Releases /\ ~Serves(KeysOf[answer[b]], what)
    BY DEF DisabledForCause
  <2>1. on = OptionsFor(caps)
    BY DEF Gating, Decided
  <2>2. caps.known /\ what \in Gated /\ ~AtLeast(Fold(caps.from), what)
    BY <2>1 DEF OptionsFor, Gates
  <2> QED
    BY <2>2, FloorsAreAnswers, NamesAreNeeds
<1> QED
  BY <1>1, ProbeInvariant, GatingInvariant, PTL
=============================================================================
