------------------------------- MODULE Startup -------------------------------
(***************************************************************************)
(* From the environment to a running agent, and back down: config.Load,    *)
(* agent.New (the client, the ping, the capability probe, the gates, the   *)
(* collector and the exporter), Run's ticker and Close.  The brokers may   *)
(* be upgraded one by one at any time, may refuse to answer, and may never *)
(* answer; ping and probe share one deadline.                              *)
(***************************************************************************)
EXTENDS Config, Capabilities

CONSTANTS
  Envs,       \* the environments the agent may be started in
  Brokers,
  Releases,   \* 1..n, later releases are newer
  KeysOf      \* KeysOf[r]: the API keys a broker of release r advertises

\* Settings that parse are numbers, and an entry of a pattern list has a length.
ASSUME EnvsAssumption ==
  \A e \in Envs : e.n \in [Numbers -> Int] /\ \A p \in e.patterns : p.len \in Nat

\* Versions count from 0, and a newer release takes nothing back.
ASSUME ReleasesGrow ==
  /\ Releases \subseteq Nat \ {0} /\ Releases = 1..Cardinality(Releases)
  /\ \A r \in Releases : \A k \in DOMAIN KeysOf[r] : KeysOf[r][k] \in Nat
  /\ \A r, s \in Releases : r <= s =>
       \A k \in DOMAIN KeysOf[r] : k \in DOMAIN KeysOf[s] /\ KeysOf[r][k] <= KeysOf[s][k]
ASSUME BrokersAssumption == Brokers # {}

VARIABLES
  env, cfg,
  pc,         \* where main is
  cause,      \* why startup failed
  client,     \* the kgo client: none, open or closed
  expired,    \* the deadline of the ping's context has passed
  release,    \* each broker's release
  answer,     \* each broker's answer to the probe: its release then, Silent or Refused
  caps,       \* the cached fingerprint: the answers it was folded from, or Unknown
  on,         \* the phases switched on
  exporter    \* the settings the exporter works with, or NoExporter

vars == <<env, cfg, pc, cause, client, expired, release, answer, caps, on, exporter>>

Unknown == [known |-> FALSE]
NoConfig == [n |-> <<>>]
NoExporter == [mode |-> "none"]
Silent == 0
Refused == -1

Init ==
  /\ env \in Envs
  /\ cfg = NoConfig
  /\ pc = "load" /\ cause = "none"
  /\ client = "none" /\ expired = FALSE
  /\ release \in [Brokers -> Releases]
  /\ answer = [b \in Brokers |-> Silent]
  /\ caps = Unknown
  /\ on = {} /\ exporter = NoExporter

\* Every failure path after the client is created closes it.
Fail(why) ==
  /\ pc' = "failed" /\ cause' = why
  /\ client' = (IF client = "open" THEN "closed" ELSE client)
  /\ UNCHANGED <<env, cfg, expired, release, answer, caps, on, exporter>>

Goto(where) ==
  /\ pc' = where
  /\ UNCHANGED <<env, cause, expired, release>>

(***************************************************************************)
(* The environment of the program.                                         *)
(***************************************************************************)
\* A rolling upgrade.  One before the client exists is in the choice of Init, and
\* nobody sees one after it is closed.
Upgrade(b) ==
  /\ client = "open" /\ release[b] + 1 \in Releases
  /\ release' = [release EXCEPT ![b] = @ + 1]
  /\ UNCHANGED <<env, cfg, pc, cause, client, expired, answer, caps, on, exporter>>

\* Mutant of DeadlinePasses: the probe is on a context that has none.
DeadlinePassesPing ==
  /\ pc = "ping" /\ ~expired
  /\ expired' = TRUE
  /\ UNCHANGED <<env, cfg, pc, cause, client, release, answer, caps, on, exporter>>

\* The deadline runs from the creation of the client to the end of New.
DeadlinePasses ==
  /\ pc \in {"ping", "filter", "gates", "filterProbing", "gatesProbing"} /\ ~expired
  /\ expired' = TRUE
  /\ UNCHANGED <<env, cfg, pc, cause, client, release, answer, caps, on, exporter>>

(***************************************************************************)
(* Loading and connecting.                                                 *)
(***************************************************************************)
\* run of cmd/agent: nothing is dialled for a configuration that is refused.
LoadConfig ==
  /\ pc = "load"
  /\ \/ Complaints(env) # {} /\ Fail("config")
     \/ /\ Complaints(env) = {}
        /\ cfg' = Load(env)
        /\ Goto("dial") /\ UNCHANGED <<client, answer, caps, on, exporter>>

\* kgo may serve cached metadata for half an interval, within its own bounds.
MetadataMinAge(interval) ==
  LET half == interval \div 2
  IN  IF half > 5000 THEN 5000 ELSE IF half < 10 THEN 10 ELSE half

\* NewClient: an unsupported mechanism and an age below kgo's floor are refused
\* here too, and kgo may refuse an option for reasons of its own.
NewClient ==
  /\ pc = "dial"
  /\ \/ /\ cfg.mechanism # "" /\ cfg.credentials /\ cfg.mechanism \notin {"PLAIN", "SCRAM"}
        /\ Fail("sasl")
     \/ MetadataMinAge(cfg.n["COLLECTION_INTERVAL"]) < 10 /\ Fail("minage")
     \/ Fail("kgo")
     \/ /\ cfg.mechanism \in {"", "PLAIN", "SCRAM"} \/ ~cfg.credentials
        /\ MetadataMinAge(cfg.n["COLLECTION_INTERVAL"]) >= 10
        /\ client' = "open"
        /\ Goto("ping") /\ UNCHANGED <<cfg, answer, caps, on, exporter>>

\* Ping before the deadline: the brokers answer, or an error comes back.
PingAnswered ==
  /\ pc = "ping" /\ ~expired
  /\ \/ Fail("unreachable")
     \/ /\ Goto(IF cfg.states # {} THEN "filter" ELSE "gates")
        /\ UNCHANGED <<cfg, client, answer, caps, on, exporter>>

PingExpires ==
  /\ pc = "ping" /\ expired
  /\ Fail("unreachable")

(***************************************************************************)
(* The probe, on what is left of the ping's deadline.                      *)
(***************************************************************************)
Probing == {"filterProbing", "gatesProbing"}

\* Probe, when nothing is cached: one ApiVersions round.
ProbeAsks ==
  /\ pc \in {"filter", "gates"} /\ ~caps.known
  /\ answer' = [b \in Brokers |-> Silent]
  /\ Goto(IF pc = "filter" THEN "filterProbing" ELSE "gatesProbing")
  /\ UNCHANGED <<cfg, client, caps, on, exporter>>

BrokerAnswers(b) ==
  /\ pc \in Probing /\ answer[b] = Silent /\ ~expired
  /\ \E a \in {release[b], Refused} : answer' = [answer EXCEPT ![b] = a]
  /\ UNCHANGED <<env, cfg, pc, cause, client, expired, release, caps, on, exporter>>

\* A broker that has not answered by the deadline counts as an error.
BrokerTimesOut(b) ==
  /\ pc \in Probing /\ answer[b] = Silent /\ expired
  /\ answer' = [answer EXCEPT ![b] = Refused]
  /\ UNCHANGED <<env, cfg, pc, cause, client, expired, release, caps, on, exporter>>

\* Mutant of Fingerprint: a broker that did not answer is left out.
FingerprintOfAnswers ==
  LET heard == {b \in Brokers : answer[b] # Refused}
  IN  [known |-> heard # {}, from |-> [b \in heard |-> KeysOf[answer[b]]]]

\* probeBrokers: a broker that did not answer fails the whole probe.
Fingerprint ==
  IF \A b \in Brokers : answer[b] # Refused
  THEN [known |-> TRUE, from |-> [b \in Brokers |-> KeysOf[answer[b]]]]
  ELSE Unknown

\* CheckGroupStateFilter: an unknown cluster cannot honour the filter.
FilterCheck(found) == found.known /\ AtLeast(Fold(found.from), "GroupStatesFilter")

\* The switches of the configuration, and the phases that have none.
CollectorOptions == cfg.on \cup {"LatestTiered", "Reassignments", "EpochProbes"}

\* Mutant of OptionsFor: an unknown cluster is taken to serve nothing.
OptionsForClosed(found) ==
  IF found.known THEN Gates(CollectorOptions, Fold(found.from)) ELSE CollectorOptions \ Gated

\* An unknown cluster leaves every phase as configured.
OptionsFor(found) ==
  IF found.known THEN Gates(CollectorOptions, Fold(found.from)) ELSE CollectorOptions

\* What New does with the answer of the filter's probe.
FilterDecides(found) ==
  \/ ~FilterCheck(found) /\ Fail("filter")
  \/ /\ FilterCheck(found)
     /\ caps' = found
     /\ Goto("gates") /\ UNCHANGED <<cfg, client, answer, on, exporter>>

\* What New does with the answer of its own probe.
GatesDecide(found) ==
  /\ caps' = found
  /\ on' = OptionsFor(found)
  /\ Goto("collector") /\ UNCHANGED <<cfg, client, answer, exporter>>

ProbeReturns ==
  /\ pc \in Probing /\ \A b \in Brokers : answer[b] # Silent
  /\ IF pc = "filterProbing" THEN FilterDecides(Fingerprint) ELSE GatesDecide(Fingerprint)

\* ApiVersions itself may fail, before any broker is asked.
ProbeFails ==
  /\ pc \in Probing
  /\ IF pc = "filterProbing" THEN FilterDecides(Unknown) ELSE GatesDecide(Unknown)

\* Probe, when the fingerprint is cached.
ProbeCached ==
  /\ pc = "gates" /\ caps.known
  /\ GatesDecide(caps)

(***************************************************************************)
(* The collector, the exporter, the loop and the way down.                 *)
(***************************************************************************)
\* compilePattern, with regexBody: the paired definition of ValidatePattern.
Compiles(e) ==
  IF e.len >= 2 /\ e.opens /\ e.closes THEN e.len > 2 /\ e.compiles ELSE TRUE

NewCollector ==
  /\ pc = "collector"
  /\ \/ (\E e \in cfg.patterns : ~Compiles(e)) /\ Fail("pattern")
     \/ /\ \A e \in cfg.patterns : Compiles(e)
        /\ Goto("exporter") /\ UNCHANGED <<cfg, client, answer, caps, on, exporter>>

\* NewHTTPExporter replaces what it cannot work with.
HTTPSettings ==
  [mode |-> "http",
   n |-> [k \in {"EXPORT_QUEUE_SIZE", "EXPORT_MAX_RETRIES", "EXPORT_BASE_DELAY", "EXPORT_TIMEOUT"} |->
     IF cfg.n[k] < (IF k = "EXPORT_MAX_RETRIES" THEN 0 ELSE 1) THEN Defaults[k] ELSE cfg.n[k]]]

\* NewFileExporter does so too; zero asks for the default size.
FileSettings ==
  [mode |-> "file",
   n |-> [EXPORT_FILE_MAX_MB |->
            IF cfg.n["EXPORT_FILE_MAX_MB"] = 0 THEN 100 ELSE cfg.n["EXPORT_FILE_MAX_MB"],
          EXPORT_FILE_MAX_BACKUPS |->
            IF cfg.n["EXPORT_FILE_MAX_BACKUPS"] < 0 THEN 3 ELSE cfg.n["EXPORT_FILE_MAX_BACKUPS"]]]

NewExporter ==
  /\ pc = "exporter"
  /\ \/ cfg.mode \notin {"http", "file", "stdout"} /\ Fail("mode")
     \/ cfg.mode = "http" /\ (cfg.endpoint = "" \/ ~cfg.key) /\ Fail("endpoint")
     \/ cfg.mode = "file" /\ Fail("open")
     \/ /\ cfg.mode = "http" => cfg.endpoint # "" /\ cfg.key
        /\ exporter' = CASE cfg.mode = "http" -> HTTPSettings
                         [] cfg.mode = "file" -> FileSettings
                         [] OTHER -> [mode |-> cfg.mode, n |-> <<>>]
        /\ Goto("ready") /\ UNCHANGED <<cfg, client, answer, caps, on>>

\* time.NewTicker panics on an interval that is not positive; Close is deferred.
Run ==
  /\ pc = "ready"
  /\ \/ /\ cfg.n["COLLECTION_INTERVAL"] <= 0
        /\ cause' = "panic" /\ client' = "closed" /\ pc' = "failed"
        /\ UNCHANGED <<env, cfg, expired, release, answer, caps, on, exporter>>
     \/ /\ cfg.n["COLLECTION_INTERVAL"] > 0
        /\ Goto("running") /\ UNCHANGED <<cfg, client, answer, caps, on, exporter>>

\* A signal ends Run; Close takes the exporter down and then the client.
CloseExporter ==
  /\ pc = "running"
  /\ exporter' = NoExporter
  /\ Goto("closing") /\ UNCHANGED <<cfg, client, answer, caps, on>>

CloseClient ==
  /\ pc = "closing"
  /\ client' = "closed"
  /\ Goto("stopped") /\ UNCHANGED <<cfg, answer, caps, on, exporter>>

Step ==
  \/ LoadConfig \/ NewClient \/ PingExpires
  \/ ProbeAsks \/ ProbeReturns \/ ProbeCached
  \/ NewCollector \/ NewExporter \/ Run \/ CloseClient

Next ==
  \/ Step \/ PingAnswered \/ ProbeFails \/ CloseExporter \/ DeadlinePasses
  \/ \E b \in Brokers : BrokerAnswers(b) \/ BrokerTimesOut(b) \/ Upgrade(b)

Spec == Init /\ [][Next]_vars

\* The agent keeps running and its timers fire; a broker need not answer.
FairSpec ==
  /\ Spec /\ WF_vars(Step) /\ WF_vars(DeadlinePasses)
  /\ \A b \in Brokers : WF_vars(BrokerTimesOut(b))

(***************************************************************************)
(* Properties.                                                             *)
(***************************************************************************)
\* Load's promise, that a bad setting fails at startup and before anything is
\* dialled: no later constructor (buildSASL, kgo's bounds, the collector's
\* filters, export.New, the ticker) ever meets a setting it must refuse, and the
\* exporter works with the numbers the operator was shown, not with a fallback
\* of its own; the size that asks for the default is the exception.  Left to the
\* constructors is what Load does not look at: a broker address kgo cannot parse
\* (Load only wants the list not to be empty) and a file that cannot be opened.
ConfigFaultsCaughtByLoad ==
  /\ cause \notin {"sasl", "minage", "pattern", "mode", "endpoint", "panic"}
  /\ pc = "running" => \A k \in DOMAIN exporter.n :
       exporter.n[k] = cfg.n[k] \/ (k = "EXPORT_FILE_MAX_MB" /\ cfg.n[k] = 0)

\* The capability gates under a rolling upgrade: what is switched on, and what
\* the batches say every broker supports, every broker serves now, though the
\* fingerprint was taken at startup and brokers have changed since.
GatesSound ==
  pc = "running" /\ caps.known =>
    \A what \in (on \cap Gated) \cup Features(Fold(caps.from)) : \A b \in Brokers :
      Serves(KeysOf[release[b]], what)

\* A configured phase is only ever missing because a broker said it cannot serve
\* it: a probe that failed or timed out switches nothing off.
DisabledForCause ==
  pc = "running" =>
    \A what \in CollectorOptions \ on :
      \E b \in Brokers : answer[b] \in Releases /\ ~Serves(KeysOf[answer[b]], what)

\* GROUP_STATES is honoured or refused, never silently ignored: an agent that
\* runs with it knows that every broker filters, whatever the probe met.
FilterHonoured ==
  pc = "running" /\ cfg.states # {} =>
    caps.known /\ \A b \in Brokers : Serves(KeysOf[release[b]], "GroupStatesFilter")

\* Brokers that never answer do not hold startup up: the agent runs, or says why
\* it does not and leaves no open client behind, whichever step it fails in; the
\* caller of New has no handle to close it with.
StartsOrFails == <>(pc = "running" \/ (pc = "failed" /\ client # "open"))
=============================================================================
