# Antigravity-IDS: a TLA+ verification project

TLA+ models of the intrusion detection system in `src/`, TLC configurations
that check them on small instances, and proofs checked by TLAPS for instances of
any size. Paths below are relative to `src/`; `PROJECT.json` maps every
definition to the lines it models.

    tlc -config Mfa.cfg MCMfa          # one run
    tlapm AuditChainProofs.tla         # one module of proofs

## 1. Inventory of the system

Python processes (web workers, a correlator, a sniffer, cron jobs, command line
tools) that share one SQLite file in WAL mode and nothing else. A write transaction
excludes other writers, a reader sees the last commit, and a process can die
anywhere. Nearly every hard behaviour comes from that: what a process read in one
transaction it uses in the next, while others write.

| Component | State | Operations | Hard behaviour | What makes it correct |
|---|---|---|---|---|
| Structured logger, `logs/logger.py` | `audit_events`, fail-safe file | emit | rows stamped before they are inserted, so ids and timestamps disagree | a record is stored somewhere, once |
| Sealing, `logs/integrity.py` | `audit_checkpoints`, `audit_retention_hashes` | seal, verify, retain hashes | two sealers, a purge with a stale horizon, a verifier beside both, a crash in between | verification blames tampering and nothing else, and blames it when it changed what a seal covers; no row slips under a seal |
| Retention, `logs/maintenance.py` | every table | purge_old_events | horizon computed before the write lock is held | only old rows leave; nothing that prevents a repetition leaves early |
| Authentication, `auth/core.py` | `users`, `recovery_codes`, `auth_attempts`, `totp_consumptions` | enroll, revoke, set role, verify_token, use_recovery_code | parallel presentations of one token, backoff read before the attempt is recorded, revocation in between | one login per TOTP interval and per code; revoked is revoked; a lockout ends |
| Correlation, `detection/correlation.py` | `incidents` | load, seven rules, insert | overlapping sweeps, rows that commit late, purge, failing sweeps and rules | incidents are reported once, and before their rows leave the lookback |
| Normalisation, `detection/normalize.py` | none | make an event of a dispatch or of a row | the event is found again in a message made for readers; names chosen by users contain the words, quotes and spaces looked for; context is missing | the rules see the event that was dispatched |
| Phishing, `detection/phishing.py` | none | analyse a URL | branches that exclude each other over an edit distance with a bound | high needs two kinds of signs; more signs are no milder |
| Scoring, `detection/scoring.py` | none | score an event, an incident | bounds on sums of bonuses | totals are the sums shown; an incident's score only rises |
| Deduplicator, `detection/dedup.py` | fingerprint to last time | is_duplicate | clock read before the lock; eviction at the limit | repetitions suppressed for a window and no longer |
| Threat intel, `detection/intel.py` | file cache | load | a file edited while it is read, coarse mtimes | an edited list is reloaded |
| Event replay, `detection/replay.py` | `audit_events` | replay a file | bad records, kills, other writers | whole or not at all; ends at the base time |
| FIM, `fim/monitor.py` | `file_baselines`, `fim_directories`, `fim_events` | baseline, check | the disk changes between two reads; checks overlap; a transaction fails | every tampering reported; a new file alerts once |
| Sessions, `dashboard/routes.py` | signed cookies in browsers | login, logout, view, roster | a late response overwrites a newer cookie; the role changes mid-request | sessions have an absolute lifetime; each view is authorised |
| Login limiter, `dashboard/security.py` | client to window | check | clock read before the lock; cleanup above the limit | few attempts per window; honest Retry-After |
| Event stream, `dashboard/routes.py` | a generator per client | recheck, query, send | revocation and purge during a page; workers are few | no row skipped; a lost session ends the stream; every stream ends |
| Live feed, `dashboard/static/dashboard.js` | the rows on the page | connect, receive, reconnect | every connection starts at row 0; it breaks with rows on their way; the session ends | rows come to the page; a page that lost its session does not look live |
| Read queries, `dashboard/queries.py` | none | the queries of a page | each query is a connection of its own; one that fails logs a row into the table the next one reads | metrics tell silence from activity; a counter falls by retention, or to 0 by a failed query, only |
| Startup, `dashboard/diagnostics.py`, `dashboard/__main__.py` | the environment | diagnose, create the application, serve | three launchers look at the same settings at different moments | what is called ready starts |
| Sensor, `network/sensor.py` | deduplicator, throttle | dispatch a packet | killed between suppression, evidence and mail | evidence before alert |
| Watchlist detector, `network/detectors/dns_detector.py` | the pairs it reported | process_packet | the pair is marked before the dispatcher suppresses the event; the list is edited | a listed host is alerted |
| Detectors, `network/detectors/` | sliding windows | process_packet | packets out of order, eviction | what is reported happened; what happened is reported |
| E-mail alerts, `alerts/email_alert.py` | throttle table | send | SMTP fails after the throttle registered the alert | storms are stopped |
| Orchestrator, `ids/` | threads | launch, supervise, correlator loop | threads end while they are polled; Ctrl+C anywhere; a starter raises | the process ends when it should; the correlator keeps sweeping |
| Demonstration, `demo/attack_chain.py` | its scratch directory | run_demo | killed half way and run again, beside a correlator and a check by cron; files that cannot be read, events that cannot be stored | it shows the chain it stages |

Interaction: the logger writes rows that the correlator, the event stream and the
verifier read; retention deletes from all of their tables; authentication decides
what dashboard sessions may begin, and its `is_active` and `role` columns are read
again at every request and every page of a stream; the sensor calls detectors, the
deduplicator, the logger and the mailer in that order; the orchestrator starts the
sensor, the correlator and the dashboard as daemon threads of one process.

### Not modelled

Static tables (`detection/mitre.py`, `detection/playbook.py`); address arithmetic of
`detection/intel.py` and the splitting of URLs and messages into words, of which the
models have the result; the parsing of packets; Fernet and TOTP cryptography (taken as
injective, as is the fingerprint of a row up to NULL and an empty text), with the bootstrap and command line that only call what is modelled
(`auth/crypto.py`, `auth/storage.py`, `auth/cli.py`); SMTP; SQLite pragmas of
`logs/maintenance.py` that change no row; HTTP calls to a language model (`ai/`); the
experimental camera demo (`vision/`); the sample generators and `scripts/validate.py`.
None of them keeps state that two actors share.

## 2. Modules

One module per component; the properties of a larger one are in a module of their own.

| Module | Models | State and actions |
|---|---|---|
| `SealedLedger` | what sealing promises, abstractly | a sequence of sealed segments; `Seal` appends one with larger ids |
| `AuditChain` | logger, seal, purge, verify | tables as sets of records; a job's transaction is begin, commit or abort; the verifier's snapshot is `view` |
| `AuditTamper` | `AuditChain` with someone editing the file | one edit: of any column of a sealed row, a retention hash, a seal or a border; removals, insertions, an exchange of checkpoints. `damage` says whether it left evidence |
| `AuditChainProofs` | proofs about `AuditChain` and `AuditTamper` | |
| `OneTime` | what the second factor promises, abstractly | a credential logs a user in once; `Login`, `Revoke` |
| `Mfa`, `MfaProperties`, `MfaProofs` | verify_token, use_recovery_code, backoff in both modes, purge, revocation | one action per transaction or read, locals in between |
| `Accounts` | enroll_user, revoke_user, set_user_role | a step per statement, one write lock |
| `Correlation`, `CorrelationProperties`, `CorrelationProofs` | the engine | the rules are operators on a set of rows; `Load`, `Insert`, `SweepFails` |
| `Normalization` | the way of an event through its audit row | a message is the set of phrases it has, those in the names it has included, and what the searches cut out of a name is a constant (`Quoted`, `Dotted`, `Word`); `Dispatched`, `Logged` |
| `Phishing` | analyze_url | a URL as its label and its signs; `Gain` adds a sign |
| `Scoring` | the score of an event and of an incident an event joins | `risk_score`, `incident_score`, `Join` |
| `DedupTable`, `Deduplicator` | the table's operators, and threads that use it | `Call` reads the clock, `Suppress` and `Register` hold the lock |
| `Sensor` | the sniffer's callback, composing two `DedupTable`s with logger and mail | a step per call, a kill between any two |
| `ScanDetector` | SYN and ICMP detectors | a deque of packets, eviction at its head |
| `ArpDetector` | ARP detector | the history of an address |
| `DnsWatchlist` | the watchlist detector behind the dispatcher of the sensor (with its `DedupTable`) and of a replay | pairs reported, alerts, a list under edit |
| `SensorProofs` | proofs about `Deduplicator`, `ScanDetector`, `ArpDetector`, `DnsWatchlist`, `Sensor` | |
| `ThreatIntel` | the cached load of watchlists | stat and read are two steps, editors in between |
| `Fim`, `FimProperties`, `FimProofs` | baselining and checks | each read of the disk and each transaction a step |
| `Dashboard` | sessions | requests in flight, each with its session object; responses replace the cookie |
| `LoginRateLimiter` | the limiter | `Call` reads the clock, `Check` holds the lock at most `Lag` later, half a window or less |
| `EventStream`, `EventStreamProofs` | the server-sent event generator | `Recheck`, `Query`, send |
| `LiveFeed` | the browser's end of the stream | `Connect`, `Receive`, `Reconnect`; a generator as in `EventStream`, without its clock; `EventStreamProofs` has its proof |
| `ReadViews` | the pages as series of queries | `Read`, `Fails`, with the rows modules and the queries themselves log; a count that fails is exported as 0 |
| `Startup` | diagnostics, launchers, create_app, choice of a server | every combination of the settings' spellings and launcher as an initial state, a step per phase |
| `DashboardProofs` | proofs about `Dashboard`, `Accounts`, `LoginRateLimiter`, `Startup`, `ReadViews` | |
| `EventImport` | replay of a file | read, resolve, insert row by row, commit or roll back |
| `DetectionProofs` | proofs about `Scoring`, `ThreatIntel`, `Normalization`, `EventImport`, `Phishing` | |
| `Supervisor` | `python -m ids run` | main thread, polled threads, the correlator's loop; `EventStreamProofs` has its proof |
| `Demo` | the demonstration | the steps of run_demo on the tables of an instance of `Correlation`, whose correlator sweeps beside it; kills, a second run, another check, reads that are refused and transactions that fail; `CorrelationProofs` has its proof |

`MC<Module>` instantiates a module for TLC, or several: `MCDemo` the engine and the
demonstration; `MCDetection` scores, import, watchlist file, URLs and normalisation;
`MCDashboard` sessions, limiter, accounts, startup and pages; `MCSensor` the
deduplicator, the sensor, the detectors and the watchlist detector; `MCServices` the
stream, its feed and the supervisor. The modules that share an `MC` module share no
variable, and none of them reads what another writes, so a behaviour of it is one of
one part, which the variable `part` names from the start: interleaving two parts would
add no order of events that a property of either can see. Composition where the code
shares state is inside the modules: `Sensor` and `DnsWatchlist` instantiate
`DedupTable`, `Demo` runs on the variables of `Correlation`, `LiveFeed` has both ends of
a connection. A property of an instantiated module is listed under a name the `MC`
module gives it.

A property a run lists may be a conjunction of named parts, each with its own comment
in the module: `TypeOK` is a part of one property of every module (of `IInv` in
`AuditChain`), and where several promises are sides of one they are checked as one:

| Property | Parts |
|---|---|
| `NoAttackAgesOut` | replays, intrusions, bursts |
| `WindowsAreExact` | brute force, spray |
| `ChainIsShown` | `ShowsTheChain`, `DamageIsFound` |
| `FoldedOnce` | `OneEventFolds`, `BaselinesAreAccounted` |
| `ImportsAreWhole` | `WholeOrNotAtAll`, `ScenarioEndsAtBase` |
| `VerdictsAreSound` | `HighIsCorroborated`, `LookAlikesAreFound` |
| `RulesSeeEvents` | `RowsTellTheEvent`, `FilesAreNamed`, `LinesAreNoEvents` |
| `CorroborationRaises` | `AtLeastTheWorst`, `NeverLowered` |
| `FewAttempts` | `FewAttempts` of the limiter, `RetryAfterIsHonest`, `EndedWindowsGo` |
| `SessionsEnd` | `SessionsAreAbsolute`, `ServedWithinLifetime` |
| `AccountsAreSound` | `AccountsAreWhole`, `AnswersAreTrue`, `RevokedForGood` |
| `MetricsAreTrue` | `SilenceShows` while no query fails, counters |
| `EvidenceFirst` | `EvidenceFirst` of the sensor, `StormsAreStopped` |
| `SuppressionIsHonest` | `Bounded`, `NoRepeatPasses`, `SuppressedAfterPassing` |
| `ScansAreReported`, `FlapsAreReported` | nothing invented, nothing missed |
| `EveryRowOnce` | `NoRowSkipped`, `NoRowRepeated` |
| `EndsWhenItShould` | `ReturnsWhenAllStopped`, `StopsWhenAsked`, `EndsWithComponents`, `KeepsSweeping` |
| `FeedKeepsUp` | `NoGap`, `BadgeGoesOut`, `RowsArrive` of a table one connection can send |

`PROJECT.json` has a mutant for each side that a bug of its own could break.

A definition whose comment begins with "MUTANT" is a plausible bug, written before
the definition it could replace; no specification uses it. It records, for a
property, what the property catches.

Abstractions used throughout: time is a counter of ticks; a cryptographic hash is
the tuple it hashes (no collisions); a username, an address, a path or a token is a
model value; what is logged on standard error is left out. Variables marked
"history" in a declaration are not read by any guard.

## 3. Runs

Bounds are constants (`Max...`) in the guards, and the runs are exhaustive up to the
symmetry of interchangeable model values; each takes at most four minutes. `Mfa`,
`Correlation` (in `MCCorrelation` and, with the demonstration's, `MCDemo`), `Fim` and
`Detection` have a state constraint that names the combinations of bounds that are
searched: a few families of states, each with the bounds its properties need, instead of
the product of them all. TLC checks the states just outside of it too and only leaves
their successors out. These four run no liveness property, which a constraint could
hide, and the one run with liveness, `Services`, has no symmetry either. `AuditChain`,
`AuditTamper` and `LiveFeed` are run as they are, without a module of their own for TLC.

| Run | Question | Instance and why it is enough |
|---|---|---|
| AuditChain | does verification ever blame the program's own history; is the invariant of the proofs true; do the tables implement the ledger | 2 loggers, 2 jobs, 3 rows, retention 1: a seal, a second seal and a purge across both fit, in every interleaving; the proofs cover the rest |
| AuditTamper | is an edit of sealed history that leaves evidence reported, and no other | one logger, one job, two rows whose NULL context an edit may make empty, two checkpoints, any edit at any moment, beside seals and purges. Two rows are all that fits five minutes: a border moved within a gap of the ids and an insertion into one, or three checkpoints in another order, are left to the theorem, which has no such bound |
| Mfa | do requests, purge and revocation implement one-time credentials; what a burst of guesses gets; what each answer means when it is given | a rejecting and a sleeping client, 3 attempts, tokens that repeat from interval 0 to 2, a right and a wrong code, revocation, a login recorded without an interval. Both clients run through the first ticks (`Burst`), then the dashboard alone, long enough for retention to reach the first consumption |
| Correlation | is a dedupe key inserted once; is every attack reported before its rows leave the lookback; do the sliding windows agree with their definitions; does the demonstration show what it stages | a daemon and a sweep by hand, rows committed a tick late, a failed sweep, a rule that raises, an analyst, the purge. Families of rows: two of one user's failures, successes and replays (with the sweep by hand); a scan and a tampering, or two of one; four failures of one user (two bursts); three failures of two users. The demonstration with the code's own thresholds in ticks of half a minute: two runs, the first killed anywhere, a correlator, one check by cron, up to two reads refused or transactions that fail while time stands still (two in the first run where no other check runs), a minute that passes; beside the second run and a check by cron the correlator is not in the middle of a sweep |
| Fim | is a new file folded once, with its event, in overlapping checks; does a check that ends report all that differed throughout | a critical file and a planted one, an operator, two changes of the disk, two events. Two checkers overlap on the watched directory; one runs on both paths |
| Detection | the sums shown, and monotone incidents; a replay whole or not at all, ending at the base time; is a settled watchlist what is loaded; verdicts and their signs; what the rules see of a row | counts on both sides of each bound, incidents of seven events (past the cap of the size bonus); two files of up to two records of every kind, a logger, kills; two contents and the empty file, truncation, older files, removal; every label of three and four letters of two, two brands, every combination of signs for five labels; every kind of event; names with a quote, a sentence or a word that is looked for, paths with spaces, a marker or the name of an event in them, an address of each kind |
| Dashboard | are sessions absolute and views authorised; how many attempts pass; whole accounts, true answers, final revocation; does what is called ready start; are metrics true | two requests of one browser in any order, any response order, for as long as a session lasts; two threads held up by the lock, two clients for a table of one; two operators, two names, three enrollments of two codes; every combination of launcher and settings, set, empty, misspelt or not set; one reader, two rows, a table that is missing, purged or locked |
| Sensor | bound and suppression of the deduplicator; evidence before alerts; are reports scans and flaps, and scans and flaps reported; is a listed host alerted | two threads, three fingerprints for a table of two; two detectors, both tables, three events, kills, failing stores and mail; three targets, threshold 2, packets a tick out of order; three MACs, six packets; one host, two listed domains, a list that is edited, the sensor and a replay |
| Services | is a row skipped or repeated, what does a lost session still receive, does a stream end; does a row reach the page through broken connections; does the process end when asked or when all has stopped, and only then; does the correlator keep sweeping | pages of 2, four rows, purge of any rows, revocation, a session that outlives the stream or not; four rows, connections of two pages of two rows, two that break or lose their session; all subsets of the three components |

Deadlock is checked in the runs `AuditChain`, `AuditTamper`, `Mfa` and `Fim`. The others
end, or use up the inputs of their instance; their configurations say
`CHECK_DEADLOCK FALSE`.

### Where the code departs from what it says

Three runs check one statement of a docstring or a document each, and TLC shows a
behaviour of the code that breaks it.

| Run | Statement | Behaviour |
|---|---|---|
| MfaRevoked | revoked users fail immediately (`auth/README.md:87`) | `use_recovery_code` looks at `is_active` before the backoff only; revoked in between, the user logs in |
| CorrelationKeys | the dedupe key is stable (`detection/correlation.py:103`) | when the burst's first event leaves the lookback the key changes and one attack is two incidents |
| FeedStarves | "streams new audit events to authenticated clients" (`dashboard/routes.py:140`) | every connection starts at row 0 and has the time for 3600 rows; of a longer table the browser is sent the same beginning again and again |

More were met while modelling. The models behave the same way, and the named
property says what does hold; that the statement fails is not a run of its own.

| Model | Statement | Behaviour | What holds |
|---|---|---|---|
| `AuditTamper` | "reports any modification, deletion, or insertion within a sealed range" (`logs/integrity.py:9-10`) | three edits leave no evidence: a NULL column made empty or the reverse (`or ""`, `logs/integrity.py:51-63`), a border of a checkpoint moved within a gap of the ids, and the newest checkpoint removed. That several edits made to agree are not found the docstring says itself | `TamperingIsDetected` |
| `Fim` | a new file alerts once (`docs/ARCHITECTURE.md:86-87`) | one whose digest cannot be computed alerts at every check | `FoldedOnce` |
| `Fim` | "has been deleted" (`fim/monitor.py:141`) | said of a file that exists and cannot be read | `NoTamperMissed` |
| `ArpDetector` | the changes are counted (`network/detectors/arp_detector.py:35`) | the change away from an address held for longer than a window is not | `OneChangeEscapes` |
| `LoginRateLimiter` | memory stays bounded (`dashboard/security.py:42`) | not by clients of one window | `EndedWindowsGo` |
| `ThreatIntel` | an edited file is reloaded (`detection/intel.py:26-27`) | not if the edit left the mtime of the cached load | `ReloadedUnlessHasty` |
| `Supervisor` | a component that cannot start is skipped (`ids/__main__.py:8-9`) | a starter that raises ends the process and the others with it | `ReturnsWhenAllStopped` |
| `Startup` | "a running thread on success or None" (`ids/services.py:3`; `StartersReturn`) | the dashboard's starter raises on a setting that is no number, with READY reported; so does the launcher, for `DASHBOARD_PORT` before `--check` is looked at | `ReadyMeansStarts` |
| `Startup` | `FLASK_ENV` decides about production | "Production " is production to the report and the launchers and not to create_app, which compares it exactly | `ReadyMeansStarts` |
| `Startup` | "Default to the non-blocking reject mode" in web workers (`dashboard/__init__.py:40`) | `MFA_BACKOFF_MODE` set to nothing, or misspelt, stays (`setdefault`) and blocks (`auth/core.py:75,90`); the diagnostics warn of "sleep" only (`dashboard/diagnostics.py:169`), and say READY | `ReadyMeansStarts` |
| `DnsWatchlist` | one alert per source and domain (`network/detectors/dns_detector.py:24`; `OneAlertPerDomain`) | the sensor's deduplicator, whose fingerprint has no domain, suppresses the second domain of a host, which is marked as reported and never alerted | `ListedHostsAreAlerted` |
| `ReadViews` | a stalling value shows that a sensor stopped (`dashboard/queries.py:197`) | while a query of the dashboard fails, the row it logs moves the timestamp | `MetricsAreTrue` |
| `ReadViews` | counters (`dashboard/routes.py:259-269`) | they count rows, so retention lowers them; and the FIM and the network counter are 0 after a failed query and come back with the next one (`dashboard/queries.py:59-61,107-109`), which a rate reads as a restart | `MetricsAreTrue` |
| `LiveFeed` | the browser reconnects | the table is sent again from its beginning each time; the page ignores nothing it has | `FeedKeepsUp` |
| `Normalization` | rate limits are recognised by message too (`detection/normalize.py:124`) | the message has "rate limited" in lower case, so a row without context is an `AUTH_EVENT` | `RulesSeeEvents` |
| `Normalization` | the path of a message without context (`detection/normalize.py:147`) | cut at its first space, or taken behind another marker that the path or the message has before it | `RulesSeeEvents` |
| `Normalization` | "Extracts the username" (`detection/normalize.py:20`) | up to its first apostrophe, by `from_auth_event` as well, which reads the message; and a username with one of the sentences looked for gives the event another name. The login form refuses such names; "Enrollment only ever creates usernames from this character set (see auth.cli)" (`dashboard/routes.py:42`) is not what `auth/cli.py` does, which takes any | `RulesSeeEvents` |
| `Normalization` | `ioc_match` is about events | any row of the sensor with a listed address in its text counts, a log line too | `LinesAreNoEvents` |
| `Phishing` | "a single weak signal lands a URL in 'suspicious'" (`detection/phishing.py:10-12`) | an abused TLD alone scores 15 points, which is low | `VerdictsAreSound` |
| `Demo` | a fresh run has new incidents | within the hour some of its keys repeat, of which no incident is inserted; and with an operator's own list of addresses there is no ioc_match | `ChainIsShown` |
| `Demo` | the tampering is found (`demo/attack_chain.py:18-20`) | a transaction of the monitor that fails is logged and passed over (`fim/monitor.py:210-212,220-221`), a file that cannot be read at the baselining is not in the baselines, and one that cannot be read at the check is reported as deleted. A run ends without those events, and where neither was stored without `network_then_fim` | `DamageIsFound`, `ShowsTheChain` |

### Fairness

Only `LiveSpec` of `MCServices` and `Spec` of `LiveFeed` assume any. For the stream: the
clock advances, and the server runs a generator that is not asleep (Waitress iterates it
as long as the client reads; a client that goes away ends the stream at once). It does
not assume that anything is logged, nor that the session ends. For the feed: the browser
and the server go on (`Program`: `EventSource` connects again by itself, the generator
is resumed, what was sent is received or lost with the connection); rows, retention,
logins and broken connections may come or not. For the supervisor: the main thread and
the correlator's are scheduled, a starter returns, and a sweep ends (its statements time
out). It assumes neither Ctrl+C nor that a server or a sniffer ever stops, so
`KeepsSweeping` is about a process that may live forever. No safety property depends
on fairness.

## 4. Proofs

TLAPS checks these for every value of the constants that satisfies the `ASSUME`s
of the module. Most of those say only of what type a constant is; the others are
relations the code's own settings have, named below where a proof needs them. Each
proof has an inductive invariant, a conjunction of named parts with a comment each, and
one lemma per action, or group of actions, that can disturb it. The theorems that
state a property of an instantiated module are about `MCSpec`: the invariant of a part
is kept by its own steps, and the other parts leave its variables alone.

`AuditChainProofs`. A checkpoint describes its range (`Describes`) if its hash, its
count and its predecessor are those of the tables, and no row clashes with a retained
hash. `Structure` is what holds whatever is sealed: ranges follow each other, new
ids lie above the last sealed one, and the selection of a transaction is still current
when it commits (which is what `BEGIN IMMEDIATE` gives).

* `InvariantHolds`: every checkpoint describes its range. Of each action it is
  proved that it keeps `Structure`, and that of the sealed segments everything a
  verification could find out stands (`SegmentsStand`, in both directions: a purge
  replaces a row by its own hash, `PurgePreservesSegment`).
* `TypeCorrect`, `VerificationIsSound`, `SealsMissNoRow`: the invariants of the run,
  and `PurgesGoThrough`, that a purge never meets its own earlier work.
  `RetentionIsRespected`: the action property.
* `ImplementsLedger`: `AuditChain` implements `SealedLedger` under the mapping that
  reconstructs each segment from rows and hashes. A purge is a stutter, a commit of a
  seal is a `Seal`.
* `TamperEvidence`, about `AuditTamper` (one edit, of whatever rows, hashes and
  checkpoints there are): an untouched log is `Sound`, that is every checkpoint describes
  its range, and a chain hash is as long as its place in the chain; and an edit that
  counts leaves `Evidence` at some checkpoint (`Exposed`), which is that the
  checkpoint does not describe its range and no step of the program can make it.
  One lemma for each kind of edit shows the checkpoint that tells: a modified row changes
  the set of fingerprints; a deleted or an inserted one their number; a forged seal its
  own; a border the number of entries, since a range that is inside another and covers
  something else covers less (`WiderRange`); a checkpoint out of its place is not seeded
  by the one before it (`OutOfPlace`). That the steps of the program neither
  damage nor repair is `SegmentsStand` and `EvidenceStep`; that a clash of a row with a
  retained hash stays is that such a row cannot be purged. Of an edit that left no
  evidence the invariant keeps only that the tables are of their type (`Workable`). The
  verifier's answer is then the one about its snapshot.

  Beyond the model: rewriting several columns or all later checkpoints so that they
  agree (the docstring recommends an anchor off the machine against it), further seals
  made up, edits of columns that nothing reads (`created_at`, `purged_at`), of
  `sqlite_sequence` and of the id of a retention hash, row ids that were never given, and
  columns of another type or with the separator of the fingerprint in them.

`MfaProofs` (any clients, users, tokens and codes; assumed are a finite set of clients,
codes issued to who is enrolled, the first cooldown within the window in which failures
count, both windows, `MaxPause` and two steps within the retention, and that logins
recorded without a step are of tokens and `ReplayWindow` apart):

* `CredentialsAreOneTime`: `Mfa` implements `OneTime`. The hard case is a purge between
  the moment a request matches its token and the moment it commits. The invariant
  (`InvariantHolds`) says that a step that logged in is still in `totp_consumptions` or
  lies before the horizon (`UsedForGood`), and that a request at its commit has read the
  clock at most `MaxPause` ago and matched at most one step back (`CommitsInTime`), so
  what it would consume is not before the horizon (`NoCommitIsTooOld`). For recovery
  codes it is that a used code has left the table.
* `ReplayAlarmsAreTrue`, from a second invariant: the tables hold nothing that was not
  recorded, and a code a request found is there until its use is on record.
* `NothingConsumedInVain`, `GuessesAreBounded` and `LockoutsEnd`, from a third one over
  the whole history of attempts. The bound on a burst is not inductive: whoever is
  past the backoff may still fail. So the failures in the first cooldown after any
  failure are counted together with the requests that may add to them (`Armed`,
  `BurstsFit`); a request is armed in an old cooldown only if it was before, because one
  that decides after the failure waits for at least a cooldown (`Delayed`).

`CorrelationProofs` (any thresholds and windows, any number of rows, daemons and sweeps):

* `IncidentsReportedOnce`: a key that was inserted is still in the table, or older than
  the retention (`IncidentsKept`), and then no sweep at its commit can have found it again
  (`SweepsCurrent`: what it holds is anchored in a row of its lookback, read `MaxPause`
  ago at most). It needs `RetentionAssumption`: lookback and pause fit the retention.
* `AttacksAreReported`: in every stretch as long as the gap that failed rounds leave some
  sweep read the table and inserted what the rules found (`Covered`, `DenseUpTo`), so
  that one of them saw all the rows of an attack. It needs `CadenceAssumption` (a chain,
  late commits and the rounds that may fail fit the lookback), `BurstAssumption` (that gap
  is within the window of a burst, and together they fit the lookback as well), a daemon,
  and that the rules that report attacks do not raise.
* `SlidingWindowsAreExact`: brute force and spray are found exactly when some stretch as
  long as the rule's window holds enough failures, or failures of enough users, and what
  is reported is such a stretch.
* `DamageIsTold`, about `Demo` (any number of runs, killed runs and checks beside them):
  a run that ends has its changed file and its planted file in `fim_events`. The
  invariant follows a run from the files it prepares (`Prepared`) through the baselines
  that name the original (`Baselined`) and the damage to the check, of which it
  says what it has read, handled or still has on its list (`Checking`), or what was
  refused to it or could not be stored (`lost`); a check by cron at the same time takes
  none of it away, and what that one loses is not excused.

`FimProofs` (any files, roots, contents and number of overlapping checks):

* `NewFilesFoldOnce`: what is a baseline was accepted by the operator or is the digest of
  a persisted event (`Accounted`), and an event with a digest folded its file for good
  (`Folded`).
* `ChecksMissNothing`: of every path that nothing touched since a check began, what it
  read stands (`KnownCurrent`, `HashCurrent`) and what is wrong was handled, is in hand,
  or is still on its list (`BreachTracked`, `NewTracked`). The steps of other checks
  and of the disk are one lemma (`OthersStay`): what they change is touched.

`DashboardProofs` (any number of browsers, requests, users, operators, threads, readers):

* `SessionsEndForGood` and `EveryViewIsEntitled`. That a request is shown only what its
  user was entitled to since it arrived is not inductive: the invariant carries what is
  known at each of its steps, from the arrival (`EntitlementNoted`) through the lookup
  (`LookedUp`), and of every cookie that it dates from a login (`SessionsDated`).
* `AccountsStaySound`: the secret of an enrollment under way is nobody else's
  (`SecretsDrawn`), who is past the insertion has the name for itself, and there are as
  many rows as enrollments that were told of (`NamesTaken`).
* `AttemptsAreFew`. The windows of a client follow each other, but for threads that
  read the clock and were then held up (`WindowsApart`, `LastWindow`); each begins with
  the attempt that opened it (`AttemptsDated`). A stretch as long as a window then meets
  three at most, of the oldest not its opener. TLC refuted the property for a thread held
  up for longer than half a window (a window of 4, a delay of 3: attempts of a fourth
  window fit), so `LimiterAssumption` now says `2 * Lag <= Window`; the code's window is a
  minute, and what a thread waits for there is a lock held for a few dictionary operations.
* `ReadyStarts`: from the diagnosis on, the settings a launcher reads later are those
  that were diagnosed (`Diagnosed`). Three exceptions are in the property: settings that
  are no numbers, a `FLASK_ENV` in other letters, and a `MFA_BACKOFF_MODE` that is empty
  or misspelt.
* `MetricsStayTrue`: what was counted since retention last deleted is no more than would
  be counted now (`CountersGrow`), and without a failed query every row is a module's
  (`Heard`). A count that fails shows 0, and says nothing of what was counted.

`DetectionProofs` (any names, files, brands and labels):

* `TotalsAddUp`, the total `explain()` shows is the sum of what it shows, because the
  amplifier's bound keeps the sum at 100 at most; `WorstBoundsScore` and
  `ScoreNeverLowered`, from `IncidentMonotone`, and together `Corroboration`.
* `LoadsAreCurrent`: what is cached under the mtime of the file is what the file says
  (`CacheCurrent`), unless an mtime came twice.
* `EventsAreSeen`: for each kind of event the row is read as the event, up to what the
  rules do not tell apart (`Told`), name by name. Names are any, and what they say, where
  they are cut and what is found in an address are functions of which the module assumes
  only (`NormalizationAssumption`) that a name of one word is found whole and has none of
  the phrases with a space in it. What is claimed of other names is in the property.
* `FilesAreWhole`: the open transaction holds the first rows of one file (`OpenRows`);
  below what is committed a file stands as a whole at one place, or nowhere (`Stands`,
  `Committed`). That the last offset is at the base time is that `resolve_timestamps`
  subtracts the largest.
* `MoreNeverHelps`: the points of a verdict are monotone in what a URL shows, kind by
  kind (`ShowsMore`), where the kinds exclude each other as well.
* `VerdictsHold`: no kind of signs alone reaches the score of high (`HighNeedsTwo`),
  and `_levenshtein` calls a label a look-alike of a brand exactly if one or two edits
  make the brand of it, for words of any length. The table that the code's recurrence
  describes exists, filled diagonal by diagonal (`TableFills`), and each entry is the
  least that its three neighbours allow (`DistRules`). One direction is that an edit
  takes a word at most one farther from a third one (`EditApart`, `OneEditApart`). The
  other is that beginnings of two words at distance zero, one or two are that many edits
  apart (`DistReached`): the last letters are the same, or one of them is the edit. Each
  induction is over numbers and is done with a least counterexample, so that no theorem
  with an operator for a parameter is needed.

`EventStreamProofs`:

* `EveryRowIsSentOnce` and `AtMostOnePageOverdue` (pages of any size). The invariant
  orders what was sent, what is in the page in hand and `last_id` (`PageInHand`,
  `SentInOrder`), and counts what was fetched since the session was lost (`OnceOverdue`).
* `ReturnsWhenStopped` (any components, in any order, one of which is the correlator).
  That all have stopped when `supervise()` returns is not inductive, because `any()`
  looks at one thread after the other: the invariant says that in a poll nothing
  runs but what it has not looked at yet (`Polls`), which needs that what it has seen
  dead stays dead: nothing is started twice or after the launch (`Others`), and the
  correlator's loop and its thread agree (`Threads`).
* `FeedHasNoGap` (pages of any size, any number of rows and breaks). Every row of the
  table up to the last one sent over the open connection is on the page or on the wire,
  in order. It rests on the same fact about a page that is cut at one end only
  (`FeedPages`), on the order of a page (`RowsById`: the order exists, and has each row
  once), and on no generator writing to a wire that nobody reads (`Sent`, `Quiet`).

`SensorProofs` (any threads, hosts, events, windows and limits):

* `SuppressionStaysHonest`. What passed is still in the table or nobody who could
  repeat it is left (`Accounted`), which eviction keeps as long as it is of expired
  entries and no caller overtakes; otherwise `strained` is set and the promise is off,
  as the property says. `EvictMakesRoom` bounds the table.
* `ScansAreTold`. The counter counts the deque, which is in order up to the disorder of
  the packets (`Counted`); what is unreported and not in the deque is older than a window
  (`StillCounted`). The packets of the deque are the witness of a report; a scan that
  ends with the packet in hand lies in the deque as a whole.
* `AskersAreAlerted`: what a process reported, alerted and has in hand
  (`PairsReported`), what its deduplicator remembers (`SightingsAlerted`), and that
  each question has its alert or is in hand (`AskedEvidenced`).
* `FlapsAreTold` (any addresses, limit and window). What the detector keeps of an
  address is in the order of time and ends with the MAC last seen (`InOrder`). Of any
  stretch its entries but for the first are no more than the changes that were seen, and
  of a window the changes seen are no more than its entries (`Matched`). So what an
  event counts was seen, and a window's changes pass the limit by one at most without
  an event, the one of `OneChangeEscapes`.
* `EvidenceComesFirst`: a sighting in the deduplicator is of an event with evidence or of
  the one about to be logged (`SightingsFresh`); a throttle with room remembers what it
  let pass (`PagesRemembered`, `ThrottleBounded`).

Only model-checked:

* liveness (`EveryStreamEnds`, and of `FeedKeepsUp` and `EndsWhenItShould` what the
  theorems above do not say), which is out of the
  prover's reach, as is whatever needs ENABLED;
* `ShowsTheChain`, the other half of `ChainIsShown`: it holds for the code's thresholds
  and as long as a run ends before its rows leave a window, which is the run's bound on
  the clock and no relation of the constants.

## 5. Plan

All of the modules of section 2 exist, every component that keeps state is modelled, and
of what the runs check every invariant and action property but `ShowsTheChain` is a
theorem, as are the safety parts of the liveness properties. What could follow:

1. Abstract specifications. An account registry that `Accounts` implements (absent,
   active, revoked); a set of reported keys for `Correlation`.
2. Compositions. The recheck of a session's user in the roster together with
   `EventStream`; `Supervisor` with `Correlation`, so that a sweep cut short by the end of
   the process is one of the sweeps of `Correlation`.
