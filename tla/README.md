# Verification of Tlapix

TLA+ models of [Tlapix](../src/README.md), a daemon that watches TLS traffic,
keeps an account of the certificates it sees, and acts on them.  Each module is
a translation of the Rust code; TLC checks it on small instances, TLAPS proves
the most important properties for every value of the constants.  All paths
below are relative to `src/crates/`.

## 1. The system

| Component | State | Operations | Talks to |
|---|---|---|---|
| Ring buffer reader (`tlapix-collector/src/ring_buffer.rs`, parsing in `event_processor.rs`) | none of its own, an mpsc sender | `start`: take an event, parse, send | engine, by a bounded channel |
| Deduplication engine (`dedup.rs`) | LRU cache of fingerprints, counters | `handle_event`, `reload_from_storage`, `run` until cancelled | storage, Analyzer by a bounded channel |
| Retry buffer (`buffer.rs`) | queue of records, retry state (one-hour clock, backoff), counters, all behind one mutex | `push`, `try_flush`, `run_flush_loop`, sink `send_batch` | Analyzer by a bounded channel |
| Storage (`tlapix-common/src/storage.rs`, `storage_schema.sql`) | one SQLite connection behind a mutex: certificates, directives, shadow rows, predictions, inventory, audit log | one SQL statement or two per call | everything |
| Shadow classifier (`tlapix-analyzer/src/shadow.rs`, `sni_match.rs`) | none | `classify`, `generate_directive`: pure functions of what they are given | nobody: what they say, others would store |
| Shadow escalation (`shadow_escalation.rs`) | none between passes | `escalate_stale_shadows` | storage |
| Inventory manager (`inventory.rs`) | time of the last refresh, in memory and in a log table | `refresh` and its polling loop, `initialize_from_storage`, `is_stale` | storage, file or HTTP source |
| Reconciliation (`reconciliation.rs`) | none between passes | `reconcile_inventory`, two phases | storage |
| Renewal scheduler, predictor (`renewal_scheduler.rs`, `renewal.rs`) | none between passes | `run_reevaluation` | storage |
| Anomaly detection, AI backend (`anomaly.rs`, `ai_backend.rs`) | mode: AI-powered, or fallback with a reason, behind a lock | `AnalyzerService::evaluate` by any number of tasks | model runtime |
| BPF map writer (`tlapix-executor/src/map_writer.rs`) | three maps behind one mutex | `write_directive` with checks and retries | kernel, Analyzer by an optional notifier |
| Directive expiry (`expiry.rs`) | none | `expire_stale_directives`, `resolve_conflicts` | storage, BPF map |
| Failure handler (`failure_handler.rs`) | none | `handle_execution_failure` | storage |
| ACME renewal (`acme.rs`) | account behind a mutex, credentials file | `AcmeRenewalService::renew` around two workflows | ACME server, webhook, disk |
| Program integrity (`tlapix-executor/src/integrity.rs`) | none | compares the hashes of the eBPF program files with a manifest, at start | files |
| Audit logger (`tlapix-common/src/audit.rs`) | health flag (an atomic) | `log_*`, `get_decision_chain`, `try_restore_health`, clean-up | storage |
| Export, webhooks, StatsD, Prometheus, OTLP (`tlapix-daemon/src/`) | counters, channel health | `record_event`, periodic flush | network |
| Daemon (`main.rs`) | what it has started | checks, start-up in stages, clean-up, signals, cancellation | everything |
| Web UI (`web_ui.rs`) | none | pages, each one to three storage calls | storage |
| Collector program (`tlapix-ebpf/src/main.rs`, `maps.rs`) | per-CPU and shared kernel maps, ring buffer | walk over a packet, seen set, statistics, event | ring buffer reader |
| Enforcement programs (`tlapix-ebpf/src/executor.rs`) | none, they read the maps of the map writer | `tlapix_protect`, `tlapix_isolate` | map writer, by its maps |
| Event processing (`event_processor.rs`) | none | `process_event`: metadata, flags, key sizes | classifier, detector |

Everything is a tokio task or is called from one.  A task can be overtaken at
every `await`, and nearly every line that matters is an `await` on storage, a
lock, a channel or a sleep.  There is no transaction across two storage calls.
At this commit `main.rs` starts the collector and the observability side, but
not the escalator, the reconciler, the scheduler, the sweep or the engine: they
are library functions that take a shared, cloneable `Storage` and are public to
be called from several tasks.  The models therefore let each of them run at any
time and at the same time as the others, each at most once at a time.  Nobody calls
`reload_from_storage`, or stores what the classifier says, either.  Retention clean-up is
spawned (`main.rs:180`), beside the collector that is started next, over an in-memory
database (`:171`).

What makes this code hard, component by component, is listed with its lines
under "hazards" in `PROJECT.json`.  In short:

- *the same row read, kept over an await and written back* (escalation,
  reconciliation, expiry, scheduling);
- *a check under one lock and the act under another* (map size, memory cap, the
  sleep of the flush loop);
- *several steps without a transaction, any of which can fail or be the last
  before a crash* (dedup, alerts after escalation or failure, credentials);
- *time-outs that drop a call half-way* (ACME);
- *bounded buffers in a row* (reader, engine, Analyzer; retry buffer);
- *CPUs that run the same program on shared maps*, and a packet that may end at
  any byte of what three programs each parse for themselves;
- *the same rule written twice* (classifier and detector; collector and
  enforcement programs; map keys of user space and kernel);
- *a flag that is read and set around an await* (audit health, fallback).

A few more are real, have no property and are not in that list.  `webhooks.rs:125`
computes `retry_max + 1` in `u8`, which overflows for 255 (`Export` assumes less);
`map_writer.rs:295` computes `2^attempt` in `u64`, which overflows from the 64th retry
on; the defaults are 3.  Two directives for one certificate are written in the order
in which their tasks get the lock (`map_writer.rs:281`), and two upserts of one row in
the order in which their closures do (`storage.rs:186`), so that the older one may
come last; nothing is promised about either.

## 2. Modules

Each module begins with a comment on what it is about.  A call of `Storage` is
one atomic step: it runs on the one connection behind one mutex.  Where a task
awaits, the model has a program counter in a record with the task's locals
(`esc`, `rec`, `engine`, `sched`, `call[c]` ...), so that a stale local is
visible as such.  Errors are steps too, with a budget (`MaxFailures`,
`MaxCrashes`, `MaxFaults`) that keeps the instance finite.

| Module | Models | State | Actions |
|---|---|---|---|
| `LossyQueue` | abstract: what a bounded lossy forwarding buffer promises | produced, queue, out, dropped | Accept, AcceptDroppingOldest, Refuse, HandOver, ConsumerLoses |
| `RetryBuffer` | `buffer.rs` | `records`, a flush's `batch` and `failed`, ages instead of instants (`bufferAge`, `attemptAge`, `Never` for `None`), `backoff`, counters, the loop and its sleep | Push, PushExpired, Decide, Wake..., SendRecord, SendFails, FlushSucceeds, FlushFails, Stop, Cancel, Tick |
| `MapWriter` | `map_writer.rs` | the maps, one program counter, attempt and partial sum per writer | CheckCapacity, CountMap (the total is summed map by map), CheckMemory, WriteSucceeds, WriteFails, Retry, Return, entries removed by others |
| `ShadowLifecycle` | `shadow_escalation.rs`, `reconciliation.rs`, the storage side of `inventory.rs` | shadow rows, directives, inventory, the locals of both passes, the alerts that could not be stored (`lost`) | one per storage call: Esc*, Rec*, ImportEntry, RemoveStale; RecCall with any fingerprints; StoreRow and StoreAlert, by others, each without the other |
| `Collector` | `ring_buffer.rs`, `dedup.rs`, the table they share and its clean-up | reader, two channels, engine, LRU cache (a sequence), `lastSeen`; what fell out of the cache or the table (`forgotten`) | Reader*, Engine* (EngineLoads is `reload_from_storage`, after each start), Cleanup, Crash, Cancel |
| `DirectiveStore` | `renewal_scheduler.rs`, `renewal.rs`, `expiry.rs`, `failure_handler.rs`, clean-up and foreign keys | directives in order of insertion, predictions, `lastSeen`, the BPF map, the locals of three passes | Sched*, Sweep*, MarkFailed, InsertAlert, Cleanup |
| `AcmeRenewal` | `acme.rs` | the locals of each call, account mutex and cache, credentials file, writes on the blocking pool, orders at the server | one per await, Timeout, Crash, the server's moves |
| `Assessment` | `renewal.rs` with any history, and `Rules` as time goes by | one certificate, its history, the clock, the latest prediction | Predict, Tick; the detector is an operator |
| `Export` | `export.rs`, `webhooks.rs`, `statsd.rs`, the counters of `metrics.rs` and `prometheus.rs` | counters per channel, channel health, the locals of each `record_event` and of each flush | one per channel, PostSucceeds, PostFails, Backoff, Mark, PeriodicTick, FlushLoad, FlushSend |
| `Handshake` | what `parse_tls_handshake`, `extract_cert_fingerprint` and `process_event` read of one packet | - (operators) | - |
| `Segment` | a handshake of which any number of bytes is in the packet | the packet | OneByteMore |
| `Capture` | the collector program on several CPUs, `maps.rs`, ring buffer and reader | maps, ring, what each CPU has looked up, statistics | one per access to a map or to the ring, and those of the reader |
| `Enforcement` | `executor.rs` on top of `MapWriter` | the maps of `MapWriter`, the latest handshake | those of `MapWriter`, Handshake |
| `Extraction` | `event_processor.rs`: flags, key sizes, partial metadata | event, metadata | Process |
| `Rules` | the rules of `anomaly.rs`, matching in `sni_match.rs` | - (operators) | - |
| `Classifier` | `shadow.rs`, on what `Extraction` makes of an event | metadata, verdict | Receive, Classify |
| `Analyzer` | `ai_backend.rs` | mode, one evaluation per task | Evaluate, ReadMode, Infer, EnterFallback, Answer |
| `Inventory` | `inventory.rs` with its two tables | source, table, log, the locals of a refresh | Begin, Unreachable, ImportEntry, RemoveStale, Stamp, LogSuccess, StorageFails, Restart, the clock and the source |
| `AuditLog` | `audit.rs` with its table | rows with their ids (`rowid`), health flag, one write per decision | Log, Insert, one per access to the flag, Cleanup, Probe*, failing and repaired storage |
| `Storage` | `storage.rs` as closures that wait for one connection, the pages of `web_ui.rs` | four tables, the closures, a page | Submit, Execute, one per statement of the dashboard, ListPage for the pages with one list |
| `Daemon` | `main.rs`, `integrity.rs` | manifest, stage of main, tasks, signal, cancellation, exit | one per stage of main, Binds, Loads, CleansUp, Stops of the tasks, Signal |
| `Clock` | the clock that `Inventory`, `AuditLog` and `Storage` read | `now` | - |
| `DetectionProofs` | - | - | theorems about `Assessment`, `Classifier`, `Analyzer`, `Segment`, `Capture` |
| `ServicesProofs` | - | - | theorems about `Inventory`, `AuditLog`, `Storage`, `Export`, `Daemon` |
| other `*Proofs` | - | - | theorems about the module they are named after |
| `MC*` | instances for TLC | - | - |

`ShadowLifecycle`, `Collector` and `DirectiveStore` are compositions: several
components around one database, each with its own locals.  `Enforcement` composes
the map writer with the kernel programs, `Classifier` the event processing with the
two copies of the rules, `Capture` the CPUs with the reader.  `MCDetection` and
`MCServices` put small modules side by side that share no state but the clock: a
behaviour chooses one, its `part`, and moves only that, so that the states of the
parts add up instead of multiplying.  They EXTEND their parts, and so do
`DetectionProofs` and `ServicesProofs`: what is checked and what is proved are the same
definitions.  Names that two parts would share carry the name of the module
(`InventoryInit`, `AuditNext`, `ExportSpec` ...).

Abstractions that a reader should know of:

- A certificate is its fingerprint; a record is its number.  Names, reasoning
  texts, payloads, logging and most counters are left out.
- Days count for the passes (every threshold they use is in days or is 24 h or
  72 h); ticks of the shortest backoff for the retry buffer.
- Packets are the lengths their headers state and the number of bytes there are; a
  certificate list is that of a TLS implementation, its length the sum of its entries.
- Scores are reduced to what they decide: `RenewDays` is the number of days at
  which the baseline probability reaches 0.7 (16), `CriticalDays` is 14.
- The notifier of the map writer, which may be absent, is left out: it is told of a
  failure and nothing waits for it.
- `remove_stale_inventory_entries` answers with a count, so nothing in the code knows
  which fingerprints to give to `reconcile_inventory`: its caller is external and may
  give it any.  So is the caller of `reload_from_storage`.
- A clean-up that fails or finds nothing is left out of `Collector`; how it can fail is
  the subject of `DirectiveStore`.
- `run_inference` neither fails nor awaits yet (`ai_backend.rs:172-183`).  `Analyzer` is
  about a model that does both, as the loop around it expects, so that its
  interleavings are more than those of this commit.
- `Observe`, `Activate`, `Receive`, the kernel, the ACME server and the disk are
  external and do anything their interface allows.

## 3. Runs

| Run | Question | Bounds, and why they are enough |
|---|---|---|
| `buffer_loop` | Sleeps, conservation, order and refinement, termination, with a sink that may close and open in the middle of a batch | 4 records for capacity 2 and a channel of 1: eviction, put-back and partial sends all happen; the hour is 5 ticks, the backoff 1 to 4, so that it is doubled twice and capped |
| `buffer_stuck` | *violated*: do expired records leave? | 2 records |
| `writer_calls` | Caps of size and memory, and refusals without cause, of concurrent writes | 2 writers, 3 maps, 3 certificates, 1 entry per map, 2 in all, a kernel map of 3: every cap can be overshot, and by more than the bound if the check were wrong; writers and certificates are symmetric |
| `shadow_passes` | Escalation, refresh and reconciliation interleaved | 1 certificate (rows of different certificates never meet), 3 days, 1 error; others store twice, at level high, so that a row becomes critical the day after and its alert can replace one that is there |
| `collector_pipeline` | Cache, table, clean-up and channels | 2 certificates for a cache of 1 and channels of 1: eviction and both blockings; a retention of 0 for a clock of 2, so that clean-up takes a row that is cached; 1 crash, 1 error |
| `store_passes` | Scheduler, sweep, failure handler, clean-up | 1 certificate, 3 days for windows of 1, 3 directives, 1 error |
| `store_cleanup` | *violated*: can clean-up delete what is old? | 2 directives |
| `acme_calls` | Concurrent renewals | 2 callers, 2 attempts each, 1 poll, a crash or a full disk |
| `writer_isolate` | *violated*: is a handshake dropped whose certificate is isolated? | 1 writer, 2 servers |
| `audit_health` | *violated*: does the flag follow the last write? | 2 decisions, 2 faults |
| `detection_parts` | From a packet to an assessment, in five parts | *Segment*: 35 kinds of handshake around every limit (40 bytes of data, records to 200, chains to 5 of which 3 count, an empty entry in a chain), every length to 185 bytes, past the end of the longest. *Capture*: 2 CPUs, 2 certificates in maps of 1, 3 packets (whole, cut off, malformed), a ring of 1, so that it is full. *Classifier*: keys of 8n - 1, 8n, 8n + 1 bits on both sides of every length at which the estimate changes, every curve, and names, issuers, validities and truncation around their limits. *Assessment*: one certificate with 31 histories from 32 days before its end to a day after it, 7 variants of every set of missing fields in the last days, 2 half-days between clock readings. *Analyzer*: 3 tasks, 5 evaluations, every outcome: one begins in fallback while two are still with the model |
| `services_parts` | What surrounds the detection, in five parts | *Inventory*: 3 fingerprints, 4 lists (disjoint, with duplicates and malformed entries, empty), 2 refreshes, a restart, a fault, a clock of 4 for minutes of 2 and a limit of one, so that an age can be past the limit and less than a minute more. *AuditLog*: 2 decisions, a fault, a probe, a clean-up. *Storage*: 1 certificate with two directives, 2 calls more, 2 closures waiting, of every status the code writes, so that every statement of a page can be overtaken. *Export*: 2 recorders, 2 events, 2 endpoints, 2 retries, 1 periodic flush, 3 configurations. *Daemon*: 5 manifests, every configuration, a signal at any time |

Deadlock is checked except where the system ends or its input does: a cancelled buffer
or collector, a daemon that has exited, ACME calls, audit faults, events and the parts
of the composites when their budget is used up.

### What is shown

*Retry buffer.*  `RefinesLossyQueue`: every behaviour with the mpsc sink is one of
the abstract FIFO queue.  `Conservation` (every record is delivered, held or
counted, once) holds through evictions and half-sent batches, because the flush keeps
the mutex while it awaits the sink, and the loop never sleeps so short that its flush
would be refused (`WakesInTime`).  The price is that a full channel blocks
`push`; `FlushEnds` and `Shutdown` show that it does not block for ever.

*Map writer.*  The size and the memory checks are not atomic with the write.
With n writers at most n - 1 entries exceed a cap (`CapsHeld`), although the total is
summed in three critical sections: no worse than a check in one.  In the other direction,
a directive is refused for memory only when the total has reached the cap or entries
have been removed since their map was counted, and by no more than those
(`RefusalsFounded`): concurrent writes never make a writer count one entry twice.

*Shadow certificates.*  Whatever stale copies the passes write over each other, and
whoever else stores rows and alerts, a row is not escalated more than a tier a day
(`OneTierPerDay`).  A row that was escalated to critical has a critical alert that nobody
replaced (`CriticalAlerted`), and a replaced alert has a successor
(`ReplacedHasSuccessor`), except where the insertion of the alert failed; then nothing
makes up for it, and the instance reaches that too.  The risk itself may fall: a row
that is stored anew, or a stale copy, goes over a higher one.  A registered certificate
is resolved in the end and stays so, if reconciliation is called again and again
(`RegisteredIsResolved`).

*Collector.*  The cache is written before the table, the table before the channel.
What the cache holds has its row or is getting it (`CachedIsStored`), and a certificate
is announced once (`NewOnce`), but for what is `forgotten`: certificates that were evicted
or cut off by the reload, whose storing failed, or whose row clean-up took.  The
instance has second announcements of such certificates, and for each of the last two
causes a fingerprint that stays cached without its row, so that every touch misses it.  Everything that reaches the
engine is announced (`ObservedIsForwarded`), and cancellation ends both tasks although
neither polls it while it is blocked on a channel (`ShutdownEnds`).

*Directives.*  A directive and a prediction keep their certificate whatever
clean-up does meanwhile (`CertificatesKept`), each failure has its critical alert
behind it (`FailureAlerted`), and a directive expires only after a window without
traffic before the sweep (`ExpiredWasUnseen`).

*ACME.*  All callers use one account as long as no creation is cut off
(`OneAccount`), a time-out never tears the credentials file (`TornByFaultOnly`),
success is never reported for an order the server did not complete
(`OkMeansIssued`), and every call returns (`CallsReturn`).

*Assessment.*  As long as no renewal is taken to have begun, probability, severity
and advice of successive predictions never fall (`RiskOnlyRises`), although they
come from a sum of four factors and thresholds of two kinds.  A due certificate
is reported as expired or as about to expire, never as both (`ExpiryFlagged`);
neither is reported only if it expires between the two readings of the clock in
one scan, or exactly on one of them.  Time is in half-days, so that the truncation
of `num_days` is visible; probabilities are in thousandths, which agree with the
floats at 0.7 for every input of the predictor (the sums are of the same decimals).

*Export.*  When `record_event` returns, each endpoint has answered with success or
was tried `retry_max + 1` times, and a failure shows in the channel's health
(`DeliveredOrExhausted`).  Flushes overlap and read while others count, but no
count is left out of all of them (`NothingUnsent`), because a flush is spawned
after its event is counted.

*Kernel.*  Two CPUs may both find a certificate new, but no connection is lost from
the counts as long as the maps have room (`ConnectionsCounted`), it is announced, and
at most once per CPU (`NewOncePerCpu`), and every event is read, in the ring or
counted as a drop (`EventsAccounted`).  Wherever a packet ends, the enforcement
programs read the bytes the collector reports although they check other lengths
(`EnforcerReadsTheSame`), and what is reported of the chain is what is there, up to an
empty entry, at which the walk stops (`ReportsWhatIsThere`): user space never takes the
part of a certificate for one.

*Events and rules.*  No RSA key is rated below a standard size it has or more than
112 bits above its own (`KeySizeIsClose`).  The classifier has its own copy of the
rules and does not look at which fields were extracted; its risk still agrees with
what the detector reports (`RulesAgree`).

*Analyzer.*  Fallback is never left and keeps its first reason, although evaluations
that saw the model alive end after it; one that began in it gets nothing from the
model (`FallbackHolds`).

*Inventory.*  Because the import comes before the removal, what was last imported
stays in the table through every fault (`NeverMissing`).  An inventory that is not called
stale was refreshed less than `StaleMinutes` + 1 minutes ago (ages are truncated to whole
minutes), or the manager knows of no success because the log is empty or its latest row
is of a failure (`FreshIsRecent`).  In that last case it may be of any age and is not
called stale; the list below has more on it.

*Audit and pages.*  The chain of a decision has every stage that was answered `Ok`, once,
until its retention is over, and in order but for stages of the same millisecond
(`ChainComplete`).  A directive that changes its status while the dashboard is read may be
on it twice, but not be missed, because the pending ones are read before the final ones;
unless it is, or becomes meanwhile, replaced or active, which no list of the page has
(`DashboardMissesNothing`).

*Daemon.*  It starts or gives up, and a signal at any time ends it, whatever becomes of
its servers; when it ends well it has cancelled its tasks (`DaemonStopsWhenAsked`).

### Where code and documentation disagree

Four runs demonstrate a disagreement (see "findings" in `PROJECT.json`): expired
records never leave the buffer (`ExpiredRecordsLeave`); one directive blocks retention
clean-up (`OldAreDeletable`); the audit logger's health can say the opposite of the last
write (`HealthFollowsLastWrite`); an isolated certificate is
keyed by its SHA-256 and looked up by the first bytes of its encoding, so that nothing
is dropped (`IsolatedIsDropped`).  Others were met while modelling and
have no run of their own:

- `shadow_escalation.rs:3` speaks of unresolved certificates; the escalator
  upserts the row it read at the start of the pass (`:75`), `is_resolved = 0`
  included, over one that reconciliation has resolved since.  The next
  reconciliation repairs it, which is why `RegisteredIsResolved` holds.
- `expiry.rs:80` says an expired directive is removed from the map; the entry is
  removed before the status is written (`:107`), and one that the executor
  activates in between stays in the map, listed by no later sweep.
- Requirement 4.6 is about certificates that have expired; the predictor truncates
  to whole days (`renewal.rs:73`), so it advises an alert that the certificate
  "expired 0 days ago" during its last 24 hours, and no renewal any more.
- With a history but no renewal activity the probability can stay below 0.7 while
  the severity is already critical (0.536 thirteen days before the end), so the
  directive comes later than without a history.
- Requirement 10.5 gives webhooks 10 seconds; endpoints are served one after the
  other with their retries (`webhooks.rs:110`), so one that is slow delays the rest.
- `buffer.rs:5` says the backoff starts at 30 s; it is doubled before the first
  wait (`:85`).
- The 64 MB cap is a promise of the requirements (7.3); it can be overshot as
  described above.
- Requirement 6.9 keeps the directive of the highest severity; `write_directive`
  overwrites whatever is in the map (`map_writer.rs:282`), and nothing calls
  `resolve_conflicts`.
- Requirement 5.5 escalates certificates seen within 24 hours;
  `shadow_escalation.rs:49-62` does not look at `last_seen`.
- Requirement 5.7: if storing the alert fails (`shadow_escalation.rs:136`), the
  row is critical already and no later pass makes up for it.
- Requirement 9.6: a row that exists, resolved, is not reclassified when its
  certificate leaves the inventory (`reconciliation.rs:134`).
- Requirement 9.3 asks for removal directives in the BPF map; none is written.
- `dedup.rs:83-85` states an invariant of cache and table that a failed upsert breaks
  (`:284`), and so does the clean-up that `main.rs:180` spawns (`storage.rs:1081`).
- Requirement 9.7 (`requirements.md:178`) gives an inventory 60 minutes; one of 60 minutes
  and 59 seconds is not stale (`inventory.rs:310`), nor is one of any age when the latest
  row of the log is of a failure and the process was restarted (`:313`, `:318-329`).
- `get_decision_chain` sorts by time only (`storage.rs:918`): two stages of the same
  millisecond may come in either order.
- The dashboard counts pending directives and lists final ones (`storage.rs:830`, `:866`).
  The status `replaced` (`shadow_escalation.rs:173`) and the `active` that the sweep looks
  for (`expiry.rs:90`) are in neither.
- Requirement 2 asks for metadata that survives restarts; `main.rs:171` opens an
  in-memory database.
- `ring_buffer.rs:157` logs "stopping reader"; the loop goes on.
- `renewal_scheduler.rs:8` inserts a directive "if severity has escalated"; the
  code inserts one at every cycle (`:138`).
- `acme.rs:306`: eleven polls sleep 37.75 s, more than the 30 s of the whole
  call, so with the default time-out the error of an order that never gets
  ready, and the attempts after it, are out of reach.
- A crash between the upsert and the send of a new certificate (`dedup.rs:284-293`)
  leaves it known and never announced: `reload_from_storage` puts it into the cache.
- A truncated certificate that does not parse has the same empty subject and issuer
  (`event_processor.rs:203`), so the classifier calls it self-signed, and critical
  (`shadow.rs:165`); so is a key on a curve without an estimate, whose size is 0.
- Keys of 1952 to 2047 bits are rated 2048 (`event_processor.rs:329`); names beyond the
  hundredth are dropped (`:242`).
- `design.md:758` asks to "Retry AI connection on next evaluation cycle"; fallback is
  never left (`ai_backend.rs:184`).  At this commit `run_inference` returns no scores.
- The error of `start_observability` ends main without cancelling what was started
  (`main.rs:364`); "All services started" is logged although a server may fail to
  bind; nobody joins the tasks.
- `list_recent_directives` says "executed or failed" and lists expired ones too
  (`storage.rs:817`); `run_retention_cleanup` skips the audit log when the clean-up of
  certificates fails (`:1111`).
- `main.rs` serves metrics from inline stubs; `PrometheusExporter` is not used.
- `audit.rs:175` restores health "by performing a test write"; it only reads.
- `statsd.rs` sends cumulative values as increments, and `export.rs:185` does so
  after every event; the webhook channel never leaves `Degraded`.

## 4. Fairness

- `RetryBuffer`: weak fairness of the flush loop, time and the receiver; strong
  fairness of `Stop`, for `tokio::select!` chooses among ready branches at random.
- `ShadowLifecycle`: a started pass goes on, for it waits for storage calls only.  That
  somebody starts one is not assumed: nothing in the code does so periodically.
  `RegisteredIsResolved` has it as a condition, reconciliation listing its rows again and
  again.
- `Collector`: both tasks go on, strong fairness of their cancellation branches
  (again `select!`); the Analyzer reads or goes away.
- `AcmeRenewal`: a request is answered, fails, or is ended by the time-out; the
  blocking pool gets to every write.  The server need not move an order.
- `Daemon`: main and the tasks go on; a signal need not come, a server need not bind.
  `MCServices` has the same fairness for that part.
- All others: none, their properties are safety properties.

## 5. Proofs

TLAPS proves the following for every value of the constants that the named assumption of
a module allows (`BufferAssumption`, `WriterAssumption`, ...).  These say that bounds are
numbers, capacities positive, inputs of their types, and that an absent value is none of
the values.  Beyond that they hold a few relations between constants of the code:
the intervals of `RetryBuffer` and the sizes of `Handshake` in their order,
`MaxCertLength < 22 * 65536` (65535 in `main.rs`; what follows an empty list is then never
taken for a certificate), `RetryMax` below 255 in `Export` (see section 1), and
`CriticalDays` not above `RenewDays` in `DirectiveStore`.  `Capture`, `Collector` and
`Inventory` take finite sets of CPUs and fingerprints.  Every proof has the three facts
`Init => IInv`, `IInv /\ [Next]_vars => IInv'`, `IInv => Inv`, with one step per action
or, where a conjunct has a lemma of its own, one per action that can disturb it.

**`RetryBufferProofs`**: `TypeCorrect`, `NothingUnaccounted`, `BufferBounded`,
`DeadlineIffHolding`, `SleepIsLongEnough`, `QueueIsImplemented`.

- The invariants hold only together: `IInv` adds which variables are empty in which
  phase of the loop (`Phases`), that an attempt is never older than the backoff it
  started with (`NoStaleAttempt`), and that a sleeping loop's remaining sleep covers
  what is left of the backoff (`SleepCoversBackoff`); and it adds up lengths instead of
  concatenating.
- `QueueIsImplemented` is the refinement of `LossyQueue`, step by step: a push is
  `Accept` or `AcceptDroppingOldest` (`TakenIn`), one that comes too late is `Refuse`, a
  record sent is `HandOver` (`HandedOver`), a closing sink is `ConsumerLoses`, and all
  other steps, among them draining the buffer and putting the rest of a batch back,
  stutter (`Unseen`).  Order needs one more invariant: a channel that stays closed once
  it is closed has rejected nothing while it is open (`OpenMeansNoneFailed`).

**`MapWriterProofs`**: `TypeCorrect`, `MapOvershoot`, `MemoryOvershoot`, `BothCaps`
and the action property `RefusalsAreFounded`.  The caps are not
inductive: a writer that has passed the check is a reservation.  `Reserved` says that
the entries plus the writers admitted to a map stay within limit + writers - 1.  For
the sum over several readings, `Balanced` compares, for every threshold t, the true
total with the writers whose reading (what they have summed plus what is now in the maps
they have not summed) is at most t.  For the refusals,
`Explained` bounds a sum by the entries that are now in the maps it was taken from and
those that have gone from them since.

**`DirectiveStoreProofs`**: `TypeCorrect`, `NothingDangles`, `FailuresAreAlerted` and the
action property `ExpiryNeedsSilence`.  Lemmas say once what an insertion and a change of
status do to the table.  `CertificatesKept` needs `Predicted`: the certificate of a
directive about to be inserted is held by the prediction stored a call earlier.
`ExpiredWasUnseen` needs `SweepDecided`: what the sweep read of a certificate stays true,
or the certificate has been seen since the cutoff, until the directive is marked; it
rests on `CertificatesKept`, for a deleted row would look unseen.  `OnlySweepExpires`
says that no other step writes the status.

**`ShadowLifecycleProofs`**: `TypeCorrect`, `EscalatedOnceADay`, `CriticalIsAlerted`,
`ReplacedIsSucceeded`.  Both tasks write back whole rows that they read calls earlier.
`RowInv` says what such a copy still has to do with the row, which may be above or below
it by now: the day of classification is the same, the copy was itself escalated once a
day at most, and what the escalator holds was due on the day of its pass.  `DirectiveInv`
follows the directives: the ids in hand are those of the certificate in hand, and a row
escalated to critical, or a copy of one in the reconciler's hand, has its alert or is
among the `lost` ones.

**`CollectorProofs`**: `TypeCorrect`, `CacheIsBacked`, `AnnouncedOnce`.  The cache is a
sequence without repetitions (`CacheInv`).  `NewInv` says that of what is not forgotten the
cache holds all that is stored, that what was announced is stored, and that a certificate
on its way through the engine is cached and not yet announced.  A certificate that is not
cached thus has no row and was not announced; after a crash, the reload finds all of them
again, or makes them forgotten.

**`AcmeRenewalProofs`**: `TypeCorrect`, `SuccessIsIssued`, `AccountIsShared`,
`TornNeedsFault`.  For the second, `SoundCalls` is a predicate on the locals of one call:
past the finalization its order is issued, and a result is `ok` only there.  For the
third, `Holder` says that the mutex is held by the one call inside
`get_or_create_account`, and `Saved` where the account is: not created (`Fresh`), in the
hands of the holder (`Making`), or readable on disk with no write pending (`Stored`),
unless a creation was cut off.  The last is inductive as it stands.

**`DetectionProofs`**, for what `MCDetection` composes:

- Assessment: `TypeCorrect`, `PredictionsOnlyRise`, `DetectorKeepsToPresent`,
  `DueIsReported`, and `Baseline`, from which the constant `RenewDays` of
  `DirectiveStore` is 16 in the code.  The invariant `Foreseen` says where the older of
  two predictions came from; the rest is that every factor is monotone in the days
  (`Milder`).  The model takes integers for the floats of the code.
- Classifier: `RiskMatchesRules`, for every event, policy and clock, and
  `KeySizesAreClose`, for keys of every size.  The invariant ties the verdict to the
  metadata and these to the event; `LengthOfRsa` gives the length of the encoding by
  cases of the number of bytes, which are those in which its headers have the same size.
- Analyzer: `FallbackStays`, for any number of tasks.  `InHand` says of each evaluation
  what its locals promise at its place: the rules have been asked, one that began in
  fallback is never with the model, and an error in hand is about to become the reason.
- Segment: `EnforcerAgrees` and `WhatIsThereIsTold`, for every packet.  `Walks` compares
  the two walks over the headers check by check, and reduces both to the same condition
  (`Accepted`).  The second is made of `MetadataAreWhole` and `DepthIsTold`: the walk over
  the chain ends at its first stop (an end of the packet, an empty entry, the bound), and
  the entries before it are those that are there (`Walk`, `Positions`, `There`).  The proof
  showed that the property, as first stated, was false of a chain with an empty entry; it
  was corrected, and the instance has such a chain.
- Capture: `AnnouncedPerCpu`, for any number of CPUs.  `SeenInv` says that the map has
  an entry for all that was observed, that a CPU about to call a certificate new has not
  done so, and that for every entry some CPU has called it new or is about to
  (`Announced`); all that as long as what was shown fits.  `ConnectionsAreCounted` and
  `EventsAreAccounted` are equations between sums.  `CountInv` keeps the first one per
  certificate, and says that a CPU about to start a count has none of its own yet;
  `EventInv` keeps the second, with the CPUs about to reserve a place in the ring as the
  events that are neither counted nor announced yet.

The sums are folds over sets and the walk is a recursive function: both are defined by
recursion over data.  Their lemmas avoid the library's induction theorems, which take an
operator, and go by the smallest counterexample instead: a set of numbers that is not
empty has a least one (`LeastNat`), and so a family of finite sets has one of least size
(`SmallestSet`).  From there come that a sum does not depend on the order in which it
is taken (`AnyOrder`), and what it becomes when one summand changes (`SumChanges`).

**`ServicesProofs`**, for what `MCServices` composes:

- Inventory: `KnownStay`, `FreshWasRefreshed`.  `Importing`: what was written under the
  id of the refresh and what is left of its list make up the list, and no other row has
  an id as high.  `Stamps`: no time that the manager or the log may give for the last
  success is after the last time a refresh reached its end, and the manager knows of
  none only if the log is empty or ends with a failure (`LogTellsNothing`).
- Audit: `ChainIsWhole`, for every order in which the query may answer.  `RowsInOrder`:
  the rows of a decision have increasing ids and stages, and times that do not decrease,
  so that sorting by time can only exchange stages of the same time.  `Lasts`: what was
  answered `Ok`, or will be, is in the table or past its retention.
- Storage: `DashboardShowsAll`.  A directive is inserted once, by the call that names it,
  and not again when the dashboard knows it (`Awaited`); between the two statements it
  has been counted, has moved on to a final status, or was replaced or active at some
  time since the page was begun (`Followed`).
- Export: `EveryEndpointServed`, where `Progress` says of a dispatch that the endpoints
  before the current one are served and those after it untouched; `EveryCountLeaves`,
  where `FlushesFollow` says that the flush of an event is its own and begins after the
  event was counted, and `FlushesRun` that one that sends has offered what it has passed.
- Daemon: `ChecksComeFirst` (no task runs before every program was found intact, and main
  waits with every service started) and `CleanExitCancels`.  The invariant says for each
  stage of main which tasks are there and how many files have been checked.

### Only model-checked

- All liveness: `FlushEnds`, `Shutdown`, `RegisteredIsResolved`, `ObservedIsForwarded`,
  `ShutdownEnds`, `CallsReturn`, `DaemonStopsWhenAsked`.  Fairness is beyond the prover.
- The four violated claims of section 3, each on one instance.

Every other property of the runs is stated by a theorem.

## 6. Not modelled

- Parsing and formatting: DER, JSON, TOML, hex, HTML, the Prometheus text; hashes.  They
  are libraries or layout; what they decide is in the models.
- `resolve_conflicts` (`expiry.rs`), the `delete_*` methods and `clear`: nothing calls
  them.
- The configuration's defaults and paths, and the memory layout of the BPF types.
- The OTLP pipeline of `metrics.rs`, which is a library's; its counters are in `Export`.
- The model of the AI backend, which gives no scores yet.
- Reasoning texts and logs; the build helper (`xtask`).

## 7. Plan

Done, in this order: retry buffer against the abstract queue; map writer; shadow
life cycle; collector; directive store; ACME; assessment; export; the kernel programs;
event processing, classifier and analyzer; inventory; audit log; storage and pages;
daemon; proofs of every safety property and of the refinement.

What is left: a property of `DirectiveStore` for two directives of one certificate, of
which the sweep expires the older one and takes the entry of the newer one
(`expiry.rs:107`, the one hazard in `PROJECT.json` that could have one and has none), and
a lemma that says of a `Storage` with clients in other modules what its pages promise.
