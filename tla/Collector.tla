----------------------------- MODULE Collector -----------------------------
(***************************************************************************)
(* The collector's pipeline: RingBufferReader                              *)
(* (tlapix-collector/src/ring_buffer.rs), a bounded channel, the           *)
(* DeduplicationEngine (dedup.rs) with its LRU cache in front of the       *)
(* certificates table, and the bounded channel to the Analyzer.            *)
(*                                                                         *)
(* Every await of the two tasks is a point where the other one, the        *)
(* Analyzer, retention clean-up or a crash comes in between: the daemon    *)
(* spawns the clean-up and goes on to start the collector.  A certificate  *)
(* is its fingerprint; parsing is left out, and an event that fails it     *)
(* changes only counters.  The event source, the Analyzer and the caller   *)
(* that loads the cache before it runs the engine are external.            *)
(***************************************************************************)
EXTENDS Integers, Sequences, FiniteSets, SequencesExt

CONSTANTS
  Certs,         \* certificate fingerprints
  Capacity,      \* of the LRU cache
  InCapacity,    \* of the channel between reader and engine
  OutCapacity,   \* of the channel to the Analyzer
  Retention,     \* how long a certificate is kept that is not seen
  MaxTime,       \* bound of the clock
  MaxCrashes,    \* bound: how often the process crashes and is started again
  MaxFailures    \* bound: how often a storage call returns an error

ASSUME CollectorAssumption ==
  /\ IsFiniteSet(Certs)
  /\ Capacity \in Nat \ {0} /\ InCapacity \in Nat \ {0}
  /\ OutCapacity \in Nat \ {0} /\ MaxTime \in Nat \ {0}
  /\ MaxCrashes \in Nat /\ MaxFailures \in Nat /\ Retention \in Nat

VARIABLES
  now,        \* the clock
  reader,     \* the reader: where it stands and the event it sends
  input,      \* events in the channel to the engine
  engine,     \* the engine: where it stands and the event it handles
  cache,      \* its LRU cache, most recently used first
  lastSeen,   \* the certificates table: last_seen, 0 without a row
  output,     \* certificates in the channel to the Analyzer
  forwarded,  \* how often each certificate was put into that channel, up to 2
  analyzer,   \* whether the Analyzer still holds its end of it
  cancelled,  \* the cancellation token
  cleaning,   \* retention clean-up, spawned at the start, is still to come
  crashes,    \* crashes so far
  failures,   \* storage errors so far
  forgotten   \* history: certificates that fell out of the cache, that could not be
              \* stored, or whose row clean-up took

history == <<forwarded, forgotten>>
store == <<lastSeen, output, history>>
faults == <<crashes, failures>>
outside == <<now, analyzer, cancelled, cleaning, faults>>
vars == <<reader, input, engine, cache, store, outside>>

NoEvent == [cert |-> "none", at |-> 0]
Receiving == [pc |-> "recv", event |-> NoEvent]
Stopped == [pc |-> "stopped", event |-> NoEvent]
Loading == [pc |-> "load", event |-> NoEvent]
Stored == {c \in Certs : lastSeen[c] # 0}

-----------------------------------------------------------------------------
(* RingBufferReader *)

\* The metadata of an event: its fingerprint and the time of processing, which
\* is also what the row's last_seen will be.
ProcessEvent(c) == [cert |-> c, at |-> now]

\* The source yields an event that can be processed (a malformed one is logged
\* and skipped).
ReaderTakes(c) ==
  /\ reader.pc = "recv"
  /\ reader' = [pc |-> "send", event |-> ProcessEvent(c)]
  /\ UNCHANGED <<input, engine, cache, store, outside>>

\* tx.send(..).await gets a place in the channel.
ReaderSends ==
  /\ reader.pc = "send" /\ engine.pc # "stopped"
  /\ Len(input) < InCapacity
  /\ input' = Append(input, reader.event)
  /\ reader' = Receiving
  /\ UNCHANGED <<engine, cache, store, outside>>

\* The receiver is gone: a warning, and the loop goes on.
ReaderSendFails ==
  /\ reader.pc = "send" /\ engine.pc = "stopped"
  /\ reader' = Receiving
  /\ UNCHANGED <<input, engine, cache, store, outside>>

\* The token is only looked at between two events.
ReaderStops ==
  /\ reader.pc = "recv" /\ cancelled
  /\ reader' = Stopped
  /\ UNCHANGED <<input, engine, cache, store, outside>>

\* External: the source is exhausted.
SourceEnds ==
  /\ reader.pc = "recv"
  /\ reader' = Stopped
  /\ UNCHANGED <<input, engine, cache, store, outside>>

-----------------------------------------------------------------------------
(* DeduplicationEngine *)

\* reload_from_storage: the most recent rows that fit, the latest at the front.
Reloaded ==
  LET ordered == {s \in SetToSeqs(Stored) :
                    \A i, j \in 1 .. Len(s) :
                      i < j => lastSeen[s[i]] >= lastSeen[s[j]]}
  IN  {SubSeq(s, 1, IF Len(s) > Capacity THEN Capacity ELSE Len(s)) : s \in ordered}

\* Before it runs: what does not fit is cut off.
EngineLoads ==
  /\ engine.pc = "load"
  /\ cache' \in Reloaded
  /\ engine' = Receiving
  /\ forgotten' = forgotten \cup (Stored \ Range(cache'))
  /\ UNCHANGED <<reader, input, lastSeen, output, forwarded, outside>>

\* The query fails, and the engine runs with what it has.
EngineLoadFails ==
  /\ failures < MaxFailures
  /\ engine.pc = "load"
  /\ engine' = Receiving
  /\ failures' = failures + 1
  /\ forgotten' = forgotten \cup Stored
  /\ UNCHANGED <<reader, input, cache, lastSeen, output, forwarded, now,
                 analyzer, cancelled, cleaning, crashes>>

\* Mutant: a full cache refuses a new entry.
Put_RefusesWhenFull(s, c) ==
  IF c \notin Range(s) /\ Len(s) = Capacity
    THEN s ELSE <<c>> \o SelectSeq(s, LAMBDA d : d # c)

\* LruCache::put: an entry moves to the front; a new one is put there, and the
\* last entry falls out of a full cache.
Put(s, c) ==
  <<c>> \o IF c \in Range(s)
             THEN RemoveAt(s, CHOOSE i \in DOMAIN s : s[i] = c)
             ELSE SubSeq(s, 1, IF Len(s) < Capacity THEN Len(s) ELSE Capacity - 1)

\* Mutant: a new certificate is announced before it is stored.
Step_SendsFirst(pc) ==
  CASE pc = "new" -> "send" [] pc = "send" -> "persist" [] OTHER -> "recv"

\* The order of the calls of handle_event for a new certificate.
Step(pc) ==
  CASE pc = "new" -> "persist" [] pc = "persist" -> "send" [] OTHER -> "recv"

Continue(pc) ==
  engine' = IF Step(pc) = "recv" THEN Receiving ELSE [engine EXCEPT !.pc = Step(pc)]

\* handle_event up to its first await: the cache is updated either way.
EngineTakes ==
  /\ engine.pc = "recv" /\ input # <<>>
  /\ LET event == Head(input)
     IN  /\ cache' = Put(cache, event.cert)
         /\ engine' = IF event.cert \in Range(cache)
                        THEN [pc |-> "touch", event |-> [event EXCEPT !.at = now]]
                        ELSE [pc |-> Step("new"), event |-> event]
  /\ input' = Tail(input)
  /\ forgotten' = forgotten \cup (Range(cache) \ Range(cache'))
  /\ UNCHANGED <<reader, lastSeen, output, forwarded, outside>>

\* touch_certificate: an UPDATE, which does nothing without a row.
EngineTouches ==
  /\ engine.pc = "touch"
  /\ LET c == engine.event.cert
     IN  lastSeen' = IF c \in Stored THEN [lastSeen EXCEPT ![c] = engine.event.at]
                                     ELSE lastSeen
  /\ engine' = Receiving
  /\ UNCHANGED <<reader, input, cache, output, history, outside>>

\* upsert_certificate.
EnginePersists ==
  /\ engine.pc = "persist"
  /\ lastSeen' = [lastSeen EXCEPT ![engine.event.cert] = engine.event.at]
  /\ Continue("persist")
  /\ UNCHANGED <<reader, input, cache, output, history, outside>>

\* Mutant: a certificate that could not be stored is dropped.
AfterFailure_Drops == Receiving

\* A storage error is logged and handle_event goes on.
AfterFailure ==
  IF engine.pc = "persist" /\ Step("persist") # "recv"
    THEN [engine EXCEPT !.pc = Step("persist")] ELSE Receiving

EngineStorageFails ==
  /\ failures < MaxFailures
  /\ engine.pc \in {"touch", "persist"}
  /\ engine' = AfterFailure
  /\ failures' = failures + 1
  /\ forgotten' = forgotten \cup (IF engine.pc = "persist" THEN {engine.event.cert} ELSE {})
  /\ UNCHANGED <<reader, input, cache, lastSeen, output, forwarded, now, analyzer,
                 cancelled, cleaning, crashes>>

Forward(c) ==
  /\ output' = Append(output, c)
  /\ forwarded' = [forwarded EXCEPT ![c] = IF @ = 2 THEN 2 ELSE @ + 1]

EngineSends ==
  /\ engine.pc = "send" /\ analyzer
  /\ Len(output) < OutCapacity
  /\ Forward(engine.event.cert)
  /\ Continue("send")
  /\ UNCHANGED <<reader, input, cache, lastSeen, forgotten, outside>>

\* Mutant: a closed channel is waited on like a full one.
ChannelClosed_Ignored == FALSE

ChannelClosed == ~analyzer

\* The Analyzer is gone: a warning, and the loop goes on.
EngineSendFails ==
  /\ engine.pc = "send" /\ ChannelClosed
  /\ Continue("send")
  /\ UNCHANGED <<reader, input, cache, store, outside>>

\* Between two events: on cancellation, or when the reader is gone and the
\* channel empty.  The receiver is dropped with what is still in it.
EngineStops ==
  /\ engine.pc = "recv"
  /\ cancelled \/ (reader.pc = "stopped" /\ input = <<>>)
  /\ engine' = Stopped
  /\ input' = <<>>
  /\ UNCHANGED <<reader, cache, store, outside>>

-----------------------------------------------------------------------------
(* Retention clean-up *)

Old == {c \in Stored : lastSeen[c] < now - Retention}

\* cleanup_old_certificates: a single DELETE.  One that fails, as when a directive
\* refers to one of the rows, or that finds nothing, changes nothing and is left out.
Cleanup ==
  /\ cleaning /\ Old # {}
  /\ cleaning' = FALSE
  /\ lastSeen' = [c \in Certs |-> IF c \in Old THEN 0 ELSE lastSeen[c]]
  /\ forgotten' = forgotten \cup Old
  /\ UNCHANGED <<reader, input, engine, cache, output, forwarded, now, analyzer,
                 cancelled, faults>>

-----------------------------------------------------------------------------
(* The environment *)

\* External: the Analyzer takes a certificate.
Consume ==
  /\ analyzer /\ output # <<>>
  /\ output' = Tail(output)
  /\ UNCHANGED <<reader, input, engine, cache, lastSeen, history, outside>>

\* External: on cancellation the Analyzer ends and drops its receiver.
AnalyzerStops ==
  /\ cancelled /\ analyzer
  /\ analyzer' = FALSE
  /\ output' = <<>>
  /\ UNCHANGED <<now, reader, input, engine, cache, lastSeen, history, cancelled,
                 cleaning, faults>>

Cancel ==
  /\ ~cancelled
  /\ cancelled' = TRUE
  /\ UNCHANGED <<now, reader, input, engine, cache, store, analyzer, cleaning, faults>>

Tick ==
  /\ now < MaxTime
  /\ now' = now + 1
  /\ UNCHANGED <<reader, input, engine, cache, store, analyzer, cancelled, cleaning,
                 faults>>

\* The process dies and is started again, with the database and nothing else.
Crash ==
  /\ crashes < MaxCrashes
  /\ crashes' = crashes + 1
  /\ reader' = Receiving /\ engine' = Loading
  /\ cache' = <<>> /\ input' = <<>> /\ output' = <<>>
  /\ analyzer' = TRUE /\ cancelled' = FALSE /\ cleaning' = TRUE
  /\ UNCHANGED <<now, lastSeen, history, failures>>

Init ==
  /\ now = 1
  /\ reader = Receiving /\ engine = Loading
  /\ input = <<>> /\ output = <<>>
  /\ cache = <<>>
  /\ lastSeen = [c \in Certs |-> 0]
  /\ forwarded = [c \in Certs |-> 0]
  /\ analyzer = TRUE /\ cancelled = FALSE /\ cleaning = TRUE
  /\ crashes = 0 /\ failures = 0
  /\ forgotten = {}

EngineWorks ==
  \/ EngineLoads \/ EngineLoadFails
  \/ EngineTakes \/ EngineTouches \/ EnginePersists \/ EngineStorageFails
  \/ EngineSends \/ EngineSendFails

ReaderWorks == ReaderSends \/ ReaderSendFails

Next ==
  \/ \E c \in Certs : ReaderTakes(c)
  \/ ReaderWorks \/ ReaderStops \/ SourceEnds \/ EngineWorks \/ EngineStops
  \/ Cleanup
  \/ Consume \/ AnalyzerStops \/ Cancel \/ Tick \/ Crash

Spec == Init /\ [][Next]_vars

\* Tasks are polled when what they wait for is there.  select! takes a random
\* ready branch, so cancellation cannot be passed over for ever.  The Analyzer
\* reads until it is cancelled.
FairSpec ==
  Spec /\ WF_vars(ReaderWorks) /\ WF_vars(EngineWorks)
       /\ SF_vars(ReaderStops) /\ SF_vars(EngineStops)
       /\ WF_vars(Consume) /\ WF_vars(AnalyzerStops)

-----------------------------------------------------------------------------
(* Correctness *)

\* What the cache takes for known has a row or is getting one, although the cache is
\* written first and the process may crash in between, unless its storing failed
\* (dedup.rs:284 goes on) or clean-up, which knows nothing of the cache, took the row:
\* touching a duplicate then misses, as often as it is seen.
CachedIsStored ==
  \A c \in Certs : c \in Range(cache) =>
    \/ c \in Stored \cup forgotten
    \/ engine.pc = "persist" /\ engine.event.cert = c

\* A certificate is reported as new once, however often the process crashes, as long
\* as the cache and the table have room for it: until it is evicted or cut off by the
\* reload, its storing fails, or clean-up takes its row.
NewOnce == \A c \in Certs : forwarded[c] <= 1 \/ c \in forgotten

\* A certificate that reaches the engine is forwarded, full channels and storage
\* errors notwithstanding, unless the collector is shut down or crashes.
ObservedIsForwarded ==
  \A c \in Certs :
    (crashes = 0 /\ \E i \in 1 .. Len(input) : input[i].cert = c)
      ~> (forwarded[c] >= 1 \/ cancelled \/ crashes > 0)

\* Cancellation ends both tasks, wherever they wait.
ShutdownEnds ==
  cancelled ~> (reader.pc = "stopped" /\ engine.pc = "stopped") \/ ~cancelled

=============================================================================
