------------------------------- MODULE Export -------------------------------
(***************************************************************************)
(* ExportService (tlapix-daemon/src/export.rs): tasks that record events   *)
(* on four channels, with the StatsD flushes they spawn (statsd.rs) and    *)
(* the webhook deliveries they wait for (webhooks.rs).                     *)
(*                                                                         *)
(* Of the five metrics two are kept: one that is only counted and one that *)
(* also goes to the webhooks.  A payload is its event.  The receivers are  *)
(* external: a request is answered with success or fails (the endpoint may *)
(* have taken it all the same); a datagram is offered to the socket.       *)
(***************************************************************************)
EXTENDS Integers, Sequences, FiniteSets

CONSTANTS
  Recorders,       \* tasks that call record_event
  Configurations,  \* the sets of channels that may be configured
  NumEndpoints,    \* webhook endpoints
  RetryMax,        \* retry_max, the same for every endpoint
  MaxEvents,       \* bound: events recorded
  MaxTicks         \* bound: ticks of the periodic flush

Channels == {"otlp", "prometheus", "statsd", "webhooks"}
Counting == Channels \ {"webhooks"}

\* The metrics, in the order in which a flush goes through them.
Metrics == <<"discovered", "executed">>
Metric == {"discovered", "executed"}
Dispatched == {"executed"}

Endpoints == 1 .. NumEndpoints

\* retry_max is a u8 and 1 is added to it in that type.
ASSUME ExportAssumption ==
  /\ Configurations \subseteq SUBSET Channels
  /\ NumEndpoints \in Nat \ {0} /\ RetryMax \in 0 .. 254
  /\ MaxEvents \in Nat /\ MaxTicks \in Nat

VARIABLES
  health,   \* per channel; "disabled" when it is not configured
  counted,  \* the counters of each channel
  call,     \* the locals of each record_event
  flush,    \* the flushes: 0 is the periodic one, n the one of event n
  offered,  \* the greatest value of each metric handed to the socket
  events,   \* events recorded so far
  ticks     \* periodic flushes so far

exportVars == <<health, counted, call, flush, offered, events, ticks>>

Enabled(ch) == health[ch] # "disabled"

\* Before the first call, and what a call has of the dispatch when it begins.
NoDelivery == [tries |-> 0, result |-> "none"]
Fresh(pc, metric, event) ==
  [pc |-> pc, metric |-> metric, event |-> event, endpoint |-> 1,
   delivery |-> [e \in Endpoints |-> NoDelivery]]

NoFlush == [pc |-> "none", at |-> 1, value |-> [m \in Metric |-> 0]]

\* ExportService::new; a StatsD socket that cannot be opened disables the channel.
ExportInit ==
  /\ \E on \in Configurations :
       health = [ch \in Channels |-> IF ch \in on THEN "healthy" ELSE "disabled"]
  /\ counted = [ch \in Counting |-> [m \in Metric |-> 0]]
  /\ call = [r \in Recorders |-> Fresh("idle", "discovered", 0)]
  /\ flush = [n \in 0 .. MaxEvents |-> NoFlush]
  /\ offered = [m \in Metric |-> 0]
  /\ events = 0 /\ ticks = 0

At(r, pc) == call[r].pc = pc
Goto(r, pc) == call' = [call EXCEPT ![r].pc = pc]

-----------------------------------------------------------------------------
(* record_event *)

Record(r, m) ==
  /\ At(r, "idle") /\ events < MaxEvents
  /\ call' = [call EXCEPT ![r] = Fresh("otlp", m, events + 1)]
  /\ events' = events + 1
  /\ UNCHANGED <<health, counted, flush, offered, ticks>>

\* Mutant: the flush is spawned before the event is counted.
Following_SpawnsFirst ==
  [otlp |-> "prometheus", prometheus |-> "spawn", spawn |-> "statsd",
   statsd |-> "webhooks"]

\* The order of the channels.
Following ==
  [otlp |-> "prometheus", prometheus |-> "statsd", statsd |-> "spawn",
   spawn |-> "webhooks"]

\* An atomic increment.
Increment(ch, m) == counted' = [counted EXCEPT ![ch][m] = @ + 1]

\* record_otlp, record_prometheus, record_statsd
Count(r) ==
  \E ch \in Counting :
    /\ At(r, ch)
    /\ IF Enabled(ch) THEN Increment(ch, call[r].metric) ELSE UNCHANGED counted
    /\ Goto(r, Following[ch])
    /\ UNCHANGED <<health, flush, offered, events, ticks>>

\* A flush of its own for every event.
Spawn(r) ==
  /\ At(r, "spawn")
  /\ flush' = IF Enabled("statsd") THEN [flush EXCEPT ![call[r].event].pc = "load"]
                                   ELSE flush
  /\ Goto(r, Following["spawn"])
  /\ UNCHANGED <<health, counted, offered, events, ticks>>

\* Only actions are dispatched.
Webhooks(r) ==
  /\ At(r, "webhooks")
  /\ Goto(r, IF Enabled("webhooks") /\ call[r].metric \in Dispatched
               THEN "post" ELSE "idle")
  /\ UNCHANGED <<health, counted, flush, offered, events, ticks>>

\* Where a call goes on: the endpoints one after the other, whatever became of
\* the last one, and then the health of the channel if any of them failed.
AfterEndpoint(c) ==
  IF c.endpoint < NumEndpoints THEN [c EXCEPT !.pc = "post", !.endpoint = @ + 1]
  ELSE IF \E e \in Endpoints : c.delivery[e].result = "failed"
         THEN [c EXCEPT !.pc = "mark"] ELSE [c EXCEPT !.pc = "idle"]

\* Mutant: the first endpoint that fails ends the dispatch.
AfterFailure_Breaks(c) == [c EXCEPT !.pc = "mark"]

AfterFailure(c) == AfterEndpoint(c)

LastAttempt(tries) == tries > RetryMax

Ended(c, result) == [c EXCEPT !.delivery[c.endpoint].result = result]

Tried(c) == [c EXCEPT !.delivery[c.endpoint].tries = @ + 1]

PostSucceeds(r) ==
  /\ At(r, "post")
  /\ call' = [call EXCEPT ![r] = AfterEndpoint(Ended(Tried(@), "ok"))]
  /\ UNCHANGED <<health, counted, flush, offered, events, ticks>>

\* Another status, no connection, or no answer in time.
PostFails(r) ==
  /\ At(r, "post")
  /\ LET c == Tried(call[r])
     IN  call' = [call EXCEPT ![r] =
                    IF LastAttempt(c.delivery[c.endpoint].tries)
                      THEN AfterFailure(Ended(c, "failed"))
                      ELSE [c EXCEPT !.pc = "backoff"]]
  /\ UNCHANGED <<health, counted, flush, offered, events, ticks>>

Backoff(r) ==
  /\ At(r, "backoff") /\ Goto(r, "post")
  /\ UNCHANGED <<health, counted, flush, offered, events, ticks>>

\* The channel is degraded, and nothing ever makes it healthy again.
Mark(r) ==
  /\ At(r, "mark")
  /\ health' = [health EXCEPT !["webhooks"] = "degraded"]
  /\ Goto(r, "idle")
  /\ UNCHANGED <<counted, flush, offered, events, ticks>>

-----------------------------------------------------------------------------
(* flush_metrics: the counters are read one by one, then sent one by one *)

\* start_periodic_flush: the next tick finds the last flush over.
PeriodicTick ==
  /\ Enabled("statsd") /\ ticks < MaxTicks /\ flush[0].pc = "none"
  /\ flush' = [flush EXCEPT ![0].pc = "load"] /\ ticks' = ticks + 1
  /\ UNCHANGED <<health, counted, call, offered, events>>

FlushLoad(n) ==
  /\ flush[n].pc = "load"
  /\ LET f == flush[n]
         m == Metrics[f.at]
         loaded == [f EXCEPT !.value[m] = counted["statsd"][m]]
     IN  flush' = [flush EXCEPT ![n] =
                     IF f.at < Len(Metrics) THEN [loaded EXCEPT !.at = @ + 1]
                     ELSE [loaded EXCEPT !.pc = "send", !.at = 1]]
  /\ UNCHANGED <<health, counted, call, offered, events, ticks>>

\* A datagram that cannot be sent is logged, and the next one is tried.
FlushSend(n) ==
  /\ flush[n].pc = "send"
  /\ LET f == flush[n]
         m == Metrics[f.at]
     IN  /\ offered' = [offered EXCEPT ![m] = IF @ < f.value[m] THEN f.value[m] ELSE @]
         /\ flush' = [flush EXCEPT ![n] =
                        IF f.at < Len(Metrics) THEN [f EXCEPT !.at = @ + 1] ELSE NoFlush]
  /\ UNCHANGED <<health, counted, call, events, ticks>>

ExportNext ==
  \/ \E r \in Recorders :
       \/ \E m \in Metric : Record(r, m)
       \/ Count(r) \/ Spawn(r) \/ Webhooks(r)
       \/ PostSucceeds(r) \/ PostFails(r) \/ Backoff(r) \/ Mark(r)
  \/ PeriodicTick
  \/ \E n \in 0 .. MaxEvents : FlushLoad(n) \/ FlushSend(n)

ExportSpec == ExportInit /\ [][ExportNext]_exportVars

-----------------------------------------------------------------------------
(* Correctness *)

\* When record_event returns for an action, every endpoint was served whatever
\* became of those before it: it answered with success, or it was tried
\* retry_max + 1 times (requirements.md:190-191).  A failure shows in the health of the channel.
DeliveredOrExhausted ==
  \A r \in Recorders :
    LET d == call[r].delivery
    IN  At(r, "idle") /\ call[r].event > 0 /\ call[r].metric \in Dispatched
          /\ Enabled("webhooks")
        => /\ \A e \in Endpoints :
                \/ d[e].result = "ok" /\ d[e].tries > 0
                \/ d[e].result = "failed" /\ d[e].tries = RetryMax + 1
           /\ (\E e \in Endpoints : d[e].result = "failed")
                => health["webhooks"] = "degraded"

\* No count is left behind: a value the socket has not been offered is one that a
\* flush has yet to read or carries, or that a flush about to be spawned will read,
\* although flushes overlap and read while others count.
NothingUnsent ==
  \A m \in Metric :
    LET count == counted["statsd"][m]
    IN  \/ offered[m] >= count
        \/ \E n \in 0 .. MaxEvents :
             LET f == flush[n]
             IN  \/ f.pc = "load" /\ \E i \in f.at .. Len(Metrics) : Metrics[i] = m
                 \/ f.pc # "none" /\ f.value[m] >= count
        \/ \E r \in Recorders : At(r, "spawn")
=============================================================================
