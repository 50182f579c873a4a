---------------------------- MODULE AcmeRenewal ----------------------------
(***************************************************************************)
(* Certificate renewal (tlapix-executor/src/acme.rs): AcmeRenewalService   *)
(* with its timeout and its retries around one workflow shared by all      *)
(* callers, the ACME one or the webhook.                                   *)
(*                                                                         *)
(* The steps of a call are its awaits.  The timeout may fire at any of     *)
(* them and drops the call on the spot: the mutex guard is released, a     *)
(* file write that has reached the blocking pool goes on without it.  How  *)
(* long a request or a sleep takes is left open.  The ACME server is       *)
(* external: it accepts accounts and orders and moves orders along.        *)
(***************************************************************************)
EXTENDS Integers

CONSTANTS
  Callers,     \* tasks that may call renew at the same time
  MaxRetries,  \* max_retries: attempts in one call
  MaxPolls,    \* polls of an order that may find it unfinished
  MaxCalls,    \* bound: calls started in one behaviour
  MaxFaults    \* bound: crashes of the daemon and failed file writes

None == 0
Torn == -1     \* credentials file: there, but not (yet) valid JSON
NoOne == "none"

ASSUME AcmeAssumption ==
  /\ NoOne \notin Callers
  /\ MaxRetries \in Nat \ {0} /\ {MaxPolls, MaxCalls, MaxFaults} \subseteq Nat

VARIABLES
  workflow,  \* "acme" or "webhook", fixed at construction
  call,      \* the locals of each renew call
  lock,      \* who holds the account mutex
  cached,    \* the account in the mutex, or None
  file,      \* the credentials file: None, Torn or an account
  writes,    \* file writes handed to the blocking pool
  accounts,  \* accounts the server has created; the newest has this number
  calls,     \* calls started
  faults,    \* crashes and failed writes
  cut        \* a call was cut off between creating an account and caching it

vars == <<workflow, call, lock, cached, file, writes, accounts, calls, faults, cut>>
store == <<cached, file, writes, accounts>>
history == <<calls, faults, cut>>

Idle == [pc |-> "idle", attempt |-> 0, tries |-> 0, account |-> None,
         order |-> "none", result |-> "none"]

Locked == {"load", "create", "mkdir", "write"}        \* get_or_create_account
Creating == {"create", "mkdir", "write"}
Ordering == {"order", "challenge", "poll", "finalize", "issue", "download"}
Attempting == {"lock", "post"} \cup Locked \cup Ordering

At(c, pc) == call[c].pc = pc

\* The locals of c change, nothing else does.
Set(c, locals) ==
  /\ call' = [call EXCEPT ![c] = locals]
  /\ UNCHANGED <<workflow, lock, store, history>>

Goto(c, pc) == [call[c] EXCEPT !.pc = pc]

-----------------------------------------------------------------------------
(* AcmeRenewalService *)

Attempt(c, n) ==
  [Idle EXCEPT !.pc = IF workflow = "acme" THEN "lock" ELSE "post", !.attempt = n]

Start(c) ==
  /\ At(c, "idle")
  /\ calls < MaxCalls
  /\ calls' = calls + 1
  /\ call' = [call EXCEPT ![c] = Attempt(c, 1)]
  /\ UNCHANGED <<workflow, lock, store, faults, cut>>

Ends(c, result) == [call[c] EXCEPT !.pc = "done", !.result = result]

\* After an attempt that failed.
Failed(c) ==
  IF call[c].attempt < MaxRetries THEN Goto(c, "backoff") ELSE Ends(c, "exhausted")

\* The guard of c is dropped, if it has one.
Released(c) == IF lock = c THEN NoOne ELSE lock

\* Whatever happens to c from outside while it creates an account is remembered.
Abandon(c, locals) ==
  /\ call' = [call EXCEPT ![c] = locals]
  /\ lock' = Released(c)
  /\ cut' = (cut \/ call[c].pc \in Creating)

\* A request of the attempt fails, for whatever reason.
RequestFails(c) ==
  /\ call[c].pc \in Attempting \ {"lock", "write"}
  /\ Abandon(c, Failed(c))
  /\ UNCHANGED <<workflow, store, calls, faults>>

\* Mutant: the attempt is not counted.
Backoff_Uncounted(c) ==
  /\ At(c, "backoff")
  /\ Set(c, Attempt(c, call[c].attempt))

Backoff(c) ==
  /\ At(c, "backoff")
  /\ Set(c, Attempt(c, call[c].attempt + 1))

Pending(account) == {w \in writes : w.account = account}

\* Mutant: the write is dropped with the call that asked for it.
Timeout_DropsWrite(c) ==
  /\ call[c].pc \in Attempting \cup {"backoff"}
  /\ Abandon(c, Ends(c, "timeout"))
  /\ writes' = writes \ Pending(call[c].account)
  /\ UNCHANGED <<workflow, cached, file, accounts, calls, faults>>

\* The timeout drops the call at an await.
Timeout(c) ==
  /\ call[c].pc \in Attempting \cup {"backoff"}
  /\ Abandon(c, Ends(c, "timeout"))
  /\ UNCHANGED <<workflow, store, calls, faults>>

Return(c) ==
  /\ At(c, "done")
  /\ Set(c, Idle)

-----------------------------------------------------------------------------
(* WebhookRenewalWorkflow *)

WebhookAccepts(c) ==
  /\ At(c, "post")
  /\ Set(c, Ends(c, "ok"))

-----------------------------------------------------------------------------
(* get_or_create_account *)

\* Mutant: the mutex is only taken to look at the cache.
LockFree_Always == TRUE

LockFree == lock = NoOne

\* From the mutex to the next await: the cache, then the file.
Lock(c) ==
  /\ At(c, "lock") /\ LockFree
  /\ IF cached # None
       THEN /\ call' = [call EXCEPT ![c] = [Goto(c, "order") EXCEPT !.account = cached]]
            /\ UNCHANGED lock
       ELSE /\ call' = [call EXCEPT ![c] =
                          Goto(c, IF file # None THEN "load" ELSE "create")]
            /\ lock' = c
  /\ UNCHANGED <<workflow, store, history>>

\* The account is cached and the guard goes out of scope.
Cache(c, account) ==
  /\ cached' = account
  /\ call' = [call EXCEPT ![c] = [Goto(c, "order") EXCEPT !.account = account]]
  /\ lock' = Released(c)

Load(c) ==
  /\ At(c, "load")
  /\ IF file = Torn
       THEN Abandon(c, Failed(c)) /\ UNCHANGED cached
       ELSE Cache(c, file) /\ UNCHANGED cut
  /\ UNCHANGED <<workflow, file, writes, accounts, calls, faults>>

Create(c) ==
  /\ At(c, "create")
  /\ accounts' = accounts + 1
  /\ call' = [call EXCEPT ![c] = [Goto(c, "mkdir") EXCEPT !.account = accounts + 1]]
  /\ UNCHANGED <<workflow, lock, cached, file, writes, history>>

\* The server creates the account, and the answer never arrives.
CreateUnheard(c) ==
  /\ At(c, "create")
  /\ accounts' = accounts + 1
  /\ Abandon(c, Failed(c))
  /\ UNCHANGED <<workflow, cached, file, writes, calls, faults>>

\* The directory exists: the write goes to the blocking pool.
Persist(c) ==
  /\ At(c, "mkdir")
  /\ writes' = writes \cup {[account |-> call[c].account, open |-> FALSE]}
  /\ call' = [call EXCEPT ![c] = Goto(c, "write")]
  /\ UNCHANGED <<workflow, lock, cached, file, accounts, history>>

Persisted(c) ==
  /\ At(c, "write") /\ Pending(call[c].account) = {}
  /\ Cache(c, call[c].account)
  /\ UNCHANGED <<workflow, file, writes, accounts, history>>

\* External, tokio::fs::write: create and truncate the file, then fill it.
WriteOpens(w) ==
  /\ ~w.open
  /\ file' = Torn
  /\ writes' = (writes \ {w}) \cup {[w EXCEPT !.open = TRUE]}
  /\ UNCHANGED <<workflow, call, lock, cached, accounts, history>>

WriteEnds(w) ==
  /\ w.open
  /\ file' = w.account
  /\ writes' = writes \ {w}
  /\ UNCHANGED <<workflow, call, lock, cached, accounts, history>>

\* The disk refuses; whoever still waits for the write hears of it.
WriteFails(w) ==
  /\ faults < MaxFaults
  /\ faults' = faults + 1
  /\ writes' = writes \ {w}
  /\ \/ /\ \A c \in Callers : ~ (At(c, "write") /\ call[c].account = w.account)
        /\ UNCHANGED <<call, lock, cut>>
     \/ \E c \in Callers : /\ At(c, "write") /\ call[c].account = w.account
                           /\ Abandon(c, Failed(c))
  /\ UNCHANGED <<workflow, cached, file, accounts, calls>>

-----------------------------------------------------------------------------
(* AcmeRenewalWorkflow::renew *)

\* new_order; the server may know the authorizations or the certificate already.
Order(c) ==
  /\ At(c, "order")
  /\ \E s \in {"pending", "ready", "valid"} :
       Set(c, [Goto(c, IF s = "valid" THEN "download" ELSE "challenge")
                 EXCEPT !.order = s])

\* Authorizations and challenges: every one is signalled ready.
Challenge(c) ==
  /\ At(c, "challenge")
  /\ Set(c, [Goto(c, "poll") EXCEPT !.tries = 0])

PolledOut(c) == call[c].tries + 1 > MaxPolls

\* One poll that does not find the order finished.
Unfinished(c) ==
  IF call[c].order = "invalid" \/ PolledOut(c)
    THEN Failed(c)
    ELSE [call[c] EXCEPT !.tries = @ + 1]

\* refresh after a sleep; what is next depends on the status it brings.
Poll(c) ==
  /\ At(c, "poll")
  /\ Set(c, CASE call[c].order = "ready" -> Goto(c, "finalize")
              [] call[c].order = "valid" -> Goto(c, "download")
              [] OTHER -> Unfinished(c))

Finalize(c) ==
  /\ At(c, "finalize") /\ call[c].order = "ready"
  /\ Set(c, [Goto(c, "issue") EXCEPT !.tries = 0, !.order = "processing"])

\* Mutant: any end of the order's processing will do.
Issued_OrInvalid(c) == call[c].order \in {"valid", "invalid"}

Issued(c) == call[c].order = "valid"

Issue(c) ==
  /\ At(c, "issue")
  /\ Set(c, IF Issued(c) THEN Goto(c, "download") ELSE Unfinished(c))

Download(c) ==
  /\ At(c, "download")
  /\ Set(c, Ends(c, "ok"))

\* External: the server validates, issues or gives up.
Moves == {<<"pending", "ready">>, <<"pending", "invalid">>, <<"ready", "invalid">>,
          <<"processing", "valid">>, <<"processing", "invalid">>}

ServerMoves(c) ==
  /\ call[c].pc \in Ordering
  /\ \E s \in {"ready", "valid", "invalid"} :
       /\ <<call[c].order, s>> \in Moves
       /\ Set(c, [call[c] EXCEPT !.order = s])

-----------------------------------------------------------------------------
\* External: the daemon dies and is started again.
Crash ==
  /\ faults < MaxFaults
  /\ faults' = faults + 1
  /\ call' = [c \in Callers |-> Idle]
  /\ lock' = NoOne
  /\ cached' = None
  /\ writes' = {}
  /\ cut' = (cut \/ \E c \in Callers : call[c].pc \in Creating)
  /\ UNCHANGED <<workflow, file, accounts, calls>>

Init ==
  /\ workflow \in {"acme", "webhook"}
  /\ call = [c \in Callers |-> Idle]
  /\ lock = NoOne
  /\ cached = None /\ file = None /\ writes = {}
  /\ accounts = 0 /\ calls = 0 /\ faults = 0
  /\ cut = FALSE

Progress(c) ==
  \/ RequestFails(c) \/ Backoff(c) \/ Return(c) \/ WebhookAccepts(c)
  \/ Lock(c) \/ Load(c) \/ Create(c) \/ CreateUnheard(c) \/ Persist(c) \/ Persisted(c)
  \/ Order(c) \/ Challenge(c) \/ Poll(c) \/ Finalize(c) \/ Issue(c) \/ Download(c)

Writing == \E w \in writes : WriteOpens(w) \/ WriteEnds(w) \/ WriteFails(w)

Next ==
  \/ \E c \in Callers : Start(c) \/ Progress(c) \/ Timeout(c) \/ ServerMoves(c)
  \/ Writing \/ Crash

Spec == Init /\ [][Next]_vars

\* A request is answered, fails, or is ended by the timeout; the blocking pool
\* gets to every write.  The server need not do anything.
FairSpec ==
  /\ Spec
  /\ \A c \in Callers : WF_vars(Progress(c) \/ Timeout(c))
  /\ WF_vars(Writing)

-----------------------------------------------------------------------------
(* Correctness *)

Storing == {"mkdir", "write"}
Places == {"idle", "backoff", "done"} \cup Attempting
Locals == [pc : Places, attempt : 0 .. MaxRetries, tries : 0 .. MaxPolls,
           account : Nat,
           order : {"none", "pending", "ready", "processing", "valid", "invalid"},
           result : {"none", "ok", "exhausted", "timeout"}]

\* Types, and the attempts and polls a call may make.
TypeOK ==
  /\ workflow \in {"acme", "webhook"}
  /\ call \in [Callers -> Locals]
  /\ \A c \in Callers : /\ call[c].account <= accounts
                        /\ At(c, "backoff") => call[c].attempt < MaxRetries
                        /\ call[c].pc \in Storing => call[c].account # None
  /\ lock \in Callers \cup {NoOne}
  /\ cached \in 0 .. accounts /\ file \in -1 .. accounts
  /\ writes \subseteq [account : 1 .. accounts, open : BOOLEAN]
  /\ accounts \in Nat /\ calls \in 0 .. MaxCalls /\ faults \in 0 .. MaxFaults
  /\ cut \in BOOLEAN

\* All callers renew with one account, before and after a restart, as long as no
\* call is cut off while it creates one: the account is created once, stored, and
\* only then used.
OneAccount ==
  ~cut => /\ accounts <= 1
          /\ cached # None => file = cached

\* A call that times out or is dropped never leaves an unreadable credentials
\* file behind; only a crash or a full disk can.
TornByFaultOnly ==
  faults = 0 /\ file = Torn => \E w \in writes : w.open

\* A renewal is reported done only if the server has issued the certificate for
\* the order of this very attempt.
OkMeansIssued ==
  \A c \in Callers :
    workflow = "acme" /\ call[c].result = "ok" => call[c].order = "valid"

\* Every call returns, even if the server answers every poll and leaves the order
\* unfinished for ever, and the timeout is none.
CallsReturn == \A c \in Callers : ~At(c, "idle") ~> At(c, "idle")

=============================================================================
