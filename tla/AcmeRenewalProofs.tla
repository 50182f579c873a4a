------------------------- MODULE AcmeRenewalProofs -------------------------
(***************************************************************************)
(* What holds of renewals for any number of callers, attempts and polls.   *)
(*                                                                         *)
(* OkMeansIssued is strengthened to SoundCalls, a predicate on the locals  *)
(* of one call.  OneAccount follows the account through its life: it is    *)
(* not there (Fresh), being stored by the holder of the mutex (Making), or *)
(* stored (Stored), unless a call was cut off in between.                  *)
(***************************************************************************)
EXTENDS AcmeRenewal, TLAPS

-----------------------------------------------------------------------------
(* Type correctness *)

CallsTyped ==
  /\ call \in [Callers -> Locals]
  /\ \A c \in Callers : /\ call[c].account <= accounts
                        /\ At(c, "backoff") => call[c].attempt < MaxRetries
                        /\ call[c].pc \in Storing => call[c].account # None

StoreTyped ==
  /\ cached \in 0 .. accounts /\ file \in -1 .. accounts
  /\ writes \subseteq [account : 1 .. accounts, open : BOOLEAN]
  /\ accounts \in Nat

LEMMA TypesSuffice ==
  ASSUME workflow \in {"acme", "webhook"}, CallsTyped, StoreTyped,
         lock \in Callers \cup {NoOne}, cut \in BOOLEAN,
         calls \in 0 .. MaxCalls, faults \in 0 .. MaxFaults
  PROVE  TypeOK
BY DEF CallsTyped, StoreTyped, TypeOK

LEMMA Bounds ==
  /\ MaxRetries \in Nat \ {0} /\ 0 \in 0 .. MaxRetries /\ 1 \in 0 .. MaxRetries
  /\ MaxPolls \in Nat /\ 0 \in 0 .. MaxPolls
  /\ MaxCalls \in Nat /\ MaxFaults \in Nat
<1>1. /\ MaxRetries \in Nat \ {0} /\ MaxPolls \in Nat
      /\ MaxCalls \in Nat /\ MaxFaults \in Nat
  BY AcmeAssumption
<1> QED
  BY <1>1

LEMMA IdleTyped == Idle \in Locals /\ Idle.pc = "idle" /\ Idle.account = 0
  BY Bounds DEF Idle, Locals, Places, None

LEMMA InitTypeOK == Init => TypeOK
<1> SUFFICES ASSUME Init PROVE TypeOK
  OBVIOUS
<1>1. call = [c \in Callers |-> Idle] /\ accounts = 0
  BY DEF Init
<1>2. /\ call \in [Callers -> Locals]
      /\ \A c \in Callers : call[c].account = 0 /\ call[c].pc = "idle"
  BY <1>1, IdleTyped
<1>3. /\ cached \in 0 .. accounts /\ file \in -1 .. accounts
      /\ writes \subseteq [account : 1 .. accounts, open : BOOLEAN]
  BY <1>1 DEF Init, None
<1>4. calls \in 0 .. MaxCalls /\ faults \in 0 .. MaxFaults /\ accounts \in Nat
  BY Bounds DEF Init
<1>5. /\ workflow \in {"acme", "webhook"} /\ lock \in Callers \cup {NoOne}
      /\ cut \in BOOLEAN
  BY DEF Init
<1>6. ASSUME NEW c \in Callers
      PROVE  /\ call[c].account <= accounts
             /\ At(c, "backoff") => call[c].attempt < MaxRetries
             /\ call[c].pc \in Storing => call[c].account # None
  <2>1. call[c].account = 0 /\ call[c].pc = "idle"
    BY <1>2
  <2>2. accounts = 0
    BY <1>1
  <2> QED
    BY <2>1, <2>2 DEF At, Storing
<1>7. StoreTyped
  BY <1>3, <1>4 DEF StoreTyped
<1>8. CallsTyped
  BY <1>2, <1>6 DEF CallsTyped
<1> QED
  BY <1>4, <1>5, <1>7, <1>8, TypesSuffice

\* A call moves on to another place and keeps its other locals.
LEMMA GotoTyped ==
  ASSUME TypeOK, NEW c \in Callers, NEW pc \in Places
  PROVE  /\ Goto(c, pc) \in Locals
         /\ Goto(c, pc).pc = pc /\ Goto(c, pc).order = call[c].order
         /\ Goto(c, pc).account = call[c].account /\ Goto(c, pc).account \in 0 .. accounts
         /\ Goto(c, pc).attempt = call[c].attempt
         /\ Goto(c, pc).result = call[c].result
<1>1. call[c] \in Locals /\ call[c].account \in 0 .. accounts
  BY DEF TypeOK, Locals
<1> QED
  BY <1>1 DEF Goto, Locals

\* A new attempt starts without an account.
LEMMA AttemptTyped ==
  ASSUME NEW c \in Callers, NEW n \in 0 .. MaxRetries
  PROVE  /\ Attempt(c, n) \in Locals
         /\ Attempt(c, n).pc = (IF workflow = "acme" THEN "lock" ELSE "post")
         /\ Attempt(c, n).account = 0 /\ Attempt(c, n).result = "none"
<1> DEFINE pc == IF workflow = "acme" THEN "lock" ELSE "post"
<1>1. pc \in Places
  BY DEF Places, Attempting
<1>a. Attempt(c, n) = [Idle EXCEPT !.pc = pc, !.attempt = n]
  BY DEF Attempt
<1> HIDE DEF pc
<1>2. Attempt(c, n) = [pc |-> pc, attempt |-> n, tries |-> 0, account |-> 0,
                       order |-> "none", result |-> "none"]
  BY <1>a DEF Idle, None
<1>3. Attempt(c, n) \in Locals
  BY <1>1, <1>2, Bounds DEF Locals
<1> QED
  BY <1>2, <1>3 DEF pc

LEMMA EndsTyped ==
  ASSUME TypeOK, NEW c \in Callers, NEW result \in {"ok", "exhausted", "timeout"}
  PROVE  /\ Ends(c, result) \in Locals
         /\ Ends(c, result).pc = "done" /\ Ends(c, result).result = result
         /\ Ends(c, result).account \in 0 .. accounts
         /\ Ends(c, result).order = call[c].order
<1>1. call[c] \in Locals /\ call[c].account \in 0 .. accounts
  BY DEF TypeOK, Locals
<1> QED
  BY <1>1 DEF Ends, Locals, Places

\* After a failed attempt there is another one, or the call is over.
LEMMA FailedTyped ==
  ASSUME TypeOK, NEW c \in Callers
  PROVE  /\ Failed(c) \in Locals /\ Failed(c).account \in 0 .. accounts
         /\ Failed(c).pc \in {"backoff", "done"}
         /\ Failed(c).pc = "backoff" => Failed(c).attempt < MaxRetries
         /\ Failed(c).result \in {call[c].result, "exhausted"}
         /\ Failed(c).result # call[c].result => Failed(c).pc = "done"
<1>1. CASE call[c].attempt < MaxRetries
  BY <1>1, GotoTyped DEF Failed, Places
<1>2. CASE ~(call[c].attempt < MaxRetries)
  BY <1>2, EndsTyped DEF Failed
<1> QED
  BY <1>1, <1>2

\* What may take the place of the locals of a call.
MayBe(locals, n) ==
  /\ locals \in Locals /\ locals.account \in 0 .. n
  /\ locals.pc = "backoff" => locals.attempt < MaxRetries
  /\ locals.pc \in Storing => locals.account # None

LEMMA OneCallTyped ==
  ASSUME TypeOK, NEW c \in Callers, NEW locals, MayBe(locals, accounts'),
         call' = [call EXCEPT ![c] = locals], accounts' \in {accounts, accounts + 1}
  PROVE  CallsTyped'
<1>1. call' \in [Callers -> Locals]
  BY DEF TypeOK, MayBe
<1>2. ASSUME NEW d \in Callers
      PROVE  /\ call'[d].account <= accounts'
             /\ At(d, "backoff")' => call'[d].attempt < MaxRetries
             /\ call'[d].pc \in Storing => call'[d].account # None
  <2>1. call[d] \in Locals /\ call[d].account \in Nat /\ accounts \in Nat
    BY DEF TypeOK, Locals
  <2>2. CASE d = c
    <3>1. call'[d] = locals
      BY <2>2 DEF TypeOK
    <3> QED
      BY <3>1 DEF MayBe, Storing, None, At
  <2>3. CASE d # c
    <3>1. call'[d] = call[d]
      BY <2>3 DEF TypeOK
    <3> QED
      BY <2>1, <3>1 DEF TypeOK, At
  <2> QED
    BY <2>2, <2>3
<1> QED
  BY <1>1, <1>2 DEF CallsTyped

LEMMA StoreGrows ==
  ASSUME TypeOK, UNCHANGED <<cached, file, writes>>,
         accounts' \in {accounts, accounts + 1}
  PROVE  StoreTyped'
<1>1. accounts \in Nat /\ accounts' \in Nat /\ accounts' >= accounts
  BY DEF TypeOK
<1>2. /\ 0 .. accounts \subseteq 0 .. accounts' /\ -1 .. accounts \subseteq -1 .. accounts'
      /\ 1 .. accounts \subseteq 1 .. accounts'
  BY <1>1
<1>3. writes' \subseteq [account : 1 .. accounts', open : BOOLEAN]
  BY <1>2 DEF TypeOK
<1> QED
  BY <1>1, <1>2, <1>3 DEF TypeOK, StoreTyped

\* A step that is nothing but Set.
LEMMA SetTyped ==
  ASSUME TypeOK, NEW c \in Callers, NEW locals, MayBe(locals, accounts), Set(c, locals)
  PROVE  TypeOK'
<1>1. accounts' = accounts /\ call' = [call EXCEPT ![c] = locals]
  BY DEF Set, store
<1>2. CallsTyped'
  BY <1>1, OneCallTyped
<1> QED
  BY <1>1, <1>2 DEF CallsTyped, Set, store, history, TypeOK

LEMMA AbandonTyped ==
  ASSUME TypeOK, NEW c \in Callers, NEW locals, MayBe(locals, accounts'),
         Abandon(c, locals), accounts' \in {accounts, accounts + 1}
  PROVE  /\ CallsTyped'
         /\ lock' \in Callers \cup {NoOne} /\ cut' \in BOOLEAN
<1>1. CallsTyped'
  BY OneCallTyped DEF Abandon
<1>2. lock' \in Callers \cup {NoOne}
  BY DEF Abandon, Released, TypeOK
<1>3. cut' \in BOOLEAN
  BY DEF Abandon, TypeOK
<1> QED
  BY <1>1, <1>2, <1>3

LEMMA CacheTyped ==
  ASSUME TypeOK, NEW c \in Callers, NEW account \in 0 .. accounts, Cache(c, account),
         UNCHANGED accounts
  PROVE  /\ CallsTyped' /\ cached' \in 0 .. accounts'
         /\ lock' \in Callers \cup {NoOne}
<1> DEFINE locals == [Goto(c, "order") EXCEPT !.account = account]
<1>1. "order" \in Places /\ account \in Nat
  BY DEF Places, Attempting, Ordering, TypeOK
<1>2. Goto(c, "order") \in Locals /\ Goto(c, "order").pc = "order"
  BY <1>1, GotoTyped
<1>3. locals \in Locals /\ locals.account = account /\ locals.pc = "order"
  BY <1>1, <1>2 DEF Locals
<1>4. call' = [call EXCEPT ![c] = locals]
  BY DEF Cache
<1> HIDE DEF locals
<1>5. CallsTyped'
  BY <1>3, <1>4, OneCallTyped DEF MayBe, Storing, None
<1> QED
  BY <1>5 DEF Cache, Released, TypeOK

\* One more poll, or the end of the attempt.
LEMMA UnfinishedTyped ==
  ASSUME TypeOK, NEW c \in Callers, call[c].pc \in Ordering
  PROVE  MayBe(Unfinished(c), accounts)
<1>1. CASE call[c].order = "invalid" \/ PolledOut(c)
  BY <1>1, FailedTyped DEF Unfinished, MayBe, Storing
<1>2. CASE ~(call[c].order = "invalid" \/ PolledOut(c))
  <2> DEFINE locals == [call[c] EXCEPT !.tries = @ + 1]
  <2>1. call[c] \in Locals /\ call[c].account \in 0 .. accounts
    BY DEF TypeOK, Locals
  <2>2. call[c].tries + 1 \in 0 .. MaxPolls
    BY <1>2, <2>1, Bounds DEF PolledOut, Locals
  <2>3. locals \in Locals /\ locals.pc = call[c].pc /\ locals.account = call[c].account
    BY <2>1, <2>2 DEF Locals
  <2>4. Unfinished(c) = locals
    BY <1>2 DEF Unfinished
  <2> HIDE DEF locals
  <2> QED
    BY <2>1, <2>3, <2>4 DEF MayBe, Storing, Ordering
<1> QED
  BY <1>1, <1>2

LEMMA StepTyped ==
  ASSUME TypeOK, NEW c \in Callers, Progress(c)
  PROVE  TypeOK'
<1> USE Bounds
<1>0. /\ call[c] \in Locals /\ call[c].account \in 0 .. accounts
      /\ call \in [Callers -> Locals] /\ accounts \in Nat
  BY DEF TypeOK, Locals
<1>1. CASE RequestFails(c)
  <2>1. MayBe(Failed(c), accounts') /\ accounts' = accounts
    BY <1>1, FailedTyped DEF RequestFails, MayBe, Storing, None, store
  <2>2. Abandon(c, Failed(c)) /\ UNCHANGED <<workflow, store, calls, faults>>
    BY <1>1 DEF RequestFails
  <2>3. CallsTyped' /\ lock' \in Callers \cup {NoOne} /\ cut' \in BOOLEAN
    BY <2>1, <2>2, AbandonTyped
  <2> QED
    BY <2>2, <2>3 DEF CallsTyped, TypeOK, store
<1>2. CASE Backoff(c)
  <2>1. call[c].attempt + 1 \in 0 .. MaxRetries
    BY <1>0, <1>2 DEF Backoff, At, TypeOK, Locals
  <2>2. MayBe(Attempt(c, call[c].attempt + 1), accounts)
    BY <1>0, <2>1, AttemptTyped DEF MayBe, Storing, None
  <2> QED
    BY <1>2, <2>2, SetTyped DEF Backoff
<1>3. CASE Return(c)
  <2>1. MayBe(Idle, accounts)
    BY <1>0, IdleTyped DEF MayBe, Storing, None
  <2> QED
    BY <1>3, <2>1, SetTyped DEF Return
<1>4. CASE WebhookAccepts(c) \/ Download(c)
  <2>1. MayBe(Ends(c, "ok"), accounts)
    BY EndsTyped DEF MayBe, Storing, None
  <2> QED
    BY <1>4, <2>1, SetTyped DEF WebhookAccepts, Download
<1>5. CASE Lock(c)
  <2>1. CASE cached # None
    <3> DEFINE locals == [Goto(c, "order") EXCEPT !.account = cached]
    <3>1. Goto(c, "order") \in Locals /\ Goto(c, "order").pc = "order"
      BY GotoTyped DEF Places, Attempting, Ordering
    <3>2. cached \in 0 .. accounts /\ cached \in Nat
      BY <1>0 DEF TypeOK
    <3>3. locals \in Locals /\ locals.pc = "order" /\ locals.account = cached
      BY <3>1, <3>2 DEF Locals
    <3>4. call' = [call EXCEPT ![c] = locals] /\ UNCHANGED <<workflow, store, history, lock>>
      BY <1>5, <2>1 DEF Lock
    <3> HIDE DEF locals
    <3>5. CallsTyped'
      BY <3>2, <3>3, <3>4, OneCallTyped DEF MayBe, Storing, None, store
    <3> QED
      BY <3>4, <3>5 DEF CallsTyped, TypeOK, store, history
  <2>2. CASE cached = None
    <3> DEFINE pc == IF file # None THEN "load" ELSE "create"
    <3>1. /\ call' = [call EXCEPT ![c] = Goto(c, pc)] /\ lock' = c
          /\ UNCHANGED <<workflow, store, history>>
      BY <1>5, <2>2 DEF Lock
    <3>2. pc \in Places /\ pc # "backoff" /\ pc \notin Storing
      BY DEF Places, Attempting, Locked, Storing
    <3> HIDE DEF pc
    <3>3. MayBe(Goto(c, pc), accounts)
      BY <3>2, GotoTyped DEF MayBe
    <3>4. CallsTyped'
      BY <3>1, <3>3, OneCallTyped DEF store
    <3> QED
      BY <3>1, <3>4 DEF CallsTyped, TypeOK, store, history
  <2> QED
    BY <2>1, <2>2
<1>6. CASE Load(c)
  <2>1. UNCHANGED <<workflow, file, writes, accounts, calls, faults>>
    BY <1>6 DEF Load
  <2>2. CASE file = Torn
    <3>1. Abandon(c, Failed(c)) /\ UNCHANGED cached
      BY <1>6, <2>2 DEF Load
    <3>2. MayBe(Failed(c), accounts')
      BY <2>1, FailedTyped DEF MayBe, Storing, None
    <3>3. CallsTyped' /\ lock' \in Callers \cup {NoOne} /\ cut' \in BOOLEAN
      BY <2>1, <3>1, <3>2, AbandonTyped
    <3> QED
      BY <2>1, <3>1, <3>3 DEF CallsTyped, TypeOK
  <2>3. CASE file # Torn
    <3>1. Cache(c, file) /\ UNCHANGED cut
      BY <1>6, <2>3 DEF Load
    <3>2. file \in 0 .. accounts
      BY <1>0, <2>3 DEF TypeOK, Torn
    <3>3. CallsTyped' /\ cached' \in 0 .. accounts' /\ lock' \in Callers \cup {NoOne}
      BY <2>1, <3>1, <3>2, CacheTyped
    <3> QED
      BY <2>1, <3>1, <3>3 DEF CallsTyped, TypeOK
  <2> QED
    BY <2>2, <2>3
<1>7. CASE Create(c)
  <2> DEFINE locals == [Goto(c, "mkdir") EXCEPT !.account = accounts + 1]
  <2>1. Goto(c, "mkdir") \in Locals /\ Goto(c, "mkdir").pc = "mkdir"
    BY GotoTyped DEF Places, Attempting, Locked
  <2>2. locals \in Locals /\ locals.pc = "mkdir" /\ locals.account = accounts + 1
    BY <1>0, <2>1 DEF Locals
  <2>3. /\ call' = [call EXCEPT ![c] = locals] /\ accounts' = accounts + 1
        /\ UNCHANGED <<workflow, lock, cached, file, writes, history>>
    BY <1>7 DEF Create
  <2> HIDE DEF locals
  <2>4. MayBe(locals, accounts')
    BY <1>0, <2>2, <2>3 DEF MayBe, Storing, None
  <2>5. CallsTyped' /\ StoreTyped'
    BY <2>3, <2>4, OneCallTyped, StoreGrows
  <2> QED
    BY <2>3, <2>5 DEF CallsTyped, StoreTyped, TypeOK, history
<1>8. CASE CreateUnheard(c)
  <2>1. /\ Abandon(c, Failed(c)) /\ accounts' = accounts + 1
        /\ UNCHANGED <<workflow, cached, file, writes, calls, faults>>
    BY <1>8 DEF CreateUnheard
  <2>2. MayBe(Failed(c), accounts')
    BY <1>0, <2>1, FailedTyped DEF MayBe, Storing, None
  <2>3. CallsTyped' /\ lock' \in Callers \cup {NoOne} /\ cut' \in BOOLEAN
    BY <2>1, <2>2, AbandonTyped
  <2>4. StoreTyped'
    BY <2>1, StoreGrows
  <2> QED
    BY <2>1, <2>3, <2>4 DEF CallsTyped, StoreTyped, TypeOK
<1>9. CASE Persist(c)
  <2>1. /\ writes' = writes \cup {[account |-> call[c].account, open |-> FALSE]}
        /\ call' = [call EXCEPT ![c] = Goto(c, "write")]
        /\ UNCHANGED <<workflow, lock, cached, file, accounts, history>>
    BY <1>9 DEF Persist
  <2>2. call[c].account \in 1 .. accounts /\ call[c].account # None
    BY <1>0, <1>9 DEF Persist, At, TypeOK, Storing, None
  <2>3. MayBe(Goto(c, "write"), accounts)
    <3>1. "write" \in Places
      BY DEF Places, Attempting, Locked
    <3> QED
      BY <2>2, <3>1, GotoTyped DEF MayBe
  <2>4. CallsTyped'
    BY <2>1, <2>3, OneCallTyped
  <2> DEFINE new == [account |-> call[c].account, open |-> FALSE]
  <2>5. new \in [account : 1 .. accounts, open : BOOLEAN]
    BY <2>2
  <2>6. writes \subseteq [account : 1 .. accounts, open : BOOLEAN]
    BY DEF TypeOK
  <2>7. writes' = writes \cup {new}
    BY <2>1
  <2> HIDE DEF new
  <2>8. writes' \subseteq [account : 1 .. accounts, open : BOOLEAN]
    BY <2>5, <2>6, <2>7
  <2>9. writes' \subseteq [account : 1 .. accounts', open : BOOLEAN]
    BY <2>1, <2>8
  <2> QED
    BY <2>1, <2>4, <2>9 DEF CallsTyped, TypeOK, history
<1>10. CASE Persisted(c)
  <2>1. Cache(c, call[c].account) /\ UNCHANGED <<workflow, file, writes, accounts, history>>
    BY <1>10 DEF Persisted
  <2>2. CallsTyped' /\ cached' \in 0 .. accounts' /\ lock' \in Callers \cup {NoOne}
    BY <1>0, <2>1, CacheTyped
  <2> QED
    BY <2>1, <2>2 DEF CallsTyped, TypeOK, history
<1>11. CASE Order(c)
  <2>1. PICK s \in {"pending", "ready", "valid"} :
          Set(c, [Goto(c, IF s = "valid" THEN "download" ELSE "challenge")
                    EXCEPT !.order = s])
    BY <1>11 DEF Order
  <2> DEFINE pc == IF s = "valid" THEN "download" ELSE "challenge"
             locals == [Goto(c, pc) EXCEPT !.order = s]
  <2>2. pc \in {"download", "challenge"} /\ pc \in Places
    BY DEF Places, Attempting, Ordering
  <2> HIDE DEF pc
  <2>3. Goto(c, pc) \in Locals /\ Goto(c, pc).pc = pc /\ Goto(c, pc).account \in 0 .. accounts
    BY <2>2, GotoTyped
  <2>4. /\ locals \in Locals /\ locals.pc = pc /\ locals.account = Goto(c, pc).account
    BY <2>3 DEF Locals
  <2>5. Set(c, locals)
    BY <2>1 DEF pc
  <2> HIDE DEF locals
  <2>6. MayBe(locals, accounts)
    BY <2>2, <2>3, <2>4 DEF MayBe, Storing
  <2> QED
    BY <2>5, <2>6, SetTyped
<1>12. CASE Challenge(c)
  <2> DEFINE locals == [Goto(c, "poll") EXCEPT !.tries = 0]
  <2>1. Goto(c, "poll") \in Locals /\ Goto(c, "poll").pc = "poll"
        /\ Goto(c, "poll").account \in 0 .. accounts
    BY GotoTyped DEF Places, Attempting, Ordering
  <2>2. locals \in Locals /\ locals.pc = "poll" /\ locals.account \in 0 .. accounts
    BY <2>1 DEF Locals
  <2>3. Set(c, locals)
    BY <1>12 DEF Challenge
  <2> HIDE DEF locals
  <2>4. MayBe(locals, accounts)
    BY <2>2 DEF MayBe, Storing
  <2> QED
    BY <2>3, <2>4, SetTyped
<1>13. CASE Finalize(c)
  <2> DEFINE locals == [Goto(c, "issue") EXCEPT !.tries = 0, !.order = "processing"]
  <2>1. Goto(c, "issue") \in Locals /\ Goto(c, "issue").pc = "issue"
        /\ Goto(c, "issue").account \in 0 .. accounts
    BY GotoTyped DEF Places, Attempting, Ordering
  <2>2. locals \in Locals /\ locals.pc = "issue" /\ locals.account \in 0 .. accounts
    BY <2>1 DEF Locals
  <2>3. Set(c, locals)
    BY <1>13 DEF Finalize
  <2> HIDE DEF locals
  <2>4. MayBe(locals, accounts)
    BY <2>2 DEF MayBe, Storing
  <2> QED
    BY <2>3, <2>4, SetTyped
<1>14. CASE Poll(c)
  <2>1. PICK locals : /\ Set(c, locals)
                      /\ locals \in {Goto(c, "finalize"), Goto(c, "download"), Unfinished(c)}
    BY <1>14 DEF Poll
  <2>2. MayBe(Goto(c, "finalize"), accounts) /\ MayBe(Goto(c, "download"), accounts)
    BY GotoTyped DEF MayBe, Places, Attempting, Ordering, Storing
  <2>3. MayBe(Unfinished(c), accounts)
    BY <1>14, UnfinishedTyped DEF Poll, At, Ordering
  <2> QED
    BY <2>1, <2>2, <2>3, SetTyped
<1>15. CASE Issue(c)
  <2>1. PICK locals : Set(c, locals) /\ locals \in {Goto(c, "download"), Unfinished(c)}
    BY <1>15 DEF Issue
  <2>2. MayBe(Goto(c, "download"), accounts)
    BY GotoTyped DEF MayBe, Places, Attempting, Ordering, Storing
  <2>3. MayBe(Unfinished(c), accounts)
    BY <1>15, UnfinishedTyped DEF Issue, At, Ordering
  <2> QED
    BY <2>1, <2>2, <2>3, SetTyped
<1> QED
  BY <1>1, <1>2, <1>3, <1>4, <1>5, <1>6, <1>7, <1>8, <1>9, <1>10, <1>11, <1>12, <1>13,
     <1>14, <1>15 DEF Progress

LEMMA WriteTyped ==
  ASSUME TypeOK, NEW w \in writes, WriteOpens(w) \/ WriteEnds(w) \/ WriteFails(w)
  PROVE  TypeOK'
<1>0. /\ accounts \in Nat /\ w \in [account : 1 .. accounts, open : BOOLEAN]
      /\ writes \subseteq [account : 1 .. accounts, open : BOOLEAN]
  BY DEF TypeOK
<1>1. CASE WriteOpens(w)
  <2> DEFINE new == [w EXCEPT !.open = TRUE]
  <2>1. new \in [account : 1 .. accounts, open : BOOLEAN]
    BY <1>0
  <2>2. /\ writes' = (writes \ {w}) \cup {new} /\ file' = Torn
        /\ UNCHANGED <<workflow, call, lock, cached, accounts, history>>
    BY <1>1 DEF WriteOpens
  <2> HIDE DEF new
  <2>3. writes' \subseteq [account : 1 .. accounts', open : BOOLEAN]
    BY <1>0, <2>1, <2>2
  <2>4. file' \in -1 .. accounts'
    BY <1>0, <2>2 DEF Torn
  <2> QED
    BY <2>2, <2>3, <2>4 DEF TypeOK, At, history
<1>2. CASE WriteEnds(w)
  <2>1. /\ file' = w.account /\ writes' \subseteq writes
        /\ UNCHANGED <<workflow, call, lock, cached, accounts, history>>
    BY <1>2 DEF WriteEnds
  <2>2. file' \in -1 .. accounts'
    BY <1>0, <2>1
  <2> QED
    BY <2>1, <2>2 DEF TypeOK, At, history
<1>3. CASE WriteFails(w)
  <2>1. /\ faults' \in 0 .. MaxFaults /\ writes' \subseteq writes
        /\ UNCHANGED <<workflow, cached, file, accounts, calls>>
    BY <1>3, Bounds DEF WriteFails, TypeOK
  <2>2. /\ CallsTyped'
        /\ lock' \in Callers \cup {NoOne} /\ cut' \in BOOLEAN
    <3>1. CASE UNCHANGED <<call, lock, cut>>
      BY <2>1, <3>1 DEF TypeOK, CallsTyped, At
    <3>2. ASSUME NEW c \in Callers, Abandon(c, Failed(c)) PROVE <2>2!1 /\ <2>2!2
      <4>1. MayBe(Failed(c), accounts')
        BY <2>1, FailedTyped DEF MayBe, Storing
      <4> QED
        BY <2>1, <3>2, <4>1, AbandonTyped
    <3> QED
      BY <1>3, <3>1, <3>2 DEF WriteFails
  <2> QED
    BY <2>1, <2>2 DEF TypeOK, CallsTyped
<1> QED
  BY <1>1, <1>2, <1>3

LEMMA CrashTyped == TypeOK /\ Crash => TypeOK'
<1> SUFFICES ASSUME TypeOK, Crash PROVE TypeOK'
  OBVIOUS
<1>1. /\ call' = [c \in Callers |-> Idle] /\ faults' \in 0 .. MaxFaults
      /\ lock' = NoOne /\ cached' = 0 /\ writes' = {} /\ cut' \in BOOLEAN
      /\ UNCHANGED <<workflow, file, accounts, calls>>
  BY Bounds DEF Crash, TypeOK, None
<1>2. ASSUME NEW c \in Callers
      PROVE  /\ call'[c] \in Locals /\ call'[c].account <= accounts'
             /\ At(c, "backoff")' => call'[c].attempt < MaxRetries
             /\ call'[c].pc \in Storing => call'[c].account # None
  <2>1. call'[c] = Idle
    BY <1>1
  <2>2. accounts' \in Nat
    BY <1>1 DEF TypeOK
  <2> QED
    BY <2>1, <2>2, IdleTyped DEF At, Storing
<1>3. call' \in [Callers -> Locals]
  BY <1>1, IdleTyped
<1>4. cached' \in 0 .. accounts'
  BY <1>1 DEF TypeOK
<1> QED
  BY <1>1, <1>2, <1>3, <1>4 DEF TypeOK

LEMMA NextTypeOK == TypeOK /\ [Next]_vars => TypeOK'
<1> SUFFICES ASSUME TypeOK, [Next]_vars PROVE TypeOK'
  OBVIOUS
<1>1. ASSUME NEW c \in Callers, Start(c) PROVE TypeOK'
  <2>1. MayBe(Attempt(c, 1), accounts')
    <3>1. accounts' \in Nat /\ 1 \in 0 .. MaxRetries /\ 0 \in 0 .. accounts'
      BY <1>1, Bounds DEF Start, store, TypeOK
    <3> QED
      BY <3>1, AttemptTyped DEF MayBe, Storing
  <2>2. /\ call' = [call EXCEPT ![c] = Attempt(c, 1)] /\ calls' \in 0 .. MaxCalls
        /\ UNCHANGED <<workflow, lock, store, faults, cut>>
    BY <1>1, Bounds DEF Start, TypeOK
  <2>3. CallsTyped'
    BY <2>1, <2>2, OneCallTyped DEF store
  <2> QED
    BY <2>2, <2>3 DEF TypeOK, CallsTyped, store
<1>2. ASSUME NEW c \in Callers, Timeout(c) PROVE TypeOK'
  <2>1. /\ Abandon(c, Ends(c, "timeout"))
        /\ UNCHANGED <<workflow, store, calls, faults>>
    BY <1>2 DEF Timeout
  <2>2. MayBe(Ends(c, "timeout"), accounts')
    BY <2>1, EndsTyped DEF MayBe, Storing, store
  <2>3. CallsTyped' /\ lock' \in Callers \cup {NoOne} /\ cut' \in BOOLEAN
    BY <2>1, <2>2, AbandonTyped DEF store
  <2> QED
    BY <2>1, <2>3 DEF TypeOK, CallsTyped, store
<1>3. ASSUME NEW c \in Callers, ServerMoves(c) PROVE TypeOK'
  <2>1. PICK s \in {"ready", "valid", "invalid"} : Set(c, [call[c] EXCEPT !.order = s])
    BY <1>3 DEF ServerMoves
  <2> DEFINE locals == [call[c] EXCEPT !.order = s]
  <2>2. /\ call[c] \in Locals /\ call[c].account \in 0 .. accounts
        /\ call[c].pc = "backoff" => call[c].attempt < MaxRetries
        /\ call[c].pc \in Storing => call[c].account # None
    BY DEF TypeOK, Locals, At
  <2>3. /\ locals \in Locals /\ locals.account = call[c].account
        /\ locals.pc = call[c].pc /\ locals.attempt = call[c].attempt
    BY <2>2 DEF Locals
  <2>4. Set(c, locals)
    BY <2>1
  <2> HIDE DEF locals
  <2>5. MayBe(locals, accounts)
    BY <2>2, <2>3 DEF MayBe
  <2> QED
    BY <2>4, <2>5, SetTyped
<1>4. CASE UNCHANGED vars
  BY <1>4 DEF TypeOK, vars, store, history, At
<1> QED
  BY <1>1, <1>2, <1>3, <1>4, StepTyped, WriteTyped, CrashTyped DEF Next, Writing

\* A call makes at most MaxRetries attempts and MaxPolls polls, and no file, cache
\* or call names an account the server has not created.
THEOREM TypeCorrect == Spec => []TypeOK
<1>1. Init => TypeOK
  BY InitTypeOK
<1>2. TypeOK /\ [Next]_vars => TypeOK'
  BY NextTypeOK
<1> QED
  BY <1>1, <1>2, PTL DEF Spec

-----------------------------------------------------------------------------
(* A renewal is reported done only for an issued certificate *)

\* What is true of the locals of every call: only the ACME workflow orders, what
\* is downloaded has been issued, and a call that has a result is over.
Sound(locals) ==
  /\ workflow = "acme" => locals.pc # "post"
  /\ locals.pc = "download" => locals.order = "valid"
  /\ locals.result # "none" => locals.pc = "done"
  /\ workflow = "acme" /\ locals.result = "ok" => locals.order = "valid"

SoundCalls == \A c \in Callers : Sound(call[c])

LEMMA OneCallSound ==
  ASSUME TypeOK, SoundCalls, NEW c \in Callers, NEW locals, Sound(locals),
         call' = [call EXCEPT ![c] = locals], UNCHANGED workflow
  PROVE  SoundCalls'
<1>1. ASSUME NEW d \in Callers PROVE Sound(call[d])'
  <2>1. CASE d = c
    <3>1. call'[d] = locals
      BY <2>1 DEF TypeOK
    <3> QED
      BY <3>1 DEF Sound
  <2>2. CASE d # c
    <3>1. call'[d] = call[d]
      BY <2>2 DEF TypeOK
    <3> QED
      BY <3>1 DEF SoundCalls, Sound
  <2> QED
    BY <2>1, <2>2
<1> QED
  BY <1>1 DEF SoundCalls

\* An attempt that goes on, or that fails, has no result but its failure.
LEMMA FailedSound ==
  ASSUME TypeOK, SoundCalls, NEW c \in Callers, call[c].pc # "done"
  PROVE  Sound(Failed(c))
<1>1. call[c].result = "none"
  BY DEF SoundCalls, Sound
<1>2. /\ Failed(c).pc \in {"backoff", "done"} /\ Failed(c).result \in {"none", "exhausted"}
      /\ Failed(c).result # "none" => Failed(c).pc = "done"
  BY <1>1, FailedTyped
<1> QED
  BY <1>2 DEF Sound

LEMMA GotoSound ==
  ASSUME TypeOK, SoundCalls, NEW c \in Callers, call[c].pc # "done",
         NEW pc \in Places \ {"post"}, pc = "download" => call[c].order = "valid"
  PROVE  Sound(Goto(c, pc))
<1>1. call[c].result = "none"
  BY DEF SoundCalls, Sound
<1> QED
  BY <1>1, GotoTyped DEF Sound

LEMMA UnfinishedSound ==
  ASSUME TypeOK, SoundCalls, NEW c \in Callers, call[c].pc \in {"poll", "issue"}
  PROVE  Sound(Unfinished(c))
<1>1. CASE call[c].order = "invalid" \/ PolledOut(c)
  BY <1>1, FailedSound DEF Unfinished
<1>2. CASE ~(call[c].order = "invalid" \/ PolledOut(c))
  <2>1. Sound(call[c]) /\ call[c] \in Locals
    BY DEF SoundCalls, TypeOK
  <2>2. /\ Unfinished(c).pc = call[c].pc /\ Unfinished(c).order = call[c].order
        /\ Unfinished(c).result = call[c].result
    BY <1>2, <2>1 DEF Unfinished, Locals
  <2> QED
    BY <2>1, <2>2 DEF Sound
<1> QED
  BY <1>1, <1>2

LEMMA AttemptSound ==
  ASSUME NEW c \in Callers, NEW n \in 0 .. MaxRetries
  PROVE  Sound(Attempt(c, n))
BY AttemptTyped DEF Sound

LEMMA ProgressSound ==
  ASSUME TypeOK, SoundCalls, NEW c \in Callers, Progress(c)
  PROVE  SoundCalls'
<1>0. call[c] \in Locals /\ Sound(call[c])
  BY DEF TypeOK, SoundCalls
<1>1. CASE RequestFails(c)
  <2>1. /\ call' = [call EXCEPT ![c] = Failed(c)] /\ UNCHANGED workflow
        /\ call[c].pc # "done"
    BY <1>1 DEF RequestFails, Abandon, Attempting, Locked, Ordering
  <2> QED
    BY <2>1, FailedSound, OneCallSound
<1>2. CASE Backoff(c)
  <2>1. call[c].attempt + 1 \in 0 .. MaxRetries
    BY <1>0, <1>2, Bounds DEF Backoff, At, TypeOK, Locals
  <2>2. Sound(Attempt(c, call[c].attempt + 1))
    BY <2>1, AttemptSound
  <2> QED
    BY <1>2, <2>2, OneCallSound DEF Backoff, Set
<1>3. CASE Return(c)
  <2>1. Sound(Idle)
    BY DEF Sound, Idle
  <2> QED
    BY <1>3, <2>1, OneCallSound DEF Return, Set
<1>4. CASE WebhookAccepts(c) \/ Download(c)
  <2>1. /\ workflow # "acme" \/ call[c].order = "valid"
        /\ call' = [call EXCEPT ![c] = Ends(c, "ok")] /\ UNCHANGED workflow
    BY <1>0, <1>4 DEF WebhookAccepts, Download, At, Sound, Set
  <2>2. Sound(Ends(c, "ok"))
    BY <2>1, EndsTyped DEF Sound
  <2> QED
    BY <2>1, <2>2, OneCallSound
<1>5. CASE Lock(c)
  <2>1. call[c].pc # "done" /\ UNCHANGED workflow
    BY <1>5 DEF Lock, At
  <2>2. CASE cached # None
    <3> DEFINE locals == [Goto(c, "order") EXCEPT !.account = cached]
    <3>1. "order" \in Places \ {"post"}
      BY DEF Places, Attempting, Ordering
    <3>2. Sound(Goto(c, "order")) /\ Goto(c, "order") \in Locals
      BY <2>1, <3>1, GotoSound, GotoTyped
    <3>3. Sound(locals)
      BY <3>2 DEF Sound, Locals
    <3>4. call' = [call EXCEPT ![c] = locals]
      BY <1>5, <2>2 DEF Lock
    <3> HIDE DEF locals
    <3> QED
      BY <2>1, <3>3, <3>4, OneCallSound
  <2>3. CASE cached = None
    <3> DEFINE pc == IF file # None THEN "load" ELSE "create"
    <3>1. call' = [call EXCEPT ![c] = Goto(c, pc)]
      BY <1>5, <2>3 DEF Lock
    <3>2. pc \in Places \ {"post"} /\ pc # "download"
      BY DEF Places, Attempting, Locked
    <3> HIDE DEF pc
    <3>3. Sound(Goto(c, pc))
      BY <2>1, <3>2, GotoSound
    <3> QED
      BY <2>1, <3>1, <3>3, OneCallSound
  <2> QED
    BY <2>2, <2>3
<1>6. CASE (Load(c) /\ file = Torn) \/ CreateUnheard(c)
  <2>1. /\ call' = [call EXCEPT ![c] = Failed(c)] /\ UNCHANGED workflow
        /\ call[c].pc # "done"
    BY <1>6 DEF Load, CreateUnheard, Abandon, At
  <2> QED
    BY <2>1, FailedSound, OneCallSound
<1>7. ASSUME NEW pc \in {"mkdir", "order"}, NEW account, call[c].pc # "done",
             call' = [call EXCEPT ![c] = [Goto(c, pc) EXCEPT !.account = account]],
             UNCHANGED workflow
      PROVE  SoundCalls'
  <2> DEFINE locals == [Goto(c, pc) EXCEPT !.account = account]
  <2>1. pc \in Places \ {"post"} /\ pc # "download"
    BY DEF Places, Attempting, Ordering, Locked
  <2>2. Sound(Goto(c, pc)) /\ Goto(c, pc) \in Locals
    BY <1>7, <2>1, GotoSound, GotoTyped
  <2>3. Sound(locals)
    BY <2>2 DEF Sound, Locals
  <2>4. call' = [call EXCEPT ![c] = locals]
    BY <1>7
  <2> HIDE DEF locals
  <2> QED
    BY <1>7, <2>3, <2>4, OneCallSound
<1>8. CASE Load(c) /\ file # Torn
  BY <1>7, <1>8 DEF Load, Cache, At
<1>9. CASE Create(c)
  BY <1>7, <1>9 DEF Create, At
<1>10. CASE Persisted(c)
  BY <1>7, <1>10 DEF Persisted, Cache, At
<1>11. CASE Persist(c)
  <2>1. Sound(Goto(c, "write"))
    BY <1>11, GotoSound DEF Persist, At, Places, Attempting, Locked
  <2> QED
    BY <1>11, <2>1, OneCallSound DEF Persist
<1>12. CASE Order(c)
  <2>1. PICK s \in {"pending", "ready", "valid"} :
          Set(c, [Goto(c, IF s = "valid" THEN "download" ELSE "challenge")
                    EXCEPT !.order = s])
    BY <1>12 DEF Order
  <2> DEFINE pc == IF s = "valid" THEN "download" ELSE "challenge"
             locals == [Goto(c, pc) EXCEPT !.order = s]
  <2>2. pc \in Places \ {"post", "done"} /\ (pc = "download" => s = "valid")
    BY DEF Places, Attempting, Ordering
  <2> HIDE DEF pc
  <2>3. Goto(c, pc) \in Locals /\ Goto(c, pc).pc = pc /\ Goto(c, pc).result = "none"
    BY <1>0, <1>12, <2>2, GotoTyped DEF Order, At, Sound
  <2>4. locals.pc = pc /\ locals.order = s /\ locals.result = "none"
    BY <2>3 DEF Locals
  <2>5. Set(c, locals)
    BY <2>1 DEF pc
  <2> HIDE DEF locals
  <2>6. Sound(locals)
    BY <2>2, <2>4 DEF Sound
  <2> QED
    BY <2>5, <2>6, OneCallSound DEF Set
<1>13. CASE Challenge(c) \/ Finalize(c)
  <2>1. PICK locals :
          /\ Set(c, locals)
          /\ locals.pc \in {"poll", "issue"} /\ locals.result = call[c].result
    <3>1. CASE Challenge(c)
      <4>1. [Goto(c, "poll") EXCEPT !.tries = 0].pc = "poll"
            /\ [Goto(c, "poll") EXCEPT !.tries = 0].result = call[c].result
        BY <1>0 DEF Goto, Locals
      <4> QED
        BY <3>1, <4>1 DEF Challenge
    <3>2. CASE Finalize(c)
      <4> DEFINE locals == [Goto(c, "issue") EXCEPT !.tries = 0, !.order = "processing"]
      <4>1. locals.pc = "issue" /\ locals.result = call[c].result
        BY <1>0 DEF Goto, Locals
      <4>2. Set(c, locals)
        BY <3>2 DEF Finalize
      <4> QED
        BY <4>1, <4>2
    <3> QED
      BY <1>13, <3>1, <3>2
  <2>2. call[c].result = "none"
    BY <1>0, <1>13 DEF Challenge, Finalize, At, Sound
  <2>3. Sound(locals)
    BY <2>1, <2>2 DEF Sound
  <2> QED
    BY <2>1, <2>3, OneCallSound DEF Set
<1>14. CASE Poll(c) \/ Issue(c)
  <2>0. call[c].pc \in {"poll", "issue"}
    BY <1>14 DEF Poll, Issue, At
  <2>1. PICK locals :
          /\ Set(c, locals)
          /\ \/ locals = Goto(c, "finalize") \/ locals = Unfinished(c)
             \/ locals = Goto(c, "download") /\ call[c].order = "valid"
    BY <1>14 DEF Poll, Issue, Issued
  <2>2. Sound(Goto(c, "finalize")) /\ Sound(Unfinished(c))
    BY <2>0, GotoSound, UnfinishedSound DEF Places, Attempting, Ordering
  <2>3. call[c].order = "valid" => Sound(Goto(c, "download"))
    BY <2>0, GotoSound DEF Places, Attempting, Ordering
  <2> QED
    BY <2>1, <2>2, <2>3, OneCallSound DEF Set
<1> QED
  BY <1>1, <1>2, <1>3, <1>4, <1>5, <1>6, <1>8, <1>9, <1>10, <1>11, <1>12, <1>13, <1>14
     DEF Progress

LEMMA NextSound == TypeOK /\ SoundCalls /\ [Next]_vars => SoundCalls'
<1> SUFFICES ASSUME TypeOK, SoundCalls, [Next]_vars PROVE SoundCalls'
  OBVIOUS
<1>1. ASSUME NEW c \in Callers, Start(c) PROVE SoundCalls'
  <2>1. Sound(Attempt(c, 1))
    BY Bounds, AttemptSound
  <2> QED
    BY <1>1, <2>1, OneCallSound DEF Start
<1>2. ASSUME NEW c \in Callers, Timeout(c) PROVE SoundCalls'
  <2>1. Sound(Ends(c, "timeout"))
    BY EndsTyped DEF Sound
  <2> QED
    BY <1>2, <2>1, OneCallSound DEF Timeout, Abandon
<1>3. ASSUME NEW c \in Callers, ServerMoves(c) PROVE SoundCalls'
  <2>1. PICK s \in {"ready", "valid", "invalid"} :
          <<call[c].order, s>> \in Moves /\ Set(c, [call[c] EXCEPT !.order = s])
    BY <1>3 DEF ServerMoves
  <2> DEFINE locals == [call[c] EXCEPT !.order = s]
  <2>2. Sound(call[c]) /\ call[c] \in Locals /\ call[c].pc # "done"
    BY <1>3 DEF TypeOK, SoundCalls, ServerMoves, Ordering
  <2>3. call[c].order # "valid"
    BY <2>1 DEF Moves
  <2>4. locals.pc = call[c].pc /\ locals.result = call[c].result /\ Set(c, locals)
    BY <2>1, <2>2 DEF Locals
  <2> HIDE DEF locals
  <2>5. Sound(locals)
    BY <2>2, <2>3, <2>4 DEF Sound
  <2> QED
    BY <2>4, <2>5, OneCallSound DEF Set
<1>4. ASSUME NEW w \in writes, WriteOpens(w) \/ WriteEnds(w) \/ WriteFails(w)
      PROVE  SoundCalls'
  <2>1. CASE UNCHANGED <<call, workflow>>
    BY <2>1 DEF SoundCalls, Sound
  <2>2. ASSUME NEW c \in Callers, At(c, "write"), Abandon(c, Failed(c)), UNCHANGED workflow
        PROVE  SoundCalls'
    BY <2>2, FailedSound, OneCallSound DEF Abandon, At
  <2> QED
    BY <1>4, <2>1, <2>2 DEF WriteOpens, WriteEnds, WriteFails
<1>5. CASE Crash
  <2>1. ASSUME NEW c \in Callers PROVE Sound(call[c])'
    BY <1>5 DEF Crash, Sound, Idle
  <2> QED
    BY <2>1 DEF SoundCalls
<1>6. CASE UNCHANGED vars
  BY <1>6 DEF SoundCalls, Sound, vars
<1> QED
  BY <1>1, <1>2, <1>3, <1>4, <1>5, <1>6, ProgressSound DEF Next, Writing

\* For any number of callers and of retries, a renewal that reports success did so
\* for an order whose certificate the server has issued.
THEOREM SuccessIsIssued == Spec => []OkMeansIssued
<1>1. Init => SoundCalls
  <2> SUFFICES ASSUME Init, NEW c \in Callers PROVE Sound(call[c])
    BY DEF SoundCalls
  <2>1. call[c] = Idle
    BY DEF Init
  <2> QED
    BY <2>1 DEF Sound, Idle
<1>2. TypeOK /\ SoundCalls /\ [Next]_vars => SoundCalls'
  BY NextSound
<1>3. SoundCalls => OkMeansIssued
  BY DEF SoundCalls, Sound, OkMeansIssued
<1> QED
  BY <1>1, <1>2, <1>3, TypeCorrect, PTL DEF Spec

-----------------------------------------------------------------------------
(* All callers renew with one account *)

\* The mutex is held exactly while its holder looks for an account.
Holder == \A c \in Callers : call[c].pc \in Locked <=> lock = c

Asked == [account |-> 1, open |-> FALSE]
Opened == [account |-> 1, open |-> TRUE]

\* Before the account is created, ...
Fresh ==
  /\ accounts = 0 /\ cached = 0 /\ file = 0 /\ writes = {}
  /\ \A c \in Callers : call[c].pc \notin {"load", "mkdir", "write"}

\* ... while its creator stores it, ...
StoredBy(c) ==
  /\ call[c].account = 1
  /\ \/ call[c].pc = "mkdir" /\ writes = {} /\ file = 0
     \/ call[c].pc = "write" /\ writes = {Asked} /\ file = 0
     \/ call[c].pc = "write" /\ writes = {Opened} /\ file = Torn
     \/ call[c].pc = "write" /\ writes = {} /\ file = 1

Making ==
  /\ accounts = 1 /\ cached = 0
  /\ \E c \in Callers : lock = c /\ StoredBy(c)

\* ... and from then on.
Stored ==
  /\ accounts = 1 /\ cached \in {0, 1} /\ file = 1 /\ writes = {}
  /\ \A c \in Callers : call[c].pc \notin Creating

Saved == cut \/ Fresh \/ Making \/ Stored

LEMMA NotLocked ==
  /\ \A pc \in {"idle", "backoff", "done", "lock", "post"} \cup Ordering : pc \notin Locked
  /\ Creating \subseteq Locked
BY DEF Ordering, Locked, Creating

\* A call that does not hold the mutex moves, or one that does lets go of it.
LEMMA CalmSaved ==
  ASSUME TypeOK, Holder, Saved, NEW c \in Callers, NEW locals,
         call' = [call EXCEPT ![c] = locals], locals.pc \notin Locked,
         lock' = Released(c),
         cut' \/ (call[c].pc \notin Creating /\ cut' = cut /\ UNCHANGED store)
  PROVE  Holder' /\ Saved'
<1>1. ASSUME NEW d \in Callers PROVE d # c => call'[d] = call[d]
  BY DEF TypeOK
<1>2. call'[c] = locals /\ c # NoOne /\ NoOne \notin Callers
  BY AcmeAssumption DEF TypeOK
<1>3. Holder'
  <2> SUFFICES ASSUME NEW d \in Callers PROVE call'[d].pc \in Locked <=> lock' = d
    BY DEF Holder
  <2>1. CASE d = c
    BY <1>2, <2>1 DEF Released
  <2>2. CASE d # c
    BY <1>1, <1>2, <2>2 DEF Released, Holder
  <2> QED
    BY <2>1, <2>2
<1>4. Saved'
  <2>1. CASE cut'
    BY <2>1 DEF Saved
  <2>2. CASE ~cut'
    <3>1. call[c].pc \notin Creating /\ ~cut
          /\ UNCHANGED <<cached, file, writes, accounts>>
      BY <2>2 DEF store
    <3>2. CASE Fresh
      <4>1. ASSUME NEW d \in Callers PROVE call'[d].pc \notin {"load", "mkdir", "write"}
        BY <1>1, <1>2, <3>2 DEF Fresh, Locked
      <4> QED
        BY <3>1, <3>2, <4>1 DEF Fresh, Saved
    <3>3. CASE Making
      <4>1. PICK d \in Callers : lock = d /\ StoredBy(d)
        BY <3>3 DEF Making
      <4>2. d # c
        BY <3>1, <4>1 DEF StoredBy, Creating
      <4>3. call'[d] = call[d] /\ lock' = d
        BY <1>1, <4>1, <4>2 DEF Released
      <4>4. StoredBy(d)'
        BY <3>1, <4>1, <4>3 DEF StoredBy
      <4> QED
        BY <3>1, <3>3, <4>3, <4>4 DEF Making, Saved
    <3>4. CASE Stored
      <4>1. ASSUME NEW d \in Callers PROVE call'[d].pc \notin Creating
        BY <1>1, <1>2, <3>4, NotLocked DEF Stored
      <4> QED
        BY <3>1, <3>4, <4>1 DEF Stored, Saved
    <3> QED
      BY <3>1, <3>2, <3>3, <3>4 DEF Saved
  <2> QED
    BY <2>1, <2>2
<1> QED
  BY <1>3, <1>4

\* The same for a step that leaves everything but the locals of a call alone.
LEMMA SetSaved ==
  ASSUME TypeOK, Holder, Saved, NEW c \in Callers, NEW locals,
         call' = [call EXCEPT ![c] = locals], call[c].pc \notin Locked,
         locals.pc \notin Locked, UNCHANGED <<lock, store, cut>>
  PROVE  Holder' /\ Saved'
<1>1. lock' = Released(c)
  BY DEF Holder, Released
<1>2. call[c].pc \notin Creating
  BY NotLocked
<1> QED
  BY <1>1, <1>2, CalmSaved

\* A call is abandoned, by its own failure or from outside.
LEMMA AbandonSaved ==
  ASSUME TypeOK, Holder, Saved, NEW c \in Callers, NEW locals, Abandon(c, locals),
         locals.pc \notin Locked, call[c].pc \in Creating \/ UNCHANGED store
  PROVE  Holder' /\ Saved'
<1>1. cut' \/ (call[c].pc \notin Creating /\ cut' = cut /\ UNCHANGED store)
  BY DEF Abandon, TypeOK
<1> QED
  BY <1>1, CalmSaved DEF Abandon

\* The holder of the mutex goes on looking: only what becomes of Saved is in doubt.
LEMMA HolderKept ==
  ASSUME TypeOK, Holder, NEW c \in Callers, NEW locals,
         call' = [call EXCEPT ![c] = locals], locals.pc \in Locked,
         lock = c \/ lock = NoOne, lock' = c
  PROVE  /\ Holder' /\ call'[c] = locals
         /\ \A d \in Callers \ {c} : call'[d] = call[d] /\ call[d].pc \notin Locked
<1>1. /\ call'[c] = locals
      /\ \A d \in Callers \ {c} : call'[d] = call[d]
  BY DEF TypeOK
<1>2. \A d \in Callers \ {c} : call[d].pc \notin Locked
  BY AcmeAssumption DEF Holder
<1> QED
  BY <1>1, <1>2 DEF Holder

LEMMA LockSaved ==
  ASSUME TypeOK, Holder, Saved, NEW c \in Callers, Lock(c)
  PROVE  Holder' /\ Saved'
<1>0. /\ call[c].pc = "lock" /\ lock = NoOne
      /\ UNCHANGED <<workflow, cached, file, writes, accounts, cut>>
  BY DEF Lock, At, LockFree, store, history
<1>1. CASE cached # None
  <2> DEFINE locals == [Goto(c, "order") EXCEPT !.account = cached]
  <2>1. locals.pc = "order"
    BY GotoTyped DEF Places, Attempting, Ordering, Locals
  <2>2. call' = [call EXCEPT ![c] = locals] /\ UNCHANGED lock
    BY <1>1 DEF Lock
  <2> HIDE DEF locals
  <2>3. call[c].pc \notin Locked /\ locals.pc \notin Locked
    BY <1>0, <2>1 DEF Locked
  <2> QED
    BY <1>0, <2>2, <2>3, SetSaved DEF store
<1>2. CASE cached = None
  <2> DEFINE pc == IF file # None THEN "load" ELSE "create"
  <2>1. call' = [call EXCEPT ![c] = Goto(c, pc)] /\ lock' = c
    BY <1>2 DEF Lock
  <2>2. pc \in Places /\ pc \in Locked /\ pc \in {"load", "create"}
        /\ (pc = "create" <=> file = 0)
    BY DEF Places, Attempting, Locked, None
  <2> HIDE DEF pc
  <2>3. Goto(c, pc).pc = pc
    BY <2>2, GotoTyped
  <2>4. /\ Holder' /\ call'[c] = Goto(c, pc)
        /\ \A d \in Callers \ {c} : call'[d] = call[d] /\ call[d].pc \notin Locked
    BY <1>0, <2>1, <2>2, <2>3, HolderKept, ZenonT(60)
  <2>5. CASE cut
    BY <1>0, <2>4, <2>5 DEF Saved
  <2>6. CASE Fresh
    <3>1. pc = "create"
      BY <2>2, <2>6 DEF Fresh
    <3>2. ASSUME NEW d \in Callers PROVE call'[d].pc \notin {"load", "mkdir", "write"}
      BY <2>3, <2>4, <2>6, <3>1 DEF Fresh
    <3> QED
      BY <1>0, <2>4, <2>6, <3>2 DEF Fresh, Saved
  <2>7. CASE Making
    BY <1>0, <2>7, AcmeAssumption DEF Making
  <2>8. CASE Stored
    <3>1. pc = "load"
      BY <2>2, <2>8 DEF Stored
    <3>2. ASSUME NEW d \in Callers PROVE call'[d].pc \notin Creating
      BY <2>3, <2>4, <2>8, <3>1 DEF Stored, Creating
    <3> QED
      BY <1>0, <2>4, <2>8, <3>2 DEF Stored, Saved
  <2> QED
    BY <2>4, <2>5, <2>6, <2>7, <2>8 DEF Saved
<1> QED
  BY <1>1, <1>2

\* Another caller than the creator does not hold the mutex.
LEMMA CreatorHolds ==
  ASSUME Holder, Making, NEW c \in Callers, call[c].pc \in Locked
  PROVE  lock = c /\ StoredBy(c)
BY DEF Holder, Making

\* The holder caches the account that is stored, and lets go.
LEMMA CacheSaved ==
  ASSUME TypeOK, Holder, NEW c \in Callers, call[c].pc \in Locked,
         NEW account, Cache(c, account), UNCHANGED <<file, writes, accounts, cut>>,
         cut \/ (account = 1 /\ accounts = 1 /\ file = 1 /\ writes = {})
  PROVE  Holder' /\ Saved'
<1> DEFINE locals == [Goto(c, "order") EXCEPT !.account = account]
<1>1. locals.pc = "order" /\ locals.pc \notin Locked
  BY GotoTyped DEF Places, Attempting, Ordering, Locals, Locked
<1>2. call' = [call EXCEPT ![c] = locals] /\ lock' = Released(c) /\ cached' = account
  BY DEF Cache
<1> HIDE DEF locals
<1>3. /\ call'[c] = locals /\ lock = c /\ lock' = NoOne
      /\ \A d \in Callers \ {c} : call'[d] = call[d] /\ call[d].pc \notin Locked
  BY <1>2, AcmeAssumption DEF TypeOK, Holder, Released
<1>4. Holder'
  BY <1>1, <1>3, AcmeAssumption DEF Holder
<1>5. CASE cut
  BY <1>4, <1>5 DEF Saved
<1>6. CASE account = 1 /\ accounts = 1 /\ file = 1 /\ writes = {}
  <2>1. ASSUME NEW d \in Callers PROVE call'[d].pc \notin Creating
    BY <1>1, <1>3, NotLocked
  <2> QED
    BY <1>2, <1>4, <1>6, <2>1 DEF Stored, Saved
<1> QED
  BY <1>5, <1>6

LEMMA LoadSaved ==
  ASSUME TypeOK, Holder, Saved, NEW c \in Callers, Load(c)
  PROVE  Holder' /\ Saved'
<1>0. /\ call[c].pc = "load" /\ call[c].pc \in Locked /\ call[c].pc \notin Creating
      /\ UNCHANGED <<file, writes, accounts>>
  BY DEF Load, At, Locked, Creating
<1>1. CASE file = Torn
  <2>1. Abandon(c, Failed(c)) /\ UNCHANGED store
    BY <1>0, <1>1 DEF Load, store
  <2>2. Failed(c).pc \notin Locked
    BY FailedTyped, NotLocked
  <2> QED
    BY <2>1, <2>2, AbandonSaved
<1>2. CASE file # Torn
  <2>1. Cache(c, file) /\ UNCHANGED cut
    BY <1>2 DEF Load
  <2>2. cut \/ (file = 1 /\ accounts = 1 /\ writes = {})
    <3>1. ~Fresh
      BY <1>0 DEF Fresh
    <3>2. ~Making
      BY <1>0, CreatorHolds DEF StoredBy
    <3> QED
      BY <3>1, <3>2 DEF Saved, Stored
  <2> QED
    BY <1>0, <2>1, <2>2, CacheSaved
<1> QED
  BY <1>1, <1>2

LEMMA PersistedSaved ==
  ASSUME TypeOK, Holder, Saved, NEW c \in Callers, Persisted(c)
  PROVE  Holder' /\ Saved'
<1>1. /\ call[c].pc = "write" /\ call[c].pc \in Locked /\ call[c].pc \in Creating
      /\ Pending(call[c].account) = {} /\ Cache(c, call[c].account)
      /\ UNCHANGED <<file, writes, accounts, cut>>
  BY DEF Persisted, At, Locked, Creating, history
<1>2. ~Fresh /\ ~Stored
  BY <1>1 DEF Fresh, Stored
<1>3. CASE Making
  <2>1. StoredBy(c) /\ accounts = 1 /\ call[c].account = 1
    BY <1>1, <1>3, CreatorHolds DEF Making, StoredBy
  <2>2. Pending(1) = {} /\ Asked.account = 1 /\ Opened.account = 1
    BY <1>1, <2>1 DEF Asked, Opened
  <2>3. writes # {Asked} /\ writes # {Opened}
    BY <2>2 DEF Pending
  <2>4. writes = {} /\ file = 1
    BY <1>1, <2>1, <2>3 DEF StoredBy
  <2> QED
    BY <1>1, <2>1, <2>4, CacheSaved
<1> QED
  BY <1>1, <1>2, <1>3, CacheSaved DEF Saved

LEMMA CreateSaved ==
  ASSUME TypeOK, Holder, Saved, NEW c \in Callers, Create(c)
  PROVE  Holder' /\ Saved'
<1> DEFINE locals == [Goto(c, "mkdir") EXCEPT !.account = accounts + 1]
<1>1. /\ call[c].pc = "create" /\ call[c].pc \in Locked /\ call[c].pc \in Creating
      /\ accounts' = accounts + 1 /\ UNCHANGED <<lock, cached, file, writes, cut>>
      /\ call' = [call EXCEPT ![c] = locals]
  BY DEF Create, At, Locked, Creating, history
<1>2. locals.pc = "mkdir" /\ locals.pc \in Locked /\ locals.account = accounts + 1
  BY GotoTyped DEF Places, Attempting, Locked, Locals
<1> HIDE DEF locals
<1>3. lock = c
  BY <1>1 DEF Holder
<1>4. Holder' /\ call'[c] = locals
  BY <1>1, <1>2, <1>3, HolderKept
<1>5. ~Stored /\ ~Making
  BY <1>1, CreatorHolds DEF Stored, StoredBy
<1>6. CASE Fresh
  <2>1. StoredBy(c)'
    BY <1>1, <1>2, <1>4, <1>6 DEF Fresh, StoredBy
  <2> QED
    BY <1>1, <1>3, <1>4, <1>6, <2>1 DEF Fresh, Making, Saved
<1> QED
  BY <1>1, <1>4, <1>5, <1>6 DEF Saved

LEMMA PersistSaved ==
  ASSUME TypeOK, Holder, Saved, NEW c \in Callers, Persist(c)
  PROVE  Holder' /\ Saved'
<1>1. /\ call[c].pc = "mkdir" /\ call[c].pc \in Locked /\ call[c].pc \in Creating
      /\ writes' = writes \cup {[account |-> call[c].account, open |-> FALSE]}
      /\ call' = [call EXCEPT ![c] = Goto(c, "write")]
      /\ UNCHANGED <<lock, cached, file, accounts, cut>>
  BY DEF Persist, At, Locked, Creating, history
<1>2. /\ Goto(c, "write").pc = "write" /\ Goto(c, "write").pc \in Locked
      /\ Goto(c, "write").account = call[c].account
  BY GotoTyped DEF Places, Attempting, Locked
<1>3. lock = c
  BY <1>1 DEF Holder
<1>4. Holder' /\ call'[c] = Goto(c, "write")
  BY <1>1, <1>2, <1>3, HolderKept
<1>5. ~Stored /\ ~Fresh
  BY <1>1 DEF Stored, Fresh
<1>6. CASE Making
  <2>1. StoredBy(c)
    BY <1>1, <1>6, CreatorHolds
  <2>2. writes = {} /\ file = 0 /\ call[c].account = 1
    BY <1>1, <2>1 DEF StoredBy
  <2>3. writes' = {Asked}
    BY <1>1, <2>2 DEF Asked
  <2>4. StoredBy(c)'
    BY <1>1, <1>2, <1>4, <2>2, <2>3 DEF StoredBy
  <2> QED
    BY <1>1, <1>3, <1>4, <1>6, <2>4 DEF Making, Saved
<1> QED
  BY <1>1, <1>4, <1>5, <1>6 DEF Saved

LEMMA WriteSaved ==
  ASSUME TypeOK, Holder, Saved, NEW w \in writes,
         WriteOpens(w) \/ WriteEnds(w) \/ WriteFails(w)
  PROVE  Holder' /\ Saved'
<1>1. CASE WriteFails(w)
  <2>1. UNCHANGED <<cached, file, accounts>>
    BY <1>1 DEF WriteFails
  <2>2. ASSUME NEW c \in Callers, At(c, "write"), Abandon(c, Failed(c))
        PROVE  Holder' /\ Saved'
    <3>1. call[c].pc \in Creating
      BY <2>2 DEF At, Creating
    <3>2. Failed(c).pc \notin Locked
      BY FailedTyped, NotLocked
    <3> QED
      BY <2>2, <3>1, <3>2, AbandonSaved
  <2>3. CASE /\ \A c \in Callers : ~ (At(c, "write") /\ call[c].account = w.account)
             /\ UNCHANGED <<call, lock, cut>>
    <3>1. Holder'
      BY <2>3 DEF Holder
    <3>2. ~Fresh /\ ~Stored
      BY DEF Fresh, Stored
    <3>3. ~Making
      <4> SUFFICES ASSUME NEW c \in Callers, StoredBy(c) PROVE FALSE
        BY DEF Making
      <4>1. call[c].pc = "write" /\ writes \in {{Asked}, {Opened}} /\ call[c].account = 1
        BY DEF StoredBy
      <4>2. w = Asked \/ w = Opened
        BY <4>1
      <4>3. w.account = 1
        BY <4>2 DEF Asked, Opened
      <4> QED
        BY <2>3, <4>1, <4>3 DEF At
    <3> QED
      BY <2>3, <3>1, <3>2, <3>3 DEF Saved
  <2> QED
    BY <1>1, <2>2, <2>3 DEF WriteFails
<1>2. CASE WriteOpens(w) \/ WriteEnds(w)
  <2>1. UNCHANGED <<call, lock, cached, accounts, cut>>
    BY <1>2 DEF WriteOpens, WriteEnds, history
  <2>2. Holder'
    BY <2>1 DEF Holder
  <2>3. ~Fresh /\ ~Stored
    BY DEF Fresh, Stored
  <2>4. CASE Making
    <3>1. PICK c \in Callers : lock = c /\ StoredBy(c)
      BY <2>4 DEF Making
    <3>2. CASE writes = {Asked}
      <4>1. w = Asked /\ ~w.open /\ call[c].pc = "write" /\ call[c].account = 1
        BY <3>1, <3>2 DEF Asked, Opened, StoredBy
      <4>2. file' = Torn /\ writes' = (writes \ {w}) \cup {[w EXCEPT !.open = TRUE]}
        BY <1>2, <4>1 DEF WriteOpens, WriteEnds
      <4>3. [w EXCEPT !.open = TRUE] = Opened
        <5> DEFINE new == [w EXCEPT !.open = TRUE]
        <5>1. w \in [account : 1 .. accounts, open : BOOLEAN] /\ w.account = 1
          BY <4>1 DEF TypeOK, Asked
        <5>2. new \in [account : 1 .. accounts, open : BOOLEAN]
              /\ new.account = 1 /\ new.open = TRUE
          BY <5>1
        <5> HIDE DEF new
        <5>3. new = [account |-> 1, open |-> TRUE]
          BY <5>2
        <5> QED
          BY <5>3 DEF new, Opened
      <4>4. writes' = {Opened}
        BY <3>2, <4>1, <4>2, <4>3
      <4>5. StoredBy(c)'
        BY <2>1, <4>1, <4>2, <4>4 DEF StoredBy
      <4> QED
        BY <2>1, <2>2, <2>4, <3>1, <4>5 DEF Making, Saved
    <3>3. CASE writes = {Opened}
      <4>1. w = Opened /\ w.open /\ w.account = 1
            /\ call[c].pc = "write" /\ call[c].account = 1
        BY <3>1, <3>3 DEF Asked, Opened, StoredBy
      <4>2. file' = 1 /\ writes' = {}
        BY <1>2, <3>3, <4>1 DEF WriteOpens, WriteEnds
      <4>3. StoredBy(c)'
        BY <2>1, <4>1, <4>2 DEF StoredBy
      <4> QED
        BY <2>1, <2>2, <2>4, <3>1, <4>3 DEF Making, Saved
    <3> QED
      BY <3>1, <3>2, <3>3 DEF StoredBy
  <2> QED
    BY <2>1, <2>2, <2>3, <2>4 DEF Saved
<1> QED
  BY <1>1, <1>2

LEMMA CrashSaved ==
  ASSUME TypeOK, Holder, Saved, Crash
  PROVE  Holder' /\ Saved'
<1>1. /\ call' = [c \in Callers |-> Idle] /\ lock' = NoOne /\ cached' = 0 /\ writes' = {}
      /\ cut' = (cut \/ \E c \in Callers : call[c].pc \in Creating)
      /\ UNCHANGED <<file, accounts>>
  BY DEF Crash, None
<1>2. \A c \in Callers : call'[c].pc = "idle"
  BY <1>1, IdleTyped
<1>3. \A c \in Callers : call'[c].pc \notin Locked /\ call'[c].pc \notin Creating
  BY <1>2, NotLocked
<1>4. Holder'
  BY <1>1, <1>3, AcmeAssumption DEF Holder
<1>5. Making => cut'
  <2> SUFFICES ASSUME NEW c \in Callers, StoredBy(c) PROVE cut'
    BY DEF Making
  <2>1. call[c].pc \in Creating
    BY DEF StoredBy, Creating
  <2> QED
    BY <1>1, <2>1
<1>6. Fresh => Fresh'
  BY <1>1, <1>2 DEF Fresh
<1>7. Stored => Stored'
  BY <1>1, <1>3 DEF Stored
<1>8. cut => cut'
  BY <1>1
<1> QED
  BY <1>4, <1>5, <1>6, <1>7, <1>8 DEF Saved

\* The steps of a call that leave the account alone.
LEMMA OrderSaved ==
  ASSUME TypeOK, Holder, Saved, NEW c \in Callers,
         \/ Backoff(c) \/ Return(c) \/ WebhookAccepts(c) \/ Order(c) \/ Challenge(c)
         \/ Poll(c) \/ Finalize(c) \/ Issue(c) \/ Download(c) \/ ServerMoves(c)
  PROVE  Holder' /\ Saved'
<1>0. call[c] \in Locals
  BY DEF TypeOK
<1>1. /\ call[c].pc \in {"backoff", "done", "post"} \cup Ordering
      /\ call[c].pc \notin Locked
  BY NotLocked DEF Backoff, Return, WebhookAccepts, Order, Challenge, Poll, Finalize,
                   Issue, Download, ServerMoves, At, Ordering
<1>2. ASSUME NEW locals, Set(c, locals), locals.pc \notin Locked PROVE Holder' /\ Saved'
  BY <1>1, <1>2, SetSaved DEF Set, history
<1>3. \A pc \in Ordering : Goto(c, pc) \in Locals /\ Goto(c, pc).pc = pc
  BY GotoTyped DEF Places, Attempting
<1>4. Failed(c).pc \notin Locked
  BY FailedTyped, NotLocked
<1>5. Unfinished(c).pc \notin Locked
  <2>1. [call[c] EXCEPT !.tries = @ + 1].pc = call[c].pc
    BY <1>0 DEF Locals
  <2> QED
    BY <1>1, <1>4, <2>1 DEF Unfinished
<1>6. CASE Backoff(c)
  <2>1. call[c].attempt + 1 \in 0 .. MaxRetries
    BY <1>0, <1>6, Bounds DEF Backoff, At, TypeOK, Locals
  <2>2. Attempt(c, call[c].attempt + 1).pc \notin Locked
    BY <2>1, AttemptTyped, NotLocked
  <2> QED
    BY <1>2, <1>6, <2>2 DEF Backoff
<1>7. CASE Return(c)
  <2>1. Idle.pc \notin Locked
    BY IdleTyped, NotLocked
  <2> QED
    BY <1>2, <1>7, <2>1 DEF Return
<1>8. CASE WebhookAccepts(c) \/ Download(c)
  <2>1. Ends(c, "ok").pc \notin Locked
    BY EndsTyped, NotLocked
  <2> QED
    BY <1>2, <1>8, <2>1 DEF WebhookAccepts, Download
<1>9. CASE Order(c)
  <2>1. PICK s \in {"pending", "ready", "valid"} :
          Set(c, [Goto(c, IF s = "valid" THEN "download" ELSE "challenge")
                    EXCEPT !.order = s])
    BY <1>9 DEF Order
  <2> DEFINE pc == IF s = "valid" THEN "download" ELSE "challenge"
             locals == [Goto(c, pc) EXCEPT !.order = s]
  <2>2. pc \in Ordering /\ pc \notin Locked
    BY DEF Ordering, Locked
  <2> HIDE DEF pc
  <2>3. locals.pc = pc
    BY <1>3, <2>2 DEF Locals
  <2>4. Set(c, locals)
    BY <2>1 DEF pc
  <2> HIDE DEF locals
  <2> QED
    BY <1>2, <2>2, <2>3, <2>4
<1>10. CASE Challenge(c)
  <2>1. [Goto(c, "poll") EXCEPT !.tries = 0].pc = "poll"
    BY <1>3 DEF Ordering, Locals
  <2> QED
    BY <1>2, <1>10, <2>1 DEF Challenge, Locked
<1>11. CASE Finalize(c)
  <2>1. [Goto(c, "issue") EXCEPT !.tries = 0, !.order = "processing"].pc = "issue"
    BY <1>3 DEF Ordering, Locals
  <2> QED
    BY <1>2, <1>11, <2>1 DEF Finalize, Locked
<1>12. CASE Poll(c) \/ Issue(c)
  <2>1. PICK locals : /\ Set(c, locals)
                      /\ locals \in {Goto(c, "finalize"), Goto(c, "download"), Unfinished(c)}
    BY <1>12 DEF Poll, Issue
  <2>2. locals.pc \notin Locked
    BY <1>3, <1>5, <2>1 DEF Ordering, Locked
  <2> QED
    BY <1>2, <2>1, <2>2
<1>13. CASE ServerMoves(c)
  <2>1. PICK s \in {"ready", "valid", "invalid"} : Set(c, [call[c] EXCEPT !.order = s])
    BY <1>13 DEF ServerMoves
  <2>2. [call[c] EXCEPT !.order = s].pc = call[c].pc
    BY <1>0 DEF Locals
  <2> QED
    BY <1>1, <1>2, <2>1, <2>2
<1> QED
  BY <1>6, <1>7, <1>8, <1>9, <1>10, <1>11, <1>12, <1>13

LEMMA NextSaved == TypeOK /\ Holder /\ Saved /\ [Next]_vars => Holder' /\ Saved'
<1> SUFFICES ASSUME TypeOK, Holder, Saved, [Next]_vars PROVE Holder' /\ Saved'
  OBVIOUS
<1>1. ASSUME NEW c \in Callers, Start(c) PROVE Holder' /\ Saved'
  <2>1. Attempt(c, 1).pc \notin Locked
    BY Bounds, AttemptTyped, NotLocked
  <2>2. call[c].pc \notin Locked
    BY <1>1, NotLocked DEF Start, At
  <2> QED
    BY <1>1, <2>1, <2>2, SetSaved DEF Start
<1>2. ASSUME NEW c \in Callers, NEW locals, Abandon(c, locals),
             locals \in {Failed(c), Ends(c, "timeout")},
             call[c].pc \in Creating \/ UNCHANGED store
      PROVE  Holder' /\ Saved'
  <2>1. locals.pc \notin Locked
    BY <1>2, FailedTyped, EndsTyped, NotLocked
  <2> QED
    BY <1>2, <2>1, AbandonSaved
<1>3. ASSUME NEW c \in Callers, RequestFails(c) \/ Timeout(c) \/ CreateUnheard(c)
      PROVE  Holder' /\ Saved'
  BY <1>2, <1>3 DEF RequestFails, Timeout, CreateUnheard, At, Creating
<1>4. CASE UNCHANGED vars
  BY <1>4 DEF vars, Holder, Saved, Fresh, Making, StoredBy, Stored
<1>5. ASSUME NEW c \in Callers, Progress(c) PROVE Holder' /\ Saved'
  BY <1>3, <1>5, OrderSaved, LockSaved, LoadSaved, CreateSaved, PersistSaved,
     PersistedSaved DEF Progress
<1> QED
  BY <1>1, <1>3, <1>4, <1>5, OrderSaved, WriteSaved, CrashSaved DEF Next, Writing

\* However many callers renew at the same time, and whether or not the daemon is
\* restarted, they renew with one account, unless a call was cut off while it
\* created one.
THEOREM AccountIsShared == Spec => []OneAccount
<1>1. Init => Holder /\ Saved
  <2> SUFFICES ASSUME Init PROVE Holder /\ Saved
    OBVIOUS
  <2>1. \A c \in Callers : call[c].pc = "idle"
    BY IdleTyped DEF Init
  <2>2. \A c \in Callers : call[c].pc \notin Locked
    BY <2>1, NotLocked
  <2>3. Holder
    BY <2>2, AcmeAssumption DEF Init, Holder
  <2>4. Fresh
    BY <2>1 DEF Init, Fresh, None
  <2> QED
    BY <2>3, <2>4 DEF Saved
<1>2. TypeOK /\ Holder /\ Saved /\ [Next]_vars => (Holder /\ Saved)'
  BY NextSaved
<1>3. Holder /\ Saved => OneAccount
  BY DEF Saved, Fresh, Making, Stored, OneAccount, None
<1> QED
  BY <1>1, <1>2, <1>3, TypeCorrect, PTL DEF Spec

-----------------------------------------------------------------------------
(* TornByFaultOnly *)

\* Only the blocking pool truncates the file; whoever drops a call leaves both the
\* file and the write alone.
LEMMA CallsKeepFile ==
  ASSUME TypeOK,
         \E c \in Callers : Start(c) \/ Progress(c) \/ Timeout(c) \/ ServerMoves(c)
  PROVE  UNCHANGED <<file, faults>> /\ writes \subseteq writes'
<1>1. \A c \in Callers : \A locals : Set(c, locals) => UNCHANGED <<file, faults, writes>>
  BY DEF Set, store, history
<1>2. ASSUME NEW c \in Callers, Progress(c)
      PROVE  UNCHANGED <<file, faults>> /\ writes \subseteq writes'
  <2>1. CASE RequestFails(c) \/ Lock(c) \/ Load(c) \/ Create(c) \/ CreateUnheard(c)
    BY <2>1 DEF RequestFails, Lock, Load, Create, CreateUnheard, store, history
  <2>2. CASE Persist(c) \/ Persisted(c)
    BY <2>2 DEF Persist, Persisted, history
  <2>3. CASE \/ Backoff(c) \/ Return(c) \/ WebhookAccepts(c) \/ Order(c)
             \/ Challenge(c) \/ Poll(c) \/ Finalize(c) \/ Issue(c) \/ Download(c)
    BY <1>1, <2>3 DEF Backoff, Return, WebhookAccepts, Order, Challenge, Poll, Finalize,
                      Issue, Download
  <2> QED
    BY <1>2, <2>1, <2>2, <2>3 DEF Progress
<1>3. ASSUME NEW c \in Callers, Start(c) \/ Timeout(c) \/ ServerMoves(c)
      PROVE  UNCHANGED <<file, faults>> /\ writes \subseteq writes'
  BY <1>1, <1>3 DEF Start, Timeout, ServerMoves, store
<1> QED
  BY <1>2, <1>3

LEMMA NextTorn == TypeOK /\ TornByFaultOnly /\ [Next]_vars => TornByFaultOnly'
<1> SUFFICES ASSUME TypeOK, TornByFaultOnly, [Next]_vars PROVE TornByFaultOnly'
  OBVIOUS
<1>1. ASSUME UNCHANGED <<file, faults>>, writes \subseteq writes' PROVE TornByFaultOnly'
  BY <1>1 DEF TornByFaultOnly
<1>2. ASSUME faults < MaxFaults, faults' = faults + 1 PROVE TornByFaultOnly'
  <2>1. faults' # 0
    BY <1>2, Bounds DEF TypeOK
  <2> QED
    BY <2>1 DEF TornByFaultOnly
<1>3. ASSUME NEW w \in writes, WriteOpens(w) PROVE TornByFaultOnly'
  <2>1. [w EXCEPT !.open = TRUE] \in writes' /\ [w EXCEPT !.open = TRUE].open
    BY <1>3 DEF WriteOpens, TypeOK
  <2> QED
    BY <2>1 DEF TornByFaultOnly
<1>4. ASSUME NEW w \in writes, WriteEnds(w) PROVE TornByFaultOnly'
  <2>1. file' # Torn
    BY <1>4 DEF WriteEnds, TypeOK, Torn
  <2> QED
    BY <2>1 DEF TornByFaultOnly
<1>5. CASE UNCHANGED vars
  BY <1>1, <1>5 DEF vars
<1> QED
  BY <1>1, <1>2, <1>3, <1>4, <1>5, CallsKeepFile DEF Next, Writing, WriteFails, Crash

\* Callers that time out, give up or are dropped at any await leave no torn
\* credentials file behind: the write they asked for is still on its way.
THEOREM TornNeedsFault == Spec => []TornByFaultOnly
<1>1. Init => TornByFaultOnly
  BY DEF Init, TornByFaultOnly, None, Torn
<1> QED
  BY <1>1, NextTorn, TypeCorrect, PTL DEF Spec

=============================================================================
