---------------------------- MODULE SessionStore ----------------------------
(***************************************************************************)
(* The stored history of one chat: the write queue of session-store.ts and *)
(* the IndexedDB adapter behind it (idb-session-adapter.ts).               *)
(*                                                                         *)
(* A save waits behind the operation in flight, and saves that wait are    *)
(* merged; a compaction or a deletion that finds nothing ahead of it goes  *)
(* to the adapter at once, beside the queue.  The adapter runs each        *)
(* operation in one transaction.  IndexedDB runs the transactions in the   *)
(* order they were created; one may abort (quota) and the connection may   *)
(* be lost under it, in which case the adapter reopens the connection and  *)
(* creates the transaction once more.  A load reads the newest generation  *)
(* in one transaction and its record in a second one.                      *)
(*                                                                         *)
(* A call goes through: issued (in txs, or in waiting when the connection  *)
(* is dead), decided by the database (in events), and heard of by the page.*)
(***************************************************************************)
EXTENDS Naturals, Sequences, FiniteSets

CONSTANTS
  MaxOps,        \* bound on the operations asked for
  MaxFaults,     \* bound on the aborted transactions and lost connections
  LosesBypassed, \* the connection may also be lost under an operation that went past the queue
  MaxLoads       \* bound on the loads

ASSUME StoreAssumption ==
  /\ MaxOps \in Nat /\ MaxFaults \in Nat /\ MaxLoads \in Nat
  /\ LosesBypassed \in BOOLEAN

VARIABLES
  asked,    \* the kinds of the operations asked for, in order: the k-th has number k
  last,     \* the number of the newest operation the database committed
  gens,     \* the generations of the history in the database
  queue,    \* _chatOps: the operations that wait, in order
  active,   \* the operation _pumpChatOps awaits, or Idle
  txs,      \* the transactions IndexedDB has not decided yet, in creation order
  events,   \* the decided ones whose event the page has not handled, in order
  waiting,  \* the calls that wait for the connection to be reopened
  dead,     \* the handle in _db is closed: transaction() throws
  faults,   \* aborted transactions and lost connections so far
  answer,   \* answer[k]: what the caller of save k was told
  load,     \* the load in progress, and what the last one returned
  loads     \* loads so far

vars == <<asked, last, gens, queue, active, txs, events, waiting, dead, faults, answer, load, loads>>

\* What the store promises, over what was asked for and what the database holds.
Promise == INSTANCE OrderedHistory
           WITH MaxOps <- MaxOps, asked <- asked, last <- last, gens <- gens
Kinds == Promise!Kinds
History == Promise!History

\* An operation: its number, its kind, and the saves it answers (merged ones too).
Op == [k : 1..MaxOps, kind : Kinds, waiters : SUBSET (1..MaxOps)]
Idle == [k |-> 0, kind |-> "none", waiters |-> {}]
\* A call of the adapter; a load reads the newest generation, then its record.
Call(op, kind, k, try) == [op |-> op, kind |-> kind, k |-> k, try |-> try]
Calls == [op : {"queued", "direct", "load"}, kind : Kinds \cup {"generation", "record"},
          k : 0..MaxOps, try : {1, 2}]
NoHistory == [op |-> 0, part |-> "full"]

TypeOK ==
  /\ asked \in Seq(Kinds) /\ Len(asked) <= MaxOps
  /\ last \in 0..MaxOps
  /\ gens \in Seq(History)
  /\ queue \in Seq(Op)
  /\ \A i \in 1..Len(queue) - 1 : queue[i].kind = "save" => queue[i + 1].kind = "compact"
  /\ active \in Op \cup {Idle}
  /\ txs \in Seq(Calls)
  /\ waiting \in Seq(Calls)
  /\ events \in Seq([call : Calls, result : {"committed", "aborted", "lost"}])
  /\ dead \in BOOLEAN
  /\ faults \in 0..MaxFaults
  /\ answer \in [1..MaxOps -> {"none", "true", "false"}]
  /\ load \in [at : {"none", "generation", "record", "done", "failed"}, floor : 0..MaxOps,
               gen : 0..MaxOps + 1, got : History \cup {NoHistory}]
  /\ loads \in 0..MaxLoads

StoreInit ==
  /\ asked = <<>> /\ last = 0 /\ gens = <<>>
  /\ queue = <<>> /\ active = Idle
  /\ txs = <<>> /\ events = <<>> /\ waiting = <<>>
  /\ dead = FALSE /\ faults = 0
  /\ answer = [k \in 1..MaxOps |-> "none"]
  /\ load = [at |-> "none", floor |-> 0, gen |-> 0, got |-> NoHistory]
  /\ loads = 0
-----------------------------------------------------------------------------
\* Calling the adapter: the transaction is created at once, or the call throws and
\* waits in revive(true) for the new connection.
Issue(call, t, w) ==
  IF dead THEN txs' = t /\ waiting' = Append(w, call)
          ELSE txs' = Append(t, call) /\ waiting' = w

Answer(saves, value) ==
  answer' = [k \in 1..MaxOps |-> IF k \in saves THEN value ELSE answer[k]]

SavesIn(q) == UNION {q[i].waiters : i \in {j \in 1..Len(q) : q[j].kind = "save"}}

\* A deletion takes the saves out of the queue.
WithoutSaves(q) ==
  LET kept[n \in 0..Len(q)] ==
        IF n = 0 THEN <<>>
        ELSE IF q[n].kind = "save" THEN kept[n - 1] ELSE Append(kept[n - 1], q[n])
  IN  kept[Len(q)]

\* Planted bug: a save is merged into any save that waits, across other operations.
Bug_MergeAcross(op, q) ==
  LET saves == {i \in 1..Len(q) : q[i].kind = "save"} IN
  IF op.kind = "save" /\ saves # {}
  THEN [i \in 1..Len(q) |-> IF i \in saves THEN [op EXCEPT !.waiters = @ \cup q[i].waiters] ELSE q[i]]
  ELSE Append(IF op.kind = "delete" THEN WithoutSaves(q) ELSE q, op)

\* Planted bug: a save never merges with the one that waits.
Bug_NoMerge(op, q) == Append(IF op.kind = "delete" THEN WithoutSaves(q) ELSE q, op)

\* Planted bug: the merge keeps the newest caller only.
Bug_ForgetWaiters(op, q) ==
  IF op.kind = "save" /\ q # <<>> /\ q[Len(q)].kind = "save"
  THEN [q EXCEPT ![Len(q)] = op]
  ELSE Append(IF op.kind = "delete" THEN WithoutSaves(q) ELSE q, op)

\* The queue once op has been asked for, and what becomes of the saves it drops.
Queued(op, q) ==
  CASE op.kind = "save" /\ q # <<>> /\ q[Len(q)].kind = "save" ->
         [q EXCEPT ![Len(q)] = [op EXCEPT !.waiters = @ \cup q[Len(q)].waiters]]
    [] op.kind = "delete" -> Append(WithoutSaves(q), op)
    [] OTHER -> Append(q, op)

\* _pumpChatOps takes the next operation of q, or stops.
Pump(q, t, w) ==
  IF q = <<>>
  THEN queue' = q /\ active' = Idle /\ txs' = t /\ waiting' = w
  ELSE /\ queue' = Tail(q)
       /\ active' = Head(q)
       /\ Issue(Call("queued", Head(q).kind, Head(q).k, 1), t, w)

\* sessionSaveHistory, sessionCompactHistory, sessionDeleteChat: _enqueueChatOp.
Enqueue(kind) ==
  LET k == Len(asked) + 1
      op == [k |-> k, kind |-> kind, waiters |-> IF kind = "save" THEN {k} ELSE {}]
  IN  /\ Len(asked) < MaxOps
      /\ asked' = Append(asked, kind) /\ UNCHANGED <<last, gens>>
      /\ IF active = Idle
         THEN IF kind = "save"
              THEN Pump(<<op>>, txs, waiting)
              ELSE Issue(Call("direct", kind, k, 1), txs, waiting) /\ UNCHANGED <<queue, active>>
         ELSE queue' = Queued(op, queue) /\ UNCHANGED <<active, txs, waiting>>
      /\ Answer(IF kind = "delete" THEN SavesIn(queue) ELSE {}, "false")
      /\ UNCHANGED <<events, dead, faults, load, loads>>
-----------------------------------------------------------------------------
\* Planted bug: the first generation is taken for the newest one.
Bug_Read(kind) ==
  IF kind = "generation" THEN [load EXCEPT !.gen = 1]
  ELSE [load EXCEPT !.got = IF load.gen \in 1..Len(gens) THEN gens[load.gen] ELSE NoHistory]

\* The two reads of loadHistory.  A chat without a generation is read at the first one.
Read(kind) ==
  IF kind = "generation" THEN [load EXCEPT !.gen = IF gens = <<>> THEN 1 ELSE Len(gens)]
  ELSE [load EXCEPT !.got = IF load.gen \in 1..Len(gens) THEN gens[load.gen] ELSE NoHistory]

\* The database runs the oldest transaction to its end.
Commit ==
  /\ txs # <<>>
  /\ LET call == Head(txs) IN
     /\ events' = Append(events, [call |-> call, result |-> "committed"])
     /\ IF call.op = "load"
        THEN load' = Read(call.kind) /\ UNCHANGED <<last, gens>>
        ELSE /\ last' = call.k
             /\ gens' = Promise!Effect(call.kind, call.k, gens)
             /\ UNCHANGED load
  /\ txs' = Tail(txs)
  /\ UNCHANGED <<asked, queue, active, waiting, dead, faults, answer, loads>>

\* A quota failure, or any other error that does not look like a closed connection.
Abort ==
  /\ faults < MaxFaults /\ txs # <<>>
  /\ faults' = faults + 1
  /\ events' = Append(events, [call |-> Head(txs), result |-> "aborted"])
  /\ txs' = Tail(txs)
  /\ UNCHANGED <<asked, last, gens, queue, active, waiting, dead, answer, load, loads>>

\* A bound on what is lost: see LosesBypassed.
Loses(call) == call.op = "direct" => LosesBypassed

\* WebKit's internal error: one transaction fails, the handle can still be used.
InternalError ==
  /\ faults < MaxFaults /\ txs # <<>> /\ Loses(Head(txs))
  /\ faults' = faults + 1
  /\ events' = Append(events, [call |-> Head(txs), result |-> "lost"])
  /\ txs' = Tail(txs)
  /\ UNCHANGED <<asked, last, gens, queue, active, waiting, dead, answer, load, loads>>

\* The browser closes the connection: every transaction in flight is aborted.
LoseConnection ==
  /\ faults < MaxFaults /\ ~dead /\ \A i \in 1..Len(txs) : Loses(txs[i])
  /\ faults' = faults + 1
  /\ dead' = TRUE
  /\ events' = events \o [i \in 1..Len(txs) |-> [call |-> txs[i], result |-> "lost"]]
  /\ txs' = <<>>
  /\ UNCHANGED <<asked, last, gens, queue, active, waiting, answer, load, loads>>

\* Planted bug: a failed write is reported to the callers as stored.
Bug_Rejected(call, t, w) ==
  CASE call.op = "queued" ->
         Answer(active.waiters, "true") /\ Pump(queue, t, w) /\ UNCHANGED load
    [] call.op = "direct" ->
         txs' = t /\ waiting' = w /\ UNCHANGED <<answer, queue, active, load>>
    [] call.op = "load" ->
         /\ load' = [load EXCEPT !.at = "failed"]
         /\ txs' = t /\ waiting' = w
         /\ UNCHANGED <<answer, queue, active>>

\* A call failed for good: a save answers false, the rest is logged.
Rejected(call, t, w) ==
  CASE call.op = "queued" ->
         Answer(active.waiters, "false") /\ Pump(queue, t, w) /\ UNCHANGED load
    [] call.op = "direct" ->
         txs' = t /\ waiting' = w /\ UNCHANGED <<answer, queue, active, load>>
    [] call.op = "load" ->
         /\ load' = [load EXCEPT !.at = "failed"]
         /\ txs' = t /\ waiting' = w
         /\ UNCHANGED <<answer, queue, active>>

\* The first connection error is answered by reopening; a load then starts again.
Retry(call) ==
  /\ waiting' = Append(waiting, [call EXCEPT !.try = 2,
                                  !.kind = IF @ = "record" THEN "generation" ELSE @])
  /\ load' = IF call.op = "load" THEN [load EXCEPT !.at = "generation"] ELSE load
  /\ UNCHANGED <<answer, queue, active, txs>>

Failed(call) == IF call.try = 1 THEN Retry(call) ELSE Rejected(call, txs, waiting)

\* The page hears that its call succeeded.
Resolved(call) ==
  CASE call.op = "queued" ->
         Answer(active.waiters, "true") /\ Pump(queue, txs, waiting) /\ UNCHANGED load
    [] call.op = "direct" ->
         UNCHANGED <<answer, queue, active, txs, waiting, load>>
    [] call.kind = "generation" ->
         IF dead THEN Failed(call)
                 ELSE /\ txs' = Append(txs, [call EXCEPT !.kind = "record"])
                      /\ load' = [load EXCEPT !.at = "record"]
                      /\ UNCHANGED <<answer, queue, active, waiting>>
    [] call.kind = "record" ->
         load' = [load EXCEPT !.at = "done"] /\ UNCHANGED <<answer, queue, active, txs, waiting>>

HandleEvent ==
  /\ events # <<>>
  /\ LET call == Head(events).call  result == Head(events).result IN
     CASE result = "committed" -> Resolved(call)
       [] result = "lost" -> Failed(call)
       [] result = "aborted" -> Rejected(call, txs, waiting)
  /\ events' = Tail(events)
  /\ UNCHANGED <<asked, last, gens, dead, faults, loads>>

\* revive: the new connection is there, and the calls that waited try once more.
Reopen ==
  /\ dead \/ waiting # <<>>
  /\ dead' = FALSE
  /\ txs' = txs \o waiting
  /\ waiting' = <<>>
  /\ UNCHANGED <<asked, last, gens, queue, active, events, faults, answer, load, loads>>

\* The database cannot be opened: the calls that waited fail, one after the other.
ReopenFails ==
  /\ waiting # <<>> /\ dead
  /\ Rejected(Head(waiting), txs, Tail(waiting))
  /\ UNCHANGED <<asked, last, gens, events, dead, faults, loads>>

\* The newest history a caller was told is stored.
Acked == {k \in 1..MaxOps : answer[k] = "true"}
Newest(S) == CHOOSE k \in S \cup {0} : \A j \in S : j <= k

\* sessionLoadHistory, while no other load runs.
Load ==
  /\ loads < MaxLoads /\ load.at \in {"none", "done", "failed"}
  /\ loads' = loads + 1
  /\ load' = [at |-> "generation", floor |-> Newest(Acked), gen |-> 0, got |-> NoHistory]
  /\ Issue(Call("load", "generation", 0, 1), txs, waiting)
  /\ UNCHANGED <<asked, last, gens, queue, active, events, dead, faults, answer>>

StoreNext ==
  \/ \E kind \in Kinds : Enqueue(kind)
  \/ Commit \/ Abort \/ InternalError \/ LoseConnection
  \/ HandleEvent \/ Reopen \/ ReopenFails
  \/ Load

StoreSpec == StoreInit /\ [][StoreNext]_vars

\* IndexedDB ends every transaction and delivers its events; open() ends.
FairStoreSpec ==
  /\ StoreSpec
  /\ WF_vars(Commit \/ Abort)
  /\ WF_vars(HandleEvent)
  /\ WF_vars(Reopen)
-----------------------------------------------------------------------------
\* The queue and the adapter implement the ordered store, as long as the
\* connection is not lost under an operation that went past the queue.
Implements == Promise!Spec

\* What a caller of save k was told is stored, is stored: the current history is that
\* save or a later one, or a later deletion removed it.  chat-state.ts drops the only
\* other copy of the chat after such an answer.
AckedIsStored ==
  \A k \in Acked :
    IF gens = <<>> THEN \E d \in k + 1..last : asked[d] = "delete"
                   ELSE gens[Len(gens)].op >= k

\* The two reads of a load never add up to a history older than one whose save had been
\* answered before the load began; no history at all needs a deletion asked since.
LoadIsFresh ==
  load.at = "done" =>
    IF load.got = NoHistory
    THEN load.floor > 0 => \E d \in load.floor + 1..Len(asked) : asked[d] = "delete"
    ELSE load.got.op >= load.floor

\* What the store answers holds, to saves and to loads.
AnswersHold == AckedIsStored /\ LoadIsFresh

\* Every caller of a save is answered, whatever fails and whatever the queue merges or
\* drops: again and again no save asked for so far is without its answer.
EverySaveAnswered ==
  []<>(\A k \in 1..Len(asked) : asked[k] = "save" => answer[k] # "none")
=============================================================================
