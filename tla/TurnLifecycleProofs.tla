------------------------- MODULE TurnLifecycleProofs -------------------------
(***************************************************************************)
(* Proofs about TurnLifecycle, for any number of messages and chats and    *)
(* any bounds.  The invariants of a tab in which none of the races         *)
(* happened are one inductive invariant, Orderly; that no lease of the tab *)
(* is left behind holds with the races too.                                *)
(***************************************************************************)
EXTENDS TurnLifecycle, TLAPS, FiniteSetTheorems

Sends == {"sending", "asking", "reading"}
Turning == {"opening", "sendTurn", "closing", "queueTurn"}

\* What the queue holds waits there, once.
QueueOK ==
  /\ \A i \in 1..Len(queue) : at[queue[i]] = "queued"
  /\ \A i, j \in 1..Len(queue) : queue[i] = queue[j] => i = j

\* A handler that prepares has the slot, and no turn runs beside it, a rerun neither.
SlotOK ==
  /\ \A m, n \in Msgs : at[m] \in Turning /\ at[n] \in Turning => m = n
  /\ streaming <=> Rerunning \/ \E m \in Msgs : at[m] \in Turning
  /\ Rerunning => \A m \in Msgs : at[m] \notin Turning
  /\ \A m \in Msgs : at[m] \in Sends \cup {"begun"} => owner = m
  /\ Preparing => ~streaming

\* A text is in the composer of the chat it was written in.
BoxOK == \A c \in Chats : box[c] # Nothing => home[box[c]] = c /\ at[box[c]] # "unwritten"

\* A send is prepared for the chat its text was written in; one that reloads it has lost.
PrepOK == \A m \in Msgs : at[m] \in Sends =>
            prepChat = home[m] /\ (at[m] = "reading" => lost)

\* A turn that opens is in the open chat.
OpenOK == \A m \in Msgs : at[m] = "opening" => runsIn[m] = active

\* The lease a turn runs under, from the moment its message is taken out.
LeaseOK ==
  /\ \A m \in Msgs : at[m] \in {"begun", "queueTurn"} => held[m] = runsIn[m]
  /\ \A m \in Msgs : at[m] \in Turning \cup {"begun"} =>
       runsIn[m] = home[m] /\ runsIn[m] \in Chats /\ lease[runsIn[m]] = "us"

\* As long as no call was lost, somebody will look at the queue.
ServedOK ==
  ~missed /\ queue # <<>> =>
    streaming \/ TurnPreparing \/ timers > 0 \/ \E c \in Chats : polls[c] > 0

Order == SlotOK /\ BoxOK /\ PrepOK /\ OpenOK /\ LeaseOK /\ ServedOK
Orderly == races = {} => Order
-----------------------------------------------------------------------------
\* A send that has to ask the holder of the lease.
Asks(m) ==
  /\ at[m] = "sending"
  /\ at' = [at EXCEPT ![m] = "asking"]
  /\ UNCHANGED <<composer, lease, slot, streaming, leaseIds, waiting, held, runsIn, rerun, history>>

\* What a send has before it goes on: its leases are those it had and that of the open chat.
Takes(m, taken, ids) ==
  /\ at[m] \in Sends
  /\ taken \in [Chats -> {"none", "us", "other", "dead"}]
  /\ ids \subseteq Chats /\ leaseIds \subseteq ids
  /\ \A c \in Chats : /\ lease[c] = "us" => taken[c] = "us"
                     /\ taken[c] = "us" => lease[c] = "us" \/ c \in ids

\* Every step of a send that prepares is one of five.
LEMMA SendSteps ==
  ASSUME TypeOK, NEW m \in Msgs,
         SendFails(m) \/ SendReady(m) \/ SendAnswered(m) \/ SendReloaded(m)
  PROVE  /\ UNCHANGED spent
         /\ \/ Asks(m)
            \/ \E taken, ids :
                 /\ Takes(m, taken, ids)
                 /\ \/ GivesUp(m, taken, ids)
                    \/ Queues(m, taken, ids)
                    \/ /\ at[m] = "reading" \/ taken[active] = "us"
                       /\ Reads(m, taken, ids) \/ Opens(m, taken, ids)
<1> DEFINE got(f) == [f EXCEPT ![active] = "us"]
           ids == leaseIds \cup {active}
<1>1. CASE SendFails(m)
  <2>1. Takes(m, lease, leaseIds)
    BY <1>1 DEF TypeOK, Takes, Sends, SendFails
  <2>2. QED
    BY <1>1, <2>1 DEF SendFails
<1>2. CASE SendReady(m)
  <2>1. Takes(m, got(lease), ids) /\ got(lease)[active] = "us"
    BY <1>2 DEF TypeOK, Takes, Sends, SendReady
  <2>2. QED
    BY <1>2, <2>1 DEF SendReady, Goes, Asks
<1>3. CASE SendAnswered(m)
  <2> DEFINE asked == AfterAsking(prepChat)
  <2>1. asked \in [Chats -> {"none", "us", "other", "dead"}]
    BY DEF TypeOK, AfterAsking
  <2>2. Takes(m, asked, leaseIds)
    BY <1>3, <2>1 DEF TypeOK, Takes, Sends, SendAnswered, AfterAsking
  <2>3. Takes(m, got(asked), ids) /\ got(asked)[active] = "us"
    BY <1>3, <2>1 DEF TypeOK, Takes, Sends, SendAnswered, AfterAsking
  <2>4. QED
    BY <1>3, <2>2, <2>3 DEF SendAnswered, Goes
<1>4. CASE SendReloaded(m)
  <2>1. Takes(m, lease, leaseIds) /\ at[m] = "reading"
    BY <1>4 DEF TypeOK, Takes, Sends, SendReloaded
  <2>2. QED
    BY <1>4, <2>1 DEF SendReloaded
<1>5. QED
  BY <1>1, <1>2, <1>3, <1>4

Reruns == \/ RerunAsks \/ RerunDeclined \/ RerunRestores \/ RerunTurns \/ RerunEnds
          \/ Retry \/ RetryEnds

\* A rerun touches no message and no lease.  Without races it leaves agentStreaming as it is, or
\* its turn begins where none is, or ends and says whether somebody will look at the queue.
LEMMA RerunSteps ==
  ASSUME TypeOK, Reruns
  PROVE  /\ UNCHANGED <<composer, lease, slot, leaseIds, queue, polls, at, held, runsIn>>
         /\ races \subseteq races'
         /\ \/ UNCHANGED <<streaming, timers, missed>> /\ ~Rerunning /\ ~Rerunning'
            \/ /\ UNCHANGED <<timers, missed>> /\ streaming' /\ Rerunning'
               /\ races' = {} => Idle
            \/ Rerunning /\ ~Rerunning' /\ ~streaming' /\ (timers' > 0 \/ missed')
<1> USE DEF composer, slot, waiting, turns, history
<1>1. CASE RerunAsks \/ RerunDeclined \/ RerunRestores
  BY <1>1 DEF RerunAsks, RerunDeclined, RerunRestores, RerunGoesOn, Rerunning, NoRerun,
              RerunStates, TypeOK
<1>2. CASE RerunTurns
  BY <1>2 DEF RerunTurns, RerunGoesOn, Rerunning, RerunStates, TypeOK
<1>3. CASE Retry
  BY <1>3 DEF Retry, Rerunning
<1>4. CASE RerunEnds \/ RetryEnds
  BY <1>4 DEF RerunEnds, RetryEnds, Rerunning, NoRerun, TypeOK
<1>5. QED
  BY <1>1, <1>2, <1>3, <1>4 DEF Reruns
-----------------------------------------------------------------------------
(* Types.                                                                  *)

\* Queueing a text keeps the types.
LEMMA EnqueueType ==
  ASSUME TypeOK, NEW m \in Msgs, Enqueue(m)
  PROVE  /\ queue' \in Seq(Msgs) /\ at' \in [Msgs -> Stages]
         /\ box' \in [Chats -> Msgs \cup {Nothing}]
<1>1. queue' \in Seq(Msgs)
  BY DEF TypeOK, Enqueue
<1>2. QED
  BY <1>1 DEF TypeOK, Enqueue, Stages

\* Switching chats, stopping, the other tabs and the reruns stay within their bounds.
LEMMA SpentType ==
  ASSUME TypeOK
  PROVE  /\ spent.nav < MaxNav => [spent EXCEPT !.nav = @ + 1] \in Budget
         /\ spent.stop < MaxStops => [spent EXCEPT !.stop = @ + 1] \in Budget
         /\ spent.other < MaxOther => [spent EXCEPT !.other = @ + 1] \in Budget
         /\ spent.rerun < MaxReruns => [spent EXCEPT !.rerun = @ + 1] \in Budget
<1>1. MaxNav \in Nat /\ MaxStops \in Nat /\ MaxOther \in Nat /\ MaxReruns \in Nat
  BY TurnAssumption
<1>2. /\ spent.nav \in 0..MaxNav /\ spent.stop \in 0..MaxStops
      /\ spent.other \in 0..MaxOther /\ spent.rerun \in 0..MaxReruns
  BY DEF TypeOK, Budget
<1>3. /\ spent.nav < MaxNav => spent.nav + 1 \in 0..MaxNav
      /\ spent.stop < MaxStops => spent.stop + 1 \in 0..MaxStops
      /\ spent.other < MaxOther => spent.other + 1 \in 0..MaxOther
      /\ spent.rerun < MaxReruns => spent.rerun + 1 \in 0..MaxReruns
  BY <1>1, <1>2
<1>4. QED
  BY <1>3 DEF TypeOK, Budget

\* Freeing the slot leaves it well typed.
LEMMA SlotFreedType ==
  ASSUME TypeOK, NEW m \in Msgs, SlotFreedFrom(m)
  PROVE  owner' \in Msgs \cup {Nothing} /\ prepChat' \in Chats \cup {Nothing}
         /\ lost' \in BOOLEAN
BY DEF TypeOK, SlotFreedFrom

\* So does giving back what a send has taken.
LEMMA UnwindType ==
  ASSUME TypeOK, NEW m \in Msgs, NEW taken \in [Chats -> {"none", "us", "other", "dead"}],
         NEW ids, Unwind(m, taken, ids)
  PROVE  /\ lease' \in [Chats -> {"none", "us", "other", "dead"}] /\ leaseIds' \subseteq Chats
         /\ owner' \in Msgs \cup {Nothing} /\ prepChat' \in Chats \cup {Nothing}
         /\ lost' \in BOOLEAN
BY SlotFreedType DEF TypeOK, Unwind

\* And taking a message out of the queue.
LEMMA DequeueType ==
  ASSUME TypeOK, NEW c \in Chats, Dequeue(c)
  PROVE  /\ queue' \in Seq(Msgs) /\ at' \in [Msgs -> Stages]
         /\ held' \in [Msgs -> Chats \cup {Nothing}] /\ runsIn' \in [Msgs -> Chats \cup {Nothing}]
         /\ lease' \in [Chats -> {"none", "us", "other", "dead"}]
         /\ owner' \in Msgs \cup {Nothing} /\ prepChat' \in Chats \cup {Nothing}
         /\ lost' \in BOOLEAN
<1>1. queue # <<>> /\ Head(queue) \in Msgs /\ Tail(queue) \in Seq(Msgs)
  BY DEF TypeOK, Dequeue
<1>2. lost' \in BOOLEAN
  BY DEF TypeOK, Dequeue
<1>3. owner' \in Msgs \cup {Nothing} /\ prepChat' \in Chats \cup {Nothing}
  BY <1>1 DEF TypeOK, Dequeue
<1>4. QED
  BY <1>1, <1>2, <1>3 DEF TypeOK, Dequeue, Stages

\* Every variable stays in its type.
THEOREM TypeCorrect == Spec => []TypeOK
<1> USE TurnAssumption
<1>1. Init => TypeOK
  <2> SUFFICES ASSUME Init PROVE TypeOK
    OBVIOUS
  <2>1. spent \in Budget
    <3>1. 0 \in 0..MaxNav /\ 0 \in 0..MaxStops /\ 0 \in 0..MaxOther /\ 0 \in 0..MaxReruns
      OBVIOUS
    <3>2. QED
      BY <3>1 DEF Init, Budget
  <2>2. lease \in [Chats -> {"none", "us", "other", "dead"}]
    BY DEF Init
  <2>3. queue \in Seq(Msgs) /\ polls \in [Chats -> Nat] /\ at \in [Msgs -> Stages]
    BY DEF Init, Stages
  <2>4. QED
    BY <2>1, <2>2, <2>3 DEF Init, TypeOK, RerunStates, NoRerun
<1>2. TypeOK /\ [Next]_vars => TypeOK'
  <2> SUFFICES ASSUME TypeOK, [Next]_vars PROVE TypeOK'
    OBVIOUS
  <2> USE DEF composer, slot, waiting, turns, history
  <2>1. CASE LoadEnds
    BY <2>1 DEF LoadEnds, TypeOK
  <2>2. CASE ReloadElsewhere
    BY <2>2 DEF ReloadElsewhere, BeginLoad, TypeOK
  <2>3. CASE Stop
    <3>1. races' \subseteq Races /\ lost' \in BOOLEAN
      BY <2>3 DEF Stop, TypeOK, Races
    <3>2. spent' \in Budget
      BY <2>3, SpentType DEF Stop
    <3>3. QED
      BY <2>3, <3>1, <3>2 DEF Stop, TypeOK
  <2>4. CASE PollIdle
    <3>1. timers' \in Nat /\ missed' \in BOOLEAN
      BY <2>4 DEF PollIdle, TypeOK
    <3>2. QED
      BY <2>4, <3>1 DEF PollIdle, TypeOK
  <2>5. CASE PollAsks
    <3>1. timers' \in Nat /\ polls' \in [Chats -> Nat]
      BY <2>5 DEF PollAsks, TypeOK
    <3>2. QED
      BY <2>5, <3>1 DEF PollAsks, TypeOK
  <2>6. CASE PollDequeues
    <3>1. Dequeue(active) /\ active \in Chats
      BY <2>6 DEF PollDequeues, TypeOK
    <3>2. timers' \in Nat
      BY <2>6 DEF PollDequeues, TypeOK
    <3>3. /\ queue' \in Seq(Msgs) /\ at' \in [Msgs -> Stages]
          /\ held' \in [Msgs -> Chats \cup {Nothing}]
          /\ runsIn' \in [Msgs -> Chats \cup {Nothing}]
          /\ lease' \in [Chats -> {"none", "us", "other", "dead"}]
          /\ owner' \in Msgs \cup {Nothing} /\ prepChat' \in Chats \cup {Nothing}
          /\ lost' \in BOOLEAN
      BY <3>1, DequeueType
    <3>4. QED
      BY <2>6, <3>1, <3>2, <3>3 DEF PollDequeues, Dequeue, TypeOK
  <2>7. ASSUME NEW m \in Msgs, Write(m) PROVE TypeOK'
    BY <2>7 DEF Write, TypeOK, Stages
  <2>8. ASSUME NEW m \in Msgs, SendQueues(m) PROVE TypeOK'
    BY <2>8, EnqueueType DEF SendQueues, TypeOK
  <2>9. ASSUME NEW m \in Msgs, SendBegins(m) PROVE TypeOK'
    BY <2>9 DEF SendBegins, TypeOK, Stages
  <2>10. ASSUME NEW m \in Msgs,
                SendFails(m) \/ SendReady(m) \/ SendAnswered(m) \/ SendReloaded(m)
         PROVE  TypeOK'
    <3>1. CASE UNCHANGED spent /\ Asks(m)
      BY <3>1 DEF Asks, TypeOK, Stages
    <3>2. ASSUME UNCHANGED spent, NEW taken, NEW ids, Takes(m, taken, ids),
                 GivesUp(m, taken, ids)
          PROVE  TypeOK'
      BY <3>2, UnwindType DEF Takes, GivesUp, TypeOK, Stages
    <3>3. ASSUME UNCHANGED spent, NEW taken, NEW ids, Takes(m, taken, ids),
                 Queues(m, taken, ids)
          PROVE  TypeOK'
      BY <3>3, UnwindType, EnqueueType DEF Takes, Queues, TypeOK
    <3>4. ASSUME UNCHANGED spent, NEW taken, NEW ids, Takes(m, taken, ids),
                 Reads(m, taken, ids)
          PROVE  TypeOK'
      BY <3>4 DEF Takes, Reads, BeginLoad, TypeOK, Stages
    <3>5. ASSUME UNCHANGED spent, NEW taken, NEW ids, Takes(m, taken, ids),
                 Opens(m, taken, ids)
          PROVE  TypeOK'
      BY <3>5, SlotFreedType DEF Takes, Opens, TypeOK, Stages
    <3>6. QED
      BY <2>10, <3>1, <3>2, <3>3, <3>4, <3>5, SendSteps
  <2>11. ASSUME NEW m \in Msgs, TurnOpens(m) PROVE TypeOK'
    BY <2>11 DEF TurnOpens, TypeOK, Stages
  <2>12. ASSUME NEW m \in Msgs, OpeningFails(m) PROVE TypeOK'
    <3>1. lease \in [Chats -> {"none", "us", "other", "dead"}] /\ Unwind(m, lease, leaseIds)
      BY <2>12 DEF OpeningFails, TypeOK
    <3>2. QED
      BY <2>12, <3>1, UnwindType DEF OpeningFails, TypeOK, Stages
  <2>13. ASSUME NEW m \in Msgs, SendTurnEnds(m) PROVE TypeOK'
    BY <2>13 DEF SendTurnEnds, TypeOK, Stages
  <2>14. ASSUME NEW m \in Msgs, SendCloses(m) PROVE TypeOK'
    <3>1. lease \in [Chats -> {"none", "us", "other", "dead"}] /\ Unwind(m, lease, leaseIds)
      BY <2>14 DEF SendCloses, TypeOK
    <3>2. timers' \in Nat /\ at' \in [Msgs -> Stages]
      BY <2>14 DEF SendCloses, TypeOK, Stages
    <3>3. QED
      BY <2>14, <3>1, <3>2, UnwindType DEF SendCloses, TypeOK
  <2>15. ASSUME NEW m \in Msgs, QueueTurnDropped(m) PROVE TypeOK'
    <3>1. timers' \in Nat /\ at' \in [Msgs -> Stages]
      BY <2>15 DEF QueueTurnDropped, TypeOK, Stages
    <3>2. lease' \in [Chats -> {"none", "us", "other", "dead"}]
      BY <2>15 DEF QueueTurnDropped, TypeOK
    <3>3. QED
      BY <2>15, <3>1, <3>2, SlotFreedType DEF QueueTurnDropped, TypeOK
  <2>15a. ASSUME NEW m \in Msgs, QueueTurnFails(m) PROVE TypeOK'
    <3>1. at' \in [Msgs -> Stages] /\ lease' \in [Chats -> {"none", "us", "other", "dead"}]
      BY <2>15a DEF QueueTurnFails, TypeOK, Stages
    <3>2. QED
      BY <2>15a, <3>1, SlotFreedType DEF QueueTurnFails, TypeOK
  <2>16. ASSUME NEW m \in Msgs, QueueTurnStarts(m) PROVE TypeOK'
    BY <2>16, SlotFreedType DEF QueueTurnStarts, TypeOK, Stages
  <2>17. ASSUME NEW m \in Msgs, QueueTurnEnds(m) PROVE TypeOK'
    <3>1. timers' \in Nat /\ at' \in [Msgs -> Stages]
      BY <2>17 DEF QueueTurnEnds, TypeOK, Stages
    <3>2. lease' \in [Chats -> {"none", "us", "other", "dead"}]
      BY <2>17 DEF QueueTurnEnds, TypeOK
    <3>3. QED
      BY <2>17, <3>1, <3>2 DEF QueueTurnEnds, TypeOK
  <2>18. ASSUME NEW c \in Chats, SwitchChat(c) PROVE TypeOK'
    BY <2>18, SpentType DEF SwitchChat, BeginLoad, TypeOK
  <2>19. ASSUME NEW c \in Chats, PollAnswered(c) PROVE TypeOK'
    <3>1. polls' \in [Chats -> Nat] /\ UNCHANGED missed
      BY <2>19 DEF PollAnswered, TypeOK
    <3>2. CASE /\ timers' = timers + 1
               /\ UNCHANGED <<composer, lease, slot, streaming, leaseIds, queue, turns, spent,
                              races>>
      <4>1. timers' \in Nat
        BY <3>2 DEF TypeOK
      <4>2. QED
        BY <3>1, <3>2, <4>1 DEF TypeOK
    <3>3. CASE Dequeue(c) /\ races' = races \cup {r \in {"overtaken"} : ~MayDequeue(c)}
               /\ UNCHANGED timers
      BY <3>1, <3>3, DequeueType DEF Dequeue, TypeOK, Races
    <3>4. CASE /\ lease' = [lease EXCEPT ![c] = "none"]
               /\ UNCHANGED <<composer, slot, streaming, leaseIds, queue, turns, spent>>
               /\ races' = races \cup {r \in {"overtaken"} : ~MayDequeue(c)}
               /\ UNCHANGED timers
      BY <3>1, <3>4 DEF TypeOK, Races
    <3>5. QED
      BY <2>19, <3>2, <3>3, <3>4 DEF PollAnswered
  <2>20. ASSUME NEW c \in Chats, OtherTakes(c) PROVE TypeOK'
    BY <2>20, SpentType DEF OtherTakes, TypeOK
  <2>21. ASSUME NEW c \in Chats, OtherEnds(c) PROVE TypeOK'
    BY <2>21 DEF OtherEnds, TypeOK
  <2>22. ASSUME NEW c \in Chats, RecordExpires(c) PROVE TypeOK'
    BY <2>22 DEF RecordExpires, TypeOK
  <2>23. CASE UNCHANGED vars
    BY <2>23 DEF vars, TypeOK
  <2>24. CASE Reruns
    <3>1. spent' \in Budget
      BY <2>24, SpentType DEF Reruns, RerunAsks, RerunDeclined, RerunRestores, RerunTurns, RerunGoesOn,
                              RerunEnds, Retry, RetryEnds, TypeOK
    <3>2. rerun' \in RerunStates
      <4>1. CASE RerunAsks \/ Retry
        BY <4>1 DEF RerunAsks, Retry, RerunStates, TypeOK
      <4>2. CASE RerunDeclined \/ RerunEnds \/ RetryEnds
        BY <4>2 DEF RerunDeclined, RerunEnds, RetryEnds, NoRerun, RerunStates
      <4>3. CASE RerunRestores \/ RerunTurns
        BY <4>3 DEF RerunRestores, RerunTurns, RerunGoesOn, RerunStates, TypeOK
      <4>4. QED
        BY <2>24, <4>1, <4>2, <4>3 DEF Reruns
    <3>3. races' \subseteq Races
      BY <2>24 DEF Reruns, RerunAsks, RerunDeclined, RerunRestores, RerunTurns, RerunGoesOn,
                   RerunEnds, Retry, RetryEnds, TypeOK, Races
    <3>4. timers' \in Nat
      BY <2>24 DEF Reruns, RerunAsks, RerunDeclined, RerunRestores, RerunTurns, RerunGoesOn,
                   RerunEnds, Retry, RetryEnds, TypeOK
    <3>5. streaming' \in BOOLEAN /\ missed' \in BOOLEAN
      BY <2>24 DEF Reruns, RerunAsks, RerunDeclined, RerunRestores, RerunTurns, RerunGoesOn,
                   RerunEnds, Retry, RetryEnds, TypeOK
    <3>6. QED
      BY <2>24, <3>1, <3>2, <3>3, <3>4, <3>5, RerunSteps DEF TypeOK
  <2>25. QED
    BY <2>1, <2>2, <2>3, <2>4, <2>5, <2>6, <2>7, <2>8, <2>9, <2>10, <2>11, <2>12, <2>13,
       <2>14, <2>15, <2>15a, <2>16, <2>17, <2>18, <2>19, <2>20, <2>21, <2>22, <2>23, <2>24
       DEF Next, Reruns
<1>3. QED
  BY <1>1, <1>2, PTL DEF Spec
-----------------------------------------------------------------------------
(* The queue.                                                              *)

\* A text that joins the queue was not in it.
LEMMA EnqueueKeepsQueue ==
  ASSUME TypeOK, QueueOK, NEW m \in Msgs, at[m] # "queued", Enqueue(m)
  PROVE  QueueOK'
<1>1. /\ Len(queue') = Len(queue) + 1
      /\ \A i \in 1..Len(queue) : queue'[i] = queue[i] /\ queue[i] \in Msgs
      /\ queue'[Len(queue) + 1] = m
  BY DEF TypeOK, Enqueue
<1>2. \A n \in Msgs : at'[n] = IF n = m THEN "queued" ELSE at[n]
  BY DEF TypeOK, Enqueue
<1>3. \A i \in 1..Len(queue) : queue[i] # m
  BY DEF QueueOK
<1>4. \A i \in 1..Len(queue') : i \in 1..Len(queue) \/ i = Len(queue) + 1
  BY <1>1 DEF TypeOK
<1>5. \A i \in 1..Len(queue') : at'[queue'[i]] = "queued"
  BY <1>1, <1>2, <1>4 DEF QueueOK
<1>6. \A i, j \in 1..Len(queue') : queue'[i] = queue'[j] => i = j
  BY <1>1, <1>3, <1>4 DEF QueueOK
<1>7. QED
  BY <1>5, <1>6 DEF QueueOK

\* The text that leaves it waited there, and does not any more.
LEMMA DequeueKeepsQueue ==
  ASSUME TypeOK, QueueOK, NEW c \in Chats, Dequeue(c)
  PROVE  /\ QueueOK'
         /\ Head(queue) \in Msgs /\ at[Head(queue)] = "queued"
<1>1. /\ queue # <<>> /\ Len(queue) >= 1 /\ Head(queue) = queue[1] /\ Head(queue) \in Msgs
      /\ Len(queue') = Len(queue) - 1
      /\ \A i \in 1..Len(queue') :
           /\ queue'[i] = queue[i + 1] /\ i + 1 \in 1..Len(queue) /\ i + 1 # 1
           /\ queue[i + 1] \in Msgs
  BY DEF TypeOK, Dequeue
<1>2. 1 \in 1..Len(queue)
  BY <1>1 DEF TypeOK
<1>3. at[Head(queue)] = "queued"
  BY <1>1, <1>2 DEF QueueOK
<1>4. \A n \in Msgs : at'[n] = IF n = Head(queue) THEN "begun" ELSE at[n]
  BY <1>1 DEF TypeOK, Dequeue
<1>5. \A i \in 1..Len(queue') : queue'[i] # Head(queue)
  BY <1>1, <1>2 DEF QueueOK
<1>6. \A i \in 1..Len(queue') : at'[queue'[i]] = "queued"
  BY <1>1, <1>4, <1>5 DEF QueueOK
<1>7. \A i, j \in 1..Len(queue') : queue'[i] = queue'[j] => i = j
  <2>1. ASSUME NEW i \in 1..Len(queue'), NEW j \in 1..Len(queue'), queue'[i] = queue'[j]
        PROVE  i = j
    <3>1. queue[i + 1] = queue[j + 1] /\ i + 1 \in 1..Len(queue) /\ j + 1 \in 1..Len(queue)
      BY <1>1, <2>1
    <3>2. i + 1 = j + 1
      BY <3>1 DEF QueueOK
    <3>3. QED
      BY <3>2
  <2>2. QED
    BY <2>1
<1>8. QED
  BY <1>1, <1>3, <1>6, <1>7 DEF QueueOK

\* No other step touches a message that is queued.
LEMMA MoveKeepsQueue ==
  ASSUME TypeOK, QueueOK, UNCHANGED queue, NEW m \in Msgs, at[m] # "queued",
         \E s : at' = [at EXCEPT ![m] = s]
  PROVE  QueueOK'
<1>1. \A i \in 1..Len(queue) : queue[i] \in Msgs /\ queue[i] # m
  BY DEF TypeOK, QueueOK
<1>2. \A n \in Msgs : n # m => at'[n] = at[n]
  BY DEF TypeOK
<1>3. QED
  BY <1>1, <1>2 DEF QueueOK

\* Whatever the races, the queue holds the messages that wait in it, each once.
LEMMA QueueStep == TypeOK /\ QueueOK /\ [Next]_vars => QueueOK'
<1> SUFFICES ASSUME TypeOK, QueueOK, [Next]_vars PROVE QueueOK'
  OBVIOUS
<1> USE DEF composer, slot, waiting, turns, history
<1>1. CASE UNCHANGED <<queue, at>>
  BY <1>1 DEF QueueOK
<1>2. CASE LoadEnds \/ ReloadElsewhere \/ Stop \/ PollIdle \/ PollAsks \/ UNCHANGED vars
  BY <1>1, <1>2 DEF LoadEnds, ReloadElsewhere, Stop, PollIdle, PollAsks, vars
<1>3. CASE PollDequeues
  BY <1>3, DequeueKeepsQueue DEF PollDequeues, TypeOK
<1>4. ASSUME NEW m \in Msgs, SendQueues(m) PROVE QueueOK'
  BY <1>4, EnqueueKeepsQueue DEF SendQueues
<1>5. ASSUME NEW m \in Msgs,
             SendFails(m) \/ SendReady(m) \/ SendAnswered(m) \/ SendReloaded(m)
      PROVE  QueueOK'
  <2>1. CASE Asks(m)
    BY <2>1, MoveKeepsQueue DEF Asks
  <2>2. ASSUME NEW taken, NEW ids, Takes(m, taken, ids), Queues(m, taken, ids)
        PROVE  QueueOK'
    BY <2>2, EnqueueKeepsQueue DEF Takes, Sends, Queues
  <2>3. ASSUME NEW taken, NEW ids, Takes(m, taken, ids),
               GivesUp(m, taken, ids) \/ Reads(m, taken, ids) \/ Opens(m, taken, ids)
        PROVE  QueueOK'
    BY <2>3, MoveKeepsQueue DEF Takes, Sends, GivesUp, Reads, Opens
  <2>4. QED
    BY <1>5, <2>1, <2>2, <2>3, SendSteps
<1>6. ASSUME NEW m \in Msgs,
             \/ Write(m) \/ SendBegins(m) \/ TurnOpens(m) \/ OpeningFails(m)
             \/ SendTurnEnds(m) \/ SendCloses(m)
             \/ QueueTurnDropped(m) \/ QueueTurnFails(m) \/ QueueTurnStarts(m) \/ QueueTurnEnds(m)
      PROVE  QueueOK'
  <2>1. at[m] # "queued" /\ UNCHANGED queue /\ \E s : at' = [at EXCEPT ![m] = s]
    BY <1>6 DEF Write, SendBegins, TurnOpens, OpeningFails, SendTurnEnds, SendCloses,
                QueueTurnDropped, QueueTurnFails, QueueTurnStarts, QueueTurnEnds
  <2>2. QED
    BY <2>1, MoveKeepsQueue
<1>7. ASSUME NEW c \in Chats, PollAnswered(c) PROVE QueueOK'
  BY <1>1, <1>7, DequeueKeepsQueue DEF PollAnswered
<1>8. ASSUME NEW c \in Chats, SwitchChat(c) \/ OtherTakes(c) \/ OtherEnds(c) \/ RecordExpires(c)
      PROVE  QueueOK'
  BY <1>1, <1>8 DEF SwitchChat, OtherTakes, OtherEnds, RecordExpires
<1>9. CASE Reruns
  BY <1>1, <1>9, RerunSteps
<1>10. QED
  BY <1>2, <1>3, <1>4, <1>5, <1>6, <1>7, <1>8, <1>9 DEF Next, Reruns
-----------------------------------------------------------------------------
(* Leases.                                                                 *)

Senders == {"asking", "reading", "opening", "sendTurn", "closing"}

\* What is left of the leases after a send has ended is what dequeued messages use.
LEMMA UnwindLeavesUsed ==
  ASSUME TypeOK, LeaseIsInUse, NEW m \in Msgs, at[m] \notin {"begun", "queueTurn"},
         NEW taken \in [Chats -> {"none", "us", "other", "dead"}], NEW ids,
         leaseIds \subseteq ids, UNCHANGED held,
         \A c \in Chats : taken[c] = "us" => lease[c] = "us" \/ c \in ids,
         Unwind(m, taken, ids), \E s : at' = [at EXCEPT ![m] = s]
  PROVE  LeaseIsInUse'
<1> SUFFICES ASSUME NEW c \in Chats, lease'[c] = "us"
             PROVE  \E n \in Msgs : held'[n] = c /\ at'[n] \in {"begun", "queueTurn"}
  BY DEF LeaseIsInUse
<1>1. c \notin ids /\ taken[c] = "us"
  BY DEF Unwind
<1>2. PICK n \in Msgs : held[n] = c /\ at[n] \in {"begun", "queueTurn"}
  BY <1>1 DEF LeaseIsInUse
<1>3. n # m /\ at'[n] = at[n]
  BY <1>2 DEF TypeOK
<1>4. QED
  BY <1>2, <1>3

\* The message that is taken out runs under the lease that is taken for it.
LEMMA DequeueUsesLease ==
  ASSUME TypeOK, QueueOK, LeaseIsInUse, NEW c \in Chats, Dequeue(c)
  PROVE  LeaseIsInUse'
<1> DEFINE m == Head(queue)
<1>1. m \in Msgs /\ at[m] = "queued"
  BY DequeueKeepsQueue
<1>2. /\ \A d \in Chats : d # c => lease'[d] = lease[d]
      /\ held'[m] = c /\ at'[m] = "begun"
      /\ \A n \in Msgs : n # m => held'[n] = held[n] /\ at'[n] = at[n]
      /\ UNCHANGED leaseIds
  BY <1>1 DEF Dequeue, TypeOK
<1> SUFFICES ASSUME NEW d \in Chats, lease'[d] = "us"
             PROVE  \/ d \in leaseIds' /\ \E n \in Msgs : at'[n] \in Senders
                    \/ \E n \in Msgs : held'[n] = d /\ at'[n] \in {"begun", "queueTurn"}
  BY DEF LeaseIsInUse, Senders
<1>3. CASE d = c
  BY <1>1, <1>2, <1>3
<1>4. CASE d # c
  <2>1. \/ d \in leaseIds /\ \E n \in Msgs : at[n] \in Senders
        \/ \E n \in Msgs : held[n] = d /\ at[n] \in {"begun", "queueTurn"}
    BY <1>2, <1>4 DEF LeaseIsInUse, Senders
  <2>2. ASSUME NEW n \in Msgs, at[n] \in Senders \cup {"begun", "queueTurn"}
        PROVE  held'[n] = held[n] /\ at'[n] = at[n]
    BY <1>1, <1>2, <2>2 DEF Senders
  <2>3. QED
    BY <1>2, <2>1, <2>2
<1>5. QED
  BY <1>3, <1>4

\* A message that goes on under its leases keeps them in use.
LEMMA MoveKeepsUse ==
  ASSUME TypeOK, LeaseIsInUse, UNCHANGED held, NEW m \in Msgs, NEW s,
         at' = [at EXCEPT ![m] = s],
         at[m] \in Senders => s \in Senders,
         at[m] \in {"begun", "queueTurn"} => s \in {"begun", "queueTurn"},
         leaseIds \subseteq leaseIds',
         \A c \in Chats : lease'[c] = "us" =>
           lease[c] = "us" \/ (c \in leaseIds' /\ s \in Senders)
  PROVE  LeaseIsInUse'
<1>1. at'[m] = s /\ \A n \in Msgs : n # m => at'[n] = at[n]
  BY DEF TypeOK
<1> SUFFICES ASSUME NEW c \in Chats, lease'[c] = "us"
             PROVE  \/ c \in leaseIds' /\ \E n \in Msgs : at'[n] \in Senders
                    \/ \E n \in Msgs : held'[n] = c /\ at'[n] \in {"begun", "queueTurn"}
  BY DEF LeaseIsInUse, Senders
<1>2. CASE c \in leaseIds' /\ s \in Senders
  BY <1>1, <1>2
<1>3. CASE lease[c] = "us"
  <2>1. \/ c \in leaseIds /\ \E n \in Msgs : at[n] \in Senders
        \/ \E n \in Msgs : held[n] = c /\ at[n] \in {"begun", "queueTurn"}
    BY <1>3 DEF LeaseIsInUse, Senders
  <2>2. CASE c \in leaseIds /\ \E n \in Msgs : at[n] \in Senders
    BY <1>1, <2>2
  <2>3. CASE \E n \in Msgs : held[n] = c /\ at[n] \in {"begun", "queueTurn"}
    BY <1>1, <2>3
  <2>4. QED
    BY <2>1, <2>2, <2>3
<1>4. QED
  BY <1>2, <1>3

\* A dequeued message that ends gives back the lease it ran under.
LEMMA EndGivesBack ==
  ASSUME TypeOK, LeaseIsInUse, UNCHANGED <<held, leaseIds>>, NEW m \in Msgs,
         at[m] \in {"begun", "queueTurn"}, \E s : at' = [at EXCEPT ![m] = s],
         lease' = [lease EXCEPT ![held[m]] = IF @ = "us" THEN "none" ELSE @]
  PROVE  LeaseIsInUse'
<1>1. \A n \in Msgs : n # m => at'[n] = at[n]
  BY DEF TypeOK
<1> SUFFICES ASSUME NEW c \in Chats, lease'[c] = "us"
             PROVE  \/ c \in leaseIds /\ \E n \in Msgs : at'[n] \in Senders
                    \/ \E n \in Msgs : held[n] = c /\ at'[n] \in {"begun", "queueTurn"}
  BY DEF LeaseIsInUse, Senders
<1>2. c # held[m] /\ lease[c] = "us"
  BY DEF TypeOK
<1>3. \/ c \in leaseIds /\ \E n \in Msgs : at[n] \in Senders
      \/ \E n \in Msgs : held[n] = c /\ at[n] \in {"begun", "queueTurn"}
  BY <1>2 DEF LeaseIsInUse, Senders
<1>4. \A n \in Msgs : at[n] \in Senders => n # m
  BY DEF Senders
<1>5. QED
  BY <1>1, <1>2, <1>3, <1>4

\* Whatever the races, a lease of this tab is one that a running handler will give back.
LEMMA LeaseStep == TypeOK /\ QueueOK /\ LeaseIsInUse /\ [Next]_vars => LeaseIsInUse'
<1> SUFFICES ASSUME TypeOK, QueueOK, LeaseIsInUse, [Next]_vars PROVE LeaseIsInUse'
  OBVIOUS
<1> USE DEF composer, slot, waiting, turns, history
<1>1. CASE /\ UNCHANGED <<leaseIds, at, held>>
           /\ \A c \in Chats : lease'[c] = "us" => lease[c] = "us"
  BY <1>1 DEF LeaseIsInUse
<1>2. CASE LoadEnds \/ ReloadElsewhere \/ Stop \/ PollIdle \/ PollAsks \/ UNCHANGED vars
  BY <1>1, <1>2 DEF LoadEnds, ReloadElsewhere, Stop, PollIdle, PollAsks, vars
<1>3. CASE PollDequeues
  BY <1>3, DequeueUsesLease DEF PollDequeues, TypeOK
<1>4. ASSUME NEW m \in Msgs, Write(m) \/ SendQueues(m) \/ SendBegins(m) PROVE LeaseIsInUse'
  <2>1. /\ UNCHANGED <<lease, leaseIds, held>>
        /\ at[m] \notin Senders \cup {"begun", "queueTurn"}
        /\ \E s : at' = [at EXCEPT ![m] = s]
    BY <1>4 DEF Write, SendQueues, Enqueue, SendBegins, Senders
  <2>2. QED
    BY <2>1, MoveKeepsUse
<1>5. ASSUME NEW m \in Msgs,
             SendFails(m) \/ SendReady(m) \/ SendAnswered(m) \/ SendReloaded(m)
      PROVE  LeaseIsInUse'
  <2>1. CASE Asks(m)
    <3>1. at' = [at EXCEPT ![m] = "asking"] /\ "asking" \in Senders
      BY <2>1 DEF Asks, Senders
    <3>2. QED
      BY <2>1, <3>1, MoveKeepsUse DEF Asks
  <2>2. ASSUME NEW taken, NEW ids, Takes(m, taken, ids),
               GivesUp(m, taken, ids) \/ Queues(m, taken, ids)
        PROVE  LeaseIsInUse'
    <3>1. Unwind(m, taken, ids) /\ UNCHANGED held /\ \E s : at' = [at EXCEPT ![m] = s]
      BY <2>2 DEF GivesUp, Queues, Enqueue
    <3>2. QED
      BY <2>2, <3>1, UnwindLeavesUsed DEF Takes, Sends
  <2>3. ASSUME NEW taken, NEW ids, Takes(m, taken, ids), NEW s \in {"reading", "opening"},
               at' = [at EXCEPT ![m] = s], UNCHANGED held, lease' = taken, leaseIds' = ids
        PROVE  LeaseIsInUse'
    <3>1. s \in Senders /\ at[m] \notin {"begun", "queueTurn"}
      BY <2>3 DEF Senders, Takes, Sends
    <3>2. QED
      BY <2>3, <3>1, MoveKeepsUse DEF Takes
  <2>4. ASSUME NEW taken, NEW ids, Takes(m, taken, ids), Reads(m, taken, ids)
        PROVE  LeaseIsInUse'
    BY <2>3, <2>4 DEF Reads
  <2>5. ASSUME NEW taken, NEW ids, Takes(m, taken, ids), Opens(m, taken, ids)
        PROVE  LeaseIsInUse'
    BY <2>3, <2>5 DEF Opens
  <2>6. QED
    BY <1>5, <2>1, <2>2, <2>4, <2>5, SendSteps
<1>6. ASSUME NEW m \in Msgs, TurnOpens(m) \/ SendTurnEnds(m) PROVE LeaseIsInUse'
  <2>1. \E s \in Senders : at' = [at EXCEPT ![m] = s]
    BY <1>6 DEF TurnOpens, SendTurnEnds, Senders
  <2>2. UNCHANGED <<lease, leaseIds, held>> /\ at[m] \notin {"begun", "queueTurn"}
    BY <1>6 DEF TurnOpens, SendTurnEnds
  <2>3. QED
    BY <2>1, <2>2, MoveKeepsUse
<1>7. ASSUME NEW m \in Msgs, OpeningFails(m) \/ SendCloses(m) PROVE LeaseIsInUse'
  <2>1. /\ Unwind(m, lease, leaseIds) /\ UNCHANGED held /\ at[m] \notin {"begun", "queueTurn"}
        /\ \E s : at' = [at EXCEPT ![m] = s]
    BY <1>7 DEF OpeningFails, SendCloses
  <2>2. lease \in [Chats -> {"none", "us", "other", "dead"}]
    BY DEF TypeOK
  <2>3. QED
    BY <2>1, <2>2, UnwindLeavesUsed
<1>8. ASSUME NEW m \in Msgs, QueueTurnDropped(m) \/ QueueTurnFails(m) \/ QueueTurnEnds(m)
      PROVE  LeaseIsInUse'
  BY <1>8, EndGivesBack DEF QueueTurnDropped, QueueTurnFails, QueueTurnEnds
<1>9. ASSUME NEW m \in Msgs, QueueTurnStarts(m) PROVE LeaseIsInUse'
  <2>1. at' = [at EXCEPT ![m] = "queueTurn"] /\ at[m] \notin Senders
    BY <1>9 DEF QueueTurnStarts, Senders
  <2>2. QED
    BY <1>9, <2>1, MoveKeepsUse DEF QueueTurnStarts
<1>10. ASSUME NEW c \in Chats, PollAnswered(c) PROVE LeaseIsInUse'
  <2>1. CASE UNCHANGED <<lease, leaseIds, at, held>>
    BY <1>1, <2>1
  <2>2. CASE Dequeue(c)
    BY <2>2, DequeueUsesLease
  <2>3. CASE lease' = [lease EXCEPT ![c] = "none"] /\ UNCHANGED <<leaseIds, at, held>>
    BY <1>1, <2>3 DEF TypeOK
  <2>4. QED
    BY <1>10, <2>1, <2>2, <2>3 DEF PollAnswered
<1>11. ASSUME NEW c \in Chats, SwitchChat(c) \/ OtherTakes(c) \/ OtherEnds(c) \/ RecordExpires(c)
       PROVE  LeaseIsInUse'
  BY <1>1, <1>11 DEF SwitchChat, OtherTakes, OtherEnds, RecordExpires, TypeOK
<1>12. CASE Reruns
  BY <1>1, <1>12, RerunSteps
<1>13. QED
  BY <1>2, <1>3, <1>4, <1>5, <1>6, <1>7, <1>8, <1>9, <1>10, <1>11, <1>12 DEF Next, Reruns

\* No handler ends and leaves a lease of its chat behind, whatever the races: a chat stays
\* locked for the other tabs only while a handler of this tab runs that will give it back.
THEOREM NoLeaseLeftBehind == Spec => []LeaseIsInUse
<1>1. Init => QueueOK /\ LeaseIsInUse
  BY DEF Init, QueueOK, LeaseIsInUse
<1>2. QED
  BY <1>1, TypeCorrect, QueueStep, LeaseStep, PTL DEF Spec
-----------------------------------------------------------------------------
(* A tab without races.                                                    *)

\* A handler that prepares is alone, and so is a turn.
LEMMA Alone ==
  ASSUME TypeOK, SlotOK, NEW m \in Msgs
  PROVE  /\ at[m] \in Sends \cup {"begun"} =>
              /\ owner = m /\ Preparing /\ ~streaming /\ ~Rerunning
              /\ \A n \in Msgs : /\ at[n] \notin Turning
                                 /\ n # m => at[n] \notin Sends \cup {"begun"}
         /\ at[m] \in Turning =>
              /\ streaming /\ ~Preparing /\ ~Rerunning
              /\ \A n \in Msgs : /\ at[n] \notin Sends \cup {"begun"}
                                 /\ n # m => at[n] \notin Turning
<1>1. \A n \in Msgs : at[n] \in Sends \cup {"begun"} => owner = n /\ Preparing /\ ~streaming
  BY TurnAssumption DEF SlotOK, Preparing
<1>2. \A n \in Msgs : at[n] \in Turning => streaming
  BY DEF SlotOK
<1>3. streaming => ~Preparing
  BY DEF SlotOK
<1>4. ASSUME at[m] \in Sends \cup {"begun"}
      PROVE  /\ owner = m /\ Preparing /\ ~streaming /\ ~Rerunning
             /\ \A n \in Msgs : /\ at[n] \notin Turning
                                /\ n # m => at[n] \notin Sends \cup {"begun"}
  BY <1>1, <1>2, <1>4 DEF SlotOK
<1>5. ASSUME at[m] \in Turning
      PROVE  /\ streaming /\ ~Preparing /\ ~Rerunning
             /\ \A n \in Msgs : /\ at[n] \notin Sends \cup {"begun"}
                                /\ n # m => at[n] \notin Turning
  BY <1>1, <1>2, <1>3, <1>5 DEF SlotOK
<1>6. QED
  BY <1>4, <1>5

\* Without races, what a call of _processQueue does is to try again later, or to take out
\* the message it asked about.
LEMMA PollSteps ==
  ASSUME TypeOK, races' = {}, PollDequeues \/ \E c \in Chats : PollAnswered(c)
  PROVE  /\ UNCHANGED <<races, missed>>
         /\ \/ /\ timers' = timers + 1
               /\ UNCHANGED <<composer, lease, slot, streaming, leaseIds, queue, turns, spent>>
            \/ \E c \in Chats : Dequeue(c) /\ MayDequeue(c)
<1>1. CASE PollDequeues
  BY <1>1 DEF PollDequeues, TypeOK, history
<1>2. ASSUME NEW c \in Chats, PollAnswered(c)
      PROVE  /\ UNCHANGED <<races, missed>>
             /\ \/ /\ timers' = timers + 1
                   /\ UNCHANGED <<composer, lease, slot, streaming, leaseIds, queue, turns, spent>>
                \/ Dequeue(c) /\ MayDequeue(c)
  <2>1. CASE lease[c] = "other"
    BY <1>2, <2>1 DEF PollAnswered
  <2>2. CASE lease[c] # "other"
    <3>1. races' = races \cup {r \in {"overtaken"} : ~MayDequeue(c)} /\ UNCHANGED missed
      BY <1>2, <2>2 DEF PollAnswered
    <3>2. races = {} /\ MayDequeue(c)
      BY <3>1
    <3>3. Dequeue(c) \/ queue = <<>>
      BY <1>2, <2>2 DEF PollAnswered
    <3>4. Dequeue(c)
      BY <3>2, <3>3 DEF MayDequeue
    <3>5. QED
      BY <3>1, <3>2, <3>4
  <2>3. QED
    BY <2>1, <2>2
<1>3. QED
  BY <1>1, <1>2

\* The message that is taken out has the slot, in the chat it was written in.
LEMMA DequeueTakesSlot ==
  ASSUME TypeOK, QueueOK, NEW c \in Chats, Dequeue(c), MayDequeue(c)
  PROVE  \E m \in Msgs :
           /\ at[m] = "queued" /\ at' = [at EXCEPT ![m] = "begun"]
           /\ ~streaming /\ ~Preparing /\ owner' = m /\ active = c /\ home[m] = c
           /\ held' = [held EXCEPT ![m] = c] /\ runsIn' = [runsIn EXCEPT ![m] = c]
           /\ lease' = [lease EXCEPT ![c] = "us"]
           /\ UNCHANGED <<composer, streaming, leaseIds, rerun>>
<1> DEFINE m == Head(queue)
<1>1. m \in Msgs /\ at[m] = "queued"
  BY DequeueKeepsQueue
<1>2. QED
  BY <1>1 DEF Dequeue, MayDequeue

\* The turn of a send ends: it was the only one, and nothing prepares beside it.
LEMMA TurnLeavesSlot ==
  ASSUME TypeOK, SlotOK, NEW m \in Msgs, at[m] \in Turning,
         NEW s, s \notin Turning \cup Sends \cup {"begun"}, at' = [at EXCEPT ![m] = s],
         streaming' = FALSE, owner' \in {owner, Nothing}, UNCHANGED rerun
  PROVE  SlotOK'
<1>1. /\ ~Preparing /\ ~Rerunning
      /\ \A n \in Msgs : /\ at[n] \notin Sends \cup {"begun"}
                         /\ n # m => at[n] \notin Turning
  BY Alone
<1>2. at'[m] = s /\ \A n \in Msgs : n # m => at'[n] = at[n]
  BY DEF TypeOK
<1>3. \A n \in Msgs : at'[n] \notin Turning /\ at'[n] \notin Sends \cup {"begun"}
  BY <1>1, <1>2
<1>4. ~Rerunning'
  BY <1>1 DEF Rerunning
<1>5. QED
  BY <1>3, <1>4 DEF SlotOK

\* The handler that has the slot leaves it, and gives up or starts its turn.
LEMMA SlotGoesOn ==
  ASSUME TypeOK, SlotOK, NEW m \in Msgs, at[m] \in Sends \cup {"begun"},
         NEW s, s \notin Sends \cup {"begun"}, at' = [at EXCEPT ![m] = s],
         streaming' <=> s \in Turning, owner' = Nothing, UNCHANGED rerun
  PROVE  SlotOK'
<1>1. /\ ~Rerunning
      /\ \A n \in Msgs : at[n] \notin Turning /\ (n # m => at[n] \notin Sends \cup {"begun"})
  BY Alone
<1>2. at'[m] = s /\ \A n \in Msgs : n # m => at'[n] = at[n]
  BY DEF TypeOK
<1>3. \A n \in Msgs : /\ at'[n] \notin Sends \cup {"begun"}
                      /\ at'[n] \in Turning => n = m
  BY <1>1, <1>2
<1>4. streaming' <=> \E n \in Msgs : at'[n] \in Turning
  BY <1>2, <1>3
<1>5. ~Preparing' /\ ~Rerunning'
  BY <1>1 DEF Preparing, Rerunning
<1>6. QED
  BY <1>3, <1>4, <1>5 DEF SlotOK

\* A handler takes the free slot.
LEMMA SlotIsTaken ==
  ASSUME TypeOK, SlotOK, NEW m \in Msgs, at[m] \notin Turning, ~Preparing, ~streaming,
         NEW s \in Sends \cup {"begun"}, at' = [at EXCEPT ![m] = s],
         UNCHANGED <<streaming, rerun>>, owner' = m
  PROVE  SlotOK'
<1>1. \A n \in Msgs : at[n] \notin Sends \cup {"begun"} /\ at[n] \notin Turning
  BY Alone
<1>2. at'[m] = s /\ \A n \in Msgs : n # m => at'[n] = at[n]
  BY DEF TypeOK
<1>3. s \notin Turning
  BY DEF Turning, Sends
<1>4. \A n \in Msgs : /\ at'[n] \notin Turning
                      /\ at'[n] \in Sends \cup {"begun"} => owner' = n
  BY <1>1, <1>2, <1>3
<1>5. ~Rerunning'
  BY DEF SlotOK, Rerunning
<1>6. QED
  BY <1>4, <1>5 DEF SlotOK

\* A message moves on in the place it has.
LEMMA SlotIsKept ==
  ASSUME TypeOK, SlotOK, NEW m \in Msgs, NEW s, at' = [at EXCEPT ![m] = s],
         s \in Turning <=> at[m] \in Turning,
         s \in Sends \cup {"begun"} => at[m] \in Sends \cup {"begun"},
         UNCHANGED <<streaming, owner, rerun>>
  PROVE  SlotOK'
<1>1. at'[m] = s /\ \A n \in Msgs : n # m => at'[n] = at[n]
  BY DEF TypeOK
<1>2. \A n \in Msgs : /\ at'[n] \in Turning <=> at[n] \in Turning
                      /\ at'[n] \in Sends \cup {"begun"} => at[n] \in Sends \cup {"begun"}
  BY <1>1
<1>3. QED
  BY <1>2 DEF SlotOK, Preparing, Rerunning

\* One handler has the slot and nothing streams meanwhile, or one turn streams.
LEMMA SlotStep ==
  ASSUME TypeOK, QueueOK, Order, [Next]_vars, races' = {}
  PROVE  SlotOK'
<1> USE DEF composer, slot, waiting, turns, history
<1>s. SlotOK
  BY DEF Order
<1>1. CASE UNCHANGED <<at, owner, streaming, rerun>>
  BY <1>1, <1>s DEF SlotOK, Preparing, Rerunning
<1>2. CASE LoadEnds \/ ReloadElsewhere \/ PollIdle \/ PollAsks \/ UNCHANGED vars
  BY <1>1, <1>2 DEF LoadEnds, ReloadElsewhere, PollIdle, PollAsks, vars
<1>3. CASE Stop
  <2>1. ~streaming
    BY <1>3 DEF Stop
  <2>2. QED
    BY <1>1, <1>3, <2>1 DEF Stop, TypeOK
<1>4. CASE PollDequeues \/ \E c \in Chats : PollAnswered(c)
  <2>1. CASE \E c \in Chats : Dequeue(c) /\ MayDequeue(c)
    <3>1. PICK m \in Msgs : /\ at[m] = "queued" /\ at' = [at EXCEPT ![m] = "begun"]
                            /\ ~streaming /\ ~Preparing /\ owner' = m
                            /\ UNCHANGED <<streaming, rerun>>
      BY <2>1, DequeueTakesSlot
    <3>2. QED
      BY <3>1, <1>s, SlotIsTaken DEF Turning
  <2>2. QED
    BY <1>1, <1>4, <2>1, PollSteps
<1>5. ASSUME NEW m \in Msgs, Write(m) \/ SendQueues(m) PROVE SlotOK'
  <2>1. PICK s \in {"box", "queued"} : at' = [at EXCEPT ![m] = s]
    BY <1>5 DEF Write, SendQueues, Enqueue
  <2>2. at[m] \notin Turning /\ UNCHANGED <<streaming, owner, rerun>>
    BY <1>5 DEF Write, SendQueues, Turning
  <2>3. s \notin Turning \cup Sends \cup {"begun"}
    BY DEF Turning, Sends
  <2>4. QED
    BY <2>1, <2>2, <2>3, <1>s, SlotIsKept
<1>6. ASSUME NEW m \in Msgs, SendBegins(m) PROVE SlotOK'
  <2>1. "sending" \in Sends /\ at[m] \notin Turning
    BY <1>6 DEF SendBegins, Sends, Turning
  <2>2. QED
    BY <1>6, <2>1, <1>s, SlotIsTaken DEF SendBegins
<1>7. ASSUME NEW m \in Msgs,
             SendFails(m) \/ SendReady(m) \/ SendAnswered(m) \/ SendReloaded(m)
      PROVE  SlotOK'
  <2>1. ASSUME at[m] \in Sends, NEW s \in {"asking", "reading"}, at' = [at EXCEPT ![m] = s],
               UNCHANGED <<streaming, owner, rerun>>
        PROVE  SlotOK'
    BY <2>1, <1>s, SlotIsKept DEF Sends, Turning
  <2>2. ASSUME NEW taken, NEW ids, Takes(m, taken, ids),
               GivesUp(m, taken, ids) \/ Opens(m, taken, ids)
        PROVE  SlotOK'
    <3>1. at[m] \in Sends \cup {"begun"} /\ owner = m /\ ~streaming
      BY <2>2, <1>s, Alone DEF Takes
    <3>2. PICK s \in {"box", "opening"} :
            at' = [at EXCEPT ![m] = s] /\ (streaming' <=> s = "opening")
      <4>1. CASE GivesUp(m, taken, ids)
        BY <3>1, <4>1 DEF GivesUp
      <4>2. CASE Opens(m, taken, ids)
        BY <4>2 DEF Opens
      <4>3. QED
        BY <2>2, <4>1, <4>2
    <3>3. owner' = Nothing /\ UNCHANGED rerun
      BY <2>2, <3>1 DEF GivesUp, Opens, Unwind, SlotFreedFrom
    <3>4. s \notin Sends \cup {"begun"} /\ (s \in Turning <=> s = "opening")
      BY DEF Sends, Turning
    <3>5. QED
      BY <3>1, <3>2, <3>3, <3>4, <1>s, SlotGoesOn
  <2>3. ASSUME NEW taken, NEW ids, Takes(m, taken, ids), Queues(m, taken, ids)
        PROVE  SlotOK'
    BY <2>3, <1>s, Alone DEF Takes, Queues
  <2>4. Asks(m) => SlotOK'
    BY <2>1 DEF Asks, Sends
  <2>5. ASSUME NEW taken, NEW ids, Takes(m, taken, ids), Reads(m, taken, ids)
        PROVE  SlotOK'
    BY <2>1, <2>5 DEF Takes, Reads
  <2>6. QED
    BY <1>7, <2>2, <2>3, <2>4, <2>5, SendSteps
<1>8. ASSUME NEW m \in Msgs, TurnOpens(m) \/ SendTurnEnds(m) PROVE SlotOK'
  <2>1. PICK s \in {"sendTurn", "closing"} : at' = [at EXCEPT ![m] = s]
    BY <1>8 DEF TurnOpens, SendTurnEnds
  <2>2. at[m] \in Turning /\ s \in Turning /\ s \notin Sends \cup {"begun"}
    BY <1>8 DEF TurnOpens, SendTurnEnds, Turning, Sends
  <2>3. QED
    BY <1>8, <2>1, <2>2, <1>s, SlotIsKept DEF TurnOpens, SendTurnEnds
<1>9. ASSUME NEW m \in Msgs, OpeningFails(m) \/ SendCloses(m) \/ QueueTurnEnds(m)
      PROVE  SlotOK'
  <2>1. PICK s \in {"done", "dropped"} : at' = [at EXCEPT ![m] = s]
    BY <1>9 DEF OpeningFails, SendCloses, QueueTurnEnds
  <2>2. at[m] \in Turning /\ s \notin Turning \cup Sends \cup {"begun"}
    BY <1>9 DEF OpeningFails, SendCloses, QueueTurnEnds, Turning, Sends
  <2>3. streaming' = FALSE /\ owner' \in {owner, Nothing} /\ UNCHANGED rerun
    BY <1>9 DEF OpeningFails, SendCloses, QueueTurnEnds, Unwind, SlotFreedFrom
  <2>4. QED
    BY <2>1, <2>2, <2>3, <1>s, TurnLeavesSlot
<1>10. ASSUME NEW m \in Msgs, QueueTurnDropped(m) \/ QueueTurnFails(m) \/ QueueTurnStarts(m)
       PROVE  SlotOK'
  <2>1. at[m] \in Sends \cup {"begun"} /\ owner = m /\ ~streaming
    BY <1>10, <1>s, Alone DEF QueueTurnDropped, QueueTurnFails, QueueTurnStarts
  <2>2. PICK s \in {"dropped", "queueTurn"} :
          at' = [at EXCEPT ![m] = s] /\ (streaming' <=> s = "queueTurn")
    <3>1. CASE QueueTurnDropped(m) \/ QueueTurnFails(m)
      BY <2>1, <3>1 DEF QueueTurnDropped, QueueTurnFails
    <3>2. CASE QueueTurnStarts(m)
      BY <3>2 DEF QueueTurnStarts
    <3>3. QED
      BY <1>10, <3>1, <3>2
  <2>3. owner' = Nothing /\ UNCHANGED rerun
    BY <1>10, <2>1 DEF QueueTurnDropped, QueueTurnFails, QueueTurnStarts, SlotFreedFrom
  <2>4. s \notin Sends \cup {"begun"} /\ (s \in Turning <=> s = "queueTurn")
    BY DEF Sends, Turning
  <2>5. QED
    BY <2>1, <2>2, <2>3, <2>4, <1>s, SlotGoesOn
<1>11. ASSUME NEW c \in Chats, SwitchChat(c) \/ OtherTakes(c) \/ OtherEnds(c) \/ RecordExpires(c)
       PROVE  SlotOK'
  BY <1>1, <1>11 DEF SwitchChat, OtherTakes, OtherEnds, RecordExpires
<1>12. CASE Reruns
  <2>1. UNCHANGED <<at, owner>> /\ (Preparing' <=> Preparing)
    BY <1>12, RerunSteps DEF Preparing
  <2>2. CASE UNCHANGED streaming /\ ~Rerunning /\ ~Rerunning'
    BY <1>s, <2>1, <2>2 DEF SlotOK
  <2>3. CASE streaming' /\ Rerunning' /\ Idle
    BY <1>s, <2>1, <2>3 DEF SlotOK, Idle
  <2>4. CASE Rerunning /\ ~Rerunning' /\ ~streaming'
    BY <1>s, <2>1, <2>4 DEF SlotOK
  <2>5. QED
    BY <1>12, <2>2, <2>3, <2>4, RerunSteps
<1>13. QED
  BY <1>2, <1>3, <1>4, <1>5, <1>6, <1>7, <1>8, <1>9, <1>10, <1>11, <1>12 DEF Next, Reruns
-----------------------------------------------------------------------------
\* A text stays in its box, or is taken out of it.
LEMMA BoxStays ==
  ASSUME TypeOK, BoxOK, UNCHANGED home, \A c \in Chats : box'[c] \in {box[c], Nothing},
         \A n \in Msgs : at'[n] \in {at[n]} \cup (Stages \ {"unwritten"})
  PROVE  BoxOK'
BY DEF TypeOK, BoxOK

\* So does one whose handler moves on.
LEMMA MoveKeepsBox ==
  ASSUME TypeOK, BoxOK, UNCHANGED home, \A c \in Chats : box'[c] \in {box[c], Nothing},
         NEW m \in Msgs, NEW s \in Stages, s # "unwritten", at' = [at EXCEPT ![m] = s]
  PROVE  BoxOK'
<1>1. \A n \in Msgs : at'[n] \in {at[n]} \cup (Stages \ {"unwritten"})
  BY DEF TypeOK
<1>2. QED
  BY <1>1, BoxStays

\* Every text is in the composer of the chat it was written in, until it is taken out.
LEMMA BoxStep ==
  ASSUME TypeOK, QueueOK, Order, [Next]_vars, races' = {}
  PROVE  BoxOK'
<1> USE DEF composer, slot, waiting, turns, history
<1>b. BoxOK /\ SlotOK
  BY DEF Order
<1>1. CASE UNCHANGED <<at, home, box>>
  BY <1>1, <1>b DEF BoxOK
<1>2. CASE LoadEnds \/ ReloadElsewhere \/ Stop \/ PollIdle \/ PollAsks \/ UNCHANGED vars
  BY <1>1, <1>2 DEF LoadEnds, ReloadElsewhere, Stop, PollIdle, PollAsks, vars
<1>3. CASE PollDequeues \/ \E c \in Chats : PollAnswered(c)
  <2>1. CASE \E c \in Chats : Dequeue(c) /\ MayDequeue(c)
    <3>1. PICK m \in Msgs : at' = [at EXCEPT ![m] = "begun"] /\ UNCHANGED <<home, box>>
      BY <2>1, DequeueTakesSlot
    <3>2. QED
      BY <3>1, <1>b, MoveKeepsBox DEF Stages
  <2>2. QED
    BY <1>1, <1>3, <2>1, PollSteps
<1>4. ASSUME NEW m \in Msgs, Write(m) PROVE BoxOK'
  <2>1. /\ active \in Chats /\ at[m] = "unwritten"
        /\ at'[m] = "box" /\ home'[m] = active /\ box'[active] = m
        /\ \A c \in Chats : c # active => box'[c] = box[c]
        /\ \A n \in Msgs : n # m => at'[n] = at[n] /\ home'[n] = home[n]
    BY <1>4 DEF Write, TypeOK
  <2>2. ASSUME NEW c \in Chats, box'[c] # Nothing
        PROVE  home'[box'[c]] = c /\ at'[box'[c]] # "unwritten"
    <3>1. CASE c = active
      BY <2>1, <3>1
    <3>2. CASE c # active
      <4>1. box'[c] = box[c] /\ box[c] \in Msgs /\ at[box[c]] # "unwritten" /\ home[box[c]] = c
        BY <2>1, <2>2, <3>2, <1>b DEF BoxOK, TypeOK
      <4>2. QED
        BY <2>1, <4>1
    <3>3. QED
      BY <3>1, <3>2
  <2>3. QED
    BY <2>2 DEF BoxOK
<1>5. ASSUME NEW m \in Msgs, SendQueues(m) PROVE BoxOK'
  <2>1. \A c \in Chats : box'[c] \in {box[c], Nothing}
    BY <1>5 DEF SendQueues, Enqueue, TypeOK
  <2>2. QED
    BY <1>5, <2>1, <1>b, MoveKeepsBox DEF SendQueues, Enqueue, Stages
<1>6. ASSUME NEW m \in Msgs,
             SendFails(m) \/ SendReady(m) \/ SendAnswered(m) \/ SendReloaded(m)
      PROVE  BoxOK'
  <2>1. ASSUME NEW taken, NEW ids, GivesUp(m, taken, ids) \/ Reads(m, taken, ids)
        PROVE  BoxOK'
    <3>1. PICK s \in {"box", "reading"} : at' = [at EXCEPT ![m] = s]
      BY <2>1 DEF GivesUp, Reads
    <3>2. UNCHANGED <<box, home>> /\ s \in Stages /\ s # "unwritten"
      BY <2>1 DEF GivesUp, Reads, Stages
    <3>3. QED
      BY <3>1, <3>2, <1>b, MoveKeepsBox
  <2>2. ASSUME NEW taken, NEW ids, Queues(m, taken, ids) \/ Opens(m, taken, ids)
        PROVE  BoxOK'
    <3>1. PICK s \in {"queued", "opening"} : at' = [at EXCEPT ![m] = s]
      BY <2>2 DEF Queues, Enqueue, Opens
    <3>2. UNCHANGED home /\ s \in Stages /\ s # "unwritten"
      BY <2>2 DEF Queues, Opens, Stages
    <3>3. \A c \in Chats : box'[c] \in {box[c], Nothing}
      BY <2>2 DEF Queues, Enqueue, Opens, TypeOK
    <3>4. QED
      BY <3>1, <3>2, <3>3, <1>b, MoveKeepsBox
  <2>3. Asks(m) => BoxOK'
    BY <1>b, MoveKeepsBox DEF Asks, Stages
  <2>4. QED
    BY <1>6, <2>1, <2>2, <2>3, SendSteps
<1>7. ASSUME NEW m \in Msgs,
             \/ SendBegins(m) \/ TurnOpens(m) \/ OpeningFails(m)
             \/ SendTurnEnds(m) \/ SendCloses(m)
             \/ QueueTurnDropped(m) \/ QueueTurnFails(m) \/ QueueTurnStarts(m) \/ QueueTurnEnds(m)
      PROVE  BoxOK'
  <2>1. UNCHANGED <<box, home>> /\ \E s \in Stages \ {"unwritten"} : at' = [at EXCEPT ![m] = s]
    BY <1>7 DEF SendBegins, TurnOpens, OpeningFails, SendTurnEnds, SendCloses, QueueTurnDropped,
                QueueTurnFails, QueueTurnStarts, QueueTurnEnds, Stages
  <2>2. QED
    BY <2>1, <1>b, MoveKeepsBox
<1>8. ASSUME NEW c \in Chats, SwitchChat(c) \/ OtherTakes(c) \/ OtherEnds(c) \/ RecordExpires(c)
      PROVE  BoxOK'
  BY <1>1, <1>8 DEF SwitchChat, OtherTakes, OtherEnds, RecordExpires
<1>9. CASE Reruns
  BY <1>1, <1>9, RerunSteps
<1>10. QED
  BY <1>2, <1>3, <1>4, <1>5, <1>6, <1>7, <1>8, <1>9 DEF Next, Reruns

\* A preparation that goes on is for the chat it was for, and one that lost has lost.
LEMMA PrepStays ==
  ASSUME PrepOK, UNCHANGED prepChat, lost => lost',
         \A n \in Msgs : at'[n] \in Sends => at'[n] = at[n] /\ home'[n] = home[n]
  PROVE  PrepOK'
BY DEF PrepOK

\* When the handler that has the slot, or a turn, moves on to another stage, nobody sends.
LEMMA NobodySends ==
  ASSUME TypeOK, SlotOK, NEW m \in Msgs, at[m] \in Sends \cup {"begun"} \cup Turning \/ ~Preparing,
         NEW s, s \notin Sends, at' = [at EXCEPT ![m] = s]
  PROVE  PrepOK'
<1>1. \A n \in Msgs : n # m => at[n] \notin Sends
  BY Alone
<1>2. at'[m] = s /\ \A n \in Msgs : n # m => at'[n] = at[n]
  BY DEF TypeOK
<1>3. QED
  BY <1>1, <1>2 DEF PrepOK

\* A send is prepared for the chat its text was written in, and a reload ends it.
LEMMA PrepStep ==
  ASSUME TypeOK, QueueOK, Order, [Next]_vars, races' = {}
  PROVE  PrepOK'
<1> USE DEF composer, slot, waiting, turns, history
<1>p. PrepOK /\ SlotOK /\ BoxOK
  BY DEF Order
<1>1. CASE UNCHANGED <<at, home, prepChat>> /\ (lost => lost')
  BY <1>1, <1>p DEF PrepOK
<1>2. CASE LoadEnds \/ ReloadElsewhere \/ Stop \/ PollIdle \/ PollAsks \/ UNCHANGED vars
  <2>1. CASE LoadEnds \/ PollIdle \/ PollAsks \/ UNCHANGED vars
    BY <1>1, <2>1 DEF LoadEnds, PollIdle, PollAsks, vars
  <2>2. CASE ReloadElsewhere
    BY <1>1, <2>2 DEF ReloadElsewhere, BeginLoad
  <2>3. CASE Stop
    BY <1>1, <2>3 DEF Stop
  <2>4. QED
    BY <1>2, <2>1, <2>2, <2>3
<1>3. CASE PollDequeues \/ \E c \in Chats : PollAnswered(c)
  <2>1. CASE \E c \in Chats : Dequeue(c) /\ MayDequeue(c)
    <3>1. PICK m \in Msgs : at' = [at EXCEPT ![m] = "begun"] /\ ~Preparing
      BY <2>1, DequeueTakesSlot
    <3>2. QED
      BY <3>1, <1>p, NobodySends DEF Sends
  <2>2. QED
    BY <1>1, <1>3, <2>1, PollSteps
<1>4. ASSUME NEW m \in Msgs, Write(m) \/ SendQueues(m) PROVE PrepOK'
  <2>1. PICK s \in {"box", "queued"} : at' = [at EXCEPT ![m] = s]
    BY <1>4 DEF Write, SendQueues, Enqueue
  <2>2. \A n \in Msgs : at'[n] \in Sends => at'[n] = at[n] /\ home'[n] = home[n]
    BY <1>4, <2>1 DEF Write, SendQueues, TypeOK, Sends
  <2>3. QED
    BY <1>4, <2>2, <1>p, PrepStays DEF Write, SendQueues
<1>5. ASSUME NEW m \in Msgs, SendBegins(m) PROVE PrepOK'
  <2>1. ~Preparing /\ at'[m] = "sending" /\ \A n \in Msgs : n # m => at'[n] = at[n]
    BY <1>5 DEF SendBegins, TypeOK
  <2>2. \A n \in Msgs : n # m => at'[n] \notin Sends
    BY <2>1, <1>p, Alone
  <2>3. active \in Chats /\ box[active] = m /\ m # Nothing
    BY <1>5, TurnAssumption DEF SendBegins, TypeOK
  <2>4. home[m] = active
    BY <2>3, <1>p DEF BoxOK
  <2>5. prepChat' = active /\ UNCHANGED home
    BY <1>5 DEF SendBegins
  <2>6. QED
    BY <2>1, <2>2, <2>4, <2>5 DEF PrepOK
<1>6. ASSUME NEW m \in Msgs,
             SendFails(m) \/ SendReady(m) \/ SendAnswered(m) \/ SendReloaded(m)
      PROVE  PrepOK'
  <2>1. ASSUME NEW taken, NEW ids, Takes(m, taken, ids),
               GivesUp(m, taken, ids) \/ Queues(m, taken, ids) \/ Opens(m, taken, ids)
        PROVE  PrepOK'
    <3>1. \E s \in {"box", "queued", "opening"} : at' = [at EXCEPT ![m] = s]
      BY <2>1 DEF GivesUp, Queues, Enqueue, Opens
    <3>2. QED
      BY <2>1, <3>1, <1>p, NobodySends DEF Takes, Sends
  <2>2. ASSUME at[m] \in Sends, UNCHANGED <<prepChat, home>>, lost => lost',
               NEW s, at' = [at EXCEPT ![m] = s], s = "reading" => lost'
        PROVE  PrepOK'
    <3>1. prepChat = home[m] /\ \A n \in Msgs : n # m => at[n] \notin Sends
      BY <2>2, <1>p, Alone DEF PrepOK
    <3>2. at'[m] = s /\ \A n \in Msgs : n # m => at'[n] = at[n]
      BY <2>2 DEF TypeOK
    <3>3. QED
      BY <2>2, <3>1, <3>2 DEF PrepOK
  <2>3. CASE Asks(m)
    <3>1. at[m] \in Sends /\ UNCHANGED <<prepChat, home>> /\ (lost => lost')
      BY <2>3 DEF Asks, Sends
    <3>2. at' = [at EXCEPT ![m] = "asking"] /\ "asking" # "reading"
      BY <2>3 DEF Asks
    <3>3. QED
      BY <2>2, <3>1, <3>2
  <2>4. ASSUME NEW taken, NEW ids, Takes(m, taken, ids), Reads(m, taken, ids)
        PROVE  PrepOK'
    <3>1. at[m] \in Sends /\ owner = m /\ Preparing
      BY <2>4, <1>p, Alone DEF Takes
    <3>2. ~TurnPreparing
      BY <3>1 DEF TurnPreparing, Sends
    <3>3. lost'
      BY <2>4, <3>1, <3>2 DEF Reads, BeginLoad
    <3>4. QED
      BY <2>2, <2>4, <3>1, <3>3 DEF Reads
  <2>5. QED
    BY <1>6, <2>1, <2>3, <2>4, SendSteps
<1>7. ASSUME NEW m \in Msgs,
             \/ TurnOpens(m) \/ OpeningFails(m) \/ SendTurnEnds(m) \/ SendCloses(m)
             \/ QueueTurnDropped(m) \/ QueueTurnFails(m) \/ QueueTurnStarts(m) \/ QueueTurnEnds(m)
      PROVE  PrepOK'
  <2>1. at[m] \in {"begun"} \cup Turning
    BY <1>7 DEF TurnOpens, OpeningFails, SendTurnEnds, SendCloses, QueueTurnDropped,
                QueueTurnFails, QueueTurnStarts, QueueTurnEnds, Turning
  <2>2. \E s : s \notin Sends /\ at' = [at EXCEPT ![m] = s]
    BY <1>7 DEF TurnOpens, OpeningFails, SendTurnEnds, SendCloses, QueueTurnDropped,
                QueueTurnFails, QueueTurnStarts, QueueTurnEnds, Sends
  <2>3. QED
    BY <2>1, <2>2, <1>p, NobodySends
<1>8. ASSUME NEW c \in Chats, SwitchChat(c) \/ OtherTakes(c) \/ OtherEnds(c) \/ RecordExpires(c)
      PROVE  PrepOK'
  BY <1>1, <1>8 DEF SwitchChat, BeginLoad, OtherTakes, OtherEnds, RecordExpires
<1>9. CASE Reruns
  BY <1>1, <1>9, RerunSteps
<1>10. QED
  BY <1>2, <1>3, <1>4, <1>5, <1>6, <1>7, <1>8, <1>9 DEF Next, Reruns
-----------------------------------------------------------------------------
\* The turn of a send that opens is the only one, and in the open chat.
LEMMA OpensAlone ==
  ASSUME TypeOK, Order, NEW m \in Msgs, NEW taken, NEW ids, Takes(m, taken, ids),
         at[m] = "reading" \/ taken[active] = "us", Opens(m, taken, ids)
  PROVE  /\ at' = [at EXCEPT ![m] = "opening"] /\ at'[m] = "opening"
         /\ \A n \in Msgs : n # m => at'[n] \notin Turning \cup {"begun"}
         /\ runsIn'[m] = active /\ active' = active /\ active \in Chats
         /\ home'[m] = active /\ lease'[active] = "us"
<1>1. ~lost /\ active = prepChat /\ at[m] \in Sends
  BY DEF Opens, Valid, Takes
<1>2. prepChat = home[m] /\ at[m] # "reading"
  BY <1>1 DEF Order, PrepOK
<1>3. \A n \in Msgs : n # m => at[n] \notin Turning \cup {"begun"}
  BY <1>1, Alone DEF Order
<1>4. QED
  BY <1>1, <1>2, <1>3 DEF Opens, TypeOK

\* A turn that opens is in the open chat: no chat is switched while one streams.
LEMMA OpenStep ==
  ASSUME TypeOK, QueueOK, Order, [Next]_vars, races' = {}
  PROVE  OpenOK'
<1> USE DEF composer, slot, waiting, turns, history
<1>o. OpenOK /\ SlotOK
  BY DEF Order
<1>1. CASE /\ UNCHANGED active
           /\ \A n \in Msgs : at'[n] = "opening" => at[n] = "opening" /\ runsIn'[n] = runsIn[n]
  BY <1>1, <1>o DEF OpenOK
<1>2. CASE \/ LoadEnds \/ ReloadElsewhere \/ Stop \/ PollIdle \/ PollAsks \/ UNCHANGED vars
           \/ \E c \in Chats : OtherTakes(c) \/ OtherEnds(c) \/ RecordExpires(c)
  <2>1. UNCHANGED <<active, at, runsIn>>
    BY <1>2 DEF LoadEnds, ReloadElsewhere, Stop, PollIdle, PollAsks, vars, OtherTakes, OtherEnds,
                RecordExpires
  <2>2. QED
    BY <1>1, <2>1
<1>3. CASE PollDequeues \/ \E c \in Chats : PollAnswered(c)
  <2>1. CASE \E c \in Chats : Dequeue(c) /\ MayDequeue(c)
    <3>1. PICK m \in Msgs : /\ at' = [at EXCEPT ![m] = "begun"] /\ UNCHANGED active
                            /\ \E c : runsIn' = [runsIn EXCEPT ![m] = c]
      BY <2>1, DequeueTakesSlot
    <3>2. QED
      BY <1>1, <3>1 DEF TypeOK
  <2>2. QED
    BY <1>1, <1>3, <2>1, PollSteps
<1>4. ASSUME NEW m \in Msgs,
             SendFails(m) \/ SendReady(m) \/ SendAnswered(m) \/ SendReloaded(m)
      PROVE  OpenOK'
  <2>1. CASE Asks(m)
    BY <1>1, <2>1 DEF Asks, TypeOK
  <2>2. ASSUME NEW taken, NEW ids, Takes(m, taken, ids),
               GivesUp(m, taken, ids) \/ Queues(m, taken, ids) \/ Reads(m, taken, ids)
        PROVE  OpenOK'
    BY <1>1, <2>2 DEF GivesUp, Queues, Enqueue, Reads, TypeOK
  <2>3. ASSUME NEW taken, NEW ids, Takes(m, taken, ids),
               at[m] = "reading" \/ taken[active] = "us", Opens(m, taken, ids)
        PROVE  OpenOK'
    BY <2>3, OpensAlone DEF OpenOK, Turning
  <2>4. QED
    BY <1>4, <2>1, <2>2, <2>3, SendSteps
<1>5. ASSUME NEW m \in Msgs,
             \/ Write(m) \/ SendQueues(m) \/ SendBegins(m) \/ OpeningFails(m) \/ TurnOpens(m)
             \/ SendTurnEnds(m) \/ SendCloses(m)
             \/ QueueTurnDropped(m) \/ QueueTurnFails(m) \/ QueueTurnStarts(m) \/ QueueTurnEnds(m)
      PROVE  OpenOK'
  <2>1. UNCHANGED active /\ \E s : s # "opening" /\ at' = [at EXCEPT ![m] = s]
    BY <1>5 DEF Write, SendQueues, Enqueue, SendBegins, OpeningFails, TurnOpens, SendTurnEnds,
                SendCloses, QueueTurnDropped, QueueTurnFails, QueueTurnStarts, QueueTurnEnds
  <2>2. runsIn' = runsIn \/ runsIn' = [runsIn EXCEPT ![m] = active]
    BY <1>5 DEF Write, SendQueues, SendBegins, OpeningFails, TurnOpens, SendTurnEnds,
                SendCloses, QueueTurnDropped, QueueTurnFails, QueueTurnStarts, QueueTurnEnds
  <2>3. QED
    BY <1>1, <2>1, <2>2 DEF TypeOK
<1>6. ASSUME NEW c \in Chats, SwitchChat(c) PROVE OpenOK'
  <2>1. ~streaming /\ UNCHANGED <<at, runsIn>>
    BY <1>6 DEF SwitchChat
  <2>2. \A n \in Msgs : at[n] # "opening"
    BY <2>1, <1>o, Alone DEF Turning
  <2>3. QED
    BY <2>1, <2>2 DEF OpenOK
<1>7. CASE Reruns
  BY <1>1, <1>7, RerunSteps
<1>8. QED
  BY <1>2, <1>3, <1>4, <1>5, <1>6, <1>7 DEF Next, Reruns

\* A turn that goes on keeps its chat and its lease.
LEMMA TurnStays ==
  ASSUME LeaseOK, \A c \in Chats : lease[c] = "us" => lease'[c] = "us",
         \A n \in Msgs : at'[n] \in Turning \cup {"begun"} =>
           /\ at[n] \in Turning \cup {"begun"}
           /\ at'[n] \in {"begun", "queueTurn"} => at[n] \in {"begun", "queueTurn"}
           /\ runsIn'[n] = runsIn[n] /\ home'[n] = home[n] /\ held'[n] = held[n]
  PROVE  LeaseOK'
BY DEF LeaseOK, Turning

\* When the handler that has the slot, or the turn, ends, no turn is left.
LEMMA NobodyTurns ==
  ASSUME TypeOK, SlotOK, NEW m \in Msgs, at[m] \in Sends \cup {"begun"} \cup Turning,
         NEW s, s \notin Turning \cup {"begun"}, at' = [at EXCEPT ![m] = s]
  PROVE  LeaseOK'
<1>1. \A n \in Msgs : n # m => at[n] \notin Turning \cup {"begun"}
  BY Alone
<1>2. at'[m] = s /\ \A n \in Msgs : n # m => at'[n] = at[n]
  BY DEF TypeOK
<1>3. \A n \in Msgs : at'[n] \notin Turning \cup {"begun"}
  BY <1>1, <1>2
<1>4. QED
  BY <1>3 DEF LeaseOK, Turning

\* A turn runs under the lease of the chat its message was written in.
LEMMA TurnStep ==
  ASSUME TypeOK, QueueOK, Order, [Next]_vars, races' = {}
  PROVE  LeaseOK'
<1> USE DEF composer, slot, waiting, turns, history
<1>o. LeaseOK /\ OpenOK /\ SlotOK
  BY DEF Order
<1>1. CASE UNCHANGED <<at, runsIn, home, held>> /\ \A c \in Chats : lease[c] = "us" => lease'[c] = "us"
  BY <1>1, <1>o, TurnStays
<1>2. CASE LoadEnds \/ ReloadElsewhere \/ Stop \/ PollIdle \/ PollAsks \/ UNCHANGED vars
  BY <1>1, <1>2 DEF LoadEnds, ReloadElsewhere, Stop, PollIdle, PollAsks, vars
<1>3. CASE PollDequeues \/ \E c \in Chats : PollAnswered(c)
  <2>1. CASE \E c \in Chats : Dequeue(c) /\ MayDequeue(c)
    <3>1. PICK c \in Chats, m \in Msgs :
            /\ at' = [at EXCEPT ![m] = "begun"] /\ at[m] = "queued" /\ ~streaming /\ ~Preparing
            /\ home[m] = c /\ held' = [held EXCEPT ![m] = c] /\ runsIn' = [runsIn EXCEPT ![m] = c]
            /\ lease' = [lease EXCEPT ![c] = "us"] /\ UNCHANGED home
      BY <2>1, DequeueTakesSlot
    <3>2. \A n \in Msgs : n # m => at'[n] = at[n] /\ at[n] \notin Turning \cup {"begun"}
      BY <3>1, <1>o, Alone DEF TypeOK
    <3>3. held'[m] = c /\ runsIn'[m] = c /\ lease'[c] = "us" /\ home'[m] = c
      BY <3>1 DEF TypeOK
    <3>4. QED
      BY <3>2, <3>3 DEF LeaseOK, Turning
  <2>2. QED
    BY <1>1, <1>3, <2>1, PollSteps
<1>4. ASSUME NEW m \in Msgs, Write(m) \/ SendQueues(m) \/ SendBegins(m) PROVE LeaseOK'
  <2>1. PICK s \in {"box", "queued", "sending"} : at' = [at EXCEPT ![m] = s]
    BY <1>4 DEF Write, SendQueues, Enqueue, SendBegins
  <2>2. \A n \in Msgs : at'[n] \in Turning \cup {"begun"} => n # m /\ at'[n] = at[n]
    BY <2>1 DEF TypeOK, Turning
  <2>3. UNCHANGED <<lease, held, runsIn>> /\ \A n \in Msgs : n # m => home'[n] = home[n]
    BY <1>4 DEF Write, SendQueues, SendBegins, TypeOK
  <2>4. QED
    BY <2>2, <2>3, <1>o, TurnStays
<1>5. ASSUME NEW m \in Msgs,
             SendFails(m) \/ SendReady(m) \/ SendAnswered(m) \/ SendReloaded(m)
      PROVE  LeaseOK'
  <2>1. ASSUME at[m] \in Sends, NEW s \in {"asking", "reading", "box", "queued"},
               at' = [at EXCEPT ![m] = s]
        PROVE  LeaseOK'
    BY <2>1, <1>o, NobodyTurns DEF Turning
  <2>2. CASE Asks(m)
    BY <2>1, <2>2 DEF Asks, Sends
  <2>3. ASSUME NEW taken, NEW ids, Takes(m, taken, ids),
               GivesUp(m, taken, ids) \/ Queues(m, taken, ids) \/ Reads(m, taken, ids)
        PROVE  LeaseOK'
    BY <2>1, <2>3 DEF Takes, GivesUp, Queues, Enqueue, Reads
  <2>4. ASSUME NEW taken, NEW ids, Takes(m, taken, ids),
               at[m] = "reading" \/ taken[active] = "us", Opens(m, taken, ids)
        PROVE  LeaseOK'
    BY <2>4, OpensAlone DEF LeaseOK, Turning
  <2>5. QED
    BY <1>5, <2>2, <2>3, <2>4, SendSteps
<1>6. ASSUME NEW m \in Msgs, TurnOpens(m) \/ SendTurnEnds(m) \/ QueueTurnStarts(m)
      PROVE  LeaseOK'
  <2>1. runsIn' = runsIn \/ (runsIn' = [runsIn EXCEPT ![m] = active] /\ runsIn[m] = active)
    BY <1>6, <1>o DEF TurnOpens, SendTurnEnds, QueueTurnStarts, OpenOK
  <2>2. \A n \in Msgs : runsIn'[n] = runsIn[n]
    BY <2>1 DEF TypeOK
  <2>3. UNCHANGED <<home, held, lease>>
    BY <1>6 DEF TurnOpens, SendTurnEnds, QueueTurnStarts
  <2>4. \/ /\ at[m] = "begun" /\ at' = [at EXCEPT ![m] = "queueTurn"]
        \/ /\ at[m] \in Turning /\ \E s \in {"sendTurn", "closing"} : at' = [at EXCEPT ![m] = s]
    BY <1>6 DEF TurnOpens, SendTurnEnds, QueueTurnStarts, Turning
  <2>5. \A n \in Msgs : at'[n] \in Turning \cup {"begun"} =>
           /\ at[n] \in Turning \cup {"begun"}
           /\ at'[n] \in {"begun", "queueTurn"} => at[n] \in {"begun", "queueTurn"}
    BY <2>4 DEF TypeOK
  <2>6. QED
    BY <2>2, <2>3, <2>5, <1>o, TurnStays
<1>7. ASSUME NEW m \in Msgs,
             \/ OpeningFails(m) \/ SendCloses(m)
             \/ QueueTurnDropped(m) \/ QueueTurnFails(m) \/ QueueTurnEnds(m)
      PROVE  LeaseOK'
  <2>1. PICK s \in {"done", "dropped"} : at' = [at EXCEPT ![m] = s]
    BY <1>7 DEF OpeningFails, SendCloses, QueueTurnDropped, QueueTurnFails, QueueTurnEnds
  <2>2. at[m] \in {"begun"} \cup Turning
    BY <1>7 DEF OpeningFails, SendCloses, QueueTurnDropped, QueueTurnFails, QueueTurnEnds,
                Turning
  <2>3. s \notin Turning \cup {"begun"}
    BY DEF Turning
  <2>4. QED
    BY <2>1, <2>2, <2>3, <1>o, NobodyTurns
<1>8. ASSUME NEW c \in Chats, SwitchChat(c) \/ OtherTakes(c) \/ OtherEnds(c) \/ RecordExpires(c)
      PROVE  LeaseOK'
  BY <1>1, <1>8 DEF SwitchChat, OtherTakes, OtherEnds, RecordExpires, TypeOK
<1>9. CASE Reruns
  BY <1>1, <1>9, RerunSteps
<1>10. QED
  BY <1>2, <1>3, <1>4, <1>5, <1>6, <1>7, <1>8, <1>9 DEF Next, Reruns
-----------------------------------------------------------------------------
\* Whoever was to look at the queue still is.
LEMMA StillServed ==
  ASSUME ServedOK,
         streaming => streaming', TurnPreparing => TurnPreparing' \/ streaming',
         timers > 0 => timers' > 0, UNCHANGED polls,
         missed => missed', queue = <<>> => queue' = <<>>
  PROVE  ServedOK'
BY DEF ServedOK

\* Somebody will look at the queue, as long as no call was lost.
LEMMA ServedStep ==
  ASSUME TypeOK, QueueOK, Order, [Next]_vars, races' = {}
  PROVE  ServedOK'
<1> USE DEF composer, slot, waiting, turns, history
<1>o. ServedOK /\ SlotOK
  BY DEF Order
<1>1. CASE UNCHANGED <<streaming, owner, at, timers, polls, missed, queue>>
  BY <1>1, <1>o DEF ServedOK, TurnPreparing, Preparing
<1>2. CASE \/ LoadEnds \/ ReloadElsewhere \/ UNCHANGED vars
           \/ \E c \in Chats : \/ SwitchChat(c) \/ OtherTakes(c) \/ OtherEnds(c)
                               \/ RecordExpires(c)
  BY <1>1, <1>2 DEF LoadEnds, ReloadElsewhere, vars, SwitchChat, OtherTakes, OtherEnds,
                    RecordExpires
<1>3. CASE Stop
  <2>1. ~streaming
    BY <1>3 DEF Stop
  <2>2. UNCHANGED <<streaming, owner, at, timers, polls, missed, queue>>
    BY <1>3, <2>1 DEF Stop, TypeOK
  <2>3. QED
    BY <1>1, <2>2
<1>4. CASE PollIdle
  <2>1. CASE queue # <<>> /\ ~streaming /\ ~TurnPreparing
    BY <1>4, <2>1 DEF PollIdle, ServedOK
  <2>2. CASE queue = <<>>
    BY <1>4, <2>2 DEF PollIdle, ServedOK
  <2>3. CASE streaming \/ TurnPreparing
    BY <1>4, <2>3 DEF PollIdle, ServedOK, TurnPreparing, Preparing
  <2>4. QED
    BY <2>1, <2>2, <2>3
<1>5. CASE PollAsks
  <2>1. active \in Chats /\ polls'[active] > 0
    BY <1>5 DEF PollAsks, TypeOK
  <2>2. QED
    BY <2>1 DEF ServedOK
<1>6. CASE PollDequeues \/ \E c \in Chats : PollAnswered(c)
  <2>1. CASE timers' = timers + 1
    <3>1. timers' > 0
      BY <2>1 DEF TypeOK
    <3>2. QED
      BY <3>1 DEF ServedOK
  <2>2. CASE \E c \in Chats : Dequeue(c) /\ MayDequeue(c)
    <3>1. PICK m \in Msgs : at' = [at EXCEPT ![m] = "begun"] /\ owner' = m
      BY <2>2, DequeueTakesSlot
    <3>2. at'[owner'] = "begun" /\ owner' # Nothing
      BY <3>1, TurnAssumption DEF TypeOK
    <3>3. TurnPreparing'
      BY <3>2 DEF TurnPreparing, Preparing
    <3>4. QED
      BY <3>3 DEF ServedOK
  <2>3. QED
    BY <1>6, <2>1, <2>2, PollSteps
<1>7. ASSUME NEW m \in Msgs, Write(m) PROVE ServedOK'
  <2>1. at[m] = "unwritten" /\ \A n \in Msgs : n # m => at'[n] = at[n]
    BY <1>7 DEF Write, TypeOK
  <2>2. TurnPreparing => TurnPreparing'
    BY <1>7, <2>1 DEF Write, TurnPreparing, Preparing, TypeOK
  <2>3. QED
    BY <1>7, <2>2, <1>o, StillServed DEF Write
<1>8. ASSUME NEW m \in Msgs, SendQueues(m) PROVE ServedOK'
  <2>1. CASE streaming
    BY <1>8, <2>1 DEF SendQueues, ServedOK
  <2>2. CASE TurnPreparing
    <3>1. at[m] = "box" /\ owner \in Msgs /\ at[owner] = "begun" /\ owner # Nothing
      BY <1>8, <2>2 DEF SendQueues, TurnPreparing, Preparing, TypeOK
    <3>2. owner' = owner /\ at'[owner] = "begun"
      BY <1>8, <3>1 DEF SendQueues, Enqueue, TypeOK
    <3>3. QED
      BY <3>1, <3>2 DEF ServedOK, TurnPreparing, Preparing
  <2>3. QED
    BY <1>8, <2>1, <2>2 DEF SendQueues
<1>9. ASSUME NEW m \in Msgs, SendBegins(m) PROVE ServedOK'
  <2>1. ~Preparing /\ UNCHANGED <<streaming, timers, polls, missed, queue>>
    BY <1>9 DEF SendBegins
  <2>2. QED
    BY <2>1, <1>o, StillServed DEF TurnPreparing
<1>10. ASSUME NEW m \in Msgs,
              SendFails(m) \/ SendReady(m) \/ SendAnswered(m) \/ SendReloaded(m)
       PROVE  ServedOK'
  <2>1. ASSUME at[m] \in Sends, UNCHANGED <<timers, polls, missed, queue>>,
               streaming => streaming'
        PROVE  ServedOK'
    <3>1. ~TurnPreparing
      BY <2>1, <1>o, Alone DEF TurnPreparing, Sends
    <3>2. QED
      BY <2>1, <3>1, <1>o, StillServed
  <2>2. CASE Asks(m)
    BY <2>1, <2>2 DEF Asks, Sends
  <2>3. ASSUME NEW taken, NEW ids, Takes(m, taken, ids),
               GivesUp(m, taken, ids) \/ Reads(m, taken, ids) \/ Opens(m, taken, ids)
        PROVE  ServedOK'
    BY <2>1, <2>3 DEF Takes, GivesUp, Reads, Opens
  <2>4. ASSUME NEW taken, NEW ids, Takes(m, taken, ids), Queues(m, taken, ids)
        PROVE  ServedOK'
    BY <2>4, <1>o, Alone DEF Takes, Queues
  <2>5. QED
    BY <1>10, <2>2, <2>3, <2>4, SendSteps
<1>11. ASSUME NEW m \in Msgs, TurnOpens(m) \/ SendTurnEnds(m) PROVE ServedOK'
  <2>1. streaming /\ UNCHANGED streaming
    BY <1>11, <1>o, Alone DEF TurnOpens, SendTurnEnds, Turning
  <2>2. QED
    BY <2>1 DEF ServedOK
<1>12. ASSUME NEW m \in Msgs, OpeningFails(m) \/ QueueTurnFails(m) PROVE ServedOK'
  BY <1>12 DEF OpeningFails, QueueTurnFails, ServedOK
<1>13. ASSUME NEW m \in Msgs, SendCloses(m) \/ QueueTurnDropped(m) \/ QueueTurnEnds(m)
       PROVE  ServedOK'
  <2>1. timers' > 0
    BY <1>13 DEF SendCloses, QueueTurnDropped, QueueTurnEnds, TypeOK
  <2>2. QED
    BY <2>1 DEF ServedOK
<1>14. ASSUME NEW m \in Msgs, QueueTurnStarts(m) PROVE ServedOK'
  BY <1>14 DEF QueueTurnStarts, ServedOK
<1>15. CASE Reruns
  <2>1. CASE streaming' \/ timers' > 0 \/ missed'
    BY <2>1 DEF ServedOK
  <2>2. CASE UNCHANGED <<streaming, timers, missed>>
    BY <1>1, <1>15, <2>2, RerunSteps DEF slot
  <2>3. QED
    BY <1>15, <2>1, <2>2, RerunSteps
<1>16. QED
  BY <1>2, <1>3, <1>4, <1>5, <1>6, <1>7, <1>8, <1>9, <1>10, <1>11, <1>12, <1>13, <1>14, <1>15
     DEF Next, Reruns

\* A race that happened is remembered.
LEMMA RacesStay == TypeOK /\ [Next]_vars => races \subseteq races'
<1> SUFFICES ASSUME TypeOK, [Next]_vars PROVE races \subseteq races'
  OBVIOUS
<1> USE DEF composer, slot, waiting, turns, history
<1>1. ASSUME NEW m \in Msgs,
             SendFails(m) \/ SendReady(m) \/ SendAnswered(m) \/ SendReloaded(m)
      PROVE  UNCHANGED races
  BY <1>1 DEF SendFails, SendReady, SendAnswered, SendReloaded, Goes, Reads, GivesUp, Queues, Opens
<1>2. ASSUME NEW m \in Msgs,
             \/ Write(m) \/ SendQueues(m) \/ SendBegins(m) \/ OpeningFails(m) \/ TurnOpens(m)
             \/ SendTurnEnds(m) \/ SendCloses(m)
             \/ QueueTurnDropped(m) \/ QueueTurnFails(m) \/ QueueTurnStarts(m) \/ QueueTurnEnds(m)
      PROVE  UNCHANGED races
  BY <1>2 DEF Write, SendQueues, SendBegins, OpeningFails, TurnOpens, SendTurnEnds,
              SendCloses, QueueTurnDropped, QueueTurnFails, QueueTurnStarts, QueueTurnEnds
<1>3. ASSUME NEW c \in Chats,
             \/ SwitchChat(c) \/ PollAnswered(c) \/ OtherTakes(c) \/ OtherEnds(c)
             \/ RecordExpires(c)
      PROVE  races \subseteq races'
  BY <1>3 DEF SwitchChat, PollAnswered, OtherTakes, OtherEnds, RecordExpires
<1>4. CASE \/ LoadEnds \/ ReloadElsewhere \/ Stop \/ PollIdle \/ PollAsks \/ PollDequeues
           \/ UNCHANGED vars
  BY <1>4 DEF LoadEnds, ReloadElsewhere, Stop, PollIdle, PollAsks, PollDequeues, vars
<1>5. CASE Reruns
  BY <1>5, RerunSteps
<1>6. QED
  BY <1>1, <1>2, <1>3, <1>4, <1>5 DEF Next, Reruns

\* Without races, a tab keeps its order.
THEOREM OrderKept == Spec => []Orderly
<1>1. Init => QueueOK /\ Orderly
  <2> SUFFICES ASSUME Init PROVE QueueOK /\ Order
    BY DEF Orderly
  <2>1. QueueOK /\ ServedOK
    BY DEF Init, QueueOK, ServedOK
  <2>2. \A m \in Msgs : at[m] \notin Sends \cup {"begun"} \cup Turning
    BY DEF Init, Sends, Turning
  <2>3. SlotOK /\ PrepOK /\ OpenOK /\ LeaseOK
    BY <2>2 DEF Init, SlotOK, PrepOK, OpenOK, LeaseOK, Preparing, Turning, Rerunning, NoRerun
  <2>4. BoxOK
    BY DEF Init, BoxOK
  <2>5. QED
    BY <2>1, <2>3, <2>4 DEF Order
<1>2. TypeOK /\ QueueOK /\ Orderly /\ [Next]_vars => Orderly'
  <2> SUFFICES ASSUME TypeOK, QueueOK, Orderly, [Next]_vars, races' = {} PROVE Order'
    BY DEF Orderly
  <2>1. races = {}
    BY RacesStay
  <2>2. Order
    BY <2>1 DEF Orderly
  <2>3. QED
    BY <2>2, SlotStep, BoxStep, PrepStep, OpenStep, TurnStep, ServedStep DEF Order
<1>3. QED
  BY <1>1, <1>2, TypeCorrect, QueueStep, PTL DEF Spec

\* One turn at a time, whatever the messages, chats and bounds: only the two races break it.
THEOREM OneTurnAtATime == Spec => []OneTurn
<1>1. TypeOK /\ Orderly => OneTurn
  <2> SUFFICES ASSUME TypeOK, SlotOK
               PROVE  /\ Cardinality(Live) <= 1 /\ ~(Rerunning /\ Live # {})
                      /\ streaming <=> Rerunning \/ Live # {}
    BY DEF OneTurn, Orderly, Order
  <2>1. \A m : m \in Live <=> m \in Msgs /\ at[m] \in Turning
    BY DEF Live, Turning
  <2>2. (streaming <=> Rerunning \/ Live # {}) /\ ~(Rerunning /\ Live # {})
    BY <2>1 DEF SlotOK
  <2>3. CASE Live = {}
    BY <2>2, <2>3, FS_EmptySet
  <2>4. ASSUME NEW m \in Live PROVE Cardinality(Live) <= 1
    <3>1. Live = {m}
      BY <2>1, <2>4 DEF SlotOK
    <3>2. Cardinality({m}) = 1
      BY FS_Singleton, Zenon
    <3>3. QED
      BY <3>1, <3>2
  <2>5. QED
    BY <2>2, <2>3, <2>4
<1>2. QED
  BY <1>1, TypeCorrect, OrderKept, PTL

\* A turn runs under the lease of the chat it writes to, unless one of the races happened.
THEOREM LeaseWhileTurning == Spec => []TurnIsLeased
<1>1. Orderly => TurnIsLeased
  BY DEF Orderly, Order, LeaseOK, TurnIsLeased, Live, Turning
<1>2. QED
  BY <1>1, OrderKept, PTL

\* A message is sent in the chat it was written in, unless one of the races happened.
THEOREM RightChat == Spec => []SentWhereWrittenUnlessRaced
<1>1. Orderly => SentWhereWrittenUnlessRaced
  BY DEF Orderly, Order, LeaseOK, SentWhereWrittenUnlessRaced, SentWhereWritten, Live, Turning
<1>2. QED
  BY <1>1, OrderKept, PTL

\* A queue that was not abandoned is looked at again.
THEOREM QueueIsNotForgotten == Spec => []QueueIsServed
<1>1. Orderly => QueueIsServed
  BY DEF Orderly, Order, ServedOK, QueueIsServed
<1>2. QED
  BY <1>1, OrderKept, PTL
=============================================================================
