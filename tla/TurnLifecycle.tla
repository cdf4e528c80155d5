---------------------------- MODULE TurnLifecycle ----------------------------
(***************************************************************************)
(* From a click on Send to the end of the turn, in one tab (agent-core.ts, *)
(* turn-owner.ts, msg-queue.ts).  A send prepares in the one preparation   *)
(* slot, takes the turn lease of its chat, and streams; text sent while a  *)
(* turn runs is queued, and a timer set at the end of the turn takes the   *)
(* next message out of the queue.  JavaScript runs one handler at a time,  *)
(* so a step here is what runs between two waits; every guard read before  *)
(* a wait may be false after it.                                           *)
(*                                                                         *)
(* The other tabs are an environment that takes, gives back and abandons   *)
(* turn leases (ChatLease is the lease itself).  A turn can also begin     *)
(* again, from one of its steps or as a whole: such a rerun has no message *)
(* and takes no lease.  Background jobs (runner, goal), slash commands,    *)
(* rewinds and chats deleted elsewhere are left out, and so is the         *)
(* workspace copy the terminal UI makes of a message that leaves the       *)
(* queue.                                                                  *)
(***************************************************************************)
EXTENDS Naturals, Sequences, FiniteSets

CONSTANTS
  Msgs,      \* the messages the user writes
  Chats,     \* the chats
  FirstChat, \* the chat that is open at first
  Nothing,   \* no message, no chat
  MaxNav,    \* bound on the switches to another chat
  MaxStops,  \* bound on Stop and Escape
  MaxOther,  \* bound on the turns of the other tabs
  MaxReruns  \* bound on the reruns, of which there is one at a time

ASSUME TurnAssumption ==
  /\ FirstChat \in Chats
  /\ Nothing \notin Msgs \cup Chats
  /\ {MaxNav, MaxStops, MaxOther, MaxReruns} \subseteq Nat

VARIABLES
  active,    \* activeChatId
  loading,   \* the history of the open chat is being read
  stale,     \* the chats another tab saved since this one read them
  lease,     \* who the record of the turn lease of a chat names
  owner,     \* _cur: the message the preparation slot is taken for
  prepChat,  \* the chat its preparation lease is for
  lost,      \* that lease was revoked, or (a send) a chat load began since
  streaming, \* agentStreaming
  leaseIds,  \* _leaseIds
  queue,     \* the message queue
  timers,    \* calls of _processQueue that are due
  polls,     \* polls[c]: calls of _processQueue waiting for the holder of c
  box,       \* box[c]: the text in the composer of c
  at,        \* at[m]: where the handler of m is
  home,      \* home[m]: the chat m was written in
  held,      \* held[m]: the chat whose lease the dequeued m runs under
  runsIn,    \* runsIn[m]: the chat whose history the turn of m writes to
  rerun,     \* where a rerun is, and the chat it was asked for in
  spent,     \* switches, stops, turns of other tabs and reruns so far
  races,     \* the races below that happened so far (history)
  missed     \* a due call found nothing to do, or a turn ended without one (history)

\* Overtaken: a call of _processQueue or a rerun went on after a wait although what it had
\* checked before was no longer so.  Stopped: Stop was pressed while a turn was streaming, so
\* agentStreaming is false before the turn has unwound.
Races == {"overtaken", "stopped"}

composer == <<active, loading, stale, box, home>>
slot == <<owner, prepChat, lost>>
waiting == <<queue, timers, polls>>
turns == <<at, held, runsIn, rerun>>
history == <<races, missed>>
vars == <<composer, lease, slot, streaming, leaseIds, waiting, turns, spent, history>>

Stages == {"unwritten", "box",
           "sending",   \* agentSend waits for the chat and the attachments
           "asking",    \* and for an answer of the lease's holder
           "reading",   \* _agentSendReady reloads the chat first
           "opening",   \* streaming, and still preparing the request
           "closing",   \* the turn of a send is over, the diff button is drawn
           "queued",
           "begun",     \* runAgentTurn prepares a dequeued message
           "sendTurn", "queueTurn", \* runTurn
           "done", "dropped"}

\* The messages whose turn has begun and not ended.
Live == {m \in Msgs : at[m] \in {"opening", "sendTurn", "closing", "queueTurn"}}

Budget == [nav : 0..MaxNav, stop : 0..MaxStops, other : 0..MaxOther, rerun : 0..MaxReruns]
RerunStates ==
  [at : {"none", "asked", "restoring", "turn", "retry"}, chat : Chats \cup {Nothing}]

\* The turn of a rerun runs.
Rerunning == rerun.at \in {"turn", "retry"}
NoRerun == [at |-> "none", chat |-> Nothing]

Preparing == owner # Nothing
TurnPreparing == Preparing /\ at[owner] = "begun"
Valid == ~lost /\ active = prepChat
Free(c) == lease[c] \in {"none", "us"}

Init ==
  /\ active = FirstChat /\ loading = FALSE /\ stale = {}
  /\ lease \in [Chats -> {"none", "dead"}]
  /\ owner = Nothing /\ prepChat = Nothing /\ lost = FALSE
  /\ streaming = FALSE /\ leaseIds = {}
  /\ queue = <<>> /\ timers = 0 /\ polls = [c \in Chats |-> 0]
  /\ box = [c \in Chats |-> Nothing]
  /\ at = [m \in Msgs |-> "unwritten"]
  /\ home = [m \in Msgs |-> Nothing]
  /\ held = [m \in Msgs |-> Nothing]
  /\ runsIn = [m \in Msgs |-> Nothing]
  /\ rerun = NoRerun
  /\ spent = [nav |-> 0, stop |-> 0, other |-> 0, rerun |-> 0]
  /\ races = {} /\ missed = FALSE

-----------------------------------------------------------------------------
\* beginChatLoad: a send that prepares meanwhile has been overtaken.
BeginLoad(c) ==
  /\ loading' = TRUE
  /\ stale' = stale \ {c}
  /\ lost' = (lost \/ (Preparing /\ ~TurnPreparing))

LoadEnds ==
  /\ loading /\ loading' = FALSE
  /\ UNCHANGED <<active, stale, box, home, lease, slot, streaming, leaseIds, waiting,
                 turns, spent, history>>

Write(m) ==
  /\ at[m] = "unwritten" /\ box[active] = Nothing
  /\ box' = [box EXCEPT ![active] = m]
  /\ at' = [at EXCEPT ![m] = "box"]
  /\ home' = [home EXCEPT ![m] = active]
  /\ UNCHANGED <<active, loading, stale, lease, slot, streaming, leaseIds, waiting,
                 held, runsIn, rerun, spent, history>>

\* While a turn streams, another chat is only viewed.
SwitchChat(c) ==
  /\ spent.nav < MaxNav /\ spent' = [spent EXCEPT !.nav = @ + 1]
  /\ c # active /\ ~streaming
  /\ active' = c
  /\ BeginLoad(c)
  /\ UNCHANGED <<box, home, lease, owner, prepChat, streaming, leaseIds, waiting,
                 turns, history>>

\* The storage event of a save in another tab, 200 ms later.
ReloadElsewhere ==
  /\ ~streaming /\ ~loading /\ active \in stale
  /\ BeginLoad(active)
  /\ UNCHANGED <<active, box, home, lease, owner, prepChat, streaming, leaseIds, waiting,
                 turns, spent, history>>

\* stopNow while streaming, cancelSendPreparation otherwise.
Stop ==
  /\ spent.stop < MaxStops /\ spent' = [spent EXCEPT !.stop = @ + 1]
  /\ streaming \/ Preparing
  /\ lost' = (lost \/ Preparing)
  /\ streaming' = FALSE
  /\ races' = races \cup {r \in {"stopped"} : streaming}
  /\ UNCHANGED <<composer, lease, owner, prepChat, leaseIds, waiting, turns, missed>>
-----------------------------------------------------------------------------
(* Sending.                                                                *)

\* Mutant: the composer is read after it was cleared.
Bug_ReadAfterClear(m) ==
  /\ box' = [box EXCEPT ![home[m]] = Nothing]
  /\ queue' = Append(queue, box'[home[m]])
  /\ at' = [at EXCEPT ![m] = "queued"]

Enqueue(m) ==
  /\ queue' = Append(queue, m)
  /\ box' = [box EXCEPT ![home[m]] = Nothing]
  /\ at' = [at EXCEPT ![m] = "queued"]

SlotFreedFrom(m) ==
  /\ owner' = IF owner = m THEN Nothing ELSE owner
  /\ prepChat' = IF owner = m THEN Nothing ELSE prepChat
  /\ lost' = (lost /\ owner # m)

\* The end of agentSend: it gives back every lease a send has taken, given those.
Unwind(m, taken, ids) ==
  /\ lease' = [c \in Chats |-> IF c \in ids /\ taken[c] = "us" THEN "none" ELSE taken[c]]
  /\ leaseIds' = {}
  /\ SlotFreedFrom(m)

\* Mutant: text that is only queued unwinds like a send.
Bug_QueuedSendUnwinds(m) ==
  /\ at[m] = "box" /\ box[active] = m
  /\ streaming \/ TurnPreparing
  /\ Preparing => Valid
  /\ Enqueue(m)
  /\ Unwind(m, lease, leaseIds)
  /\ UNCHANGED <<active, loading, stale, home, streaming, timers, polls, held, runsIn, rerun,
                 spent, history>>

\* A click on Send while a turn runs or is prepared.  With a preparation that was
\* cancelled and has not noticed, nothing happens.
SendQueues(m) ==
  /\ at[m] = "box" /\ box[active] = m
  /\ streaming \/ TurnPreparing
  /\ Preparing => Valid
  /\ Enqueue(m)
  /\ UNCHANGED <<active, loading, stale, home, lease, slot, streaming, leaseIds, timers,
                 polls, held, runsIn, rerun, spent, history>>

SendBegins(m) ==
  /\ at[m] = "box" /\ box[active] = m
  /\ ~streaming /\ ~Preparing
  /\ owner' = m /\ prepChat' = active /\ lost' = FALSE
  /\ at' = [at EXCEPT ![m] = "sending"]
  /\ UNCHANGED <<composer, lease, streaming, leaseIds, waiting, held, runsIn, rerun, spent,
                 history>>

\* The rest of the send, up to its next wait, once it has the lease of the open chat
\* (_agentSendReady).  It reloads the chat when another tab has saved it, and gives up
\* when its preparation no longer holds, or for want of a key, a model or a text.
Reads(m, taken, ids) ==
  /\ ~streaming /\ ~loading /\ active \in stale
  /\ BeginLoad(active)
  /\ at' = [at EXCEPT ![m] = "reading"]
  /\ lease' = taken /\ leaseIds' = ids
  /\ UNCHANGED <<active, box, home, owner, prepChat, streaming, waiting, held, runsIn, rerun,
                 history>>

GivesUp(m, taken, ids) ==
  /\ at' = [at EXCEPT ![m] = "box"]
  /\ Unwind(m, taken, ids)
  /\ UNCHANGED <<composer, streaming, waiting, held, runsIn, rerun, history>>

Queues(m, taken, ids) ==
  /\ streaming /\ Valid
  /\ Enqueue(m)
  /\ Unwind(m, taken, ids)
  /\ UNCHANGED <<active, loading, stale, home, streaming, timers, polls, held, runsIn, rerun,
                 history>>

Opens(m, taken, ids) ==
  /\ ~streaming /\ Valid
  /\ box' = [box EXCEPT ![home[m]] = Nothing]
  /\ at' = [at EXCEPT ![m] = "opening"]
  /\ runsIn' = [runsIn EXCEPT ![m] = active]
  /\ streaming' = TRUE
  /\ SlotFreedFrom(m)
  /\ lease' = taken /\ leaseIds' = ids
  /\ UNCHANGED <<active, loading, stale, home, waiting, held, rerun, history>>

NeedsReload == ~streaming /\ ~loading /\ active \in stale

Goes(m, taken, ids) ==
  \/ Reads(m, taken, ids)
  \/ ~NeedsReload /\ GivesUp(m, taken, ids)
  \/ ~NeedsReload /\ Queues(m, taken, ids)
  \/ ~NeedsReload /\ Opens(m, taken, ids)

\* The send was cancelled, or it waited too long for the chat or an attachment.
SendFails(m) ==
  /\ at[m] = "sending"
  /\ GivesUp(m, lease, leaseIds)
  /\ UNCHANGED spent

SendReady(m) ==
  /\ at[m] = "sending" /\ Valid /\ ~loading
  /\ \/ /\ Free(active)
        /\ Goes(m, [lease EXCEPT ![active] = "us"], leaseIds \cup {active})
     \/ /\ ~Free(active)
        /\ at' = [at EXCEPT ![m] = "asking"]
        /\ UNCHANGED <<composer, lease, slot, streaming, leaseIds, waiting, held, runsIn, rerun,
                       history>>
  /\ UNCHANGED spent

\* chatLeaseHolderAlive: a record nobody answers for is removed.
AfterAsking(c) ==
  IF c \in Chats /\ lease[c] = "dead" THEN [lease EXCEPT ![c] = "none"] ELSE lease

\* The lease that is taken then is that of the chat that is open by now.
SendAnswered(m) ==
  LET asked == AfterAsking(prepChat) IN
  /\ at[m] = "asking"
  /\ IF lease[prepChat] = "other" \/ asked[active] \in {"other", "dead"}
       THEN GivesUp(m, asked, leaseIds)
       ELSE Goes(m, [asked EXCEPT ![active] = "us"], leaseIds \cup {active})
  /\ UNCHANGED spent

SendReloaded(m) ==
  /\ at[m] = "reading" /\ ~loading
  /\ \/ GivesUp(m, lease, leaseIds)
     \/ Queues(m, lease, leaseIds)
     \/ Opens(m, lease, leaseIds)
  /\ UNCHANGED spent

\* The request is in the history and saved, runTurn starts.
TurnOpens(m) ==
  /\ at[m] = "opening"
  /\ at' = [at EXCEPT ![m] = "sendTurn"]
  /\ runsIn' = [runsIn EXCEPT ![m] = active]
  /\ UNCHANGED <<composer, lease, slot, streaming, leaseIds, waiting, held, rerun, spent, history>>

\* The preparation of the request throws: the turn is torn down, the text is gone.
OpeningFails(m) ==
  /\ at[m] = "opening"
  /\ at' = [at EXCEPT ![m] = "dropped"]
  /\ streaming' = FALSE
  /\ Unwind(m, lease, leaseIds)
  /\ missed' = TRUE
  /\ UNCHANGED <<composer, waiting, held, runsIn, rerun, spent, races>>

SendTurnEnds(m) ==
  /\ at[m] = "sendTurn"
  /\ at' = [at EXCEPT ![m] = "closing"]
  /\ UNCHANGED <<composer, lease, slot, streaming, leaseIds, waiting, held, runsIn, rerun, spent,
                 history>>

\* The last save, _tearDownTurn, and the end of agentSend.
SendCloses(m) ==
  /\ at[m] = "closing"
  /\ at' = [at EXCEPT ![m] = "done"]
  /\ streaming' = FALSE
  /\ timers' = timers + 1
  /\ Unwind(m, lease, leaseIds)
  /\ UNCHANGED <<composer, queue, polls, held, runsIn, rerun, spent, history>>
-----------------------------------------------------------------------------
(* The queue.                                                              *)

\* Mutant: a message is taken out while a send prepares.
Bug_DequeueWhilePreparing(c) ==
  /\ ~streaming
  /\ queue # <<>> /\ home[Head(queue)] = c /\ active = c

\* Mutant: a message is taken out in any chat.
Bug_DequeueAnywhere(c) ==
  /\ ~streaming /\ ~Preparing
  /\ queue # <<>> /\ active = c

\* What _processQueue asks before it takes a message.
MayDequeue(c) ==
  /\ ~streaming /\ ~Preparing
  /\ queue # <<>> /\ home[Head(queue)] = c /\ active = c

\* It takes the head and starts runAgentTurn, which takes the slot if it is free.
Dequeue(c) ==
  LET m == Head(queue) IN
  /\ queue # <<>>
  /\ queue' = Tail(queue)
  /\ at' = [at EXCEPT ![m] = "begun"]
  /\ held' = [held EXCEPT ![m] = c]
  /\ runsIn' = [runsIn EXCEPT ![m] = active]
  /\ lease' = [lease EXCEPT ![c] = "us"]
  /\ owner' = IF Preparing THEN owner ELSE m
  /\ prepChat' = IF Preparing THEN prepChat ELSE active
  /\ lost' = (lost /\ Preparing)
  /\ UNCHANGED <<composer, streaming, leaseIds, rerun, spent>>

PollIdle ==
  /\ timers > 0 /\ timers' = timers - 1
  /\ ~MayDequeue(active)
  /\ missed' = (missed \/ (queue # <<>> /\ ~streaming /\ ~TurnPreparing))
  /\ UNCHANGED <<composer, lease, slot, streaming, leaseIds, queue, polls, turns, spent,
                 races>>

PollAsks ==
  /\ timers > 0 /\ timers' = timers - 1
  /\ MayDequeue(active) /\ ~Free(active)
  /\ polls' = [polls EXCEPT ![active] = @ + 1]
  /\ UNCHANGED <<composer, lease, slot, streaming, leaseIds, queue, turns, spent, history>>

PollDequeues ==
  /\ timers > 0 /\ timers' = timers - 1
  /\ MayDequeue(active) /\ Free(active)
  /\ Dequeue(active)
  /\ UNCHANGED <<polls, history>>

\* After the wait for the holder, nothing is asked again.
PollAnswered(c) ==
  /\ polls[c] > 0 /\ polls' = [polls EXCEPT ![c] = @ - 1]
  /\ \/ /\ lease[c] = "other"                       \* it is running: try again in 3 s
        /\ timers' = timers + 1
        /\ UNCHANGED <<composer, lease, slot, streaming, leaseIds, queue, turns, spent,
                       races>>
     \/ /\ lease[c] # "other"
        /\ \/ Dequeue(c)
           \/ /\ queue = <<>>
              /\ lease' = [lease EXCEPT ![c] = "none"]
              /\ UNCHANGED <<composer, slot, streaming, leaseIds, queue, turns, spent>>
        /\ races' = races \cup {r \in {"overtaken"} : ~MayDequeue(c)}
        /\ UNCHANGED timers
  /\ UNCHANGED missed

\* Mutant: the dropped message leaves the rest of the queue to nobody.
Bug_DropForgetsQueue(m) ==
  /\ at[m] = "begun" /\ owner = m /\ ~Valid
  /\ at' = [at EXCEPT ![m] = "dropped"]
  /\ lease' = [lease EXCEPT ![held[m]] = IF @ = "us" THEN "none" ELSE @]
  /\ SlotFreedFrom(m)
  /\ UNCHANGED <<composer, streaming, leaseIds, waiting, held, runsIn, rerun, spent, history>>

\* Mutant: and keeps the lease.
Bug_DropKeepsLease(m) ==
  /\ at[m] = "begun" /\ owner = m /\ ~Valid
  /\ at' = [at EXCEPT ![m] = "dropped"]
  /\ timers' = timers + 1
  /\ SlotFreedFrom(m)
  /\ UNCHANGED <<composer, lease, streaming, leaseIds, queue, polls, held, runsIn, rerun, spent,
                 history>>

\* The preparation of a dequeued message was cancelled, or the chat was left.
QueueTurnDropped(m) ==
  /\ at[m] = "begun" /\ owner = m /\ ~Valid
  /\ at' = [at EXCEPT ![m] = "dropped"]
  /\ timers' = timers + 1
  /\ lease' = [lease EXCEPT ![held[m]] = IF @ = "us" THEN "none" ELSE @]
  /\ SlotFreedFrom(m)
  /\ UNCHANGED <<composer, streaming, leaseIds, queue, polls, held, runsIn, rerun, spent, history>>

\* That preparation throws: the message is gone, and nobody is to look at the rest of the queue.
QueueTurnFails(m) ==
  /\ at[m] = "begun"
  /\ at' = [at EXCEPT ![m] = "dropped"]
  /\ lease' = [lease EXCEPT ![held[m]] = IF @ = "us" THEN "none" ELSE @]
  /\ SlotFreedFrom(m)
  /\ missed' = TRUE
  /\ UNCHANGED <<composer, streaming, leaseIds, waiting, held, runsIn, rerun, spent, races>>

QueueTurnStarts(m) ==
  /\ at[m] = "begun" /\ (owner = m => Valid)
  /\ at' = [at EXCEPT ![m] = "queueTurn"]
  /\ streaming' = TRUE
  /\ SlotFreedFrom(m)
  /\ UNCHANGED <<composer, lease, leaseIds, waiting, held, runsIn, rerun, spent, history>>

QueueTurnEnds(m) ==
  /\ at[m] = "queueTurn"
  /\ at' = [at EXCEPT ![m] = "done"]
  /\ streaming' = FALSE
  /\ timers' = timers + 1
  /\ lease' = [lease EXCEPT ![held[m]] = IF @ = "us" THEN "none" ELSE @]
  /\ UNCHANGED <<composer, slot, leaseIds, queue, polls, held, runsIn, rerun, spent, history>>
-----------------------------------------------------------------------------
(* Reruns.                                                                 *)

Idle == ~streaming /\ ~Preparing

\* A rerun from a step, up to its question.  The question covers the page, but timers run
\* beside it and keys still reach the composer.
RerunAsks ==
  /\ spent.rerun < MaxReruns /\ spent' = [spent EXCEPT !.rerun = @ + 1]
  /\ rerun.at = "none" /\ Idle
  /\ rerun' = [at |-> "asked", chat |-> active]
  /\ UNCHANGED <<composer, lease, slot, streaming, leaseIds, waiting, at, held, runsIn, history>>

RerunDeclined ==
  /\ rerun.at = "asked" /\ rerun' = NoRerun
  /\ UNCHANGED <<composer, lease, slot, streaming, leaseIds, waiting, at, held, runsIn, spent,
                 history>>

\* Nothing is asked again: the history it read before its question becomes, cut, that of the
\* chat that is open by now, the workspace is put back if the user wants that, and the turn
\* begins.
RerunGoesOn(place) ==
  /\ rerun' = [rerun EXCEPT !.at = place]
  /\ races' = races \cup {r \in {"overtaken"} : ~Idle \/ active # rerun.chat}
  /\ UNCHANGED <<composer, lease, slot, leaseIds, waiting, at, held, runsIn, spent, missed>>

RerunRestores == rerun.at = "asked" /\ RerunGoesOn("restoring") /\ UNCHANGED streaming

RerunTurns ==
  /\ rerun.at \in {"asked", "restoring"}
  /\ RerunGoesOn("turn")
  /\ streaming' = TRUE

RerunEnds ==
  /\ rerun.at = "turn" /\ rerun' = NoRerun
  /\ streaming' = FALSE
  /\ timers' = timers + 1
  /\ UNCHANGED <<composer, lease, slot, leaseIds, queue, polls, at, held, runsIn, spent, history>>

\* The last turn as a whole (retryLastTurn) begins at once; behind it nobody looks at the
\* queue.
Retry ==
  /\ spent.rerun < MaxReruns /\ spent' = [spent EXCEPT !.rerun = @ + 1]
  /\ rerun.at = "none" /\ Idle
  /\ rerun' = [at |-> "retry", chat |-> active]
  /\ streaming' = TRUE
  /\ UNCHANGED <<composer, lease, slot, leaseIds, waiting, at, held, runsIn, history>>

RetryEnds ==
  /\ rerun.at = "retry" /\ rerun' = NoRerun
  /\ streaming' = FALSE
  /\ missed' = TRUE
  /\ UNCHANGED <<composer, lease, slot, leaseIds, waiting, at, held, runsIn, spent, races>>
-----------------------------------------------------------------------------
(* The other tabs.                                                         *)

OtherTakes(c) ==
  /\ spent.other < MaxOther /\ spent' = [spent EXCEPT !.other = @ + 1]
  /\ lease[c] = "none"
  /\ lease' = [lease EXCEPT ![c] = "other"]
  /\ UNCHANGED <<composer, slot, streaming, leaseIds, waiting, turns, history>>

\* Its turn ends and is saved, or its page dies and leaves the record behind.
OtherEnds(c) ==
  /\ lease[c] = "other"
  /\ \/ lease' = [lease EXCEPT ![c] = "none"] /\ stale' = stale \cup {c}
     \/ lease' = [lease EXCEPT ![c] = "dead"] /\ UNCHANGED stale
  /\ UNCHANGED <<active, loading, box, home, slot, streaming, leaseIds, waiting, turns,
                 spent, history>>

\* The record of a page that died runs out.
RecordExpires(c) ==
  /\ lease[c] = "dead"
  /\ lease' = [lease EXCEPT ![c] = "none"]
  /\ UNCHANGED <<composer, slot, streaming, leaseIds, waiting, turns, spent, history>>

Next ==
  \/ LoadEnds \/ ReloadElsewhere \/ Stop \/ PollIdle \/ PollAsks \/ PollDequeues
  \/ RerunAsks \/ RerunDeclined \/ RerunRestores \/ RerunTurns \/ RerunEnds
  \/ Retry \/ RetryEnds
  \/ \E m \in Msgs :
       \/ Write(m) \/ SendQueues(m) \/ SendBegins(m) \/ SendFails(m) \/ SendReady(m)
       \/ SendAnswered(m) \/ SendReloaded(m) \/ TurnOpens(m) \/ OpeningFails(m)
       \/ SendTurnEnds(m) \/ SendCloses(m)
       \/ QueueTurnDropped(m) \/ QueueTurnFails(m) \/ QueueTurnStarts(m) \/ QueueTurnEnds(m)
  \/ \E c \in Chats :
       \/ SwitchChat(c) \/ PollAnswered(c)
       \/ OtherTakes(c) \/ OtherEnds(c) \/ RecordExpires(c)

Spec == Init /\ [][Next]_vars
-----------------------------------------------------------------------------
TypeOK ==
  /\ active \in Chats /\ loading \in BOOLEAN /\ stale \subseteq Chats
  /\ lease \in [Chats -> {"none", "us", "other", "dead"}]
  /\ owner \in Msgs \cup {Nothing} /\ prepChat \in Chats \cup {Nothing} /\ lost \in BOOLEAN
  /\ streaming \in BOOLEAN /\ leaseIds \subseteq Chats
  /\ queue \in Seq(Msgs) /\ timers \in Nat /\ polls \in [Chats -> Nat]
  /\ box \in [Chats -> Msgs \cup {Nothing}]
  /\ at \in [Msgs -> Stages]
  /\ home \in [Msgs -> Chats \cup {Nothing}] /\ held \in [Msgs -> Chats \cup {Nothing}]
  /\ runsIn \in [Msgs -> Chats \cup {Nothing}]
  /\ rerun \in RerunStates /\ spent \in Budget
  /\ races \subseteq Races /\ missed \in BOOLEAN

\* At most one turn runs in this tab, and agentStreaming says whether one does: a double
\* click, a queued message that comes due, a rerun, a reload and another tab's turn change
\* nothing about it.  Only the two races can break it.
OneTurn ==
  races = {} => /\ Cardinality(Live) <= 1 /\ ~(Rerunning /\ Live # {})
                /\ streaming <=> Rerunning \/ Live # {}

\* The turn of a message runs under the lease of the chat it writes to: no other handler of this
\* tab gives it back meanwhile (agentSend gives back all of the shared _leaseIds, and
\* _processQueue whatever it polled for).
TurnIsLeased ==
  races = {} => \A m \in Live : lease[runsIn[m]] = "us"

\* A lease of this tab is in use: a handler that still runs will give it back, so the
\* chat is not locked for the other tabs.
LeaseIsInUse ==
  \A c \in Chats : lease[c] = "us" =>
    \/ c \in leaseIds /\ \E m \in Msgs :
         at[m] \in {"asking", "reading", "opening", "sendTurn", "closing"}
    \/ \E m \in Msgs : held[m] = c /\ at[m] \in {"begun", "queueTurn"}

\* A message that can be sent is not forgotten: as long as no due call of _processQueue was
\* lost on a parked message, a send or a queued turn that failed or a send that was cancelled,
\* and no turn was retried as a whole, an idle tab with a message queued for the open chat has
\* a call due, or one that waits for another tab.
QueueIsServed ==
  ~missed /\ queue # <<>> /\ home[Head(queue)] = active /\ races = {} =>
    \/ streaming \/ TurnPreparing
    \/ timers > 0 \/ \E c \in Chats : polls[c] > 0

\* A message becomes a request in the chat it was written in and in no other, whatever chat
\* is opened while it waits (agent-core.ts:986).
SentWhereWritten ==
  \A m \in Live : runsIn[m] = home[m]

\* So it is unless one of the two races happened.
SentWhereWrittenUnlessRaced == races = {} => SentWhereWritten
=============================================================================
