----------------------------- MODULE ChatLease -----------------------------
(***************************************************************************)
(* The turn lease of one chat (chat-lease.ts).  Browser tabs of the same   *)
(* origin share localStorage; a tab that runs a turn in a chat keeps a     *)
(* record there, naming the tab and the acquisition, and refreshes it on   *)
(* an interval.  Another tab treats the record as "busy" while it is       *)
(* younger than the lease time, and may ask over a BroadcastChannel        *)
(* whether its holder still exists.                                        *)
(*                                                                         *)
(* The tabs may be in different processes, and localStorage has no lock:   *)
(* a function that looks at the record and then writes or removes it is    *)
(* two steps, and another tab may come in between.                         *)
(*                                                                         *)
(* Time is relative: the record has an age and each holder a countdown to  *)
(* its next heartbeat, so the model needs no bound on the clock.  A page   *)
(* that is gone never returns with its identity: its record belongs to     *)
(* Gone from then on.                                                      *)
(***************************************************************************)
EXTENDS Naturals

CONSTANTS
  Tabs,            \* the tabs of the browser that can open the chat
  Gone,            \* stands for every page load that no longer exists
  None,            \* the tab of an absent record
  TTL,             \* LEASE_TTL_MS, in ticks
  BEAT,            \* BEAT_MS, in ticks
  StorageMayFail   \* localStorage.setItem may throw (full or blocked)

ASSUME TabAssumption == Gone \notin Tabs /\ None \notin Tabs /\ Gone # None
ASSUME TimeAssumption == TTL \in Nat /\ BEAT \in Nat \ {0} /\ BEAT < TTL
ASSUME StorageAssumption == StorageMayFail \in BOOLEAN

VARIABLES
  rec,     \* the record: its tab, whether its token is that tab's current one, its age
  mode,    \* mode[t]: the page runs, is frozen by the browser, or is closed
  held,    \* held[t]: t runs a turn (the interval of `held` exists)
  lost,    \* lost[t]: t was told that its lease was taken over
  due,     \* due[t]: ticks to the next heartbeat of a holder
  pc,      \* pc[t]: between which two accesses to the storage t is
  ping,    \* ping[t]: chatLeaseHolderAlive of t waits, was answered, or does not run
  inbox,   \* inbox[t]: the tabs that have not handled the ping of t yet
  same,    \* same[t]: raw() would still equal the record t asked about
  seen,    \* seen[t]: nobody wrote since t looked at what it is about to write (history)
  exposed  \* exposed[t]: since it took the lease t was frozen or could not write ("silent"), or
           \* its record went in a write whose look it was too late for ("crossed") (history)

vars == <<rec, mode, held, lost, due, pc, ping, inbox, same, seen, exposed>>

Record == [tab : Tabs \cup {Gone, None}, current : BOOLEAN, age : 0..TTL]
NoRecord == [tab |-> None, current |-> FALSE, age |-> 0]

\* The read-back is to come, or a write that follows what was looked at.
Midway == {"checked", "stamped", "unstamped", "beating", "releasing", "removing"}

TypeOK ==
  /\ rec \in Record
  /\ mode \in [Tabs -> {"up", "frozen", "closed"}]
  /\ held \in [Tabs -> BOOLEAN]
  /\ lost \in [Tabs -> BOOLEAN]
  /\ due \in [Tabs -> 0..BEAT]
  /\ pc \in [Tabs -> Midway \cup {"idle"}]
  /\ ping \in [Tabs -> {"none", "waiting", "answered"}]
  /\ inbox \in [Tabs -> SUBSET Tabs]
  /\ same \in [Tabs -> BOOLEAN]
  /\ seen \in [Tabs -> BOOLEAN]
  /\ exposed \in [Tabs -> {"no", "silent", "crossed"}]

Init ==
  /\ rec = NoRecord
  /\ mode = [t \in Tabs |-> "up"]
  /\ held = [t \in Tabs |-> FALSE]
  /\ lost = [t \in Tabs |-> FALSE]
  /\ due = [t \in Tabs |-> 0]
  /\ pc = [t \in Tabs |-> "idle"]
  /\ ping = [t \in Tabs |-> "none"]
  /\ inbox = [t \in Tabs |-> {}]
  /\ same = [t \in Tabs |-> FALSE]
  /\ seen = [t \in Tabs |-> FALSE]
  /\ exposed = [t \in Tabs |-> "no"]
-----------------------------------------------------------------------------
Fresh == rec.tab # None /\ rec.age < TTL
Ours(t) == rec.tab = t /\ rec.current
Busy(t) == Fresh /\ rec.tab # t

\* t is between two tasks of its event loop.
Runs(t) == mode[t] = "up" /\ pc[t] = "idle"

\* t has looked, and will write at its next step.
Looked(t, next) ==
  /\ pc' = [pc EXCEPT ![t] = next]
  /\ seen' = [seen EXCEPT ![t] = TRUE]

\* The record becomes r: whoever asked about the old one will see a difference, and a holder
\* whose record t did not see loses it.
Write(t, r) ==
  /\ rec' = r
  /\ same' = [u \in Tabs |-> FALSE]
  /\ seen' = [u \in Tabs |-> FALSE]
  /\ exposed' = [u \in Tabs |->
       IF u # t /\ held[u] /\ Ours(u) /\ ~seen[t] /\ exposed[u] = "no"
       THEN "crossed" ELSE exposed[u]]

Stamped(t) == [tab |-> t, current |-> TRUE, age |-> 0]

\* setItem throws, which is swallowed.
NotWritten(t) ==
  /\ StorageMayFail
  /\ seen' = [seen EXCEPT ![t] = FALSE]
  /\ UNCHANGED <<rec, same>>
-----------------------------------------------------------------------------
\* acquireChatLease: the busy check, a new token unless t already holds one.
AcquireCheck(t) ==
  /\ Runs(t)
  /\ ~Busy(t)
  /\ Looked(t, "checked")
  /\ lost' = [lost EXCEPT ![t] = FALSE]
  /\ rec' = IF rec.tab = t /\ ~held[t] THEN [rec EXCEPT !.current = FALSE] ELSE rec
  /\ UNCHANGED <<mode, held, due, ping, inbox, same, exposed>>

AcquireStamp(t) ==
  /\ pc[t] = "checked"
  /\ \/ Write(t, Stamped(t)) /\ pc' = [pc EXCEPT ![t] = "stamped"]
     \/ NotWritten(t) /\ pc' = [pc EXCEPT ![t] = "unstamped"] /\ UNCHANGED exposed
  /\ UNCHANGED <<mode, held, lost, due, ping, inbox>>

\* What t holds from now on; a record that is gone again leaves it exposed.
Holds(t) ==
  /\ held' = [held EXCEPT ![t] = TRUE]
  /\ due' = [due EXCEPT ![t] = IF held[t] THEN @ ELSE BEAT]
  /\ exposed' = [exposed EXCEPT ![t] = IF pc[t] = "unstamped" THEN "silent"
                                       ELSE IF rec.tab = None /\ @ = "no" THEN "crossed"
                                       ELSE @]

\* Planted bug: the record is not read back.
Bug_AcquireReadBack(t) ==
  /\ pc[t] \in {"stamped", "unstamped"}
  /\ pc' = [pc EXCEPT ![t] = "idle"]
  /\ Holds(t)
  /\ UNCHANGED <<rec, mode, lost, ping, inbox, same, seen>>

\* The read-back: another tab's fresh record means that this write did not stand.
AcquireReadBack(t) ==
  /\ pc[t] \in {"stamped", "unstamped"}
  /\ pc' = [pc EXCEPT ![t] = "idle"]
  /\ \/ Busy(t) /\ UNCHANGED <<held, due, exposed>>
     \/ ~Busy(t) /\ Holds(t)
  /\ UNCHANGED <<rec, mode, lost, ping, inbox, same, seen>>

\* Planted bug: the heartbeat rewrites the record whoever holds it.
Bug_BeatAlwaysStamps(t) ==
  /\ Runs(t) /\ held[t] /\ due[t] = 0
  /\ Looked(t, "beating")
  /\ UNCHANGED <<rec, mode, held, lost, due, ping, inbox, same, exposed>>

\* Planted bug: the heartbeat leaves the other tab's record alone and says nothing.
Bug_BeatIsSilent(t) ==
  /\ Runs(t) /\ held[t] /\ due[t] = 0
  /\ \/ Fresh /\ ~Ours(t) /\ due' = [due EXCEPT ![t] = BEAT] /\ UNCHANGED <<pc, seen>>
     \/ ~(Fresh /\ ~Ours(t)) /\ Looked(t, "beating") /\ UNCHANGED due
  /\ UNCHANGED <<rec, mode, held, lost, ping, inbox, same, exposed>>

\* beat(): another tab's fresh record is left alone and the loss is noted;
\* a missing or stale record, or our own, is stamped.
Beat(t) ==
  /\ Runs(t) /\ held[t] /\ due[t] = 0
  /\ \/ /\ Fresh /\ ~Ours(t)
        /\ due' = [due EXCEPT ![t] = BEAT]
        /\ lost' = [lost EXCEPT ![t] = TRUE]
        /\ UNCHANGED <<pc, seen>>
     \/ /\ ~(Fresh /\ ~Ours(t))
        /\ Looked(t, "beating")
        /\ UNCHANGED <<due, lost>>
  /\ UNCHANGED <<rec, mode, held, ping, inbox, same, exposed>>

BeatStamp(t) ==
  /\ pc[t] = "beating"
  /\ pc' = [pc EXCEPT ![t] = "idle"]
  /\ due' = [due EXCEPT ![t] = BEAT]
  /\ \/ Write(t, Stamped(t))
     \/ NotWritten(t) /\ exposed' = [exposed EXCEPT ![t] = "silent"]
  /\ UNCHANGED <<mode, held, lost, ping, inbox>>

\* releaseChatLease, at the end of a turn and in pagehide: only a record that is ours goes.
Release(t) ==
  /\ Runs(t) /\ held[t]
  /\ held' = [held EXCEPT ![t] = FALSE]
  /\ lost' = [lost EXCEPT ![t] = FALSE]
  /\ due' = [due EXCEPT ![t] = 0]
  /\ exposed' = [exposed EXCEPT ![t] = "no"]
  /\ IF Ours(t) THEN Looked(t, "releasing") ELSE UNCHANGED <<pc, seen>>
  /\ UNCHANGED <<rec, mode, ping, inbox, same>>

\* The removal that follows such a look, whatever the record is by now.
Removal(t, from) ==
  /\ pc[t] = from
  /\ pc' = [pc EXCEPT ![t] = "idle"]
  /\ Write(t, NoRecord)
  /\ UNCHANGED <<mode, held, lost, due, ping, inbox>>

ReleaseRemove(t) == Removal(t, "releasing")
-----------------------------------------------------------------------------
\* chatLeaseHolderAlive: the question is asked of every page, t's own bus too.
Ask(t) ==
  /\ Runs(t) /\ ping[t] = "none"
  /\ Busy(t)
  /\ ping' = [ping EXCEPT ![t] = "waiting"]
  /\ inbox' = [inbox EXCEPT ![t] = {u \in Tabs : mode[u] # "closed"}]
  /\ same' = [same EXCEPT ![t] = TRUE]
  /\ UNCHANGED <<rec, mode, held, lost, due, pc, seen, exposed>>

\* Planted bug: u answers every ping but its own, whether it holds the lease or not.
Bug_HandlePing(u, t) ==
  /\ Runs(u) /\ u \in inbox[t]
  /\ inbox' = [inbox EXCEPT ![t] = @ \ {u}]
  /\ ping' = [ping EXCEPT ![t] = IF u # t THEN "answered" ELSE @]
  /\ UNCHANGED <<rec, mode, held, lost, due, pc, same, seen, exposed>>

\* The channel's onmessage: u answers for a lease it really holds.
HandlePing(u, t) ==
  /\ Runs(u) /\ u \in inbox[t]
  /\ inbox' = [inbox EXCEPT ![t] = @ \ {u}]
  /\ ping' = [ping EXCEPT ![t] = IF held[u] /\ Ours(u) THEN "answered" ELSE @]
  /\ UNCHANGED <<rec, mode, held, lost, due, pc, same, seen, exposed>>

\* LEASE_PING_WAIT_MS is over: every page that runs has handled the ping by
\* now.  Unanswered, the record is to go, unless it changed during the wait.
Conclude(t) ==
  /\ Runs(t) /\ ping[t] # "none"
  /\ \A u \in inbox[t] : mode[u] # "up"
  /\ ping' = [ping EXCEPT ![t] = "none"]
  /\ inbox' = [inbox EXCEPT ![t] = {}]
  /\ same' = [same EXCEPT ![t] = FALSE]
  /\ IF ping[t] = "waiting" /\ same[t] /\ rec.tab # t
     THEN Looked(t, "removing")
     ELSE UNCHANGED <<pc, seen>>
  /\ UNCHANGED <<rec, mode, held, lost, due, exposed>>

Remove(t) == Removal(t, "removing")
-----------------------------------------------------------------------------
\* The browser stops running the page (background, sleep, a blocked thread).
Freeze(t) ==
  /\ Runs(t)
  /\ mode' = [mode EXCEPT ![t] = "frozen"]
  /\ exposed' = [exposed EXCEPT ![t] = IF held[t] THEN "silent" ELSE @]
  /\ UNCHANGED <<rec, held, lost, due, pc, ping, inbox, same, seen>>

Thaw(t) ==
  /\ mode[t] = "frozen"
  /\ mode' = [mode EXCEPT ![t] = "up"]
  /\ UNCHANGED <<rec, held, lost, due, pc, ping, inbox, same, seen, exposed>>

\* Nothing of the page is left but its record, which names no living page.
Forget(t) ==
  /\ mode' = [mode EXCEPT ![t] = "closed"]
  /\ ping' = [ping EXCEPT ![t] = "none"]
  /\ inbox' = [u \in Tabs |-> IF u = t THEN {} ELSE inbox[u] \ {t}]

\* The page goes behind its pagehide, which has given the lease back.
Close(t) ==
  /\ Runs(t) /\ ~held[t]
  /\ Forget(t)
  /\ UNCHANGED <<rec, held, lost, due, pc, same, seen, exposed>>

\* A reload, a crash, a tab the browser discarded: pagehide did not run.
Crash(t) ==
  /\ mode[t] # "closed"
  /\ Forget(t)
  /\ held' = [held EXCEPT ![t] = FALSE]
  /\ lost' = [lost EXCEPT ![t] = FALSE]
  /\ due' = [due EXCEPT ![t] = 0]
  /\ exposed' = [exposed EXCEPT ![t] = "no"]
  /\ pc' = [pc EXCEPT ![t] = "idle"]
  /\ seen' = [seen EXCEPT ![t] = FALSE]
  /\ rec' = IF rec.tab = t THEN [rec EXCEPT !.tab = Gone, !.current = FALSE] ELSE rec
  /\ UNCHANGED same

Open(t) ==
  /\ mode[t] = "closed"
  /\ mode' = [mode EXCEPT ![t] = "up"]
  /\ UNCHANGED <<rec, held, lost, due, pc, ping, inbox, same, seen, exposed>>

\* Time passes, but not past the heartbeat of a page that runs, and not between two accesses
\* of one function.
Tick ==
  /\ \A t \in Tabs : pc[t] = "idle" /\ (mode[t] = "up" /\ held[t] => due[t] > 0)
  /\ rec' = IF Fresh THEN [rec EXCEPT !.age = @ + 1] ELSE rec
  /\ due' = [t \in Tabs |-> IF due[t] > 0 THEN due[t] - 1 ELSE 0]
  /\ UNCHANGED <<mode, held, lost, pc, ping, inbox, same, seen, exposed>>

Next ==
  \/ \E t \in Tabs :
       \/ AcquireCheck(t) \/ AcquireStamp(t) \/ AcquireReadBack(t)
       \/ Beat(t) \/ BeatStamp(t) \/ Release(t) \/ ReleaseRemove(t)
       \/ Ask(t) \/ Conclude(t) \/ Remove(t)
       \/ Freeze(t) \/ Thaw(t) \/ Close(t) \/ Crash(t) \/ Open(t)
       \/ \E u \in Tabs : HandlePing(u, t)
  \/ Tick

\* Timers fire and tasks run in a page that runs; a function that began is gone through; time
\* passes; the browser resumes a frozen page when the user comes back to it.  Nobody has to
\* start or to end a turn, and nobody has to ask.
Fairness ==
  /\ SF_vars(Tick)
  /\ \A t \in Tabs :
       /\ WF_vars(AcquireStamp(t)) /\ WF_vars(AcquireReadBack(t)) /\ WF_vars(BeatStamp(t))
       /\ WF_vars(ReleaseRemove(t)) /\ WF_vars(Remove(t))
       /\ SF_vars(Beat(t)) /\ WF_vars(Thaw(t))

Spec == Init /\ [][Next]_vars
FairSpec == Spec /\ Fairness
-----------------------------------------------------------------------------
\* chat-lease.ts:1: "one tab at a time runs a turn in a given chat".  Two tabs can both be
\* inside a turn only if one of them was frozen or could not write since it took the lease, or
\* if another tab that had looked before wrote over its record behind its read-back.
OneTurnUnlessExposed ==
  \A t, u \in Tabs : t # u /\ held[t] /\ held[u] => exposed[t] # "no" \/ exposed[u] # "no"

\* While a holder is not exposed its record stands and stays young enough: no other tab's
\* acquire, heartbeat, release or unanswered ping can reach it.
LiveLeaseStands ==
  \A t \in Tabs : held[t] /\ exposed[t] = "no" => Ours(t) /\ rec.age < TTL

\* A page, frozen or not, loses a lease that has not run out in three ways only: it ends its
\* turn; another tab removes the record, having looked at it, while the page had been silent;
\* or another tab writes that has not seen the record.  And nobody decides to remove the
\* record of a holder that is not frozen.
KeepsLease(t) ==
  (held[t] /\ Fresh /\ Ours(t) /\ ~(rec'.tab = t /\ rec'.current))
    => \/ ~held'[t]
       \/ exposed[t] = "silent" /\ \E u \in Tabs : pc[u] = "removing" /\ pc'[u] = "idle"
       \/ \E u \in Tabs : u # t /\ pc[u] # "idle" /\ ~seen[u] /\ pc'[u] # pc[u]
JudgedOnlyFrozen(t) ==
  \A u \in Tabs : (held[t] /\ Ours(t) /\ pc[u] # "removing" /\ pc'[u] = "removing")
                    => mode[t] = "frozen"
TakenOnlyWhenSilent == [][\A t \in Tabs : KeepsLease(t) /\ JudgedOnlyFrozen(t)]_vars

\* Nobody vouches for the record of a page that is gone: asking about it ends with the record
\* removed, so the chat is free without waiting out the TTL.
NobodyVouches(t) ==
  (ping[t] = "waiting" /\ same[t] /\ rec.tab = Gone /\ mode'[t] # "closed")
    => ping'[t] # "answered" /\ (ping'[t] = "none" => pc'[t] = "removing")
GoesWhenJudged(t) ==
  (pc[t] = "removing" /\ pc'[t] # "removing" /\ mode'[t] # "closed") => rec'.tab = None
OrphanIsRemoved == [][\A t \in Tabs : NobodyVouches(t) /\ GoesWhenJudged(t)]_vars

\* A tab that was overtaken while it did not run, or behind its read-back, finds out at its next
\* heartbeat, unless the lease became free again first.
Overtaken(t) == held[t] /\ Fresh /\ ~Ours(t)
OvertakenIsTold ==
  \A t \in Tabs : Overtaken(t) ~> (lost[t] \/ ~Overtaken(t))

=============================================================================
