------------------------------ MODULE ChatCache ------------------------------
(***************************************************************************)
(* The two copies of one chat's history (chat-state.ts).  saveHistory      *)
(* writes the history to localStorage (the cache: synchronous, limited,    *)
(* shared by the tabs), stamps it with the name of the save, and sends it  *)
(* to the session store, whose answer comes later and is noted in the      *)
(* stamp.  loadChatHistory reads the store and takes the cache instead     *)
(* when the stamp says that the store has not confirmed it.  Caches of     *)
(* chats that are not open are dropped to make room.                       *)
(*                                                                         *)
(* Each save has a number, its rev.  A save that changes the history makes *)
(* the version of that number: a turn extends (a rewind shortens) the      *)
(* version it was built on, so building on an older version loses the      *)
(* newer one.  Version 0 is an empty history, or one with messages missing.*)
(***************************************************************************)
EXTENDS Naturals, Sequences

CONSTANTS
  Tabs,          \* the tabs that can open the chat
  MaxSaves,      \* bound on the saves
  MaxCrashes     \* bound on the pages that die

ASSUME CacheAssumption == MaxSaves \in Nat /\ MaxCrashes \in Nat

VARIABLES
  saves,    \* how many saves there were: the number of the newest
  oh,       \* the cached history: its version (0: none), and whether it is a trimmed one
  stamp,    \* the stamp beside it: rev (0: none), trimmed, acked
  db,       \* the version the session store holds (0: none)
  txs,      \* the transactions of the session store, in creation order
  open,     \* open[t]: the chat is the active one of t
  mem,      \* mem[t]: the version the history of t was built on
  load,     \* load[t]: where loadChatHistory of t is
  seen,     \* _seenRev of t
  durable,  \* t has the chat in _durableHistory
  saving,   \* saving[t]: the save the store works on for t, and the merged one behind it
  events,   \* events[t]: what the store answered and t has not handled
  turns,    \* turns[t]: t runs a turn in the chat, under the lease (see ChatLease) or without
  asked,    \* asked[t]: _pruneChatCaches of t waits for the length of the stored history
  crashes,  \* pages that died
  cached,   \* the newest version, when its save cached it whole and stamped it (history)
  confirmed,\* the newest version the store confirmed to its tab (history)
  races     \* the races below that happened so far (history)

\* Dropped: a cache was dropped that held more than the store did.  Crossed: the store
\* took an older save of one tab, or of a page that died, after a newer one of another.
\* Overtaken: a save was confirmed between a store read and the look at the stamp.
\* Unread: the store failed to read a history that no whole cache stands in for.
\* Uncached: a save was not cached whole with its stamp, or a cache was dropped; another tab
\* cannot see that the chat was saved, or cannot read it before the store has it.
\* Shared: a tab opened the chat beside a page of another tab that had had it.
\* Unlooked: a turn began although another tab had saved the chat, or while it was loading.
\* Unleased: a turn began beside one of another tab, one of them without the lease.
Races == {"dropped", "crossed", "overtaken", "unread", "uncached", "shared", "unlooked", "unleased"}
Note(happens, race) == races' = races \cup (IF happens THEN {race} ELSE {})

shared == <<saves, oh, stamp, db, txs>>
tabs == <<open, mem, load, seen, durable, saving, events, turns, asked>>
saved == <<cached, confirmed>>
cacheVars == <<shared, tabs, crashes, saved, races>>

Versions == 0..MaxSaves
NoStamp == [rev |-> 0, trimmed |-> FALSE, acked |-> FALSE]
NoSave == [version |-> 0, revs |-> {}]
Save == [version : Versions, revs : SUBSET (1..MaxSaves)]
Tx == [tab : Tabs, kind : {"save", "generation", "record"}, version : Versions]

CacheTypeOK ==
  /\ saves \in Versions /\ db \in Versions
  /\ cached \in Versions /\ confirmed \in Versions
  /\ oh \in [version : Versions, trimmed : BOOLEAN]
  /\ stamp \in [rev : Versions, trimmed : BOOLEAN, acked : BOOLEAN]
  /\ txs \in Seq(Tx)
  /\ open \in [Tabs -> BOOLEAN]
  /\ mem \in [Tabs -> Versions]
  /\ load \in [Tabs -> {"none", "reading"}]
  /\ seen \in [Tabs -> Versions]
  /\ durable \in [Tabs -> BOOLEAN]
  /\ saving \in [Tabs -> [now : Save, next : Save]]
  /\ events \in [Tabs -> Seq([kind : {"saved", "failed", "generation", "record"}, version : Versions])]
  /\ turns \in [Tabs -> {"none", "leased", "loose"}]
  /\ asked \in [Tabs -> BOOLEAN]
  /\ crashes \in 0..MaxCrashes
  /\ races \subseteq Races
  /\ \A t \in Tabs : saving[t].now = NoSave => saving[t].next = NoSave

CacheInit ==
  /\ saves = 0 /\ db = 0 /\ cached = 0 /\ confirmed = 0 /\ crashes = 0 /\ races = {}
  /\ oh = [version |-> 0, trimmed |-> FALSE]
  /\ stamp = NoStamp
  /\ txs = <<>>
  /\ open = [t \in Tabs |-> FALSE]
  /\ mem = [t \in Tabs |-> 0]
  /\ load = [t \in Tabs |-> "none"]
  /\ seen = [t \in Tabs |-> 0]
  /\ durable = [t \in Tabs |-> FALSE]
  /\ saving = [t \in Tabs |-> [now |-> NoSave, next |-> NoSave]]
  /\ events = [t \in Tabs |-> <<>>]
  /\ turns = [t \in Tabs |-> "none"]
  /\ asked = [t \in Tabs |-> FALSE]
-----------------------------------------------------------------------------
Larger(a, b) == IF a < b THEN b ELSE a

\* chatChangedElsewhere
ChangedElsewhere(t) == stamp.rev # 0 /\ seen[t] # stamp.rev

\* chatCacheIsNewer
CacheIsNewer == stamp.rev # 0 /\ ~stamp.acked /\ ~stamp.trimmed /\ oh.version # 0

\* The version loadChatHistory restores when the store returned stored.
Restored(stored) ==
  IF stored # 0 /\ ~CacheIsNewer THEN stored
  ELSE IF oh.trimmed THEN 0 ELSE oh.version

\* Planted bug: a save is always put behind another one.
Bug_SendToStore(t, v) ==
  /\ saving' = [saving EXCEPT ![t].next = [version |-> v, revs |-> {saves + 1}]]
  /\ UNCHANGED txs

\* sessionSaveHistory(t): at once, or merged into the one that waits.
SendToStore(t, v) ==
  LET s == [version |-> v, revs |-> {saves + 1}] IN
  IF saving[t].now = NoSave
  THEN /\ saving' = [saving EXCEPT ![t].now = s]
       /\ txs' = Append(txs, [tab |-> t, kind |-> "save", version |-> v])
  ELSE /\ saving' = [saving EXCEPT ![t].next = [s EXCEPT !.revs = @ \cup saving[t].next.revs]]
       /\ UNCHANGED txs

\* The cache is written, whole or trimmed, and stamped.
CacheStamped(t, v, trimmed) ==
  /\ oh' = [version |-> v, trimmed |-> trimmed]
  /\ stamp' = [rev |-> saves + 1, trimmed |-> trimmed, acked |-> FALSE]
  /\ seen' = [seen EXCEPT ![t] = saves + 1]
  /\ cached' = IF trimmed THEN 0 ELSE v

\* No copy could be written: the stamp of the older one goes.
CacheRefused == stamp' = NoStamp /\ cached' = 0 /\ UNCHANGED <<oh, seen>>

\* The cache is written where none was stamped, and the stamp is refused.
CacheUnstamped(v) ==
  /\ stamp.rev = 0
  /\ \E trimmed \in BOOLEAN : oh' = [version |-> v, trimmed |-> trimmed]
  /\ cached' = 0
  /\ UNCHANGED <<stamp, seen>>

\* saveHistory of version v, which t has in memory; the save is named saves + 1.
SaveHistory(t, v) ==
  /\ saves < MaxSaves /\ saves' = saves + 1
  /\ mem' = [mem EXCEPT ![t] = v]
  /\ CacheStamped(t, v, FALSE) \/ CacheStamped(t, v, TRUE) \/ CacheRefused \/ CacheUnstamped(v)
  /\ Note(cached' # v, "uncached")
  /\ SendToStore(t, v)
-----------------------------------------------------------------------------
\* loadChatHistory(t) begins: the stamp is noted, then the store is asked.
BeginLoad(t) ==
  /\ load' = [load EXCEPT ![t] = "reading"]
  /\ seen' = IF stamp.rev = 0 THEN seen ELSE [seen EXCEPT ![t] = stamp.rev]
  /\ mem' = [mem EXCEPT ![t] = 0]
  /\ txs' = Append(txs, [tab |-> t, kind |-> "generation", version |-> 0])

\* The page of t has had nothing to do with the chat.
NeverHere(t) == ~open[t] /\ seen[t] = 0 /\ ~durable[t] /\ saving[t].now = NoSave

\* switchToChat opens the chat.
OpenChat(t) ==
  /\ ~open[t] /\ load[t] = "none"
  /\ open' = [open EXCEPT ![t] = TRUE]
  /\ BeginLoad(t)
  /\ Note(\E u \in Tabs \ {t} : ~NeverHere(u), "shared")
  /\ UNCHANGED <<saves, oh, stamp, db, durable, saving, events, turns, asked, crashes, saved>>

\* reloadChatIfChangedElsewhere, from the storage event or from a Send.
ReloadChanged(t) ==
  /\ open[t] /\ load[t] = "none" /\ turns[t] = "none"
  /\ ChangedElsewhere(t)
  /\ BeginLoad(t)
  /\ UNCHANGED <<saves, oh, stamp, db, open, durable, saving, events, turns, asked, crashes,
                 saved, races>>

\* switchToChat leaves the chat, which is saved first unless another tab has saved it.
LeaveChat(t) ==
  /\ open[t] /\ turns[t] = "none"
  /\ open' = [open EXCEPT ![t] = FALSE]
  /\ IF load[t] = "none" /\ ~ChangedElsewhere(t)
     THEN SaveHistory(t, mem[t])
     ELSE UNCHANGED <<saves, oh, stamp, txs, mem, seen, saving, cached, races>>
  /\ UNCHANGED <<confirmed, db, load, durable, events, turns, asked, crashes>>

\* A turn of t begins, under the lease or without.
TurnBegins(t, how) ==
  /\ open[t] /\ turns[t] = "none"
  /\ how = "leased" => \A u \in Tabs \ {t} : turns[u] # "leased"
  /\ turns' = [turns EXCEPT ![t] = how]
  /\ races' = races \cup (IF ChangedElsewhere(t) \/ load[t] # "none" THEN {"unlooked"} ELSE {})
                   \cup (IF \E u \in Tabs \ {t} : turns[u] # "none" THEN {"unleased"} ELSE {})
  /\ UNCHANGED <<shared, open, mem, load, seen, durable, saving, events, asked, crashes, saved>>

\* Planted bug: a Send begins on what the tab has in memory, whatever other tabs saved.
Bug_BeginTurn(t) ==
  /\ open[t] /\ turns[t] = "none" /\ \A u \in Tabs \ {t} : turns[u] = "none"
  /\ turns' = [turns EXCEPT ![t] = "leased"]
  /\ UNCHANGED <<shared, open, mem, load, seen, durable, saving, events, asked, crashes, saved, races>>

\* agentSend: with the lease, and with what other tabs saved read first.
BeginTurn(t) == load[t] = "none" /\ ~ChangedElsewhere(t) /\ TurnBegins(t, "leased")

\* _processQueue or a turn of a goal: with the lease, on what the tab has in memory.
BeginQueued(t) == TurnBegins(t, "leased")

\* retryLastTurn, a rewind, or a turn of the task runner: without the lease as well.
BeginLoose(t) == TurnBegins(t, "loose")

\* A save of the running turn, the last one or not; saveHistory does nothing during a load.
TurnSave(t) ==
  /\ turns[t] # "none"
  /\ \E how \in {turns[t], "none"} : turns' = [turns EXCEPT ![t] = how]
  /\ IF load[t] = "none"
     THEN SaveHistory(t, saves + 1)
     ELSE UNCHANGED <<saves, oh, stamp, txs, mem, seen, saving, cached, races>>
  /\ UNCHANGED <<confirmed, db, open, load, durable, events, asked, crashes>>
-----------------------------------------------------------------------------
AdoptLoad(t, stored) ==
  /\ load' = [load EXCEPT ![t] = "none"]
  /\ mem' = IF open[t] THEN [mem EXCEPT ![t] = Restored(stored)] ELSE mem
  /\ Note(open[t] /\ Restored(stored) = stored /\ stored < db, "overtaken")

\* The store runs the oldest transaction: a save commits or aborts; a load reads the
\* newest generation and then its record, or nothing after an error.
StoreStep ==
  /\ txs # <<>>
  /\ LET x == Head(txs)
         told(kind, v) == events' = [events EXCEPT ![x.tab] = Append(@, [kind |-> kind, version |-> v])]
     IN
     \/ /\ x.kind = "save"
        /\ \/ db' = x.version /\ told("saved", x.version)
           \/ told("failed", x.version) /\ UNCHANGED db
        /\ Note(db' < db, "crossed")
     \/ x.kind = "generation" /\ told(x.kind, 0) /\ UNCHANGED <<db, races>>
     \/ /\ x.kind = "record"
        /\ \E stored \in {0, db} :
             told(x.kind, stored) /\ Note(stored < db /\ Restored(stored) < db, "unread")
        /\ UNCHANGED db
  /\ txs' = Tail(txs)
  /\ UNCHANGED <<saves, oh, stamp, open, mem, load, seen, durable, saving, turns, asked,
                 crashes, saved>>

\* Planted bug: the answer to an older save is taken for the one that wrote the cache.
Bug_NoteDurable(t, ok) ==
  /\ durable' = [durable EXCEPT ![t] = ok]
  /\ stamp' = IF ok /\ stamp.rev # 0 THEN [stamp EXCEPT !.acked = TRUE] ELSE stamp

\* _noteDurable, for every save that was merged into the one that was written; the larger
\* stamp may not fit.
NoteDurable(t, ok) ==
  /\ durable' = [durable EXCEPT ![t] = ok]
  /\ \/ UNCHANGED stamp
     \/ ok /\ stamp.rev \in saving[t].now.revs /\ stamp' = [stamp EXCEPT !.acked = TRUE]

\* t handles the oldest answer of the store.
HandleEvent(t) ==
  /\ events[t] # <<>>
  /\ events' = [events EXCEPT ![t] = Tail(@)]
  /\ LET e == Head(events[t])  next == saving[t].next IN
     CASE e.kind = "generation" ->
            /\ txs' = Append(txs, [tab |-> t, kind |-> "record", version |-> 0])
            /\ UNCHANGED <<stamp, durable, saving, mem, load, confirmed, races>>
       [] e.kind = "record" ->
            AdoptLoad(t, e.version) /\ UNCHANGED <<stamp, txs, durable, saving, confirmed>>
       [] OTHER ->
          /\ NoteDurable(t, e.kind = "saved")
          /\ confirmed' = IF e.kind = "saved" THEN Larger(confirmed, e.version) ELSE confirmed
          /\ saving' = [saving EXCEPT ![t] = [now |-> next, next |-> NoSave]]
          /\ txs' = IF next = NoSave THEN txs
                    ELSE Append(txs, [tab |-> t, kind |-> "save",
                                      version |-> next.version])
          /\ UNCHANGED <<mem, load, races>>
  /\ UNCHANGED <<saves, oh, db, open, seen, turns, asked, crashes, cached>>

\* _pruneChatCaches comes to a chat that is not open: without a stamp and an answer to a save of
\* this tab it asks the store how long the history is.
AskStored(t) ==
  /\ ~open[t] /\ ~asked[t] /\ ~durable[t] /\ stamp.rev = 0
  /\ asked' = [asked EXCEPT ![t] = TRUE]
  /\ UNCHANGED <<shared, open, mem, load, seen, durable, saving, events, turns, crashes, saved, races>>

\* The store has nothing, less, or an error: the cache stays.
SpareCache(t) ==
  /\ asked[t]
  /\ asked' = [asked EXCEPT ![t] = FALSE]
  /\ UNCHANGED <<shared, open, mem, load, seen, durable, saving, events, turns, crashes, saved, races>>

Dropped(t) ==
  /\ oh' = [version |-> 0, trimmed |-> FALSE]
  /\ stamp' = NoStamp
  /\ races' = races \cup (IF oh.version # 0 \/ stamp.rev # 0 THEN {"uncached"} ELSE {})
                   \cup (IF oh.version > db THEN {"dropped"} ELSE {})
  /\ UNCHANGED <<saves, db, txs, open, mem, load, seen, saving, events, turns, crashes, saved>>

\* _pruneChatCaches or evictOldChatCaches of a tab in which another chat is open: the store
\* answered a save of this tab, or the stamp has its answer.
DropCache(t) ==
  /\ ~open[t] /\ oh.version # 0
  /\ durable[t] \/ (stamp.rev # 0 /\ stamp.acked)
  /\ Dropped(t)
  /\ UNCHANGED <<durable, asked>>

\* The store had as many messages as the cache, which says nothing about their version, and
\* nothing about what was cached or opened while it answered.
DropShorter(t) ==
  /\ asked[t] /\ db # 0
  /\ asked' = [asked EXCEPT ![t] = FALSE]
  /\ durable' = [durable EXCEPT ![t] = TRUE]
  /\ Dropped(t)

\* What the other tabs have asked of the store.
Without(q, t) ==
  LET kept[i \in 0..Len(q)] ==
        IF i = 0 THEN <<>>
        ELSE IF q[i].tab = t THEN kept[i - 1] ELSE Append(kept[i - 1], q[i])
  IN  kept[Len(q)]

\* The page dies; the transactions it created end either way.  A new page takes its place.
Crash(t) ==
  /\ crashes < MaxCrashes /\ crashes' = crashes + 1
  /\ \/ UNCHANGED db
     \/ \E i \in 1..Len(txs) :
          txs[i].tab = t /\ txs[i].kind = "save" /\ db' = txs[i].version
  /\ txs' = Without(txs, t)
  /\ open' = [open EXCEPT ![t] = FALSE]
  /\ mem' = [mem EXCEPT ![t] = 0]
  /\ load' = [load EXCEPT ![t] = "none"]
  /\ seen' = [seen EXCEPT ![t] = 0]
  /\ durable' = [durable EXCEPT ![t] = FALSE]
  /\ saving' = [saving EXCEPT ![t] = [now |-> NoSave, next |-> NoSave]]
  /\ events' = [events EXCEPT ![t] = <<>>]
  /\ turns' = [turns EXCEPT ![t] = "none"]
  /\ asked' = [asked EXCEPT ![t] = FALSE]
  /\ Note(db' < db, "crossed")
  /\ UNCHANGED <<saves, oh, stamp, saved>>

CacheNext ==
  \/ \E t \in Tabs : OpenChat(t) \/ ReloadChanged(t) \/ LeaveChat(t)
  \/ \E t \in Tabs : BeginTurn(t) \/ BeginQueued(t) \/ BeginLoose(t) \/ TurnSave(t)
  \/ \E t \in Tabs : AskStored(t) \/ SpareCache(t) \/ DropCache(t) \/ DropShorter(t)
  \/ \E t \in Tabs : HandleEvent(t) \/ Crash(t)
  \/ StoreStep

CacheSpec == CacheInit /\ [][CacheNext]_cacheVars
-----------------------------------------------------------------------------
Safe == Larger(cached, confirmed)

\* Opening the chat restores the newest history that was ever cached whole or confirmed by
\* the store, or one that was saved later - whatever is under way, crashed, failed or was
\* merged - unless a cache was dropped that was ahead of the store, the store took saves out
\* of order, or a failed read was taken for an empty history.
SavedIsRestored ==
  \/ races \subseteq {"overtaken", "uncached", "unlooked"}
  \/ races \subseteq {"shared", "unlooked", "unleased"}
  => Restored(db) >= Safe

\* Every save is built on the newest saved history, so that it loses none of its messages.
SaveLosesNothing ==
  [][\A t \in Tabs :
       (saves' # saves /\ saving'[t] # saving[t] /\ races \subseteq {"shared"}) => mem[t] >= Safe]_cacheVars
=============================================================================
