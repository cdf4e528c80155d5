----------------------------- MODULE LockProofs -----------------------------
(***************************************************************************)
(* Proofs about what excludes the tabs of a browser, and the requests of a *)
(* page, from one another.                                                 *)
(*                                                                         *)
(* ChatLease, for any number of tabs, any lease and heartbeat times with   *)
(* BEAT < TTL, and any interleaving of the tabs' accesses to the storage:  *)
(* type correctness, and that a record which nobody wrote blindly over     *)
(* keeps every other tab out while its page keeps running.                 *)
(*                                                                         *)
(* EndpointSlot, for any set of requests and endpoints: type     *)
(* correctness, one request at a time per endpoint, and that the slots     *)
(* implement the mutex with arrival order (EndpointMutex).                 *)
(***************************************************************************)
EXTENDS ChatLease, EndpointSlot, TLAPS

\* What is written is a record, and the flags of a write are flags.
LEMMA WriteType ==
  ASSUME NEW t \in Tabs, TypeOK, NEW r \in {Stamped(t), NoRecord}, Write(t, r)
  PROVE  /\ rec' \in Record
         /\ same' \in [Tabs -> BOOLEAN] /\ seen' \in [Tabs -> BOOLEAN]
         /\ exposed' \in [Tabs -> {"no", "silent", "crossed"}]
<1>1. Stamped(t) \in Record /\ NoRecord \in Record
  BY TimeAssumption DEF Record, Stamped, NoRecord
<1>2. QED
  BY <1>1 DEF Write, TypeOK

\* Every variable stays in its type.
THEOREM TypeCorrect == Spec => []TypeOK
<1>1. Init => TypeOK
  BY TimeAssumption DEF Init, TypeOK, Record, NoRecord
<1>2. TypeOK /\ [Next]_vars => TypeOK'
  <2> SUFFICES ASSUME TypeOK, [Next]_vars PROVE TypeOK'
    OBVIOUS
  <2> USE TimeAssumption
  <2>1. ASSUME NEW t \in Tabs, AcquireCheck(t) PROVE TypeOK'
    BY <2>1 DEF TypeOK, Record, Midway, AcquireCheck, Looked
  <2>2. ASSUME NEW t \in Tabs, AcquireStamp(t) PROVE TypeOK'
    <3>1. pc' \in [Tabs -> Midway \cup {"idle"}]
      BY <2>2 DEF TypeOK, Midway, AcquireStamp
    <3>2. CASE Write(t, Stamped(t))
      BY <2>2, <3>1, <3>2, WriteType DEF TypeOK, AcquireStamp
    <3>3. CASE NotWritten(t) /\ UNCHANGED exposed
      BY <2>2, <3>1, <3>3 DEF TypeOK, AcquireStamp, NotWritten
    <3>4. QED
      BY <2>2, <3>2, <3>3 DEF AcquireStamp
  <2>3. ASSUME NEW t \in Tabs, AcquireReadBack(t) PROVE TypeOK'
    <3>1. BEAT \in 0..BEAT /\ due[t] \in 0..BEAT
      BY DEF TypeOK
    <3>2. held' \in [Tabs -> BOOLEAN] /\ due' \in [Tabs -> 0..BEAT]
      <4>1. CASE Busy(t)
        BY <2>3, <4>1 DEF TypeOK, AcquireReadBack
      <4>2. CASE ~Busy(t)
        <5>1. due' = [due EXCEPT ![t] = IF held[t] THEN due[t] ELSE BEAT]
          BY <2>3, <4>2 DEF AcquireReadBack, Holds
        <5>2. (IF held[t] THEN due[t] ELSE BEAT) \in 0..BEAT
          BY <3>1
        <5>3. QED
          BY <2>3, <4>2, <5>1, <5>2 DEF TypeOK, AcquireReadBack, Holds
      <4>3. QED
        BY <4>1, <4>2
    <3>3. exposed' \in [Tabs -> {"no", "silent", "crossed"}]
      BY <2>3 DEF TypeOK, AcquireReadBack, Holds
    <3>4. QED
      BY <2>3, <3>2, <3>3 DEF TypeOK, AcquireReadBack
  <2>4. ASSUME NEW t \in Tabs, Beat(t) PROVE TypeOK'
    <3>1. BEAT \in 0..BEAT
      OBVIOUS
    <3>2. pc' \in [Tabs -> Midway \cup {"idle"}] /\ seen' \in [Tabs -> BOOLEAN]
      <4>1. CASE Looked(t, "beating")
        BY <4>1 DEF TypeOK, Midway, Looked
      <4>2. CASE UNCHANGED <<pc, seen>>
        BY <4>2 DEF TypeOK
      <4>3. QED
        BY <2>4, <4>1, <4>2 DEF Beat
    <3>3. due' \in [Tabs -> 0..BEAT]
      BY <2>4, <3>1 DEF TypeOK, Beat
    <3>4. lost' \in [Tabs -> BOOLEAN]
      BY <2>4 DEF TypeOK, Beat
    <3>5. QED
      BY <2>4, <3>2, <3>3, <3>4 DEF TypeOK, Beat
  <2>5. ASSUME NEW t \in Tabs, BeatStamp(t) PROVE TypeOK'
    <3>1. BEAT \in 0..BEAT
      OBVIOUS
    <3>2. pc' \in [Tabs -> Midway \cup {"idle"}]
      BY <2>5 DEF TypeOK, Midway, BeatStamp
    <3>3. due' \in [Tabs -> 0..BEAT]
      BY <2>5, <3>1 DEF TypeOK, BeatStamp
    <3>4. CASE Write(t, Stamped(t))
      BY <2>5, <3>2, <3>3, <3>4, WriteType DEF TypeOK, BeatStamp
    <3>5. CASE NotWritten(t) /\ exposed' = [exposed EXCEPT ![t] = "silent"]
      BY <2>5, <3>2, <3>3, <3>5 DEF TypeOK, BeatStamp, NotWritten
    <3>6. QED
      BY <2>5, <3>4, <3>5 DEF BeatStamp
  <2>6. ASSUME NEW t \in Tabs, Release(t) PROVE TypeOK'
    <3>1. pc' \in [Tabs -> Midway \cup {"idle"}] /\ seen' \in [Tabs -> BOOLEAN]
      BY <2>6 DEF TypeOK, Midway, Release, Looked
    <3>2. held' \in [Tabs -> BOOLEAN] /\ lost' \in [Tabs -> BOOLEAN] /\ due' \in [Tabs -> 0..BEAT]
      BY <2>6 DEF TypeOK, Release
    <3>3. exposed' \in [Tabs -> {"no", "silent", "crossed"}]
      BY <2>6 DEF TypeOK, Release
    <3>4. QED
      BY <2>6, <3>1, <3>2, <3>3 DEF TypeOK, Release
  <2>7. ASSUME NEW t \in Tabs, ReleaseRemove(t) \/ Remove(t) PROVE TypeOK'
    <3>1. Write(t, NoRecord) /\ pc' \in [Tabs -> Midway \cup {"idle"}]
      BY <2>7 DEF TypeOK, Midway, ReleaseRemove, Remove, Removal
    <3>2. QED
      BY <2>7, <3>1, WriteType DEF TypeOK, ReleaseRemove, Remove, Removal
  <2>8. ASSUME NEW t \in Tabs, Ask(t) PROVE TypeOK'
    BY <2>8 DEF TypeOK, Ask
  <2>9. ASSUME NEW t \in Tabs, NEW u \in Tabs, HandlePing(u, t) PROVE TypeOK'
    BY <2>9 DEF TypeOK, HandlePing
  <2>10. ASSUME NEW t \in Tabs, Conclude(t) PROVE TypeOK'
    BY <2>10 DEF TypeOK, Midway, Conclude, Looked
  <2>11. ASSUME NEW t \in Tabs, Freeze(t) \/ Thaw(t) \/ Open(t) PROVE TypeOK'
    BY <2>11 DEF TypeOK, Freeze, Thaw, Open
  <2>12. ASSUME NEW t \in Tabs, Close(t) PROVE TypeOK'
    BY <2>12 DEF TypeOK, Close, Forget
  <2>13. ASSUME NEW t \in Tabs, Crash(t) PROVE TypeOK'
    <3>1. rec' \in Record
      BY <2>13 DEF TypeOK, Record, Crash
    <3>2. pc' \in [Tabs -> Midway \cup {"idle"}] /\ inbox' \in [Tabs -> SUBSET Tabs]
      BY <2>13 DEF TypeOK, Crash, Forget
    <3>3. QED
      BY <2>13, <3>1, <3>2 DEF TypeOK, Crash, Forget
  <2>14. CASE Tick
    BY <2>14 DEF TypeOK, Record, Tick, Fresh
  <2>15. CASE UNCHANGED vars
    BY <2>15 DEF TypeOK, vars
  <2>16. QED
    BY <2>1, <2>2, <2>3, <2>4, <2>5, <2>6, <2>7, <2>8, <2>9, <2>10, <2>11,
       <2>12, <2>13, <2>14, <2>15 DEF Next
<1>3. QED
  BY <1>1, <1>2, PTL DEF Spec
-----------------------------------------------------------------------------
(***************************************************************************)
(* The inductive invariant.  A keeper is a holder that was neither frozen  *)
(* nor unable to write, and over whose record nobody wrote blindly: its    *)
(* record stands, and its next heartbeat reaches it in time.  What a tab   *)
(* saw still holds while nobody wrote since, so the write that follows it  *)
(* reaches no keeper's record; and a ping about a record that has not      *)
(* changed is still on its way to that record's page.                      *)
(***************************************************************************)
Keeper(t) == held[t] /\ exposed[t] = "no"
Punctual == \A t \in Tabs : Keeper(t) => Ours(t) /\ rec.age + due[t] <= BEAT
Owned ==
  \A t \in Tabs : rec.tab = t => rec.current /\ (held[t] \/ pc[t] \in {"stamped", "releasing"})
Awake ==
  \A t \in Tabs : /\ held[t] => mode[t] # "closed"
                  /\ held[t] /\ mode[t] = "frozen" => exposed[t] = "silent"
                  /\ pc[t] # "idle" => mode[t] = "up"
                  /\ pc[t] = "beating" => held[t] /\ due[t] = 0
                  /\ pc[t] = "releasing" => ~held[t]
PingPending ==
  \A t, u \in Tabs :
    ping[t] = "waiting" /\ same[t] /\ (held[u] \/ pc[u] = "stamped") /\ Ours(u)
      => u \in inbox[t]
LookStands ==
  \A t \in Tabs : seen[t] =>
    /\ pc[t] \in {"checked", "beating", "releasing", "removing"}
    /\ pc[t] = "checked" => ~Busy(t)
    /\ pc[t] = "beating" => ~(Fresh /\ ~Ours(t))
    /\ pc[t] = "releasing" => Ours(t)
    /\ pc[t] = "removing" => \A u \in Tabs : held[u] /\ Ours(u) => exposed[u] = "silent"
NewIsUnseen ==
  \A t \in Tabs : pc[t] = "stamped" =>
    /\ rec.age = 0
    /\ rec.tab = t => \A u \in Tabs : ~seen[u]
RemovesOthers == \A t \in Tabs : pc[t] = "removing" => rec.tab # t

IInv == /\ TypeOK /\ Punctual /\ Owned /\ Awake /\ PingPending
        /\ LookStands /\ NewIsUnseen /\ RemovesOthers

\* Where a tab is a keeper, its record looks busy to everybody else.
LEMMA KeeperIsSeen ==
  ASSUME IInv, NEW t \in Tabs, Keeper(t)
  PROVE  Fresh /\ Ours(t) /\ \A u \in Tabs : u # t => Busy(u) /\ ~Ours(u)
<1>1. Ours(t) /\ rec.age + due[t] <= BEAT
  BY DEF IInv, Punctual
<1>2. rec.age \in Nat /\ due[t] \in Nat /\ t # None
  BY TimeAssumption, TabAssumption DEF IInv, TypeOK, Record
<1>3. QED
  BY <1>1, <1>2, TimeAssumption DEF Ours, Fresh, Busy

\* Whatever a tab writes or removes, no other tab is a keeper afterwards: a write that follows
\* what was seen finds none, and a blind one makes an end of it.
LEMMA WriteLeavesNone ==
  ASSUME IInv, NEW t \in Tabs, NEW r, Write(t, r), UNCHANGED held
  PROVE  \A u \in Tabs : u # t => ~(held'[u] /\ exposed'[u] = "no")
<1> SUFFICES ASSUME NEW u \in Tabs, u # t, held[u], exposed'[u] = "no" PROVE FALSE
  OBVIOUS
<1>1. exposed[u] = "no" /\ ~(Ours(u) /\ ~seen[t])
  BY DEF Write
<1>2. Keeper(u)
  BY <1>1 DEF Keeper
<1>3. Fresh /\ Ours(u) /\ Busy(t) /\ ~Ours(t)
  BY <1>2, KeeperIsSeen
<1>4. seen[t]
  BY <1>1, <1>3
<1>5. QED
  BY <1>1, <1>3, <1>4 DEF IInv, LookStands

\* A tab that has just stamped its record is not asked to go: who looks sees it.
LEMMA StampIsSeen ==
  ASSUME IInv, NEW t \in Tabs, pc[t] = "stamped", rec.tab = t
  PROVE  Fresh /\ Ours(t) /\ rec.age = 0 /\ \A u \in Tabs : u # t => Busy(u) /\ ~Ours(u)
BY TimeAssumption, TabAssumption DEF IInv, NewIsUnseen, Owned, Ours, Fresh, Busy

\* The inductive step.
THEOREM Inductive ==
  ASSUME IInv, [Next]_vars, TypeOK'
  PROVE  IInv'
<1> USE TimeAssumption, TabAssumption
<1>0. /\ TypeOK /\ Punctual /\ Owned /\ Awake /\ PingPending
      /\ LookStands /\ NewIsUnseen /\ RemovesOthers
  BY DEF IInv
<1>1. ASSUME NEW t \in Tabs, AcquireCheck(t) PROVE IInv'
  <2>1. rec.tab = t => held[t]
    BY <1>0, <1>1 DEF AcquireCheck, Runs, Owned
  <2>2. rec' = rec
    BY <1>1, <2>1 DEF AcquireCheck
  <2>3. pc[t] = "idle" /\ mode[t] = "up" /\ ~Busy(t)
    BY <1>1 DEF AcquireCheck, Runs
  <2>4. pc' = [pc EXCEPT ![t] = "checked"] /\ seen' = [seen EXCEPT ![t] = TRUE]
    BY <1>1 DEF AcquireCheck, Looked
  <2>5. Punctual' /\ PingPending'
    BY <1>0, <1>1, <2>2, <2>4 DEF Punctual, Keeper, PingPending, AcquireCheck, Ours, TypeOK
  <2>6. Owned' /\ Awake' /\ RemovesOthers'
    BY <1>0, <1>1, <2>1, <2>2, <2>3, <2>4 DEF Owned, Awake, RemovesOthers, AcquireCheck, TypeOK
  <2>7. LookStands'
    BY <1>0, <1>1, <2>2, <2>3, <2>4 DEF LookStands, AcquireCheck, Busy, Fresh, Ours, TypeOK
  <2>8. NewIsUnseen'
    <3>1. \A u \in Tabs : u # t /\ pc[u] = "stamped" => rec.tab # u
      BY <2>3, StampIsSeen
    <3>2. QED
      BY <1>0, <2>2, <2>3, <2>4, <3>1 DEF NewIsUnseen, TypeOK
  <2>9. QED
    BY <2>5, <2>6, <2>7, <2>8 DEF IInv
<1>2. ASSUME NEW t \in Tabs, AcquireStamp(t) PROVE IInv'
  <2>1. pc[t] = "checked" /\ UNCHANGED <<mode, held, due, ping, inbox>>
    BY <1>2 DEF AcquireStamp
  <2>2. CASE Write(t, Stamped(t)) /\ pc' = [pc EXCEPT ![t] = "stamped"]
    <3>1. \A u \in Tabs : u # t => ~Keeper(u)'
      BY <2>1, <2>2, WriteLeavesNone DEF Keeper
    <3>2. rec' = Stamped(t) /\ due[t] \in 0..BEAT
      BY <1>0, <2>2 DEF Write, TypeOK
    <3>3. Punctual'
      BY <2>1, <3>1, <3>2 DEF Punctual, Stamped, Ours
    <3>4. Owned' /\ NewIsUnseen' /\ RemovesOthers'
      BY <1>0, <2>1, <2>2 DEF Owned, NewIsUnseen, RemovesOthers, Write, Stamped, TypeOK
    <3>5. PingPending' /\ LookStands'
      BY <2>2 DEF PingPending, LookStands, Write
    <3>6. Awake'
      <4>1. \A u \in Tabs : exposed[u] = "silent" => exposed'[u] = "silent"
        BY <2>2 DEF Write
      <4>2. QED
        BY <1>0, <2>1, <2>2, <4>1 DEF Awake, TypeOK
    <3>7. QED
      BY <3>3, <3>4, <3>5, <3>6 DEF IInv
  <2>3. CASE /\ UNCHANGED <<rec, same, exposed>>
             /\ seen' = [seen EXCEPT ![t] = FALSE]
             /\ pc' = [pc EXCEPT ![t] = "unstamped"]
    <3>1. Punctual' /\ PingPending'
      BY <1>0, <2>1, <2>3 DEF Punctual, Keeper, PingPending, Ours, TypeOK
    <3>2. Owned' /\ Awake' /\ NewIsUnseen' /\ RemovesOthers'
      BY <1>0, <2>1, <2>3 DEF Owned, Awake, NewIsUnseen, RemovesOthers, TypeOK
    <3>3. LookStands'
      BY <1>0, <2>1, <2>3 DEF LookStands, Busy, Fresh, Ours, TypeOK
    <3>4. QED
      BY <3>1, <3>2, <3>3 DEF IInv
  <2>4. QED
    BY <1>2, <2>2, <2>3 DEF AcquireStamp, NotWritten
<1>3. ASSUME NEW t \in Tabs, AcquireReadBack(t) PROVE IInv'
  <2>1. /\ pc[t] \in {"stamped", "unstamped"} /\ pc' = [pc EXCEPT ![t] = "idle"]
        /\ UNCHANGED <<rec, mode, ping, inbox, same, seen>>
    BY <1>3 DEF AcquireReadBack
  <2>2. CASE Busy(t) /\ UNCHANGED <<held, due, exposed>>
    <3>1. Owned'
      BY <1>0, <2>1, <2>2 DEF Owned, Busy, TypeOK
    <3>2. Punctual' /\ Awake' /\ PingPending'
      BY <1>0, <2>1, <2>2 DEF Punctual, Keeper, Awake, PingPending, Ours, TypeOK
    <3>3. LookStands' /\ NewIsUnseen' /\ RemovesOthers'
      BY <1>0, <2>1, <2>2 DEF LookStands, NewIsUnseen, RemovesOthers, Busy, Fresh, Ours, TypeOK
    <3>4. QED
      BY <3>1, <3>2, <3>3 DEF IInv
  <2>3. CASE ~Busy(t) /\ Holds(t)
    <3>1. /\ held' = [held EXCEPT ![t] = TRUE]
          /\ due'[t] \in {due[t], BEAT}
          /\ pc[t] = "unstamped" => exposed'[t] = "silent"
          /\ rec.tab = None => exposed'[t] # "no"
          /\ exposed[t] = "silent" => exposed'[t] = "silent"
          /\ \A u \in Tabs : u # t => due'[u] = due[u] /\ exposed'[u] = exposed[u]
      BY <1>0, <2>3 DEF Holds, TypeOK
    <3>2. pc[t] = "stamped" /\ rec.tab # None => rec.tab = t
      BY <1>0, <2>3 DEF NewIsUnseen, Busy, Fresh
    <3>3. Punctual'
      <4>1. ASSUME Keeper(t)' PROVE (Ours(t) /\ rec.age + due[t] <= BEAT)'
        <5>1. pc[t] = "stamped" /\ rec.tab = t
          BY <2>1, <3>1, <3>2, <4>1 DEF Keeper
        <5>2. Ours(t) /\ rec.age = 0
          BY <5>1, StampIsSeen
        <5>3. due'[t] \in 0..BEAT
          BY <1>0, <3>1 DEF TypeOK
        <5>4. QED
          BY <2>1, <5>2, <5>3 DEF Ours
      <4>2. ASSUME NEW u \in Tabs, u # t, Keeper(u)' PROVE (Ours(u) /\ rec.age + due[u] <= BEAT)'
        BY <1>0, <2>1, <3>1, <4>2 DEF Punctual, Keeper, Ours, TypeOK
      <4>3. QED
        BY <4>1, <4>2 DEF Punctual
    <3>4. Owned' /\ Awake'
      BY <1>0, <2>1, <3>1 DEF Owned, Awake, TypeOK
    <3>5. PingPending'
      <4>1. Ours(t) => held[t] \/ pc[t] = "stamped"
        BY <1>0, <2>1 DEF Owned, Ours
      <4>2. QED
        BY <1>0, <2>1, <3>1, <4>1 DEF PingPending, Ours, TypeOK
    <3>6. LookStands'
      <4>1. ASSUME NEW u \in Tabs, seen[u], Ours(t) PROVE exposed'[t] = "silent"
        BY <1>0, <2>1, <3>1, <4>1 DEF NewIsUnseen, Ours
      <4>2. QED
        BY <1>0, <2>1, <3>1, <4>1 DEF LookStands, Busy, Fresh, Ours, TypeOK
    <3>7. NewIsUnseen' /\ RemovesOthers'
      BY <1>0, <2>1 DEF NewIsUnseen, RemovesOthers, TypeOK
    <3>8. QED
      BY <3>3, <3>4, <3>5, <3>6, <3>7 DEF IInv
  <2>4. QED
    BY <1>3, <2>2, <2>3 DEF AcquireReadBack
<1>4. ASSUME NEW t \in Tabs, Beat(t) PROVE IInv'
  <2>1. /\ pc[t] = "idle" /\ mode[t] = "up" /\ held[t] /\ due[t] = 0
        /\ UNCHANGED <<rec, mode, held, ping, inbox, same, exposed>>
    BY <1>4 DEF Beat, Runs
  <2>2. CASE Fresh /\ ~Ours(t) /\ due' = [due EXCEPT ![t] = BEAT] /\ UNCHANGED <<pc, seen>>
    <3>1. Punctual'
      BY <1>0, <2>1, <2>2 DEF Punctual, Keeper, Ours, TypeOK
    <3>2. Owned' /\ Awake' /\ PingPending' /\ NewIsUnseen' /\ RemovesOthers'
      BY <1>0, <2>1, <2>2 DEF Owned, Awake, PingPending, NewIsUnseen, RemovesOthers, Ours, TypeOK
    <3>3. LookStands'
      BY <1>0, <2>1, <2>2 DEF LookStands, Busy, Fresh, Ours
    <3>4. QED
      BY <3>1, <3>2, <3>3 DEF IInv
  <2>3. CASE ~(Fresh /\ ~Ours(t)) /\ Looked(t, "beating") /\ UNCHANGED due
    <3>1. pc' = [pc EXCEPT ![t] = "beating"] /\ seen' = [seen EXCEPT ![t] = TRUE]
      BY <2>3 DEF Looked
    <3>2. Punctual' /\ Owned' /\ Awake' /\ PingPending' /\ RemovesOthers'
      BY <1>0, <2>1, <2>3, <3>1
      DEF Punctual, Keeper, Owned, Awake, PingPending, RemovesOthers, Ours, TypeOK
    <3>3. LookStands'
      BY <1>0, <2>1, <2>3, <3>1 DEF LookStands, Busy, Fresh, Ours, TypeOK
    <3>4. NewIsUnseen'
      <4>1. \A u \in Tabs : u # t /\ pc[u] = "stamped" => rec.tab # u
        BY <2>3, StampIsSeen
      <4>2. QED
        BY <1>0, <2>1, <3>1, <4>1 DEF NewIsUnseen, TypeOK
    <3>5. QED
      BY <3>2, <3>3, <3>4 DEF IInv
  <2>4. QED
    BY <1>4, <2>2, <2>3 DEF Beat
<1>5. ASSUME NEW t \in Tabs, BeatStamp(t) PROVE IInv'
  <2>1. /\ pc[t] = "beating" /\ held[t] /\ pc' = [pc EXCEPT ![t] = "idle"]
        /\ due' = [due EXCEPT ![t] = BEAT] /\ UNCHANGED <<mode, held, ping, inbox>>
    BY <1>0, <1>5 DEF BeatStamp, Awake
  <2>2. CASE Write(t, Stamped(t))
    <3>1. \A u \in Tabs : u # t => ~Keeper(u)'
      BY <2>1, <2>2, WriteLeavesNone DEF Keeper
    <3>2. rec' = Stamped(t) /\ due'[t] = BEAT
      BY <1>0, <2>1, <2>2 DEF Write, TypeOK
    <3>3. Punctual'
      BY <3>1, <3>2 DEF Punctual, Stamped, Ours
    <3>4. Owned' /\ NewIsUnseen' /\ RemovesOthers'
      BY <1>0, <2>1, <2>2 DEF Owned, NewIsUnseen, RemovesOthers, Write, Stamped, TypeOK
    <3>5. PingPending' /\ LookStands'
      BY <2>2 DEF PingPending, LookStands, Write
    <3>6. Awake'
      <4>1. \A u \in Tabs : exposed[u] = "silent" => exposed'[u] = "silent"
        BY <2>2 DEF Write
      <4>2. QED
        BY <1>0, <2>1, <4>1 DEF Awake, TypeOK
    <3>7. QED
      BY <3>3, <3>4, <3>5, <3>6 DEF IInv
  <2>3. CASE /\ UNCHANGED <<rec, same>>
             /\ seen' = [seen EXCEPT ![t] = FALSE]
             /\ exposed' = [exposed EXCEPT ![t] = "silent"]
    <3>1. Punctual' /\ Owned' /\ Awake'
      BY <1>0, <2>1, <2>3 DEF Punctual, Keeper, Owned, Awake, Ours, TypeOK
    <3>2. PingPending' /\ NewIsUnseen' /\ RemovesOthers'
      BY <1>0, <2>1, <2>3 DEF PingPending, NewIsUnseen, RemovesOthers, Ours, TypeOK
    <3>3. LookStands'
      BY <1>0, <2>1, <2>3 DEF LookStands, Busy, Fresh, Ours, TypeOK
    <3>4. QED
      BY <3>1, <3>2, <3>3 DEF IInv
  <2>4. QED
    BY <1>5, <2>2, <2>3 DEF BeatStamp, NotWritten
<1>6. ASSUME NEW t \in Tabs, Release(t) PROVE IInv'
  <2>1. /\ pc[t] = "idle" /\ mode[t] = "up" /\ held' = [held EXCEPT ![t] = FALSE]
        /\ due' = [due EXCEPT ![t] = 0] /\ exposed' = [exposed EXCEPT ![t] = "no"]
        /\ UNCHANGED <<rec, mode, ping, inbox, same>>
    BY <1>6 DEF Release, Runs
  <2>2. Punctual'
    BY <1>0, <2>1 DEF Punctual, Keeper, Ours, TypeOK
  <2>3. CASE Ours(t) /\ Looked(t, "releasing")
    <3>1. pc' = [pc EXCEPT ![t] = "releasing"] /\ seen' = [seen EXCEPT ![t] = TRUE]
      BY <2>3 DEF Looked
    <3>2. Owned' /\ Awake' /\ RemovesOthers'
      BY <1>0, <2>1, <3>1 DEF Owned, Awake, RemovesOthers, TypeOK
    <3>3. PingPending' /\ LookStands'
      BY <1>0, <2>1, <2>3, <3>1 DEF PingPending, LookStands, Busy, Fresh, Ours, TypeOK
    <3>4. NewIsUnseen'
      BY <1>0, <2>1, <2>3, <3>1 DEF NewIsUnseen, Ours, TypeOK
    <3>5. QED
      BY <2>2, <3>2, <3>3, <3>4 DEF IInv
  <2>4. CASE ~Ours(t) /\ UNCHANGED <<pc, seen>>
    <3>1. Owned' /\ Awake' /\ NewIsUnseen' /\ RemovesOthers'
      BY <1>0, <2>1, <2>4 DEF Owned, Awake, NewIsUnseen, RemovesOthers, Ours, TypeOK
    <3>2. PingPending' /\ LookStands'
      BY <1>0, <2>1, <2>4 DEF PingPending, LookStands, Busy, Fresh, Ours, TypeOK
    <3>3. QED
      BY <2>2, <3>1, <3>2 DEF IInv
  <2>5. QED
    BY <1>6, <2>3, <2>4 DEF Release
<1>7. ASSUME NEW t \in Tabs, ReleaseRemove(t) \/ Remove(t) PROVE IInv'
  <2>1. /\ pc[t] \in {"releasing", "removing"} /\ pc' = [pc EXCEPT ![t] = "idle"]
        /\ Write(t, NoRecord) /\ UNCHANGED <<mode, held, due, ping, inbox>>
    BY <1>7 DEF ReleaseRemove, Remove, Removal
  <2>2. \A u \in Tabs : u # t => ~Keeper(u)'
    BY <2>1, WriteLeavesNone DEF Keeper
  <2>3. ~Keeper(t)'
    <3>1. ~Keeper(t)
      BY <1>0, <2>1 DEF Punctual, Keeper, Awake, RemovesOthers, Ours
    <3>2. QED
      BY <2>1, <3>1 DEF Keeper, Write
  <2>4. Punctual'
    BY <2>2, <2>3 DEF Punctual
  <2>5. Owned' /\ NewIsUnseen' /\ RemovesOthers'
    BY <2>1 DEF Owned, NewIsUnseen, RemovesOthers, Write, NoRecord
  <2>6. PingPending' /\ LookStands'
    BY <2>1 DEF PingPending, LookStands, Write
  <2>7. Awake'
    <3>1. \A u \in Tabs : exposed[u] = "silent" => exposed'[u] = "silent"
      BY <2>1 DEF Write
    <3>2. QED
      BY <1>0, <2>1, <3>1 DEF Awake, TypeOK
  <2>8. QED
    BY <2>4, <2>5, <2>6, <2>7 DEF IInv
<1>8. ASSUME NEW t \in Tabs, Ask(t) PROVE IInv'
  <2>1. PingPending'
    BY <1>0, <1>8 DEF PingPending, Awake, Ask, Ours, TypeOK
  <2>2. Punctual' /\ Owned' /\ Awake' /\ NewIsUnseen' /\ RemovesOthers'
    BY <1>0, <1>8 DEF Punctual, Keeper, Owned, Awake, NewIsUnseen, RemovesOthers, Ask, Ours
  <2>3. LookStands'
    BY <1>0, <1>8 DEF LookStands, Ask, Busy, Fresh, Ours
  <2>4. QED
    BY <2>1, <2>2, <2>3 DEF IInv
<1>9. ASSUME NEW t \in Tabs, NEW u \in Tabs, HandlePing(u, t) PROVE IInv'
  <2>1. PingPending'
    BY <1>0, <1>9 DEF PingPending, HandlePing, Runs, Ours, TypeOK
  <2>2. Punctual' /\ Owned' /\ Awake' /\ NewIsUnseen' /\ RemovesOthers'
    BY <1>0, <1>9 DEF Punctual, Keeper, Owned, Awake, NewIsUnseen, RemovesOthers, HandlePing, Ours
  <2>3. LookStands'
    BY <1>0, <1>9 DEF LookStands, HandlePing, Busy, Fresh, Ours
  <2>4. QED
    BY <2>1, <2>2, <2>3 DEF IInv
<1>10. ASSUME NEW t \in Tabs, Conclude(t) PROVE IInv'
  <2>1. /\ pc[t] = "idle" /\ mode[t] = "up" /\ ping' = [ping EXCEPT ![t] = "none"]
        /\ inbox' = [inbox EXCEPT ![t] = {}] /\ same' = [same EXCEPT ![t] = FALSE]
        /\ UNCHANGED <<rec, mode, held, due, exposed>>
    BY <1>10 DEF Conclude, Runs
  <2>2. PingPending'
    <3>1. \A u \in Tabs : pc'[u] = "stamped" => pc[u] = "stamped"
      BY <1>0, <1>10 DEF Conclude, Looked, TypeOK
    <3>2. QED
      BY <1>0, <2>1, <3>1 DEF PingPending, Ours, TypeOK
  <2>3. Punctual'
    BY <1>0, <2>1 DEF Punctual, Keeper, Ours
  <2>4. CASE ping[t] = "waiting" /\ same[t] /\ rec.tab # t /\ Looked(t, "removing")
    <3>1. pc' = [pc EXCEPT ![t] = "removing"] /\ seen' = [seen EXCEPT ![t] = TRUE]
      BY <2>4 DEF Looked
    <3>2. \A u \in Tabs : (held[u] \/ pc[u] = "stamped") /\ Ours(u) => mode[u] # "up"
      BY <1>0, <1>10, <2>4 DEF PingPending, Conclude
    <3>3. \A u \in Tabs : held[u] /\ Ours(u) => exposed[u] = "silent"
      BY <1>0, <3>2 DEF Awake, TypeOK
    <3>4. \A u \in Tabs : pc[u] = "stamped" => rec.tab # u
      BY <1>0, <3>2 DEF Awake, Owned, Ours
    <3>5. Owned' /\ Awake' /\ RemovesOthers'
      BY <1>0, <2>1, <2>4, <3>1 DEF Owned, Awake, RemovesOthers, TypeOK
    <3>6. LookStands'
      BY <1>0, <2>1, <3>1, <3>3 DEF LookStands, Busy, Fresh, Ours, TypeOK
    <3>7. NewIsUnseen'
      BY <1>0, <2>1, <3>1, <3>4 DEF NewIsUnseen, TypeOK
    <3>8. QED
      BY <2>2, <2>3, <3>5, <3>6, <3>7 DEF IInv
  <2>5. CASE UNCHANGED <<pc, seen>>
    <3>1. Owned' /\ Awake' /\ NewIsUnseen' /\ RemovesOthers'
      BY <1>0, <2>1, <2>5 DEF Owned, Awake, NewIsUnseen, RemovesOthers
    <3>2. LookStands'
      BY <1>0, <2>1, <2>5 DEF LookStands, Busy, Fresh, Ours
    <3>3. QED
      BY <2>2, <2>3, <3>1, <3>2 DEF IInv
  <2>6. QED
    BY <1>10, <2>4, <2>5 DEF Conclude
<1>11. ASSUME NEW t \in Tabs, Freeze(t) PROVE IInv'
  <2>1. \A u \in Tabs : Keeper(u)' => Keeper(u)
    BY <1>0, <1>11 DEF Freeze, Keeper, TypeOK
  <2>2. Punctual'
    BY <1>0, <1>11, <2>1 DEF Punctual, Freeze, Ours
  <2>3. Awake'
    BY <1>0, <1>11 DEF Awake, Freeze, Runs, TypeOK
  <2>4. Owned' /\ PingPending' /\ NewIsUnseen' /\ RemovesOthers'
    BY <1>0, <1>11 DEF Owned, PingPending, NewIsUnseen, RemovesOthers, Freeze, Ours
  <2>5. LookStands'
    <3>1. \A u \in Tabs : exposed[u] = "silent" /\ held[u] => exposed'[u] = "silent"
      BY <1>0, <1>11 DEF Freeze, TypeOK
    <3>2. QED
      BY <1>0, <1>11, <3>1 DEF LookStands, Freeze, Busy, Fresh, Ours
  <2>6. QED
    BY <2>2, <2>3, <2>4, <2>5 DEF IInv
<1>12. ASSUME NEW t \in Tabs, Thaw(t) \/ Open(t) PROVE IInv'
  <2>1. UNCHANGED <<rec, held, lost, due, pc, ping, inbox, same, seen, exposed>>
    BY <1>12 DEF Thaw, Open
  <2>2. Awake'
    BY <1>0, <1>12, <2>1 DEF Awake, Thaw, Open, TypeOK
  <2>3. Punctual' /\ Owned' /\ PingPending' /\ NewIsUnseen' /\ RemovesOthers'
    BY <1>0, <2>1 DEF Punctual, Keeper, Owned, PingPending, NewIsUnseen, RemovesOthers, Ours
  <2>4. LookStands'
    BY <1>0, <2>1 DEF LookStands, Busy, Fresh, Ours
  <2>5. QED
    BY <2>2, <2>3, <2>4 DEF IInv
<1>13. ASSUME NEW t \in Tabs, Close(t) PROVE IInv'
  <2>1. /\ pc[t] = "idle" /\ ~held[t] /\ UNCHANGED <<rec, held, lost, due, pc, same, seen, exposed>>
        /\ mode' = [mode EXCEPT ![t] = "closed"] /\ ping' = [ping EXCEPT ![t] = "none"]
        /\ inbox' = [u \in Tabs |-> IF u = t THEN {} ELSE inbox[u] \ {t}]
    BY <1>13 DEF Close, Forget, Runs
  <2>2. Awake'
    BY <1>0, <2>1 DEF Awake, TypeOK
  <2>3. PingPending'
    BY <1>0, <2>1 DEF PingPending, Ours, TypeOK
  <2>4. Punctual' /\ Owned' /\ NewIsUnseen' /\ RemovesOthers'
    BY <1>0, <2>1 DEF Punctual, Keeper, Owned, NewIsUnseen, RemovesOthers, Ours
  <2>5. LookStands'
    BY <1>0, <2>1 DEF LookStands, Busy, Fresh, Ours
  <2>6. QED
    BY <2>2, <2>3, <2>4, <2>5 DEF IInv
<1>14. ASSUME NEW t \in Tabs, Crash(t) PROVE IInv'
  <2>1. /\ mode' = [mode EXCEPT ![t] = "closed"] /\ ping' = [ping EXCEPT ![t] = "none"]
        /\ inbox' = [u \in Tabs |-> IF u = t THEN {} ELSE inbox[u] \ {t}]
        /\ held' = [held EXCEPT ![t] = FALSE] /\ due' = [due EXCEPT ![t] = 0]
        /\ exposed' = [exposed EXCEPT ![t] = "no"] /\ pc' = [pc EXCEPT ![t] = "idle"]
        /\ seen' = [seen EXCEPT ![t] = FALSE] /\ same' = same
    BY <1>14 DEF Crash, Forget
  <2>2. /\ rec'.age = rec.age /\ rec'.tab # t
        /\ rec.tab # t => rec' = rec
        /\ rec.tab = t => rec'.tab = Gone
    BY <1>0, <1>14 DEF Crash, TypeOK, Record
  <2>3. \A u \in Tabs : rec'.tab = u => rec' = rec
    BY <2>2
  <2>4. Punctual'
    BY <1>0, <2>1, <2>2 DEF Punctual, Keeper, Ours, TypeOK
  <2>5. Owned' /\ Awake' /\ RemovesOthers'
    BY <1>0, <2>1, <2>2, <2>3 DEF Owned, Awake, RemovesOthers, TypeOK
  <2>6. PingPending'
    BY <1>0, <2>1, <2>3 DEF PingPending, Ours, TypeOK
  <2>7. NewIsUnseen'
    BY <1>0, <2>1, <2>2, <2>3 DEF NewIsUnseen, TypeOK
  <2>8. LookStands'
    <3> SUFFICES ASSUME NEW u \in Tabs, seen'[u]
                 PROVE  /\ pc'[u] \in {"checked", "beating", "releasing", "removing"}
                        /\ pc'[u] = "checked" => ~Busy(u)'
                        /\ pc'[u] = "beating" => ~(Fresh /\ ~Ours(u))'
                        /\ pc'[u] = "releasing" => Ours(u)'
                        /\ pc'[u] = "removing" => \A v \in Tabs : held'[v] /\ Ours(v)' => exposed'[v] = "silent"
      BY DEF LookStands
    <3>1. u # t /\ seen[u] /\ pc'[u] = pc[u]
      BY <1>0, <2>1 DEF TypeOK
    <3>2. Busy(u)' => Busy(u)
      BY <2>2, <3>1 DEF Busy, Fresh
    <3>3. (Fresh /\ ~Ours(u))' => Fresh /\ ~Ours(u)
      BY <2>2, <3>1 DEF Fresh, Ours
    <3>4. Ours(u) => Ours(u)'
      BY <2>2, <3>1 DEF Ours
    <3>5. \A v \in Tabs : held'[v] /\ Ours(v)' => held[v] /\ Ours(v) /\ exposed'[v] = exposed[v]
      BY <1>0, <2>1, <2>2 DEF Ours, TypeOK
    <3>6. QED
      BY <1>0, <3>1, <3>2, <3>3, <3>4, <3>5 DEF LookStands
  <2>9. QED
    BY <2>4, <2>5, <2>6, <2>7, <2>8 DEF IInv
<1>15. CASE Tick
  <2>1. /\ \A t \in Tabs : pc[t] = "idle" /\ (mode[t] = "up" /\ held[t] => due[t] > 0)
        /\ UNCHANGED <<mode, held, lost, pc, ping, inbox, same, seen, exposed>>
    BY <1>15 DEF Tick
  <2>2. rec'.tab = rec.tab /\ rec'.current = rec.current /\ (Fresh => rec'.age = rec.age + 1)
    BY <1>0, <1>15 DEF Tick, TypeOK, Record
  <2>3. Punctual'
    <3>1. \A u \in Tabs : Keeper(u) => due[u] > 0
      BY <1>0, <2>1 DEF Awake, Keeper, TypeOK
    <3>2. \A u \in Tabs : rec.age \in Nat /\ due[u] \in Nat
      BY <1>0 DEF TypeOK, Record
    <3>3. QED
      BY <1>0, <1>15, <2>1, <2>2, <3>1, <3>2, KeeperIsSeen DEF Punctual, Keeper, Tick, Ours
  <2>4. Owned' /\ NewIsUnseen' /\ RemovesOthers'
    BY <1>0, <2>1, <2>2 DEF Owned, NewIsUnseen, RemovesOthers
  <2>5. Awake' /\ PingPending' /\ LookStands'
    BY <1>0, <2>1, <2>2 DEF Awake, PingPending, LookStands, Ours
  <2>6. QED
    BY <2>3, <2>4, <2>5 DEF IInv
<1>16. CASE UNCHANGED vars
  BY <1>0, <1>16 DEF IInv, Punctual, Keeper, Owned, Awake, PingPending, LookStands, NewIsUnseen,
                     RemovesOthers, vars, Ours, Busy, Fresh
<1>17. QED
  BY <1>1, <1>2, <1>3, <1>4, <1>5, <1>6, <1>7, <1>8, <1>9, <1>10, <1>11, <1>12, <1>13,
     <1>14, <1>15, <1>16 DEF Next

\* The strengthened invariant holds from the start and in every state.
THEOREM Invariance == Spec => []IInv
<1>1. Init => IInv
  <2> SUFFICES ASSUME Init PROVE IInv
    OBVIOUS
  <2>1. TypeOK
    BY TimeAssumption DEF Init, TypeOK, Record, NoRecord
  <2>2. rec = NoRecord /\ \A t \in Tabs : ~held[t] /\ pc[t] = "idle" /\ ~seen[t] /\ ~same[t]
    BY DEF Init
  <2>3. QED
    BY <2>1, <2>2, TabAssumption
    DEF IInv, Punctual, Keeper, Owned, Awake, PingPending, LookStands, NewIsUnseen, RemovesOthers,
        NoRecord
<1>2. IInv /\ [Next]_vars /\ TypeOK' => IInv'
  BY Inductive
<1>3. QED
  BY <1>1, <1>2, TypeCorrect, PTL DEF Spec

\* The record of a keeper stands: what the exclusion of turns rests on.
THEOREM LiveLeaseStandsAlways == Spec => []LiveLeaseStands
<1>1. IInv => LiveLeaseStands
  BY KeeperIsSeen DEF LiveLeaseStands, Keeper, Fresh
<1>2. QED
  BY <1>1, Invariance, PTL

\* chat-lease.ts:1: turns exclude one another, whatever the order of the tabs' accesses to the
\* storage, except beside a page that was frozen or could not write, or whose record went in a
\* write that had not seen it.
THEOREM MutualExclusion == Spec => []OneTurnUnlessExposed
<1>1. IInv => OneTurnUnlessExposed
  <2> SUFFICES ASSUME IInv, NEW t \in Tabs, NEW u \in Tabs, t # u, Keeper(t), Keeper(u)
               PROVE  FALSE
    BY DEF OneTurnUnlessExposed, Keeper
  <2>1. QED
    BY KeeperIsSeen
<1>2. QED
  BY <1>1, Invariance, PTL

\* A page, frozen or not, keeps an unexpired lease unless it ends its turn, is silent through a
\* ping, or is overwritten by a tab that has not seen the record (TakenOnlyWhenSilent of the
\* runs).
THEOREM NoTakeoverOfTheLiving == Spec => TakenOnlyWhenSilent
<1>1. IInv /\ [Next]_vars => \A t \in Tabs : KeepsLease(t)
  <2> SUFFICES ASSUME IInv, [Next]_vars, NEW t \in Tabs, held[t], held'[t], Fresh, Ours(t),
                      ~(rec'.tab = t /\ rec'.current)
               PROVE  \/ exposed[t] = "silent" /\ \E u \in Tabs : pc[u] = "removing" /\ pc'[u] = "idle"
                      \/ \E u \in Tabs : u # t /\ pc[u] # "idle" /\ ~seen[u] /\ pc'[u] # pc[u]
    BY DEF KeepsLease
  <2>0. TypeOK /\ Owned /\ Awake /\ LookStands /\ RemovesOthers
    BY DEF IInv
  <2>1. rec' # rec
    BY DEF Ours
  <2>2. ASSUME NEW u \in Tabs, AcquireCheck(u) PROVE FALSE
    BY <2>0, <2>1, <2>2 DEF AcquireCheck, Ours
  <2>3. ASSUME NEW u \in Tabs, AcquireStamp(u) \/ BeatStamp(u)
        PROVE  u # t /\ pc[u] # "idle" /\ ~seen[u] /\ pc'[u] # pc[u]
    <3>1. Write(u, Stamped(u))
      BY <2>1, <2>3 DEF AcquireStamp, BeatStamp, NotWritten
    <3>2. u # t
      BY <3>1 DEF Write, Stamped
    <3>3. pc[u] \in {"checked", "beating"} /\ pc'[u] \in {"stamped", "idle"}
      BY <2>0, <2>1, <2>3 DEF AcquireStamp, BeatStamp, NotWritten, TypeOK
    <3>4. Busy(u) /\ ~Ours(u)
      BY <3>2 DEF Busy, Ours
    <3>5. QED
      BY <2>0, <3>2, <3>3, <3>4 DEF LookStands
  <2>4. ASSUME NEW u \in Tabs, ReleaseRemove(u)
        PROVE  u # t /\ pc[u] # "idle" /\ ~seen[u] /\ pc'[u] # pc[u]
    <3>1. pc[u] = "releasing" /\ pc'[u] = "idle"
      BY <2>0, <2>4 DEF ReleaseRemove, Removal, TypeOK
    <3>2. u # t
      BY <2>0, <3>1 DEF Awake
    <3>3. QED
      BY <2>0, <3>1, <3>2 DEF LookStands, Ours
  <2>5. ASSUME NEW u \in Tabs, Remove(u)
        PROVE  \/ exposed[t] = "silent" /\ pc[u] = "removing" /\ pc'[u] = "idle"
               \/ u # t /\ pc[u] # "idle" /\ ~seen[u] /\ pc'[u] # pc[u]
    <3>1. pc[u] = "removing" /\ pc'[u] = "idle"
      BY <2>0, <2>5 DEF Remove, Removal, TypeOK
    <3>2. u # t
      BY <2>0, <3>1 DEF RemovesOthers, Ours
    <3>3. QED
      BY <2>0, <3>1, <3>2 DEF LookStands
  <2>6. ASSUME NEW u \in Tabs, Crash(u) PROVE FALSE
    BY <2>0, <2>1, <2>6 DEF Crash, Ours, TypeOK
  <2>7. CASE Tick
    BY <2>0, <2>7 DEF Tick, Ours, TypeOK, Record
  <2>8. ASSUME NEW u \in Tabs,
               \/ AcquireReadBack(u) \/ Beat(u) \/ Release(u) \/ Ask(u) \/ Conclude(u)
               \/ Freeze(u) \/ Thaw(u) \/ Close(u) \/ Open(u)
               \/ \E v \in Tabs : HandlePing(v, u)
        PROVE  FALSE
    BY <2>1, <2>8
    DEF AcquireReadBack, Beat, Release, Ask, Conclude, Freeze, Thaw, Close, Open, HandlePing
  <2>9. QED
    BY <2>1, <2>2, <2>3, <2>4, <2>5, <2>6, <2>7, <2>8 DEF Next, vars
<1>2. IInv /\ [Next]_vars => \A t \in Tabs : JudgedOnlyFrozen(t)
  <2> SUFFICES ASSUME IInv, [Next]_vars, NEW t \in Tabs, NEW u \in Tabs, held[t], Ours(t),
                      pc[u] # "removing", pc'[u] = "removing"
               PROVE  mode[t] = "frozen"
    BY DEF JudgedOnlyFrozen
  <2>0. TypeOK /\ Awake /\ PingPending
    BY DEF IInv
  <2>1. Conclude(u)
    <3>1. ASSUME NEW v \in Tabs, AcquireCheck(v) \/ AcquireStamp(v) \/ AcquireReadBack(v) \/ Beat(v)
          PROVE  FALSE
      BY <2>0, <3>1 DEF AcquireCheck, AcquireStamp, AcquireReadBack, Beat, Looked, TypeOK
    <3>2. ASSUME NEW v \in Tabs, BeatStamp(v) \/ Release(v) \/ ReleaseRemove(v) \/ Remove(v) \/ Crash(v)
          PROVE  FALSE
      BY <2>0, <3>2 DEF BeatStamp, Release, ReleaseRemove, Remove, Removal, Crash, Looked, TypeOK
    <3>3. ASSUME NEW v \in Tabs,
                 \/ Ask(v) \/ Freeze(v) \/ Thaw(v) \/ Close(v) \/ Open(v)
                 \/ \E w \in Tabs : HandlePing(w, v)
          PROVE  FALSE
      BY <3>3 DEF Ask, Freeze, Thaw, Close, Open, HandlePing
    <3>4. ASSUME NEW v \in Tabs, v # u, Conclude(v) PROVE FALSE
      BY <2>0, <3>4 DEF Conclude, Looked, TypeOK
    <3>5. ~Tick /\ ~UNCHANGED vars
      BY DEF Tick, vars
    <3>6. QED
      BY <3>1, <3>2, <3>3, <3>4, <3>5 DEF Next
  <2>2. ping[u] = "waiting" /\ same[u] /\ \A v \in inbox[u] : mode[v] # "up"
    BY <2>1 DEF Conclude
  <2>3. mode[t] # "up" /\ mode[t] # "closed"
    BY <2>0, <2>2 DEF PingPending, Awake
  <2>4. QED
    BY <2>0, <2>3 DEF TypeOK
<1>3. IInv /\ [Next]_vars => [\A t \in Tabs : KeepsLease(t) /\ JudgedOnlyFrozen(t)]_vars
  BY <1>1, <1>2
<1>4. QED
  BY <1>3, Invariance, PTL DEF Spec, TakenOnlyWhenSilent

\* Nobody answers for a page that is gone, and the end of a ping about its record removes the
\* record (OrphanIsRemoved of the runs).
THEOREM OrphansGo == Spec => OrphanIsRemoved
<1>1. TypeOK /\ [Next]_vars => \A t \in Tabs : NobodyVouches(t)
  <2> SUFFICES ASSUME TypeOK, [Next]_vars, NEW t \in Tabs,
                      ping[t] = "waiting", same[t], rec.tab = Gone, mode'[t] # "closed"
               PROVE  ping'[t] # "answered" /\ (ping'[t] = "none" => pc'[t] = "removing")
    BY DEF NobodyVouches
  <2>1. ASSUME NEW u \in Tabs,
               \/ AcquireCheck(u) \/ AcquireStamp(u) \/ AcquireReadBack(u) \/ Beat(u) \/ BeatStamp(u)
               \/ Release(u) \/ ReleaseRemove(u) \/ Remove(u) \/ Freeze(u) \/ Thaw(u) \/ Open(u)
        PROVE  ping'[t] = "waiting"
    BY <2>1 DEF AcquireCheck, AcquireStamp, AcquireReadBack, Beat, BeatStamp, Release, ReleaseRemove,
                Remove, Removal, Freeze, Thaw, Open
  <2>2. ASSUME NEW u \in Tabs, Ask(u) PROVE ping'[t] = "waiting"
    BY <2>2 DEF Ask, TypeOK
  <2>3. ASSUME NEW u \in Tabs, NEW v \in Tabs, HandlePing(v, u) PROVE ping'[t] = "waiting"
    <3>1. ~Ours(v)
      BY TabAssumption DEF Ours
    <3>2. QED
      BY <2>3, <3>1 DEF HandlePing, TypeOK
  <2>4. ASSUME NEW u \in Tabs, u # t, Conclude(u) \/ Close(u) \/ Crash(u) PROVE ping'[t] = "waiting"
    BY <2>4 DEF Conclude, Close, Crash, Forget, TypeOK
  <2>5. ASSUME Conclude(t) PROVE ping'[t] = "none" /\ pc'[t] = "removing"
    BY <2>5, TabAssumption DEF Conclude, Looked, TypeOK
  <2>6. ASSUME Close(t) \/ Crash(t) PROVE FALSE
    BY <2>6 DEF Close, Crash, Forget, TypeOK
  <2>7. CASE Tick \/ UNCHANGED vars
    BY <2>7 DEF Tick, vars
  <2>8. QED
    BY <2>1, <2>2, <2>3, <2>4, <2>5, <2>6, <2>7 DEF Next
<1>2. TypeOK /\ [Next]_vars => \A t \in Tabs : GoesWhenJudged(t)
  <2> SUFFICES ASSUME TypeOK, [Next]_vars, NEW t \in Tabs,
                      pc[t] = "removing", pc'[t] # "removing", mode'[t] # "closed"
               PROVE  rec'.tab = None
    BY DEF GoesWhenJudged
  <2>1. ASSUME NEW u \in Tabs,
               \/ AcquireCheck(u) \/ Beat(u) \/ Release(u) \/ Conclude(u)
               \/ Ask(u) \/ Freeze(u) \/ Thaw(u) \/ Close(u) \/ Open(u)
               \/ \E v \in Tabs : HandlePing(v, u)
        PROVE  FALSE
    BY <2>1 DEF AcquireCheck, Beat, Release, Conclude, Ask, Freeze, Thaw, Close, Open, HandlePing,
                Runs, Looked, TypeOK
  <2>2. ASSUME NEW u \in Tabs, AcquireStamp(u) \/ AcquireReadBack(u) \/ BeatStamp(u) \/ ReleaseRemove(u)
        PROVE  FALSE
    BY <2>2 DEF AcquireStamp, AcquireReadBack, BeatStamp, ReleaseRemove, Removal, TypeOK
  <2>3. ASSUME NEW u \in Tabs, Crash(u) PROVE FALSE
    BY <2>3 DEF Crash, Forget, TypeOK
  <2>4. ASSUME NEW u \in Tabs, Remove(u) PROVE rec'.tab = None
    BY <2>4 DEF Remove, Removal, Write, NoRecord
  <2>5. CASE Tick \/ UNCHANGED vars
    BY <2>5 DEF Tick, vars
  <2>6. QED
    BY <2>1, <2>2, <2>3, <2>4, <2>5 DEF Next
<1>3. TypeOK /\ [Next]_vars => [\A t \in Tabs : NobodyVouches(t) /\ GoesWhenJudged(t)]_vars
  BY <1>1, <1>2
<1>4. QED
  BY <1>3, TypeCorrect, PTL DEF Spec, OrphanIsRemoved
-----------------------------------------------------------------------------
(***************************************************************************)
(* The slots of the endpoints.                                             *)
(***************************************************************************)

\* The variables have their types; a call that is under way has an endpoint.
SlotTypes ==
  /\ keys \subseteq Endpoints
  /\ queue \in [Endpoints -> Seq(Callers)]
  /\ at \in [Callers -> {"idle", "waiting", "resolved", "running", "ungated"}]
  /\ goal \in [Callers -> Endpoints \cup {NoEndpoint}]
  /\ gated \in BOOLEAN
  /\ \A c \in Callers : at[c] # "idle" => goal[c] \in Endpoints

\* A queue holds callers that wait for its endpoint, each once.
QueueOK ==
  \A e \in Endpoints :
    /\ \A i \in 1..Len(queue[e]) : at[queue[e][i]] = "waiting" /\ goal[queue[e][i]] = e
    /\ \A i, j \in 1..Len(queue[e]) : queue[e][i] = queue[e][j] => i = j

\* A key is there exactly while some caller has the slot, and who waits waits for a key.
KeyOK ==
  \A e \in Endpoints :
    /\ e \in keys <=> \E c \in Callers : Has(c, e)
    /\ e \notin keys => queue[e] = <<>>

SlotInv == SlotTypes /\ QueueOK /\ KeyOK /\ OneRequest

\* Taking the i-th out of a sequence keeps the others, in order.
LEMMA SpliceIs ==
  ASSUME NEW q \in Seq(Callers), NEW i \in 1..Len(q)
  PROVE  /\ Splice(q, i) \in Seq(Callers)
         /\ Len(Splice(q, i)) = Len(q) - 1
         /\ \A j \in 1..Len(Splice(q, i)) :
              Splice(q, i)[j] = (IF j < i THEN q[j] ELSE q[j + 1])
<1>1. Len(q) \in Nat /\ Len(q) - 1 \in Nat
  OBVIOUS
<1>2. \A j \in 1..Len(q) - 1 : (IF j < i THEN q[j] ELSE q[j + 1]) \in Callers
  BY <1>1
<1>3. Splice(q, i) \in [1..Len(q) - 1 -> Callers]
  BY <1>2 DEF Splice
<1>4. QED
  BY <1>1, <1>3 DEF Splice

LEMMA SpliceOnce ==
  ASSUME NEW q \in Seq(Callers), NEW i \in 1..Len(q),
         \A j, k \in 1..Len(q) : q[j] = q[k] => j = k
  PROVE  \A j, k \in 1..Len(Splice(q, i)) : Splice(q, i)[j] = Splice(q, i)[k] => j = k
<1> SUFFICES ASSUME NEW j \in 1..Len(Splice(q, i)), NEW k \in 1..Len(Splice(q, i)),
                    Splice(q, i)[j] = Splice(q, i)[k]
             PROVE  j = k
  OBVIOUS
<1>1. /\ Len(q) \in Nat /\ j \in 1..Len(q) - 1 /\ k \in 1..Len(q) - 1
      /\ (IF j < i THEN q[j] ELSE q[j + 1]) = (IF k < i THEN q[k] ELSE q[k + 1])
  BY SpliceIs
<1>2. j \in 1..Len(q) /\ j + 1 \in 1..Len(q) /\ k \in 1..Len(q) /\ k + 1 \in 1..Len(q)
  BY <1>1
<1>3. QED
  BY <1>1, <1>2

\* The entry that was taken out is gone.
LEMMA SpliceGone ==
  ASSUME NEW q \in Seq(Callers), NEW i \in 1..Len(q),
         \A j, k \in 1..Len(q) : q[j] = q[k] => j = k
  PROVE  \A j \in 1..Len(Splice(q, i)) :
           /\ Splice(q, i)[j] # q[i]
           /\ \E k \in 1..Len(q) : Splice(q, i)[j] = q[k]
<1> DEFINE Left(j) == IF j < i THEN q[j] ELSE q[j + 1]
<1>1. ASSUME NEW j \in 1..Len(q) - 1
      PROVE  Left(j) # q[i] /\ \E k \in 1..Len(q) : Left(j) = q[k]
  <2>1. Len(q) \in Nat /\ j \in 1..Len(q) /\ j + 1 \in 1..Len(q)
    OBVIOUS
  <2>2. QED
    BY <2>1
<1>2. Len(Splice(q, i)) = Len(q) - 1 /\ \A j \in 1..Len(q) - 1 : Splice(q, i)[j] = Left(j)
  BY SpliceIs
<1> HIDE DEF Left
<1>3. QED
  BY <1>1, <1>2
-----------------------------------------------------------------------------
LEMMA SlotsStart == SlotInit => SlotInv
  BY SlotAssumption DEF SlotInit, SlotInv, SlotTypes, QueueOK, KeyOK, OneRequest, Has

LEMMA CallKeeps ==
  ASSUME SlotInv, NEW c \in Callers, NEW e \in Endpoints, Call(c, e)
  PROVE  SlotInv'
<1> USE DEF SlotInv
<1>1. SlotTypes'
  <2>1. queue' \in [Endpoints -> Seq(Callers)]
    <3>1. Append(queue[e], c) \in Seq(Callers)
      BY DEF SlotTypes
    <3>2. QED
      BY <3>1 DEF SlotTypes, Call
  <2>2. /\ at' \in [Callers -> {"idle", "waiting", "resolved", "running", "ungated"}]
        /\ goal' \in [Callers -> Endpoints \cup {NoEndpoint}]
        /\ \A d \in Callers : at'[d] # "idle" => goal'[d] \in Endpoints
    BY DEF SlotTypes, Call, Moves
  <2>3. keys' \subseteq Endpoints /\ gated' \in BOOLEAN
    BY DEF SlotTypes, Call
  <2>4. QED
    BY <2>1, <2>2, <2>3 DEF SlotTypes
<1>2. CASE ~gated /\ Moves(c, "ungated", e) /\ UNCHANGED <<keys, queue>>
  <2>1. \A d \in Callers : d # c => at'[d] = at[d] /\ goal'[d] = goal[d]
    BY <1>2 DEF SlotTypes, Moves
  <2>2. at[c] = "idle" /\ at'[c] = "ungated"
    BY <1>2 DEF SlotTypes, Moves, Call
  <2>3. \A d \in Callers, f \in Endpoints : Has(d, f)' <=> Has(d, f)
    BY <2>1, <2>2 DEF Has
  <2>4. QueueOK'
    <3>1. \A f \in Endpoints : \A i \in 1..Len(queue[f]) : queue[f][i] \in Callers /\ queue[f][i] # c
      BY <2>2 DEF QueueOK, SlotTypes
    <3>2. queue' = queue
      BY <1>2
    <3>3. QED
      BY <2>1, <3>1, <3>2 DEF QueueOK
  <2>5. QED
    BY <1>1, <1>2, <2>3, <2>4 DEF KeyOK, OneRequest
<1>3. CASE /\ gated /\ e \in keys
           /\ queue' = [queue EXCEPT ![e] = Append(@, c)]
           /\ Moves(c, "waiting", e) /\ UNCHANGED keys
  <2>1. \A d \in Callers : d # c => at'[d] = at[d] /\ goal'[d] = goal[d]
    BY <1>3 DEF SlotTypes, Moves
  <2>2. at[c] = "idle" /\ at'[c] = "waiting" /\ goal'[c] = e
    BY <1>3 DEF SlotTypes, Moves, Call
  <2>3. \A d \in Callers, f \in Endpoints : Has(d, f)' <=> Has(d, f)
    BY <2>1, <2>2 DEF Has
  <2>4. \A f \in Endpoints : \A i \in 1..Len(queue[f]) : queue[f][i] \in Callers /\ queue[f][i] # c
    BY <2>2 DEF QueueOK, SlotTypes
  <2>5. QueueOK'
    <3> SUFFICES ASSUME NEW f \in Endpoints
                 PROVE  /\ \A i \in 1..Len(queue'[f]) : at'[queue'[f][i]] = "waiting" /\ goal'[queue'[f][i]] = f
                        /\ \A i, j \in 1..Len(queue'[f]) : queue'[f][i] = queue'[f][j] => i = j
      BY DEF QueueOK
    <3>1. CASE f # e
      <4>1. queue'[f] = queue[f]
        BY <1>3, <3>1 DEF SlotTypes
      <4>2. QED
        BY <4>1, <2>1, <2>4 DEF QueueOK
    <3>2. CASE f = e
      <4>1. queue'[f] = Append(queue[e], c) /\ queue[e] \in Seq(Callers)
        BY <1>3, <3>2 DEF SlotTypes
      <4>2. Len(queue'[f]) = Len(queue[e]) + 1 /\ Len(queue[e]) \in Nat
        BY <4>1
      <4>3. \A i \in 1..Len(queue'[f]) :
              queue'[f][i] = IF i = Len(queue[e]) + 1 THEN c ELSE queue[e][i]
        BY <4>1
      <4>4. \A i \in 1..Len(queue'[f]) : i = Len(queue[e]) + 1 \/ i \in 1..Len(queue[e])
        BY <4>2
      <4>5. /\ \A i \in 1..Len(queue[e]) : queue[e][i] \in Callers /\ queue[e][i] # c
            /\ \A i \in 1..Len(queue[e]) : at[queue[e][i]] = "waiting" /\ goal[queue[e][i]] = e
            /\ \A i, j \in 1..Len(queue[e]) : queue[e][i] = queue[e][j] => i = j
        BY <2>4 DEF QueueOK
      <4>6. \A i \in 1..Len(queue'[f]) : at'[queue'[f][i]] = "waiting" /\ goal'[queue'[f][i]] = e
        BY <4>3, <4>4, <4>5, <2>1, <2>2
      <4>7. \A i, j \in 1..Len(queue'[f]) : queue'[f][i] = queue'[f][j] => i = j
        BY <4>3, <4>4, <4>5
      <4>8. QED
        BY <3>2, <4>6, <4>7
    <3>3. QED
      BY <3>1, <3>2
  <2>6. \A f \in Endpoints : f \notin keys => queue'[f] = queue[f]
    BY <1>3 DEF SlotTypes
  <2>7. QED
    BY <1>1, <1>3, <2>3, <2>5, <2>6 DEF KeyOK, OneRequest
<1>4. CASE /\ gated /\ e \notin keys
           /\ keys' = keys \cup {e}
           /\ Moves(c, "running", e) /\ UNCHANGED queue
  <2>1. \A d \in Callers : d # c => at'[d] = at[d] /\ goal'[d] = goal[d]
    BY <1>4 DEF SlotTypes, Moves
  <2>2. at[c] = "idle" /\ at'[c] = "running" /\ goal'[c] = e
    BY <1>4 DEF SlotTypes, Moves, Call
  <2>3. \A d \in Callers, f \in Endpoints : Has(d, f)' <=> (Has(d, f) \/ (d = c /\ f = e))
    BY <2>1, <2>2 DEF Has
  <2>4. QueueOK'
    <3>1. \A f \in Endpoints : \A i \in 1..Len(queue[f]) : queue[f][i] \in Callers /\ queue[f][i] # c
      BY <2>2 DEF QueueOK, SlotTypes
    <3>2. queue' = queue
      BY <1>4
    <3>3. QED
      BY <2>1, <3>1, <3>2 DEF QueueOK
  <2>5. \A d \in Callers : ~Has(d, e)
    BY <1>4 DEF KeyOK
  <2>6. KeyOK'
    BY <1>4, <2>3 DEF KeyOK
  <2>7. OneRequest'
    BY <2>3, <2>5 DEF OneRequest
  <2>8. QED
    BY <1>1, <2>4, <2>6, <2>7
<1>5. QED
  BY <1>2, <1>3, <1>4 DEF Call

LEMMA AbortKeeps ==
  ASSUME SlotInv, NEW c \in Callers, Abort(c)
  PROVE  SlotInv'
<1> USE DEF SlotInv
<1>0. at[c] = "waiting" /\ goal[c] \in Endpoints
  BY DEF Abort, SlotTypes
<1>1. PICK i \in 1..Len(queue[goal[c]]) :
        queue[goal[c]][i] = c /\ queue' = [queue EXCEPT ![goal[c]] = Splice(@, i)]
  BY DEF Abort
<1> DEFINE e == goal[c]
<1>2. queue[e] \in Seq(Callers)
  BY <1>0 DEF SlotTypes
<1>3. Splice(queue[e], i) \in Seq(Callers)
  BY <1>1, <1>2, SpliceIs
<1>4. \A d \in Callers : d # c => at'[d] = at[d] /\ goal'[d] = goal[d]
  BY DEF Abort, Moves, SlotTypes
<1>5. at'[c] = "idle" /\ keys' = keys
  BY DEF Abort, Moves, SlotTypes
<1>6. queue' = [queue EXCEPT ![e] = Splice(queue[e], i)]
  BY <1>1
<1>7. SlotTypes'
  <2>1. queue' \in [Endpoints -> Seq(Callers)]
    BY <1>3, <1>6 DEF SlotTypes
  <2>2. QED
    BY <2>1, <1>5 DEF SlotTypes, Abort, Moves
<1>8. \A d \in Callers, f \in Endpoints : Has(d, f)' <=> Has(d, f)
  BY <1>0, <1>4, <1>5 DEF Has
<1>9. QueueOK'
  <2> SUFFICES ASSUME NEW f \in Endpoints
               PROVE  /\ \A j \in 1..Len(queue'[f]) : at'[queue'[f][j]] = "waiting" /\ goal'[queue'[f][j]] = f
                      /\ \A j, k \in 1..Len(queue'[f]) : queue'[f][j] = queue'[f][k] => j = k
    BY DEF QueueOK
  <2>1. CASE f # e
    <3>1. queue'[f] = queue[f]
      BY <1>6, <2>1 DEF SlotTypes
    <3>2. \A j \in 1..Len(queue[f]) : queue[f][j] \in Callers /\ queue[f][j] # c
      BY <2>1 DEF QueueOK, SlotTypes
    <3>3. QED
      BY <3>1, <3>2, <1>4 DEF QueueOK
  <2>2. CASE f = e
    <3> DEFINE q == queue[e]
    <3>1. queue'[f] = Splice(q, i)
      BY <1>0, <1>6, <2>2 DEF SlotTypes
    <3>2. \A j, k \in 1..Len(q) : q[j] = q[k] => j = k
      BY <1>0 DEF QueueOK
    <3>3. \A j \in 1..Len(Splice(q, i)) :
            Splice(q, i)[j] # c /\ \E k \in 1..Len(q) : Splice(q, i)[j] = q[k]
      <4> HIDE DEF q
      <4>1. q \in Seq(Callers) /\ i \in 1..Len(q) /\ q[i] = c
        BY <1>1, <1>2 DEF q
      <4>2. QED
        BY <4>1, <3>2, SpliceGone
    <3>4. \A j, k \in 1..Len(Splice(q, i)) : Splice(q, i)[j] = Splice(q, i)[k] => j = k
      <4> HIDE DEF q
      <4>1. q \in Seq(Callers) /\ i \in 1..Len(q)
        BY <1>1, <1>2 DEF q
      <4>2. QED
        BY <4>1, <3>2, SpliceOnce
    <3>5. \A k \in 1..Len(q) : q[k] \in Callers /\ at[q[k]] = "waiting" /\ goal[q[k]] = e
      BY <1>0, <1>2 DEF QueueOK
    <3> HIDE DEF q
    <3>6. ASSUME NEW j \in 1..Len(queue'[f])
          PROVE  at'[queue'[f][j]] = "waiting" /\ goal'[queue'[f][j]] = f
      <4>1. PICK k \in 1..Len(q) : queue'[f][j] = q[k] /\ q[k] # c
        BY <3>1, <3>3, <3>6
      <4>2. at'[q[k]] = at[q[k]] /\ goal'[q[k]] = goal[q[k]]
        BY <3>5, <4>1, <1>4
      <4>3. QED
        BY <2>2, <3>5, <4>1, <4>2
    <3>7. QED
      BY <3>1, <3>4, <3>6
  <2>3. QED
    BY <2>1, <2>2
<1>10. \A f \in Endpoints : f # e => queue'[f] = queue[f]
  BY <1>6 DEF SlotTypes
<1>11. e \in keys
  <2>1. Len(queue[e]) # 0
    BY <1>1, <1>2
  <2>2. QED
    BY <2>1, <1>0 DEF KeyOK
<1>12. QED
  BY <1>5, <1>7, <1>8, <1>9, <1>10, <1>11 DEF KeyOK, OneRequest

LEMMA EndKeeps ==
  ASSUME SlotInv, NEW c \in Callers, End(c)
  PROVE  SlotInv'
<1> USE DEF SlotInv
<1> DEFINE e == goal[c]
           q == queue[e]
<1>0. at[c] = "running" /\ e \in Endpoints /\ q \in Seq(Callers) /\ Has(c, e)
  BY DEF End, SlotTypes, Has
<1>1. \A d \in Callers, f \in Endpoints : d # c => goal'[d] = goal[d]
  BY DEF End, SlotTypes
<1>2. CASE q = <<>>
  <2>1. /\ at' = [at EXCEPT ![c] = "idle"] /\ keys' = keys \ {e} /\ queue' = queue
        /\ goal' = [goal EXCEPT ![c] = NoEndpoint] /\ gated' = gated
    BY <1>2 DEF End
  <2>2. \A d \in Callers : d # c => at'[d] = at[d]
    BY <2>1 DEF SlotTypes
  <2>3. at'[c] = "idle"
    BY <2>1 DEF SlotTypes
  <2>4. \A d \in Callers, f \in Endpoints : Has(d, f)' <=> (Has(d, f) /\ d # c)
    BY <1>1, <2>2, <2>3 DEF Has
  <2>5. \A d \in Callers, f \in Endpoints : Has(d, f)' <=> (Has(d, f) /\ f # e)
    BY <1>0, <2>4 DEF OneRequest, Has
  <2>6. SlotTypes'
    BY <2>1 DEF SlotTypes
  <2>7. QueueOK'
    BY <1>0, <1>1, <2>1, <2>2 DEF QueueOK, SlotTypes
  <2>8. KeyOK'
    BY <1>2, <2>1, <2>5 DEF KeyOK
  <2>9. OneRequest'
    BY <2>5 DEF OneRequest
  <2>10. QED
    BY <2>6, <2>7, <2>8, <2>9
<1>3. CASE q # <<>>
  <2> DEFINE n == Head(q)
  <2>1. Len(q) \in Nat /\ 1 \in 1..Len(q) /\ n = q[1] /\ n \in Callers
    BY <1>0, <1>3
  <2>2. at[n] = "waiting" /\ goal[n] = e /\ n # c
    BY <1>0, <2>1 DEF QueueOK
  <2>3. /\ at' = [at EXCEPT ![c] = "idle", ![n] = "resolved"] /\ keys' = keys
        /\ queue' = [queue EXCEPT ![e] = Tail(q)]
        /\ goal' = [goal EXCEPT ![c] = NoEndpoint] /\ gated' = gated
    <3>1. at' = HandOver(c, n)
      BY <1>3 DEF End
    <3>2. HandOver(c, n) = [at EXCEPT ![c] = "idle", ![n] = "resolved"]
      BY <2>1, <2>2 DEF HandOver, SlotTypes
    <3>3. QED
      BY <1>3, <3>1, <3>2 DEF End
  <2>4. \A d \in Callers : d # c /\ d # n => at'[d] = at[d]
    BY <2>3 DEF SlotTypes
  <2>5. at'[c] = "idle" /\ at'[n] = "resolved" /\ goal'[n] = e
    BY <1>1, <2>1, <2>2, <2>3 DEF SlotTypes
  <2>6. \A d \in Callers, f \in Endpoints :
          Has(d, f)' <=> ((Has(d, f) /\ d # c) \/ (d = n /\ f = e))
    BY <1>1, <2>2, <2>4, <2>5 DEF Has
  <2>7. \A d \in Callers : Has(d, e) => d = c
    BY <1>0 DEF OneRequest
  <2>8. Tail(q) \in Seq(Callers) /\ Len(Tail(q)) = Len(q) - 1
        /\ \A i \in 1..Len(Tail(q)) : Tail(q)[i] = q[i + 1] /\ i + 1 \in 1..Len(q)
    BY <1>0, <1>3, <2>1
  <2>9. SlotTypes'
    <3>1. queue' \in [Endpoints -> Seq(Callers)]
      BY <2>3, <2>8 DEF SlotTypes
    <3>2. QED
      BY <2>1, <2>3, <3>1, <2>2, <1>0 DEF SlotTypes
  <2>10. QueueOK'
    <3> SUFFICES ASSUME NEW f \in Endpoints
                 PROVE  /\ \A j \in 1..Len(queue'[f]) : at'[queue'[f][j]] = "waiting" /\ goal'[queue'[f][j]] = f
                        /\ \A j, k \in 1..Len(queue'[f]) : queue'[f][j] = queue'[f][k] => j = k
      BY DEF QueueOK
    <3>1. CASE f # e
      <4>1. queue'[f] = queue[f]
        BY <2>3, <3>1 DEF SlotTypes
      <4>2. \A j \in 1..Len(queue[f]) : queue[f][j] \in Callers /\ queue[f][j] # c /\ queue[f][j] # n
        BY <1>0, <2>2, <3>1 DEF QueueOK, SlotTypes
      <4>3. QED
        BY <4>1, <4>2, <2>4, <1>1 DEF QueueOK
    <3>2. CASE f = e
      <4>1. queue'[f] = Tail(q)
        BY <1>0, <2>3, <3>2 DEF SlotTypes
      <4>2. /\ \A j, k \in 1..Len(q) : q[j] = q[k] => j = k
            /\ \A j \in 1..Len(q) : q[j] \in Callers /\ at[q[j]] = "waiting" /\ goal[q[j]] = e
        BY <1>0 DEF QueueOK
      <4>3. \A j \in 1..Len(Tail(q)) : q[j + 1] # n /\ q[j + 1] # c
        BY <4>2, <2>1, <2>8, <1>0
      <4> HIDE DEF q, n
      <4>4. QED
        BY <3>2, <4>1, <4>2, <4>3, <2>1, <2>8, <2>4, <1>1
    <3>3. QED
      BY <3>1, <3>2
  <2>11. KeyOK'
    <3> SUFFICES ASSUME NEW f \in Endpoints
                 PROVE  /\ f \in keys' <=> \E d \in Callers : Has(d, f)'
                        /\ f \notin keys' => queue'[f] = <<>>
      BY DEF KeyOK
    <3>1. CASE f = e
      BY <1>0, <2>1, <2>3, <2>6, <3>1 DEF KeyOK
    <3>2. CASE f # e
      <4>1. queue'[f] = queue[f]
        BY <2>3, <3>2 DEF SlotTypes
      <4>2. \A d \in Callers : Has(d, f)' <=> Has(d, f)
        BY <1>0, <2>6, <3>2 DEF Has
      <4>3. QED
        BY <2>3, <4>1, <4>2 DEF KeyOK
    <3>3. QED
      BY <3>1, <3>2
  <2>12. OneRequest'
    BY <2>6, <2>7 DEF OneRequest
  <2>13. QED
    BY <2>9, <2>10, <2>11, <2>12
<1>4. QED
  BY <1>2, <1>3

LEMMA OthersKeep ==
  ASSUME SlotInv, NEW c \in Callers, Resume(c) \/ EndUngated(c)
  PROVE  SlotInv'
<1> USE DEF SlotInv
<1>1. \A d \in Callers : d # c => at'[d] = at[d] /\ goal'[d] = goal[d]
  BY DEF Resume, EndUngated, Moves, SlotTypes
<1>2. \A d \in Callers, f \in Endpoints : Has(d, f)' <=> Has(d, f)
  BY <1>1 DEF Resume, EndUngated, Moves, SlotTypes, Has
<1>3. at[c] # "waiting" /\ queue' = queue /\ keys' = keys
  BY DEF Resume, EndUngated
<1>4. SlotTypes'
  BY DEF Resume, EndUngated, Moves, SlotTypes
<1>5. QueueOK'
  BY <1>1, <1>3 DEF QueueOK, SlotTypes
<1>6. QED
  BY <1>2, <1>3, <1>4, <1>5 DEF KeyOK, OneRequest

LEMMA SlotsKeep == SlotInv /\ [SlotNext]_slotVars => SlotInv'
<1> SUFFICES ASSUME SlotInv, [SlotNext]_slotVars PROVE SlotInv'
  OBVIOUS
<1>1. CASE UNCHANGED slotVars
  BY <1>1 DEF slotVars, SlotInv, SlotTypes, QueueOK, KeyOK, OneRequest, Has
<1>2. CASE ChangeSetting
  BY <1>2 DEF ChangeSetting, SlotInv, SlotTypes, QueueOK, KeyOK, OneRequest, Has
<1>3. ASSUME NEW c \in Callers, NEW e \in Endpoints, Call(c, e) PROVE SlotInv'
  BY <1>3, CallKeeps
<1>4. ASSUME NEW c \in Callers, Abort(c) \/ Resume(c) \/ End(c) \/ EndUngated(c) PROVE SlotInv'
  BY <1>4, AbortKeeps, EndKeeps, OthersKeep
<1>5. QED
  BY <1>1, <1>2, <1>3, <1>4 DEF SlotNext

\* The inductive invariant of the slots.
THEOREM SlotsInOrder == SlotSpec => []SlotInv
<1>1. QED
  BY SlotsStart, SlotsKeep, PTL DEF SlotSpec

\* Every variable keeps its type, and nobody is twice in a queue.
THEOREM SlotTypesCorrect == SlotSpec => []SlotTypeOK
<1>1. SlotInv => SlotTypeOK
  BY DEF SlotInv, SlotTypes, QueueOK, SlotTypeOK
<1>2. QED
  BY <1>1, SlotsInOrder, PTL

\* One request at a time is with each endpoint, for any number of callers.
THEOREM OneRequestAtATime == SlotSpec => []OneRequest
<1>1. SlotInv => OneRequest
  BY DEF SlotInv
<1>2. QED
  BY <1>1, SlotsInOrder, PTL

\* The slots implement the mutex with arrival order: each step of a caller is a step of
\* the mutex, or changes nothing the mutex sees.
THEOREM SlotIsMutex == SlotSpec => Implements
<1> DEFINE Inside == [e \in Endpoints |-> {c \in Callers : Has(c, e)}]
<1>1. SlotInit => Mutex!Init
  BY SlotAssumption DEF SlotInit, Mutex!Init, Has
<1>2. SlotInv /\ SlotInv' /\ [SlotNext]_slotVars => [Mutex!Next]_(Mutex!mutex)
  <2> SUFFICES ASSUME SlotInv, SlotInv', [SlotNext]_slotVars PROVE [Mutex!Next]_(Mutex!mutex)
    OBVIOUS
  <2> USE DEF SlotInv
  <2>1. ASSUME queue' = queue, Inside' = Inside PROVE [Mutex!Next]_(Mutex!mutex)
    BY <2>1 DEF Mutex!mutex
  <2>2. ASSUME queue' = queue, \A c \in Callers, e \in Endpoints : Has(c, e)' <=> Has(c, e)
        PROVE  [Mutex!Next]_(Mutex!mutex)
    BY <2>1, <2>2
  <2>3. CASE UNCHANGED slotVars \/ ChangeSetting
    BY <2>2, <2>3 DEF slotVars, ChangeSetting, Has
  <2>4. ASSUME NEW c \in Callers, Resume(c) \/ EndUngated(c) PROVE [Mutex!Next]_(Mutex!mutex)
    BY <2>2, <2>4 DEF Resume, EndUngated, Moves, SlotTypes, Has
  <2>5. ASSUME NEW c \in Callers, NEW e \in Endpoints, Call(c, e) PROVE [Mutex!Next]_(Mutex!mutex)
    <3>1. CASE ~gated /\ Moves(c, "ungated", e) /\ UNCHANGED <<keys, queue>>
      BY <2>2, <2>5, <3>1 DEF Call, Moves, SlotTypes, Has
    <3>2. CASE /\ gated /\ e \in keys
               /\ queue' = [queue EXCEPT ![e] = Append(@, c)]
               /\ Moves(c, "waiting", e) /\ UNCHANGED keys
      <4>1. \A d \in Callers, f \in Endpoints : Has(d, f)' <=> Has(d, f)
        BY <2>5, <3>2 DEF Call, Moves, SlotTypes, Has
      <4>2. Inside[e] # {} /\ Inside' = Inside
        BY <3>2, <4>1 DEF KeyOK
      <4>3. Mutex!Arrive(c, e)
        BY <3>2, <4>2 DEF Mutex!Arrive
      <4>4. QED
        BY <4>3 DEF Mutex!Next
    <3>3. CASE /\ gated /\ e \notin keys
               /\ keys' = keys \cup {e}
               /\ Moves(c, "running", e) /\ UNCHANGED queue
      <4>1. \A d \in Callers, f \in Endpoints : Has(d, f)' <=> (Has(d, f) \/ (d = c /\ f = e))
        BY <2>5, <3>3 DEF Call, Moves, SlotTypes, Has
      <4>2. Inside[e] = {}
        BY <3>3 DEF KeyOK
      <4>3. Inside' = [Inside EXCEPT ![e] = {c}]
        <5>1. \A f \in Endpoints : {d \in Callers : Has(d, f)'} = (IF f = e THEN {c} ELSE Inside[f])
          BY <4>1, <4>2
        <5>2. QED
          BY <5>1
      <4>4. Mutex!Arrive(c, e)
        BY <3>3, <4>2, <4>3 DEF Mutex!Arrive
      <4>5. QED
        BY <4>4 DEF Mutex!Next
    <3>4. QED
      BY <2>5, <3>1, <3>2, <3>3 DEF Call
  <2>6. ASSUME NEW c \in Callers, Abort(c) PROVE [Mutex!Next]_(Mutex!mutex)
    <3>1. goal[c] \in Endpoints
      BY <2>6 DEF Abort, SlotTypes
    <3>2. \A d \in Callers, f \in Endpoints : Has(d, f)' <=> Has(d, f)
      BY <2>6 DEF Abort, Moves, SlotTypes, Has
    <3>3. Inside' = Inside
      BY <3>2
    <3>4. \A q, i : Splice(q, i) = Mutex!Without(q, i)
      BY DEF Splice, Mutex!Without
    <3>5. Mutex!GiveUp(c, goal[c])
      BY <2>6, <3>3, <3>4 DEF Mutex!GiveUp, Abort
    <3>6. QED
      BY <3>1, <3>5 DEF Mutex!Next
  <2>7. ASSUME NEW c \in Callers, End(c) PROVE [Mutex!Next]_(Mutex!mutex)
    <3> DEFINE e == goal[c]
               q == queue[e]
    <3>1. at[c] = "running" /\ e \in Endpoints /\ Has(c, e) /\ q \in Seq(Callers)
      BY <2>7 DEF End, SlotTypes, Has
    <3>2. Inside[e] = {c}
      BY <3>1 DEF OneRequest
    <3>3. \A d \in Callers, f \in Endpoints : d # c => goal'[d] = goal[d]
      BY <2>7 DEF End, SlotTypes
    <3>4. CASE q = <<>>
      <4>1. at' = [at EXCEPT ![c] = "idle"] /\ queue' = queue
        BY <2>7, <3>4 DEF End
      <4>2. \A d \in Callers, f \in Endpoints : Has(d, f)' <=> (Has(d, f) /\ f # e)
        BY <3>1, <3>3, <4>1 DEF SlotTypes, Has, OneRequest
      <4>3. Inside' = [Inside EXCEPT ![e] = {}]
        <5>1. \A f \in Endpoints : {d \in Callers : Has(d, f)'} = (IF f = e THEN {} ELSE Inside[f])
          BY <4>2
        <5>2. QED
          BY <5>1
      <4>4. Mutex!Leave(c, e)
        BY <3>2, <3>4, <4>1, <4>3 DEF Mutex!Leave
      <4>5. QED
        BY <3>1, <4>4 DEF Mutex!Next
    <3>5. CASE q # <<>>
      <4> DEFINE n == Head(q)
      <4>1. Len(q) \in Nat /\ 1 \in 1..Len(q) /\ n = q[1] /\ n \in Callers
        BY <3>1, <3>5
      <4>2. at[n] = "waiting" /\ goal[n] = e /\ n # c
        BY <3>1, <4>1 DEF QueueOK
      <4>3. at' = HandOver(c, n) /\ queue' = [queue EXCEPT ![e] = Tail(q)]
        BY <2>7, <3>5 DEF End
      <4>4. at' = [at EXCEPT ![c] = "idle", ![n] = "resolved"]
        BY <4>1, <4>2, <4>3 DEF HandOver, SlotTypes
      <4>5. \A d \in Callers, f \in Endpoints :
              Has(d, f)' <=> ((Has(d, f) /\ d # c) \/ (d = n /\ f = e))
        BY <3>1, <3>3, <4>1, <4>2, <4>4 DEF SlotTypes, Has
      <4>6. Inside' = [Inside EXCEPT ![e] = {n}]
        <5>1. \A f \in Endpoints : {d \in Callers : Has(d, f)'} = (IF f = e THEN {n} ELSE Inside[f])
          <6>1. \A d \in Callers : Has(d, e) <=> d = c
            BY <3>1 DEF OneRequest
          <6>2. \A f \in Endpoints : f # e => ~Has(c, f)
            BY DEF Has
          <6> HIDE DEF n, e
          <6>3. QED
            BY <4>1, <4>5, <6>1, <6>2
        <5>2. QED
          BY <5>1
      <4>7. Mutex!Leave(c, e)
        BY <3>2, <3>5, <4>3, <4>6 DEF Mutex!Leave
      <4>8. QED
        BY <3>1, <4>7 DEF Mutex!Next
    <3>6. QED
      BY <3>4, <3>5
  <2>8. QED
    BY <2>3, <2>4, <2>5, <2>6, <2>7 DEF SlotNext
<1>3. QED
  BY <1>1, <1>2, SlotsInOrder, PTL DEF SlotSpec, Implements, Mutex!Spec
=============================================================================
