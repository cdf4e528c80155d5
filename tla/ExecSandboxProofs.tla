-------------------------- MODULE ExecSandboxProofs --------------------------
(***************************************************************************)
(* The invariants of ExecSandbox, for any numbers of commands and of       *)
(* Python's calls.                                                         *)
(*                                                                         *)
(* A task of the page is a composition of operators on the record host,    *)
(* and inside a reset the record is in states that no other task sees: the *)
(* frame "failed", a worker that has just been forgotten.  So the lemmas   *)
(* go from the state that an operator finds to the one it leaves.  Dropped *)
(* is what holds from the first half of resetSandbox to the second, Idle   *)
(* what is left without a worker, and Good what holds between two tasks.   *)
(* Both ends and starts of a worker need a call of Python that is free,    *)
(* and Leaves counts those that are left for the next.                     *)
(***************************************************************************)
EXTENDS ExecSandbox, TLAPS

\* The states of the page between two parts of a task.
Ats == [Calls -> {"idle", "waiting", "resolved", "rejected", "orphan", "pending"}]
Sets(S) == SUBSET S
Hosts ==
  [frame : {"none", "loading", "loaded", "failed"}, boot : BOOLEAN,
   retried : BOOLEAN, csp : BOOLEAN, at : Ats,
   abandoned : Sets(Runs), abandonedBash : Sets(Bash),
   running : Sets(Calls), asks : Sets(Bash),
   python : {"idle", "loading", "ready", "error"},
   worker : Py \cup {NoCall}, starts : Sets(Py), order : Sets(Py \X Py),
   pyIn : {"none", "starting", "up"}, news : BOOLEAN, level : Levels]

FrameOK(s) ==
  /\ s.frame = "loading" => s.boot
  /\ s.frame = "loaded" => ~s.boot
  /\ s.frame # "failed"

\* Who waits for a frame has a load timer, and a command waits for the frame that loads.
WaitOK(s) ==
  /\ \A c \in Calls : s.at[c] = "waiting" => s.boot
  /\ \A c \in Runs : s.at[c] # "orphan" /\ (s.at[c] = "waiting" => s.frame = "loading")

\* What is stopped is what runs and has no caller.
CodeOK(s) ==
  /\ s.abandonedBash = s.abandoned \cap Bash
  /\ s.abandoned = {c \in s.running : s.at[c] # "pending"}
  /\ s.asks \subseteq s.running

\* A command is in the frame from the moment its caller goes on, and not before.
RunOK(s) ==
  \A c \in Runs :
    /\ s.at[c] \in {"waiting", "resolved", "rejected"} => c \notin s.running
    /\ s.at[c] = "resolved" => s.frame = "loaded"
    /\ s.at[c] = "pending" => c \in s.running

\* Python's worker and what it says are in a frame that has loaded.
InFrame(s) == s.pyIn # "none" \/ s.news => s.frame = "loaded"

\* Stopped code has a call beside it that will answer.
EndsOK(s) == s.abandoned # {} => Pending(s) # {}

\* A worker has a frame, its start is not refused, and there is a call left to end it with.
WorkerOK(s) ==
  /\ s.worker # NoCall <=> s.python \in {"loading", "ready"}
  /\ s.worker # NoCall =>
       s.frame # "none" /\ s.at[s.worker] # "rejected" /\ FreePy(s) # {}

\* Whatever waits beside the start of the worker waits in front of it, and loads with it.
OrderOK(s) ==
  s.worker # NoCall =>
    /\ \A c \in InLine(s) \ {s.worker} : s.worker \in InLine(s) /\ <<c, s.worker>> \in s.order
    /\ s.worker \in InLine(s) => s.worker \in s.starts
    /\ s.at[s.worker] = "resolved" => \A c \in Py : s.at[c] # "waiting"

\* The worker that says that it is ready is in the frame, and its start is not still to come.
ReadyOK(s) ==
  /\ s.news /\ s.worker # NoCall /\ s.worker \notin InLine(s) => s.pyIn # "none"
  /\ s.python = "ready" => s.pyIn # "none" /\ s.worker \notin InLine(s)

Base(s) == s \in Hosts /\ FrameOK(s) /\ WaitOK(s) /\ CodeOK(s) /\ RunOK(s) /\ InFrame(s)
PythonOK(s) == WorkerOK(s) /\ OrderOK(s) /\ ReadyOK(s)
Good(s) == Base(s) /\ EndsOK(s) /\ PythonOK(s)

IInv == Good(host) /\ late = {}

-----------------------------------------------------------------------------
(* The parts of a task: what each leaves, from what it finds. *)

\* No command goes on before the next task.
Calm(s) == \A c \in Runs : s.at[c] # "resolved"

\* No worker of Python.
Off(s) == s.worker = NoCall /\ s.python \in {"idle", "error"}

Idle(s) == Base(s) /\ EndsOK(s) /\ Calm(s) /\ Off(s)

\* The frame is on its way out: nothing of what runs in it is wanted any more.
Dropped(s) ==
  /\ s \in Hosts
  /\ s.frame = "loading" => s.boot
  /\ s.frame = "loaded" => ~s.boot
  /\ \A c \in Calls : s.at[c] # "pending" /\ (s.at[c] = "waiting" => s.boot)
  /\ \A c \in Runs : s.at[c] \in {"idle", "rejected"}
  /\ s.abandoned = {} /\ s.abandonedBash = {}

\* Of Python's calls that are free, all but x stay free.
Leaves(s, r, x) == FreePy(s) \ {x} \subseteq FreePy(r)

LEMMA IdleIsGood ==
  ASSUME NEW s, Idle(s)
  PROVE  Good(s)
  BY DEF Idle, Off, Good, PythonOK, WorkerOK, OrderOK, ReadyOK

LEMMA TurnIs ==
  ASSUME NEW s \in Hosts, NEW from,
         NEW to \in {"idle", "waiting", "resolved", "rejected", "orphan", "pending"}
  PROVE  /\ Turn(s, from, to) \in [Calls -> {"idle", "waiting", "resolved", "rejected", "orphan", "pending"}]
         /\ \A c \in Calls : Turn(s, from, to)[c] = IF s.at[c] = from THEN to ELSE s.at[c]
  BY DEF Turn, Hosts, Ats, Sets

\* What resetSandbox forgets first.
LEMMA DropIs ==
  ASSUME NEW s \in Hosts, FrameOK(s) \/ Dropped(s), WaitOK(s) \/ Dropped(s), Calm(s) \/ Dropped(s)
  PROVE  /\ Dropped(Drop(s)) /\ Leaves(s, Drop(s), NoCall)
         /\ Drop(s).worker = s.worker /\ Drop(s).python = s.python /\ Drop(s).level = s.level
<1> DEFINE idle == Turn(s, "pending", "idle")
           d == [s EXCEPT !.abandoned = {}, !.abandonedBash = {}, !.at = idle]
<1>1. idle \in [Calls -> {"idle", "waiting", "resolved", "rejected", "orphan", "pending"}]
      /\ \A c \in Calls : idle[c] = IF s.at[c] = "pending" THEN "idle" ELSE s.at[c]
  BY TurnIs
<1> HIDE DEF idle
<1>2. d \in Hosts /\ d.at = idle /\ d.abandoned = {} /\ d.abandonedBash = {}
      /\ d.boot = s.boot /\ d.frame = s.frame
      /\ d.worker = s.worker /\ d.python = s.python /\ d.level = s.level
  BY <1>1 DEF Hosts, Ats, Sets
<1> DEFINE out == Turn(d, "waiting", "rejected")
           fr == IF d.frame = "loading" THEN "failed" ELSE d.frame
           e == [d EXCEPT !.boot = FALSE, !.retried = FALSE, !.at = out, !.frame = fr]
<1>3. out \in [Calls -> {"idle", "waiting", "resolved", "rejected", "orphan", "pending"}]
      /\ \A c \in Calls : out[c] = IF d.at[c] = "waiting" THEN "rejected" ELSE d.at[c]
  <2> HIDE DEF d
  <2> QED BY <1>2, TurnIs
<1>9. fr \in {"none", "loading", "loaded", "failed"}
  BY <1>2 DEF Hosts, Ats, Sets
<1> HIDE DEF d, out, fr, e
<1>4. e \in Hosts /\ e.at = out /\ e.abandoned = {} /\ e.abandonedBash = {} /\ e.boot = FALSE
      /\ e.frame = fr
      /\ e.worker = s.worker /\ e.python = s.python /\ e.level = s.level
  <2>1. d \in Hosts
    BY <1>2
  <2>2. e \in Hosts
    <3>1. PICK f : f = [d EXCEPT !.boot = FALSE, !.retried = FALSE, !.at = out]
      OBVIOUS
    <3>3. e = [f EXCEPT !.frame = fr]
      BY <3>1 DEF e
    <3>4. out \in Ats
      BY <1>3 DEF Ats
    <3>2. f \in Hosts
      BY <2>1, <3>1, <3>4 DEF Hosts
    <3> QED BY <1>9, <3>2, <3>3 DEF Hosts
  <2>3. e.at = out /\ e.abandoned = d.abandoned /\ e.abandonedBash = d.abandonedBash /\ e.boot = FALSE
        /\ e.frame = fr
        /\ e.worker = d.worker /\ e.python = d.python /\ e.level = d.level
    BY <2>1 DEF e, Hosts
  <2> QED BY <1>2, <2>2, <2>3
<1>5. Drop(s) = IF ~d.boot THEN d ELSE e
  BY DEF Drop, d, e, idle, out, fr
<1>6. CASE ~d.boot
  <2>1. Drop(s) = d
    BY <1>5, <1>6
  <2>2. Dropped(d)
    BY <1>1, <1>2, <1>6 DEF Dropped, FrameOK, WaitOK, Calm, Hosts, Ats, Sets, Calls
  <2>3. Leaves(s, d, NoCall)
    BY <1>1, <1>2 DEF Leaves, FreePy, Calls
  <2> QED BY <2>1, <2>2, <2>3, <1>2
<1>7. CASE d.boot
  <2>1. Drop(s) = e
    BY <1>5, <1>7
  <2>2. Dropped(e)
    BY <1>1, <1>2, <1>3, <1>4, <1>7 DEF fr, Dropped, FrameOK, WaitOK, Calm, Hosts, Ats, Sets, Calls
  <2>3. Leaves(s, e, NoCall)
    BY <1>1, <1>2, <1>3, <1>4 DEF Leaves, FreePy, Calls
  <2> QED BY <2>1, <2>2, <2>3, <1>4
<1> QED BY <1>6, <1>7

\* The second half of it.
LEMMA RemoveIs ==
  ASSUME NEW s, Dropped(s)
  PROVE  /\ Dropped(Remove(s)) /\ Leaves(s, Remove(s), NoCall)
         /\ Remove(s).frame = "none" /\ Remove(s).running = {} /\ Remove(s).at = s.at
         /\ Remove(s).worker = s.worker /\ Remove(s).python = s.python /\ Remove(s).level = s.level
         /\ Off(s) => Idle(Remove(s))
<1> DEFINE r == Remove(s)
<1>1. /\ r \in Hosts /\ r.frame = "none" /\ r.running = {} /\ r.asks = {} /\ r.pyIn = "none" /\ r.news = FALSE
      /\ r.at = s.at /\ r.boot = s.boot /\ r.abandoned = {} /\ r.abandonedBash = {}
      /\ r.worker = s.worker /\ r.python = s.python /\ r.level = s.level
  <2>1. s \in Hosts /\ s.abandoned = {} /\ s.abandonedBash = {}
    BY DEF Dropped
  <2>2. r \in Hosts
    <3>1. {} \in Sets(Calls) /\ {} \in Sets(Bash)
      BY DEF Sets
    <3> QED BY <2>1, <3>1 DEF Remove, r, Hosts
  <2>3. /\ r.frame = "none" /\ r.running = {} /\ r.asks = {} /\ r.pyIn = "none" /\ r.news = FALSE
        /\ r.at = s.at /\ r.boot = s.boot /\ r.abandoned = s.abandoned /\ r.abandonedBash = s.abandonedBash
        /\ r.worker = s.worker /\ r.python = s.python /\ r.level = s.level
    BY <2>1 DEF Remove, Hosts, Ats, Sets
  <2> QED BY <2>1, <2>2, <2>3
<1> HIDE DEF r
<1>2. Dropped(r)
  BY <1>1 DEF Dropped
<1>3. Leaves(s, r, NoCall)
  BY <1>1 DEF Leaves, FreePy
<1>4. Off(s) => Idle(r)
  <2>1. FrameOK(r) /\ WaitOK(r) /\ Calm(r)
    BY <1>1, <1>2 DEF FrameOK, WaitOK, Calm, Dropped
  <2>2. CodeOK(r) /\ RunOK(r) /\ InFrame(r) /\ EndsOK(r)
    BY <1>1, <1>2 DEF CodeOK, RunOK, InFrame, EndsOK, Dropped, Runs, Calls
  <2> QED BY <2>1, <2>2, <1>1 DEF Idle, Base, Off
<1> QED BY <1>1, <1>2, <1>3, <1>4 DEF r

\* A new frame.
LEMMA NewFrameIs ==
  ASSUME NEW s \in Hosts
  PROVE  LET r == NewFrame(s) IN
         /\ r \in Hosts /\ r.frame = "loading" /\ r.boot = TRUE
         /\ \A c \in Calls : r.at[c] = IF s.at[c] = "waiting" THEN "orphan" ELSE s.at[c]
         /\ r.abandoned = s.abandoned /\ r.abandonedBash = s.abandonedBash
         /\ r.running = s.running /\ r.asks = s.asks /\ r.pyIn = s.pyIn /\ r.news = s.news
         /\ r.worker = s.worker /\ r.python = s.python /\ r.starts = s.starts
         /\ r.order = s.order /\ r.level = s.level
         /\ Leaves(s, r, NoCall)
<1> DEFINE at == Turn(s, "waiting", "orphan")
           r == NewFrame(s)
<1>1. at \in [Calls -> {"idle", "waiting", "resolved", "rejected", "orphan", "pending"}]
      /\ \A c \in Calls : at[c] = IF s.at[c] = "waiting" THEN "orphan" ELSE s.at[c]
  BY TurnIs
<1>2. (s.level \in Strict) \in BOOLEAN
  OBVIOUS
<1>3. PICK strict \in BOOLEAN : strict = (s.level \in Strict)
  BY <1>2
<1>4. r = [s EXCEPT !.frame = "loading", !.boot = TRUE, !.retried = FALSE, !.csp = strict, !.at = at]
  BY <1>3 DEF NewFrame
<1> HIDE DEF at, r
<1>5. /\ r \in Hosts /\ r.frame = "loading" /\ r.boot = TRUE /\ r.at = at
      /\ r.abandoned = s.abandoned /\ r.abandonedBash = s.abandonedBash
      /\ r.running = s.running /\ r.asks = s.asks /\ r.pyIn = s.pyIn /\ r.news = s.news
      /\ r.worker = s.worker /\ r.python = s.python /\ r.starts = s.starts
      /\ r.order = s.order /\ r.level = s.level
  <2>1. r \in Hosts
    <3>1. PICK f : f = [s EXCEPT !.frame = "loading", !.boot = TRUE, !.retried = FALSE]
      OBVIOUS
    <3>2. f \in Hosts
      BY <3>1 DEF Hosts
    <3>3. r = [f EXCEPT !.csp = strict, !.at = at]
      BY <1>4, <3>1
    <3>4. at \in Ats
      BY <1>1 DEF Ats
    <3> QED BY <3>2, <3>3, <3>4 DEF Hosts
  <2>2. /\ r.frame = "loading" /\ r.boot = TRUE /\ r.at = at
        /\ r.abandoned = s.abandoned /\ r.abandonedBash = s.abandonedBash
        /\ r.running = s.running /\ r.asks = s.asks /\ r.pyIn = s.pyIn /\ r.news = s.news
        /\ r.worker = s.worker /\ r.python = s.python /\ r.starts = s.starts
        /\ r.order = s.order /\ r.level = s.level
    BY <1>4 DEF Hosts, Ats, Sets
  <2> QED BY <2>1, <2>2
<1>6. Leaves(s, r, NoCall)
  BY <1>1, <1>5 DEF Leaves, FreePy, Calls
<1> QED BY <1>1, <1>5, <1>6 DEF r

LEMMA NewFrameDropped ==
  ASSUME NEW s, Dropped(s)
  PROVE  Dropped(NewFrame(s))
<1> DEFINE r == NewFrame(s)
<1>1. s \in Hosts
  BY DEF Dropped
<1>2. /\ r \in Hosts /\ r.frame = "loading" /\ r.boot = TRUE
      /\ \A c \in Calls : r.at[c] = IF s.at[c] = "waiting" THEN "orphan" ELSE s.at[c]
      /\ r.abandoned = s.abandoned /\ r.abandonedBash = s.abandonedBash
  BY <1>1, NewFrameIs
<1> HIDE DEF r
<1>3. Dropped(r)
  BY <1>2 DEF Dropped, Calls
<1> QED BY <1>3 DEF r

LEMMA NewFrameGood ==
  ASSUME NEW s, Good(s), s.frame = "none"
  PROVE  /\ Good(NewFrame(s)) /\ Calm(NewFrame(s))
         /\ \A c \in Runs : NewFrame(s).at[c] = s.at[c]
<1> DEFINE r == NewFrame(s)
<1>1. s \in Hosts
  BY DEF Good, Base
<1>2. /\ r \in Hosts /\ r.frame = "loading" /\ r.boot = TRUE
      /\ \A c \in Calls : r.at[c] = IF s.at[c] = "waiting" THEN "orphan" ELSE s.at[c]
      /\ r.abandoned = s.abandoned /\ r.abandonedBash = s.abandonedBash
      /\ r.running = s.running /\ r.asks = s.asks /\ r.pyIn = s.pyIn /\ r.news = s.news
      /\ r.worker = s.worker /\ r.python = s.python
  BY <1>1, NewFrameIs
<1> HIDE DEF r
<1>3. Runs \subseteq Calls /\ s.running \subseteq Calls
  BY <1>1 DEF Calls, Hosts, Ats, Sets
<1>4. FrameOK(r) /\ WaitOK(r)
  BY <1>2, <1>3 DEF Good, Base, FrameOK, WaitOK
<1>5. CodeOK(r) /\ EndsOK(r)
  BY <1>2, <1>3 DEF Good, Base, CodeOK, EndsOK, Pending
<1>6. RunOK(r) /\ InFrame(r) /\ Calm(r)
  BY <1>2, <1>3 DEF Good, Base, RunOK, InFrame, Calm
<1>7. r.worker = NoCall /\ r.python \notin {"loading", "ready"}
  BY <1>2 DEF Good, PythonOK, WorkerOK
<1>8. PythonOK(r)
  BY <1>7 DEF PythonOK, WorkerOK, OrderOK, ReadyOK
<1>9. \A c \in Runs : r.at[c] = s.at[c]
  BY <1>2, <1>3 DEF Good, Base, WaitOK
<1> QED BY <1>2, <1>4, <1>5, <1>6, <1>8, <1>9 DEF r, Good, Base

\* _ensureFrame while a frame is on its way out, and when no worker listens.
LEMMA EnsureDropped ==
  ASSUME NEW s, Dropped(s)
  PROVE  LET r == EnsureUnheard(s) IN
         /\ Dropped(r) /\ r.frame # "none" /\ Leaves(s, r, NoCall)
         /\ r.worker = s.worker /\ r.python = s.python
<1> DEFINE q == IF Outdated(s) THEN Remove(Drop(s)) ELSE s
<1>1. s \in Hosts
  BY DEF Dropped
<1>2. Dropped(q) /\ Leaves(s, q, NoCall) /\ q.worker = s.worker /\ q.python = s.python
  <2>1. CASE Outdated(s)
    <3>1. Dropped(Drop(s)) /\ Leaves(s, Drop(s), NoCall)
          /\ Drop(s).worker = s.worker /\ Drop(s).python = s.python
      BY <1>1, DropIs
    <3>2. PICK d : d = Drop(s)
      OBVIOUS
    <3>3. Dropped(Remove(d)) /\ Leaves(d, Remove(d), NoCall)
          /\ Remove(d).worker = d.worker /\ Remove(d).python = d.python
      BY <3>1, <3>2, RemoveIs
    <3> QED BY <2>1, <3>1, <3>2, <3>3 DEF Leaves
  <2>2. CASE ~Outdated(s)
    BY <2>2 DEF Leaves
  <2> QED BY <2>1, <2>2
<1>3. EnsureUnheard(s) = IF q.frame = "none" THEN NewFrame(q) ELSE q
  BY DEF EnsureUnheard
<1> HIDE DEF q
<1>4. CASE q.frame = "none"
  <2>1. q \in Hosts
    BY <1>2 DEF Dropped
  <2>2. Dropped(NewFrame(q)) /\ NewFrame(q).frame = "loading" /\ Leaves(q, NewFrame(q), NoCall)
        /\ NewFrame(q).worker = q.worker /\ NewFrame(q).python = q.python
    BY <1>2, <2>1, NewFrameDropped, NewFrameIs
  <2> QED BY <1>2, <1>3, <1>4, <2>2 DEF Leaves
<1>5. CASE q.frame # "none"
  BY <1>2, <1>3, <1>5
<1> QED BY <1>4, <1>5

LEMMA EnsureIdle ==
  ASSUME NEW s, Idle(s)
  PROVE  LET r == EnsureUnheard(s) IN
         Idle(r) /\ r.frame # "none" /\ Leaves(s, r, NoCall)
<1> DEFINE q == IF Outdated(s) THEN Remove(Drop(s)) ELSE s
<1>1. s \in Hosts
  BY DEF Idle, Base
<1>2. Idle(q) /\ Leaves(s, q, NoCall)
  <2>1. CASE Outdated(s)
    <3>1. Dropped(Drop(s)) /\ Leaves(s, Drop(s), NoCall)
          /\ Drop(s).worker = s.worker /\ Drop(s).python = s.python
      BY <1>1, DropIs DEF Idle, Base
    <3>2. PICK d : d = Drop(s)
      OBVIOUS
    <3>3. Off(d)
      BY <3>1, <3>2 DEF Idle, Off
    <3>4. Idle(Remove(d)) /\ Leaves(d, Remove(d), NoCall)
      BY <3>1, <3>2, <3>3, RemoveIs
    <3> QED BY <2>1, <3>1, <3>2, <3>4 DEF Leaves
  <2>2. CASE ~Outdated(s)
    BY <2>2 DEF Leaves
  <2> QED BY <2>1, <2>2
<1>3. EnsureUnheard(s) = IF q.frame = "none" THEN NewFrame(q) ELSE q
  BY DEF EnsureUnheard
<1> HIDE DEF q
<1>4. CASE q.frame = "none"
  <2>1. q \in Hosts /\ Good(q)
    BY <1>2, IdleIsGood DEF Idle, Base
  <2>2. Good(NewFrame(q)) /\ Calm(NewFrame(q)) /\ NewFrame(q).frame = "loading"
        /\ Leaves(q, NewFrame(q), NoCall)
        /\ NewFrame(q).worker = q.worker /\ NewFrame(q).python = q.python
    BY <1>4, <2>1, NewFrameGood, NewFrameIs
  <2>3. Idle(NewFrame(q))
    BY <1>2, <2>2 DEF Idle, Good, Off
  <2> QED BY <1>2, <1>3, <1>4, <2>2, <2>3 DEF Leaves
<1>5. CASE q.frame # "none"
  BY <1>2, <1>3, <1>5
<1> QED BY <1>4, <1>5

-----------------------------------------------------------------------------
(* Calls that wait. *)

LEMMA AtIs ==
  ASSUME NEW s \in Hosts, NEW c \in Calls,
         NEW v \in {"idle", "waiting", "resolved", "rejected", "orphan", "pending"}
  PROVE  LET r == [s EXCEPT !.at[c] = v] IN
         /\ r \in Hosts /\ r.frame = s.frame /\ r.boot = s.boot
         /\ r.at[c] = v /\ \A d \in Calls : d # c => r.at[d] = s.at[d]
         /\ r.abandoned = s.abandoned /\ r.abandonedBash = s.abandonedBash
         /\ r.running = s.running /\ r.asks = s.asks /\ r.pyIn = s.pyIn /\ r.news = s.news
         /\ r.worker = s.worker /\ r.python = s.python /\ r.starts = s.starts
         /\ r.order = s.order /\ r.level = s.level
  BY DEF Hosts, Ats, Sets

LEMMA QueueIs ==
  ASSUME NEW s \in Hosts, NEW c \in Py
  PROVE  LET r == Queue(s, c) IN
         /\ r \in Hosts /\ r.frame = s.frame /\ r.boot = s.boot /\ r.at = s.at
         /\ r.abandoned = s.abandoned /\ r.abandonedBash = s.abandonedBash
         /\ r.running = s.running /\ r.asks = s.asks /\ r.pyIn = s.pyIn /\ r.news = s.news
         /\ r.worker = s.worker /\ r.python = s.python /\ r.starts = s.starts /\ r.level = s.level
         /\ \A d \in InLine(s) \ {c} : <<d, c>> \in r.order
<1> DEFINE order == Without(s.order, c) \cup ((InLine(s) \ {c}) \X {c})
<1>1. order \subseteq Py \X Py
  BY DEF Without, InLine, Hosts, Ats, Sets
<1>2. \A d \in InLine(s) \ {c} : <<d, c>> \in order
  OBVIOUS
<1>3. Queue(s, c) = [s EXCEPT !.order = order]
  BY DEF Queue, Hosts, Ats, Sets
<1> HIDE DEF order
<1> QED BY <1>1, <1>2, <1>3 DEF Hosts, Ats, Sets

\* What a call finds at the frame: the load to wait for, a frame to go on with, or a failure.
LEMMA WaitIs ==
  ASSUME NEW s \in Hosts, NEW c \in Calls, s.frame # "none"
  PROVE  \E v \in {"waiting", "resolved", "rejected"} :
           /\ Wait(s, c) = [s EXCEPT !.at[c] = v]
           /\ v = "waiting" <=> s.frame = "loading"
           /\ v = "resolved" <=> s.frame = "loaded"
<1>1. CASE s.frame = "loading"
  BY <1>1 DEF Wait
<1>2. CASE s.frame = "loaded"
  BY <1>2 DEF Wait
<1>3. CASE s.frame = "failed"
  BY <1>3 DEF Wait
<1> QED BY <1>1, <1>2, <1>3 DEF Hosts, Ats, Sets

\* A call of Python joins those that wait.
LEMMA JoinIs ==
  ASSUME NEW s \in Hosts, s.frame # "none", NEW c \in Py
  PROVE  LET r == Queue(Wait(s, c), c) IN
         /\ r \in Hosts /\ r.frame = s.frame /\ r.boot = s.boot
         /\ r.at[c] \in {"waiting", "resolved", "rejected"}
         /\ r.at[c] = "waiting" <=> s.frame = "loading"
         /\ r.at[c] = "resolved" <=> s.frame = "loaded"
         /\ \A d \in Calls : d # c => r.at[d] = s.at[d]
         /\ r.abandoned = s.abandoned /\ r.abandonedBash = s.abandonedBash
         /\ r.running = s.running /\ r.asks = s.asks /\ r.pyIn = s.pyIn /\ r.news = s.news
         /\ r.worker = s.worker /\ r.python = s.python /\ r.starts = s.starts /\ r.level = s.level
         /\ \A d \in InLine(r) \ {c} : <<d, c>> \in r.order
<1>1. c \in Calls
  BY DEF Calls
<1>2. PICK v \in {"waiting", "resolved", "rejected"} :
           /\ Wait(s, c) = [s EXCEPT !.at[c] = v]
           /\ v = "waiting" <=> s.frame = "loading"
           /\ v = "resolved" <=> s.frame = "loaded"
  BY <1>1, WaitIs
<1>3. PICK w : w = [s EXCEPT !.at[c] = v]
  OBVIOUS
<1>4. /\ w \in Hosts /\ w.frame = s.frame /\ w.boot = s.boot
      /\ w.at[c] = v /\ \A d \in Calls : d # c => w.at[d] = s.at[d]
      /\ w.abandoned = s.abandoned /\ w.abandonedBash = s.abandonedBash
      /\ w.running = s.running /\ w.asks = s.asks /\ w.pyIn = s.pyIn /\ w.news = s.news
      /\ w.worker = s.worker /\ w.python = s.python /\ w.starts = s.starts
      /\ w.order = s.order /\ w.level = s.level
  <2>1. v \in {"idle", "waiting", "resolved", "rejected", "orphan", "pending"}
    BY <1>2
  <2> QED BY <1>1, <1>3, <2>1 DEF Hosts, Ats, Sets
<1>5. PICK r : r = Queue(w, c)
  OBVIOUS
<1>6. /\ r \in Hosts /\ r.frame = w.frame /\ r.boot = w.boot /\ r.at = w.at
      /\ r.abandoned = w.abandoned /\ r.abandonedBash = w.abandonedBash
      /\ r.running = w.running /\ r.asks = w.asks /\ r.pyIn = w.pyIn /\ r.news = w.news
      /\ r.worker = w.worker /\ r.python = w.python /\ r.starts = w.starts /\ r.level = w.level
      /\ \A d \in InLine(w) \ {c} : <<d, c>> \in r.order
  BY <1>4, <1>5, QueueIs
<1>7. \A d \in InLine(r) \ {c} : <<d, c>> \in r.order
  BY <1>6 DEF InLine
<1>8. r = Queue(Wait(s, c), c)
  BY <1>2, <1>3, <1>5
<1> QED BY <1>2, <1>4, <1>6, <1>7, <1>8

LEMMA PyCallDropped ==
  ASSUME NEW s, Dropped(s), NEW c \in FreePy(s)
  PROVE  LET r == PyCall(s, c) IN
         Dropped(r) /\ Leaves(s, r, c) /\ r.worker = s.worker /\ r.python = s.python
<1>1. PICK e : e = EnsureUnheard(s)
  OBVIOUS
<1>2. /\ Dropped(e) /\ e.frame # "none" /\ Leaves(s, e, NoCall)
      /\ e.worker = s.worker /\ e.python = s.python
  BY <1>1, EnsureDropped
<1>3. PICK r : r = Queue(Wait(e, c), c)
  OBVIOUS
<1>4. e \in Hosts /\ c \in Py
  BY <1>2 DEF Dropped, FreePy
<1>5. /\ r \in Hosts /\ r.frame = e.frame /\ r.boot = e.boot
      /\ r.at[c] \in {"waiting", "resolved", "rejected"}
      /\ r.at[c] = "waiting" <=> e.frame = "loading"
      /\ \A d \in Calls : d # c => r.at[d] = e.at[d]
      /\ r.abandoned = e.abandoned /\ r.abandonedBash = e.abandonedBash
      /\ r.worker = e.worker /\ r.python = e.python
  BY <1>2, <1>3, <1>4, JoinIs
<1>6. Dropped(r)
  BY <1>2, <1>4, <1>5, SandboxAssumption DEF Dropped, Calls
<1>7. Leaves(s, r, c)
  BY <1>2, <1>4, <1>5, SandboxAssumption DEF Leaves, FreePy, Calls
<1> QED BY <1>1, <1>2, <1>3, <1>5, <1>6, <1>7 DEF PyCall

LEMMA PyCallIdle ==
  ASSUME NEW s, Idle(s), NEW c \in FreePy(s)
  PROVE  LET r == PyCall(s, c) IN
         /\ Idle(r) /\ r.frame # "none" /\ Leaves(s, r, c)
         /\ c \in InLine(r) /\ r.at[c] # "rejected"
         /\ \A d \in InLine(r) \ {c} : <<d, c>> \in r.order
         /\ r.at[c] = "resolved" => \A d \in Py : r.at[d] # "waiting"
<1>1. PICK e : e = EnsureUnheard(s)
  OBVIOUS
<1>2. Idle(e) /\ e.frame # "none" /\ Leaves(s, e, NoCall)
  BY <1>1, EnsureIdle
<1>3. PICK r : r = Queue(Wait(e, c), c)
  OBVIOUS
<1>4. e \in Hosts /\ c \in Py /\ c \in Calls /\ c \notin Runs
  BY <1>2, SandboxAssumption DEF Idle, Base, FreePy, Calls
<1>5. /\ r \in Hosts /\ r.frame = e.frame /\ r.boot = e.boot
      /\ r.at[c] \in {"waiting", "resolved", "rejected"}
      /\ r.at[c] = "waiting" <=> e.frame = "loading"
      /\ r.at[c] = "resolved" <=> e.frame = "loaded"
      /\ \A d \in Calls : d # c => r.at[d] = e.at[d]
      /\ r.abandoned = e.abandoned /\ r.abandonedBash = e.abandonedBash
      /\ r.running = e.running /\ r.asks = e.asks /\ r.pyIn = e.pyIn /\ r.news = e.news
      /\ r.worker = e.worker /\ r.python = e.python
      /\ \A d \in InLine(r) \ {c} : <<d, c>> \in r.order
  BY <1>2, <1>3, <1>4, JoinIs
<1>6. e.at[c] \in {"idle", "orphan"}
  <2>1. e.worker = NoCall /\ c # NoCall
    BY <1>2, <1>4, SandboxAssumption DEF Idle, Off
  <2>2. c \in FreePy(e)
    BY <1>2, <1>4, SandboxAssumption DEF Leaves, Calls
  <2> QED BY <2>2 DEF FreePy
<1>7. r.at[c] # "pending" /\ c \notin e.running
  <2>1. CodeOK(e) /\ e.abandoned \subseteq Runs
    BY <1>2 DEF Idle, Base, Hosts, Ats, Sets
  <2> QED BY <1>4, <1>5, <1>6, <2>1 DEF CodeOK
<1>8. FrameOK(r) /\ FrameOK(e)
  BY <1>2, <1>5 DEF Idle, Base, FrameOK
<1>9. WaitOK(r) /\ Calm(r)
  BY <1>2, <1>4, <1>5, <1>8 DEF Idle, Base, WaitOK, Calm, FrameOK, Calls
<1>10. CodeOK(r)
  <2>1. {d \in r.running : r.at[d] # "pending"} = {d \in e.running : e.at[d] # "pending"}
    BY <1>4, <1>5, <1>7 DEF Hosts, Ats, Sets
  <2> QED BY <2>1, <1>2, <1>5 DEF Idle, Base, CodeOK
<1>11. Pending(r) = Pending(e)
  BY <1>5, <1>6, <1>7 DEF Pending
<1>12. RunOK(r) /\ InFrame(r) /\ EndsOK(r)
  BY <1>2, <1>4, <1>5, <1>11 DEF Idle, Base, RunOK, InFrame, EndsOK, Calls
<1>13. Idle(r)
  BY <1>2, <1>5, <1>8, <1>9, <1>10, <1>12 DEF Idle, Base, Off
<1>14. Leaves(s, r, c)
  BY <1>2, <1>4, <1>5, SandboxAssumption DEF Leaves, FreePy, Calls
<1>15. c \in InLine(r) /\ r.at[c] # "rejected"
  BY <1>2, <1>4, <1>5, <1>8 DEF InLine, FrameOK, Hosts, Ats, Sets
<1>16. r.at[c] = "resolved" => \A d \in Py : r.at[d] # "waiting"
  BY <1>5, <1>8, <1>9 DEF WaitOK, FrameOK, Calls
<1> QED BY <1>1, <1>2, <1>3, <1>5, <1>13, <1>14, <1>15, <1>16 DEF PyCall

-----------------------------------------------------------------------------
(* Python's worker. *)

HandOver(s, status, c) ==
  [s EXCEPT !.python = status, !.worker = NoCall, !.starts = @ \ {c}]

LEMMA HandOverIs ==
  ASSUME NEW s \in Hosts, NEW status \in {"idle", "error"}, NEW c
  PROVE  LET r == HandOver(s, status, c) IN
         /\ r \in Hosts /\ r.frame = s.frame /\ r.boot = s.boot /\ r.at = s.at
         /\ r.abandoned = s.abandoned /\ r.abandonedBash = s.abandonedBash
         /\ r.running = s.running /\ r.asks = s.asks /\ r.pyIn = s.pyIn /\ r.news = s.news
         /\ Off(r) /\ FreePy(s) \subseteq FreePy(r)
<1> DEFINE r == HandOver(s, status, c)
<1>1. /\ r \in Hosts /\ r.frame = s.frame /\ r.boot = s.boot /\ r.at = s.at
      /\ r.abandoned = s.abandoned /\ r.abandonedBash = s.abandonedBash
      /\ r.running = s.running /\ r.asks = s.asks /\ r.pyIn = s.pyIn /\ r.news = s.news
      /\ r.worker = NoCall /\ r.python = status
  BY DEF Hosts, Ats, Sets, HandOver
<1> HIDE DEF r
<1>2. Off(r) /\ FreePy(s) \subseteq FreePy(r)
  BY <1>1, SandboxAssumption DEF Off, FreePy, Calls
<1> QED BY <1>1, <1>2 DEF r

\* The end of the worker takes one free call, whichever it is.
LEMMA EndDropped ==
  ASSUME NEW s, Dropped(s), FreePy(s) # {}, NEW status \in {"idle", "error"}
  PROVE  Dropped(EndPython(s, status)) /\ Off(EndPython(s, status))
         /\ \E x : Leaves(s, EndPython(s, status), x)
<1>1. PICK c \in FreePy(s) : c = CHOOSE d \in Py : d \in FreePy(s)
  BY DEF FreePy
<1>2. PICK t : t = HandOver(s, status, c)
  OBVIOUS
<1>3. s \in Hosts
  BY DEF Dropped
<1>4. /\ t \in Hosts /\ t.frame = s.frame /\ t.boot = s.boot /\ t.at = s.at
      /\ t.abandoned = s.abandoned /\ t.abandonedBash = s.abandonedBash
      /\ Off(t) /\ FreePy(s) \subseteq FreePy(t)
  BY <1>2, <1>3, HandOverIs
<1>5. Dropped(t)
  BY <1>4 DEF Dropped
<1>6. PICK r : r = PyCall(t, c)
  OBVIOUS
<1>7. Dropped(r) /\ Leaves(t, r, c) /\ r.worker = t.worker /\ r.python = t.python
  BY <1>1, <1>4, <1>5, <1>6, PyCallDropped
<1>8. r = EndPython(s, status)
  BY <1>1, <1>2, <1>6 DEF EndPython, HandOver
<1>9. Leaves(s, r, c) /\ Off(r)
  BY <1>4, <1>7 DEF Leaves, Off
<1> QED BY <1>7, <1>8, <1>9

LEMMA EndIdle ==
  ASSUME NEW s, Base(s), EndsOK(s), Calm(s), FreePy(s) # {}, NEW status \in {"idle", "error"}
  PROVE  Idle(EndPython(s, status)) /\ \E x : Leaves(s, EndPython(s, status), x)
<1>1. PICK c \in FreePy(s) : c = CHOOSE d \in Py : d \in FreePy(s)
  BY DEF FreePy
<1>2. PICK t : t = HandOver(s, status, c)
  OBVIOUS
<1>3. s \in Hosts
  BY DEF Base
<1>4. /\ t \in Hosts /\ t.frame = s.frame /\ t.boot = s.boot /\ t.at = s.at
      /\ t.abandoned = s.abandoned /\ t.abandonedBash = s.abandonedBash
      /\ t.running = s.running /\ t.asks = s.asks /\ t.pyIn = s.pyIn /\ t.news = s.news
      /\ Off(t) /\ FreePy(s) \subseteq FreePy(t)
  BY <1>2, <1>3, HandOverIs
<1>5. Idle(t)
  BY <1>4 DEF Idle, Base, FrameOK, WaitOK, CodeOK, RunOK, InFrame, EndsOK, Calm, Pending
<1>6. PICK r : r = PyCall(t, c)
  OBVIOUS
<1>7. Idle(r) /\ Leaves(t, r, c)
  BY <1>1, <1>4, <1>5, <1>6, PyCallIdle
<1>8. r = EndPython(s, status)
  BY <1>1, <1>2, <1>6 DEF EndPython, HandOver
<1>9. Leaves(s, r, c)
  BY <1>4, <1>7 DEF Leaves
<1> QED BY <1>7, <1>8, <1>9

\* A worker can be started while two calls are free: one starts it, one is left to end it.
LEMMA StartGood ==
  ASSUME NEW s, Idle(s), \E c, d \in FreePy(s) : c # d
  PROVE  Good(StartPython(s))
<1>1. PICK c \in FreePy(s) : c = CHOOSE d \in Py : d \in FreePy(s)
  BY DEF FreePy
<1>2. PICK q : q = PyCall(s, c)
  OBVIOUS
<1>3. /\ Idle(q) /\ q.frame # "none" /\ Leaves(s, q, c)
      /\ c \in InLine(q) /\ q.at[c] # "rejected"
      /\ \A d \in InLine(q) \ {c} : <<d, c>> \in q.order
      /\ q.at[c] = "resolved" => \A d \in Py : q.at[d] # "waiting"
  <2>1. c \in FreePy(s)
    BY <1>1
  <2> QED BY <1>2, <2>1, PyCallIdle
<1>4. PICK r : r = [q EXCEPT !.python = "loading", !.worker = c, !.starts = @ \cup {c}]
  OBVIOUS
<1>5. r = StartPython(s)
  BY <1>1, <1>2, <1>4 DEF StartPython, Idle, Off
<1>6. c \in Py /\ c # NoCall /\ q \in Hosts
  BY <1>1, <1>3, SandboxAssumption DEF FreePy, Calls, Idle, Base
<1>7. /\ r \in Hosts /\ r.frame = q.frame /\ r.boot = q.boot /\ r.at = q.at
      /\ r.abandoned = q.abandoned /\ r.abandonedBash = q.abandonedBash
      /\ r.running = q.running /\ r.asks = q.asks /\ r.pyIn = q.pyIn /\ r.news = q.news
      /\ r.worker = c /\ r.python = "loading" /\ c \in r.starts /\ r.order = q.order
  <2>1. q \in Hosts /\ c \in Py
    BY <1>6
  <2>2. r \in Hosts
    <3>1. q.starts \cup {c} \in Sets(Py)
      BY <2>1 DEF Hosts, Sets
    <3> QED BY <1>4, <2>1, <3>1 DEF Hosts
  <2>3. /\ r.frame = q.frame /\ r.boot = q.boot /\ r.at = q.at
        /\ r.abandoned = q.abandoned /\ r.abandonedBash = q.abandonedBash
        /\ r.running = q.running /\ r.asks = q.asks /\ r.pyIn = q.pyIn /\ r.news = q.news
        /\ r.worker = c /\ r.python = "loading" /\ c \in r.starts /\ r.order = q.order
    BY <1>4, <2>1 DEF Hosts, Ats, Sets
  <2> QED BY <2>2, <2>3
<1>8. Base(r) /\ EndsOK(r)
  BY <1>3, <1>7 DEF Idle, Base, FrameOK, WaitOK, CodeOK, RunOK, InFrame, EndsOK, Pending
<1>9. FreePy(r) # {}
  <2>1. PICK d \in FreePy(s) : d # c
    OBVIOUS
  <2>2. d \in FreePy(q)
    BY <1>3, <2>1 DEF Leaves
  <2>3. d \in FreePy(r)
    BY <1>7, <2>1, <2>2 DEF FreePy
  <2> QED BY <2>3
<1>10. WorkerOK(r)
  BY <1>3, <1>6, <1>7, <1>9 DEF WorkerOK
<1>11. InLine(r) = InLine(q)
  BY <1>7 DEF InLine
<1>12. OrderOK(r) /\ ReadyOK(r)
  BY <1>3, <1>7, <1>11 DEF OrderOK, ReadyOK
<1> QED BY <1>5, <1>8, <1>10, <1>12 DEF Good, PythonOK

-----------------------------------------------------------------------------
(* The reset, and what calls it. *)

LEMMA ResetIs ==
  ASSUME NEW s \in Hosts, FrameOK(s), WaitOK(s), Calm(s),
         s.worker # NoCall => FreePy(s) # {},
         s.worker = NoCall => s.python \in {"idle", "error"}
  PROVE  LET r == Reset(s) IN
         /\ Idle(r) /\ r.frame = "none" /\ r.running = {}
         /\ \A c \in Calls : r.at[c] # "pending"
         /\ \E x : Leaves(s, r, x)
<1>1. PICK d : d = Drop(s)
  OBVIOUS
<1>2. Dropped(d) /\ Leaves(s, d, NoCall) /\ d.worker = s.worker /\ d.python = s.python
  BY <1>1, DropIs
<1>3. PICK e : e = IF s.worker = NoCall THEN d ELSE EndPython(d, "error")
  OBVIOUS
<1>4. Dropped(e) /\ Off(e) /\ \E x : Leaves(s, e, x)
  <2>1. CASE s.worker = NoCall
    BY <1>2, <1>3, <2>1 DEF Off
  <2>2. CASE s.worker # NoCall
    <3>1. FreePy(d) # {}
      BY <1>2, <2>2, SandboxAssumption DEF Leaves, FreePy, Calls
    <3>2. Dropped(e) /\ Off(e) /\ \E x : Leaves(d, e, x)
      BY <1>2, <1>3, <2>2, <3>1, EndDropped
    <3>3. PICK x : Leaves(d, e, x)
      BY <3>2
    <3>4. Leaves(s, e, x)
      BY <1>2, <3>3, SandboxAssumption DEF Leaves, FreePy, Calls
    <3> QED BY <3>2, <3>4
  <2> QED BY <2>1, <2>2
<1>5. PICK r : r = Remove(e)
  OBVIOUS
<1>6. Dropped(r) /\ Leaves(e, r, NoCall) /\ r.frame = "none" /\ r.running = {} /\ Idle(r)
  BY <1>4, <1>5, RemoveIs
<1>7. r = Reset(s)
  BY <1>1, <1>3, <1>5 DEF Reset
<1>8. PICK x : Leaves(s, e, x)
  BY <1>4
<1>9. Leaves(s, r, x)
  BY <1>6, <1>8, SandboxAssumption DEF Leaves, FreePy, Calls
<1> QED BY <1>6, <1>7, <1>9 DEF Dropped

\* _ensureFrame: whichever frame it finds, it leaves one, and no new call in it.
LEMMA EnsureGood ==
  ASSUME NEW s, Good(s), Calm(s)
  PROVE  LET r == Ensure(s) IN
         /\ Good(r) /\ r.frame # "none"
         /\ \A c \in Runs : s.at[c] # "pending" /\ c \notin s.running
                              => r.at[c] # "pending" /\ c \notin r.running
<1>1. CASE Outdated(s)
  <2>1. PICK q : q = Reset(s)
    OBVIOUS
  <2>2. s \in Hosts /\ FrameOK(s) /\ WaitOK(s) /\ WorkerOK(s)
    BY DEF Good, Base, PythonOK
  <2>3. /\ s.worker # NoCall => FreePy(s) # {}
        /\ s.worker = NoCall => s.python \in {"idle", "error"}
    BY <2>2 DEF WorkerOK, Hosts, Ats, Sets
  <2>4. Idle(q) /\ q.frame = "none" /\ q.running = {} /\ \A c \in Calls : q.at[c] # "pending"
    BY <2>1, <2>2, <2>3, ResetIs
  <2>5. PICK r : r = NewFrame(q)
    OBVIOUS
  <2>6. r = Ensure(s)
    BY <1>1, <2>1, <2>4, <2>5 DEF Ensure, EnsureUnheard, Outdated
  <2>7. Good(q) /\ q \in Hosts
    BY <2>4, IdleIsGood DEF Good, Base
  <2>8. Good(r) /\ r.frame = "loading" /\ r.running = q.running /\ \A c \in Runs : r.at[c] = q.at[c]
    <3>1. Good(r) /\ \A c \in Runs : r.at[c] = q.at[c]
      BY <2>4, <2>5, <2>7, NewFrameGood
    <3>2. r.frame = "loading" /\ r.running = q.running
      BY <2>5, <2>7, NewFrameIs
    <3> QED BY <3>1, <3>2
  <2> QED BY <2>4, <2>6, <2>8 DEF Calls
<1>2. CASE ~Outdated(s) /\ s.frame = "none"
  <2>1. PICK r : r = NewFrame(s)
    OBVIOUS
  <2>2. r = Ensure(s)
    BY <1>2, <2>1 DEF Ensure, EnsureUnheard
  <2>3. s \in Hosts
    BY DEF Good, Base
  <2>4. Good(r) /\ r.frame = "loading" /\ r.running = s.running /\ \A c \in Runs : r.at[c] = s.at[c]
    <3>1. Good(r) /\ \A c \in Runs : r.at[c] = s.at[c]
      BY <1>2, <2>1, NewFrameGood
    <3>2. r.frame = "loading" /\ r.running = s.running
      BY <2>1, <2>3, NewFrameIs
    <3> QED BY <3>1, <3>2
  <2> QED BY <2>2, <2>4
<1>3. CASE ~Outdated(s) /\ s.frame # "none"
  BY <1>3 DEF Ensure, EnsureUnheard
<1> QED BY <1>1, <1>2, <1>3

\* With the restart no stopped code is left without a call that will answer.
LEMMA RestartIs ==
  ASSUME NEW s, Base(s), Calm(s), PythonOK(s)
  PROVE  Good(Restart(s))
<1>1. CASE Pending(s) = {} /\ s.abandoned # {}
  <2>1. Restart(s) = Reset(s)
    BY <1>1 DEF Restart
  <2>2. s \in Hosts /\ FrameOK(s) /\ WaitOK(s) /\ WorkerOK(s)
    BY DEF Base, PythonOK
  <2>3. /\ s.worker # NoCall => FreePy(s) # {}
        /\ s.worker = NoCall => s.python \in {"idle", "error"}
    BY <2>2 DEF WorkerOK, Hosts, Ats, Sets
  <2>4. Idle(Reset(s))
    BY <2>2, <2>3, ResetIs
  <2> QED BY <2>1, <2>4, IdleIsGood
<1>2. CASE ~(Pending(s) = {} /\ s.abandoned # {})
  BY <1>2 DEF Restart, Good, EndsOK
<1> QED BY <1>1, <1>2

\* A command that is not in the frame comes, waits or leaves: Python's state is not touched.
LEMMA MoveRun ==
  ASSUME NEW s, Good(s), NEW c \in Runs, s.at[c] # "pending",
         NEW x \in {"idle", "waiting", "resolved"},
         x = "waiting" => s.frame = "loading" /\ c \notin s.running,
         x = "resolved" => s.frame = "loaded" /\ c \notin s.running
  PROVE  Good([s EXCEPT !.at[c] = x])
<1>1. PICK r : r = [s EXCEPT !.at[c] = x]
  OBVIOUS
<1>2. s \in Hosts /\ c \in Calls /\ c \notin Py
  BY SandboxAssumption DEF Good, Base, Calls
<1>3. /\ r \in Hosts /\ r.frame = s.frame /\ r.boot = s.boot
      /\ r.at[c] = x /\ \A d \in Calls : d # c => r.at[d] = s.at[d]
      /\ r.abandoned = s.abandoned /\ r.abandonedBash = s.abandonedBash
      /\ r.running = s.running /\ r.asks = s.asks /\ r.pyIn = s.pyIn /\ r.news = s.news
      /\ r.worker = s.worker /\ r.python = s.python /\ r.starts = s.starts /\ r.order = s.order
  BY <1>1, <1>2 DEF Hosts, Ats, Sets
<1>4. FrameOK(r) /\ InFrame(r)
  BY <1>3 DEF Good, Base, FrameOK, InFrame
<1>5. WaitOK(r)
  BY <1>2, <1>3, <1>4 DEF Good, Base, WaitOK, FrameOK, Calls
<1>6. CodeOK(r)
  <2>1. {d \in r.running : r.at[d] # "pending"} = {d \in s.running : s.at[d] # "pending"}
    BY <1>2, <1>3 DEF Hosts, Ats, Sets
  <2> QED BY <2>1, <1>3 DEF Good, Base, CodeOK
<1>7. RunOK(r)
  BY <1>2, <1>3 DEF Good, Base, RunOK, Calls
<1>8. Pending(r) = Pending(s)
  BY <1>2, <1>3 DEF Pending
<1>9. EndsOK(r)
  BY <1>3, <1>8 DEF Good, EndsOK
<1>10. \A d \in Py : r.at[d] = s.at[d]
  BY <1>2, <1>3 DEF Calls
<1>11. FreePy(r) = FreePy(s) /\ InLine(r) = InLine(s)
  BY <1>3, <1>10 DEF FreePy, InLine
<1>12. s.worker # NoCall => r.at[s.worker] = s.at[s.worker]
  BY <1>2, <1>10 DEF Hosts, Ats, Sets
<1>13. PythonOK(r)
  BY <1>3, <1>10, <1>11, <1>12 DEF Good, PythonOK, WorkerOK, OrderOK, ReadyOK
<1> QED BY <1>1, <1>3, <1>4, <1>5, <1>6, <1>7, <1>9, <1>13 DEF Good, Base

-----------------------------------------------------------------------------
(* The steps. *)

\* Python's part does not look at the commands, nor at calls whose code answers.
LEMMA PythonKept ==
  ASSUME NEW s \in Hosts, NEW r \in Hosts, PythonOK(s),
         r.frame = s.frame, r.pyIn = s.pyIn, r.news = s.news, r.worker = s.worker,
         r.python = s.python, r.starts = s.starts, r.order = s.order,
         \A d \in Py : r.at[d] = s.at[d] \/ (s.at[d] = "pending" /\ r.at[d] = "idle")
  PROVE  PythonOK(r)
<1>1. FreePy(s) \subseteq FreePy(r) /\ InLine(r) = InLine(s)
  BY DEF FreePy, InLine
<1>2. s.worker # NoCall => s.worker \in Py
  BY DEF Hosts, Ats, Sets
<1>3. WorkerOK(r)
  BY <1>1, <1>2 DEF PythonOK, WorkerOK
<1>4. OrderOK(r) /\ ReadyOK(r)
  BY <1>1, <1>2 DEF PythonOK, OrderOK, ReadyOK
<1> QED BY <1>3, <1>4 DEF PythonOK

\* The timer's reload and the privacy level are nobody's business here.
LEMMA GoodKept ==
  ASSUME NEW s, Good(s), NEW r \in Hosts,
         r.frame = s.frame, r.boot = s.boot, r.at = s.at,
         r.abandoned = s.abandoned, r.abandonedBash = s.abandonedBash,
         r.running = s.running, r.asks \subseteq s.asks \cup s.running,
         r.pyIn = s.pyIn, r.news = s.news, r.worker = s.worker,
         r.python = s.python, r.starts = s.starts, r.order = s.order
  PROVE  Good(r)
<1>1. PythonOK(r)
  <2>1. s \in Hosts /\ PythonOK(s)
    BY DEF Good, Base
  <2> QED BY <2>1, PythonKept
<1>2. Base(r) /\ EndsOK(r)
  BY DEF Good, Base, FrameOK, WaitOK, CodeOK, RunOK, InFrame, EndsOK, Pending
<1> QED BY <1>1, <1>2 DEF Good

LEMMA TaskIs ==
  ASSUME IInv, Settled
  PROVE  /\ host \in Hosts /\ Good(host) /\ Calm(host)
         /\ FrameOK(host) /\ WaitOK(host) /\ CodeOK(host) /\ RunOK(host) /\ InFrame(host)
         /\ WorkerOK(host) /\ OrderOK(host) /\ ReadyOK(host) /\ PythonOK(host)
         /\ host.worker # NoCall => FreePy(host) # {}
         /\ host.worker = NoCall => host.python \in {"idle", "error"}
<1>1. Calm(host)
  BY DEF Settled, Calm, Calls
<1>2. host \in Hosts /\ WorkerOK(host)
  BY DEF IInv, Good, Base, PythonOK
<1>3. host.worker = NoCall => host.python \in {"idle", "error"}
  BY <1>2 DEF WorkerOK, Hosts, Ats, Sets
<1>4. host.worker # NoCall => FreePy(host) # {}
  BY <1>2 DEF WorkerOK
<1> QED BY <1>1, <1>2, <1>3, <1>4 DEF IInv, Good, Base, PythonOK

\* sandboxCall makes or takes a frame, and waits for its load unless it has loaded.
LEMMA CallStep ==
  ASSUME IInv, NEW c \in Runs, Call(c)
  PROVE  IInv'
<1>1. PICK e : e = Ensure(host)
  OBVIOUS
<1>2. Settled /\ host.at[c] = "idle" /\ c \notin host.running /\ host' = Wait(e, c) /\ late' = late
  BY <1>1 DEF Call, Task
<1>3. Good(host) /\ Calm(host)
  BY <1>2, TaskIs
<1>4. Good(e) /\ e.frame # "none" /\ e.at[c] # "pending" /\ c \notin e.running
  BY <1>1, <1>2, <1>3, EnsureGood
<1>5. e \in Hosts /\ e.frame \in {"loading", "loaded"} /\ c \in Calls
  BY <1>4 DEF Good, Base, FrameOK, Hosts, Ats, Sets, Calls
<1>6. PICK v \in {"waiting", "resolved", "rejected"} :
           /\ Wait(e, c) = [e EXCEPT !.at[c] = v]
           /\ v = "waiting" <=> e.frame = "loading"
           /\ v = "resolved" <=> e.frame = "loaded"
  BY <1>4, <1>5, WaitIs
<1>7. v \in {"idle", "waiting", "resolved"}
  BY <1>5, <1>6
<1>8. Good([e EXCEPT !.at[c] = v])
  BY <1>4, <1>6, <1>7, MoveRun
<1> QED BY <1>2, <1>6, <1>8 DEF IInv

LEMMA LeaveStep ==
  ASSUME IInv, NEW c \in Runs, Leave(c)
  PROVE  IInv'
<1>1. host.at[c] = "waiting" /\ host' = [host EXCEPT !.at[c] = "idle"] /\ late' = late
  BY DEF Leave, Task
<1>2. Good(host) /\ "idle" \in {"idle", "waiting", "resolved"}
  BY DEF IInv
<1>3. Good([host EXCEPT !.at[c] = "idle"])
  BY <1>1, <1>2, MoveRun
<1> QED BY <1>1, <1>3 DEF IInv

LEMMA LoadErrorStep ==
  ASSUME IInv, LoadError
  PROVE  IInv'
<1>1. Settled /\ host' = Reset(host) /\ late' = late
  BY DEF LoadError, Task
<1>2. Idle(Reset(host))
  BY <1>1, TaskIs, ResetIs
<1> QED BY <1>1, <1>2, IdleIsGood DEF IInv

LEMMA BootTimerStep ==
  ASSUME IInv, BootTimer
  PROVE  IInv'
<1>1. Settled /\ late' = late
  BY DEF BootTimer, Task
<1>2. CASE host.retried
  <2>1. host' = Reset(host)
    BY <1>2 DEF BootTimer, Task
  <2>2. Idle(Reset(host))
    BY <1>1, TaskIs, ResetIs
  <2> QED BY <1>1, <2>1, <2>2, IdleIsGood DEF IInv
<1>3. CASE ~host.retried
  <2>1. host' = [host EXCEPT !.retried = TRUE]
    BY <1>3 DEF BootTimer, Task
  <2>2. host \in Hosts /\ Good(host)
    BY <1>1, TaskIs
  <2>3. PICK r : r = host'
    OBVIOUS
  <2>4. /\ r \in Hosts /\ r.frame = host.frame /\ r.boot = host.boot /\ r.at = host.at
        /\ r.abandoned = host.abandoned /\ r.abandonedBash = host.abandonedBash
        /\ r.running = host.running /\ r.asks = host.asks
        /\ r.pyIn = host.pyIn /\ r.news = host.news /\ r.worker = host.worker
        /\ r.python = host.python /\ r.starts = host.starts /\ r.order = host.order
    BY <2>1, <2>2, <2>3 DEF Hosts, Ats, Sets
  <2>5. Good(r)
    BY <2>2, <2>4, GoodKept
  <2> QED BY <1>1, <2>3, <2>5 DEF IInv
<1> QED BY <1>2, <1>3

LEMMA OtherTabSetsLevelStep ==
  ASSUME IInv, NEW l \in Levels, OtherTabSetsLevel(l)
  PROVE  IInv'
<1>1. Settled /\ host' = [host EXCEPT !.level = l] /\ late' = late
  BY DEF OtherTabSetsLevel, Task
<1>2. host \in Hosts /\ Good(host)
  BY <1>1, TaskIs
<1>3. PICK r : r = host'
  OBVIOUS
<1>4. /\ r \in Hosts /\ r.frame = host.frame /\ r.boot = host.boot /\ r.at = host.at
      /\ r.abandoned = host.abandoned /\ r.abandonedBash = host.abandonedBash
      /\ r.running = host.running /\ r.asks = host.asks
      /\ r.pyIn = host.pyIn /\ r.news = host.news /\ r.worker = host.worker
      /\ r.python = host.python /\ r.starts = host.starts /\ r.order = host.order
  BY <1>1, <1>2, <1>3 DEF Hosts, Ats, Sets
<1>5. Good(r)
  BY <1>2, <1>4, GoodKept
<1> QED BY <1>1, <1>3, <1>5 DEF IInv

LEMMA AskStep ==
  ASSUME IInv, NEW c \in Bash, Ask(c)
  PROVE  IInv'
<1>1. Settled /\ c \in host.running /\ host' = [host EXCEPT !.asks = @ \cup {c}] /\ late' = late
  BY DEF Ask, Task
<1>2. host \in Hosts /\ Good(host)
  BY <1>1, TaskIs
<1>3. PICK r : r = host'
  OBVIOUS
<1>4. /\ r \in Hosts /\ r.frame = host.frame /\ r.boot = host.boot /\ r.at = host.at
      /\ r.abandoned = host.abandoned /\ r.abandonedBash = host.abandonedBash
      /\ r.running = host.running /\ r.asks = host.asks \cup {c}
      /\ r.pyIn = host.pyIn /\ r.news = host.news /\ r.worker = host.worker
      /\ r.python = host.python /\ r.starts = host.starts /\ r.order = host.order
  BY <1>1, <1>2, <1>3 DEF Hosts, Ats, Sets
<1>5. r.asks \subseteq host.asks \cup host.running
  BY <1>1, <1>4
<1>6. Good(r)
  BY <1>2, <1>4, <1>5, GoodKept
<1> QED BY <1>1, <1>3, <1>6 DEF IInv

\* A write of a stopped command is refused, since its code is in the frame: it is known as
\* stopped, and the set of the stopped commands of the shell is not empty.
LEMMA AnswerStep ==
  ASSUME IInv, NEW c \in Bash, Answer(c)
  PROVE  IInv'
<1>1. Settled /\ c \in host.asks /\ host' = [host EXCEPT !.asks = @ \ {c}]
      /\ late' = IF host.abandonedBash = {} /\ host.at[c] # "pending" THEN late \cup {c} ELSE late
  BY DEF Answer
<1>2. host \in Hosts /\ Good(host) /\ CodeOK(host)
  BY <1>1, TaskIs
<1>3. late' = {}
  <2>1. host.at[c] # "pending" => c \in host.abandonedBash
    BY <1>1, <1>2 DEF CodeOK
  <2> QED BY <1>1, <2>1 DEF IInv
<1>4. PICK r : r = host'
  OBVIOUS
<1>5. /\ r \in Hosts /\ r.frame = host.frame /\ r.boot = host.boot /\ r.at = host.at
      /\ r.abandoned = host.abandoned /\ r.abandonedBash = host.abandonedBash
      /\ r.running = host.running /\ r.asks = host.asks \ {c}
      /\ r.pyIn = host.pyIn /\ r.news = host.news /\ r.worker = host.worker
      /\ r.python = host.python /\ r.starts = host.starts /\ r.order = host.order
  BY <1>1, <1>2, <1>4 DEF Hosts, Ats, Sets
<1>6. Good(r)
  BY <1>2, <1>5, GoodKept
<1> QED BY <1>3, <1>4, <1>6 DEF IInv

LEMMA LoadStep ==
  ASSUME IInv, Load
  PROVE  IInv'
<1>1. /\ Settled /\ host.frame = "loading" /\ late' = late
      /\ host' = [host EXCEPT !.frame = "loaded", !.boot = FALSE, !.retried = FALSE,
                              !.at = Turn(host, "waiting", "resolved")]
  BY DEF Load, Task
<1>2. /\ host \in Hosts /\ Good(host) /\ FrameOK(host) /\ WaitOK(host) /\ CodeOK(host)
      /\ RunOK(host) /\ InFrame(host) /\ PythonOK(host)
  BY <1>1, TaskIs
<1>3. PICK at : at = Turn(host, "waiting", "resolved")
  OBVIOUS
<1>4. /\ at \in [Calls -> {"idle", "waiting", "resolved", "rejected", "orphan", "pending"}]
      /\ \A c \in Calls : at[c] = IF host.at[c] = "waiting" THEN "resolved" ELSE host.at[c]
  BY <1>2, <1>3, TurnIs
<1>5. PICK r : r = host'
  OBVIOUS
<1>6. /\ r \in Hosts /\ r.frame = "loaded" /\ r.boot = FALSE /\ r.at = at
      /\ r.abandoned = host.abandoned /\ r.abandonedBash = host.abandonedBash
      /\ r.running = host.running /\ r.asks = host.asks /\ r.pyIn = host.pyIn /\ r.news = host.news
      /\ r.worker = host.worker /\ r.python = host.python /\ r.starts = host.starts
      /\ r.order = host.order
  <2>1. host \in Hosts /\ at \in Ats
    BY <1>2, <1>4 DEF Ats
  <2>2. r = [host EXCEPT !.frame = "loaded", !.boot = FALSE, !.retried = FALSE, !.at = at]
    BY <1>1, <1>3, <1>5
  <2>3. r \in Hosts
    BY <2>1, <2>2 DEF Hosts
  <2>4. /\ r.frame = "loaded" /\ r.boot = FALSE /\ r.at = at
        /\ r.abandoned = host.abandoned /\ r.abandonedBash = host.abandonedBash
        /\ r.running = host.running /\ r.asks = host.asks /\ r.pyIn = host.pyIn /\ r.news = host.news
        /\ r.worker = host.worker /\ r.python = host.python /\ r.starts = host.starts
        /\ r.order = host.order
    BY <2>1, <2>2 DEF Hosts
  <2> QED BY <2>3, <2>4
<1>7. Runs \subseteq Calls /\ Py \subseteq Calls /\ r.running \subseteq Calls
  BY <1>6 DEF Calls, Hosts, Ats, Sets
<1>8. FrameOK(r) /\ InFrame(r)
  BY <1>6 DEF FrameOK, InFrame
<1>9. WaitOK(r)
  BY <1>2, <1>4, <1>6, <1>7 DEF WaitOK
<1>10. CodeOK(r) /\ Pending(r) = Pending(host)
  BY <1>2, <1>4, <1>6, <1>7 DEF CodeOK, Pending
<1>11. RunOK(r) /\ EndsOK(r)
  BY <1>2, <1>4, <1>6, <1>7, <1>10 DEF RunOK, Good, EndsOK
<1>12. FreePy(r) = FreePy(host) /\ InLine(r) = InLine(host)
  BY <1>4, <1>6, <1>7 DEF FreePy, InLine
<1>13. host.worker # NoCall => host.worker \in Py
  BY <1>2 DEF Hosts, Ats, Sets
<1>14. WorkerOK(r)
  BY <1>2, <1>4, <1>6, <1>7, <1>12, <1>13 DEF PythonOK, WorkerOK
<1>15. OrderOK(r)
  BY <1>2, <1>4, <1>6, <1>7, <1>12 DEF PythonOK, OrderOK
<1>16. ReadyOK(r)
  BY <1>2, <1>6, <1>12 DEF PythonOK, ReadyOK
<1> QED BY <1>1, <1>5, <1>6, <1>8, <1>9, <1>10, <1>11, <1>14, <1>15, <1>16
        DEF IInv, Good, Base, PythonOK

\* A command that is stopped: its code stays in the frame, and the frame goes unless someone
\* else waits for an answer from it.
LEMMA EndStep ==
  ASSUME IInv, NEW c \in Runs, End(c)
  PROVE  IInv'
<1>1. Settled /\ host.at[c] = "pending" /\ host' = Detach(host, c) /\ late' = late
  BY DEF End, Task
<1>2. /\ host \in Hosts /\ Good(host) /\ FrameOK(host) /\ WaitOK(host) /\ CodeOK(host)
      /\ RunOK(host) /\ InFrame(host) /\ PythonOK(host) /\ Calm(host)
      /\ host.worker # NoCall => FreePy(host) # {}
      /\ host.worker = NoCall => host.python \in {"idle", "error"}
  BY <1>1, TaskIs
<1>3. c \in Calls /\ c \notin Py /\ Runs \subseteq Calls /\ c \in host.running
  BY <1>1, <1>2, SandboxAssumption DEF Calls, RunOK
<1>4. PICK d : d = [host EXCEPT !.at[c] = "idle", !.abandoned = @ \cup {c}]
  OBVIOUS
<1>5. /\ d \in Hosts /\ d.frame = host.frame /\ d.boot = host.boot
      /\ d.at[c] = "idle" /\ \A x \in Calls : x # c => d.at[x] = host.at[x]
      /\ d.abandoned = host.abandoned \cup {c} /\ d.abandonedBash = host.abandonedBash
      /\ d.running = host.running /\ d.asks = host.asks /\ d.pyIn = host.pyIn /\ d.news = host.news
      /\ d.worker = host.worker /\ d.python = host.python /\ d.starts = host.starts
      /\ d.order = host.order
  <2>1. host \in Hosts /\ c \in Calls /\ c \in Runs
    BY <1>2, <1>3
  <2>2. d \in Hosts
    <3>1. PICK at : at = [host.at EXCEPT ![c] = "idle"]
      OBVIOUS
    <3>2. at \in Ats /\ host.abandoned \cup {c} \in Sets(Runs)
      BY <2>1, <3>1 DEF Hosts, Ats, Sets
    <3>3. d = [host EXCEPT !.at = at, !.abandoned = @ \cup {c}]
      BY <1>4, <2>1, <3>1 DEF Hosts
    <3> QED BY <2>1, <3>2, <3>3 DEF Hosts
  <2>3. /\ d.frame = host.frame /\ d.boot = host.boot
        /\ d.at[c] = "idle" /\ \A x \in Calls : x # c => d.at[x] = host.at[x]
        /\ d.abandoned = host.abandoned \cup {c} /\ d.abandonedBash = host.abandonedBash
        /\ d.running = host.running /\ d.asks = host.asks /\ d.pyIn = host.pyIn /\ d.news = host.news
        /\ d.worker = host.worker /\ d.python = host.python /\ d.starts = host.starts
        /\ d.order = host.order
    BY <1>4, <2>1 DEF Hosts, Ats, Sets
  <2> QED BY <2>2, <2>3
<1>6. FrameOK(d) /\ WaitOK(d) /\ Calm(d) /\ RunOK(d) /\ InFrame(d)
  BY <1>2, <1>3, <1>5 DEF FrameOK, WaitOK, Calm, RunOK, InFrame
<1>7. d.abandoned = {x \in d.running : d.at[x] # "pending"} /\ d.asks \subseteq d.running
  BY <1>2, <1>3, <1>5 DEF CodeOK, Hosts, Ats, Sets
<1>8. \A x \in Py : d.at[x] = host.at[x]
  BY <1>3, <1>5 DEF Calls
<1>9. PythonOK(d)
  BY <1>2, <1>5, <1>8, PythonKept
<1>10. CASE c \notin Bash
  <2>1. CodeOK(d)
    BY <1>2, <1>5, <1>7, <1>10 DEF CodeOK
  <2>2. Base(d)
    BY <1>5, <1>6, <2>1 DEF Base
  <2>3. Good(Restart(d))
    BY <1>6, <1>9, <2>2, RestartIs
  <2> QED BY <1>1, <1>4, <1>10, <2>3 DEF IInv, Detach
<1>11. CASE c \in Bash /\ Pending(d) \cap Bash # {}
  <2>1. FreePy(d) = FreePy(host)
    BY <1>5, <1>8 DEF FreePy
  <2>2. Idle(Reset(d))
    BY <1>2, <1>5, <1>6, <2>1, ResetIs
  <2> QED BY <1>1, <1>4, <1>11, <2>2, IdleIsGood DEF IInv, Detach
<1>12. CASE c \in Bash /\ Pending(d) \cap Bash = {}
  <2>1. PICK r : r = [d EXCEPT !.abandonedBash = @ \cup {c}]
    OBVIOUS
  <2>2. /\ r \in Hosts /\ r.frame = d.frame /\ r.boot = d.boot /\ r.at = d.at
        /\ r.abandoned = d.abandoned /\ r.abandonedBash = d.abandonedBash \cup {c}
        /\ r.running = d.running /\ r.asks = d.asks /\ r.pyIn = d.pyIn /\ r.news = d.news
        /\ r.worker = d.worker /\ r.python = d.python /\ r.starts = d.starts /\ r.order = d.order
    BY <1>5, <1>12, <2>1 DEF Hosts, Ats, Sets
  <2>3. CodeOK(r)
    BY <1>2, <1>5, <1>7, <1>12, <2>2 DEF CodeOK
  <2>4. Base(r) /\ Calm(r)
    BY <1>6, <2>2, <2>3 DEF Base, FrameOK, WaitOK, Calm, RunOK, InFrame
  <2>5. PythonOK(r)
    BY <1>5, <1>9, <2>2, PythonKept
  <2>6. Good(Restart(r))
    BY <2>4, <2>5, RestartIs
  <2> QED BY <1>1, <1>4, <1>12, <2>1, <2>6 DEF IInv, Detach
<1> QED BY <1>10, <1>11, <1>12

LEMMA ReplyStep ==
  ASSUME IInv, NEW c \in Calls, Reply(c)
  PROVE  IInv'
<1>1. PICK d : d = [host EXCEPT !.running = @ \ {c}]
  OBVIOUS
<1>2. /\ Settled /\ late' = late /\ c \in host.running \ host.asks
      /\ host' = IF host.at[c] = "pending" THEN Restart([d EXCEPT !.at[c] = "idle"])
                 ELSE [d EXCEPT !.abandoned = @ \ {c}, !.abandonedBash = @ \ {c}]
  BY <1>1 DEF Reply, Task
<1>3. /\ host \in Hosts /\ Good(host) /\ FrameOK(host) /\ WaitOK(host) /\ CodeOK(host)
      /\ RunOK(host) /\ InFrame(host) /\ PythonOK(host) /\ Calm(host)
  BY <1>2, TaskIs
<1>4. Runs \subseteq Calls /\ Py \subseteq Calls
  BY DEF Calls
<1>5. CASE host.at[c] = "pending"
  <2>1. PICK r : r = [d EXCEPT !.at[c] = "idle"]
    OBVIOUS
  <2>2. /\ r \in Hosts /\ r.frame = host.frame /\ r.boot = host.boot
        /\ r.at[c] = "idle" /\ \A x \in Calls : x # c => r.at[x] = host.at[x]
        /\ r.abandoned = host.abandoned /\ r.abandonedBash = host.abandonedBash
        /\ r.running = host.running \ {c} /\ r.asks = host.asks
        /\ r.pyIn = host.pyIn /\ r.news = host.news
        /\ r.worker = host.worker /\ r.python = host.python /\ r.starts = host.starts
        /\ r.order = host.order
    BY <1>1, <1>3, <2>1 DEF Hosts, Ats, Sets
  <2>3. FrameOK(r) /\ WaitOK(r) /\ Calm(r) /\ RunOK(r) /\ InFrame(r)
    BY <1>3, <1>4, <2>2 DEF FrameOK, WaitOK, Calm, RunOK, InFrame
  <2>4. CodeOK(r)
    <3>1. {x \in r.running : r.at[x] # "pending"} = {x \in host.running : host.at[x] # "pending"}
      BY <1>3, <1>5, <2>2 DEF Hosts, Ats, Sets
    <3> QED BY <1>2, <1>3, <2>2, <3>1 DEF CodeOK
  <2>5. \A x \in Py : r.at[x] = host.at[x] \/ (host.at[x] = "pending" /\ r.at[x] = "idle")
    BY <1>4, <1>5, <2>2
  <2>6. PythonOK(r)
    BY <1>3, <2>2, <2>5, PythonKept
  <2>7. Good(Restart(r))
    BY <2>2, <2>3, <2>4, <2>6, RestartIs DEF Base
  <2> QED BY <1>2, <1>5, <2>1, <2>7 DEF IInv
<1>6. CASE host.at[c] # "pending"
  <2>1. PICK r : r = [d EXCEPT !.abandoned = @ \ {c}, !.abandonedBash = @ \ {c}]
    OBVIOUS
  <2>2. /\ r \in Hosts /\ r.frame = host.frame /\ r.boot = host.boot /\ r.at = host.at
        /\ r.abandoned = host.abandoned \ {c} /\ r.abandonedBash = host.abandonedBash \ {c}
        /\ r.running = host.running \ {c} /\ r.asks = host.asks
        /\ r.pyIn = host.pyIn /\ r.news = host.news
        /\ r.worker = host.worker /\ r.python = host.python /\ r.starts = host.starts
        /\ r.order = host.order
    BY <1>1, <1>3, <2>1 DEF Hosts, Ats, Sets
  <2>3. FrameOK(r) /\ WaitOK(r) /\ RunOK(r) /\ InFrame(r)
    BY <1>3, <1>6, <2>2 DEF FrameOK, WaitOK, RunOK, InFrame
  <2>4. CodeOK(r)
    BY <1>2, <1>3, <2>2 DEF CodeOK
  <2>5. EndsOK(r)
    BY <1>3, <2>2 DEF Good, EndsOK, Pending
  <2>6. PythonOK(r)
    BY <1>3, <2>2, PythonKept
  <2> QED BY <1>2, <1>6, <2>1, <2>2, <2>3, <2>4, <2>5, <2>6 DEF IInv, Good, Base
<1> QED BY <1>5, <1>6

LEMMA LoadPythonStep ==
  ASSUME IInv, LoadPython
  PROVE  IInv'
<1>1. Settled /\ host.worker = NoCall /\ PyRoom /\ host' = StartPython(host) /\ late' = late
  BY DEF LoadPython, Task
<1>2. Idle(host)
  BY <1>1, TaskIs DEF Idle, Off, Good
<1>3. Good(StartPython(host))
  BY <1>1, <1>2, StartGood DEF PyRoom
<1> QED BY <1>1, <1>3 DEF IInv

LEMMA StartTimerStep ==
  ASSUME IInv, StartTimer
  PROVE  IInv'
<1>1. Settled /\ PyRoom /\ host' = EndPython(host, "error") /\ late' = late
  BY DEF StartTimer, Task
<1>2. Base(host) /\ EndsOK(host) /\ Calm(host) /\ FreePy(host) # {} /\ "error" \in {"idle", "error"}
  BY <1>1, TaskIs DEF Good, PyRoom
<1>3. Idle(EndPython(host, "error"))
  BY <1>2, EndIdle
<1> QED BY <1>1, <1>3, IdleIsGood DEF IInv

LEMMA StopPythonStep ==
  ASSUME IInv, StopPython
  PROVE  IInv'
<1>1. PICK e : e = EndPython(host, "idle")
  OBVIOUS
<1>2. Settled /\ PyRoom /\ host' = StartPython(e) /\ late' = late
  BY <1>1 DEF StopPython, Task
<1>3. Base(host) /\ EndsOK(host) /\ Calm(host) /\ FreePy(host) # {} /\ "idle" \in {"idle", "error"}
  BY <1>2, TaskIs DEF Good, PyRoom
<1>4. Idle(e) /\ \E x : Leaves(host, e, x)
  BY <1>1, <1>3, EndIdle
<1>5. \E c, d \in FreePy(e) : c # d
  BY <1>2, <1>4 DEF PyRoom, Leaves
<1>6. Good(StartPython(e))
  BY <1>4, <1>5, StartGood
<1> QED BY <1>2, <1>6 DEF IInv

LEMMA SetLevelStep ==
  ASSUME IInv, NEW l \in Levels, SetLevel(l)
  PROVE  IInv'
<1>1. PICK t : t = [host EXCEPT !.level = l]
  OBVIOUS
<1>2. PICK e : e = Reset(t)
  OBVIOUS
<1>3. Settled /\ PyRoom /\ late' = late
      /\ host' = IF host.python = "ready" THEN StartPython(e) ELSE e
  BY <1>1, <1>2 DEF SetLevel, Task
<1>4. /\ host \in Hosts /\ FrameOK(host) /\ WaitOK(host) /\ Calm(host)
      /\ host.worker = NoCall => host.python \in {"idle", "error"}
  BY <1>3, TaskIs
<1>5. /\ t \in Hosts /\ t.frame = host.frame /\ t.boot = host.boot /\ t.at = host.at
      /\ t.worker = host.worker /\ t.python = host.python
  BY <1>1, <1>4 DEF Hosts, Ats, Sets
<1>6. FrameOK(t) /\ WaitOK(t) /\ Calm(t) /\ FreePy(t) = FreePy(host)
  BY <1>4, <1>5 DEF FrameOK, WaitOK, Calm, FreePy
<1>7. FreePy(t) # {}
  BY <1>3, <1>6 DEF PyRoom
<1>8. Idle(e) /\ \E x : Leaves(t, e, x)
  BY <1>2, <1>4, <1>5, <1>6, <1>7, ResetIs
<1>9. \E c, d \in FreePy(e) : c # d
  BY <1>3, <1>6, <1>8 DEF PyRoom, Leaves
<1>10. Good(e) /\ Good(StartPython(e))
  BY <1>8, <1>9, StartGood, IdleIsGood
<1> QED BY <1>3, <1>10 DEF IInv

LEMMA PythonUpStep ==
  ASSUME IInv, PythonUp
  PROVE  IInv'
<1>1. Settled /\ host.pyIn = "starting" /\ host' = [host EXCEPT !.pyIn = "up", !.news = TRUE]
      /\ late' = late
  BY DEF PythonUp, Task
<1>2. host \in Hosts /\ Good(host)
  BY <1>1, TaskIs
<1>3. PICK r : r = host'
  OBVIOUS
<1>4. /\ r \in Hosts /\ r.frame = host.frame /\ r.boot = host.boot /\ r.at = host.at
      /\ r.abandoned = host.abandoned /\ r.abandonedBash = host.abandonedBash
      /\ r.running = host.running /\ r.asks = host.asks /\ r.pyIn = "up"
      /\ r.worker = host.worker /\ r.python = host.python /\ r.starts = host.starts
      /\ r.order = host.order
  BY <1>1, <1>2, <1>3 DEF Hosts, Ats, Sets
<1>5. Base(r) /\ EndsOK(r)
  BY <1>1, <1>2, <1>4 DEF Good, Base, FrameOK, WaitOK, CodeOK, RunOK, InFrame, EndsOK, Pending
<1>6. WorkerOK(r) /\ OrderOK(r)
  BY <1>2, <1>4 DEF Good, PythonOK, WorkerOK, OrderOK, FreePy, InLine
<1>7. ReadyOK(r)
  BY <1>2, <1>4 DEF Good, PythonOK, ReadyOK, InLine
<1> QED BY <1>1, <1>3, <1>5, <1>6, <1>7 DEF IInv, Good, PythonOK

\* What says that it is ready is the worker that Python has: its start is not still to come.
LEMMA PythonReadyStep ==
  ASSUME IInv, PythonReady
  PROVE  IInv'
<1>1. PICK python : python = IF host.worker = NoCall THEN host.python ELSE "ready"
  OBVIOUS
<1>2. Settled /\ host.news /\ late' = late
      /\ host' = [host EXCEPT !.news = FALSE, !.python = python]
  BY <1>1 DEF PythonReady, Task
<1>3. /\ host \in Hosts /\ Good(host) /\ FrameOK(host) /\ WaitOK(host) /\ InFrame(host)
      /\ WorkerOK(host) /\ OrderOK(host) /\ ReadyOK(host)
  BY <1>2, TaskIs
<1>4. python \in {"idle", "loading", "ready", "error"}
  BY <1>1, <1>3 DEF Hosts, Ats, Sets
<1>5. PICK r : r = host'
  OBVIOUS
<1>6. /\ r \in Hosts /\ r.frame = host.frame /\ r.boot = host.boot /\ r.at = host.at
      /\ r.abandoned = host.abandoned /\ r.abandonedBash = host.abandonedBash
      /\ r.running = host.running /\ r.asks = host.asks /\ r.pyIn = host.pyIn
      /\ r.worker = host.worker /\ r.python = python /\ r.starts = host.starts
      /\ r.order = host.order /\ r.news = FALSE
  BY <1>2, <1>3, <1>4, <1>5 DEF Hosts, Ats, Sets
<1>7. Base(r) /\ EndsOK(r)
  BY <1>3, <1>6 DEF Good, Base, FrameOK, WaitOK, CodeOK, RunOK, InFrame, EndsOK, Pending
<1>8. WorkerOK(r) /\ OrderOK(r)
  BY <1>1, <1>3, <1>6 DEF WorkerOK, OrderOK, FreePy, InLine
<1>9. host.worker # NoCall => host.worker \notin InLine(host)
  BY <1>2, <1>3 DEF Settled, InFrame, FrameOK, WaitOK, InLine, Calls
<1>10. ReadyOK(r)
  BY <1>1, <1>2, <1>3, <1>6, <1>9 DEF ReadyOK, WorkerOK, InLine
<1> QED BY <1>2, <1>5, <1>7, <1>8, <1>10 DEF IInv, Good, PythonOK

\* A command goes on: its frame is still there, or it finds that the frame has gone.
LEMMA ProceedRunStep ==
  ASSUME IInv, NEW c \in Runs, Proceed(c)
  PROVE  IInv'
<1>1. /\ host \in Hosts /\ Good(host) /\ FrameOK(host) /\ WaitOK(host) /\ CodeOK(host)
      /\ RunOK(host) /\ InFrame(host) /\ PythonOK(host)
  BY DEF IInv, Good, Base
<1>2. c \in Calls /\ c \notin Py /\ Runs \subseteq Calls /\ Py \subseteq Calls /\ host.worker # c
      /\ c # NoCall
  BY <1>1, SandboxAssumption DEF Calls, Hosts, Ats, Sets
<1>3. PICK left : left = [host EXCEPT !.at[c] = "idle", !.order = Without(@, c)]
  OBVIOUS
<1>4. Without(host.order, c) = host.order
  BY <1>1, <1>2 DEF Without, Hosts, Ats, Sets
<1>5. host.at[c] \in {"resolved", "rejected"} /\ late' = late
      /\ host' = IF host.at[c] = "resolved" /\ host.frame # "none"
                 THEN Deliver([left EXCEPT !.at[c] = "pending"], c)
                 ELSE [left EXCEPT !.starts = @ \ {c}]
  BY <1>2, <1>3 DEF Proceed
<1>6. /\ left \in Hosts /\ left.frame = host.frame /\ left.boot = host.boot
      /\ left.at = [host.at EXCEPT ![c] = "idle"]
      /\ left.abandoned = host.abandoned /\ left.abandonedBash = host.abandonedBash
      /\ left.running = host.running /\ left.asks = host.asks
      /\ left.pyIn = host.pyIn /\ left.news = host.news
      /\ left.worker = host.worker /\ left.python = host.python /\ left.starts = host.starts
      /\ left.order = host.order
  BY <1>1, <1>2, <1>3, <1>4 DEF Hosts, Ats, Sets
<1>7. c \notin host.running /\ (host.at[c] = "resolved" => host.frame = "loaded")
  BY <1>1, <1>5 DEF RunOK
<1>8. PICK r : r = host'
  OBVIOUS
<1>9. CASE host.at[c] = "resolved"
  <2>1. PICK t : t = [left EXCEPT !.at[c] = "pending"]
    OBVIOUS
  <2>2. t \in Hosts /\ t.frame = "loaded" /\ t.pyIn = host.pyIn /\ t.starts = host.starts
        /\ t.running = host.running /\ t.boot = host.boot
        /\ t.at = [left.at EXCEPT ![c] = "pending"]
        /\ t.abandoned = host.abandoned /\ t.abandonedBash = host.abandonedBash
        /\ t.asks = host.asks /\ t.news = host.news
        /\ t.worker = host.worker /\ t.python = host.python /\ t.order = host.order
    BY <1>2, <1>6, <1>7, <1>9, <2>1 DEF Hosts, Ats, Sets
  <2>3. t.starts \ {c} = t.starts
    BY <1>1, <1>2, <2>2 DEF Hosts, Ats, Sets
  <2>4. r = [t EXCEPT !.running = @ \cup {c}, !.pyIn = @, !.starts = @ \ {c}]
    <3>1. r = Deliver(t, c)
      BY <1>5, <1>7, <1>8, <1>9, <2>1
    <3> QED BY <2>2, <3>1 DEF Deliver
  <2>5. /\ r \in Hosts /\ r.frame = host.frame /\ r.boot = host.boot
        /\ r.at[c] = "pending" /\ \A x \in Calls : x # c => r.at[x] = host.at[x]
        /\ r.abandoned = host.abandoned /\ r.abandonedBash = host.abandonedBash
        /\ r.running = host.running \cup {c} /\ r.asks = host.asks
        /\ r.pyIn = host.pyIn /\ r.news = host.news
        /\ r.worker = host.worker /\ r.python = host.python /\ r.starts = host.starts
        /\ r.order = host.order
    BY <1>1, <1>2, <1>6, <1>7, <1>9, <2>2, <2>3, <2>4 DEF Hosts, Ats, Sets
  <2>6. FrameOK(r) /\ WaitOK(r) /\ RunOK(r) /\ InFrame(r)
    BY <1>1, <1>2, <2>5 DEF FrameOK, WaitOK, RunOK, InFrame
  <2>7. CodeOK(r)
    <3>1. {x \in r.running : r.at[x] # "pending"} = {x \in host.running : host.at[x] # "pending"}
      BY <1>1, <1>7, <2>5 DEF Hosts, Ats, Sets
    <3> QED BY <1>1, <2>5, <3>1 DEF CodeOK
  <2>8. c \in Pending(r)
    BY <1>2, <2>5 DEF Pending
  <2>9. EndsOK(r)
    BY <2>8 DEF EndsOK
  <2>10. \A x \in Py : r.at[x] = host.at[x]
    BY <1>2, <2>5
  <2>11. PythonOK(r)
    BY <1>1, <2>5, <2>10, PythonKept
  <2> QED BY <1>5, <1>8, <2>5, <2>6, <2>7, <2>9, <2>11 DEF IInv, Good, Base
<1>10. CASE host.at[c] # "resolved"
  <2>1. left.starts \ {c} = left.starts
    BY <1>1, <1>2, <1>6 DEF Hosts, Ats, Sets
  <2>2. PICK t : t = [host EXCEPT !.at[c] = "idle"]
    OBVIOUS
  <2>3. r = t
    <3>1. left = t
      BY <1>1, <1>3, <1>4, <2>2 DEF Hosts, Ats, Sets
    <3>2. r = [left EXCEPT !.starts = @ \ {c}]
      BY <1>5, <1>8, <1>10
    <3>3. r = left
      BY <1>6, <2>1, <3>2 DEF Hosts, Ats, Sets
    <3> QED BY <3>1, <3>3
  <2>4. Good([host EXCEPT !.at[c] = "idle"])
    <3>1. "idle" \in {"idle", "waiting", "resolved"} /\ host.at[c] # "pending"
      BY <1>5
    <3> QED BY <1>1, <3>1, MoveRun
  <2> QED BY <1>5, <1>8, <2>2, <2>3, <2>4 DEF IInv
<1> QED BY <1>9, <1>10

\* A call of Python goes on.  A py-stop that waits beside the start of a worker goes on before it.
LEMMA ProceedPyStep ==
  ASSUME IInv, NEW c \in Py, Proceed(c)
  PROVE  IInv'
<1>1. /\ host \in Hosts /\ Good(host) /\ FrameOK(host) /\ WaitOK(host) /\ CodeOK(host)
      /\ RunOK(host) /\ InFrame(host) /\ WorkerOK(host) /\ OrderOK(host) /\ ReadyOK(host)
      /\ EndsOK(host)
  BY DEF IInv, Good, Base, PythonOK
<1>2. c \in Calls /\ c \notin Runs /\ Runs \subseteq Calls /\ Py \subseteq Calls /\ c # NoCall
  BY SandboxAssumption DEF Calls
<1>3. PICK left : left = [host EXCEPT !.at[c] = "idle", !.order = Without(@, c)]
  OBVIOUS
<1>4. host.at[c] \in {"resolved", "rejected"} /\ late' = late /\ First(c)
      /\ host' = IF host.at[c] = "resolved" /\ host.frame # "none"
                 THEN Deliver([left EXCEPT !.at[c] = "pending"], c)
                 ELSE IF c = host.worker THEN EndPython(left, "error")
                 ELSE [left EXCEPT !.starts = @ \ {c}]
  BY <1>3 DEF Proceed
<1>5. PICK order : order = Without(host.order, c)
  OBVIOUS
<1>6. /\ order \subseteq Py \X Py
      /\ \A x, y \in Py : x # c /\ y # c /\ <<x, y>> \in host.order => <<x, y>> \in order
  BY <1>1, <1>5 DEF Without, Hosts, Ats, Sets
<1>7. /\ left \in Hosts /\ left.frame = host.frame /\ left.boot = host.boot
      /\ left.at = [host.at EXCEPT ![c] = "idle"]
      /\ left.abandoned = host.abandoned /\ left.abandonedBash = host.abandonedBash
      /\ left.running = host.running /\ left.asks = host.asks
      /\ left.pyIn = host.pyIn /\ left.news = host.news
      /\ left.worker = host.worker /\ left.python = host.python /\ left.starts = host.starts
      /\ left.order = order
  BY <1>1, <1>2, <1>3, <1>5, <1>6 DEF Hosts, Ats, Sets
<1>8. c \notin host.running /\ c \in InLine(host)
  BY <1>1, <1>2, <1>4 DEF CodeOK, Hosts, Ats, Sets, InLine
<1>9. PICK r : r = host'
  OBVIOUS
\* Once the worker is past its wait nobody is behind it, and ready it is past it.
<1>10. host.worker # NoCall => host.worker \in InLine(host) /\ host.worker \in host.starts
  BY <1>1, <1>8 DEF OrderOK
<1>11. host.python # "ready"
  BY <1>1, <1>10 DEF ReadyOK, WorkerOK
<1>12. c = host.worker => InLine(host) = {c}
  <2>1. SUFFICES ASSUME c = host.worker, NEW d \in InLine(host), d # c PROVE FALSE
    BY <1>8
  <2>2. <<d, c>> \in host.order /\ d \in Py
    BY <1>1, <1>2, <2>1 DEF OrderOK, InLine
  <2>3. host.at[d] = "waiting"
    BY <1>4, <2>1, <2>2 DEF First, InLine
  <2>4. host.at[c] = "resolved"
    BY <1>1, <1>2, <1>4, <2>1 DEF WorkerOK
  <2> QED BY <1>1, <1>2, <2>1, <2>2, <2>3, <2>4 DEF OrderOK
<1>13. CASE host.at[c] = "resolved" /\ host.frame # "none"
  <2>1. PICK t : t = [left EXCEPT !.at[c] = "pending"]
    OBVIOUS
  <2>2. PICK py \in {"none", "starting", "up"} :
             /\ py = IF c \notin host.starts THEN "none"
                     ELSE IF host.pyIn = "none" THEN "starting" ELSE host.pyIn
    BY <1>1 DEF Hosts, Ats, Sets
  <2>3. t \in Hosts /\ t.frame = host.frame /\ t.pyIn = host.pyIn /\ t.starts = host.starts
        /\ t.running = host.running /\ t.boot = host.boot
        /\ t.at[c] = "pending" /\ (\A x \in Calls : x # c => t.at[x] = host.at[x])
        /\ t.abandoned = host.abandoned /\ t.abandonedBash = host.abandonedBash
        /\ t.asks = host.asks /\ t.news = host.news
        /\ t.worker = host.worker /\ t.python = host.python /\ t.order = order
    BY <1>1, <1>2, <1>7, <2>1 DEF Hosts, Ats, Sets
  <2>4. r = Deliver(t, c)
    BY <1>4, <1>9, <1>13, <2>1
  <2>5. /\ r \in Hosts /\ r.frame = host.frame /\ r.boot = host.boot
        /\ r.at[c] = "pending" /\ (\A x \in Calls : x # c => r.at[x] = host.at[x])
        /\ r.abandoned = host.abandoned /\ r.abandonedBash = host.abandonedBash
        /\ r.asks = host.asks /\ r.news = host.news
        /\ r.worker = host.worker /\ r.python = host.python /\ r.order = order
        /\ r.running = (IF host.frame = "loaded" THEN host.running \cup {c} ELSE host.running)
        /\ r.pyIn = (IF host.frame = "loaded" THEN py ELSE host.pyIn)
        /\ \A x \in host.starts : x # c => x \in r.starts
    <3>1. CASE host.frame = "loaded"
      <4>1. r = [t EXCEPT !.running = @ \cup {c}, !.pyIn = py, !.starts = @ \ {c}]
        BY <1>2, <2>2, <2>3, <2>4, <3>1 DEF Deliver
      <4>2. t \in Hosts /\ c \in Calls
        BY <1>2, <2>3
      <4>3. r \in Hosts
        <5>1. t.running \cup {c} \in Sets(Calls) /\ t.starts \ {c} \in Sets(Py)
          BY <4>2 DEF Hosts, Sets
        <5> QED BY <4>1, <4>2, <5>1 DEF Hosts
      <4>4. /\ r.frame = t.frame /\ r.boot = t.boot /\ r.at = t.at
            /\ r.abandoned = t.abandoned /\ r.abandonedBash = t.abandonedBash
            /\ r.asks = t.asks /\ r.news = t.news /\ r.worker = t.worker /\ r.python = t.python
            /\ r.order = t.order /\ r.running = t.running \cup {c} /\ r.pyIn = py
            /\ r.starts = t.starts \ {c}
        BY <4>1, <4>2 DEF Hosts, Ats, Sets
      <4> QED BY <2>3, <3>1, <4>3, <4>4
    <3>2. CASE host.frame # "loaded"
      BY <2>3, <2>4, <3>2 DEF Deliver
    <3> QED BY <3>1, <3>2
  <2>6. FrameOK(r) /\ WaitOK(r)
    BY <1>1, <1>2, <2>5 DEF FrameOK, WaitOK
  <2>7. CodeOK(r)
    <3>1. {x \in r.running : r.at[x] # "pending"} = {x \in host.running : host.at[x] # "pending"}
      BY <1>1, <1>8, <2>5 DEF Hosts, Ats, Sets
    <3> QED BY <1>1, <2>5, <3>1 DEF CodeOK
  <2>8. RunOK(r)
    BY <1>1, <1>2, <2>5 DEF RunOK
  <2>9. InFrame(r)
    BY <1>1, <2>5 DEF InFrame
  <2>10. c \in Pending(r)
    BY <1>2, <2>5 DEF Pending
  <2>11. EndsOK(r)
    BY <2>10 DEF EndsOK
  <2>12. FreePy(r) = FreePy(host) /\ InLine(r) = InLine(host) \ {c}
    BY <1>2, <1>4, <2>5 DEF FreePy, InLine
  <2>13. WorkerOK(r)
    BY <1>1, <1>2, <1>10, <2>5, <2>12 DEF WorkerOK, InLine
  <2>14. OrderOK(r)
    <3>1. CASE c = host.worker
      BY <1>1, <1>2, <1>12, <2>5, <2>12, <3>1 DEF OrderOK, InLine
    <3>2. CASE c # host.worker
      <4>1. host.worker # NoCall => \A x \in InLine(r) \ {host.worker} : <<x, host.worker>> \in order
        BY <1>1, <1>6, <1>10, <2>12, <3>2 DEF OrderOK, InLine
      <4>2. host.worker # NoCall => host.worker \in InLine(r) /\ host.worker \in r.starts
        BY <1>10, <2>5, <2>12, <3>2
      <4>3. host.worker # NoCall /\ r.at[host.worker] = "resolved" => \A x \in Py : r.at[x] # "waiting"
        BY <1>1, <1>2, <1>10, <2>5, <3>2 DEF OrderOK, InLine
      <4> QED BY <2>5, <4>1, <4>2, <4>3 DEF OrderOK
    <3> QED BY <3>1, <3>2
  <2>15. ReadyOK(r)
    <3>1. CASE c = host.worker
      BY <1>1, <1>2, <1>10, <1>11, <2>2, <2>5, <3>1 DEF ReadyOK, InFrame
    <3>2. CASE c # host.worker
      BY <1>10, <1>11, <2>5, <2>12, <3>2 DEF ReadyOK
    <3> QED BY <3>1, <3>2
  <2> QED BY <1>4, <1>9, <2>5, <2>6, <2>7, <2>8, <2>9, <2>11, <2>13, <2>14, <2>15
          DEF IInv, Good, Base, PythonOK
<1>14. CASE ~(host.at[c] = "resolved" /\ host.frame # "none")
  <2>1. c # host.worker
    BY <1>1, <1>2, <1>4, <1>14 DEF WorkerOK
  <2>2. r = [left EXCEPT !.starts = @ \ {c}]
    BY <1>4, <1>9, <1>14, <2>1
  <2>3. /\ r \in Hosts /\ r.frame = host.frame /\ r.boot = host.boot
        /\ r.at[c] = "idle" /\ (\A x \in Calls : x # c => r.at[x] = host.at[x])
        /\ r.abandoned = host.abandoned /\ r.abandonedBash = host.abandonedBash
        /\ r.running = host.running /\ r.asks = host.asks /\ r.pyIn = host.pyIn /\ r.news = host.news
        /\ r.worker = host.worker /\ r.python = host.python /\ r.order = order
        /\ r.starts = host.starts \ {c}
    BY <1>1, <1>2, <1>7, <2>2 DEF Hosts, Ats, Sets
  <2>4. FrameOK(r) /\ WaitOK(r) /\ RunOK(r) /\ InFrame(r)
    BY <1>1, <1>2, <2>3 DEF FrameOK, WaitOK, RunOK, InFrame
  <2>5. CodeOK(r)
    <3>1. {x \in r.running : r.at[x] # "pending"} = {x \in host.running : host.at[x] # "pending"}
      BY <1>1, <1>8, <2>3 DEF Hosts, Ats, Sets
    <3> QED BY <1>1, <2>3, <3>1 DEF CodeOK
  <2>6. Pending(r) = Pending(host)
    BY <1>2, <1>4, <2>3 DEF Pending
  <2>7. EndsOK(r)
    BY <1>1, <2>3, <2>6 DEF EndsOK
  <2>8. FreePy(host) \subseteq FreePy(r) /\ InLine(r) = InLine(host) \ {c}
    BY <1>2, <2>3 DEF FreePy, InLine
  <2>9. WorkerOK(r)
    BY <1>1, <1>2, <1>10, <2>1, <2>3, <2>8 DEF WorkerOK, InLine
  <2>10. host.worker # NoCall => \A x \in InLine(r) \ {host.worker} : <<x, host.worker>> \in order
    BY <1>1, <1>6, <1>10, <2>1, <2>8 DEF OrderOK, InLine
  <2>11. host.worker # NoCall => host.worker \in InLine(r) /\ host.worker \in r.starts
    BY <1>10, <2>1, <2>3, <2>8
  <2>12. host.worker # NoCall /\ r.at[host.worker] = "resolved" => \A x \in Py : r.at[x] # "waiting"
    BY <1>1, <1>2, <1>10, <2>1, <2>3 DEF OrderOK, InLine
  <2>13. OrderOK(r)
    BY <2>3, <2>10, <2>11, <2>12 DEF OrderOK
  <2>14. ReadyOK(r)
    BY <1>11, <2>3, <2>11 DEF ReadyOK
  <2> QED BY <1>4, <1>9, <2>3, <2>4, <2>5, <2>7, <2>9, <2>13, <2>14
          DEF IInv, Good, Base, PythonOK
<1> QED BY <1>13, <1>14

-----------------------------------------------------------------------------
(* The theorems. *)

LEMMA InitOK == Init => IInv
<1> SUFFICES ASSUME Init PROVE IInv
  OBVIOUS
<1>1. PICK l \in Levels :
       host = [frame |-> "none", boot |-> FALSE, retried |-> FALSE, csp |-> FALSE,
               at |-> [c \in Calls |-> "idle"], abandoned |-> {}, abandonedBash |-> {},
               running |-> {}, asks |-> {}, python |-> "idle", worker |-> NoCall,
               starts |-> {}, order |-> {}, pyIn |-> "none", news |-> FALSE, level |-> l]
  BY DEF Init
<1>2. /\ host \in Hosts /\ host.frame = "none" /\ host.abandoned = {} /\ host.abandonedBash = {}
      /\ host.running = {} /\ host.asks = {} /\ host.python = "idle" /\ host.worker = NoCall
      /\ host.pyIn = "none" /\ host.news = FALSE /\ \A c \in Calls : host.at[c] = "idle"
  BY <1>1 DEF Hosts, Ats, Sets
<1>3. Runs \subseteq Calls
  BY DEF Calls
<1>4. Base(host) /\ EndsOK(host)
  BY <1>2, <1>3 DEF Base, FrameOK, WaitOK, CodeOK, RunOK, InFrame, EndsOK
<1>5. PythonOK(host)
  BY <1>2 DEF PythonOK, WorkerOK, OrderOK, ReadyOK
<1>6. late = {}
  BY DEF Init
<1> QED BY <1>4, <1>5, <1>6 DEF IInv, Good

LEMMA StepOK == IInv /\ [Next]_vars => IInv'
<1> SUFFICES ASSUME IInv, [Next]_vars PROVE IInv'
  OBVIOUS
<1>1. ASSUME NEW c \in Runs, Call(c) PROVE IInv'
  BY <1>1, CallStep
<1>2. ASSUME NEW c \in Runs, Leave(c) PROVE IInv'
  BY <1>2, LeaveStep
<1>3. ASSUME NEW c \in Runs, End(c) PROVE IInv'
  BY <1>3, EndStep
<1>4. ASSUME NEW c \in Calls, Proceed(c) PROVE IInv'
  BY <1>4, ProceedRunStep, ProceedPyStep DEF Calls
<1>5. ASSUME NEW c \in Calls, Reply(c) PROVE IInv'
  BY <1>5, ReplyStep
<1>6. ASSUME NEW c \in Bash, Ask(c) PROVE IInv'
  BY <1>6, AskStep
<1>7. ASSUME NEW c \in Bash, Answer(c) PROVE IInv'
  BY <1>7, AnswerStep
<1>8. CASE Load
  BY <1>8, LoadStep
<1>9. CASE LoadError
  BY <1>9, LoadErrorStep
<1>10. CASE BootTimer
  BY <1>10, BootTimerStep
<1>11. CASE LoadPython
  BY <1>11, LoadPythonStep
<1>12. CASE PythonUp
  BY <1>12, PythonUpStep
<1>13. CASE PythonReady
  BY <1>13, PythonReadyStep
<1>14. CASE StopPython
  BY <1>14, StopPythonStep
<1>15. CASE StartTimer
  BY <1>15, StartTimerStep
<1>16. ASSUME NEW l \in Levels, SetLevel(l) PROVE IInv'
  BY <1>16, SetLevelStep
<1>17. ASSUME NEW l \in Levels, OtherTabSetsLevel(l) PROVE IInv'
  BY <1>17, OtherTabSetsLevelStep
<1>18. CASE UNCHANGED vars
  BY <1>18 DEF vars, IInv
<1> QED BY <1>1, <1>2, <1>3, <1>4, <1>5, <1>6, <1>7, <1>8, <1>9, <1>10, <1>11, <1>12,
           <1>13, <1>14, <1>15, <1>16, <1>17, <1>18 DEF Next

\* Between two tasks the page's variables, the promises and the code in the frame fit
\* together, whatever call backs ran inside a reset: for any numbers of calls.
THEOREM FrameAndCallsFit == Spec => []IInv
<1> QED BY InitOK, StepOK, PTL DEF Spec

\* The type invariant, and with it what relates the frame, its load timer and the sets of
\* stopped commands.
THEOREM TypeCorrect == Spec => []TypeOK
<1>1. IInv => TypeOK
  <2> SUFFICES ASSUME IInv PROVE TypeOK
    OBVIOUS
  <2>1. host \in Hosts /\ FrameOK(host) /\ CodeOK(host) /\ late = {}
    BY DEF IInv, Good, Base
  <2>2. host.frame \in {"none", "loading", "loaded"}
    BY <2>1 DEF FrameOK, Hosts, Ats, Sets
  <2> QED BY <2>1, <2>2 DEF TypeOK, Hosts, Ats, Sets, FrameOK, CodeOK
<1> QED BY <1>1, FrameAndCallsFit, PTL

\* No write of a command of the shell is accepted once its caller was told that it was
\* stopped (_answerWorkspace, _detach).
THEOREM StoppedWriteNothingEver == Spec => []StoppedWritesNothing
<1>1. IInv => StoppedWritesNothing
  BY DEF IInv, StoppedWritesNothing
<1> QED BY <1>1, FrameAndCallsFit, PTL

\* Stopped code stays in the frame only beside a call that will answer, as long as no call
\* was sent to a frame that had not loaded (_restartIfOnlyAbandonedRemain).
THEOREM StoppedCodeEndsAlways == Spec => []StoppedCodeEndsUnlessLost
<1>1. IInv => StoppedCodeEndsUnlessLost
  BY DEF IInv, Good, EndsOK, Pending, StoppedCodeEndsUnlessLost, StoppedCodeEnds
<1> QED BY <1>1, FrameAndCallsFit, PTL

\* While Python is shown as ready its worker is in the frame: the stops of earlier workers
\* have gone on before its start (_endPyodideWorker, startPyodide).
THEOREM ReadyIsAlwaysThere == Spec => []ReadyIsThere
<1>1. IInv => ReadyIsThere
  BY DEF IInv, Good, PythonOK, ReadyOK, ReadyIsThere
<1> QED BY <1>1, FrameAndCallsFit, PTL

\* Every command that waits for a frame waits for the one that is loading, and its load
\* timer runs (_ensureFrame, resetSandbox).
THEOREM WaitIsAlwaysSettled == Spec => []WaitIsSettled
<1>1. IInv => WaitIsSettled
  BY DEF IInv, Good, Base, FrameOK, WaitOK, WaitIsSettled
<1> QED BY <1>1, FrameAndCallsFit, PTL
=============================================================================
