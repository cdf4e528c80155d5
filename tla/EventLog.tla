------------------------------ MODULE EventLog ------------------------------
(***************************************************************************)
(* The event logs of a headless process on disk (session.ts,               *)
(* session-registry.ts, session-persistence.ts).  A session keeps its      *)
(* events in memory; each is queued when it is appended, and a drain       *)
(* writes what is queued to one file of lines per session.  A write that   *)
(* fails, or that the death of the process cuts short, leaves any prefix   *)
(* of its text in the file: whole lines, a line that only lacks its        *)
(* newline, a fragment of one.  A later process resumes a session from     *)
(* what load() makes of the file.                                          *)
(*                                                                         *)
(* The text of the events is not modelled, nor its length: whether a batch *)
(* still fits under the size limit of a file is left open.  Any prefix of  *)
(* a log may be a seed (turn boundaries are not told apart), and the       *)
(* sessions of one batch are written in any order.  A session is opened    *)
(* once in a process.  prune(), which removes files of earlier processes,  *)
(* is left out.                                                            *)
(***************************************************************************)
EXTENDS Integers, Sequences, SequencesExt, FiniteSetsExt

CONSTANTS
  Sessions,  \* session ids: a fresh one is not used again by a later process
  Flushers,  \* the callers of flush()
  Timer,     \* the drain a timer started
  Torn,      \* a line that does not parse
  MaxEvents, \* bound on the events one process queues
  MaxFails,  \* bound on the writes that fail
  MaxLives   \* bound on the processes, one after the other

Nobody == "nobody"
Drains == Flushers \cup {Timer}

ASSUME LogAssumption ==
  /\ Timer \notin Flushers /\ Nobody \notin Drains
  /\ {MaxEvents, MaxFails} \subseteq Nat /\ MaxLives \in Nat \ {0}

VARIABLES
  life,    \* the processes so far
  opened,  \* _sessions: the sessions this process has
  log,     \* _log of a session
  pending, \* pending: the events of a session that wait for a drain
  todo,    \* the events of a session the running drain has not written yet
  dirty,   \* dirty: the sessions whose last append is not known to be complete
  capped,  \* capped: the sessions whose file reached its limit
  timer,   \* a timer is set
  driver,  \* who runs the drain that is active, or nobody
  waiting, \* who waits for it to end
  woken,   \* who goes on now that it has ended, in the order they began to wait
  flush,   \* flush[f]: where the call of f is
  file,    \* the lines of the file of a session
  cut,     \* the last line of the file has no newline
  fails,   \* the writes that failed so far
  base,    \* the events a session began with that were never queued (history)
  ragged,  \* sessions resumed from a file that ends inside a line (history)
  kept     \* a drain failed, and nothing was queued since (history)

queues  == <<pending, todo, dirty, capped, timer, driver, waiting, woken, flush>>
disk    == <<file, cut, fails>>
history == <<base, ragged, kept>>
vars    == <<life, opened, log, queues, disk, history>>

Event  == [seq : Nat, life : 1 .. MaxLives, seal : BOOLEAN]
Logs   == [Sessions -> Seq(Event)]

ASSUME LineAssumption == Torn \notin Event

\* Timers and finished writes are tasks of their own: they run when no promise callback is due.
Task == woken = <<>>

NoEvents == [s \in Sessions |-> <<>>]

Init ==
  /\ life = 1 /\ opened = {} /\ log = NoEvents
  /\ pending = NoEvents /\ todo = NoEvents
  /\ dirty = {} /\ capped = {} /\ timer = FALSE
  /\ driver = Nobody /\ waiting = <<>> /\ woken = <<>>
  /\ flush = [f \in Flushers |-> "idle"]
  /\ file = NoEvents /\ cut = [s \in Sessions |-> FALSE] /\ fails = 0
  /\ base = [s \in Sessions |-> 0] /\ ragged = {} /\ kept = FALSE

-----------------------------------------------------------------------------
(* Sessions *)

\* What load() returns: the lines that parse and whose seq counts up from 0, in file order.
Bug_LoadRepeats(lines) == SelectSeq(lines, LAMBDA line : line # Torn)
Load(lines) ==
  LET run[n \in 0 .. Len(lines)] ==
        IF n = 0 THEN <<>>
        ELSE LET before == run[n - 1] line == lines[n] IN
             IF line # Torn /\ line.seq = Len(before) THEN Append(before, line) ELSE before
  IN  run[Len(lines)]

Bug_SeqBehind(seq, seal) == [seq |-> seq - 1, life |-> life, seal |-> seal]
NewEvent(seq, seal) == [seq |-> seq, life |-> life, seal |-> seal]

\* A session that starts from a seed marks where the seed ends, unless the seed does.
Sealed(seed) ==
  IF seed = <<>> \/ Last(seed).seal THEN seed ELSE Append(seed, NewEvent(Len(seed), TRUE))

RoomFor(n) == MapThenSumSet(LAMBDA s : Len(log[s]) - base[s], Sessions) + n <= MaxEvents

\* enqueue() for each of the events evs of s, which are at least one.
Enqueue(s, evs) ==
  /\ pending' = [pending EXCEPT ![s] = @ \o evs]
  /\ timer' = TRUE /\ kept' = FALSE
  /\ UNCHANGED <<todo, dirty, capped, driver, waiting, woken, flush>>

\* Session.append with the hook of the registry.
AppendEvent(s) ==
  LET ev == NewEvent(Len(log[s]), FALSE) IN
  /\ s \in opened /\ RoomFor(1)
  /\ log' = [log EXCEPT ![s] = Append(@, ev)]
  /\ Enqueue(s, <<ev>>)
  /\ UNCHANGED <<life, opened, disk, base, ragged>>

\* A session id is new: no process used it before.
Fresh(s) == s \notin opened /\ log[s] = <<>> /\ file[s] = <<>>

Open(s, events) ==
  /\ opened' = opened \cup {s}
  /\ log' = [log EXCEPT ![s] = events]
  /\ UNCHANGED <<life, disk>>

\* registry.create, with a seed or without one: all of a seeded log is queued.
Create(s, seed) ==
  /\ Fresh(s) /\ RoomFor(Len(Sealed(seed))) /\ Open(s, Sealed(seed))
  /\ \/ seed = <<>> /\ UNCHANGED <<queues, kept>>
     \/ seed # <<>> /\ Enqueue(s, Sealed(seed))
  /\ UNCHANGED <<base, ragged>>

\* registry.fork: what the new session starts from is never queued.
Fork(s, seed) ==
  /\ Fresh(s) /\ Open(s, Sealed(seed))
  /\ base' = [base EXCEPT ![s] = Len(Sealed(seed))]
  /\ UNCHANGED <<queues, ragged, kept>>

\* registry.resume: what load() returned is in the file, the mark behind it is not.
Resume(s) ==
  LET seed == Load(file[s]) IN
  /\ Task /\ s \notin opened /\ file[s] # <<>> /\ Open(s, Sealed(seed))
  /\ base' = [base EXCEPT ![s] = Len(Sealed(seed))]
  /\ ragged' = IF cut[s] THEN ragged \cup {s} ELSE ragged
  /\ UNCHANGED <<queues, kept>>

-----------------------------------------------------------------------------
(* Drains *)

\* The part of _drain before its first wait: everything queued becomes the batch of d.
Begin(d) ==
  /\ driver' = d /\ todo' = pending /\ pending' = NoEvents
  /\ kept' = FALSE

\* A drain is running.
Active == driver # Nobody

\* The timer calls _drain.
Bug_TimerReturns ==
  /\ Task /\ timer /\ timer' = FALSE
  /\ IF ~Active THEN Begin(Timer) ELSE UNCHANGED <<pending, todo, driver, kept>>
  /\ UNCHANGED <<life, opened, log, dirty, capped, waiting, woken, flush, disk, base, ragged>>
TimerFires ==
  /\ Task /\ timer /\ timer' = FALSE
  /\ \/ ~Active /\ Begin(Timer) /\ UNCHANGED waiting
     \/ Active /\ waiting' = Append(waiting, Timer)
        /\ UNCHANGED <<pending, todo, driver, kept>>
  /\ UNCHANGED <<life, opened, log, dirty, capped, woken, flush, disk, base, ragged>>

\* f begins or continues to wait for the drain of another caller.
Await(f) ==
  /\ Active /\ waiting' = Append(waiting, f) /\ flush' = [flush EXCEPT ![f] = "called"]
  /\ UNCHANGED <<pending, todo, driver, kept>>

\* The loop of flush() by f: it ends when nothing is queued, also while a drain runs that
\* another caller began.
Bug_LoopOnce(f) ==
  \/ /\ (pending = NoEvents \/ flush[f] = "called") /\ flush' = [flush EXCEPT ![f] = "done"]
     /\ UNCHANGED <<pending, todo, driver, waiting, kept>>
  \/ /\ pending # NoEvents /\ ~Active /\ flush[f] # "called"
     /\ Begin(f) /\ flush' = [flush EXCEPT ![f] = "called"] /\ UNCHANGED waiting
Loop(f) ==
  \/ /\ pending = NoEvents /\ flush' = [flush EXCEPT ![f] = "done"]
     /\ UNCHANGED <<pending, todo, driver, waiting, kept>>
  \/ /\ pending # NoEvents /\ ~Active /\ Begin(f) /\ flush' = [flush EXCEPT ![f] = "called"]
     /\ UNCHANGED waiting
  \/ pending # NoEvents /\ Await(f)

\* flush() is called.
CallFlush(f) ==
  /\ flush[f] # "called" /\ timer' = FALSE
  /\ \/ ~Active /\ Loop(f)
     \/ Await(f)
  /\ UNCHANGED <<life, opened, log, dirty, capped, woken, disk, base, ragged>>

\* Whoever is first of those woken goes on: a flush with its loop, the drain of a timer with
\* what was queued meanwhile, if nobody has taken it.
GoesOn ==
  /\ woken # <<>> /\ woken' = Tail(woken)
  /\ \/ Head(woken) \in Flushers /\ Loop(Head(woken))
     \/ /\ Head(woken) = Timer
        /\ IF pending # NoEvents /\ ~Active THEN Begin(Timer)
           ELSE UNCHANGED <<pending, todo, driver, kept>>
        /\ UNCHANGED <<waiting, flush>>
  /\ UNCHANGED <<life, opened, log, dirty, capped, timer, disk, base, ragged>>

\* The lines of s when evs are written: behind a newline if the last append failed, else
\* right behind what is there, which joins the first of them to a line without a newline.
Landed(s, evs) ==
  IF cut[s] /\ s \notin dirty
    THEN Front(file[s]) \o <<Torn>> \o Tail(evs)
    ELSE file[s] \o evs

\* The file of s after a write of evs that ended too soon: nothing, the newline in front,
\* some lines, the last of them without its newline or only a fragment of it.
CutShort(s, evs) ==
  {[lines |-> file[s], cut |-> cut[s]]}
  \cup (IF s \in dirty /\ evs # <<>> THEN {[lines |-> file[s], cut |-> FALSE]} ELSE {})
  \cup UNION {{[lines |-> Landed(s, SubSeq(evs, 1, k)), cut |-> FALSE],
               [lines |-> Landed(s, SubSeq(evs, 1, k)), cut |-> TRUE],
               [lines |-> Landed(s, Append(SubSeq(evs, 1, k - 1), Torn)), cut |-> TRUE]}
              : k \in 1 .. Len(evs)}

\* One session of the batch is written, or no longer written because its file is full.
WriteLines(s) ==
  /\ Task /\ todo[s] # <<>> /\ todo' = [todo EXCEPT ![s] = <<>>]
  /\ \/ /\ s \notin capped /\ dirty' = dirty \ {s}
        /\ file' = [file EXCEPT ![s] = Landed(s, todo[s])]
        /\ cut' = [cut EXCEPT ![s] = FALSE]
        /\ UNCHANGED capped
     \/ /\ capped' = capped \cup {s} /\ UNCHANGED <<dirty, file, cut>>
  /\ UNCHANGED <<life, opened, log, pending, timer, driver, waiting, woken, flush, fails, history>>

\* The active drain ends; its driver goes on first, then those who waited.
Bug_WakeOne(first) ==
  driver' = Nobody /\ waiting' = <<>> /\ woken' = first \o SubSeq(waiting, 1, Min({1, Len(waiting)}))
Wake(first) == driver' = Nobody /\ waiting' = <<>> /\ woken' = first \o waiting

DrainEnds ==
  /\ Task /\ Active /\ todo = NoEvents
  /\ Wake(IF driver \in Flushers THEN <<driver>> ELSE <<>>)
  /\ UNCHANGED <<life, opened, log, pending, todo, dirty, capped, timer, flush, disk, history>>

\* What is queued for s after a drain failed: what the batch has left, then what came since.
Bug_PutBehind(s) == pending[s] \o todo[s]
PutBack(s) == todo[s] \o pending[s]

\* A write fails.  A flush that drove the drain rejects; those who waited for it try again.
DrainFails(s, left) ==
  /\ Task /\ Active /\ fails < MaxFails /\ fails' = fails + 1
  /\ \/ todo[s] # <<>> /\ s \notin capped /\ left \in CutShort(s, todo[s])
        /\ dirty' = dirty \cup {s}
        /\ file' = [file EXCEPT ![s] = left.lines] /\ cut' = [cut EXCEPT ![s] = left.cut]
     \/ UNCHANGED <<dirty, file, cut>>    \* no directory, or no text of the batch
  /\ pending' = [x \in Sessions |-> PutBack(x)] /\ todo' = NoEvents
  /\ Wake(<<>>)
  /\ flush' = IF driver \in Flushers THEN [flush EXCEPT ![driver] = "failed"] ELSE flush
  /\ kept' = TRUE
  /\ UNCHANGED <<life, opened, log, capped, timer, base, ragged>>

\* The process dies, perhaps inside the write for s; the next one starts.
Dies(s, left) ==
  /\ Task /\ life < MaxLives /\ life' = life + 1
  /\ \/ s \notin capped /\ left \in CutShort(s, todo[s])
        /\ file' = [file EXCEPT ![s] = left.lines] /\ cut' = [cut EXCEPT ![s] = left.cut]
     \/ UNCHANGED <<file, cut>>
  /\ opened' = {} /\ log' = NoEvents
  /\ pending' = NoEvents /\ todo' = NoEvents /\ dirty' = {} /\ capped' = {} /\ timer' = FALSE
  /\ driver' = Nobody /\ waiting' = <<>> /\ woken' = <<>>
  /\ flush' = [f \in Flushers |-> "idle"]
  /\ base' = [x \in Sessions |-> 0] /\ ragged' = {} /\ kept' = FALSE
  /\ UNCHANGED fails

-----------------------------------------------------------------------------
Seeds == {<<>>} \cup UNION {Prefixes(log[s]) : s \in opened}

Next ==
  \/ \E s \in Sessions : AppendEvent(s) \/ Resume(s) \/ WriteLines(s)
  \/ \E s \in Sessions, seed \in Seeds : Create(s, seed) \/ Fork(s, seed)
  \/ \E f \in Flushers : CallFlush(f)
  \/ TimerFires \/ GoesOn \/ DrainEnds
  \/ \E s \in Sessions : \E left \in CutShort(s, todo[s]) : DrainFails(s, left) \/ Dies(s, left)

Spec == Init /\ [][Next]_vars

\* Promises run, timers fire, and a write ends one way or the other.
FairSpec ==
  /\ Spec
  /\ WF_vars(GoesOn) /\ WF_vars(TimerFires) /\ WF_vars(DrainEnds)
  /\ \A s \in Sessions : WF_vars(WriteLines(s))

-----------------------------------------------------------------------------
(* Properties *)

TypeOK ==
  /\ life \in 1 .. MaxLives /\ opened \subseteq Sessions
  /\ log \in Logs /\ pending \in Logs /\ todo \in Logs
  /\ dirty \subseteq Sessions /\ capped \subseteq Sessions /\ ragged \subseteq Sessions
  /\ timer \in BOOLEAN /\ kept \in BOOLEAN
  /\ driver \in Drains \cup {Nobody}
  /\ waiting \in Seq(Drains) /\ woken \in Seq(Drains)
  /\ flush \in [Flushers -> {"idle", "called", "done", "failed"}]
  /\ file \in [Sessions -> Seq(Event \cup {Torn})] /\ cut \in [Sessions -> BOOLEAN]
  /\ fails \in 0 .. MaxFails /\ base \in [Sessions -> Nat]

\* What a load returns is the beginning of the log of the session, whatever was torn, joined
\* or written twice, and whichever process wrote it (session-persistence.ts:149).
LoadIsPrefix ==
  \A s \in opened : IsPrefix(Load(file[s]), log[s])

\* At every moment what a load returns and what still waits to be written make up the whole
\* log, if what the session began with is in its file, the file has room, and the session was
\* not resumed behind a line without an end.
NothingLost ==
  \A s \in opened \ (capped \cup ragged) : base[s] <= Len(Load(file[s])) =>
    LET left == todo[s] \o pending[s] IN
    /\ left = SubSeq(log[s], Len(log[s]) - Len(left) + 1, Len(log[s]))
    /\ Len(Load(file[s])) + Len(left) >= Len(log[s])

\* Queued events have a drain to come, unless the last one failed and nothing was queued
\* since: the next event or flush tries again (session-persistence.ts:117).
NothingStranded ==
  pending # NoEvents => timer \/ Active \/ woken # <<>> \/ kept

\* When a flush returns, every event queued so far is in the file of its session
\* (session-persistence.ts:123), unless it returns while a drain is running.
FlushIsBarrier ==
  [][\A f \in Flushers, s \in opened \ (capped \cup ragged) :
       flush[f] # "done" /\ flush'[f] = "done" /\ ~Active' =>
         \A i \in base[s] + 1 .. Len(log[s]) :
           \E n \in 1 .. Len(file[s]) : file[s][n] = log[s][i]]_vars

\* A flush that is called returns or rejects, also on a full disk.
FlushEnds == \A f \in Flushers : flush[f] = "called" ~> flush[f] # "called"
=============================================================================
