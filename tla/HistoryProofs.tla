--------------------------- MODULE HistoryProofs ---------------------------
(***************************************************************************)
(* Proofs about what is kept of a conversation, for every number of        *)
(* sessions, tabs and callers, and all bounds.                             *)
(*                                                                         *)
(* EventLog: that what is queued has somebody to write it, and what load() *)
(* makes of the files.  load() is recursive over the lines of a file; what *)
(* the proofs need of it is what it makes of one line more (LoadAppend),   *)
(* and from that, of a piece of a log written behind the lines of a file,  *)
(* with any of its lines torn (LandingIs).                                 *)
(*                                                                         *)
(* ChatCache: that a load restores the newest history that was cached or   *)
(* confirmed, and that each save is built on it (from HistoryInv on).      *)
(***************************************************************************)
EXTENDS EventLog, ChatCache, WellFoundedInduction, TLAPS

QueueTypes ==
  /\ driver \in Drains \cup {Nobody}
  /\ waiting \in Seq(Drains)
  /\ woken \in Seq(Drains)

\* While a drain runs, queued events have a timer, somebody who waits for its end, or a flush
\* that drives it and looks again.
DueBehind ==
  Active /\ pending # NoEvents => timer \/ waiting # <<>> \/ driver \in Flushers

\* While none runs, they have a timer or somebody who goes on, or the last drain failed.
DueNow ==
  ~Active /\ pending # NoEvents => timer \/ woken # <<>> \/ kept

Due == QueueTypes /\ DueBehind /\ DueNow

-----------------------------------------------------------------------------
\* A drain that begins takes all that is queued.
LEMMA BeginTakesAll ==
  ASSUME Due, NEW d \in Drains, Begin(d), waiting' = waiting, woken' \in Seq(Drains)
  PROVE  Due'
BY DEF Due, QueueTypes, DueBehind, DueNow, Begin, Active

\* Whoever waits for a drain takes care of what is queued meanwhile.
LEMMA AwaitIsDue ==
  ASSUME Due, NEW d \in Drains, Active, waiting' = Append(waiting, d),
         woken' \in Seq(Drains), UNCHANGED <<pending, driver>>
  PROVE  Due'
<1>1. waiting' \in Seq(Drains) /\ waiting' # <<>>
  BY DEF Due, QueueTypes
<1>2. QED
  BY <1>1 DEF Due, QueueTypes, DueBehind, DueNow, Active

\* A step that leaves the queues alone, or sets the timer, keeps what is due.
LEMMA QuietStep ==
  ASSUME Due, UNCHANGED <<driver, waiting, woken>>,
         \/ timer' = TRUE
         \/ UNCHANGED <<pending, timer, kept>>
  PROVE  Due'
BY DEF Due, QueueTypes, DueBehind, DueNow, Active

\* A flush that loops: nothing is queued, or it drains, or it waits.
LEMMA LoopIsDue ==
  ASSUME Due, NEW f \in Flushers, Loop(f), woken' \in Seq(Drains)
  PROVE  Due'
<1>1. CASE pending = NoEvents /\ UNCHANGED <<pending, driver, waiting>>
  BY <1>1 DEF Due, QueueTypes, DueBehind, DueNow, Active
<1>2. CASE Begin(f) /\ UNCHANGED waiting
  BY <1>2, BeginTakesAll DEF Drains
<1>3. CASE Await(f)
  BY <1>3, AwaitIsDue DEF Await, Drains
<1>4. QED
  BY <1>1, <1>2, <1>3 DEF Loop

LEMMA InitDue == Init => Due
BY DEF Init, Due, QueueTypes, DueBehind, DueNow, Active, NoEvents

-----------------------------------------------------------------------------
LEMMA TimerKeepsDue ==
  ASSUME Due, TimerFires
  PROVE  Due'
<1>1. woken' \in Seq(Drains) /\ Timer \in Drains
  BY DEF TimerFires, Due, QueueTypes, Drains
<1>2. CASE Begin(Timer) /\ UNCHANGED waiting
  BY <1>1, <1>2, BeginTakesAll
<1>3. CASE Active /\ waiting' = Append(waiting, Timer) /\ UNCHANGED <<pending, todo, driver, kept>>
  BY <1>1, <1>3, AwaitIsDue
<1>4. QED
  BY <1>2, <1>3 DEF TimerFires

LEMMA FlushKeepsDue ==
  ASSUME Due, NEW f \in Flushers, CallFlush(f)
  PROVE  Due'
<1>1. woken' \in Seq(Drains) /\ f \in Drains
  BY DEF CallFlush, Due, QueueTypes, Drains
<1>2. CASE Loop(f)
  BY <1>1, <1>2, LoopIsDue
<1>3. CASE Await(f)
  BY <1>1, <1>3, AwaitIsDue DEF Await
<1>4. QED
  BY <1>2, <1>3 DEF CallFlush

\* A timer's drain that finds nothing to do while none runs has nothing queued; while one
\* runs, what is queued has somebody else.
LEMMA GoesOnKeepsDue ==
  ASSUME Due, GoesOn
  PROVE  Due'
<1>1. woken' \in Seq(Drains)
  BY DEF GoesOn, Due, QueueTypes
<1>2. CASE Head(woken) \in Flushers /\ Loop(Head(woken))
  BY <1>1, <1>2, LoopIsDue
<1>3. CASE Begin(Timer) /\ UNCHANGED waiting
  BY <1>1, <1>3, BeginTakesAll DEF Drains
<1>4. CASE /\ ~(pending # NoEvents /\ ~Active)
           /\ UNCHANGED <<pending, todo, driver, kept, waiting, timer>>
  BY <1>1, <1>4 DEF Due, QueueTypes, DueBehind, DueNow, Active
<1>5. QED
  BY <1>2, <1>3, <1>4 DEF GoesOn

\* The end of a drain wakes all who waited for it, and the flush that drove it.
LEMMA EndKeepsDue ==
  ASSUME Due, DrainEnds
  PROVE  Due'
<1> DEFINE first == IF driver \in Flushers THEN <<driver>> ELSE <<>>
<1>1. /\ first \in Seq(Drains)
      /\ driver \in Flushers => first # <<>>
  <2>1. CASE driver \in Flushers
    <3>1. first = <<driver>> /\ driver \in Drains
      BY <2>1 DEF Drains
    <3>2. QED
      BY <3>1
  <2>2. CASE driver \notin Flushers
    BY <2>2
  <2>3. QED
    BY <2>1, <2>2
<1>2. /\ driver' = Nobody /\ waiting' = <<>> /\ woken' = first \o waiting
      /\ UNCHANGED <<pending, timer>> /\ Active
  BY DEF DrainEnds, Wake
<1> HIDE DEF first
<1>3. /\ woken' \in Seq(Drains)
      /\ driver \in Flushers \/ waiting # <<>> => woken' # <<>>
  BY <1>1, <1>2 DEF Due, QueueTypes
<1>4. QED
  BY <1>2, <1>3 DEF Due, QueueTypes, DueBehind, DueNow, Active

LEMMA FailKeepsDue ==
  ASSUME Due, NEW s, NEW left, DrainFails(s, left)
  PROVE  Due'
<1>1. driver' = Nobody /\ waiting' = <<>> /\ woken' = <<>> \o waiting /\ kept' = TRUE
  BY DEF DrainFails, Wake
<1>2. woken' \in Seq(Drains)
  BY <1>1 DEF Due, QueueTypes
<1>3. QED
  BY <1>1, <1>2 DEF Due, QueueTypes, DueBehind, DueNow, Active

LEMMA DeathKeepsDue ==
  ASSUME Due, NEW s, NEW left, Dies(s, left)
  PROVE  Due'
BY DEF Dies, Due, QueueTypes, DueBehind, DueNow, Active

LEMMA StepKeepsDue ==
  ASSUME Due, [Next]_vars
  PROVE  Due'
<1>1. ASSUME NEW s \in Sessions, AppendEvent(s) PROVE Due'
  BY <1>1, QuietStep DEF AppendEvent, Enqueue
<1>2. ASSUME NEW s \in Sessions, Resume(s) PROVE Due'
  BY <1>2, QuietStep DEF Resume, queues
<1>3. ASSUME NEW s \in Sessions, WriteLines(s) PROVE Due'
  BY <1>3, QuietStep DEF WriteLines, history
<1>4. ASSUME NEW s \in Sessions, NEW seed \in Seeds, Create(s, seed) PROVE Due'
  BY <1>4, QuietStep DEF Create, Enqueue, queues
<1>5. ASSUME NEW s \in Sessions, NEW seed \in Seeds, Fork(s, seed) PROVE Due'
  BY <1>5, QuietStep DEF Fork, queues
<1>6. ASSUME NEW f \in Flushers, CallFlush(f) PROVE Due'
  BY <1>6, FlushKeepsDue
<1>7. CASE TimerFires \/ GoesOn \/ DrainEnds
  BY <1>7, TimerKeepsDue, GoesOnKeepsDue, EndKeepsDue
<1>8. ASSUME NEW s \in Sessions, NEW left \in CutShort(s, todo[s]),
             DrainFails(s, left) \/ Dies(s, left)
      PROVE  Due'
  BY <1>8, FailKeepsDue, DeathKeepsDue
<1>9. CASE UNCHANGED vars
  BY <1>9, QuietStep DEF vars, queues, history
<1>10. QED
  BY <1>1, <1>2, <1>3, <1>4, <1>5, <1>6, <1>7, <1>8, <1>9 DEF Next

\* What is queued always has somebody to write it, as the comment on the timer's drain
\* (session-persistence.ts:196) demands: with any number of sessions, of callers of flush()
\* and of drains that wait for one another.
THEOREM NothingStrandedAlways == Spec => []NothingStranded
<1>1. Due => NothingStranded
  BY DEF Due, DueBehind, DueNow, NothingStranded
<1>2. QED
  BY <1>1, InitDue, StepKeepsDue, PTL DEF Spec

-----------------------------------------------------------------------------
(* Where the events of a session are: in its file, in the batch of the     *)
(* running drain, in the queue.                                            *)

Line == Event \cup {Torn}

\* How many events of s wait to be written, and how many came before them.
Left(s) == Len(todo[s]) + Len(pending[s])
Gone(s) == Len(log[s]) - Left(s)

\* The events of a log count up from 0.
Numbered(s) == \A i \in 1 .. Len(log[s]) : log[s][i].seq = i - 1

\* The batch and the queue are the end of the log, in its order, behind the base.
QueuedOK(s) ==
  /\ base[s] <= Gone(s)
  /\ \A j \in 1 .. Len(todo[s]) : todo[s][j] = log[s][Gone(s) + j]
  /\ \A j \in 1 .. Len(pending[s]) : pending[s][j] = log[s][Gone(s) + Len(todo[s]) + j]

UnopenedOK(s) ==
  s \notin opened => log[s] = <<>> /\ base[s] = 0 /\ s \notin capped /\ s \notin ragged

\* Only a write this process knows to have failed, or one of a process before, leaves a line
\* without an end.
CutOK(s) ==
  cut[s] =>
    /\ file[s] # <<>>
    /\ s \in opened => s \in ragged \/ s \in dirty

LoadOK(s) == s \in opened => IsPrefix(Load(file[s]), log[s])

\* What load() returns reaches up to the batch if it reaches up to the base: a write of the batch
\* again leaves no gap.
Reached(s) ==
  s \in opened \ (capped \cup ragged) /\ base[s] <= Len(Load(file[s])) =>
    Gone(s) <= Len(Load(file[s]))

\* What left the queue for good is a line of the file.
Stored(s) ==
  s \in opened \ (capped \cup ragged) =>
    \A i \in base[s] + 1 .. Gone(s) : \E n \in 1 .. Len(file[s]) : file[s][n] = log[s][i]

SessionOK(s) ==
  Numbered(s) /\ QueuedOK(s) /\ UnopenedOK(s) /\ CutOK(s) /\ LoadOK(s) /\ Reached(s) /\ Stored(s)

IdleOK == ~Active => \A s \in Sessions : todo[s] = <<>>

IInv == TypeOK /\ IdleOK /\ \A s \in Sessions : SessionOK(s)

-----------------------------------------------------------------------------
(* load() *)

\* A set of numbers has a least one: the form in which these proofs use induction.
LEMMA LeastNat ==
  ASSUME NEW S, S \subseteq Nat, S # {}
  PROVE  \E n \in S : \A m \in S : n <= m
<1> DEFINE R == OpToRel(<, Nat)
<1>1. IsWellFoundedOn(R, Nat)
  BY NatLessThanWellFounded
<1>2. \A x, y \in Nat : x < y => <<x, y>> \in R
  BY DEF OpToRel
<1> HIDE DEF R
<1>3. PICK x \in S : \A y \in S : ~ (<<y, x>> \in R)
  BY <1>1, WFMin
<1>4. \A y \in S : ~ (y < x)
  BY <1>2, <1>3
<1> QED BY <1>4

\* What load() makes of one more line, and of the first m lines: the function Load recurs on.
Takes(before, line) ==
  IF line # Torn /\ line.seq = Len(before) THEN Append(before, line) ELSE before
Runs(lines, f, m) ==
  f = [n \in 0 .. m |-> IF n = 0 THEN <<>>
                        ELSE IF lines[n] # Torn /\ lines[n].seq = Len(f[n - 1])
                             THEN Append(f[n - 1], lines[n]) ELSE f[n - 1]]

LEMMA RunsIs ==
  ASSUME NEW lines, NEW f, NEW m \in Nat, Runs(lines, f, m)
  PROVE  f[0] = <<>> /\ \A n \in 1 .. m : f[n] = Takes(f[n - 1], lines[n])
<1>1. \A n \in 0 .. m : f[n] = IF n = 0 THEN <<>>
                               ELSE IF lines[n] # Torn /\ lines[n].seq = Len(f[n - 1])
                                    THEN Append(f[n - 1], lines[n]) ELSE f[n - 1]
  BY DEF Runs
<1>2. 0 \in 0 .. m /\ \A n \in 1 .. m : n \in 0 .. m /\ n # 0
  OBVIOUS
<1> QED BY <1>1, <1>2 DEF Takes

LEMMA RunsExists ==
  ASSUME NEW lines, NEW len \in Nat
  PROVE  \E f : Runs(lines, f, len)
<1> SUFFICES ASSUME ~ \E f : Runs(lines, f, len)
             PROVE  FALSE
  OBVIOUS
<1> DEFINE Bad == {m \in Nat : ~ \E f : Runs(lines, f, m)}
<1>1. Bad \subseteq Nat /\ Bad # {}
  <2>1. len \in Bad
    OBVIOUS
  <2> QED BY <2>1
<1>2. PICK m \in Bad : \A n \in Bad : m <= n
  <2> HIDE DEF Bad
  <2> QED BY <1>1, LeastNat
<1>3. m # 0
  <2>1. Runs(lines, [n \in 0 .. 0 |-> <<>>], 0)
    BY DEF Runs
  <2> QED BY <2>1, <1>2
<1>4. m - 1 \in Nat /\ m - 1 \notin Bad /\ m \in Nat
  BY <1>2, <1>3
<1>5. PICK f : Runs(lines, f, m - 1)
  BY <1>4
<1> DEFINE g == [n \in 0 .. m |-> IF n < m THEN f[n] ELSE Takes(f[n - 1], lines[n])]
           h == [n \in 0 .. m |-> IF n = 0 THEN <<>>
                        ELSE IF lines[n] # Torn /\ lines[n].seq = Len(g[n - 1])
                             THEN Append(g[n - 1], lines[n]) ELSE g[n - 1]]
<1>6. ASSUME NEW n \in 0 .. m PROVE h[n] = g[n]
  <2>1. CASE n = 0
    <3>1. n < m /\ 0 \in 0 .. m
      BY <2>1, <1>3, <1>4
    <3> QED BY <2>1, <3>1, <1>4, <1>5, RunsIs
  <2>2. CASE n # 0
    <3>1. n - 1 \in 0 .. m /\ n - 1 < m /\ g[n - 1] = f[n - 1]
      BY <2>2, <1>4
    <3>2. h[n] = Takes(f[n - 1], lines[n])
      BY <2>2, <3>1 DEF Takes
    <3>3. CASE n = m
      BY <3>2, <3>3
    <3>4. CASE n # m
      <4>1. n \in 1 .. m - 1 /\ n < m
        BY <2>2, <3>4, <1>4
      <4>2. g[n] = f[n]
        BY <4>1
      <4>3. f[n] = Takes(f[n - 1], lines[n])
        BY <4>1, <1>4, <1>5, RunsIs
      <4> QED BY <3>2, <4>2, <4>3
    <3> QED BY <3>3, <3>4
  <2> QED BY <2>1, <2>2
<1>7. h = g
  BY <1>6
<1>8. Runs(lines, g, m)
  BY <1>7 DEF Runs
<1> QED BY <1>2, <1>8

\* Two files that agree on their first lines are read alike up to there.
LEMMA RunsAgree ==
  ASSUME NEW l, NEW k, NEW f, NEW g, NEW m \in Nat, NEW n \in Nat, m <= n,
         Runs(l, f, m), Runs(k, g, n), \A i \in 1 .. m : l[i] = k[i]
  PROVE  f[m] = g[m]
<1> DEFINE Bad == {i \in 0 .. m : f[i] # g[i]}
<1> SUFFICES ASSUME f[m] # g[m] PROVE FALSE
  OBVIOUS
<1>1. Bad \subseteq Nat /\ Bad # {}
  <2>1. m \in Bad
    OBVIOUS
  <2> QED BY <2>1
<1>2. PICK i \in Bad : \A j \in Bad : i <= j
  <2> HIDE DEF Bad
  <2> QED BY <1>1, LeastNat
<1>3. i \in 0 .. m /\ f[i] # g[i]
  BY <1>2
<1>4. f[0] = g[0]
  BY RunsIs
<1>5. i \in 1 .. m /\ i \in 1 .. n /\ i - 1 \in 0 .. m
  BY <1>3, <1>4
<1>6. f[i - 1] = g[i - 1]
  BY <1>2, <1>5
<1>7. f[i] = Takes(f[i - 1], l[i]) /\ g[i] = Takes(g[i - 1], k[i])
  BY <1>5, RunsIs
<1> QED BY <1>3, <1>5, <1>6, <1>7

LEMMA LoadIs ==
  ASSUME NEW lines, Len(lines) \in Nat
  PROVE  \E f : Runs(lines, f, Len(lines)) /\ Load(lines) = f[Len(lines)]
<1> DEFINE f == CHOOSE f : Runs(lines, f, Len(lines))
<1>1. Runs(lines, f, Len(lines))
  BY RunsExists
<1>2. Load(lines) = f[Len(lines)]
  BY DEF Load, Runs
<1> QED BY <1>1, <1>2

LEMMA LoadEmpty == Load(<<>>) = <<>>
<1>1. PICK f : Runs(<<>>, f, 0) /\ Load(<<>>) = f[0]
  BY LoadIs
<1> QED BY <1>1, RunsIs

LEMMA LoadAppend ==
  ASSUME NEW S, NEW lines \in Seq(S), NEW line \in S
  PROVE  Load(Append(lines, line)) = Takes(Load(lines), line)
<1> DEFINE more == Append(lines, line)
<1>1. /\ more \in Seq(S) /\ Len(lines) \in Nat /\ Len(more) = Len(lines) + 1
      /\ more[Len(more)] = line /\ \A i \in 1 .. Len(lines) : lines[i] = more[i]
  OBVIOUS
<1> HIDE DEF more
<1>2. PICK f : Runs(lines, f, Len(lines)) /\ Load(lines) = f[Len(lines)]
  BY <1>1, LoadIs
<1>3. PICK g : Runs(more, g, Len(more)) /\ Load(more) = g[Len(more)]
  BY <1>1, LoadIs
<1>4. f[Len(lines)] = g[Len(lines)]
  <2>1. PICK m \in Nat : m = Len(lines)
    BY <1>1
  <2>2. PICK n \in Nat : n = Len(more)
    BY <1>1
  <2>3. m <= n
    BY <1>1, <2>1, <2>2
  <2>4. Runs(lines, f, m)
    BY <1>2, <2>1
  <2>5. Runs(more, g, n)
    BY <1>3, <2>2
  <2>6. \A i \in 1 .. m : lines[i] = more[i]
    BY <1>1, <2>1
  <2>7. f[m] = g[m]
    BY <2>3, <2>4, <2>5, <2>6, RunsAgree
  <2> QED BY <2>1, <2>7
<1>5. g[Len(more)] = Takes(g[Len(more) - 1], more[Len(more)])
  BY <1>1, <1>3, RunsIs
<1>6. Load(more) = Takes(Load(lines), line)
  BY <1>1, <1>2, <1>3, <1>4, <1>5
<1> QED BY <1>6 DEF more

\* What load() returns is made of events, numbered from 0.
LEMMA LoadType ==
  ASSUME NEW lines \in Seq(Line)
  PROVE  Load(lines) \in Seq(Event) /\ \A i \in 1 .. Len(Load(lines)) : Load(lines)[i].seq = i - 1
<1> DEFINE Good(e) == e \in Seq(Event) /\ \A i \in 1 .. Len(e) : e[i].seq = i - 1
<1>1. PICK f : Runs(lines, f, Len(lines)) /\ Load(lines) = f[Len(lines)]
  BY LoadIs
<1>2. Good(<<>>)
  OBVIOUS
<1>3. ASSUME NEW e, Good(e), NEW line \in Line PROVE Good(Takes(e, line))
  <2>1. CASE line # Torn /\ line.seq = Len(e)
    <3>1. line \in Event /\ Takes(e, line) = Append(e, line)
      BY <2>1 DEF Line, Takes
    <3> QED BY <3>1, <2>1, <1>3
  <2>2. CASE ~(line # Torn /\ line.seq = Len(e))
    BY <2>2, <1>3 DEF Takes
  <2> QED BY <2>1, <2>2
<1> HIDE DEF Good
<1> DEFINE Bad == {n \in 0 .. Len(lines) : ~Good(f[n])}
<1>4. Bad = {}
  <2> SUFFICES ASSUME Bad # {} PROVE FALSE
    OBVIOUS
  <2>1. Bad \subseteq Nat
    OBVIOUS
  <2>2. PICK n \in Bad : \A m \in Bad : n <= m
    <3> HIDE DEF Bad
    <3> QED BY <2>1, LeastNat
  <2>3. n # 0
    BY <1>1, <1>2, <2>2, RunsIs
  <2>4. n \in 1 .. Len(lines) /\ n - 1 \in 0 .. Len(lines) /\ lines[n] \in Line
    BY <2>2, <2>3
  <2>5. Good(f[n - 1])
    BY <2>2, <2>4
  <2>6. f[n] = Takes(f[n - 1], lines[n])
    BY <2>4, <1>1, RunsIs
  <2> QED BY <2>2, <2>4, <2>5, <2>6, <1>3
<1>5. Good(Load(lines))
  <2>1. Len(lines) \in 0 .. Len(lines)
    OBVIOUS
  <2> QED BY <2>1, <1>1, <1>4
<1> QED BY <1>5 DEF Good

\* lg begins with e.
Begins(e, lg) == Len(e) <= Len(lg) /\ \A i \in 1 .. Len(e) : e[i] = lg[i]

LEMMA PrefixIs ==
  ASSUME NEW e \in Seq(Event), NEW lg \in Seq(Event)
  PROVE  IsPrefix(e, lg) <=> Begins(e, lg)
<1>1. ASSUME Len(e) <= Len(lg)
      PROVE  SubSeq(e, 1, Len(e)) = SubSeq(lg, 1, Len(e)) <=> \A i \in 1 .. Len(e) : e[i] = lg[i]
  <2>1. /\ SubSeq(e, 1, Len(e)) \in Seq(Event) /\ Len(SubSeq(e, 1, Len(e))) = Len(e)
        /\ \A i \in 1 .. Len(e) : SubSeq(e, 1, Len(e))[i] = e[i]
    OBVIOUS
  <2>2. /\ SubSeq(lg, 1, Len(e)) \in Seq(Event) /\ Len(SubSeq(lg, 1, Len(e))) = Len(e)
        /\ \A i \in 1 .. Len(e) : SubSeq(lg, 1, Len(e))[i] = lg[i]
    BY <1>1
  <2> QED BY <2>1, <2>2
<1> QED BY <1>1 DEF IsPrefix, Begins

\* A line of lg, or a torn one, read behind the beginning of lg.
LEMMA TakesIs ==
  ASSUME NEW lg \in Seq(Event), \A i \in 1 .. Len(lg) : lg[i].seq = i - 1,
         NEW e \in Seq(Event), Begins(e, lg),
         NEW line \in Line, NEW n \in 1 .. Len(lg), line = Torn \/ line = lg[n]
  PROVE  /\ Takes(e, line) \in Seq(Event) /\ Begins(Takes(e, line), lg)
         /\ Len(e) <= Len(Takes(e, line))
         /\ line = lg[n] /\ n - 1 <= Len(e) => n <= Len(Takes(e, line))
         /\ Len(e) < n - 1 => Takes(e, line) = e
         /\ line = Torn => Takes(e, line) = e
<1>1. CASE line # Torn /\ line.seq = Len(e)
  <2>1. line \in Event /\ Takes(e, line) = Append(e, line) /\ n - 1 = Len(e) /\ line = lg[n]
    BY <1>1 DEF Line, Takes
  <2>2. Append(e, line) \in Seq(Event) /\ Len(Append(e, line)) = Len(e) + 1
    BY <2>1
  <2>3. \A i \in 1 .. Len(e) + 1 : Append(e, line)[i] = IF i = Len(e) + 1 THEN line ELSE e[i]
    BY <2>1
  <2>4. \A i \in 1 .. Len(e) + 1 : Append(e, line)[i] = lg[i]
    BY <2>1, <2>3 DEF Begins
  <2>5. Begins(Append(e, line), lg)
    BY <2>1, <2>2, <2>4 DEF Begins
  <2> QED BY <2>1, <2>2, <2>5, <1>1
<1>2. CASE ~(line # Torn /\ line.seq = Len(e))
  <2>1. Takes(e, line) = e
    BY <1>2 DEF Takes
  <2>2. lg[n] \in Event /\ lg[n] # Torn /\ lg[n].seq = n - 1 /\ n - 1 \in Nat
    BY LineAssumption
  <2>3. line = lg[n] => Len(e) # n - 1
    BY <1>2, <2>2
  <2> QED BY <2>1, <2>3
<1> QED BY <1>1, <1>2

LEMMA OneMore ==
  ASSUME NEW S, NEW q \in Seq(S), NEW k \in 1 .. Len(q)
  PROVE  /\ SubSeq(q, 1, k) = Append(SubSeq(q, 1, k - 1), q[k])
         /\ SubSeq(q, 1, k - 1) \in Seq(S)
  OBVIOUS

LEMMA OneBehind ==
  ASSUME NEW S, NEW x \in Seq(S), NEW y \in Seq(S), NEW e \in S
  PROVE  x \o Append(y, e) = Append(x \o y, e)
  OBVIOUS

\* A piece of lg, behind its first a events, is written behind the lines of a file that load()
\* reads as a beginning of lg; any line of it may be torn.
LEMMA LandingIs ==
  ASSUME NEW lg \in Seq(Event), \A i \in 1 .. Len(lg) : lg[i].seq = i - 1,
         NEW lines \in Seq(Line), Begins(Load(lines), lg),
         NEW evs \in Seq(Line), NEW a \in Nat, a + Len(evs) <= Len(lg),
         \A j \in 1 .. Len(evs) : evs[j] = Torn \/ evs[j] = lg[a + j]
  PROVE  /\ lines \o evs \in Seq(Line)
         /\ Begins(Load(lines \o evs), lg)
         /\ Len(Load(lines)) <= Len(Load(lines \o evs))
         /\ Len(Load(lines)) < a => Load(lines \o evs) = Load(lines)
         /\ a <= Len(Load(lines)) /\ (\A j \in 1 .. Len(evs) : evs[j] = lg[a + j])
              => a + Len(evs) <= Len(Load(lines \o evs))
<1> DEFINE cat(k) == lines \o SubSeq(evs, 1, k)
           Good(k) == /\ Begins(Load(cat(k)), lg)
                      /\ Len(Load(lines)) <= Len(Load(cat(k)))
                      /\ Len(Load(lines)) < a => Load(cat(k)) = Load(lines)
                      /\ a <= Len(Load(lines)) /\ (\A j \in 1 .. Len(evs) : evs[j] = lg[a + j])
                           => a + k <= Len(Load(cat(k)))
           Bad == {k \in 0 .. Len(evs) : ~Good(k)}
<1>1. \A k \in 0 .. Len(evs) : cat(k) \in Seq(Line)
  OBVIOUS
<1>2. \A k \in 0 .. Len(evs) : Load(cat(k)) \in Seq(Event)
  BY <1>1, LoadType
<1>3. cat(0) = lines
  OBVIOUS
<1>4. Load(lines) \in Seq(Event)
  BY LoadType
<1>5. Good(0)
  <2> HIDE DEF cat
  <2>1. PICK e \in Seq(Event) : e = Load(lines)
    BY <1>4
  <2>2. Load(cat(0)) = e
    BY <1>3, <2>1
  <2>3. Len(e) \in Nat
    OBVIOUS
  <2> QED BY <2>1, <2>2, <2>3
<1>6. ASSUME NEW k \in 1 .. Len(evs) PROVE cat(k) = Append(cat(k - 1), evs[k])
  <2>1. SubSeq(evs, 1, k) = Append(SubSeq(evs, 1, k - 1), evs[k]) /\ SubSeq(evs, 1, k - 1) \in Seq(Line)
    BY OneMore
  <2>2. PICK y \in Seq(Line) : y = SubSeq(evs, 1, k - 1)
    BY <2>1
  <2>3. evs[k] \in Line
    OBVIOUS
  <2>4. lines \o Append(y, evs[k]) = Append(lines \o y, evs[k])
    BY <2>3, OneBehind
  <2> QED BY <2>1, <2>2, <2>4
<1>7. ASSUME NEW k \in 1 .. Len(evs), Good(k - 1) PROVE Good(k)
  <2>1. k - 1 \in 0 .. Len(evs) /\ evs[k] \in Line /\ a + k \in 1 .. Len(lg) /\ k \in Nat
    OBVIOUS
  <2>2. Load(cat(k)) = Takes(Load(cat(k - 1)), evs[k])
    <3> HIDE DEF cat
    <3> QED BY <2>1, <1>1, <1>6, LoadAppend
  <2>3. PICK e \in Seq(Event) : e = Load(cat(k - 1))
    BY <2>1, <1>2
  <2>4. PICK n \in 1 .. Len(lg) : n = a + k
    BY <2>1
  <2>5. PICK line \in Line : line = evs[k]
    BY <2>1
  <2>6. line = Torn \/ line = lg[n]
    BY <2>4, <2>5
  <2>7. Begins(e, lg)
    BY <2>3, <1>7
  <2>8. /\ Takes(e, line) \in Seq(Event) /\ Begins(Takes(e, line), lg)
        /\ Len(e) <= Len(Takes(e, line))
        /\ line = lg[n] /\ n - 1 <= Len(e) => n <= Len(Takes(e, line))
        /\ Len(e) < n - 1 => Takes(e, line) = e
    BY <2>6, <2>7, TakesIs
  <2>9. Load(cat(k)) = Takes(e, line)
    BY <2>2, <2>3, <2>5
  <2> HIDE DEF cat
  <2>10. PICK t \in Seq(Event) : t = Takes(e, line)
    BY <2>8
  <2>11. Len(t) \in Nat /\ Len(e) \in Nat /\ Len(Load(lines)) \in Nat
    BY <1>4
  <2>12. Len(Load(lines)) <= Len(t)
    BY <2>3, <2>8, <2>10, <2>11, <1>7
  <2>13. Len(Load(lines)) < a => t = Load(lines)
    BY <2>1, <2>3, <2>4, <2>8, <2>10, <2>11, <1>7
  <2>14. a <= Len(Load(lines)) /\ (\A j \in 1 .. Len(evs) : evs[j] = lg[a + j]) => a + k <= Len(t)
    BY <2>1, <2>3, <2>4, <2>5, <2>8, <2>10, <2>11, <1>7
  <2> QED BY <2>8, <2>9, <2>10, <2>12, <2>13, <2>14
<1>8. Bad = {}
  <2> SUFFICES ASSUME Bad # {} PROVE FALSE
    OBVIOUS
  <2> HIDE DEF Good
  <2>1. Bad \subseteq Nat
    OBVIOUS
  <2>2. PICK n \in Bad : \A m \in Bad : n <= m
    <3> HIDE DEF Bad
    <3> QED BY <2>1, LeastNat
  <2>3. n \in 1 .. Len(evs) /\ n - 1 \in 0 .. Len(evs)
    BY <2>2, <1>5
  <2>4. Good(n - 1)
    BY <2>2, <2>3
  <2> QED BY <2>2, <2>3, <2>4, <1>7
<1>9. Good(Len(evs))
  <2> HIDE DEF Good
  <2> QED BY <1>8
<1>10. cat(Len(evs)) = lines \o evs /\ lines \o evs \in Seq(Line)
  OBVIOUS
<1> HIDE DEF cat
<1> QED BY <1>9, <1>10

-----------------------------------------------------------------------------
(* What is in the files. *)

\* Facts about sequences and numbers, which the steps below use with the values of one session.
LEMMA TailIs ==
  ASSUME NEW S, NEW q \in Seq(S), q # <<>>
  PROVE  /\ Tail(q) \in Seq(S) /\ Len(Tail(q)) = Len(q) - 1 /\ Len(q) \in Nat
         /\ \A j \in 1 .. Len(Tail(q)) : Tail(q)[j] = q[j + 1] /\ j + 1 \in 1 .. Len(q)
  OBVIOUS

LEMMA NotEmpty ==
  ASSUME NEW S, NEW q \in Seq(S)
  PROVE  q # <<>> <=> Len(q) > 0
  OBVIOUS

LEMMA Arithmetic ==
  ASSUME NEW all \in Nat, NEW t \in Nat, NEW p \in Nat, NEW b \in Nat, b <= all - (t + p)
  PROVE  /\ all - (t + p) \in Nat /\ all - (t + p) + t <= all
         /\ all = 0 => t = 0 /\ p = 0
  OBVIOUS

LEMMA Typed ==
  ASSUME IInv, NEW s \in Sessions
  PROVE  /\ log[s] \in Seq(Event) /\ Len(log[s]) \in Nat
         /\ todo[s] \in Seq(Event) /\ Len(todo[s]) \in Nat /\ todo[s] \in Seq(Line)
         /\ pending[s] \in Seq(Event) /\ Len(pending[s]) \in Nat
         /\ file[s] \in Seq(Line) /\ Len(file[s]) \in Nat
         /\ base[s] \in Nat /\ Gone(s) \in Nat /\ Gone(s) + Len(todo[s]) <= Len(log[s])
         /\ Left(s) = Len(todo[s]) + Len(pending[s]) /\ Gone(s) = Len(log[s]) - Left(s)
         /\ Load(file[s]) \in Seq(Event) /\ Len(Load(file[s])) \in Nat
<1>1. log[s] \in Seq(Event) /\ pending[s] \in Seq(Event) /\ file[s] \in Seq(Line) /\ base[s] \in Nat
  BY DEF IInv, TypeOK, Logs, Line
<1>2. todo[s] \in Seq(Event) /\ todo[s] \in Seq(Line)
  BY DEF IInv, TypeOK, Logs, Line
<1>3. base[s] <= Gone(s)
  BY DEF IInv, SessionOK, QueuedOK
<1>4. Load(file[s]) \in Seq(Event)
  BY <1>1, LoadType
<1>5. /\ Len(log[s]) \in Nat /\ Len(todo[s]) \in Nat /\ Len(pending[s]) \in Nat /\ Len(file[s]) \in Nat
      /\ Len(Load(file[s])) \in Nat
  BY <1>1, <1>2, <1>4
<1>6. Left(s) = Len(todo[s]) + Len(pending[s]) /\ Gone(s) = Len(log[s]) - Left(s)
  BY DEF Gone, Left
<1>7. Gone(s) \in Nat /\ Gone(s) + Len(todo[s]) <= Len(log[s])
  <2>1. base[s] \in Nat /\ base[s] <= Len(log[s]) - (Len(todo[s]) + Len(pending[s]))
    BY <1>1, <1>3, <1>6
  <2>2. /\ Len(log[s]) - (Len(todo[s]) + Len(pending[s])) \in Nat
        /\ Len(log[s]) - (Len(todo[s]) + Len(pending[s])) + Len(todo[s]) <= Len(log[s])
    BY <2>1, <1>5, Arithmetic
  <2> QED BY <2>2, <1>6
<1> QED BY <1>1, <1>2, <1>4, <1>5, <1>6, <1>7

\* Nothing is queued for a session this process does not have.
LEMMA Unopened ==
  ASSUME IInv, NEW s \in Sessions \ opened
  PROVE  todo[s] = <<>> /\ pending[s] = <<>> /\ log[s] = <<>>
<1>1. log[s] = <<>> /\ base[s] <= Gone(s) /\ base[s] = 0
  BY DEF IInv, SessionOK, UnopenedOK, QueuedOK
<1>2. /\ Len(todo[s]) \in Nat /\ Len(pending[s]) \in Nat /\ Gone(s) \in Nat
      /\ Gone(s) = Len(log[s]) - (Len(todo[s]) + Len(pending[s]))
      /\ todo[s] \in Seq(Event) /\ pending[s] \in Seq(Event)
  BY Typed
<1>3. Len(log[s]) = 0
  BY <1>1
<1>4. Len(todo[s]) = 0 /\ Len(pending[s]) = 0
  BY <1>1, <1>2, <1>3, Arithmetic
<1> QED BY <1>1, <1>2, <1>4

LEMMA LoadFront ==
  ASSUME NEW lines \in Seq(Line), lines # <<>>, NEW lg \in Seq(Event), Begins(Load(lines), lg)
  PROVE  Front(lines) \in Seq(Line) /\ Begins(Load(Front(lines)), lg)
<1> DEFINE front == Front(lines)
<1>1. front \in Seq(Line) /\ lines[Len(lines)] \in Line /\ lines = Append(front, lines[Len(lines)])
  BY DEF Front
<1> HIDE DEF front
<1>2. PICK line \in Line : line = lines[Len(lines)]
  BY <1>1
<1>3. Load(lines) = Takes(Load(front), line)
  BY <1>1, <1>2, LoadAppend
<1>4. PICK e \in Seq(Event) : e = Load(front)
  BY <1>1, LoadType
<1>5. Begins(e, lg)
  <2>1. CASE Takes(e, line) = e
    BY <2>1, <1>3, <1>4
  <2>2. CASE Takes(e, line) = Append(e, line) /\ line \in Event
    <3>1. Len(Append(e, line)) = Len(e) + 1 /\ Len(e) \in Nat /\ Len(lg) \in Nat
      BY <2>2
    <3>2. \A i \in 1 .. Len(e) : Append(e, line)[i] = e[i] /\ i \in 1 .. Len(e) + 1
      BY <2>2
    <3>3. Begins(Append(e, line), lg)
      BY <2>2, <1>3, <1>4
    <3> QED BY <3>1, <3>2, <3>3 DEF Begins
  <2> QED BY <2>1, <2>2 DEF Takes, Line
<1> QED BY <1>1, <1>4, <1>5 DEF front

\* The file is only replaced where the last line joins the first that is written; elsewhere it grows.
LEMMA LandedType ==
  ASSUME IInv, NEW s \in Sessions, NEW evs \in Seq(Line), evs # <<>>
  PROVE  /\ Landed(s, evs) \in Seq(Line) /\ Landed(s, evs) # <<>>
         /\ ~(cut[s] /\ s \notin dirty) =>
              /\ Landed(s, evs) = file[s] \o evs
              /\ Len(file[s] \o evs) = Len(file[s]) + Len(evs)
              /\ \A n \in 1 .. Len(file[s]) : Landed(s, evs)[n] = file[s][n]
              /\ \A n \in 1 .. Len(evs) : Landed(s, evs)[Len(file[s]) + n] = evs[n]
<1>1. file[s] \in Seq(Line)
  BY Typed
<1>2. CASE cut[s] /\ s \notin dirty
  <2>1. file[s] # <<>>
    BY <1>2 DEF IInv, SessionOK, CutOK
  <2>2. Front(file[s]) \in Seq(Line)
    BY <1>1, <2>1 DEF Front
  <2>3. Torn \in Line
    BY DEF Line
  <2>4. Landed(s, evs) = Front(file[s]) \o <<Torn>> \o Tail(evs)
    BY <1>2 DEF Landed
  <2>5. PICK x \in Seq(Line) : x = Front(file[s])
    BY <2>2
  <2>6. x \o <<Torn>> \in Seq(Line) /\ Len(x \o <<Torn>>) = Len(x) + 1 /\ Len(x) \in Nat
    BY <2>3
  <2>7. PICK y \in Seq(Line) : y = x \o <<Torn>>
    BY <2>6
  <2>8. PICK t \in Seq(Line) : t = Tail(evs)
    BY TailIs
  <2>9. Len(y) > 0
    BY <2>6, <2>7
  <2>10. y \o t \in Seq(Line) /\ Len(y \o t) = Len(y) + Len(t) /\ Len(t) \in Nat /\ Len(y) \in Nat
    OBVIOUS
  <2>11. y \o t # <<>>
    BY <2>9, <2>10
  <2> QED BY <1>2, <2>4, <2>5, <2>7, <2>8, <2>10, <2>11
<1>3. CASE ~(cut[s] /\ s \notin dirty)
  <2>1. Landed(s, evs) = file[s] \o evs
    BY <1>3 DEF Landed
  <2> QED BY <1>1, <2>1
<1> QED BY <1>2, <1>3

\* A write of the first events of the batch, some of them torn, leaves a file that load() reads as a
\* beginning of the log: the same as before, or up to the last of the events if it was read up to the
\* first of them.
LEMMA LandedIs ==
  ASSUME IInv, NEW s \in opened, NEW evs \in Seq(Line), evs # <<>>, Len(evs) <= Len(todo[s]),
         \A j \in 1 .. Len(evs) : evs[j] = Torn \/ evs[j] = todo[s][j]
  PROVE  /\ Begins(Load(Landed(s, evs)), log[s])
         /\ s \notin ragged =>
              /\ Len(Load(file[s])) <= Len(Load(Landed(s, evs)))
              /\ Len(Load(file[s])) < Gone(s) => Load(Landed(s, evs)) = Load(file[s])
              /\ Gone(s) <= Len(Load(file[s])) /\ (\A j \in 1 .. Len(evs) : evs[j] = todo[s][j])
                   => Gone(s) + Len(evs) <= Len(Load(Landed(s, evs)))
<1>1. s \in Sessions
  BY DEF IInv, TypeOK
<1>2. PICK lg \in Seq(Event) : lg = log[s]
  BY <1>1, Typed
<1>3. PICK lines \in Seq(Line) : lines = file[s]
  BY <1>1, Typed
<1>4. PICK a \in Nat : a = Gone(s)
  BY <1>1, Typed
<1>5. /\ \A i \in 1 .. Len(lg) : lg[i].seq = i - 1
      /\ \A j \in 1 .. Len(todo[s]) : todo[s][j] = lg[a + j]
  BY <1>1, <1>2, <1>4 DEF IInv, SessionOK, Numbered, QueuedOK
<1>6. a + Len(evs) <= Len(lg) /\ \A j \in 1 .. Len(evs) : evs[j] = Torn \/ evs[j] = lg[a + j]
  <2>1. a + Len(todo[s]) <= Len(lg) /\ Len(todo[s]) \in Nat
    BY <1>1, <1>2, <1>4, Typed
  <2>2. \A j \in 1 .. Len(evs) : j \in 1 .. Len(todo[s])
    BY <2>1
  <2> QED BY <2>1, <2>2, <1>5
<1>7. Begins(Load(lines), lg)
  <2>1. Load(lines) \in Seq(Event)
    BY LoadType
  <2> QED BY <2>1, <1>1, <1>2, <1>3, PrefixIs DEF IInv, SessionOK, LoadOK
<1>8. CASE cut[s] /\ s \notin dirty
  <2>1. s \in ragged /\ lines # <<>>
    BY <1>1, <1>3, <1>8 DEF IInv, SessionOK, CutOK
  <2>2. Front(lines) \in Seq(Line) /\ Begins(Load(Front(lines)), lg)
    BY <1>7, <2>1, LoadFront
  <2>3. PICK x \in Seq(Line) : x = Front(lines)
    BY <2>2
  <2>4. Torn \in Line /\ x \o <<Torn>> = Append(x, Torn) /\ Append(x, Torn) \in Seq(Line)
    BY DEF Line
  <2>5. Load(Append(x, Torn)) = Load(x)
    BY <2>4, LoadAppend DEF Takes
  <2>6. PICK y \in Seq(Line) : y = Append(x, Torn) /\ Begins(Load(y), lg)
    BY <2>2, <2>3, <2>4, <2>5
  <2>7. PICK t \in Seq(Line) : t = Tail(evs)
    BY TailIs
  <2>8. /\ a + 1 \in Nat /\ (a + 1) + Len(t) <= Len(lg)
        /\ \A j \in 1 .. Len(t) : t[j] = Torn \/ t[j] = lg[(a + 1) + j]
    <3>1. Len(t) = Len(evs) - 1 /\ Len(evs) \in Nat /\ \A j \in 1 .. Len(t) : t[j] = evs[j + 1] /\ j + 1 \in 1 .. Len(evs)
      BY <2>7, TailIs
    <3>2. \A j \in 1 .. Len(t) : t[j] = Torn \/ t[j] = lg[a + (j + 1)]
      BY <3>1, <1>6
    <3>3. \A j \in 1 .. Len(t) : a + (j + 1) = (a + 1) + j
      OBVIOUS
    <3> QED BY <3>1, <3>2, <3>3, <1>6
  <2>9. Begins(Load(y \o t), lg)
    BY <1>5, <2>6, <2>8, LandingIs
  <2>10. Landed(s, evs) = y \o t
    BY <1>3, <1>8, <2>3, <2>4, <2>6, <2>7 DEF Landed
  <2> QED BY <1>2, <2>1, <2>9, <2>10
<1>9. CASE ~(cut[s] /\ s \notin dirty)
  <2>1. Landed(s, evs) = lines \o evs
    BY <1>1, <1>3, <1>9, LandedType
  <2>2. /\ Begins(Load(lines \o evs), lg)
        /\ Len(Load(lines)) <= Len(Load(lines \o evs))
        /\ Len(Load(lines)) < a => Load(lines \o evs) = Load(lines)
        /\ a <= Len(Load(lines)) /\ (\A j \in 1 .. Len(evs) : evs[j] = lg[a + j])
             => a + Len(evs) <= Len(Load(lines \o evs))
    BY <1>5, <1>6, <1>7, LandingIs
  <2>3. (\A j \in 1 .. Len(evs) : evs[j] = todo[s][j]) => \A j \in 1 .. Len(evs) : evs[j] = lg[a + j]
    <3>1. \A j \in 1 .. Len(evs) : j \in 1 .. Len(todo[s])
      BY <1>1, Typed
    <3> QED BY <3>1, <1>5
  <2> QED BY <1>2, <1>3, <1>4, <2>1, <2>2, <2>3
<1> QED BY <1>8, <1>9

\* The same for a write that ended too soon.
LEMMA CutShortIs ==
  ASSUME IInv, NEW s \in Sessions, NEW left \in CutShort(s, todo[s])
  PROVE  /\ left.lines \in Seq(Line) /\ left.cut \in BOOLEAN
         /\ left.cut => left.lines # <<>>
         /\ s \in opened => Begins(Load(left.lines), log[s])
         /\ s \in opened \ ragged =>
              /\ Len(Load(file[s])) <= Len(Load(left.lines))
              /\ Len(Load(file[s])) < Gone(s) => Load(left.lines) = Load(file[s])
              /\ Len(file[s]) <= Len(left.lines)
              /\ \A n \in 1 .. Len(file[s]) : left.lines[n] = file[s][n]
<1>0. /\ file[s] \in Seq(Line) /\ Len(file[s]) \in Nat /\ todo[s] \in Seq(Event) /\ Len(todo[s]) \in Nat
      /\ Len(Load(file[s])) \in Nat /\ Load(file[s]) \in Seq(Event) /\ log[s] \in Seq(Event)
  BY Typed
<1>1. cut[s] \in BOOLEAN /\ (cut[s] => file[s] # <<>>)
      /\ (s \in opened => Begins(Load(file[s]), log[s]))
  BY <1>0, PrefixIs DEF IInv, TypeOK, SessionOK, CutOK, LoadOK
<1>2. ASSUME NEW evs \in Seq(Line), evs # <<>>, Len(evs) <= Len(todo[s]),
             \A j \in 1 .. Len(evs) : evs[j] = Torn \/ evs[j] = todo[s][j]
      PROVE  /\ Landed(s, evs) \in Seq(Line) /\ Landed(s, evs) # <<>>
             /\ s \in opened => Begins(Load(Landed(s, evs)), log[s])
             /\ s \in opened \ ragged =>
                  /\ Len(Load(file[s])) <= Len(Load(Landed(s, evs)))
                  /\ Len(Load(file[s])) < Gone(s) => Load(Landed(s, evs)) = Load(file[s])
                  /\ Len(file[s]) <= Len(Landed(s, evs))
                  /\ \A n \in 1 .. Len(file[s]) : Landed(s, evs)[n] = file[s][n]
  <2>1. Landed(s, evs) \in Seq(Line) /\ Landed(s, evs) # <<>>
    BY <1>2, LandedType
  <2>2. s \in opened => Begins(Load(Landed(s, evs)), log[s])
    BY <1>2, LandedIs
  <2>3. ASSUME s \in opened \ ragged
        PROVE  /\ Len(Load(file[s])) <= Len(Load(Landed(s, evs)))
               /\ Len(Load(file[s])) < Gone(s) => Load(Landed(s, evs)) = Load(file[s])
    BY <2>3, <1>2, LandedIs
  <2>4. ASSUME s \in opened \ ragged
        PROVE  /\ Len(file[s]) <= Len(Landed(s, evs))
               /\ \A n \in 1 .. Len(file[s]) : Landed(s, evs)[n] = file[s][n]
    <3>1. ~(cut[s] /\ s \notin dirty)
      BY <2>4 DEF IInv, SessionOK, CutOK
    <3>2. Landed(s, evs) = file[s] \o evs /\ Len(file[s] \o evs) = Len(file[s]) + Len(evs)
          /\ \A n \in 1 .. Len(file[s]) : Landed(s, evs)[n] = file[s][n]
      BY <3>1, <1>2, LandedType
    <3>3. Len(evs) \in Nat
      OBVIOUS
    <3> QED BY <3>2, <3>3, <1>0
  <2> QED BY <2>1, <2>2, <2>3, <2>4
<1>3. CASE \E c \in BOOLEAN : left = [lines |-> file[s], cut |-> c] /\ (c => cut[s])
  <2>1. left.lines = file[s] /\ left.cut \in BOOLEAN /\ (left.cut => cut[s])
    BY <1>3
  <2> QED BY <2>1, <1>0, <1>1
<1>4. ASSUME NEW k \in 1 .. Len(todo[s])
      PROVE  /\ SubSeq(todo[s], 1, k) \in Seq(Line) /\ SubSeq(todo[s], 1, k) # <<>>
             /\ Len(SubSeq(todo[s], 1, k)) <= Len(todo[s])
             /\ \A j \in 1 .. Len(SubSeq(todo[s], 1, k)) : SubSeq(todo[s], 1, k)[j] = todo[s][j]
             /\ Append(SubSeq(todo[s], 1, k - 1), Torn) \in Seq(Line)
             /\ Append(SubSeq(todo[s], 1, k - 1), Torn) # <<>>
             /\ Len(Append(SubSeq(todo[s], 1, k - 1), Torn)) <= Len(todo[s])
             /\ \A j \in 1 .. Len(Append(SubSeq(todo[s], 1, k - 1), Torn)) :
                  Append(SubSeq(todo[s], 1, k - 1), Torn)[j] = Torn
                    \/ Append(SubSeq(todo[s], 1, k - 1), Torn)[j] = todo[s][j]
  <2>1. PICK evs \in Seq(Line) : evs = todo[s]
    BY Typed
  <2>2. Torn \in Line /\ k \in 1 .. Len(evs)
    BY <2>1 DEF Line
  <2>3. /\ SubSeq(evs, 1, k) \in Seq(Line) /\ Len(SubSeq(evs, 1, k)) = k
        /\ \A j \in 1 .. k : SubSeq(evs, 1, k)[j] = evs[j]
    BY <2>2
  <2>4. PICK x \in Seq(Line) : x = SubSeq(evs, 1, k - 1) /\ Len(x) = k - 1 /\ \A j \in 1 .. k - 1 : x[j] = evs[j]
    <3>1. k - 1 \in 0 .. Len(evs) /\ Len(evs) \in Nat
      BY <2>2
    <3>2. SubSeq(evs, 1, k - 1) \in Seq(Line)
      BY <3>1
    <3>3. Len(SubSeq(evs, 1, k - 1)) = k - 1
      BY <3>1
    <3>4. \A j \in 1 .. k - 1 : SubSeq(evs, 1, k - 1)[j] = evs[j]
      BY <3>1
    <3> QED BY <3>2, <3>3, <3>4
  <2>5. /\ Append(x, Torn) \in Seq(Line) /\ Len(Append(x, Torn)) = k
        /\ \A j \in 1 .. k : Append(x, Torn)[j] = IF j = k THEN Torn ELSE x[j]
    BY <2>2, <2>4
  <2>6. \A j \in 1 .. k : Append(x, Torn)[j] = Torn \/ Append(x, Torn)[j] = evs[j]
    BY <2>4, <2>5
  <2>7. SubSeq(evs, 1, k) # <<>> /\ Append(x, Torn) # <<>>
    <3>1. k \in Nat /\ k # 0
      BY <2>2
    <3>2. Len(SubSeq(evs, 1, k)) > 0 /\ Len(Append(x, Torn)) > 0
      BY <3>1, <2>3, <2>5
    <3> QED BY <3>2, <2>3, <2>5, NotEmpty
  <2>8. k <= Len(evs)
    BY <2>2
  <2>9. /\ Len(SubSeq(evs, 1, k)) <= Len(evs)
        /\ \A j \in 1 .. Len(SubSeq(evs, 1, k)) : SubSeq(evs, 1, k)[j] = evs[j]
    BY <2>3, <2>8
  <2>10. /\ Len(Append(x, Torn)) <= Len(evs)
         /\ \A j \in 1 .. Len(Append(x, Torn)) : Append(x, Torn)[j] = Torn \/ Append(x, Torn)[j] = evs[j]
    BY <2>5, <2>6, <2>8
  <2> QED BY <2>1, <2>3, <2>4, <2>5, <2>7, <2>9, <2>10
<1>5. ASSUME NEW evs \in Seq(Line), evs # <<>>, Len(evs) <= Len(todo[s]),
             \A j \in 1 .. Len(evs) : evs[j] = Torn \/ evs[j] = todo[s][j],
             left.lines = Landed(s, evs), left.cut \in BOOLEAN
      PROVE  /\ left.lines \in Seq(Line) /\ left.cut \in BOOLEAN
             /\ left.cut => left.lines # <<>>
             /\ s \in opened => Begins(Load(left.lines), log[s])
             /\ s \in opened \ ragged =>
                  /\ Len(Load(file[s])) <= Len(Load(left.lines))
                  /\ Len(Load(file[s])) < Gone(s) => Load(left.lines) = Load(file[s])
                  /\ Len(file[s]) <= Len(left.lines)
                  /\ \A n \in 1 .. Len(file[s]) : left.lines[n] = file[s][n]
  BY <1>2, <1>5
<1>6. CASE \E k \in 1 .. Len(todo[s]) :
             \/ left = [lines |-> Landed(s, SubSeq(todo[s], 1, k)), cut |-> FALSE]
             \/ left = [lines |-> Landed(s, SubSeq(todo[s], 1, k)), cut |-> TRUE]
             \/ left = [lines |-> Landed(s, Append(SubSeq(todo[s], 1, k - 1), Torn)), cut |-> TRUE]
  <2>1. PICK k \in 1 .. Len(todo[s]) :
             \/ left = [lines |-> Landed(s, SubSeq(todo[s], 1, k)), cut |-> FALSE]
             \/ left = [lines |-> Landed(s, SubSeq(todo[s], 1, k)), cut |-> TRUE]
             \/ left = [lines |-> Landed(s, Append(SubSeq(todo[s], 1, k - 1), Torn)), cut |-> TRUE]
    BY <1>6
  <2>2. /\ left.cut \in BOOLEAN
        /\ \/ left.lines = Landed(s, SubSeq(todo[s], 1, k))
           \/ left.lines = Landed(s, Append(SubSeq(todo[s], 1, k - 1), Torn))
    <3> DEFINE whole == Landed(s, SubSeq(todo[s], 1, k))
               torn == Landed(s, Append(SubSeq(todo[s], 1, k - 1), Torn))
    <3>1. \/ left = [lines |-> whole, cut |-> FALSE] \/ left = [lines |-> whole, cut |-> TRUE]
          \/ left = [lines |-> torn, cut |-> TRUE]
      BY <2>1
    <3> HIDE DEF whole, torn
    <3>2. PICK c \in BOOLEAN : left = [lines |-> whole, cut |-> c] \/ left = [lines |-> torn, cut |-> c]
      BY <3>1, Zenon
    <3>3. left.cut = c /\ (left.lines = whole \/ left.lines = torn)
      BY <3>2
    <3> QED BY <3>2, <3>3 DEF whole, torn
  <2>3. CASE left.lines = Landed(s, SubSeq(todo[s], 1, k))
    BY <2>2, <2>3, <1>4, <1>5
  <2>4. CASE left.lines = Landed(s, Append(SubSeq(todo[s], 1, k - 1), Torn))
    BY <2>2, <2>4, <1>4, <1>5
  <2> QED BY <2>2, <2>3, <2>4
<1>7. \/ \E c \in BOOLEAN : left = [lines |-> file[s], cut |-> c] /\ (c => cut[s])
      \/ \E k \in 1 .. Len(todo[s]) :
             \/ left = [lines |-> Landed(s, SubSeq(todo[s], 1, k)), cut |-> FALSE]
             \/ left = [lines |-> Landed(s, SubSeq(todo[s], 1, k)), cut |-> TRUE]
             \/ left = [lines |-> Landed(s, Append(SubSeq(todo[s], 1, k - 1), Torn)), cut |-> TRUE]
  BY <1>1 DEF CutShort
<1> QED BY <1>3, <1>6, <1>7

-----------------------------------------------------------------------------
(* A step that writes nothing for a session. *)

\* Its events may move between the queue and the batch.
LEMMA KeptSession ==
  ASSUME NEW s \in Sessions, SessionOK(s), Gone(s)' = Gone(s), QueuedOK(s)',
         log'[s] = log[s], base'[s] = base[s], file'[s] = file[s], cut'[s] = cut[s],
         s \in opened' <=> s \in opened, s \in capped' <=> s \in capped, s \in ragged' <=> s \in ragged,
         s \in dirty => s \in dirty'
  PROVE  SessionOK(s)'
<1>1. Numbered(s)'
  BY DEF SessionOK, Numbered
<1>2. UnopenedOK(s)'
  BY DEF SessionOK, UnopenedOK
<1>3. CutOK(s)'
  BY DEF SessionOK, CutOK
<1>4. LoadOK(s)'
  BY DEF SessionOK, LoadOK
<1>5. Reached(s)'
  BY DEF SessionOK, Reached
<1>6. Stored(s)'
  BY DEF SessionOK, Stored
<1> QED BY <1>1, <1>2, <1>3, <1>4, <1>5, <1>6 DEF SessionOK

LEMMA SameSession ==
  ASSUME NEW s \in Sessions, SessionOK(s),
         log'[s] = log[s], todo'[s] = todo[s], pending'[s] = pending[s], base'[s] = base[s],
         file'[s] = file[s], cut'[s] = cut[s],
         s \in opened' <=> s \in opened, s \in capped' <=> s \in capped, s \in ragged' <=> s \in ragged,
         s \in dirty => s \in dirty'
  PROVE  SessionOK(s)'
<1>1. Gone(s)' = Gone(s)
  BY DEF Gone, Left
<1>2. QueuedOK(s)'
  BY <1>1 DEF SessionOK, QueuedOK
<1> QED BY <1>1, <1>2, KeptSession

\* A drain takes what is queued as its batch.
LEMMA BegunSession ==
  ASSUME NEW s \in Sessions, IInv, todo[s] = <<>>, todo'[s] = pending[s], pending'[s] = <<>>,
         log'[s] = log[s], base'[s] = base[s], file'[s] = file[s], cut'[s] = cut[s],
         opened' = opened, capped' = capped, ragged' = ragged, dirty' = dirty
  PROVE  SessionOK(s)'
<1>1. SessionOK(s) /\ Len(pending[s]) \in Nat /\ Gone(s) \in Nat
  BY Typed DEF IInv
<1>2. Gone(s)' = Gone(s)
  BY <1>1 DEF Gone, Left
<1>3. QueuedOK(s)'
  <2>1. \A j \in 1 .. Len(pending[s]) : pending[s][j] = log[s][Gone(s) + j]
    <3>1. Gone(s) + Len(todo[s]) = Gone(s)
      BY <1>1
    <3> QED BY <3>1, <1>1 DEF SessionOK, QueuedOK
  <2> QED BY <1>1, <1>2, <2>1 DEF SessionOK, QueuedOK
<1> QED BY <1>1, <1>2, <1>3, KeptSession

\* Events are appended.
LEMMA AppendedSession ==
  ASSUME IInv, NEW s \in opened, NEW ev \in Event, ev.seq = Len(log[s]),
         log'[s] = Append(log[s], ev), pending'[s] = pending[s] \o <<ev>>,
         todo'[s] = todo[s], base'[s] = base[s], file'[s] = file[s], cut'[s] = cut[s],
         opened' = opened, capped' = capped, ragged' = ragged, dirty' = dirty
  PROVE  SessionOK(s)'
<1>1. s \in Sessions
  BY DEF IInv, TypeOK
<1>2. SessionOK(s)
  BY <1>1 DEF IInv
<1>3. PICK lg \in Seq(Event) : lg = log[s]
  BY <1>1, Typed
<1>4. PICK q \in Seq(Event) : q = pending[s]
  BY <1>1, Typed
<1>5. /\ Len(todo[s]) \in Nat /\ base[s] \in Nat /\ Gone(s) \in Nat
      /\ Gone(s) = Len(lg) - (Len(todo[s]) + Len(q))
  BY <1>1, <1>3, <1>4, Typed
<1>6. /\ log'[s] \in Seq(Event) /\ Len(log'[s]) = Len(lg) + 1 /\ Len(lg) \in Nat
      /\ log'[s][Len(lg) + 1] = ev /\ \A i \in 1 .. Len(lg) : log'[s][i] = lg[i]
  BY <1>3
<1>7. /\ Len(pending'[s]) = Len(q) + 1 /\ Len(q) \in Nat
      /\ pending'[s][Len(q) + 1] = ev /\ \A i \in 1 .. Len(q) : pending'[s][i] = q[i]
  BY <1>4
<1>8. Gone(s)' = Gone(s)
  <2>1. Gone(s)' = (Len(lg) + 1) - (Len(todo[s]) + (Len(q) + 1))
    BY <1>6, <1>7 DEF Gone, Left
  <2> QED BY <2>1, <1>5, <1>6, <1>7
<1>9. PICK a \in Nat : a = Gone(s)
  BY <1>5
<1>10. PICK t \in Nat : t = Len(todo[s])
  BY <1>5
<1>11. Numbered(s)'
  <2>1. \A i \in 1 .. Len(lg) : lg[i].seq = i - 1
    BY <1>2, <1>3 DEF SessionOK, Numbered
  <2>2. \A i \in 1 .. Len(lg) + 1 : log'[s][i].seq = i - 1
    BY <2>1, <1>3, <1>6
  <2> QED BY <2>2, <1>6 DEF Numbered
<1>12. QueuedOK(s)'
  <2>1. \A j \in 1 .. t : todo[s][j] = lg[a + j]
    BY <1>2, <1>3, <1>9, <1>10 DEF SessionOK, QueuedOK
  <2>2. \A j \in 1 .. Len(q) : q[j] = lg[(a + t) + j]
    BY <1>2, <1>3, <1>4, <1>9, <1>10 DEF SessionOK, QueuedOK
  <2>3. a + t + Len(q) = Len(lg) /\ Len(q) \in Nat /\ Len(lg) \in Nat
    BY <1>5, <1>6, <1>7, <1>9, <1>10
  <2>4. \A j \in 1 .. t : todo[s][j] = log'[s][a + j]
    <3>1. \A j \in 1 .. t : a + j \in 1 .. Len(lg)
      BY <2>3
    <3> QED BY <2>1, <3>1, <1>6
  <2>5. \A j \in 1 .. Len(q) + 1 : pending'[s][j] = log'[s][(a + t) + j]
    <3>1. \A j \in 1 .. Len(q) : (a + t) + j \in 1 .. Len(lg)
      BY <2>3
    <3>2. \A j \in 1 .. Len(q) : pending'[s][j] = log'[s][(a + t) + j]
      BY <2>2, <3>1, <1>6, <1>7
    <3>3. (a + t) + (Len(q) + 1) = Len(lg) + 1
      BY <2>3, <1>6, <1>7
    <3>4. \A j \in 1 .. Len(q) + 1 : j \in 1 .. Len(q) \/ j = Len(q) + 1
      BY <1>7
    <3> QED BY <3>2, <3>3, <3>4, <1>6, <1>7
  <2>6. base[s] <= a
    BY <1>2, <1>9 DEF SessionOK, QueuedOK
  <2> QED BY <2>4, <2>5, <2>6, <1>7, <1>8, <1>9, <1>10 DEF QueuedOK
<1>13. LoadOK(s)'
  <2>1. PICK e \in Seq(Event) : e = Load(file[s])
    BY <1>1, Typed
  <2>2. PICK more \in Seq(Event) : more = log'[s]
    BY <1>6
  <2>3. Begins(e, lg) /\ Len(e) \in Nat
    BY <1>2, <1>3, <2>1, PrefixIs DEF SessionOK, LoadOK
  <2>4. Begins(e, more)
    <3>1. \A i \in 1 .. Len(e) : i \in 1 .. Len(lg)
      BY <2>3, <1>6 DEF Begins
    <3>2. Len(e) <= Len(more)
      BY <2>2, <2>3, <1>6 DEF Begins
    <3> QED BY <2>2, <2>3, <3>1, <3>2, <1>6 DEF Begins
  <2>5. IsPrefix(e, more)
    BY <2>4, PrefixIs
  <2> QED BY <2>1, <2>2, <2>5 DEF LoadOK
<1>14. UnopenedOK(s)' /\ CutOK(s)'
  BY <1>2 DEF SessionOK, UnopenedOK, CutOK
<1>15. Reached(s)'
  BY <1>2, <1>8 DEF SessionOK, Reached
<1>16. Stored(s)'
  <2>1. \A i \in base[s] + 1 .. a : log'[s][i] = lg[i]
    <3>1. PICK b \in Nat : b = base[s]
      BY <1>5
    <3>2. Len(lg) \in Nat /\ a + t <= Len(lg)
      <4>1. Gone(s) + Len(todo[s]) <= Len(log[s]) /\ Len(log[s]) \in Nat
        BY <1>1, Typed
      <4> QED BY <4>1, <1>3, <1>9, <1>10
    <3>3. \A i \in b + 1 .. a : i \in 1 .. Len(lg)
      BY <3>2
    <3> QED BY <3>1, <3>3, <1>6
  <2> QED BY <2>1, <1>2, <1>3, <1>8, <1>9 DEF SessionOK, Stored
<1> QED BY <1>11, <1>12, <1>13, <1>14, <1>15, <1>16 DEF SessionOK

\* A session begins with the events evs; all of them are queued, or none.
LEMMA OpenedSession ==
  ASSUME IInv, NEW s \in Sessions \ opened, NEW evs \in Seq(Event),
         \A i \in 1 .. Len(evs) : evs[i].seq = i - 1,
         log'[s] = evs, todo'[s] = todo[s], file'[s] = file[s], cut'[s] = cut[s],
         \/ pending'[s] = evs /\ base'[s] = 0
         \/ pending'[s] = <<>> /\ base'[s] = Len(evs),
         Begins(Load(file[s]), evs), cut[s] => s \in ragged',
         s \in opened'
  PROVE  SessionOK(s)'
<1>1. todo[s] = <<>> /\ SessionOK(s)
  BY Unopened DEF IInv
<1>2. Len(evs) \in Nat /\ Len(<<>>) = 0
  OBVIOUS
<1>3. Gone(s)' = base'[s] /\ base'[s] \in Nat
  <2>1. Gone(s)' = Len(evs) - (0 + Len(pending'[s]))
    BY <1>1, <1>2 DEF Gone, Left
  <2> QED BY <2>1, <1>2
<1>4. QueuedOK(s)'
  <2>1. \A j \in 1 .. Len(todo'[s]) : todo'[s][j] = log'[s][Gone(s)' + j]
    BY <1>1, <1>2
  <2>2. \A j \in 1 .. Len(pending'[s]) : pending'[s][j] = log'[s][Gone(s)' + Len(todo'[s]) + j]
    <3>1. CASE pending'[s] = evs /\ base'[s] = 0
      BY <3>1, <1>1, <1>2, <1>3
    <3>2. CASE pending'[s] = <<>>
      BY <3>2
    <3> QED BY <3>1, <3>2
  <2> QED BY <2>1, <2>2, <1>3 DEF QueuedOK
<1>5. Numbered(s)' /\ UnopenedOK(s)'
  BY DEF Numbered, UnopenedOK
<1>6. CutOK(s)'
  BY <1>1 DEF SessionOK, CutOK
<1>7. LoadOK(s)'
  <2>1. PICK e \in Seq(Event) : e = Load(file[s])
    BY Typed
  <2>2. IsPrefix(e, evs)
    BY <2>1, PrefixIs
  <2> QED BY <2>1, <2>2 DEF LoadOK
<1>8. Reached(s)'
  BY <1>3 DEF Reached
<1>9. Stored(s)'
  <2>1. \A i : i \notin base'[s] + 1 .. Gone(s)'
    BY <1>3
  <2> QED BY <2>1 DEF Stored
<1> QED BY <1>4, <1>5, <1>6, <1>7, <1>8, <1>9 DEF SessionOK

-----------------------------------------------------------------------------
(* A step that writes for a session, or gives a batch back. *)

LEMMA CatIs ==
  ASSUME NEW S, NEW x \in Seq(S), NEW y \in Seq(S)
  PROVE  /\ x \o y \in Seq(S) /\ Len(x \o y) = Len(x) + Len(y) /\ Len(x) \in Nat /\ Len(y) \in Nat
         /\ \A j \in 1 .. Len(x) : (x \o y)[j] = x[j]
         /\ \A j \in 1 .. Len(y) : (x \o y)[Len(x) + j] = y[j]
  OBVIOUS

\* A queue alone waits behind the first a events of a log.
LEMMA QueueAlone ==
  ASSUME NEW s \in Sessions, NEW a \in Nat, Gone(s)' = a, base'[s] <= a, todo'[s] = <<>>,
         \A j \in 1 .. Len(pending'[s]) : pending'[s][j] = log'[s][a + j]
  PROVE  QueuedOK(s)'
<1>1. Len(todo'[s]) = 0 /\ Gone(s)' + Len(todo'[s]) = a
  OBVIOUS
<1>2. \A j : j \notin 1 .. Len(todo'[s])
  BY <1>1
<1> QED BY <1>1, <1>2 DEF QueuedOK

\* The events of its batch are written.
LEMMA WrittenSession ==
  ASSUME IInv, NEW s \in opened, todo[s] # <<>>, file'[s] = Landed(s, todo[s]), cut'[s] = FALSE,
         todo'[s] = <<>>, log'[s] = log[s], pending'[s] = pending[s], base'[s] = base[s],
         opened' = opened, s \in capped' <=> s \in capped, ragged' = ragged
  PROVE  SessionOK(s)'
<1>1. s \in Sessions
  BY DEF IInv, TypeOK
<1>2. SessionOK(s)
  BY <1>1 DEF IInv
<1>3. PICK evs \in Seq(Line) : evs = todo[s]
  BY <1>1, Typed
<1>4. PICK a \in Nat : a = Gone(s)
  BY <1>1, Typed
<1>5. PICK p \in Nat : p = Len(pending[s])
  BY <1>1, Typed
<1>6. PICK len \in Nat : len = Len(log[s])
  BY <1>1, Typed
<1>7. PICK e \in Seq(Event) : e = Load(file[s])
  BY <1>1, Typed
<1>8. PICK lines \in Seq(Line) : lines = Landed(s, evs)
  BY <1>1, <1>3, LandedType
<1>9. PICK more \in Seq(Event) : more = Load(lines)
  BY LoadType
<1>10. PICK lg \in Seq(Event) : lg = log[s]
  BY <1>1, Typed
<1>11. PICK b \in Nat : b = base[s]
  BY <1>1, Typed
<1>12. Len(evs) \in Nat /\ a = len - (Len(evs) + p) /\ b <= a /\ Len(e) \in Nat /\ Len(more) \in Nat
  <2>1. Len(evs) \in Nat /\ Len(e) \in Nat /\ Len(more) \in Nat
    OBVIOUS
  <2>2. a = len - (Len(evs) + p)
    BY <1>3, <1>4, <1>5, <1>6 DEF Gone, Left
  <2>3. b <= a
    BY <1>2, <1>4, <1>11 DEF SessionOK, QueuedOK
  <2> QED BY <2>1, <2>2, <2>3
<1>13. Gone(s)' = a + Len(evs)
  <2>1. Gone(s)' = len - (0 + p)
    BY <1>5, <1>6 DEF Gone, Left
  <2> QED BY <2>1, <1>12
<1>14. /\ Begins(more, lg)
       /\ s \notin ragged =>
            /\ Len(e) < a => more = e
            /\ a <= Len(e) => a + Len(evs) <= Len(more)
  <2>1. evs # <<>> /\ Len(evs) <= Len(todo[s]) /\ \A j \in 1 .. Len(evs) : evs[j] = todo[s][j]
    BY <1>3, <1>12
  <2> QED BY <2>1, <1>4, <1>7, <1>8, <1>9, <1>10, LandedIs
<1>15. Numbered(s)'
  BY <1>2 DEF SessionOK, Numbered
<1>16. QueuedOK(s)'
  <2>1. \A j \in 1 .. p : pending[s][j] = lg[(a + Len(evs)) + j]
    BY <1>2, <1>3, <1>4, <1>5, <1>10 DEF SessionOK, QueuedOK
  <2>2. a + Len(evs) \in Nat /\ b <= a + Len(evs)
    BY <1>12
  <2>3. \A j \in 1 .. Len(pending'[s]) : pending'[s][j] = log'[s][(a + Len(evs)) + j]
    BY <2>1, <1>5, <1>10
  <2>4. Gone(s)' = a + Len(evs) /\ base'[s] <= a + Len(evs) /\ todo'[s] = <<>>
    BY <2>2, <1>11, <1>13
  <2> QED BY <2>2, <2>3, <2>4, <1>1, QueueAlone
<1>17. UnopenedOK(s)' /\ CutOK(s)'
  BY <1>2 DEF SessionOK, UnopenedOK, CutOK
<1>18. LoadOK(s)'
  <2>1. IsPrefix(more, lg)
    BY <1>14, PrefixIs
  <2> QED BY <2>1, <1>3, <1>8, <1>9, <1>10 DEF LoadOK
<1>19. Reached(s)'
  <2>1. s \notin capped \cup ragged /\ b <= Len(e) => a <= Len(e)
    BY <1>2, <1>4, <1>7, <1>11 DEF SessionOK, Reached
  <2>2. s \notin capped \cup ragged /\ b <= Len(more) => a + Len(evs) <= Len(more)
    BY <2>1, <1>12, <1>14
  <2> QED BY <2>2, <1>3, <1>8, <1>9, <1>11, <1>13 DEF Reached
<1>20. Stored(s)'
  <2> SUFFICES ASSUME s \notin capped \cup ragged, NEW i \in b + 1 .. a + Len(evs)
               PROVE  \E n \in 1 .. Len(lines) : lines[n] = lg[i]
    BY <1>3, <1>8, <1>10, <1>11, <1>13 DEF Stored
  <2>1. PICK old \in Seq(Line) : old = file[s]
    BY <1>1, Typed
  <2>2. ~(cut[s] /\ s \notin dirty)
    BY <1>2 DEF SessionOK, CutOK
  <2>3. /\ lines = old \o evs /\ Len(old \o evs) = Len(old) + Len(evs)
        /\ \A n \in 1 .. Len(old) : lines[n] = old[n]
        /\ \A n \in 1 .. Len(evs) : lines[Len(old) + n] = evs[n]
    <3>1. evs # <<>> /\ lines = Landed(s, evs)
      BY <1>3, <1>8
    <3>2. /\ Landed(s, evs) = file[s] \o evs
          /\ Len(file[s] \o evs) = Len(file[s]) + Len(evs)
          /\ \A n \in 1 .. Len(file[s]) : Landed(s, evs)[n] = file[s][n]
          /\ \A n \in 1 .. Len(evs) : Landed(s, evs)[Len(file[s]) + n] = evs[n]
      BY <3>1, <1>1, <2>2, LandedType
    <3> QED BY <3>1, <3>2, <2>1
  <2>4. Len(old) \in Nat /\ Len(lines) = Len(old) + Len(evs)
    BY <2>3
  <2>5. CASE i <= a
    <3>1. PICK n \in 1 .. Len(old) : old[n] = lg[i]
      BY <2>1, <2>5, <1>2, <1>4, <1>10, <1>11 DEF SessionOK, Stored
    <3>2. n \in 1 .. Len(lines) /\ lines[n] = lg[i]
      BY <3>1, <2>3, <2>4, <1>12
    <3> QED BY <3>2
  <2>6. CASE ~(i <= a)
    <3>1. PICK j \in 1 .. Len(evs) : i = a + j
      <4>1. i - a \in 1 .. Len(evs) /\ i = a + (i - a)
        BY <2>6, <1>12
      <4> QED BY <4>1
    <3>2. evs[j] = lg[a + j]
      BY <1>2, <1>3, <1>4, <1>10 DEF SessionOK, QueuedOK
    <3>3. Len(old) + j \in 1 .. Len(lines)
      BY <2>4, <1>12
    <3>4. lines[Len(old) + j] = lg[i]
      BY <3>1, <3>2, <2>3
    <3> QED BY <3>3, <3>4
  <2> QED BY <2>5, <2>6
<1> QED BY <1>15, <1>16, <1>17, <1>18, <1>19, <1>20 DEF SessionOK

\* They are not, because the file is full.
LEMMA FullSession ==
  ASSUME IInv, NEW s \in opened, s \in capped', todo'[s] = <<>>, log'[s] = log[s],
         pending'[s] = pending[s], base'[s] = base[s], file'[s] = file[s], cut'[s] = cut[s],
         opened' = opened, ragged' = ragged, dirty' = dirty
  PROVE  SessionOK(s)'
<1>1. s \in Sessions
  BY DEF IInv, TypeOK
<1>2. SessionOK(s)
  BY <1>1 DEF IInv
<1>3. PICK p \in Nat : p = Len(pending[s])
  BY <1>1, Typed
<1>4. PICK t \in Nat : t = Len(todo[s])
  BY <1>1, Typed
<1>5. PICK a \in Nat : a = Gone(s)
  BY <1>1, Typed
<1>6. Len(log[s]) \in Nat /\ a = Len(log[s]) - (t + p) /\ base[s] \in Nat /\ base[s] <= a
  BY <1>1, <1>2, <1>3, <1>4, <1>5, Typed DEF SessionOK, QueuedOK
<1>7. Gone(s)' = a + t
  <2>1. Gone(s)' = Len(log[s]) - (0 + p)
    BY <1>3 DEF Gone, Left
  <2> QED BY <2>1, <1>6
<1>8. QueuedOK(s)'
  <2>1. \A j \in 1 .. p : pending[s][j] = log[s][(a + t) + j]
    BY <1>2, <1>3, <1>4, <1>5 DEF SessionOK, QueuedOK
  <2>2. a + t \in Nat /\ base[s] <= a + t
    BY <1>6
  <2>3. \A j \in 1 .. Len(pending'[s]) : pending'[s][j] = log'[s][(a + t) + j]
    BY <2>1, <1>3
  <2>4. Gone(s)' = a + t /\ base'[s] <= a + t /\ todo'[s] = <<>>
    BY <2>2, <1>7
  <2> QED BY <2>2, <2>3, <2>4, <1>1, QueueAlone
<1>9. Numbered(s)' /\ UnopenedOK(s)' /\ CutOK(s)'
  BY <1>2 DEF SessionOK, Numbered, UnopenedOK, CutOK
<1>10. LoadOK(s)'
  BY <1>2 DEF SessionOK, LoadOK
<1>11. Reached(s)' /\ Stored(s)'
  BY DEF Reached, Stored
<1> QED BY <1>8, <1>9, <1>10, <1>11 DEF SessionOK

\* A failed drain puts what the batch has left in front of what came since.
LEMMA PutBackIs ==
  ASSUME IInv, NEW s \in Sessions, pending'[s] = PutBack(s), todo'[s] = <<>>,
         log'[s] = log[s], base'[s] = base[s]
  PROVE  Gone(s)' = Gone(s) /\ QueuedOK(s)'
<1>1. SessionOK(s)
  BY DEF IInv
<1>2. PICK q \in Seq(Event) : q = pending[s]
  BY Typed
<1>3. PICK t \in Seq(Event) : t = todo[s]
  BY Typed
<1>4. PICK a \in Nat : a = Gone(s)
  BY Typed
<1>5. /\ pending'[s] = t \o q /\ Len(t \o q) = Len(t) + Len(q) /\ Len(t) \in Nat /\ Len(q) \in Nat
      /\ \A j \in 1 .. Len(t) : (t \o q)[j] = t[j]
      /\ \A j \in 1 .. Len(q) : (t \o q)[Len(t) + j] = q[j]
  <2>1. pending'[s] = t \o q
    BY <1>2, <1>3 DEF PutBack
  <2> QED BY <2>1, CatIs
<1>6. a = Len(log[s]) - (Len(t) + Len(q)) /\ Len(log[s]) \in Nat
  BY <1>2, <1>3, <1>4, Typed
<1>7. Gone(s)' = a
  <2>1. Len(todo'[s]) = 0 /\ Len(pending'[s]) = Len(t) + Len(q)
    BY <1>5
  <2>2. Gone(s)' = Len(log[s]) - (0 + (Len(t) + Len(q)))
    BY <2>1 DEF Gone, Left
  <2>3. 0 + (Len(t) + Len(q)) = Len(t) + Len(q)
    BY <1>5
  <2> QED BY <2>2, <2>3, <1>6
<1>8. QueuedOK(s)'
  <2>1. \A j \in 1 .. Len(t) : t[j] = log[s][a + j]
    BY <1>1, <1>3, <1>4 DEF SessionOK, QueuedOK
  <2>2. \A j \in 1 .. Len(q) : q[j] = log[s][(a + Len(t)) + j]
    BY <1>1, <1>2, <1>3, <1>4 DEF SessionOK, QueuedOK
  <2>3. ASSUME NEW j \in 1 .. Len(t) + Len(q) PROVE (t \o q)[j] = log[s][a + j]
    <3>1. CASE j <= Len(t)
      <4>1. j \in 1 .. Len(t)
        BY <3>1, <1>5
      <4>2. (t \o q)[j] = t[j]
        BY <4>1, <1>5
      <4> QED BY <4>1, <4>2, <2>1
    <3>2. CASE ~(j <= Len(t))
      <4>1. PICK k \in 1 .. Len(q) : j = Len(t) + k
        <5>1. j - Len(t) \in 1 .. Len(q) /\ j = Len(t) + (j - Len(t))
          BY <3>2, <1>5
        <5> QED BY <5>1
      <4>2. a + j = (a + Len(t)) + k
        BY <4>1, <1>5
      <4> QED BY <4>1, <4>2, <2>2, <1>5
    <3> QED BY <3>1, <3>2
  <2>4. base[s] <= a
    BY <1>1, <1>4 DEF SessionOK, QueuedOK
  <2> QED BY <2>3, <2>4, <1>5, <1>7, QueueAlone
<1> QED BY <1>4, <1>7, <1>8

\* Its batch is put back after a write that ended too soon.
LEMMA FailedSession ==
  ASSUME IInv, NEW s \in opened, NEW left \in CutShort(s, todo[s]),
         file'[s] = left.lines, cut'[s] = left.cut, s \in dirty',
         pending'[s] = PutBack(s), todo'[s] = <<>>, log'[s] = log[s], base'[s] = base[s],
         opened' = opened, capped' = capped, ragged' = ragged
  PROVE  SessionOK(s)'
<1>1. s \in Sessions
  BY DEF IInv, TypeOK
<1>2. SessionOK(s)
  BY <1>1 DEF IInv
<1>3. Gone(s)' = Gone(s) /\ QueuedOK(s)'
  BY <1>1, PutBackIs
<1>4. Numbered(s)' /\ UnopenedOK(s)'
  BY <1>2 DEF SessionOK, Numbered, UnopenedOK
<1>5. CutOK(s)'
  BY <1>1, CutShortIs DEF CutOK
<1>6. PICK lines \in Seq(Line) : lines = left.lines
  BY <1>1, CutShortIs
<1>7. PICK more \in Seq(Event) : more = Load(lines)
  BY LoadType
<1>8. PICK e \in Seq(Event) : e = Load(file[s])
  BY <1>1, Typed
<1>9. LoadOK(s)'
  <2>1. PICK lg \in Seq(Event) : lg = log[s]
    BY <1>1, Typed
  <2>2. Begins(more, lg)
    BY <1>1, <1>6, <1>7, <2>1, CutShortIs
  <2>3. IsPrefix(more, lg)
    BY <2>2, PrefixIs
  <2> QED BY <2>1, <2>3, <1>6, <1>7 DEF LoadOK
<1>10. Reached(s)'
  <2> SUFFICES ASSUME s \notin capped \cup ragged, base[s] <= Len(more)
               PROVE  Gone(s) <= Len(more)
    BY <1>3, <1>6, <1>7 DEF Reached
  <2>1. Len(e) <= Len(more) /\ (Len(e) < Gone(s) => more = e)
    BY <1>1, <1>6, <1>7, <1>8, CutShortIs
  <2>2. base[s] <= Len(e) => Gone(s) <= Len(e)
    BY <1>2, <1>8 DEF SessionOK, Reached
  <2>3. Len(e) \in Nat /\ Len(more) \in Nat
    OBVIOUS
  <2>4. Gone(s) \in Nat /\ base[s] \in Nat
    BY <1>1, Typed
  <2> QED BY <2>1, <2>2, <2>3, <2>4
<1>11. Stored(s)'
  <2> SUFFICES ASSUME s \notin capped \cup ragged, NEW i \in base[s] + 1 .. Gone(s)
               PROVE  \E n \in 1 .. Len(lines) : lines[n] = log[s][i]
    BY <1>3, <1>6 DEF Stored
  <2>1. PICK n \in 1 .. Len(file[s]) : file[s][n] = log[s][i]
    BY <1>2 DEF SessionOK, Stored
  <2>2. Len(file[s]) <= Len(lines) /\ \A k \in 1 .. Len(file[s]) : lines[k] = file[s][k]
    BY <1>1, <1>6, CutShortIs
  <2>3. n \in 1 .. Len(lines) /\ lines[n] = log[s][i]
    <3>1. Len(file[s]) \in Nat /\ Len(lines) \in Nat
      BY <1>1, Typed
    <3> QED BY <2>1, <2>2, <3>1
  <2> QED BY <2>3
<1> QED BY <1>3, <1>4, <1>5, <1>9, <1>10, <1>11 DEF SessionOK

\* The process is gone: nothing is left of a session but its file.
LEMMA GoneSession ==
  ASSUME NEW s \in Sessions, log'[s] = <<>>, todo'[s] = <<>>, pending'[s] = <<>>, base'[s] = 0,
         s \notin opened', s \notin capped', s \notin ragged', cut'[s] => file'[s] # <<>>
  PROVE  SessionOK(s)'
<1>1. Len(<<>>) = 0
  OBVIOUS
<1>2. Gone(s)' = 0
  <2>1. Len(log'[s]) = 0 /\ Len(todo'[s]) = 0 /\ Len(pending'[s]) = 0
    BY <1>1
  <2>2. Gone(s)' = Len(log'[s]) - (Len(todo'[s]) + Len(pending'[s]))
    BY DEF Gone, Left
  <2> QED BY <2>1, <2>2
<1>3. QueuedOK(s)' /\ Numbered(s)'
  BY <1>1, <1>2 DEF QueuedOK, Numbered
<1>4. UnopenedOK(s)' /\ CutOK(s)' /\ LoadOK(s)' /\ Reached(s)' /\ Stored(s)'
  BY DEF UnopenedOK, CutOK, LoadOK, Reached, Stored
<1> QED BY <1>3, <1>4 DEF SessionOK

-----------------------------------------------------------------------------
(* Every step keeps IInv. *)

LEMMA AppendIs ==
  ASSUME NEW S, NEW q \in Seq(S), NEW e \in S
  PROVE  Append(q, e) \in Seq(S) /\ q \o <<e>> \in Seq(S)
  OBVIOUS

\* A seed of a new session, and the events the session begins with.
LEMMA SealedIs ==
  ASSUME TypeOK, NEW seed \in Seq(Event), \A i \in 1 .. Len(seed) : seed[i].seq = i - 1
  PROVE  /\ Sealed(seed) \in Seq(Event) /\ Begins(seed, Sealed(seed)) /\ Begins(<<>>, Sealed(seed))
         /\ \A i \in 1 .. Len(Sealed(seed)) : Sealed(seed)[i].seq = i - 1
<1>1. Len(seed) \in Nat /\ Len(<<>>) = 0
  OBVIOUS
<1>2. CASE Sealed(seed) = seed
  BY <1>1, <1>2 DEF Begins
<1>3. CASE Sealed(seed) # seed
  <2>1. PICK mark \in Event : mark = NewEvent(Len(seed), TRUE)
    BY <1>1 DEF NewEvent, TypeOK, Event
  <2>2. mark.seq = Len(seed)
    BY <2>1 DEF NewEvent
  <2>3. Sealed(seed) = Append(seed, mark)
    BY <1>3, <2>1 DEF Sealed
  <2>4. PICK more \in Seq(Event) : more = Append(seed, mark)
    BY AppendIs
  <2>5. /\ Len(more) = Len(seed) + 1 /\ more[Len(seed) + 1] = mark
        /\ \A i \in 1 .. Len(seed) : more[i] = seed[i]
    BY <2>4
  <2>6. Begins(seed, more) /\ Begins(<<>>, more)
    BY <2>5, <1>1 DEF Begins
  <2>7. \A i \in 1 .. Len(more) : more[i].seq = i - 1
    <3>1. \A i \in 1 .. Len(more) : i \in 1 .. Len(seed) \/ i = Len(seed) + 1
      BY <2>5, <1>1
    <3> QED BY <3>1, <2>2, <2>5, <1>1
  <2> QED BY <2>3, <2>4, <2>6, <2>7
<1> QED BY <1>2, <1>3

LEMMA SeedIs ==
  ASSUME IInv, NEW seed \in Seeds
  PROVE  seed \in Seq(Event) /\ \A i \in 1 .. Len(seed) : seed[i].seq = i - 1
<1>1. CASE seed = <<>>
  BY <1>1
<1>2. CASE seed # <<>>
  <2>1. PICK s \in opened : seed \in Prefixes(log[s])
    BY <1>2 DEF Seeds
  <2>2. s \in Sessions
    BY DEF IInv, TypeOK
  <2>3. PICK lg \in Seq(Event) : lg = log[s]
    BY <2>2, Typed
  <2>4. PICK n \in 0 .. Len(lg) : seed = SubSeq(lg, 1, n)
    BY <2>1, <2>3 DEF Prefixes
  <2>5. \A i \in 1 .. Len(lg) : lg[i].seq = i - 1
    BY <2>2, <2>3 DEF IInv, SessionOK, Numbered
  <2>6. seed \in Seq(Event) /\ Len(seed) = n /\ \A i \in 1 .. n : seed[i] = lg[i]
    BY <2>4
  <2> QED BY <2>4, <2>5, <2>6
<1> QED BY <1>1, <1>2

\* The types of what no drain waits in, which KeepsDue leaves open.
DataTypes ==
  /\ life \in 1 .. MaxLives /\ opened \subseteq Sessions
  /\ log \in Logs /\ pending \in Logs /\ todo \in Logs
  /\ dirty \subseteq Sessions /\ capped \subseteq Sessions /\ ragged \subseteq Sessions
  /\ timer \in BOOLEAN /\ kept \in BOOLEAN
  /\ flush \in [Flushers -> {"idle", "called", "done", "failed"}]
  /\ file \in [Sessions -> Seq(Event \cup {Torn})] /\ cut \in [Sessions -> BOOLEAN]
  /\ fails \in 0 .. MaxFails /\ base \in [Sessions -> Nat]

LEMMA TypesAre == TypeOK <=> DataTypes /\ QueueTypes
  BY DEF TypeOK, DataTypes, QueueTypes

LEMMA AppendKeeps ==
  ASSUME IInv, NEW s \in Sessions, AppendEvent(s)
  PROVE  DataTypes' /\ IdleOK' /\ \A x \in Sessions : SessionOK(x)'
<1> DEFINE new == NewEvent(Len(log[s]), FALSE)
<1>1. TypeOK /\ IdleOK /\ \A x \in Sessions : SessionOK(x)
  BY DEF IInv
<1>2. PICK ev \in Event : ev = new
  <2>1. Len(log[s]) \in Nat
    BY Typed
  <2> QED BY <1>1, <2>1 DEF NewEvent, TypeOK, Event
<1>3. ev.seq = Len(log[s])
  BY <1>2 DEF NewEvent
<1>4. /\ s \in opened
      /\ log' = [log EXCEPT ![s] = Append(@, ev)] /\ pending' = [pending EXCEPT ![s] = @ \o <<ev>>]
      /\ timer' = TRUE /\ kept' = FALSE
      /\ UNCHANGED <<todo, dirty, capped, driver, waiting, woken, flush>>
      /\ UNCHANGED <<life, opened, file, cut, fails, base, ragged>>
  BY <1>2 DEF AppendEvent, Enqueue, disk
<1> HIDE DEF new
<1>5. DataTypes'
  <2>1. Append(log[s], ev) \in Seq(Event)
    BY Typed, AppendIs
  <2>2. pending[s] \o <<ev>> \in Seq(Event)
    BY Typed, AppendIs
  <2>3. log' \in Logs /\ pending' \in Logs
    BY <1>1, <1>4, <2>1, <2>2 DEF TypeOK, Logs
  <2> QED BY <1>1, <1>4, <2>3 DEF TypeOK, DataTypes
<1>6. IdleOK'
  BY <1>1, <1>4 DEF IdleOK, Active
<1>7. ASSUME NEW x \in Sessions PROVE SessionOK(x)'
  <2>1. CASE x = s
    <3>1. log'[s] = Append(log[s], ev) /\ pending'[s] = pending[s] \o <<ev>>
      BY <1>1, <1>4 DEF TypeOK, Logs
    <3> QED BY <2>1, <3>1, <1>3, <1>4, AppendedSession
  <2>2. CASE x # s
    <3>1. log'[x] = log[x] /\ pending'[x] = pending[x]
      BY <2>2, <1>1, <1>4 DEF TypeOK, Logs
    <3> QED BY <3>1, <1>1, <1>4, SameSession
  <2> QED BY <2>1, <2>2
<1> QED BY <1>5, <1>6, <1>7

\* A session is opened; its events are queued, or they are its base.
LEMMA OpenKeeps ==
  ASSUME IInv, NEW s \in Sessions \ opened, NEW evs \in Seq(Event), Open(s, evs),
         \A i \in 1 .. Len(evs) : evs[i].seq = i - 1, Begins(Load(file[s]), evs),
         cut[s] => s \in ragged', ragged' = ragged \/ ragged' = ragged \cup {s},
         \/ pending' = [pending EXCEPT ![s] = @ \o evs] /\ UNCHANGED base
         \/ UNCHANGED pending /\ base' = [base EXCEPT ![s] = Len(evs)],
         timer' \in BOOLEAN, kept' \in BOOLEAN,
         UNCHANGED <<todo, dirty, capped, driver, flush>>
  PROVE  DataTypes' /\ IdleOK' /\ \A x \in Sessions : SessionOK(x)'
<1>1. TypeOK /\ IdleOK /\ \A x \in Sessions : SessionOK(x)
  BY DEF IInv
<1>2. /\ opened' = opened \cup {s} /\ log' = [log EXCEPT ![s] = evs]
      /\ UNCHANGED <<life, file, cut, fails>>
  BY DEF Open, disk
<1>3. todo[s] = <<>> /\ pending[s] = <<>>
  BY Unopened
<1>4. base[s] = 0 /\ Len(evs) \in Nat
  BY <1>1 DEF SessionOK, UnopenedOK
<1>5. \/ pending' = [pending EXCEPT ![s] = evs] /\ UNCHANGED base
      \/ UNCHANGED pending /\ base' = [base EXCEPT ![s] = Len(evs)]
  <2>1. pending[s] \o evs = evs
    BY <1>3
  <2> QED BY <2>1
<1>6. DataTypes'
  <2>1. log' \in Logs
    BY <1>1, <1>2 DEF TypeOK, Logs
  <2>2. pending' \in Logs
    BY <1>1, <1>5 DEF TypeOK, Logs
  <2>3. base' \in [Sessions -> Nat]
    BY <1>1, <1>4, <1>5 DEF TypeOK
  <2>4. opened' \subseteq Sessions /\ ragged' \subseteq Sessions
    BY <1>1, <1>2 DEF TypeOK
  <2> QED BY <1>1, <1>2, <2>1, <2>2, <2>3, <2>4 DEF TypeOK, DataTypes
<1>7. IdleOK'
  BY <1>1 DEF IdleOK, Active
<1>8. ASSUME NEW x \in Sessions PROVE SessionOK(x)'
  <2>1. CASE x = s
    <3>1. log'[s] = evs /\ s \in opened'
      BY <1>1, <1>2 DEF TypeOK, Logs
    <3>2. \/ pending'[s] = evs /\ base'[s] = 0
          \/ pending'[s] = <<>> /\ base'[s] = Len(evs)
      BY <1>1, <1>3, <1>4, <1>5 DEF TypeOK, Logs
    <3> QED BY <2>1, <3>1, <3>2, <1>2, OpenedSession
  <2>2. CASE x # s
    <3>1. log'[x] = log[x] /\ pending'[x] = pending[x] /\ base'[x] = base[x]
      BY <2>2, <1>1, <1>2, <1>5 DEF TypeOK, Logs
    <3>2. (x \in opened' <=> x \in opened) /\ (x \in ragged' <=> x \in ragged)
      BY <2>2, <1>2
    <3> QED BY <3>1, <3>2, <1>1, <1>2, SameSession
  <2> QED BY <2>1, <2>2
<1> QED BY <1>6, <1>7, <1>8

LEMMA CreateKeeps ==
  ASSUME IInv, NEW s \in Sessions, NEW seed \in Seeds, Create(s, seed)
  PROVE  DataTypes' /\ IdleOK' /\ \A x \in Sessions : SessionOK(x)'
<1>1. TypeOK /\ SessionOK(s)
  BY DEF IInv
<1>2. seed \in Seq(Event) /\ \A i \in 1 .. Len(seed) : seed[i].seq = i - 1
  BY SeedIs
<1>3. PICK evs \in Seq(Event) : evs = Sealed(seed)
  BY <1>1, <1>2, SealedIs
<1>4. (\A i \in 1 .. Len(evs) : evs[i].seq = i - 1) /\ Begins(<<>>, evs)
  BY <1>1, <1>2, <1>3, SealedIs
<1>5. s \in Sessions \ opened /\ file[s] = <<>> /\ Open(s, evs) /\ UNCHANGED <<base, ragged>>
  BY <1>3 DEF Create, Fresh
<1>6. ~cut[s]
  BY <1>1, <1>5 DEF SessionOK, CutOK
<1>7. Begins(Load(file[s]), evs)
  BY <1>4, <1>5, LoadEmpty
<1>8. /\ pending' = [pending EXCEPT ![s] = @ \o evs]
      /\ timer' \in BOOLEAN /\ kept' \in BOOLEAN
      /\ UNCHANGED <<todo, dirty, capped, driver, flush>>
  <2>1. CASE seed = <<>> /\ UNCHANGED <<queues, kept>>
    <3>1. evs = <<>>
      BY <1>3, <2>1 DEF Sealed
    <3>2. pending[s] \o evs = pending[s]
      <4>1. pending[s] \in Seq(Event)
        BY Typed
      <4> QED BY <3>1, <4>1
    <3>3. pending = [pending EXCEPT ![s] = pending[s] \o evs]
      BY <3>2, <1>1 DEF TypeOK, Logs
    <3> QED BY <2>1, <3>3, <1>1 DEF queues, TypeOK
  <2>2. CASE Enqueue(s, Sealed(seed))
    BY <2>2, <1>3 DEF Enqueue
  <2> QED BY <2>1, <2>2 DEF Create
<1> QED BY <1>4, <1>5, <1>6, <1>7, <1>8, OpenKeeps

LEMMA ForkKeeps ==
  ASSUME IInv, NEW s \in Sessions, NEW seed \in Seeds, Fork(s, seed)
  PROVE  DataTypes' /\ IdleOK' /\ \A x \in Sessions : SessionOK(x)'
<1>1. TypeOK /\ SessionOK(s)
  BY DEF IInv
<1>2. seed \in Seq(Event) /\ \A i \in 1 .. Len(seed) : seed[i].seq = i - 1
  BY SeedIs
<1>3. PICK evs \in Seq(Event) : evs = Sealed(seed)
  BY <1>1, <1>2, SealedIs
<1>4. (\A i \in 1 .. Len(evs) : evs[i].seq = i - 1) /\ Begins(<<>>, evs)
  BY <1>1, <1>2, <1>3, SealedIs
<1>5. /\ s \in Sessions \ opened /\ file[s] = <<>> /\ Open(s, evs)
      /\ base' = [base EXCEPT ![s] = Len(evs)] /\ UNCHANGED <<queues, ragged, kept>>
  BY <1>3 DEF Fork, Fresh
<1>6. ~cut[s]
  BY <1>1, <1>5 DEF SessionOK, CutOK
<1>7. Begins(Load(file[s]), evs)
  BY <1>4, <1>5, LoadEmpty
<1>8. /\ timer' \in BOOLEAN /\ kept' \in BOOLEAN
      /\ UNCHANGED <<pending, todo, dirty, capped, driver, flush>>
  BY <1>1, <1>5 DEF TypeOK, queues
<1> QED BY <1>4, <1>5, <1>6, <1>7, <1>8, OpenKeeps

LEMMA ResumeKeeps ==
  ASSUME IInv, NEW s \in Sessions, Resume(s)
  PROVE  DataTypes' /\ IdleOK' /\ \A x \in Sessions : SessionOK(x)'
<1>1. TypeOK
  BY DEF IInv
<1>2. PICK seed \in Seq(Event) : seed = Load(file[s])
  BY Typed
<1>3. \A i \in 1 .. Len(seed) : seed[i].seq = i - 1
  BY <1>2, Typed, LoadType
<1>4. PICK evs \in Seq(Event) : evs = Sealed(seed)
  BY <1>1, <1>3, SealedIs
<1>5. (\A i \in 1 .. Len(evs) : evs[i].seq = i - 1) /\ Begins(Load(file[s]), evs)
  BY <1>1, <1>2, <1>3, <1>4, SealedIs
<1>6. /\ s \in Sessions \ opened /\ Open(s, evs)
      /\ base' = [base EXCEPT ![s] = Len(evs)]
      /\ ragged' = IF cut[s] THEN ragged \cup {s} ELSE ragged
      /\ UNCHANGED <<queues, kept>>
  BY <1>2, <1>4 DEF Resume
<1>7. (cut[s] => s \in ragged') /\ (ragged' = ragged \/ ragged' = ragged \cup {s})
  BY <1>6
<1>8. /\ timer' \in BOOLEAN /\ kept' \in BOOLEAN
      /\ UNCHANGED <<pending, todo, dirty, capped, driver, flush>>
  BY <1>1, <1>6 DEF TypeOK, queues
<1> QED BY <1>5, <1>6, <1>7, <1>8, OpenKeeps

-----------------------------------------------------------------------------
\* A step of the callers and the timer: the files and logs stay, and at most a drain begins.
LEMMA ControlKeeps ==
  ASSUME IInv, UNCHANGED <<life, opened, log, dirty, capped, disk, base, ragged>>,
         timer' \in BOOLEAN, kept' \in BOOLEAN,
         flush' \in [Flushers -> {"idle", "called", "done", "failed"}],
         \/ UNCHANGED <<pending, todo>> /\ (driver' = driver \/ todo = NoEvents)
         \/ ~Active /\ todo' = pending /\ pending' = NoEvents /\ Active'
  PROVE  DataTypes' /\ IdleOK' /\ \A x \in Sessions : SessionOK(x)'
<1>1. TypeOK /\ IdleOK /\ \A x \in Sessions : SessionOK(x)
  BY DEF IInv
<1>2. NoEvents \in Logs
  BY DEF NoEvents, Logs
<1>3. DataTypes'
  <2>1. pending' \in Logs /\ todo' \in Logs
    BY <1>1, <1>2 DEF TypeOK
  <2> QED BY <1>1, <2>1 DEF TypeOK, DataTypes, disk
<1>4. CASE UNCHANGED <<pending, todo>> /\ (driver' = driver \/ todo = NoEvents)
  <2>1. IdleOK'
    BY <1>1, <1>4 DEF IdleOK, Active, NoEvents
  <2>2. \A x \in Sessions : SessionOK(x)'
    BY <1>1, <1>4, SameSession DEF disk
  <2> QED BY <1>3, <2>1, <2>2
<1>5. CASE ~Active /\ todo' = pending /\ pending' = NoEvents /\ Active'
  <2>1. IdleOK'
    BY <1>5 DEF IdleOK
  <2>2. \A x \in Sessions : todo[x] = <<>> /\ todo'[x] = pending[x] /\ pending'[x] = <<>>
    BY <1>1, <1>5 DEF IdleOK, NoEvents
  <2>3. \A x \in Sessions : SessionOK(x)'
    BY <2>2, BegunSession DEF disk
  <2> QED BY <1>3, <2>1, <2>3
<1> QED BY <1>4, <1>5

LEMMA BeginIs ==
  ASSUME NEW d \in Drains, Begin(d)
  PROVE  todo' = pending /\ pending' = NoEvents /\ Active' /\ kept' = FALSE
  BY LogAssumption DEF Begin, Active

LEMMA TimerKeeps ==
  ASSUME IInv, TimerFires
  PROVE  DataTypes' /\ IdleOK' /\ \A x \in Sessions : SessionOK(x)'
<1>1. /\ UNCHANGED <<life, opened, log, dirty, capped, disk, base, ragged>>
      /\ timer' = FALSE /\ UNCHANGED flush
  BY DEF TimerFires
<1>2. /\ kept' \in BOOLEAN /\ flush \in [Flushers -> {"idle", "called", "done", "failed"}]
      /\ \/ UNCHANGED <<pending, todo>> /\ driver' = driver
         \/ ~Active /\ todo' = pending /\ pending' = NoEvents /\ Active'
  <2>1. TypeOK /\ Timer \in Drains
    BY DEF IInv, Drains
  <2> QED BY <2>1, BeginIs DEF TypeOK, TimerFires
<1> QED BY <1>1, <1>2, ControlKeeps

LEMMA LoopIs ==
  ASSUME TypeOK, NEW f \in Flushers, Loop(f) \/ Await(f)
  PROVE  /\ kept' \in BOOLEAN /\ flush' \in [Flushers -> {"idle", "called", "done", "failed"}]
         /\ \/ UNCHANGED <<pending, todo>> /\ driver' = driver
            \/ ~Active /\ todo' = pending /\ pending' = NoEvents /\ Active'
<1>1. f \in Drains /\ kept \in BOOLEAN /\ flush \in [Flushers -> {"idle", "called", "done", "failed"}]
  BY DEF TypeOK, Drains
<1>2. CASE flush' = [flush EXCEPT ![f] = "done"] /\ UNCHANGED <<pending, todo, driver, kept>>
  BY <1>1, <1>2
<1>3. CASE ~Active /\ Begin(f) /\ flush' = [flush EXCEPT ![f] = "called"]
  BY <1>1, <1>3, BeginIs
<1>4. CASE Await(f)
  BY <1>1, <1>4 DEF Await
<1> QED BY <1>2, <1>3, <1>4 DEF Loop

LEMMA FlushKeeps ==
  ASSUME IInv, NEW f \in Flushers, CallFlush(f)
  PROVE  DataTypes' /\ IdleOK' /\ \A x \in Sessions : SessionOK(x)'
<1>1. /\ UNCHANGED <<life, opened, log, dirty, capped, disk, base, ragged>> /\ timer' \in BOOLEAN
      /\ Loop(f) \/ Await(f)
  BY DEF CallFlush
<1>2. TypeOK
  BY DEF IInv
<1> QED BY <1>1, <1>2, LoopIs, ControlKeeps

LEMMA GoesOnKeeps ==
  ASSUME IInv, GoesOn
  PROVE  DataTypes' /\ IdleOK' /\ \A x \in Sessions : SessionOK(x)'
<1>1. TypeOK /\ Timer \in Drains
  BY DEF IInv, Drains
<1>2. UNCHANGED <<life, opened, log, dirty, capped, disk, base, ragged>> /\ timer' \in BOOLEAN
  BY <1>1 DEF GoesOn, TypeOK
<1>3. CASE Head(woken) \in Flushers /\ Loop(Head(woken))
  BY <1>1, <1>2, <1>3, LoopIs, ControlKeeps
<1>4. CASE ~Active /\ Begin(Timer) /\ UNCHANGED flush
  <2>1. kept' \in BOOLEAN /\ flush' \in [Flushers -> {"idle", "called", "done", "failed"}]
        /\ todo' = pending /\ pending' = NoEvents /\ Active'
    BY <1>1, <1>4, BeginIs DEF TypeOK
  <2> QED BY <2>1, <1>2, <1>4, ControlKeeps
<1>5. CASE UNCHANGED <<pending, todo, driver, kept, flush>>
  <2>1. kept' \in BOOLEAN /\ flush' \in [Flushers -> {"idle", "called", "done", "failed"}]
    BY <1>1, <1>5 DEF TypeOK
  <2> QED BY <2>1, <1>2, <1>5, ControlKeeps
<1> QED BY <1>3, <1>4, <1>5 DEF GoesOn

LEMMA EndKeeps ==
  ASSUME IInv, DrainEnds
  PROVE  DataTypes' /\ IdleOK' /\ \A x \in Sessions : SessionOK(x)'
<1>1. TypeOK
  BY DEF IInv
<1>2. UNCHANGED <<life, opened, log, dirty, capped, disk, base, ragged, pending, todo, timer, kept, flush>>
      /\ todo = NoEvents
  BY DEF DrainEnds, history
<1>3. timer' \in BOOLEAN /\ kept' \in BOOLEAN /\ flush' \in [Flushers -> {"idle", "called", "done", "failed"}]
  BY <1>1, <1>2 DEF TypeOK
<1> QED BY <1>2, <1>3, ControlKeeps

-----------------------------------------------------------------------------
LEMMA QueuedIsOpened ==
  ASSUME IInv, NEW s \in Sessions, todo[s] # <<>>
  PROVE  s \in opened
  BY Unopened

LEMMA WriteKeeps ==
  ASSUME IInv, NEW s \in Sessions, WriteLines(s)
  PROVE  DataTypes' /\ IdleOK' /\ \A x \in Sessions : SessionOK(x)'
<1>1. TypeOK /\ IdleOK /\ \A x \in Sessions : SessionOK(x)
  BY DEF IInv
<1>2. /\ todo[s] # <<>> /\ todo' = [todo EXCEPT ![s] = <<>>]
      /\ UNCHANGED <<life, opened, log, pending, timer, driver, flush, fails, base, ragged, kept>>
  BY DEF WriteLines, history
<1>3. s \in opened
  BY <1>2, QueuedIsOpened
<1>4. todo' \in Logs
  BY <1>1, <1>2 DEF TypeOK, Logs
<1>5. IdleOK'
  <2>1. \A x \in Sessions : todo[x] = <<>> => todo'[x] = <<>>
    BY <1>1, <1>2 DEF TypeOK, Logs
  <2> QED BY <1>1, <1>2, <2>1 DEF IdleOK, Active
<1>6. todo'[s] = <<>> /\ \A x \in Sessions : x # s => todo'[x] = todo[x]
  BY <1>1, <1>2 DEF TypeOK, Logs
<1>7. CASE /\ s \notin capped /\ dirty' = dirty \ {s}
           /\ file' = [file EXCEPT ![s] = Landed(s, todo[s])]
           /\ cut' = [cut EXCEPT ![s] = FALSE]
           /\ UNCHANGED capped
  <2>1. Landed(s, todo[s]) \in Seq(Line)
    BY <1>2, Typed, LandedType
  <2>2. PICK lines \in Seq(Line) : lines = Landed(s, todo[s])
    BY <2>1
  <2>3. DataTypes'
    <3>1. file' \in [Sessions -> Seq(Event \cup {Torn})]
      BY <1>1, <1>7, <2>2 DEF TypeOK, Line
    <3>2. cut' \in [Sessions -> BOOLEAN]
      BY <1>1, <1>7 DEF TypeOK
    <3> QED BY <1>1, <1>2, <1>4, <1>7, <3>1, <3>2 DEF TypeOK, DataTypes
  <2>4. ASSUME NEW x \in Sessions PROVE SessionOK(x)'
    <3>1. CASE x = s
      <4>1. file'[s] = Landed(s, todo[s]) /\ cut'[s] = FALSE
        BY <1>1, <1>7, <2>2 DEF TypeOK
      <4> QED BY <3>1, <4>1, <1>2, <1>3, <1>6, <1>7, WrittenSession
    <3>2. CASE x # s
      <4>1. file'[x] = file[x] /\ cut'[x] = cut[x] /\ (x \in dirty => x \in dirty')
        BY <3>2, <1>1, <1>7, <2>2 DEF TypeOK
      <4> QED BY <3>2, <4>1, <1>1, <1>2, <1>6, <1>7, SameSession
    <3> QED BY <3>1, <3>2
  <2> QED BY <1>5, <2>3, <2>4
<1>8. CASE capped' = capped \cup {s} /\ UNCHANGED <<dirty, file, cut>>
  <2>1. DataTypes'
    BY <1>1, <1>2, <1>4, <1>8 DEF TypeOK, DataTypes
  <2>2. ASSUME NEW x \in Sessions PROVE SessionOK(x)'
    <3>1. CASE x = s
      BY <3>1, <1>2, <1>3, <1>6, <1>8, FullSession
    <3>2. CASE x # s
      BY <3>2, <1>1, <1>2, <1>6, <1>8, SameSession
    <3> QED BY <3>1, <3>2
  <2> QED BY <1>5, <2>1, <2>2
<1> QED BY <1>7, <1>8 DEF WriteLines

LEMMA FailKeeps ==
  ASSUME IInv, NEW s \in Sessions, NEW left \in CutShort(s, todo[s]), DrainFails(s, left)
  PROVE  DataTypes' /\ IdleOK' /\ \A x \in Sessions : SessionOK(x)'
<1>1. TypeOK /\ IdleOK /\ \A x \in Sessions : SessionOK(x)
  BY DEF IInv
<1>2. /\ fails < MaxFails /\ fails' = fails + 1
      /\ pending' = [x \in Sessions |-> PutBack(x)] /\ todo' = NoEvents
      /\ flush' = IF driver \in Flushers THEN [flush EXCEPT ![driver] = "failed"] ELSE flush
      /\ kept' = TRUE
      /\ UNCHANGED <<life, opened, log, capped, timer, base, ragged>>
  BY DEF DrainFails
<1>3. \A x \in Sessions : PutBack(x) \in Seq(Event)
  BY Typed, CatIs DEF PutBack
<1>4. pending' \in Logs /\ todo' \in Logs
  BY <1>2, <1>3 DEF Logs, NoEvents
<1>5. \A x \in Sessions : pending'[x] = PutBack(x) /\ todo'[x] = <<>>
  BY <1>2 DEF NoEvents
<1>6. IdleOK'
  BY <1>5 DEF IdleOK
<1>7. /\ fails' \in 0 .. MaxFails
      /\ flush' \in [Flushers -> {"idle", "called", "done", "failed"}]
  <2>1. fails' \in 0 .. MaxFails
    BY <1>1, <1>2, LogAssumption DEF TypeOK
  <2>2. flush' \in [Flushers -> {"idle", "called", "done", "failed"}]
    BY <1>1, <1>2 DEF TypeOK
  <2> QED BY <2>1, <2>2
<1>8. ASSUME file' \in [Sessions -> Seq(Line)], cut' \in [Sessions -> BOOLEAN], dirty' \subseteq Sessions
      PROVE  DataTypes'
  BY <1>1, <1>2, <1>4, <1>7, <1>8 DEF TypeOK, DataTypes, Line
<1>9. ASSUME NEW x \in Sessions, file'[x] = file[x], cut'[x] = cut[x], x \in dirty => x \in dirty'
      PROVE  SessionOK(x)'
  <2>1. Gone(x)' = Gone(x) /\ QueuedOK(x)'
    BY <1>2, <1>5, PutBackIs
  <2> QED BY <2>1, <1>1, <1>2, <1>9, KeptSession
<1>10. CASE /\ todo[s] # <<>> /\ dirty' = dirty \cup {s}
            /\ file' = [file EXCEPT ![s] = left.lines] /\ cut' = [cut EXCEPT ![s] = left.cut]
  <2>1. left.lines \in Seq(Line) /\ left.cut \in BOOLEAN /\ s \in opened
    BY <1>10, CutShortIs, QueuedIsOpened
  <2>2. file' \in [Sessions -> Seq(Line)] /\ cut' \in [Sessions -> BOOLEAN] /\ dirty' \subseteq Sessions
    BY <1>1, <1>10, <2>1 DEF TypeOK, Line
  <2>3. ASSUME NEW x \in Sessions PROVE SessionOK(x)'
    <3>1. CASE x = s
      <4>1. file'[s] = left.lines /\ cut'[s] = left.cut /\ s \in dirty'
        BY <1>1, <1>10, <2>1 DEF TypeOK
      <4> QED BY <3>1, <4>1, <2>1, <1>2, <1>5, FailedSession
    <3>2. CASE x # s
      <4>1. file'[x] = file[x] /\ cut'[x] = cut[x] /\ (x \in dirty => x \in dirty')
        BY <3>2, <1>1, <1>10, <2>1 DEF TypeOK
      <4> QED BY <4>1, <1>9
    <3> QED BY <3>1, <3>2
  <2> QED BY <1>6, <1>8, <2>2, <2>3
<1>11. CASE UNCHANGED <<dirty, file, cut>>
  <2>1. file' \in [Sessions -> Seq(Line)] /\ cut' \in [Sessions -> BOOLEAN] /\ dirty' \subseteq Sessions
    BY <1>1, <1>11 DEF TypeOK, Line
  <2> QED BY <1>6, <1>8, <1>9, <1>11, <2>1
<1> QED BY <1>10, <1>11 DEF DrainFails

LEMMA DeathKeeps ==
  ASSUME IInv, NEW s \in Sessions, NEW left \in CutShort(s, todo[s]), Dies(s, left)
  PROVE  DataTypes' /\ IdleOK' /\ \A x \in Sessions : SessionOK(x)'
<1>1. TypeOK /\ IdleOK /\ \A x \in Sessions : SessionOK(x)
  BY DEF IInv
<1>2. /\ life < MaxLives /\ life' = life + 1
      /\ opened' = {} /\ log' = NoEvents
      /\ pending' = NoEvents /\ todo' = NoEvents /\ dirty' = {} /\ capped' = {} /\ timer' = FALSE
      /\ flush' = [f \in Flushers |-> "idle"]
      /\ base' = [x \in Sessions |-> 0] /\ ragged' = {} /\ kept' = FALSE
      /\ UNCHANGED fails
  BY DEF Dies
<1>3. left.lines \in Seq(Line) /\ left.cut \in BOOLEAN /\ (left.cut => left.lines # <<>>)
  BY CutShortIs
<1>4. /\ file' \in [Sessions -> Seq(Line)] /\ cut' \in [Sessions -> BOOLEAN]
      /\ \A x \in Sessions : cut'[x] => file'[x] # <<>>
  <2>1. \A x \in Sessions : cut[x] => file[x] # <<>>
    BY <1>1 DEF SessionOK, CutOK
  <2>2. CASE file' = [file EXCEPT ![s] = left.lines] /\ cut' = [cut EXCEPT ![s] = left.cut]
    <3>1. file' \in [Sessions -> Seq(Line)] /\ cut' \in [Sessions -> BOOLEAN]
      BY <1>1, <1>3, <2>2 DEF TypeOK, Line
    <3>2. \A x \in Sessions : \/ file'[x] = file[x] /\ cut'[x] = cut[x]
                              \/ file'[x] = left.lines /\ cut'[x] = left.cut
      BY <1>1, <2>2 DEF TypeOK, Line
    <3> QED BY <3>1, <3>2, <2>1, <1>3
  <2>3. CASE UNCHANGED <<file, cut>>
    BY <1>1, <2>1, <2>3 DEF TypeOK, Line
  <2> QED BY <2>2, <2>3 DEF Dies
<1>5. DataTypes'
  <2>1. NoEvents \in Logs
    BY DEF NoEvents, Logs
  <2>2. life' \in 1 .. MaxLives
    BY <1>1, <1>2, LogAssumption DEF TypeOK
  <2>3. base' \in [Sessions -> Nat] /\ flush' \in [Flushers -> {"idle", "called", "done", "failed"}]
    BY <1>2
  <2> QED BY <1>1, <1>2, <1>4, <2>1, <2>2, <2>3 DEF TypeOK, DataTypes, Line
<1>6. \A x \in Sessions : log'[x] = <<>> /\ todo'[x] = <<>> /\ pending'[x] = <<>> /\ base'[x] = 0
  BY <1>2 DEF NoEvents
<1>7. IdleOK'
  BY <1>6 DEF IdleOK
<1>8. \A x \in Sessions : SessionOK(x)'
  BY <1>2, <1>4, <1>6, GoneSession
<1> QED BY <1>5, <1>7, <1>8

LEMMA StepKeeps ==
  ASSUME IInv, Due', [Next]_vars
  PROVE  IInv'
<1> SUFFICES DataTypes' /\ IdleOK' /\ \A x \in Sessions : SessionOK(x)'
  BY DEF IInv, TypeOK, DataTypes, Due, QueueTypes
<1>1. ASSUME NEW s \in Sessions, AppendEvent(s) \/ Resume(s) \/ WriteLines(s)
      PROVE  DataTypes' /\ IdleOK' /\ \A x \in Sessions : SessionOK(x)'
  BY <1>1, AppendKeeps, ResumeKeeps, WriteKeeps
<1>2. ASSUME NEW s \in Sessions, NEW seed \in Seeds, Create(s, seed) \/ Fork(s, seed)
      PROVE  DataTypes' /\ IdleOK' /\ \A x \in Sessions : SessionOK(x)'
  BY <1>2, CreateKeeps, ForkKeeps
<1>3. ASSUME NEW f \in Flushers, CallFlush(f)
      PROVE  DataTypes' /\ IdleOK' /\ \A x \in Sessions : SessionOK(x)'
  BY <1>3, FlushKeeps
<1>4. CASE TimerFires \/ GoesOn \/ DrainEnds
  BY <1>4, TimerKeeps, GoesOnKeeps, EndKeeps
<1>5. ASSUME NEW s \in Sessions, NEW left \in CutShort(s, todo[s]), DrainFails(s, left) \/ Dies(s, left)
      PROVE  DataTypes' /\ IdleOK' /\ \A x \in Sessions : SessionOK(x)'
  BY <1>5, FailKeeps, DeathKeeps
<1>6. CASE UNCHANGED vars
  <2>1. TypeOK
    BY DEF IInv
  <2>2. UNCHANGED <<life, opened, log, pending, todo, dirty, capped, timer, driver, flush, disk,
                    base, ragged, kept>>
    BY <1>6 DEF vars, queues, history
  <2>3. timer' \in BOOLEAN /\ kept' \in BOOLEAN /\ flush' \in [Flushers -> {"idle", "called", "done", "failed"}]
    BY <2>1, <2>2 DEF TypeOK
  <2> QED BY <2>2, <2>3, ControlKeeps
<1> QED BY <1>1, <1>2, <1>3, <1>4, <1>5, <1>6 DEF Next

LEMMA InitIs == Init => IInv
<1> SUFFICES ASSUME Init PROVE IInv
  OBVIOUS
<1>1. NoEvents \in Logs /\ \A s \in Sessions : NoEvents[s] = <<>>
  BY DEF NoEvents, Logs
<1>2. TypeOK
  <2>1. life \in 1 .. MaxLives
    BY LogAssumption DEF Init
  <2>2. fails \in 0 .. MaxFails
    BY LogAssumption DEF Init
  <2>3. waiting \in Seq(Drains) /\ woken \in Seq(Drains) /\ driver \in Drains \cup {Nobody}
    BY DEF Init
  <2>4. file \in [Sessions -> Seq(Event \cup {Torn})] /\ cut \in [Sessions -> BOOLEAN]
    BY DEF Init, NoEvents
  <2>5. flush \in [Flushers -> {"idle", "called", "done", "failed"}] /\ base \in [Sessions -> Nat]
    BY DEF Init
  <2> QED BY <1>1, <2>1, <2>2, <2>3, <2>4, <2>5 DEF Init, TypeOK
<1>3. IdleOK
  BY <1>1 DEF Init, IdleOK
<1>4. ASSUME NEW s \in Sessions PROVE SessionOK(s)
  <2>1. /\ log[s] = <<>> /\ todo[s] = <<>> /\ pending[s] = <<>> /\ base[s] = 0 /\ ~cut[s]
        /\ s \notin opened /\ s \notin capped /\ s \notin ragged
    BY <1>1 DEF Init
  <2>2. Gone(s) = 0
    <3>1. Len(log[s]) = 0 /\ Len(todo[s]) = 0 /\ Len(pending[s]) = 0
      BY <2>1
    <3> QED BY <3>1 DEF Gone, Left
  <2>3. QueuedOK(s) /\ Numbered(s)
    BY <2>1, <2>2 DEF QueuedOK, Numbered
  <2>4. UnopenedOK(s) /\ CutOK(s) /\ LoadOK(s) /\ Reached(s) /\ Stored(s)
    BY <2>1 DEF UnopenedOK, CutOK, LoadOK, Reached, Stored
  <2> QED BY <2>3, <2>4 DEF SessionOK
<1> QED BY <1>2, <1>3, <1>4 DEF IInv

\* Where every event of a session is, however the writes to its file ended and whichever
\* process made them: read back from the file, or in the batch or the queue
\* (session-persistence.ts:149).
THEOREM EventsHavePlaces == Spec => []IInv
<1>1. Init => Due /\ IInv
  BY InitDue, InitIs
<1>2. Due /\ IInv /\ [Next]_vars => (Due /\ IInv)'
  BY StepKeepsDue, StepKeeps
<1> QED BY <1>1, <1>2, PTL DEF Spec

\* Every variable of the log of events has its type.
THEOREM TypeCorrect == Spec => []TypeOK
<1>1. IInv => TypeOK
  BY DEF IInv
<1> QED BY <1>1, EventsHavePlaces, PTL

\* What a load returns is the beginning of the log of the session, for logs of any length and
\* files torn, joined or written twice in any number of places (session-persistence.ts:149).
THEOREM LoadIsPrefixAlways == Spec => []LoadIsPrefix
<1>1. IInv => LoadIsPrefix
  BY DEF IInv, TypeOK, SessionOK, LoadOK, LoadIsPrefix
<1> QED BY <1>1, EventsHavePlaces, PTL

LEMMA SuffixIs ==
  ASSUME NEW lg \in Seq(Event), NEW x \in Seq(Event), NEW a \in Nat, Len(lg) = a + Len(x),
         \A j \in 1 .. Len(x) : x[j] = lg[a + j]
  PROVE  x = SubSeq(lg, a + 1, Len(lg))
<1>1. Len(lg) \in Nat /\ Len(x) \in Nat /\ \A i \in a + 1 .. Len(lg) : lg[i] \in Event
  OBVIOUS
<1>2. SubSeq(lg, a + 1, Len(lg)) \in Seq(Event)
  BY <1>1
<1>3. Len(SubSeq(lg, a + 1, Len(lg))) = Len(x)
  BY <1>1
<1>4. \A j \in 1 .. Len(x) : SubSeq(lg, a + 1, Len(lg))[j] = lg[a + j]
  BY <1>1
<1>5. PICK y \in Seq(Event) : y = SubSeq(lg, a + 1, Len(lg))
  BY <1>2
<1>6. Len(y) = Len(x) /\ \A j \in 1 .. Len(x) : y[j] = x[j]
  BY <1>3, <1>4, <1>5
<1>7. y = x
  BY <1>6
<1> QED BY <1>5, <1>7

LEMMA LeftIs ==
  ASSUME IInv, NEW s \in opened \ (capped \cup ragged), base[s] <= Len(Load(file[s]))
  PROVE  LET left == todo[s] \o pending[s] IN
         /\ left = SubSeq(log[s], Len(log[s]) - Len(left) + 1, Len(log[s]))
         /\ Len(Load(file[s])) + Len(left) >= Len(log[s])
<1>1. s \in Sessions
  BY DEF IInv, TypeOK
<1>2. SessionOK(s)
  BY <1>1 DEF IInv
<1>3. PICK q \in Seq(Event) : q = pending[s]
  BY <1>1, Typed
<1>4. PICK t \in Seq(Event) : t = todo[s]
  BY <1>1, Typed
<1>5. PICK lg \in Seq(Event) : lg = log[s]
  BY <1>1, Typed
<1>6. PICK a \in Nat : a = Gone(s)
  BY <1>1, Typed
<1>7. /\ t \o q \in Seq(Event) /\ Len(t \o q) = Len(t) + Len(q) /\ Len(t) \in Nat /\ Len(q) \in Nat
      /\ \A j \in 1 .. Len(t) : (t \o q)[j] = t[j]
      /\ \A j \in 1 .. Len(q) : (t \o q)[Len(t) + j] = q[j]
  BY CatIs
<1>8. a = Len(lg) - (Len(t) + Len(q)) /\ Len(lg) \in Nat
  BY <1>1, <1>3, <1>4, <1>5, <1>6, Typed
<1>9. Len(lg) - Len(t \o q) + 1 = a + 1 /\ Len(lg) = a + Len(t \o q)
  BY <1>7, <1>8
<1>10. \A j \in 1 .. Len(t \o q) : (t \o q)[j] = lg[a + j]
  <2>1. \A j \in 1 .. Len(t) : t[j] = lg[a + j]
    BY <1>2, <1>4, <1>5, <1>6 DEF SessionOK, QueuedOK
  <2>2. \A j \in 1 .. Len(q) : q[j] = lg[(a + Len(t)) + j]
    BY <1>2, <1>3, <1>4, <1>5, <1>6 DEF SessionOK, QueuedOK
  <2>3. ASSUME NEW j \in 1 .. Len(t) + Len(q) PROVE (t \o q)[j] = lg[a + j]
    <3>1. CASE j <= Len(t)
      BY <3>1, <2>1, <1>7
    <3>2. CASE ~(j <= Len(t))
      <4>1. PICK k \in 1 .. Len(q) : j = Len(t) + k
        <5>1. j - Len(t) \in 1 .. Len(q) /\ j = Len(t) + (j - Len(t))
          BY <3>2, <1>7
        <5> QED BY <5>1
      <4>2. a + j = (a + Len(t)) + k
        BY <4>1, <1>7
      <4> QED BY <4>1, <4>2, <2>2, <1>7
    <3> QED BY <3>1, <3>2
  <2> QED BY <2>3, <1>7
<1>11. t \o q = SubSeq(lg, a + 1, Len(lg))
  BY <1>7, <1>9, <1>10, SuffixIs
<1>12. PICK e \in Seq(Event) : e = Load(file[s])
  BY <1>1, Typed
<1>13. a <= Len(e) /\ Len(e) \in Nat
  BY <1>2, <1>6, <1>12 DEF SessionOK, Reached
<1>14. Len(e) + Len(t \o q) >= Len(lg)
  BY <1>7, <1>9, <1>13
<1> QED BY <1>3, <1>4, <1>5, <1>9, <1>11, <1>12, <1>14

\* What a load returns and what waits to be written make up the whole log, if what the session
\* began with is in its file, the file has room, and the session was not resumed behind a line
\* without an end (session-persistence.ts:210).
THEOREM NothingLostAlways == Spec => []NothingLost
<1>1. IInv => NothingLost
  BY LeftIs DEF NothingLost
<1> QED BY <1>1, EventsHavePlaces, PTL

\* Only the end of its loop lets a flush return.
LEMMA DoneIs ==
  ASSUME IInv, [Next]_vars, NEW f \in Flushers, flush[f] # "done", flush'[f] = "done"
  PROVE  pending = NoEvents /\ driver' = driver
<1>1. flush \in [Flushers -> {"idle", "called", "done", "failed"}]
  BY DEF IInv, TypeOK
<1>2. flush' # flush
  OBVIOUS
<1>3. ASSUME NEW g \in Flushers, Loop(g) \/ Await(g) PROVE pending = NoEvents /\ driver' = driver
  <2>1. CASE flush' = [flush EXCEPT ![g] = "called"]
    BY <2>1, <1>1
  <2> QED BY <2>1, <1>3 DEF Loop, Await
<1>4. ASSUME NEW s \in Sessions, NEW left, DrainFails(s, left) PROVE FALSE
  BY <1>1, <1>4 DEF DrainFails
<1>5. ASSUME NEW s \in Sessions, NEW left, Dies(s, left) PROVE FALSE
  BY <1>5 DEF Dies
<1>6. CASE GoesOn
  BY <1>2, <1>3, <1>6 DEF GoesOn
<1>7. ASSUME NEW g \in Flushers, CallFlush(g) PROVE pending = NoEvents /\ driver' = driver
  BY <1>3, <1>7 DEF CallFlush
<1>8. ASSUME NEW s \in Sessions, AppendEvent(s) \/ Resume(s) \/ WriteLines(s) PROVE FALSE
  BY <1>2, <1>8 DEF AppendEvent, Enqueue, Resume, queues, WriteLines
<1>9. ASSUME NEW s \in Sessions, NEW seed \in Seeds, Create(s, seed) \/ Fork(s, seed) PROVE FALSE
  BY <1>2, <1>9 DEF Create, Enqueue, Fork, queues
<1>10. CASE TimerFires \/ DrainEnds \/ UNCHANGED vars
  BY <1>2, <1>10 DEF TimerFires, DrainEnds, vars, queues
<1> QED BY <1>4, <1>5, <1>6, <1>7, <1>8, <1>9, <1>10 DEF Next

\* When a flush returns and no drain runs, every event queued so far is in the file of its
\* session, however often the writes before failed (session-persistence.ts:123).
THEOREM FlushIsBarrierAlways == Spec => FlushIsBarrier
<1> DEFINE Barrier ==
      \A f \in Flushers, s \in opened \ (capped \cup ragged) :
        flush[f] # "done" /\ flush'[f] = "done" /\ ~Active' =>
          \A i \in base[s] + 1 .. Len(log[s]) :
            \E n \in 1 .. Len(file[s]) : file[s][n] = log[s][i]
<1>1. IInv /\ [Next]_vars => Barrier
  <2> SUFFICES ASSUME IInv, [Next]_vars, NEW f \in Flushers, NEW s \in opened \ (capped \cup ragged),
                      flush[f] # "done", flush'[f] = "done", ~Active'
               PROVE  \A i \in base[s] + 1 .. Len(log[s]) :
                        \E n \in 1 .. Len(file[s]) : file[s][n] = log[s][i]
    OBVIOUS
  <2>1. s \in Sessions
    BY DEF IInv, TypeOK
  <2>2. pending = NoEvents /\ driver' = driver
    BY DoneIs
  <2>3. pending[s] = <<>> /\ todo[s] = <<>>
    BY <2>1, <2>2 DEF IInv, IdleOK, Active, NoEvents
  <2>4. Gone(s) = Len(log[s])
    <3>1. Len(todo[s]) = 0 /\ Len(pending[s]) = 0 /\ Len(log[s]) \in Nat
      BY <2>1, <2>3, Typed
    <3> QED BY <3>1 DEF Gone, Left
  <2> QED BY <2>1, <2>4 DEF IInv, SessionOK, Stored
<1>2. IInv /\ [Next]_vars => [Barrier]_vars
  BY <1>1
<1> QED BY <1>2, EventsHavePlaces, PTL DEF Spec, FlushIsBarrier
-----------------------------------------------------------------------------
\* What a queue has, and what it has in front of what.
Has(q, K) == \E i \in 1..Len(q) : q[i] \in K
Twice(q, K, L) == \E i, j \in 1..Len(q) : i < j /\ q[i] \in K /\ q[j] \in L

LEMMA HasNone == ASSUME NEW K, NEW L PROVE ~Has(<<>>, K) /\ ~Twice(<<>>, K, L)
BY DEF Has, Twice

LEMMA HasAppend ==
  ASSUME NEW S, NEW q \in Seq(S), NEW x \in S, NEW K, NEW L
  PROVE  /\ Has(Append(q, x), K) <=> (Has(q, K) \/ x \in K)
         /\ Twice(Append(q, x), K, L) <=> (Twice(q, K, L) \/ (Has(q, K) /\ x \in L))
<1> DEFINE a == Append(q, x)
           m == Len(q)
<1>1. m \in Nat /\ Len(a) = m + 1 /\ a[m + 1] = x /\ \A i \in 1..m : a[i] = q[i]
  OBVIOUS
<1> HIDE DEF a, m
<1>2. \A i : i \in 1..m + 1 <=> (i \in 1..m \/ i = m + 1)
  BY <1>1
<1>3. m + 1 \notin 1..m /\ \A i \in 1..m : i < m + 1 /\ ~(m + 1 < i)
  BY <1>1
<1>4. ~(m + 1 < m + 1)
  BY <1>1
<1>5. Has(a, K) <=> (Has(q, K) \/ x \in K)
  BY <1>1, <1>2 DEF Has, m
<1>6. Twice(a, K, L) => Twice(q, K, L) \/ (Has(q, K) /\ x \in L)
  <2>1. ASSUME NEW i \in 1..m + 1, NEW j \in 1..m + 1, i < j, a[i] \in K, a[j] \in L
        PROVE  Twice(q, K, L) \/ (Has(q, K) /\ x \in L)
    <3>1. i \in 1..m
      BY <2>1, <1>2, <1>3, <1>4
    <3>2. a[i] = q[i]
      BY <3>1, <1>1
    <3>3. CASE j \in 1..m
      <4>1. a[j] = q[j]
        BY <3>3, <1>1
      <4> QED BY <2>1, <3>1, <3>2, <3>3, <4>1 DEF Twice, m
    <3>4. CASE j = m + 1
      BY <2>1, <3>1, <3>2, <3>4, <1>1 DEF Has, m
    <3> QED BY <3>3, <3>4, <1>2
  <2> QED BY <2>1, <1>1 DEF Twice
<1>7. Twice(q, K, L) => Twice(a, K, L)
  <2>1. ASSUME NEW i \in 1..m, NEW j \in 1..m, i < j, q[i] \in K, q[j] \in L
        PROVE  Twice(a, K, L)
    <3>1. i \in 1..Len(a) /\ j \in 1..Len(a) /\ a[i] = q[i] /\ a[j] = q[j]
      BY <1>1, <1>2
    <3> QED BY <2>1, <3>1 DEF Twice
  <2> QED BY <2>1 DEF Twice, m
<1>8. Has(q, K) /\ x \in L => Twice(a, K, L)
  <2>1. ASSUME NEW i \in 1..m, q[i] \in K, x \in L
        PROVE  Twice(a, K, L)
    <3>1. i \in 1..Len(a) /\ m + 1 \in 1..Len(a) /\ a[i] = q[i] /\ a[m + 1] = x /\ i < m + 1
      BY <1>1, <1>2, <1>3
    <3> QED BY <2>1, <3>1 DEF Twice
  <2> QED BY <2>1 DEF Has, m
<1> QED BY <1>5, <1>6, <1>7, <1>8 DEF a

LEMMA HasTail ==
  ASSUME NEW S, NEW q \in Seq(S), q # <<>>, NEW K, NEW L
  PROVE  /\ Tail(q) \in Seq(S) /\ Head(q) \in S
         /\ Has(q, K) <=> (Head(q) \in K \/ Has(Tail(q), K))
         /\ Twice(q, K, L) <=> (Twice(Tail(q), K, L) \/ (Head(q) \in K /\ Has(Tail(q), L)))
<1> DEFINE r == Tail(q)
           m == Len(q)
<1>1. m \in Nat \ {0} /\ Len(r) = m - 1 /\ Head(q) = q[1] /\ \A i \in 1..m - 1 : r[i] = q[i + 1]
  OBVIOUS
<1>2. r \in Seq(S) /\ Head(q) \in S
  OBVIOUS
<1> HIDE DEF r, m
<1>3. \A i \in 1..m - 1 : i + 1 \in 1..m /\ 1 < i + 1
  BY <1>1
<1>4. \A i \in 1..m : i = 1 \/ (i - 1 \in 1..m - 1 /\ r[i - 1] = q[i])
  <2>1. ASSUME NEW i \in 1..m, i # 1 PROVE i - 1 \in 1..m - 1 /\ r[i - 1] = q[i]
    <3>1. i - 1 \in 1..m - 1 /\ (i - 1) + 1 = i
      BY <1>1, <2>1
    <3> QED BY <3>1, <1>1
  <2> QED BY <2>1
<1>5. 1 \in 1..m
  BY <1>1
<1>6. Has(q, K) <=> (q[1] \in K \/ Has(r, K))
  <2>1. Has(q, K) => q[1] \in K \/ Has(r, K)
    BY <1>1, <1>4 DEF Has, m
  <2>2. Has(r, K) => Has(q, K)
    BY <1>1, <1>3 DEF Has, m
  <2>3. q[1] \in K => Has(q, K)
    BY <1>5 DEF Has, m
  <2> QED BY <2>1, <2>2, <2>3
<1>7. Twice(q, K, L) => Twice(r, K, L) \/ (q[1] \in K /\ Has(r, L))
  <2>1. ASSUME NEW i \in 1..m, NEW j \in 1..m, i < j, q[i] \in K, q[j] \in L
        PROVE  Twice(r, K, L) \/ (q[1] \in K /\ Has(r, L))
    <3>1. j # 1 /\ i \in Int /\ j \in Int
      BY <2>1, <1>1
    <3>2. j - 1 \in 1..Len(r) /\ r[j - 1] = q[j]
      BY <3>1, <1>1, <1>4
    <3>3. CASE i = 1
      BY <2>1, <3>2, <3>3 DEF Has
    <3>4. CASE i # 1
      <4>1. i - 1 \in 1..Len(r) /\ r[i - 1] = q[i] /\ i - 1 < j - 1
        BY <2>1, <3>1, <3>4, <1>1, <1>4
      <4> QED BY <2>1, <3>2, <4>1 DEF Twice
    <3> QED BY <3>3, <3>4
  <2> QED BY <2>1 DEF Twice, m
<1>8. Twice(r, K, L) => Twice(q, K, L)
  <2>1. ASSUME NEW i \in 1..m - 1, NEW j \in 1..m - 1, i < j, r[i] \in K, r[j] \in L
        PROVE  Twice(q, K, L)
    <3>1. i + 1 \in 1..m /\ j + 1 \in 1..m /\ i + 1 < j + 1
      BY <2>1, <1>1
    <3>2. q[i + 1] \in K /\ q[j + 1] \in L
      BY <2>1, <1>1
    <3> QED BY <3>1, <3>2 DEF Twice, m
  <2> QED BY <2>1, <1>1 DEF Twice
<1>9. q[1] \in K /\ Has(r, L) => Twice(q, K, L)
  <2>1. ASSUME NEW i \in 1..m - 1, r[i] \in L, q[1] \in K
        PROVE  Twice(q, K, L)
    <3>1. i + 1 \in 1..m /\ 1 < i + 1 /\ q[i + 1] \in L
      BY <2>1, <1>1, <1>3
    <3> QED BY <2>1, <3>1, <1>5 DEF Twice, m
  <2> QED BY <2>1, <1>1 DEF Has
<1> QED BY <1>1, <1>2, <1>6, <1>7, <1>8, <1>9 DEF r
-----------------------------------------------------------------------------
\* Without is recursive over the queue: induction by a least counterexample.
Filters(q, t, f, m) ==
  f = [i \in 0..m |-> IF i = 0 THEN <<>>
                      ELSE IF q[i].tab = t THEN f[i - 1] ELSE Append(f[i - 1], q[i])]

LEMMA FiltersExist ==
  ASSUME NEW q \in Seq(Tx), NEW t
  PROVE  \E f : Filters(q, t, f, Len(q))
<1> SUFFICES ASSUME ~ \E f : Filters(q, t, f, Len(q))
             PROVE  FALSE
  OBVIOUS
<1> DEFINE Bad == {m \in Nat : ~ \E f : Filters(q, t, f, m)}
<1>1. Bad \subseteq Nat /\ Bad # {}
  <2>1. Len(q) \in Bad
    OBVIOUS
  <2> QED BY <2>1
<1>2. PICK m \in Bad : \A k \in Bad : m <= k
  <2> HIDE DEF Bad
  <2> QED BY <1>1, LeastNat
<1>3. m # 0
  <2>1. Filters(q, t, [i \in 0..0 |-> <<>>], 0)
    BY DEF Filters
  <2> QED BY <2>1, <1>2
<1>4. m - 1 \in Nat /\ m - 1 \notin Bad
  BY <1>2, <1>3
<1>5. PICK f : Filters(q, t, f, m - 1)
  BY <1>4
<1> DEFINE g == [i \in 0..m |-> IF i < m THEN f[i]
                                ELSE IF q[i].tab = t THEN f[i - 1] ELSE Append(f[i - 1], q[i])]
<1>6. Filters(q, t, g, m)
  <2> DEFINE h == [i \in 0..m |-> IF i = 0 THEN <<>>
                       ELSE IF q[i].tab = t THEN g[i - 1] ELSE Append(g[i - 1], q[i])]
  <2>1. ASSUME NEW i \in 0..m PROVE h[i] = g[i]
    <3>1. CASE i = 0
      BY <3>1, <1>4, <1>5 DEF Filters
    <3>2. CASE i # 0
      <4>1. i - 1 \in 0..m /\ i - 1 < m /\ g[i - 1] = f[i - 1]
        BY <3>2, <1>4
      <4>2. CASE i = m
        BY <3>2, <4>1, <4>2
      <4>3. CASE i # m
        <5>1. i \in 0..m - 1 /\ i < m /\ g[i] = f[i]
          BY <4>3, <1>4
        <5>2. f[i] = IF q[i].tab = t THEN f[i - 1] ELSE Append(f[i - 1], q[i])
          BY <5>1, <3>2, <1>5 DEF Filters
        <5> QED BY <5>1, <5>2, <4>1, <3>2
      <4> QED BY <4>2, <4>3
    <3> QED BY <3>1, <3>2
  <2> HIDE DEF g
  <2>2. h = [i \in 0..m |-> h[i]] /\ g = [i \in 0..m |-> g[i]]
    BY DEF g
  <2>3. g = h
    BY <2>1, <2>2
  <2> QED BY <2>3 DEF Filters
<1> QED BY <1>6, <1>2

LEMMA WithoutIs ==
  ASSUME NEW q \in Seq(Tx), NEW t
  PROVE  /\ Without(q, t) \in Seq(Tx)
         /\ \A K : Has(Without(q, t), K) <=> (\E i \in 1..Len(q) : q[i] \in K /\ q[i].tab # t)
         /\ \A K, L : Twice(Without(q, t), K, L) => Twice(q, K, L)
<1> DEFINE f == CHOOSE f : Filters(q, t, f, Len(q))
           Good(m) == /\ f[m] \in Seq(Tx)
                      /\ \A K : Has(f[m], K) <=> (\E i \in 1..m : q[i] \in K /\ q[i].tab # t)
                      /\ \A K, L : Twice(f[m], K, L) =>
                           \E i, j \in 1..m : i < j /\ q[i] \in K /\ q[j] \in L
           Bad == {m \in 0..Len(q) : ~Good(m)}
<1>1. Filters(q, t, f, Len(q))
  BY FiltersExist
<1>2. Without(q, t) = f[Len(q)]
  BY DEF Without, Filters
<1>3. Len(q) \in Nat
  OBVIOUS
<1>4. \A m \in 0..Len(q) :
        f[m] = IF m = 0 THEN <<>>
               ELSE IF q[m].tab = t THEN f[m - 1] ELSE Append(f[m - 1], q[m])
  <2> HIDE DEF f
  <2> QED BY <1>1 DEF Filters
<1> HIDE DEF f
<1>5. Good(0)
  <2>1. f[0] = <<>>
    <3>1. 0 \in 0..Len(q)
      BY <1>3
    <3> QED BY <1>4, <3>1
  <2>2. f[0] \in Seq(Tx)
    BY <2>1
  <2>3. \A i : i \notin 1..0
    OBVIOUS
  <2> QED BY <2>1, <2>2, <2>3, HasNone
<1>6. ASSUME NEW m \in 1..Len(q), Good(m - 1) PROVE Good(m)
  <2>0. m \in 0..Len(q) /\ m # 0 /\ q[m] \in Tx /\ m \in Nat
    BY <1>3
  <2>1. f[m] = IF q[m].tab = t THEN f[m - 1] ELSE Append(f[m - 1], q[m])
    BY <1>4, <2>0
  <2>2. \A i : i \in 1..m <=> (i \in 1..m - 1 \/ i = m)
    BY <2>0
  <2>3. \A i \in 1..m - 1 : i < m
    BY <2>0
  <2> DEFINE Kept(k, K) == \E i \in 1..k : q[i] \in K /\ q[i].tab # t
             Pair(k, K, L) == \E i, j \in 1..k : i < j /\ q[i] \in K /\ q[j] \in L
  <2>4. \A K : Kept(m, K) <=> (Kept(m - 1, K) \/ (q[m] \in K /\ q[m].tab # t))
    BY <2>2
  <2>5. \A K, L : Pair(m - 1, K, L) \/ (Kept(m - 1, K) /\ q[m] \in L) => Pair(m, K, L)
    BY <2>2, <2>3
  <2>6. /\ f[m - 1] \in Seq(Tx)
        /\ \A K : Has(f[m - 1], K) <=> Kept(m - 1, K)
        /\ \A K, L : Twice(f[m - 1], K, L) => Pair(m - 1, K, L)
    BY <1>6
  <2> HIDE DEF Kept, Pair
  <2>7. CASE q[m].tab = t
    BY <2>1, <2>4, <2>5, <2>6, <2>7 DEF Kept, Pair
  <2>8. CASE q[m].tab # t
    <3>1. f[m] = Append(f[m - 1], q[m])
      BY <2>1, <2>8
    <3>2. f[m] \in Seq(Tx)
      BY <2>0, <2>6, <3>1
    <3>3. \A K, L : /\ Has(f[m], K) <=> (Has(f[m - 1], K) \/ q[m] \in K)
                    /\ Twice(f[m], K, L) <=> (Twice(f[m - 1], K, L) \/ (Has(f[m - 1], K) /\ q[m] \in L))
      BY <2>0, <2>6, <3>1, HasAppend
    <3>4. \A K : Has(f[m], K) <=> Kept(m, K)
      BY <2>4, <2>6, <2>8, <3>3
    <3>5. \A K, L : Twice(f[m], K, L) => Pair(m, K, L)
      BY <2>5, <2>6, <3>3
    <3> QED BY <3>2, <3>4, <3>5 DEF Kept, Pair
  <2> QED BY <2>7, <2>8
<1>7. Good(Len(q))
  <2> HIDE DEF Good
  <2> SUFFICES ASSUME Bad # {} PROVE FALSE
    <3>1. Len(q) \in 0..Len(q)
      BY <1>3
    <3> QED BY <3>1
  <2>1. PICK m \in Bad : \A k \in Bad : m <= k
    <3>1. Bad \subseteq Nat
      BY <1>3
    <3> HIDE DEF Bad
    <3> QED BY <3>1, LeastNat
  <2>2. m # 0 /\ m \in 1..Len(q)
    BY <2>1, <1>3, <1>5
  <2>3. m - 1 \in 0..Len(q) /\ m - 1 < m
    BY <2>2, <1>3
  <2>4. m - 1 \notin Bad
    <3>1. m \in Nat
      BY <2>2
    <3> HIDE DEF Bad
    <3> QED BY <2>1, <2>3, <3>1
  <2>5. Good(m - 1)
    BY <2>3, <2>4
  <2>6. Good(m)
    BY <1>6, <2>2, <2>5
  <2> QED BY <2>1, <2>6
<1>8. \A K, L : Twice(f[Len(q)], K, L) => Twice(q, K, L)
  BY <1>7 DEF Twice
<1> QED BY <1>2, <1>7, <1>8
-----------------------------------------------------------------------------
\* What is under way between a tab and the store.
Happened == [kind : {"saved", "failed", "generation", "record"}, version : Versions]
TabSaves(t) == {x \in Tx : x.tab = t /\ x.kind = "save"}
TabLoads(t) == {x \in Tx : x.tab = t /\ x.kind # "save"}
TabReads(t) == {x \in Tx : x.tab = t /\ x.kind = "record"}
Answers == {e \in Happened : e.kind \in {"saved", "failed"}}
Loads == {e \in Happened : e.kind \in {"generation", "record"}}
Reads == {e \in Happened : e.kind = "record"}

\* q are the transactions, ev the events of t, now and next its saves, at where its load is:
\* one save and one load at a time; a load that has come to its record, or that runs while a
\* save waits to be sent, is behind the save that was sent.
SaveSent(t, q, ev) == Has(q, TabSaves(t)) \/ Has(ev, Answers)
LoadSent(t, q, ev) == Has(q, TabLoads(t)) \/ Has(ev, Loads)
ReadSent(t, q, ev) == Has(q, TabReads(t)) \/ Has(ev, Reads)
LoadFirst(t, q, ev) ==
  \/ Twice(q, TabLoads(t), TabSaves(t))
  \/ Has(ev, Loads) /\ Has(q, TabSaves(t))
  \/ Twice(ev, Loads, Answers)
Once(t, q, ev) ==
  /\ ~Twice(q, TabSaves(t), TabSaves(t)) /\ ~Twice(ev, Answers, Answers)
  /\ ~(Has(q, TabSaves(t)) /\ Has(ev, Answers))
  /\ ~Twice(q, TabLoads(t), TabLoads(t)) /\ ~Twice(ev, Loads, Loads)
  /\ ~(Has(q, TabLoads(t)) /\ Has(ev, Loads))
Says(t, q, ev, now) ==
  /\ \A x \in TabSaves(t) : Has(q, {x}) => x.version = now.version
  /\ \A e \in Answers : Has(ev, {e}) => e.version = now.version
Piped(t, q, ev, now, next, at) ==
  /\ Once(t, q, ev) /\ Says(t, q, ev, now)
  /\ now # NoSave <=> SaveSent(t, q, ev)
  /\ now = NoSave => next = NoSave
  /\ at = "none" => ~LoadSent(t, q, ev)
  /\ ReadSent(t, q, ev) => next = NoSave
  /\ ReadSent(t, q, ev) \/ next # NoSave => ~LoadFirst(t, q, ev)

LEMMA KindsOfTx ==
  ASSUME NEW x \in Tx, NEW t
  PROVE  /\ x \in TabSaves(t) <=> x.tab = t /\ x.kind = "save"
         /\ x \in TabLoads(t) <=> x.tab = t /\ x.kind # "save"
         /\ x \in TabReads(t) <=> x.tab = t /\ x.kind = "record"
BY DEF TabSaves, TabLoads, TabReads

LEMMA KindsOfEvent ==
  ASSUME NEW e \in Happened
  PROVE  /\ e \in Answers <=> e.kind \in {"saved", "failed"}
         /\ e \in Loads <=> e.kind \in {"generation", "record"}
         /\ e \in Reads <=> e.kind = "record"
BY DEF Answers, Loads, Reads

LEMMA ReadIsLoad ==
  ASSUME NEW q, NEW t
  PROVE  /\ Has(q, TabReads(t)) => Has(q, TabLoads(t))
         /\ Has(q, Reads) => Has(q, Loads)
BY DEF Has, TabReads, TabLoads, Reads, Loads

\* For another tab nothing changes.
Own(t) == {x \in Tx : x.tab = t}
AsBefore(t, q, r) ==
  \A K, L \in SUBSET Own(t) : (Has(r, K) <=> Has(q, K)) /\ (Twice(r, K, L) => Twice(q, K, L))

LEMMA PipedOther ==
  ASSUME NEW t, NEW q, NEW ev, NEW now, NEW next, NEW at, Piped(t, q, ev, now, next, at),
         NEW r, AsBefore(t, q, r)
  PROVE  Piped(t, r, ev, now, next, at)
<1> DEFINE S == TabSaves(t)  L == TabLoads(t)  R == TabReads(t)
<1>1. /\ S \in SUBSET Own(t) /\ L \in SUBSET Own(t) /\ R \in SUBSET Own(t)
      /\ \A x \in S : {x} \in SUBSET Own(t)
  BY DEF TabSaves, TabLoads, TabReads, Own
<1>2. /\ Has(r, S) <=> Has(q, S)
      /\ Has(r, L) <=> Has(q, L)
      /\ Has(r, R) <=> Has(q, R)
      /\ \A x \in S : Has(r, {x}) <=> Has(q, {x})
      /\ Twice(r, S, S) => Twice(q, S, S)
      /\ Twice(r, L, L) => Twice(q, L, L)
      /\ Twice(r, L, S) => Twice(q, L, S)
  BY <1>1 DEF AsBefore
<1> QED BY <1>2 DEF Piped, Once, Says, SaveSent, LoadSent, ReadSent, LoadFirst

LEMMA AppendOther ==
  ASSUME NEW q \in Seq(Tx), NEW x \in Tx, NEW t, x.tab # t
  PROVE  AsBefore(t, q, Append(q, x))
<1>1. \A K \in SUBSET Own(t) : x \notin K
  BY DEF Own
<1> QED BY <1>1, HasAppend DEF AsBefore

LEMMA TailOther ==
  ASSUME NEW q \in Seq(Tx), q # <<>>, NEW t, Head(q).tab # t
  PROVE  AsBefore(t, q, Tail(q))
<1>1. \A K \in SUBSET Own(t) : Head(q) \notin K
  BY DEF Own
<1> QED BY <1>1, HasTail DEF AsBefore

LEMMA WithoutOther ==
  ASSUME NEW q \in Seq(Tx), NEW u, NEW t, u # t
  PROVE  AsBefore(t, q, Without(q, u))
<1>1. ASSUME NEW K \in SUBSET Own(t) PROVE Has(Without(q, u), K) <=> Has(q, K)
  <2>1. \A i \in 1..Len(q) : q[i] \in K => q[i].tab # u
    BY DEF Own
  <2> QED BY <2>1, WithoutIs DEF Has
<1> QED BY <1>1, WithoutIs DEF AsBefore

\* A save is sent at once.
LEMMA PipedSend ==
  ASSUME NEW t, NEW q \in Seq(Tx), NEW ev, NEW now, NEW next, Piped(t, q, ev, NoSave, next, "none"),
         NEW x \in Tx, x \in TabSaves(t), now # NoSave, x.version = now.version
  PROVE  Piped(t, Append(q, x), ev, now, NoSave, "none")
<1> DEFINE a == Append(q, x)  S == TabSaves(t)  L == TabLoads(t)  R == TabReads(t)
<1>1. x \in S /\ x \notin L /\ x \notin R /\ \A y : x \in {y} => y = x
  BY KindsOfTx
<1>0. \A K, M : /\ Has(a, K) <=> (Has(q, K) \/ x \in K)
                /\ Twice(a, K, M) <=> (Twice(q, K, M) \/ (Has(q, K) /\ x \in M))
  BY HasAppend
<1>2. /\ Has(a, S) /\ (Has(a, L) <=> Has(q, L)) /\ (Has(a, R) <=> Has(q, R))
      /\ Twice(a, S, S) <=> (Twice(q, S, S) \/ Has(q, S))
      /\ Twice(a, L, L) <=> Twice(q, L, L)
      /\ Twice(a, L, S) <=> (Twice(q, L, S) \/ Has(q, L))
      /\ \A y : Has(a, {y}) => Has(q, {y}) \/ y = x
  <2> HIDE DEF a, S, L, R
  <2> QED BY <1>1, <1>0
<1>3. ~Has(q, S) /\ ~Has(ev, Answers) /\ ~Has(q, L) /\ ~Has(ev, Loads) /\ ~Has(q, R) /\ ~Has(ev, Reads)
  BY ReadIsLoad DEF Piped, SaveSent, LoadSent
<1>4. \A y \in S : ~Has(q, {y})
  BY <1>3 DEF Has
<1>5. \A e \in Answers : ~Has(ev, {e})
  BY <1>3 DEF Has
<1> HIDE DEF a, S, L, R
<1> QED BY <1>2, <1>3, <1>4, <1>5 DEF Piped, Once, Says, SaveSent, LoadSent, ReadSent, LoadFirst, a, S, L, R

\* A save is merged into the one that waits.
LEMMA PipedMerge ==
  ASSUME NEW t, NEW q, NEW ev, NEW now, NEW next, Piped(t, q, ev, now, next, "none"),
         now # NoSave, NEW s
  PROVE  Piped(t, q, ev, now, s, "none")
<1>1. ~Has(q, TabLoads(t)) /\ ~Has(ev, Loads)
  BY DEF Piped, LoadSent
<1>2. ~Twice(q, TabLoads(t), TabSaves(t)) /\ ~Twice(ev, Loads, Answers)
  BY <1>1 DEF Has, Twice
<1>3. ~ReadSent(t, q, ev)
  BY <1>1, ReadIsLoad DEF ReadSent
<1> QED BY <1>1, <1>2, <1>3 DEF Piped, LoadFirst

\* A load is begun.
LEMMA PipedLoad ==
  ASSUME NEW t, NEW q \in Seq(Tx), NEW ev, NEW now, NEW next, Piped(t, q, ev, now, next, "none"),
         NEW x \in Tx, x.tab = t, x.kind = "generation"
  PROVE  Piped(t, Append(q, x), ev, now, next, "reading")
<1> DEFINE a == Append(q, x)  S == TabSaves(t)  L == TabLoads(t)  R == TabReads(t)
<1>1. x \notin S /\ x \in L /\ x \notin R
  BY KindsOfTx
<1>0. \A K, M : /\ Has(a, K) <=> (Has(q, K) \/ x \in K)
                /\ Twice(a, K, M) <=> (Twice(q, K, M) \/ (Has(q, K) /\ x \in M))
  BY HasAppend
<1>2. /\ (Has(a, S) <=> Has(q, S)) /\ (Has(a, R) <=> Has(q, R))
      /\ Twice(a, S, S) <=> Twice(q, S, S)
      /\ Twice(a, L, L) <=> (Twice(q, L, L) \/ Has(q, L))
      /\ Twice(a, L, S) <=> Twice(q, L, S)
      /\ \A y \in S : Has(a, {y}) => Has(q, {y})
  <2> HIDE DEF a, S, L, R
  <2>1. \A y \in S : x \notin {y}
    BY <1>1
  <2> QED BY <1>1, <1>0, <2>1
<1>3. ~Has(q, L) /\ ~Has(ev, Loads) /\ ~Has(q, R) /\ ~Has(ev, Reads)
  BY ReadIsLoad DEF Piped, LoadSent
<1>4. ~Twice(q, L, S) /\ ~Twice(ev, Loads, Answers) /\ ~Twice(ev, Loads, Loads) /\ ~Twice(q, L, L)
  BY <1>3 DEF Has, Twice
<1> HIDE DEF a, S, L, R
<1> QED BY <1>2, <1>3, <1>4 DEF Piped, Once, Says, SaveSent, LoadSent, ReadSent, LoadFirst, a, S, L, R

\* The store runs the oldest transaction, x, of t, and answers e.
LEMMA PipedStep ==
  ASSUME NEW t, NEW q \in Seq(Tx), q # <<>>, Head(q).tab = t,
         NEW ev \in Seq(Happened), NEW now, NEW next, NEW at, Piped(t, q, ev, now, next, at),
         NEW e \in Happened,
         \/ Head(q).kind = "save" /\ e.kind \in {"saved", "failed"} /\ e.version = Head(q).version
         \/ Head(q).kind # "save" /\ e.kind = Head(q).kind
  PROVE  Piped(t, Tail(q), Append(ev, e), now, next, at)
<1> DEFINE x == Head(q)  r == Tail(q)  b == Append(ev, e)
           S == TabSaves(t)  L == TabLoads(t)  R == TabReads(t)
<1>1. x \in Tx /\ \A K, M : /\ Has(q, K) <=> (x \in K \/ Has(r, K))
                            /\ Twice(q, K, M) <=> (Twice(r, K, M) \/ (x \in K /\ Has(r, M)))
  BY HasTail
<1>2. \A K, M : /\ Has(b, K) <=> (Has(ev, K) \/ e \in K)
                /\ Twice(b, K, M) <=> (Twice(ev, K, M) \/ (Has(ev, K) /\ e \in M))
  BY HasAppend
<1>3. x.kind \in {"save", "generation", "record"}
  BY <1>1 DEF Tx
<1>4. /\ x \in S <=> e \in Answers
      /\ x \in L <=> e \in Loads
      /\ x \in R <=> e \in Reads
      /\ x \in S <=> ~(x \in L)
      /\ x \in R => x \in L
      /\ x \in S => e.version = x.version
  BY <1>1, <1>3, KindsOfTx, KindsOfEvent
<1>5. /\ Once(t, q, ev) /\ Says(t, q, ev, now)
      /\ now # NoSave <=> SaveSent(t, q, ev)
      /\ now = NoSave => next = NoSave
      /\ at = "none" => ~LoadSent(t, q, ev)
      /\ ReadSent(t, q, ev) => next = NoSave
      /\ ReadSent(t, q, ev) \/ next # NoSave => ~LoadFirst(t, q, ev)
  BY DEF Piped
<1> HIDE DEF x, r, b, S, L, R
<1>6. Once(t, r, b)
  BY <1>1, <1>2, <1>4, <1>5 DEF Once, S, L
<1>7. Says(t, r, b, now)
  <2>1. \A y \in S : Has(r, {y}) => y.version = now.version
    BY <1>1, <1>5 DEF Says, S
  <2>2. \A y \in Answers : Has(b, {y}) => y.version = now.version
    <3>1. ASSUME NEW y \in Answers, Has(b, {y}) PROVE y.version = now.version
      <4>1. CASE Has(ev, {y})
        BY <4>1, <1>5 DEF Says
      <4>2. CASE y = e
        <5>1. x \in S /\ Has(q, {x})
          BY <4>2, <3>1, <1>1, <1>4
        <5>2. x.version = now.version
          BY <5>1, <1>5 DEF Says, S
        <5> QED BY <5>1, <5>2, <4>2, <1>4
      <4> QED BY <3>1, <1>2, <4>1, <4>2
    <3> QED BY <3>1
  <2> QED BY <2>1, <2>2 DEF Says, S
<1>8. /\ SaveSent(t, r, b) <=> SaveSent(t, q, ev)
      /\ LoadSent(t, r, b) <=> LoadSent(t, q, ev)
      /\ ReadSent(t, r, b) <=> ReadSent(t, q, ev)
  BY <1>1, <1>2, <1>4 DEF SaveSent, LoadSent, ReadSent, S, L, R
<1>9. LoadFirst(t, r, b) => LoadFirst(t, q, ev)
  BY <1>1, <1>2, <1>4 DEF LoadFirst, S, L
<1> QED BY <1>5, <1>6, <1>7, <1>8, <1>9 DEF Piped, r, b

\* t handles the answer to its save; the save that waited is sent.
LEMMA PipedAnswered ==
  ASSUME NEW t, NEW q \in Seq(Tx), NEW ev \in Seq(Happened), ev # <<>>, Head(ev) \in Answers,
         NEW now, NEW next, NEW at, Piped(t, q, ev, now, next, at)
  PROVE  /\ next = NoSave => Piped(t, q, Tail(ev), next, NoSave, at)
         /\ \A x \in TabSaves(t) :
              x.version = next.version /\ next # NoSave =>
                Piped(t, Append(q, x), Tail(ev), next, NoSave, at)
<1> DEFINE e == Head(ev)  b == Tail(ev)
           S == TabSaves(t)  L == TabLoads(t)  R == TabReads(t)
<1>1. e \in Happened /\ \A K, M : /\ Has(ev, K) <=> (e \in K \/ Has(b, K))
                                  /\ Twice(ev, K, M) <=> (Twice(b, K, M) \/ (e \in K /\ Has(b, M)))
  BY HasTail
<1>2. e \in Answers /\ e \notin Loads /\ e \notin Reads
  BY <1>1, KindsOfEvent
<1>3. /\ Once(t, q, ev)
      /\ at = "none" => ~LoadSent(t, q, ev)
      /\ ReadSent(t, q, ev) => next = NoSave
  BY DEF Piped
<1> HIDE DEF e, b, S, L, R
<1>4. ~Has(q, S) /\ ~Has(b, Answers) /\ ~Twice(b, Answers, Answers)
  BY <1>1, <1>2, <1>3 DEF Once, S
<1>5. /\ ~Twice(q, L, L) /\ ~Twice(b, Loads, Loads) /\ ~(Has(q, L) /\ Has(b, Loads))
      /\ at = "none" => ~Has(q, L) /\ ~Has(b, Loads)
      /\ next # NoSave => ~Has(q, R) /\ ~Has(b, Reads)
  BY <1>1, <1>2, <1>3 DEF Once, LoadSent, ReadSent, L, R
<1>6. ~Twice(q, S, S) /\ ~Twice(q, L, S) /\ ~Twice(b, Loads, Answers)
  BY <1>4 DEF Has, Twice
<1>7. (\A y \in S : ~Has(q, {y})) /\ (\A y \in Answers : ~Has(b, {y}))
  BY <1>4 DEF Has
<1>8. next = NoSave => Piped(t, q, b, next, NoSave, at)
  BY <1>4, <1>5, <1>6, <1>7 DEF Piped, Once, Says, SaveSent, LoadSent, ReadSent, LoadFirst, S, L, R
<1>9. ASSUME NEW x \in S, x.version = next.version, next # NoSave
      PROVE  Piped(t, Append(q, x), b, next, NoSave, at)
  <2> DEFINE a == Append(q, x)
  <2>1. x \in Tx /\ x \notin L /\ x \notin R
    BY <1>9, KindsOfTx DEF S, L, R, TabSaves
  <2>2. \A K, M : /\ Has(a, K) <=> (Has(q, K) \/ x \in K)
                  /\ Twice(a, K, M) <=> (Twice(q, K, M) \/ (Has(q, K) /\ x \in M))
    BY <2>1, HasAppend
  <2> HIDE DEF a
  <2>3. /\ Has(a, S) /\ (Has(a, L) <=> Has(q, L)) /\ ~Has(a, R) /\ ~Has(b, Reads)
        /\ ~Twice(a, S, S) /\ ~Twice(a, L, L)
        /\ \A y \in S : Has(a, {y}) => y = x
    BY <1>4, <1>5, <1>6, <1>7, <1>9, <2>1, <2>2
  <2>4. Once(t, a, b)
    BY <1>4, <1>5, <2>3 DEF Once, S, L
  <2>5. Says(t, a, b, next)
    BY <1>7, <1>9, <2>3 DEF Says, S
  <2>6. SaveSent(t, a, b) /\ ~ReadSent(t, a, b) /\ (at = "none" => ~LoadSent(t, a, b))
    BY <1>5, <2>3 DEF SaveSent, LoadSent, ReadSent, S, L, R
  <2> QED BY <1>9, <2>4, <2>5, <2>6 DEF Piped, a
<1> QED BY <1>8, <1>9 DEF b, S

\* t learns the generation and asks for the record: no save can be waiting then.
LEMMA PipedGeneration ==
  ASSUME NEW t, NEW q \in Seq(Tx), NEW ev \in Seq(Happened), ev # <<>>, Head(ev).kind = "generation",
         NEW now, NEW next, NEW at, Piped(t, q, ev, now, next, at),
         NEW x \in Tx, x.tab = t, x.kind = "record"
  PROVE  Piped(t, Append(q, x), Tail(ev), now, next, at)
<1> DEFINE e == Head(ev)  a == Append(q, x)  b == Tail(ev)
           S == TabSaves(t)  L == TabLoads(t)  R == TabReads(t)
<1>1. e \in Happened /\ \A K, M : /\ Has(ev, K) <=> (e \in K \/ Has(b, K))
                                  /\ Twice(ev, K, M) <=> (Twice(b, K, M) \/ (e \in K /\ Has(b, M)))
  BY HasTail
<1>2. \A K, M : /\ Has(a, K) <=> (Has(q, K) \/ x \in K)
                /\ Twice(a, K, M) <=> (Twice(q, K, M) \/ (Has(q, K) /\ x \in M))
  BY HasAppend
<1>3. e \notin Answers /\ e \in Loads /\ x \notin S /\ x \in L /\ x \in R
  BY <1>1, KindsOfEvent, KindsOfTx
<1>4. /\ Once(t, q, ev) /\ Says(t, q, ev, now)
      /\ now # NoSave <=> SaveSent(t, q, ev)
      /\ now = NoSave => next = NoSave
      /\ at = "none" => ~LoadSent(t, q, ev)
      /\ next # NoSave => ~LoadFirst(t, q, ev)
  BY DEF Piped
<1> HIDE DEF e, a, b, S, L, R
<1>5. ~Has(q, L) /\ ~Has(b, Loads)
  BY <1>1, <1>3, <1>4 DEF Once, L
<1>6. ~Twice(q, L, S) /\ ~Twice(q, L, L) /\ ~Twice(b, Loads, Answers) /\ ~Twice(b, Loads, Loads)
  BY <1>5 DEF Has, Twice
<1>7. next = NoSave
  BY <1>1, <1>3, <1>4 DEF LoadFirst, SaveSent, S
<1>8. /\ Has(a, S) <=> Has(q, S)
      /\ Has(b, Answers) <=> Has(ev, Answers)
      /\ ~Twice(a, S, S) /\ ~Twice(b, Answers, Answers) /\ ~Twice(a, L, L) /\ ~Twice(a, L, S)
      /\ ~(Has(q, S) /\ Has(ev, Answers))
  BY <1>1, <1>2, <1>3, <1>4, <1>5, <1>6 DEF Once, S, L
<1>9. Once(t, a, b)
  BY <1>5, <1>6, <1>8 DEF Once, S, L
<1>10. Says(t, a, b, now)
  <2>1. \A y \in S : Has(a, {y}) => Has(q, {y})
    <3>1. \A y \in S : x \notin {y}
      BY <1>3
    <3> QED BY <1>2, <3>1
  <2>2. \A y \in Answers : Has(b, {y}) => Has(ev, {y})
    BY <1>1
  <2> QED BY <1>4, <2>1, <2>2 DEF Says, S
<1>11. /\ SaveSent(t, a, b) <=> SaveSent(t, q, ev)
       /\ ~LoadFirst(t, a, b)
       /\ at # "none"
  BY <1>1, <1>3, <1>4, <1>5, <1>6, <1>8 DEF SaveSent, LoadSent, LoadFirst, S, L
<1> QED BY <1>4, <1>7, <1>9, <1>10, <1>11 DEF Piped, a, b

\* t adopts the record: no save of its own is under way then.
LEMMA PipedRead ==
  ASSUME NEW t, NEW q \in Seq(Tx), NEW ev \in Seq(Happened), ev # <<>>, Head(ev).kind = "record",
         NEW now, NEW next, NEW at, Piped(t, q, ev, now, next, at)
  PROVE  Piped(t, q, Tail(ev), now, next, "none") /\ now = NoSave /\ next = NoSave
<1> DEFINE e == Head(ev)  b == Tail(ev)
           S == TabSaves(t)  L == TabLoads(t)  R == TabReads(t)
<1>1. e \in Happened /\ \A K, M : /\ Has(ev, K) <=> (e \in K \/ Has(b, K))
                                  /\ Twice(ev, K, M) <=> (Twice(b, K, M) \/ (e \in K /\ Has(b, M)))
  BY HasTail
<1>2. e \notin Answers /\ e \in Loads /\ e \in Reads
  BY <1>1, KindsOfEvent
<1>3. /\ Once(t, q, ev)
      /\ now # NoSave <=> SaveSent(t, q, ev)
      /\ now = NoSave => next = NoSave
      /\ ReadSent(t, q, ev) => ~LoadFirst(t, q, ev)
  BY DEF Piped
<1> HIDE DEF e, b, S, L, R
<1>4. ~Has(q, L) /\ ~Has(b, Loads)
  BY <1>1, <1>2, <1>3 DEF Once, L
<1>5. ~LoadFirst(t, q, ev)
  BY <1>1, <1>2, <1>3 DEF ReadSent
<1>6. ~Has(q, S) /\ ~Has(b, Answers)
  BY <1>1, <1>2, <1>5 DEF LoadFirst, S
<1>7. now = NoSave /\ next = NoSave
  BY <1>1, <1>2, <1>3, <1>6 DEF SaveSent, S
<1>8. /\ \A K : ~Twice(q, S, K) /\ ~Twice(q, L, K)
      /\ \A K : ~Twice(b, Answers, K) /\ ~Twice(b, Loads, K)
      /\ \A y \in S : ~Has(q, {y})
      /\ \A y \in Answers : ~Has(b, {y})
  BY <1>4, <1>6 DEF Has, Twice
<1>9. ~Has(q, R) /\ ~Has(b, Reads)
  BY <1>4, ReadIsLoad DEF L, R
<1> QED BY <1>4, <1>6, <1>7, <1>8, <1>9
       DEF Piped, Once, Says, SaveSent, LoadSent, ReadSent, LoadFirst, b, S, L, R

\* The page of t died.
LEMMA PipedFresh ==
  ASSUME NEW t, NEW q, \A K \in SUBSET Own(t) : ~Has(q, K)
  PROVE  Piped(t, q, <<>>, NoSave, NoSave, "none")
<1> DEFINE S == TabSaves(t)  L == TabLoads(t)  R == TabReads(t)
<1>1. /\ S \in SUBSET Own(t) /\ L \in SUBSET Own(t) /\ R \in SUBSET Own(t)
      /\ \A x \in S : {x} \in SUBSET Own(t)
  BY DEF TabSaves, TabLoads, TabReads, Own
<1>2. ~Has(q, S) /\ ~Has(q, L) /\ ~Has(q, R) /\ \A x \in S : ~Has(q, {x})
  BY <1>1
<1>3. ~Twice(q, S, S) /\ ~Twice(q, L, L) /\ ~Twice(q, L, S)
  BY <1>2 DEF Has, Twice
<1> QED BY <1>2, <1>3, HasNone DEF Piped, Once, Says, SaveSent, LoadSent, ReadSent, LoadFirst

LEMMA WithoutOwn ==
  ASSUME NEW q \in Seq(Tx), NEW t
  PROVE  \A K \in SUBSET Own(t) : ~Has(Without(q, t), K)
BY WithoutIs DEF Own
-----------------------------------------------------------------------------
\* The types.
Copies == [version : Versions, trimmed : BOOLEAN]
Stamps == [rev : Versions, trimmed : BOOLEAN, acked : BOOLEAN]
Pairs == [now : Save, next : Save]

LEMMA VersionsAre == Versions \subseteq Nat /\ 0 \in Versions /\ MaxSaves \in Nat
BY CacheAssumption DEF Versions

LEMMA TypedAre ==
  ASSUME CacheTypeOK
  PROVE  /\ saves \in Versions /\ db \in Versions /\ cached \in Versions /\ confirmed \in Versions
         /\ oh \in Copies /\ stamp \in Stamps /\ txs \in Seq(Tx)
         /\ open \in [Tabs -> BOOLEAN] /\ mem \in [Tabs -> Versions]
         /\ load \in [Tabs -> {"none", "reading"}] /\ seen \in [Tabs -> Versions]
         /\ durable \in [Tabs -> BOOLEAN] /\ saving \in [Tabs -> Pairs]
         /\ events \in [Tabs -> Seq(Happened)]
         /\ turns \in [Tabs -> {"none", "leased", "loose"}] /\ asked \in [Tabs -> BOOLEAN]
         /\ crashes \in 0..MaxCrashes /\ races \subseteq Races
         /\ \A t \in Tabs : saving[t].now = NoSave => saving[t].next = NoSave
BY DEF CacheTypeOK, Copies, Stamps, Pairs, Happened

LEMMA TypedIs ==
  ASSUME saves' \in Versions, db' \in Versions, cached' \in Versions, confirmed' \in Versions,
         oh' \in Copies, stamp' \in Stamps, txs' \in Seq(Tx),
         open' \in [Tabs -> BOOLEAN], mem' \in [Tabs -> Versions],
         load' \in [Tabs -> {"none", "reading"}], seen' \in [Tabs -> Versions],
         durable' \in [Tabs -> BOOLEAN], saving' \in [Tabs -> Pairs],
         events' \in [Tabs -> Seq(Happened)],
         turns' \in [Tabs -> {"none", "leased", "loose"}], asked' \in [Tabs -> BOOLEAN],
         crashes' \in 0..MaxCrashes, races' \subseteq Races,
         \A t \in Tabs : saving'[t].now = NoSave => saving'[t].next = NoSave
  PROVE  CacheTypeOK'
BY DEF CacheTypeOK, Copies, Stamps, Pairs, Happened

LEMMA StampsAre ==
  /\ NoStamp \in Stamps
  /\ \A r \in Versions, b, c \in BOOLEAN : [rev |-> r, trimmed |-> b, acked |-> c] \in Stamps
  /\ \A v \in Versions, b \in BOOLEAN : [version |-> v, trimmed |-> b] \in Copies
  /\ \A s \in Stamps : [s EXCEPT !.acked = TRUE] \in Stamps
BY VersionsAre DEF Stamps, Copies, NoStamp

LEMMA SavesAre ==
  /\ NoSave \in Save
  /\ \A v \in Versions, R \in SUBSET (1..MaxSaves) : [version |-> v, revs |-> R] \in Save
  /\ \A s \in Save : s.version \in Versions /\ s.revs \in SUBSET (1..MaxSaves)
  /\ \A a, b \in Save : [now |-> a, next |-> b] \in Pairs
  /\ \A p \in Pairs : p.now \in Save /\ p.next \in Save /\ p = [now |-> p.now, next |-> p.next]
BY VersionsAre DEF Save, Pairs, NoSave

LEMMA TxsAre ==
  ASSUME NEW t \in Tabs, NEW v \in Versions, NEW k \in {"save", "generation", "record"}
  PROVE  [tab |-> t, kind |-> k, version |-> v] \in Tx
BY DEF Tx

SaveTx(t, v) == [tab |-> t, kind |-> "save", version |-> v]

\* What a save of version v does to what is under way.
Sent(t, v, s, p, q) ==
  \/ /\ p[t].now = NoSave /\ p'[t].next = p[t].next
     /\ p'[t].now = [version |-> v, revs |-> {s}]
     /\ q' = Append(q, SaveTx(t, v))
  \/ /\ p[t].now # NoSave /\ p'[t].now = p[t].now
     /\ p'[t].next = [version |-> v, revs |-> {s} \cup p[t].next.revs]
     /\ q' = q

LEMMA SendStep ==
  ASSUME CacheTypeOK, NEW t \in Tabs, NEW v \in Versions, saves + 1 \in Versions, SendToStore(t, v)
  PROVE  /\ saving' \in [Tabs -> Pairs] /\ txs' \in Seq(Tx)
         /\ \A u \in Tabs \ {t} : saving'[u] = saving[u]
         /\ Sent(t, v, saves + 1, saving, txs)
<1> DEFINE p == saving[t]
           s == [version |-> v, revs |-> {saves + 1}]
           m == [version |-> v, revs |-> {saves + 1} \cup p.next.revs]
<1>1. /\ saving \in [Tabs -> Pairs] /\ p \in Pairs /\ p.now \in Save /\ p.next \in Save
      /\ p = [now |-> p.now, next |-> p.next] /\ txs \in Seq(Tx)
  BY TypedAre, SavesAre
<1>2. {saves + 1} \in SUBSET (1..MaxSaves)
  <2>1. saves \in 0..MaxSaves /\ MaxSaves \in Nat /\ saves + 1 \in 0..MaxSaves
    BY TypedAre, VersionsAre DEF Versions
  <2>2. saves + 1 \in 1..MaxSaves
    BY <2>1
  <2> QED BY <2>2
<1>3. s \in Save /\ m \in Save
  <2>1. p.next.revs \in SUBSET (1..MaxSaves)
    BY <1>1, SavesAre
  <2>2. {saves + 1} \cup p.next.revs \in SUBSET (1..MaxSaves)
    BY <1>2, <2>1
  <2> QED BY <1>2, <2>2, SavesAre
<1>4. CASE p.now = NoSave
  <2>1. saving' = [saving EXCEPT ![t].now = s] /\ txs' = Append(txs, SaveTx(t, v))
    BY <1>4 DEF SendToStore, SaveTx
  <2>2. saving' = [saving EXCEPT ![t] = [now |-> s, next |-> p.next]]
    <3> HIDE DEF s, p
    <3>1. [p EXCEPT !.now = s] = [now |-> s, next |-> p.next]
      BY <1>1
    <3> QED BY <2>1, <3>1 DEF p
  <2>3. [now |-> s, next |-> p.next] \in Pairs
    BY <1>1, <1>3, SavesAre
  <2> HIDE DEF s
  <2>4. saving' \in [Tabs -> Pairs] /\ saving'[t] = [now |-> s, next |-> p.next]
        /\ \A u \in Tabs \ {t} : saving'[u] = saving[u]
    BY <1>1, <2>2, <2>3
  <2>5. SaveTx(t, v) \in Tx
    BY TxsAre DEF SaveTx
  <2>6. txs' \in Seq(Tx)
    BY <1>1, <2>1, <2>5
  <2>7. saving'[t].now = s /\ saving'[t].next = p.next
    BY <2>4
  <2> QED BY <1>4, <2>1, <2>4, <2>6, <2>7 DEF Sent, s
<1>5. CASE p.now # NoSave
  <2>1. saving' = [saving EXCEPT ![t].next = [s EXCEPT !.revs = @ \cup p.next.revs]] /\ txs' = txs
    BY <1>5 DEF SendToStore
  <2>2. [s EXCEPT !.revs = @ \cup p.next.revs] = m
    OBVIOUS
  <2>3. saving' = [saving EXCEPT ![t] = [now |-> p.now, next |-> m]]
    <3> HIDE DEF m, s
    <3>1. [p EXCEPT !.next = m] = [now |-> p.now, next |-> m]
      BY <1>1
    <3> QED BY <2>1, <2>2, <3>1
  <2>4. [now |-> p.now, next |-> m] \in Pairs
    BY <1>1, <1>3, SavesAre
  <2> HIDE DEF m
  <2>5. saving' \in [Tabs -> Pairs] /\ saving'[t] = [now |-> p.now, next |-> m]
        /\ \A u \in Tabs \ {t} : saving'[u] = saving[u]
    BY <1>1, <2>3, <2>4
  <2>6. saving'[t].now = p.now /\ saving'[t].next = m
    BY <2>5
  <2> QED BY <1>1, <1>5, <2>1, <2>5, <2>6 DEF Sent, m
<1> QED BY <1>4, <1>5
-----------------------------------------------------------------------------
\* What is under way, whatever happened: the first part of the invariant.
Pipe(t) == Piped(t, txs, events[t], saving[t].now, saving[t].next, load[t])
Named ==
  /\ stamp.rev <= saves
  /\ \A t \in Tabs :
       /\ turns[t] # "none" => open[t]
       /\ \A r \in saving[t].now.revs \cup saving[t].next.revs : r <= saves
       /\ seen[t] <= saves
UnderWay == CacheTypeOK /\ Named /\ \A t \in Tabs : Pipe(t)

LEMMA UnderWayInit == CacheInit => UnderWay
<1> SUFFICES ASSUME CacheInit PROVE UnderWay
  OBVIOUS
<1>1. CacheTypeOK
  <2>1. 0 \in Versions /\ 0 \in 0..MaxCrashes
    BY VersionsAre, CacheAssumption
  <2>2. NoSave \in Save
    BY SavesAre
  <2> QED BY <2>1, <2>2 DEF CacheInit, CacheTypeOK, NoStamp
<1>2. Named
  <2>1. stamp.rev <= saves
    BY DEF CacheInit, NoStamp
  <2>2. ASSUME NEW t \in Tabs PROVE turns[t] = "none" /\ saving[t].now.revs = {} /\ saving[t].next.revs = {} /\ seen[t] <= saves
    BY DEF CacheInit, NoSave
  <2> QED BY <2>1, <2>2 DEF Named
<1>3. ASSUME NEW t \in Tabs PROVE Pipe(t)
  <2>1. \A K : ~Has(txs, K)
    BY DEF CacheInit, Has
  <2>2. events[t] = <<>> /\ saving[t].now = NoSave /\ saving[t].next = NoSave /\ load[t] = "none"
    BY DEF CacheInit
  <2> QED BY <2>1, <2>2, PipedFresh DEF Pipe
<1> QED BY <1>1, <1>2, <1>3 DEF UnderWay

\* A save of t.
LEMMA SaveStep ==
  ASSUME CacheTypeOK, NEW t \in Tabs, NEW v, v \in Versions \/ v = saves + 1, SaveHistory(t, v)
  PROVE  /\ saves' = saves + 1 /\ saves + 1 \in Versions /\ v \in Versions
         /\ mem' \in [Tabs -> Versions] /\ mem'[t] = v
         /\ \A u \in Tabs \ {t} : mem'[u] = mem[u] /\ seen'[u] = seen[u] /\ saving'[u] = saving[u]
         /\ seen' \in [Tabs -> Versions] /\ seen'[t] \in {seen[t], saves + 1}
         /\ oh' \in Copies /\ stamp' \in Stamps /\ cached' \in {0, v}
         /\ races' = races \cup (IF cached' # v THEN {"uncached"} ELSE {})
         /\ saving' \in [Tabs -> Pairs] /\ txs' \in Seq(Tx)
         /\ Sent(t, v, saves + 1, saving, txs)
<1>1. saves + 1 \in Versions /\ v \in Versions
  <2>1. saves < MaxSaves
    BY DEF SaveHistory
  <2>2. saves + 1 \in Versions
    BY <2>1, TypedAre, VersionsAre DEF Versions
  <2> QED BY <2>2
<1>2. SendToStore(t, v) /\ saves' = saves + 1 /\ mem' = [mem EXCEPT ![t] = v]
  BY DEF SaveHistory
<1>3. /\ saving' \in [Tabs -> Pairs] /\ txs' \in Seq(Tx)
      /\ \A u \in Tabs \ {t} : saving'[u] = saving[u]
      /\ Sent(t, v, saves + 1, saving, txs)
  BY <1>1, <1>2, SendStep
<1>4. mem' \in [Tabs -> Versions] /\ mem'[t] = v /\ \A u \in Tabs \ {t} : mem'[u] = mem[u]
  BY <1>1, <1>2, TypedAre
<1>5. /\ seen' \in [Tabs -> Versions] /\ seen'[t] \in {seen[t], saves + 1}
      /\ \A u \in Tabs \ {t} : seen'[u] = seen[u]
      /\ oh' \in Copies /\ stamp' \in Stamps /\ cached' \in {0, v}
  <2> USE TypedAre, StampsAre, VersionsAre, <1>1
  <2>1. CASE \E b \in BOOLEAN : CacheStamped(t, v, b)
    <3>1. PICK b \in BOOLEAN : CacheStamped(t, v, b)
      BY <2>1
    <3>2. oh' \in Copies /\ stamp' \in Stamps
      BY <3>1 DEF CacheStamped
    <3>3. cached' \in {0, v} /\ seen' = [seen EXCEPT ![t] = saves + 1]
      BY <3>1 DEF CacheStamped
    <3> QED BY <3>2, <3>3
  <2>2. CASE CacheRefused
    BY <2>2 DEF CacheRefused
  <2>3. CASE CacheUnstamped(v)
    BY <2>3 DEF CacheUnstamped
  <2> QED BY <2>1, <2>2, <2>3 DEF SaveHistory
<1>6. races' = races \cup (IF cached' # v THEN {"uncached"} ELSE {})
  BY DEF SaveHistory, Note
<1> QED BY <1>1, <1>2, <1>3, <1>4, <1>5, <1>6

\* The stamp has the name of the last save or none.
LEMMA SaveStamp ==
  ASSUME CacheTypeOK, NEW t \in Tabs, NEW v, SaveHistory(t, v), stamp.rev <= saves
  PROVE  stamp'.rev <= saves + 1
<1> USE TypedAre, VersionsAre DEF Versions, Stamps
<1>1. saves \in Nat /\ stamp.rev \in Nat /\ saves <= saves + 1 /\ 0 <= saves + 1
  OBVIOUS
<1>2. CASE \E b \in BOOLEAN : CacheStamped(t, v, b)
  BY <1>1, <1>2 DEF CacheStamped
<1>3. CASE CacheRefused
  BY <1>1, <1>3 DEF CacheRefused, NoStamp
<1>4. CASE CacheUnstamped(v)
  BY <1>1, <1>4 DEF CacheUnstamped
<1> QED BY <1>2, <1>3, <1>4 DEF SaveHistory

LEMMA SavePiped ==
  ASSUME UnderWay, NEW t \in Tabs, NEW v \in Versions, load[t] = "none", load' = load, events' = events,
         NEW s, Sent(t, v, s, saving, txs), txs' \in Seq(Tx),
         \A u \in Tabs \ {t} : saving'[u] = saving[u]
  PROVE  \A u \in Tabs : Pipe(u)'
<1>1. txs \in Seq(Tx) /\ Pipe(t) /\ \A u \in Tabs : Pipe(u)
  BY TypedAre DEF UnderWay
<1>2. SaveTx(t, v) \in Tx /\ SaveTx(t, v) \in TabSaves(t) /\ SaveTx(t, v).version = v /\ SaveTx(t, v).tab = t
  <2>1. SaveTx(t, v) \in Tx
    BY TxsAre DEF SaveTx
  <2> QED BY <2>1 DEF SaveTx, TabSaves
<1>3. ASSUME NEW r PROVE [version |-> v, revs |-> {s} \cup r] # NoSave /\ [version |-> v, revs |-> {s}] # NoSave
  BY DEF NoSave
<1>4. CASE saving[t].now = NoSave
  <2> DEFINE now == saving'[t].now
  <2>1. /\ txs' = Append(txs, SaveTx(t, v)) /\ saving'[t].next = saving[t].next
        /\ now = [version |-> v, revs |-> {s}]
    BY <1>4 DEF Sent
  <2>2. now # NoSave /\ now.version = v
    <3>1. [version |-> v, revs |-> {s}].version = v
      OBVIOUS
    <3>2. [version |-> v, revs |-> {s}] # NoSave
      BY <1>3
    <3> HIDE DEF now
    <3> QED BY <2>1, <3>1, <3>2
  <2>3. saving[t].next = NoSave
    BY <1>4, TypedAre DEF UnderWay
  <2> HIDE DEF now
  <2>4. Piped(t, Append(txs, SaveTx(t, v)), events[t], now, NoSave, "none")
    <3>1. Piped(t, txs, events[t], NoSave, saving[t].next, "none")
      BY <1>1, <1>4 DEF Pipe
    <3> QED BY <1>1, <1>2, <2>2, <3>1, PipedSend
  <2>5. Pipe(t)'
    BY <2>1, <2>3, <2>4 DEF Pipe, now
  <2>6. ASSUME NEW u \in Tabs, u # t PROVE Pipe(u)'
    <3>1. AsBefore(u, txs, txs')
      BY <1>1, <1>2, <2>1, <2>6, AppendOther
    <3>2. Piped(u, txs, events[u], saving[u].now, saving[u].next, load[u])
      BY <1>1 DEF Pipe
    <3>3. Piped(u, txs', events[u], saving[u].now, saving[u].next, load[u])
      BY <3>1, <3>2, PipedOther
    <3> QED BY <2>6, <3>3 DEF Pipe
  <2> QED BY <2>5, <2>6
<1>5. CASE saving[t].now # NoSave
  <2>1. txs' = txs /\ saving'[t].now = saving[t].now
    BY <1>5 DEF Sent
  <2>2. Piped(t, txs, events[t], saving[t].now, saving'[t].next, "none")
    BY <1>1, <1>5, PipedMerge DEF Pipe
  <2>3. Pipe(t)'
    BY <2>1, <2>2 DEF Pipe
  <2>4. ASSUME NEW u \in Tabs, u # t PROVE Pipe(u)'
    BY <1>1, <2>1, <2>4 DEF Pipe
  <2> QED BY <2>3, <2>4
<1> QED BY <1>4, <1>5

LEMMA SaveNamed ==
  ASSUME UnderWay, NEW t \in Tabs, NEW v, saves' = saves + 1, stamp'.rev <= saves + 1,
         NEW s, s <= saves + 1, Sent(t, v, s, saving, txs), saving' \in [Tabs -> Pairs],
         seen'[t] \in {seen[t], saves + 1},
         \A u \in Tabs \ {t} : saving'[u] = saving[u] /\ seen'[u] = seen[u],
         \A u \in Tabs : turns'[u] # "none" => open'[u]
  PROVE  Named'
<1>0. saves \in Nat /\ Named /\ CacheTypeOK
  BY TypedAre, VersionsAre DEF UnderWay
<1>1. ASSUME NEW u \in Tabs PROVE seen'[u] <= saves + 1
  <2>1. seen[u] \in Nat /\ seen[u] <= saves
    BY <1>0, TypedAre, VersionsAre DEF Named
  <2>2. u = t \/ seen'[u] = seen[u]
    OBVIOUS
  <2> QED BY <1>0, <2>1, <2>2
<1>2. ASSUME NEW u \in Tabs, NEW r \in saving'[u].now.revs \cup saving'[u].next.revs PROVE r <= saves + 1
  <2>0. saving[u].now \in Save /\ saving[u].next \in Save
    BY <1>0, TypedAre, SavesAre
  <2>1. \A k \in saving[u].now.revs \cup saving[u].next.revs : k \in Nat /\ k <= saves
    <3>1. saving[u].now.revs \in SUBSET (1..MaxSaves) /\ saving[u].next.revs \in SUBSET (1..MaxSaves)
      BY <2>0, SavesAre
    <3> QED BY <3>1, <1>0 DEF Named
  <2>2. r = s \/ r \in saving[u].now.revs \cup saving[u].next.revs
    <3>1. CASE u # t
      BY <3>1, <1>2
    <3>2. CASE u = t
      BY <3>2, <1>2 DEF Sent
    <3> QED BY <3>1, <3>2
  <2> QED BY <1>0, <2>1, <2>2
<1> QED BY <1>1, <1>2 DEF Named
-----------------------------------------------------------------------------
\* The steps keep what is under way.
LEMMA UnderWaySame ==
  ASSUME UnderWay, UNCHANGED <<txs, events, saving, load>>
  PROVE  \A t \in Tabs : Pipe(t)'
BY DEF UnderWay, Pipe

LEMMA NamedSame ==
  ASSUME UnderWay, UNCHANGED <<saves, saving, seen>>, stamp'.rev <= saves,
         \A t \in Tabs : turns'[t] # "none" => open'[t]
  PROVE  Named'
BY DEF UnderWay, Named

LEMMA BeginLoadUnderWay ==
  ASSUME UnderWay, NEW t \in Tabs, load[t] = "none", turns[t] = "none", BeginLoad(t),
         UNCHANGED <<saves, db, oh, stamp, durable, saving, events, turns, asked, crashes, cached, confirmed>>,
         open' \in [Tabs -> BOOLEAN], \A u \in Tabs \ {t} : open'[u] = open[u], races' \subseteq Races
  PROVE  UnderWay'
<1> DEFINE x == [tab |-> t, kind |-> "generation", version |-> 0]
<1>0. CacheTypeOK /\ Named /\ saves \in Nat
  BY TypedAre, VersionsAre DEF UnderWay
<1>1. x \in Tx /\ x.tab = t /\ x.kind = "generation"
  BY TxsAre, VersionsAre
<1>2. txs' = Append(txs, x) /\ txs \in Seq(Tx) /\ txs' \in Seq(Tx)
  BY <1>0, <1>1, TypedAre DEF BeginLoad
<1>3. /\ load' \in [Tabs -> {"none", "reading"}] /\ load'[t] = "reading"
      /\ \A u \in Tabs \ {t} : load'[u] = load[u]
  BY <1>0, TypedAre DEF BeginLoad
<1>4. mem' \in [Tabs -> Versions]
  BY <1>0, TypedAre, VersionsAre DEF BeginLoad
<1>5. stamp.rev \in Versions
  BY <1>0, TypedAre DEF Stamps
<1>6. /\ seen' \in [Tabs -> Versions] /\ \A u \in Tabs \ {t} : seen'[u] = seen[u]
      /\ seen'[t] \in {seen[t], stamp.rev}
  BY <1>0, <1>5, TypedAre DEF BeginLoad
<1> HIDE DEF x
<1>7. CacheTypeOK'
  BY <1>0, <1>2, <1>3, <1>4, <1>6, TypedAre, TypedIs
<1>8. Named'
  BY <1>0, <1>3, <1>6 DEF Named
<1>9. Pipe(t)'
  <2>1. Piped(t, Append(txs, x), events[t], saving[t].now, saving[t].next, "reading")
    BY <1>1, <1>2, PipedLoad DEF UnderWay, Pipe
  <2> QED BY <1>2, <1>3, <2>1 DEF Pipe
<1>10. ASSUME NEW u \in Tabs, u # t PROVE Pipe(u)'
  <2>1. Piped(u, txs', events[u], saving[u].now, saving[u].next, load[u])
    <3>1. AsBefore(u, txs, txs')
      BY <1>1, <1>2, <1>10, AppendOther
    <3> QED BY <3>1, PipedOther DEF UnderWay, Pipe
  <2> QED BY <1>3, <1>10, <2>1 DEF Pipe
<1> QED BY <1>7, <1>8, <1>9, <1>10 DEF UnderWay

LEMMA OpenUnderWay == ASSUME UnderWay, NEW t \in Tabs, OpenChat(t) PROVE UnderWay'
<1>0. CacheTypeOK /\ Named
  BY DEF UnderWay
<1>1. turns[t] = "none" /\ load[t] = "none" /\ BeginLoad(t)
  BY <1>0 DEF OpenChat, Named
<1>2. open' \in [Tabs -> BOOLEAN] /\ \A u \in Tabs \ {t} : open'[u] = open[u]
  BY <1>0, TypedAre DEF OpenChat
<1>3. races' \subseteq Races
  BY <1>0, TypedAre DEF OpenChat, Note, Races
<1>4. UNCHANGED <<saves, db, oh, stamp, durable, saving, events, turns, asked, crashes, cached, confirmed>>
  BY DEF OpenChat, saved
<1> QED BY <1>1, <1>2, <1>3, <1>4, BeginLoadUnderWay

LEMMA ReloadUnderWay == ASSUME UnderWay, NEW t \in Tabs, ReloadChanged(t) PROVE UnderWay'
<1>1. turns[t] = "none" /\ load[t] = "none" /\ BeginLoad(t)
      /\ UNCHANGED <<saves, db, oh, stamp, durable, saving, events, turns, asked, crashes, cached, confirmed>>
      /\ UNCHANGED <<open, races>>
  BY DEF ReloadChanged, saved
<1>2. open' \in [Tabs -> BOOLEAN] /\ races' \subseteq Races
  BY <1>1, TypedAre DEF UnderWay
<1> QED BY <1>1, <1>2, BeginLoadUnderWay

\* A save, from LeaveChat or from TurnSave.
LEMMA SaveUnderWay ==
  ASSUME UnderWay, NEW t \in Tabs, NEW v, v \in Versions \/ v = saves + 1, SaveHistory(t, v),
         load[t] = "none", UNCHANGED <<confirmed, db, load, durable, events, asked, crashes>>,
         open' \in [Tabs -> BOOLEAN], turns' \in [Tabs -> {"none", "leased", "loose"}],
         \A u \in Tabs : turns'[u] # "none" => open'[u]
  PROVE  UnderWay'
<1>0. CacheTypeOK /\ Named /\ saves \in Nat
  BY TypedAre, VersionsAre DEF UnderWay
<1>1. /\ saves' = saves + 1 /\ saves + 1 \in Versions /\ v \in Versions
      /\ mem' \in [Tabs -> Versions] /\ seen' \in [Tabs -> Versions] /\ seen'[t] \in {seen[t], saves + 1}
      /\ \A u \in Tabs \ {t} : saving'[u] = saving[u] /\ seen'[u] = seen[u]
      /\ oh' \in Copies /\ stamp' \in Stamps /\ cached' \in {0, v}
      /\ races' = races \cup (IF cached' # v THEN {"uncached"} ELSE {})
      /\ saving' \in [Tabs -> Pairs] /\ txs' \in Seq(Tx)
      /\ Sent(t, v, saves + 1, saving, txs)
  BY <1>0, SaveStep
<1>2. stamp'.rev <= saves + 1
  BY <1>0, SaveStamp DEF Named
<1>3. \A u \in Tabs : Pipe(u)'
  BY <1>1, SavePiped
<1>4. Named'
  BY <1>0, <1>1, <1>2, SaveNamed
<1>5. CacheTypeOK'
  <2>1. races' \subseteq Races
    BY <1>0, <1>1, TypedAre DEF Races
  <2>2. cached' \in Versions
    BY <1>1, VersionsAre
  <2>3. ASSUME NEW u \in Tabs, saving'[u].now = NoSave PROVE saving'[u].next = NoSave
    <3>1. saving'[u].now = NoSave => saving'[u].next = NoSave
      BY <1>3 DEF Pipe, Piped
    <3> QED BY <3>1, <2>3
  <2>4. saves' \in Versions
    BY <1>1
  <2> QED BY <1>0, <1>1, <2>1, <2>2, <2>3, <2>4, TypedAre, TypedIs
<1> QED BY <1>3, <1>4, <1>5 DEF UnderWay

LEMMA LeaveUnderWay == ASSUME UnderWay, NEW t \in Tabs, LeaveChat(t) PROVE UnderWay'
<1>0. CacheTypeOK /\ Named
  BY DEF UnderWay
<1>1. /\ open' \in [Tabs -> BOOLEAN] /\ \A u \in Tabs \ {t} : open'[u] = open[u]
      /\ turns[t] = "none" /\ turns' = turns
      /\ UNCHANGED <<confirmed, db, load, durable, events, asked, crashes>>
  BY <1>0, TypedAre DEF LeaveChat
<1>2. \A u \in Tabs : turns'[u] # "none" => open'[u]
  BY <1>0, <1>1 DEF Named
<1>3. CASE load[t] = "none" /\ ~ChangedElsewhere(t)
  <2>1. SaveHistory(t, mem[t]) /\ mem[t] \in Versions /\ turns' \in [Tabs -> {"none", "leased", "loose"}]
    BY <1>0, <1>1, <1>3, TypedAre DEF LeaveChat
  <2> QED BY <1>1, <1>2, <1>3, <2>1, SaveUnderWay
<1>4. CASE ~(load[t] = "none" /\ ~ChangedElsewhere(t))
  <2>1. UNCHANGED <<saves, oh, stamp, txs, mem, seen, saving, cached, races>>
    BY <1>4 DEF LeaveChat
  <2>2. CacheTypeOK'
    BY <1>0, <1>1, <2>1, TypedAre, TypedIs
  <2>3. stamp'.rev <= saves
    BY <1>0, <2>1 DEF Named
  <2> QED BY <1>1, <1>2, <2>1, <2>2, <2>3, UnderWaySame, NamedSame DEF UnderWay
<1> QED BY <1>3, <1>4

\* The three ways in which a turn begins.
Beginning(t) == BeginTurn(t) \/ BeginQueued(t) \/ BeginLoose(t)

LEMMA BeginningIs ==
  ASSUME CacheTypeOK, NEW t \in Tabs, Beginning(t)
  PROVE  /\ open[t] /\ turns[t] = "none"
         /\ turns' \in [Tabs -> {"none", "leased", "loose"}]
         /\ \A u \in Tabs \ {t} : turns'[u] = turns[u]
         /\ races' = races \cup (IF ChangedElsewhere(t) \/ load[t] # "none" THEN {"unlooked"} ELSE {})
                          \cup (IF \E u \in Tabs \ {t} : turns[u] # "none" THEN {"unleased"} ELSE {})
         /\ UNCHANGED <<saves, oh, stamp, db, txs, open, mem, load, seen, durable, saving, events>>
         /\ UNCHANGED <<asked, crashes, cached, confirmed>>
<1>1. PICK how \in {"leased", "loose"} : TurnBegins(t, how)
  BY DEF Beginning, BeginTurn, BeginQueued, BeginLoose
<1>2. turns' = [turns EXCEPT ![t] = how] /\ turns \in [Tabs -> {"none", "leased", "loose"}]
  BY <1>1, TypedAre DEF TurnBegins
<1>3. /\ UNCHANGED <<saves, oh, stamp, db, txs, open, mem, load, seen, durable, saving, events>>
      /\ UNCHANGED <<asked, crashes, cached, confirmed>>
  BY <1>1 DEF TurnBegins, shared, saved
<1>4. /\ turns' \in [Tabs -> {"none", "leased", "loose"}]
      /\ \A u \in Tabs \ {t} : turns'[u] = turns[u]
  BY <1>2
<1> QED BY <1>1, <1>3, <1>4 DEF TurnBegins

LEMMA BeginningUnderWay == ASSUME UnderWay, NEW t \in Tabs, Beginning(t) PROVE UnderWay'
<1>0. CacheTypeOK /\ Named
  BY DEF UnderWay
<1>1. /\ open[t] /\ turns' \in [Tabs -> {"none", "leased", "loose"}]
      /\ \A u \in Tabs \ {t} : turns'[u] = turns[u]
      /\ UNCHANGED <<saves, oh, stamp, db, txs, open, mem, load, seen, durable, saving, events>>
      /\ UNCHANGED <<asked, crashes, cached, confirmed>>
  BY <1>0, BeginningIs
<1>2. races' \subseteq Races
  <2>1. races \subseteq Races
    BY <1>0, TypedAre
  <2> QED BY <1>0, <2>1, BeginningIs DEF Races
<1>3. CacheTypeOK'
  BY <1>0, <1>1, <1>2, TypedAre, TypedIs
<1>4. Named'
  <2>1. \A u \in Tabs : turns'[u] # "none" => open'[u]
    BY <1>0, <1>1 DEF Named
  <2> QED BY <1>0, <1>1, <2>1 DEF Named
<1> QED BY <1>1, <1>3, <1>4, UnderWaySame DEF UnderWay

LEMMA TurnSaveIs ==
  ASSUME CacheTypeOK, NEW t \in Tabs, TurnSave(t)
  PROVE  /\ turns[t] # "none" /\ turns' \in [Tabs -> {"none", "leased", "loose"}]
         /\ \A u \in Tabs \ {t} : turns'[u] = turns[u]
         /\ \A u \in Tabs : turns'[u] # "none" => turns[u] # "none"
         /\ UNCHANGED <<confirmed, db, open, load, durable, events, asked, crashes>>
<1>1. PICK how \in {turns[t], "none"} : turns' = [turns EXCEPT ![t] = how]
  BY DEF TurnSave
<1>2. turns \in [Tabs -> {"none", "leased", "loose"}]
  BY TypedAre
<1>3. how \in {"none", "leased", "loose"}
  BY <1>2
<1>4. turns' \in [Tabs -> {"none", "leased", "loose"}] /\ turns'[t] = how
      /\ \A u \in Tabs \ {t} : turns'[u] = turns[u]
  BY <1>1, <1>2, <1>3
<1>5. turns[t] # "none" /\ UNCHANGED <<confirmed, db, open, load, durable, events, asked, crashes>>
  BY DEF TurnSave
<1> QED BY <1>4, <1>5

LEMMA TurnSaveUnderWay == ASSUME UnderWay, NEW t \in Tabs, TurnSave(t) PROVE UnderWay'
<1>0. CacheTypeOK /\ Named
  BY DEF UnderWay
<1>1. /\ turns' \in [Tabs -> {"none", "leased", "loose"}]
      /\ \A u \in Tabs : turns'[u] # "none" => turns[u] # "none"
      /\ UNCHANGED <<confirmed, db, open, load, durable, events, asked, crashes>>
  BY <1>0, TurnSaveIs
<1>2. open' \in [Tabs -> BOOLEAN] /\ \A u \in Tabs : turns'[u] # "none" => open'[u]
  BY <1>0, <1>1, TypedAre DEF Named
<1>3. CASE load[t] = "none"
  <2>1. SaveHistory(t, saves + 1)
    BY <1>3 DEF TurnSave
  <2> QED BY <1>1, <1>2, <1>3, <2>1, SaveUnderWay
<1>4. CASE load[t] # "none"
  <2>1. UNCHANGED <<saves, oh, stamp, txs, mem, seen, saving, cached, races>>
    BY <1>4 DEF TurnSave
  <2>2. CacheTypeOK'
    BY <1>0, <1>1, <2>1, TypedAre, TypedIs
  <2>3. Named'
    BY <1>0, <1>1, <1>2, <2>1 DEF Named
  <2> QED BY <1>1, <2>1, <2>2, <2>3, UnderWaySame DEF UnderWay
<1> QED BY <1>3, <1>4

\* The store runs the oldest transaction and answers e.
Ran(e) ==
  LET x == Head(txs) IN
  \/ /\ x.kind = "save" /\ e.kind = "saved" /\ e.version = x.version /\ db' = x.version
     /\ Note(db' < db, "crossed")
  \/ x.kind = "save" /\ e.kind = "failed" /\ e.version = x.version /\ UNCHANGED <<db, races>>
  \/ x.kind = "generation" /\ e.kind = "generation" /\ e.version = 0 /\ UNCHANGED <<db, races>>
  \/ /\ x.kind = "record" /\ e.kind = "record" /\ e.version \in {0, db} /\ UNCHANGED db
     /\ Note(e.version < db /\ Restored(e.version) < db, "unread")

LEMMA StoreIs ==
  ASSUME CacheTypeOK, StoreStep
  PROVE  /\ txs # <<>> /\ txs' = Tail(txs) /\ txs' \in Seq(Tx)
         /\ Head(txs) \in Tx /\ Head(txs).tab \in Tabs /\ Head(txs).version \in Versions
         /\ UNCHANGED <<saves, oh, stamp, open, mem, load, seen, durable, saving, turns, asked, crashes>>
         /\ UNCHANGED <<cached, confirmed>>
         /\ \E e \in Happened :
              /\ Ran(e)
              /\ events' \in [Tabs -> Seq(Happened)]
              /\ events'[Head(txs).tab] = Append(events[Head(txs).tab], e)
              /\ \A u \in Tabs \ {Head(txs).tab} : events'[u] = events[u]
<1> DEFINE x == Head(txs)
           Tell(e) == events' = [events EXCEPT ![x.tab] = Append(@, e)]
<1>0. /\ txs \in Seq(Tx) /\ txs # <<>> /\ txs' = Tail(txs) /\ db \in Versions
      /\ UNCHANGED <<saves, oh, stamp, open, mem, load, seen, durable, saving, turns, asked, crashes>>
      /\ UNCHANGED <<cached, confirmed>>
  BY TypedAre DEF StoreStep, saved
<1>1. x \in Tx /\ x.tab \in Tabs /\ x.version \in Versions /\ txs' \in Seq(Tx)
  <2>1. x \in Tx /\ txs' \in Seq(Tx)
    BY <1>0, HasTail
  <2> QED BY <2>1 DEF Tx
<1>2. \A k \in {"saved", "failed", "generation", "record"}, w \in Versions :
        [kind |-> k, version |-> w] \in Happened
  BY DEF Happened
<1>3. \E e \in Happened : Ran(e) /\ Tell(e)
  <2>2. CASE x.kind = "save"
    <3>1. /\ Note(db' < db, "crossed")
          /\ \/ db' = x.version /\ Tell([kind |-> "saved", version |-> x.version])
             \/ Tell([kind |-> "failed", version |-> x.version]) /\ UNCHANGED db
      BY <2>2 DEF StoreStep
    <3>2. db' = db => races' = races
      <4>1. db \in Nat
        BY <1>0, VersionsAre
      <4> QED BY <3>1, <4>1 DEF Note
    <3>3. /\ [kind |-> "saved", version |-> x.version] \in Happened
          /\ [kind |-> "failed", version |-> x.version] \in Happened
      BY <1>1, <1>2
    <3>4. db' = x.version => Ran([kind |-> "saved", version |-> x.version])
      BY <2>2, <3>1 DEF Ran
    <3>5. db' = db => Ran([kind |-> "failed", version |-> x.version])
      BY <2>2, <3>2 DEF Ran
    <3> HIDE DEF x, Tell
    <3> QED BY <3>1, <3>3, <3>4, <3>5
  <2>3. CASE x.kind = "generation"
    <3>1. Tell([kind |-> "generation", version |-> 0]) /\ UNCHANGED <<db, races>>
      BY <2>3 DEF StoreStep
    <3>2. Ran([kind |-> "generation", version |-> 0])
      BY <2>3, <3>1 DEF Ran
    <3> HIDE DEF x, Tell
    <3> QED BY <1>2, <3>1, <3>2, VersionsAre
  <2>4. CASE x.kind = "record"
    <3>1. PICK w \in {0, db} : /\ Tell([kind |-> "record", version |-> w]) /\ UNCHANGED db
                               /\ Note(w < db /\ Restored(w) < db, "unread")
      BY <2>4 DEF StoreStep
    <3>2. Ran([kind |-> "record", version |-> w])
      BY <2>4, <3>1 DEF Ran
    <3>3. w \in Versions
      BY <1>0, VersionsAre
    <3> HIDE DEF x, Tell
    <3> QED BY <1>2, <3>1, <3>2, <3>3
  <2> QED BY <1>1, <2>2, <2>3, <2>4 DEF Tx
<1>4. PICK e \in Happened : Ran(e) /\ Tell(e)
  BY <1>3
<1>5. /\ events' \in [Tabs -> Seq(Happened)]
      /\ events'[x.tab] = Append(events[x.tab], e)
      /\ \A u \in Tabs \ {x.tab} : events'[u] = events[u]
  <2>1. events \in [Tabs -> Seq(Happened)]
    BY TypedAre
  <2> HIDE DEF x
  <2>2. Append(events[x.tab], e) \in Seq(Happened)
    BY <1>1, <2>1
  <2>3. events' = [events EXCEPT ![x.tab] = Append(events[x.tab], e)]
    BY <1>4
  <2> QED BY <1>1, <2>1, <2>2, <2>3
<1> QED BY <1>0, <1>1, <1>4, <1>5

LEMMA StoreUnderWay == ASSUME UnderWay, StoreStep PROVE UnderWay'
<1> DEFINE x == Head(txs)
<1>0. CacheTypeOK /\ Named /\ txs \in Seq(Tx) /\ events \in [Tabs -> Seq(Happened)] /\ db \in Versions
  BY TypedAre DEF UnderWay
<1>1. /\ txs # <<>> /\ txs' = Tail(txs) /\ txs' \in Seq(Tx)
      /\ x \in Tx /\ x.tab \in Tabs /\ x.version \in Versions
      /\ UNCHANGED <<saves, oh, stamp, open, mem, load, seen, durable, saving, turns, asked, crashes>>
      /\ UNCHANGED <<cached, confirmed>>
  BY <1>0, StoreIs
<1>2. PICK e \in Happened :
        /\ Ran(e)
        /\ events' \in [Tabs -> Seq(Happened)]
        /\ events'[x.tab] = Append(events[x.tab], e)
        /\ \A u \in Tabs \ {x.tab} : events'[u] = events[u]
  BY <1>0, StoreIs
<1>3. \/ x.kind = "save" /\ e.kind \in {"saved", "failed"} /\ e.version = x.version
      \/ x.kind # "save" /\ e.kind = x.kind
  BY <1>2 DEF Ran
<1>4. db' \in {db, x.version} /\ races' \subseteq Races
  <2>1. races \subseteq Races
    BY <1>0, TypedAre
  <2> QED BY <1>2, <2>1 DEF Ran, Note, Races
<1> HIDE DEF x
<1>5. CacheTypeOK'
  <2>1. db' \in Versions
    BY <1>0, <1>1, <1>4
  <2> QED BY <1>0, <1>1, <1>2, <1>4, <2>1, TypedAre, TypedIs
<1>6. Named'
  BY <1>0, <1>1 DEF Named
<1>7. ASSUME NEW u \in Tabs PROVE Pipe(u)'
  <2>1. Piped(u, txs, events[u], saving[u].now, saving[u].next, load[u])
    BY DEF UnderWay, Pipe
  <2>2. events[u] \in Seq(Happened)
    BY <1>0
  <2>3. CASE u = x.tab
    <3>1. Piped(u, Tail(txs), Append(events[u], e), saving[u].now, saving[u].next, load[u])
      BY <1>0, <1>1, <1>3, <2>1, <2>2, <2>3, PipedStep DEF x
    <3> QED BY <1>1, <1>2, <2>3, <3>1 DEF Pipe
  <2>4. CASE u # x.tab
    <3>1. AsBefore(u, txs, Tail(txs))
      BY <1>0, <1>1, <2>4, TailOther DEF x
    <3>2. Piped(u, Tail(txs), events[u], saving[u].now, saving[u].next, load[u])
      BY <2>1, <3>1, PipedOther
    <3> QED BY <1>1, <1>2, <2>4, <3>2 DEF Pipe
  <2> QED BY <2>3, <2>4
<1> QED BY <1>5, <1>6, <1>7 DEF UnderWay

\* What the three branches of HandleEvent do.
Told(t) == Head(events[t])
Handled(t) == events[t] # <<>> /\ events' = [events EXCEPT ![t] = Tail(@)]
              /\ UNCHANGED <<saves, oh, db, open, seen, turns, asked, crashes, cached>>
HandleGeneration(t) ==
  /\ Handled(t) /\ Told(t).kind = "generation"
  /\ txs' = Append(txs, [tab |-> t, kind |-> "record", version |-> 0])
  /\ UNCHANGED <<stamp, durable, saving, mem, load, confirmed, races>>
HandleRead(t) ==
  /\ Handled(t) /\ Told(t).kind = "record"
  /\ AdoptLoad(t, Told(t).version) /\ UNCHANGED <<stamp, txs, durable, saving, confirmed>>
HandleAnswer(t) ==
  /\ Handled(t) /\ Told(t) \in Answers
  /\ NoteDurable(t, Told(t).kind = "saved")
  /\ confirmed' = IF Told(t).kind = "saved" THEN Larger(confirmed, Told(t).version) ELSE confirmed
  /\ saving' = [saving EXCEPT ![t] = [now |-> saving[t].next, next |-> NoSave]]
  /\ txs' = IF saving[t].next = NoSave THEN txs ELSE Append(txs, SaveTx(t, saving[t].next.version))
  /\ UNCHANGED <<mem, load, races>>

LEMMA ToldIs ==
  ASSUME CacheTypeOK, NEW t \in Tabs, events[t] # <<>>
  PROVE  /\ Told(t) \in Happened /\ Told(t).version \in Versions
         /\ Told(t).kind \in {"saved", "failed", "generation", "record"}
         /\ events[t] \in Seq(Happened) /\ Tail(events[t]) \in Seq(Happened)
         /\ Has(events[t], {Told(t)})
<1>1. events[t] \in Seq(Happened)
  BY TypedAre
<1>2. Told(t) \in Happened /\ Tail(events[t]) \in Seq(Happened)
  BY <1>1, HasTail DEF Told
<1>3. Has(events[t], {Told(t)})
  <2> DEFINE h == {Told(t)}
  <2>1. Has(events[t], h) <=> (Head(events[t]) \in h \/ Has(Tail(events[t]), h))
    BY <1>1, HasTail
  <2> QED BY <2>1 DEF Told
<1> QED BY <1>1, <1>2, <1>3 DEF Happened

LEMMA HandleCases ==
  ASSUME CacheTypeOK, NEW t \in Tabs, HandleEvent(t)
  PROVE  HandleGeneration(t) \/ HandleRead(t) \/ HandleAnswer(t)
<1>0. Handled(t)
  BY DEF HandleEvent, Handled
<1>1. Told(t) \in Happened /\ Told(t).kind \in {"saved", "failed", "generation", "record"}
  BY <1>0, ToldIs DEF Handled
<1>2. CASE Told(t).kind = "generation"
  BY <1>0, <1>2 DEF HandleEvent, HandleGeneration, Told
<1>3. CASE Told(t).kind = "record"
  BY <1>0, <1>3 DEF HandleEvent, HandleRead, Told
<1>4. CASE Told(t).kind \in {"saved", "failed"}
  <2>1. Told(t) \in Answers
    BY <1>1, <1>4, KindsOfEvent
  <2> QED BY <1>0, <1>4, <2>1 DEF HandleEvent, HandleAnswer, Told, SaveTx
<1> QED BY <1>1, <1>2, <1>3, <1>4

LEMMA EventsAfter ==
  ASSUME CacheTypeOK, NEW t \in Tabs, Handled(t)
  PROVE  /\ events' \in [Tabs -> Seq(Happened)] /\ events'[t] = Tail(events[t])
         /\ \A u \in Tabs \ {t} : events'[u] = events[u]
<1>1. events \in [Tabs -> Seq(Happened)] /\ Tail(events[t]) \in Seq(Happened)
  BY TypedAre, ToldIs DEF Handled
<1> QED BY <1>1 DEF Handled

LEMMA GenerationUnderWay == ASSUME UnderWay, NEW t \in Tabs, HandleGeneration(t) PROVE UnderWay'
<1> DEFINE x == [tab |-> t, kind |-> "record", version |-> 0]
<1>0. /\ CacheTypeOK /\ Named /\ Handled(t) /\ Told(t).kind = "generation" /\ events[t] # <<>>
      /\ txs \in Seq(Tx) /\ events[t] \in Seq(Happened) /\ txs' = Append(txs, x)
      /\ UNCHANGED <<saves, oh, db, open, seen, turns, asked, crashes, cached>>
      /\ UNCHANGED <<stamp, durable, saving, mem, load, confirmed, races>>
  BY TypedAre, ToldIs DEF UnderWay, HandleGeneration, Handled
<1>1. x \in Tx /\ x.tab = t /\ x.kind = "record"
  BY TxsAre, VersionsAre
<1> HIDE DEF x
<1>2. /\ events' \in [Tabs -> Seq(Happened)] /\ events'[t] = Tail(events[t])
      /\ \A u \in Tabs \ {t} : events'[u] = events[u]
  BY <1>0, EventsAfter
<1>3. CacheTypeOK'
  <2>1. txs' \in Seq(Tx)
    BY <1>0, <1>1
  <2> QED BY <1>0, <1>2, <2>1, TypedAre, TypedIs
<1>4. Named'
  BY <1>0 DEF Named
<1>5. ASSUME NEW u \in Tabs PROVE Pipe(u)'
  <2>1. Piped(u, txs, events[u], saving[u].now, saving[u].next, load[u])
    BY DEF UnderWay, Pipe
  <2>2. CASE u = t
    <3>1. Piped(t, Append(txs, x), Tail(events[t]), saving[t].now, saving[t].next, load[t])
      BY <1>0, <1>1, <2>1, <2>2, PipedGeneration DEF Told
    <3> QED BY <1>0, <1>2, <2>2, <3>1 DEF Pipe
  <2>3. CASE u # t
    <3>1. AsBefore(u, txs, Append(txs, x))
      BY <1>0, <1>1, <2>3, AppendOther
    <3>2. Piped(u, Append(txs, x), events[u], saving[u].now, saving[u].next, load[u])
      BY <2>1, <3>1, PipedOther
    <3> QED BY <1>0, <1>2, <2>3, <3>2 DEF Pipe
  <2> QED BY <2>2, <2>3
<1> QED BY <1>3, <1>4, <1>5 DEF UnderWay

\* What a load restores.
LEMMA RestoredIs ==
  ASSUME CacheTypeOK, NEW w \in Versions
  PROVE  Restored(w) \in Versions
BY TypedAre, VersionsAre DEF Restored, Copies

LEMMA ReadStep ==
  ASSUME UnderWay, NEW t \in Tabs, HandleRead(t)
  PROVE  /\ saving[t].now = NoSave /\ saving[t].next = NoSave
         /\ load' \in [Tabs -> {"none", "reading"}] /\ load'[t] = "none"
         /\ mem' \in [Tabs -> Versions]
         /\ mem'[t] = IF open[t] THEN Restored(Told(t).version) ELSE mem[t]
         /\ \A u \in Tabs \ {t} : load'[u] = load[u] /\ mem'[u] = mem[u]
         /\ races' = races \cup (IF open[t] /\ Restored(Told(t).version) = Told(t).version
                                    /\ Told(t).version < db
                                 THEN {"overtaken"} ELSE {})
         /\ Handled(t) /\ UNCHANGED <<stamp, txs, durable, saving, confirmed>>
         /\ UNCHANGED <<saves, oh, db, open, seen, turns, asked, crashes, cached>>
<1>0. /\ CacheTypeOK /\ Handled(t) /\ Told(t).kind = "record" /\ events[t] # <<>>
      /\ txs \in Seq(Tx) /\ events[t] \in Seq(Happened) /\ Told(t).version \in Versions
      /\ AdoptLoad(t, Told(t).version)
      /\ UNCHANGED <<stamp, txs, durable, saving, confirmed>>
      /\ UNCHANGED <<saves, oh, db, open, seen, turns, asked, crashes, cached>>
  BY TypedAre, ToldIs DEF UnderWay, HandleRead, Handled
<1>1. saving[t].now = NoSave /\ saving[t].next = NoSave
  <2>1. Piped(t, txs, events[t], saving[t].now, saving[t].next, load[t])
    BY DEF UnderWay, Pipe
  <2> QED BY <1>0, <2>1, PipedRead DEF Told
<1>2. /\ load' \in [Tabs -> {"none", "reading"}] /\ load'[t] = "none"
      /\ \A u \in Tabs \ {t} : load'[u] = load[u]
  BY <1>0, TypedAre DEF AdoptLoad
<1>3. /\ mem' \in [Tabs -> Versions]
      /\ mem'[t] = IF open[t] THEN Restored(Told(t).version) ELSE mem[t]
      /\ \A u \in Tabs \ {t} : mem'[u] = mem[u]
  <2>1. Restored(Told(t).version) \in Versions
    BY <1>0, RestoredIs
  <2>2. mem' = IF open[t] THEN [mem EXCEPT ![t] = Restored(Told(t).version)] ELSE mem
    BY <1>0 DEF AdoptLoad
  <2> QED BY <1>0, <2>1, <2>2, TypedAre
<1>4. races' = races \cup (IF open[t] /\ Restored(Told(t).version) = Told(t).version
                              /\ Told(t).version < db
                           THEN {"overtaken"} ELSE {})
  BY <1>0 DEF AdoptLoad, Note
<1> QED BY <1>0, <1>1, <1>2, <1>3, <1>4

LEMMA ReadUnderWay == ASSUME UnderWay, NEW t \in Tabs, HandleRead(t) PROVE UnderWay'
<1>0. /\ CacheTypeOK /\ Named /\ Handled(t) /\ Told(t).kind = "record" /\ events[t] # <<>>
      /\ txs \in Seq(Tx) /\ events[t] \in Seq(Happened)
  BY TypedAre, ToldIs DEF UnderWay, HandleRead, Handled
<1>1. /\ load' \in [Tabs -> {"none", "reading"}] /\ load'[t] = "none"
      /\ mem' \in [Tabs -> Versions]
      /\ \A u \in Tabs \ {t} : load'[u] = load[u]
      /\ UNCHANGED <<stamp, txs, durable, saving, confirmed>>
      /\ UNCHANGED <<saves, oh, db, open, seen, turns, asked, crashes, cached>>
  BY ReadStep
<1>2. /\ events' \in [Tabs -> Seq(Happened)] /\ events'[t] = Tail(events[t])
      /\ \A u \in Tabs \ {t} : events'[u] = events[u]
  BY <1>0, EventsAfter
<1>3. CacheTypeOK'
  <2>1. races \subseteq Races
    BY <1>0, TypedAre
  <2>2. races' \subseteq Races
    BY <2>1, ReadStep DEF Races
  <2> QED BY <1>0, <1>1, <1>2, <2>2, TypedAre, TypedIs
<1>4. Named'
  BY <1>0, <1>1 DEF Named
<1>5. ASSUME NEW u \in Tabs PROVE Pipe(u)'
  <2>1. Piped(u, txs, events[u], saving[u].now, saving[u].next, load[u])
    BY DEF UnderWay, Pipe
  <2>2. CASE u = t
    <3>1. Piped(t, txs, Tail(events[t]), saving[t].now, saving[t].next, "none")
      BY <1>0, <2>1, <2>2, PipedRead DEF Told
    <3> QED BY <1>1, <1>2, <2>2, <3>1 DEF Pipe
  <2>3. CASE u # t
    BY <1>1, <1>2, <2>1, <2>3 DEF Pipe
  <2> QED BY <2>2, <2>3
<1> QED BY <1>3, <1>4, <1>5 DEF UnderWay

LEMMA AnswerStep ==
  ASSUME CacheTypeOK, NEW t \in Tabs, HandleAnswer(t)
  PROVE  /\ durable' \in [Tabs -> BOOLEAN] /\ stamp' \in Stamps /\ confirmed' \in Versions
         /\ stamp'.rev = stamp.rev /\ stamp'.trimmed = stamp.trimmed
         /\ \/ stamp' = stamp
            \/ Told(t).kind = "saved" /\ stamp.rev \in saving[t].now.revs
         /\ confirmed' = confirmed \/ (Told(t).kind = "saved" /\ confirmed' = Told(t).version)
         /\ saving' \in [Tabs -> Pairs]
         /\ saving'[t].now = saving[t].next /\ saving'[t].next = NoSave
         /\ \A u \in Tabs \ {t} : saving'[u] = saving[u]
         /\ \/ saving[t].next = NoSave /\ txs' = txs
            \/ /\ saving[t].next # NoSave
               /\ txs' = Append(txs, SaveTx(t, saving[t].next.version))
               /\ SaveTx(t, saving[t].next.version) \in Tx
         /\ txs' \in Seq(Tx)
<1>0. Told(t).version \in Versions /\ events[t] # <<>>
  BY ToldIs DEF HandleAnswer, Handled
<1>1. durable' \in [Tabs -> BOOLEAN]
  BY TypedAre DEF HandleAnswer, NoteDurable
<1>2. /\ stamp' \in Stamps /\ stamp'.rev = stamp.rev /\ stamp'.trimmed = stamp.trimmed
      /\ \/ stamp' = stamp
         \/ Told(t).kind = "saved" /\ stamp.rev \in saving[t].now.revs
  <2>1. \/ stamp' = stamp
        \/ /\ Told(t).kind = "saved" /\ stamp.rev \in saving[t].now.revs
           /\ stamp' = [stamp EXCEPT !.acked = TRUE]
    BY DEF HandleAnswer, NoteDurable
  <2>2. stamp \in Stamps
    BY TypedAre
  <2> QED BY <2>1, <2>2 DEF Stamps
<1>3. /\ confirmed' \in Versions
      /\ confirmed' = confirmed \/ (Told(t).kind = "saved" /\ confirmed' = Told(t).version)
  BY <1>0, TypedAre DEF HandleAnswer, Larger
<1>4. /\ saving' \in [Tabs -> Pairs]
      /\ saving'[t].now = saving[t].next /\ saving'[t].next = NoSave
      /\ \A u \in Tabs \ {t} : saving'[u] = saving[u]
  <2> DEFINE p == [now |-> saving[t].next, next |-> NoSave]
  <2>1. saving \in [Tabs -> Pairs] /\ saving[t] \in Pairs
    BY TypedAre
  <2>2. p \in Pairs /\ p.now = saving[t].next /\ p.next = NoSave
    BY <2>1, SavesAre
  <2>3. saving' = [saving EXCEPT ![t] = p]
    BY DEF HandleAnswer
  <2> HIDE DEF p
  <2>4. saving' \in [Tabs -> Pairs] /\ saving'[t] = p /\ \A u \in Tabs \ {t} : saving'[u] = saving[u]
    BY <2>1, <2>2, <2>3
  <2> QED BY <2>2, <2>4
<1>5. /\ \/ saving[t].next = NoSave /\ txs' = txs
         \/ /\ saving[t].next # NoSave
            /\ txs' = Append(txs, SaveTx(t, saving[t].next.version))
            /\ SaveTx(t, saving[t].next.version) \in Tx
      /\ txs' \in Seq(Tx)
  <2>1. saving[t].next.version \in Versions
    BY TypedAre, SavesAre
  <2>2. SaveTx(t, saving[t].next.version) \in Tx
    BY <2>1, TxsAre DEF SaveTx
  <2>3. txs \in Seq(Tx)
    BY TypedAre
  <2> HIDE DEF SaveTx
  <2> QED BY <2>2, <2>3 DEF HandleAnswer
<1> QED BY <1>1, <1>2, <1>3, <1>4, <1>5

LEMMA AnswerUnderWay == ASSUME UnderWay, NEW t \in Tabs, HandleAnswer(t) PROVE UnderWay'
<1>0. /\ CacheTypeOK /\ Named /\ Handled(t) /\ Told(t) \in Answers /\ events[t] # <<>>
      /\ txs \in Seq(Tx) /\ events[t] \in Seq(Happened)
      /\ UNCHANGED <<mem, load, races>>
      /\ UNCHANGED <<saves, oh, db, open, seen, turns, asked, crashes, cached>>
  BY TypedAre, ToldIs DEF UnderWay, HandleAnswer, Handled
<1>1. /\ durable' \in [Tabs -> BOOLEAN] /\ stamp' \in Stamps /\ confirmed' \in Versions
      /\ stamp'.rev = stamp.rev
      /\ saving' \in [Tabs -> Pairs]
      /\ saving'[t].now = saving[t].next /\ saving'[t].next = NoSave
      /\ \A u \in Tabs \ {t} : saving'[u] = saving[u]
      /\ \/ saving[t].next = NoSave /\ txs' = txs
         \/ /\ saving[t].next # NoSave
            /\ txs' = Append(txs, SaveTx(t, saving[t].next.version))
            /\ SaveTx(t, saving[t].next.version) \in Tx
      /\ txs' \in Seq(Tx)
  BY <1>0, AnswerStep
<1>2. /\ events' \in [Tabs -> Seq(Happened)] /\ events'[t] = Tail(events[t])
      /\ \A u \in Tabs \ {t} : events'[u] = events[u]
  BY <1>0, EventsAfter
<1>3. CacheTypeOK'
  <2>1. \A u \in Tabs : saving'[u].now = NoSave => saving'[u].next = NoSave
    <3>1. \A u \in Tabs : saving[u].now = NoSave => saving[u].next = NoSave
      BY <1>0, TypedAre
    <3> QED BY <1>1, <3>1
  <2> QED BY <1>0, <1>1, <1>2, <2>1, TypedAre, TypedIs
<1>4. Named'
  <2>1. ASSUME NEW u \in Tabs, NEW r \in saving'[u].now.revs \cup saving'[u].next.revs
        PROVE  r \in saving[u].now.revs \cup saving[u].next.revs
    BY <1>1, <2>1 DEF NoSave
  <2> QED BY <1>0, <1>1, <2>1 DEF Named
<1>5. ASSUME NEW u \in Tabs PROVE Pipe(u)'
  <2>1. Piped(u, txs, events[u], saving[u].now, saving[u].next, load[u])
    BY DEF UnderWay, Pipe
  <2>2. CASE u = t
    <3>1. Piped(t, txs', Tail(events[t]), saving[t].next, NoSave, load[t])
      <4>1. SaveTx(t, saving[t].next.version).version = saving[t].next.version
            /\ SaveTx(t, saving[t].next.version).tab = t /\ SaveTx(t, saving[t].next.version).kind = "save"
        BY DEF SaveTx
      <4>2. SaveTx(t, saving[t].next.version) \in Tx => SaveTx(t, saving[t].next.version) \in TabSaves(t)
        BY <4>1, KindsOfTx
      <4>3. Head(events[t]) \in Answers
        BY <1>0 DEF Told
      <4>4. /\ saving[t].next = NoSave => Piped(t, txs, Tail(events[t]), saving[t].next, NoSave, load[t])
            /\ \A x \in TabSaves(t) :
                 x.version = saving[t].next.version /\ saving[t].next # NoSave =>
                   Piped(t, Append(txs, x), Tail(events[t]), saving[t].next, NoSave, load[t])
        BY <1>0, <2>1, <2>2, <4>3, PipedAnswered
      <4> QED BY <1>1, <4>1, <4>2, <4>4
    <3> QED BY <1>0, <1>1, <1>2, <2>2, <3>1 DEF Pipe
  <2>3. CASE u # t
    <3>1. txs' = txs \/ AsBefore(u, txs, txs')
      <4>1. SaveTx(t, saving[t].next.version).tab = t
        BY DEF SaveTx
      <4> QED BY <1>0, <1>1, <2>3, <4>1, AppendOther
    <3>2. Piped(u, txs', events[u], saving[u].now, saving[u].next, load[u])
      BY <2>1, <3>1, PipedOther
    <3> QED BY <1>0, <1>1, <1>2, <2>3, <3>2 DEF Pipe
  <2> QED BY <2>2, <2>3
<1> QED BY <1>3, <1>4, <1>5 DEF UnderWay

\* The steps that drop the cache.
Dropping(t) == DropCache(t) \/ DropShorter(t)

LEMMA DroppingIs ==
  ASSUME CacheTypeOK, NEW t \in Tabs, Dropping(t)
  PROVE  /\ Dropped(t) /\ durable' \in [Tabs -> BOOLEAN] /\ asked' \in [Tabs -> BOOLEAN]
         /\ UNCHANGED <<saves, db, txs, open, mem, load, seen, saving, events, turns, crashes>>
         /\ UNCHANGED <<cached, confirmed>>
<1>1. Dropped(t) /\ durable' \in [Tabs -> BOOLEAN] /\ asked' \in [Tabs -> BOOLEAN]
  BY TypedAre DEF Dropping, DropCache, DropShorter
<1> QED BY <1>1 DEF Dropped, saved

LEMMA DropUnderWay == ASSUME UnderWay, NEW t \in Tabs, Dropping(t) PROVE UnderWay'
<1>0. CacheTypeOK /\ Named
  BY DEF UnderWay
<1>1. /\ durable' \in [Tabs -> BOOLEAN] /\ asked' \in [Tabs -> BOOLEAN] /\ Dropped(t)
      /\ UNCHANGED <<saves, db, txs, open, mem, load, seen, saving, events, turns, crashes>>
      /\ UNCHANGED <<cached, confirmed>>
  BY <1>0, DroppingIs
<1>2. races' \subseteq Races /\ oh' \in Copies /\ stamp' \in Stamps /\ stamp' = NoStamp
  <2>1. races' \subseteq Races
    BY <1>0, <1>1, TypedAre DEF Dropped, Races
  <2>2. oh' \in Copies /\ stamp' \in Stamps /\ stamp' = NoStamp
    BY <1>1, StampsAre, VersionsAre DEF Dropped
  <2> QED BY <2>1, <2>2
<1>3. CacheTypeOK'
  BY <1>0, <1>1, <1>2, TypedAre, TypedIs
<1>4. stamp'.rev <= saves
  <2>1. saves \in Nat
    BY <1>0, TypedAre, VersionsAre
  <2> QED BY <1>2, <2>1 DEF NoStamp
<1>5. \A u \in Tabs : turns'[u] # "none" => open'[u]
  BY <1>0, <1>1 DEF Named
<1>6. Named'
  BY <1>1, <1>4, <1>5, NamedSame
<1> QED BY <1>1, <1>3, <1>6, UnderWaySame DEF UnderWay

\* A prune asks the store, or leaves the cache alone.
Asking(t) == AskStored(t) \/ SpareCache(t)

LEMMA AskingIs ==
  ASSUME CacheTypeOK, NEW t \in Tabs, Asking(t)
  PROVE  /\ asked' \in [Tabs -> BOOLEAN]
         /\ UNCHANGED <<saves, oh, stamp, db, txs, open, mem, load, seen, durable, saving, events>>
         /\ UNCHANGED <<turns, crashes, cached, confirmed, races>>
<1>1. asked' \in [Tabs -> BOOLEAN]
  BY TypedAre DEF Asking, AskStored, SpareCache
<1> QED BY <1>1 DEF Asking, AskStored, SpareCache, shared, saved

LEMMA AskingUnderWay == ASSUME UnderWay, NEW t \in Tabs, Asking(t) PROVE UnderWay'
<1>0. CacheTypeOK /\ Named
  BY DEF UnderWay
<1>1. /\ asked' \in [Tabs -> BOOLEAN]
      /\ UNCHANGED <<saves, oh, stamp, db, txs, open, mem, load, seen, durable, saving, events>>
      /\ UNCHANGED <<turns, crashes, cached, confirmed, races>>
  BY <1>0, AskingIs
<1>2. CacheTypeOK'
  BY <1>0, <1>1, TypedAre, TypedIs
<1>3. Named'
  BY <1>0, <1>1 DEF Named
<1> QED BY <1>1, <1>2, <1>3, UnderWaySame DEF UnderWay

LEMMA CrashStep ==
  ASSUME CacheTypeOK, NEW t \in Tabs, Crash(t)
  PROVE  /\ UNCHANGED <<saves, oh, stamp, cached, confirmed>>
         /\ \/ db' = db
            \/ \E i \in 1..Len(txs) : txs[i].tab = t /\ txs[i].kind = "save" /\ db' = txs[i].version
         /\ crashes' \in 0..MaxCrashes /\ db' \in Versions
         /\ txs' = Without(txs, t) /\ txs' \in Seq(Tx)
         /\ open' \in [Tabs -> BOOLEAN] /\ ~open'[t]
         /\ mem' \in [Tabs -> Versions] /\ mem'[t] = 0
         /\ load' \in [Tabs -> {"none", "reading"}] /\ load'[t] = "none"
         /\ seen' \in [Tabs -> Versions] /\ seen'[t] = 0
         /\ durable' \in [Tabs -> BOOLEAN]
         /\ saving' \in [Tabs -> Pairs] /\ saving'[t].now = NoSave /\ saving'[t].next = NoSave
         /\ events' \in [Tabs -> Seq(Happened)] /\ events'[t] = <<>>
         /\ \A u \in Tabs \ {t} : /\ open'[u] = open[u] /\ mem'[u] = mem[u] /\ load'[u] = load[u]
                                  /\ seen'[u] = seen[u] /\ saving'[u] = saving[u]
                                  /\ events'[u] = events[u]
         /\ turns' \in [Tabs -> {"none", "leased", "loose"}] /\ turns'[t] = "none"
         /\ \A u \in Tabs \ {t} : turns'[u] = turns[u]
         /\ asked' \in [Tabs -> BOOLEAN]
         /\ races' = races \cup (IF db' < db THEN {"crossed"} ELSE {})
<1>1. crashes' \in 0..MaxCrashes
  BY TypedAre, CacheAssumption DEF Crash
<1>2. /\ \/ db' = db
         \/ \E i \in 1..Len(txs) : txs[i].tab = t /\ txs[i].kind = "save" /\ db' = txs[i].version
      /\ db' \in Versions
  <2>0. txs \in Seq(Tx)
    BY TypedAre
  <2>1. ASSUME NEW i \in 1..Len(txs) PROVE txs[i].version \in Versions
    <3>1. txs[i] \in Tx
      BY <2>0
    <3> QED BY <3>1 DEF Tx
  <2> QED BY <2>1, TypedAre DEF Crash
<1>3. txs' = Without(txs, t) /\ txs' \in Seq(Tx)
  BY TypedAre, WithoutIs DEF Crash
<1>4. /\ open' \in [Tabs -> BOOLEAN] /\ ~open'[t]
      /\ mem' \in [Tabs -> Versions] /\ mem'[t] = 0
      /\ load' \in [Tabs -> {"none", "reading"}] /\ load'[t] = "none"
      /\ \A u \in Tabs \ {t} : open'[u] = open[u] /\ mem'[u] = mem[u] /\ load'[u] = load[u]
  BY TypedAre, VersionsAre DEF Crash
<1>5. /\ seen' \in [Tabs -> Versions] /\ seen'[t] = 0
      /\ durable' \in [Tabs -> BOOLEAN]
      /\ \A u \in Tabs \ {t} : seen'[u] = seen[u]
  BY TypedAre, VersionsAre DEF Crash
<1>6. /\ events' \in [Tabs -> Seq(Happened)] /\ events'[t] = <<>>
      /\ \A u \in Tabs \ {t} : events'[u] = events[u]
  BY TypedAre DEF Crash
<1>7. /\ saving' \in [Tabs -> Pairs] /\ saving'[t].now = NoSave /\ saving'[t].next = NoSave
      /\ \A u \in Tabs \ {t} : saving'[u] = saving[u]
  <2> DEFINE p == [now |-> NoSave, next |-> NoSave]
  <2>1. p \in Pairs /\ p.now = NoSave /\ p.next = NoSave
    BY SavesAre
  <2>2. saving' = [saving EXCEPT ![t] = p] /\ saving \in [Tabs -> Pairs]
    BY TypedAre DEF Crash
  <2> HIDE DEF p
  <2>3. saving' \in [Tabs -> Pairs] /\ saving'[t] = p /\ \A u \in Tabs \ {t} : saving'[u] = saving[u]
    BY <2>1, <2>2
  <2> QED BY <2>1, <2>3
<1>8. /\ UNCHANGED <<saves, oh, stamp, cached, confirmed>>
      /\ races' = races \cup (IF db' < db THEN {"crossed"} ELSE {})
  BY DEF Crash, saved, Note
<1>9. /\ turns' \in [Tabs -> {"none", "leased", "loose"}] /\ turns'[t] = "none"
      /\ \A u \in Tabs \ {t} : turns'[u] = turns[u]
      /\ asked' \in [Tabs -> BOOLEAN]
  BY TypedAre DEF Crash
<1> QED BY <1>1, <1>2, <1>3, <1>4, <1>5, <1>6, <1>7, <1>8, <1>9

LEMMA CrashUnderWay == ASSUME UnderWay, NEW t \in Tabs, Crash(t) PROVE UnderWay'
<1>0. CacheTypeOK /\ Named /\ txs \in Seq(Tx) /\ saves \in Nat
  BY TypedAre, VersionsAre DEF UnderWay
<1>1. /\ UNCHANGED <<saves, oh, stamp, cached, confirmed>>
      /\ txs' = Without(txs, t)
      /\ load'[t] = "none" /\ seen'[t] = 0
      /\ saving'[t].now = NoSave /\ saving'[t].next = NoSave
      /\ events'[t] = <<>>
      /\ \A u \in Tabs \ {t} : /\ open'[u] = open[u] /\ load'[u] = load[u]
                               /\ seen'[u] = seen[u] /\ saving'[u] = saving[u]
                               /\ events'[u] = events[u]
      /\ turns'[t] = "none" /\ \A u \in Tabs \ {t} : turns'[u] = turns[u]
  BY <1>0, CrashStep
<1>2. CacheTypeOK'
  <2>1. \A u \in Tabs : saving'[u].now = NoSave => saving'[u].next = NoSave
    BY <1>0, <1>1, TypedAre
  <2>2. races' \subseteq Races
    <3>1. races \subseteq Races
      BY <1>0, TypedAre
    <3>2. races' = races \cup (IF db' < db THEN {"crossed"} ELSE {})
      BY <1>0, CrashStep
    <3> QED BY <3>1, <3>2 DEF Races
  <2> QED BY <1>0, <1>1, <2>1, <2>2, CrashStep, TypedAre, TypedIs
<1>3. Named'
  <2>1. ASSUME NEW u \in Tabs PROVE /\ turns'[u] # "none" => open'[u]
                                    /\ \A r \in saving'[u].now.revs \cup saving'[u].next.revs : r <= saves
                                    /\ seen'[u] <= saves
    <3>1. CASE u = t
      BY <1>0, <1>1, <3>1 DEF NoSave
    <3>2. CASE u # t
      BY <1>0, <1>1, <3>2 DEF Named
    <3> QED BY <3>1, <3>2
  <2> QED BY <1>0, <1>1, <2>1 DEF Named
<1>4. ASSUME NEW u \in Tabs PROVE Pipe(u)'
  <2>1. CASE u = t
    BY <1>0, <1>1, <2>1, WithoutOwn, PipedFresh DEF Pipe
  <2>2. CASE u # t
    <3>1. Piped(u, txs, events[u], saving[u].now, saving[u].next, load[u])
      BY DEF UnderWay, Pipe
    <3>2. Piped(u, Without(txs, t), events[u], saving[u].now, saving[u].next, load[u])
      BY <1>0, <2>2, <3>1, WithoutOther, PipedOther
    <3> QED BY <1>1, <2>2, <3>2 DEF Pipe
  <2> QED BY <2>1, <2>2
<1> QED BY <1>2, <1>3, <1>4 DEF UnderWay

LEMMA StutterUnderWay == ASSUME UnderWay, UNCHANGED cacheVars PROVE UnderWay'
<1>0. CacheTypeOK /\ Named
  BY DEF UnderWay
<1>1. /\ UNCHANGED <<saves, oh, stamp, db, txs>> /\ UNCHANGED <<open, mem, load, seen, durable, saving, events, turns, asked>>
      /\ UNCHANGED <<crashes, cached, confirmed, races>>
  BY DEF cacheVars, shared, tabs, saved
<1>2. CacheTypeOK'
  BY <1>0, <1>1 DEF CacheTypeOK
<1>3. Named'
  BY <1>0, <1>1 DEF Named
<1> QED BY <1>1, <1>2, <1>3, UnderWaySame DEF UnderWay

LEMMA UnderWayStep == UnderWay /\ [CacheNext]_cacheVars => UnderWay'
<1> SUFFICES ASSUME UnderWay, [CacheNext]_cacheVars PROVE UnderWay'
  OBVIOUS
<1>1. ASSUME NEW t \in Tabs, HandleEvent(t) PROVE UnderWay'
  <2>1. HandleGeneration(t) \/ HandleRead(t) \/ HandleAnswer(t)
    BY <1>1, HandleCases DEF UnderWay
  <2> QED BY <2>1, GenerationUnderWay, ReadUnderWay, AnswerUnderWay
<1> QED BY <1>1, OpenUnderWay, ReloadUnderWay, LeaveUnderWay, BeginningUnderWay, TurnSaveUnderWay,
           AskingUnderWay, DropUnderWay, CrashUnderWay, StoreUnderWay, StutterUnderWay
        DEF CacheNext, Beginning, Asking, Dropping
-----------------------------------------------------------------------------
\* No version is above b.
BelowTab(t, b) ==
  /\ mem[t] <= b /\ saving[t].now.version <= b /\ saving[t].next.version <= b
  /\ \A e \in Happened : Has(events[t], {e}) => e.version <= b
Below(b) ==
  /\ oh.version <= b /\ db <= b /\ cached <= b
  /\ \A x \in Tx : Has(txs, {x}) => x.version <= b
  /\ \A t \in Tabs : BelowTab(t, b)

LEMMA OneAppend ==
  ASSUME NEW S, NEW q \in Seq(S), NEW x \in S, NEW y, Has(Append(q, x), {y})
  PROVE  Has(q, {y}) \/ y = x
<1> DEFINE K == {y}
<1>1. Has(Append(q, x), K) <=> (Has(q, K) \/ x \in K)
  BY HasAppend
<1> QED BY <1>1

LEMMA OneTail ==
  ASSUME NEW S, NEW q \in Seq(S), q # <<>>, NEW y, Has(Tail(q), {y})
  PROVE  Has(q, {y})
<1> DEFINE K == {y}
<1>1. Has(q, K) <=> (Head(q) \in K \/ Has(Tail(q), K))
  BY HasTail
<1> QED BY <1>1

LEMMA HeadIsThere ==
  ASSUME NEW S, NEW q \in Seq(S), q # <<>>
  PROVE  Has(q, {Head(q)})
<1> DEFINE K == {Head(q)}
<1>1. Has(q, K) <=> (Head(q) \in K \/ Has(Tail(q), K))
  BY HasTail
<1> QED BY <1>1

LEMMA OneWithout ==
  ASSUME NEW q \in Seq(Tx), NEW t, NEW y, Has(Without(q, t), {y})
  PROVE  Has(q, {y})
BY WithoutIs DEF Has

LEMMA VersionsInTab ==
  ASSUME CacheTypeOK, NEW t \in Tabs
  PROVE  /\ mem[t] \in Nat /\ seen[t] \in Nat
         /\ saving[t].now.version \in Nat /\ saving[t].next.version \in Nat
         /\ saving[t].now.revs \in SUBSET (1..MaxSaves) /\ saving[t].next.revs \in SUBSET (1..MaxSaves)
         /\ \A e \in Happened : e.version \in Nat
BY TypedAre, SavesAre, VersionsAre DEF Happened

LEMMA VersionsInCache ==
  ASSUME CacheTypeOK
  PROVE  /\ saves \in Nat /\ db \in Nat /\ cached \in Nat /\ confirmed \in Nat
         /\ oh.version \in Nat /\ oh.trimmed \in BOOLEAN
         /\ stamp.rev \in Nat /\ stamp.trimmed \in BOOLEAN /\ stamp.acked \in BOOLEAN
         /\ \A x \in Tx : x.version \in Nat
BY TypedAre, VersionsAre DEF Copies, Stamps, Tx

LEMMA BelowSave ==
  ASSUME CacheTypeOK, NEW b \in Nat, NEW c \in Nat, b <= c, Below(b),
         NEW t \in Tabs, NEW v, v \in Versions \/ v = saves + 1, SaveHistory(t, v), v <= c,
         UNCHANGED <<db, events>>
  PROVE  Below(c)'
<1>1. /\ v \in Nat /\ mem'[t] = v /\ cached' \in {0, v}
      /\ \A u \in Tabs \ {t} : mem'[u] = mem[u] /\ saving'[u] = saving[u]
      /\ Sent(t, v, saves + 1, saving, txs) /\ txs \in Seq(Tx)
  BY SaveStep, TypedAre, VersionsAre
<1>2. oh'.version <= c
  <2>1. oh' = oh \/ oh'.version = v
    BY DEF SaveHistory, CacheStamped, CacheRefused, CacheUnstamped
  <2>2. oh.version \in Nat /\ oh.version <= b
    BY VersionsInCache DEF Below
  <2> QED BY <1>1, <2>1, <2>2
<1>3. db' <= c /\ cached' <= c
  BY <1>1, VersionsInCache DEF Below
<1>4. ASSUME NEW x \in Tx, Has(txs', {x}) PROVE x.version <= c
  <2>1. Has(txs, {x}) \/ x.version = v
    <3>1. SaveTx(t, v).version = v /\ SaveTx(t, v) \in Tx
      <4>1. v \in Versions
        BY SaveStep
      <4> QED BY <4>1, TxsAre DEF SaveTx
    <3>2. txs' = txs \/ txs' = Append(txs, SaveTx(t, v))
      BY <1>1 DEF Sent
    <3>3. txs' = Append(txs, SaveTx(t, v)) => Has(txs, {x}) \/ x = SaveTx(t, v)
      BY <1>1, <1>4, <3>1, OneAppend
    <3> HIDE DEF SaveTx
    <3> QED BY <1>4, <3>1, <3>2, <3>3
  <2>2. Has(txs, {x}) => x.version <= b
    BY DEF Below
  <2> QED BY <2>1, <2>2, VersionsInCache
<1>5. ASSUME NEW u \in Tabs PROVE BelowTab(u, c)'
  <2>1. /\ mem[u] \in Nat /\ saving[u].now.version \in Nat /\ saving[u].next.version \in Nat
        /\ mem[u] <= b /\ saving[u].now.version <= b /\ saving[u].next.version <= b
    BY VersionsInTab DEF Below, BelowTab
  <2>2. mem'[u] \in {mem[u], v}
    BY <1>1
  <2>3. /\ saving'[u].now.version \in {saving[u].now.version, v}
        /\ saving'[u].next.version \in {saving[u].next.version, v}
    <3>1. CASE u # t
      BY <1>1, <3>1
    <3>2. CASE u = t
      BY <1>1, <3>2 DEF Sent
    <3> QED BY <3>1, <3>2
  <2>4. \A e \in Happened : Has(events'[u], {e}) => e.version <= c
    <3>1. \A e \in Happened : Has(events[u], {e}) => e.version <= b
      BY DEF Below, BelowTab
    <3> QED BY <3>1, VersionsInTab
  <2>5. mem'[u] <= c
    BY <1>1, <2>1, <2>2
  <2>6. saving'[u].now.version <= c
    BY <1>1, <2>1, <2>3
  <2>7. saving'[u].next.version <= c
    BY <1>1, <2>1, <2>3
  <2> QED BY <2>4, <2>5, <2>6, <2>7 DEF BelowTab
<1> QED BY <1>2, <1>3, <1>4, <1>5 DEF Below

LoadTx(t) == [tab |-> t, kind |-> "generation", version |-> 0]
LEMMA LoadStep ==
  ASSUME CacheTypeOK, NEW t \in Tabs, OpenChat(t) \/ ReloadChanged(t)
  PROVE  /\ UNCHANGED <<saves, oh, stamp, db, durable, saving, events, turns, asked, crashes, cached, confirmed>>
         /\ load[t] = "none" /\ load'[t] = "reading"
         /\ mem'[t] = 0 /\ open'[t] /\ seen'[t] \in {seen[t], stamp.rev}
         /\ \A u \in Tabs \ {t} : /\ load'[u] = load[u] /\ mem'[u] = mem[u] /\ open'[u] = open[u]
                                  /\ seen'[u] = seen[u]
         /\ txs \in Seq(Tx) /\ txs' = Append(txs, LoadTx(t)) /\ LoadTx(t) \in Tx /\ LoadTx(t).version = 0
         /\ races \subseteq races'
<1>1. BeginLoad(t) /\ load[t] = "none"
  BY DEF OpenChat, ReloadChanged
<1>2. UNCHANGED <<saves, oh, stamp, db, durable, saving, events, turns, asked, crashes, cached, confirmed>>
  BY DEF OpenChat, ReloadChanged, saved
<1>3. /\ load'[t] = "reading" /\ mem'[t] = 0 /\ seen'[t] \in {seen[t], stamp.rev}
      /\ \A u \in Tabs \ {t} : load'[u] = load[u] /\ mem'[u] = mem[u] /\ seen'[u] = seen[u]
  BY <1>1, TypedAre DEF BeginLoad
<1>4. open'[t] /\ \A u \in Tabs \ {t} : open'[u] = open[u]
  BY TypedAre DEF OpenChat, ReloadChanged
<1>5. txs \in Seq(Tx) /\ txs' = Append(txs, LoadTx(t)) /\ LoadTx(t) \in Tx /\ LoadTx(t).version = 0
  BY <1>1, TypedAre, TxsAre, VersionsAre DEF BeginLoad, LoadTx
<1>6. races \subseteq races'
  BY DEF OpenChat, ReloadChanged, Note
<1> QED BY <1>1, <1>2, <1>3, <1>4, <1>5, <1>6

LEMMA BelowLoad ==
  ASSUME CacheTypeOK, NEW b \in Nat, Below(b), NEW t \in Tabs, OpenChat(t) \/ ReloadChanged(t)
  PROVE  Below(b)'
<1>1. /\ UNCHANGED <<oh, db, saving, events, cached>> /\ mem'[t] = 0
      /\ \A u \in Tabs \ {t} : mem'[u] = mem[u]
      /\ txs \in Seq(Tx) /\ txs' = Append(txs, LoadTx(t)) /\ LoadTx(t) \in Tx /\ LoadTx(t).version = 0
  BY LoadStep
<1>2. ASSUME NEW x \in Tx, Has(txs', {x}) PROVE x.version <= b
  <2>1. Has(txs, {x}) \/ x = LoadTx(t)
    BY <1>1, <1>2, OneAppend
  <2> QED BY <1>1, <2>1 DEF Below
<1>3. ASSUME NEW u \in Tabs PROVE BelowTab(u, b)'
  <2>1. mem'[u] <= b
    BY <1>1 DEF Below, BelowTab
  <2> QED BY <1>1, <2>1 DEF Below, BelowTab
<1> QED BY <1>1, <1>2, <1>3 DEF Below

LEMMA BelowSame ==
  ASSUME NEW b, Below(b), UNCHANGED <<oh, db, cached, txs, mem, saving, events>>
  PROVE  Below(b)'
BY DEF Below, BelowTab

LEMMA BelowStore ==
  ASSUME CacheTypeOK, NEW b \in Nat, Below(b), StoreStep
  PROVE  Below(b)'
<1> DEFINE x == Head(txs)
<1>1. /\ txs # <<>> /\ txs' = Tail(txs) /\ x \in Tx /\ x.tab \in Tabs
      /\ UNCHANGED <<oh, cached, mem, saving>>
  BY StoreIs
<1>2. PICK e \in Happened :
        /\ Ran(e)
        /\ events'[x.tab] = Append(events[x.tab], e)
        /\ \A u \in Tabs \ {x.tab} : events'[u] = events[u]
  BY StoreIs
<1>3. txs \in Seq(Tx) /\ events \in [Tabs -> Seq(Happened)]
  BY TypedAre
<1>4. x.version <= b
  BY <1>1, <1>3, HeadIsThere DEF Below
<1>5. db' <= b /\ e.version <= b
  BY <1>2, <1>4 DEF Ran, Below
<1> HIDE DEF x
<1>6. \A y \in Tx : Has(txs', {y}) => y.version <= b
  BY <1>1, <1>3, OneTail DEF Below
<1>7. ASSUME NEW u \in Tabs PROVE BelowTab(u, b)'
  <2>1. ASSUME NEW f \in Happened, Has(events'[u], {f}) PROVE f.version <= b
    <3>1. Has(events[u], {f}) \/ f = e
      <4>1. events[u] \in Seq(Happened)
        BY <1>3
      <4>2. events'[u] = events[u] \/ events'[u] = Append(events[u], e)
        BY <1>2
      <4>3. CASE events'[u] = events[u]
        BY <2>1, <4>3
      <4>4. CASE events'[u] = Append(events[u], e)
        <5>1. Has(Append(events[u], e), {f})
          BY <2>1, <4>4
        <5> QED BY <4>1, <5>1, OneAppend
      <4> QED BY <4>2, <4>3, <4>4
    <3> QED BY <1>5, <3>1 DEF Below, BelowTab
  <2> QED BY <1>1, <2>1 DEF Below, BelowTab
<1> QED BY <1>1, <1>5, <1>6, <1>7 DEF Below

LEMMA BelowEvents ==
  ASSUME CacheTypeOK, NEW b, Below(b), NEW t \in Tabs, Handled(t)
  PROVE  \A u \in Tabs, e \in Happened : Has(events'[u], {e}) => Has(events[u], {e}) /\ e.version <= b
<1> SUFFICES ASSUME NEW u \in Tabs, NEW e \in Happened, Has(events'[u], {e})
             PROVE  Has(events[u], {e}) /\ e.version <= b
  OBVIOUS
<1>1. Has(events[u], {e})
  <2>1. events[t] \in Seq(Happened) /\ events[t] # <<>>
    BY ToldIs DEF Handled
  <2>2. CASE u = t
    BY <2>1, <2>2, EventsAfter, OneTail
  <2>3. CASE u # t
    BY <2>3, EventsAfter
  <2> QED BY <2>2, <2>3
<1> QED BY <1>1 DEF Below, BelowTab

LEMMA BelowHandle ==
  ASSUME UnderWay, NEW b \in Nat, Below(b), NEW t \in Tabs, HandleEvent(t)
  PROVE  Below(b)'
<1>0. CacheTypeOK /\ txs \in Seq(Tx)
  BY TypedAre DEF UnderWay
<1>1. HandleGeneration(t) \/ HandleRead(t) \/ HandleAnswer(t)
  BY <1>0, HandleCases
<1>2. Handled(t) /\ UNCHANGED <<oh, db, cached>>
  BY <1>1 DEF HandleGeneration, HandleRead, HandleAnswer, Handled
<1>3. \A u \in Tabs, e \in Happened : Has(events'[u], {e}) => e.version <= b
  BY <1>0, <1>2, BelowEvents
<1>4. CASE HandleGeneration(t)
  <2> DEFINE x == [tab |-> t, kind |-> "record", version |-> 0]
  <2>1. txs' = Append(txs, x) /\ UNCHANGED <<mem, saving>>
    BY <1>4 DEF HandleGeneration
  <2>2. x \in Tx /\ x.version = 0
    BY TxsAre, VersionsAre
  <2> HIDE DEF x
  <2>3. \A y \in Tx : Has(txs', {y}) => y.version <= b
    <3>1. ASSUME NEW y \in Tx, Has(txs', {y}) PROVE Has(txs, {y}) \/ y = x
      <4>1. Has(Append(txs, x), {y})
        BY <2>1, <3>1
      <4> QED BY <1>0, <2>2, <4>1, OneAppend
    <3> QED BY <2>2, <3>1 DEF Below
  <2> QED BY <1>2, <1>3, <2>1, <2>3 DEF Below, BelowTab
<1>5. CASE HandleRead(t)
  <2>1. /\ UNCHANGED <<saving, txs>>
        /\ mem'[t] \in {mem[t], Restored(Told(t).version)}
        /\ \A u \in Tabs \ {t} : mem'[u] = mem[u]
    BY <1>5, ReadStep
  <2>2. Told(t).version <= b
    <3>1. Told(t) \in Happened /\ Has(events[t], {Told(t)})
      BY <1>0, <1>2, ToldIs DEF Handled
    <3> QED BY <3>1 DEF Below, BelowTab
  <2>3. Restored(Told(t).version) <= b
    BY <2>2 DEF Restored, Below
  <2>4. \A u \in Tabs : mem'[u] <= b
    BY <2>1, <2>3 DEF Below, BelowTab
  <2> QED BY <1>2, <1>3, <2>1, <2>4 DEF Below, BelowTab
<1>6. CASE HandleAnswer(t)
  <2>1. /\ saving'[t].now = saving[t].next /\ saving'[t].next = NoSave
        /\ \A u \in Tabs \ {t} : saving'[u] = saving[u]
        /\ \/ saving[t].next = NoSave /\ txs' = txs
           \/ /\ txs' = Append(txs, SaveTx(t, saving[t].next.version))
              /\ SaveTx(t, saving[t].next.version) \in Tx
    BY <1>0, <1>6, AnswerStep
  <2>2. mem' = mem
    BY <1>6 DEF HandleAnswer
  <2>3. SaveTx(t, saving[t].next.version).version <= b
    BY DEF SaveTx, Below, BelowTab
  <2>4. \A u \in Tabs : saving'[u].now.version <= b /\ saving'[u].next.version <= b
    BY <2>1 DEF Below, BelowTab, NoSave
  <2>5. \A y \in Tx : Has(txs', {y}) => y.version <= b
    <3> DEFINE x == SaveTx(t, saving[t].next.version)
    <3> HIDE DEF x
    <3>1. ASSUME NEW y \in Tx, Has(txs', {y}) PROVE Has(txs, {y}) \/ y = x
      <4>1. txs' = txs \/ (txs' = Append(txs, x) /\ x \in Tx)
        BY <2>1 DEF x
      <4>2. CASE txs' = txs
        BY <3>1, <4>2
      <4>3. CASE txs' = Append(txs, x) /\ x \in Tx
        <5>1. Has(Append(txs, x), {y})
          BY <3>1, <4>3
        <5> QED BY <1>0, <4>3, <5>1, OneAppend
      <4> QED BY <4>1, <4>2, <4>3
    <3> QED BY <2>3, <3>1 DEF Below, x
  <2> QED BY <1>2, <1>3, <2>2, <2>4, <2>5 DEF Below, BelowTab
<1> QED BY <1>1, <1>4, <1>5, <1>6

LEMMA BelowDrop ==
  ASSUME CacheTypeOK, NEW b \in Nat, Below(b), NEW t \in Tabs, Dropping(t)
  PROVE  Below(b)'
<1>1. oh'.version = 0 /\ UNCHANGED <<db, cached, txs, mem, saving, events>>
  BY DroppingIs DEF Dropped
<1> QED BY <1>1 DEF Below, BelowTab

LEMMA BelowCrash ==
  ASSUME CacheTypeOK, NEW b \in Nat, Below(b), NEW t \in Tabs, Crash(t)
  PROVE  Below(b)'
<1>1. /\ UNCHANGED <<oh, cached>> /\ txs' = Without(txs, t) /\ txs \in Seq(Tx)
      /\ mem'[t] = 0 /\ saving'[t].now = NoSave /\ saving'[t].next = NoSave /\ events'[t] = <<>>
      /\ \A u \in Tabs \ {t} : mem'[u] = mem[u] /\ saving'[u] = saving[u] /\ events'[u] = events[u]
  BY CrashStep, TypedAre
<1>2. db' <= b
  <2>1. CASE db' = db
    BY <2>1 DEF Below
  <2>2. ASSUME NEW i \in 1..Len(txs), db' = txs[i].version PROVE db' <= b
    <3>1. txs[i] \in Tx /\ Has(txs, {txs[i]})
      BY <1>1 DEF Has
    <3> QED BY <2>2, <3>1 DEF Below
  <2> QED BY <2>1, <2>2, CrashStep
<1>3. \A x \in Tx : Has(txs', {x}) => x.version <= b
  BY <1>1, OneWithout DEF Below
<1>4. ASSUME NEW u \in Tabs PROVE BelowTab(u, b)'
  <2>1. CASE u = t
    BY <1>1, <2>1, HasNone DEF BelowTab, NoSave
  <2>2. CASE u # t
    BY <1>1, <2>2 DEF Below, BelowTab
  <2> QED BY <2>1, <2>2
<1> QED BY <1>1, <1>2, <1>3, <1>4 DEF Below

\* Only a save makes a version.
LEMMA BelowOther ==
  ASSUME UnderWay, NEW b \in Nat, Below(b), [CacheNext]_cacheVars, saves' = saves
  PROVE  Below(b)'
<1>0. CacheTypeOK /\ saves \in Nat
  BY VersionsInCache DEF UnderWay
<1>5. ASSUME NEW t, NEW v PROVE ~SaveHistory(t, v)
  <2>1. SaveHistory(t, v) => saves' = saves + 1
    BY DEF SaveHistory
  <2> QED BY <1>0, <2>1
<1>1. ASSUME NEW t \in Tabs, LeaveChat(t) PROVE Below(b)'
  <2>1. ~SaveHistory(t, mem[t])
    BY <1>5
  <2>2. UNCHANGED <<oh, db, cached, txs, mem, saving, events>>
    BY <1>1, <2>1 DEF LeaveChat
  <2> QED BY <2>2, BelowSame
<1>2. ASSUME NEW t \in Tabs, Beginning(t) \/ Asking(t) PROVE Below(b)'
  BY <1>0, <1>2, BeginningIs, AskingIs, BelowSame
<1>3. ASSUME NEW t \in Tabs, TurnSave(t) PROVE Below(b)'
  <2>1. ~SaveHistory(t, saves + 1)
    BY <1>5
  <2>2. UNCHANGED <<oh, db, cached, txs, mem, saving, events>>
    BY <1>3, <2>1 DEF TurnSave
  <2> QED BY <2>2, BelowSame
<1>4. CASE UNCHANGED cacheVars
  BY <1>4, BelowSame DEF cacheVars, shared, tabs, saved
<1> QED BY <1>0, <1>1, <1>2, <1>3, <1>4, BelowLoad, BelowStore, BelowHandle, BelowDrop, BelowCrash
        DEF CacheNext, Beginning, Asking, Dropping

\* A save of version v by t.
SavedBy(t, v) ==
  /\ SaveHistory(t, v) /\ open[t] /\ load[t] = "none"
  /\ UNCHANGED <<confirmed, db, load, events>>
  /\ \A u \in Tabs \ {t} : open'[u] = open[u]
  /\ \/ v = mem[t] /\ turns[t] = "none" /\ turns' = turns /\ ~ChangedElsewhere(t) /\ ~open'[t]
     \/ v = saves + 1 /\ turns[t] # "none" /\ open'[t] /\ \A u \in Tabs \ {t} : turns'[u] = turns[u]

LEMMA SaveSteps ==
  ASSUME UnderWay, [CacheNext]_cacheVars, saves' # saves
  PROVE  \E t \in Tabs, v \in Versions : SavedBy(t, v)
<1>0. CacheTypeOK /\ Named
  BY DEF UnderWay
<1>1. ASSUME NEW t \in Tabs, LeaveChat(t) PROVE SavedBy(t, mem[t]) /\ mem[t] \in Versions
  <2>1. SaveHistory(t, mem[t]) /\ load[t] = "none" /\ ~ChangedElsewhere(t)
    BY <1>1 DEF LeaveChat
  <2>2. /\ UNCHANGED <<confirmed, db, load, events, turns>> /\ open[t] /\ turns[t] = "none"
        /\ open' = [open EXCEPT ![t] = FALSE]
    BY <1>1 DEF LeaveChat
  <2>3. ~open'[t] /\ \A u \in Tabs \ {t} : open'[u] = open[u]
    BY <1>0, <2>2, TypedAre
  <2>4. mem[t] \in Versions
    BY <1>0, TypedAre
  <2> QED BY <2>1, <2>2, <2>3, <2>4 DEF SavedBy
<1>2. ASSUME NEW t \in Tabs, TurnSave(t) PROVE SavedBy(t, saves + 1) /\ saves + 1 \in Versions
  <2>1. load[t] = "none" /\ SaveHistory(t, saves + 1)
    BY <1>2 DEF TurnSave
  <2>2. /\ turns[t] # "none" /\ \A u \in Tabs \ {t} : turns'[u] = turns[u]
        /\ UNCHANGED <<confirmed, db, open, load, events>>
    BY <1>0, <1>2, TurnSaveIs
  <2>3. open[t]
    BY <1>0, <2>2 DEF Named
  <2>4. saves + 1 \in Versions
    BY <1>0, <2>1, SaveStep
  <2> QED BY <2>1, <2>2, <2>3, <2>4 DEF SavedBy
<1>3. ASSUME NEW t \in Tabs
      PROVE  /\ ~OpenChat(t) /\ ~ReloadChanged(t) /\ ~Beginning(t) /\ ~Asking(t) /\ ~Dropping(t)
             /\ ~Crash(t) /\ ~HandleEvent(t)
  <2>1. ~OpenChat(t) /\ ~ReloadChanged(t) /\ ~Crash(t) /\ ~HandleEvent(t)
    BY DEF OpenChat, ReloadChanged, Crash, HandleEvent
  <2>2. ~Beginning(t) /\ ~Asking(t) /\ ~Dropping(t)
    BY <1>0, BeginningIs, AskingIs, DroppingIs
  <2> QED BY <2>1, <2>2
<1>4. ~StoreStep
  BY DEF StoreStep
<1>5. ~UNCHANGED cacheVars
  BY DEF cacheVars, shared
<1> QED BY <1>1, <1>2, <1>3, <1>4, <1>5 DEF CacheNext, Beginning, Asking, Dropping

\* Versions are numbered by the saves.
LEMMA BelowSavesInit == CacheInit => Below(saves)
<1> SUFFICES ASSUME CacheInit PROVE Below(saves)
  OBVIOUS
<1>1. \A K : ~Has(<<>>, K)
  BY HasNone
<1>2. ASSUME NEW t \in Tabs PROVE BelowTab(t, saves)
  <2>1. events[t] = <<>> /\ mem[t] <= saves
    BY DEF CacheInit
  <2>2. saving[t].now.version <= saves /\ saving[t].next.version <= saves
    BY DEF CacheInit, NoSave
  <2> QED BY <1>1, <2>1, <2>2 DEF BelowTab
<1> QED BY <1>1, <1>2 DEF CacheInit, Below

LEMMA BelowSavesStep ==
  ASSUME UnderWay, Below(saves), [CacheNext]_cacheVars
  PROVE  Below(saves)'
<1>0. CacheTypeOK /\ saves \in Nat
  BY VersionsInCache DEF UnderWay
<1>1. PICK b \in Nat : b = saves
  BY <1>0
<1>2. Below(b)
  BY <1>1 DEF Below, BelowTab
<1>3. CASE saves' = saves
  <2>1. Below(b)'
    BY <1>2, <1>3, BelowOther
  <2> QED BY <1>1, <1>3, <2>1 DEF Below, BelowTab
<1>4. CASE saves' # saves
  <2>1. PICK t \in Tabs, v \in Versions : SavedBy(t, v)
    BY <1>4, SaveSteps
  <2>2. SaveHistory(t, v) /\ UNCHANGED <<db, events>> /\ saves' = saves + 1
    BY <2>1 DEF SavedBy, SaveHistory
  <2>3. v <= b + 1
    <3>1. v = mem[t] \/ v = saves + 1
      BY <2>1 DEF SavedBy
    <3>2. mem[t] \in Nat /\ mem[t] <= b
      BY <1>0, <1>2, VersionsInTab DEF Below, BelowTab
    <3> QED BY <1>1, <3>1, <3>2
  <2>4. PICK c \in Nat : c = b + 1 /\ b <= c
    BY <1>1
  <2>5. Below(c)'
    BY <1>0, <1>2, <2>2, <2>3, <2>4, BelowSave
  <2> QED BY <1>1, <2>2, <2>4, <2>5 DEF Below, BelowTab
<1> QED BY <1>3, <1>4
-----------------------------------------------------------------------------
\* Several tabs, nothing lost: the cache is the newest version of all, and a tab that
\* agrees with the stamp has it.
Newest(s, v) == saves \in s.revs => s.version = v
Current(t) ==
  /\ Newest(saving[t].now, cached) /\ Newest(saving[t].next, cached)
  /\ open[t] /\ load[t] = "none" /\ seen[t] = stamp.rev => mem[t] = cached
  /\ \A e \in Happened : Has(events[t], {e}) /\ e.kind = "saved" => e.version <= db
Agreed ==
  /\ oh.version = cached /\ stamp.rev \in {0, saves} /\ confirmed <= cached
  /\ stamp.rev = 0 \/ oh.trimmed \/ stamp.trimmed => cached = 0
  /\ stamp.acked => cached <= db
TabsAgree == Below(cached) /\ Agreed /\ \A t \in Tabs : Current(t)

LEMMA MemIsNewest ==
  ASSUME CacheTypeOK, TabsAgree, NEW t \in Tabs, open[t], load[t] = "none", ~ChangedElsewhere(t)
  PROVE  mem[t] = cached
<1>1. CASE stamp.rev # 0
  BY <1>1 DEF ChangedElsewhere, TabsAgree, Current
<1>2. CASE stamp.rev = 0
  <2>1. cached = 0 /\ mem[t] <= 0
    BY <1>2 DEF TabsAgree, Agreed, Below, BelowTab
  <2> QED BY <2>1, VersionsInTab
<1> QED BY <1>1, <1>2

LEMMA RestoredIsNewest ==
  ASSUME CacheTypeOK, Agreed, Below(cached), NEW w \in Nat, w <= cached,
         w = 0 \/ CacheIsNewer \/ db <= w
  PROVE  Restored(w) = cached
<1>1. /\ cached \in Nat /\ db \in Nat /\ db <= cached /\ oh.version = cached
      /\ stamp.acked => cached <= db
      /\ stamp.rev = 0 \/ oh.trimmed \/ stamp.trimmed => cached = 0
  BY VersionsInCache DEF Agreed, Below
<1>2. CASE w # 0 /\ ~CacheIsNewer
  <2>1. Restored(w) = w /\ db <= w
    BY <1>2 DEF Restored
  <2>2. stamp.acked \/ cached = 0
    BY <1>1, <1>2 DEF CacheIsNewer
  <2> QED BY <1>1, <2>1, <2>2
<1>3. CASE ~(w # 0 /\ ~CacheIsNewer)
  BY <1>1, <1>3 DEF Restored
<1> QED BY <1>2, <1>3

LEMMA AgreeInit == CacheInit => TabsAgree
<1> SUFFICES ASSUME CacheInit PROVE TabsAgree
  OBVIOUS
<1>1. Agreed
  BY DEF CacheInit, Agreed, NoStamp
<1>2. Below(cached)
  <2>1. cached = saves
    BY DEF CacheInit
  <2> QED BY <2>1, BelowSavesInit
<1>3. ASSUME NEW t \in Tabs PROVE Current(t)
  <2>1. events[t] = <<>> /\ mem[t] = cached
    BY DEF CacheInit
  <2>2. Newest(saving[t].now, cached) /\ Newest(saving[t].next, cached)
    BY DEF CacheInit, NoSave, Newest
  <2> QED BY <2>1, <2>2, HasNone DEF Current
<1> QED BY <1>1, <1>2, <1>3 DEF TabsAgree

LEMMA BelowCached ==
  ASSUME UnderWay, Below(cached), [CacheNext]_cacheVars, UNCHANGED <<saves, cached>>
  PROVE  Below(cached)'
<1>1. PICK b \in Nat : b = cached
  BY VersionsInCache DEF UnderWay
<1>2. Below(b)
  BY <1>1 DEF Below, BelowTab
<1>3. Below(b)'
  BY <1>2, BelowOther
<1> QED BY <1>1, <1>3 DEF Below, BelowTab

\* The four ways in which the cache is written, when the version is cached or there is none.
LEMMA SaveAgreed ==
  ASSUME CacheTypeOK, Agreed, Below(cached), NEW t, NEW v \in Versions, SaveHistory(t, v), cached' = v,
         cached <= v, UNCHANGED <<db, confirmed>>
  PROVE  Agreed' /\ stamp'.rev \in {0, saves + 1}
<1>1. /\ oh.version = cached /\ cached \in Nat /\ v \in Nat /\ db \in Nat /\ confirmed \in Nat
      /\ confirmed <= cached /\ db <= cached
  BY VersionsAre, VersionsInCache DEF Agreed, Below
<1>2. confirmed' <= cached' /\ db' = db
  BY <1>1
<1>3. saves' = saves + 1
  BY DEF SaveHistory
<1>4. CASE CacheStamped(t, v, FALSE)
  <2>1. oh'.version = v /\ ~oh'.trimmed /\ stamp'.rev = saves + 1 /\ ~stamp'.trimmed /\ ~stamp'.acked
    BY <1>4 DEF CacheStamped
  <2>2. saves + 1 # 0
    BY VersionsInCache
  <2> QED BY <1>2, <1>3, <2>1, <2>2 DEF Agreed
<1>5. CASE CacheStamped(t, v, TRUE)
  <2>1. oh'.version = v /\ stamp'.rev = saves + 1 /\ ~stamp'.acked /\ cached' = 0
    BY <1>5 DEF CacheStamped
  <2> QED BY <1>2, <1>3, <2>1 DEF Agreed
<1>6. CASE CacheRefused
  <2>1. oh' = oh /\ stamp'.rev = 0 /\ ~stamp'.acked /\ cached' = 0
    BY <1>6 DEF CacheRefused, NoStamp
  <2>2. oh'.version = cached'
    BY <1>1, <2>1
  <2> QED BY <1>2, <1>3, <2>1, <2>2 DEF Agreed
<1>7. CASE CacheUnstamped(v)
  <2>1. oh'.version = v /\ stamp' = stamp /\ stamp.rev = 0 /\ cached' = 0
    BY <1>7 DEF CacheUnstamped
  <2>2. stamp'.acked => cached' <= db'
    BY <1>1, <1>2, <2>1
  <2> QED BY <1>2, <1>3, <2>1, <2>2 DEF Agreed
<1> QED BY <1>4, <1>5, <1>6, <1>7 DEF SaveHistory

LEMMA AgreeSave ==
  ASSUME UnderWay, Below(saves), TabsAgree, saves' # saves, [CacheNext]_cacheVars,
         races' \subseteq {"shared", "unlooked", "unleased"}
  PROVE  TabsAgree'
<1>0. CacheTypeOK /\ Named /\ saves \in Nat /\ cached \in Nat
  BY VersionsInCache DEF UnderWay
<1>1. PICK t \in Tabs, v \in Versions : SavedBy(t, v)
  BY SaveSteps
<1>2. SaveHistory(t, v) /\ saves' = saves + 1 /\ UNCHANGED <<db, events, confirmed>>
  BY <1>1 DEF SavedBy, SaveHistory
<1>3. /\ mem'[t] = v
      /\ \A u \in Tabs \ {t} : mem'[u] = mem[u] /\ seen'[u] = seen[u] /\ saving'[u] = saving[u]
      /\ races' = races \cup (IF cached' # v THEN {"uncached"} ELSE {})
      /\ Sent(t, v, saves + 1, saving, txs)
  BY <1>0, <1>2, SaveStep
<1>4. cached' = v
  BY <1>3
<1>5. v = cached \/ v = saves + 1
  BY <1>0, <1>1, MemIsNewest DEF SavedBy
<1>6. cached <= v
  <2>1. cached <= saves
    BY DEF Below
  <2> QED BY <1>0, <1>5, <2>1
<1>7. Agreed' /\ stamp'.rev \in {0, saves + 1}
  BY <1>0, <1>2, <1>4, <1>6, SaveAgreed DEF TabsAgree
<1>8. Below(cached)'
  <2>1. PICK b \in Nat : b = cached
    BY <1>0
  <2>2. PICK c \in Nat : c = v
    BY VersionsAre
  <2>3. Below(b)
    BY <2>1 DEF TabsAgree, Below, BelowTab
  <2>4. Below(c)'
    BY <1>0, <1>2, <1>6, <2>1, <2>2, <2>3, BelowSave
  <2> QED BY <1>4, <2>2, <2>4 DEF Below, BelowTab
<1>9. ASSUME NEW u \in Tabs PROVE Current(u)'
  <2>1. Current(u) /\ BelowTab(u, cached)
    BY DEF TabsAgree, Below
  <2>2. Newest(saving[u].now, cached)' /\ Newest(saving[u].next, cached)'
    <3>1. /\ saves + 1 \notin saving[u].now.revs
          /\ saves + 1 \notin saving[u].next.revs
      <4>1. ~(saves + 1 <= saves)
        BY <1>0
      <4> QED BY <1>0, <4>1 DEF Named
    <3>2. CASE u # t
      BY <1>2, <1>3, <3>1, <3>2 DEF Newest
    <3>3. CASE u = t
      BY <1>2, <1>3, <1>4, <3>1, <3>3 DEF Newest, Sent
    <3> QED BY <3>2, <3>3
  <2>3. open'[u] /\ load'[u] = "none" /\ seen'[u] = stamp'.rev => mem'[u] = v
    <3>1. CASE u = t
      BY <1>3, <3>1
    <3>2. ASSUME u # t, seen'[u] = stamp'.rev PROVE mem'[u] = v
      <4>1. seen[u] <= saves /\ seen[u] \in Nat /\ mem[u] \in Nat /\ mem[u] <= cached
        BY <1>0, <2>1, VersionsInTab DEF Named, BelowTab
      <4>2. stamp'.rev = 0
        BY <1>0, <1>3, <1>7, <3>2, <4>1
      <4>3. v = 0
        BY <1>4, <1>7, <4>2 DEF Agreed
      <4> QED BY <1>0, <1>3, <1>6, <3>2, <4>1, <4>3
    <3> QED BY <3>1, <3>2
  <2>4. \A e \in Happened : Has(events'[u], {e}) /\ e.kind = "saved" => e.version <= db'
    BY <1>2, <2>1 DEF Current
  <2> QED BY <1>4, <2>2, <2>3, <2>4 DEF Current
<1> QED BY <1>7, <1>8, <1>9 DEF TabsAgree

LEMMA AgreeSame ==
  ASSUME Agreed, UNCHANGED <<saves, oh, stamp, cached, confirmed>>, db <= db', CacheTypeOK, CacheTypeOK'
  PROVE  Agreed'
<1>1. cached \in Nat /\ db \in Nat /\ db' \in Nat
  BY VersionsInCache, TypedAre, VersionsAre DEF CacheTypeOK
<1>2. stamp'.acked => cached' <= db'
  BY <1>1 DEF Agreed
<1> QED BY <1>2 DEF Agreed

\* A tab of which nothing changed.
LEMMA CurrentSame ==
  ASSUME NEW u, Current(u), UNCHANGED <<saves, stamp, cached, db>>,
         saving'[u] = saving[u], open'[u] = open[u], load'[u] = load[u], seen'[u] = seen[u],
         mem'[u] = mem[u],
         \A e \in Happened : Has(events'[u], {e}) /\ e.kind = "saved" => Has(events[u], {e})
  PROVE  Current(u)'
BY DEF Current, Newest

LEMMA AgreeLoad ==
  ASSUME UnderWay, TabsAgree, NEW t \in Tabs, OpenChat(t) \/ ReloadChanged(t)
  PROVE  Agreed' /\ \A u \in Tabs : Current(u)'
<1>0. CacheTypeOK /\ Named
  BY DEF UnderWay
<1>1. /\ UNCHANGED <<saves, oh, stamp, db, saving, events, cached, confirmed>>
      /\ load'[t] = "reading"
      /\ \A u \in Tabs \ {t} : /\ load'[u] = load[u] /\ mem'[u] = mem[u] /\ open'[u] = open[u]
                               /\ seen'[u] = seen[u]
  BY <1>0, LoadStep
<1>2. Agreed'
  BY <1>1 DEF TabsAgree, Agreed
<1>3. ASSUME NEW u \in Tabs PROVE Current(u)'
  <2>1. CASE u # t
    BY <1>1, <2>1, CurrentSame DEF TabsAgree
  <2>2. CASE u = t
    <3>1. Current(t)
      BY DEF TabsAgree
    <3>2. load'[t] # "none"
      BY <1>1
    <3> QED BY <1>1, <2>2, <3>1, <3>2 DEF Current, Newest
  <2> QED BY <2>1, <2>2
<1> QED BY <1>2, <1>3

LEMMA AgreeLeave ==
  ASSUME CacheTypeOK, TabsAgree, NEW t \in Tabs, LeaveChat(t), saves' = saves
  PROVE  Agreed' /\ \A u \in Tabs : Current(u)'
<1>1. ~SaveHistory(t, mem[t])
  <2>1. SaveHistory(t, mem[t]) => saves' = saves + 1
    BY DEF SaveHistory
  <2> QED BY <2>1, VersionsInCache
<1>2. /\ UNCHANGED <<saves, oh, stamp, txs, mem, seen, saving, cached, races>>
      /\ UNCHANGED <<confirmed, db, load, events>>
      /\ open' = [open EXCEPT ![t] = FALSE]
  BY <1>1 DEF LeaveChat
<1>3. Agreed'
  BY <1>2 DEF TabsAgree, Agreed
<1>4. ASSUME NEW u \in Tabs PROVE Current(u)'
  <2>1. open'[u] => open[u]
    BY <1>2, TypedAre
  <2> QED BY <1>2, <2>1 DEF TabsAgree, Current, Newest
<1> QED BY <1>3, <1>4

LEMMA AgreeQuiet ==
  ASSUME TabsAgree,
         UNCHANGED <<saves, oh, stamp, db, mem, seen, saving, cached, confirmed, open, load, events>>
  PROVE  Agreed' /\ \A u \in Tabs : Current(u)'
BY DEF TabsAgree, Agreed, Current, Newest

\* A save that is not seen is noted, and a cache that is dropped as well.
LEMMA AgreeDrop ==
  ASSUME CacheTypeOK, TabsAgree, NEW t \in Tabs, Dropping(t), "uncached" \notin races'
  PROVE  Agreed' /\ \A u \in Tabs : Current(u)'
<1>1. /\ oh'.version = 0 /\ ~oh'.trimmed /\ stamp' = NoStamp
      /\ UNCHANGED <<saves, db, mem, seen, saving, cached, confirmed, open, load, events>>
  BY DroppingIs DEF Dropped
<1>2. oh.version = 0 /\ stamp.rev = 0
  BY DroppingIs DEF Dropped
<1>3. cached = 0 /\ db \in Nat
  BY <1>2, VersionsInCache DEF TabsAgree, Agreed
<1>4. Agreed'
  BY <1>1, <1>3 DEF TabsAgree, Agreed, NoStamp
<1>5. ASSUME NEW u \in Tabs PROVE Current(u)'
  BY <1>1, <1>2 DEF TabsAgree, Current, Newest, NoStamp
<1> QED BY <1>4, <1>5

LEMMA AgreeStore ==
  ASSUME UnderWay, TabsAgree, StoreStep, races' \subseteq {"shared", "unlooked", "unleased"}
  PROVE  Agreed' /\ \A u \in Tabs : Current(u)'
<1> DEFINE x == Head(txs)
<1>0. CacheTypeOK /\ CacheTypeOK'
  BY StoreUnderWay DEF UnderWay
<1>1. /\ x \in Tx /\ x.tab \in Tabs
      /\ UNCHANGED <<saves, oh, stamp, open, mem, load, seen, saving>>
      /\ UNCHANGED <<cached, confirmed>>
  BY <1>0, StoreIs
<1>2. PICK e \in Happened :
        /\ Ran(e)
        /\ events'[x.tab] = Append(events[x.tab], e)
        /\ \A u \in Tabs \ {x.tab} : events'[u] = events[u]
  BY <1>0, StoreIs
<1>3. /\ db \in Nat /\ db' \in Nat /\ events \in [Tabs -> Seq(Happened)]
      /\ \A f \in Happened : f.version \in Nat
  BY <1>0, <1>1, TypedAre, VersionsAre, VersionsInTab DEF CacheTypeOK
<1>4. db <= db' /\ (e.kind = "saved" => e.version <= db')
  <2>1. ~(db' < db)
    <3>1. db' < db => "crossed" \in races'
      BY <1>2, <1>3 DEF Ran, Note
    <3> QED BY <3>1
  <2>2. e.kind = "saved" => e.version = db'
    BY <1>2 DEF Ran
  <2> QED BY <1>3, <2>1, <2>2
<1>5. Agreed'
  BY <1>0, <1>1, <1>4, AgreeSame DEF TabsAgree
<1> HIDE DEF x
<1>6. ASSUME NEW u \in Tabs PROVE Current(u)'
  <2>1. Current(u)
    BY DEF TabsAgree
  <2>2. ASSUME NEW f \in Happened, Has(events'[u], {f}), f.kind = "saved" PROVE f.version <= db'
    <3>1. Has(events[u], {f}) \/ f = e
      <4>1. events[u] \in Seq(Happened)
        BY <1>3
      <4>2. events'[u] = events[u] \/ events'[u] = Append(events[u], e)
        <5>1. CASE u = x.tab
          BY <1>2, <5>1
        <5>2. CASE u # x.tab
          BY <1>2, <5>2
        <5> QED BY <5>1, <5>2
      <4>3. ASSUME events'[u] = Append(events[u], e) PROVE Has(events[u], {f}) \/ f = e
        <5>1. Has(Append(events[u], e), {f})
          BY <2>2, <4>3
        <5> QED BY <4>1, <5>1, OneAppend
      <4> QED BY <2>2, <4>2, <4>3
    <3>2. Has(events[u], {f}) => f.version <= db
      BY <2>1, <2>2 DEF Current
    <3> QED BY <1>3, <1>4, <2>2, <3>1, <3>2
  <2> QED BY <1>1, <2>1, <2>2 DEF Current, Newest
<1> QED BY <1>5, <1>6

LEMMA AgreeHandle ==
  ASSUME UnderWay, TabsAgree, NEW t \in Tabs, HandleEvent(t),
         races' \subseteq {"shared", "unlooked", "unleased"}
  PROVE  Agreed' /\ \A u \in Tabs : Current(u)'
<1>0. CacheTypeOK /\ Named
  BY DEF UnderWay
<1>1. HandleGeneration(t) \/ HandleRead(t) \/ HandleAnswer(t)
  BY <1>0, HandleCases
<1>2. Handled(t) /\ UNCHANGED <<saves, oh, db, open, seen, cached>>
  BY <1>1 DEF HandleGeneration, HandleRead, HandleAnswer, Handled
<1>3. \A u \in Tabs, e \in Happened : Has(events'[u], {e}) => Has(events[u], {e})
  BY <1>0, <1>2, BelowEvents DEF TabsAgree
<1>4. Told(t) \in Happened /\ Told(t).version \in Versions /\ Has(events[t], {Told(t)})
  BY <1>0, <1>2, ToldIs DEF Handled
<1>5. Told(t).version \in Nat /\ Told(t).version <= cached
  BY <1>4, VersionsAre DEF TabsAgree, Below, BelowTab
<1>6. CASE HandleGeneration(t)
  <2>1. UNCHANGED <<stamp, saving, mem, load, confirmed>>
    BY <1>6 DEF HandleGeneration
  <2>2. Agreed'
    BY <1>2, <2>1 DEF TabsAgree, Agreed
  <2>3. ASSUME NEW u \in Tabs PROVE Current(u)'
    BY <1>2, <1>3, <2>1, CurrentSame DEF TabsAgree
  <2> QED BY <2>2, <2>3
<1>7. CASE HandleRead(t)
  <2>1. /\ UNCHANGED <<stamp, saving, confirmed>>
        /\ mem'[t] = IF open[t] THEN Restored(Told(t).version) ELSE mem[t]
        /\ \A u \in Tabs \ {t} : load'[u] = load[u] /\ mem'[u] = mem[u]
        /\ races' = races \cup (IF open[t] /\ Restored(Told(t).version) = Told(t).version
                                   /\ Told(t).version < db
                                THEN {"overtaken"} ELSE {})
    BY <1>7, ReadStep
  <2>2. Agreed'
    BY <1>2, <2>1 DEF TabsAgree, Agreed
  <2>3. open[t] => mem'[t] = cached
    <3>1. ASSUME open[t] PROVE Restored(Told(t).version) = cached
      <4>1. ~(Restored(Told(t).version) = Told(t).version /\ Told(t).version < db)
        BY <2>1, <3>1
      <4>2. ~CacheIsNewer /\ Told(t).version # 0 => db <= Told(t).version
        <5>1. ~CacheIsNewer /\ Told(t).version # 0 => Restored(Told(t).version) = Told(t).version
          BY DEF Restored
        <5>2. db \in Nat
          BY <1>0, VersionsInCache
        <5> QED BY <1>5, <4>1, <5>1, <5>2
      <4> QED BY <1>0, <1>5, <4>2, RestoredIsNewest DEF TabsAgree
    <3> QED BY <2>1, <3>1
  <2>4. ASSUME NEW u \in Tabs PROVE Current(u)'
    <3>1. CASE u # t
      BY <1>2, <1>3, <2>1, <3>1, CurrentSame DEF TabsAgree
    <3>2. CASE u = t
      <4>1. Current(t)
        BY DEF TabsAgree
      <4> QED BY <1>2, <1>3, <2>1, <2>3, <3>2, <4>1 DEF Current, Newest
    <3> QED BY <3>1, <3>2
  <2> QED BY <2>2, <2>4
<1>8. CASE HandleAnswer(t)
  <2>1. /\ stamp'.rev = stamp.rev /\ stamp'.trimmed = stamp.trimmed
        /\ \/ stamp' = stamp
           \/ Told(t).kind = "saved" /\ stamp.rev \in saving[t].now.revs
        /\ confirmed' = confirmed \/ (Told(t).kind = "saved" /\ confirmed' = Told(t).version)
        /\ saving'[t].now = saving[t].next /\ saving'[t].next = NoSave
        /\ \A u \in Tabs \ {t} : saving'[u] = saving[u]
    BY <1>0, <1>8, AnswerStep
  <2>2. UNCHANGED <<mem, load>>
    BY <1>8 DEF HandleAnswer
  <2>3. stamp' = stamp \/ cached <= db
    <3>1. ASSUME Told(t).kind = "saved", stamp.rev \in saving[t].now.revs PROVE cached <= db
      <4>1. stamp.rev # 0
        <5>1. saving[t].now.revs \subseteq 1..MaxSaves
          BY <1>0, VersionsInTab
        <5> QED BY <3>1, <5>1
      <4>2. stamp.rev = saves
        BY <4>1 DEF TabsAgree, Agreed
      <4>3. saving[t].now.version = cached
        BY <3>1, <4>2 DEF TabsAgree, Current, Newest
      <4>4. Told(t).version = saving[t].now.version
        <5>1. Says(t, txs, events[t], saving[t].now)
          BY DEF UnderWay, Pipe, Piped
        <5>2. Told(t) \in Answers
          BY <1>8 DEF HandleAnswer
        <5> QED BY <1>4, <5>1, <5>2 DEF Says
      <4>5. Told(t).version <= db
        BY <1>4, <3>1 DEF TabsAgree, Current
      <4> QED BY <4>3, <4>4, <4>5
    <3> QED BY <2>1, <3>1
  <2>4. Agreed'
    <3>1. confirmed' <= cached
      BY <1>5, <2>1 DEF TabsAgree, Agreed
    <3> QED BY <1>2, <2>1, <2>3, <3>1 DEF TabsAgree, Agreed
  <2>5. ASSUME NEW u \in Tabs PROVE Current(u)'
    <3>1. Newest(saving[u].now, cached)' /\ Newest(saving[u].next, cached)'
      <4>1. CASE u # t
        BY <1>2, <2>1, <4>1 DEF TabsAgree, Current, Newest
      <4>2. CASE u = t
        BY <1>2, <2>1, <4>2 DEF TabsAgree, Current, Newest, NoSave
      <4> QED BY <4>1, <4>2
    <3> QED BY <1>2, <1>3, <2>1, <2>2, <3>1 DEF TabsAgree, Current
  <2> QED BY <2>4, <2>5
<1> QED BY <1>1, <1>6, <1>7, <1>8

LEMMA AgreeCrash ==
  ASSUME UnderWay, TabsAgree, NEW t \in Tabs, Crash(t),
         races' \subseteq {"shared", "unlooked", "unleased"}
  PROVE  Agreed' /\ \A u \in Tabs : Current(u)'
<1>0. CacheTypeOK /\ CacheTypeOK'
  BY CrashUnderWay DEF UnderWay
<1>1. /\ UNCHANGED <<saves, oh, stamp, cached, confirmed>>
      /\ ~open'[t]
      /\ saving'[t].now = NoSave /\ saving'[t].next = NoSave /\ events'[t] = <<>>
      /\ \A u \in Tabs \ {t} : /\ open'[u] = open[u] /\ mem'[u] = mem[u] /\ load'[u] = load[u]
                               /\ seen'[u] = seen[u] /\ saving'[u] = saving[u]
                               /\ events'[u] = events[u]
      /\ races' = races \cup (IF db' < db THEN {"crossed"} ELSE {})
  BY <1>0, CrashStep
<1>2. db \in Nat /\ db' \in Nat /\ \A e \in Happened : e.version \in Nat
  BY <1>0, TypedAre, VersionsAre, VersionsInTab DEF CacheTypeOK
<1>3. db <= db'
  <2>1. ~(db' < db)
    BY <1>1
  <2> QED BY <1>2, <2>1
<1>4. Agreed'
  BY <1>0, <1>1, <1>3, AgreeSame DEF TabsAgree
<1>5. ASSUME NEW u \in Tabs PROVE Current(u)'
  <2>1. Current(u)
    BY DEF TabsAgree
  <2>2. CASE u = t
    <3>1. Newest(saving[t].now, cached)' /\ Newest(saving[t].next, cached)'
      BY <1>1 DEF Newest, NoSave
    <3>2. \A e \in Happened : ~Has(events'[t], {e})
      BY <1>1 DEF Has
    <3> QED BY <1>1, <2>2, <3>1, <3>2 DEF Current
  <2>3. CASE u # t
    <3>1. \A e \in Happened : Has(events'[u], {e}) /\ e.kind = "saved" => e.version <= db'
      BY <1>1, <1>2, <1>3, <2>1, <2>3 DEF Current
    <3> QED BY <1>1, <2>1, <2>3, <3>1 DEF Current, Newest
  <2> QED BY <2>2, <2>3
<1> QED BY <1>4, <1>5

LEMMA AgreeStep ==
  ASSUME UnderWay, Below(saves), TabsAgree, [CacheNext]_cacheVars,
         races' \subseteq {"shared", "unlooked", "unleased"}
  PROVE  TabsAgree'
<1>0. CacheTypeOK
  BY DEF UnderWay
<1>1. CASE saves' # saves
  BY <1>1, AgreeSave
<1>2. CASE saves' = saves
  <2>1. \A t \in Tabs : \A v : ~SaveHistory(t, v)
    <3>1. \A t \in Tabs : \A v : SaveHistory(t, v) => saves' = saves + 1
      BY DEF SaveHistory
    <3> QED BY <1>0, <1>2, <3>1, VersionsInCache
  <2>2. ASSUME NEW t \in Tabs, TurnSave(t)
        PROVE  UNCHANGED <<saves, oh, stamp, db, mem, seen, saving, cached, confirmed, open, load, events>>
    <3>1. ~SaveHistory(t, saves + 1)
      BY <2>1
    <3> QED BY <1>0, <2>2, <3>1, TurnSaveIs DEF TurnSave
  <2>3. cached' = cached
    <3>1. CASE UNCHANGED cacheVars
      BY <3>1 DEF cacheVars, saved
    <3>2. ASSUME NEW t \in Tabs, LeaveChat(t) PROVE cached' = cached
      BY <2>1, <3>2 DEF LeaveChat
    <3>3. ASSUME NEW t \in Tabs, OpenChat(t) \/ ReloadChanged(t) \/ HandleEvent(t) \/ Crash(t)
          PROVE  cached' = cached
      BY <3>3 DEF OpenChat, ReloadChanged, HandleEvent, Crash, saved
    <3>4. ASSUME NEW t \in Tabs, Beginning(t) \/ Asking(t) \/ Dropping(t) PROVE cached' = cached
      BY <1>0, <3>4, BeginningIs, AskingIs, DroppingIs
    <3>5. StoreStep => cached' = cached
      BY DEF StoreStep, saved
    <3> QED BY <2>2, <3>1, <3>2, <3>3, <3>4, <3>5 DEF CacheNext, Beginning, Asking, Dropping
  <2>4. Below(cached)'
    BY <1>2, <2>3, BelowCached DEF TabsAgree
  <2>5. UNCHANGED cacheVars => Agreed' /\ \A u \in Tabs : Current(u)'
    BY AgreeQuiet DEF cacheVars, shared, tabs, saved
  <2>6. ASSUME NEW t \in Tabs, Beginning(t) \/ Asking(t) \/ TurnSave(t)
        PROVE  Agreed' /\ \A u \in Tabs : Current(u)'
    <3>1. UNCHANGED <<saves, oh, stamp, db, mem, seen, saving, cached, confirmed, open, load, events>>
      BY <1>0, <2>2, <2>6, BeginningIs, AskingIs
    <3> QED BY <3>1, AgreeQuiet
  <2>7. "uncached" \notin races'
    OBVIOUS
  <2>8. Agreed' /\ \A u \in Tabs : Current(u)'
    BY <1>0, <1>2, <2>5, <2>6, <2>7, AgreeLoad, AgreeLeave, AgreeDrop, AgreeStore, AgreeHandle, AgreeCrash
       DEF CacheNext, Beginning, Asking, Dropping
  <2> QED BY <2>4, <2>8 DEF TabsAgree
<1> QED BY <1>1, <1>2
-----------------------------------------------------------------------------
\* One page at a time, reads and writes that fail, caches that are dropped when the store
\* has them: what the stamp and the store do not both lack.
Here(t) == open[t] \/ seen[t] # 0 \/ saving[t].now # NoSave
Whole == stamp.rev # 0 /\ ~oh.trimmed /\ oh.version # 0
Kept ==
  /\ stamp.rev \in {0, saves} /\ (stamp.rev # 0 => stamp.trimmed = oh.trimmed)
  /\ confirmed <= db
  /\ stamp.acked => stamp.rev # 0 /\ oh.version <= db
  /\ cached # 0 => (Whole /\ oh.version = cached) \/ cached <= db
  /\ Whole => db <= oh.version
ReadsRight(v) == v = db \/ (v = 0 /\ (oh.trimmed \/ oh.version = 0 \/ db <= oh.version))
PageEvents(t) ==
  \A e \in Happened : Has(events[t], {e}) =>
    /\ e.kind = "saved" => e.version <= db
    /\ e.kind = "record" /\ open[t] => ReadsRight(e.version)
PageSaves(t) ==
  /\ stamp.rev # 0 => Newest(saving[t].now, oh.version) /\ Newest(saving[t].next, oh.version)
  /\ Whole => saving[t].now.version <= oh.version /\ saving[t].next.version <= oh.version
PageMem(t) ==
  open[t] /\ load[t] = "none" /\ mem[t] # 0 =>
    db <= mem[t] /\ saving[t].now.version <= mem[t] /\ saving[t].next.version <= mem[t]
Page(t) == PageEvents(t) /\ PageSaves(t) /\ PageMem(t)
OneHere == \A t, u \in Tabs : Here(t) /\ Here(u) => t = u
OnePage == OneHere /\ Kept /\ \A t \in Tabs : Page(t)

LEMMA OnePageInit == CacheInit => OnePage
<1> SUFFICES ASSUME CacheInit PROVE OnePage
  OBVIOUS
<1>1. OneHere
  BY DEF CacheInit, OneHere, Here
<1>2. Kept
  BY DEF CacheInit, Kept, Whole, NoStamp
<1>3. ASSUME NEW t \in Tabs PROVE Page(t)
  <2>1. PageEvents(t)
    <3>1. \A e \in Happened : ~Has(events[t], {e})
      BY DEF CacheInit, Has
    <3> QED BY <3>1 DEF PageEvents
  <2>2. PageSaves(t) /\ PageMem(t)
    BY DEF CacheInit, PageSaves, PageMem, Whole, NoStamp
  <2> QED BY <2>1, <2>2 DEF Page
<1> QED BY <1>1, <1>2, <1>3 DEF OnePage

\* No other page has anything to do with the chat.
LEMMA OthersIdle ==
  ASSUME CacheTypeOK, OneHere, NEW t \in Tabs, Here(t), NEW u \in Tabs, u # t
  PROVE  /\ ~open[u] /\ seen[u] = 0 /\ saving[u].now = NoSave /\ saving[u].next = NoSave
         /\ saving[u].now.version = 0 /\ saving[u].next.version = 0
         /\ saving[u].now.revs = {} /\ saving[u].next.revs = {}
<1>1. ~open[u] /\ seen[u] = 0 /\ saving[u].now = NoSave
  BY DEF OneHere, Here
<1>2. saving[u].next = NoSave
  BY <1>1, TypedAre
<1> QED BY <1>1, <1>2 DEF NoSave

LEMMA NoReads ==
  ASSUME UnderWay, NEW t \in Tabs, load[t] = "none"
  PROVE  \A e \in Happened : Has(events[t], {e}) => e.kind # "record"
<1>1. ~Has(events[t], Loads)
  BY DEF UnderWay, Pipe, Piped, LoadSent
<1>2. ASSUME NEW e \in Happened, Has(events[t], {e}), e.kind = "record" PROVE FALSE
  <2>1. e \in Loads
    BY <1>2, KindsOfEvent
  <2>2. Has(events[t], Loads)
    BY <1>2, <2>1 DEF Has
  <2> QED BY <1>1, <2>2
<1> QED BY <1>2

LEMMA PageLoad ==
  ASSUME UnderWay, OnePage, NEW t \in Tabs, OpenChat(t) \/ ReloadChanged(t), "shared" \notin races'
  PROVE  OnePage'
<1>0. CacheTypeOK
  BY DEF UnderWay
<1>1. /\ UNCHANGED <<saves, oh, stamp, db, saving, events, cached, confirmed>>
      /\ load[t] = "none" /\ load'[t] = "reading" /\ open'[t]
      /\ \A u \in Tabs \ {t} : /\ load'[u] = load[u] /\ mem'[u] = mem[u] /\ open'[u] = open[u]
                               /\ seen'[u] = seen[u]
  BY <1>0, LoadStep
<1>2. \A u \in Tabs \ {t} : ~Here(u)
  <2>1. CASE OpenChat(t)
    <3>1. ASSUME NEW u \in Tabs \ {t} PROVE NeverHere(u)
      BY <2>1, <3>1 DEF OpenChat, Note
    <3> QED BY <3>1 DEF NeverHere, Here
  <2>2. CASE ReloadChanged(t)
    <3>1. Here(t)
      BY <2>2 DEF ReloadChanged, Here
    <3> QED BY <3>1 DEF OnePage, OneHere
  <2> QED BY <2>1, <2>2
<1>3. OneHere'
  <2>1. \A u \in Tabs \ {t} : ~Here(u)'
    BY <1>1, <1>2 DEF Here
  <2> QED BY <2>1 DEF OneHere
<1>4. Kept'
  BY <1>1 DEF OnePage, Kept, Whole
<1>5. ASSUME NEW u \in Tabs PROVE Page(u)'
  <2>1. Page(u)
    BY DEF OnePage
  <2>2. PageSaves(u)'
    BY <1>1, <2>1 DEF Page, PageSaves, Newest, Whole
  <2>3. PageMem(u)'
    <3>1. CASE u = t
      BY <1>1, <3>1 DEF PageMem
    <3>2. CASE u # t
      BY <1>1, <2>1, <3>2 DEF Page, PageMem
    <3> QED BY <3>1, <3>2
  <2>4. PageEvents(u)'
    <3>1. CASE u = t
      <4>1. \A e \in Happened : Has(events[t], {e}) => e.kind # "record"
        BY <1>1, NoReads
      <4> QED BY <1>1, <2>1, <3>1, <4>1 DEF Page, PageEvents
    <3>2. CASE u # t
      BY <1>1, <2>1, <3>2 DEF Page, PageEvents, ReadsRight
    <3> QED BY <3>1, <3>2
  <2> QED BY <2>2, <2>3, <2>4 DEF Page
<1> QED BY <1>3, <1>4, <1>5 DEF OnePage

\* The ways in which the cache is written.
LEMMA SaveKept ==
  ASSUME CacheTypeOK, Kept, NEW t, NEW v \in Versions, SaveHistory(t, v), v = 0 \/ db <= v,
         UNCHANGED <<db, confirmed>>
  PROVE  /\ Kept'
         /\ stamp'.rev = 0 \/ (stamp'.rev = saves + 1 /\ oh'.version = v)
<1>0. /\ saves \in Nat /\ saves + 1 # 0 /\ v \in Nat /\ db \in Nat
      /\ saves' = saves + 1
  BY VersionsAre, VersionsInCache DEF SaveHistory
<1>1. confirmed' <= db' /\ db' = db
  BY DEF Kept
<1>2. CASE CacheStamped(t, v, FALSE)
  <2>1. /\ oh'.version = v /\ ~oh'.trimmed /\ stamp'.rev = saves + 1 /\ ~stamp'.trimmed /\ ~stamp'.acked
        /\ cached' = v /\ stamp'.trimmed = oh'.trimmed
    BY <1>2 DEF CacheStamped
  <2> QED BY <1>0, <1>1, <2>1 DEF Kept, Whole
<1>3. CASE CacheStamped(t, v, TRUE)
  <2>1. /\ oh'.version = v /\ oh'.trimmed /\ stamp'.rev = saves + 1 /\ stamp'.trimmed /\ ~stamp'.acked
        /\ cached' = 0 /\ stamp'.trimmed = oh'.trimmed
    BY <1>3 DEF CacheStamped
  <2> QED BY <1>0, <1>1, <2>1 DEF Kept, Whole
<1>4. CASE CacheRefused
  <2>1. stamp'.rev = 0 /\ ~stamp'.acked /\ cached' = 0
    BY <1>4 DEF CacheRefused, NoStamp
  <2> QED BY <1>1, <2>1 DEF Kept, Whole
<1>5. CASE CacheUnstamped(v)
  <2>1. stamp' = stamp /\ stamp.rev = 0 /\ cached' = 0
    BY <1>5 DEF CacheUnstamped
  <2>2. ~stamp'.acked
    BY <2>1 DEF Kept
  <2> QED BY <1>1, <2>1, <2>2 DEF Kept, Whole
<1> QED BY <1>2, <1>3, <1>4, <1>5 DEF SaveHistory

LEMMA PageSave ==
  ASSUME UnderWay, Below(saves), OnePage, saves' # saves, [CacheNext]_cacheVars
  PROVE  OnePage'
<1>0. CacheTypeOK /\ Named /\ saves \in Nat /\ db \in Nat
  BY VersionsInCache DEF UnderWay
<1>1. PICK t \in Tabs, v \in Versions : SavedBy(t, v)
  BY SaveSteps
<1>2. /\ SaveHistory(t, v) /\ saves' = saves + 1 /\ UNCHANGED <<db, events, confirmed, load>>
      /\ open[t] /\ load[t] = "none" /\ \A u \in Tabs \ {t} : open'[u] = open[u]
  BY <1>1 DEF SavedBy, SaveHistory
<1>3. /\ mem'[t] = v
      /\ \A u \in Tabs \ {t} : mem'[u] = mem[u] /\ seen'[u] = seen[u] /\ saving'[u] = saving[u]
      /\ Sent(t, v, saves + 1, saving, txs)
  BY <1>0, <1>2, SaveStep
<1>4. /\ saving[t].now.version \in Nat /\ saving[t].next.version \in Nat /\ v \in Nat
      /\ v = 0 \/ (db <= v /\ saving[t].now.version <= v /\ saving[t].next.version <= v)
  <2>1. saving[t].now.version \in Nat /\ saving[t].next.version \in Nat /\ v \in Nat
    BY <1>0, VersionsInTab, VersionsAre
  <2>2. CASE v = mem[t]
    BY <1>2, <2>1, <2>2 DEF OnePage, Page, PageMem
  <2>3. CASE v = saves + 1
    <3>1. db <= saves /\ saving[t].now.version <= saves /\ saving[t].next.version <= saves
      BY DEF Below, BelowTab
    <3> QED BY <1>0, <2>1, <2>3, <3>1
  <2> QED BY <1>1, <2>1, <2>2, <2>3 DEF SavedBy
<1>5. Here(t)
  BY <1>2 DEF Here
<1>6. /\ Kept'
      /\ stamp'.rev = 0 \/ (stamp'.rev = saves + 1 /\ oh'.version = v)
  BY <1>0, <1>2, <1>4, SaveKept DEF OnePage
<1>7. OneHere'
  <2>1. \A u \in Tabs \ {t} : ~Here(u)'
    BY <1>0, <1>2, <1>3, <1>5, OthersIdle DEF OnePage, Here
  <2> QED BY <2>1 DEF OneHere
<1>8. Page(t)'
  <2>1. PageEvents(t)'
    <3>1. \A e \in Happened : Has(events[t], {e}) => e.kind # "record"
      BY <1>2, NoReads
    <3> QED BY <1>2, <3>1 DEF OnePage, Page, PageEvents
  <2>2. /\ saving'[t].now.version \in {saving[t].now.version, v}
        /\ saving'[t].next.version \in {saving[t].next.version, v}
    BY <1>3 DEF Sent
  <2>3. v = 0 \/ (saving'[t].now.version <= v /\ saving'[t].next.version <= v)
    BY <1>4, <2>2
  <2>4. PageMem(t)'
    BY <1>2, <1>3, <1>4, <2>3 DEF PageMem
  <2>5. PageSaves(t)'
    <3>1. /\ saves + 1 \notin saving[t].now.revs
          /\ saves + 1 \notin saving[t].next.revs
      <4>1. ~(saves + 1 <= saves)
        BY <1>0
      <4> QED BY <1>0, <4>1 DEF Named
    <3>2. /\ saves + 1 \in saving'[t].now.revs => saving'[t].now.version = v
          /\ saves + 1 \in saving'[t].next.revs => saving'[t].next.version = v
      BY <1>3, <3>1 DEF Sent
    <3> QED BY <1>2, <1>6, <2>3, <3>2 DEF PageSaves, Newest, Whole
  <2> QED BY <2>1, <2>4, <2>5 DEF Page
<1>9. ASSUME NEW u \in Tabs, u # t PROVE Page(u)'
  <2>1. /\ ~open'[u] /\ saving'[u].now.version = 0 /\ saving'[u].next.version = 0
        /\ saving'[u].now.revs = {} /\ saving'[u].next.revs = {}
    BY <1>0, <1>2, <1>3, <1>5, <1>9, OthersIdle DEF OnePage
  <2>2. oh'.version \in Nat
    <3>1. oh' \in Copies
      BY <1>0, <1>2, SaveStep
    <3> QED BY <3>1, VersionsAre DEF Copies
  <2>3. PageEvents(u)'
    BY <1>2, <2>1 DEF OnePage, Page, PageEvents
  <2>4. PageSaves(u)' /\ PageMem(u)'
    BY <2>1, <2>2 DEF PageSaves, PageMem, Newest
  <2> QED BY <2>3, <2>4 DEF Page
<1> QED BY <1>6, <1>7, <1>8, <1>9 DEF OnePage

\* Steps after which a tab knows no more than before.
LEMMA PageSame ==
  ASSUME OnePage, UNCHANGED <<saves, oh, stamp, db, saving, seen, mem, load, events, cached, confirmed>>,
         \A u \in Tabs : open'[u] => open[u]
  PROVE  OnePage'
<1>1. OneHere'
  BY DEF OnePage, OneHere, Here
<1>2. Kept'
  BY DEF OnePage, Kept, Whole
<1>3. ASSUME NEW u \in Tabs PROVE Page(u)'
  BY DEF OnePage, Page, PageEvents, PageSaves, PageMem, ReadsRight, Newest, Whole
<1> QED BY <1>1, <1>2, <1>3 DEF OnePage

LEMMA PageStore ==
  ASSUME UnderWay, OnePage, StoreStep, races' \subseteq {"overtaken", "uncached", "unlooked"}
  PROVE  OnePage'
<1> DEFINE x == Head(txs)
           h == x.tab
<1>0. CacheTypeOK /\ txs \in Seq(Tx)
  BY TypedAre DEF UnderWay
<1>1. /\ txs # <<>> /\ x \in Tx /\ h \in Tabs /\ x.version \in Nat
      /\ UNCHANGED <<saves, oh, stamp, open, mem, load, seen, saving, cached, confirmed>>
  BY <1>0, StoreIs, VersionsAre
<1>2. PICK e \in Happened :
        /\ Ran(e)
        /\ events'[h] = Append(events[h], e)
        /\ \A u \in Tabs \ {h} : events'[u] = events[u]
  BY <1>0, StoreIs
<1>3. /\ db \in Nat /\ db' \in Nat /\ events \in [Tabs -> Seq(Happened)]
      /\ oh.version \in Nat /\ cached \in Nat /\ confirmed \in Nat
      /\ \A f \in Happened : f.version \in Nat
      /\ \A u \in Tabs : mem[u] \in Nat
  <2>1. CacheTypeOK'
    BY StoreUnderWay DEF UnderWay
  <2>2. db' \in Nat
    BY <2>1, VersionsAre DEF CacheTypeOK
  <2>3. events \in [Tabs -> Seq(Happened)]
    BY <1>0, TypedAre
  <2>4. /\ db \in Nat /\ oh.version \in Nat /\ cached \in Nat /\ confirmed \in Nat
        /\ \A f \in Happened : f.version \in Nat
        /\ \A u \in Tabs : mem[u] \in Nat
    BY <1>0, <1>1, VersionsInTab, VersionsInCache
  <2> QED BY <2>2, <2>3, <2>4
<1>4. db <= db' /\ (e.kind = "saved" => e.version <= db')
  <2>1. ~(db' < db)
    <3>1. db' < db => "crossed" \in races'
      BY <1>2, <1>3 DEF Ran, Note
    <3> QED BY <3>1
  <2>2. e.kind = "saved" => e.version = db'
    BY <1>2 DEF Ran
  <2> QED BY <1>3, <2>1, <2>2
<1>5. e.kind = "record" => db' = db /\ ReadsRight(e.version)
  <2>1. ASSUME e.kind = "record" PROVE db' = db /\ ReadsRight(e.version)
    <3>1. /\ e.version \in {0, db} /\ db' = db
          /\ ~(e.version < db /\ Restored(e.version) < db)
      BY <1>2, <2>1 DEF Ran, Note
    <3>2. CASE e.version = db
      BY <3>1, <3>2 DEF ReadsRight
    <3>3. CASE e.version = 0 /\ db # 0
      <4>1. ~(Restored(0) < db)
        BY <1>3, <3>1, <3>3
      <4>2. Restored(0) = IF oh.trimmed THEN 0 ELSE oh.version
        BY DEF Restored
      <4>3. oh.trimmed \/ db <= oh.version
        BY <1>3, <4>1, <4>2
      <4> QED BY <3>1, <3>3, <4>3 DEF ReadsRight
    <3> QED BY <3>1, <3>2, <3>3
  <2> QED BY <2>1
<1>6. x.kind = "save" => /\ Here(h) /\ x.version = saving[h].now.version
                         /\ \A f \in Happened : Has(events[h], {f}) => f.kind # "record"
  <2>1. ASSUME x.kind = "save"
        PROVE  /\ saving[h].now # NoSave /\ x.version = saving[h].now.version
               /\ ~Has(events[h], Reads)
    <3>1. x \in TabSaves(h) /\ Has(txs, {x})
      BY <1>0, <1>1, <2>1, KindsOfTx, HeadIsThere
    <3>2. Has(txs, TabSaves(h))
      BY <3>1 DEF Has
    <3>3. Piped(h, txs, events[h], saving[h].now, saving[h].next, load[h])
      BY <1>1 DEF UnderWay, Pipe
    <3>4. saving[h].now # NoSave
      BY <3>2, <3>3 DEF Piped, SaveSent
    <3>5. x.version = saving[h].now.version
      BY <3>1, <3>3 DEF Piped, Says
    <3>6. ~Has(events[h], Reads)
      BY <3>2, <3>3, ReadIsLoad DEF Piped, ReadSent, LoadFirst
    <3> QED BY <3>4, <3>5, <3>6
  <2>2. ASSUME NEW f \in Happened, Has(events[h], {f}), f.kind = "record" PROVE Has(events[h], Reads)
    BY <2>2, KindsOfEvent DEF Has
  <2> QED BY <2>1, <2>2 DEF Here
<1>7. db' # db => x.kind = "save" /\ db' = x.version
  BY <1>2 DEF Ran
<1> HIDE DEF x, h
<1>8. OneHere'
  BY <1>1 DEF OnePage, OneHere, Here
<1>9. Kept'
  <2>1. Kept /\ (stamp.acked => oh.version <= db') /\ confirmed <= db'
    BY <1>3, <1>4 DEF OnePage, Kept
  <2>2. cached # 0 => (Whole /\ oh.version = cached) \/ cached <= db'
    BY <1>3, <1>4, <2>1 DEF Kept
  <2>3. Whole => db' <= oh.version
    <3>1. CASE db' = db
      BY <2>1, <3>1 DEF Kept
    <3>2. CASE db' # db
      BY <1>1, <1>6, <1>7, <3>2 DEF OnePage, Page, PageSaves
    <3> QED BY <3>1, <3>2
  <2> QED BY <1>1, <2>1, <2>2, <2>3 DEF Kept, Whole
<1>10. ASSUME NEW u \in Tabs PROVE Page(u)'
  <2>1. Page(u)
    BY DEF OnePage
  <2>2. PageSaves(u)'
    BY <1>1, <2>1 DEF Page, PageSaves, Newest, Whole
  <2>3. db' # db => u = h \/ ~open[u]
    BY <1>0, <1>1, <1>6, <1>7, OthersIdle DEF OnePage
  <2>4. PageMem(u)'
    <3>1. CASE db' = db
      BY <1>1, <2>1, <3>1 DEF Page, PageMem
    <3>2. CASE db' # db /\ u = h
      BY <1>1, <1>6, <1>7, <2>1, <3>2 DEF Page, PageMem
    <3>3. CASE ~open[u]
      BY <1>1, <3>3 DEF PageMem
    <3> QED BY <2>3, <3>1, <3>2, <3>3
  <2>5. \A f \in Happened : Has(events'[u], {f}) => Has(events[u], {f}) \/ f = e
    <3>1. ASSUME NEW f \in Happened, Has(events'[u], {f}) PROVE Has(events[u], {f}) \/ f = e
      <4>1. events[u] \in Seq(Happened)
        BY <1>3
      <4>2. CASE events'[u] = events[u]
        BY <3>1, <4>2
      <4>3. CASE events'[u] = Append(events[u], e)
        <5>1. Has(Append(events[u], e), {f})
          BY <3>1, <4>3
        <5> QED BY <4>1, <5>1, OneAppend
      <4>4. u = h \/ u \in Tabs \ {h}
        OBVIOUS
      <4> QED BY <1>2, <4>2, <4>3, <4>4
    <3> QED BY <3>1
  <2>6. PageEvents(u)'
    <3>1. ASSUME NEW f \in Happened, Has(events'[u], {f})
          PROVE  /\ f.kind = "saved" => f.version <= db'
                 /\ f.kind = "record" /\ open[u] => ReadsRight(f.version)'
      <4>1. CASE f = e
        BY <1>1, <1>4, <1>5, <4>1 DEF ReadsRight
      <4>2. CASE Has(events[u], {f})
        <5>1. f.kind = "saved" => f.version <= db'
          BY <1>3, <1>4, <2>1, <4>2 DEF Page, PageEvents
        <5>2. f.kind = "record" /\ open[u] => ReadsRight(f.version)'
          <6>1. CASE db' = db
            BY <1>1, <2>1, <4>2, <6>1 DEF Page, PageEvents, ReadsRight
          <6>2. CASE db' # db
            BY <1>6, <1>7, <2>3, <4>2, <6>2
          <6> QED BY <6>1, <6>2
        <5> QED BY <5>1, <5>2
      <4> QED BY <2>5, <3>1, <4>1, <4>2
    <3> QED BY <1>1, <3>1 DEF PageEvents
  <2> QED BY <2>2, <2>4, <2>6 DEF Page
<1> QED BY <1>8, <1>9, <1>10 DEF OnePage

LEMMA PageHandle ==
  ASSUME UnderWay, OnePage, NEW t \in Tabs, HandleEvent(t)
  PROVE  OnePage'
<1>0. CacheTypeOK /\ Named
  BY DEF UnderWay
<1>1. HandleGeneration(t) \/ HandleRead(t) \/ HandleAnswer(t)
  BY <1>0, HandleCases
<1>2. Handled(t) /\ UNCHANGED <<saves, oh, db, open, seen, cached>>
  BY <1>1 DEF HandleGeneration, HandleRead, HandleAnswer, Handled
<1>3. ASSUME NEW u \in Tabs, NEW e \in Happened, Has(events'[u], {e}) PROVE Has(events[u], {e})
  <2>1. events[t] \in Seq(Happened) /\ events[t] # <<>>
    BY <1>0, <1>2, ToldIs DEF Handled
  <2>2. CASE u = t
    BY <1>0, <1>2, <1>3, <2>1, <2>2, EventsAfter, OneTail
  <2>3. CASE u # t
    BY <1>0, <1>2, <1>3, <2>3, EventsAfter
  <2> QED BY <2>2, <2>3
<1>4. \A u \in Tabs : PageEvents(u)'
  BY <1>2, <1>3 DEF OnePage, Page, PageEvents, ReadsRight
<1>5. /\ Told(t) \in Happened /\ Told(t).version \in Nat /\ Has(events[t], {Told(t)})
      /\ db \in Nat /\ oh.version \in Nat
  BY <1>0, <1>2, ToldIs, VersionsAre, VersionsInCache DEF Handled
<1>6. CASE HandleGeneration(t)
  <2>1. UNCHANGED <<stamp, saving, mem, load, confirmed>>
    BY <1>6 DEF HandleGeneration
  <2>2. OneHere' /\ Kept'
    BY <1>2, <2>1 DEF OnePage, OneHere, Here, Kept, Whole
  <2>3. \A u \in Tabs : PageSaves(u)' /\ PageMem(u)'
    BY <1>2, <2>1 DEF OnePage, Page, PageSaves, PageMem, Newest, Whole
  <2> QED BY <1>4, <2>2, <2>3 DEF OnePage, Page
<1>7. CASE HandleRead(t)
  <2>1. /\ saving[t].now = NoSave /\ saving[t].next = NoSave
        /\ mem'[t] = IF open[t] THEN Restored(Told(t).version) ELSE mem[t]
        /\ \A u \in Tabs \ {t} : load'[u] = load[u] /\ mem'[u] = mem[u]
        /\ UNCHANGED <<stamp, saving, confirmed>>
    BY <1>7, ReadStep
  <2>2. OneHere' /\ Kept'
    BY <1>2, <2>1 DEF OnePage, OneHere, Here, Kept, Whole
  <2>3. \A u \in Tabs : PageSaves(u)'
    BY <1>2, <2>1 DEF OnePage, Page, PageSaves, Newest, Whole
  <2>4. PageMem(t)'
    <3>1. ASSUME open[t], Restored(Told(t).version) # 0 PROVE db <= Restored(Told(t).version)
      <4>1. ReadsRight(Told(t).version)
        BY <1>5, <1>7, <3>1 DEF OnePage, Page, PageEvents, HandleRead
      <4>2. CASE Told(t).version # 0 /\ ~CacheIsNewer
        BY <1>5, <4>1, <4>2 DEF ReadsRight, Restored
      <4>3. CASE ~(Told(t).version # 0 /\ ~CacheIsNewer)
        <5>1. ~oh.trimmed /\ oh.version # 0 /\ Restored(Told(t).version) = oh.version
          BY <3>1, <4>3 DEF Restored
        <5>2. CASE CacheIsNewer
          BY <5>1, <5>2 DEF OnePage, Kept, Whole, CacheIsNewer
        <5>3. CASE Told(t).version = 0
          BY <1>5, <4>1, <5>1, <5>3 DEF ReadsRight
        <5> QED BY <4>3, <5>2, <5>3, <5>1
      <4> QED BY <4>2, <4>3
    <3>2. saving'[t].now.version = 0 /\ saving'[t].next.version = 0
      BY <2>1 DEF NoSave
    <3>3. open[t] => mem'[t] = Restored(Told(t).version)
      BY <2>1
    <3>4. Restored(Told(t).version) \in Nat
      BY <1>5 DEF Restored
    <3> QED BY <1>2, <3>1, <3>2, <3>3, <3>4 DEF PageMem
  <2>5. ASSUME NEW u \in Tabs, u # t PROVE PageMem(u)'
    BY <1>2, <2>1, <2>5 DEF OnePage, Page, PageMem
  <2> QED BY <1>4, <2>2, <2>3, <2>4, <2>5 DEF OnePage, Page
<1>8. CASE HandleAnswer(t)
  <2>1. /\ stamp'.rev = stamp.rev /\ stamp'.trimmed = stamp.trimmed
        /\ \/ stamp' = stamp
           \/ Told(t).kind = "saved" /\ stamp.rev \in saving[t].now.revs
        /\ confirmed' = confirmed \/ (Told(t).kind = "saved" /\ confirmed' = Told(t).version)
        /\ saving'[t].now = saving[t].next /\ saving'[t].next = NoSave
        /\ \A u \in Tabs \ {t} : saving'[u] = saving[u]
    BY <1>0, <1>8, AnswerStep
  <2>2. UNCHANGED <<mem, load>>
    BY <1>8 DEF HandleAnswer
  <2>3. /\ Told(t) \in Answers
        /\ Piped(t, txs, events[t], saving[t].now, saving[t].next, load[t])
    BY <1>8 DEF HandleAnswer, UnderWay, Pipe
  <2>4. saving[t].now # NoSave /\ Told(t).version = saving[t].now.version
    <3>1. Has(events[t], Answers)
      BY <1>5, <2>3 DEF Has
    <3> QED BY <1>5, <2>3, <3>1 DEF Piped, SaveSent, Says
  <2>5. OneHere'
    <3>1. \A u \in Tabs : Here(u)' => Here(u)
      BY <1>2, <2>1, <2>4 DEF Here
    <3> QED BY <3>1 DEF OnePage, OneHere
  <2>6. Told(t).kind = "saved" => Told(t).version <= db
    BY <1>5 DEF OnePage, Page, PageEvents
  <2>7. stamp' = stamp \/ (stamp.rev # 0 /\ oh.version <= db)
    <3>1. ASSUME Told(t).kind = "saved", stamp.rev \in saving[t].now.revs
          PROVE  stamp.rev # 0 /\ oh.version <= db
      <4>1. stamp.rev # 0
        <5>1. saving[t].now.revs \subseteq 1..MaxSaves
          BY <1>0, VersionsInTab
        <5> QED BY <3>1, <5>1
      <4>2. stamp.rev = saves
        BY <4>1 DEF OnePage, Kept
      <4>3. saving[t].now.version = oh.version
        BY <3>1, <4>1, <4>2 DEF OnePage, Page, PageSaves, Newest
      <4> QED BY <2>4, <2>6, <3>1, <4>1, <4>3
    <3> QED BY <2>1, <3>1
  <2>8. Kept'
    <3>1. confirmed' <= db
      BY <2>1, <2>6 DEF OnePage, Kept
    <3> QED BY <1>2, <2>1, <2>7, <3>1 DEF OnePage, Kept, Whole
  <2>9. ASSUME NEW u \in Tabs PROVE PageSaves(u)' /\ PageMem(u)'
    <3>1. CASE u # t
      BY <1>2, <2>1, <2>2, <3>1 DEF OnePage, Page, PageSaves, PageMem, Newest, Whole
    <3>2. CASE u = t
      <4>1. /\ saving'[t].next.version = 0 /\ saving'[t].next.revs = {}
            /\ mem[t] \in Nat
        BY <1>0, <2>1, VersionsInTab DEF NoSave
      <4> QED BY <1>2, <1>5, <2>1, <2>2, <3>2, <4>1 DEF OnePage, Page, PageSaves, PageMem, Newest, Whole
    <3> QED BY <3>1, <3>2
  <2> QED BY <1>4, <2>5, <2>8, <2>9 DEF OnePage, Page
<1> QED BY <1>1, <1>6, <1>7, <1>8

\* A cache is dropped that the store has.
LEMMA PageDrop ==
  ASSUME CacheTypeOK, OnePage, NEW t \in Tabs, Dropping(t), "dropped" \notin races'
  PROVE  OnePage'
<1>1. /\ oh'.version = 0 /\ stamp' = NoStamp
      /\ UNCHANGED <<saves, db, open, mem, load, seen, saving, events, cached, confirmed>>
  BY DroppingIs DEF Dropped
<1>2. oh.version <= db
  <2>1. ~(oh.version > db)
    BY DroppingIs DEF Dropped
  <2> QED BY <2>1, VersionsInCache
<1>3. OneHere'
  BY <1>1 DEF OnePage, OneHere, Here
<1>4. Kept'
  <2>1. cached # 0 => cached <= db
    BY <1>2 DEF OnePage, Kept
  <2> QED BY <1>1, <2>1 DEF OnePage, Kept, Whole, NoStamp
<1>5. ASSUME NEW u \in Tabs PROVE Page(u)'
  BY <1>1 DEF OnePage, Page, PageEvents, PageSaves, PageMem, ReadsRight, Whole, NoStamp
<1> QED BY <1>3, <1>4, <1>5 DEF OnePage

LEMMA PageCrash ==
  ASSUME UnderWay, OnePage, NEW t \in Tabs, Crash(t), "crossed" \notin races'
  PROVE  OnePage'
<1>0. CacheTypeOK /\ txs \in Seq(Tx)
  BY TypedAre DEF UnderWay
<1>1. /\ UNCHANGED <<saves, oh, stamp, cached, confirmed>>
      /\ ~open'[t] /\ seen'[t] = 0
      /\ saving'[t].now = NoSave /\ saving'[t].next = NoSave /\ events'[t] = <<>>
      /\ \A u \in Tabs \ {t} : /\ open'[u] = open[u] /\ mem'[u] = mem[u] /\ load'[u] = load[u]
                               /\ seen'[u] = seen[u] /\ saving'[u] = saving[u]
                               /\ events'[u] = events[u]
      /\ races' = races \cup (IF db' < db THEN {"crossed"} ELSE {})
  BY <1>0, CrashStep
<1>2. /\ db \in Nat /\ db' \in Nat /\ oh.version \in Nat /\ cached \in Nat /\ confirmed \in Nat
      /\ \A e \in Happened : e.version \in Nat
  <2>1. CacheTypeOK'
    BY CrashUnderWay DEF UnderWay
  <2>2. db' \in Nat
    BY <2>1, VersionsAre DEF CacheTypeOK
  <2> QED BY <1>0, <2>2, VersionsInTab, VersionsInCache
<1>3. db <= db'
  <2>1. ~(db' < db)
    BY <1>1
  <2> QED BY <1>2, <2>1
<1>4. db' # db => Here(t) /\ db' = saving[t].now.version
  <2>1. ASSUME db' # db PROVE saving[t].now # NoSave /\ db' = saving[t].now.version
    <3>1. PICK i \in 1..Len(txs) : txs[i].tab = t /\ txs[i].kind = "save" /\ db' = txs[i].version
      BY <1>0, <2>1, CrashStep
    <3> DEFINE x == txs[i]
    <3>2. x \in Tx
      BY <1>0
    <3> HIDE DEF x
    <3>3. x \in TabSaves(t)
      BY <3>1, <3>2, KindsOfTx DEF x
    <3>4. Has(txs, {x}) /\ Has(txs, TabSaves(t))
      BY <3>3 DEF Has, x
    <3>5. Piped(t, txs, events[t], saving[t].now, saving[t].next, load[t])
      BY DEF UnderWay, Pipe
    <3>6. x.version = saving[t].now.version
      BY <3>3, <3>4, <3>5 DEF Piped, Says
    <3>7. saving[t].now # NoSave
      BY <3>4, <3>5 DEF Piped, SaveSent
    <3> QED BY <3>1, <3>6, <3>7 DEF x
  <2> QED BY <2>1 DEF Here
<1>5. OneHere'
  <2>1. ~Here(t)' /\ \A u \in Tabs \ {t} : Here(u)' => Here(u)
    BY <1>1 DEF Here
  <2> QED BY <2>1 DEF OnePage, OneHere
<1>6. Kept'
  <2>1. Kept /\ (stamp.acked => oh.version <= db') /\ confirmed <= db'
    BY <1>2, <1>3 DEF OnePage, Kept
  <2>2. cached # 0 => (Whole /\ oh.version = cached) \/ cached <= db'
    BY <1>2, <1>3, <2>1 DEF Kept
  <2>3. Whole => db' <= oh.version
    <3>1. CASE db' = db
      BY <2>1, <3>1 DEF Kept
    <3>2. CASE db' # db
      BY <1>4, <3>2 DEF OnePage, Page, PageSaves
    <3> QED BY <3>1, <3>2
  <2> QED BY <1>1, <2>1, <2>2, <2>3 DEF Kept, Whole
<1>7. Page(t)'
  <2>1. PageEvents(t)'
    BY <1>1 DEF PageEvents, Has
  <2>2. PageSaves(t)' /\ PageMem(t)'
    BY <1>1, <1>2 DEF PageSaves, PageMem, NoSave, Newest
  <2> QED BY <2>1, <2>2 DEF Page
<1>8. ASSUME NEW u \in Tabs, u # t PROVE Page(u)'
  <2>1. Page(u)
    BY DEF OnePage
  <2>2. PageSaves(u)'
    BY <1>1, <1>8, <2>1 DEF Page, PageSaves, Newest, Whole
  <2>3. CASE db' = db
    BY <1>1, <1>8, <2>1, <2>2, <2>3 DEF Page, PageEvents, PageMem, ReadsRight
  <2>4. CASE db' # db
    <3>1. ~open[u]
      BY <1>0, <1>4, <1>8, <2>4, OthersIdle DEF OnePage
    <3>2. PageMem(u)'
      BY <1>1, <1>8, <3>1 DEF PageMem
    <3>3. PageEvents(u)'
      BY <1>1, <1>2, <1>3, <1>8, <2>1, <3>1 DEF Page, PageEvents
    <3> QED BY <2>2, <3>2, <3>3 DEF Page
  <2> QED BY <2>3, <2>4
<1> QED BY <1>5, <1>6, <1>7, <1>8 DEF OnePage

LEMMA PageStep ==
  ASSUME UnderWay, Below(saves), OnePage, [CacheNext]_cacheVars,
         races' \subseteq {"overtaken", "uncached", "unlooked"}
  PROVE  OnePage'
<1>0. CacheTypeOK
  BY DEF UnderWay
<1>1. CASE saves' # saves
  BY <1>1, PageSave
<1>2. CASE saves' = saves
  <2>1. \A t \in Tabs : \A v : ~SaveHistory(t, v)
    <3>1. \A t \in Tabs : \A v : SaveHistory(t, v) => saves' = saves + 1
      BY DEF SaveHistory
    <3> QED BY <1>0, <1>2, <3>1, VersionsInCache
  <2>2. ASSUME NEW t \in Tabs, TurnSave(t) PROVE OnePage'
    <3>1. ~SaveHistory(t, saves + 1)
      BY <2>1
    <3>2. UNCHANGED <<saves, oh, stamp, db, saving, seen, mem, load, events, cached, confirmed, open>>
      BY <1>0, <2>2, <3>1, TurnSaveIs DEF TurnSave
    <3> QED BY <3>2, PageSame
  <2>3. ASSUME NEW t \in Tabs, LeaveChat(t) PROVE OnePage'
    <3>1. UNCHANGED <<saves, oh, stamp, db, saving, seen, mem, load, events, cached, confirmed>>
      BY <2>1, <2>3 DEF LeaveChat
    <3>2. \A u \in Tabs : open'[u] => open[u]
      BY <1>0, <2>3, TypedAre DEF LeaveChat
    <3> QED BY <3>1, <3>2, PageSame
  <2>4. ASSUME NEW t \in Tabs, Beginning(t) \/ Asking(t) PROVE OnePage'
    BY <1>0, <2>4, BeginningIs, AskingIs, PageSame
  <2>5. UNCHANGED cacheVars => OnePage'
    BY PageSame DEF cacheVars, shared, tabs, saved
  <2> QED BY <1>0, <2>2, <2>3, <2>4, <2>5, PageLoad, PageStore, PageHandle, PageDrop, PageCrash
          DEF CacheNext, Beginning, Asking, Dropping
<1> QED BY <1>1, <1>2
-----------------------------------------------------------------------------
\* Every turn looked and holds the lease: one at a time, and it has the newest version.
TurnsLook ==
  \A t \in Tabs : turns[t] # "none" =>
    mem[t] = cached /\ load[t] = "none" /\ \A u \in Tabs \ {t} : turns[u] = "none"

LEMMA TurnsSame ==
  ASSUME TurnsLook, cached' = cached,
         \A u \in Tabs : turns'[u] # "none" => turns[u] # "none" /\ mem'[u] = mem[u] /\ load'[u] = load[u]
  PROVE  TurnsLook'
BY DEF TurnsLook

LEMMA TurnsBegin ==
  ASSUME CacheTypeOK, TabsAgree, NEW t \in Tabs, Beginning(t), races' \subseteq {"shared"}
  PROVE  TurnsLook'
<1>1. /\ open[t] /\ \A u \in Tabs \ {t} : turns'[u] = turns[u]
      /\ UNCHANGED <<mem, load, cached>>
      /\ races' = races \cup (IF ChangedElsewhere(t) \/ load[t] # "none" THEN {"unlooked"} ELSE {})
                       \cup (IF \E u \in Tabs \ {t} : turns[u] # "none" THEN {"unleased"} ELSE {})
  BY BeginningIs
<1>2. ~ChangedElsewhere(t) /\ load[t] = "none"
  BY <1>1
<1>3. \A u \in Tabs \ {t} : turns[u] = "none"
  BY <1>1
<1>4. mem[t] = cached
  BY <1>1, <1>2, MemIsNewest
<1>5. \A u \in Tabs : turns'[u] # "none" => u = t
  BY <1>1, <1>3
<1> QED BY <1>1, <1>2, <1>4, <1>5 DEF TurnsLook

LEMMA TurnsStep ==
  ASSUME UnderWay, TabsAgree, TurnsLook, [CacheNext]_cacheVars, races' \subseteq {"shared"}
  PROVE  TurnsLook'
<1>0. CacheTypeOK /\ Named /\ saves \in Nat
  BY VersionsInCache DEF UnderWay
<1>1. CASE saves' # saves
  <2>1. PICK t \in Tabs, v \in Versions : SavedBy(t, v)
    BY <1>1, SaveSteps
  <2>2. /\ SaveHistory(t, v) /\ load' = load /\ load[t] = "none" /\ open[t]
        /\ \/ v = mem[t] /\ turns[t] = "none" /\ turns' = turns /\ ~ChangedElsewhere(t)
           \/ turns[t] # "none" /\ \A u \in Tabs \ {t} : turns'[u] = turns[u]
    BY <2>1 DEF SavedBy
  <2>3. mem'[t] = v /\ cached' = v /\ \A u \in Tabs \ {t} : mem'[u] = mem[u]
    BY <1>0, <2>2, SaveStep
  <2>4. CASE v = mem[t] /\ turns[t] = "none" /\ turns' = turns /\ ~ChangedElsewhere(t)
    <3>1. v = cached
      BY <1>0, <2>2, <2>4, MemIsNewest
    <3> QED BY <2>2, <2>3, <2>4, <3>1, TurnsSame
  <2>5. CASE turns[t] # "none" /\ \A u \in Tabs \ {t} : turns'[u] = turns[u]
    <3>1. \A u \in Tabs : turns'[u] # "none" => u = t
      BY <2>5 DEF TurnsLook
    <3> QED BY <2>2, <2>3, <3>1 DEF TurnsLook
  <2> QED BY <2>2, <2>4, <2>5
<1>2. CASE saves' = saves
  <2>1. \A t \in Tabs : \A v : ~SaveHistory(t, v)
    <3>1. \A t \in Tabs : \A v : SaveHistory(t, v) => saves' = saves + 1
      BY DEF SaveHistory
    <3> QED BY <1>0, <1>2, <3>1
  <2>2. ASSUME NEW t \in Tabs, OpenChat(t) \/ ReloadChanged(t) PROVE TurnsLook'
    <3>1. turns[t] = "none"
      BY <1>0, <2>2 DEF OpenChat, ReloadChanged, Named
    <3>2. /\ UNCHANGED <<turns, cached>>
          /\ \A u \in Tabs \ {t} : mem'[u] = mem[u] /\ load'[u] = load[u]
      BY <1>0, <2>2, LoadStep
    <3> QED BY <3>1, <3>2, TurnsSame
  <2>3. ASSUME NEW t \in Tabs, LeaveChat(t) \/ TurnSave(t) PROVE TurnsLook'
    <3>1. UNCHANGED <<mem, cached, load>>
      BY <2>1, <2>3 DEF LeaveChat, TurnSave
    <3>2. \A u \in Tabs : turns'[u] # "none" => turns[u] # "none"
      <4>1. LeaveChat(t) => turns' = turns
        BY DEF LeaveChat
      <4> QED BY <1>0, <2>3, <4>1, TurnSaveIs
    <3> QED BY <3>1, <3>2, TurnsSame
  <2>4. ASSUME NEW t \in Tabs, HandleEvent(t) PROVE TurnsLook'
    <3>1. HandleGeneration(t) \/ HandleRead(t) \/ HandleAnswer(t)
      BY <1>0, <2>4, HandleCases
    <3>2. Handled(t) /\ UNCHANGED <<turns, cached>>
      BY <3>1 DEF HandleGeneration, HandleRead, HandleAnswer, Handled
    <3>3. CASE HandleRead(t)
      <4>1. turns[t] = "none"
        <5>1. Told(t) \in Happened /\ Has(events[t], {Told(t)}) /\ Told(t).kind = "record"
          BY <1>0, <3>2, <3>3, ToldIs DEF Handled, HandleRead
        <5>2. load[t] # "none"
          BY <5>1, NoReads
        <5> QED BY <5>2 DEF TurnsLook
      <4>2. \A u \in Tabs \ {t} : load'[u] = load[u] /\ mem'[u] = mem[u]
        BY <3>3, ReadStep
      <4> QED BY <3>2, <4>1, <4>2, TurnsSame
    <3>4. CASE HandleGeneration(t) \/ HandleAnswer(t)
      <4>1. UNCHANGED <<mem, load>>
        BY <3>4 DEF HandleGeneration, HandleAnswer
      <4> QED BY <3>2, <4>1, TurnsSame
    <3> QED BY <3>1, <3>3, <3>4
  <2>5. ASSUME NEW t \in Tabs, Crash(t) PROVE TurnsLook'
    <3>1. /\ turns'[t] = "none" /\ cached' = cached
          /\ \A u \in Tabs \ {t} : turns'[u] = turns[u] /\ mem'[u] = mem[u] /\ load'[u] = load[u]
      BY <1>0, <2>5, CrashStep
    <3> QED BY <3>1, TurnsSame
  <2>6. ASSUME NEW t \in Tabs, Asking(t) \/ Dropping(t) PROVE TurnsLook'
    <3>1. UNCHANGED <<turns, mem, load, cached>>
      BY <1>0, <2>6, AskingIs, DroppingIs
    <3> QED BY <3>1, TurnsSame
  <2>7. StoreStep => TurnsLook'
    BY <1>0, StoreIs, TurnsSame
  <2>8. UNCHANGED cacheVars => TurnsLook'
    BY TurnsSame DEF cacheVars, tabs, saved
  <2> QED BY <1>0, <2>2, <2>3, <2>4, <2>5, <2>6, <2>7, <2>8, TurnsBegin
          DEF CacheNext, Beginning, Asking, Dropping
<1> QED BY <1>1, <1>2
-----------------------------------------------------------------------------
\* The inductive invariant: which of its last three parts hold depends on what happened.
HistoryInv ==
  /\ UnderWay
  /\ Below(saves)
  /\ races \subseteq {"shared", "unlooked", "unleased"} => TabsAgree
  /\ races \subseteq {"shared"} => TurnsLook
  /\ races \subseteq {"overtaken", "uncached", "unlooked"} => OnePage

LEMMA RacesStay == ASSUME [CacheNext]_cacheVars PROVE races \subseteq races'
<1>1. ASSUME NEW t \in Tabs, OpenChat(t) \/ ReloadChanged(t) \/ Beginning(t) PROVE races \subseteq races'
  BY <1>1 DEF OpenChat, ReloadChanged, Beginning, BeginTurn, BeginQueued, BeginLoose, TurnBegins, Note
<1>2. ASSUME NEW t \in Tabs, LeaveChat(t) \/ TurnSave(t) PROVE races \subseteq races'
  <2>1. (races' = races) \/ \E v : SaveHistory(t, v)
    BY <1>2 DEF LeaveChat, TurnSave
  <2> QED BY <2>1 DEF SaveHistory, Note
<1>3. ASSUME NEW t \in Tabs, HandleEvent(t) PROVE races \subseteq races'
  BY <1>3 DEF HandleEvent, AdoptLoad, Note
<1>4. ASSUME NEW t \in Tabs, Crash(t) PROVE races \subseteq races'
  BY <1>4 DEF Crash, Note
<1>5. StoreStep => races \subseteq races'
  BY DEF StoreStep, Note
<1>6. UNCHANGED cacheVars => races \subseteq races'
  BY DEF cacheVars
<1>7. ASSUME NEW t \in Tabs, Asking(t) \/ Dropping(t) PROVE races \subseteq races'
  BY <1>7 DEF Asking, AskStored, SpareCache, Dropping, DropCache, DropShorter, Dropped
<1> QED BY <1>1, <1>2, <1>3, <1>4, <1>5, <1>6, <1>7 DEF CacheNext, Beginning, Asking, Dropping

\* Every save and load of a tab is in its place between the tab and the store, and the newest
\* history is where a load finds it.
THEOREM HistoryHasPlaces == CacheSpec => []HistoryInv
<1>1. CacheInit => HistoryInv
  <2>1. CacheInit => TurnsLook
    BY DEF CacheInit, TurnsLook
  <2> QED BY <2>1, UnderWayInit, BelowSavesInit, AgreeInit, OnePageInit DEF HistoryInv
<1>2. HistoryInv /\ [CacheNext]_cacheVars => HistoryInv'
  <2> SUFFICES ASSUME HistoryInv, [CacheNext]_cacheVars PROVE HistoryInv'
    OBVIOUS
  <2>1. UnderWay /\ Below(saves) /\ UnderWay' /\ Below(saves)'
    BY UnderWayStep, BelowSavesStep DEF HistoryInv
  <2>2. races' \subseteq {"shared", "unlooked", "unleased"} => TabsAgree'
    BY <2>1, RacesStay, AgreeStep DEF HistoryInv
  <2>3. races' \subseteq {"overtaken", "uncached", "unlooked"} => OnePage'
    BY <2>1, RacesStay, PageStep DEF HistoryInv
  <2>4. races' \subseteq {"shared"} => TurnsLook'
    <3>1. ASSUME races' \subseteq {"shared"} PROVE TabsAgree /\ TurnsLook
      <4>1. races \subseteq {"shared"}
        BY <3>1, RacesStay
      <4> QED BY <4>1 DEF HistoryInv
    <3> QED BY <2>1, <3>1, TurnsStep
  <2> QED BY <2>1, <2>2, <2>3, <2>4 DEF HistoryInv
<1> QED BY <1>1, <1>2, PTL DEF CacheSpec

\* The variables keep their types: a save waits only behind one that the store works on.
THEOREM CacheTypeCorrect == CacheSpec => []CacheTypeOK
<1>1. HistoryInv => CacheTypeOK
  BY DEF HistoryInv, UnderWay
<1> QED BY <1>1, HistoryHasPlaces, PTL

\* What loadChatHistory restores is the newest history that was cached whole or confirmed.
THEOREM NewestIsRestored == CacheSpec => []SavedIsRestored
<1>1. HistoryInv => SavedIsRestored
  <2> SUFFICES ASSUME HistoryInv,
                      \/ races \subseteq {"overtaken", "uncached", "unlooked"}
                      \/ races \subseteq {"shared", "unlooked", "unleased"}
               PROVE  Restored(db) >= Safe
    BY DEF SavedIsRestored
  <2>1. CacheTypeOK /\ db \in Nat /\ cached \in Nat /\ confirmed \in Nat /\ oh.version \in Nat
    BY VersionsInCache DEF HistoryInv, UnderWay
  <2>2. CASE races \subseteq {"shared", "unlooked", "unleased"}
    <3>1. TabsAgree
      BY <2>2 DEF HistoryInv
    <3>2. db <= cached /\ confirmed <= cached
      BY <3>1 DEF TabsAgree, Agreed, Below
    <3>3. Restored(db) = cached
      BY <2>1, <3>1, <3>2, RestoredIsNewest DEF TabsAgree
    <3>4. Safe = cached
      BY <2>1, <3>2 DEF Safe, Larger
    <3> QED BY <2>1, <3>3, <3>4
  <2>3. CASE races \subseteq {"overtaken", "uncached", "unlooked"}
    <3>1. Kept
      BY <2>3 DEF HistoryInv, OnePage
    <3>2. confirmed <= Restored(db) /\ Restored(db) \in Nat
      <4>1. CASE db # 0 /\ ~CacheIsNewer
        BY <2>1, <3>1, <4>1 DEF Kept, Restored
      <4>2. CASE CacheIsNewer
        <5>1. Whole /\ Restored(db) = oh.version
          BY <3>1, <4>2 DEF Kept, Restored, CacheIsNewer, Whole
        <5> QED BY <2>1, <3>1, <5>1 DEF Kept
      <4>3. CASE db = 0
        BY <2>1, <3>1, <4>3 DEF Kept, Restored
      <4> QED BY <4>1, <4>2, <4>3
    <3>3. cached <= Restored(db)
      <4>1. CASE cached = 0
        BY <2>1, <3>2, <4>1
      <4>2. CASE cached # 0 /\ Whole /\ oh.version = cached
        <5>1. Restored(db) = oh.version \/ (Restored(db) = db /\ stamp.acked)
          BY <3>1, <4>2 DEF Kept, Whole, Restored, CacheIsNewer
        <5> QED BY <2>1, <3>1, <4>2, <5>1 DEF Kept
      <4>3. CASE cached # 0 /\ cached <= db
        <5>1. Restored(db) = db \/ CacheIsNewer
          BY <2>1, <4>3 DEF Restored
        <5>2. CacheIsNewer => Whole /\ Restored(db) = oh.version
          BY <3>1 DEF Kept, Restored, CacheIsNewer, Whole
        <5> QED BY <2>1, <3>1, <4>3, <5>1, <5>2 DEF Kept
      <4> QED BY <3>1, <4>1, <4>2, <4>3 DEF Kept
    <3> QED BY <2>1, <3>2, <3>3 DEF Safe, Larger
  <2> QED BY <2>2, <2>3
<1> QED BY <1>1, HistoryHasPlaces, PTL

\* A save is built on the newest history that was saved.
THEOREM NothingIsLost == CacheSpec => SaveLosesNothing
<1> DEFINE Kind == \A t \in Tabs :
             saves' # saves /\ saving'[t] # saving[t] /\ races \subseteq {"shared"} => mem[t] >= Safe
<1>1. HistoryInv /\ [CacheNext]_cacheVars => [Kind]_cacheVars
  <2> SUFFICES ASSUME HistoryInv, [CacheNext]_cacheVars, NEW u \in Tabs,
                      saves' # saves, saving'[u] # saving[u], races \subseteq {"shared"}
               PROVE  mem[u] >= Safe
    OBVIOUS
  <2>1. UnderWay /\ CacheTypeOK /\ Named /\ TabsAgree /\ TurnsLook
    <3>1. races \subseteq {"shared", "unlooked", "unleased"}
      OBVIOUS
    <3> QED BY <3>1 DEF HistoryInv, UnderWay
  <2>2. PICK t \in Tabs, v \in Versions : SavedBy(t, v)
    BY <2>1, SaveSteps
  <2>3. u = t
    BY <2>1, <2>2, SaveStep DEF SavedBy
  <2>4. mem[t] = cached
    <3>1. CASE turns[t] # "none"
      BY <2>1, <3>1 DEF TurnsLook
    <3>2. CASE turns[t] = "none"
      BY <2>1, <2>2, <3>2, MemIsNewest DEF SavedBy
    <3> QED BY <3>1, <3>2
  <2>5. cached \in Nat /\ confirmed \in Nat /\ confirmed <= cached
    BY <2>1, VersionsInCache DEF TabsAgree, Agreed
  <2> QED BY <2>3, <2>4, <2>5 DEF Safe, Larger
<1> QED BY <1>1, HistoryHasPlaces, PTL DEF CacheSpec, SaveLosesNothing
=============================================================================
