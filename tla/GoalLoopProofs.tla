--------------------------- MODULE GoalLoopProofs ---------------------------
(***************************************************************************)
(* Proofs about GoalLoop, for any notes and any limits: type correctness,  *)
(* and that no note the user was told of as added is lost unless it met    *)
(* one of the named races.                                                 *)
(***************************************************************************)
EXTENDS GoalLoop, TLAPS

Runs == [at : Places, rec : Records, writing : Records, stop : BOOLEAN,
         steer : SUBSET Notes, prompted : SUBSET Notes, errors : 0..MAX_ERRORS_IN_A_ROW,
         still : 0..NO_PROGRESS_LIMIT, verifying : BOOLEAN]

\* The loop is in it between any two turns.
Going == {"opening", "going", "waiting", "turn", "sleeping"}
Writes == {"opening", "breaking", "going", "pausing", "keeping"}

\* No limit is reached yet.
Within(s) ==
  s.rec.status = "active" /\ s.errors < MAX_ERRORS_IN_A_ROW /\ s.still < NO_PROGRESS_LIMIT

\* A state of the loop with the notes where the code expects them.
Base(s) == s \in Runs /\ s.rec.turns <= s.rec.maxTurns /\ s.rec.steer = {}

Sane(s) ==
  /\ s \in Runs
  /\ s.rec.turns <= s.rec.maxTurns
  /\ s.at # "keeping" => s.rec.steer = {}
  /\ s.steer \cap s.rec.steer = {}
  /\ s.at \in Writes => s.writing = s.rec
  /\ s.at \in Going => Within(s)
  /\ s.at \in {"pausing", "keeping"} => s.rec.status # "done"
  /\ s.at = "waiting" /\ ~s.verifying => s.rec.turns < s.rec.maxTurns
  /\ s.at = "turn" /\ ~s.verifying => s.rec.turns > 0

Types ==
  /\ reading \in Records \cup {NoGoal, NotReading}
  /\ aiJob \in BOOLEAN
  /\ aiJob <=> run # Off \/ reading # NotReading
  /\ clearing \in BOOLEAN /\ current \in BOOLEAN
  /\ stored \in Records \cup {NoGoal}
  /\ races \in [Notes -> Races]

ReadOK ==
  /\ run # Off => reading = NotReading
  /\ reading \in Records => reading.turns + DEFAULT_MAX_TURNS <= TurnBound

Memory(s) == IF s = Off THEN {} ELSE s.steer \cup s.rec.steer
BeingRead == IF reading \in Records THEN reading.steer ELSE {}
Raced(n) == races[n] # "none"

\* Only what was shown as added is anywhere.
Known ==
  /\ accepted \subseteq Notes
  /\ sent \cup Memory(run) \cup InRecord(stored) \cup BeingRead \subseteq accepted

\* While the loop runs it has the notes; while a record is read that has them; else the file.
Kept ==
  /\ run # Off => \A n \in accepted : n \in sent \cup Memory(run) \/ Raced(n)
  /\ run = Off => \A n \in accepted : n \in sent \cup InRecord(stored) \/ Raced(n)
  /\ reading \in Records => \A n \in accepted : n \in sent \cup reading.steer \/ Raced(n)

\* What comes behind the last look at the notes is marked.
LateMarked ==
  run # Off /\ (run.at = "keeping" \/ run.rec.status = "done") => \A n \in run.steer : Raced(n)

IInv == (run = Off \/ Sane(run)) /\ Types /\ ReadOK /\ Known /\ Kept /\ LateMarked

\* An empty run is not a state of the loop.
LEMMA OffIsNone == \A s \in Runs : s # Off
<1>1. Off \notin Runs
  BY DEF Off, Runs, Places
<1>2. QED
  BY <1>1

LEMMA Limits ==
  /\ DEFAULT_MAX_TURNS \in Nat /\ DEFAULT_MAX_TURNS > 0
  /\ NO_PROGRESS_LIMIT \in Nat /\ NO_PROGRESS_LIMIT > 0
  /\ MAX_ERRORS_IN_A_ROW \in Nat /\ MAX_ERRORS_IN_A_ROW > 0
  /\ TurnBound \in Nat /\ DEFAULT_MAX_TURNS <= TurnBound
BY GoalAssumption

\* What a save changes: the status, and where the loop waits.
LEMMA SaveIs ==
  ASSUME NEW s \in Runs, NEW status \in Statuses, NEW next \in Places
  PROVE  LET t == Save(s, status, next) IN
         /\ t \in Runs /\ t.at = next /\ t.writing = t.rec /\ t.rec.status = status
         /\ t.rec.turns = s.rec.turns /\ t.rec.maxTurns = s.rec.maxTurns
         /\ t.rec.steer = s.rec.steer /\ t.steer = s.steer
         /\ t.errors = s.errors /\ t.still = s.still /\ t.verifying = s.verifying
<1> DEFINE rec == [s.rec EXCEPT !.status = status]
<1>1. s.rec \in Records
  BY DEF Runs
<1>2. /\ rec \in Records /\ rec.status = status /\ rec.turns = s.rec.turns
      /\ rec.maxTurns = s.rec.maxTurns /\ rec.steer = s.rec.steer
  BY <1>1 DEF Records
<1> HIDE DEF rec
<1> DEFINE t == [s EXCEPT !.rec = rec, !.writing = rec, !.at = next]
<1>3. /\ t \in Runs /\ t.at = next /\ t.writing = rec /\ t.rec = rec /\ t.steer = s.steer
      /\ t.errors = s.errors /\ t.still = s.still /\ t.verifying = s.verifying
  BY <1>2 DEF Runs
<1>4. t = Save(s, status, next)
  BY DEF Save, rec
<1>5. QED
  BY <1>2, <1>3, <1>4

\* A save of a state of the loop that lets it break off.
LEMMA Breaks ==
  ASSUME NEW s, Base(s), NEW status \in Statuses, NEW next \in {"breaking", "pausing"},
         next = "pausing" => status # "done"
  PROVE  LET t == Save(s, status, next)
         IN Sane(t) /\ t # Off /\ Memory(t) = s.steer /\ t.at = next /\ t.rec.status = status
            /\ t.steer = s.steer
<1> DEFINE t == Save(s, status, next)
<1>1. s \in Runs /\ s.rec.turns <= s.rec.maxTurns /\ s.rec.steer = {} /\ next \in Places
  BY DEF Base, Places
<1>2. /\ t \in Runs /\ t.at = next /\ t.writing = t.rec /\ t.rec.status = status
      /\ t.rec.turns = s.rec.turns /\ t.rec.maxTurns = s.rec.maxTurns
      /\ t.rec.steer = s.rec.steer /\ t.steer = s.steer
  BY <1>1, SaveIs
<1> HIDE DEF t
<1>3. t # Off
  BY <1>2, OffIsNone
<1>4. QED
  BY <1>1, <1>2, <1>3 DEF Sane, Going, Writes, Memory, t

\* The loop ends, or keeps what was not delivered.
LEMMA Keeps ==
  ASSUME NEW s, Base(s)
  PROVE  /\ Keep(s) = Off \/ (Sane(Keep(s)) /\ Keep(s) # Off)
         /\ s.rec.status # "done" => Memory(Keep(s)) = s.steer
         /\ Keep(s) = Off => s.steer = {} \/ s.rec.status = "done"
         /\ Keep(s) # Off => Keep(s).steer = {}
<1>1. s \in Runs /\ s.rec.turns <= s.rec.maxTurns /\ s.rec.steer = {} /\ s.rec \in Records
  BY DEF Base, Runs
<1>2. CASE ~(s.steer # {} /\ s.rec.status # "done")
  BY <1>2 DEF Keep, Memory
<1>3. CASE s.steer # {} /\ s.rec.status # "done"
  <2> DEFINE r == [s EXCEPT !.rec.steer = s.steer, !.steer = {}]
  <2> DEFINE t == Save(r, s.rec.status, "keeping")
  <2>1. s.steer \in SUBSET Notes /\ s.rec.status \in Statuses /\ "keeping" \in Places
    BY <1>1 DEF Runs, Records, Places
  <2>2. [s.rec EXCEPT !.steer = s.steer] \in Records
    BY <1>1, <2>1 DEF Records
  <2>3. /\ r \in Runs /\ r.rec = [s.rec EXCEPT !.steer = s.steer] /\ r.steer = {}
    BY <1>1, <2>2 DEF Runs
  <2>4. r.rec.turns = s.rec.turns /\ r.rec.maxTurns = s.rec.maxTurns /\ r.rec.steer = s.steer
    BY <1>1, <2>3 DEF Records
  <2> HIDE DEF r
  <2>5. /\ t \in Runs /\ t.at = "keeping" /\ t.writing = t.rec /\ t.rec.status = s.rec.status
        /\ t.rec.turns = r.rec.turns /\ t.rec.maxTurns = r.rec.maxTurns
        /\ t.rec.steer = r.rec.steer /\ t.steer = r.steer
    <3>1. r \in Runs /\ s.rec.status \in Statuses /\ "keeping" \in Places
      BY <2>1, <2>3
    <3>2. QED
      BY <3>1, SaveIs
  <2>6. Keep(s) = t
    BY <1>3 DEF Keep, r
  <2> HIDE DEF t
  <2>7. t # Off
    BY <2>5, OffIsNone
  <2>8. Sane(t)
    BY <1>1, <1>3, <2>3, <2>4, <2>5 DEF Sane, Going
  <2>9. Memory(t) = s.steer
    BY <2>3, <2>4, <2>5, <2>7 DEF Memory
  <2>10. QED
    BY <1>3, <2>3, <2>5, <2>6, <2>7, <2>8, <2>9
<1>4. QED
  BY <1>2, <1>3

\* What a step of the loop may leave: it goes on with the notes it had, or has none.
Leaves(s, t) ==
  /\ t = Off \/ (Sane(t) /\ t # Off)
  /\ Memory(t) = s.steer
  /\ t # Off /\ (t.at = "keeping" \/ t.rec.status = "done") => t.steer = {}

LEMMA Tails ==
  ASSUME NEW s, Base(s), s.rec.status # "done"
  PROVE  Leaves(s, Tail(s))
<1>1. CASE s.stop /\ s.rec.status = "active"
  BY <1>1, Breaks DEF Tail, Leaves, Statuses
<1>2. CASE ~(s.stop /\ s.rec.status = "active")
  BY <1>2, Keeps DEF Tail, Leaves
<1>3. QED
  BY <1>1, <1>2

LEMMA Agains ==
  ASSUME NEW s, Base(s), Within(s)
  PROVE  Leaves(s, Again(s))
<1>1. CASE s.stop
  BY <1>1, Tails DEF Again, Within
<1>2. CASE ~s.stop /\ ~s.verifying /\ s.rec.turns >= s.rec.maxTurns
  BY <1>2, Breaks DEF Again, Leaves, Statuses
<1>3. CASE ~s.stop /\ ~(~s.verifying /\ s.rec.turns >= s.rec.maxTurns)
  <2> DEFINE t == [s EXCEPT !.at = "waiting"]
  <2>1. /\ t \in Runs /\ t.at = "waiting" /\ t.rec = s.rec /\ t.steer = s.steer
        /\ t.errors = s.errors /\ t.still = s.still /\ t.verifying = s.verifying
    BY DEF Base, Runs, Places
  <2>2. Again(s) = t
    BY <1>3 DEF Again
  <2> HIDE DEF t
  <2>3. t # Off
    BY <2>1, OffIsNone
  <2>4. s.rec.turns \in Nat /\ s.rec.maxTurns \in Nat
    BY Limits DEF Base, Runs, Records
  <2>5. Sane(t)
    BY <1>3, <2>1, <2>4 DEF Sane, Base, Within, Writes
  <2>6. Memory(t) = s.steer
    BY <2>1, <2>3 DEF Memory, Base
  <2>7. QED
    BY <2>1, <2>2, <2>3, <2>5, <2>6 DEF Leaves, Within
<1>4. QED
  BY <1>1, <1>2, <1>3

\* The loop goes on with another turn behind a save.
LEMMA GoesOn ==
  ASSUME NEW s, Base(s), Within(s)
  PROVE  Leaves(s, Save(s, s.rec.status, "going"))
<1> DEFINE t == Save(s, s.rec.status, "going")
<1>1. s \in Runs /\ s.rec.status \in Statuses /\ "going" \in Places
  BY DEF Base, Within, Places, Statuses
<1>2. /\ t \in Runs /\ t.at = "going" /\ t.writing = t.rec /\ t.rec.status = s.rec.status
      /\ t.rec.turns = s.rec.turns /\ t.rec.maxTurns = s.rec.maxTurns
      /\ t.rec.steer = s.rec.steer /\ t.steer = s.steer
      /\ t.errors = s.errors /\ t.still = s.still /\ t.verifying = s.verifying
  BY <1>1, SaveIs
<1> HIDE DEF t
<1>3. t # Off
  BY <1>2, OffIsNone
<1>4. Sane(t)
  BY <1>2 DEF Sane, Base, Within
<1>5. Memory(t) = s.steer
  BY <1>2, <1>3 DEF Memory, Base
<1>6. QED
  BY <1>2, <1>3, <1>4, <1>5 DEF Leaves, Within, t

\* A failed request gives its turn back; the series of failures has a limit.
LEMMA Fails ==
  ASSUME NEW s, Base(s), Within(s), ~s.verifying => s.rec.turns > 0
  PROVE  Leaves(s, Errored(s))
<1> DEFINE n == IF s.verifying THEN s.rec.turns ELSE s.rec.turns - 1
<1> DEFINE e == [s EXCEPT !.errors = @ + 1, !.rec.turns = IF s.verifying THEN @ ELSE @ - 1]
<1>1. /\ s \in Runs /\ s.rec \in Records /\ s.rec.turns \in 0..TurnBound
      /\ s.rec.maxTurns \in 1..TurnBound /\ s.errors \in 0..MAX_ERRORS_IN_A_ROW
      /\ s.errors < MAX_ERRORS_IN_A_ROW /\ s.rec.turns <= s.rec.maxTurns
  BY DEF Base, Within, Runs, Records
<1>2. n \in 0..TurnBound /\ n <= s.rec.maxTurns
  BY <1>1, Limits
<1>3. s.errors + 1 \in 0..MAX_ERRORS_IN_A_ROW
  BY <1>1, Limits
<1> HIDE DEF n
<1> DEFINE rec == [s.rec EXCEPT !.turns = n]
<1>4. /\ rec \in Records /\ rec.turns = n /\ rec.maxTurns = s.rec.maxTurns
      /\ rec.status = s.rec.status /\ rec.steer = s.rec.steer
  BY <1>1, <1>2 DEF Records
<1>5. e = [s EXCEPT !.errors = @ + 1, !.rec = rec]
  BY <1>1 DEF Runs, Records, n
<1> HIDE DEF e, rec
<1>6. /\ e \in Runs /\ e.rec = rec /\ e.errors = s.errors + 1 /\ e.steer = s.steer
      /\ e.at = s.at /\ e.still = s.still
  BY <1>1, <1>3, <1>4, <1>5 DEF Runs
<1>7. Base(e) /\ e.rec.status = "active" /\ e.still < NO_PROGRESS_LIMIT
  BY <1>2, <1>4, <1>6 DEF Base, Within
<1>8. CASE e.errors = MAX_ERRORS_IN_A_ROW
  <2>1. Errored(s) = Save(e, "paused", "breaking")
    BY <1>8 DEF Errored, e
  <2>2. QED
    BY <1>6, <1>7, <2>1, Breaks DEF Leaves, Statuses
<1>9. CASE e.errors # MAX_ERRORS_IN_A_ROW
  <2> DEFINE t == [e EXCEPT !.at = "sleeping"]
  <2>1. /\ t \in Runs /\ t.at = "sleeping" /\ t.rec = e.rec /\ t.steer = e.steer
        /\ t.errors = e.errors /\ t.still = e.still
    BY <1>6 DEF Runs, Places
  <2>2. Errored(s) = t
    BY <1>9 DEF Errored, e
  <2> HIDE DEF t
  <2>3. t # Off
    BY <2>1, OffIsNone
  <2>4. e.errors < MAX_ERRORS_IN_A_ROW
    BY <1>1, <1>6, <1>9, Limits
  <2>5. Sane(t)
    BY <1>7, <2>1, <2>4 DEF Sane, Base, Within, Writes
  <2>6. Memory(t) = s.steer
    BY <1>6, <1>7, <2>1, <2>3 DEF Memory, Base
  <2>7. QED
    BY <1>7, <2>1, <2>2, <2>3, <2>5, <2>6 DEF Leaves
<1>10. QED
  BY <1>8, <1>9

\* Done is said only when no note waits.
LEMMA Completes ==
  ASSUME NEW s, Base(s), Within(s)
  PROVE  Leaves(s, Completed(s))
<1>1. CASE s.verifying /\ s.steer = {}
  BY <1>1, Breaks DEF Completed, Leaves, Statuses
<1>2. CASE ~(s.verifying /\ s.steer = {})
  <2> DEFINE v == [s EXCEPT !.verifying = ~@]
  <2>1. v \in Runs /\ v.rec = s.rec /\ v.steer = s.steer /\ v.errors = s.errors /\ v.still = s.still
    BY DEF Base, Runs
  <2>2. Completed(s) = Save(v, s.rec.status, "going")
    BY <1>2 DEF Completed
  <2> HIDE DEF v
  <2>3. Base(v) /\ Within(v)
    BY <2>1 DEF Base, Within
  <2>4. Leaves(v, Save(v, v.rec.status, "going"))
    BY <2>3, GoesOn
  <2>5. QED
    BY <2>1, <2>2, <2>4 DEF Leaves
<1>3. QED
  BY <1>1, <1>2

\* Turns that change nothing have a limit.
LEMMA Unfinishes ==
  ASSUME NEW s, Base(s), Within(s), NEW same \in BOOLEAN
  PROVE  Leaves(s, Unfinished(s, same))
<1> DEFINE u == [s EXCEPT !.verifying = FALSE, !.still = IF same THEN @ + 1 ELSE 0]
<1>1. s \in Runs /\ s.still \in 0..NO_PROGRESS_LIMIT /\ s.still < NO_PROGRESS_LIMIT
  BY DEF Base, Within, Runs
<1>2. (IF same THEN s.still + 1 ELSE 0) \in 0..NO_PROGRESS_LIMIT
  BY <1>1, Limits
<1>3. u \in Runs /\ u.rec = s.rec /\ u.steer = s.steer /\ u.errors = s.errors
  BY <1>1, <1>2 DEF Runs
<1>4. Unfinished(s, same) = IF u.still >= NO_PROGRESS_LIMIT THEN Save(u, "blocked", "breaking")
                            ELSE Save(u, u.rec.status, "going")
  BY DEF Unfinished
<1> HIDE DEF u
<1>5. Base(u) /\ u.still \in 0..NO_PROGRESS_LIMIT
  BY <1>3 DEF Base, Runs
<1>6. CASE u.still >= NO_PROGRESS_LIMIT
  BY <1>3, <1>4, <1>5, <1>6, Breaks DEF Leaves, Statuses
<1>7. CASE ~(u.still >= NO_PROGRESS_LIMIT)
  <2>1. Within(u)
    BY <1>3, <1>5, <1>7, Limits DEF Within
  <2>2. Leaves(u, Save(u, u.rec.status, "going"))
    BY <1>5, <2>1, GoesOn
  <2>3. QED
    BY <1>3, <1>4, <1>7, <2>2 DEF Leaves
<1>8. QED
  BY <1>6, <1>7

\* Whatever a turn comes to, its notes go along.
LEMMA TurnsLeave ==
  ASSUME NEW s, Base(s), Within(s), ~s.verifying => s.rec.turns > 0,
         NEW signal \in {"stopped", "error", "blocked", "complete", "running"},
         NEW same \in BOOLEAN
  PROVE  Leaves(s, AfterTurn(s, signal, same))
<1> DEFINE calm == [s EXCEPT !.errors = 0]
<1>1. /\ calm \in Runs /\ calm.rec = s.rec /\ calm.steer = s.steer /\ calm.still = s.still
      /\ calm.errors = 0
  BY Limits DEF Base, Runs
<1>2. AfterTurn(s, signal, same) =
        IF s.stop THEN Tail(s)
        ELSE CASE signal = "stopped"  -> Save(s, "paused", "breaking")
               [] signal = "error"    -> Errored(s)
               [] signal = "blocked"  -> Save(calm, "blocked", "breaking")
               [] signal = "complete" -> Completed(calm)
               [] signal = "running"  -> Unfinished(calm, same)
  BY DEF AfterTurn
<1> HIDE DEF calm
<1>3. Base(calm) /\ Within(calm)
  BY <1>1, Limits DEF Base, Within
<1>4. CASE s.stop
  BY <1>2, <1>4, Tails DEF Within
<1>5. CASE ~s.stop /\ signal = "stopped"
  <2>1. AfterTurn(s, signal, same) = Save(s, "paused", "breaking")
    BY <1>2, <1>5
  <2>2. QED
    BY <2>1, Breaks DEF Leaves, Statuses
<1>6. CASE ~s.stop /\ signal = "error"
  <2>1. AfterTurn(s, signal, same) = Errored(s)
    BY <1>2, <1>6
  <2>2. QED
    BY <2>1, Fails
<1>7. CASE ~s.stop /\ signal = "blocked"
  <2>1. AfterTurn(s, signal, same) = Save(calm, "blocked", "breaking")
    BY <1>2, <1>7
  <2>2. QED
    BY <1>1, <1>3, <2>1, Breaks DEF Leaves, Statuses
<1>8. CASE ~s.stop /\ signal = "complete"
  <2>1. AfterTurn(s, signal, same) = Completed(calm)
    BY <1>2, <1>8
  <2>2. Leaves(calm, Completed(calm))
    BY <1>3, Completes
  <2>3. QED
    BY <1>1, <2>1, <2>2 DEF Leaves
<1>9. CASE ~s.stop /\ signal = "running"
  <2>1. AfterTurn(s, signal, same) = Unfinished(calm, same)
    BY <1>2, <1>9
  <2>2. Leaves(calm, Unfinished(calm, same))
    BY <1>3, Unfinishes
  <2>3. QED
    BY <1>1, <2>1, <2>2 DEF Leaves
<1>10. QED
  BY <1>4, <1>5, <1>6, <1>7, <1>8, <1>9

\* Behind a write the loop goes on with its notes, or ends: then they are in what was
\* written, or came too late.
LEMMA SavesLeave ==
  ASSUME NEW s, Sane(s), s.at \in Writes
  PROVE  LET t == AfterSave(s) IN
         /\ t = Off \/ (Sane(t) /\ t # Off)
         /\ t # Off => Memory(t) = s.steer \cup s.rec.steer
         /\ t # Off /\ (t.at = "keeping" \/ t.rec.status = "done") => t.steer = {}
         /\ t = Off => s.steer = {} \/ s.at = "keeping" \/ s.rec.status = "done"
<1>1. s.at # "keeping" => Base(s)
  BY DEF Sane, Base
<1>2. CASE s.at \in {"opening", "going"}
  <2>1. AfterSave(s) = Again(s) /\ Within(s) /\ s.rec.steer = {}
    BY <1>2 DEF AfterSave, Sane, Going
  <2>2. Leaves(s, Again(s))
    BY <1>1, <1>2, <2>1, Agains
  <2>3. QED
    BY <2>1, <2>2 DEF Leaves, Memory
<1>3. CASE s.at = "breaking" /\ s.rec.status # "done"
  <2>1. AfterSave(s) = Tail(s) /\ s.rec.steer = {}
    BY <1>3 DEF AfterSave, Sane
  <2>2. Leaves(s, Tail(s))
    BY <1>1, <1>3, Tails
  <2>3. QED
    BY <2>1, <2>2 DEF Leaves, Memory
<1>4. CASE s.at = "breaking" /\ s.rec.status = "done"
  <2>1. AfterSave(s) = Off
    BY <1>4 DEF AfterSave, Tail, Keep
  <2>2. QED
    BY <1>4, <2>1
<1>5. CASE s.at = "pausing"
  <2>1. AfterSave(s) = Keep(s) /\ s.rec.steer = {} /\ s.rec.status # "done"
    BY <1>5 DEF AfterSave, Sane
  <2>2. QED
    BY <1>1, <1>5, <2>1, Keeps
<1>6. CASE s.at = "keeping"
  <2>1. AfterSave(s) = Off
    BY <1>6 DEF AfterSave
  <2>2. QED
    BY <1>6, <2>1
<1>7. QED
  BY <1>2, <1>3, <1>4, <1>5, <1>6 DEF Writes
-----------------------------------------------------------------------------
\* The fates of the notes under a step of the loop.

LEMMA MarkedIs ==
  ASSUME races \in [Notes -> Races],
         NEW ns,
         NEW how \in {"late", "reload", "unsaved", "switched", "dropped", "rolledback"}
  PROVE  /\ Marked(ns, how) \in [Notes -> Races]
         /\ \A n \in Notes : races[n] # "none" \/ n \in ns => Marked(ns, how)[n] # "none"
BY DEF Marked, Races

\* A step of the loop that keeps its notes, or ends with none that is not in the file.
LEMMA LoopKeeps ==
  ASSUME IInv, run # Off, NEW t, Goes(t),
         t = Off \/ (Sane(t) /\ t # Off),
         Memory(t) \subseteq accepted,
         t # Off /\ (t.at = "keeping" \/ t.rec.status = "done")
           => \A n \in t.steer : races'[n] # "none",
         stored' \in Records \cup {NoGoal}, InRecord(stored') \subseteq accepted,
         sent' \subseteq accepted, UNCHANGED accepted,
         \A n \in sent : n \in sent' \/ races'[n] # "none",
         races' \in [Notes -> Races],
         \A n \in accepted : races[n] # "none" => races'[n] # "none",
         \A n \in Memory(run) : n \in sent' \/ n \in Memory(t) \/ races'[n] # "none"
                                  \/ (t = Off /\ n \in InRecord(stored'))
  PROVE  IInv'
<1>1. reading = NotReading /\ reading' = NotReading /\ reading' \notin Records
  BY RecordAssumption DEF IInv, ReadOK, Goes
<1>2. (run = Off \/ Sane(run))'
  BY DEF Goes, Sane, Within, Runs
<1>3. Types'
  BY <1>1 DEF IInv, Types, Goes
<1>4. ReadOK'
  BY <1>1 DEF ReadOK
<1>5. Known'
  BY <1>1 DEF IInv, Known, BeingRead, Goes, Memory, InRecord
<1>6. \A n \in accepted : n \in sent \cup Memory(run) \/ Raced(n)
  BY DEF IInv, Kept
<1>7. Kept'
  BY <1>1, <1>6 DEF Kept, Goes, Memory, InRecord, Raced
<1>8. LateMarked'
  BY DEF LateMarked, Goes, Raced
<1>9. QED
  BY <1>2, <1>3, <1>4, <1>5, <1>7, <1>8 DEF IInv

LEMMA Starts == Init => IInv
<1> SUFFICES ASSUME Init PROVE IInv
  OBVIOUS
<1>1. Types
  BY DEF Init, Types, Races
<1>2. ReadOK /\ Known /\ Kept /\ LateMarked
  BY RecordAssumption DEF Init, ReadOK, Known, Kept, LateMarked, Memory, InRecord, BeingRead
<1>3. QED
  BY <1>1, <1>2 DEF Init, IInv

\* What is written is in the file, or the file is as it was.
LEMMA SaveLandsKeeps == ASSUME IInv, SaveLands PROVE IInv'
<1> DEFINE t == AfterSave(run)
<1>1. run # Off /\ Sane(run) /\ run.at \in Writes
  BY DEF SaveLands, Writing, IInv, Writes
<1>2. /\ t = Off \/ (Sane(t) /\ t # Off)
      /\ t # Off => Memory(t) = run.steer \cup run.rec.steer
      /\ t # Off /\ (t.at = "keeping" \/ t.rec.status = "done") => t.steer = {}
      /\ t = Off => run.steer = {} \/ run.at = "keeping" \/ run.rec.status = "done"
  BY <1>1, SavesLeave
<1>3. Goes(t) /\ stored' = run.rec /\ UNCHANGED <<accepted, sent, races>>
  BY <1>1 DEF SaveLands, Sane
<1> HIDE DEF t
<1>4. run.rec \in Records
  BY <1>1 DEF Sane, Runs
<1>5. InRecord(stored') = run.rec.steer
  BY <1>3, <1>4, RecordAssumption DEF InRecord
<1>6. /\ Memory(run) = run.steer \cup run.rec.steer /\ Memory(run) \subseteq accepted
      /\ sent \subseteq accepted
  BY <1>1 DEF Memory, IInv, Known
<1>7. Memory(t) \subseteq accepted
  BY <1>2, <1>6 DEF Memory
<1>8. t = Off => \A n \in run.steer : Raced(n)
  BY <1>1, <1>2 DEF IInv, LateMarked
<1>9. \A n \in Memory(run) :
        n \in sent' \/ n \in Memory(t) \/ races'[n] # "none" \/ (t = Off /\ n \in InRecord(stored'))
  BY <1>2, <1>3, <1>5, <1>6, <1>8 DEF Raced
<1>10. races' \in [Notes -> Races]
  BY <1>3 DEF IInv, Types
<1>11. QED
  BY <1>1, <1>2, <1>3, <1>4, <1>5, <1>6, <1>7, <1>9, <1>10, LoopKeeps

\* A loop that ends with a write that failed loses what the file has not.
LEMMA SaveFailsKeeps == ASSUME IInv, SaveFails PROVE IInv'
<1> DEFINE s == [run EXCEPT !.stop = TRUE]
<1> DEFINE t == IF run.at = "opening" THEN Off ELSE AfterSave(s)
<1>1. run # Off /\ Sane(run) /\ run.at \in Writes
  BY DEF SaveFails, Writing, IInv, Writes
<1>2. /\ s \in Runs /\ s.at = run.at /\ s.rec = run.rec /\ s.writing = run.writing
      /\ s.steer = run.steer /\ s.errors = run.errors /\ s.still = run.still
      /\ s.verifying = run.verifying
  BY <1>1 DEF Sane, Runs
<1>3. /\ Goes(t) /\ UNCHANGED <<stored, accepted, sent>>
      /\ races' = IF t = Off THEN Marked(InMemory \ InRecord(stored), "unsaved") ELSE races
  BY DEF SaveFails
<1>4. t = IF run.at = "opening" THEN Off ELSE AfterSave(s)
  OBVIOUS
<1> HIDE DEF s, t
<1>5. Sane(s) /\ s.at \in Writes
  BY <1>1, <1>2 DEF Sane, Within
<1>6. /\ t = Off \/ (Sane(t) /\ t # Off)
      /\ t # Off => Memory(t) = run.steer \cup run.rec.steer
      /\ t # Off /\ (t.at = "keeping" \/ t.rec.status = "done") => t.steer = {}
  BY <1>2, <1>4, <1>5, SavesLeave
<1>7. InMemory = Memory(run) /\ Memory(run) = run.steer \cup run.rec.steer
  BY <1>1 DEF InMemory, Memory
<1>8. /\ Memory(run) \subseteq accepted /\ sent \subseteq accepted /\ accepted \subseteq Notes
      /\ stored \in Records \cup {NoGoal} /\ InRecord(stored) \subseteq accepted
      /\ races \in [Notes -> Races]
  BY DEF IInv, Known, Types
<1>9. /\ races' \in [Notes -> Races]
      /\ \A n \in accepted : races[n] # "none" => races'[n] # "none"
      /\ t = Off => \A n \in Memory(run) : n \in InRecord(stored) \/ races'[n] # "none"
  BY <1>3, <1>7, <1>8, MarkedIs
<1>10. Memory(t) \subseteq accepted
  BY <1>6, <1>7, <1>8 DEF Memory
<1>11. InRecord(stored') = InRecord(stored)
  BY <1>3
<1>12. \A n \in Memory(run) :
        n \in sent' \/ n \in Memory(t) \/ races'[n] # "none" \/ (t = Off /\ n \in InRecord(stored'))
  BY <1>6, <1>7, <1>9, <1>11
<1>13. QED
  BY <1>1, <1>3, <1>6, <1>8, <1>9, <1>10, <1>11, <1>12, LoopKeeps

\* A step that leaves the file, the messages and the marks alone and keeps the notes.
LEMMA QuietStepKeeps ==
  ASSUME IInv, run # Off, run.at \in Going, NEW t, Goes(t), Leaves(run, t),
         UNCHANGED <<stored, accepted, sent, races>>
  PROVE  IInv'
<1>1. Memory(run) = run.steer /\ Sane(run)
  BY DEF Memory, IInv, Sane, Going
<1>2. /\ Memory(run) \subseteq accepted /\ sent \subseteq accepted
      /\ stored \in Records \cup {NoGoal} /\ InRecord(stored) \subseteq accepted
      /\ races \in [Notes -> Races]
  BY DEF IInv, Known, Types
<1>3. InRecord(stored') = InRecord(stored)
  OBVIOUS
<1>4. QED
  BY <1>1, <1>2, <1>3, LoopKeeps DEF Leaves

LEMMA PromptKeeps == ASSUME IInv, Prompt PROVE IInv'
<1> DEFINE n == IF run.verifying THEN run.rec.turns ELSE run.rec.turns + 1
<1> DEFINE rec == [run.rec EXCEPT !.turns = n]
<1> DEFINE t == [run EXCEPT !.at = "turn", !.steer = {}, !.prompted = run.steer,
                            !.rec.turns = IF run.verifying THEN @ ELSE @ + 1]
<1>1. /\ run # Off /\ run.at = "waiting" /\ Sane(run) /\ run \in Runs /\ run.rec.steer = {}
      /\ Within(run)
  BY DEF Prompt, IInv, Sane, Going
<1>2. /\ run.rec \in Records /\ run.rec.turns \in 0..TurnBound /\ run.rec.maxTurns \in 1..TurnBound
      /\ run.rec.turns <= run.rec.maxTurns
      /\ ~run.verifying => run.rec.turns < run.rec.maxTurns
  BY <1>1 DEF Sane, Runs, Records
<1>3. n \in 0..TurnBound /\ n <= run.rec.maxTurns /\ (~run.verifying => n > 0)
  BY <1>2, Limits
<1>4. t = [run EXCEPT !.at = "turn", !.steer = {}, !.prompted = run.steer, !.rec = rec]
  BY <1>1, <1>2 DEF Runs, Records
<1>5. Goes(t) /\ sent' = sent \cup run.steer /\ UNCHANGED <<stored, accepted, races>>
  BY DEF Prompt
<1> HIDE DEF n, t
<1>6. /\ rec \in Records /\ rec.turns = n /\ rec.maxTurns = run.rec.maxTurns
      /\ rec.status = run.rec.status /\ rec.steer = {}
  BY <1>1, <1>2, <1>3 DEF Records
<1> HIDE DEF rec
<1>7. /\ t \in Runs /\ t.at = "turn" /\ t.steer = {} /\ t.rec = rec /\ t.errors = run.errors
      /\ t.still = run.still /\ t.verifying = run.verifying
  BY <1>1, <1>4, <1>6 DEF Runs, Places
<1>8. t # Off
  BY <1>7, OffIsNone
<1>9. Sane(t)
  BY <1>1, <1>3, <1>6, <1>7 DEF Sane, Within, Writes
<1>10. Memory(t) = {} /\ Memory(run) = run.steer
  BY <1>1, <1>6, <1>7, <1>8 DEF Memory
<1>11. /\ Memory(run) \subseteq accepted /\ sent \subseteq accepted
       /\ stored \in Records \cup {NoGoal} /\ InRecord(stored) \subseteq accepted
       /\ races \in [Notes -> Races]
  BY DEF IInv, Known, Types
<1>12. InRecord(stored') = InRecord(stored)
  BY <1>5
<1>13. t.rec.status # "done" /\ t.at # "keeping"
  BY <1>1, <1>6, <1>7 DEF Within
<1>14. QED
  BY <1>1, <1>5, <1>8, <1>9, <1>10, <1>11, <1>12, <1>13, LoopKeeps

LEMMA PromptElsewhereKeeps == ASSUME IInv, PromptElsewhere PROVE IInv'
<1> DEFINE n == IF run.verifying THEN run.rec.turns ELSE run.rec.turns + 1
<1> DEFINE rec == [run.rec EXCEPT !.turns = n]
<1> DEFINE s == [run EXCEPT !.steer = {}, !.rec.turns = IF run.verifying THEN @ ELSE @ + 1]
<1> DEFINE t == AfterTurn(s, "stopped", FALSE)
<1>1. /\ run # Off /\ run.at = "waiting" /\ Sane(run) /\ run \in Runs /\ run.rec.steer = {}
      /\ Within(run)
  BY DEF PromptElsewhere, IInv, Sane, Going
<1>2. /\ run.rec \in Records /\ run.rec.turns \in 0..TurnBound /\ run.rec.maxTurns \in 1..TurnBound
      /\ run.rec.turns <= run.rec.maxTurns
      /\ ~run.verifying => run.rec.turns < run.rec.maxTurns
  BY <1>1 DEF Sane, Runs, Records
<1>3. n \in 0..TurnBound /\ n <= run.rec.maxTurns /\ (~run.verifying => n > 0)
  BY <1>2, Limits
<1>4. s = [run EXCEPT !.steer = {}, !.rec = rec]
  BY <1>1, <1>2 DEF Runs, Records
<1>5. Goes(t) /\ races' = Marked(run.steer, "switched") /\ UNCHANGED <<stored, accepted, sent>>
  BY DEF PromptElsewhere
<1> HIDE DEF n, s
<1>6. /\ rec \in Records /\ rec.turns = n /\ rec.maxTurns = run.rec.maxTurns
      /\ rec.status = run.rec.status /\ rec.steer = {}
  BY <1>1, <1>2, <1>3 DEF Records
<1> HIDE DEF rec
<1>7. /\ s \in Runs /\ s.steer = {} /\ s.rec = rec /\ s.errors = run.errors
      /\ s.still = run.still /\ s.verifying = run.verifying
  BY <1>1, <1>4, <1>6 DEF Runs, Places
<1>8. Base(s) /\ Within(s) /\ (~s.verifying => s.rec.turns > 0)
  BY <1>1, <1>3, <1>6, <1>7 DEF Base, Within
<1>9. Leaves(s, t)
  BY <1>8, TurnsLeave
<1> HIDE DEF t
<1>10. /\ t = Off \/ (Sane(t) /\ t # Off)
       /\ Memory(t) = {} /\ Memory(run) = run.steer
       /\ t # Off /\ (t.at = "keeping" \/ t.rec.status = "done") => t.steer = {}
  BY <1>1, <1>7, <1>9 DEF Leaves, Memory
<1>11. /\ Memory(run) \subseteq accepted /\ sent \subseteq accepted /\ accepted \subseteq Notes
       /\ stored \in Records \cup {NoGoal} /\ InRecord(stored) \subseteq accepted
       /\ races \in [Notes -> Races]
  BY DEF IInv, Known, Types
<1>12. InRecord(stored') = InRecord(stored)
  BY <1>5
<1>13. /\ races' \in [Notes -> Races]
       /\ \A m \in accepted : races[m] # "none" => races'[m] # "none"
       /\ \A m \in Memory(run) : races'[m] # "none"
  BY <1>5, <1>10, <1>11, MarkedIs
<1>14. QED
  BY <1>1, <1>5, <1>10, <1>11, <1>12, <1>13, LoopKeeps

\* A turn that ends leaves its notes in the chat, or its prompt was taken out and they are marked.
LEMMA TurnEndsKeeps == ASSUME IInv, TurnEnds PROVE IInv'
<1> DEFINE s == [run EXCEPT !.prompted = {}]
<1>1. /\ run # Off /\ run.at = "turn" /\ Sane(run) /\ run \in Runs /\ run.rec.steer = {}
      /\ Within(run) /\ (~run.verifying => run.rec.turns > 0)
  BY DEF TurnEnds, IInv, Sane, Going
<1>2. /\ s \in Runs /\ s.rec = run.rec /\ s.steer = run.steer /\ s.errors = run.errors
      /\ s.still = run.still /\ s.verifying = run.verifying /\ s.stop = run.stop
  BY <1>1 DEF Runs
<1>3. UNCHANGED <<stored, accepted>>
  BY DEF TurnEnds
<1>4. PICK signal \in {"stopped", "error", "blocked", "complete", "running"}, same \in BOOLEAN,
           gone \in {{}, run.prompted} :
        /\ sent' = sent \ gone /\ races' = Marked(gone, "rolledback")
        /\ Goes(AfterTurn(s, signal, same))
  BY DEF TurnEnds
<1> DEFINE t == AfterTurn(s, signal, same)
<1> HIDE DEF s
<1>5. Base(s) /\ Within(s) /\ (~s.verifying => s.rec.turns > 0)
  BY <1>1, <1>2 DEF Base, Sane, Within
<1>6. Leaves(s, t) /\ Goes(t)
  BY <1>4, <1>5, TurnsLeave
<1> HIDE DEF t
<1>7. /\ t = Off \/ (Sane(t) /\ t # Off)
      /\ Memory(t) = run.steer /\ Memory(run) = run.steer
      /\ t # Off /\ (t.at = "keeping" \/ t.rec.status = "done") => t.steer = {}
  BY <1>1, <1>2, <1>6 DEF Leaves, Memory
<1>8. /\ Memory(run) \subseteq accepted /\ sent \subseteq accepted /\ accepted \subseteq Notes
      /\ stored \in Records \cup {NoGoal} /\ InRecord(stored) \subseteq accepted
      /\ races \in [Notes -> Races]
  BY DEF IInv, Known, Types
<1>9. InRecord(stored') = InRecord(stored)
  BY <1>3
<1>10. /\ races' \in [Notes -> Races]
       /\ \A m \in Notes : races[m] # "none" \/ m \in gone => races'[m] # "none"
  BY <1>4, <1>8, MarkedIs
<1>11. /\ \A m \in accepted : races[m] # "none" => races'[m] # "none"
       /\ \A m \in sent : m \in sent' \/ races'[m] # "none"
       /\ sent' \subseteq accepted
  BY <1>4, <1>8, <1>10
<1>12. QED
  BY <1>1, <1>3, <1>6, <1>7, <1>8, <1>9, <1>10, <1>11, LoopKeeps

\* The other steps of the loop.
LEMMA QuietStepsKeep == ASSUME IInv, NeverQuiet \/ Wakes PROVE IInv'
<1>1. run # Off /\ run.at \in Going => Base(run) /\ Within(run)
  BY DEF IInv, Sane, Base, Going
<1>2. ASSUME NeverQuiet PROVE IInv'
  <2>1. /\ run # Off /\ run.at \in Going /\ Goes(Save(run, "paused", "breaking"))
        /\ UNCHANGED <<stored, accepted, sent, races>>
    BY <1>2 DEF NeverQuiet, Going
  <2>2. Leaves(run, Save(run, "paused", "breaking"))
    BY <1>1, <2>1, Breaks DEF Leaves, Statuses
  <2>3. QED
    BY <2>1, <2>2, QuietStepKeeps
<1>3. ASSUME Wakes PROVE IInv'
  <2>1. /\ run # Off /\ run.at \in Going /\ Goes(Again(run))
        /\ UNCHANGED <<stored, accepted, sent, races>>
    BY <1>3 DEF Wakes, Going
  <2>2. Leaves(run, Again(run))
    BY <1>1, <2>1, Agains
  <2>3. QED
    BY <2>1, <2>2, QuietStepKeeps
<1>4. QED
  BY <1>2, <1>3
-----------------------------------------------------------------------------
\* What a run begins with.
LEMMA Begins ==
  ASSUME NEW rec \in Records, rec.turns <= rec.maxTurns
  PROVE  LET t == Begin(rec) IN
         /\ Sane(t) /\ t # Off /\ Memory(t) = rec.steer
         /\ t.at = "opening" /\ t.rec.status = "active"
<1> DEFINE clear == [rec EXCEPT !.steer = {}]
<1> DEFINE s == [at |-> "opening", rec |-> clear, writing |-> rec, stop |-> FALSE,
                 steer |-> rec.steer, prompted |-> {}, errors |-> 0, still |-> 0,
                 verifying |-> FALSE]
<1> DEFINE t == Save(s, "active", "opening")
<1>1. /\ clear \in Records /\ clear.steer = {} /\ clear.turns = rec.turns
      /\ clear.maxTurns = rec.maxTurns /\ rec.steer \in SUBSET Notes
  BY DEF Records
<1>2. t = Begin(rec)
  BY DEF Begin
<1> HIDE DEF clear
<1>3. /\ s \in Runs /\ s.rec = clear /\ s.steer = rec.steer /\ s.errors = 0 /\ s.still = 0
      /\ s.verifying = FALSE
  BY <1>1, Limits DEF Runs, Places
<1> HIDE DEF s
<1>4. /\ t \in Runs /\ t.at = "opening" /\ t.writing = t.rec /\ t.rec.status = "active"
      /\ t.rec.turns = s.rec.turns /\ t.rec.maxTurns = s.rec.maxTurns
      /\ t.rec.steer = s.rec.steer /\ t.steer = s.steer
      /\ t.errors = s.errors /\ t.still = s.still /\ t.verifying = s.verifying
  <2>1. s \in Runs /\ "active" \in Statuses /\ "opening" \in Places
    BY <1>3 DEF Statuses, Places
  <2>2. QED
    BY <2>1, SaveIs
<1> HIDE DEF t
<1>5. t # Off
  BY <1>4, OffIsNone
<1>6. Sane(t)
  BY <1>1, <1>3, <1>4, Limits DEF Sane, Within
<1>7. Memory(t) = rec.steer
  BY <1>1, <1>3, <1>4, <1>5 DEF Memory
<1>8. QED
  BY <1>2, <1>4, <1>5, <1>6, <1>7

LEMMA StartKeeps == ASSUME IInv, Start PROVE IInv'
<1> DEFINE t == Begin(NewGoal)
<1>1. NewGoal \in Records /\ NewGoal.turns <= NewGoal.maxTurns /\ NewGoal.steer = {}
  BY Limits DEF NewGoal, Records, Statuses
<1>2. Sane(t) /\ t # Off /\ Memory(t) = {} /\ t.at = "opening" /\ t.rec.status = "active"
  BY <1>1, Begins
<1>3. /\ ~aiJob /\ run' = t /\ aiJob' = TRUE /\ current' = TRUE
      /\ races' = Marked(InRecord(stored), "dropped")
      /\ UNCHANGED <<reading, clearing, stored, accepted, sent>>
  BY DEF Start
<1> HIDE DEF t
<1>4. run = Off /\ reading = NotReading /\ reading \notin Records
  BY <1>3, RecordAssumption DEF IInv, Types
<1>5. /\ races' \in [Notes -> Races]
      /\ \A n \in Notes : races[n] # "none" \/ n \in InRecord(stored) => races'[n] # "none"
  BY <1>3, MarkedIs DEF IInv, Types
<1>6. (run = Off \/ Sane(run))'
  BY <1>2, <1>3 DEF Sane, Within
<1>7. Types' /\ ReadOK'
  BY <1>2, <1>3, <1>4, <1>5 DEF IInv, Types, ReadOK
<1>8. Known'
  BY <1>2, <1>3, <1>4 DEF IInv, Known, BeingRead, Memory, InRecord
<1>9. Kept'
  BY <1>2, <1>3, <1>4, <1>5 DEF IInv, Known, Kept, Raced, Memory
<1>10. LateMarked'
  BY <1>2, <1>3 DEF LateMarked
<1>11. QED
  BY <1>6, <1>7, <1>8, <1>9, <1>10 DEF IInv

LEMMA ResumeKeeps == ASSUME IInv, Resume PROVE IInv'
<1>1. /\ ~aiJob /\ aiJob' = TRUE /\ reading' = stored /\ current' = TRUE
      /\ stored # NoGoal => stored.turns + DEFAULT_MAX_TURNS <= TurnBound
      /\ UNCHANGED <<run, clearing, stored, accepted, sent, races>>
  BY DEF Resume
<1>2. run = Off /\ reading = NotReading
  BY <1>1 DEF IInv, Types
<1>3. Types' /\ ReadOK'
  BY <1>1, <1>2, RecordAssumption DEF IInv, Types, ReadOK
<1>4. Known'
  BY <1>1, <1>2, RecordAssumption DEF IInv, Known, BeingRead, Memory, InRecord
<1>5. Kept'
  BY <1>1, <1>2, RecordAssumption DEF IInv, Kept, Raced, InRecord
<1>6. LateMarked' /\ (run = Off \/ Sane(run))'
  BY <1>1, <1>2 DEF LateMarked
<1>7. QED
  BY <1>3, <1>4, <1>5, <1>6 DEF IInv

LEMMA ResumedKeeps == ASSUME IInv, Resumed PROVE IInv'
<1>1. /\ reading # NotReading /\ reading' = NotReading /\ run = Off /\ reading' \notin Records
      /\ UNCHANGED <<clearing, stored, current, accepted, sent, races>>
  BY RecordAssumption DEF Resumed, IInv, ReadOK
<1>2. CASE reading = NoGoal \/ reading.status = "done"
  <2>1. aiJob' = FALSE /\ run' = Off
    BY <1>1, <1>2 DEF Resumed
  <2>2. Types' /\ ReadOK'
    BY <1>1, <2>1 DEF IInv, Types, ReadOK
  <2>3. Known' /\ Kept' /\ LateMarked'
    BY <1>1, <2>1 DEF IInv, Known, BeingRead, Memory, InRecord, Kept, Raced, LateMarked
  <2>4. QED
    BY <2>1, <2>2, <2>3 DEF IInv
<1>3. CASE ~(reading = NoGoal \/ reading.status = "done")
  <2> DEFINE m == MaxOf(reading.maxTurns, reading.turns + DEFAULT_MAX_TURNS)
  <2> DEFINE r == [reading EXCEPT !.maxTurns = m]
  <2> DEFINE t == Begin(r)
  <2>1. reading \in Records /\ reading.turns + DEFAULT_MAX_TURNS <= TurnBound
    BY <1>1, <1>3 DEF IInv, Types, ReadOK
  <2>2. /\ reading.turns \in 0..TurnBound /\ reading.maxTurns \in 1..TurnBound
    BY <2>1 DEF Records
  <2>3. m \in 1..TurnBound /\ reading.turns <= m
    BY <2>1, <2>2, Limits DEF MaxOf
  <2>4. run' = t /\ UNCHANGED aiJob
    BY <1>1, <1>3 DEF Resumed
  <2> HIDE DEF m
  <2>5. /\ r \in Records /\ r.turns = reading.turns /\ r.maxTurns = m /\ r.steer = reading.steer
    BY <2>1, <2>3 DEF Records
  <2> HIDE DEF r
  <2>6. /\ Sane(t) /\ t # Off /\ Memory(t) = reading.steer
        /\ t.at = "opening" /\ t.rec.status = "active"
    BY <2>3, <2>5, Begins
  <2> HIDE DEF t
  <2>7. (run = Off \/ Sane(run))'
    BY <2>4, <2>6 DEF Sane, Within
  <2>8. Types' /\ ReadOK'
    BY <1>1, <2>4, <2>6 DEF IInv, Types, ReadOK
  <2>9. Known'
    BY <1>1, <2>1, <2>4, <2>6 DEF IInv, Known, BeingRead, Memory, InRecord
  <2>10. Kept'
    BY <1>1, <2>1, <2>4, <2>6 DEF IInv, Kept, Raced, Memory
  <2>11. LateMarked'
    BY <2>4, <2>6 DEF LateMarked
  <2>12. QED
    BY <2>7, <2>8, <2>9, <2>10, <2>11 DEF IInv
<1>4. QED
  BY <1>2, <1>3
-----------------------------------------------------------------------------
\* A stop ends the wait for a quiet chat; elsewhere it is seen at the next look.
LEMMA StopKeeps == ASSUME IInv, Stop PROVE IInv'
<1> DEFINE s == [run EXCEPT !.stop = TRUE]
<1>1. run # Off /\ Sane(run) /\ run \in Runs
  BY DEF Stop, IInv, Sane
<1>2. /\ s \in Runs /\ s.at = run.at /\ s.rec = run.rec /\ s.writing = run.writing
      /\ s.steer = run.steer /\ s.errors = run.errors /\ s.still = run.still
      /\ s.verifying = run.verifying
  BY <1>1 DEF Runs
<1>3. Goes(IF s.at = "waiting" THEN Tail(s) ELSE s) /\ UNCHANGED <<stored, accepted, sent, races>>
  BY DEF Stop
<1> HIDE DEF s
<1>4. CASE run.at = "waiting"
  <2>1. Base(s) /\ s.rec.status # "done" /\ run.at \in Going
    BY <1>1, <1>2, <1>4 DEF Sane, Base, Going, Within
  <2>2. Leaves(s, Tail(s))
    BY <2>1, Tails
  <2>3. Leaves(run, Tail(s)) /\ Goes(Tail(s))
    BY <1>2, <1>3, <1>4, <2>2 DEF Leaves
  <2>4. QED
    BY <1>1, <1>3, <2>1, <2>3, QuietStepKeeps
<1>5. CASE run.at # "waiting"
  <2>1. Goes(s) /\ s # Off
    BY <1>2, <1>3, <1>5, OffIsNone
  <2>2. Sane(s)
    BY <1>1, <1>2 DEF Sane, Within
  <2>3. Memory(s) = Memory(run)
    BY <1>1, <1>2, <2>1 DEF Memory
  <2>4. /\ Memory(run) \subseteq accepted /\ sent \subseteq accepted
        /\ stored \in Records \cup {NoGoal} /\ InRecord(stored) \subseteq accepted
        /\ races \in [Notes -> Races]
    BY DEF IInv, Known, Types
  <2>5. InRecord(stored') = InRecord(stored)
    BY <1>3
  <2>6. s.at = "keeping" \/ s.rec.status = "done" => \A n \in s.steer : races'[n] # "none"
    BY <1>1, <1>2, <1>3 DEF IInv, LateMarked, Raced
  <2>7. QED
    BY <1>1, <1>3, <2>1, <2>2, <2>3, <2>4, <2>5, <2>6, LoopKeeps
<1>6. QED
  BY <1>4, <1>5

\* A new note joins the loop, marked when the last look at the notes is over.
LEMMA SteerKeeps == ASSUME IInv, NEW n \in Notes, Steer(n) PROVE IInv'
<1>1. /\ aiJob /\ n \notin accepted /\ accepted' = accepted \cup {n}
      /\ UNCHANGED <<aiJob, reading, clearing, stored, current, sent>>
  BY DEF Steer
<1>2. InRecord(stored') = InRecord(stored) /\ BeingRead' = BeingRead
  BY <1>1 DEF BeingRead
<1>3. /\ accepted \subseteq Notes
      /\ sent \cup Memory(run) \cup InRecord(stored) \cup BeingRead \subseteq accepted
      /\ races \in [Notes -> Races]
  BY DEF IInv, Known, Types
<1>4. CASE run = Off
  <2>1. run' = Off /\ races' = [races EXCEPT ![n] = "late"]
    BY <1>4 DEF Steer
  <2>2. /\ races' \in [Notes -> Races]
        /\ Raced(n)' /\ \A m \in accepted : Raced(m) => Raced(m)'
    BY <1>3, <2>1 DEF Raced, Races
  <2>3. Types' /\ ReadOK'
    BY <1>1, <1>4, <2>1, <2>2 DEF IInv, Types, ReadOK
  <2>4. Known'
    BY <1>1, <1>2, <1>3, <2>1 DEF Known, Memory
  <2>5. Kept'
    BY <1>1, <1>2, <1>4, <2>1, <2>2 DEF IInv, Kept
  <2>6. QED
    BY <2>1, <2>3, <2>4, <2>5 DEF IInv, LateMarked
<1>5. CASE run # Off
  <2> DEFINE t == [run EXCEPT !.steer = @ \cup {n}]
  <2>1. Sane(run) /\ run \in Runs /\ run.steer \in SUBSET Notes
    BY <1>5 DEF IInv, Sane, Runs
  <2>2. run' = t /\ races' = IF TooLate THEN [races EXCEPT ![n] = "late"] ELSE races
    BY <1>5 DEF Steer
  <2>3. /\ t \in Runs /\ t.at = run.at /\ t.rec = run.rec /\ t.writing = run.writing
        /\ t.steer = run.steer \cup {n} /\ t.errors = run.errors /\ t.still = run.still
        /\ t.verifying = run.verifying
    BY <2>1 DEF Runs
  <2> HIDE DEF t
  <2>4. t # Off
    BY <2>3, OffIsNone
  <2>5. Memory(run) = run.steer \cup run.rec.steer /\ Memory(t) = Memory(run) \cup {n}
    BY <1>5, <2>3, <2>4 DEF Memory
  <2>6. n \notin run.rec.steer
    BY <1>1, <1>3, <2>5
  <2>7. Sane(t)
    BY <2>1, <2>3, <2>6 DEF Sane, Within
  <2>8. /\ races' \in [Notes -> Races]
        /\ \A m \in accepted : Raced(m) => Raced(m)'
        /\ TooLate => Raced(n)'
    BY <1>3, <2>2 DEF Raced, Races
  <2>9. Types' /\ ReadOK'
    BY <1>1, <1>5, <2>2, <2>4, <2>8 DEF IInv, Types, ReadOK
  <2>10. Known'
    BY <1>1, <1>2, <1>3, <2>2, <2>5 DEF Known
  <2>11. Kept'
    BY <1>1, <1>2, <1>5, <2>2, <2>4, <2>5, <2>8, <2>9, RecordAssumption DEF IInv, Kept, ReadOK
  <2>12. run.at = "keeping" \/ run.rec.status = "done" => TooLate
    <3>1. run.rec.status = "done" => run.at = "breaking"
      BY <2>1, <2>3 DEF Sane, Runs, Places, Going, Within
    <3>2. QED
      BY <3>1 DEF TooLate
  <2>13. LateMarked'
    BY <1>3, <1>5, <2>2, <2>3, <2>5, <2>8, <2>12 DEF IInv, LateMarked
  <2>14. QED
    BY <2>2, <2>7, <2>9, <2>10, <2>11, <2>13 DEF IInv, Sane, Within
<1>6. QED
  BY <1>4, <1>5

\* A clear takes its notes along, and the loop of a goal that began meanwhile keeps its own.
LEMMA ClearsKeep == ASSUME IInv, Clear \/ Cleared \/ ClearFails PROVE IInv'
<1>1. UNCHANGED <<run, aiJob, reading, current, accepted, sent>> /\ clearing' \in BOOLEAN
  BY DEF Clear, Cleared, ClearFails
<1>2. \/ UNCHANGED <<stored, races>>
      \/ stored' = NoGoal /\ races' = Marked(InRecord(stored), "dropped")
  BY DEF Clear, Cleared, ClearFails
<1>3. /\ races' \in [Notes -> Races]
      /\ \A n \in Notes : Raced(n) => Raced(n)'
      /\ \A n \in Notes : n \in InRecord(stored) => n \in InRecord(stored)' \/ Raced(n)'
  BY <1>2, MarkedIs DEF IInv, Types, Raced
<1>4. stored' \in Records \cup {NoGoal} /\ InRecord(stored)' \subseteq InRecord(stored)
  BY <1>2 DEF IInv, Types, InRecord
<1>5. Types' /\ ReadOK'
  BY <1>1, <1>3, <1>4 DEF IInv, Types, ReadOK
<1>6. Known'
  BY <1>1, <1>4 DEF IInv, Known, BeingRead
<1>7. Kept'
  BY <1>1, <1>3 DEF IInv, Known, Kept
<1>8. LateMarked'
  BY <1>1, <1>3 DEF IInv, Known, LateMarked, Memory
<1>9. (run = Off \/ Sane(run))'
  BY <1>1 DEF IInv, Sane, Within
<1>10. QED
  BY <1>5, <1>6, <1>7, <1>8, <1>9 DEF IInv

\* Another project takes the file and, in the end, what the loop has.
LEMMA ProjectReplacedKeeps == ASSUME IInv, ProjectReplaced PROVE IInv'
<1>1. /\ current' = FALSE /\ stored' = NoGoal /\ clearing' = FALSE
      /\ races' = Marked(InRecord(stored) \cup InMemory, "dropped")
      /\ UNCHANGED <<run, aiJob, reading, accepted, sent>>
  BY DEF ProjectReplaced
<1>2. InMemory = Memory(run)
  BY DEF InMemory, Memory
<1>3. /\ races' \in [Notes -> Races]
      /\ \A n \in Notes : Raced(n) \/ n \in InRecord(stored) \cup Memory(run) => Raced(n)'
  BY <1>1, <1>2, MarkedIs DEF IInv, Types, Raced
<1>4. Types' /\ ReadOK'
  BY <1>1, <1>3 DEF IInv, Types, ReadOK
<1>5. Known'
  BY <1>1 DEF IInv, Known, BeingRead, InRecord
<1>6. Kept'
  BY <1>1, <1>3 DEF IInv, Known, Kept
<1>7. LateMarked'
  BY <1>1, <1>3 DEF IInv, Known, LateMarked, Memory
<1>8. (run = Off \/ Sane(run))'
  BY <1>1 DEF IInv, Sane, Within
<1>9. QED
  BY <1>4, <1>5, <1>6, <1>7, <1>8 DEF IInv

\* A reload loses what is in memory alone, and a prompt the saved history has not.
LEMMA ReloadKeeps == ASSUME IInv, Reload PROVE IInv'
<1>1. PICK lost : /\ sent' = sent \ lost
                  /\ races' = Marked((InMemory \ InRecord(stored)) \cup lost, "reload")
  BY DEF Reload
<1>2. /\ run' = Off /\ aiJob' = FALSE /\ reading' = NotReading /\ clearing' = FALSE
      /\ UNCHANGED <<stored, current, accepted>>
  BY DEF Reload
<1>3. InMemory = Memory(run) /\ NotReading \notin Records
  BY RecordAssumption DEF InMemory, Memory
<1>4. /\ races' \in [Notes -> Races]
      /\ \A n \in Notes :
           Raced(n) \/ n \in Memory(run) \ InRecord(stored) \/ n \in lost => Raced(n)'
  BY <1>1, <1>3, MarkedIs DEF IInv, Types, Raced
<1>5. Types' /\ ReadOK'
  BY <1>2, <1>3, <1>4 DEF IInv, Types, ReadOK
<1>6. Known'
  BY <1>1, <1>2, <1>3 DEF IInv, Known, BeingRead, Memory, InRecord
<1>7. Kept'
  <2>1. \A n \in accepted : n \in sent' \cup InRecord(stored') \/ Raced(n)'
    BY <1>1, <1>2, <1>4 DEF IInv, Known, Kept
  <2>2. QED
    BY <1>2, <1>3, <2>1 DEF Kept
<1>8. LateMarked'
  BY <1>2 DEF LateMarked
<1>9. QED
  BY <1>2, <1>5, <1>6, <1>7, <1>8 DEF IInv

LEMMA StepsKeep == IInv /\ [Next]_vars => IInv'
<1> SUFFICES ASSUME IInv, [Next]_vars PROVE IInv'
  OBVIOUS
<1>1. CASE UNCHANGED vars
  BY <1>1 DEF vars, IInv, Sane, Within, Types, ReadOK, Known, Memory, InRecord, BeingRead, Kept,
              Raced, LateMarked
<1>2. CASE Loop
  BY <1>2, SaveLandsKeeps, SaveFailsKeeps, PromptKeeps, PromptElsewhereKeeps,
     TurnEndsKeeps, QuietStepsKeep
     DEF Loop
<1>3. CASE Start \/ Resume \/ Resumed \/ Stop
  BY <1>3, StartKeeps, ResumeKeeps, ResumedKeeps, StopKeeps
<1>4. CASE \E n \in Notes : Steer(n)
  BY <1>4, SteerKeeps
<1>5. CASE Clear \/ Cleared \/ ClearFails
  BY <1>5, ClearsKeep
<1>6. CASE ProjectReplaced \/ Reload
  BY <1>6, ProjectReplacedKeeps, ReloadKeeps
<1>7. QED
  BY <1>1, <1>2, <1>3, <1>4, <1>5, <1>6 DEF Next
-----------------------------------------------------------------------------
\* IInv holds in every state: it names where each note is that was accepted (goal.ts
\* _loop and _begin, agent-core.ts runGoalCommand).
THEOREM NotesHaveAPlace == Spec => []IInv
<1>1. Init => IInv
  BY Starts
<1>2. IInv /\ [Next]_vars => IInv'
  BY StepsKeep
<1>3. QED
  BY <1>1, <1>2, PTL DEF Spec

LEMMA WellTyped == IInv => TypeOK
<1> SUFFICES ASSUME IInv PROVE TypeOK
  OBVIOUS
<1>1. run # Off => /\ run \in Runs /\ run.rec.turns <= run.rec.maxTurns
                   /\ run.steer \cap run.rec.steer = {}
  BY DEF IInv, Sane
<1>2. Types /\ Known
  BY DEF IInv
<1>3. QED
  BY <1>1, <1>2 DEF TypeOK, Types, Known, Runs

\* Every variable keeps its type: no goal has more turns than its limit, more errors or idle
\* turns than the limits allow, and no note is both in the loop and in its record (goal.ts _loop).
THEOREM TypeCorrect == Spec => []TypeOK
<1>1. QED
  BY NotesHaveAPlace, WellTyped, PTL

LEMMA PlacesKeepNotes == IInv => NotesKept
BY DEF IInv, Kept, NotesKept, InMemory, Memory, Raced

\* No note the user was told of as added is lost without one of the named races: not by a goal
\* that ends, is stopped, fails, is resumed or is done (goal.ts _loop and steerGoal).
THEOREM NotesAreKept == Spec => []NotesKept
<1>1. QED
  BY NotesHaveAPlace, PlacesKeepNotes, PTL

\* The goal is active and below its limits wherever the loop can still begin a turn.
LimitsHold == run # Off /\ run.at \in Going => Within(run)

\* No turn begins behind a limit: the loop goes to another turn, a write before it or the wait
\* after an error only while the goal is active and below its limits (goal.ts _loop).
THEOREM NoTurnBehindALimit == Spec => []LimitsHold
<1>1. IInv => LimitsHold
  BY DEF IInv, Sane, LimitsHold
<1>2. QED
  BY <1>1, NotesHaveAPlace, PTL
=============================================================================
