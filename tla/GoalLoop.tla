------------------------------ MODULE GoalLoop ------------------------------
(***************************************************************************)
(* A goal the agent works on turn after turn (goal.ts), in the page        *)
(* (runGoalCommand and _webGoalHost of agent-core.ts).  The loop keeps a   *)
(* record in a file of the workspace; what the user adds while it works    *)
(* is shown as added and belongs in the next prompt, or in the record when *)
(* the goal ends first.  Between two waits of the loop anything else can   *)
(* happen: Stop, a note, Clear, a reload of the page, another project.     *)
(*                                                                         *)
(* What runs between two waits is an operator on the record run.           *)
(***************************************************************************)
EXTENDS Naturals

CONSTANTS
  Notes,           \* what the user adds, each once
  DEFAULT_MAX_TURNS, NO_PROGRESS_LIMIT, MAX_ERRORS_IN_A_ROW,
  TurnBound,       \* bound: no goal is resumed that could come to more turns than this
  NoGoal,          \* no record is stored
  NotReading       \* no resume waits

ASSUME GoalAssumption ==
  /\ {DEFAULT_MAX_TURNS, NO_PROGRESS_LIMIT, MAX_ERRORS_IN_A_ROW} \subseteq Nat \ {0}
  /\ TurnBound \in Nat /\ TurnBound >= DEFAULT_MAX_TURNS

VARIABLES
  run,       \* the loop of this page, with its record and the record it is writing
  aiJob,     \* the goal holds the chat: aiJob = 'goal'
  reading,   \* a resume waits for the record it reads
  clearing,  \* a clear waits for the removal
  stored,    \* the file
  current,   \* the project is still the one the host was made in
  accepted,  \* notes the user was told of as added
  sent,      \* those that are in a prompt in the chat
  races      \* those that may be lost, with how it came to that

vars == <<run, aiJob, reading, clearing, stored, current, accepted, sent, races>>

Statuses == {"active", "paused", "done", "blocked", "cap"}
Records == [status : Statuses, turns : 0..TurnBound, maxTurns : 1..TurnBound,
            steer : SUBSET Notes]

ASSUME RecordAssumption == NoGoal \notin Records /\ NotReading \notin Records \cup {NoGoal}

Off == [at |-> "off"]
Races == {"none", "late", "reload", "unsaved", "switched", "dropped", "rolledback"}
Places == {"opening", "waiting", "turn", "sleeping", "breaking", "going", "pausing", "keeping"}

TypeOK ==
  /\ run = Off \/ run \in [at : Places, rec : Records, writing : Records, stop : BOOLEAN,
                           steer : SUBSET Notes, prompted : SUBSET Notes,
                           errors : 0..MAX_ERRORS_IN_A_ROW, still : 0..NO_PROGRESS_LIMIT,
                           verifying : BOOLEAN]
  /\ run # Off => run.rec.turns <= run.rec.maxTurns /\ run.steer \cap run.rec.steer = {}
  /\ reading \in Records \cup {NoGoal, NotReading}
  /\ aiJob <=> run # Off \/ reading # NotReading
  /\ clearing \in BOOLEAN /\ current \in BOOLEAN
  /\ stored \in Records \cup {NoGoal}
  /\ sent \subseteq accepted /\ accepted \subseteq Notes
  /\ races \in [Notes -> Races]

Init ==
  /\ run = Off /\ aiJob = FALSE /\ reading = NotReading /\ clearing = FALSE
  /\ stored = NoGoal /\ current = TRUE
  /\ accepted = {} /\ sent = {} /\ races = [n \in Notes |-> "none"]

InRecord(g) == IF g = NoGoal THEN {} ELSE g.steer
InMemory == IF run = Off THEN {} ELSE run.steer \cup run.rec.steer
Marked(ns, how) == [n \in Notes |-> IF n \in ns /\ races[n] = "none" THEN how ELSE races[n]]
-----------------------------------------------------------------------------
\* The loop, from one wait to the next.

\* _save, up to the wait for the write.
Save(s, status, next) ==
  LET rec == [s.rec EXCEPT !.status = status]
  IN [s EXCEPT !.rec = rec, !.writing = rec, !.at = next]

\* What was not delivered stays with the record.
Keep(s) ==
  IF s.steer # {} /\ s.rec.status # "done"
  THEN Save([s EXCEPT !.rec.steer = s.steer, !.steer = {}], s.rec.status, "keeping")
  ELSE Off

\* After the loop.
Tail(s) == IF s.stop /\ s.rec.status = "active" THEN Save(s, "paused", "pausing") ELSE Keep(s)

\* The head of the loop.
Again(s) ==
  IF s.stop THEN Tail(s)
  ELSE IF ~s.verifying /\ s.rec.turns >= s.rec.maxTurns THEN Save(s, "cap", "breaking")
  ELSE [s EXCEPT !.at = "waiting"]

\* _begin, and _loop up to its first wait: notes kept from an earlier run join this one.
Begin(rec) ==
  Save([at |-> "opening", rec |-> [rec EXCEPT !.steer = {}], writing |-> rec, stop |-> FALSE,
        steer |-> rec.steer, prompted |-> {}, errors |-> 0, still |-> 0, verifying |-> FALSE],
       "active", "opening")

\* Planted bug: every turn that is sent begins a new series of errors.
Bug_Errored(s) ==
  LET e == [s EXCEPT !.errors = 1, !.rec.turns = IF s.verifying THEN @ ELSE @ - 1]
  IN IF e.errors = MAX_ERRORS_IN_A_ROW THEN Save(e, "paused", "breaking")
     ELSE [e EXCEPT !.at = "sleeping"]

\* A failed request is no turn of work.
Errored(s) ==
  LET e == [s EXCEPT !.errors = @ + 1, !.rec.turns = IF s.verifying THEN @ ELSE @ - 1]
  IN IF e.errors = MAX_ERRORS_IN_A_ROW THEN Save(e, "paused", "breaking")
     ELSE [e EXCEPT !.at = "sleeping"]

\* Planted bug: a note that came while the verification ran does not matter.
Bug_Completed(s) ==
  IF s.verifying THEN Save(s, "done", "breaking")
  ELSE Save([s EXCEPT !.verifying = ~@], s.rec.status, "going")

\* Done is what a verification says that has read every note.
Completed(s) ==
  IF s.verifying /\ s.steer = {} THEN Save(s, "done", "breaking")
  ELSE Save([s EXCEPT !.verifying = ~@], s.rec.status, "going")

\* Not finished; same: nothing was edited and the same words came again.
Unfinished(s, same) ==
  LET u == [s EXCEPT !.verifying = FALSE, !.still = IF same THEN @ + 1 ELSE 0]
  IN IF u.still >= NO_PROGRESS_LIMIT THEN Save(u, "blocked", "breaking")
     ELSE Save(u, u.rec.status, "going")

\* What follows the end of a turn.
AfterTurn(s, signal, same) ==
  LET calm == [s EXCEPT !.errors = 0]
  IN IF s.stop THEN Tail(s)
     ELSE CASE signal = "stopped"  -> Save(s, "paused", "breaking")
            [] signal = "error"    -> Errored(s)
            [] signal = "blocked"  -> Save(calm, "blocked", "breaking")
            [] signal = "complete" -> Completed(calm)
            [] signal = "running"  -> Unfinished(calm, same)

\* What follows a write.
AfterSave(s) ==
  CASE s.at \in {"opening", "going"} -> Again(s)
    [] s.at = "breaking" -> Tail(s)
    [] s.at = "pausing"  -> Keep(s)
    [] s.at = "keeping"  -> Off

\* The loop goes on as s; when it ends the chat is given back.
Goes(s) == run' = s /\ aiJob' = (s # Off) /\ UNCHANGED <<reading, clearing, current>>
Writing == run # Off /\ run.at \in {"opening", "breaking", "going", "pausing", "keeping"}
-----------------------------------------------------------------------------
\* The steps of the loop.

SaveLands ==
  /\ Writing /\ current
  /\ stored' = run.writing
  /\ Goes(AfterSave(run))
  /\ UNCHANGED <<accepted, sent, races>>

\* The project is another one, or the file cannot be written: r.stop is set.  A first save
\* that fails ends the loop at once.
SaveFails ==
  /\ Writing
  /\ LET s == [run EXCEPT !.stop = TRUE]
         next == IF run.at = "opening" THEN Off ELSE AfterSave(s)
     IN /\ Goes(next)
        /\ races' = IF next = Off THEN Marked(InMemory \ InRecord(stored), "unsaved") ELSE races
  /\ UNCHANGED <<stored, accepted, sent>>

\* The chat is quiet: the prompt takes the notes along into the chat.
Prompt ==
  /\ run # Off /\ run.at = "waiting"
  /\ sent' = sent \cup run.steer
  /\ Goes([run EXCEPT !.at = "turn", !.steer = {}, !.prompted = run.steer,
                      !.rec.turns = IF run.verifying THEN @ ELSE @ + 1])
  /\ UNCHANGED <<stored, accepted, races>>

\* The reader is in another chat by now: the turn is refused, the prompt gone.
PromptElsewhere ==
  /\ run # Off /\ run.at = "waiting"
  /\ races' = Marked(run.steer, "switched")
  /\ Goes(AfterTurn([run EXCEPT !.steer = {}, !.rec.turns = IF run.verifying THEN @ ELSE @ + 1],
                    "stopped", FALSE))
  /\ UNCHANGED <<stored, accepted, sent>>

NeverQuiet ==
  /\ run # Off /\ run.at = "waiting"
  /\ Goes(Save(run, "paused", "breaking"))
  /\ UNCHANGED <<stored, accepted, sent, races>>

\* A turn that fails before the agent did anything takes its prompt out of the chat again.
\* It ends as an error, or as stopped when a soft stop was asked for as well.
TurnEnds ==
  /\ run # Off /\ run.at = "turn"
  /\ \E signal \in {"stopped", "error", "blocked", "complete", "running"}, same \in BOOLEAN,
        gone \in {{}, run.prompted} :
       /\ gone # {} => signal \in {"stopped", "error"}
       /\ sent' = sent \ gone /\ races' = Marked(gone, "rolledback")
       /\ Goes(AfterTurn([run EXCEPT !.prompted = {}], signal, same))
  /\ UNCHANGED <<stored, accepted>>

Wakes ==
  /\ run # Off /\ run.at = "sleeping"
  /\ Goes(Again(run))
  /\ UNCHANGED <<stored, accepted, sent, races>>
-----------------------------------------------------------------------------
\* What the user does, and what happens to the page.

NewGoal == [status |-> "active", turns |-> 0, maxTurns |-> DEFAULT_MAX_TURNS, steer |-> {}]

\* /goal <text>: it replaces a goal that does not run, with the notes kept for it.
Start ==
  /\ ~aiJob
  /\ run' = Begin(NewGoal) /\ aiJob' = TRUE /\ current' = TRUE
  /\ races' = Marked(InRecord(stored), "dropped")
  /\ UNCHANGED <<reading, clearing, stored, accepted, sent>>

\* /goal resume, up to its wait; the file as it is read.
Resume ==
  /\ ~aiJob
  /\ stored # NoGoal => stored.turns + DEFAULT_MAX_TURNS <= TurnBound   \* the bound
  /\ aiJob' = TRUE /\ reading' = stored /\ current' = TRUE
  /\ UNCHANGED <<run, clearing, stored, accepted, sent, races>>

MaxOf(a, b) == IF a > b THEN a ELSE b

\* A goal that was met is not resumed; any other gets a fresh allowance.
Resumed ==
  /\ reading # NotReading
  /\ reading' = NotReading
  /\ IF reading = NoGoal \/ reading.status = "done"
     THEN aiJob' = FALSE /\ UNCHANGED run
     ELSE run' = Begin([reading EXCEPT !.maxTurns = MaxOf(@, reading.turns + DEFAULT_MAX_TURNS)])
          /\ UNCHANGED aiJob
  /\ UNCHANGED <<clearing, stored, current, accepted, sent, races>>

\* stopGoal: it ends the wait for a quiet chat; nothing while a resume still reads.
Stop ==
  /\ run # Off /\ ~run.stop
  /\ LET s == [run EXCEPT !.stop = TRUE]
     IN Goes(IF s.at = "waiting" THEN Tail(s) ELSE s)
  /\ UNCHANGED <<stored, accepted, sent, races>>

\* The notes are looked at for the last time before these waits.
TooLate == run.at = "keeping" \/ (run.at = "breaking" /\ run.rec.status = "done")

\* A message while the goal holds the chat.
Steer(n) ==
  /\ aiJob /\ n \notin accepted
  /\ accepted' = accepted \cup {n}
  /\ IF run = Off THEN races' = [races EXCEPT ![n] = "late"] /\ UNCHANGED run
     ELSE /\ run' = [run EXCEPT !.steer = @ \cup {n}]
          /\ races' = IF TooLate THEN [races EXCEPT ![n] = "late"] ELSE races
  /\ UNCHANGED <<aiJob, reading, clearing, stored, current, sent>>

\* /goal clear, up to its wait, and the removal.
Clear ==
  /\ run = Off /\ ~clearing /\ stored # NoGoal
  /\ clearing' = TRUE
  /\ UNCHANGED <<run, aiJob, reading, stored, current, accepted, sent, races>>

Cleared ==
  /\ clearing /\ clearing' = FALSE
  /\ stored' = NoGoal /\ races' = Marked(InRecord(stored), "dropped")
  /\ UNCHANGED <<run, aiJob, reading, current, accepted, sent>>

ClearFails ==
  /\ clearing /\ clearing' = FALSE
  /\ UNCHANGED <<run, aiJob, reading, stored, current, accepted, sent, races>>

\* Another project: the file goes, and no write or removal begun before is accepted.
ProjectReplaced ==
  /\ current' = FALSE /\ stored' = NoGoal /\ clearing' = FALSE
  /\ races' = Marked(InRecord(stored) \cup InMemory, "dropped")
  /\ UNCHANGED <<run, aiJob, reading, accepted, sent>>

\* The prompt of a turn under way may not be in the saved history yet.
Reload ==
  /\ run' = Off /\ aiJob' = FALSE /\ reading' = NotReading /\ clearing' = FALSE
  /\ \E lost \in {{}, IF run = Off THEN {} ELSE run.prompted} :
       /\ sent' = sent \ lost
       /\ races' = Marked((InMemory \ InRecord(stored)) \cup lost, "reload")
  /\ UNCHANGED <<stored, current, accepted>>

Loop == SaveLands \/ SaveFails \/ Prompt \/ PromptElsewhere \/ NeverQuiet \/ TurnEnds \/ Wakes

Next ==
  \/ Loop
  \/ Start \/ Resume \/ Resumed \/ Stop \/ \E n \in Notes : Steer(n)
  \/ Clear \/ Cleared \/ ClearFails \/ ProjectReplaced \/ Reload

Spec == Init /\ [][Next]_vars

\* A write is answered, the wait for a quiet chat and the pause after an error are limited,
\* and a turn ends.
FairSpec == Spec /\ WF_vars(Loop)
-----------------------------------------------------------------------------
\* Every note the user was told of as added is in the chat, in the loop or in the record,
\* unless it met one of the named races.
NotesKept ==
  \A n \in accepted : n \in sent \cup InMemory \cup InRecord(stored) \/ races[n] # "none"

\* The loop ends on its own: no series of answers, errors, notes and verifications keeps
\* an unattended goal going for ever.
EndsOnItsOwn == (run # Off) ~> (run = Off)
=============================================================================
