------------------------------- MODULE Runner -------------------------------
(***************************************************************************)
(* Run and Autopilot (runner.ts): the loop that takes one task file after  *)
(* the other, gives each a chat of its own and up to MAX_TURNS_PER_EPISODE *)
(* turns of the agent, and pauses when it needs the user.  Between two     *)
(* waits of the loop the user can pause, resume or stop it, answer what it *)
(* asks, and send messages, each of which is to become a turn of the task  *)
(* that is being worked on.                                                *)
(*                                                                         *)
(* What runs between two waits is an operator on the record run.  The      *)
(* agent is an environment: a turn ends in any way and may leave its task  *)
(* with any status.                                                        *)
(***************************************************************************)
EXTENDS Integers, Sequences, FiniteSets

CONSTANTS
  NumTasks,                  \* bound: the tasks 1, ..., NumTasks, in the order of their ids
  Steers,                    \* what the user writes while a run goes on, each once
  MAX_TURNS_PER_EPISODE, MAX_STEP_LIMIT_CONTINUES, MAX_ANSWER_EPISODES,
  MaxConsecutiveFails,       \* a setting
  Nothing                    \* no task, no message

ASSUME RunnerAssumption ==
  /\ {NumTasks, MAX_TURNS_PER_EPISODE, MaxConsecutiveFails} \subseteq Nat \ {0}
  /\ {MAX_STEP_LIMIT_CONTINUES, MAX_ANSWER_EPISODES} \subseteq Nat
  /\ Nothing \notin Steers /\ Nothing \notin Nat

VARIABLES
  run,      \* the loop of this page
  status,   \* status[t]: what the file of t says
  fate,     \* fate[m]: what became of a message (history)
  away      \* the turn at run.at waits for the view to switch to the run's chat

runnerVars == <<run, status, fate, away>>

Tasks == 1..NumTasks
Statuses == {"todo", "in-progress", "done", "failed", "blocked"}
Terminal == {"done", "failed", "blocked"}

\* A message is late when no task can take it any more, and settled when it was a turn of the
\* task it was sent to, when Stop dropped it, when it was an answer to a pause that reads none,
\* or when it was late and is gone.  It is missed when its task is over without it.
Fates == {"unwritten", "waiting", "late", "settled", "missed"}
Off == [at |-> "off"]

\* Waits for the user, who is asked something only in the first.
Asking == {"asked", "review", "stuck"}
Turns == {"steerTurn", "turn", "replanTurn", "replyTurn"}
\* The waits of an episode, up to its last look at the messages.
Episode == {"opening", "held", "reading", "steerTurn", "turn", "backoff", "checking",
            "replanning", "replanTurn", "replanQuiet", "gating", "closing", "settling"}
Places == Episode \cup Asking \cup
          {"resting", "quiet", "loading", "waiting", "starting", "answering", "replyTurn", "noting"}

RunnerTypeOK ==
  /\ run = Off \/ run \in [at : Places, all : BOOLEAN, only : Tasks \cup {Nothing},
       abort : BOOLEAN, paused : BOOLEAN, pending : Seq(Steers), since : SUBSET Steers,
       task : Tasks \cup {Nothing}, turn : 0..MAX_TURNS_PER_EPISODE,
       continues : 0..MAX_STEP_LIMIT_CONTINUES, limited : BOOLEAN,
       result : {"none", "done", "failed", "blocked"}, saying : Steers \cup {Nothing},
       fails : 0..MaxConsecutiveFails, deferred : SUBSET Tasks,
       answers : [Tasks -> 0..MAX_ANSWER_EPISODES]]
  /\ run # Off => (run.at \in Asking => run.paused /\ ~run.abort)
  /\ status \in [Tasks -> Statuses]
  /\ fate \in [Steers -> Fates]
  /\ away \in BOOLEAN /\ (away => run # Off /\ run.at \in Turns)

RunnerInit ==
  /\ run = Off
  /\ status \in [Tasks -> Statuses]
  /\ fate = [m \in Steers |-> "unwritten"]
  /\ away = FALSE

Pending(s) == IF s = Off THEN {} ELSE {s.pending[i] : i \in 1..Len(s.pending)}
-----------------------------------------------------------------------------
\* The loop over the tasks (_runLoop).

Begin(all, only) ==
  [at |-> "quiet", all |-> all, only |-> only, abort |-> FALSE, paused |-> FALSE,
   pending |-> <<>>, since |-> {}, task |-> Nothing, turn |-> 0, continues |-> 0,
   limited |-> FALSE, result |-> "none", saying |-> Nothing, fails |-> 0, deferred |-> {},
   answers |-> [t \in Tasks |-> 0]]

\* The head of the loop; nothing of the last task is kept.
Top(s) ==
  IF s.abort THEN Off
  ELSE [s EXCEPT !.at = IF s.paused THEN "resting" ELSE "quiet",
                 !.task = Nothing, !.result = "none", !.since = {}]

\* _selectNextTask: work in progress first, then the lowest id.
Candidates(s) ==
  LET open(st) == {t \in Tasks \ s.deferred : status[t] = st}
  IN IF s.only # Nothing THEN {s.only} \ s.deferred
     ELSE IF open("in-progress") # {} THEN open("in-progress") ELSE open("todo")

Pick(s) ==
  IF Candidates(s) = {} THEN Off
  ELSE [s EXCEPT !.task = CHOOSE t \in Candidates(s) : \A u \in Candidates(s) : t <= u,
                 !.at = "waiting"]

Ask(s, at) == [s EXCEPT !.paused = TRUE, !.at = at]

\* Planted bug: the count goes on behind the limit.
Bug_OneMore(s) ==
  LET f == [s EXCEPT !.fails = @ + 1]
  IN IF f.fails > MaxConsecutiveFails THEN Ask(f, "review") ELSE Top(f)

OneMore(s) ==
  LET f == [s EXCEPT !.fails = @ + 1]
  IN IF f.fails = MaxConsecutiveFails THEN Ask(f, "review") ELSE Top(f)

\* What follows an episode.
Over(s) ==
  IF s.abort THEN Off
  ELSE IF s.result = "blocked" THEN Ask(s, "asked")
  ELSE IF ~s.all THEN Off
  ELSE IF s.result = "done" THEN Top([s EXCEPT !.fails = 0])
  ELSE OneMore(s)

Failed(s) == Over([s EXCEPT !.result = "failed"])
-----------------------------------------------------------------------------
\* One task (_runEpisode).

Settle(s) == [s EXCEPT !.at = "settling"]
Close(s) == IF s.abort THEN Settle(s) ELSE [s EXCEPT !.at = "closing"]

\* The task reads done, and not through the tool that runs the gates.
GateOrClose(s) ==
  {Close(s)} \cup IF s.result = "done" /\ ~s.abort THEN {[s EXCEPT !.at = "gating"]} ELSE {}

\* The loop over the turns has ended; one more turn when they were used up.
AfterTurns(s) ==
  LET over == [s EXCEPT !.turn = 0, !.continues = 0, !.limited = FALSE]
  IN IF s.result = "none" /\ s.turn >= MAX_TURNS_PER_EPISODE
     THEN {[over EXCEPT !.at = "replanning"]}
     ELSE GateOrClose(over)

\* A continuation is not a turn of its own.
Prompt(s) ==
  [s EXCEPT !.at = "turn", !.turn = IF s.limited THEN @ - 1 ELSE @, !.limited = FALSE,
            !.saying = Nothing]

\* Planted bug: Stop is not asked for behind the read of the task.
Bug_Look(s) ==
  LET seen == [s EXCEPT !.since = {}]
  IN IF s.pending # <<>>
     THEN {[seen EXCEPT !.at = "steerTurn", !.saying = Head(s.pending), !.pending = Tail(@)]}
     ELSE {Prompt(seen)}

\* The messages the user sent meanwhile, each its own turn, and then the task's prompt.
Look(s) ==
  LET seen == [s EXCEPT !.since = {}]
  IN IF s.abort THEN AfterTurns(seen)
     ELSE IF s.pending # <<>>
     THEN {[seen EXCEPT !.at = "steerTurn", !.saying = Head(s.pending), !.pending = Tail(@)]}
     ELSE {Prompt(seen)}

\* From the second turn on the task is read again first.
Read(s) == IF s.turn = 1 THEN Look(s) ELSE {[s EXCEPT !.at = "reading"]}

TurnHead(s) ==
  IF s.abort \/ s.turn >= MAX_TURNS_PER_EPISODE THEN AfterTurns(s)
  ELSE LET n == [s EXCEPT !.turn = @ + 1]
       IN IF n.paused THEN {[n EXCEPT !.at = "held"]} ELSE Read(n)

\* What follows a turn that was prompted for the task.
AfterTurn(s, signal) ==
  IF s.abort THEN AfterTurns(s)
  ELSE CASE signal = "error" -> {[s EXCEPT !.at = "backoff"]}
         [] signal = "blocked" -> AfterTurns([s EXCEPT !.result = "blocked"])
         [] signal = "rateLimit" -> TurnHead(s)
         [] signal = "ended" -> {[s EXCEPT !.at = "checking"]}
         [] signal = "stepLimit" ->
              IF s.continues < MAX_STEP_LIMIT_CONTINUES
              THEN {[s EXCEPT !.at = "checking", !.limited = TRUE]}
              ELSE AfterTurns([s EXCEPT !.result = "blocked"])

\* Planted bug: the continuations are not counted.
Bug_Checked(s, st) ==
  CASE st = "done"   -> AfterTurns([s EXCEPT !.result = "done"])
    [] st = "failed" -> AfterTurns([s EXCEPT !.result = "failed"])
    [] OTHER         -> TurnHead(s)

\* What the task's file says after a turn; st is "unread" when it cannot be read.
Checked(s, st) ==
  CASE st = "done"   -> AfterTurns([s EXCEPT !.result = "done"])
    [] st = "failed" -> AfterTurns([s EXCEPT !.result = "failed"])
    [] OTHER         -> TurnHead([s EXCEPT !.continues = IF s.limited THEN @ + 1 ELSE @])

\* Planted bug: of the messages that wait, only one is sent before the next prompt.
Bug_AfterSteer(s) == IF s.abort THEN AfterTurns(s) ELSE {Prompt([s EXCEPT !.since = {}])}

AfterSteer(s) == Look(s)
-----------------------------------------------------------------------------
Said(s) == {m \in Steers : s # Off /\ s.at \in {"steerTurn", "replyTurn"} /\ s.saying = m}
Leaves(s) == run # Off /\ run.at \in Episode /\ (s = Off \/ s.at \notin Episode)

\* When an episode ends, a message that came after its last look at them is late.
FateIn(s, m) ==
  IF m \in Said(s) \/ (s = Off /\ fate[m] = "late") THEN "settled"
  ELSE IF fate[m] = "waiting" /\ (Leaves(s) \/ s = Off)
  THEN IF m \notin run.since THEN "missed" ELSE IF s = Off THEN "settled" ELSE "late"
  ELSE fate[m]

\* The loop goes on as s.
Goes(s) == run' = s /\ fate' = [m \in Steers |-> FateIn(s, m)]

At(place) == run # Off /\ run.at = place
Working(t, st) == [status EXCEPT ![t] = st]

\* A turn may give its task any status.
AgentLeaves(t) == \E st \in Statuses : status' = Working(t, st)
-----------------------------------------------------------------------------
\* The steps of the loop.

Rested ==
  /\ At("resting") /\ (~run.paused \/ run.abort)
  /\ Goes(IF run.abort THEN Off ELSE [run EXCEPT !.at = "quiet"])
  /\ UNCHANGED status

\* Quiet, or five minutes later: nobody looks which.
Quiet ==
  /\ At("quiet")
  /\ Goes(IF run.abort THEN Off ELSE [run EXCEPT !.at = "loading"])
  /\ UNCHANGED status

Loaded == At("loading") /\ Goes(Pick(run)) /\ UNCHANGED status

\* After four attempts.
LoadFails ==
  /\ At("loading")
  /\ Goes(IF run.abort THEN Off ELSE Ask(run, "stuck"))
  /\ UNCHANGED status

\* The chats before are quiet, or are not after five minutes.
EpisodeBegins ==
  /\ At("waiting")
  /\ \/ Goes(IF run.abort THEN Off ELSE [run EXCEPT !.at = "starting"])
     \/ ~run.abort /\ Goes(Failed(run))
  /\ UNCHANGED status

Starts ==
  /\ At("starting")
  /\ status' = Working(run.task, "in-progress")
  /\ Goes([run EXCEPT !.at = "opening"])

\* A start gate refuses the task, and may block it, or its file cannot be written.
StartRefused ==
  /\ At("starting")
  /\ \E st \in {status[run.task], "blocked"} : status' = Working(run.task, st)
  /\ Goes(Failed([run EXCEPT !.deferred = @ \cup {run.task}]))

Opened == At("opening") /\ (\E s \in TurnHead(run) : Goes(s)) /\ UNCHANGED status

HeldEnds ==
  /\ At("held") /\ (~run.paused \/ run.abort)
  /\ \E s \in (IF run.abort THEN AfterTurns(run) ELSE Read(run)) : Goes(s)
  /\ UNCHANGED status

TaskRead == At("reading") /\ (\E s \in Look(run) : Goes(s)) /\ UNCHANGED status

SteerTurnEnds ==
  /\ At("steerTurn")
  /\ AgentLeaves(run.task)
  /\ \E s \in AfterSteer(run) : Goes(s)

TurnEnds ==
  /\ At("turn")
  /\ AgentLeaves(run.task)
  /\ \E signal \in {"error", "blocked", "rateLimit", "stepLimit", "ended"} :
       \E s \in AfterTurn(run, signal) : Goes(s)

\* What the error was, a rate limit for example, is asked behind the wait.
BackoffEnds ==
  /\ At("backoff")
  /\ \E s \in (IF run.abort THEN AfterTurns(run)
              ELSE {[run EXCEPT !.at = "checking"]} \cup TurnHead(run)) : Goes(s)
  /\ UNCHANGED status

TaskChecked ==
  /\ At("checking")
  /\ \E st \in {status[run.task], "unread"} : \E s \in Checked(run, st) : Goes(s)
  /\ UNCHANGED status

Replans == At("replanning") /\ Goes([run EXCEPT !.at = "replanTurn"]) /\ UNCHANGED status

ReplanTurnEnds ==
  /\ At("replanTurn")
  /\ AgentLeaves(run.task)
  /\ Goes([run EXCEPT !.at = "replanQuiet"])

Replanned ==
  /\ At("replanQuiet")
  /\ \E st \in {status[run.task], "unread"} :
       \E s \in GateOrClose([run EXCEPT !.result = IF st = "done" THEN "done" ELSE "failed"]) :
         Goes(s)
  /\ UNCHANGED status

\* The completion gates, run behind the agent's back: they pass, refuse the task, or cannot
\* write it, which ends the episode.
Gated ==
  /\ At("gating")
  /\ \/ status' = Working(run.task, "done") /\ Goes(Close(run))
     \/ status' = Working(run.task, "in-progress")
        /\ Goes(Close([run EXCEPT !.result = "failed"]))
     \/ /\ \E st \in {"done", "in-progress"} : status' = Working(run.task, st)
        /\ Goes(Failed([run EXCEPT !.deferred = @ \cup {run.task}]))

\* The file is given a last status; what cannot be written is let go.
Closed ==
  /\ At("closing")
  /\ \/ UNCHANGED status
     \/ /\ status[run.task] \notin Terminal
        /\ status' = Working(run.task, IF run.result = "done" THEN "done" ELSE "blocked")
  /\ Goes(Settle(run))

Settled == At("settling") /\ Goes(Over(run)) /\ UNCHANGED status

\* The file is still there; the answer becomes a turn.
Answered ==
  /\ At("answering")
  /\ Goes([run EXCEPT !.at = IF run.saying = Nothing THEN "noting" ELSE "replyTurn"])
  /\ UNCHANGED status

ReplyTurnEnds ==
  /\ At("replyTurn")
  /\ AgentLeaves(run.task)
  /\ Goes([run EXCEPT !.at = "noting"])

\* An answer that did not finish the task gives it another episode, up to a limit; not one
\* that declines it, or when the file cannot be read or written.
Noted ==
  LET calm == [run EXCEPT !.fails = 0, !.saying = Nothing]
      next(s) == IF s.all THEN Top(s) ELSE Off
  IN /\ At("noting")
     /\ \/ UNCHANGED status /\ Goes(next(calm))
        \/ /\ status[run.task] # "done" /\ run.saying # Nothing
           /\ run.answers[run.task] < MAX_ANSWER_EPISODES
           /\ \E st \in {status[run.task], "todo"} : status' = Working(run.task, st)
           /\ Goes(next([calm EXCEPT !.answers[run.task] = @ + 1]))
-----------------------------------------------------------------------------
\* The user.

\* Run, Autopilot, and the play button of a card, once the lock of the tabs is granted.
Start(all, only) ==
  /\ run = Off /\ (only # Nothing => ~all)
  /\ run' = Begin(all, only)
  /\ UNCHANGED <<status, fate>>

\* Whoever waits goes on at once.
Resolved(s, m) ==
  LET r == [s EXCEPT !.paused = FALSE]
  IN CASE s.at = "asked"  -> IF s.abort THEN Off ELSE [r EXCEPT !.at = "answering", !.saying = m]
       [] s.at = "review" -> Top([r EXCEPT !.fails = 0])
       [] s.at = "stuck"  -> IF s.abort THEN Off ELSE [r EXCEPT !.at = "loading"]
       [] OTHER           -> r

\* A pause behind a Stop has no effect.
Pause ==
  /\ run # Off /\ ~run.paused /\ ~run.abort
  /\ run' = [run EXCEPT !.paused = TRUE]
  /\ UNCHANGED <<status, fate>>

Resume ==
  /\ run # Off /\ run.paused
  /\ Goes(Resolved(run, Nothing))
  /\ UNCHANGED status

\* Stop: it is noted, the messages that wait are dropped, and a stream is cut short.
Stop ==
  /\ run # Off /\ ~run.abort
  /\ run' = Resolved([run EXCEPT !.abort = TRUE, !.pending = <<>>], Nothing)
  /\ fate' = [m \in Steers |-> IF fate[m] \in {"waiting", "late"} THEN "settled" ELSE fate[m]]
  /\ UNCHANGED status

\* A message of the user: the answer to a pause, or kept for the next look.
Steer(m) ==
  /\ run # Off /\ fate[m] = "unwritten"
  /\ IF run.at \in Asking
     THEN /\ run' = Resolved(run, m)
          /\ fate' = [fate EXCEPT ![m] = IF run.at = "asked" THEN "waiting" ELSE "settled"]
     ELSE /\ run' = [run EXCEPT !.pending = Append(@, m), !.since = @ \cup {m}]
          /\ fate' = [fate EXCEPT ![m] = IF run.at \in Episode /\ ~run.abort
                                          THEN "waiting" ELSE "late"]
  /\ UNCHANGED status

\* The reply box is also there while the user has paused the run: the text only resumes it.
ReplyIntoPause(m) ==
  /\ run # Off /\ run.paused /\ run.at \notin Asking /\ fate[m] = "unwritten"
  /\ run' = [run EXCEPT !.paused = FALSE]
  /\ fate' = [fate EXCEPT ![m] = "settled"]
  /\ UNCHANGED status

Loop ==
  \/ Rested \/ Quiet \/ Loaded \/ LoadFails \/ EpisodeBegins \/ Starts \/ StartRefused
  \/ Opened \/ HeldEnds \/ TaskRead \/ SteerTurnEnds \/ TurnEnds \/ BackoffEnds \/ TaskChecked
  \/ Replans \/ ReplanTurnEnds \/ Replanned \/ Gated \/ Closed \/ Settled
  \/ Answered \/ ReplyTurnEnds \/ Noted

\* A turn that is reached while another chat is open waits for the switch to the run's chat.
LoopStep ==
  /\ ~away /\ Loop
  /\ away' \in {a \in BOOLEAN : a => run' # Off /\ run'.at \in Turns}

\* The view shows the run's chat: the turn begins, and Stop is not asked for again.
Switched == away /\ away' = FALSE /\ UNCHANGED <<run, status, fate>>

\* What the user does, while the loop waits for whatever it waits for.
ByUser ==
  /\ \/ \E all \in BOOLEAN, only \in Tasks \cup {Nothing} : Start(all, only)
     \/ Pause \/ Resume \/ Stop
     \/ \E m \in Steers : Steer(m) \/ ReplyIntoPause(m)
  /\ UNCHANGED away

RunnerNext == LoopStep \/ Switched \/ ByUser

RunnerSpec == RunnerInit /\ [][RunnerNext]_runnerVars

\* Turns, waits for a quiet chat, switches of the chat, reads and writes all end.
FairRunnerSpec == RunnerSpec /\ WF_runnerVars(LoopStep \/ Switched)
-----------------------------------------------------------------------------
\* A message sent to a run becomes a turn of the task it was sent to, after the step that
\* runs.  It does not when the user stops the run, when it comes too late for its task, or
\* when it is typed as the answer to a pause that reads none.
SteersArrive ==
  \A m \in Steers :
    /\ fate[m] # "missed"
    /\ fate[m] \in {"waiting", "late"} => m \in Pending(run) \/ run.saying = m

\* A run on its own ends or asks for the user, whatever the agent answers and whatever
\* storage refuses.
EndsOrAsks == (run # Off) ~> (run = Off \/ run.paused)

\* Behind Stop the loop reaches no turn: "A real Stop sets _runnerAbort, which every caller
\* checks before reaching a turn" (runner.ts:52).  Two turns are reached past a wait without a
\* check, and are excepted: the one that replans (line 625) and the one that an answer starts
\* (line 299).  A third begins behind a Stop, reached before it: the one that waits for the
\* switch to its chat (line 51).
StopIsFinalButForThree ==
  [][LoopStep /\ run # Off /\ run.abort /\ run' # Off /\ run'.at \in Turns
       => run'.at \in {"replanTurn", "replyTurn"}]_runnerVars
=============================================================================
