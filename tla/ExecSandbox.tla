----------------------------- MODULE ExecSandbox -----------------------------
(***************************************************************************)
(* The page's side of the sandbox frame (exec-sandbox-host.ts): commands   *)
(* of the agent run in one hidden frame that is made when it is needed,    *)
(* loads, is shared by all commands and is thrown away to end code that    *)
(* does not end by itself.  Python (config.ts) keeps a worker in the frame *)
(* and is told when the frame goes, from the middle of resetSandbox.       *)
(*                                                                         *)
(* The page has one thread.  Its state is the record host; what one task   *)
(* does to it, calls back included, is an operator from record to record.  *)
(* A caller goes on after its wait for the frame in a microtask, before    *)
(* the next task.  What was sent to a frame that has not loaded its script *)
(* is lost, and what a removed frame sends is not heard.                   *)
(***************************************************************************)
EXTENDS Naturals

CONSTANTS
  Bash,     \* commands of the shell that can be under way at once
  Js,       \* JavaScript runs that can be under way at once
  Py,       \* Python's own calls (py-start, py-stop) that can be under way at once
  Levels,   \* the privacy levels that are chosen
  Strict,   \* those whose frame gets a Content-Security-Policy
  NoCall

Runs == Bash \cup Js
Calls == Runs \cup Py

ASSUME SandboxAssumption ==
  Bash \cap Js = {} /\ Runs \cap Py = {} /\ NoCall \notin Calls

VARIABLES
  host,  \* the module's variables, the promises and the code in the frame: see TypeOK
  late   \* commands one of whose writes was accepted after their caller was answered

vars == <<host, late>>

\* frame is "failed" only while resetSandbox runs.  boot can be the record of a frame that
\* is gone.  at: "waiting" for the load, "resolved" or "rejected" when the promise is
\* settled and the call has not gone on yet, "orphan" when nobody will settle it.
\* running: the calls whose code is in the frame; asks: those that wait for the answer to a
\* write.  order: of two of Python's calls that wait, the one that was made first comes first.
\* news: the worker's "ready" is on its way.  level: the privacy level, in the storage all tabs
\* share.
TypeOK ==
  /\ host \in [frame : {"none", "loading", "loaded"}, boot : BOOLEAN,
               retried : BOOLEAN, csp : BOOLEAN,
               at : [Calls -> {"idle", "waiting", "resolved", "rejected", "orphan", "pending"}],
               abandoned : SUBSET Runs, abandonedBash : SUBSET Bash,
               running : SUBSET Calls, asks : SUBSET Bash,
               python : {"idle", "loading", "ready", "error"},
               worker : Py \cup {NoCall}, starts : SUBSET Py, order : SUBSET (Py \X Py),
               pyIn : {"none", "starting", "up"}, news : BOOLEAN, level : Levels]
  /\ host.frame = "loading" => host.boot
  /\ host.frame = "loaded" => ~host.boot
  /\ host.abandonedBash = host.abandoned \cap Bash
  /\ host.abandoned = {c \in host.running : host.at[c] # "pending"}
  /\ host.asks \subseteq host.running
  /\ late \subseteq Bash

Init ==
  /\ \E l \in Levels :
       host = [frame |-> "none", boot |-> FALSE, retried |-> FALSE, csp |-> FALSE,
               at |-> [c \in Calls |-> "idle"], abandoned |-> {}, abandonedBash |-> {},
               running |-> {}, asks |-> {}, python |-> "idle", worker |-> NoCall,
               starts |-> {}, order |-> {}, pyIn |-> "none", news |-> FALSE, level |-> l]
  /\ late = {}

Pending(s) == {c \in Calls : s.at[c] = "pending"}
Turn(s, from, to) == [c \in Calls |-> IF s.at[c] = from THEN to ELSE s.at[c]]
-----------------------------------------------------------------------------
\* The frame and the calls: each operator is a function of the module, from the state it
\* finds to the state it leaves.

\* The last part of _ensureFrame.  A boot record it overwrites will never be settled.
NewFrame(s) ==
  [s EXCEPT !.frame = "loading", !.boot = TRUE, !.retried = FALSE,
            !.csp = s.level \in Strict, !.at = Turn(s, "waiting", "orphan")]

\* Planted bug: those that wait for the load are not told.
Bug_DropWait(s) ==
  [s EXCEPT !.abandoned = {}, !.abandonedBash = {}, !.at = Turn(s, "pending", "idle"),
            !.boot = FALSE, !.retried = FALSE, !.frame = IF @ = "loading" THEN "failed" ELSE @]

\* Planted bug: the stopped commands of the shell are not forgotten with their frame.
Bug_DropBash(s) ==
  LET d == [s EXCEPT !.abandoned = {}, !.at = Turn(s, "pending", "idle")]
  IN IF ~s.boot THEN d
     ELSE [d EXCEPT !.boot = FALSE, !.retried = FALSE, !.at = Turn(d, "waiting", "rejected"),
                    !.frame = IF @ = "loading" THEN "failed" ELSE @]

\* The two halves of resetSandbox, before and after Python is told.
Drop(s) ==
  LET d == [s EXCEPT !.abandoned = {}, !.abandonedBash = {}, !.at = Turn(s, "pending", "idle")]
  IN IF ~s.boot THEN d
     ELSE [d EXCEPT !.boot = FALSE, !.retried = FALSE, !.at = Turn(d, "waiting", "rejected"),
                    !.frame = IF @ = "loading" THEN "failed" ELSE @]
Remove(s) ==
  [s EXCEPT !.frame = "none", !.csp = FALSE, !.running = {}, !.asks = {},
            !.pyIn = "none", !.news = FALSE]

Outdated(s) == s.frame # "none" /\ s.csp # (s.level \in Strict) /\ Pending(s) = {}

\* _ensureFrame when no worker listens for the reset.
EnsureUnheard(s) ==
  LET r == IF Outdated(s) THEN Remove(Drop(s)) ELSE s
  IN IF r.frame = "none" THEN NewFrame(r) ELSE r

Wait(s, c) ==
  [s EXCEPT !.at[c] = CASE s.frame = "loading" -> "waiting"
                        [] s.frame = "loaded" -> "resolved"
                        [] s.frame = "failed" -> "rejected"]

FreePy(s) == {c \in Py : s.at[c] \in {"idle", "orphan"} /\ c # s.worker}
\* Python's calls that wait for a frame, or have waited and not gone on yet.
InLine(s) == {c \in Py : s.at[c] \in {"waiting", "resolved", "rejected"}}
Without(order, c) == {p \in order : p[1] # c /\ p[2] # c}
Queue(s, c) == [s EXCEPT !.order = Without(@, c) \cup ((InLine(s) \ {c}) \X {c})]
PyCall(s, c) == Queue(Wait(EnsureUnheard(s), c), c)

\* _endPyodideWorker with the handle's terminate: it stops listening, then asks for py-stop.
EndPython(s, status) ==
  LET c == CHOOSE c \in Py : c \in FreePy(s)
  IN PyCall([s EXCEPT !.python = status, !.worker = NoCall, !.starts = @ \ {c}], c)

\* startPyodide: the handle has no onerror yet when its first call makes the frame.
StartPython(s) ==
  LET c == CHOOSE c \in Py : c \in FreePy(s)
  IN IF s.worker # NoCall THEN s
     ELSE [PyCall(s, c) EXCEPT !.python = "loading", !.worker = c, !.starts = @ \cup {c}]

\* resetSandbox.  Python ends its worker from inside: frame and ready are still set, so its
\* py-stop waits for the old frame, or makes one that is removed with it.
Reset(s) ==
  Remove(IF s.worker = NoCall THEN Drop(s) ELSE EndPython(Drop(s), "error"))

Ensure(s) == EnsureUnheard(IF Outdated(s) THEN Reset(s) ELSE s)

\* Planted bug: a restart as soon as no other command is waiting is forgotten.
Bug_Restart(s) == s

\* _restartIfOnlyAbandonedRemain
Restart(s) == IF Pending(s) = {} /\ s.abandoned # {} THEN Reset(s) ELSE s

\* _detach
Detach(s, c) ==
  LET d == [s EXCEPT !.at[c] = "idle", !.abandoned = @ \cup {c}]
  IN IF c \notin Bash THEN Restart(d)
     ELSE IF Pending(d) \cap Bash # {} THEN Reset(d)
     ELSE Restart([d EXCEPT !.abandonedBash = @ \cup {c}])

\* What the frame does with a call (entry.ts).
Deliver(s, c) ==
  IF s.frame # "loaded" THEN s
  ELSE [s EXCEPT !.running = @ \cup {c},
                 !.pyIn = IF c \in Runs THEN @
                          ELSE IF c \notin s.starts THEN "none"
                          ELSE IF @ = "none" THEN "starting" ELSE @,
                 !.starts = @ \ {c}]
-----------------------------------------------------------------------------
Settled == \A c \in Calls : host.at[c] \notin {"resolved", "rejected"}

\* A task of the page: the microtasks of the one before have run.
Task(s) ==
  /\ Settled
  /\ host' = s
  /\ UNCHANGED late

\* The bound on Python's calls: what begins in Settings or with a Python run makes two at
\* most, and leaves one for the restart that can follow.
PyRoom == \E c, d, e \in FreePy(host) : c # d /\ d # e /\ e # c

\* sandboxCall by a tool, up to its wait.
Call(c) ==
  /\ host.at[c] = "idle" /\ c \notin host.running
  /\ Task(Wait(Ensure(host), c))

\* Stop while the frame loads.
Leave(c) ==
  /\ host.at[c] = "waiting"
  /\ Task([host EXCEPT !.at[c] = "idle"])

\* Microtasks run in the order in which the calls began to wait.
First(c) == \A d \in Py : <<d, c>> \in host.order => host.at[d] \notin {"resolved", "rejected"}

\* sandboxCall after its wait.  The frame may be another one by now, or none.
Proceed(c) ==
  LET left == [host EXCEPT !.at[c] = "idle", !.order = Without(@, c)]
  IN /\ host.at[c] \in {"resolved", "rejected"} /\ First(c)
     /\ UNCHANGED late
     /\ host' = IF host.at[c] = "resolved" /\ host.frame # "none"
                THEN Deliver([left EXCEPT !.at[c] = "pending"], c)
                ELSE IF c = host.worker THEN EndPython(left, "error")
                ELSE [left EXCEPT !.starts = @ \ {c}]

Load ==
  /\ host.frame = "loading"
  /\ Task([host EXCEPT !.frame = "loaded", !.boot = FALSE, !.retried = FALSE,
                       !.at = Turn(host, "waiting", "resolved")])

LoadError ==
  /\ host.frame = "loading"
  /\ Task(Reset(host))

\* The load timer: reload once, then give up.
BootTimer ==
  /\ host.boot
  /\ Task(IF host.retried THEN Reset(host) ELSE [host EXCEPT !.retried = TRUE])

\* The time limit of a command, or Stop.
End(c) ==
  /\ host.at[c] = "pending"
  /\ Task(Detach(host, c))

\* The code of c has ended and its reply arrives.
Reply(c) ==
  LET ended == [host EXCEPT !.running = @ \ {c}]
  IN /\ c \in host.running \ host.asks
     /\ Task(IF host.at[c] = "pending" THEN Restart([ended EXCEPT !.at[c] = "idle"])
             ELSE [ended EXCEPT !.abandoned = @ \ {c}, !.abandonedBash = @ \ {c}])

\* A command of the shell asks for a write, and waits for the answer.
Ask(c) ==
  /\ c \in host.running \ host.asks
  /\ Task([host EXCEPT !.asks = @ \cup {c}])

\* Planted bug: only the commands of callers that still wait are looked at.
Bug_Answer(c) ==
  /\ c \in host.asks
  /\ Settled
  /\ host' = [host EXCEPT !.asks = @ \ {c}]
  /\ late' = IF host.at[c] # "pending" THEN late \cup {c} ELSE late

\* _answerWorkspace: the request does not say which command it is from, so while a stopped
\* command could be running every write is refused.
Answer(c) ==
  /\ c \in host.asks
  /\ Settled
  /\ host' = [host EXCEPT !.asks = @ \ {c}]
  /\ late' = IF host.abandonedBash = {} /\ host.at[c] # "pending" THEN late \cup {c} ELSE late
-----------------------------------------------------------------------------
\* Python, the privacy level, and the specification.

LoadPython ==
  /\ host.worker = NoCall /\ PyRoom
  /\ Task(StartPython(host))

\* The worker in the frame is up and says so.
PythonUp ==
  /\ host.pyIn = "starting"
  /\ Task([host EXCEPT !.pyIn = "up", !.news = TRUE])

PythonReady ==
  /\ host.news
  /\ Task([host EXCEPT !.news = FALSE, !.python = IF host.worker = NoCall THEN @ ELSE "ready"])

\* Planted bug: the stop waits for its turn behind the start of the next worker.
Bug_StopPython ==
  /\ host.python = "ready" /\ PyRoom
  /\ Task(LET begun == StartPython([host EXCEPT !.python = "idle", !.worker = NoCall])
              c == CHOOSE c \in Py : c \in FreePy(begun)
          IN [PyCall(begun, c) EXCEPT !.starts = @ \ {c}])

\* Stop or the time limit of a Python run: its worker ends and another one starts.
StopPython ==
  /\ host.python = "ready" /\ PyRoom
  /\ Task(StartPython(EndPython(host, "idle")))

\* PYODIDE_START_MS
StartTimer ==
  /\ host.python = "loading" /\ PyRoom
  /\ Task(EndPython(host, "error"))

\* onPrivacyLevelChange
SetLevel(l) ==
  /\ l # host.level /\ PyRoom
  /\ LET done == Reset([host EXCEPT !.level = l])
     IN Task(IF host.python = "ready" THEN StartPython(done) ELSE done)

\* The level is changed in another tab.
OtherTabSetsLevel(l) ==
  /\ l # host.level
  /\ Task([host EXCEPT !.level = l])

Next ==
  \/ \E c \in Runs : Call(c) \/ Leave(c) \/ End(c)
  \/ \E c \in Calls : Proceed(c) \/ Reply(c)
  \/ \E c \in Bash : Ask(c) \/ Answer(c)
  \/ Load \/ LoadError \/ BootTimer
  \/ LoadPython \/ PythonUp \/ PythonReady \/ StopPython \/ StartTimer
  \/ \E l \in Levels : SetLevel(l) \/ OtherTabSetsLevel(l)

Spec == Init /\ [][Next]_vars
-----------------------------------------------------------------------------
\* No write of a command is accepted once its caller was told that it was stopped.
StoppedWritesNothing == late = {}

\* Stopped code is in the frame only as long as a call runs there that will answer:
\* with the last of those the frame is restarted.
StoppedCodeEnds ==
  host.abandoned # {} => \E c \in host.running : host.at[c] = "pending"

\* The same as long as no call was sent to a frame that had not loaded: Python's py-stop
\* is, when a reset is followed by the start of another worker in one task, and never ends.
StoppedCodeEndsUnlessLost == Pending(host) \subseteq host.running => StoppedCodeEnds

\* While Python is shown as ready its worker is in the frame: no stop of an earlier worker
\* and no restart of the frame has taken it away.
ReadyIsThere == host.python = "ready" => host.pyIn # "none"

\* Every command that waits for a frame waits for the one that is loading, whose timer
\* settles the wait if nothing else does: no reset, from whatever call back, leaves it behind.
WaitIsSettled ==
  \A c \in Runs : /\ host.at[c] # "orphan"
                  /\ host.at[c] = "waiting" => host.frame = "loading" /\ host.boot
=============================================================================
