# FreeGent, specified

FreeGent is an AI agent that runs in a browser page (and, with the same code, in a terminal).
A chat's history lives in the page, in `localStorage` and in IndexedDB; several tabs may have the
same chat open; tabs are frozen, reloaded and closed while a turn runs. This directory holds TLA+
modules of the parts of the program where that goes wrong, the TLC configurations that check
them, and proofs for the TLA+ proof system.

## The system

| Part | State it keeps | Operations | Modelled by |
|---|---|---|---|
| Chat lease, `chat-lease.ts` | a record per chat in `localStorage` (tab, token, time); `held`, `tokens`, `lost` per tab | acquire, heartbeat, release, ping over BroadcastChannel, pagehide | `ChatLease` |
| Session store, `session-store.ts`, `idb-session-adapter.ts` | `_chatOps` queue and the operation in flight; generations of records in IndexedDB; the connection | save, compact, delete, load; reopen after a lost connection | `OrderedHistory`, `SessionStore` |
| Chat history, `chat-state.ts` | the history in memory, the cached copy and its stamp (`rev`, `acked`), `_seenRev`, `_durableHistory` | `saveHistory`, `loadChatHistory`, prune and evict, reload after another tab's save | `ChatCache` |
| Turn lifecycle, `agent-core.ts`, `turn-owner.ts`, `lease.ts`, `msg-queue.ts` | `agentStreaming`, the preparation slot, `_leaseIds`, the message queue, timers | Send, Stop, Escape, queueing, `_processQueue`, `runAgentTurn`, chat switch | `TurnLifecycle` |
| Session event log, `session.ts`, `session-registry.ts`, `session-persistence.ts` | `_log` in memory; `pending`, `dirty`, `capped`, the timer and the active drain; one JSONL file per session | create, append, fork, resume, drain, flush, load | `EventLog` |
| Execution sandbox, `exec-sandbox-host.ts`, `exec-sandbox/`, Python in `config.ts` | one hidden frame, its load promise and timer, pending calls, abandoned commands; Python's worker and status | run, answer a write, time limit, Stop, reset, change of the privacy level | `ExecSandbox` |
| Endpoint slots, `withEndpointSlot` of `model-router.ts` | a key and a queue of callers per endpoint | call, wait, abort, hand over, switch the setting | `EndpointMutex`, `EndpointSlot` |
| Model router, `model-router.ts`, `retry.ts` | cooldowns, the ladder of models | pick, rotate, retry | not modelled |
| Task runner, `runner.ts`, `qa.ts` | the loop's flags, the messages that wait, failures, deferred tasks; a status per task file | start, pause, resume, stop, steer, answer; pick a task, turns, replan, gates | `Runner` |
| Goals, `goal.ts`, the host in `agent-core.ts` | the run in memory, the record in a file | start, resume, stop, steer, clear; turns, verification | `GoalLoop` |
| Workers, `workers.ts`, `diff-utils.ts` | a staging per worker, a snapshot of the files filled lazily, the workspace, what the merges became | edit, delete, undo a write; execute code (apply, run, collect); fail, put back, retry; merge three-way, compare, write | `Workers`, `TextMerge` |
| Project sync, `cloud-sync.ts`, `local-sync.ts`, the dialogs in `workspace.ts`, `cf-worker/worker.js` | the manifest and the blobs on the Worker; the workspace, the base and the undo record of each device | compare, choose, apply, replace, undo; upload, replace the manifest | `CloudSync` |
| Turn loop, tools, workspace, attachments, user interfaces, prompts, credentials, MCP, Worker relay, the vendored shell | see `PROJECT.json` | | not modelled; reasons in `PROJECT.json` |

How they interact. A click on Send (turn lifecycle) takes the chat lease, reloads the chat if
another tab has saved it (chat history), pushes the message, saves, runs the turn loop, saves
again, and gives the lease back. `saveHistory` writes the cache at once and hands the history to
the session store, whose promise later marks the cache's stamp as acknowledged. A compaction of
the event log and the deletion of a chat go to the same store. Tabs share `localStorage` and the
database and nothing else: the lease, the stamp, and `storage` events are all they know of each
other. A goal and the task runner drive turns of their own through `runAgentTurn` while `aiJob`
keeps the queue of messages away from the chat. Every turn's requests pass the slot of their
endpoint, and its commands run in the one sandbox frame of the page. The files that turns write are
compared with the Worker's by the cloud sync, one device after another or at once. Workers that a
turn starts edit copies of the same files side by side, and are merged into the workspace at the
end; the sync's dialog merges with the same function. In a headless run there is one page; every event of its sessions goes to the write-behind
of the event log, which is flushed at the end of a task and on SIGTERM.

### What is hard here

- **Two tabs.** `localStorage` has no transactions. Pages freeze between any two tasks and wake
  up believing what they believed before.
- **Asynchrony in one tab.** Every `await` lets other handlers run: state checked before it is
  read again, or used stale, after it.
- **Two copies of the history.** One is written at once, limited and dropped under pressure; the
  other later, in an order of its own, and may fail.
- **A queue with a bypass.** The store lets some operations go past an idle queue, merges saves,
  and repeats calls whose connection was lost.
- **Crashes.** Any page may die between two steps and leave records behind.
- **Long loops.** A goal and the task runner go on for hours with nobody watching; Stop, messages,
  Clear and another project arrive at any of their waits.
- **Three copies of a project.** Each device and the Worker change on their own; what they last
  agreed on is noted last, and every request in between may fail.
- **Copies that meet in one workspace.** Workers stage their edits, but their code runs on the real
  files, one worker at a time; a failed worker is put back, and the person saves, at any moment of that.
- **A frame that must be thrown away.** Code that does not end is ended by removing the frame,
  while other commands, Python and the listeners of the removal itself still use it.

The hazards list in `PROJECT.json` names the lines where these bite, with the properties that
watch them.

### What makes each part correct

- *Lease*: two tabs do not run turns in one chat at once while nobody is frozen and nobody writes
  blindly; a living holder's record stands; a dead page's record does not block the chat; a page that was overtaken is told.
- *Store*: operations take effect in the order they were asked for; what was acknowledged is
  stored; a load is not older than what was acknowledged before it; every caller is answered.
- *History*: what was cached or confirmed is restored after a crash; no save is built on an older
  history than one that was saved; no cache is dropped that is the only copy.
- *Event log*: a load returns a beginning of the log, whatever was torn or written twice; nothing that
  was queued is lost or forgotten; a flush returns behind what was queued, and always returns.
- *Turn lifecycle*: one turn at a time in a tab, always under the lease of its chat; no lease is
  left behind; no queued message is forgotten; a message is sent in the chat it was written in.
- *Endpoint slots*: one request per endpoint, in the order of arrival; an abort leaves no slot
  held by nobody; whoever waits is served.
- *Execution sandbox*: a stopped command writes nothing and is ended when nobody else needs the
  frame; whoever waits for a frame is answered; Python shown as ready is there.
- *Project sync*: an edit made on any device stays somewhere, unless somebody gave it up.
- *Workers*: when the call ends, every edit that stands is in its file or the file is reported;
  none that was undone, or is of an attempt that failed, is left behind.
- *Three-way merge*: a merge without conflicts has what either side changed.
- *Task runner*: a message sent to a run becomes a turn of the task it was sent to; a run ends or
  asks for the user, whatever the agent and the storage do; after Stop no turn begins.
- *Goals*: a note shown as added is sent, or kept with the record; a goal ends on its own.

## The modules

### ChatLease

One chat, any set of tabs. `rec` is the record in `localStorage`; its `age` replaces its time
stamp, and `due[t]` is the time to the next heartbeat, so no clock has to be bounded. The tabs may
be in different processes, and `localStorage` has no lock, so every function is as many steps as it
looks at and changes the record, and any tab may come in between: `AcquireCheck`, `AcquireStamp` and
`AcquireReadBack` are `acquireChatLease`, `Beat` and `BeatStamp` the heartbeat, `Release` and
`ReleaseRemove` `releaseChatLease` (at the end of a turn or in `pagehide`, behind which comes
`Close`); `Ask`, `HandlePing`, `Conclude` and `Remove` are `chatLeaseHolderAlive`. `Freeze`, `Thaw`,
`Crash` and `Open` are the browser. A page that is gone never comes back with its identity, so its
record is given to `Gone`. `StorageMayFail` lets a stamp throw. `seen[t]` says that nobody wrote
since `t` looked at what it is about to write; `exposed[t]` remembers why a holder may lose its record:
*silent* (it was frozen, or could not write, since it took the lease) or *crossed* (another tab
wrote that had looked before the record was there).

### OrderedHistory and SessionStore

`OrderedHistory` is what the comments of `session-store.ts` promise: the operations asked for one
chat take effect one at a time in the order they were asked; a save may be skipped when a later
save stands for it, and any of them may fail. `SessionStore` is the queue with its bypass
(`Enqueue`), the adapter, and an IndexedDB that commits transactions in creation order
(`Commit`), aborts them (`Abort`), fails internally (`InternalError`) or loses the connection
(`LoseConnection`). `MaxFaults` bounds aborts and lost connections; `LosesBypassed` says whether
the connection may also be lost under an operation that went past the queue. A load reads the newest
generation in one transaction and its record in another. `Implements` is the refinement:
`Promise == INSTANCE OrderedHistory WITH ...` maps `asked`, `last` and `gens` of the abstract
specification to the variables of the same names.

### ChatCache

The two copies of one chat's history. A history is the number of the save that made it: only its
age matters, and a turn builds on the version in memory. `oh` and `stamp` are the cached copy and
its stamp, `db` the store's version, `txs` its transactions, `saving` and `events` the queue of
`SessionStore` reduced to what the cache can tell apart (a save in flight and the merged one behind
it). `OpenChat` and `ReloadChanged` begin `loadChatHistory`, `HandleEvent` carries it through its
two reads.

Turns begin in three ways. `BeginTurn` is `agentSend`: it has the lease and reloads first what another
tab saved (`agent-core.ts:1335`). `BeginQueued` is `_processQueue` and a turn of a goal: it has the
lease, and begins on what the tab has in memory, during a load too. `BeginLoose` is a retry, a rewind or
a turn of the task runner, which ask neither. That two turns under the lease exclude each other is
taken from `ChatLease`. `TurnSave` is a save of any of them; `saveHistory` does nothing during a load.
`DropCache`, `AskStored`, `SpareCache` and `DropShorter` are `_pruneChatCaches` and
`evictOldChatCaches`: a chat whose save was confirmed is dropped at once, one without a stamp after a
wait for the length of the stored history, in which it may be opened, saved and stamped.

`races` names eight things. Six really can lose messages: *dropped* (a cache ahead of the store was dropped),
*crossed* (the store took an older tab's or dead page's save after a newer one), *overtaken* (a
save was confirmed between a load's read of the store and its look at the stamp), *unread* (the store
failed to read a history that no whole cache stands in for), *unlooked* (a turn began although
another tab had saved the chat, or during a load) and *unleased* (a turn began beside one of another
tab, one of them without the lease). Two divide what the properties say: *uncached* (a save
was not cached whole with its stamp, or a cache was dropped) and *shared* (a second page opened the
chat). `SavedIsRestored` holds for one page whatever happens to its cache and whenever its turns
begin, and for pages that share the chat, with turns that did not look and turns beside each
other, while every save is cached. `SaveLosesNothing` holds in tabs that share the chat while every save
is cached and every turn looked: its mutant is a Send that does not. With *uncached*, the other tab cannot see that
there was a save (no stamp is left) and saves over it.

### TurnLifecycle

One tab, its chats, and other tabs as an environment that takes, returns and abandons leases. A
step is what runs between two waits. `at[m]` is where the handler of message `m` stands: `sending`
(the wait for the chat and the attachments), `asking` (the ping), `reading` (the reload),
`opening` (streaming, while the request is prepared), `sendTurn`, `closing` (the wait for the
diff button) for a send; `queued`, `begun` (`runAgentTurn` prepares), `queueTurn` for a queued
message. `owner`, `prepChat`, `lost` are the preparation slot and the validity of its lease;
`timers` counts the calls of `_processQueue` that are due and `polls` those that wait for the
holder of a lease. `rerun` is a turn that begins again without a message: `rerunFromStep` asks
(`asked`), may put the workspace back (`restoring`) and runs (`turn`); `retryLastTurn` runs at once
(`retry`). Neither takes the turn lease, so a turn of another tab may run in the chat beside it.
`races` names the two ways in which one tab runs two turns: *overtaken* (a call of `_processQueue`,
or a rerun behind its question or the restoring, went on although what it had checked before no
longer held) and *stopped* (Stop while streaming clears `agentStreaming` before the turn has
unwound). `missed` says that a call of `_processQueue` was used up for nothing, or never set: the
turn of `retryLastTurn` ends without one (the pages have no button for it; the tests call it), and so
does a dequeued message whose preparation throws (`QueueTurnFails`). That message is gone: the catch at
`agent-core.ts:1029` leaves errors to `runAgentTurn`, which finalizes those of the turn and not those in
front of it (`agent-core.ts:1877-1892`).

### EventLog

One headless process after another (`life`). `log` is `_log`; an event is its number, the process
that appended it, and whether it is the mark behind a seed. `pending` and `todo` are what waits and
what the running drain has left; `driver` is the caller whose drain is `active`, `waiting` those
who wait for it, and `woken` those whose promise callbacks are due once it has ended, in order.
`Loop` is the loop of `flush()`, `GoesOn` continues either a flush or a timer's drain. `file` holds
lines and `cut` says that the last one has no newline: `CutShort` is every prefix of its text that
a write may leave, `Landed` what a write makes of a line without an end. `Load` is `load()`. `base`
is how much of a log was never queued (`Fork`, `Resume`), `ragged` names the sessions that were
resumed behind a line without an end, `kept` remembers that a drain failed.

### EndpointMutex and EndpointSlot

`EndpointMutex` is the promise of the comment at `model-router.ts:562`: for each endpoint at most
one caller `inside` and a `line` of those who came later; whoever leaves hands over to the head of
the line, and whoever gives up is taken out of it. `EndpointSlot` is `withEndpointSlot`: `keys` are
the keys of `_slotQueues`, `queue` its queues, `at[c]` the place of a caller: `waiting`, `resolved`
(it was handed the slot and its promise callback has not run), `running`, or `ungated` (it came
while the setting was off). `Call`, `Abort`, `Resume` and `End` are the parts of the function
between its waits. The refinement maps whoever is `resolved` or `running` to `inside` and the queue
to the line.

### ExecSandbox

The page has one thread, so its state is one record, `host`, and what a task does to it is an
operator from record to record: `Ensure` (`_ensureFrame`), `Drop` and `Remove` (the two halves of
`resetSandbox`, whose listeners run in between), `EndPython` and `StartPython` (`config.ts`),
`Detach`, `Restart`. A call (`at[c]`) waits for the frame, goes on in a microtask (`Proceed`) when
its promise was settled, and is pending in a frame that may have been replaced. `running` is the
code inside the frame, `abandoned` the part of it whose caller was answered, `asks` the writes it
asks for; `order`, `starts` and `pyIn` are Python's own calls and its worker. `late` remembers
writes accepted for a command whose caller had been answered.

### GoalLoop

The loop of `goal.ts` in the page. `run` is the run in memory, with the record and the record being
written (`rec`, `writing`), the notes that wait (`steer`) and the counts that limit it; `stored` is
the file, `reading` a resume that waits for it, `clearing` a Clear that waits for the removal,
`aiJob` the flag that keeps other turns away. What runs between two waits is an operator on
`run`. `accepted` are the notes the user was told of as added, `sent` those that are in a prompt in the
chat; `run.prompted` are those of the prompt whose turn is under way. A turn that fails before the agent
did anything takes its prompt out of the chat again (`dropTrailingUserMessage`), and the notes with it.
`races` names how a note can still be lost: *late* (it came while the goal was ending or a resume
was reading), *reload* (the page went before the note was in the record or a prompt), *unsaved*
(the last write failed), *switched* (the reader went to another chat, and the turn was dropped
with the notes it had taken), *rolledback* (the turn failed and took its prompt along), *dropped*
(Clear, a new goal or another project).

### Runner

The task runner. `run.at` is the wait at which the loop stands: between tasks (`resting`, `quiet`,
`loading`), in an episode (`waiting` to `settling`), asking for the user (`asked`, `review`,
`stuck`) or behind an answer (`answering`, `replyTurn`, `noting`). The operators on the record
`run` are the stretches of code between two waits: `Top` the head of `_runLoop`, `Over` what
follows an episode, `TurnHead`, `Look`, `AfterTurn`, `Checked`, `AfterTurns` and `GateOrClose` the
parts of `_runEpisode`. An operator that returns a set leaves a choice open (the gate pass that
`gatesPassedDone` remembers, for instance). `status` is what the task files say; a turn may write any
status into the file of its task, and any write or read may fail. `fate[m]` follows a message of the
user: *waiting* for the next look of the episode it was sent in, *late* when it was sent behind the
last look, *settled*, or *missed*, which must not happen. `away` says that the turn at `run.at` still waits
for the view to switch to the run's chat (`runner.ts:51`); `LoopStep` is a step of the loop, which may end
in such a wait, and `Switched` the end of the wait, behind which the turn begins whatever happened meanwhile.

### CloudSync

Devices and the Worker. `manifest` and `blobs` are the Worker's; `file[d]` is the workspace of a
device, `base[d]` what it noted as agreed, `undo[d]` its undo record. A content is the set of edits
it carries, so that what a merge, a copy or an overwriting does to edits can be seen; a hash is the
content it stands for. Path 0 is a file and path 1 the name that `keepBothName` finds for its copy.
`Compare` opens the dialog, `Apply` and `Replace` begin `_applyCloudSync` (with and without the
stale check), `Prepare` is one item of its loop with the action proposed by `planSync` or another
that the dialog offers, `Upload` and `PutManifest` are the requests, `Snapshot`, `Batch` and
`NoteBase` what follows, `Fail` the end of it at any wait (an error, a lost answer, a page that
goes), `Undo` is `undoLastSync`. Agents `Write` and `Delete` at any time.
`exposed` are the edits that somebody gave up (deleted, settled against the proposed action,
undone) or that one of the exceptions below puts at risk; `EditsKept` says of all the others that
they are in a workspace, in a batch on its way there, or under a hash of the manifest whose blob the
Worker has.

### Workers

One call of `run_workers`. A text is the set of the edits it carries, as in `CloudSync`. `disk` is the
workspace and `moved` the paths whose timestamp is no longer that of the listing at the start;
`snapshot` is `LazySnapshot`, `staging[w]` the map a worker's tools write to, `onDisk[w]` the paths
of it that its code runs put in the workspace. `Edit`, `Remove` and `UndoWrite` are the tools.
`Apply`, `CodeWrites`, `CodeRemoves` and `Collect` are a code run under the run lock: the staging is
written to the workspace, the code works there, what changed since is staged. `Fail` ends an attempt,
`PutBack` returns one of its files and `EndAttempt` begins the next or gives up. `RunFails` is a code run
that throws: nothing is staged, and only what was staged before counts as put in the workspace. When all are through,
`Decide` takes one path (those without a conflict first), resolves its versions and compares the file
with the start, by timestamp or, where it has none, by text; `Write` and `WriteFails` come one wait later, and `Unresolved` is a merge that the
model did not give. `Save` is the person. `made` are the edits, `live` those that stand; `exposed` and
`leaked` are the edits that one of the races named below may lose or leave behind. Writing a staging out
and collecting are one step each. A merge keeps every edit of its sides here; whether
it does is the question of `TextMerge`.

### TextMerge

`tryMerge` as a function: `Lcs`, `Matches` and `Hunks` are the comparison of a side with the base,
`Group`, `MergeGroup` and `ApplyMergeHunks` put the hunks together. The inputs are texts in which
no line comes twice and none was moved, so that it can be said which side put a line in or took it
out. Conflict markers are left out, and so is the greedy matching for large files.

## The runs

| Run | Configuration | Shows |
|---|---|---|
| `lease` | `MC_ChatLease` | exclusion of the turns of tabs that are not exposed, a lease goes only with its holder's silence or in a blind write, an orphan's record goes, a holder that was overtaken is told |
| `store` | `MC_SessionStore` | types, what saves and loads are answered holds (stored, and not older than what was answered before), refinement of `OrderedHistory`, every caller of a save is answered |
| `cache` | `MC_ChatCache` | types, a reload restores the newest saved history, no save loses messages of another: with one page at a time whose cache may be refused, trimmed or dropped, and with tabs that share the chat |
| `turn` | `MC_TurnLifecycle` | types, one turn, under its lease, no lease and no message forgotten, sent where written |
| `eventlog` | `MC_EventLog` | types, a load is a beginning of the log, nothing lost or forgotten, flush is a barrier and ends |
| `slot` | `MC_EndpointSlot` | refinement of `EndpointMutex`, every waiter is served |
| `sandbox` | `MC_ExecSandbox` | types, a stopped command writes nothing and is ended, whoever waits for a frame is answered, ready Python is there |
| `goal` | `MC_GoalLoop` | notes are kept unless a named race happened, a goal ends on its own |
| `runner` | `MC_Runner` | types, messages become turns of their task, a run ends or asks, behind Stop the loop reaches no turn but two named ones |
| `sync` | `MC_CloudSync` | types, no edit is gone that nobody gave up |
| `workers` | `MC_Workers` | types, every edit is in its file or the file is reported, and nothing undone stays, unless a named race happened |
| `merge` | `MC_TextMerge` | *violated*: a merge without conflicts brings back a line that one side deleted |

The types of the lease, the slot and the goal are proved (`TypeCorrect` of their proof modules), and
are not checked again. Those of the other modules are checked as well, and proved where a proof module has them.

### What the violated property shows

`merge`, `CleanMergeIsBoth`: `diff-utils.ts:108` says that adjacent edits are no conflicts. One
side deletes (or replaces) a line and the other inserts one in front of it. The insertion is
an empty hunk at the same place and does not overlap; it is applied behind the other hunk, and
`bi = h.be` (`diff-utils.ts:70`) then goes back to its end, which is the start of the deleted line.
That line is copied again: the merge is reported as clean, and the deletion is undone. The order
matters: with the sides exchanged the insertion is applied first and the result is right. Over the
inputs of this run there is no other way: with insertions at the start of the other side's hunk
excepted, TLC finds the property to hold for all 36,101 of them.

### What the exceptions in the passing properties are

Each of these was found by a run without the exception, and is a disagreement with a comment.

- `OneTurnUnlessExposed` without *crossed*: `chat-lease.ts:64` says that of two tabs that read "free" in the same
  instant "the read-back tells the one whose write did not stand". Both check, the first writes and
  reads its record back, the second writes over it and reads its own back. Both run a turn; the
  first hears of it at its next heartbeat, up to five seconds later. The read-back tells only a tab
  that was overwritten before it read.
- `store` has `LosesBypassed = FALSE`: `session-store.ts:76` says that what changes a chat's stored history runs
  "one operation at a time, in the order it was asked for". A compaction or deletion that finds the
  queue idle goes to the adapter beside it. When its transaction is lost with the connection, the adapter
  repeats it in a new one (`idb-session-adapter.ts:66-71`), behind a save that was asked for later and
  has been answered `true`: the compaction puts its older history in place of it, the deletion removes
  it. With TRUE, TLC finds both `Implements` and `AnswersHold` violated: the acknowledged save is not stored.
- `SaveLosesNothing` without *unlooked*: `docs/webui/chats/index.md:42` says that a tab that sees a newer
  copy of a chat reloads it instead of overwriting it, and `agent-core.ts:988` takes the lease for a queued
  message because a turn in a chat that another tab is running would overwrite its history. The lease
  keeps the two turns apart in time only. `agentSend` reloads the chat behind it
  (`agent-core.ts:1335`); `_processQueue` goes from the lease (line 990) to the turn (line 1027). One tab's
  turn saves and ends; the other's queued turn gets the lease and begins on what the tab has in memory,
  before the storage event's reload, which comes 200 ms later and not while a turn runs. Its saves replace
  what the first tab's turn wrote. A goal's turn, a retry and a rewind do not look either.
- `NotesKept` without *rolledback*: the chat says "Added to the goal's next turn" (`agent-core.ts:1782`),
  and `goal.ts:202` keeps what was "acknowledged" like that with the record when the loop ends first.
  The notes leave the list when the prompt is made (`goal.ts:162`). A request that fails before
  the agent did anything rolls the prompt back (`agent-core.ts:1953`, whose comment at 1935 says
  that a continuation would run without it), and the loop goes on, or pauses, without the notes.
- `SentWhereWrittenUnlessRaced`: `agent-core.ts:986` says that a queued message stays parked while
  another chat is open. The chat is compared before the wait for the holder of the lease
  (`agent-core.ts:990`) and not after it: a chat opened in that wait gets the message, under the
  lease of the old chat.
- `StoppedCodeEndsUnlessLost`: `exec-sandbox-host.ts:211` says that the frame is restarted once
  nothing else waits on it. With Python ready, a change of the privacy level resets the frame and
  starts Python in one task (`settings-ui.ts:225`); the `py-stop` made inside the reset
  (`exec-sandbox-host.ts:278`) can go on after the new frame was made and before it has loaded. It
  is lost and stays pending for ever, nothing is the last call again, and a stopped command
  is not ended. While such a command runs, every write of later shell commands is refused (line 75).
- `SavedIsRestored` without *dropped*: `chat-state.ts:196` says that only caches whose history is
  stored are dropped; `_durableHistory` names chats and not saves, so a newer cache that is the only
  copy can go. Without *unread*: `chat-state.ts:406` expects a failed read to leave the history
  alone; with no whole cache the chat opens empty and the next save replaces it.
- `EditsKept` leaves out the edits in `exposed`. `local-sync.ts:37` says that the proposed actions
  are non-destructive and that a conflict keeps both versions; four things disagree.
  *The name of a copy*: `names` (`workspace.ts:1404`) holds the names of the workspace only. When
  another device has pushed a file of the very name of the copy (its copy of an earlier conflict, say),
  the copy and the pulled file go to one path in one batch. The copy, written later, stands; the
  base says that the other file was agreed on, and the next sync pushes the copy over it.
  *Between the two sides*: when the answer to
  the new manifest is lost, or the page goes before the batch (`workspace.ts:1450-1455`), the copy
  of a conflict is written nowhere while the manifest names the other version. *Behind the check*: what
  is written after the stale check (`workspace.ts:1153`), or after the comparison for a Replace, is
  replaced by the batch; the undo record alone has it. *Undo*: the record of a cloud sync has no
  base (`workspace.ts:1454`), though `workspace.ts:953` says that the agreement is put back:
  the next sync takes the old content for a new edit and proposes to push it over the cloud's.
- `StopIsFinalButForThree`: `runner.ts:52` says that every caller checks the stop before it reaches a
  turn. Stop in the last turn of an episode, or while the task is read in front of
  the replanning turn, and that turn is still begun (`runner.ts:615-625` does not ask); the same
  behind an answered question (`runner.ts:299`). The third turn was reached before the Stop: when the
  reader has another chat open, `_runnerTurn` first waits for the switch to its own (`runner.ts:51`), and
  begins the turn without a look at the flag that was set meanwhile.
- `EditsAccounted` leaves out what is `exposed` or `leaked`, and lets a reported path lack the workers'
  edits. *Put back outside the lock*: `PutBack` (`workers.ts:813`) takes no lock. It overwrites what the
  person saved since, and in the middle of another worker's code run it undoes that worker's
  files and is collected as a change of its code. *Applied unchecked*: the staging that a code run writes
  out (`tools.ts:2724`) replaces a save of the person; at the end the file equals what is to be
  written and counts as unchanged (`workers.ts:1824`), so it is not reported either. *Checked, then
  written*: a save between the comparison and the write is lost. *Deleted*: code that deletes a file
  deletes the person's edits with it. *Collected*: a file with another worker's edits is staged with
  them, and they stay when that worker fails. *Undone on one side*: `undo_write` takes the staged entry
  away, and what a code run of the same worker put in the workspace stays. *Reported though nothing was
  lost, or the other way round*: a worker that runs code and then edits the same file again finds its
  own version refused as changed by somebody else, since the run moved the timestamp; and where
  one worker wrote a file and another deleted it, `workers.ts:1387` says that the version kept is reported, and
  the returns without a model's merge drop it (`picked: {}`, lines 1408 and 1434). *Thrown*: a code run that
  throws, or behind which the files cannot be listed, stages nothing of what it changed
  (`tools.ts:2698-2707`, `2750`), and nobody puts it back; the worker's later runs may overwrite it.
  *Without a timestamp*: a file whose time cannot be read is compared with the text that was read first
  (`workers.ts:1838`). For a file that a worker only deletes that is now, so that a save of the person is
  taken for the text of the start.
- The other races of `GoalLoop` and of `ChatCache` are named with the modules above.

### Bounds, and why they are enough

- *Lease*: two tabs; three exceed the time of a run. A third party still exists: `Gone` holds
  records of pages that died, and a closed tab opens again as a new page. TTL = 3 and BEAT = 1
  keep the order of the real 20 s and 5 s: a holder may miss beats and stay within the lease time.
  The proofs hold for any set of tabs and any BEAT < TTL.
- *Store*: four operations, because a merge needs one operation in flight and two saves behind
  it, and a fourth shows what is done after it; two faults, so that a repeated operation fails
  again or another one aborts behind it; one load.
- *Cache*: two tabs and three saves, since a merge takes three; one crash, so that a page's saves land
  behind its successor's. States in which more races happened than a property excuses are not expanded;
  `races` only grows, so nothing is claimed behind them. `InOnePage` has no turns without the lease, which
  with one page do what a queued turn does. `InTabs` leaves out *unlooked* together with *unleased*, and
  the question to the store in front of a drop, which ends in a race that nothing is claimed behind. The
  theorems have no such limits. Four saves or two crashes exceed the time of a run.
- *Sync*: two devices; a file and one name for its copy, which is where the names of copies meet;
  three edits (a base, and one on each side of a conflict) and up to three other events (a deletion, an
  edit during a sync, a choice that was not proposed, a failure, a Replace, an undo), four together. Syncs
  are not counted: any number of them may follow each other, cancelled or interleaved.
- *Turn*: three messages are a turn, one queued behind it and a direct send; two chats and two
  switches are leaving and coming back; one Stop and one turn of another tab, which may end or die;
  one rerun, and with it one switch, which is enough to leave the chat it was asked for. The messages
  are alike, so the run takes their permutations as a symmetry (`MC_TurnLifecycle`).

- *Event log*: two sessions, because one may fail while another of its batch is written, and a fork
  needs a source; two events per process make a batch with a line before, at and behind the place
  where a write breaks off; one failing write and two processes. One caller of `flush` competes with
  the drains of timers. With one session, three processes also pass.
- *Slot*: four callers and two endpoints: one has the slot, two wait, so that the first or the last
  of a queue is aborted, and one goes elsewhere or comes in between.
- *Sandbox*: two shell commands (a stopped one and one beside it), a JavaScript run that keeps the frame
  when a shell command is stopped, four calls of Python (two that a task makes, one left from the
  frame before and one of the restart behind it), two levels whose frames have different rules.
- *Goal*: two notes, all limits two, and turns for one resume.
- *Workers*: two workers, the file of the project and a name without a file; three edits (two workers'
  and the person's), four extras (a deletion, an undone write, a code run, a failure) and five
  events together; one retry. A code run of a worker that failed, beside another worker's, with
  a save in between, fits in five.
- *Merge*: texts of up to three of four lines. Three lines are a hunk before, at and behind another's.
- *Runner*: two tasks, so that one is taken behind another; two messages, so that one waits behind
  the other; two turns, since the first and the later ones differ, one continuation, one answer
  episode, two failures in a row.

`CHECK_DEADLOCK FALSE` is set where the environment may stop acting (bounds used up, nobody
writes): the program is idle there, not stuck.

### Fairness

`ChatLease`: strong fairness of `Tick` and of a heartbeat (a frozen page delays its timers but the
browser fires them between freezes), weak fairness of the writes that follow a look and of
`Thaw` (a page that is not discarded is resumed when the user returns to it; `Crash` is always
possible instead). Nothing makes a tab start or end a turn or ask. `SessionStore`: weak
fairness of the database ending a transaction either way, of the page handling the event, and of
reopening the connection; the IndexedDB standard and the event loop give these. `EventLog`: weak
fairness of promise callbacks, of the timer, and of a write ending; a write that fails ends too.
`EndpointSlot`: weak fairness of a promise callback and of a request ending, since connecting and the
silence of a stream are limited in time; nothing makes a caller come or abort. `GoalLoop`: weak
fairness of the loop, since writes are answered, a wait for a quiet chat lasts five minutes at most, and
a turn ends. `Runner`: the same for its loop; nothing makes the user resume or answer, which is why
`EndsOrAsks` is satisfied by a pause.
`ExecSandbox`, `TurnLifecycle`, `ChatCache`, `CloudSync` and `Workers` make no liveness claim and have no fairness;
`WaitIsSettled` says in a safety form that somebody is there to settle each wait.

## The proofs

`LockProofs` proves about the lease, for every set of tabs and all times with BEAT < TTL:

- `TypeCorrect`: `Spec => []TypeOK`.
- `MutualExclusion`: `OneTurnUnlessExposed`.
- `LiveLeaseStandsAlways`: `LiveLeaseStands` (an unexposed holder's record stands and stays
  young). It is proved and not checked on its own.
- `NoTakeoverOfTheLiving`: the action property `TakenOnlyWhenSilent`.
- `OrphansGo`: the action property `OrphanIsRemoved`.

They assume nothing about the order in which tabs access the storage. The argument:
`OneTurnUnlessExposed` is not inductive, because nothing in it says why another tab's write must
miss the record. The invariant `IInv` adds *Punctual* (an unexposed holder's record is its
own, and the record's age plus the time to the next heartbeat never exceeds the beat interval, so
it is fresh), *LookStands* (what a tab saw before its write is still so while nobody wrote, so a write
that is not blind finds no such record), *NewIsUnseen* (a record that waits for its read-back is new, and
nobody has looked since), *PingPending* (a ping about a record that has not changed is still on its
way to the record's page), *Owned*, *RemovesOthers* and *Awake* (who can have a record, and be in which
place). `KeeperIsSeen` says that an unexposed holder makes the chat busy for everybody else;
mutual exclusion follows from it. `WriteLeavesNone` says that behind any write no other tab is an
unexposed holder: one that looked would have seen its record, and a blind one exposes it.

`TurnLifecycleProofs` proves, for every set of messages and chats and all bounds, from
`TurnAssumption` alone:

- `TypeCorrect`: `Spec => []TypeOK`.
- `NoLeaseLeftBehind`: `LeaseIsInUse`, without any exception.
- `OneTurnAtATime`, `LeaseWhileTurning`, `RightChat`, `QueueIsNotForgotten`: `OneTurn`,
  `TurnIsLeased`, `SentWhereWrittenUnlessRaced` and `QueueIsServed`, as long as neither of the two
  `races` has happened.
- `OrderKept`: the inductive invariant these follow from.

The argument: none of these properties is inductive, since nothing in them says what the handlers
that wait will find. Two parts hold with the races too and are proved first, *QueueOK* (what the
queue holds waits there, once) and, from it, `LeaseIsInUse`. `Orderly` says that *unless a race
happened* six parts hold together: *SlotOK* (one message turns at a time and none beside a
rerun, the tab streams exactly while one of them does, a preparing handler owns the slot and no turn
runs beside it), *BoxOK* (a text is in
the composer of the chat it was written in), *PrepOK* (a send is prepared for its own chat),
*OpenOK* (a turn that opens is in the open chat), *LeaseOK* (a turn runs in its message's chat,
under that chat's lease, from the moment the message is taken out) and *ServedOK* (a queue that
holds anything has a turn, a preparation, a timer or a poll after which somebody looks at it).

The lemma `SendSteps` reduces the steps of a preparing send to five, so that each conjunct is proved
once per step. *PrepOK* shows one thing more: a send that reloads its chat because
another tab saved it (`agent-core.ts:1335`) has always lost its preparation when the reload is done,
for the reload counts as a chat load. It always gives up, although the comments there
(`agent-core.ts:1331`, `1334`) expect it to go on with the reloaded messages.

`HistoryProofs` proves about `EventLog`, for every number of sessions, callers and failures, `NothingStrandedAlways`:
`NothingStranded`. The invariant `Due` says who is to write what is queued: while a drain runs, a
timer, a waiter or the flush that drives it and looks again; while none runs, a timer, somebody
woken, or nobody because the last drain failed. It proves also what the files hold, from
`LogAssumption` and `LineAssumption` (a torn line is no event): `TypeCorrect` (`TypeOK`),
`LoadIsPrefixAlways` (`LoadIsPrefix`), `NothingLostAlways` (`NothingLost`), `FlushIsBarrierAlways`
(the action property `FlushIsBarrier`) and `EventsHavePlaces`, the inductive invariant `IInv`. `NothingLost`
asks for a load that reaches up to what waits, and nothing in it says why the retry of a batch,
some of whose lines are in the file already, leaves no gap. `IInv` does: batch and queue are
the end of the log, in its order (*QueuedOK*); a load that reaches up to the base reaches up to the batch
(*Reached*); what left the queue for good is a line of the file (*Stored*); and a file that ends inside a
line belongs to a session whose append is known to have failed, or was resumed like that (*CutOK*), so
that a newline goes in front of the next batch and no whole line is ever joined. `Load` recurs on
the lines of the file. `LoadAppend` says what one more line does to it, and `LandingIs`
that a piece of the log written behind the lines, with any of its lines torn, keeps a load a
beginning of the log: unchanged if it ended before the piece, and reaching the end of the piece if it
reached its begin and no line is torn. Both are proved by the least counterexample (`LeastNat`).

`HistoryProofs` proves about `ChatCache`, for any number of tabs, saves and crashes and from
`CacheAssumption` alone, `CacheTypeCorrect` (`CacheTypeOK`), `NewestIsRestored` (`SavedIsRestored`),
`NothingIsLost` (the action property `SaveLosesNothing`) and `HistoryHasPlaces`, the inductive
invariant `HistoryInv`. Neither property says anything about what is under way between a tab and the
store, and that is where both could fail. So `UnderWay` says of each tab (*Piped*) that at most one save
and one load of it are with the store or answered and not handled; a load that came to its record,
or runs while a save waits behind another, is behind the save that was sent, so that no save of the
tab's own lands behind a record that it adopts. *Named* and *Below* keep apart what the stamp, the tabs and
the answers are named after: no name and no version is beyond the saves there were. The rest depends
on what happened. While tabs share the chat and no other race happened (*TabsAgree*), the cache is the
newest version there is, whole, and a tab that agrees with the stamp and waits for no load has it in
memory, whatever turns began without a look or the lease. Where all turns looked, and none
ran beside another, the one with the turn has the newest version and waits for no load, and nobody else has
a turn (*TurnsLook*): from this `SaveLosesNothing` follows. With one page, whose cache may be refused, trimmed or dropped
(*OnePage*), what was cached whole is in the cache or the store has it or a later one (*Kept*), and a record on its
way to the page is the store's, or there is none and no whole cache is older than the store (*ReadsRight*).
`Without`, what the queue of the store has left when a page dies, is reasoned about by the least counterexample.

`LockProofs` proves about the slots, for any callers and endpoints, from `SlotAssumption` alone:
`SlotTypesCorrect` (`SlotTypeOK`), `OneRequestAtATime` (`OneRequest`: of the gated callers no two are with one
endpoint; it follows from the refinement and is not checked on its own), `SlotIsMutex` (`Implements`)
and `SlotsInOrder`, the inductive invariant they rest on. That invariant says that a key is there
exactly while somebody has the slot, that nobody waits for an endpoint without a key, and that who
waits is in the queue of its endpoint, once. Each step then is a step of the mutex (`Call` is
`Arrive`, `Abort` is `GiveUp`, `End` is `Leave`) or changes nothing the mutex sees (`Resume`, the
ungated calls, the setting).

`GoalLoopProofs` proves, for any notes, limits and turns, from `GoalAssumption` and
`RecordAssumption` (neither "no record" nor "no resume" is a record): `TypeCorrect` (`TypeOK`),
`NotesAreKept` (`NotesKept`), `NoTurnBehindALimit` (between two turns the goal is active and below
its limits) and `NotesHaveAPlace`, the inductive invariant they follow from. `NotesKept` alone says
that a note is somewhere, not that the step which drops one of the places finds it in another. The
invariant says where it must be: while the loop runs it has every note that was not sent or marked
(*Kept*), while a record is read that one has, else the file; what a write brings to the file is the
record (*Sane*); only accepted notes are anywhere (*Known*); and what comes behind the last look at
the notes is marked (*LateMarked*), so that the loop may end there. The code between two waits is
handled by one lemma per operator (`Leaves`: it goes on with the notes it had, or has none).

`SessionStoreProofs` proves, for any tabs, bounds and queues, from `StoreAssumption` alone: `TypeCorrect`
(`TypeOK`), `AnswersAlwaysHold` (`AnswersHold`), `RefinesOrderedHistory` (`Implements`) and
`WritesStayOrdered`, the inductive invariant `IInv`; all of them for `~LosesBypassed`, as in the run: the
connection is not lost under an operation that went past the queue. `AnswersHold` and the refinement say nothing of what is on its
way: an answer stays true only because no older write can still arrive. `IInv` says so. Writes lie in
one order across the transactions that are open, the calls that wait for the reopened
database and the events that report an end; at most one call is queued and at most one
load is under way; what the database shows is the work of the newest operation that committed, and a
load in progress only gets fresher. A call that is repeated after an error finds no other write on its
way, so that it comes again where it was. The contents of queues are reasoned about with lemmas on
the helpers (`NewestIs`, `WithoutSavesIs`, `KeepsExists`). Induction over the naturals, which a recursive
function such as `WithoutSaves` needs, is done with `LeastNat`: a set of naturals that is not
empty has a least element, and a least counterexample has none before it.

`AgentWorkProofs` has the proofs about `Workers` and about `Runner`. Of `Workers` it proves, for any workers, paths and bounds, from `WorkersAssumption` (the ids of the
workers are a finite set) and `ContentAssumption` (a text is neither "absent" nor "unknown"):
`TypeCorrect` (`TypeOK`), `EditsAlwaysAccounted` (`EditsAccounted`) and `EditsHavePlaces`, the
inductive invariant `IInv`. `EditsAccounted` speaks of the end of the call only. `IInv` says where each
edit is until then. The person's are in the workspace (*PersonKept*); a worker's are in its staging, or in
the workspace while its code executes, at a path that it will stage (*LiveKept*); what a staging
has of others came with such a run (*OthersLeak*). An edit that was undone leaves the staging
(*DeadUnstaged*), and where the workspace still shows it, the worker knows that it has to put the path
back (*DiskKnown*, *DeadOnDisk*). The merge is reasoned about in one place: the base of a
merge is a copy that was taken before any worker wrote, so that it has only the person's edits
(*FirstRead*) and no side can lose another's by having them in common with the base; then what is about to be
written carries all that stands and nothing else (*CommitOK*), and so does the file behind it (*SettledOK*).

Of `Runner` it proves, for any tasks, messages and limits, from `RunnerAssumption` (there is a task, an
episode has a turn and the pause comes behind a failure at the earliest; "nothing" is neither a task nor a message): `RunnerTypeCorrect` (`RunnerTypeOK`), `MessagesArrive` (`SteersArrive`), `StopIsFinal`
(the action property `StopIsFinalButForThree`) and `RunAlways`, the inductive invariant `RunInv`. `SteersArrive`
says that a message that waits is in the list or on its way, which does not keep an episode from ending over it.
`RunInv` says why none does: inside an episode such a message came since the last look at the list, and then
it is late when the episode ends, or a turn of another message is running, behind which there is a look
(*Waits*); an answer goes on to its turn. *Local* has what the counts need: a continuation takes a turn
back, so it is due only where a turn was counted before it, and only while one is left. The code
between two waits ends in many ways, so what it does to the messages is said once, in `Onward`: it takes the
first message as a turn or holds them all, keeps the flag of Stop, and reaches a prompt only without it.
Each operator is shown to be `Onward` by a lemma of its own (`LookIs`, `TurnHeadIs`, `AfterTurnsIs`, ...),
each step of the loop by one (`LoopSteps`), and `OnwardKeeps` derives the invariant from that, without looking at the
operators again. `StopIsFinal` follows from `Onward` as well, and *AwayInv* says that a turn stays in its place while it
waits for its chat.

`ExecSandboxProofs` proves, for any numbers of commands and of Python's calls, any levels and any of
them strict, from `SandboxAssumption` (the three kinds of calls have ids of their own),
`StoppedWriteNothingEver`, `StoppedCodeEndsAlways`, `ReadyIsAlwaysThere`, `WaitIsAlwaysSettled` and
the type invariant. A task is a composition of operators on one record, and a reset runs Python's call
back from its middle, so the proof follows the parts of a task: one lemma for each operator says what it
leaves from what it finds, *Dropped* holds between the two halves of `resetSandbox`, *Idle* when no worker
is left, and *Good*, the inductive invariant, between two tasks. Its parts that the properties do not say
themselves: what is stopped is exactly what runs without a caller, so the refusal of writes looks at the
right set (*CodeOK*); a command is in the frame from the moment its caller goes on, not before, which is
why the set of stopped commands never names code that has yet to come (*RunOK*); whoever waits has a load
timer (*WaitOK*); without a call that will answer there is no stopped code (*EndsOK*, restored by
`Restart`). For Python: a worker has a frame, its start is never refused, and a call is left to end it
(*WorkerOK*); whatever waits beside the start of the worker waits in front of it and loads with it
(*OrderOK*), so a `py-stop` of the worker before never reaches the one that runs; and the worker that says
that it is ready is the one that Python has, since no start is to come while it speaks (*ReadyOK*). In
the model the `onerror` of a worker whose first call fails (`exec-sandbox-host.ts:274`) finds nothing to end, for
a reset is all that makes that call fail and has ended the worker before. That is no statement about the
code, where the first call can also fail otherwise (what the model leaves out). To reason about the order of Python's
calls, `order` is the relation of what waits before what; the model needs no more of it than that.

`CloudSyncProofs` proves, for any numbers of devices, edits and names for copies, from `SyncAssumption`
(a path left alone is told apart from any content): `TypeCorrect` (`TypeOK`), `EditsAreKept`
(`EditsKept`), `ManifestCanBeFetched` (what the manifest names, the Worker has, with the content of that
name; it is not checked on its own) and `EditsHavePlaces`, the inductive invariant `IInv`. `EditsKept` says that
an edit is somewhere, and not why the step that overwrites it there leaves it elsewhere. `IInv` follows
each edit that is not exposed. It is in the file of a device or of the manifest, or in a copy
(*Somewhere*). What a base, a comparison or a plan says of it is still so, or a copy has it
(*Followed*): a base was in the workspace and in the manifest at once (*Based*), a dialog shows what is there
or `exposed` has it (*Compared*), and a plan that takes it out of the manifest's file or of the
workspace's writes it to a copy (*Working*). Until the batch is written such a copy is only on its way
(*Travels*), which is why a failure there exposes what the new manifest leaves out, and no more. *Planned* says
that a plan changes nothing but the paths it writes and has looked at, *Backed* that what it will put into the
manifest is uploaded first.

Only model-checked, and why: the liveness properties and everything about `TextMerge`, which has
recursive operators (both out of the prover's reach).

## What the models leave out

- `ChatLease`: a process that still sees an older record than another wrote (the storage has one
  content for all tabs here), a page suspended between two accesses of one function (time does not
  pass there), and the several reads of the read-back (`chat-lease.ts:65`), which are one look.
- `SessionStore`: one load at a time; a transaction that commits but is reported lost; the
  operations of other chats (the queue is per chat). An operation is one transaction, created when
  the adapter is called; the calls that wait for a reopened connection go on together, in the order they
  came (`revive` is shared by them, `idb-session-adapter.ts:83-90`). `ReopenFails` rejects the waiting calls
  one by one, which allows more interleavings than the code has.
- `ChatCache`: deletion, project import, the workflow mode's variant of `saveHistory`, and the saved
  markup of the messages; two loads of one tab at once (`chat-state.ts:151-156` lets the later
  one win), and the order in which a prune comes to several chats. That no two turns under the lease run
  at once is assumed here and is the subject of `ChatLease`, with its exceptions.
- `TurnLifecycle`: background jobs (`aiJob`), slash commands, steering and editing of the queue,
  rewind and rerun of a whole checkpoint (`applyCheckpoint` waits like a rerun, and cuts the history
  by an index it read before), chats deleted elsewhere, the terminal UI's copy of the workspace
  before a queued turn, the loading of a history while a queued turn begins (`_processQueue` does
  not ask `isChatLoading`), Stop after the step (it does not change the flags here), and a second text
  typed while a send waits. The lease is reduced to who its record names; a page of this tab that
  is frozen past the lease time belongs to `ChatLease`.

- `EventLog`: the surface of a session (which of its events the model sees, `replace`), the length of
  events and files (whether a file is full is left open), `prune()`, and a session opened twice in one
  process. `FlushIsBarrier` excuses a flush that returns while a drain runs: it then waited for the
  same drain as a timer did, and the timer's callback took the queue first (`session-persistence.ts:132`).
  `NothingLost` leaves out sessions whose file lacks what they began with: all forks, and sessions
  resumed from a file that does not end in a mark, since the new mark is not written.
- `EndpointSlot`: which endpoint is chosen, cooldowns and rotation; a caller's retries appear as
  calls.
- `ExecSandbox`: the requests for the network and the package cache, the runs of Python and their
  results, errors of a worker that is up, and a write that lands after it was let through
  (`exec-sandbox-host.ts:79`). A level changed in another tab is noticed by the next call that makes
  a frame (`exec-sandbox-host.ts:145`), and so in the model.
- `GoalLoop`: the terminal's host; two tabs that resume one goal (`goal.ts:235`). The model has the
  Clear that goes through during the read of a resume, after which the loop writes the goal back
  (`goal.ts:237`, `263`), and the Stop that is not heard in that time (`goal.ts:246`); no property
  forbids them, for no comment promises otherwise.
- `Runner`: what the gates look at; task files deleted or edited on the board during a run, tasks
  the agent marks beside its own, and the state in-review (taken as in-progress); the Web Lock that
  keeps a second tab away, and with it a Stop pressed before it is granted, which the loop
  forgets (`runner.ts:231`); restart, which is Stop and Start. Four things it has, and no property
  forbids: a message typed as the answer to a pause for failures or storage, or into the reply box
  of the user's own pause, only resumes the run; a message sent in the last turn of an episode becomes a
  turn of the next task, or is gone with the run (`runner.ts:187` promises a turn "once the current
  step ends"). One it leaves open is the reason why the chat is not quiet: `_waitUntilQuiet`
  (`runner.ts:445`) waits for an empty message queue, which `_processQueue` does not serve while the
  runner has the chat (`agent-core.ts:983`), so a queued message holds a run up for five minutes at
  each wait and fails its tasks.
- `CloudSync`: the sync with a local folder, whose dialog and plan are the same (the names of copies meet there
  too, `workspace.ts:1049`), import and export; the cache of hashes, tokens, and the Worker's clean-up and
  removal of projects, which no client calls; merges with overlapping edits, which leave both versions between markers
  (a merge here keeps all edits); a second sync on one device while one works (Cancel closes the dialog
  and does not end what Apply began); an agent that holds a file's old content across a batch. The Worker
  compares etags, and the manifest has times: it refuses more often than the model, which compares contents.
- `Workers`: binary files, and files that cannot be read behind a code run, which are taken for such; the
  `catch` of the last comparison (`workers.ts:1840`), as every call inside has one of its own; a merge of
  a model that drops edits and is accepted for its length (`workers.ts:1453-1456`): `Merged` is what such
  a merge is asked for, and no property says that a model gives it; large workspaces, whose files are not copied before code runs and whose
  snapshot is read late; a project that is switched during the call; workers started by workers; the
  conversation, its budgets and Stop, which end an attempt as `Finish` or `Fail` does; failures of
  single writes in `Apply` and `PutBack`. Which of two waiting workers gets the run lock is left open
  (the code serves them in order).

## The plan

Order of work: what loses a user's messages first, then what stops the program, then the rest.

1. `ChatLease` with proofs; `OrderedHistory` and `SessionStore`; `ChatCache`; `TurnLifecycle` with
   proofs; `EventLog`. *Done.*
2. `EndpointMutex` and `EndpointSlot` with proofs; `ExecSandbox`; `GoalLoop` with proofs;
   `Runner`. *Done.*
3. `aiJob` in `TurnLifecycle`: runner and goal own the chat; a queued message waits for them, and
   they for it.
4. The surface of a session (`session.ts`): replacements against a reference projection, and forks
   that replay them.
5. `CloudSync`. *Done.* The folder sync beside it.
6. `Workers` and the three-way merge of `diff-utils.ts`. *Done.* Workers in a large workspace; routing
   behind a rate limit.

The number of runs stays small: an exception that is understood becomes a named race of a passing
property. A run of its own has only what a comment says in so many words and the code does not keep.

Theorem worth proving next: that a flush that was called is always driven, waiting or woken.
