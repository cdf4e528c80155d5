------------------------------- MODULE Workers -------------------------------
(***************************************************************************)
(* One run_workers call: workers that edit the files of one project side   *)
(* by side.  A worker's edits are staged and reach the workspace when all  *)
(* workers are through; only for the code it executes are they written     *)
(* there, and what that code changes is staged too.  A worker that fails   *)
(* is put back from a snapshot and tried again.  In the end every path is  *)
(* merged over its versions and written, unless somebody else changed it.  *)
(* The person in the editor saves files all along.                         *)
(*                                                                         *)
(* A text is the set of the edits it carries; the project's own text is    *)
(* the empty one.  Files are small enough to be copied before any code     *)
(* runs, and the listing of the project was taken.                         *)
(***************************************************************************)
EXTENDS Integers, FiniteSets

CONSTANTS
  Ids,         \* the workers of the call
  Paths,
  Initial,     \* the paths that have a file when the call begins
  Person,      \* who saves in the editor
  Absent,      \* the content of a path without a file; null in a staging
  Unknown,     \* no entry in a staging, no copy in the snapshot
  MaxRetries,
  MaxEdits,    \* bound on the edits, those of the person included
  MaxExtras,   \* bound on deletions, undone writes, code runs and failures together
  MaxEvents    \* bound on edits and extras together

ASSUME WorkersAssumption ==
  /\ Initial \subseteq Paths /\ Person \notin Ids /\ IsFiniteSet(Ids)
  /\ {MaxRetries, MaxEdits, MaxExtras, MaxEvents} \subseteq Nat

VARIABLES
  disk,      \* disk[p]: the workspace
  moved,     \* the paths written since the listing at the start: their timestamp is another
  snapshot,  \* snapshot[p]: the first text read of p, kept
  staging,   \* staging[w][p]: what w made of p
  onDisk,    \* onDisk[w]: the paths of w's staging that w's code runs put in the workspace
  at,        \* at[w]: where w is
  attempt,   \* attempt[w]: how often w was started again
  listing,   \* the files before the code that executes
  since,     \* the paths changed since that listing
  commit,    \* the path that is about to be written
  settled,   \* the paths that are through
  reported,  \* those of them that the result lists as not applied
  made,      \* the edits made so far (history)
  extras,    \* how often something of MaxExtras happened
  live,      \* those of them that stand: not undone, nor of an attempt that failed (history)
  exposed,   \* edits that a race below may lose (history)
  leaked     \* edits that a race below may leave behind (history)

work == <<snapshot, staging, onDisk, at, attempt, listing>>
ending == <<commit, settled, reported>>
history == <<made, live, exposed, leaked>>
vars == <<disk, moved, work, since, ending, history, extras>>

Edits == [by : Ids \cup {Person}, path : Paths, n : 1..MaxEdits]
Texts == SUBSET Edits
Contents == Texts \cup {Absent}
Entries == Contents \cup {Unknown}

ASSUME ContentAssumption ==
  /\ \A text \in Texts : text # Absent /\ text # Unknown
  /\ Absent # Unknown

NoCommit == [path |-> Unknown, content |-> Unknown, kept |-> FALSE, seen |-> Unknown]

Text(c) == IF c = Absent THEN {} ELSE c
By(w, S) == {e \in S : e.by = w}
On(p, S) == {e \in S : e.path = p}
Running == {w \in Ids : at[w] = "running"}
Staged(w) == {p \in Paths : staging[w][p] # Unknown}

TypeOK ==
  /\ disk \in [Paths -> Contents] /\ moved \subseteq Paths
  /\ snapshot \in [Paths -> Entries]
  /\ staging \in [Ids -> [Paths -> Entries]] /\ onDisk \in [Ids -> SUBSET Paths]
  /\ at \in [Ids -> {"working", "running", "undoing", "done", "failed"}]
  /\ attempt \in [Ids -> 0..MaxRetries]
  /\ listing \subseteq Paths /\ since \subseteq Paths
  /\ \/ commit = NoCommit
     \/ commit \in [path : Paths, content : Contents, kept : BOOLEAN, seen : Contents]
  /\ reported \subseteq settled /\ settled \subseteq Paths
  /\ live \subseteq made /\ exposed \subseteq made /\ leaked \subseteq made /\ made \subseteq Edits
  /\ extras \in 0..MaxExtras
  /\ Cardinality(Running) <= 1
  /\ \A w \in Ids : at[w] = "failed" => Staged(w) = {} /\ onDisk[w] = {}

Init ==
  /\ disk = [p \in Paths |-> IF p \in Initial THEN {} ELSE Absent]
  /\ moved = {}
  /\ snapshot = [p \in Paths |-> IF p \in Initial THEN Unknown ELSE Absent]
  /\ staging = [w \in Ids |-> [p \in Paths |-> Unknown]]
  /\ onDisk = [w \in Ids |-> {}]
  /\ at = [w \in Ids |-> "working"]
  /\ attempt = [w \in Ids |-> 0]
  /\ listing = {} /\ since = {}
  /\ commit = NoCommit /\ settled = {} /\ reported = {}
  /\ made = {} /\ extras = 0 /\ live = {} /\ exposed = {} /\ leaked = {}

-----------------------------------------------------------------------------
(* Writes.  Any write to the workspace changes the timestamp, and is among  *)
(* the changes of the code that executes, whoever wrote.                    *)

Put(p, c) ==
  /\ disk' = [disk EXCEPT ![p] = c]
  /\ moved' = moved \cup {p}
  /\ since' = IF Running = {} THEN {} ELSE since \cup {p}

Events == Cardinality(made) + extras

\* A new edit of w on p.
MakeEdit(w, p, e) ==
  /\ Cardinality(made) < MaxEdits /\ Events < MaxEvents
  /\ e = [by |-> w, path |-> p, n |-> Cardinality(made) + 1]
  /\ made' = made \cup {e}
  /\ live' = live \cup {e}
  /\ UNCHANGED extras

Extra ==
  /\ extras < MaxExtras /\ Events < MaxEvents
  /\ extras' = extras + 1

\* The person's edits on p that a write of c loses.
Overwritten(p, c) == By(Person, Text(disk[p])) \ Text(c)

-----------------------------------------------------------------------------
(* The tools of a worker work on its staging, over the snapshot. *)

\* LazySnapshot.get: a file is read once, when it is first asked for.
Get(p) == IF snapshot[p] = Unknown THEN disk[p] ELSE snapshot[p]

Edit(w, p) ==
  \E e \in Edits :
    LET old == IF staging[w][p] # Unknown THEN staging[w][p] ELSE Get(p)
    IN /\ at[w] = "working"
       /\ MakeEdit(w, p, e)
       /\ snapshot' = IF staging[w][p] # Unknown THEN snapshot ELSE [snapshot EXCEPT ![p] = Get(p)]
       /\ staging' = [staging EXCEPT ![w][p] = Text(old) \cup {e}]
       /\ UNCHANGED <<disk, moved, onDisk, at, attempt, listing, since, ending, exposed, leaked>>

Remove(w, p) ==
  /\ Extra
  /\ at[w] = "working"
  /\ staging' = [staging EXCEPT ![w][p] = Absent]
  /\ live' = live \ On(p, By(w, live))
  /\ UNCHANGED <<disk, moved, snapshot, onDisk, at, attempt, listing, since, ending,
                 made, exposed, leaked>>

\* The staged entry goes.  What the worker's code run wrote of it stays in the workspace.
UndoWrite(w, p) ==
  /\ Extra
  /\ at[w] = "working" /\ staging[w][p] # Unknown
  /\ staging' = [staging EXCEPT ![w][p] = Unknown]
  /\ live' = live \ On(p, By(w, live))
  /\ leaked' = IF p \in onDisk[w] THEN leaked \cup On(p, By(w, made)) ELSE leaked
  /\ UNCHANGED <<disk, moved, snapshot, onDisk, at, attempt, listing, since, ending, made, exposed>>

-----------------------------------------------------------------------------
(* Executing code: one worker at a time writes its staging to the           *)
(* workspace, lets the code run there, and stages what has changed.         *)

\* Every file is copied before code can change it.  Nobody asks whether the person changed a file
\* since: what they saved and this staging has not is overwritten.
Apply(w) ==
  /\ Extra
  /\ at[w] = "working" /\ Running = {}
  /\ snapshot' = [p \in Paths |-> Get(p)]
  /\ disk' = [p \in Paths |-> IF p \in Staged(w) THEN staging[w][p] ELSE disk[p]]
  /\ moved' = moved \cup Staged(w)
  /\ listing' = {p \in Paths : disk'[p] # Absent}
  /\ since' = {}
  /\ at' = [at EXCEPT ![w] = "running"]
  /\ exposed' = exposed \cup UNION {Overwritten(p, staging[w][p]) : p \in Staged(w)}
  /\ UNCHANGED <<staging, onDisk, attempt, ending, made, live, leaked>>

\* The code works on the files of everybody.
CodeWrites(w, p) ==
  \E e \in Edits :
    /\ at[w] = "running"
    /\ MakeEdit(w, p, e)
    /\ Put(p, Text(disk[p]) \cup {e})
    /\ UNCHANGED <<work, ending, exposed, leaked>>

CodeRemoves(w, p) ==
  /\ Extra
  /\ at[w] = "running" /\ disk[p] # Absent
  /\ Put(p, Absent)
  /\ live' = live \ On(p, By(w, live))
  /\ exposed' = exposed \cup Overwritten(p, Absent)
  /\ UNCHANGED <<work, ending, made, leaked>>

\* A file that came and went is not noticed.  A text that others have edits in is staged with them.
Collect(w) ==
  LET changed == {p \in since : disk[p] # Absent \/ p \in listing}
  IN /\ at[w] = "running"
     /\ staging' = [staging EXCEPT ![w] = [p \in Paths |-> IF p \in changed THEN disk[p] ELSE @[p]]]
     /\ onDisk' = [onDisk EXCEPT ![w] = @ \cup Staged(w) \cup changed]
     /\ at' = [at EXCEPT ![w] = "working"]
     /\ listing' = {} /\ since' = {}
     /\ leaked' = leaked \cup UNION {Text(disk[p]) \ (By(w, made) \cup By(Person, made)) :
                                    p \in changed}
     /\ UNCHANGED <<disk, moved, snapshot, attempt, ending, made, live, exposed, extras>>

\* The run throws, or the files cannot be listed behind it: nothing is staged of what the code
\* changed, and nobody will put it back.
RunFails(w) ==
  LET unknown == UNION {On(p, By(w, made)) : p \in since}
  IN /\ Extra
     /\ at[w] = "running"
     /\ onDisk' = [onDisk EXCEPT ![w] = @ \cup Staged(w)]
     /\ at' = [at EXCEPT ![w] = "working"]
     /\ listing' = {} /\ since' = {}
     /\ exposed' = exposed \cup unknown
     /\ leaked' = leaked \cup unknown
     /\ UNCHANGED <<disk, moved, snapshot, staging, attempt, ending, made, live>>

-----------------------------------------------------------------------------
(* The end of an attempt. *)

\* Whatever status it reports, a worker that ends has its staging applied.
Finish(w) ==
  /\ at[w] = "working"
  /\ at' = [at EXCEPT ![w] = "done"]
  /\ UNCHANGED <<disk, moved, snapshot, staging, onDisk, attempt, listing, since, ending,
                 history, extras>>

\* A request to the model throws.
Fail(w) ==
  /\ Extra
  /\ at[w] = "working"
  /\ at' = [at EXCEPT ![w] = "undoing"]
  /\ live' = live \ By(w, live)
  /\ UNCHANGED <<disk, moved, snapshot, staging, onDisk, attempt, listing, since, ending,
                 made, exposed, leaked>>

\* LazySnapshot.preimage: what p was when the call began.
Preimage(p) == snapshot[p]

\* One file of a failed attempt goes back.  This takes no lock: it undoes what the person saved
\* there meanwhile, and in the middle of another worker's code run it also undoes what that worker
\* has there, and becomes part of what that run changed.
PutBack(w, p) ==
  /\ at[w] = "undoing" /\ p \in onDisk[w]
  /\ onDisk' = [onDisk EXCEPT ![w] = @ \ {p}]
  /\ Put(p, Preimage(p))
  /\ exposed' = exposed \cup Overwritten(p, Preimage(p))
                        \cup UNION {On(p, By(v, made)) : v \in Running}
  /\ UNCHANGED <<snapshot, staging, at, attempt, listing, ending, made, live, leaked, extras>>

\* Planted bug: what a failed attempt staged is still there for the next.
Bug_EndAttempt(w) ==
  /\ at[w] = "undoing" /\ onDisk[w] = {}
  /\ \/ /\ attempt[w] < MaxRetries
        /\ attempt' = [attempt EXCEPT ![w] = @ + 1]
        /\ at' = [at EXCEPT ![w] = "working"]
     \/ /\ at' = [at EXCEPT ![w] = "failed"]
        /\ UNCHANGED attempt
  /\ UNCHANGED <<disk, moved, snapshot, staging, onDisk, listing, since, ending, history, extras>>

\* The attempt is over: its staging is gone, and there is another, unless it was the last or its
\* error is permanent.
EndAttempt(w) ==
  /\ at[w] = "undoing" /\ onDisk[w] = {}
  /\ staging' = [staging EXCEPT ![w] = [p \in Paths |-> Unknown]]
  /\ \/ /\ attempt[w] < MaxRetries
        /\ attempt' = [attempt EXCEPT ![w] = @ + 1]
        /\ at' = [at EXCEPT ![w] = "working"]
     \/ /\ at' = [at EXCEPT ![w] = "failed"]
        /\ UNCHANGED attempt
  /\ UNCHANGED <<disk, moved, snapshot, onDisk, listing, since, ending, history, extras>>

-----------------------------------------------------------------------------
(* The end of the call. *)

AllThrough == \A w \in Ids : at[w] \in {"done", "failed"}
Written == {p \in Paths : \E w \in Ids : p \in Staged(w)}
Authors(p) == {w \in Ids : p \in Staged(w)}
Versions(p) == {staging[w][p] : w \in Authors(p)}
Conflicting == {p \in Written : Cardinality(Versions(p)) > 1}
Ended == AllThrough /\ commit = NoCommit /\ settled = Written

\* tryMerge, and what a model's merge is taken for: every edit of a side, less those a side dropped.
Merged(base, sides) == (UNION sides) \ {e \in base : \E s \in sides : e \notin s}

\* One worker's text against deletions.
Writers(p) == {w \in Authors(p) : staging[w][p] # Absent}
OneAgainstDeletions(p) == Cardinality(Writers(p)) = 1 /\ Authors(p) # Writers(p)

\* The paths with texts that may need a model.
Differing == {p \in Conflicting : Cardinality(Versions(p) \ {Absent}) > 1}

\* resolveFileConflicts on one path: the contents it can end with, and whether it says that the
\* others were dropped.  One text wins over deletions, which is said only beside a path that a model
\* merged.  Two are merged, unless they change the same lines; then, and with more, a model
\* merges, or one version is kept.
Resolutions(p) ==
  LET texts == Versions(p) \ {Absent}
      said == {k \in BOOLEAN : k => OneAgainstDeletions(p) /\ Differing # {}}
  IN IF Cardinality(texts) <= 1
       THEN [content : IF texts = {} THEN Versions(p) ELSE texts, kept : said]
       ELSE {[content |-> Merged(Text(Get(p)), texts), kept |-> FALSE]}
              \cup [content : texts, kept : {TRUE}]

\* Planted bug: the files are not compared before they are written.
Bug_ChangedOutside(p, c, stamped) == FALSE

\* Is what p holds neither from the start of the call nor what is to be written?  Without a
\* timestamp the text is compared with the one that was read first, perhaps only now.
ChangedOutside(p, c, stamped) ==
  IF p \notin Initial
    THEN disk[p] # Absent /\ (c = Absent \/ disk[p] # c)
    ELSE /\ disk[p] # c
         /\ disk[p] = Absent \/ (IF stamped THEN p \in moved ELSE disk[p] # Get(p))

\* The next path, those without a conflict first.
NextPath(p) ==
  /\ AllThrough /\ commit = NoCommit
  /\ p \in Written \ settled
  /\ p \in Conflicting => Written \ Conflicting \subseteq settled

\* Without timestamps, what the person saved before the first read of p passes for the text of the
\* start, and goes with a content that lacks it.
Decide(p) ==
  /\ NextPath(p)
  /\ \E r \in Resolutions(p), stamped \in BOOLEAN :
       IF ChangedOutside(p, r.content, stamped)
         THEN /\ settled' = settled \cup {p}
              /\ reported' = reported \cup {p}
              /\ UNCHANGED <<commit, exposed>>
         ELSE /\ commit' = [path |-> p, content |-> r.content, kept |-> r.kept, seen |-> disk[p]]
              /\ exposed' = IF stamped THEN exposed ELSE exposed \cup Overwritten(p, r.content)
              /\ UNCHANGED <<settled, reported>>
  /\ UNCHANGED <<disk, moved, work, since, made, live, leaked, extras>>

\* The model did not answer, or not with files: nothing is written for what it was asked to merge.
Unresolved(p) ==
  /\ NextPath(p) /\ Cardinality(Versions(p) \ {Absent}) > 1
  /\ settled' = settled \cup {p}
  /\ reported' = reported \cup {p}
  /\ UNCHANGED <<disk, moved, work, since, commit, history, extras>>

\* What the person saved between the check and the write is overwritten.
Write ==
  LET p == commit.path
  IN /\ commit # NoCommit
     /\ Put(p, commit.content)
     /\ commit' = NoCommit
     /\ settled' = settled \cup {p}
     /\ reported' = IF commit.kept THEN reported \cup {p} ELSE reported
     /\ exposed' = exposed \cup (Overwritten(p, commit.content) \ Text(commit.seen))
     /\ UNCHANGED <<work, made, live, leaked, extras>>

\* The workspace refuses the write.
WriteFails ==
  /\ commit # NoCommit
  /\ commit' = NoCommit
  /\ settled' = settled \cup {commit.path}
  /\ reported' = reported \cup {commit.path}
  /\ UNCHANGED <<disk, moved, work, since, history, extras>>

-----------------------------------------------------------------------------
\* The person saves what the editor shows, with an edit.
Save(p) ==
  \E e \in Edits :
    /\ ~Ended
    /\ MakeEdit(Person, p, e)
    /\ Put(p, Text(disk[p]) \cup {e})
    /\ UNCHANGED <<work, ending, exposed, leaked>>

Next ==
  \/ \E w \in Ids : Apply(w) \/ Collect(w) \/ RunFails(w) \/ Finish(w) \/ Fail(w) \/ EndAttempt(w)
  \/ \E w \in Ids, p \in Paths :
       Edit(w, p) \/ Remove(w, p) \/ UndoWrite(w, p) \/ CodeWrites(w, p) \/ CodeRemoves(w, p)
         \/ PutBack(w, p)
  \/ \E p \in Paths : Decide(p) \/ Unresolved(p) \/ Save(p)
  \/ Write \/ WriteFails
  \/ Ended /\ UNCHANGED vars

Spec == Init /\ [][Next]_vars

-----------------------------------------------------------------------------
\* When the call has ended, no edit got lost or stayed behind without a word.  A path that was
\* written, or not touched, carries exactly the edits that stand: those of the workers that ended,
\* and none that was undone or is of an attempt that failed.  A path that is reported may lack the
\* workers' edits, but never the person's.  The races that are excepted are named at the actions
\* that run into them: the steps that set exposed and leaked.
EditsAccounted ==
  Ended => \A p \in Paths : \A e \in On(p, made) :
    /\ e \in live => \/ e \in Text(disk[p]) \/ e \in exposed
                     \/ p \in reported /\ e.by # Person
    /\ e \notin live => \/ e \notin Text(disk[p]) \/ e \in leaked
                        \/ p \in reported
=============================================================================
