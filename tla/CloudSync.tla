------------------------------ MODULE CloudSync ------------------------------
(***************************************************************************)
(* The files of one project on several devices and on the Worker.  The     *)
(* Worker keeps a manifest (path -> hash) and the blobs the hashes stand   *)
(* for.  Syncing is a dialog on one device: it compares the workspace with *)
(* the manifest against the base (what both sides last agreed on), lets    *)
(* the reader choose, prepares what travels, sends blobs and a new         *)
(* manifest, writes the workspace, and notes the new base.  Agents edit    *)
(* the workspace meanwhile, and so do readers who sync other devices.      *)
(*                                                                         *)
(* A content is the set of the edits it carries, and is its own hash; a    *)
(* path without a file has the empty content.  Path 0 is a file, path i    *)
(* the i-th name that keepBothName finds for a copy of it.                 *)
(***************************************************************************)
EXTENDS Integers, FiniteSetsExt, Functions

CONSTANTS
  Devices,
  MaxCopies,  \* bound on the names for copies; a copy is not copied again
  MaxEdits,   \* bound on the edits
  Untouched,  \* a path that a batch, or the undo record, leaves alone
  MaxExtras,  \* bound on what happens beside edits and syncs with the proposed actions
  MaxEvents   \* bound on both together

ASSUME SyncAssumption ==
  /\ {MaxCopies, MaxEdits, MaxExtras, MaxEvents} \subseteq Nat
  /\ \A c \in SUBSET (1..MaxEdits) : c # Untouched

VARIABLES
  manifest,  \* the manifest of the project on the Worker
  blobs,     \* the Worker's blobs: <<name, content>>
  file,      \* file[d]: the workspace of d
  base,      \* base[d]: what d and the Worker last agreed on, in localStorage
  undo,      \* undo[d]: what the last sync of d replaced
  at,        \* at[d]: where the sync of d is
  sync,      \* sync[d]: what it works with
  made,      \* the edits made so far (history)
  extras,    \* the other things that happened so far
  exposed    \* of the edits, those that somebody gave up, or that a race below puts at risk (history)

worker == <<manifest, blobs>>
vars == <<manifest, blobs, file, base, undo, at, sync, made, extras, exposed>>

Paths == 0..MaxCopies
Contents == SUBSET (1..MaxEdits)
NoFile == {}
Folder == [Paths -> Contents]
Patch == [Paths -> Contents \cup {Untouched}]
Nothing == [p \in Paths |-> Untouched]
Empty == [p \in Paths |-> NoFile]

\* The edits a folder carries.
Carried(f) == UNION Range(f)

Syncs ==
  [ seen : Folder,          \* the manifest, and
    ws : Folder,            \* the workspace, as they were compared
    checked : Folder,       \* the workspace when Apply was pressed
    target : {"both", "cloud", "workspace"},  \* Apply, or one side replaces the other
    todo : SUBSET Paths,    \* the items that are not prepared
    names : SUBSET Paths,   \* taken names
    files : Folder,         \* the manifest, and
    after : Folder,         \* the workspace, as they will be
    writes : Patch,         \* the batch for the workspace
    uploads : SUBSET (Contents \X Contents) ]
NoSync == [seen |-> Empty, ws |-> Empty, checked |-> Empty, target |-> "both", todo |-> {},
           names |-> {}, files |-> Empty, after |-> Empty, writes |-> Nothing, uploads |-> {}]

TypeOK ==
  /\ manifest \in Folder /\ blobs \subseteq Contents \X Contents
  /\ file \in [Devices -> Folder] /\ base \in [Devices -> Folder]
  /\ undo \in [Devices -> Patch]
  /\ at \in [Devices -> {"idle", "choosing", "preparing", "writing", "batch", "noting"}]
  /\ sync \in [Devices -> Syncs]
  /\ made \in 0..MaxEdits /\ extras \in 0..MaxExtras /\ exposed \subseteq 1..made
  /\ \A d \in Devices : at[d] = "idle" <=> sync[d] = NoSync

Init ==
  /\ manifest = Empty /\ blobs = {} /\ made = 0 /\ extras = 0 /\ exposed = {}
  /\ file = [d \in Devices |-> Empty] /\ base = file
  /\ undo = [d \in Devices |-> Nothing]
  /\ at = [d \in Devices |-> "idle"] /\ sync = [d \in Devices |-> NoSync]
-----------------------------------------------------------------------------
\* planSync: the actions that may be proposed for a path with the contents w in the
\* workspace, l in the cloud and b in the base.  Whether a conflict can be merged depends
\* on the kept text of the base and on the places of the edits.
Proposed(w, l, b) ==
  CASE l = NoFile \/ (w # NoFile /\ l = b) -> {"to-local"}
    [] w = NoFile \/ w = b -> {"to-workspace"}
    [] b = NoFile -> {"keep-both"}
    [] OTHER -> {"merge", "keep-both"}

\* The other actions that the dialog offers.
Offered(w, l, b) ==
  {"skip"} \cup
  CASE w # NoFile /\ l # NoFile -> {"to-local", "to-workspace"}
    [] w # NoFile /\ l = NoFile -> IF b = NoFile THEN {} ELSE {"delete-workspace"}
    [] OTHER -> IF b = NoFile THEN {} ELSE {"delete-local"}

\* _replaceItems
Replacing(target, w, l) ==
  IF target = "cloud"
  THEN IF w = NoFile THEN "delete-local" ELSE "to-local"
  ELSE IF l = NoFile THEN "delete-workspace" ELSE "to-workspace"

\* The actions that the sync of d may take for path p.
Actions(d, p) ==
  LET s == sync[d]  w == s.ws[p]  l == s.seen[p]  b == base[d][p] IN
  IF s.target # "both" THEN {Replacing(s.target, w, l)}
  ELSE Proposed(w, l, b) \cup Offered(w, l, b)

\* What the reader gives up by an action that was not proposed.
GivenUp(act, w, l) ==
  CASE act = "to-local" -> l \ w
    [] act = "to-workspace" -> w \ l
    [] act \in {"delete-local", "delete-workspace"} -> w \cup l
    [] OTHER -> {}

\* tryMerge: what neither side dropped and what either side added to the base.
Merged(w, l, b) == (w \cap l) \cup (w \ b) \cup (l \ b)

\* nextBase
NextBase(w, l, prev) == [p \in Paths |-> IF w[p] = l[p] THEN w[p] ELSE prev[p]]

\* keepBothName: the copies of path 0 whose names are free.
FreeNames(names) == Paths \ (names \cup {0})

\* What a GET of the blob h answers.
Fetched(h) == {x[2] : x \in {y \in blobs : y[1] = h}}

\* The dialog is closed or its work is over.
Done(d) == at' = [at EXCEPT ![d] = "idle"] /\ sync' = [sync EXCEPT ![d] = NoSync]
Expose(edits) == exposed' = exposed \cup edits
Extra == extras < MaxExtras /\ made + extras < MaxEvents /\ extras' = extras + 1
-----------------------------------------------------------------------------
\* An agent, or the user, edits or creates a file, also while a sync works.
Write(d, p) ==
  /\ made < MaxEdits /\ made + extras < MaxEvents /\ made' = made + 1
  /\ IF at[d] \in {"idle", "choosing"} THEN UNCHANGED extras ELSE Extra
  /\ file' = [file EXCEPT ![d][p] = @ \cup {made'}]
  /\ UNCHANGED <<worker, base, undo, at, sync, exposed>>

Delete(d, p) ==
  /\ Extra
  /\ file[d][p] # NoFile
  /\ file' = [file EXCEPT ![d][p] = NoFile]
  /\ Expose(file[d][p])
  /\ UNCHANGED <<worker, base, undo, at, sync, made>>

\* openCloudSyncDialog: compares; where nothing differs the base is brought up to date.
Compare(d) ==
  /\ at[d] = "idle"
  /\ IF file[d] = manifest
     THEN /\ base' = [base EXCEPT ![d] = NextBase(file[d], manifest, @)]
          /\ UNCHANGED <<at, sync>>
     ELSE /\ at' = [at EXCEPT ![d] = "choosing"]
          /\ sync' = [sync EXCEPT ![d] = [NoSync EXCEPT !.seen = manifest, !.ws = file[d]]]
          /\ UNCHANGED base
  /\ UNCHANGED <<worker, file, undo, made, extras, exposed>>

\* Planted bug: the dialog goes and the comparison stays.
Bug_Cancel(d) ==
  /\ at[d] = "choosing"
  /\ at' = [at EXCEPT ![d] = "idle"]
  /\ UNCHANGED <<worker, file, base, undo, sync, made, extras, exposed>>

Cancel(d) ==
  /\ at[d] = "choosing"
  /\ Done(d)
  /\ UNCHANGED <<worker, file, base, undo, made, extras, exposed>>

Begin(d, target, items, checked) ==
  /\ at[d] = "choosing"
  /\ at' = [at EXCEPT ![d] = "preparing"]
  /\ sync' = [sync EXCEPT ![d].target = target, ![d].todo = items, ![d].checked = checked,
                          ![d].names = {p \in Paths : file[d][p] # NoFile},
                          ![d].files = sync[d].seen, ![d].after = sync[d].ws]
  /\ UNCHANGED <<worker, file, base, undo, made, exposed>>

Items(d) == {p \in Paths : sync[d].ws[p] # sync[d].seen[p]}

\* Apply: files that are not what was compared are left out.
Apply(d) ==
  /\ Begin(d, "both", {p \in Items(d) : file[d][p] = sync[d].ws[p]}, file[d])
  /\ UNCHANGED extras

\* Replace cloud, Replace Workspace: nothing is checked.
Replace(d) ==
  /\ Extra
  /\ \E target \in {"cloud", "workspace"} : Begin(d, target, Items(d), sync[d].ws)
-----------------------------------------------------------------------------
\* The blobs to send: those the manifest does not name.
Sending(s, hash, content) ==
  IF hash \in Range(s.seen) THEN s.uploads
  ELSE {u \in s.uploads : u[1] # hash} \cup {<<hash, content>>}

\* push: the file as it is now goes up under the hash it was compared with.
Push(s, p, content) ==
  IF content = NoFile THEN s
  ELSE [s EXCEPT !.files[p] = s.ws[p], !.uploads = Sending(s, s.ws[p], content)]

\* What becomes of s when action act is prepared for path p.
Prepared(d, s, p, act) ==
  LET w == s.ws[p]  l == s.seen[p]  m == Merged(w, l, base[d][p]) IN
  CASE act = "skip" -> {s}
    [] act = "to-workspace" -> {[s EXCEPT !.writes[p] = c, !.after[p] = l] : c \in Fetched(l)}
    [] act = "to-local" -> {Push(s, p, file[d][p])}
    [] act = "keep-both" ->
         { Push([s EXCEPT !.writes[Min(FreeNames(s.names))] = c,
                          !.names = @ \cup {Min(FreeNames(s.names))}], p, file[d][p]) :
             c \in IF p = 0 /\ FreeNames(s.names) # {} THEN Fetched(l) ELSE {} }
    [] act = "merge" -> {[s EXCEPT !.writes[p] = m, !.after[p] = m, !.files[p] = m,
                                   !.uploads = Sending(s, m, m)]}
    [] act = "delete-workspace" -> {[s EXCEPT !.writes[p] = NoFile, !.after[p] = NoFile]}
    [] act = "delete-local" -> {[s EXCEPT !.files[p] = NoFile]}

\* What one write of the batch would have brought and a second to the same path replaces.
Displaced(old, new) ==
  UNION {old[p] \ new[p] : p \in {q \in Paths : old[q] # Untouched}}

\* One item; whether a copy sorts before or behind its original depends on the name.
Prepare(d, p) ==
  /\ at[d] = "preparing" /\ p \in sync[d].todo
  /\ \E act \in Actions(d, p) :
       \E s \in Prepared(d, [sync[d] EXCEPT !.todo = @ \ {p}], p, act) :
         /\ sync' = [sync EXCEPT ![d] = s]
         /\ LET proposed == act \in Proposed(s.ws[p], s.seen[p], base[d][p]) IN
            /\ IF proposed \/ s.target # "both" THEN UNCHANGED extras ELSE Extra
            /\ Expose( Displaced(sync[d].writes, s.writes) \cup
                       IF proposed THEN {} ELSE GivenUp(act, s.ws[p], s.seen[p]) )
  /\ UNCHANGED <<worker, file, base, undo, at, made>>

Ready(d) == at[d] = "preparing" /\ sync[d].todo = {} /\ sync[d].uploads = {}

\* PUT of a blob: refused, with the end of this sync, when it is not what its name says.
Upload(d) ==
  /\ at[d] = "preparing" /\ sync[d].todo = {}
  /\ \E u \in sync[d].uploads :
       IF Fetched(u[1]) # {} \/ u[1] = u[2]
       THEN /\ blobs' = IF Fetched(u[1]) # {} THEN blobs ELSE blobs \cup {u}
            /\ sync' = [sync EXCEPT ![d].uploads = @ \ {u}]
            /\ UNCHANGED at
       ELSE Done(d) /\ UNCHANGED blobs
  /\ UNCHANGED <<manifest, file, base, undo, made, extras, exposed>>

\* Planted bug: the manifest is replaced whatever the Worker has.
Bug_PutManifest(d) ==
  /\ Ready(d) /\ sync[d].files # sync[d].seen
  /\ manifest' = sync[d].files
  /\ at' = [at EXCEPT ![d] = "writing"]
  /\ UNCHANGED <<blobs, file, base, undo, sync, made, extras, exposed>>

\* PUT of the manifest, if the Worker still has the one that was compared.
PutManifest(d) ==
  /\ Ready(d) /\ sync[d].files # sync[d].seen
  /\ IF manifest = sync[d].seen
     THEN /\ manifest' = sync[d].files
          /\ at' = [at EXCEPT ![d] = "writing"]
          /\ UNCHANGED sync
     ELSE Done(d) /\ UNCHANGED manifest
  /\ UNCHANGED <<blobs, file, base, undo, made, extras, exposed>>

\* _snapshotForUndo, where the workspace is to change
Snapshot(d) ==
  /\ at[d] = "writing" \/ (Ready(d) /\ sync[d].files = sync[d].seen)
  /\ LET writes == sync[d].writes IN
     IF writes = Nothing
     THEN at' = [at EXCEPT ![d] = "noting"] /\ UNCHANGED undo
     ELSE /\ at' = [at EXCEPT ![d] = "batch"]
          /\ undo' = [undo EXCEPT ![d] =
               [p \in Paths |-> IF writes[p] = Untouched THEN Untouched ELSE file[d][p]]]
  /\ UNCHANGED <<worker, file, base, sync, made, extras, exposed>>

\* A folder with a batch applied to it.
Patched(f, patch) == [p \in Paths |-> IF patch[p] = Untouched THEN f[p] ELSE patch[p]]

\* applyWorkspaceBatch.  What was written since the check is replaced unseen.
Batch(d) ==
  /\ at[d] = "batch"
  /\ at' = [at EXCEPT ![d] = "noting"]
  /\ LET written == {p \in Paths : sync[d].writes[p] # Untouched} IN
     Expose(UNION {file[d][p] \ sync[d].checked[p] : p \in written})
  /\ file' = [file EXCEPT ![d] = Patched(@, sync[d].writes)]
  /\ UNCHANGED <<worker, base, undo, sync, made, extras>>

\* The new base is stored.
NoteBase(d) ==
  /\ at[d] = "noting"
  /\ base' = [base EXCEPT ![d] = NextBase(sync[d].after, sync[d].files, @)]
  /\ Done(d)
  /\ UNCHANGED <<worker, file, undo, made, extras, exposed>>

\* A request or a transaction fails, an answer is lost, or the page is gone.  Behind the
\* new manifest, what it left out for a copy in this workspace is not written here.
Fail(d) ==
  /\ Extra
  /\ at[d] \notin {"idle", "choosing"}
  /\ Expose(IF at[d] \in {"writing", "batch"}
            THEN Carried(sync[d].seen) \ Carried(sync[d].files) ELSE {})
  /\ Done(d)
  /\ UNCHANGED <<worker, file, base, undo, made>>

\* undoLastSync: the files as they were; the base stays, and so does the manifest.
Undo(d) ==
  /\ Extra /\ undo[d] # Nothing
  /\ file' = [file EXCEPT ![d] = Patched(@, undo[d])]
  /\ Expose(UNION {file[d][p] \ file'[d][p] : p \in Paths})
  /\ undo' = [undo EXCEPT ![d] = Nothing]
  /\ IF at[d] = "choosing" THEN Done(d) ELSE UNCHANGED <<at, sync>>
  /\ UNCHANGED <<worker, base, made>>

Next ==
  \/ \E d \in Devices, p \in Paths : Write(d, p) \/ Delete(d, p) \/ Prepare(d, p)
  \/ \E d \in Devices : Compare(d) \/ Cancel(d) \/ Apply(d) \/ Replace(d)
  \/ \E d \in Devices : Upload(d) \/ PutManifest(d) \/ Snapshot(d) \/ Batch(d) \/ NoteBase(d)
  \/ \E d \in Devices : Fail(d) \/ Undo(d)

Spec == Init /\ [][Next]_vars
-----------------------------------------------------------------------------
\* An edit is in a workspace, or in the batch of a sync that has sent its manifest, or in
\* a file that the manifest names and the Worker has.
Kept(e) ==
  \/ \E d \in Devices : e \in Carried(file[d])
  \/ \E d \in Devices : at[d] \in {"writing", "batch"} /\ e \in Carried(Patched(Empty, sync[d].writes))
  \/ \E p \in Paths : \E c \in Fetched(manifest[p]) : e \in c

\* Whatever two devices edit and sync, in whatever order, and wherever a sync fails: an
\* edit is gone only if somebody gave it up, or in one of the races that expose it.
EditsKept == \A e \in (1..made) \ exposed : Kept(e)
=============================================================================
