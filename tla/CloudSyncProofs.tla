--------------------------- MODULE CloudSyncProofs ---------------------------
(***************************************************************************)
(* Proofs about CloudSync: type correctness, and, for any number of        *)
(* devices, of names for copies and of edits, that an edit is gone only if *)
(* somebody gave it up or a race that the model names exposed it.          *)
(***************************************************************************)
EXTENDS CloudSync, NaturalsInduction, WellFoundedInduction, TLAPS

\* Contents, folders, batches and syncs that carry none but the first n edits.
Known(n) == SUBSET (1..n)
Folders(n) == [Paths -> Known(n)]
Patches(n) == [Paths -> Known(n) \cup {Untouched}]
Loads(n) == SUBSET (Known(n) \X Known(n))
Targets == {"both", "cloud", "workspace"}
Phases == {"idle", "choosing", "preparing", "writing", "batch", "noting"}
SetsOf(S) == SUBSET S
SyncsOf(n) ==
  [ seen : Folders(n), ws : Folders(n), checked : Folders(n), target : Targets,
    todo : SetsOf(Paths), names : SetsOf(Paths), files : Folders(n), after : Folders(n),
    writes : Patches(n), uploads : Loads(n) ]

\* Every content carries edits that were made; a sync that goes on compared two that differ.
Types ==
  /\ made \in 0..MaxEdits /\ extras \in 0..MaxExtras /\ exposed \in SUBSET (1..made)
  /\ manifest \in Folders(made) /\ blobs \in Loads(made)
  /\ file \in [Devices -> Folders(made)] /\ base \in [Devices -> Folders(made)]
  /\ undo \in [Devices -> Patches(made)]
  /\ at \in [Devices -> Phases]
  /\ sync \in [Devices -> SyncsOf(made)]
  /\ \A d \in Devices : at[d] = "idle" => sync[d] = NoSync
  /\ \A d \in Devices : at[d] # "idle" => sync[d].seen # sync[d].ws
-----------------------------------------------------------------------------
\* What the bounds are.
LEMMA Bounds ==
  /\ MaxCopies \in Nat /\ MaxEdits \in Nat /\ MaxExtras \in Nat /\ MaxEvents \in Nat
  /\ Untouched \notin SUBSET (1..MaxEdits)
BY SyncAssumption

\* A content that carries made edits is none of Untouched, and has the type of the model.
LEMMA KnownIs ==
  ASSUME NEW n \in 0..MaxEdits
  PROVE  /\ Known(n) \subseteq Contents /\ Untouched \notin Known(n) /\ NoFile \in Known(n)
<1>1. 1..n \subseteq 1..MaxEdits
  BY Bounds
<1> QED BY <1>1, Bounds DEF Known, Contents, NoFile

\* More edits leave what there is in its type.
LEMMA KnownGrows ==
  ASSUME NEW n \in Nat
  PROVE  /\ Known(n) \subseteq Known(n + 1)
         /\ Folders(n) \subseteq Folders(n + 1)
         /\ Patches(n) \subseteq Patches(n + 1)
         /\ Loads(n) \subseteq Loads(n + 1)
         /\ SyncsOf(n) \subseteq SyncsOf(n + 1)
<1>1. Known(n) \subseteq Known(n + 1)
  BY DEF Known
<1>2. Folders(n) \subseteq Folders(n + 1) /\ Patches(n) \subseteq Patches(n + 1)
  BY <1>1 DEF Folders, Patches
<1>3. Loads(n) \subseteq Loads(n + 1)
  BY <1>1 DEF Loads
<1>4. SyncsOf(n) \subseteq SyncsOf(n + 1)
  BY <1>2, <1>3 DEF SyncsOf
<1> QED BY <1>1, <1>2, <1>3, <1>4

\* Folders and batches, place by place.
LEMMA FolderIs ==
  ASSUME NEW n, NEW f \in Folders(n)
  PROVE  /\ DOMAIN f = Paths
         /\ \A p \in Paths : f[p] \in Known(n)
         /\ \A p, c : c \in Known(n) => [f EXCEPT ![p] = c] \in Folders(n)
BY DEF Folders

LEMMA PatchIs ==
  ASSUME NEW n, NEW f \in Patches(n)
  PROVE  /\ DOMAIN f = Paths
         /\ \A p \in Paths : f[p] \in Known(n) \cup {Untouched}
         /\ \A p, c : c \in Known(n) => [f EXCEPT ![p] = c] \in Patches(n)
BY DEF Patches

\* The fields of a sync.
LEMMA SyncIs ==
  ASSUME NEW n, NEW s \in SyncsOf(n)
  PROVE  /\ s.seen \in Folders(n) /\ s.ws \in Folders(n) /\ s.checked \in Folders(n)
         /\ s.target \in Targets /\ s.todo \in SetsOf(Paths) /\ s.names \in SetsOf(Paths)
         /\ s.files \in Folders(n) /\ s.after \in Folders(n) /\ s.writes \in Patches(n)
         /\ s.uploads \in Loads(n)
BY DEF SyncsOf

\* What the model starts from.
LEMMA StartTypes ==
  ASSUME NEW n \in 0..MaxEdits
  PROVE  /\ Empty \in Folders(n) /\ Nothing \in Patches(n) /\ {} \in Loads(n)
         /\ {} \in SetsOf(Paths) /\ "both" \in Targets /\ NoSync \in SyncsOf(n)
<1>1. Empty \in Folders(n)
  BY KnownIs DEF Empty, Folders
<1>2. Nothing \in Patches(n)
  BY DEF Nothing, Patches
<1>3. {} \in Loads(n)
  BY DEF Loads
<1>4. {} \in SetsOf(Paths) /\ "both" \in Targets
  BY DEF SetsOf, Targets
<1>5. NoSync \in SyncsOf(n)
  BY <1>1, <1>2, <1>3, <1>4 DEF NoSync, SyncsOf
<1> QED BY <1>1, <1>2, <1>3, <1>4, <1>5

\* Types is what TypeOK asks for.
LEMMA TypesSuffice == Types => TypeOK
<1> SUFFICES ASSUME Types PROVE TypeOK
  OBVIOUS
<1>0. made \in 0..MaxEdits
  BY DEF Types
<1>1. Known(made) \subseteq Contents
  BY <1>0, KnownIs
<1>2. Folders(made) \subseteq Folder /\ Patches(made) \subseteq Patch
  BY <1>1 DEF Folders, Patches, Folder, Patch
<1>3. Loads(made) \subseteq SUBSET (Contents \X Contents)
  BY <1>1 DEF Loads
<1>4. SyncsOf(made) \subseteq Syncs
  BY <1>2, <1>3 DEF SyncsOf, Syncs, SetsOf, Targets
<1>5. manifest \in Folder /\ blobs \subseteq Contents \X Contents
  BY <1>2, <1>3 DEF Types
<1>6. file \in [Devices -> Folder] /\ base \in [Devices -> Folder] /\ undo \in [Devices -> Patch]
  BY <1>2 DEF Types
<1>7. sync \in [Devices -> Syncs]
  BY <1>4 DEF Types
<1>8. \A d \in Devices : at[d] = "idle" <=> sync[d] = NoSync
  <2>1. NoSync.seen = NoSync.ws
    BY DEF NoSync
  <2> QED BY <2>1 DEF Types
<1>9. at \in [Devices -> {"idle", "choosing", "preparing", "writing", "batch", "noting"}]
  BY DEF Types, Phases
<1>10. made \in 0..MaxEdits /\ extras \in 0..MaxExtras /\ exposed \subseteq 1..made
  BY DEF Types
<1> QED BY <1>5, <1>6, <1>7, <1>8, <1>9, <1>10 DEF TypeOK
-----------------------------------------------------------------------------
\* A set of numbers that is not empty has a least member, and keepBothName finds a free name.
LEMMA LeastNat ==
  ASSUME NEW S, S \subseteq Nat, S # {}
  PROVE  \E n \in S : \A m \in S : n <= m
<1> DEFINE R == OpToRel(<, Nat)
<1>1. IsWellFoundedOn(R, Nat)
  BY NatLessThanWellFounded
<1>2. \A x, y \in Nat : x < y => <<x, y>> \in R
  BY DEF OpToRel
<1> HIDE DEF R
<1>3. PICK x \in S : \A y \in S : ~ (<<y, x>> \in R)
  BY <1>1, WFMin
<1>4. \A y \in S : ~ (y < x)
  BY <1>2, <1>3
<1> QED BY <1>4

LEMMA FreeName ==
  ASSUME NEW names, FreeNames(names) # {}
  PROVE  Min(FreeNames(names)) \in Paths \ {0} /\ Min(FreeNames(names)) \notin names
<1> DEFINE S == FreeNames(names)
<1>1. S \subseteq Nat /\ S \subseteq Paths \ {0} /\ S \cap names = {}
  BY Bounds DEF FreeNames, Paths
<1> HIDE DEF S
<1>2. \E n \in S : \A m \in S : n =< m
  BY <1>1, LeastNat DEF S
<1>3. Min(S) \in S
  BY <1>2 DEF Min
<1> QED BY <1>1, <1>3 DEF S

\* What the blobs answer carries edits that were made.
LEMMA FetchedTypes ==
  ASSUME Types, NEW h, NEW c \in Fetched(h)
  PROVE  c \in Known(made)
BY DEF Fetched, Types, Loads

LEMMA SendingTypes ==
  ASSUME NEW n, NEW s \in SyncsOf(n), NEW h \in Known(n), NEW c \in Known(n)
  PROVE  Sending(s, h, c) \in Loads(n)
<1>1. s.uploads \in Loads(n)
  BY SyncIs
<1> QED BY <1>1 DEF Sending, Loads

\* What a preparation never touches.
Fixed(s, x) ==
  /\ x.seen = s.seen /\ x.ws = s.ws /\ x.checked = s.checked /\ x.target = s.target
  /\ x.todo = s.todo
\* What becomes of the batch, of the folders as they will be, and of the blobs to send.
Left(s, x) == x.writes = s.writes /\ x.after = s.after
Pushed(s, x, p, c) ==
  /\ c = NoFile => x.files = s.files /\ x.uploads = s.uploads
  /\ c # NoFile => /\ x.files = [s.files EXCEPT ![p] = s.ws[p]]
                   /\ x.uploads = Sending(s, s.ws[p], c)

LEMMA PushIs ==
  ASSUME NEW n, NEW s \in SyncsOf(n), NEW p \in Paths, NEW c \in Known(n)
  PROVE  /\ Push(s, p, c) \in SyncsOf(n)
         /\ Fixed(s, Push(s, p, c)) /\ Left(s, Push(s, p, c))
         /\ Push(s, p, c).names = s.names
         /\ Pushed(s, Push(s, p, c), p, c)
<1>0. /\ s.ws \in Folders(n) /\ s.files \in Folders(n) /\ s.ws[p] \in Known(n)
  BY SyncIs, FolderIs
<1>1. CASE c = NoFile
  BY <1>1 DEF Push, Fixed, Left, Pushed
<1>2. CASE c # NoFile
  <2> DEFINE g == [s.files EXCEPT ![p] = s.ws[p]]
             u == Sending(s, s.ws[p], c)
  <2>1. g \in Folders(n) /\ u \in Loads(n)
    BY <1>0, FolderIs, SendingTypes
  <2>2. Push(s, p, c) = [s EXCEPT !.files = g, !.uploads = u]
    BY <1>2 DEF Push
  <2> HIDE DEF g, u
  <2>3. [s EXCEPT !.files = g, !.uploads = u] \in SyncsOf(n)
    BY <2>1 DEF SyncsOf
  <2>4. /\ Fixed(s, Push(s, p, c)) /\ Left(s, Push(s, p, c)) /\ Push(s, p, c).names = s.names
        /\ Push(s, p, c).files = g /\ Push(s, p, c).uploads = u
    BY <2>2 DEF SyncsOf, Fixed, Left
  <2> QED BY <1>2, <2>2, <2>3, <2>4 DEF Pushed, g, u
<1> QED BY <1>1, <1>2

\* What becomes of a sync s, as x, when an action is prepared for path p of device d.
Outcome(d, s, x, p, act) ==
  LET w == s.ws[p]  l == s.seen[p]  m == Merged(w, l, base[d][p]) IN
  /\ act = "skip" =>
       Left(s, x) /\ x.files = s.files /\ x.uploads = s.uploads /\ x.names = s.names
  /\ act = "to-workspace" =>
       /\ x.files = s.files /\ x.uploads = s.uploads /\ x.names = s.names
       /\ \E c \in Fetched(l) : x.writes = [s.writes EXCEPT ![p] = c]
       /\ x.after = [s.after EXCEPT ![p] = l]
  /\ act = "to-local" => Left(s, x) /\ x.names = s.names /\ Pushed(s, x, p, file[d][p])
  /\ act = "keep-both" =>
       /\ p = 0 /\ x.after = s.after /\ Pushed(s, x, p, file[d][p])
       /\ \E q \in Paths \ {0} : /\ q \notin s.names /\ x.names = s.names \cup {q}
                                 /\ \E c \in Fetched(l) : x.writes = [s.writes EXCEPT ![q] = c]
  /\ act = "merge" =>
       /\ x.files = [s.files EXCEPT ![p] = m] /\ x.uploads = Sending(s, m, m)
       /\ x.writes = [s.writes EXCEPT ![p] = m] /\ x.after = [s.after EXCEPT ![p] = m]
       /\ x.names = s.names
  /\ act = "delete-workspace" =>
       /\ x.files = s.files /\ x.uploads = s.uploads /\ x.names = s.names
       /\ x.writes = [s.writes EXCEPT ![p] = NoFile] /\ x.after = [s.after EXCEPT ![p] = NoFile]
  /\ act = "delete-local" =>
       /\ x.files = [s.files EXCEPT ![p] = NoFile] /\ x.uploads = s.uploads
       /\ Left(s, x) /\ x.names = s.names

AllActions ==
  {"skip", "to-workspace", "to-local", "keep-both", "merge", "delete-workspace", "delete-local"}

LEMMA ActionsIs ==
  ASSUME NEW d, NEW p
  PROVE  Actions(d, p) \subseteq AllActions
BY DEF Actions, Replacing, Proposed, Offered, AllActions

\* Prepared does what Outcome says, and its results are syncs.
LEMMA PreparedIs ==
  ASSUME Types, NEW d \in Devices, NEW p \in Paths, NEW s \in SyncsOf(made),
         NEW act \in AllActions, NEW x \in Prepared(d, s, p, act)
  PROVE  x \in SyncsOf(made) /\ Fixed(s, x) /\ Outcome(d, s, x, p, act)
<1> DEFINE n == made
<1>0. n \in 0..MaxEdits /\ file[d][p] \in Known(n) /\ base[d][p] \in Known(n) /\ NoFile \in Known(n)
  BY KnownIs, FolderIs DEF Types
<1>1. /\ s.seen \in Folders(n) /\ s.ws \in Folders(n) /\ s.files \in Folders(n)
      /\ s.after \in Folders(n) /\ s.writes \in Patches(n) /\ s.uploads \in Loads(n)
      /\ s.names \in SetsOf(Paths)
  BY SyncIs
<1>2. s.seen[p] \in Known(n) /\ s.ws[p] \in Known(n)
  BY <1>1, FolderIs
<1>3. CASE act = "skip"
  BY <1>3 DEF Prepared, Fixed, Outcome, Left
<1>4. CASE act = "to-workspace"
  <2>1. PICK c \in Fetched(s.seen[p]) :
          x = [s EXCEPT !.writes = [s.writes EXCEPT ![p] = c], !.after = [s.after EXCEPT ![p] = s.seen[p]]]
    <3>1. PICK c \in Fetched(s.seen[p]) : x = [s EXCEPT !.writes[p] = c, !.after[p] = s.seen[p]]
      BY <1>4 DEF Prepared
    <3> QED BY <3>1 DEF SyncsOf
  <2>2. c \in Known(n)
    BY FetchedTypes
  <2> DEFINE g == [s.writes EXCEPT ![p] = c]
             h == [s.after EXCEPT ![p] = s.seen[p]]
  <2>3. g \in Patches(n) /\ h \in Folders(n)
    BY <1>1, <1>2, <2>2, PatchIs, FolderIs
  <2>4. x = [s EXCEPT !.writes = g, !.after = h]
    BY <2>1
  <2>5. \E c2 \in Fetched(s.seen[p]) : g = [s.writes EXCEPT ![p] = c2]
    OBVIOUS
  <2>6. h = [s.after EXCEPT ![p] = s.seen[p]]
    OBVIOUS
  <2> HIDE DEF g, h
  <2>7. x \in SyncsOf(n)
    BY <2>3, <2>4 DEF SyncsOf
  <2>8. Fixed(s, x) /\ x.writes = g /\ x.after = h /\ x.files = s.files /\ x.uploads = s.uploads /\ x.names = s.names
    BY <2>4 DEF SyncsOf, Fixed
  <2> QED BY <1>4, <2>5, <2>6, <2>7, <2>8 DEF Outcome
<1>5. CASE act = "to-local"
  <2>1. x = Push(s, p, file[d][p])
    BY <1>5 DEF Prepared
  <2> QED BY <1>0, <1>5, <2>1, PushIs DEF Outcome
<1>6. CASE act = "keep-both"
  <2> DEFINE q == Min(FreeNames(s.names))
  <2>1. p = 0 /\ FreeNames(s.names) # {}
    BY <1>6 DEF Prepared
  <2>2. PICK c \in Fetched(s.seen[p]) :
          x = Push([s EXCEPT !.writes = [s.writes EXCEPT ![q] = c], !.names = s.names \cup {q}], p, file[d][p])
    BY <1>6, <2>1 DEF Prepared
  <2>3. c \in Known(n)
    BY FetchedTypes
  <2>4. q \in Paths \ {0} /\ q \notin s.names
    BY <2>1, FreeName
  <2> HIDE DEF q
  <2> DEFINE g == [s.writes EXCEPT ![q] = c]
             k == s.names \cup {q}
             y == [s EXCEPT !.writes = g, !.names = k]
  <2>5. g \in Patches(n) /\ k \in SetsOf(Paths)
    BY <1>1, <2>3, <2>4, PatchIs DEF SetsOf
  <2>6. x = Push(y, p, file[d][p])
    BY <2>2
  <2>7. \E c2 \in Fetched(s.seen[p]) : g = [s.writes EXCEPT ![q] = c2]
    OBVIOUS
  <2>8. k = s.names \cup {q}
    OBVIOUS
  <2> HIDE DEF g, k
  <2>9. y \in SyncsOf(n)
    BY <2>5 DEF SyncsOf
  <2>10. Fixed(s, y) /\ y.writes = g /\ y.names = k /\ y.after = s.after /\ y.files = s.files /\ y.uploads = s.uploads
    BY DEF SyncsOf, Fixed
  <2> HIDE DEF y
  <2>11. /\ x \in SyncsOf(n) /\ Fixed(y, x) /\ Left(y, x) /\ x.names = y.names
         /\ Pushed(y, x, p, file[d][p])
    BY <1>0, <2>6, <2>9, PushIs
  <2>12. Fixed(s, x) /\ x.writes = g /\ x.names = k /\ x.after = s.after
    BY <2>10, <2>11 DEF Fixed, Left
  <2>13. Pushed(s, x, p, file[d][p])
    BY <2>10, <2>11 DEF Pushed, Fixed, Sending
  <2>14. Outcome(d, s, x, p, act)
    BY <1>6, <2>1, <2>4, <2>7, <2>8, <2>12, <2>13 DEF Outcome
  <2> QED BY <2>11, <2>12, <2>14
<1>7. CASE act = "merge"
  <2> DEFINE m == Merged(s.ws[p], s.seen[p], base[d][p])
             g == [s.writes EXCEPT ![p] = m]
             h == [s.after EXCEPT ![p] = m]
             f == [s.files EXCEPT ![p] = m]
             u == Sending(s, m, m)
  <2>1. m \in Known(n)
    BY <1>0, <1>2 DEF Merged, Known
  <2>2. g \in Patches(n) /\ h \in Folders(n) /\ f \in Folders(n) /\ u \in Loads(n)
    <3> HIDE DEF m
    <3> QED BY <1>1, <2>1, PatchIs, FolderIs, SendingTypes
  <2>3. x = [s EXCEPT !.writes = g, !.after = h, !.files = f, !.uploads = u]
    BY <1>7 DEF Prepared
  <2> HIDE DEF g, h, f, u
  <2>4. x \in SyncsOf(n)
    BY <2>2, <2>3 DEF SyncsOf
  <2>5. Fixed(s, x) /\ x.writes = g /\ x.after = h /\ x.files = f /\ x.uploads = u /\ x.names = s.names
    BY <2>3 DEF SyncsOf, Fixed
  <2> QED BY <1>7, <2>4, <2>5 DEF Outcome, g, h, f, u
<1>8. CASE act = "delete-workspace"
  <2> DEFINE g == [s.writes EXCEPT ![p] = NoFile]
             h == [s.after EXCEPT ![p] = NoFile]
  <2>1. g \in Patches(n) /\ h \in Folders(n)
    BY <1>0, <1>1, PatchIs, FolderIs
  <2>2. x = [s EXCEPT !.writes = g, !.after = h]
    BY <1>8 DEF Prepared
  <2> HIDE DEF g, h
  <2>3. x \in SyncsOf(n)
    BY <2>1, <2>2 DEF SyncsOf
  <2>4. Fixed(s, x) /\ x.writes = g /\ x.after = h /\ x.files = s.files /\ x.uploads = s.uploads /\ x.names = s.names
    BY <2>2 DEF SyncsOf, Fixed
  <2> QED BY <1>8, <2>3, <2>4 DEF Outcome, g, h
<1>9. CASE act = "delete-local"
  <2> DEFINE f == [s.files EXCEPT ![p] = NoFile]
  <2>1. f \in Folders(n)
    BY <1>0, <1>1, FolderIs
  <2>2. x = [s EXCEPT !.files = f]
    BY <1>9 DEF Prepared
  <2> HIDE DEF f
  <2>3. x \in SyncsOf(n)
    BY <2>1, <2>2 DEF SyncsOf
  <2>4. Fixed(s, x) /\ Left(s, x) /\ x.files = f /\ x.uploads = s.uploads /\ x.names = s.names
    BY <2>2 DEF SyncsOf, Fixed, Left
  <2> QED BY <1>9, <2>3, <2>4 DEF Outcome, f
<1> QED BY <1>3, <1>4, <1>5, <1>6, <1>7, <1>8, <1>9 DEF AllActions
-----------------------------------------------------------------------------
\* The edits that a folder carries.
LEMMA CarriedIs ==
  ASSUME NEW n, NEW f \in Folders(n)
  PROVE  Carried(f) \subseteq 1..n /\ \A e : e \in Carried(f) <=> \E p \in Paths : e \in f[p]
<1>1. DOMAIN f = Paths /\ \A p \in Paths : f[p] \in Known(n)
  BY FolderIs
<1>2. \A e : e \in Carried(f) <=> \E p \in Paths : e \in f[p]
  BY <1>1 DEF Carried, Range
<1> QED BY <1>1, <1>2 DEF Known

\* A batch applied to a folder.
LEMMA PatchedIs ==
  ASSUME NEW n, NEW f \in Folders(n), NEW b \in Patches(n)
  PROVE  /\ Patched(f, b) \in Folders(n)
         /\ \A p \in Paths : Patched(f, b)[p] = IF b[p] = Untouched THEN f[p] ELSE b[p]
BY DEF Patched, Folders, Patches

LEMMA NextBaseIs ==
  ASSUME NEW n, NEW f \in Folders(n), NEW g \in Folders(n), NEW b \in Folders(n)
  PROVE  /\ NextBase(f, g, b) \in Folders(n)
         /\ \A p \in Paths : NextBase(f, g, b)[p] = IF f[p] = g[p] THEN f[p] ELSE b[p]
BY DEF NextBase, Folders

\* One event beside the edits and the syncs with the proposed actions.
LEMMA ExtraTypes ==
  ASSUME extras \in 0..MaxExtras, Extra \/ UNCHANGED extras
  PROVE  extras' \in 0..MaxExtras
BY Bounds DEF Extra

\* The parts of Types that say what the dialogs work with, and the rest.
Dialogs ==
  /\ at \in [Devices -> Phases] /\ sync \in [Devices -> SyncsOf(made)]
  /\ \A d \in Devices : at[d] = "idle" => sync[d] = NoSync
  /\ \A d \in Devices : at[d] # "idle" => sync[d].seen # sync[d].ws
Stored ==
  /\ manifest \in Folders(made) /\ blobs \in Loads(made)
  /\ file \in [Devices -> Folders(made)] /\ base \in [Devices -> Folders(made)]
  /\ undo \in [Devices -> Patches(made)]
Counted ==
  /\ made \in 0..MaxEdits /\ extras \in 0..MaxExtras /\ exposed \in SUBSET (1..made)

LEMMA TypesParts == Types <=> Counted /\ Stored /\ Dialogs
BY DEF Types, Counted, Stored, Dialogs

LEMMA TypesNext == Counted' /\ Stored' /\ Dialogs' => Types'
BY DEF Types, Counted, Stored, Dialogs

\* The dialog of d ends, goes on to another phase, or goes on with another sync.
LEMMA DialogsStep ==
  ASSUME Types, made' = made, NEW d \in Devices,
         \/ Done(d)
         \/ UNCHANGED <<at, sync>>
         \/ /\ at[d] # "idle"
            /\ \E a \in Phases \ {"idle"} : at' = [at EXCEPT ![d] = a]
            /\ \E s \in SyncsOf(made) : /\ sync' = [sync EXCEPT ![d] = s]
                                        /\ s.seen = sync[d].seen /\ s.ws = sync[d].ws
  PROVE  Dialogs'
<1>0. Dialogs /\ NoSync \in SyncsOf(made)
  BY TypesParts, StartTypes DEF Types
<1>1. CASE Done(d)
  BY <1>0, <1>1 DEF Done, Dialogs, Phases
<1>2. CASE UNCHANGED <<at, sync>>
  BY <1>0, <1>2 DEF Dialogs
<1>3. CASE /\ at[d] # "idle"
           /\ \E a \in Phases \ {"idle"} : at' = [at EXCEPT ![d] = a]
           /\ \E s \in SyncsOf(made) : /\ sync' = [sync EXCEPT ![d] = s]
                                       /\ s.seen = sync[d].seen /\ s.ws = sync[d].ws
  BY <1>0, <1>3 DEF Dialogs
<1> QED BY <1>1, <1>2, <1>3

LEMMA WriteTypes ==
  ASSUME Types, NEW d \in Devices, NEW p \in Paths, Write(d, p)
  PROVE  Types'
<1>0. Counted /\ Stored /\ Dialogs /\ made \in Nat /\ made' = made + 1 /\ made' \in 0..MaxEdits
  BY TypesParts, Bounds DEF Types, Write
<1>1. Counted'
  <2>1. extras' \in 0..MaxExtras
    BY ExtraTypes DEF Write, Types
  <2>2. exposed' \in SUBSET (1..made')
    BY <1>0 DEF Write, Types
  <2> QED BY <1>0, <2>1, <2>2 DEF Counted
<1>2. Stored'
  <2>1. file \in [Devices -> Folders(made')]
    BY <1>0, KnownGrows DEF Stored
  <2>2. file[d][p] \cup {made'} \in Known(made')
    BY <1>0, <2>1, FolderIs DEF Known
  <2>3. [file[d] EXCEPT ![p] = file[d][p] \cup {made'}] \in Folders(made')
    BY <2>1, <2>2, FolderIs
  <2>4. file' \in [Devices -> Folders(made')]
    BY <2>1, <2>3 DEF Write
  <2>5. manifest' \in Folders(made') /\ blobs' \in Loads(made') /\ base' \in [Devices -> Folders(made')]
        /\ undo' \in [Devices -> Patches(made')]
    BY <1>0, KnownGrows DEF Write, worker, Stored
  <2> QED BY <2>4, <2>5 DEF Stored
<1>3. Dialogs'
  BY <1>0, KnownGrows DEF Write, Dialogs
<1> QED BY <1>1, <1>2, <1>3, TypesNext

LEMMA DeleteTypes ==
  ASSUME Types, NEW d \in Devices, NEW p \in Paths, Delete(d, p)
  PROVE  Types'
<1>0. Counted /\ Stored /\ Dialogs /\ NoFile \in Known(made) /\ file[d] \in Folders(made)
  BY TypesParts, KnownIs DEF Types
<1>1. Counted'
  <2>1. extras' \in 0..MaxExtras
    BY ExtraTypes DEF Delete, Types
  <2>2. file[d][p] \subseteq 1..made
    BY <1>0, FolderIs DEF Known
  <2> QED BY <1>0, <2>1, <2>2 DEF Counted, Delete, Expose
<1>2. Stored'
  <2>1. [file[d] EXCEPT ![p] = NoFile] \in Folders(made)
    BY <1>0, FolderIs
  <2> QED BY <1>0, <2>1 DEF Stored, Delete, worker
<1>3. Dialogs'
  BY DialogsStep DEF Delete
<1> QED BY <1>1, <1>2, <1>3, TypesNext

LEMMA CompareTypes ==
  ASSUME Types, NEW d \in Devices, Compare(d)
  PROVE  Types'
<1>0. Counted /\ Stored /\ Dialogs
  BY TypesParts
<1>1. Counted' /\ made' = made
  BY <1>0 DEF Compare, Counted
<1>2. CASE file[d] = manifest
  <2>1. NextBase(file[d], manifest, base[d]) \in Folders(made)
    BY <1>0, NextBaseIs DEF Stored
  <2>2. Stored'
    BY <1>0, <1>2, <2>1 DEF Stored, Compare, worker
  <2>3. Dialogs'
    BY <1>1, <1>2, DialogsStep DEF Compare
  <2> QED BY <1>1, <2>2, <2>3, TypesNext
<1>3. CASE file[d] # manifest
  <2> DEFINE s == [NoSync EXCEPT !.seen = manifest, !.ws = file[d]]
  <2>1. Stored'
    BY <1>0, <1>3 DEF Stored, Compare, worker
  <2>2. s \in SyncsOf(made) /\ s.seen = manifest /\ s.ws = file[d]
    <3>1. NoSync \in SyncsOf(made) /\ manifest \in Folders(made) /\ file[d] \in Folders(made)
      BY <1>0, StartTypes DEF Counted, Stored
    <3> HIDE DEF NoSync
    <3> QED BY <3>1 DEF SyncsOf
  <2>3. at' = [at EXCEPT ![d] = "choosing"] /\ sync' = [sync EXCEPT ![d] = s]
    BY <1>3 DEF Compare
  <2> HIDE DEF s
  <2>4. Dialogs'
    BY <1>0, <1>1, <1>3, <2>2, <2>3 DEF Dialogs, Phases
  <2> QED BY <1>1, <2>1, <2>4, TypesNext
<1> QED BY <1>2, <1>3

LEMMA CancelTypes ==
  ASSUME Types, NEW d \in Devices, Cancel(d)
  PROVE  Types'
<1>1. Counted' /\ Stored' /\ made' = made
  BY TypesParts DEF Cancel, Counted, Stored, worker
<1>2. Dialogs'
  BY <1>1, DialogsStep DEF Cancel
<1> QED BY <1>1, <1>2, TypesNext

\* The sync as it begins.
Begun(d, target, items, checked) ==
  [sync[d] EXCEPT !.target = target, !.todo = items, !.checked = checked,
                  !.names = {p \in Paths : file[d][p] # NoFile},
                  !.files = sync[d].seen, !.after = sync[d].ws]

With(s, t, i, c, k, f, a) ==
  [s EXCEPT !.target = t, !.todo = i, !.checked = c, !.names = k, !.files = f, !.after = a]

LEMMA WithIs ==
  ASSUME NEW n, NEW s \in SyncsOf(n), NEW t \in Targets, NEW i \in SetsOf(Paths),
         NEW c \in Folders(n), NEW k \in SetsOf(Paths), NEW f \in Folders(n), NEW a \in Folders(n)
  PROVE  With(s, t, i, c, k, f, a) \in SyncsOf(n)
BY DEF With, SyncsOf

LEMMA BegunIs ==
  ASSUME Types, NEW d \in Devices, NEW target \in Targets, NEW items \in SetsOf(Paths),
         NEW checked \in Folders(made)
  PROVE  LET s == Begun(d, target, items, checked) IN
         /\ s \in SyncsOf(made) /\ s.seen = sync[d].seen /\ s.ws = sync[d].ws
         /\ s.checked = checked /\ s.target = target /\ s.todo = items
         /\ s.names = {p \in Paths : file[d][p] # NoFile}
         /\ s.files = sync[d].seen /\ s.after = sync[d].ws
         /\ s.writes = sync[d].writes /\ s.uploads = sync[d].uploads
<1>1. sync[d] \in SyncsOf(made)
  BY DEF Types
<1>2. {p \in Paths : file[d][p] # NoFile} \in SetsOf(Paths)
  BY DEF SetsOf
<1> DEFINE N == {p \in Paths : file[d][p] # NoFile}
<1>3. N \in SetsOf(Paths)
  BY <1>2
<1> HIDE DEF N
<1>4. Begun(d, target, items, checked) =
        [sync[d] EXCEPT !.target = target, !.todo = items, !.checked = checked,
                        !.names = N, !.files = sync[d].seen, !.after = sync[d].ws]
  BY DEF Begun, N
<1>5. Begun(d, target, items, checked) \in SyncsOf(made)
  <2>1. sync[d].seen \in Folders(made) /\ sync[d].ws \in Folders(made)
    BY <1>1, SyncIs
  <2>2. Begun(d, target, items, checked)
          = With(sync[d], target, items, checked, N, sync[d].seen, sync[d].ws)
    BY <1>4 DEF With
  <2> QED BY <1>1, <1>3, <2>1, <2>2, WithIs
<1> QED BY <1>1, <1>4, <1>5 DEF SyncsOf, N

\* Apply and both ways to replace begin a sync.
LEMMA BeginIs ==
  ASSUME Types, NEW d \in Devices, Apply(d) \/ Replace(d)
  PROVE  \E target \in Targets, items \in SetsOf(Paths), checked \in Folders(made) :
           /\ Begin(d, target, items, checked)
           /\ at[d] = "choosing" /\ at' = [at EXCEPT ![d] = "preparing"]
           /\ sync' = [sync EXCEPT ![d] = Begun(d, target, items, checked)]
           /\ \/ checked = sync[d].ws
              \/ checked = file[d] /\ \A p \in items : file[d][p] = sync[d].ws[p]
<1>1. \A target, items, checked :
        Begin(d, target, items, checked) =>
          /\ at[d] = "choosing" /\ at' = [at EXCEPT ![d] = "preparing"]
          /\ sync' = [sync EXCEPT ![d] = Begun(d, target, items, checked)]
  <2> SUFFICES ASSUME NEW target, NEW items, NEW checked, Begin(d, target, items, checked)
               PROVE  /\ at[d] = "choosing" /\ at' = [at EXCEPT ![d] = "preparing"]
                      /\ sync' = [sync EXCEPT ![d] = Begun(d, target, items, checked)]
    OBVIOUS
  <2> DEFINE N == {p \in Paths : file[d][p] # NoFile}
             S == SyncsOf(made)
             i1 == [sync EXCEPT ![d] = [sync[d] EXCEPT !.target = target]]
             i2 == [i1 EXCEPT ![d] = [i1[d] EXCEPT !.todo = items]]
             i3 == [i2 EXCEPT ![d] = [i2[d] EXCEPT !.checked = checked]]
             i4 == [i3 EXCEPT ![d] = [i3[d] EXCEPT !.names = N]]
             i5 == [i4 EXCEPT ![d] = [i4[d] EXCEPT !.files = sync[d].seen]]
             i6 == [i5 EXCEPT ![d] = [i5[d] EXCEPT !.after = sync[d].ws]]
  <2>1. d \in DOMAIN sync
    BY DEF Types
  <2>2. sync' = i6 /\ at[d] = "choosing" /\ at' = [at EXCEPT ![d] = "preparing"]
    BY DEF Begin
  <2>3. i6 = [sync EXCEPT ![d] = i6[d]]
    BY <2>1
  <2>4. i6[d] = Begun(d, target, items, checked)
    BY <2>1 DEF Begun
  <2> QED BY <2>2, <2>3, <2>4
<1>2. file[d] \in Folders(made) /\ sync[d].ws \in Folders(made)
  BY SyncIs DEF Types
<1>3. CASE Apply(d)
  <2> DEFINE I == {p \in Items(d) : file[d][p] = sync[d].ws[p]}
  <2>1. I \in SetsOf(Paths) /\ "both" \in Targets /\ \A p \in I : file[d][p] = sync[d].ws[p]
    BY DEF Items, SetsOf, Targets
  <2>2. Begin(d, "both", I, file[d])
    BY <1>3 DEF Apply
  <2> HIDE DEF I
  <2> QED BY <1>1, <1>2, <2>1, <2>2
<1>4. CASE Replace(d)
  <2>1. PICK target \in {"cloud", "workspace"} : Begin(d, target, Items(d), sync[d].ws)
    BY <1>4 DEF Replace
  <2>2. Items(d) \in SetsOf(Paths) /\ target \in Targets
    BY DEF Items, SetsOf, Targets
  <2> QED BY <1>1, <1>2, <2>1, <2>2
<1> QED BY <1>3, <1>4

LEMMA BeginTypes ==
  ASSUME Types, NEW d \in Devices, Apply(d) \/ Replace(d)
  PROVE  Types'
<1>1. PICK target \in Targets, items \in SetsOf(Paths), checked \in Folders(made) :
           /\ Begin(d, target, items, checked)
           /\ at[d] = "choosing" /\ at' = [at EXCEPT ![d] = "preparing"]
           /\ sync' = [sync EXCEPT ![d] = Begun(d, target, items, checked)]
  BY BeginIs
<1>2. UNCHANGED <<worker, file, base, undo, made, exposed>>
  BY <1>1 DEF Begin
<1>3. extras' \in 0..MaxExtras
  BY ExtraTypes DEF Apply, Replace, Types
<1>4. Counted' /\ Stored'
  BY <1>2, <1>3, TypesParts DEF Counted, Stored, worker
<1>5. Dialogs'
  <2>1. /\ Begun(d, target, items, checked) \in SyncsOf(made)
        /\ Begun(d, target, items, checked).seen = sync[d].seen
        /\ Begun(d, target, items, checked).ws = sync[d].ws
    BY BegunIs
  <2>2. "preparing" \in Phases \ {"idle"}
    BY DEF Phases
  <2> QED BY <1>1, <1>2, <2>1, <2>2, DialogsStep
<1> QED BY <1>4, <1>5, TypesNext
\* One step of the preparation, as the sync that results, what happens to it and what it exposes.
Prepares(d, p, act, x) ==
  /\ at[d] = "preparing" /\ p \in sync[d].todo
  /\ sync' = [sync EXCEPT ![d] = x]
  /\ x.seen = sync[d].seen /\ x.ws = sync[d].ws /\ x.checked = sync[d].checked
  /\ x.todo = sync[d].todo \ {p}
  /\ Outcome(d, sync[d], x, p, act)
  /\ exposed' = exposed \cup Displaced(sync[d].writes, x.writes) \cup
       (IF act \in Proposed(sync[d].ws[p], sync[d].seen[p], base[d][p]) THEN {}
        ELSE GivenUp(act, sync[d].ws[p], sync[d].seen[p]))
  /\ extras' \in 0..MaxExtras
  /\ UNCHANGED <<worker, file, base, undo, at, made>>

LEMMA PrepareIs ==
  ASSUME Types, NEW d \in Devices, NEW p \in Paths, Prepare(d, p)
  PROVE  \E act \in AllActions, x \in SyncsOf(made) :
           act \in Actions(d, p) /\ Prepares(d, p, act, x)
<1> DEFINE s == [sync[d] EXCEPT !.todo = sync[d].todo \ {p}]
<1>1. sync[d] \in SyncsOf(made) /\ sync[d].todo \ {p} \in SetsOf(Paths)
  BY SyncIs DEF Types, SetsOf
<1>2. s \in SyncsOf(made)
  BY <1>1 DEF SyncsOf
<1>3. /\ s.seen = sync[d].seen /\ s.ws = sync[d].ws /\ s.checked = sync[d].checked
      /\ s.target = sync[d].target /\ s.todo = sync[d].todo \ {p} /\ s.names = sync[d].names
      /\ s.files = sync[d].files /\ s.after = sync[d].after /\ s.writes = sync[d].writes
      /\ s.uploads = sync[d].uploads
  BY <1>1 DEF SyncsOf
<1>4. PICK act \in Actions(d, p) : \E x \in Prepared(d, s, p, act) :
         /\ sync' = [sync EXCEPT ![d] = x]
         /\ LET proposed == act \in Proposed(x.ws[p], x.seen[p], base[d][p]) IN
            /\ IF proposed \/ x.target # "both" THEN UNCHANGED extras ELSE Extra
            /\ Expose( Displaced(sync[d].writes, x.writes) \cup
                       IF proposed THEN {} ELSE GivenUp(act, x.ws[p], x.seen[p]) )
  BY DEF Prepare
<1>5. PICK x \in Prepared(d, s, p, act) :
         /\ sync' = [sync EXCEPT ![d] = x]
         /\ LET proposed == act \in Proposed(x.ws[p], x.seen[p], base[d][p]) IN
            /\ IF proposed \/ x.target # "both" THEN UNCHANGED extras ELSE Extra
            /\ Expose( Displaced(sync[d].writes, x.writes) \cup
                       IF proposed THEN {} ELSE GivenUp(act, x.ws[p], x.seen[p]) )
  BY <1>4
<1>6. act \in AllActions
  BY ActionsIs
<1> HIDE DEF s
<1>7. x \in SyncsOf(made) /\ Fixed(s, x) /\ Outcome(d, s, x, p, act)
  BY <1>2, <1>5, <1>6, PreparedIs
<1>8. Outcome(d, sync[d], x, p, act)
  <2> DEFINE t == sync[d]
  <2>0. /\ s.seen = t.seen /\ s.ws = t.ws /\ s.names = t.names /\ s.files = t.files
        /\ s.after = t.after /\ s.writes = t.writes /\ s.uploads = t.uploads
    BY <1>3
  <2>1. Outcome(d, s, x, p, act)
    BY <1>7
  <2> HIDE DEF t
  <2>2. \A h, c : Sending(s, h, c) = Sending(t, h, c)
    BY <2>0 DEF Sending
  <2>3. Left(s, x) <=> Left(t, x)
    BY <2>0 DEF Left
  <2>4. \A c : Pushed(s, x, p, c) <=> Pushed(t, x, p, c)
    BY <2>0, <2>2 DEF Pushed
  <2>5. Outcome(d, t, x, p, act)
    BY <1>6, <2>0, <2>1, <2>2, <2>3, <2>4 DEF Outcome
  <2> QED BY <2>5 DEF t
<1>9. /\ x.seen = sync[d].seen /\ x.ws = sync[d].ws /\ x.checked = sync[d].checked
      /\ x.todo = sync[d].todo \ {p}
  BY <1>3, <1>7 DEF Fixed
<1>10. extras' \in 0..MaxExtras
  BY <1>5, ExtraTypes DEF Types
<1>11. exposed' = exposed \cup Displaced(sync[d].writes, x.writes) \cup
         (IF act \in Proposed(sync[d].ws[p], sync[d].seen[p], base[d][p]) THEN {}
          ELSE GivenUp(act, sync[d].ws[p], sync[d].seen[p]))
  BY <1>5, <1>9 DEF Expose
<1>12. UNCHANGED <<worker, file, base, undo, at, made>> /\ at[d] = "preparing" /\ p \in sync[d].todo
  BY DEF Prepare
<1>13. Prepares(d, p, act, x)
  BY <1>5, <1>8, <1>9, <1>10, <1>11, <1>12 DEF Prepares
<1> QED BY <1>6, <1>7, <1>13

\* What one write of a batch displaces.
LEMMA DisplacedIs ==
  ASSUME NEW n, NEW f \in Patches(n), NEW g
  PROVE  /\ Displaced(f, g) \subseteq 1..n
         /\ \A p \in Paths : \A e : f[p] # Untouched /\ e \in f[p] /\ e \notin g[p] => e \in Displaced(f, g)
<1>1. \A p \in Paths : f[p] \in Known(n) \cup {Untouched}
  BY PatchIs
<1>2. \A p \in Paths : f[p] # Untouched => f[p] \subseteq 1..n
  BY <1>1 DEF Known
<1> QED BY <1>2 DEF Displaced

LEMMA PrepareTypes ==
  ASSUME Types, NEW d \in Devices, NEW p \in Paths, Prepare(d, p)
  PROVE  Types'
<1>1. PICK act \in AllActions, x \in SyncsOf(made) : Prepares(d, p, act, x)
  BY PrepareIs
<1>2. sync[d] \in SyncsOf(made) /\ exposed \in SUBSET (1..made)
  BY DEF Types
<1>3. sync[d].ws[p] \in SUBSET (1..made) /\ sync[d].seen[p] \in SUBSET (1..made)
  BY <1>2, SyncIs, FolderIs DEF Known
<1>4. GivenUp(act, sync[d].ws[p], sync[d].seen[p]) \in SUBSET (1..made)
  BY <1>3 DEF GivenUp, AllActions
<1>5. Displaced(sync[d].writes, x.writes) \in SUBSET (1..made)
  BY <1>2, SyncIs, DisplacedIs
<1>6. exposed' \in SUBSET (1..made)
  BY <1>1, <1>2, <1>4, <1>5 DEF Prepares
<1>7. Counted' /\ Stored'
  BY <1>1, <1>6, TypesParts DEF Counted, Stored, Prepares, worker
<1>8. Dialogs'
  BY <1>1, TypesParts DEF Prepares, Dialogs
<1> QED BY <1>7, <1>8, TypesNext

\* A blob is there, with the content its name says if Honest held, and leaves the uploads;
\* or the sync ends.
LEMMA UploadIs ==
  ASSUME Types, NEW d \in Devices, Upload(d)
  PROVE  /\ at[d] = "preparing"
         /\ UNCHANGED <<manifest, file, base, undo, made, extras, exposed>>
         /\ \/ Done(d) /\ UNCHANGED blobs
            \/ \E u \in sync[d].uploads, s \in SyncsOf(made) :
                 /\ u \in Known(made) \X Known(made)
                 /\ sync' = [sync EXCEPT ![d] = s] /\ at' = at
                 /\ s.uploads = sync[d].uploads \ {u}
                 /\ s.seen = sync[d].seen /\ s.ws = sync[d].ws /\ s.checked = sync[d].checked
                 /\ s.todo = sync[d].todo /\ s.names = sync[d].names /\ s.files = sync[d].files
                 /\ s.after = sync[d].after /\ s.writes = sync[d].writes
                 /\ \/ Fetched(u[1]) # {} /\ blobs' = blobs
                    \/ u[1] = u[2] /\ blobs' = blobs \cup {u}
<1>1. at[d] = "preparing" /\ UNCHANGED <<manifest, file, base, undo, made, extras, exposed>>
  BY DEF Upload
<1>2. PICK u \in sync[d].uploads :
       IF Fetched(u[1]) # {} \/ u[1] = u[2]
       THEN /\ blobs' = IF Fetched(u[1]) # {} THEN blobs ELSE blobs \cup {u}
            /\ sync' = [sync EXCEPT ![d].uploads = @ \ {u}]
            /\ UNCHANGED at
       ELSE Done(d) /\ UNCHANGED blobs
  BY DEF Upload
<1>3. CASE ~ (Fetched(u[1]) # {} \/ u[1] = u[2])
  BY <1>1, <1>2, <1>3
<1>4. CASE Fetched(u[1]) # {} \/ u[1] = u[2]
  <2> DEFINE v == sync[d].uploads \ {u}
             s == [sync[d] EXCEPT !.uploads = v]
  <2>1. sync[d] \in SyncsOf(made) /\ sync[d].uploads \in Loads(made)
    BY SyncIs DEF Types
  <2>2. v \in Loads(made) /\ u \in Known(made) \X Known(made)
    BY <2>1 DEF Loads
  <2>3. sync' = [sync EXCEPT ![d] = s] /\ at' = at
    BY <1>2, <1>4
  <2>4. v = sync[d].uploads \ {u}
    OBVIOUS
  <2> HIDE DEF v
  <2>5. s \in SyncsOf(made)
    BY <2>1, <2>2 DEF SyncsOf
  <2>6. /\ s.uploads = v
        /\ s.seen = sync[d].seen /\ s.ws = sync[d].ws /\ s.checked = sync[d].checked
        /\ s.todo = sync[d].todo /\ s.names = sync[d].names /\ s.files = sync[d].files
        /\ s.after = sync[d].after /\ s.writes = sync[d].writes
    BY <2>1 DEF SyncsOf
  <2>7. \/ Fetched(u[1]) # {} /\ blobs' = blobs
        \/ u[1] = u[2] /\ blobs' = blobs \cup {u}
    BY <1>2, <1>4
  <2> HIDE DEF s
  <2> QED BY <1>1, <2>2, <2>3, <2>4, <2>5, <2>6, <2>7
<1> QED BY <1>3, <1>4

LEMMA UploadTypes ==
  ASSUME Types, NEW d \in Devices, Upload(d)
  PROVE  Types'
<1>1. UNCHANGED <<manifest, file, base, undo, made, extras, exposed>>
  BY UploadIs
<1>2. blobs' \in Loads(made)
  <2>1. blobs \in Loads(made)
    BY DEF Types
  <2> QED BY <2>1, UploadIs DEF Loads
<1>3. Counted' /\ Stored'
  BY <1>1, <1>2, TypesParts DEF Counted, Stored
<1>4. Dialogs'
  <2>1. CASE Done(d)
    BY <1>1, <2>1, DialogsStep
  <2>2. CASE ~ Done(d)
    <3>1. PICK s \in SyncsOf(made) : /\ sync' = [sync EXCEPT ![d] = s] /\ at' = at
                                     /\ s.seen = sync[d].seen /\ s.ws = sync[d].ws
      BY <2>2, UploadIs
    <3>2. at[d] = "preparing"
      BY UploadIs
    <3> QED BY <1>1, <3>1, <3>2, TypesParts DEF Dialogs
  <2> QED BY <2>1, <2>2
<1> QED BY <1>3, <1>4, TypesNext
LEMMA PutManifestTypes ==
  ASSUME Types, NEW d \in Devices, PutManifest(d)
  PROVE  Types'
<1>1. sync[d].files \in Folders(made) /\ at[d] # "idle"
  BY SyncIs DEF Types, PutManifest, Ready
<1>2. UNCHANGED <<blobs, file, base, undo, made, extras, exposed>>
  BY DEF PutManifest
<1>3. Counted' /\ Stored'
  BY <1>1, <1>2, TypesParts DEF Counted, Stored, PutManifest
<1>4. Dialogs'
  <2>1. CASE manifest = sync[d].seen
    <3>1. at' = [at EXCEPT ![d] = "writing"] /\ sync' = sync
      BY <2>1 DEF PutManifest
    <3> QED BY <1>1, <1>2, <3>1, TypesParts DEF Dialogs, Phases
  <2>2. CASE manifest # sync[d].seen
    BY <1>2, <2>2, DialogsStep DEF PutManifest
  <2> QED BY <2>1, <2>2
<1> QED BY <1>3, <1>4, TypesNext

\* What the undo record takes of a folder.
LEMMA TakenIs ==
  ASSUME NEW n, NEW f \in Folders(n), NEW b \in Patches(n)
  PROVE  [p \in Paths |-> IF b[p] = Untouched THEN Untouched ELSE f[p]] \in Patches(n)
BY DEF Folders, Patches

LEMMA SnapshotTypes ==
  ASSUME Types, NEW d \in Devices, Snapshot(d)
  PROVE  Types'
<1>1. sync[d].writes \in Patches(made) /\ at[d] # "idle" /\ file[d] \in Folders(made)
  BY SyncIs DEF Types, Snapshot, Ready
<1>2. UNCHANGED <<worker, file, base, sync, made, extras, exposed>>
  BY DEF Snapshot
<1>3. undo' \in [Devices -> Patches(made)]
  <2> DEFINE r == [p \in Paths |-> IF sync[d].writes[p] = Untouched THEN Untouched ELSE file[d][p]]
  <2>1. r \in Patches(made)
    BY <1>1, TakenIs
  <2>2. undo' = undo \/ undo' = [undo EXCEPT ![d] = r]
    BY DEF Snapshot
  <2> HIDE DEF r
  <2> QED BY <2>1, <2>2 DEF Types
<1>4. Counted' /\ Stored'
  BY <1>2, <1>3, TypesParts DEF Counted, Stored, worker
<1>5. \E a \in Phases \ {"idle"} : at' = [at EXCEPT ![d] = a]
  BY DEF Snapshot, Phases
<1>6. Dialogs'
  BY <1>1, <1>2, <1>5, TypesParts DEF Dialogs
<1> QED BY <1>4, <1>6, TypesNext

LEMMA BatchTypes ==
  ASSUME Types, NEW d \in Devices, Batch(d)
  PROVE  Types'
<1>1. sync[d].writes \in Patches(made) /\ at[d] # "idle" /\ file[d] \in Folders(made)
  BY SyncIs DEF Types, Batch
<1>2. UNCHANGED <<worker, base, undo, sync, made, extras>>
  BY DEF Batch
<1>3. exposed' \in SUBSET (1..made)
  <2>1. \A p \in Paths : file[d][p] \subseteq 1..made
    BY <1>1, FolderIs DEF Known
  <2> QED BY <2>1 DEF Batch, Expose, Types
<1>4. file' \in [Devices -> Folders(made)]
  <2>1. Patched(file[d], sync[d].writes) \in Folders(made)
    BY <1>1, PatchedIs
  <2> QED BY <2>1 DEF Batch, Types
<1>5. Counted' /\ Stored'
  BY <1>2, <1>3, <1>4, TypesParts DEF Counted, Stored, worker
<1>6. Dialogs'
  BY <1>1, <1>2, TypesParts DEF Dialogs, Batch, Phases
<1> QED BY <1>5, <1>6, TypesNext

LEMMA NoteBaseTypes ==
  ASSUME Types, NEW d \in Devices, NoteBase(d)
  PROVE  Types'
<1>1. UNCHANGED <<worker, file, undo, made, extras, exposed>> /\ Done(d)
  BY DEF NoteBase
<1>2. base' \in [Devices -> Folders(made)]
  <2>1. NextBase(sync[d].after, sync[d].files, base[d]) \in Folders(made)
    BY SyncIs, NextBaseIs DEF Types
  <2> QED BY <2>1 DEF NoteBase, Types
<1>3. Counted' /\ Stored'
  BY <1>1, <1>2, TypesParts DEF Counted, Stored, worker
<1>4. Dialogs'
  BY <1>1, DialogsStep
<1> QED BY <1>3, <1>4, TypesNext

LEMMA FailTypes ==
  ASSUME Types, NEW d \in Devices, Fail(d)
  PROVE  Types'
<1>1. UNCHANGED <<worker, file, base, undo, made>> /\ Done(d)
  BY DEF Fail
<1>2. exposed' \in SUBSET (1..made)
  <2>1. sync[d].seen \in Folders(made)
    BY SyncIs DEF Types
  <2>2. Carried(sync[d].seen) \subseteq 1..made
    BY <2>1, CarriedIs
  <2> QED BY <2>2 DEF Fail, Expose, Types
<1>3. extras' \in 0..MaxExtras
  BY ExtraTypes DEF Fail, Types
<1>4. Counted' /\ Stored'
  BY <1>1, <1>2, <1>3, TypesParts DEF Counted, Stored, worker
<1>5. Dialogs'
  BY <1>1, DialogsStep
<1> QED BY <1>4, <1>5, TypesNext

LEMMA UndoTypes ==
  ASSUME Types, NEW d \in Devices, Undo(d)
  PROVE  Types'
<1>0. made \in 0..MaxEdits /\ file[d] \in Folders(made) /\ undo[d] \in Patches(made)
  BY DEF Types
<1>1. UNCHANGED <<worker, base, made>>
  BY DEF Undo
<1>2. exposed' \in SUBSET (1..made)
  <2>1. \A p \in Paths : file[d][p] \subseteq 1..made
    BY <1>0, FolderIs DEF Known
  <2> QED BY <2>1 DEF Undo, Expose, Types
<1>3. extras' \in 0..MaxExtras
  BY ExtraTypes DEF Undo, Types
<1>4. file' \in [Devices -> Folders(made)]
  <2>1. Patched(file[d], undo[d]) \in Folders(made)
    BY <1>0, PatchedIs
  <2> QED BY <2>1 DEF Undo, Types
<1>5. undo' \in [Devices -> Patches(made)]
  <2>1. Nothing \in Patches(made)
    BY <1>0, StartTypes
  <2> QED BY <2>1 DEF Undo, Types
<1>6. Counted' /\ Stored'
  BY <1>1, <1>2, <1>3, <1>4, <1>5, TypesParts DEF Counted, Stored, worker
<1>7. Done(d) \/ UNCHANGED <<at, sync>>
  BY DEF Undo
<1>8. Dialogs'
  BY <1>1, <1>7, DialogsStep
<1> QED BY <1>6, <1>8, TypesNext

LEMMA TypesStart == Init => Types
<1> SUFFICES ASSUME Init PROVE Types
  OBVIOUS
<1>1. 0 \in 0..MaxEdits /\ 0 \in 0..MaxExtras
  BY Bounds
<1>2. Empty \in Folders(0) /\ Nothing \in Patches(0) /\ {} \in Loads(0) /\ NoSync \in SyncsOf(0)
  BY <1>1, StartTypes
<1> QED BY <1>1, <1>2 DEF Init, Types, Phases

LEMMA TypesStep ==
  ASSUME Types, [Next]_vars
  PROVE  Types'
<1>1. ASSUME NEW d \in Devices, NEW p \in Paths, Write(d, p) \/ Delete(d, p) \/ Prepare(d, p)
      PROVE  Types'
  BY <1>1, WriteTypes, DeleteTypes, PrepareTypes
<1>2. ASSUME NEW d \in Devices, Compare(d) \/ Cancel(d) \/ Apply(d) \/ Replace(d)
      PROVE  Types'
  BY <1>2, CompareTypes, CancelTypes, BeginTypes
<1>3. ASSUME NEW d \in Devices,
             Upload(d) \/ PutManifest(d) \/ Snapshot(d) \/ Batch(d) \/ NoteBase(d)
      PROVE  Types'
  BY <1>3, UploadTypes, PutManifestTypes, SnapshotTypes, BatchTypes, NoteBaseTypes
<1>4. ASSUME NEW d \in Devices, Fail(d) \/ Undo(d)
      PROVE  Types'
  BY <1>4, FailTypes, UndoTypes
<1>5. CASE UNCHANGED vars
  BY <1>5 DEF vars, worker, Types
<1> QED BY <1>1, <1>2, <1>3, <1>4, <1>5 DEF Next

\* Every variable stays in its type, and a dialog that is closed keeps nothing (TypeOK of the
\* runs): all contents carry edits that were made.
THEOREM TypeCorrect == Spec => []TypeOK
<1>1. Types /\ [Next]_vars => Types'
  BY TypesStep
<1>2. Types => TypeOK
  BY TypesSuffice
<1> QED BY TypesStart, <1>1, <1>2, PTL DEF Spec
-----------------------------------------------------------------------------
(***************************************************************************)
(* The inductive invariant.  Nothing is said of an edit that is exposed.   *)
(* Of every other edit:                                                    *)
(*   - it is in the file of some device, or of the manifest, or in a copy; *)
(*     a copy that only a batch under way holds is of what the new manifest *)
(*     leaves out, so that the failure of that sync exposes it;            *)
(*   - what a base, a comparison or a plan says of it is still so, or else *)
(*     it is in a copy of the file;                                        *)
(*   - a plan that takes it from a file of the manifest or the workspace   *)
(*     writes it elsewhere.                                                *)
(* And whatever the manifest names, or a plan is to name, the Worker has   *)
(* or is about to be sent.                                                 *)
(***************************************************************************)
Live == (1..made) \ exposed
Copies == Paths \ {0}
Planning == {"preparing", "writing", "batch"}
Past == {"writing", "batch"}
Settled == {"writing", "batch", "noting"}
Taken(s) == {p \in Paths : s.writes[p] # Untouched}
LeftOut(s) == Carried(s.seen) \ Carried(s.files)

\* A batch under way is to write e, which the new manifest leaves out, to copy p.
Travels(d, e, p) ==
  /\ at[d] \in Past /\ p \in Taken(sync[d])
  /\ e \in sync[d].writes[p] /\ e \in LeftOut(sync[d])
Copied(e) ==
  \E p \in Copies : \/ e \in manifest[p]
                    \/ \E d \in Devices : e \in file[d][p] \/ Travels(d, e, p)
Safe(e, p) == p = 0 /\ Copied(e)

\* The Worker's blobs are what their names say, and those that are named are there.
Honest == \A x \in blobs : x[1] = x[2]
Has(c) == c = NoFile \/ <<c, c>> \in blobs
ManifestHas == \A p \in Paths : Has(manifest[p])
Backed(d) ==
  at[d] # "idle" => \A p \in Paths :
    /\ Has(sync[d].seen[p])
    /\ Has(sync[d].files[p]) \/ \E u \in sync[d].uploads : u[1] = sync[d].files[p]

\* The plan of a sync: what it leaves alone, and what it replaces.
Plan(s) ==
  \A p \in Paths :
    /\ p \notin Taken(s) => s.after[p] = s.ws[p]
    /\ p \notin s.names \/ p \in Taken(s) => s.checked[p] \in {s.ws[p], NoFile}
    /\ p \in s.todo => s.checked[p] = s.ws[p]
Planned(d) ==
  /\ at[d] = "choosing" => sync[d].writes = Nothing
  /\ at[d] \in Planning => Plan(sync[d])
  /\ at[d] \in Settled => sync[d].uploads = {}

\* What the sync of d says of edit e at path p.
Based(d, e, p) ==
  e \in base[d][p] => (e \in file[d][p] /\ e \in manifest[p]) \/ Safe(e, p)
Compared(d, e, p) ==
  /\ e \in sync[d].seen[p] => e \in manifest[p] \/ Safe(e, p)
  /\ e \in base[d][p] => (e \in sync[d].seen[p] /\ e \in sync[d].ws[p]) \/ Safe(e, p)
  /\ at[d] # "noting" /\ e \in sync[d].ws[p] => e \in file[d][p] \/ Safe(e, p)
Written(s, e) == \E q \in Copies \cap Taken(s) : e \in s.writes[q]
Working(s, e, p) ==
  /\ p \in Taken(s) /\ e \in s.ws[p] => e \in s.writes[p] \/ Safe(e, p)
  /\ p \in Taken(s) /\ e \in s.after[p] => e \in s.writes[p]
  /\ e \in s.ws[p] /\ p # 0 => p \in s.names
  /\ e \in s.seen[p] /\ e \notin s.files[p] => p = 0 /\ (Copied(e) \/ Written(s, e))
Agreed(d, e, p) == e \in sync[d].files[p] => e \in manifest[p] \/ Safe(e, p)
Noted(d, e, p) == e \in sync[d].after[p] => e \in file[d][p] \/ Safe(e, p)
Followed(d, e) ==
  \A p \in Paths :
    /\ Based(d, e, p)
    /\ at[d] # "idle" => Compared(d, e, p)
    /\ at[d] \in Planning => Working(sync[d], e, p)
    /\ at[d] \in Settled => Agreed(d, e, p)
    /\ at[d] = "noting" => Noted(d, e, p)

Somewhere(e) == Copied(e) \/ e \in manifest[0] \/ \E d \in Devices : e \in file[d][0]

IInv ==
  /\ Types
  /\ Honest /\ ManifestHas
  /\ \A d \in Devices : Backed(d) /\ Planned(d)
  /\ \A e \in Live : Somewhere(e) /\ \A d \in Devices : Followed(d, e)

\* What a step may do to the places of an edit.
Persists(e) ==
  /\ Copied(e) => Copied(e)'
  /\ \A p \in Paths : e \in manifest[p] => e \in manifest'[p] \/ Safe(e, p)'
  /\ \A d \in Devices, p \in Paths : e \in file[d][p] => e \in file'[d][p] \/ Safe(e, p)'
-----------------------------------------------------------------------------
LEMMA FetchedIs ==
  ASSUME Types, Honest, NEW h, NEW c \in Fetched(h)
  PROVE  c = h /\ <<h, h>> \in blobs
<1>1. PICK x \in blobs : x[1] = h /\ c = x[2]
  BY DEF Fetched
<1>2. x \in Known(made) \X Known(made)
  BY DEF Types, Loads
<1>3. x[1] = x[2] /\ x = <<x[1], x[2]>>
  BY <1>2 DEF Honest
<1> QED BY <1>1, <1>3

LEMMA FetchedHas ==
  ASSUME NEW h, <<h, h>> \in blobs
  PROVE  h \in Fetched(h)
<1>1. <<h, h>>[1] = h /\ <<h, h>>[2] = h
  OBVIOUS
<1>2. <<h, h>> \in {y \in blobs : y[1] = h}
  BY <1>1
<1> QED BY <1>1, <1>2 DEF Fetched

\* An edit that is somewhere is kept.
LEMMA SomewhereIsKept ==
  ASSUME IInv, NEW e \in Live
  PROVE  Kept(e)
<1>0. Types /\ ManifestHas /\ Somewhere(e)
  BY DEF IInv
<1>1. ASSUME NEW p \in Paths, e \in manifest[p] PROVE Kept(e)
  <2>1. <<manifest[p], manifest[p]>> \in blobs
    BY <1>0, <1>1 DEF ManifestHas, Has, NoFile
  <2>2. manifest[p] \in Fetched(manifest[p])
    BY <2>1, FetchedHas
  <2> QED BY <1>1, <2>2 DEF Kept
<1>2. ASSUME NEW d \in Devices, NEW p \in Paths, e \in file[d][p] PROVE Kept(e)
  <2>1. file[d] \in Folders(made)
    BY <1>0 DEF Types
  <2>2. e \in Carried(file[d])
    BY <1>2, <2>1, CarriedIs
  <2> QED BY <2>2 DEF Kept
<1>3. ASSUME NEW d \in Devices, NEW p \in Paths, Travels(d, e, p) PROVE Kept(e)
  <2>1. sync[d].writes \in Patches(made) /\ Empty \in Folders(made)
    BY <1>0, SyncIs, StartTypes DEF Types
  <2>2. /\ Patched(Empty, sync[d].writes) \in Folders(made)
        /\ Patched(Empty, sync[d].writes)[p] = sync[d].writes[p]
    BY <1>3, <2>1, PatchedIs DEF Travels, Taken
  <2>3. e \in Carried(Patched(Empty, sync[d].writes))
    BY <1>3, <2>2, CarriedIs DEF Travels
  <2> QED BY <1>3, <2>3 DEF Kept, Travels, Past
<1>4. 0 \in Paths /\ Copies \subseteq Paths
  BY Bounds DEF Paths, Copies
<1> QED BY <1>0, <1>1, <1>2, <1>3, <1>4 DEF Somewhere, Copied
-----------------------------------------------------------------------------
\* An edit stays where it is, step by step.
LEMMA QuietPersists ==
  ASSUME NEW e, UNCHANGED <<manifest, file>>,
         \A d \in Devices, p \in Copies : Travels(d, e, p) => Travels(d, e, p)'
  PROVE  Persists(e)
BY DEF Persists, Copied, Safe

\* Only the sync of d moves, and it is not between its manifest and its batch.
LEMMA OneMoves ==
  ASSUME Types, NEW e, NEW d \in Devices, UNCHANGED <<manifest, file>>, at[d] \notin Past,
         \E a, s : at' = [at EXCEPT ![d] = a] /\ sync' = [sync EXCEPT ![d] = s]
  PROVE  Persists(e)
<1>1. \A c \in Devices, p \in Copies : Travels(c, e, p) => Travels(c, e, p)'
  BY DEF Travels, Types
<1> QED BY <1>1, QuietPersists

LEMMA WritePersists ==
  ASSUME Types, NEW e, NEW d \in Devices, NEW p \in Paths, Write(d, p)
  PROVE  Persists(e)
<1>1. \A c \in Devices, q \in Paths : e \in file[c][q] => e \in file'[c][q]
  BY DEF Write, Types, Folders
<1>2. UNCHANGED <<manifest, at, sync>>
  BY DEF Write, worker
<1> QED BY <1>1, <1>2 DEF Persists, Copied, Safe, Travels, Copies

LEMMA DeletePersists ==
  ASSUME Types, NEW e, e \notin exposed', NEW d \in Devices, NEW p \in Paths, Delete(d, p)
  PROVE  Persists(e)
<1>0. e \notin file[d][p]
  BY DEF Delete, Expose
<1>1. \A c \in Devices, q \in Paths : e \in file[c][q] => e \in file'[c][q]
  BY <1>0 DEF Delete, Types, Folders
<1>2. UNCHANGED <<manifest, at, sync>>
  BY DEF Delete, worker
<1> QED BY <1>1, <1>2 DEF Persists, Copied, Safe, Travels, Copies

LEMMA UndoPersists ==
  ASSUME Types, NEW e, e \notin exposed', NEW d \in Devices, Undo(d)
  PROVE  Persists(e)
<1>0. \A q \in Paths : e \in file[d][q] => e \in file'[d][q]
  BY DEF Undo, Expose
<1>1. \A c \in Devices, q \in Paths : e \in file[c][q] => e \in file'[c][q]
  BY <1>0 DEF Undo, Types
<1>2. manifest' = manifest
  BY DEF Undo, worker
<1>3. \A c \in Devices, q \in Copies : Travels(c, e, q) => Travels(c, e, q)'
  <2>1. CASE at[d] = "choosing" /\ Done(d)
    <3>1. at[d] \notin Past
      BY <2>1 DEF Past
    <3> QED BY <2>1, <3>1 DEF Travels, Done, Types
  <2>2. CASE UNCHANGED <<at, sync>>
    BY <2>2 DEF Travels
  <2> QED BY <2>1, <2>2 DEF Undo
<1> QED BY <1>1, <1>2, <1>3 DEF Persists, Copied, Safe, Copies

LEMMA SnapshotPersists ==
  ASSUME Types, NEW e, NEW d \in Devices, Snapshot(d)
  PROVE  Persists(e)
<1>1. UNCHANGED <<manifest, file, sync>>
  BY DEF Snapshot, worker
<1>2. CASE sync[d].writes = Nothing
  <2>1. Taken(sync[d]) = {}
    BY <1>2 DEF Taken, Nothing
  <2>2. \E a : at' = [at EXCEPT ![d] = a]
    BY <1>2 DEF Snapshot
  <2>3. \A c \in Devices, p \in Copies : Travels(c, e, p) => Travels(c, e, p)'
    BY <1>1, <2>1, <2>2 DEF Travels, Types
  <2> QED BY <1>1, <2>3, QuietPersists
<1>3. CASE sync[d].writes # Nothing
  <2>1. at' = [at EXCEPT ![d] = "batch"]
    BY <1>3 DEF Snapshot
  <2>2. \A c \in Devices, p \in Copies : Travels(c, e, p) => Travels(c, e, p)'
    BY <1>1, <2>1 DEF Travels, Types, Past
  <2> QED BY <1>1, <2>2, QuietPersists
<1> QED BY <1>2, <1>3

LEMMA FailPersists ==
  ASSUME Types, NEW e, e \notin exposed', NEW d \in Devices, Fail(d)
  PROVE  Persists(e)
<1>1. UNCHANGED <<manifest, file>> /\ Done(d)
  BY DEF Fail, worker
<1>2. at[d] \in Past => e \notin LeftOut(sync[d])
  BY DEF Fail, Expose, LeftOut, Past
<1>3. \A c \in Devices, p \in Copies : Travels(c, e, p) => Travels(c, e, p)'
  BY <1>1, <1>2 DEF Travels, Done, Types
<1> QED BY <1>1, <1>3, QuietPersists

LEMMA PutManifestPersists ==
  ASSUME IInv, NEW e \in Live, NEW d \in Devices, PutManifest(d)
  PROVE  Persists(e)
<1>0. Types /\ at[d] = "preparing" /\ Followed(d, e) /\ UNCHANGED file
  BY DEF IInv, PutManifest, Ready
<1>1. CASE manifest # sync[d].seen
  <2>1. Done(d) /\ manifest' = manifest /\ at[d] \notin Past
    BY <1>0, <1>1 DEF PutManifest, Past
  <2> QED BY <1>0, <2>1, OneMoves DEF Done
<1>2. CASE manifest = sync[d].seen
  <2> DEFINE s == sync[d]
  <2>1. manifest' = s.files /\ at' = [at EXCEPT ![d] = "writing"] /\ sync' = sync
    BY <1>2 DEF PutManifest
  <2>2. s.files \in Folders(made) /\ s.seen \in Folders(made)
    BY <1>0, SyncIs DEF Types
  <2>3. \A p \in Paths : e \in manifest[p] /\ e \notin manifest'[p] =>
          p = 0 /\ (Copied(e) \/ Written(s, e))
    BY <1>0, <1>2, <2>1 DEF Followed, Working, Planning
  <2>4. \A c \in Devices, p \in Copies : Travels(c, e, p) => Travels(c, e, p)'
    BY <1>0, <2>1 DEF Travels, Types, Past
  <2>5. Copied(e) => Copied(e)'
    <3> SUFFICES ASSUME Copied(e) PROVE Copied(e)'
      OBVIOUS
    <3>1. PICK p \in Copies : e \in manifest[p] \/ \E c \in Devices : e \in file[c][p] \/ Travels(c, e, p)
      BY DEF Copied
    <3>2. p \in Paths /\ p # 0
      BY DEF Copies
    <3>3. e \in manifest[p] => e \in manifest'[p]
      BY <2>3, <3>2
    <3> QED BY <1>0, <2>4, <3>1, <3>3 DEF Copied
  <2>6. ASSUME NEW p \in Paths, e \in manifest[p], e \notin manifest'[p] PROVE Safe(e, p)'
    <3>1. p = 0 /\ (Copied(e) \/ Written(s, e))
      BY <2>3, <2>6
    <3>2. CASE Copied(e)
      BY <2>5, <3>1, <3>2 DEF Safe
    <3>3. CASE Written(s, e)
      <4>1. PICK q \in Copies \cap Taken(s) : e \in s.writes[q]
        BY <3>3 DEF Written
      <4>2. CASE \E r \in Paths : e \in s.files[r]
        <5>1. PICK r \in Paths : e \in s.files[r]
          BY <4>2
        <5>2. r \in Copies
          BY <2>1, <2>6, <3>1, <5>1 DEF Copies
        <5>3. Copied(e)'
          BY <2>1, <5>1, <5>2 DEF Copied
        <5> QED BY <3>1, <5>3 DEF Safe
      <4>3. CASE ~ \E r \in Paths : e \in s.files[r]
        <5>1. e \in LeftOut(s)
          BY <1>2, <2>2, <2>6, <4>3, CarriedIs DEF LeftOut
        <5>2. Travels(d, e, q)'
          BY <1>0, <2>1, <4>1, <5>1 DEF Travels, Types, Past
        <5>3. Copied(e)'
          BY <4>1, <5>2 DEF Copied
        <5> QED BY <3>1, <5>3 DEF Safe
      <4> QED BY <4>2, <4>3
    <3> QED BY <3>1, <3>2, <3>3
  <2> QED BY <1>0, <2>5, <2>6 DEF Persists
<1> QED BY <1>1, <1>2

\* What a batch replaces it writes, or a copy has it.
LEMMA BatchKeeps ==
  ASSUME IInv, NEW e \in Live, e \notin exposed', NEW d \in Devices, Batch(d), NEW p \in Paths
  PROVE  /\ e \in file[d][p] => e \in file'[d][p] \/ Safe(e, p)
         /\ p \in Taken(sync[d]) => file'[d][p] = sync[d].writes[p]
         /\ p \notin Taken(sync[d]) => file'[d][p] = file[d][p]
<1>0. Types /\ at[d] = "batch" /\ Followed(d, e) /\ Plan(sync[d])
  BY DEF IInv, Batch, Planned, Planning
<1>1. file[d] \in Folders(made) /\ sync[d].writes \in Patches(made)
  BY <1>0, SyncIs DEF Types
<1>2. file'[d] = Patched(file[d], sync[d].writes)
  BY <1>0 DEF Batch, Types
<1>3. /\ p \in Taken(sync[d]) => file'[d][p] = sync[d].writes[p]
      /\ p \notin Taken(sync[d]) => file'[d][p] = file[d][p]
  BY <1>1, <1>2, PatchedIs DEF Taken
<1>4. ASSUME e \in file[d][p], p \in Taken(sync[d]) PROVE e \in file'[d][p] \/ Safe(e, p)
  <2>1. e \in sync[d].checked[p]
    BY <1>4 DEF Batch, Expose, Taken
  <2>2. e \in sync[d].ws[p]
    BY <1>0, <1>4, <2>1 DEF Plan, NoFile
  <2>3. e \in sync[d].writes[p] \/ Safe(e, p)
    BY <1>0, <1>4, <2>2 DEF Followed, Working, Planning
  <2> QED BY <1>3, <1>4, <2>3
<1> QED BY <1>3, <1>4

LEMMA BatchPersists ==
  ASSUME IInv, NEW e \in Live, e \notin exposed', NEW d \in Devices, Batch(d)
  PROVE  Persists(e)
<1>0. /\ UNCHANGED <<manifest, sync>> /\ at' = [at EXCEPT ![d] = "noting"]
      /\ \A c \in Devices \ {d} : file'[c] = file[c]
  BY DEF Batch, worker, IInv, Types
<1>1. Copied(e) => Copied(e)'
  <2> SUFFICES ASSUME Copied(e) PROVE Copied(e)'
    OBVIOUS
  <2>1. PICK p \in Copies : e \in manifest[p] \/ \E c \in Devices : e \in file[c][p] \/ Travels(c, e, p)
    BY DEF Copied
  <2>2. p \in Paths /\ ~ Safe(e, p)
    BY DEF Copies, Safe
  <2>3. ASSUME NEW c \in Devices, e \in file[c][p] PROVE Copied(e)'
    <3>1. e \in file'[c][p]
      BY <1>0, <2>2, <2>3, BatchKeeps
    <3> QED BY <3>1 DEF Copied
  <2>4. ASSUME NEW c \in Devices, Travels(c, e, p) PROVE Copied(e)'
    <3>1. CASE c = d
      <4>1. e \in file'[d][p]
        BY <2>2, <2>4, <3>1, BatchKeeps DEF Travels
      <4> QED BY <4>1 DEF Copied
    <3>2. CASE c # d
      <4>1. Travels(c, e, p)'
        BY <1>0, <2>4, <3>2 DEF Travels, IInv, Types
      <4> QED BY <4>1 DEF Copied
    <3> QED BY <3>1, <3>2
  <2>5. CASE e \in manifest[p]
    BY <1>0, <2>5 DEF Copied
  <2> QED BY <2>1, <2>3, <2>4, <2>5
<1>2. \A p \in Paths : Safe(e, p) => Safe(e, p)'
  BY <1>1 DEF Safe
<1>3. \A c \in Devices, p \in Paths : e \in file[c][p] => e \in file'[c][p] \/ Safe(e, p)'
  BY <1>0, <1>2, BatchKeeps
<1> QED BY <1>0, <1>1, <1>3 DEF Persists

\* Every step leaves an edit that it does not expose where it was, or a copy has it.
LEMMA StepPersists ==
  ASSUME IInv, [Next]_vars, NEW e \in Live, e \notin exposed'
  PROVE  Persists(e)
<1>0. Types
  BY DEF IInv
<1>1. ASSUME NEW d \in Devices, NEW p \in Paths, Write(d, p) \/ Delete(d, p) PROVE Persists(e)
  BY <1>0, <1>1, WritePersists, DeletePersists
<1>2. ASSUME NEW d \in Devices, NEW p \in Paths, Prepare(d, p) PROVE Persists(e)
  <2>1. PICK act \in AllActions, x \in SyncsOf(made) : Prepares(d, p, act, x)
    BY <1>0, <1>2, PrepareIs
  <2>2. UNCHANGED <<manifest, file>> /\ at[d] \notin Past
    BY <2>1 DEF Prepares, worker, Past
  <2>3. at' = [at EXCEPT ![d] = at[d]] /\ sync' = [sync EXCEPT ![d] = x]
    BY <1>0, <2>1 DEF Prepares, Types
  <2> QED BY <1>0, <2>2, <2>3, OneMoves
<1>3. ASSUME NEW d \in Devices, Compare(d) \/ Cancel(d) PROVE Persists(e)
  <2>1. UNCHANGED <<manifest, file>> /\ at[d] \notin Past
    BY <1>3 DEF Compare, Cancel, worker, Past
  <2>2. \E a, s : at' = [at EXCEPT ![d] = a] /\ sync' = [sync EXCEPT ![d] = s]
    <3>1. UNCHANGED <<at, sync>> => at' = [at EXCEPT ![d] = at[d]] /\ sync' = [sync EXCEPT ![d] = sync[d]]
      BY <1>0 DEF Types
    <3> QED BY <1>3, <3>1 DEF Compare, Cancel, Done
  <2> QED BY <1>0, <2>1, <2>2, OneMoves
<1>4. ASSUME NEW d \in Devices, Apply(d) \/ Replace(d) PROVE Persists(e)
  <2>1. PICK target \in Targets, items \in SetsOf(Paths), checked \in Folders(made) :
           /\ Begin(d, target, items, checked)
           /\ at[d] = "choosing" /\ at' = [at EXCEPT ![d] = "preparing"]
           /\ sync' = [sync EXCEPT ![d] = Begun(d, target, items, checked)]
    BY <1>0, <1>4, BeginIs
  <2>2. UNCHANGED <<manifest, file>> /\ at[d] \notin Past
    BY <2>1 DEF Begin, worker, Past
  <2> QED BY <1>0, <2>1, <2>2, OneMoves
<1>5. ASSUME NEW d \in Devices, Upload(d) PROVE Persists(e)
  <2>1. UNCHANGED <<manifest, file>> /\ at[d] \notin Past
    BY <1>0, <1>5, UploadIs DEF Past
  <2>2. \E a, s : at' = [at EXCEPT ![d] = a] /\ sync' = [sync EXCEPT ![d] = s]
    <3>1. at' = at => at' = [at EXCEPT ![d] = at[d]]
      BY <1>0 DEF Types
    <3> QED BY <1>0, <1>5, <3>1, UploadIs DEF Done
  <2> QED BY <1>0, <2>1, <2>2, OneMoves
<1>6. ASSUME NEW d \in Devices, PutManifest(d) \/ Snapshot(d) \/ Batch(d) \/ Fail(d) \/ Undo(d)
      PROVE  Persists(e)
  BY <1>0, <1>6, PutManifestPersists, SnapshotPersists, BatchPersists, FailPersists, UndoPersists
<1>7. ASSUME NEW d \in Devices, NoteBase(d) PROVE Persists(e)
  <2>1. UNCHANGED <<manifest, file>> /\ at[d] \notin Past /\ Done(d)
    BY <1>7 DEF NoteBase, worker, Past
  <2> QED BY <1>0, <2>1, OneMoves DEF Done
<1>8. CASE UNCHANGED vars
  <2>1. UNCHANGED <<manifest, file, at, sync>>
    BY <1>8 DEF vars, worker
  <2> QED BY <2>1, QuietPersists DEF Travels
<1> QED BY <1>1, <1>2, <1>3, <1>4, <1>5, <1>6, <1>7, <1>8 DEF Next
-----------------------------------------------------------------------------
\* What is said of e on a device whose sync does not move stays true.
LEMMA Steady ==
  ASSUME NEW e, NEW d \in Devices, Persists(e), Followed(d, e),
         at'[d] = at[d], sync'[d] = sync[d], base'[d] = base[d]
  PROVE  Followed(d, e)'
<1> SUFFICES ASSUME NEW p \in Paths
             PROVE  /\ Based(d, e, p)'
                    /\ at'[d] # "idle" => Compared(d, e, p)'
                    /\ at'[d] \in Planning => Working(sync[d], e, p)'
                    /\ at'[d] \in Settled => Agreed(d, e, p)'
                    /\ at'[d] = "noting" => Noted(d, e, p)'
  BY DEF Followed
<1>1. Safe(e, p) => Safe(e, p)'
  BY DEF Persists, Safe
<1>2. e \in manifest[p] => e \in manifest'[p] \/ Safe(e, p)'
  BY DEF Persists
<1>3. e \in file[d][p] => e \in file'[d][p] \/ Safe(e, p)'
  BY DEF Persists
<1>4. Copied(e) => Copied(e)'
  BY DEF Persists
<1>5. Based(d, e, p)'
  BY <1>1, <1>2, <1>3 DEF Followed, Based
<1>6. at'[d] # "idle" => Compared(d, e, p)'
  BY <1>1, <1>2, <1>3 DEF Followed, Compared
<1>7. at'[d] \in Planning => Working(sync[d], e, p)'
  BY <1>1, <1>4 DEF Followed, Working
<1>8. at'[d] \in Settled => Agreed(d, e, p)'
  BY <1>1, <1>2 DEF Followed, Agreed
<1>9. at'[d] = "noting" => Noted(d, e, p)'
  BY <1>1, <1>3 DEF Followed, Noted
<1> QED BY <1>5, <1>6, <1>7, <1>8, <1>9

\* Once the dialog is closed only the base counts.
LEMMA Closed ==
  ASSUME NEW e, NEW d \in Devices, Persists(e), Followed(d, e),
         at'[d] = "idle", base'[d] = base[d]
  PROVE  Followed(d, e)'
BY DEF Followed, Based, Persists, Safe, Planning, Settled

\* Nothing says anything of an edit that is not made.
LEMMA NewIsUnknown ==
  ASSUME Types, NEW e, e \notin 1..made, NEW d \in Devices,
         at'[d] = at[d], sync'[d] = sync[d], base'[d] = base[d]
  PROVE  Followed(d, e)'
<1>1. sync[d] \in SyncsOf(made) /\ base[d] \in Folders(made)
  BY DEF Types
<1>2. \A f \in Folders(made) : \A p \in Paths : e \notin f[p]
  BY FolderIs DEF Known
<1>3. \A p \in Paths : /\ e \notin base[d][p] /\ e \notin sync[d].seen[p] /\ e \notin sync[d].ws[p]
                       /\ e \notin sync[d].files[p] /\ e \notin sync[d].after[p]
  BY <1>1, <1>2, SyncIs
<1> QED BY <1>3 DEF Followed, Based, Compared, Working, Agreed, Noted
-----------------------------------------------------------------------------
(***************************************************************************)
(* One step of the preparation.                                            *)
(***************************************************************************)
\* What a preparation does to an edit that it does not expose.
Held(s, x, e) ==
  /\ x.seen = s.seen /\ x.ws = s.ws /\ s.names \subseteq x.names
  /\ \A q \in Taken(s) : q \in Taken(x) /\ (e \in s.writes[q] => e \in x.writes[q])

\* At a path that the preparation leaves alone, what was said of an edit stays true.
LEMMA UntouchedPath ==
  ASSUME NEW s, NEW x, NEW e, NEW q \in Paths, Held(s, x, e), Working(s, e, q),
         x.writes[q] = s.writes[q], x.after[q] = s.after[q], x.files[q] = s.files[q]
  PROVE  Working(x, e, q)
<1>1. Written(s, e) => Written(x, e)
  BY DEF Held, Written
<1>2. q \in Taken(x) <=> q \in Taken(s)
  BY DEF Taken
<1> QED BY <1>1, <1>2 DEF Working, Held

\* A batch to which one write is added.
LEMMA TakenGrows ==
  ASSUME NEW n \in 0..MaxEdits, NEW s \in SyncsOf(n), NEW x, NEW q \in Paths, NEW c \in Known(n),
         x.writes = [s.writes EXCEPT ![q] = c]
  PROVE  /\ Taken(x) = Taken(s) \cup {q} /\ x.writes[q] = c
         /\ \A r \in Paths \ {q} : x.writes[r] = s.writes[r]
<1>1. DOMAIN s.writes = Paths
  BY SyncIs, PatchIs
<1>2. c # Untouched
  BY KnownIs
<1> QED BY <1>1, <1>2 DEF Taken

Grows(s, x) == Taken(s) \subseteq Taken(x) /\ s.names \subseteq x.names
BatchIs(s, x, p, act) ==
  /\ act \in {"skip", "to-local", "delete-local"} => x.writes = s.writes /\ x.after = s.after
  /\ act = "to-workspace" => x.writes = [s.writes EXCEPT ![p] = s.seen[p]]
  /\ act = "keep-both" => /\ p = 0 /\ x.after = s.after
                          /\ \E q \in Copies : /\ q \notin s.names /\ x.names = s.names \cup {q}
                                               /\ x.writes = [s.writes EXCEPT ![q] = s.seen[p]]
  /\ act # "keep-both" => x.names = s.names
  /\ Grows(s, x)

\* What the preparation does to the batch.
LEMMA OutcomeTakes ==
  ASSUME Types, Honest, NEW d \in Devices, NEW p \in Paths, NEW act \in AllActions,
         NEW s \in SyncsOf(made), NEW x \in SyncsOf(made), Outcome(d, s, x, p, act)
  PROVE  BatchIs(s, x, p, act)
<1>0. made \in 0..MaxEdits /\ s.seen[p] \in Known(made) /\ NoFile \in Known(made)
  BY SyncIs, FolderIs, KnownIs DEF Types
<1>1. \A c \in Fetched(s.seen[p]) : c = s.seen[p]
  BY FetchedIs
<1>2. act \in {"skip", "to-local", "delete-local"} => x.writes = s.writes /\ x.after = s.after
  BY DEF Outcome, Left
<1>3. act = "to-workspace" => x.writes = [s.writes EXCEPT ![p] = s.seen[p]]
  BY <1>1 DEF Outcome
<1>4. act = "keep-both" =>
        /\ p = 0 /\ x.after = s.after
        /\ \E q \in Copies : /\ q \notin s.names /\ x.names = s.names \cup {q}
                             /\ x.writes = [s.writes EXCEPT ![q] = s.seen[p]]
  BY <1>1 DEF Outcome, Copies
<1>5. act # "keep-both" => x.names = s.names
  BY DEF Outcome, AllActions
<1>6. Taken(s) \subseteq Taken(x)
  <2>1. CASE act \in {"skip", "to-local", "delete-local"}
    BY <1>2, <2>1 DEF Taken
  <2>2. CASE act = "to-workspace"
    BY <1>0, <1>3, <2>2, TakenGrows
  <2>3. CASE act = "keep-both"
    <3>1. PICK q \in Copies : x.writes = [s.writes EXCEPT ![q] = s.seen[p]]
      BY <1>4, <2>3
    <3>2. q \in Paths
      BY DEF Copies
    <3> QED BY <1>0, <3>1, <3>2, TakenGrows
  <2>4. CASE act = "merge"
    <3>1. Merged(s.ws[p], s.seen[p], base[d][p]) \in Known(made)
      <4>1. s.ws[p] \in Known(made) /\ base[d][p] \in Known(made)
        BY SyncIs, FolderIs DEF Types
      <4> QED BY <1>0, <4>1 DEF Merged, Known
    <3>2. x.writes = [s.writes EXCEPT ![p] = Merged(s.ws[p], s.seen[p], base[d][p])]
      BY <2>4 DEF Outcome
    <3> QED BY <1>0, <3>1, <3>2, TakenGrows
  <2>5. CASE act = "delete-workspace"
    <3>1. x.writes = [s.writes EXCEPT ![p] = NoFile]
      BY <2>5 DEF Outcome
    <3>2. Taken(x) = Taken(s) \cup {p}
      BY <1>0, <3>1, TakenGrows, SMTT(30)
    <3> QED BY <3>2
  <2> QED BY <2>1, <2>2, <2>3, <2>4, <2>5 DEF AllActions
<1>7. Grows(s, x)
  BY <1>4, <1>5, <1>6 DEF Grows
<1> QED BY <1>2, <1>3, <1>4, <1>5, <1>7 DEF BatchIs

\* A step of the preparation that does not expose e holds it.
LEMMA PreparesHolds ==
  ASSUME Types, Honest, NEW d \in Devices, NEW p \in Paths, NEW act \in AllActions,
         NEW x \in SyncsOf(made), Prepares(d, p, act, x), NEW e, e \notin exposed'
  PROVE  /\ Held(sync[d], x, e)
         /\ \/ act \in Proposed(sync[d].ws[p], sync[d].seen[p], base[d][p])
            \/ e \notin GivenUp(act, sync[d].ws[p], sync[d].seen[p])
<1>0. sync[d] \in SyncsOf(made) /\ Outcome(d, sync[d], x, p, act)
  BY DEF Types, Prepares
<1>1. Taken(sync[d]) \subseteq Taken(x) /\ sync[d].names \subseteq x.names
  <2>1. BatchIs(sync[d], x, p, act)
    BY <1>0, OutcomeTakes
  <2> QED BY <2>1 DEF BatchIs, Grows
<1>2. e \notin Displaced(sync[d].writes, x.writes)
  BY DEF Prepares
<1>3. \A q \in Taken(sync[d]) : e \in sync[d].writes[q] => e \in x.writes[q]
  BY <1>0, <1>2, SyncIs, DisplacedIs DEF Taken
<1>4. Held(sync[d], x, e)
  BY <1>1, <1>3 DEF Held, Prepares
<1> QED BY <1>4 DEF Prepares

\* What the sync says of an edit stays true while it is prepared.
LEMMA PreparesWorks ==
  ASSUME Types, Honest, NEW d \in Devices, NEW p \in Paths, NEW act \in AllActions,
         NEW x \in SyncsOf(made), Prepares(d, p, act, x), NEW e, e \notin exposed',
         Plan(sync[d]), Followed(d, e)
  PROVE  \A r \in Paths : Working(x, e, r)
<1> DEFINE s == sync[d]
           w == s.ws[p]
           l == s.seen[p]
           b == base[d][p]
<1>0. s \in SyncsOf(made) /\ Outcome(d, s, x, p, act) /\ at[d] = "preparing" /\ made \in 0..MaxEdits
  BY DEF Types, Prepares
<1>1. Held(s, x, e) /\ (act \in Proposed(w, l, b) \/ e \notin GivenUp(act, w, l))
  BY PreparesHolds
<1>2. /\ \A r \in Paths : Working(s, e, r)
      /\ e \in b => (e \in l /\ e \in w) \/ Safe(e, p)
  BY <1>0 DEF Followed, Planning, Compared
<1>3. w \in Known(made) /\ l \in Known(made) /\ b \in Known(made) /\ NoFile \in Known(made)
  BY <1>0, SyncIs, FolderIs, KnownIs DEF Types
<1>4. DOMAIN s.after = Paths /\ DOMAIN s.files = Paths /\ DOMAIN s.writes = Paths
  BY <1>0, SyncIs, FolderIs, PatchIs
<1>5. x.seen = s.seen /\ x.ws = s.ws
  BY <1>1 DEF Held
<1>6. Plan(s)
  OBVIOUS
<1>7. Written(s, e) => Written(x, e)
  BY <1>1 DEF Held, Written
<1>8. Safe(e, p) => p = 0 /\ Copied(e)
  BY DEF Safe
<1>9. /\ act = "to-workspace" => x.writes = [s.writes EXCEPT ![p] = l]
      /\ act = "keep-both" => /\ p = 0 /\ x.after = s.after
                              /\ \E q \in Copies : /\ q \notin s.names /\ x.names = s.names \cup {q}
                                                   /\ x.writes = [s.writes EXCEPT ![q] = l]
  <2>1. BatchIs(s, x, p, act)
    BY <1>0, OutcomeTakes
  <2> QED BY <2>1 DEF BatchIs
<1> HIDE DEF s
<1>10. CASE act = "skip"
  <2>1. x.writes = s.writes /\ x.after = s.after /\ x.files = s.files
    BY <1>0, <1>10 DEF Outcome, Left
  <2> QED BY <1>1, <1>2, <2>1, UntouchedPath
<1>11. CASE act = "to-workspace"
  <2>1. /\ x.writes = [s.writes EXCEPT ![p] = l] /\ x.after = [s.after EXCEPT ![p] = l]
        /\ x.files = s.files /\ x.names = s.names
    BY <1>0, <1>9, <1>11 DEF Outcome
  <2>2. ASSUME NEW r \in Paths, r # p PROVE Working(x, e, r)
    BY <1>1, <1>2, <1>4, <2>1, <2>2, UntouchedPath
  <2>3. e \in w => e \in l \/ Safe(e, p)
    <3>1. act \in Proposed(w, l, b) => w = NoFile \/ w = b
      BY <1>11 DEF Proposed
    <3>2. e \notin GivenUp(act, w, l) => (e \in w => e \in l)
      BY <1>11 DEF GivenUp
    <3> QED BY <1>1, <1>2, <3>1, <3>2 DEF NoFile
  <2>4. x.writes[p] = l /\ x.after[p] = l
    BY <1>4, <2>1
  <2>5. Working(x, e, p)
    BY <1>2, <1>5, <1>7, <2>1, <2>3, <2>4 DEF Working
  <2> QED BY <2>2, <2>5
<1>12. CASE act = "to-local"
  <2>1. x.writes = s.writes /\ x.after = s.after /\ x.names = s.names
    BY <1>0, <1>12 DEF Outcome, Left
  <2>2. x.files = s.files \/ x.files = [s.files EXCEPT ![p] = w]
    BY <1>0, <1>12 DEF Outcome, Pushed
  <2>3. ASSUME NEW r \in Paths, r # p PROVE Working(x, e, r)
    BY <1>1, <1>2, <1>4, <2>1, <2>2, <2>3, UntouchedPath
  <2>4. e \in l /\ e \notin w => Safe(e, p)
    <3>1. act \in Proposed(w, l, b) => l = NoFile \/ l = b
      BY <1>12 DEF Proposed
    <3>2. e \notin GivenUp(act, w, l) => (e \in l => e \in w)
      BY <1>12 DEF GivenUp
    <3> QED BY <1>1, <1>2, <3>1, <3>2 DEF NoFile
  <2>5. x.files[p] = s.files[p] \/ x.files[p] = w
    BY <1>4, <2>2
  <2>6. Taken(x) = Taken(s)
    BY <2>1 DEF Taken
  <2>7. Working(x, e, p)
    BY <1>2, <1>5, <1>7, <1>8, <2>1, <2>4, <2>5, <2>6 DEF Working
  <2> QED BY <2>3, <2>7
<1>13. CASE act = "keep-both"
  <2>1. PICK q \in Copies : /\ q \notin s.names /\ x.names = s.names \cup {q}
                            /\ x.writes = [s.writes EXCEPT ![q] = l]
    BY <1>9, <1>13
  <2>2. p = 0 /\ x.after = s.after /\ q \in Paths /\ q # p
    BY <1>9, <1>13 DEF Copies
  <2>3. x.files = s.files \/ x.files = [s.files EXCEPT ![p] = w]
    BY <1>0, <1>13 DEF Outcome, Pushed
  <2>4. Taken(x) = Taken(s) \cup {q} /\ x.writes[q] = l /\ \A r \in Paths \ {q} : x.writes[r] = s.writes[r]
    <3>1. l \in Known(made) /\ made \in 0..MaxEdits /\ s \in SyncsOf(made) /\ q \in Paths
      BY <1>0, <1>3, <2>2
    <3>2. x.writes = [s.writes EXCEPT ![q] = l]
      BY <2>1
    <3> HIDE DEF l
    <3>3. Taken(x) = Taken(s) \cup {q}
      BY <3>1, <3>2, TakenGrows
    <3>4. x.writes[q] = l /\ \A r \in Paths \ {q} : x.writes[r] = s.writes[r]
      BY <1>4, <3>1, <3>2
    <3> QED BY <3>3, <3>4
  <2>5. ASSUME NEW r \in Paths, r # p, r # q PROVE Working(x, e, r)
    BY <1>1, <1>2, <1>4, <2>2, <2>3, <2>4, <2>5, UntouchedPath
  <2>6. Working(x, e, p)
    <3>1. e \in l => Written(x, e)
      BY <2>1, <2>4 DEF Written
    <3>2. (p \in Taken(x) <=> p \in Taken(s)) /\ x.writes[p] = s.writes[p]
      BY <2>2, <2>4
    <3> QED BY <1>2, <1>5, <2>1, <2>2, <3>1, <3>2 DEF Working
  <2>7. Working(x, e, q)
    <3>1. e \notin s.ws[q]
      BY <1>2, <2>1, <2>2 DEF Working
    <3>2. e \in s.after[q] => e \in x.writes[q]
      <4>1. CASE q \in Taken(s)
        BY <1>1, <1>2, <2>2, <4>1 DEF Working, Held
      <4>2. CASE q \notin Taken(s)
        BY <1>6, <2>2, <3>1, <4>2 DEF Plan
      <4> QED BY <4>1, <4>2
    <3>3. x.files[q] = s.files[q]
      BY <1>4, <2>2, <2>3
    <3> QED BY <1>2, <1>5, <1>7, <2>2, <3>1, <3>2, <3>3 DEF Working
  <2> QED BY <2>5, <2>6, <2>7
<1>14. CASE act = "merge"
  <2> DEFINE m == Merged(w, l, b)
  <2>1. /\ x.files = [s.files EXCEPT ![p] = m] /\ x.writes = [s.writes EXCEPT ![p] = m]
        /\ x.after = [s.after EXCEPT ![p] = m] /\ x.names = s.names
    BY <1>0, <1>14 DEF Outcome
  <2>2. (e \in w \/ e \in l) /\ e \notin m => Safe(e, p)
    BY <1>2 DEF Merged
  <2> HIDE DEF m
  <2>3. ASSUME NEW r \in Paths, r # p PROVE Working(x, e, r)
    BY <1>1, <1>2, <1>4, <2>1, <2>3, UntouchedPath
  <2>4. x.files[p] = m /\ x.writes[p] = m /\ x.after[p] = m
    BY <1>4, <2>1
  <2>5. Working(x, e, p)
    BY <1>2, <1>5, <1>8, <2>1, <2>2, <2>4 DEF Working
  <2> QED BY <2>3, <2>5
<1>15. CASE act = "delete-workspace"
  <2>1. /\ x.writes = [s.writes EXCEPT ![p] = NoFile] /\ x.after = [s.after EXCEPT ![p] = NoFile]
        /\ x.files = s.files /\ x.names = s.names
    BY <1>0, <1>15 DEF Outcome
  <2>2. e \notin w /\ e \notin l
    BY <1>1, <1>15 DEF Proposed, GivenUp
  <2>3. ASSUME NEW r \in Paths, r # p PROVE Working(x, e, r)
    BY <1>1, <1>2, <1>4, <2>1, <2>3, UntouchedPath
  <2>4. x.after[p] = {}
    BY <1>4, <2>1 DEF NoFile
  <2>5. Working(x, e, p)
    BY <1>5, <2>2, <2>4 DEF Working
  <2> QED BY <2>3, <2>5
<1>16. CASE act = "delete-local"
  <2>1. /\ x.writes = s.writes /\ x.after = s.after
        /\ x.files = [s.files EXCEPT ![p] = NoFile] /\ x.names = s.names
    BY <1>0, <1>16 DEF Outcome, Left
  <2>2. e \notin w /\ e \notin l
    BY <1>1, <1>16 DEF Proposed, GivenUp
  <2>3. ASSUME NEW r \in Paths, r # p PROVE Working(x, e, r)
    BY <1>1, <1>2, <1>4, <2>1, <2>3, UntouchedPath
  <2>4. Taken(x) = Taken(s)
    BY <2>1 DEF Taken
  <2>5. Working(x, e, p)
    BY <1>2, <1>5, <2>1, <2>2, <2>4 DEF Working
  <2> QED BY <2>3, <2>5
<1> QED BY <1>10, <1>11, <1>12, <1>13, <1>14, <1>15, <1>16 DEF AllActions

\* The plan stays one while it is prepared.
LEMMA PreparesPlans ==
  ASSUME Types, Honest, NEW d \in Devices, NEW p \in Paths, NEW act \in AllActions,
         NEW x \in SyncsOf(made), Prepares(d, p, act, x), Plan(sync[d])
  PROVE  Plan(x)
<1> DEFINE s == sync[d]
           l == s.seen[p]
           m == Merged(s.ws[p], l, base[d][p])
<1>0. s \in SyncsOf(made) /\ Outcome(d, s, x, p, act) /\ made \in 0..MaxEdits /\ p \in s.todo
  BY DEF Types, Prepares
<1>1. x.ws = s.ws /\ x.checked = s.checked /\ x.todo = s.todo \ {p}
  BY DEF Prepares
<1>2. DOMAIN s.after = Paths /\ DOMAIN s.writes = Paths
  BY <1>0, SyncIs, FolderIs, PatchIs
<1>3. /\ act = "to-workspace" => x.writes = [s.writes EXCEPT ![p] = l]
      /\ act = "keep-both" => /\ p = 0 /\ x.after = s.after
                              /\ \E q \in Copies : /\ q \notin s.names /\ x.names = s.names \cup {q}
                                                   /\ x.writes = [s.writes EXCEPT ![q] = l]
      /\ act \in {"skip", "to-local", "delete-local"} => x.writes = s.writes /\ x.after = s.after
      /\ act # "keep-both" => x.names = s.names
  <2>1. BatchIs(s, x, p, act)
    BY <1>0, OutcomeTakes
  <2> QED BY <2>1 DEF BatchIs
<1>4. Plan(s) /\ s.checked[p] = s.ws[p]
  BY <1>0 DEF Plan
<1>5. /\ act = "to-workspace" => x.after = [s.after EXCEPT ![p] = l]
      /\ act = "merge" => x.writes = [s.writes EXCEPT ![p] = m] /\ x.after = [s.after EXCEPT ![p] = m]
      /\ act = "delete-workspace" =>
           x.writes = [s.writes EXCEPT ![p] = NoFile] /\ x.after = [s.after EXCEPT ![p] = NoFile]
  BY <1>0 DEF Outcome
<1>6. l # Untouched /\ m # Untouched /\ NoFile # Untouched
  <2>1. l \in Known(made) /\ s.ws[p] \in Known(made) /\ base[d][p] \in Known(made)
    BY <1>0, SyncIs, FolderIs DEF Types
  <2>2. m \in Known(made)
    BY <2>1 DEF Merged, Known
  <2> QED BY <1>0, <2>1, <2>2, KnownIs
<1> HIDE DEF s, m, l
<1>7. CASE act \in {"skip", "to-local", "delete-local"}
  <2>1. x.writes = s.writes /\ x.after = s.after /\ x.names = s.names
    BY <1>3, <1>7
  <2> QED BY <1>1, <1>4, <2>1 DEF Plan, Taken
<1>8. ASSUME NEW c, c # Untouched, x.writes = [s.writes EXCEPT ![p] = c],
             x.after = [s.after EXCEPT ![p] = c], x.names = s.names
      PROVE  Plan(x)
  <2> SUFFICES ASSUME NEW r \in Paths
               PROVE  /\ r \notin Taken(x) => x.after[r] = x.ws[r]
                      /\ r \notin x.names \/ r \in Taken(x) => x.checked[r] \in {x.ws[r], NoFile}
                      /\ r \in x.todo => x.checked[r] = x.ws[r]
    BY DEF Plan
  <2>1. CASE r = p
    BY <1>1, <1>2, <1>4, <1>8, <2>1 DEF Taken
  <2>2. CASE r # p
    <3>1. x.writes[r] = s.writes[r] /\ x.after[r] = s.after[r]
      BY <1>2, <1>8, <2>2
    <3> QED BY <1>1, <1>4, <1>8, <3>1 DEF Plan, Taken
  <2> QED BY <2>1, <2>2
<1>9. CASE act = "keep-both"
  <2>1. PICK q \in Copies : /\ q \notin s.names /\ x.names = s.names \cup {q}
                            /\ x.writes = [s.writes EXCEPT ![q] = l]
    BY <1>3, <1>9
  <2>2. x.after = s.after /\ q \in Paths
    BY <1>3, <1>9 DEF Copies
  <2> SUFFICES ASSUME NEW r \in Paths
               PROVE  /\ r \notin Taken(x) => x.after[r] = x.ws[r]
                      /\ r \notin x.names \/ r \in Taken(x) => x.checked[r] \in {x.ws[r], NoFile}
                      /\ r \in x.todo => x.checked[r] = x.ws[r]
    BY DEF Plan
  <2>3. CASE r = q
    <3>1. x.writes[q] = l
      BY <1>2, <2>1, <2>2
    <3>2. q \in Taken(x)
      BY <1>6, <2>2, <3>1 DEF Taken
    <3>3. s.checked[q] \in {s.ws[q], NoFile} /\ (q \in s.todo => s.checked[q] = s.ws[q])
      BY <1>4, <2>1, <2>2 DEF Plan
    <3> QED BY <1>1, <2>3, <3>2, <3>3
  <2>4. CASE r # q
    <3>1. x.writes[r] = s.writes[r] /\ (r \in x.names <=> r \in s.names)
      BY <1>2, <2>1, <2>4
    <3> QED BY <1>1, <1>4, <2>2, <3>1 DEF Plan, Taken
  <2> QED BY <2>3, <2>4
<1> QED BY <1>3, <1>5, <1>6, <1>7, <1>8, <1>9 DEF AllActions

\* A blob that is sent is one that the Worker has, or is among the uploads.
LEMMA SendingHas ==
  ASSUME NEW n, NEW s \in SyncsOf(n), \A r \in Paths : Has(s.seen[r]), NEW h, NEW c
  PROVE  /\ Has(h) \/ \E u \in Sending(s, h, c) : u[1] = h
         /\ \A u \in s.uploads : \E v \in Sending(s, h, c) : v[1] = u[1]
<1>1. CASE h \in Range(s.seen)
  <2>1. DOMAIN s.seen = Paths
    BY SyncIs, FolderIs
  <2>2. Has(h)
    BY <1>1, <2>1 DEF Range
  <2> QED BY <1>1, <2>2 DEF Sending
<1>2. CASE h \notin Range(s.seen)
  <2>1. Sending(s, h, c) = {u \in s.uploads : u[1] # h} \cup {<<h, c>>}
    BY <1>2 DEF Sending
  <2>2. <<h, c>>[1] = h
    OBVIOUS
  <2>3. <<h, c>> \in Sending(s, h, c)
    BY <2>1
  <2>4. ASSUME NEW u \in s.uploads PROVE \E v \in Sending(s, h, c) : v[1] = u[1]
    <3>1. CASE u[1] = h
      BY <2>2, <2>3, <3>1
    <3>2. CASE u[1] # h
      BY <2>1, <3>2
    <3> QED BY <3>1, <3>2
  <2>5. \E u \in Sending(s, h, c) : u[1] = h
    BY <2>2, <2>3
  <2> QED BY <2>4, <2>5
<1> QED BY <1>1, <1>2

LEMMA PreparesBacked ==
  ASSUME Types, NEW d \in Devices, NEW p \in Paths, NEW act \in AllActions,
         NEW x \in SyncsOf(made), Prepares(d, p, act, x), Backed(d), NEW r \in Paths
  PROVE  /\ Has(x.seen[r])
         /\ Has(x.files[r]) \/ \E u \in x.uploads : u[1] = x.files[r]
<1> DEFINE s == sync[d]
           m == Merged(s.ws[p], s.seen[p], base[d][p])
<1>0. s \in SyncsOf(made) /\ Outcome(d, s, x, p, act) /\ at[d] # "idle" /\ x.seen = s.seen
  BY DEF Types, Prepares
<1>1. /\ \A q \in Paths : Has(s.seen[q])
      /\ \A q \in Paths : Has(s.files[q]) \/ \E u \in s.uploads : u[1] = s.files[q]
  BY <1>0 DEF Backed
<1>2. DOMAIN s.files = Paths
  BY <1>0, SyncIs, FolderIs
<1>3. \/ x.files = s.files /\ x.uploads = s.uploads
      \/ x.files = [s.files EXCEPT ![p] = NoFile] /\ x.uploads = s.uploads
      \/ x.files = [s.files EXCEPT ![p] = s.ws[p]] /\ x.uploads = Sending(s, s.ws[p], file[d][p])
      \/ x.files = [s.files EXCEPT ![p] = m] /\ x.uploads = Sending(s, m, m)
  BY <1>0 DEF Outcome, Pushed, AllActions
<1> HIDE DEF s, m
<1>4. ASSUME NEW h, NEW c, x.files = [s.files EXCEPT ![p] = h], x.uploads = Sending(s, h, c)
      PROVE  Has(x.files[r]) \/ \E u \in x.uploads : u[1] = x.files[r]
  <2>1. CASE r = p
    <3>1. x.files[r] = h
      BY <1>2, <1>4, <2>1
    <3> QED BY <1>0, <1>1, <1>4, <3>1, SendingHas
  <2>2. CASE r # p
    <3>1. x.files[r] = s.files[r]
      BY <1>2, <1>4, <2>2
    <3> QED BY <1>0, <1>1, <1>4, <3>1, SendingHas
  <2> QED BY <2>1, <2>2
<1>5. CASE x.files = [s.files EXCEPT ![p] = NoFile] /\ x.uploads = s.uploads
  <2>1. x.files[r] = NoFile \/ x.files[r] = s.files[r]
    BY <1>2, <1>5
  <2> QED BY <1>0, <1>1, <1>5, <2>1 DEF Has
<1>6. CASE x.files = s.files /\ x.uploads = s.uploads
  BY <1>0, <1>1, <1>6
<1> QED BY <1>0, <1>1, <1>3, <1>4, <1>5, <1>6
-----------------------------------------------------------------------------
(***************************************************************************)
(* The Worker's blobs.                                                     *)
(***************************************************************************)
LEMMA BlobsStep ==
  ASSUME IInv, [Next]_vars
  PROVE  Honest' /\ \A c : Has(c) => Has(c)'
<1>0. Types /\ Honest
  BY DEF IInv
<1>1. ASSUME NEW d \in Devices, Upload(d) PROVE Honest' /\ blobs \subseteq blobs'
  BY <1>0, <1>1, UploadIs DEF Honest
<1>2. ASSUME NEW d \in Devices, NEW p \in Paths, Write(d, p) \/ Delete(d, p) \/ Prepare(d, p)
      PROVE  blobs' = blobs
  BY <1>2 DEF Write, Delete, Prepare, worker
<1>3. ASSUME NEW d \in Devices, Compare(d) \/ Cancel(d) \/ PutManifest(d) \/ Snapshot(d) \/ Batch(d)
      PROVE  blobs' = blobs
  BY <1>3 DEF Compare, Cancel, PutManifest, Snapshot, Batch, worker
<1>4. ASSUME NEW d \in Devices, NoteBase(d) \/ Fail(d) \/ Undo(d)
      PROVE  blobs' = blobs
  BY <1>4 DEF NoteBase, Fail, Undo, worker
<1>5. ASSUME NEW d \in Devices, Apply(d) \/ Replace(d)
      PROVE  blobs' = blobs
  BY <1>5 DEF Apply, Replace, Begin, worker
<1>6. UNCHANGED vars => blobs' = blobs
  BY DEF vars, worker
<1>7. (\E d \in Devices : Upload(d)) \/ blobs' = blobs
  BY <1>2, <1>3, <1>4, <1>5, <1>6 DEF Next
<1>8. Honest' /\ blobs \subseteq blobs'
  BY <1>0, <1>1, <1>7 DEF Honest
<1> QED BY <1>8 DEF Has

\* What is fine after a step about the sync of one device.
Fine(d) ==
  /\ Backed(d)' /\ Planned(d)'
  /\ \A e \in Live : e \notin exposed' => Followed(d, e)'

LEMMA FineUnmoved ==
  ASSUME IInv, [Next]_vars, NEW d \in Devices,
         at'[d] = at[d], sync'[d] = sync[d], base'[d] = base[d]
  PROVE  Fine(d)
<1>1. Backed(d) /\ Planned(d) /\ \A e \in Live : Followed(d, e)
  BY DEF IInv
<1>2. Backed(d)'
  BY <1>1, BlobsStep DEF Backed
<1>3. Planned(d)'
  BY <1>1 DEF Planned
<1>4. ASSUME NEW e \in Live, e \notin exposed' PROVE Followed(d, e)'
  BY <1>1, <1>4, StepPersists, Steady
<1> QED BY <1>2, <1>3, <1>4 DEF Fine

LEMMA FineClosed ==
  ASSUME IInv, [Next]_vars, NEW d \in Devices, at'[d] = "idle", base'[d] = base[d]
  PROVE  Fine(d)
<1>1. \A e \in Live : Followed(d, e)
  BY DEF IInv
<1>2. Backed(d)' /\ Planned(d)'
  BY DEF Backed, Planned, Planning, Settled
<1>3. ASSUME NEW e \in Live, e \notin exposed' PROVE Followed(d, e)'
  BY <1>1, <1>3, StepPersists, Closed
<1> QED BY <1>2, <1>3 DEF Fine

LEMMA FineDone ==
  ASSUME IInv, [Next]_vars, NEW d \in Devices, Done(d), base'[d] = base[d]
  PROVE  Fine(d)
<1>1. at'[d] = "idle"
  BY DEF Done, IInv, Types
<1> QED BY <1>1, FineClosed

LEMMA CompareFine ==
  ASSUME IInv, [Next]_vars, NEW d \in Devices, Compare(d)
  PROVE  Fine(d)
<1>0. Types /\ ManifestHas /\ at[d] = "idle"
  BY DEF IInv, Compare
<1>1. UNCHANGED <<manifest, file>>
  BY DEF Compare, worker
<1>2. CASE file[d] = manifest
  <2>1. at'[d] = "idle" /\ base'[d] = NextBase(file[d], manifest, base[d])
    BY <1>0, <1>2 DEF Compare, Types
  <2>2. file[d] \in Folders(made) /\ base[d] \in Folders(made)
    BY <1>0 DEF Types
  <2>3. \A p \in Paths : base'[d][p] = file[d][p]
    BY <1>2, <2>1, <2>2, NextBaseIs
  <2>4. Backed(d)' /\ Planned(d)'
    BY <2>1 DEF Backed, Planned, Planning, Settled
  <2>5. \A e : Followed(d, e)'
    BY <1>1, <1>2, <2>1, <2>3 DEF Followed, Based, Planning, Settled
  <2> QED BY <2>4, <2>5 DEF Fine
<1>3. CASE file[d] # manifest
  <2>0. PICK s : s = [NoSync EXCEPT !.seen = manifest, !.ws = file[d]]
    OBVIOUS
  <2>1. at'[d] = "choosing" /\ sync'[d] = s /\ base' = base
    BY <1>0, <1>3, <2>0 DEF Compare, Types
  <2>2. s.seen = manifest /\ s.ws = file[d] /\ s.files = Empty /\ s.writes = Nothing
    BY <2>0 DEF NoSync
  <2>3. Planned(d)'
    BY <2>1, <2>2 DEF Planned, Planning, Settled
  <2>4. Backed(d)'
    <3>1. \A p \in Paths : Has(s.files[p])' /\ Has(s.seen[p])'
      <4>1. \A p \in Paths : Has(s.files[p]) /\ Has(s.seen[p])
        BY <1>0, <2>2 DEF ManifestHas, Has, Empty
      <4> QED BY <4>1, BlobsStep
    <3> QED BY <2>1, <3>1 DEF Backed
  <2>5. ASSUME NEW e \in Live, e \notin exposed' PROVE Followed(d, e)'
    <3>1. Persists(e) /\ Followed(d, e)
      BY <2>5, StepPersists DEF IInv
    <3> SUFFICES ASSUME NEW p \in Paths PROVE Based(d, e, p)' /\ Compared(d, e, p)'
      BY <2>1 DEF Followed, Planning, Settled
    <3>2. Safe(e, p) => Safe(e, p)'
      BY <3>1 DEF Persists, Safe
    <3>3. e \in base[d][p] => (e \in file[d][p] /\ e \in manifest[p]) \/ Safe(e, p)
      BY <3>1 DEF Followed, Based
    <3> QED BY <1>1, <2>1, <2>2, <3>2, <3>3 DEF Based, Compared
  <2> QED BY <2>3, <2>4, <2>5 DEF Fine
<1> QED BY <1>2, <1>3

LEMMA BeginFine ==
  ASSUME IInv, [Next]_vars, NEW d \in Devices, Apply(d) \/ Replace(d)
  PROVE  Fine(d)
<1>0. Types /\ Backed(d) /\ Planned(d)
  BY DEF IInv
<1>1. PICK target \in Targets, items \in SetsOf(Paths), checked \in Folders(made) :
           /\ Begin(d, target, items, checked)
           /\ at[d] = "choosing" /\ at' = [at EXCEPT ![d] = "preparing"]
           /\ sync' = [sync EXCEPT ![d] = Begun(d, target, items, checked)]
           /\ \/ checked = sync[d].ws
              \/ checked = file[d] /\ \A p \in items : file[d][p] = sync[d].ws[p]
  BY <1>0, BeginIs
<1>9. PICK s : s = Begun(d, target, items, checked)
  OBVIOUS
<1>2. /\ s.seen = sync[d].seen /\ s.ws = sync[d].ws /\ s.checked = checked /\ s.todo = items
      /\ s.names = {p \in Paths : file[d][p] # NoFile}
      /\ s.files = sync[d].seen /\ s.after = sync[d].ws
      /\ s.writes = sync[d].writes /\ s.uploads = sync[d].uploads
  BY <1>0, <1>9, BegunIs
<1>3. at'[d] = "preparing" /\ sync'[d] = s /\ UNCHANGED <<manifest, file, base>>
  BY <1>0, <1>9, <1>1 DEF Types, Begin, worker
<1>4. Taken(s) = {}
  BY <1>0, <1>1, <1>2 DEF Planned, Taken, Nothing
<1>5. Planned(d)'
  <2>1. Plan(s)
    BY <1>1, <1>2, <1>4 DEF Plan
  <2> QED BY <1>3, <2>1 DEF Planned, Settled
<1>6. Backed(d)'
  <2>1. \A p \in Paths : Has(s.files[p])' /\ Has(s.seen[p])'
    <3>1. \A p \in Paths : Has(s.files[p]) /\ Has(s.seen[p])
      BY <1>0, <1>1, <1>2 DEF Backed
    <3> QED BY <3>1, BlobsStep
  <2> QED BY <1>3, <2>1 DEF Backed
<1>7. ASSUME NEW e \in Live, e \notin exposed' PROVE Followed(d, e)'
  <2>1. Persists(e) /\ Followed(d, e)
    BY <1>7, StepPersists DEF IInv
  <2> SUFFICES ASSUME NEW p \in Paths PROVE Based(d, e, p)' /\ Compared(d, e, p)' /\ Working(s, e, p)'
    BY <1>3 DEF Followed, Settled
  <2>2. Safe(e, p) => Safe(e, p)'
    BY <2>1 DEF Persists, Safe
  <2>3. Based(d, e, p) /\ Compared(d, e, p)
    BY <1>1, <2>1 DEF Followed
  <2>4. Based(d, e, p)' /\ Compared(d, e, p)'
    BY <1>1, <1>2, <1>3, <2>2, <2>3 DEF Based, Compared
  <2>5. e \in s.ws[p] /\ p # 0 => p \in s.names
    BY <1>1, <1>2, <2>3 DEF Compared, Safe, NoFile
  <2>6. Working(s, e, p)'
    BY <1>2, <1>4, <2>5 DEF Working
  <2> QED BY <2>4, <2>6
<1> QED BY <1>5, <1>6, <1>7 DEF Fine

LEMMA PrepareFine ==
  ASSUME IInv, [Next]_vars, NEW d \in Devices, NEW p \in Paths, Prepare(d, p)
  PROVE  Fine(d)
<1>0. Types /\ Honest /\ Backed(d) /\ Planned(d)
  BY DEF IInv
<1>1. PICK act \in AllActions, x \in SyncsOf(made) : Prepares(d, p, act, x)
  BY <1>0, PrepareIs
<1>2. /\ at'[d] = "preparing" /\ at[d] = "preparing" /\ sync'[d] = x
      /\ UNCHANGED <<manifest, blobs, file, base>>
      /\ x.seen = sync[d].seen /\ x.ws = sync[d].ws
  BY <1>0, <1>1 DEF Prepares, Types, worker
<1>3. Plan(sync[d])
  BY <1>0, <1>2 DEF Planned, Planning
<1>4. Planned(d)'
  <2>1. Plan(x)
    BY <1>0, <1>1, <1>3, PreparesPlans
  <2> QED BY <1>2, <2>1 DEF Planned, Settled
<1>5. Backed(d)'
  <2>1. \A r \in Paths : /\ Has(x.seen[r])
                         /\ Has(x.files[r]) \/ \E u \in x.uploads : u[1] = x.files[r]
    BY <1>0, <1>1, PreparesBacked
  <2>2. \A c : Has(c) => Has(c)'
    BY BlobsStep
  <2> QED BY <1>2, <2>1, <2>2 DEF Backed
<1>6. ASSUME NEW e \in Live, e \notin exposed' PROVE Followed(d, e)'
  <2>1. Persists(e) /\ Followed(d, e)
    BY <1>6, StepPersists DEF IInv
  <2> SUFFICES ASSUME NEW r \in Paths PROVE Based(d, e, r)' /\ Compared(d, e, r)' /\ Working(x, e, r)'
    BY <1>2 DEF Followed, Settled
  <2>2. (Safe(e, r) => Safe(e, r)') /\ (Copied(e) => Copied(e)')
    BY <2>1 DEF Persists, Safe
  <2>3. Based(d, e, r) /\ Compared(d, e, r)
    BY <1>2, <2>1 DEF Followed
  <2>4. Based(d, e, r)' /\ Compared(d, e, r)'
    BY <1>2, <2>2, <2>3 DEF Based, Compared
  <2>5. Working(x, e, r)
    BY <1>0, <1>1, <1>3, <1>6, <2>1, PreparesWorks
  <2>6. Working(x, e, r)'
    BY <2>2, <2>5 DEF Working
  <2> QED BY <2>4, <2>6
<1> QED BY <1>4, <1>5, <1>6 DEF Fine

LEMMA UploadFine ==
  ASSUME IInv, [Next]_vars, NEW d \in Devices, Upload(d)
  PROVE  Fine(d)
<1>0. Types /\ Honest /\ Backed(d) /\ Planned(d)
  BY DEF IInv
<1>1. at[d] = "preparing" /\ UNCHANGED <<manifest, file, base, made, exposed>>
  BY <1>0, UploadIs
<1>2. CASE Done(d)
  BY <1>1, <1>2, FineDone
<1>3. CASE ~ Done(d)
  <2>1. PICK u \in sync[d].uploads, s \in SyncsOf(made) :
          /\ u \in Known(made) \X Known(made)
          /\ sync' = [sync EXCEPT ![d] = s] /\ at' = at
          /\ s.uploads = sync[d].uploads \ {u}
          /\ s.seen = sync[d].seen /\ s.ws = sync[d].ws /\ s.checked = sync[d].checked
          /\ s.todo = sync[d].todo /\ s.names = sync[d].names /\ s.files = sync[d].files
          /\ s.after = sync[d].after /\ s.writes = sync[d].writes
          /\ \/ Fetched(u[1]) # {} /\ blobs' = blobs
             \/ u[1] = u[2] /\ blobs' = blobs \cup {u}
    BY <1>0, <1>3, UploadIs
  <2>2. at'[d] = "preparing" /\ sync'[d] = s
    BY <1>0, <1>1, <2>1 DEF Types
  <2>3. Taken(s) = Taken(sync[d])
    BY <2>1 DEF Taken
  <2>4. Planned(d)'
    <3>1. Plan(sync[d])
      BY <1>0, <1>1 DEF Planned, Planning
    <3>2. Plan(s)
      BY <2>1, <2>3, <3>1 DEF Plan
    <3> QED BY <2>2, <3>2 DEF Planned, Settled
  <2>5. <<u[1], u[1]>> \in blobs'
    <3>1. CASE Fetched(u[1]) # {} /\ blobs' = blobs
      BY <1>0, <3>1, FetchedIs
    <3>2. CASE u[1] = u[2] /\ blobs' = blobs \cup {u}
      <4>1. u = <<u[1], u[2]>>
        BY <2>1
      <4> QED BY <3>2, <4>1
    <3> QED BY <2>1, <3>1, <3>2
  <2>6. Backed(d)'
    <3> SUFFICES ASSUME NEW p \in Paths
                 PROVE  /\ Has(s.seen[p])'
                        /\ Has(s.files[p])' \/ \E v \in s.uploads : v[1] = s.files[p]
      BY <2>2 DEF Backed
    <3>1. /\ Has(sync[d].seen[p])
          /\ Has(sync[d].files[p]) \/ \E v \in sync[d].uploads : v[1] = sync[d].files[p]
      BY <1>0, <1>1 DEF Backed
    <3>2. \A c : Has(c) => Has(c)'
      BY BlobsStep
    <3>3. PICK f, g : f = sync[d].files[p] /\ g = sync[d].seen[p]
      OBVIOUS
    <3>4. s.files[p] = f /\ s.seen[p] = g
      BY <2>1, <3>3
    <3>5. Has(g)'
      BY <3>1, <3>2, <3>3
    <3>6. Has(f)' \/ \E v \in s.uploads : v[1] = f
      <4>1. u[1] = f => Has(f)'
        BY <2>5 DEF Has
      <4> QED BY <2>1, <3>1, <3>2, <3>3, <4>1
    <3> QED BY <3>4, <3>5, <3>6
  <2>7. ASSUME NEW e \in Live, e \notin exposed' PROVE Followed(d, e)'
    <3>1. Persists(e) /\ Followed(d, e)
      BY <2>7, StepPersists DEF IInv
    <3> SUFFICES ASSUME NEW r \in Paths PROVE Based(d, e, r)' /\ Compared(d, e, r)' /\ Working(s, e, r)'
      BY <2>2 DEF Followed, Settled
    <3>2. (Safe(e, r) => Safe(e, r)') /\ (Copied(e) => Copied(e)')
      BY <3>1 DEF Persists, Safe
    <3>3. Based(d, e, r) /\ Compared(d, e, r) /\ Working(sync[d], e, r)
      BY <1>1, <3>1 DEF Followed, Planning
    <3>4. Based(d, e, r)' /\ Compared(d, e, r)'
      BY <1>1, <2>1, <2>2, <3>2, <3>3 DEF Based, Compared
    <3>5. Written(s, e) <=> Written(sync[d], e)
      BY <2>1, <2>3 DEF Written
    <3>6. Working(s, e, r)
      BY <2>1, <2>3, <3>3, <3>5 DEF Working
    <3>7. Working(s, e, r)'
      BY <3>2, <3>6 DEF Working
    <3> QED BY <3>4, <3>7
  <2> QED BY <2>4, <2>6, <2>7 DEF Fine
<1> QED BY <1>2, <1>3

LEMMA PutManifestFine ==
  ASSUME IInv, [Next]_vars, NEW d \in Devices, PutManifest(d)
  PROVE  Fine(d)
<1>0. Types /\ Backed(d) /\ Planned(d)
  BY DEF IInv
<1>1. at[d] = "preparing" /\ UNCHANGED <<blobs, file, base>> /\ sync[d].uploads = {}
  BY DEF PutManifest, Ready
<1>2. CASE manifest # sync[d].seen
  <2>1. Done(d)
    BY <1>2 DEF PutManifest
  <2> QED BY <1>1, <2>1, FineDone
<1>3. CASE manifest = sync[d].seen
  <2>1. at'[d] = "writing" /\ manifest' = sync[d].files /\ sync' = sync
    BY <1>0, <1>3 DEF PutManifest, Types
  <2>2. Planned(d)'
    BY <1>0, <1>1, <2>1 DEF Planned, Planning, Settled
  <2>3. Backed(d)'
    BY <1>0, <1>1, <2>1, BlobsStep DEF Backed
  <2>4. ASSUME NEW e \in Live, e \notin exposed' PROVE Followed(d, e)'
    <3>1. Persists(e) /\ Followed(d, e)
      BY <2>4, StepPersists DEF IInv
    <3> SUFFICES ASSUME NEW r \in Paths
                 PROVE  Based(d, e, r)' /\ Compared(d, e, r)' /\ Working(sync[d], e, r)' /\ Agreed(d, e, r)'
      BY <2>1 DEF Followed, Settled
    <3>2. /\ (Safe(e, r) => Safe(e, r)') /\ (Copied(e) => Copied(e)')
          /\ e \in manifest[r] => e \in manifest'[r] \/ Safe(e, r)'
      BY <3>1 DEF Persists, Safe
    <3>3. Based(d, e, r) /\ Compared(d, e, r) /\ Working(sync[d], e, r)
      BY <1>1, <3>1 DEF Followed, Planning
    <3>4. Based(d, e, r)'
      BY <1>1, <3>2, <3>3 DEF Based
    <3>5. Compared(d, e, r)'
      BY <1>1, <2>1, <3>2, <3>3 DEF Compared
    <3>6. Working(sync[d], e, r)'
      BY <2>1, <3>2, <3>3 DEF Working
    <3>7. Agreed(d, e, r)'
      BY <2>1 DEF Agreed
    <3> QED BY <3>4, <3>5, <3>6, <3>7
  <2> QED BY <2>2, <2>3, <2>4 DEF Fine
<1> QED BY <1>2, <1>3

LEMMA SnapshotFine ==
  ASSUME IInv, [Next]_vars, NEW d \in Devices, Snapshot(d)
  PROVE  Fine(d)
<1>0. Types /\ Backed(d) /\ Planned(d)
  BY DEF IInv
<1>1. UNCHANGED <<manifest, blobs, file, base, sync>>
  BY DEF Snapshot, worker
<1>2. /\ at[d] \in {"preparing", "writing"}
      /\ at[d] = "preparing" => sync[d].uploads = {} /\ sync[d].files = sync[d].seen
  BY DEF Snapshot, Ready
<1>3. \/ at'[d] = "noting" /\ sync[d].writes = Nothing
      \/ at'[d] = "batch"
  BY <1>0 DEF Snapshot, Types
<1>4. Plan(sync[d]) /\ sync[d].uploads = {}
  BY <1>0, <1>2 DEF Planned, Planning, Settled
<1>5. Planned(d)'
  BY <1>1, <1>3, <1>4 DEF Planned, Planning, Settled
<1>6. Backed(d)'
  BY <1>0, <1>1, <1>2, BlobsStep DEF Backed
<1>7. ASSUME NEW e \in Live, e \notin exposed' PROVE Followed(d, e)'
  <2>1. Persists(e) /\ Followed(d, e)
    BY <1>7, StepPersists DEF IInv
  <2> SUFFICES ASSUME NEW r \in Paths
               PROVE  /\ Based(d, e, r)' /\ Compared(d, e, r)' /\ Agreed(d, e, r)'
                      /\ at'[d] = "batch" => Working(sync[d], e, r)'
                      /\ at'[d] = "noting" => Noted(d, e, r)'
    BY <1>3 DEF Followed, Planning, Past
  <2>2. (Safe(e, r) => Safe(e, r)') /\ (Copied(e) => Copied(e)')
    BY <2>1 DEF Persists, Safe
  <2>3. Based(d, e, r) /\ Compared(d, e, r) /\ Working(sync[d], e, r)
    BY <1>2, <2>1 DEF Followed, Planning
  <2>4. Agreed(d, e, r)
    <3>1. CASE at[d] = "preparing"
      BY <1>2, <2>3, <3>1 DEF Compared, Agreed
    <3>2. CASE at[d] = "writing"
      BY <2>1, <3>2 DEF Followed, Settled
    <3> QED BY <1>2, <3>1, <3>2
  <2>5. Based(d, e, r)'
    BY <1>1, <2>2, <2>3 DEF Based
  <2>6. Compared(d, e, r)'
    BY <1>1, <1>2, <2>2, <2>3 DEF Compared
  <2>7. Agreed(d, e, r)'
    BY <1>1, <2>2, <2>4 DEF Agreed
  <2>8. Working(sync[d], e, r)'
    BY <1>1, <2>2, <2>3 DEF Working
  <2>9. at'[d] = "noting" => Noted(d, e, r)'
    <3> SUFFICES ASSUME at'[d] = "noting" PROVE Noted(d, e, r)'
      OBVIOUS
    <3>1. r \notin Taken(sync[d])
      BY <1>3 DEF Taken, Nothing
    <3>2. sync[d].after[r] = sync[d].ws[r]
      BY <1>4, <3>1 DEF Plan
    <3>3. e \in sync[d].ws[r] => e \in file[d][r] \/ Safe(e, r)
      BY <1>2, <2>3 DEF Compared
    <3> QED BY <1>1, <2>2, <3>2, <3>3 DEF Noted
  <2> QED BY <2>5, <2>6, <2>7, <2>8, <2>9
<1> QED BY <1>5, <1>6, <1>7 DEF Fine

LEMMA BatchFine ==
  ASSUME IInv, [Next]_vars, NEW d \in Devices, Batch(d)
  PROVE  Fine(d)
<1>0. Types /\ Backed(d) /\ Planned(d)
  BY DEF IInv
<1>1. UNCHANGED <<manifest, blobs, base, sync>> /\ at[d] = "batch" /\ at'[d] = "noting"
  BY <1>0 DEF Batch, worker, Types
<1>2. Plan(sync[d]) /\ sync[d].uploads = {}
  BY <1>0, <1>1 DEF Planned, Planning, Settled
<1>3. Planned(d)'
  BY <1>1, <1>2 DEF Planned, Planning
<1>4. Backed(d)'
  BY <1>0, <1>1, BlobsStep DEF Backed
<1>5. ASSUME NEW e \in Live, e \notin exposed' PROVE Followed(d, e)'
  <2>1. Persists(e) /\ Followed(d, e)
    BY <1>5, StepPersists DEF IInv
  <2> SUFFICES ASSUME NEW r \in Paths
               PROVE  Based(d, e, r)' /\ Compared(d, e, r)' /\ Agreed(d, e, r)' /\ Noted(d, e, r)'
    BY <1>1 DEF Followed, Planning
  <2>2. /\ Safe(e, r) => Safe(e, r)'
        /\ e \in file[d][r] => e \in file'[d][r] \/ Safe(e, r)'
    BY <2>1 DEF Persists, Safe
  <2>3. Based(d, e, r) /\ Compared(d, e, r) /\ Working(sync[d], e, r) /\ Agreed(d, e, r)
    BY <1>1, <2>1 DEF Followed, Planning, Settled
  <2>4. Based(d, e, r)'
    BY <1>1, <2>2, <2>3 DEF Based
  <2>5. Compared(d, e, r)'
    BY <1>1, <2>2, <2>3 DEF Compared
  <2>6. Agreed(d, e, r)'
    BY <1>1, <2>2, <2>3 DEF Agreed
  <2>7. Noted(d, e, r)'
    <3>1. CASE r \in Taken(sync[d])
      <4>1. file'[d][r] = sync[d].writes[r]
        BY <1>5, <3>1, BatchKeeps
      <4>2. e \in sync[d].after[r] => e \in sync[d].writes[r]
        BY <2>3, <3>1 DEF Working
      <4> QED BY <1>1, <4>1, <4>2 DEF Noted
    <3>2. CASE r \notin Taken(sync[d])
      <4>1. sync[d].after[r] = sync[d].ws[r]
        BY <1>2, <3>2 DEF Plan
      <4>2. e \in sync[d].ws[r] => e \in file[d][r] \/ Safe(e, r)
        BY <1>1, <2>3 DEF Compared
      <4> QED BY <1>1, <2>2, <4>1, <4>2 DEF Noted
    <3> QED BY <3>1, <3>2
  <2> QED BY <2>4, <2>5, <2>6, <2>7
<1> QED BY <1>3, <1>4, <1>5 DEF Fine

LEMMA NoteBaseFine ==
  ASSUME IInv, [Next]_vars, NEW d \in Devices, NoteBase(d)
  PROVE  Fine(d)
<1>0. Types
  BY DEF IInv
<1>1. /\ UNCHANGED <<manifest, file>> /\ at[d] = "noting" /\ at'[d] = "idle"
      /\ base'[d] = NextBase(sync[d].after, sync[d].files, base[d])
  BY <1>0 DEF NoteBase, worker, Types, Done
<1>2. Backed(d)' /\ Planned(d)'
  BY <1>1 DEF Backed, Planned, Planning, Settled
<1>3. ASSUME NEW e \in Live, e \notin exposed' PROVE Followed(d, e)'
  <2>1. Persists(e) /\ Followed(d, e)
    BY <1>3, StepPersists DEF IInv
  <2> SUFFICES ASSUME NEW r \in Paths PROVE Based(d, e, r)'
    BY <1>1 DEF Followed, Planning, Settled
  <2>2. Safe(e, r) => Safe(e, r)'
    BY <2>1 DEF Persists, Safe
  <2>3. Based(d, e, r) /\ Agreed(d, e, r) /\ Noted(d, e, r)
    BY <1>1, <2>1 DEF Followed, Settled
  <2>4. base'[d][r] = IF sync[d].after[r] = sync[d].files[r] THEN sync[d].after[r] ELSE base[d][r]
    BY <1>0, <1>1, SyncIs, NextBaseIs DEF Types
  <2>5. e \in base'[d][r] => (e \in file[d][r] /\ e \in manifest[r]) \/ Safe(e, r)
    BY <2>3, <2>4 DEF Based, Agreed, Noted
  <2> QED BY <1>1, <2>2, <2>5 DEF Based
<1> QED BY <1>2, <1>3 DEF Fine

\* Every step leaves every sync fine.
LEMMA StepFine ==
  ASSUME IInv, [Next]_vars, NEW c \in Devices
  PROVE  Fine(c)
<1>0. Types
  BY DEF IInv
<1>1. ASSUME NEW d \in Devices, NEW p \in Paths, Write(d, p) \/ Delete(d, p) PROVE Fine(c)
  BY <1>1, FineUnmoved DEF Write, Delete
<1>2. ASSUME NEW d \in Devices, NEW p \in Paths, Prepare(d, p) PROVE Fine(c)
  <2>1. c # d => at'[c] = at[c] /\ sync'[c] = sync[c] /\ base'[c] = base[c]
    BY <1>0, <1>2 DEF Prepare, Types
  <2> QED BY <1>2, <2>1, PrepareFine, FineUnmoved
<1>3. ASSUME NEW d \in Devices, Compare(d) PROVE Fine(c)
  <2>1. c # d => at'[c] = at[c] /\ sync'[c] = sync[c] /\ base'[c] = base[c]
    BY <1>0, <1>3 DEF Compare, Types
  <2> QED BY <1>3, <2>1, CompareFine, FineUnmoved
<1>4. ASSUME NEW d \in Devices, Cancel(d) \/ Fail(d) PROVE Fine(c)
  <2>1. Done(d) /\ base' = base
    BY <1>4 DEF Cancel, Fail
  <2>2. c # d => at'[c] = at[c] /\ sync'[c] = sync[c]
    BY <1>0, <2>1 DEF Done, Types
  <2> QED BY <2>1, <2>2, FineDone, FineUnmoved
<1>5. ASSUME NEW d \in Devices, Apply(d) \/ Replace(d) PROVE Fine(c)
  <2>1. c # d => at'[c] = at[c] /\ sync'[c] = sync[c] /\ base'[c] = base[c]
    <3>1. PICK target \in Targets, items \in SetsOf(Paths), checked \in Folders(made) :
             /\ Begin(d, target, items, checked)
             /\ at' = [at EXCEPT ![d] = "preparing"]
             /\ sync' = [sync EXCEPT ![d] = Begun(d, target, items, checked)]
      BY <1>0, <1>5, BeginIs
    <3> QED BY <1>0, <3>1 DEF Begin, Types
  <2> QED BY <1>5, <2>1, BeginFine, FineUnmoved
<1>6. ASSUME NEW d \in Devices, Upload(d) PROVE Fine(c)
  <2>1. base' = base /\ (\/ Done(d)
                         \/ at' = at /\ \E s : sync' = [sync EXCEPT ![d] = s])
    BY <1>0, <1>6, UploadIs
  <2>2. c # d => at'[c] = at[c] /\ sync'[c] = sync[c]
    BY <1>0, <2>1 DEF Done, Types
  <2> QED BY <1>6, <2>1, <2>2, UploadFine, FineUnmoved
<1>7. ASSUME NEW d \in Devices, PutManifest(d) PROVE Fine(c)
  <2>1. c # d => at'[c] = at[c] /\ sync'[c] = sync[c] /\ base'[c] = base[c]
    BY <1>0, <1>7 DEF PutManifest, Done, Types
  <2> QED BY <1>7, <2>1, PutManifestFine, FineUnmoved
<1>8. ASSUME NEW d \in Devices, Snapshot(d) PROVE Fine(c)
  <2>1. c # d => at'[c] = at[c] /\ sync'[c] = sync[c] /\ base'[c] = base[c]
    BY <1>0, <1>8 DEF Snapshot, Types
  <2> QED BY <1>8, <2>1, SnapshotFine, FineUnmoved
<1>9. ASSUME NEW d \in Devices, Batch(d) PROVE Fine(c)
  <2>1. c # d => at'[c] = at[c] /\ sync'[c] = sync[c] /\ base'[c] = base[c]
    BY <1>0, <1>9 DEF Batch, Types
  <2> QED BY <1>9, <2>1, BatchFine, FineUnmoved
<1>10. ASSUME NEW d \in Devices, NoteBase(d) PROVE Fine(c)
  <2>1. c # d => at'[c] = at[c] /\ sync'[c] = sync[c] /\ base'[c] = base[c]
    BY <1>0, <1>10 DEF NoteBase, Done, Types
  <2> QED BY <1>10, <2>1, NoteBaseFine, FineUnmoved
<1>11. ASSUME NEW d \in Devices, Undo(d) PROVE Fine(c)
  <2>1. base' = base /\ (Done(d) \/ UNCHANGED <<at, sync>>)
    BY <1>11 DEF Undo
  <2>2. c # d => at'[c] = at[c] /\ sync'[c] = sync[c]
    BY <1>0, <2>1 DEF Done, Types
  <2> QED BY <2>1, <2>2, FineDone, FineUnmoved
<1>12. CASE UNCHANGED vars
  BY <1>12, FineUnmoved DEF vars
<1> QED BY <1>1, <1>2, <1>3, <1>4, <1>5, <1>6, <1>7, <1>8, <1>9, <1>10, <1>11, <1>12 DEF Next
-----------------------------------------------------------------------------
\* Edits are only ever added, by Write, and what is exposed stays exposed.
LEMMA LiveStep ==
  ASSUME Types, [Next]_vars
  PROVE  /\ exposed \subseteq exposed'
         /\ \/ made' = made
            \/ made' = made + 1 /\ \E d \in Devices, p \in Paths : Write(d, p)
<1>1. ASSUME NEW d \in Devices, NEW p \in Paths, Write(d, p)
      PROVE  exposed' = exposed /\ made' = made + 1
  BY <1>1 DEF Write
<1>2. ASSUME NEW d \in Devices, NEW p \in Paths, Delete(d, p)
      PROVE  exposed \subseteq exposed' /\ made' = made
  BY <1>2 DEF Delete, Expose
<1>3. ASSUME NEW d \in Devices, NEW p \in Paths, Prepare(d, p)
      PROVE  exposed \subseteq exposed' /\ made' = made
  BY <1>3, PrepareIs DEF Prepares
<1>4. ASSUME NEW d \in Devices,
             Compare(d) \/ Cancel(d) \/ PutManifest(d) \/ Snapshot(d) \/ NoteBase(d)
      PROVE  exposed \subseteq exposed' /\ made' = made
  BY <1>4 DEF Compare, Cancel, PutManifest, Snapshot, NoteBase
<1>5. ASSUME NEW d \in Devices, Apply(d) \/ Replace(d)
      PROVE  exposed \subseteq exposed' /\ made' = made
  BY <1>5 DEF Apply, Replace, Begin
<1>6. ASSUME NEW d \in Devices, Upload(d)
      PROVE  exposed \subseteq exposed' /\ made' = made
  BY <1>6 DEF Upload
<1>7. ASSUME NEW d \in Devices, Batch(d) \/ Fail(d) \/ Undo(d)
      PROVE  exposed \subseteq exposed' /\ made' = made
  BY <1>7 DEF Batch, Fail, Undo, Expose
<1>8. UNCHANGED vars => exposed' = exposed /\ made' = made
  BY DEF vars
<1> QED BY <1>1, <1>2, <1>3, <1>4, <1>5, <1>6, <1>7, <1>8 DEF Next

\* The Worker has what the manifest names, also when it is replaced.
LEMMA ManifestStep ==
  ASSUME IInv, [Next]_vars
  PROVE  ManifestHas'
<1>0. Types /\ ManifestHas /\ \A d \in Devices : Backed(d)
  BY DEF IInv
<1>1. ASSUME NEW d \in Devices, PutManifest(d), manifest' # manifest PROVE ManifestHas'
  <2>1. manifest' = sync[d].files /\ sync[d].uploads = {} /\ at[d] # "idle"
    BY <1>1 DEF PutManifest, Ready
  <2>2. \A p \in Paths : Has(sync[d].files[p])
    BY <1>0, <2>1 DEF Backed
  <2>3. ASSUME NEW p \in Paths PROVE manifest'[p] = NoFile \/ <<manifest'[p], manifest'[p]>> \in blobs'
    <3>1. PICK c : c = sync[d].files[p]
      OBVIOUS
    <3>2. Has(c)' /\ manifest'[p] = c
      BY <2>1, <2>2, <3>1, BlobsStep
    <3> QED BY <3>2 DEF Has
  <2> QED BY <2>3 DEF ManifestHas, Has
<1>2. ASSUME manifest' = manifest PROVE ManifestHas'
  BY <1>0, <1>2, BlobsStep DEF ManifestHas
<1>3. ASSUME NEW d \in Devices, NEW p \in Paths, Write(d, p) \/ Delete(d, p) \/ Prepare(d, p)
      PROVE  manifest' = manifest
  BY <1>3 DEF Write, Delete, Prepare, worker
<1>4. ASSUME NEW d \in Devices, Compare(d) \/ Cancel(d) \/ Snapshot(d) \/ Batch(d) \/ NoteBase(d)
      PROVE  manifest' = manifest
  BY <1>4 DEF Compare, Cancel, Snapshot, Batch, NoteBase, worker
<1>5. ASSUME NEW d \in Devices, Apply(d) \/ Replace(d) \/ Upload(d)
      PROVE  manifest' = manifest
  BY <1>5 DEF Apply, Replace, Begin, Upload, worker
<1>6. ASSUME NEW d \in Devices, Fail(d) \/ Undo(d)
      PROVE  manifest' = manifest
  BY <1>6 DEF Fail, Undo, worker
<1>7. UNCHANGED vars => manifest' = manifest
  BY DEF vars, worker
<1>8. manifest' = manifest \/ \E d \in Devices : PutManifest(d)
  BY <1>3, <1>4, <1>5, <1>6, <1>7 DEF Next
<1> QED BY <1>1, <1>2, <1>8

\* An edit that is made, and not exposed, stays somewhere.
LEMMA SomewhereStep ==
  ASSUME IInv, [Next]_vars, NEW e \in Live, e \notin exposed'
  PROVE  Somewhere(e)'
<1>1. Somewhere(e) /\ Persists(e)
  BY StepPersists DEF IInv
<1>2. 0 \in Paths
  BY Bounds DEF Paths
<1> QED BY <1>1, <1>2 DEF Somewhere, Persists, Safe

\* The invariant is inductive.
LEMMA Inductive ==
  ASSUME IInv, [Next]_vars
  PROVE  IInv'
<1>0. Types
  BY DEF IInv
<1>1. Types'
  BY <1>0, TypesStep
<1>2. Honest' /\ ManifestHas'
  BY BlobsStep, ManifestStep
<1>3. \A d \in Devices : Fine(d)
  BY StepFine
<1>4. \A d \in Devices : Backed(d)' /\ Planned(d)'
  BY <1>3 DEF Fine
<1>5. ASSUME NEW e, (e \in Live)' PROVE Somewhere(e)' /\ \A d \in Devices : Followed(d, e)'
  <2>1. e \in 1..made' /\ e \notin exposed' /\ e \notin exposed
    BY <1>0, <1>5, LiveStep DEF Live
  <2>2. CASE e \in 1..made
    <3>1. e \in Live
      BY <2>1, <2>2 DEF Live
    <3> QED BY <1>3, <2>1, <3>1, SomewhereStep DEF Fine
  <2>3. CASE e \notin 1..made
    <3>1. made \in Nat
      BY <1>0, Bounds DEF Types
    <3>2. e = made' /\ \E d \in Devices, p \in Paths : Write(d, p)
      BY <1>0, <2>1, <2>3, <3>1, LiveStep
    <3>3. PICK d \in Devices, p \in Paths : Write(d, p)
      BY <3>2
    <3>4. e \in file'[d][p]
      BY <1>0, <3>2, <3>3 DEF Write, Types, Folders
    <3>5. Somewhere(e)'
      <4>1. p = 0 \/ p \in Copies
        BY DEF Copies
      <4> QED BY <3>4, <4>1 DEF Somewhere, Copied
    <3>6. UNCHANGED <<at, sync, base>>
      BY <3>3 DEF Write
    <3>7. \A c \in Devices : Followed(c, e)'
      BY <1>0, <2>3, <3>6, NewIsUnknown
    <3> QED BY <3>5, <3>7
  <2> QED BY <2>2, <2>3
<1> QED BY <1>1, <1>2, <1>4, <1>5 DEF IInv

LEMMA InvariantStart == Init => IInv
<1> SUFFICES ASSUME Init PROVE IInv
  OBVIOUS
<1>1. Types
  BY TypesStart
<1>2. Honest /\ ManifestHas
  BY DEF Init, Honest, ManifestHas, Has, Empty
<1>3. \A d \in Devices : Backed(d) /\ Planned(d)
  BY DEF Init, Backed, Planned, Planning, Settled
<1>4. Live = {}
  BY DEF Init, Live
<1> QED BY <1>1, <1>2, <1>3, <1>4 DEF IInv

\* The inductive invariant: where each edit is that nobody gave up, and what every sync under
\* way still has right about it.
THEOREM EditsHavePlaces == Spec => []IInv
<1>1. IInv /\ [Next]_vars => IInv'
  BY Inductive
<1> QED BY InvariantStart, <1>1, PTL DEF Spec

\* Whatever the devices edit and sync, and wherever a sync fails, an edit is gone only if
\* somebody gave it up, or one of the races that the model names exposed it (EditsKept of the
\* runs), for any number of devices, edits and names for copies.
THEOREM EditsAreKept == Spec => []EditsKept
<1>1. IInv => EditsKept
  BY SomewhereIsKept DEF EditsKept, Live
<1> QED BY EditsHavePlaces, <1>1, PTL

\* What the manifest names can be fetched: the Worker has the blob of every file of it, with
\* the content its name says, also while devices upload and sync at once.
ManifestIsThere == \A p \in Paths : manifest[p] # NoFile => Fetched(manifest[p]) = {manifest[p]}

THEOREM ManifestCanBeFetched == Spec => []ManifestIsThere
<1>1. IInv => ManifestIsThere
  <2> SUFFICES ASSUME IInv, NEW p \in Paths, manifest[p] # NoFile
               PROVE  Fetched(manifest[p]) = {manifest[p]}
    BY DEF ManifestIsThere
  <2>1. <<manifest[p], manifest[p]>> \in blobs
    BY DEF IInv, ManifestHas, Has
  <2>2. manifest[p] \in Fetched(manifest[p])
    BY <2>1, FetchedHas
  <2>3. \A c \in Fetched(manifest[p]) : c = manifest[p]
    BY FetchedIs DEF IInv
  <2> QED BY <2>2, <2>3
<1> QED BY EditsHavePlaces, <1>1, PTL
=============================================================================
