--------------------------- MODULE AgentWorkProofs ---------------------------
(***************************************************************************)
(* Proofs about what the agent does on its own: Workers, the call that     *)
(* edits one project side by side, and Runner, the loop over the tasks.    *)
(*                                                                         *)
(* Workers, for any workers, paths and numbers of retries, edits and       *)
(* failures: no edit gets lost or stays behind without a word, unless one  *)
(* of the races happened that Workers names.  EditsAccounted speaks of the *)
(* end of the call.  IInv says where an edit is all along: in the          *)
(* workspace, in a staging, and which of the texts may carry an edit that  *)
(* no longer stands.                                                       *)
(*                                                                         *)
(* Runner, for any tasks, messages and limits: its types, that no message  *)
(* of the user is missed, and that behind a Stop no turn is reached but    *)
(* the two that Runner names.  Onward says once what the loop may do with  *)
(* the messages that wait and with the run, and each piece of code between *)
(* two waits is shown to be Onward; RunInv follows from that alone.        *)
(***************************************************************************)
EXTENDS Workers, Runner, FiniteSetTheorems, WellFoundedInduction, TLAPS

\* w has e in what it staged of p.
StagedIn(w, p, e) == staging[w][p] # Unknown /\ e \in Text(staging[w][p])

\* TypeOK without its two facts about where the workers are.
Types ==
  /\ disk \in [Paths -> Contents] /\ moved \subseteq Paths
  /\ snapshot \in [Paths -> Entries]
  /\ staging \in [Ids -> [Paths -> Entries]] /\ onDisk \in [Ids -> SUBSET Paths]
  /\ at \in [Ids -> {"working", "running", "undoing", "done", "failed"}]
  /\ attempt \in [Ids -> 0..MaxRetries]
  /\ listing \subseteq Paths /\ since \subseteq Paths
  /\ \/ commit = NoCommit
     \/ commit \in [path : Paths, content : Contents, kept : BOOLEAN, seen : Contents]
  /\ reported \subseteq settled /\ settled \subseteq Paths
  /\ live \subseteq made /\ exposed \subseteq made /\ leaked \subseteq made /\ made \subseteq Edits
  /\ extras \in 0..MaxExtras

\* One worker executes code, in a workspace whose listing has all it staged; the call ends when all
\* are through.
PhaseOK ==
  /\ \A v, w \in Running : v = w
  /\ \A w \in Ids : at[w] = "failed" => Staged(w) = {} /\ onDisk[w] = {}
  /\ \A w \in Running : \A p \in Staged(w) : staging[w][p] # Absent => p \in listing
  /\ settled # {} \/ commit # NoCommit => AllThrough
  /\ settled \subseteq Written
  /\ commit # NoCommit => commit.path \in Written \ settled

\* Texts carry edits that somebody made.
AllMade ==
  /\ \A p \in Paths : Text(disk[p]) \subseteq made
  /\ \A w \in Ids : \A p \in Staged(w) : Text(staging[w][p]) \subseteq made

\* A copy in the snapshot has edits of the person only, and code runs, or a file goes back, only when
\* there is one.  A path nobody wrote is as it was when the call began.
FirstRead ==
  /\ \A p \in Paths : snapshot[p] # Unknown => Text(snapshot[p]) \subseteq By(Person, made)
  /\ \A p \in Paths \ settled : snapshot[p] = Unknown =>
       /\ Text(disk[p]) \subseteq By(Person, made)
       /\ \A w \in Ids : p \notin onDisk[w] /\ w \notin Running
  /\ \A p \in Paths \ moved : disk[p] = IF p \in Initial THEN {} ELSE Absent

\* What the person saved is in the workspace, unless a race lost it.
PersonKept ==
  \A p \in Paths : \A e \in On(p, By(Person, made)) :
     e \in live /\ (e \in Text(disk[p]) \/ e \in exposed)

\* An edit of a worker that stands is in its staging.  While its code executes, it is in the workspace,
\* from where the worker will stage it.
LiveKept ==
  \A w \in Ids, p \in Paths : \A e \in On(p, By(w, live)) :
     \/ e \in exposed
     \/ at[w] \in {"working", "done"} /\ StagedIn(w, p, e)
     \/ at[w] = "running" /\ e \in Text(disk[p]) /\ (p \in since \/ StagedIn(w, p, e))

\* A staging carries edits of another worker only if a code run staged them from the workspace.
OthersLeak ==
  \A w \in Ids, p \in Paths : \A e \in made :
    StagedIn(w, p, e) => e.by \in {w, Person} \/ e \in leaked

\* An edit that no longer stands leaves the staging of its worker: at once, at the end of the attempt,
\* or when the run of code that removed the file is staged.
DeadUnstaged ==
  \A w \in Ids, p \in Paths : \A e \in On(p, By(w, made)) \ live :
    StagedIn(w, p, e) => \/ e \in leaked
                         \/ at[w] = "undoing"
                         \/ at[w] = "running" /\ p \in since /\ p \in listing

\* Where the workspace carries an edit of a worker, that worker knows: it has to put the path back,
\* or will have.
DiskKnown ==
  \A w \in Ids, p \in Paths \ settled : \A e \in On(p, By(w, made)) : e \in Text(disk[p]) =>
     \/ e \in leaked
     \/ p \in onDisk[w]
     \/ at[w] = "running" /\ (p \in Staged(w) \/ p \in since)

\* Where the workspace carries an edit that no longer stands, its worker has another version
\* staged, which is still to be written, or puts the path back.
DeadOnDisk ==
  \A w \in Ids, p \in Paths \ settled : \A e \in On(p, By(w, made)) \ live : e \in Text(disk[p]) =>
     \/ e \in leaked
     \/ at[w] # "running" /\ (p \in Staged(w) \/ at[w] = "undoing")

\* The content c of p carries the workers' edits that stand, and none other.
Settles(p, c) ==
  \A w \in Ids : \A e \in On(p, By(w, made)) :
     /\ e \in live => e \in Text(c) \/ e \in exposed
     /\ e \notin live => e \notin Text(c) \/ e \in leaked

\* What is about to be written carries what was seen, what is exposed aside, and settles its path
\* unless versions were dropped.
CommitOK ==
  commit # NoCommit =>
    /\ Text(commit.seen) \subseteq Text(commit.content) \cup exposed
    /\ Text(commit.content) \subseteq made
    /\ ~commit.kept => Settles(commit.path, commit.content)

\* A path that was written and not reported is settled.
SettledOK == \A p \in settled \ reported : Settles(p, disk[p])

\* The inductive invariant.
IInv == Types /\ PhaseOK /\ AllMade /\ FirstRead /\ PersonKept /\ LiveKept /\ OthersLeak /\ DeadUnstaged
        /\ DiskKnown /\ DeadOnDisk /\ CommitOK /\ SettledOK
-----------------------------------------------------------------------------
\* What a content is, and the text in it.
LEMMA TextIs ==
  /\ \A t \in Texts : Text(t) = t
  /\ Text(Absent) = {}
  /\ \A c \in Contents : Text(c) \in Texts /\ c \in Entries /\ c # Unknown
  /\ \A c \in Entries : c # Unknown => c \in Contents
  /\ {} \in Texts
BY ContentAssumption DEF Text, Contents, Entries, Texts

\* Nothing is settled and nothing about to be written while a worker is at work.
LEMMA Early ==
  ASSUME IInv, NEW w \in Ids, at[w] \notin {"done", "failed"}
  PROVE  settled = {} /\ commit = NoCommit /\ reported = {}
BY DEF IInv, PhaseOK, AllThrough, Types

\* Then, what is said of the end of the call holds as long as it is not begun.
LEMMA StillEarly ==
  ASSUME IInv, NEW w \in Ids, at[w] \notin {"done", "failed"}, UNCHANGED ending
  PROVE  CommitOK' /\ SettledOK' /\ settled' = {} /\ commit' = NoCommit /\ reported' = {}
<1>1. settled' = {} /\ commit' = NoCommit /\ reported' = {}
  BY Early DEF ending
<1> QED BY <1>1 DEF CommitOK, SettledOK

\* What the first read of a path gives: edits of the person, as long as nothing is settled.
LEMMA GetIs ==
  ASSUME IInv, NEW p \in Paths
  PROVE  /\ Get(p) \in Contents
         /\ p \notin settled => Text(Get(p)) \subseteq By(Person, made)
         /\ Text(Get(p)) \subseteq made
<1>1. Get(p) \in Contents
  BY TextIs DEF IInv, Types, Get
<1>2. p \notin settled => Text(Get(p)) \subseteq By(Person, made)
  BY DEF IInv, FirstRead, Get
<1>3. Text(Get(p)) \subseteq made
  BY DEF IInv, FirstRead, AllMade, Get, By
<1> QED BY <1>1, <1>2, <1>3

-----------------------------------------------------------------------------
(* The person, and the tools of a worker. *)

\* The person's edit joins what the workspace carries.
LEMMA SaveKeeps ==
  ASSUME IInv, NEW q \in Paths, Save(q)
  PROVE  IInv'
<1>1. PICK e \in Edits :
        /\ e.by = Person /\ e.path = q
        /\ made' = made \cup {e} /\ live' = live \cup {e} /\ extras' = extras
        /\ disk' = [disk EXCEPT ![q] = Text(disk[q]) \cup {e}]
        /\ moved' = moved \cup {q}
        /\ since' = IF Running = {} THEN {} ELSE since \cup {q}
        /\ UNCHANGED <<work, ending, exposed, leaked>>
  BY DEF Save, MakeEdit, Put
<1>2. UNCHANGED <<snapshot, staging, onDisk, at, attempt, listing, commit, settled, reported, exposed, leaked>>
  BY <1>1 DEF work, ending
<1>3. /\ Text(disk[q]) \cup {e} \in Texts
      /\ \A p \in Paths : Text(disk'[p]) = IF p = q THEN Text(disk[q]) \cup {e} ELSE Text(disk[p])
      /\ \A p \in Paths : Text(disk[p]) \subseteq Text(disk'[p])
  <2>1. Text(disk[q]) \in Texts
    BY TextIs DEF IInv, Types
  <2>2. Text(disk[q]) \cup {e} \in Texts
    BY <2>1 DEF Texts
  <2> QED BY <2>2, <1>1, TextIs DEF IInv, Types
<1>4. Types'
  BY <1>1, <1>2, <1>3 DEF IInv, Types, Contents
<1>5. PhaseOK'
  BY <1>2 DEF IInv, PhaseOK, Running, Staged, AllThrough, Written
<1>6. AllMade'
  BY <1>1, <1>2, <1>3 DEF IInv, AllMade, Staged, Text
<1>7. FirstRead'
  <2>1. By(Person, made)' = By(Person, made) \cup {e}
    BY <1>1 DEF By
  <2>2. \A p \in Paths : snapshot'[p] # Unknown => Text(snapshot'[p]) \subseteq By(Person, made)'
    BY <2>1, <1>2 DEF IInv, FirstRead
  <2>3. \A p \in Paths \ settled : snapshot[p] = Unknown => Text(disk'[p]) \subseteq By(Person, made)'
    BY <2>1, <1>3 DEF IInv, FirstRead
  <2>4. \A p \in Paths \ moved' : disk'[p] = IF p \in Initial THEN {} ELSE Absent
    BY <1>1 DEF IInv, FirstRead, Types
  <2> QED BY <2>2, <2>3, <2>4, <1>2 DEF IInv, FirstRead, Running, Text
<1>8. PersonKept'
  BY <1>1, <1>2, <1>3 DEF IInv, PersonKept, By, On, Text
<1>9. LiveKept'
  <2> SUFFICES ASSUME NEW w \in Ids, NEW p \in Paths, NEW d \in On(p, By(w, live)), d \notin exposed
               PROVE  \/ at[w] \in {"working", "done"} /\ StagedIn(w, p, d)
                      \/ at[w] = "running" /\ d \in Text(disk'[p]) /\ (p \in since' \/ StagedIn(w, p, d))
    BY <1>1, <1>2, WorkersAssumption DEF LiveKept, By, On, StagedIn, Text
  <2>1. at[w] = "running" => since \subseteq since'
    BY <1>1 DEF Running
  <2>2. d \in Text(disk[p]) => d \in Text(disk'[p])
    BY <1>3
  <2> QED BY <2>1, <2>2 DEF IInv, LiveKept
<1>10. OthersLeak' /\ DeadUnstaged'
  BY <1>1, <1>2, WorkersAssumption DEF IInv, OthersLeak, DeadUnstaged, By, On, StagedIn, Running
<1>11. DiskKnown' /\ DeadOnDisk'
  BY <1>1, <1>2, <1>3, WorkersAssumption DEF IInv, DiskKnown, DeadOnDisk, By, On, Staged, Running, Text
<1>12. CommitOK'
  BY <1>1, <1>2, WorkersAssumption DEF IInv, CommitOK, Settles, By, On
<1>13. SettledOK'
  BY <1>1, <1>2, <1>3, WorkersAssumption DEF IInv, SettledOK, Settles, By, On, Types, Text
<1> QED BY <1>4, <1>5, <1>6, <1>7, <1>8, <1>9, <1>10, <1>11, <1>12, <1>13 DEF IInv

\* An edit joins what the worker staged, or what it reads: the person's text.
LEMMA EditKeeps ==
  ASSUME IInv, NEW v \in Ids, NEW q \in Paths, Edit(v, q)
  PROVE  IInv'
<1> DEFINE old == IF staging[v][q] # Unknown THEN staging[v][q] ELSE Get(q)
<1>1. PICK e \in Edits :
        /\ e.by = v /\ e.path = q
        /\ at[v] = "working"
        /\ made' = made \cup {e} /\ live' = live \cup {e} /\ extras' = extras
        /\ snapshot' = IF staging[v][q] # Unknown THEN snapshot ELSE [snapshot EXCEPT ![q] = Get(q)]
        /\ staging' = [staging EXCEPT ![v][q] = Text(old) \cup {e}]
        /\ UNCHANGED <<disk, moved, onDisk, at, attempt, listing, since, ending, exposed, leaked>>
  BY DEF Edit, MakeEdit
<1>2. UNCHANGED <<disk, moved, onDisk, at, attempt, listing, since, commit, settled, reported, exposed, leaked>>
  BY <1>1 DEF ending
<1>3. settled = {} /\ commit = NoCommit /\ CommitOK' /\ SettledOK' /\ at[v] = "working"
  BY <1>1, Early, StillEarly
<1>4. Get(q) \in Contents /\ Text(Get(q)) \subseteq By(Person, made)
  BY <1>3, GetIs
<1>5. Text(old) \in Texts /\ Text(old) \subseteq made
  <2>1. staging[v][q] \in Entries
    BY DEF IInv, Types
  <2>2. CASE staging[v][q] # Unknown
    BY <2>1, <2>2, TextIs DEF IInv, AllMade, Staged
  <2>3. CASE staging[v][q] = Unknown
    BY <2>3, <1>4, TextIs DEF By
  <2> QED BY <2>2, <2>3
<1>6. /\ Text(old) \cup {e} \in Texts
      /\ Text(old) \cup {e} # Unknown /\ Text(old) \cup {e} # Absent
      /\ \A w \in Ids, p \in Paths :
           staging'[w][p] = IF w = v /\ p = q THEN Text(old) \cup {e} ELSE staging[w][p]
      /\ staging' \in [Ids -> [Paths -> Entries]]
  <2>1. Text(old) \cup {e} \in Texts
    BY <1>5 DEF Texts
  <2>2. Text(old) \cup {e} \in Entries
    BY <2>1 DEF Entries, Contents
  <2> HIDE DEF old
  <2> QED BY <2>1, <2>2, <1>1, ContentAssumption DEF IInv, Types
<1>7. \A d : StagedIn(v, q, d)' <=> d = e \/ d \in Text(old)
  <2>1. staging'[v][q] = Text(old) \cup {e}
    BY <1>6
  <2> HIDE DEF old
  <2>2. ASSUME NEW d PROVE StagedIn(v, q, d)' <=> d \in Text(old) \cup {e}
    <3>1. StagedIn(v, q, d)' <=> staging'[v][q] # Unknown /\ d \in IF staging'[v][q] = Absent THEN {} ELSE staging'[v][q]
      BY DEF StagedIn, Text
    <3> QED BY <2>1, <1>6, <3>1
  <2> QED BY <2>2
<1>8. \A w \in Ids, p \in Paths : \A d : w # v \/ p # q => (StagedIn(w, p, d)' <=> StagedIn(w, p, d))
  BY <1>6 DEF StagedIn, Text
<1>9. \A d \in Text(old) : StagedIn(v, q, d) \/ d.by = Person
  BY <1>4 DEF StagedIn, By
<1>10. \A d : StagedIn(v, q, d) => d \in Text(old)
  BY DEF StagedIn
<1> HIDE DEF old
<1>11. \A w \in Ids, p \in Paths : p \in Staged(w)' <=> p \in Staged(w) \/ (w = v /\ p = q)
  <2>1. ASSUME NEW w \in Ids, NEW p \in Paths
        PROVE  p \in Staged(w)' <=> p \in Staged(w) \/ (w = v /\ p = q)
    <3>1. p \in Staged(w)' <=> staging'[w][p] # Unknown
      BY DEF Staged
    <3>2. p \in Staged(w) <=> staging[w][p] # Unknown
      BY DEF Staged
    <3> QED BY <1>6, <3>1, <3>2
  <2> QED BY <2>1
<1>12. Types'
  BY <1>1, <1>2, <1>4, <1>6, TextIs DEF IInv, Types
<1>13. PhaseOK'
  BY <1>2, <1>3, <1>6, <1>11 DEF IInv, PhaseOK, Running, AllThrough, Written, Staged
<1>14. AllMade'
  <2>1. \A p \in Paths : Text(disk[p])' \subseteq made'
    BY <1>1, <1>2 DEF IInv, AllMade, Text
  <2>2. ASSUME NEW w \in Ids, NEW p \in Staged(w)' PROVE Text(staging[w][p])' \subseteq made'
    <3>1. p \in Paths /\ Staged(w)' \subseteq Paths
      BY DEF Staged
    <3>2. CASE w = v /\ p = q
      <4>1. Text(staging[w][p])' = Text(old) \cup {e}
        BY <1>6, <3>2 DEF Text
      <4> QED BY <4>1, <1>1, <1>5
    <3>3. CASE ~(w = v /\ p = q)
      <4>1. Text(staging[w][p])' = Text(staging[w][p]) /\ p \in Staged(w)
        BY <1>6, <1>11, <3>1, <3>3 DEF Text
      <4> QED BY <4>1, <1>1 DEF IInv, AllMade
    <3> QED BY <3>2, <3>3
  <2> QED BY <2>1, <2>2 DEF AllMade
<1>15. FirstRead'
  <2>1. By(Person, made)' = By(Person, made)
    BY <1>1, WorkersAssumption DEF By
  <2>2. ASSUME NEW p \in Paths, snapshot'[p] # Unknown PROVE Text(snapshot[p])' \subseteq By(Person, made)
    <3>1. CASE snapshot'[p] = snapshot[p]
      BY <2>2, <3>1 DEF IInv, FirstRead, Text
    <3>2. CASE p = q /\ snapshot'[p] = Get(q)
      BY <1>4, <3>2 DEF Text
    <3> QED BY <3>1, <3>2, <1>1 DEF IInv, Types
  <2>3. \A p \in Paths : snapshot'[p] = Unknown => snapshot[p] = Unknown
    BY <1>1, <1>4, TextIs DEF IInv, Types
  <2> QED BY <2>1, <2>2, <2>3, <1>2 DEF IInv, FirstRead, Running, Text
<1>16. PersonKept'
  BY <1>1, <1>2, WorkersAssumption DEF IInv, PersonKept, By, On, Text
<1>17. LiveKept'
  BY <1>1, <1>2, <1>7, <1>8, <1>10 DEF IInv, LiveKept, By, On, Text
<1>18. OthersLeak'
  <2> SUFFICES ASSUME NEW w \in Ids, NEW p \in Paths, NEW d \in made', StagedIn(w, p, d)'
               PROVE  d.by \in {w, Person} \/ d \in leaked
    BY <1>2 DEF OthersLeak
  <2>1. CASE w = v /\ p = q
    BY <2>1, <1>1, <1>5, <1>7, <1>9 DEF IInv, OthersLeak
  <2>2. CASE ~(w = v /\ p = q)
    <3>1. StagedIn(w, p, d)
      BY <2>2, <1>8
    <3>2. d \in made
      BY <3>1 DEF StagedIn, IInv, AllMade, Staged
    <3> QED BY <3>1, <3>2 DEF IInv, OthersLeak
  <2> QED BY <2>1, <2>2
<1>19. DeadUnstaged'
  BY <1>1, <1>2, <1>7, <1>8, <1>9, WorkersAssumption DEF IInv, DeadUnstaged, By, On
<1>20. DiskKnown' /\ DeadOnDisk'
  <2>1. \A p \in Paths : \A d \in Text(disk[p]) : d \in made
    BY DEF IInv, AllMade
  <2>2. ASSUME NEW w \in Ids, NEW p \in Staged(w) PROVE p \in Staged(w)'
    <3>1. p \in Paths
      BY DEF Staged
    <3> QED BY <3>1, <1>11
  <2>3. DiskKnown'
    BY <1>1, <1>2, <2>1, <2>2 DEF IInv, DiskKnown, By, On, Text
  <2>4. DeadOnDisk'
    BY <1>1, <1>2, <2>1, <2>2 DEF IInv, DeadOnDisk, By, On, Text
  <2> QED BY <2>3, <2>4
<1> QED BY <1>3, <1>12, <1>13, <1>14, <1>15, <1>16, <1>17, <1>18, <1>19, <1>20 DEF IInv

\* What Remove and UndoWrite do: the entry of a path becomes c, and the worker's edits there no
\* longer stand.
LEMMA UnstageKeeps ==
  ASSUME IInv, NEW v \in Ids, NEW q \in Paths, NEW c \in {Absent, Unknown},
         at[v] = "working", extras' \in 0..MaxExtras,
         staging' = [staging EXCEPT ![v][q] = c],
         live' = live \ On(q, By(v, live)),
         leaked \subseteq leaked', leaked' \subseteq made,
         c = Unknown /\ q \in onDisk[v] => On(q, By(v, made)) \subseteq leaked',
         UNCHANGED <<disk, moved, snapshot, onDisk, at, attempt, listing, since, ending,
                     made, exposed>>
  PROVE  IInv'
<1>1. UNCHANGED <<commit, settled, reported>> /\ at[v] # "running" /\ at[v] # "undoing"
  BY DEF ending
<1>2. settled = {} /\ commit = NoCommit /\ CommitOK' /\ SettledOK'
  BY Early, StillEarly
<1>4. /\ \A w \in Ids, p \in Paths :
           staging'[w][p] = IF w = v /\ p = q THEN c ELSE staging[w][p]
      /\ staging' \in [Ids -> [Paths -> Entries]]
  BY TextIs DEF IInv, Types, Entries, Contents
<1>5. ASSUME NEW w \in Ids, NEW p \in Paths, NEW d
      PROVE  StagedIn(w, p, d)' <=> StagedIn(w, p, d) /\ ~(w = v /\ p = q)
  BY <1>4, ContentAssumption DEF StagedIn, Text
<1>6. ASSUME NEW w \in Ids, NEW p \in Paths
      PROVE  /\ w # v \/ p # q => (p \in Staged(w)' <=> p \in Staged(w))
             /\ c = Absent /\ w = v /\ p = q => p \in Staged(w)'
  BY <1>4, ContentAssumption DEF Staged
<1>7. Types'
  BY <1>1, <1>4 DEF IInv, Types
<1>8. PhaseOK'
  <2>1. \A w \in Ids : at[w] = "failed" \/ at[w] = "running" => w # v
    BY <1>1
  <2>2. \A w \in Ids : Staged(w) \subseteq Paths /\ Staged(w)' \subseteq Paths
    BY DEF Staged
  <2>3. Running' = Running /\ AllThrough' = AllThrough
    BY DEF Running, AllThrough
  <2>4. \A w \in Ids : at[w] = "failed" => Staged(w)' = {} /\ onDisk[w] = {}
    BY <2>1, <2>2, <1>6 DEF IInv, PhaseOK
  <2>5. \A w \in Running : \A p \in Staged(w)' : staging'[w][p] # Absent => p \in listing
    BY <2>1, <2>2, <1>4, <1>6 DEF IInv, PhaseOK, Running
  <2> QED BY <2>3, <2>4, <2>5, <1>1, <1>2 DEF IInv, PhaseOK
<1>9. AllMade'
  <2>1. \A p \in Paths : Text(disk[p])' \subseteq made'
    BY DEF IInv, AllMade, Text
  <2>2. ASSUME NEW w \in Ids, NEW p \in Staged(w)', NEW d \in Text(staging[w][p])'
        PROVE  d \in made
    <3>1. p \in Paths /\ StagedIn(w, p, d)'
      BY DEF Staged, StagedIn
    <3>2. StagedIn(w, p, d)
      BY <3>1, <1>5
    <3> QED BY <3>1, <3>2 DEF StagedIn, Staged, IInv, AllMade
  <2> QED BY <2>1, <2>2 DEF AllMade
<1>10. FirstRead'
  BY <1>1 DEF IInv, FirstRead, By, Running, Text
<1>11. PersonKept'
  BY <1>1, WorkersAssumption DEF IInv, PersonKept, By, On, Text
<1>12. LiveKept'
  BY <1>1, <1>5 DEF IInv, LiveKept, By, On, Text
<1>13. OthersLeak'
  BY <1>5 DEF IInv, OthersLeak
<1>14. DeadUnstaged'
  BY <1>1, <1>5 DEF IInv, DeadUnstaged, By, On
<1>15. DiskKnown'
  BY <1>1, <1>6 DEF IInv, DiskKnown, By, On, Text
<1>16. DeadOnDisk'
  <2> SUFFICES ASSUME NEW w \in Ids, NEW p \in Paths, NEW d \in On(p, By(w, made)) \ live',
                      d \in Text(disk[p]), d \notin leaked'
               PROVE  at[w] # "running" /\ (p \in Staged(w)' \/ at[w] = "undoing")
    BY <1>1, <1>2 DEF DeadOnDisk, By, On, Text
  <2>1. CASE w = v /\ p = q
    BY <2>1, <1>1, <1>2, <1>6 DEF IInv, DiskKnown
  <2>2. CASE ~(w = v /\ p = q)
    <3>1. d \notin live
      BY <2>2 DEF By, On
    <3> QED BY <3>1, <2>2, <1>2, <1>6 DEF IInv, DeadOnDisk
  <2> QED BY <2>1, <2>2
<1> QED BY <1>2, <1>7, <1>8, <1>9, <1>10, <1>11, <1>12, <1>13, <1>14, <1>15, <1>16 DEF IInv

LEMMA ExtraIs ==
  ASSUME IInv, Extra
  PROVE  extras' \in 0..MaxExtras
BY WorkersAssumption DEF Extra, IInv, Types

LEMMA RemoveKeeps ==
  ASSUME IInv, NEW v \in Ids, NEW q \in Paths, Remove(v, q)
  PROVE  IInv'
<1>1. leaked' = leaked /\ leaked' \subseteq made /\ Absent # Unknown
  BY ContentAssumption DEF Remove, IInv, Types
<1> QED BY <1>1, UnstageKeeps, ExtraIs DEF Remove

\* A write that is undone stays in the workspace only where a code run put it.
LEMMA UndoWriteKeeps ==
  ASSUME IInv, NEW v \in Ids, NEW q \in Paths, UndoWrite(v, q)
  PROVE  IInv'
<1>1. On(q, By(v, made)) \subseteq made /\ leaked \subseteq made
  BY DEF On, By, IInv, Types
<1>2. leaked \subseteq leaked' /\ leaked' \subseteq made
      /\ (q \in onDisk[v] => On(q, By(v, made)) \subseteq leaked')
  BY <1>1 DEF UndoWrite
<1> QED BY <1>2, UnstageKeeps, ExtraIs DEF UndoWrite

-----------------------------------------------------------------------------
(* The end of an attempt. *)

LEMMA FinishKeeps ==
  ASSUME IInv, NEW v \in Ids, Finish(v)
  PROVE  IInv'
<1>1. /\ at[v] = "working" /\ at' = [at EXCEPT ![v] = "done"]
      /\ UNCHANGED <<disk, moved, snapshot, staging, onDisk, attempt, listing, since,
                     commit, settled, reported, made, live, exposed, leaked, extras>>
  BY DEF Finish, ending, history
<1>2. settled = {} /\ commit = NoCommit /\ CommitOK' /\ SettledOK'
  BY <1>1, Early, StillEarly DEF ending
<1>3. \A w \in Ids : at'[w] = IF w = v THEN "done" ELSE at[w]
  BY <1>1 DEF IInv, Types
<1>4. Types'
  BY <1>1 DEF IInv, Types
<1>5. PhaseOK'
  BY <1>1, <1>2, <1>3 DEF IInv, PhaseOK, Running, AllThrough, Staged
<1>6. AllMade' /\ PersonKept' /\ OthersLeak'
  BY <1>1 DEF IInv, AllMade, PersonKept, OthersLeak, Staged, StagedIn, Text
<1>7. FirstRead'
  BY <1>1, <1>3 DEF IInv, FirstRead, Running, Text
<1>8. LiveKept' /\ DeadUnstaged'
  BY <1>1, <1>3 DEF IInv, LiveKept, DeadUnstaged, StagedIn, Text
<1>9. DiskKnown' /\ DeadOnDisk'
  BY <1>1, <1>3 DEF IInv, DiskKnown, DeadOnDisk, Staged, Text
<1> QED BY <1>2, <1>4, <1>5, <1>6, <1>7, <1>8, <1>9 DEF IInv

\* No edit of a failed attempt stands.
LEMMA FailKeeps ==
  ASSUME IInv, NEW v \in Ids, Fail(v)
  PROVE  IInv'
<1>1. /\ at[v] = "working" /\ at' = [at EXCEPT ![v] = "undoing"]
      /\ live' = live \ By(v, live)
      /\ UNCHANGED <<disk, moved, snapshot, staging, onDisk, attempt, listing, since,
                     commit, settled, reported, made, exposed, leaked>>
      /\ extras' \in 0..MaxExtras
  BY ExtraIs DEF Fail, ending
<1>2. settled = {} /\ commit = NoCommit /\ CommitOK' /\ SettledOK'
  BY <1>1, Early, StillEarly DEF ending
<1>3. \A w \in Ids : at'[w] = IF w = v THEN "undoing" ELSE at[w]
  BY <1>1 DEF IInv, Types
<1>4. Types'
  BY <1>1 DEF IInv, Types
<1>5. PhaseOK'
  BY <1>1, <1>2, <1>3 DEF IInv, PhaseOK, Running, AllThrough, Staged
<1>6. AllMade' /\ PersonKept' /\ OthersLeak'
  BY <1>1, WorkersAssumption
     DEF IInv, AllMade, PersonKept, OthersLeak, Staged, StagedIn, Text, By, On
<1>7. FirstRead'
  BY <1>1, <1>3 DEF IInv, FirstRead, Running, Text
<1>8. LiveKept' /\ DeadUnstaged'
  BY <1>1, <1>3 DEF IInv, LiveKept, DeadUnstaged, StagedIn, Text, By, On
<1>9. DiskKnown'
  BY <1>1, <1>3 DEF IInv, DiskKnown, Staged, Text
<1>10. DeadOnDisk'
  BY <1>1, <1>3 DEF IInv, DeadOnDisk, Staged, Text, By, On
<1> QED BY <1>2, <1>4, <1>5, <1>6, <1>7, <1>8, <1>9, <1>10 DEF IInv

\* An attempt ends when all its paths are back, so that no edit of it is left in the workspace.
LEMMA EndAttemptKeeps ==
  ASSUME IInv, NEW v \in Ids, EndAttempt(v)
  PROVE  IInv'
<1>1. /\ at[v] = "undoing" /\ onDisk[v] = {}
      /\ at'[v] \in {"working", "failed"} /\ \A w \in Ids \ {v} : at'[w] = at[w]
      /\ at' \in [Ids -> {"working", "running", "undoing", "done", "failed"}]
      /\ attempt' \in [Ids -> 0..MaxRetries]
      /\ staging' = [staging EXCEPT ![v] = [p \in Paths |-> Unknown]]
      /\ UNCHANGED <<disk, moved, snapshot, onDisk, listing, since,
                     commit, settled, reported, made, live, exposed, leaked, extras>>
  BY WorkersAssumption DEF EndAttempt, ending, history, IInv, Types
<1>2. settled = {} /\ commit = NoCommit /\ CommitOK' /\ SettledOK'
  BY <1>1, Early, StillEarly DEF ending
<1>3. /\ \A w \in Ids, p \in Paths : staging'[w][p] = IF w = v THEN Unknown ELSE staging[w][p]
      /\ staging' \in [Ids -> [Paths -> Entries]]
  BY <1>1 DEF IInv, Types, Entries
<1>4. ASSUME NEW w \in Ids, NEW p \in Paths, NEW d
      PROVE  StagedIn(w, p, d)' <=> (StagedIn(w, p, d) /\ w # v)
  BY <1>3 DEF StagedIn, Text
<1>5. ASSUME NEW w \in Ids
      PROVE  Staged(w)' = IF w = v THEN {} ELSE Staged(w)
  BY <1>3 DEF Staged
<1>6. Types'
  BY <1>1, <1>3 DEF IInv, Types
<1>7. PhaseOK'
  <2>1. Running' = Running /\ v \notin Running
    BY <1>1 DEF Running
  <2>2. \A w \in Ids : at'[w] = "failed" => Staged(w)' = {} /\ onDisk[w] = {}
    BY <1>1, <1>5 DEF IInv, PhaseOK
  <2>3. \A w \in Running : \A p \in Staged(w)' : staging'[w][p] # Absent => p \in listing
    BY <2>1, <1>3, <1>5 DEF IInv, PhaseOK, Running, Staged
  <2> QED BY <2>1, <2>2, <2>3, <1>1, <1>2 DEF IInv, PhaseOK
<1>8. AllMade'
  <2>1. \A p \in Paths : Text(disk[p])' \subseteq made'
    BY <1>1 DEF IInv, AllMade, Text
  <2>2. ASSUME NEW w \in Ids, NEW p \in Staged(w)', NEW d \in Text(staging[w][p])'
        PROVE  d \in made
    <3>1. p \in Staged(w) /\ p \in Paths /\ StagedIn(w, p, d)'
      BY <1>5 DEF Staged, StagedIn
    <3>2. StagedIn(w, p, d)
      BY <3>1, <1>4
    <3> QED BY <3>1, <3>2 DEF StagedIn, IInv, AllMade
  <2> QED BY <2>1, <2>2, <1>1 DEF AllMade
<1>9. FirstRead'
  BY <1>1 DEF IInv, FirstRead, Running, Text
<1>10. PersonKept'
  BY <1>1 DEF IInv, PersonKept, Text
<1>11. LiveKept'
  BY <1>1, <1>4 DEF IInv, LiveKept, Text
<1>12. OthersLeak'
  BY <1>1, <1>4 DEF IInv, OthersLeak
<1>13. DeadUnstaged'
  BY <1>1, <1>4 DEF IInv, DeadUnstaged
<1>14. DiskKnown'
  BY <1>1, <1>5 DEF IInv, DiskKnown, Text
<1>15. DeadOnDisk'
  <2> SUFFICES ASSUME NEW w \in Ids, NEW p \in Paths, NEW d \in On(p, By(w, made)) \ live,
                      d \in Text(disk[p]), d \notin leaked
               PROVE  at'[w] # "running" /\ (p \in Staged(w)' \/ at'[w] = "undoing")
    BY <1>1, <1>2 DEF DeadOnDisk, By, On, Text
  <2>1. w # v
    BY <1>1, <1>2 DEF IInv, DiskKnown
  <2> QED BY <2>1, <1>1, <1>2, <1>5 DEF IInv, DeadOnDisk
<1> QED BY <1>2, <1>6, <1>7, <1>8, <1>9, <1>10, <1>11, <1>12, <1>13, <1>14, <1>15 DEF IInv

\* A path that goes back carries no worker's edit.
LEMMA PutBackKeeps ==
  ASSUME IInv, NEW v \in Ids, NEW q \in Paths, PutBack(v, q)
  PROVE  IInv'
<1> DEFINE c == snapshot[q]
<1>1. /\ at[v] = "undoing" /\ q \in onDisk[v]
      /\ onDisk' = [onDisk EXCEPT ![v] = @ \ {q}]
      /\ disk' = [disk EXCEPT ![q] = c] /\ moved' = moved \cup {q}
      /\ since' = IF Running = {} THEN {} ELSE since \cup {q}
      /\ exposed' = exposed \cup Overwritten(q, c) \cup UNION {On(q, By(u, made)) : u \in Running}
      /\ UNCHANGED <<snapshot, staging, at, attempt, listing, commit, settled, reported,
                     made, live, leaked, extras>>
  BY DEF PutBack, Put, Preimage, ending
<1>2. settled = {} /\ commit = NoCommit /\ CommitOK' /\ SettledOK'
  BY <1>1, Early, StillEarly DEF ending
<1>3. c \in Contents /\ Text(c) \in Texts /\ Text(c) \subseteq By(Person, made) /\ Text(c) \subseteq made
  <2>1. c # Unknown
    BY <1>1, <1>2 DEF IInv, FirstRead
  <2>2. c \in Contents
    BY <2>1, TextIs DEF IInv, Types
  <2> QED BY <2>1, <2>2, TextIs DEF IInv, FirstRead, By
<1> HIDE DEF c
<1>4. /\ \A p \in Paths : disk'[p] = IF p = q THEN c ELSE disk[p]
      /\ disk' \in [Paths -> Contents]
  BY <1>1, <1>3 DEF IInv, Types
<1>5. /\ exposed \subseteq exposed' /\ exposed' \subseteq made
      /\ \A e \in By(Person, made) : e \in Text(disk[q]) => e \in Text(c) \/ e \in exposed'
      /\ \A u \in Running : On(q, By(u, made)) \subseteq exposed'
  <2>1. Overwritten(q, c) \subseteq made /\ exposed \subseteq made
    BY DEF Overwritten, By, IInv, Types, AllMade
  <2>2. UNION {On(q, By(u, made)) : u \in Running} \subseteq made
    BY DEF On, By
  <2>3. \A e \in By(Person, made) : e \in Text(disk[q]) => e \in Text(c) \/ e \in Overwritten(q, c)
    BY DEF Overwritten, By
  <2>4. \A u \in Running : On(q, By(u, made)) \subseteq UNION {On(q, By(x, made)) : x \in Running}
    OBVIOUS
  <2> QED BY <1>1, <2>1, <2>2, <2>3, <2>4
<1>6. \A w \in Ids, p \in Paths : p \in onDisk'[w] <=> (p \in onDisk[w] /\ ~(w = v /\ p = q))
  BY <1>1 DEF IInv, Types
<1>7. Types'
  BY <1>1, <1>4, <1>5 DEF IInv, Types
<1>8. PhaseOK'
  BY <1>1, <1>2 DEF IInv, PhaseOK, Running, AllThrough, Staged, Types
<1>9. AllMade'
  BY <1>1, <1>3, <1>4 DEF IInv, AllMade, Staged, Text
<1>10. FirstRead'
  <2>1. \A p \in Paths \ moved' : disk'[p] = IF p \in Initial THEN {} ELSE Absent
    BY <1>1, <1>4 DEF IInv, FirstRead
  <2>2. \A p \in Paths : Text(disk'[p]) \subseteq By(Person, made) \/ disk'[p] = disk[p]
    BY <1>3, <1>4
  <2> QED BY <2>1, <2>2, <1>1, <1>2, <1>6 DEF IInv, FirstRead, Running, Text
<1>11. PersonKept'
  BY <1>1, <1>4, <1>5 DEF IInv, PersonKept, On, By, Text
<1>12. LiveKept'
  <2> SUFFICES ASSUME NEW w \in Ids, NEW p \in Paths, NEW e \in On(p, By(w, live)), e \notin exposed'
               PROVE  \/ at[w] \in {"working", "done"} /\ StagedIn(w, p, e)
                      \/ at[w] = "running" /\ e \in Text(disk'[p]) /\ (p \in since' \/ StagedIn(w, p, e))
    BY <1>1 DEF LiveKept, StagedIn, Text
  <2>1. at[w] = "running" => w \in Running /\ p # q
    BY <1>5 DEF Running, On, By, IInv, Types
  <2>2. w \in Running => since \subseteq since'
    BY <1>1
  <2> QED BY <2>1, <2>2, <1>4, <1>5 DEF IInv, LiveKept
<1>13. OthersLeak'
  BY <1>1 DEF IInv, OthersLeak, StagedIn, Text
<1>14. DeadUnstaged'
  BY <1>1 DEF IInv, DeadUnstaged, StagedIn, Text, Running
<1>15. DiskKnown'
  <2> SUFFICES ASSUME NEW w \in Ids, NEW p \in Paths, NEW e \in On(p, By(w, made)),
                      e \in Text(disk'[p]), e \notin leaked
               PROVE  p \in onDisk'[w] \/ (at[w] = "running" /\ (p \in Staged(w) \/ p \in since'))
    BY <1>1 DEF DiskKnown, Staged, Text
  <2>1. p # q
    BY <1>3, <1>4, WorkersAssumption DEF By, On
  <2> QED BY <2>1, <1>1, <1>2, <1>4, <1>6 DEF IInv, DiskKnown, Running
<1>16. DeadOnDisk'
  <2> SUFFICES ASSUME NEW w \in Ids, NEW p \in Paths, NEW e \in On(p, By(w, made)) \ live,
                      e \in Text(disk'[p]), e \notin leaked
               PROVE  at[w] # "running" /\ (p \in Staged(w) \/ at[w] = "undoing")
    BY <1>1 DEF DeadOnDisk, Staged, Text
  <2>1. p # q
    BY <1>3, <1>4, WorkersAssumption DEF By, On
  <2> QED BY <2>1, <1>2, <1>4 DEF IInv, DeadOnDisk
<1> QED BY <1>2, <1>7, <1>8, <1>9, <1>10, <1>11, <1>12, <1>13, <1>14, <1>15, <1>16 DEF IInv

-----------------------------------------------------------------------------
(* Executing code. *)

\* What the worker staged replaces what the workspace had there.
LEMMA ApplyKeeps ==
  ASSUME IInv, NEW v \in Ids, Apply(v)
  PROVE  IInv'
<1>1. /\ at[v] = "working" /\ Running = {}
      /\ snapshot' = [p \in Paths |-> Get(p)]
      /\ disk' = [p \in Paths |-> IF p \in Staged(v) THEN staging[v][p] ELSE disk[p]]
      /\ moved' = moved \cup Staged(v)
      /\ listing' = {p \in Paths : disk'[p] # Absent}
      /\ since' = {}
      /\ at' = [at EXCEPT ![v] = "running"]
      /\ exposed' = exposed \cup UNION {Overwritten(p, staging[v][p]) : p \in Staged(v)}
      /\ UNCHANGED <<staging, onDisk, attempt, commit, settled, reported, made, live, leaked>>
      /\ extras' \in 0..MaxExtras
  BY ExtraIs DEF Apply, ending
<1>2. settled = {} /\ commit = NoCommit /\ CommitOK' /\ SettledOK'
  BY <1>1, Early, StillEarly DEF ending
<1>3. /\ \A p \in Paths : disk'[p] = IF p \in Staged(v) THEN staging[v][p] ELSE disk[p]
      /\ disk' \in [Paths -> Contents]
  <2>1. \A p \in Staged(v) : staging[v][p] \in Contents
    BY TextIs DEF Staged, IInv, Types
  <2> QED BY <2>1, <1>1 DEF IInv, Types
<1>4. \A w \in Ids : at'[w] = IF w = v THEN "running" ELSE at[w]
  BY <1>1 DEF IInv, Types
<1>5. /\ exposed \subseteq exposed' /\ exposed' \subseteq made
      /\ \A p \in Staged(v) : \A e \in By(Person, made) :
           e \in Text(disk[p]) => e \in Text(staging[v][p]) \/ e \in exposed'
  <2>1. ASSUME NEW p \in Staged(v)
        PROVE  Overwritten(p, staging[v][p]) \subseteq made
    BY DEF Overwritten, By, IInv, AllMade, Staged
  <2>2. exposed' \subseteq made
    BY <2>1, <1>1 DEF IInv, Types
  <2>3. ASSUME NEW p \in Staged(v), NEW e \in By(Person, made), e \in Text(disk[p])
        PROVE  e \in Text(staging[v][p]) \/ e \in exposed'
    <3>1. e \in Text(staging[v][p]) \/ e \in Overwritten(p, staging[v][p])
      BY <2>3 DEF Overwritten, By
    <3> QED BY <3>1, <1>1
  <2> QED BY <2>2, <2>3, <1>1
<1>6. \A w \in Ids : w \in Running' <=> w = v
  BY <1>1, <1>4 DEF Running
<1>7. \A w \in Ids : at[w] # "running"
  BY <1>1 DEF Running
<1>8. Types'
  <2>1. snapshot' \in [Paths -> Entries]
    BY <1>1, GetIs, TextIs
  <2> QED BY <2>1, <1>1, <1>3, <1>5 DEF IInv, Types, Staged
<1>9. PhaseOK'
  <2>1. \A w, x \in Running' : w = x
    BY <1>6 DEF Running
  <2>2. \A w \in Ids : at'[w] = "failed" => Staged(w)' = {} /\ onDisk'[w] = {}
    BY <1>1, <1>4 DEF IInv, PhaseOK, Staged
  <2>3. \A p \in Staged(v) : staging[v][p] # Absent => p \in listing'
    BY <1>1, <1>3 DEF Staged
  <2>4. \A w \in Running' : \A p \in Staged(w)' : staging'[w][p] # Absent => p \in listing'
    BY <2>3, <1>1, <1>6 DEF Staged, Running
  <2> QED BY <2>1, <2>2, <2>4, <1>1, <1>2 DEF PhaseOK
<1>10. AllMade'
  <2>1. \A p \in Paths : Text(disk'[p]) \subseteq made
    BY <1>3 DEF IInv, AllMade
  <2> QED BY <2>1, <1>1 DEF IInv, AllMade, Staged, Text
<1>11. FirstRead'
  <2>1. \A p \in Paths : snapshot'[p] # Unknown /\ Text(snapshot'[p]) \subseteq By(Person, made)
    BY <1>1, <1>2, GetIs, TextIs
  <2>2. \A p \in Paths \ moved' : disk'[p] = IF p \in Initial THEN {} ELSE Absent
    BY <1>1, <1>3 DEF IInv, FirstRead
  <2> QED BY <2>1, <2>2, <1>1 DEF FirstRead, Text
<1>12. PersonKept'
  BY <1>1, <1>3, <1>5 DEF IInv, PersonKept, On, By, Text
<1>13. LiveKept'
  <2> SUFFICES ASSUME NEW w \in Ids, NEW p \in Paths, NEW e \in On(p, By(w, live)), e \notin exposed'
               PROVE  \/ at'[w] \in {"working", "done"} /\ StagedIn(w, p, e)
                      \/ at'[w] = "running" /\ e \in Text(disk'[p]) /\ StagedIn(w, p, e)
    BY <1>1 DEF LiveKept, StagedIn, Text
  <2>1. at[w] \in {"working", "done"} /\ StagedIn(w, p, e)
    BY <1>5, <1>7 DEF IInv, LiveKept
  <2> QED BY <2>1, <1>3, <1>4 DEF StagedIn, Staged
<1>14. OthersLeak'
  BY <1>1 DEF IInv, OthersLeak, StagedIn, Text
<1>15. DeadUnstaged'
  BY <1>1, <1>4, <1>7 DEF IInv, DeadUnstaged, StagedIn, Text
<1>16. ASSUME NEW w \in Ids, NEW p \in Paths, NEW e \in On(p, By(w, made)),
              e \in Text(disk'[p]), e \notin leaked
       PROVE  \/ w = v /\ p \in Staged(v) /\ StagedIn(v, p, e)
              \/ e \in Text(disk[p]) /\ ~(w = v /\ p \in Staged(v))
  <2>1. CASE p \in Staged(v)
    <3>1. StagedIn(v, p, e) /\ e \in made /\ e.by = w
      BY <2>1, <1>3, <1>16 DEF StagedIn, Staged, On, By
    <3>2. w = v
      BY <3>1, <1>16, WorkersAssumption DEF IInv, OthersLeak
    <3> QED BY <2>1, <3>1, <3>2
  <2>2. CASE p \notin Staged(v)
    BY <2>2, <1>3, <1>16
  <2> QED BY <2>1, <2>2
<1>17. DiskKnown'
  <2> SUFFICES ASSUME NEW w \in Ids, NEW p \in Paths, NEW e \in On(p, By(w, made)),
                      e \in Text(disk'[p]), e \notin leaked
               PROVE  p \in onDisk[w] \/ (at'[w] = "running" /\ p \in Staged(w))
    BY <1>1 DEF DiskKnown, Staged, Text
  <2> QED BY <1>2, <1>4, <1>7, <1>16 DEF IInv, DiskKnown
<1>18. DeadOnDisk'
  <2> SUFFICES ASSUME NEW w \in Ids, NEW p \in Paths, NEW e \in On(p, By(w, made)) \ live,
                      e \in Text(disk'[p]), e \notin leaked
               PROVE  at'[w] # "running" /\ (p \in Staged(w) \/ at'[w] = "undoing")
    BY <1>1 DEF DeadOnDisk, Staged, Text
  <2>1. ~(w = v /\ p \in Staged(v) /\ StagedIn(v, p, e))
    BY <1>1 DEF IInv, DeadUnstaged
  <2>2. e \in Text(disk[p]) /\ ~(w = v /\ p \in Staged(v))
    BY <2>1, <1>16
  <2> QED BY <2>2, <1>1, <1>2, <1>4 DEF IInv, DeadOnDisk
<1> QED BY <1>2, <1>8, <1>9, <1>10, <1>11, <1>12, <1>13, <1>14, <1>15, <1>17, <1>18 DEF IInv

LEMMA CodeWritesKeeps ==
  ASSUME IInv, NEW v \in Ids, NEW q \in Paths, CodeWrites(v, q)
  PROVE  IInv'
<1>1. PICK e \in Edits :
        /\ e.by = v /\ e.path = q
        /\ at[v] = "running"
        /\ made' = made \cup {e} /\ live' = live \cup {e} /\ extras' = extras
        /\ disk' = [disk EXCEPT ![q] = Text(disk[q]) \cup {e}]
        /\ moved' = moved \cup {q}
        /\ since' = IF Running = {} THEN {} ELSE since \cup {q}
        /\ UNCHANGED <<work, ending, exposed, leaked>>
  BY DEF CodeWrites, MakeEdit, Put
<1>2. /\ UNCHANGED <<snapshot, staging, onDisk, at, attempt, listing, commit, settled, reported,
                     exposed, leaked>>
      /\ v \in Running /\ since' = since \cup {q}
  BY <1>1 DEF work, ending, Running
<1>3. settled = {} /\ commit = NoCommit /\ CommitOK' /\ SettledOK'
  BY <1>1, Early, StillEarly
<1>4. /\ Text(disk[q]) \cup {e} \in Texts
      /\ Text(disk[q]) \cup {e} # Absent
      /\ \A p \in Paths : disk'[p] = IF p = q THEN Text(disk[q]) \cup {e} ELSE disk[p]
      /\ \A p \in Paths : Text(disk'[p]) = IF p = q THEN Text(disk[q]) \cup {e} ELSE Text(disk[p])
  <2>1. Text(disk[q]) \in Texts
    BY TextIs DEF IInv, Types
  <2>2. Text(disk[q]) \cup {e} \in Texts
    BY <2>1 DEF Texts
  <2> QED BY <2>2, <1>1, TextIs, ContentAssumption DEF IInv, Types
<1>5. Types'
  BY <1>1, <1>2, <1>4 DEF IInv, Types, Contents
<1>6. PhaseOK'
  BY <1>2, <1>3 DEF IInv, PhaseOK, Running, Staged, AllThrough
<1>7. AllMade'
  BY <1>1, <1>2, <1>4 DEF IInv, AllMade, Staged, Text
<1>8. FirstRead'
  <2>1. By(Person, made)' = By(Person, made)
    BY <1>1, WorkersAssumption DEF By
  <2>2. \A p \in Paths : snapshot[p] # Unknown
    BY <1>2, <1>3 DEF IInv, FirstRead
  <2>3. \A p \in Paths \ moved' : disk'[p] = IF p \in Initial THEN {} ELSE Absent
    BY <1>1 DEF IInv, FirstRead, Types
  <2> QED BY <2>1, <2>2, <2>3, <1>2 DEF IInv, FirstRead, Text
<1>9. PersonKept'
  BY <1>1, <1>2, <1>4, WorkersAssumption DEF IInv, PersonKept, By, On, Text
<1>10. LiveKept'
  BY <1>1, <1>2, <1>4 DEF IInv, LiveKept, By, On, StagedIn, Text
<1>11. OthersLeak' /\ DeadUnstaged'
  <2>1. \A w \in Ids, p \in Paths : \A d : StagedIn(w, p, d) => d \in made
    BY DEF IInv, AllMade, StagedIn, Staged
  <2>2. ASSUME NEW w \in Ids, NEW p \in Paths, NEW d
        PROVE  StagedIn(w, p, d)' <=> StagedIn(w, p, d)
    BY <1>2 DEF StagedIn, Text
  <2>3. OthersLeak'
    BY <2>1, <2>2, <1>1, <1>2 DEF IInv, OthersLeak
  <2>4. DeadUnstaged'
    BY <2>1, <2>2, <1>1, <1>2 DEF IInv, DeadUnstaged, By, On
  <2> QED BY <2>3, <2>4
<1>12. DiskKnown' /\ DeadOnDisk'
  <2>1. \A p \in Paths : Text(disk[p]) \subseteq made
    BY DEF IInv, AllMade
  <2>2. DiskKnown'
    BY <2>1, <1>1, <1>2, <1>4 DEF IInv, DiskKnown, By, On, Staged, Text
  <2>3. DeadOnDisk'
    BY <2>1, <1>1, <1>2, <1>4 DEF IInv, DeadOnDisk, By, On, Staged, Text
  <2> QED BY <2>2, <2>3
<1> QED BY <1>3, <1>5, <1>6, <1>7, <1>8, <1>9, <1>10, <1>11, <1>12 DEF IInv

\* A removed file is in the listing if its worker staged a text of it, so that its loss is staged.
LEMMA CodeRemovesKeeps ==
  ASSUME IInv, NEW v \in Ids, NEW q \in Paths, CodeRemoves(v, q)
  PROVE  IInv'
<1>1. /\ at[v] = "running"
      /\ disk' = [disk EXCEPT ![q] = Absent] /\ moved' = moved \cup {q}
      /\ since' = IF Running = {} THEN {} ELSE since \cup {q}
      /\ live' = live \ On(q, By(v, live))
      /\ exposed' = exposed \cup Overwritten(q, Absent)
      /\ UNCHANGED <<snapshot, staging, onDisk, at, attempt, listing, commit, settled, reported,
                     made, leaked>>
      /\ extras' \in 0..MaxExtras
  BY ExtraIs DEF CodeRemoves, Put, work, ending
<1>2. v \in Running /\ since' = since \cup {q}
  BY <1>1 DEF Running
<1>3. settled = {} /\ commit = NoCommit /\ CommitOK' /\ SettledOK'
  BY <1>1, Early, StillEarly DEF ending
<1>4. /\ \A p \in Paths : disk'[p] = IF p = q THEN Absent ELSE disk[p]
      /\ disk' \in [Paths -> Contents]
      /\ Text(Absent) = {}
  BY <1>1, TextIs DEF IInv, Types, Contents
<1>5. /\ exposed \subseteq exposed' /\ exposed' \subseteq made
      /\ \A e \in By(Person, made) : e \in Text(disk[q]) => e \in exposed'
  BY <1>1, <1>4 DEF Overwritten, By, IInv, Types, AllMade
<1>6. Types'
  BY <1>1, <1>4, <1>5 DEF IInv, Types
<1>7. PhaseOK'
  BY <1>1, <1>3 DEF IInv, PhaseOK, Running, Staged, AllThrough
<1>8. AllMade'
  BY <1>1, <1>4 DEF IInv, AllMade, Staged, Text
<1>9. FirstRead'
  <2>1. \A p \in Paths : snapshot[p] # Unknown
    BY <1>2, <1>3 DEF IInv, FirstRead
  <2>2. \A p \in Paths \ moved' : disk'[p] = IF p \in Initial THEN {} ELSE Absent
    BY <1>1, <1>4 DEF IInv, FirstRead
  <2> QED BY <2>1, <2>2, <1>1 DEF IInv, FirstRead, Text
<1>10. PersonKept'
  BY <1>1, <1>4, <1>5, WorkersAssumption DEF IInv, PersonKept, By, On, Text
<1>11. LiveKept'
  <2> SUFFICES ASSUME NEW w \in Ids, NEW p \in Paths, NEW e \in On(p, By(w, live)),
                      e \in live', e \notin exposed'
               PROVE  \/ at[w] \in {"working", "done"} /\ StagedIn(w, p, e)
                      \/ at[w] = "running" /\ e \in Text(disk'[p]) /\ (p \in since' \/ StagedIn(w, p, e))
    BY <1>1 DEF LiveKept, StagedIn, Text, On, By
  <2>1. ~(w = v /\ p = q)
    BY <1>1 DEF On, By
  <2>2. at[w] = "running" => w = v
    BY <1>2 DEF IInv, PhaseOK, Running
  <2> QED BY <2>1, <2>2, <1>2, <1>4, <1>5 DEF IInv, LiveKept
<1>12. OthersLeak'
  BY <1>1 DEF IInv, OthersLeak, StagedIn, Text
<1>13. DeadUnstaged'
  <2> SUFFICES ASSUME NEW w \in Ids, NEW p \in Paths, NEW e \in On(p, By(w, made)),
                      e \notin live', StagedIn(w, p, e), e \notin leaked
               PROVE  at[w] = "undoing" \/ (at[w] = "running" /\ p \in since' /\ p \in listing)
    BY <1>1 DEF DeadUnstaged, StagedIn, Text
  <2>1. CASE e \in live
    <3>1. w = v /\ p = q
      BY <2>1, <1>1 DEF On, By
    <3>2. p \in Staged(v) /\ staging[v][p] # Absent
      BY <3>1, <1>4 DEF StagedIn, Staged
    <3> QED BY <3>1, <3>2, <1>1, <1>2 DEF IInv, PhaseOK
  <2>2. CASE e \notin live
    BY <2>2, <1>2 DEF IInv, DeadUnstaged
  <2> QED BY <2>1, <2>2
<1>14. DiskKnown'
  BY <1>1, <1>2, <1>4 DEF IInv, DiskKnown, Staged, Text
<1>15. DeadOnDisk'
  <2> SUFFICES ASSUME NEW w \in Ids, NEW p \in Paths, NEW e \in On(p, By(w, made)),
                      e \notin live', e \in Text(disk'[p]), e \notin leaked
               PROVE  at[w] # "running" /\ (p \in Staged(w) \/ at[w] = "undoing")
    BY <1>1 DEF DeadOnDisk, Staged, Text
  <2>1. p # q
    BY <1>4
  <2>2. e \notin live
    BY <2>1, <1>1 DEF On
  <2> QED BY <2>1, <2>2, <1>3, <1>4 DEF IInv, DeadOnDisk
<1> QED BY <1>3, <1>6, <1>7, <1>8, <1>9, <1>10, <1>11, <1>12, <1>13, <1>14, <1>15 DEF IInv

\* What the code changed is staged, and with it the edits others have there, which leak.
LEMMA CollectKeeps ==
  ASSUME IInv, NEW v \in Ids, Collect(v)
  PROVE  IInv'
<1> DEFINE changed == {p \in since : disk[p] # Absent \/ p \in listing}
<1>1. /\ at[v] = "running"
      /\ staging' = [staging EXCEPT ![v] = [p \in Paths |-> IF p \in changed THEN disk[p] ELSE @[p]]]
      /\ onDisk' = [onDisk EXCEPT ![v] = @ \cup Staged(v) \cup changed]
      /\ at' = [at EXCEPT ![v] = "working"]
      /\ listing' = {} /\ since' = {}
      /\ leaked' = leaked \cup UNION {Text(disk[p]) \ (By(v, made) \cup By(Person, made)) : p \in changed}
      /\ UNCHANGED <<disk, moved, snapshot, attempt, commit, settled, reported, made, live, exposed,
                     extras>>
  BY DEF Collect, ending
<1>2. settled = {} /\ commit = NoCommit /\ CommitOK' /\ SettledOK'
  BY <1>1, Early, StillEarly DEF ending
<1>3. /\ changed \subseteq since /\ since \subseteq Paths
      /\ \A p \in since : Text(disk[p]) # {} => p \in changed
      /\ \A p \in since : p \in listing => p \in changed
  BY TextIs DEF IInv, Types
<1> HIDE DEF changed
<1>4. /\ \A w \in Ids, p \in Paths :
           staging'[w][p] = IF w = v /\ p \in changed THEN disk[p] ELSE staging[w][p]
      /\ staging' \in [Ids -> [Paths -> Entries]]
  <2>1. \A p \in Paths : disk[p] \in Entries
    BY TextIs DEF IInv, Types
  <2> QED BY <2>1, <1>1 DEF IInv, Types
<1>5. ASSUME NEW w \in Ids, NEW p \in Paths, NEW d
      PROVE  StagedIn(w, p, d)' <=> IF w = v /\ p \in changed THEN d \in Text(disk[p]) ELSE StagedIn(w, p, d)
  <2>1. disk[p] # Unknown
    BY TextIs DEF IInv, Types
  <2>2. StagedIn(w, p, d)' <=> staging'[w][p] # Unknown /\ d \in IF staging'[w][p] = Absent THEN {} ELSE staging'[w][p]
    BY DEF StagedIn, Text
  <2> QED BY <2>1, <2>2, <1>4 DEF StagedIn, Text
<1>6. /\ \A w \in Ids : at'[w] = IF w = v THEN "working" ELSE at[w]
      /\ \A w \in Ids : at[w] = "running" => w = v
  BY <1>1 DEF IInv, Types, PhaseOK, Running
<1>7. /\ leaked \subseteq leaked' /\ leaked' \subseteq made
      /\ \A p \in changed : \A d \in Text(disk[p]) : d.by \in {v, Person} \/ d \in leaked'
  <2>1. \A p \in changed : Text(disk[p]) \subseteq made
    BY <1>3 DEF IInv, AllMade
  <2>2. leaked' \subseteq made
    BY <2>1, <1>1 DEF IInv, Types
  <2>3. ASSUME NEW p \in changed, NEW d \in Text(disk[p]), d.by \notin {v, Person}
        PROVE  d \in leaked'
    <3>1. d \in Text(disk[p]) \ (By(v, made) \cup By(Person, made))
      BY <2>3 DEF By
    <3> QED BY <3>1, <1>1
  <2> QED BY <2>2, <2>3, <1>1
<1>8. \A w \in Ids, p \in Paths :
        p \in onDisk'[w] <=> p \in onDisk[w] \/ (w = v /\ (p \in Staged(v) \/ p \in changed))
  BY <1>1 DEF IInv, Types
<1>9. /\ \A w \in Ids, p \in Paths : w # v => (p \in Staged(w)' <=> p \in Staged(w))
      /\ \A w \in Ids : Staged(w) \subseteq Paths /\ Staged(w)' \subseteq Paths
  BY <1>4 DEF Staged
<1>10. Types'
  <2>1. onDisk' \in [Ids -> SUBSET Paths]
    BY <1>1, <1>3 DEF IInv, Types, Staged
  <2> QED BY <2>1, <1>1, <1>4, <1>7 DEF IInv, Types
<1>11. PhaseOK'
  <2>1. Running' = {}
    BY <1>6 DEF Running
  <2>2. \A w \in Ids : at'[w] = "failed" => Staged(w)' = {} /\ onDisk'[w] = {}
    BY <1>1, <1>6, <1>9 DEF IInv, PhaseOK, Types
  <2> QED BY <2>1, <2>2, <1>1, <1>2 DEF PhaseOK
<1>12. AllMade'
  <2>1. \A p \in Paths : Text(disk[p])' \subseteq made'
    BY <1>1 DEF IInv, AllMade, Text
  <2>2. ASSUME NEW w \in Ids, NEW p \in Staged(w)', NEW d \in Text(staging[w][p])'
        PROVE  d \in made
    <3>1. p \in Paths /\ StagedIn(w, p, d)'
      BY DEF Staged, StagedIn
    <3>2. StagedIn(w, p, d) \/ d \in Text(disk[p])
      BY <3>1, <1>5
    <3> QED BY <3>1, <3>2 DEF StagedIn, Staged, IInv, AllMade
  <2> QED BY <2>1, <2>2, <1>1 DEF AllMade
<1>13. FirstRead'
  <2>1. \A p \in Paths : snapshot[p] # Unknown
    BY <1>1, <1>2 DEF IInv, FirstRead, Running
  <2> QED BY <2>1, <1>1 DEF IInv, FirstRead, Text
<1>14. PersonKept'
  BY <1>1 DEF IInv, PersonKept, Text
<1>15. LiveKept'
  <2> SUFFICES ASSUME NEW w \in Ids, NEW p \in Paths, NEW e \in On(p, By(w, live)), e \notin exposed
               PROVE  at'[w] \in {"working", "done"} /\ StagedIn(w, p, e)'
    BY <1>1 DEF LiveKept
  <2>1. CASE w = v
    <3>1. e \in Text(disk[p]) /\ (p \in since \/ StagedIn(v, p, e))
      BY <2>1, <1>1 DEF IInv, LiveKept
    <3>2. p \in changed \/ StagedIn(v, p, e)
      BY <3>1, <1>3
    <3> QED BY <2>1, <3>1, <3>2, <1>5, <1>6
  <2>2. CASE w # v
    BY <2>2, <1>5, <1>6 DEF IInv, LiveKept
  <2> QED BY <2>1, <2>2
<1>16. OthersLeak'
  <2> SUFFICES ASSUME NEW w \in Ids, NEW p \in Paths, NEW e \in made, StagedIn(w, p, e)'
               PROVE  e.by \in {w, Person} \/ e \in leaked'
    BY <1>1 DEF OthersLeak
  <2> QED BY <1>5, <1>7 DEF IInv, OthersLeak
<1>17. DeadUnstaged'
  <2> SUFFICES ASSUME NEW w \in Ids, NEW p \in Paths, NEW e \in On(p, By(w, made)) \ live,
                      StagedIn(w, p, e)', e \notin leaked'
               PROVE  at'[w] = "undoing"
    BY <1>1 DEF DeadUnstaged
  <2>1. e \notin leaked
    BY <1>7
  <2>2. w # v
    <3>1. SUFFICES ASSUME w = v PROVE FALSE
      OBVIOUS
    <3>2. CASE p \in changed
      BY <3>1, <3>2, <2>1, <1>1, <1>2, <1>5 DEF IInv, DeadOnDisk
    <3>3. CASE p \notin changed
      BY <3>1, <3>3, <2>1, <1>1, <1>3, <1>5 DEF IInv, DeadUnstaged
    <3> QED BY <3>2, <3>3
  <2> QED BY <2>1, <2>2, <1>5, <1>6 DEF IInv, DeadUnstaged
<1>18. DiskKnown'
  <2> SUFFICES ASSUME NEW w \in Ids, NEW p \in Paths, NEW e \in On(p, By(w, made)),
                      e \in Text(disk[p]), e \notin leaked'
               PROVE  p \in onDisk'[w]
    BY <1>1 DEF DiskKnown, Text
  <2>1. p \in onDisk[w] \/ (w = v /\ (p \in Staged(v) \/ p \in since))
    BY <1>2, <1>6, <1>7 DEF IInv, DiskKnown
  <2> QED BY <2>1, <1>3, <1>8
<1>19. DeadOnDisk'
  <2> SUFFICES ASSUME NEW w \in Ids, NEW p \in Paths, NEW e \in On(p, By(w, made)) \ live,
                      e \in Text(disk[p]), e \notin leaked'
               PROVE  at'[w] # "running" /\ (p \in Staged(w)' \/ at'[w] = "undoing")
    BY <1>1 DEF DeadOnDisk, Text
  <2>1. at[w] # "running" /\ (p \in Staged(w) \/ at[w] = "undoing")
    BY <1>2, <1>7 DEF IInv, DeadOnDisk
  <2> QED BY <2>1, <1>1, <1>6, <1>9
<1> QED BY <1>2, <1>10, <1>11, <1>12, <1>13, <1>14, <1>15, <1>16, <1>17, <1>18, <1>19 DEF IInv

\* A run that throws leaves what its code changed to nobody: it is exposed, and it leaks.
LEMMA RunFailsKeeps ==
  ASSUME IInv, NEW v \in Ids, RunFails(v)
  PROVE  IInv'
<1> DEFINE unknown == UNION {On(p, By(v, made)) : p \in since}
<1>1. /\ at[v] = "running"
      /\ onDisk' = [onDisk EXCEPT ![v] = @ \cup Staged(v)]
      /\ at' = [at EXCEPT ![v] = "working"]
      /\ listing' = {} /\ since' = {} /\ extras' \in 0..MaxExtras
      /\ exposed' = exposed \cup unknown /\ leaked' = leaked \cup unknown
      /\ UNCHANGED <<disk, moved, snapshot, staging, attempt, commit, settled, reported, made, live>>
  BY WorkersAssumption DEF RunFails, Extra, ending, IInv, Types
<1>2. settled = {} /\ commit = NoCommit /\ CommitOK' /\ SettledOK'
  BY <1>1, Early, StillEarly DEF ending
<1>3. /\ unknown \subseteq made
      /\ \A p \in since : \A e \in On(p, By(v, made)) : e \in unknown
  BY DEF On, By
<1> HIDE DEF unknown
<1>4. /\ exposed \subseteq exposed' /\ exposed' \subseteq made
      /\ leaked \subseteq leaked' /\ leaked' \subseteq made
      /\ \A p \in since : \A e \in On(p, By(v, made)) : e \in exposed' /\ e \in leaked'
  BY <1>1, <1>3 DEF IInv, Types
<1>5. /\ \A w \in Ids : at'[w] = IF w = v THEN "working" ELSE at[w]
      /\ \A w \in Ids : at[w] = "running" => w = v
  BY <1>1 DEF IInv, Types, PhaseOK, Running
<1>6. \A w \in Ids, p \in Paths : p \in onDisk'[w] <=> p \in onDisk[w] \/ (w = v /\ p \in Staged(v))
  BY <1>1 DEF IInv, Types
<1>7. Types'
  <2>1. onDisk' \in [Ids -> SUBSET Paths]
    BY <1>1 DEF IInv, Types, Staged
  <2> QED BY <2>1, <1>1, <1>4 DEF IInv, Types
<1>8. PhaseOK'
  <2>1. Running' = {}
    BY <1>5 DEF Running
  <2>2. \A w \in Ids : at'[w] = "failed" => Staged(w)' = {} /\ onDisk'[w] = {}
    BY <1>1, <1>5 DEF IInv, PhaseOK, Types, Staged
  <2> QED BY <2>1, <2>2, <1>1, <1>2 DEF PhaseOK
<1>9. AllMade' /\ PersonKept' /\ OthersLeak'
  BY <1>1, <1>4 DEF IInv, AllMade, PersonKept, OthersLeak, Staged, StagedIn, Text
<1>10. FirstRead'
  <2>1. \A p \in Paths : snapshot[p] # Unknown
    BY <1>1, <1>2 DEF IInv, FirstRead, Running
  <2> QED BY <2>1, <1>1 DEF IInv, FirstRead, Text
<1>11. LiveKept'
  <2> SUFFICES ASSUME NEW w \in Ids, NEW p \in Paths, NEW e \in On(p, By(w, live)),
                      e \notin exposed'
               PROVE  at'[w] \in {"working", "done"} /\ StagedIn(w, p, e)
    BY <1>1 DEF LiveKept, StagedIn, Text
  <2>1. \/ at[w] \in {"working", "done"} /\ StagedIn(w, p, e)
        \/ at[w] = "running" /\ (p \in since \/ StagedIn(w, p, e))
    BY <1>4 DEF IInv, LiveKept
  <2>2. e \in On(p, By(w, made))
    BY DEF On, By, IInv, Types
  <2> QED BY <2>1, <2>2, <1>4, <1>5
<1>12. DeadUnstaged'
  <2> SUFFICES ASSUME NEW w \in Ids, NEW p \in Paths, NEW e \in On(p, By(w, made)) \ live,
                      StagedIn(w, p, e), e \notin leaked'
               PROVE  at'[w] = "undoing"
    BY <1>1 DEF DeadUnstaged, StagedIn, Text
  <2>1. at[w] = "undoing" \/ (at[w] = "running" /\ p \in since)
    BY <1>4 DEF IInv, DeadUnstaged
  <2> QED BY <2>1, <1>4, <1>5, <1>1
<1>13. DiskKnown'
  <2> SUFFICES ASSUME NEW w \in Ids, NEW p \in Paths, NEW e \in On(p, By(w, made)),
                      e \in Text(disk[p]), e \notin leaked'
               PROVE  p \in onDisk'[w]
    BY <1>1 DEF DiskKnown, Text
  <2>1. p \in onDisk[w] \/ (at[w] = "running" /\ (p \in Staged(w) \/ p \in since))
    BY <1>2, <1>4 DEF IInv, DiskKnown
  <2> QED BY <2>1, <1>4, <1>5, <1>6
<1>14. DeadOnDisk'
  <2> SUFFICES ASSUME NEW w \in Ids, NEW p \in Paths, NEW e \in On(p, By(w, made)) \ live,
                      e \in Text(disk[p]), e \notin leaked'
               PROVE  at'[w] # "running" /\ (p \in Staged(w) \/ at'[w] = "undoing")
    BY <1>1 DEF DeadOnDisk, Staged, Text
  <2>1. at[w] # "running" /\ (p \in Staged(w) \/ at[w] = "undoing")
    BY <1>2, <1>4 DEF IInv, DeadOnDisk
  <2> QED BY <2>1, <1>1, <1>5
<1> QED BY <1>2, <1>7, <1>8, <1>9, <1>10, <1>11, <1>12, <1>13, <1>14 DEF IInv

-----------------------------------------------------------------------------
\* Of a finite set with at most one element, any two are the same.
LEMMA AtMostOne ==
  ASSUME NEW S, IsFiniteSet(S), Cardinality(S) <= 1, NEW a \in S, NEW b \in S
  PROVE  a = b
<1> SUFFICES ASSUME a # b PROVE FALSE
  OBVIOUS
<1>1. IsFiniteSet({a}) /\ Cardinality({a}) = 1
  BY FS_Singleton
<1>2. Cardinality({a} \cup {b}) = 2
  <2>1. b \notin {a}
    OBVIOUS
  <2>2. Cardinality({a} \cup {b}) = IF b \in {a} THEN Cardinality({a}) ELSE Cardinality({a}) + 1
    BY <1>1, FS_AddElement
  <2> QED BY <2>1, <2>2, <1>1
<1>3. Cardinality({a} \cup {b}) <= Cardinality(S)
  BY FS_Subset
<1>4. Cardinality(S) \in Nat
  BY FS_CardinalityType
<1> QED BY <1>2, <1>3, <1>4

\* When all workers are through, what stands is staged, and what is staged stands or was leaked.
LEMMA ThroughIs ==
  ASSUME IInv, AllThrough, NEW p \in Paths, NEW w \in Ids, NEW e \in On(p, By(w, made))
  PROVE  /\ e \in live => e \in exposed \/ StagedIn(w, p, e)
         /\ \A v \in Ids : StagedIn(v, p, e) => e \in live \/ e \in leaked
<1>1. \A v \in Ids : at[v] # "running" /\ at[v] # "undoing"
  BY DEF AllThrough
<1>2. e \in live => e \in exposed \/ StagedIn(w, p, e)
  BY <1>1 DEF IInv, LiveKept, On, By
<1>3. ASSUME NEW v \in Ids, StagedIn(v, p, e) PROVE e \in live \/ e \in leaked
  <2>1. e \in made /\ e.by = w /\ w # Person
    BY WorkersAssumption DEF On, By
  <2>2. CASE v = w
    BY <2>2, <1>1, <1>3 DEF IInv, DeadUnstaged
  <2>3. CASE v # w
    BY <2>1, <2>3, <1>3 DEF IInv, OthersLeak
  <2> QED BY <2>2, <2>3
<1> QED BY <1>2, <1>3

LEMMA VersionsAreFinite ==
  ASSUME NEW p \in Paths
  PROVE  IsFiniteSet(Versions(p) \ {Absent})
<1> DEFINE f == [w \in Authors(p) |-> staging[w][p]]
<1>1. IsFiniteSet(Authors(p))
  BY WorkersAssumption, FS_Subset DEF Authors
<1>2. f \in Surjection(Authors(p), Versions(p))
  BY DEF Surjection, Versions
<1>3. IsFiniteSet(Versions(p))
  BY <1>1, <1>2, FS_Surjection
<1> QED BY <1>3, FS_Subset

\* The texts among the versions of a path.
LEMMA TextsIs ==
  ASSUME IInv, AllThrough, NEW p \in Paths
  PROVE  /\ \A t \in Versions(p) \ {Absent} : t \in Texts /\ t \subseteq made /\ Text(t) = t
         /\ \A w \in Ids : \A e : StagedIn(w, p, e) =>
              staging[w][p] \in Versions(p) \ {Absent} /\ e \in staging[w][p]
         /\ \A t \in Versions(p) \ {Absent} : \A e \in t : \E w \in Ids : StagedIn(w, p, e)
         /\ Versions(p) \subseteq Contents
<1>1. \A w \in Authors(p) : w \in Ids /\ p \in Staged(w) /\ staging[w][p] # Unknown
  BY DEF Authors, Staged
<1>2. \A w \in Authors(p) : staging[w][p] \in Contents
  BY <1>1, TextIs DEF IInv, Types
<1>3. Versions(p) \subseteq Contents
  BY <1>2 DEF Versions
<1>4. ASSUME NEW t \in Versions(p) \ {Absent}
      PROVE  /\ t \in Texts /\ Text(t) = t /\ t \subseteq made
             /\ \A e \in t : \E w \in Ids : StagedIn(w, p, e)
  <2>1. PICK w \in Authors(p) : t = staging[w][p]
    BY DEF Versions
  <2>2. t \in Texts /\ Text(t) = t
    BY <1>3, TextIs DEF Contents
  <2>3. t \subseteq made
    BY <2>1, <2>2, <1>1 DEF IInv, AllMade
  <2>4. \A e \in t : StagedIn(w, p, e)
    BY <2>1, <2>2, <1>1 DEF StagedIn
  <2> QED BY <2>2, <2>3, <2>4, <1>1
<1>5. ASSUME NEW w \in Ids, NEW e, StagedIn(w, p, e)
      PROVE  staging[w][p] \in Versions(p) \ {Absent} /\ e \in staging[w][p]
  <2>1. staging[w][p] # Unknown /\ staging[w][p] # Absent /\ e \in staging[w][p]
    BY <1>5 DEF StagedIn, Text
  <2>2. w \in Authors(p)
    BY <2>1 DEF Authors, Staged
  <2> QED BY <2>1, <2>2 DEF Versions
<1> QED BY <1>3, <1>4, <1>5

\* What a path can end with, unless versions were dropped: every edit that stands, and none other.
LEMMA ResolutionIs ==
  ASSUME IInv, AllThrough, NEW p \in Paths, p \notin settled, NEW r \in Resolutions(p)
  PROVE  /\ r.content \in Contents /\ r.kept \in BOOLEAN
         /\ Text(r.content) \subseteq made
         /\ ~r.kept => Settles(p, r.content)
<1> DEFINE texts == Versions(p) \ {Absent}
           merged == Merged(Text(Get(p)), texts)
<1>1. /\ \A t \in texts : t \in Texts /\ t \subseteq made /\ Text(t) = t /\ t \in Contents
      /\ \A t \in texts : \A e \in t : \E w \in Ids : StagedIn(w, p, e)
      /\ Versions(p) \subseteq Contents
  BY TextsIs DEF Contents
<1>2. ASSUME NEW w \in Ids, NEW e \in On(p, By(w, made))
      PROVE  /\ e \in live => e \in exposed \/ \E t \in texts : t = staging[w][p] /\ e \in t
             /\ (\E t \in texts : e \in t) => e \in live \/ e \in leaked
  BY <1>1, TextsIs, ThroughIs
<1>3. CASE Cardinality(texts) <= 1
  <2>1. PICK v \in IF texts = {} THEN Versions(p) ELSE texts : r.content = v /\ r.kept \in BOOLEAN
    BY <1>3 DEF Resolutions
  <2>2. r.content = v /\ r.kept \in BOOLEAN /\ v \in Contents
    BY <2>1, <1>1
  <2>3. \A t \in texts : t = v
    BY <1>3, AtMostOne, VersionsAreFinite
  <2>4. v = Absent \/ v \in texts
    BY <2>1
  <2>5. Text(v) \subseteq made
    BY <2>4, <1>1, TextIs
  <2>6. ASSUME NEW w \in Ids, NEW e \in On(p, By(w, made))
        PROVE  /\ e \in live => e \in Text(v) \/ e \in exposed
               /\ e \notin live => e \notin Text(v) \/ e \in leaked
    BY <2>3, <2>4, <1>1, <1>2, TextIs
  <2> QED BY <2>2, <2>5, <2>6 DEF Settles
<1>4. CASE ~(Cardinality(texts) <= 1)
  <2>1. \/ r = [content |-> merged, kept |-> FALSE]
        \/ \E t \in texts : r.content = t /\ r.kept = TRUE
    BY <1>4 DEF Resolutions
  <2>2. CASE r = [content |-> merged, kept |-> FALSE]
    <3>1. /\ \A e \in merged : \E t \in texts : e \in t
          /\ \A t \in texts : \A e \in t : e \in merged \/ e \in Text(Get(p))
      BY DEF Merged
    <3>2. merged \subseteq made /\ merged \in Texts
      BY <3>1, <1>1 DEF Texts
    <3>3. Text(merged) = merged /\ merged \in Contents
      BY <3>2, TextIs DEF Contents
    <3>4. \A w \in Ids : \A e \in On(p, By(w, made)) : e \notin Text(Get(p))
      BY GetIs, WorkersAssumption DEF On, By
    <3> HIDE DEF merged
    <3>5. ASSUME NEW w \in Ids, NEW e \in On(p, By(w, made))
          PROVE  /\ e \in live => e \in Text(merged) \/ e \in exposed
                 /\ e \notin live => e \notin Text(merged) \/ e \in leaked
      BY <3>1, <3>3, <3>4, <1>2
    <3> QED BY <2>2, <3>2, <3>3, <3>5 DEF Settles
  <2>3. CASE \E t \in texts : r.content = t /\ r.kept = TRUE
    BY <2>3, <1>1
  <2> QED BY <2>1, <2>2, <2>3
<1> QED BY <1>3, <1>4

\* A path that is settled and reported ends without a word about its edits.
LEMMA ReportKeeps ==
  ASSUME IInv, AllThrough, NEW q \in Written, q \in Paths,
         settled' = settled \cup {q}, reported' = reported \cup {q},
         commit' = commit \/ commit' = NoCommit, commit' # NoCommit => commit.path # q,
         UNCHANGED <<disk, moved, work, since, history, extras>>
  PROVE  IInv'
<1>1. UNCHANGED <<snapshot, staging, onDisk, at, attempt, listing, made, live, exposed, leaked>>
  BY DEF work, history
<1>2. Types'
  BY <1>1 DEF IInv, Types
<1>3. PhaseOK'
  BY <1>1 DEF IInv, PhaseOK, Running, Staged, AllThrough, Written
<1>4. AllMade' /\ PersonKept' /\ LiveKept' /\ OthersLeak' /\ DeadUnstaged'
  BY <1>1 DEF IInv, AllMade, PersonKept, LiveKept, OthersLeak, DeadUnstaged, Staged, StagedIn, Text
<1>5. FirstRead'
  BY <1>1 DEF IInv, FirstRead, Running, Text
<1>6. DiskKnown' /\ DeadOnDisk'
  BY <1>1 DEF IInv, DiskKnown, DeadOnDisk, Staged, Text
<1>7. CommitOK'
  BY <1>1 DEF IInv, CommitOK, Settles, Text
<1>8. SettledOK'
  BY <1>1 DEF IInv, SettledOK, Settles, Text
<1> QED BY <1>2, <1>3, <1>4, <1>5, <1>6, <1>7, <1>8 DEF IInv

LEMMA UnresolvedKeeps ==
  ASSUME IInv, NEW q \in Paths, Unresolved(q)
  PROVE  IInv'
<1>1. AllThrough /\ q \in Written /\ commit = NoCommit /\ commit' = commit
  BY DEF Unresolved, NextPath
<1> QED BY <1>1, ReportKeeps DEF Unresolved

LEMMA WriteFailsKeeps ==
  ASSUME IInv, WriteFails
  PROVE  IInv'
<1>1. AllThrough /\ commit.path \in Written /\ commit' = NoCommit
  BY DEF WriteFails, IInv, PhaseOK
<1>2. commit.path \in Paths
  BY <1>1 DEF Written
<1>3. PICK q \in Written : q = commit.path
  BY <1>1
<1> QED BY <1>1, <1>2, <1>3, ReportKeeps DEF WriteFails

\* A path is only written over a text that the content carries.
LEMMA DecideKeeps ==
  ASSUME IInv, NEW q \in Paths, Decide(q)
  PROVE  IInv'
<1>1. AllThrough /\ q \in Written \ settled /\ commit = NoCommit
  BY DEF Decide, NextPath
<1>2. PICK r \in Resolutions(q), stamped \in BOOLEAN :
        IF ChangedOutside(q, r.content, stamped)
          THEN settled' = settled \cup {q} /\ reported' = reported \cup {q}
               /\ UNCHANGED <<commit, exposed>>
          ELSE /\ commit' = [path |-> q, content |-> r.content, kept |-> r.kept, seen |-> disk[q]]
               /\ exposed' = IF stamped THEN exposed ELSE exposed \cup Overwritten(q, r.content)
               /\ UNCHANGED <<settled, reported>>
  BY DEF Decide
<1>3. UNCHANGED <<disk, moved, work, since, made, live, leaked, extras>>
  BY DEF Decide
<1>4. CASE ChangedOutside(q, r.content, stamped)
  <2>1. UNCHANGED history
    BY <1>2, <1>3, <1>4 DEF history
  <2> QED BY <1>1, <1>2, <1>3, <1>4, <2>1, ReportKeeps
<1>5. CASE ~ChangedOutside(q, r.content, stamped)
  <2>1. /\ commit' = [path |-> q, content |-> r.content, kept |-> r.kept, seen |-> disk[q]]
        /\ exposed' = IF stamped THEN exposed ELSE exposed \cup Overwritten(q, r.content)
        /\ UNCHANGED <<settled, reported, snapshot, staging, onDisk, at, attempt, listing, made, live,
                       leaked, disk, moved, since, extras>>
    BY <1>2, <1>3, <1>5 DEF work
  <2>2. /\ r.content \in Contents /\ r.kept \in BOOLEAN /\ Text(r.content) \subseteq made
        /\ ~r.kept => Settles(q, r.content)
    BY <1>1, ResolutionIs
  <2>3. exposed \subseteq exposed' /\ exposed' \subseteq made
    BY <2>1 DEF Overwritten, By, IInv, Types, AllMade
  <2>4. Text(disk[q]) \subseteq Text(r.content) \cup exposed'
    <3>1. CASE disk[q] = r.content \/ disk[q] = Absent \/ q \notin moved
      BY <3>1, TextIs DEF IInv, FirstRead, Text
    <3>2. CASE ~stamped /\ q \in Initial /\ disk[q] = Get(q)
      <4>1. Text(disk[q]) \subseteq By(Person, made)
        BY <1>1, <3>2, GetIs
      <4>2. Text(disk[q]) \ Text(r.content) \subseteq Overwritten(q, r.content)
        BY <4>1 DEF Overwritten, By
      <4> QED BY <2>1, <3>2, <4>2
    <3> QED BY <1>5, <3>1, <3>2, TextIs DEF ChangedOutside
  <2>5. /\ commit'.path = q /\ commit'.content = r.content /\ commit'.kept = r.kept
        /\ commit'.seen = disk[q]
    BY <2>1
  <2>6. Types'
    BY <2>1, <2>2, <2>3 DEF IInv, Types
  <2>7. PhaseOK'
    BY <2>1, <2>5, <1>1 DEF IInv, PhaseOK, Running, Staged, AllThrough, Written
  <2>8. AllMade' /\ PersonKept' /\ OthersLeak' /\ DeadUnstaged'
    BY <2>1, <2>3 DEF IInv, AllMade, PersonKept, OthersLeak, DeadUnstaged, Staged, StagedIn, Text
  <2>9. LiveKept'
    BY <2>1, <2>3 DEF IInv, LiveKept, StagedIn, Text
  <2>10. FirstRead'
    BY <2>1 DEF IInv, FirstRead, Running, Text
  <2>11. DiskKnown' /\ DeadOnDisk'
    BY <2>1 DEF IInv, DiskKnown, DeadOnDisk, Staged, Text
  <2>12. SettledOK'
    BY <2>1, <2>3 DEF IInv, SettledOK, Settles, Text
  <2>13. CommitOK'
    <3>1. ~r.kept => Settles(q, r.content)'
      BY <2>1, <2>2, <2>3 DEF Settles, Text
    <3> QED BY <2>1, <2>2, <2>4, <2>5, <3>1 DEF CommitOK, Settles, Text
  <2> QED BY <2>6, <2>7, <2>8, <2>9, <2>10, <2>11, <2>12, <2>13 DEF IInv
<1> QED BY <1>4, <1>5

\* The write settles its path; a save since the check is a race.
LEMMA WriteKeeps ==
  ASSUME IInv, Write
  PROVE  IInv'
<1>1. /\ commit # NoCommit /\ AllThrough /\ Running = {}
      /\ commit.path \in Written \ settled /\ commit.path \in Paths
      /\ commit.content \in Contents /\ commit.kept \in BOOLEAN
  BY DEF Write, IInv, PhaseOK, Types, AllThrough, Running
<1>2. PICK q \in Paths : q = commit.path
  BY <1>1
<1>3. PICK c \in Contents : c = commit.content
  BY <1>1
<1>4. /\ disk' = [disk EXCEPT ![q] = c] /\ moved' = moved \cup {q} /\ since' = {}
      /\ commit' = NoCommit /\ settled' = settled \cup {q}
      /\ reported' = IF commit.kept THEN reported \cup {q} ELSE reported
      /\ exposed' = exposed \cup (Overwritten(q, c) \ Text(commit.seen))
      /\ UNCHANGED <<snapshot, staging, onDisk, at, attempt, listing, made, live, leaked, extras>>
  BY <1>1, <1>2, <1>3 DEF Write, Put, work
<1>5. /\ \A p \in Paths : disk'[p] = IF p = q THEN c ELSE disk[p]
      /\ disk' \in [Paths -> Contents]
  BY <1>4 DEF IInv, Types
<1>6. /\ Text(c) \subseteq made /\ Text(commit.seen) \subseteq Text(c) \cup exposed
      /\ ~commit.kept => Settles(q, c)
  BY <1>1, <1>2, <1>3 DEF IInv, CommitOK
<1>7. /\ exposed \subseteq exposed' /\ exposed' \subseteq made
      /\ \A e \in By(Person, made) : e \in Text(disk[q]) => e \in Text(c) \/ e \in exposed'
  BY <1>4, <1>6 DEF Overwritten, By, IInv, Types, AllMade
<1>8. Types'
  BY <1>4, <1>5, <1>7 DEF IInv, Types
<1>9. PhaseOK'
  BY <1>1, <1>2, <1>4 DEF IInv, PhaseOK, Running, Staged, AllThrough, Written
<1>10. AllMade'
  BY <1>4, <1>5, <1>6 DEF IInv, AllMade, Staged, Text
<1>11. FirstRead'
  <2>1. \A p \in Paths \ moved' : disk'[p] = IF p \in Initial THEN {} ELSE Absent
    BY <1>4, <1>5 DEF IInv, FirstRead
  <2> QED BY <2>1, <1>4, <1>5 DEF IInv, FirstRead, Running, Text
<1>12. PersonKept'
  BY <1>4, <1>5, <1>7 DEF IInv, PersonKept, By, On, Text
<1>13. LiveKept'
  <2>1. \A w \in Ids : at[w] # "running"
    BY <1>1 DEF AllThrough
  <2> QED BY <2>1, <1>4, <1>7 DEF IInv, LiveKept, StagedIn, Text
<1>14. OthersLeak'
  BY <1>4 DEF IInv, OthersLeak, StagedIn, Text
<1>15. DeadUnstaged'
  <2>1. \A w \in Ids : at[w] # "running"
    BY <1>1 DEF AllThrough
  <2> QED BY <2>1, <1>4 DEF IInv, DeadUnstaged, StagedIn, Text
<1>16. DiskKnown'
  <2>1. \A w \in Ids : at[w] # "running"
    BY <1>1 DEF AllThrough
  <2> QED BY <2>1, <1>4, <1>5 DEF IInv, DiskKnown, Staged, Text
<1>17. DeadOnDisk'
  BY <1>4, <1>5 DEF IInv, DeadOnDisk, Staged, Text
<1>18. CommitOK'
  BY <1>4 DEF CommitOK
<1>19. SettledOK'
  <2> SUFFICES ASSUME NEW p \in settled' \ reported', NEW w \in Ids, NEW e \in On(p, By(w, made))
               PROVE  /\ e \in live => e \in Text(disk'[p]) \/ e \in exposed'
                      /\ e \notin live => e \notin Text(disk'[p]) \/ e \in leaked
    BY <1>4 DEF SettledOK, Settles, Text
  <2>1. CASE p = q
    <3>1. ~commit.kept
      BY <2>1, <1>4
    <3> QED BY <2>1, <3>1, <1>5, <1>6, <1>7 DEF Settles
  <2>2. CASE p # q
    <3>1. p \in settled \ reported /\ p \in Paths
      BY <2>2, <1>4 DEF IInv, Types
    <3> QED BY <2>2, <3>1, <1>5, <1>7 DEF IInv, SettledOK, Settles
  <2> QED BY <2>1, <2>2
<1> QED BY <1>8, <1>9, <1>10, <1>11, <1>12, <1>13, <1>14, <1>15, <1>16, <1>17, <1>18, <1>19 DEF IInv

-----------------------------------------------------------------------------
LEMMA InitKeeps == Init => IInv
<1> SUFFICES ASSUME Init PROVE IInv
  OBVIOUS
<1>1. /\ \A p \in Paths : disk[p] = IF p \in Initial THEN {} ELSE Absent
      /\ \A p \in Paths : snapshot[p] = IF p \in Initial THEN Unknown ELSE Absent
      /\ \A w \in Ids, p \in Paths : staging[w][p] = Unknown
      /\ \A w \in Ids : onDisk[w] = {} /\ at[w] = "working"
      /\ settled = {} /\ reported = {} /\ commit = NoCommit
      /\ made = {} /\ live = {} /\ exposed = {} /\ leaked = {}
  BY DEF Init
<1>2. \A p \in Paths : Text(disk[p]) = {} /\ (snapshot[p] # Unknown => Text(snapshot[p]) = {})
  BY <1>1, TextIs
<1>3. Types
  BY WorkersAssumption, TextIs DEF Init, Types, Entries, Contents
<1>4. PhaseOK
  BY <1>1 DEF PhaseOK, Running, Staged
<1>5. AllMade /\ FirstRead
  BY <1>1, <1>2 DEF AllMade, FirstRead, Staged, Running, By
<1>6. PersonKept /\ LiveKept /\ OthersLeak /\ DeadUnstaged /\ DiskKnown /\ DeadOnDisk
  BY <1>1 DEF PersonKept, LiveKept, OthersLeak, DeadUnstaged, DiskKnown, DeadOnDisk, On, By
<1>7. CommitOK /\ SettledOK
  BY <1>1 DEF CommitOK, SettledOK
<1> QED BY <1>3, <1>4, <1>5, <1>6, <1>7 DEF IInv

LEMMA StutterKeeps ==
  ASSUME IInv, UNCHANGED vars
  PROVE  IInv'
<1>1. UNCHANGED <<disk, moved, snapshot, staging, onDisk, at, attempt, listing, since, commit,
                  settled, reported, made, live, exposed, leaked, extras>>
  BY DEF vars, work, ending, history
<1>2. Types' /\ PhaseOK'
  BY <1>1 DEF IInv, Types, PhaseOK, Running, Staged, AllThrough, Written
<1>3. AllMade' /\ FirstRead' /\ PersonKept' /\ LiveKept' /\ OthersLeak' /\ DeadUnstaged'
  BY <1>1 DEF IInv, AllMade, FirstRead, PersonKept, LiveKept, OthersLeak, DeadUnstaged,
              Staged, StagedIn, Running, Text
<1>4. DiskKnown' /\ DeadOnDisk' /\ CommitOK' /\ SettledOK'
  BY <1>1 DEF IInv, DiskKnown, DeadOnDisk, CommitOK, SettledOK, Settles, Staged, Text
<1> QED BY <1>2, <1>3, <1>4 DEF IInv

LEMMA NextKeeps ==
  ASSUME IInv, [Next]_vars
  PROVE  IInv'
<1>1. ASSUME NEW w \in Ids,
             Apply(w) \/ Collect(w) \/ RunFails(w) \/ Finish(w) \/ Fail(w) \/ EndAttempt(w)
      PROVE  IInv'
  BY <1>1, ApplyKeeps, CollectKeeps, RunFailsKeeps, FinishKeeps, FailKeeps, EndAttemptKeeps
<1>2. ASSUME NEW w \in Ids, NEW p \in Paths,
             \/ Edit(w, p) \/ Remove(w, p) \/ UndoWrite(w, p) \/ CodeWrites(w, p)
             \/ CodeRemoves(w, p) \/ PutBack(w, p)
      PROVE  IInv'
  BY <1>2, EditKeeps, RemoveKeeps, UndoWriteKeeps, CodeWritesKeeps, CodeRemovesKeeps, PutBackKeeps
<1>3. ASSUME NEW p \in Paths, Decide(p) \/ Unresolved(p) \/ Save(p)
      PROVE  IInv'
  BY <1>3, DecideKeeps, UnresolvedKeeps, SaveKeeps
<1>4. CASE Write \/ WriteFails
  BY <1>4, WriteKeeps, WriteFailsKeeps
<1>5. CASE UNCHANGED vars
  BY <1>5, StutterKeeps
<1> QED BY <1>1, <1>2, <1>3, <1>4, <1>5 DEF Next

\* Every edit has its place, at every moment of the call: the inductive invariant.
THEOREM EditsHavePlaces == Spec => []IInv
<1>1. IInv /\ [Next]_vars => IInv'
  BY NextKeeps
<1> QED BY <1>1, InitKeeps, PTL DEF Spec

\* The types of the call's state; one worker executes code at a time, and one that failed has
\* nothing staged and nothing in the workspace (workers.ts).
THEOREM TypeCorrect == Spec => []TypeOK
<1>1. ASSUME IInv PROVE TypeOK
  <2>1. Cardinality(Running) <= 1
    <3>1. CASE Running = {}
      BY <3>1, FS_EmptySet
    <3>2. CASE Running # {}
      <4>1. PICK w \in Running : TRUE
        BY <3>2
      <4>2. Running = {w}
        BY <1>1, <4>1 DEF IInv, PhaseOK
      <4>3. Cardinality({w}) = 1
        BY FS_Singleton
      <4> QED BY <4>2, <4>3
    <3> QED BY <3>1, <3>2
  <2> QED BY <1>1, <2>1 DEF IInv, Types, PhaseOK, TypeOK
<1>2. IInv => TypeOK
  BY <1>1
<1> QED BY <1>2, EditsHavePlaces, PTL

\* When the call has ended, no edit got lost or stayed behind without a word (workers.ts).
THEOREM EditsAlwaysAccounted == Spec => []EditsAccounted
<1>1. ASSUME IInv, Ended, NEW p \in Paths, NEW e \in On(p, made)
      PROVE  /\ e \in live => \/ e \in Text(disk[p]) \/ e \in exposed
                              \/ (p \in reported /\ e.by # Person)
             /\ e \notin live => \/ e \notin Text(disk[p]) \/ e \in leaked
                                 \/ p \in reported
  <2>1. e \in made /\ e.path = p /\ AllThrough /\ settled = Written /\ e.by \in Ids \cup {Person}
    BY <1>1 DEF On, Ended, IInv, Types, Edits
  <2>2. CASE e.by = Person
    BY <2>1, <2>2, <1>1 DEF IInv, PersonKept, On, By
  <2>3. CASE e.by \in Ids
    <3>1. PICK w \in Ids : e.by = w /\ e \in On(p, By(w, made))
      BY <2>1, <2>3 DEF On, By
    <3>2. w # Person
      BY WorkersAssumption
    <3>3. CASE p \in settled
      BY <3>1, <3>2, <3>3, <1>1 DEF IInv, SettledOK, Settles
    <3>4. CASE p \notin settled
      <4>1. p \notin Staged(w)
        BY <3>4, <2>1 DEF Written
      <4>2. ~StagedIn(w, p, e)
        BY <4>1 DEF StagedIn, Staged
      <4>3. e \in live => e \in exposed
        BY <4>2, <3>1, <2>1, <1>1, ThroughIs
      <4>4. e \notin live => e \notin Text(disk[p]) \/ e \in leaked
        BY <4>1, <3>1, <3>4, <2>1, <1>1 DEF IInv, DeadOnDisk, AllThrough
      <4> QED BY <4>3, <4>4
    <3> QED BY <3>3, <3>4
  <2> QED BY <2>1, <2>2, <2>3
<1>2. IInv => EditsAccounted
  BY <1>1 DEF EditsAccounted
<1> QED BY <1>2, EditsHavePlaces, PTL
-----------------------------------------------------------------------------
\* The task runner.

\* The fields of a run.
Lists == Seq(Steers)
Sets == SUBSET Steers
Tasked == SUBSET Tasks
Maybe == Tasks \cup {Nothing}
Says == Steers \cup {Nothing}
Results == {"none", "done", "failed", "blocked"}
Counts == [Tasks -> 0..MAX_ANSWER_EPISODES]
Runs ==
  [ at : Places, all : BOOLEAN, only : Maybe, abort : BOOLEAN, paused : BOOLEAN,
    pending : Lists, since : Sets, task : Maybe, turn : 0..MAX_TURNS_PER_EPISODE,
    continues : 0..MAX_STEP_LIMIT_CONTINUES, limited : BOOLEAN, result : Results, saying : Says,
    fails : 0..MaxConsecutiveFails, deferred : Tasked, answers : Counts ]

LEMMA Bounds ==
  /\ NumTasks \in Nat \ {0} /\ MAX_TURNS_PER_EPISODE \in Nat \ {0} /\ MaxConsecutiveFails \in Nat \ {0}
  /\ MAX_STEP_LIMIT_CONTINUES \in Nat /\ MAX_ANSWER_EPISODES \in Nat
  /\ Nothing \notin Steers /\ Nothing \notin Nat
BY RunnerAssumption

LEMMA RunIs ==
  ASSUME NEW s \in Runs
  PROVE  /\ s.at \in Places /\ s.all \in BOOLEAN /\ s.only \in Maybe /\ s.abort \in BOOLEAN
         /\ s.paused \in BOOLEAN /\ s.pending \in Lists /\ s.since \in Sets /\ s.task \in Maybe
         /\ s.turn \in 0..MAX_TURNS_PER_EPISODE /\ s.continues \in 0..MAX_STEP_LIMIT_CONTINUES
         /\ s.limited \in BOOLEAN /\ s.result \in Results /\ s.saying \in Says
         /\ s.fails \in 0..MaxConsecutiveFails /\ s.deferred \in Tasked /\ s.answers \in Counts
BY DEF Runs

LEMMA OffIsNoRun == Off \notin Runs /\ Off.at \notin Places
<1>1. Off.at = "off" /\ "off" \notin Places
  BY DEF Off, Places, Episode, Asking
<1> QED BY <1>1 DEF Runs

\* What holds of a run by the place it waits at: a continuation is due only on the way to its
\* prompt, which takes a turn back, so the count of turns must not be 0 there.
Local(s) ==
  /\ s.at \in Asking => s.paused /\ ~s.abort
  /\ s.at \notin {"resting", "quiet", "loading", "review", "stuck"} => s.task \in Tasks
  /\ s.at \in {"held", "reading", "steerTurn", "turn", "backoff", "checking"} => s.turn >= 1
  /\ s.limited => s.at \in {"checking", "held", "reading", "steerTurn"}
  /\ s.limited /\ s.at # "checking" => s.turn >= 2
  /\ s.limited /\ s.at = "checking" => s.continues < MAX_STEP_LIMIT_CONTINUES
  /\ s.at # "review" => s.fails < MaxConsecutiveFails
Good(s) == s \in Runs /\ Local(s)

\* What the loop may do with the messages that wait when it goes on as x: take the first as a
\* turn, or hold all of them.  Unless it was stopped it leaves the turn of a message for another
\* place, and forgets which messages came since the last look, only when none waits.  The answer
\* to a pause goes on to its turn, and a prompt is not reached behind a Stop.
Takes(s, x) ==
  /\ ~s.abort /\ s.pending # <<>> /\ x.at = "steerTurn"
  /\ x.saying = Head(s.pending) /\ x.pending = Tail(s.pending)
Holds(s, x) ==
  /\ x.pending = s.pending
  /\ s.at = "steerTurn" => s.abort \/ s.pending = <<>>
  /\ s.at \in Episode /\ x.at \in Episode => s.abort \/ s.pending = <<>> \/ x.since = s.since
  /\ x.at # "steerTurn"
OnwardTo(s, x) ==
  /\ Good(x) /\ x.abort = s.abort
  /\ Takes(s, x) \/ Holds(s, x)
  /\ s.at = "answering" => s.saying = Nothing \/ (x.at = "replyTurn" /\ x.saying = s.saying)
  /\ x.at = "turn" => ~s.abort
Onward(s, x) ==
  \/ x = Off /\ s.at \notin {"steerTurn", "answering"}
  \/ x # Off /\ OnwardTo(s, x)

\* A run with other counts or another result in the same place: what is Onward from it is
\* Onward from the run.
Like(r, s) ==
  /\ s.at = r.at /\ s.abort = r.abort /\ s.pending = r.pending
  /\ s.since = r.since \/ r.abort
  /\ r.at # "answering"

LEMMA LikeOnward ==
  ASSUME NEW r, NEW s, NEW x, Like(r, s), Onward(s, x)
  PROVE  Onward(r, x)
BY DEF Like, Onward, OnwardTo, Takes, Holds

LEMMA Unlike ==
  /\ "steerTurn" \notin Asking /\ "answering" \notin Asking /\ "review" \notin Episode
  /\ Asking \subseteq Places /\ Episode \subseteq Places
BY DEF Asking, Episode, Places

\* A task that is being worked on, behind its turns.
Body(s) ==
  /\ s \in Runs /\ s.task \in Tasks /\ ~s.limited /\ s.fails < MaxConsecutiveFails
  /\ s.at # "answering"

LEMMA TopIs ==
  ASSUME NEW s \in Runs, ~s.limited, s.fails < MaxConsecutiveFails, s.at \notin {"steerTurn", "answering"}
  PROVE  Onward(s, Top(s))
<1>1. CASE s.abort
  BY <1>1 DEF Top, Onward
<1>2. CASE ~s.abort
  <2>1. PICK a \in {"resting", "quiet"} :
          Top(s) = [s EXCEPT !.at = a, !.task = Nothing, !.result = "none", !.since = {}]
    BY <1>2 DEF Top
  <2>2. PICK x : x = [s EXCEPT !.at = a, !.task = Nothing, !.result = "none", !.since = {}]
    OBVIOUS
  <2>3. a \in Places /\ a \notin Episode /\ a \notin Asking
    BY DEF Places, Episode, Asking
  <2>4. Nothing \in Maybe /\ "none" \in Results /\ {} \in Sets
    BY DEF Maybe, Results, Sets
  <2>5. x \in Runs
    BY <2>2, <2>3, <2>4 DEF Runs
  <2>6. /\ x.at = a /\ x.abort = s.abort /\ x.pending = s.pending /\ x.limited = s.limited
        /\ x.fails = s.fails
    BY <2>2 DEF Runs
  <2>7. OnwardTo(s, x)
    BY <2>3, <2>5, <2>6 DEF OnwardTo, Good, Local, Holds
  <2>8. Onward(s, x)
    BY <2>5, <2>7, OffIsNoRun DEF Onward
  <2> QED BY <2>1, <2>2, <2>8
<1> QED BY <1>1, <1>2

\* The loop goes on to another wait.
LEMMA MovesTo ==
  ASSUME NEW s \in Runs, NEW a \in Places
  PROVE  LET x == [s EXCEPT !.at = a] IN
         /\ x \in Runs /\ x.at = a /\ x.abort = s.abort /\ x.paused = s.paused
         /\ x.pending = s.pending /\ x.since = s.since /\ x.task = s.task /\ x.turn = s.turn
         /\ x.continues = s.continues /\ x.limited = s.limited /\ x.saying = s.saying
         /\ x.fails = s.fails
BY DEF Runs

LEMMA AskIs ==
  ASSUME NEW s \in Runs, NEW a \in Asking, ~s.abort, ~s.limited, s.at \notin {"steerTurn", "answering"},
         a = "asked" => s.task \in Tasks,
         a # "review" => s.fails < MaxConsecutiveFails
  PROVE  Onward(s, Ask(s, a))
<1> DEFINE x == Ask(s, a)
<1>1. /\ x \in Runs /\ x.at = a /\ x.paused /\ x.abort = s.abort /\ x.pending = s.pending
      /\ x.task = s.task /\ x.limited = s.limited /\ x.fails = s.fails
  BY Unlike DEF Ask, Runs
<1> HIDE DEF x
<1>2. a \notin {"answering", "steerTurn", "turn", "held", "reading", "backoff", "checking"} /\ a \notin Episode
  BY DEF Asking, Episode
<1>3. Good(x)
  BY <1>1, <1>2 DEF Good, Local, Asking
<1>4. OnwardTo(s, x)
  BY <1>1, <1>2, <1>3 DEF OnwardTo, Holds
<1> QED BY <1>1, <1>4, OffIsNoRun DEF Onward, x

LEMMA OneMoreIs ==
  ASSUME NEW s \in Runs, ~s.abort, ~s.limited, s.fails < MaxConsecutiveFails,
         s.at \notin {"steerTurn", "answering"}, s.task \in Tasks
  PROVE  Onward(s, OneMore(s))
<1> DEFINE f == [s EXCEPT !.fails = @ + 1]
<1>0. s.fails \in Nat /\ s.fails + 1 \in 0..MaxConsecutiveFails
  BY RunIs, Bounds
<1>1. /\ f \in Runs /\ f.at = s.at /\ f.abort = s.abort /\ f.pending = s.pending
      /\ f.since = s.since /\ f.limited = s.limited /\ f.fails = s.fails + 1 /\ f.task = s.task
  BY <1>0 DEF Runs
<1>2. OneMore(s) = IF f.fails = MaxConsecutiveFails THEN Ask(f, "review") ELSE Top(f)
  BY DEF OneMore
<1> HIDE DEF f
<1>3. Like(s, f)
  BY <1>1 DEF Like
<1>4. CASE f.fails = MaxConsecutiveFails
  <2>1. Onward(f, Ask(f, "review"))
    BY <1>1, AskIs DEF Asking
  <2> QED BY <1>2, <1>3, <1>4, <2>1, LikeOnward
<1>5. CASE f.fails # MaxConsecutiveFails
  <2>1. f.fails < MaxConsecutiveFails
    BY <1>0, <1>1, <1>5, Bounds
  <2>2. Onward(f, Top(f))
    BY <1>1, <2>1, TopIs
  <2> QED BY <1>2, <1>3, <1>5, <2>2, LikeOnward
<1> QED BY <1>4, <1>5

LEMMA OverIs ==
  ASSUME NEW s, Body(s), s.at # "steerTurn"
  PROVE  Onward(s, Over(s))
<1> USE DEF Body
<1>1. CASE s.abort \/ (s.result # "blocked" /\ ~s.all)
  BY <1>1 DEF Over, Onward
<1>2. CASE ~s.abort /\ s.result = "blocked"
  <2>1. Onward(s, Ask(s, "asked"))
    BY <1>2, AskIs DEF Asking
  <2> QED BY <1>2, <2>1 DEF Over
<1>3. CASE ~s.abort /\ s.result # "blocked" /\ s.all /\ s.result = "done"
  <2> DEFINE f == [s EXCEPT !.fails = 0]
  <2>1. /\ f \in Runs /\ f.at = s.at /\ f.abort = s.abort /\ f.pending = s.pending
        /\ f.since = s.since /\ f.limited = s.limited /\ f.fails = 0
    BY Bounds DEF Runs
  <2> HIDE DEF f
  <2>2. Onward(f, Top(f)) /\ Like(s, f)
    BY <2>1, TopIs, Bounds DEF Like
  <2>3. Over(s) = Top(f)
    BY <1>3 DEF Over, f
  <2> QED BY <2>2, <2>3, LikeOnward
<1>4. CASE ~s.abort /\ s.result # "blocked" /\ s.all /\ s.result # "done"
  BY <1>4, OneMoreIs DEF Over
<1> QED BY <1>1, <1>2, <1>3, <1>4

\* The task failed, and is put off or not.
LEMMA FailedIs ==
  ASSUME NEW s, Body(s), s.at # "steerTurn", NEW D \in Tasked
  PROVE  Onward(s, Failed([s EXCEPT !.deferred = D]))
<1> DEFINE f == [[s EXCEPT !.deferred = D] EXCEPT !.result = "failed"]
<1>1. /\ f \in Runs /\ f.at = s.at /\ f.abort = s.abort /\ f.pending = s.pending
      /\ f.since = s.since /\ f.limited = s.limited /\ f.fails = s.fails /\ f.task = s.task
  <2>1. "failed" \in Results
    BY DEF Results
  <2> QED BY <2>1 DEF Runs, Body
<1>2. Failed([s EXCEPT !.deferred = D]) = Over(f)
  BY DEF Failed
<1> HIDE DEF f
<1>3. Body(f) /\ f.at # "steerTurn" /\ Like(s, f)
  BY <1>1 DEF Body, Like
<1> QED BY <1>2, <1>3, OverIs, LikeOnward

LEMMA FailedAtOnce ==
  ASSUME NEW s, Body(s), s.at # "steerTurn"
  PROVE  Onward(s, Failed(s))
<1>1. s.deferred \in Tasked /\ [s EXCEPT !.deferred = s.deferred] = s
  BY DEF Body, Runs
<1> QED BY <1>1, FailedIs

Later == {"opening", "replanning", "replanTurn", "replanQuiet", "gating", "closing", "settling"}
Clear(s) == s.at = "steerTurn" => s.abort \/ s.pending = <<>>

LEMMA LaterIs ==
  ASSUME NEW s, Body(s), Clear(s), NEW a \in Later
  PROVE  Onward(s, [s EXCEPT !.at = a])
<1> DEFINE x == [s EXCEPT !.at = a]
<1>0. a \in Places /\ a \in Episode /\ a \notin {"steerTurn", "turn", "held", "reading", "backoff", "checking"}
      /\ a \notin Asking
  BY DEF Later, Places, Episode, Asking
<1>1. /\ x \in Runs /\ x.at = a /\ x.abort = s.abort /\ x.pending = s.pending
      /\ x.since = s.since /\ x.limited = s.limited /\ x.fails = s.fails /\ x.task = s.task
  BY <1>0, MovesTo DEF Body
<1> HIDE DEF x
<1>2. Good(x)
  BY <1>0, <1>1 DEF Good, Local, Body, Later
<1>3. OnwardTo(s, x)
  BY <1>0, <1>1, <1>2 DEF OnwardTo, Holds, Clear, Body
<1> QED BY <1>1, <1>3, OffIsNoRun DEF Onward, x

LEMMA CloseIs ==
  ASSUME NEW s, Body(s), Clear(s)
  PROVE  Onward(s, Settle(s)) /\ Onward(s, Close(s))
<1>1. Onward(s, [s EXCEPT !.at = "settling"]) /\ Onward(s, [s EXCEPT !.at = "closing"])
  BY LaterIs DEF Later
<1> QED BY <1>1 DEF Settle, Close

LEMMA GateOrCloseIs ==
  ASSUME NEW s, Body(s), Clear(s), NEW x \in GateOrClose(s)
  PROVE  Onward(s, x)
<1>1. Onward(s, [s EXCEPT !.at = "gating"]) /\ Onward(s, Close(s))
  BY LaterIs, CloseIs DEF Later
<1> QED BY <1>1 DEF GateOrClose

LEMMA AfterTurnsIs ==
  ASSUME NEW s \in Runs, s.task \in Tasks, s.fails < MaxConsecutiveFails, s.at # "answering",
         Clear(s), NEW x \in AfterTurns(s)
  PROVE  Onward(s, x)
<1> DEFINE over == [s EXCEPT !.turn = 0, !.continues = 0, !.limited = FALSE]
<1>1. /\ over \in Runs /\ over.at = s.at /\ over.abort = s.abort /\ over.pending = s.pending
      /\ over.since = s.since /\ ~over.limited /\ over.fails = s.fails /\ over.task = s.task
  <2>1. 0 \in 0..MAX_TURNS_PER_EPISODE /\ 0 \in 0..MAX_STEP_LIMIT_CONTINUES
    BY Bounds
  <2> QED BY <2>1 DEF Runs
<1>2. x \in {[over EXCEPT !.at = "replanning"]} \cup GateOrClose(over)
  BY DEF AfterTurns
<1> HIDE DEF over
<1>3. Body(over) /\ Clear(over) /\ Like(s, over)
  BY <1>1 DEF Body, Clear, Like
<1>4. Onward(over, [over EXCEPT !.at = "replanning"])
  BY <1>3, LaterIs DEF Later
<1>5. Onward(over, x)
  BY <1>2, <1>3, <1>4, GateOrCloseIs
<1> QED BY <1>3, <1>5, LikeOnward

\* AfterTurns with a result.
LEMMA EndedIs ==
  ASSUME NEW s \in Runs, s.task \in Tasks, s.fails < MaxConsecutiveFails, s.at # "answering",
         Clear(s), NEW r \in Results, NEW x \in AfterTurns([s EXCEPT !.result = r])
  PROVE  Onward(s, x)
<1> DEFINE f == [s EXCEPT !.result = r]
<1>1. /\ f \in Runs /\ f.at = s.at /\ f.abort = s.abort /\ f.pending = s.pending
      /\ f.since = s.since /\ f.fails = s.fails /\ f.task = s.task
  BY DEF Runs
<1> HIDE DEF f
<1>2. Like(s, f) /\ Clear(f)
  BY <1>1 DEF Like, Clear
<1>3. x \in AfterTurns(f)
  BY DEF f
<1> QED BY <1>1, <1>2, <1>3, AfterTurnsIs, LikeOnward

\* A task that is in its turns.
Turning(s) ==
  /\ s \in Runs /\ s.task \in Tasks /\ s.fails < MaxConsecutiveFails /\ s.at # "answering"
  /\ s.turn >= 1 /\ (s.limited => s.turn >= 2)

LEMMA PromptIs ==
  ASSUME NEW s, Turning(s), ~s.abort, s.pending = <<>>
  PROVE  Onward(s, Prompt(s))
<1> DEFINE t == IF s.limited THEN s.turn - 1 ELSE s.turn
           x == [s EXCEPT !.at = "turn", !.turn = t, !.limited = FALSE, !.saying = Nothing]
<1>0. t \in 0..MAX_TURNS_PER_EPISODE /\ t >= 1
  BY RunIs, Bounds DEF Turning
<1>1. "turn" \in Places /\ "turn" \notin Asking /\ Nothing \in Says
  BY DEF Places, Episode, Asking, Says
<1> HIDE DEF t
<1>2. /\ x \in Runs /\ x.at = "turn" /\ x.abort = s.abort /\ x.pending = s.pending
      /\ ~x.limited /\ x.fails = s.fails /\ x.task = s.task /\ x.turn = t
  BY <1>0, <1>1 DEF Runs, Turning
<1>3. Prompt(s) = x
  BY DEF Prompt, Turning, Runs, t
<1> HIDE DEF x
<1>4. Good(x)
  BY <1>0, <1>1, <1>2 DEF Good, Local, Turning
<1>5. OnwardTo(s, x)
  BY <1>2, <1>4 DEF OnwardTo, Holds, Turning
<1> QED BY <1>2, <1>3, <1>5, OffIsNoRun DEF Onward

LEMMA LookIs ==
  ASSUME NEW s, Turning(s), NEW x \in Look(s)
  PROVE  Onward(s, x)
<1> DEFINE seen == [s EXCEPT !.since = {}]
<1>1. /\ seen \in Runs /\ seen.at = s.at /\ seen.abort = s.abort /\ seen.pending = s.pending
      /\ seen.turn = s.turn /\ seen.limited = s.limited /\ seen.fails = s.fails
      /\ seen.task = s.task /\ seen.since = {}
  <2>1. {} \in Sets
    BY DEF Sets
  <2> QED BY <2>1 DEF Runs, Turning
<1>2. Look(s) = IF s.abort THEN AfterTurns(seen)
                ELSE IF s.pending # <<>>
                THEN {[seen EXCEPT !.at = "steerTurn", !.saying = Head(s.pending), !.pending = Tail(seen.pending)]}
                ELSE {Prompt(seen)}
  BY DEF Look
<1> HIDE DEF seen
<1>3. Turning(seen)
  BY <1>1 DEF Turning
<1>4. CASE s.abort
  <2>1. Like(s, seen) /\ Clear(seen)
    BY <1>1, <1>4 DEF Like, Clear, Turning
  <2>2. Onward(seen, x)
    BY <1>1, <1>2, <1>4, <2>1, <1>3, AfterTurnsIs DEF Turning
  <2> QED BY <2>1, <2>2, LikeOnward
<1>5. CASE ~s.abort /\ s.pending # <<>>
  <2> DEFINE h == Head(s.pending)
             r == Tail(s.pending)
  <2>1. h \in Says /\ r \in Lists
    <3>1. s.pending \in Seq(Steers)
      BY RunIs DEF Turning, Lists
    <3> QED BY <3>1, <1>5 DEF Lists, Says
  <2>2. x = [seen EXCEPT !.at = "steerTurn", !.saying = h, !.pending = r]
    BY <1>1, <1>2, <1>5
  <2> HIDE DEF h, r
  <2>3. "steerTurn" \in Places /\ "steerTurn" \notin Asking
    BY DEF Places, Episode, Asking
  <2>4. /\ x \in Runs /\ x.at = "steerTurn" /\ x.abort = s.abort /\ x.pending = r /\ x.saying = h
        /\ x.limited = s.limited /\ x.fails = s.fails /\ x.task = s.task /\ x.turn = s.turn
    BY <1>1, <2>1, <2>2, <2>3 DEF Runs
  <2>5. Good(x)
    BY <2>3, <2>4 DEF Good, Local, Turning
  <2>6. OnwardTo(s, x)
    BY <1>5, <2>4, <2>5 DEF OnwardTo, Takes, Turning, h, r
  <2> QED BY <2>4, <2>6, OffIsNoRun DEF Onward
<1>6. CASE ~s.abort /\ s.pending = <<>>
  <2>1. x = Prompt(seen)
    BY <1>2, <1>6
  <2>2. Onward(seen, x)
    BY <1>1, <1>3, <1>6, <2>1, PromptIs
  <2>3. (x # Off /\ OnwardTo(seen, x)) \/ (x = Off /\ s.at \notin {"steerTurn", "answering"})
    BY <1>1, <2>2 DEF Onward
  <2>4. OnwardTo(seen, x) => OnwardTo(s, x)
    BY <1>1, <1>6 DEF OnwardTo, Takes, Holds, Turning
  <2> QED BY <2>3, <2>4 DEF Onward, Turning
<1> QED BY <1>4, <1>5, <1>6

LEMMA ReadIs ==
  ASSUME NEW s, Turning(s), s.at # "steerTurn", NEW x \in Read(s)
  PROVE  Onward(s, x)
<1>1. CASE s.turn = 1
  BY <1>1, LookIs DEF Read
<1>2. CASE s.turn # 1
  <2>1. "reading" \in Places /\ "reading" \notin Asking
    BY DEF Places, Episode, Asking
  <2>2. x = [s EXCEPT !.at = "reading"]
    BY <1>2 DEF Read
  <2>3. /\ x \in Runs /\ x.at = "reading" /\ x.abort = s.abort /\ x.pending = s.pending
        /\ x.since = s.since /\ x.limited = s.limited /\ x.fails = s.fails /\ x.task = s.task
        /\ x.turn = s.turn
    BY <2>1, <2>2, MovesTo DEF Turning
  <2>4. Good(x)
    BY <2>1, <2>3 DEF Good, Local, Turning
  <2>5. OnwardTo(s, x)
    BY <2>3, <2>4 DEF OnwardTo, Holds, Turning
  <2> QED BY <2>3, <2>5, OffIsNoRun DEF Onward
<1> QED BY <1>1, <1>2

LEMMA TurnHeadIs ==
  ASSUME NEW s \in Runs, s.task \in Tasks, s.fails < MaxConsecutiveFails,
         s.at \notin {"answering", "steerTurn"}, s.limited => s.turn >= 1,
         NEW x \in TurnHead(s)
  PROVE  Onward(s, x)
<1>0. s.turn \in Nat /\ s.turn <= MAX_TURNS_PER_EPISODE
  BY RunIs, Bounds
<1>1. CASE s.abort \/ s.turn >= MAX_TURNS_PER_EPISODE
  BY <1>1, AfterTurnsIs DEF TurnHead, Clear
<1>2. CASE ~(s.abort \/ s.turn >= MAX_TURNS_PER_EPISODE)
  <2> DEFINE n == [s EXCEPT !.turn = @ + 1]
  <2>1. s.turn + 1 \in 0..MAX_TURNS_PER_EPISODE /\ s.turn + 1 >= 1
    BY <1>0, <1>2, Bounds
  <2>2. /\ n \in Runs /\ n.at = s.at /\ n.abort = s.abort /\ n.pending = s.pending
        /\ n.since = s.since /\ n.limited = s.limited /\ n.fails = s.fails /\ n.task = s.task
        /\ n.turn = s.turn + 1
    BY <2>1 DEF Runs
  <2>3. x \in (IF n.paused THEN {[n EXCEPT !.at = "held"]} ELSE Read(n))
    BY <1>2 DEF TurnHead
  <2> HIDE DEF n
  <2>4. Turning(n) /\ Like(s, n)
    BY <1>0, <2>1, <2>2 DEF Turning, Like
  <2>5. CASE n.paused
    <3>1. "held" \in Places /\ "held" \notin Asking
      BY DEF Places, Episode, Asking
    <3>2. x = [n EXCEPT !.at = "held"]
      BY <2>3, <2>5
    <3>3. /\ x \in Runs /\ x.at = "held" /\ x.abort = n.abort /\ x.pending = n.pending
          /\ x.since = n.since /\ x.limited = n.limited /\ x.fails = n.fails /\ x.task = n.task
          /\ x.turn = n.turn
      BY <2>2, <3>1, <3>2, MovesTo
    <3>4. Good(x)
      BY <2>4, <3>1, <3>3 DEF Good, Local, Turning
    <3>5. OnwardTo(n, x)
      BY <2>2, <3>3, <3>4 DEF OnwardTo, Holds
    <3>6. Onward(n, x)
      BY <3>3, <3>5, OffIsNoRun DEF Onward
    <3> QED BY <2>4, <3>6, LikeOnward
  <2>6. CASE ~n.paused
    <3>1. Onward(n, x)
      BY <2>2, <2>3, <2>4, <2>6, ReadIs
    <3> QED BY <2>4, <3>1, LikeOnward
  <2> QED BY <2>5, <2>6
<1> QED BY <1>1, <1>2

LEMMA ChecksNext ==
  ASSUME NEW s \in Runs, s.task \in Tasks, s.fails < MaxConsecutiveFails, s.turn >= 1,
         s.at \notin {"answering", "steerTurn"}, s.limited => s.continues < MAX_STEP_LIMIT_CONTINUES
  PROVE  Onward(s, [s EXCEPT !.at = "checking"])
<1> DEFINE x == [s EXCEPT !.at = "checking"]
<1>1. "checking" \in Places /\ "checking" \notin Asking
  BY DEF Places, Episode, Asking
<1>2. /\ x \in Runs /\ x.at = "checking" /\ x.abort = s.abort /\ x.pending = s.pending
      /\ x.since = s.since /\ x.limited = s.limited /\ x.fails = s.fails /\ x.task = s.task
      /\ x.turn = s.turn /\ x.continues = s.continues
  BY <1>1, MovesTo
<1> HIDE DEF x
<1>3. Good(x)
  BY <1>1, <1>2 DEF Good, Local
<1>4. OnwardTo(s, x)
  BY <1>2, <1>3 DEF OnwardTo, Holds
<1> QED BY <1>2, <1>4, OffIsNoRun DEF Onward, x

LEMMA AfterTurnIs ==
  ASSUME NEW s, Good(s), s.at = "turn", NEW x,
         NEW signal \in {"error", "blocked", "rateLimit", "stepLimit", "ended"},
         x \in AfterTurn(s, signal)
  PROVE  Onward(s, x)
<1>0. /\ s \in Runs /\ s.task \in Tasks /\ s.fails < MaxConsecutiveFails /\ ~s.limited
      /\ s.turn >= 1 /\ Clear(s)
  BY DEF Good, Local, Clear
<1>1. CASE s.abort
  BY <1>0, <1>1, AfterTurnsIs DEF AfterTurn
<1>2. CASE ~s.abort /\ signal = "error"
  <2>1. "backoff" \in Places /\ "backoff" \notin Asking
    BY DEF Places, Episode, Asking
  <2>2. x = [s EXCEPT !.at = "backoff"]
    BY <1>2 DEF AfterTurn
  <2>3. /\ x \in Runs /\ x.at = "backoff" /\ x.abort = s.abort /\ x.pending = s.pending
        /\ x.since = s.since /\ x.limited = s.limited /\ x.fails = s.fails /\ x.task = s.task
        /\ x.turn = s.turn
    BY <1>0, <2>1, <2>2, MovesTo
  <2>4. Good(x)
    BY <1>0, <2>1, <2>3 DEF Good, Local
  <2>5. OnwardTo(s, x)
    BY <2>3, <2>4 DEF OnwardTo, Holds
  <2> QED BY <2>3, <2>5, OffIsNoRun DEF Onward
<1>3. CASE ~s.abort /\ signal = "blocked"
  <2>1. x \in AfterTurns([s EXCEPT !.result = "blocked"]) /\ "blocked" \in Results
    BY <1>3 DEF AfterTurn, Results
  <2> QED BY <1>0, <2>1, EndedIs
<1>4. CASE ~s.abort /\ signal = "rateLimit"
  <2>1. x \in TurnHead(s)
    BY <1>4 DEF AfterTurn
  <2> QED BY <1>0, <2>1, TurnHeadIs
<1>5. CASE ~s.abort /\ signal = "ended"
  <2>1. x = [s EXCEPT !.at = "checking"]
    BY <1>5 DEF AfterTurn
  <2> QED BY <1>0, <2>1, ChecksNext
<1>6. CASE ~s.abort /\ signal = "stepLimit"
  <2>1. CASE s.continues < MAX_STEP_LIMIT_CONTINUES
    <3> DEFINE f == [s EXCEPT !.limited = TRUE]
    <3>1. x = [s EXCEPT !.at = "checking", !.limited = TRUE]
      BY <1>6, <2>1 DEF AfterTurn
    <3>2. x = [f EXCEPT !.at = "checking"]
      BY <1>0, <3>1 DEF Runs
    <3>3. /\ f \in Runs /\ f.at = s.at /\ f.abort = s.abort /\ f.pending = s.pending
          /\ f.since = s.since /\ f.fails = s.fails /\ f.task = s.task /\ f.turn = s.turn
          /\ f.continues = s.continues
      BY <1>0 DEF Runs
    <3> HIDE DEF f
    <3>4. Onward(f, x)
      BY <1>0, <2>1, <3>2, <3>3, ChecksNext
    <3>5. Like(s, f)
      BY <3>3 DEF Like
    <3> QED BY <3>4, <3>5, LikeOnward
  <2>2. CASE ~(s.continues < MAX_STEP_LIMIT_CONTINUES)
    <3>1. x \in AfterTurns([s EXCEPT !.result = "blocked"]) /\ "blocked" \in Results
      BY <1>6, <2>2 DEF AfterTurn, Results
    <3> QED BY <1>0, <3>1, EndedIs
  <2> QED BY <2>1, <2>2
<1> QED BY <1>1, <1>2, <1>3, <1>4, <1>5, <1>6

LEMMA CheckedIs ==
  ASSUME NEW s, Good(s), s.at = "checking", NEW st, NEW x \in Checked(s, st)
  PROVE  Onward(s, x)
<1>0. /\ s \in Runs /\ s.task \in Tasks /\ s.fails < MaxConsecutiveFails
      /\ s.turn >= 1 /\ Clear(s)
  BY DEF Good, Local, Clear
<1>1. CASE st \in {"done", "failed"}
  <2>1. x \in AfterTurns([s EXCEPT !.result = st]) /\ st \in Results
    BY <1>1 DEF Checked, Results
  <2> QED BY <1>0, <2>1, EndedIs
<1>2. CASE st \notin {"done", "failed"}
  <2> DEFINE k == IF s.limited THEN s.continues + 1 ELSE s.continues
             f == [s EXCEPT !.continues = k]
  <2>1. k \in 0..MAX_STEP_LIMIT_CONTINUES
    <3>1. s.continues \in 0..MAX_STEP_LIMIT_CONTINUES /\ s.limited \in BOOLEAN
      BY <1>0, RunIs
    <3>2. s.limited => s.continues < MAX_STEP_LIMIT_CONTINUES
      BY DEF Good, Local
    <3> QED BY <3>1, <3>2, Bounds
  <2>2. [s EXCEPT !.continues = IF s.limited THEN @ + 1 ELSE @] = f
    BY <1>0 DEF Runs
  <2>3. x \in TurnHead(f)
    BY <1>2, <2>2 DEF Checked
  <2> HIDE DEF k
  <2>4. /\ f \in Runs /\ f.at = s.at /\ f.abort = s.abort /\ f.pending = s.pending
        /\ f.since = s.since /\ f.fails = s.fails /\ f.task = s.task /\ f.turn = s.turn
    BY <1>0, <2>1 DEF Runs
  <2> HIDE DEF f
  <2>5. Onward(f, x) /\ Like(s, f)
    BY <1>0, <2>3, <2>4, TurnHeadIs DEF Like
  <2> QED BY <2>5, LikeOnward
<1> QED BY <1>1, <1>2
-----------------------------------------------------------------------------
\* A message that waits is still to be looked at, and by whom: in an episode it waits in front
\* of a look that has not been, or of a steering turn's; or it is the answer that is on its way.
Waits(s, m) ==
  /\ s # Off /\ ~s.abort
  /\ \/ s.at \in Episode /\ m \in Pending(s) /\ (m \in s.since \/ s.at = "steerTurn")
     \/ s.at = "answering" /\ s.saying = m
\* No message is missed; a late one is kept as long as there is a run.
Followed(m) ==
  /\ fate[m] # "missed"
  /\ fate[m] = "late" => run # Off /\ m \in Pending(run)
  /\ fate[m] = "waiting" => Waits(run, m)

\* The inductive invariant.
RunInv ==
  /\ run = Off \/ Good(run)
  /\ status \in [Tasks -> Statuses]
  /\ fate \in [Steers -> Fates]
  /\ \A m \in Steers : Followed(m)

\* Only a turn waits for its chat.
AwayInv == away \in BOOLEAN /\ (away => run # Off /\ run.at \in Turns)

In(q, m) == \E i \in 1..Len(q) : q[i] = m

LEMMA PendingIs ==
  ASSUME NEW s \in Runs, NEW m
  PROVE  m \in Pending(s) <=> In(s.pending, m)
BY OffIsNoRun DEF Pending, In

LEMMA InTail ==
  ASSUME NEW q \in Seq(Steers), NEW m, In(q, m), m # Head(q)
  PROVE  q # <<>> /\ In(Tail(q), m)
<1>1. PICK i \in 1..Len(q) : q[i] = m
  BY DEF In
<1>2. Len(q) \in Nat /\ i # 1 /\ q # <<>>
  BY <1>1
<1>3. i - 1 \in 1..Len(Tail(q)) /\ Tail(q)[i - 1] = q[i]
  BY <1>2
<1> QED BY <1>1, <1>2, <1>3 DEF In

LEMMA InAppend ==
  ASSUME NEW q \in Seq(Steers), NEW m \in Steers, NEW n
  PROVE  In(Append(q, m), n) <=> (In(q, n) \/ n = m)
<1>1. Len(q) \in Nat /\ Len(Append(q, m)) = Len(q) + 1 /\ Append(q, m)[Len(q) + 1] = m
  OBVIOUS
<1>2. \A i \in 1..Len(q) : Append(q, m)[i] = q[i]
  OBVIOUS
<1>3. \A i \in 1..Len(Append(q, m)) : i = Len(q) + 1 \/ i \in 1..Len(q)
  BY <1>1
<1>4. 1..Len(q) \subseteq 1..Len(Append(q, m)) /\ Len(q) + 1 \in 1..Len(Append(q, m))
  BY <1>1
<1> QED BY <1>1, <1>2, <1>3, <1>4 DEF In

LEMMA InNothing == ASSUME NEW m PROVE ~In(<<>>, m)
BY DEF In

\* The loop goes on: no message is missed.
LEMMA OnwardFollows ==
  ASSUME RunInv, run # Off, NEW s, Onward(run, s), Goes(s), NEW m \in Steers
  PROVE  Followed(m)'
<1> DEFINE f == FateIn(s, m)
<1>0. Good(run) /\ run \in Runs /\ Followed(m)
  BY DEF RunInv, Good
<1>1. run' = s /\ fate'[m] = f
  BY DEF Goes
<1>2. s = Off \/ (s # Off /\ s \in Runs /\ OnwardTo(run, s))
  BY DEF Onward, OnwardTo, Good
<1>3. run.pending \in Seq(Steers)
  BY <1>0, RunIs DEF Lists
<1>4. CASE m \in Said(s) \/ fate[m] \notin {"late", "waiting"}
  <2>1. f # "missed" /\ f \notin {"late", "waiting"}
    BY <1>0, <1>4 DEF FateIn, Followed
  <2> QED BY <1>1, <2>1 DEF Followed
<1>5. CASE s = Off
  <2>1. fate[m] = "waiting" => m \in run.since
    BY <1>0, <1>5 DEF Followed, Waits, Onward
  <2>2. f # "missed" /\ f \notin {"late", "waiting"}
    BY <1>0, <1>5, <2>1 DEF FateIn, Followed
  <2> QED BY <1>1, <2>2 DEF Followed
<1>6. CASE s # Off /\ m \notin Said(s) /\ fate[m] \in {"late", "waiting"} /\ In(run.pending, m)
  <2>1. s \in Runs /\ OnwardTo(run, s)
    BY <1>2, <1>6
  <2>2. In(s.pending, m)
    <3>1. CASE Takes(run, s)
      <4>1. m # Head(run.pending)
        BY <1>6, <3>1 DEF Said, Takes
      <4>2. In(Tail(run.pending), m)
        BY <1>3, <1>6, <4>1, InTail
      <4> QED BY <3>1, <4>2 DEF Takes
    <3>2. CASE Holds(run, s)
      BY <1>6, <3>2 DEF Holds
    <3> QED BY <2>1, <3>1, <3>2 DEF OnwardTo
  <2>3. m \in Pending(s)
    BY <2>1, <2>2, PendingIs
  <2>4. run.pending # <<>>
    BY <1>6, InNothing
  <2>5. CASE fate[m] = "late"
    <3>1. f = "late"
      BY <1>6, <2>5 DEF FateIn
    <3> QED BY <1>1, <1>6, <2>3, <3>1 DEF Followed
  <2>6. CASE fate[m] = "waiting" /\ run.at \in Episode
    <3>1. /\ ~run.abort /\ (m \in run.since \/ run.at = "steerTurn")
      <4>1. run.at # "answering"
        BY <2>6 DEF Episode
      <4> QED BY <1>0, <2>6, <4>1 DEF Followed, Waits
    <3>2. CASE s.at \notin Episode
      <4>1. m \in run.since
        BY <2>1, <2>4, <3>1, <3>2 DEF OnwardTo, Takes, Holds, Episode
      <4>2. f = "late"
        BY <1>6, <2>6, <3>2, <4>1 DEF FateIn, Leaves
      <4> QED BY <1>1, <1>6, <2>3, <4>2 DEF Followed
    <3>3. CASE s.at \in Episode
      <4>1. f = "waiting"
        BY <1>6, <2>6, <3>3 DEF FateIn, Leaves
      <4>2. ~s.abort /\ (m \in s.since \/ s.at = "steerTurn")
        BY <2>1, <2>4, <2>6, <3>1, <3>3 DEF OnwardTo, Takes, Holds
      <4>3. Waits(s, m)
        BY <1>6, <2>3, <3>3, <4>2 DEF Waits
      <4> QED BY <1>1, <4>1, <4>3 DEF Followed
    <3> QED BY <3>2, <3>3
  <2>7. CASE fate[m] = "waiting" /\ run.at \notin Episode
    <3>1. run.at = "answering" /\ run.saying = m
      BY <1>0, <2>7 DEF Followed, Waits
    <3>2. s.at = "replyTurn" /\ s.saying = m
      BY <2>1, <3>1, Bounds DEF OnwardTo
    <3> QED BY <1>6, <3>2 DEF Said
  <2> QED BY <1>6, <2>5, <2>6, <2>7
<1>7. CASE s # Off /\ m \notin Said(s) /\ fate[m] \in {"late", "waiting"} /\ ~In(run.pending, m)
  <2>1. m \notin Pending(run)
    BY <1>0, <1>7, PendingIs
  <2>2. run.at = "answering" /\ run.saying = m
    BY <1>0, <1>7, <2>1 DEF Followed, Waits
  <2>3. s.at = "replyTurn" /\ s.saying = m
    BY <1>2, <1>7, <2>2, Bounds DEF OnwardTo
  <2> QED BY <1>7, <2>3 DEF Said
<1> QED BY <1>4, <1>5, <1>6, <1>7

LEMMA OnwardKeeps ==
  ASSUME RunInv, run # Off, NEW s, Onward(run, s), Goes(s), status' \in [Tasks -> Statuses]
  PROVE  RunInv'
<1>1. run' = Off \/ Good(run')
  BY DEF Goes, Onward, OnwardTo
<1>2. fate' \in [Steers -> Fates]
  <2>1. \A m \in Steers : fate[m] \in Fates
    BY DEF RunInv
  <2>2. \A m \in Steers : FateIn(s, m) \in Fates
    BY <2>1 DEF FateIn, Fates
  <2> QED BY <2>2 DEF Goes
<1>3. \A m \in Steers : Followed(m)'
  BY OnwardFollows
<1> QED BY <1>1, <1>2, <1>3 DEF RunInv
-----------------------------------------------------------------------------
LEMMA LeastNat ==
  ASSUME NEW S, S \subseteq Nat, S # {}
  PROVE  \E n \in S : \A m \in S : n <= m
<1> DEFINE R == OpToRel(<, Nat)
<1>1. IsWellFoundedOn(R, Nat)
  BY NatLessThanWellFounded
<1>2. \A x, y \in Nat : x < y => <<x, y>> \in R
  BY DEF OpToRel
<1> HIDE DEF R
<1>3. PICK x \in S : \A y \in S : ~ (<<y, x>> \in R)
  BY <1>1, WFMin
<1>4. \A y \in S : ~ (y < x)
  BY <1>2, <1>3
<1> QED BY <1>4

\* Where a task is that is not there yet, or over: the loop moves on, or is off.
LEMMA AwayIs ==
  ASSUME NEW s \in Runs, ~s.limited, s.fails < MaxConsecutiveFails, s.at \notin Episode, s.at # "answering",
         NEW a \in {"quiet", "loading", "waiting", "starting", "opening", "noting"},
         a \in {"quiet", "loading"} \/ s.task \in Tasks
  PROVE  Onward(s, [s EXCEPT !.at = a])
<1> DEFINE x == [s EXCEPT !.at = a]
<1>1. a \in Places /\ a \notin Asking /\ a \notin {"steerTurn", "turn", "held", "reading", "backoff", "checking"}
  BY DEF Places, Episode, Asking
<1>2. /\ x \in Runs /\ x.at = a /\ x.abort = s.abort /\ x.pending = s.pending
      /\ x.limited = s.limited /\ x.fails = s.fails /\ x.task = s.task
  BY <1>1, MovesTo
<1> HIDE DEF x
<1>3. Good(x)
  BY <1>1, <1>2 DEF Good, Local
<1>4. s.at # "steerTurn"
  BY DEF Episode
<1>5. OnwardTo(s, x)
  BY <1>1, <1>2, <1>3, <1>4 DEF OnwardTo, Holds
<1> QED BY <1>2, <1>5, OffIsNoRun DEF Onward, x

LEMMA OffIs ==
  ASSUME NEW s, s.at \notin {"steerTurn", "answering"}
  PROVE  Onward(s, Off)
BY DEF Onward

LEMMA PickIs ==
  ASSUME NEW s, Good(s), s.at = "loading"
  PROVE  Onward(s, Pick(s))
<1>1. CASE Candidates(s) = {}
  BY <1>1, OffIs DEF Pick
<1>2. CASE Candidates(s) # {}
  <2> DEFINE T == Candidates(s)
             t == CHOOSE n \in T : \A u \in T : n <= u
  <2>1. s \in Runs /\ ~s.limited /\ s.fails < MaxConsecutiveFails
    BY DEF Good, Local
  <2>2. T \subseteq Tasks
    <3>1. s.only # Nothing => s.only \in Tasks
      BY <2>1, RunIs DEF Maybe
    <3> QED BY <3>1 DEF Candidates
  <2>3. Tasks \subseteq Nat
    BY Bounds DEF Tasks
  <2> HIDE DEF T
  <2>4. T # {} /\ T \subseteq Nat
    BY <1>2, <2>2, <2>3 DEF T
  <2>5. \E n \in T : \A u \in T : n <= u
    BY <2>4, LeastNat
  <2>6. t \in T
    BY <2>5
  <2>7. Pick(s) = [s EXCEPT !.task = t, !.at = "waiting"]
    BY <1>2 DEF Pick, T
  <2> HIDE DEF t
  <2>8. t \in Tasks /\ t \in Maybe
    BY <2>2, <2>6 DEF Maybe
  <2> DEFINE f == [s EXCEPT !.task = t]
  <2>9. /\ f \in Runs /\ f.at = s.at /\ f.abort = s.abort /\ f.pending = s.pending
        /\ f.since = s.since /\ f.limited = s.limited /\ f.fails = s.fails /\ f.task = t
    BY <2>1, <2>8 DEF Runs
  <2>10. Pick(s) = [f EXCEPT !.at = "waiting"]
    BY <2>1, <2>7 DEF Runs
  <2> HIDE DEF f
  <2>11. f \in Runs /\ ~f.limited /\ f.fails < MaxConsecutiveFails /\ f.at \notin Episode
         /\ f.at # "answering" /\ f.task \in Tasks
    BY <2>1, <2>8, <2>9 DEF Episode
  <2>12. Onward(f, [f EXCEPT !.at = "waiting"])
    BY <2>11, AwayIs
  <2>13. Like(s, f)
    BY <2>9 DEF Like
  <2> QED BY <2>10, <2>12, <2>13, LikeOnward
<1> QED BY <1>1, <1>2

\* A step of the loop.
Step ==
  /\ run # Off /\ status' \in [Tasks -> Statuses]
  /\ \E s : Onward(run, s) /\ Goes(s)

LEMMA RunHas ==
  ASSUME RunInv, run # Off
  PROVE  Good(run) /\ run \in Runs
BY DEF RunInv, Good

LEMMA WorkingIs ==
  ASSUME RunInv, NEW t, NEW st \in Statuses
  PROVE  Working(t, st) \in [Tasks -> Statuses]
BY DEF RunInv, Working

LEMMA AgentIs ==
  ASSUME RunInv, NEW t, AgentLeaves(t)
  PROVE  status' \in [Tasks -> Statuses]
BY WorkingIs DEF AgentLeaves

LEMMA StatusIs ==
  ASSUME RunInv
  PROVE  /\ UNCHANGED status => status' \in [Tasks -> Statuses]
         /\ \A t \in Tasks : status[t] \in Statuses
         /\ {"todo", "in-progress", "done", "failed", "blocked"} = Statuses
BY DEF RunInv, Statuses

LEMMA BetweenTasks ==
  ASSUME RunInv, Rested \/ Quiet \/ Loaded \/ LoadFails
  PROVE  Step
<1>0. /\ run # Off /\ Good(run) /\ run \in Runs /\ run.at \in {"resting", "quiet", "loading"}
      /\ status' \in [Tasks -> Statuses]
  BY RunHas, StatusIs DEF Rested, Quiet, Loaded, LoadFails, At
<1>1. /\ ~run.limited /\ run.fails < MaxConsecutiveFails /\ run.at \notin Episode
      /\ run.at \notin {"answering", "steerTurn"}
  BY <1>0 DEF Good, Local, Episode
<1>2. Onward(run, Off) /\ Onward(run, [run EXCEPT !.at = "quiet"])
      /\ Onward(run, [run EXCEPT !.at = "loading"])
  BY <1>0, <1>1, AwayIs, OffIs
<1>3. run.at = "loading" => Onward(run, Pick(run))
  BY <1>0, PickIs
<1>4. ~run.abort => Onward(run, Ask(run, "stuck"))
  BY <1>0, <1>1, AskIs DEF Asking
<1> QED BY <1>0, <1>2, <1>3, <1>4 DEF Step, Rested, Quiet, Loaded, LoadFails, At

LEMMA Beginnings ==
  ASSUME RunInv, EpisodeBegins \/ Starts \/ StartRefused
  PROVE  Step
<1>0. run # Off /\ Good(run) /\ run \in Runs /\ run.at \in {"waiting", "starting"}
  BY RunHas DEF EpisodeBegins, Starts, StartRefused, At
<1>1. /\ ~run.limited /\ run.fails < MaxConsecutiveFails /\ run.at \notin Episode
      /\ run.at \notin {"answering", "steerTurn"} /\ run.task \in Tasks /\ Body(run)
  BY <1>0 DEF Good, Local, Episode, Body
<1>2. Onward(run, Off) /\ Onward(run, [run EXCEPT !.at = "starting"])
      /\ Onward(run, [run EXCEPT !.at = "opening"]) /\ Onward(run, Failed(run))
  BY <1>0, <1>1, AwayIs, OffIs, FailedAtOnce
<1>3. Onward(run, Failed([run EXCEPT !.deferred = @ \cup {run.task}]))
  <2> DEFINE D == run.deferred \cup {run.task}
  <2>1. D \in Tasked
    BY <1>0, <1>1, RunIs DEF Tasked
  <2>2. [run EXCEPT !.deferred = @ \cup {run.task}] = [run EXCEPT !.deferred = D]
    OBVIOUS
  <2> HIDE DEF D
  <2>3. Onward(run, Failed([run EXCEPT !.deferred = D]))
    BY <1>1, <2>1, FailedIs
  <2> QED BY <2>2, <2>3
<1>4. status' \in [Tasks -> Statuses]
  <2>1. \A st \in {status[run.task], "blocked", "in-progress"} : st \in Statuses
    BY <1>1, StatusIs
  <2> QED BY <2>1, StatusIs, WorkingIs DEF EpisodeBegins, Starts, StartRefused
<1> QED BY <1>0, <1>2, <1>3, <1>4 DEF Step, EpisodeBegins, Starts, StartRefused

LEMMA InTurns ==
  ASSUME RunInv, Opened \/ HeldEnds \/ TaskRead \/ SteerTurnEnds \/ TurnEnds \/ BackoffEnds \/ TaskChecked
  PROVE  Step
<1>0. /\ run # Off /\ Good(run) /\ run \in Runs
      /\ run.at \in {"opening", "held", "reading", "steerTurn", "turn", "backoff", "checking"}
  BY RunHas DEF Opened, HeldEnds, TaskRead, SteerTurnEnds, TurnEnds, BackoffEnds, TaskChecked, At
<1>1. /\ run.task \in Tasks /\ run.fails < MaxConsecutiveFails /\ run.at # "answering"
      /\ run.at \in {"held", "reading", "steerTurn"} => Turning(run)
      /\ run.at \in {"turn", "backoff"} => ~run.limited /\ run.turn >= 1
      /\ run.at = "opening" => ~run.limited
  BY <1>0 DEF Good, Local, Turning
<1>2. status' \in [Tasks -> Statuses]
  BY StatusIs, AgentIs
     DEF Opened, HeldEnds, TaskRead, SteerTurnEnds, TurnEnds, BackoffEnds, TaskChecked
<1>3. ASSUME NEW s, Goes(s), Onward(run, s) PROVE Step
  BY <1>0, <1>2, <1>3 DEF Step
<1>4. CASE Opened
  <2>1. PICK s \in TurnHead(run) : Goes(s)
    BY <1>4 DEF Opened
  <2>2. run.at = "opening"
    BY <1>4 DEF Opened, At
  <2> QED BY <1>0, <1>1, <1>3, <2>1, <2>2, TurnHeadIs
<1>5. CASE HeldEnds
  <2>1. run.at = "held"
    BY <1>5 DEF HeldEnds, At
  <2>2. PICK s \in (IF run.abort THEN AfterTurns(run) ELSE Read(run)) : Goes(s)
    BY <1>5 DEF HeldEnds
  <2>3. Clear(run)
    BY <2>1 DEF Clear
  <2>4. Onward(run, s)
    BY <1>0, <1>1, <2>1, <2>2, <2>3, AfterTurnsIs, ReadIs
  <2> QED BY <1>3, <2>2, <2>4
<1>6. CASE TaskRead \/ SteerTurnEnds
  <2>1. run.at \in {"reading", "steerTurn"}
    BY <1>6 DEF TaskRead, SteerTurnEnds, At
  <2>2. PICK s \in Look(run) : Goes(s)
    BY <1>6 DEF TaskRead, SteerTurnEnds, AfterSteer
  <2>3. Onward(run, s)
    BY <1>1, <2>1, <2>2, LookIs
  <2> QED BY <1>3, <2>2, <2>3
<1>7. CASE TurnEnds
  <2>1. run.at = "turn"
    BY <1>7 DEF TurnEnds, At
  <2>2. PICK signal \in {"error", "blocked", "rateLimit", "stepLimit", "ended"} :
          \E s \in AfterTurn(run, signal) : Goes(s)
    BY <1>7 DEF TurnEnds
  <2>3. PICK s \in AfterTurn(run, signal) : Goes(s)
    BY <2>2
  <2>4. Onward(run, s)
    BY <1>0, <2>1, <2>3, AfterTurnIs
  <2> QED BY <1>3, <2>3, <2>4
<1>8. CASE BackoffEnds
  <2>1. run.at = "backoff"
    BY <1>8 DEF BackoffEnds, At
  <2>2. PICK s \in (IF run.abort THEN AfterTurns(run)
                    ELSE {[run EXCEPT !.at = "checking"]} \cup TurnHead(run)) : Goes(s)
    BY <1>8 DEF BackoffEnds
  <2>3. Clear(run)
    BY <2>1 DEF Clear
  <2>4. Onward(run, [run EXCEPT !.at = "checking"])
    BY <1>0, <1>1, <2>1, ChecksNext
  <2>5. Onward(run, s)
    BY <1>0, <1>1, <2>1, <2>2, <2>3, <2>4, AfterTurnsIs, TurnHeadIs
  <2> QED BY <1>3, <2>2, <2>5
<1>9. CASE TaskChecked
  <2>1. run.at = "checking"
    BY <1>9 DEF TaskChecked, At
  <2>2. PICK st : \E s \in Checked(run, st) : Goes(s)
    BY <1>9 DEF TaskChecked
  <2>3. PICK s \in Checked(run, st) : Goes(s)
    BY <2>2
  <2>4. Onward(run, s)
    BY <1>0, <2>1, <2>3, CheckedIs
  <2> QED BY <1>3, <2>3, <2>4
<1> QED BY <1>4, <1>5, <1>6, <1>7, <1>8, <1>9

LEMMA BehindTurns ==
  ASSUME RunInv, Replans \/ ReplanTurnEnds \/ Replanned \/ Gated \/ Closed \/ Settled
  PROVE  Step
<1>0. /\ run # Off /\ Good(run) /\ run \in Runs
      /\ run.at \in {"replanning", "replanTurn", "replanQuiet", "gating", "closing", "settling"}
  BY RunHas DEF Replans, ReplanTurnEnds, Replanned, Gated, Closed, Settled, At
<1>1. Body(run) /\ Clear(run) /\ run.at # "steerTurn" /\ run.task \in Tasks
  BY <1>0 DEF Good, Local, Body, Clear
<1>2. status' \in [Tasks -> Statuses]
  <2>1. \A st \in {"done", "in-progress", "blocked"} : Working(run.task, st) \in [Tasks -> Statuses]
    BY WorkingIs, StatusIs
  <2> QED BY <2>1, StatusIs, AgentIs DEF Replans, ReplanTurnEnds, Replanned, Gated, Closed, Settled
<1>3. ASSUME NEW s, Goes(s), Onward(run, s) PROVE Step
  BY <1>0, <1>2, <1>3 DEF Step
<1>4. CASE Replans \/ ReplanTurnEnds
  <2>1. PICK a \in {"replanTurn", "replanQuiet"} : Goes([run EXCEPT !.at = a])
    BY <1>4 DEF Replans, ReplanTurnEnds
  <2>2. Onward(run, [run EXCEPT !.at = a])
    BY <1>1, LaterIs DEF Later
  <2> QED BY <1>3, <2>1, <2>2
<1>5. ASSUME NEW r \in Results
      PROVE  LET f == [run EXCEPT !.result = r] IN Body(f) /\ Clear(f) /\ Like(run, f)
  <2> DEFINE f == [run EXCEPT !.result = r]
  <2>1. /\ f \in Runs /\ f.at = run.at /\ f.abort = run.abort /\ f.pending = run.pending
        /\ f.since = run.since /\ f.limited = run.limited /\ f.fails = run.fails /\ f.task = run.task
    BY <1>0 DEF Runs
  <2> HIDE DEF f
  <2>2. Body(f) /\ Clear(f) /\ Like(run, f)
    BY <1>1, <2>1 DEF Body, Clear, Like
  <2> QED BY <2>2 DEF f
<1>6. CASE Replanned
  <2>1. PICK st : \E s \in GateOrClose([run EXCEPT !.result = IF st = "done" THEN "done" ELSE "failed"]) :
                    Goes(s)
    BY <1>6 DEF Replanned
  <2>2. PICK r \in {"done", "failed"} : \E s \in GateOrClose([run EXCEPT !.result = r]) : Goes(s)
    BY <2>1
  <2>3. PICK s \in GateOrClose([run EXCEPT !.result = r]) : Goes(s)
    BY <2>2
  <2>4. r \in Results
    BY DEF Results
  <2>5. Onward([run EXCEPT !.result = r], s)
    BY <1>5, <2>3, <2>4, GateOrCloseIs
  <2>6. Onward(run, s)
    BY <1>5, <2>4, <2>5, LikeOnward
  <2> QED BY <1>3, <2>3, <2>6
<1>7. CASE Gated
  <2>1. Onward(run, Close(run))
    BY <1>1, CloseIs
  <2>2. Onward(run, Close([run EXCEPT !.result = "failed"]))
    <3>1. "failed" \in Results
      BY DEF Results
    <3>2. Onward([run EXCEPT !.result = "failed"], Close([run EXCEPT !.result = "failed"]))
      BY <1>5, <3>1, CloseIs
    <3> QED BY <1>5, <3>1, <3>2, LikeOnward
  <2>3. Onward(run, Failed([run EXCEPT !.deferred = @ \cup {run.task}]))
    <3> DEFINE D == run.deferred \cup {run.task}
    <3>1. D \in Tasked
      BY <1>0, <1>1, RunIs DEF Tasked
    <3>2. [run EXCEPT !.deferred = @ \cup {run.task}] = [run EXCEPT !.deferred = D]
      OBVIOUS
    <3> HIDE DEF D
    <3>3. Onward(run, Failed([run EXCEPT !.deferred = D]))
      BY <1>1, <3>1, FailedIs
    <3> QED BY <3>2, <3>3
  <2> QED BY <1>3, <1>7, <2>1, <2>2, <2>3 DEF Gated
<1>8. CASE Closed
  <2>1. Goes(Settle(run))
    BY <1>8 DEF Closed
  <2> QED BY <1>1, <1>3, <2>1, CloseIs
<1>9. CASE Settled
  <2>1. Goes(Over(run))
    BY <1>9 DEF Settled
  <2> QED BY <1>1, <1>3, <2>1, OverIs
<1> QED BY <1>4, <1>6, <1>7, <1>8, <1>9

\* After an answer: its turn, if it is one, and then the next task or the same one again.
LEMMA AnswerIs ==
  ASSUME NEW s, Good(s), s.at \in {"answering", "replyTurn"}, NEW a \in {"noting", "replyTurn"},
         s.at = "answering" => (s.saying = Nothing \/ a = "replyTurn")
  PROVE  Onward(s, [s EXCEPT !.at = a])
<1> DEFINE x == [s EXCEPT !.at = a]
<1>0. s \in Runs /\ s.task \in Tasks /\ ~s.limited /\ s.fails < MaxConsecutiveFails
  BY DEF Good, Local
<1>1. a \in Places /\ a \notin Asking /\ a \notin Episode /\ s.at \notin Episode
  BY DEF Places, Episode, Asking
<1>2. /\ x \in Runs /\ x.at = a /\ x.abort = s.abort /\ x.pending = s.pending
      /\ x.limited = s.limited /\ x.fails = s.fails /\ x.task = s.task /\ x.saying = s.saying
  BY <1>0, <1>1, MovesTo
<1> HIDE DEF x
<1>3. Good(x)
  BY <1>0, <1>1, <1>2 DEF Good, Local
<1>4. OnwardTo(s, x)
  BY <1>1, <1>2, <1>3 DEF OnwardTo, Holds, Episode
<1> QED BY <1>2, <1>4, OffIsNoRun DEF Onward, x

LEMMA NextIs ==
  ASSUME NEW s \in Runs, s.at = "noting", ~s.limited, NEW c \in Runs, Like(s, c), ~c.limited,
         c.fails = 0, NEW x, x = IF c.all THEN Top(c) ELSE Off
  PROVE  Onward(s, x)
<1>1. c.at \notin {"steerTurn", "answering"} /\ c.fails < MaxConsecutiveFails
  BY Bounds DEF Like
<1>2. Onward(c, Top(c)) /\ Onward(c, Off)
  BY <1>1, TopIs, OffIs
<1> QED BY <1>2, LikeOnward

LEMMA Answers ==
  ASSUME RunInv, Answered \/ ReplyTurnEnds \/ Noted
  PROVE  Step
<1>0. /\ run # Off /\ Good(run) /\ run \in Runs /\ run.at \in {"answering", "replyTurn", "noting"}
  BY RunHas DEF Answered, ReplyTurnEnds, Noted, At
<1>1. ~run.limited /\ run.task \in Tasks /\ run.task \in Nat
  BY <1>0, Bounds DEF Good, Local, Tasks
<1>2. status' \in [Tasks -> Statuses]
  <2>1. \A st \in {status[run.task], "todo"} : Working(run.task, st) \in [Tasks -> Statuses]
    BY <1>1, WorkingIs, StatusIs
  <2> QED BY <2>1, StatusIs, AgentIs DEF Answered, ReplyTurnEnds, Noted
<1>3. ASSUME NEW s, Goes(s), Onward(run, s) PROVE Step
  BY <1>0, <1>2, <1>3 DEF Step
<1>4. CASE Answered \/ ReplyTurnEnds
  <2>1. run.at \in {"answering", "replyTurn"}
    BY <1>4 DEF Answered, ReplyTurnEnds, At
  <2>2. PICK a \in {"noting", "replyTurn"} :
          /\ Goes([run EXCEPT !.at = a])
          /\ run.at = "answering" => run.saying = Nothing \/ a = "replyTurn"
    BY <1>4 DEF Answered, ReplyTurnEnds, At
  <2>3. Onward(run, [run EXCEPT !.at = a])
    BY <1>0, <2>1, <2>2, AnswerIs
  <2> QED BY <1>3, <2>2, <2>3
<1>5. CASE Noted
  <2> DEFINE calm == [run EXCEPT !.fails = 0, !.saying = Nothing]
             next(s) == IF s.all THEN Top(s) ELSE Off
             more == [calm EXCEPT !.answers[run.task] = @ + 1]
  <2>0. run.at = "noting"
    BY <1>5 DEF Noted, At
  <2>1. Nothing \in Says /\ 0 \in 0..MaxConsecutiveFails
    BY Bounds DEF Says
  <2>2. /\ calm \in Runs /\ calm.at = run.at /\ calm.abort = run.abort /\ calm.pending = run.pending
        /\ calm.since = run.since /\ calm.limited = run.limited /\ calm.fails = 0
        /\ calm.answers = run.answers
    BY <1>0, <2>1 DEF Runs
  <2>3. CASE Goes(next(calm))
    <3>1. Like(run, calm) /\ ~calm.limited
      BY <1>1, <2>0, <2>2 DEF Like
    <3>2. Onward(run, next(calm))
      BY <1>0, <1>1, <2>0, <2>2, <3>1, NextIs
    <3> QED BY <1>3, <2>3, <3>2
  <2>4. CASE Goes(next(more)) /\ run.answers[run.task] < MAX_ANSWER_EPISODES
    <3> DEFINE A == [run.answers EXCEPT ![run.task] = @ + 1]
    <3>1. A \in Counts
      <4>1. run.answers \in [Tasks -> 0..MAX_ANSWER_EPISODES]
        BY <1>0, RunIs DEF Counts
      <4>2. run.answers[run.task] + 1 \in 0..MAX_ANSWER_EPISODES
        BY <1>1, <2>4, <4>1, Bounds
      <4> QED BY <4>1, <4>2 DEF Counts
    <3>2. more = [calm EXCEPT !.answers = A]
      BY <2>2 DEF Runs
    <3> HIDE DEF A, calm
    <3>3. /\ more \in Runs /\ more.at = run.at /\ more.abort = run.abort
          /\ more.pending = run.pending /\ more.since = run.since /\ more.limited = run.limited
          /\ more.fails = 0
      BY <2>2, <3>1, <3>2 DEF Runs
    <3> HIDE DEF more
    <3>4. Like(run, more) /\ ~more.limited
      BY <1>1, <2>0, <3>3 DEF Like
    <3>5. Onward(run, next(more))
      BY <1>0, <1>1, <2>0, <3>3, <3>4, NextIs
    <3> QED BY <1>3, <2>4, <3>5
  <2>5. Goes(next(calm)) \/ (Goes(next(more)) /\ run.answers[run.task] < MAX_ANSWER_EPISODES)
    BY <1>5 DEF Noted
  <2> QED BY <2>3, <2>4, <2>5
<1> QED BY <1>4, <1>5

LEMMA LoopSteps ==
  ASSUME RunInv, Loop
  PROVE  Step
BY BetweenTasks, Beginnings, InTurns, BehindTurns, Answers DEF Loop

LEMMA LoopKeeps ==
  ASSUME RunInv, Loop
  PROVE  RunInv'
<1>1. Step
  BY LoopSteps
<1>2. PICK s : Onward(run, s) /\ Goes(s)
  BY <1>1 DEF Step
<1> QED BY <1>1, <1>2, OnwardKeeps DEF Step
-----------------------------------------------------------------------------
\* What the user does leaves the loop where it is, or answers what it asks.

Same(s, x) ==
  /\ x \in Runs /\ x.at = s.at /\ x.abort = s.abort /\ x.pending = s.pending
  /\ x.since = s.since /\ x.saying = s.saying

LEMMA SameWaits ==
  ASSUME NEW s \in Runs, NEW x, Same(s, x), NEW m
  PROVE  x # Off /\ Pending(x) = Pending(s) /\ (Waits(s, m) => Waits(x, m))
<1>1. x # Off /\ s # Off
  BY OffIsNoRun DEF Same
<1>2. Pending(x) = Pending(s)
  BY <1>1 DEF Same, Pending
<1> QED BY <1>1, <1>2 DEF Same, Waits

LEMMA PausedIs ==
  ASSUME NEW s, Good(s), NEW p \in BOOLEAN, s.at \in Asking => p
  PROVE  LET x == [s EXCEPT !.paused = p] IN Good(x) /\ Same(s, x)
<1> DEFINE x == [s EXCEPT !.paused = p]
<1>1. /\ x \in Runs /\ x.at = s.at /\ x.abort = s.abort /\ x.pending = s.pending
      /\ x.since = s.since /\ x.saying = s.saying /\ x.task = s.task /\ x.turn = s.turn
      /\ x.limited = s.limited /\ x.continues = s.continues /\ x.fails = s.fails /\ x.paused = p
  BY DEF Good, Runs
<1> HIDE DEF x
<1>2. Good(x) /\ Same(s, x)
  BY <1>1 DEF Good, Local, Same
<1> QED BY <1>2 DEF x

\* A run that asks the user goes on with the answer.
LEMMA ResolvedIs ==
  ASSUME NEW s, Good(s), s.at \in Asking, NEW m \in Says
  PROVE  LET x == Resolved(s, m) IN
         /\ x # Off /\ Onward(s, x)
         /\ x.at \notin Episode /\ x.pending = s.pending /\ x.abort = s.abort
         /\ s.at = "asked" => x.at = "answering" /\ x.saying = m
<1>0. s \in Runs /\ ~s.abort /\ ~s.limited /\ s.at \notin Episode /\ s.at \notin {"answering", "steerTurn"}
  BY DEF Good, Local, Asking, Episode
<1> DEFINE r == [s EXCEPT !.paused = FALSE]
<1>1. /\ r \in Runs /\ r.at = s.at /\ r.abort = s.abort /\ r.pending = s.pending
      /\ r.since = s.since /\ r.limited = s.limited /\ r.fails = s.fails /\ r.task = s.task
  BY <1>0 DEF Runs
<1>2. CASE s.at = "asked"
  <2>1. "answering" \in Places /\ "answering" \notin Episode /\ "answering" \notin Asking
    BY DEF Places, Episode, Asking
  <2>2. PICK x : x = [r EXCEPT !.at = "answering", !.saying = m]
    OBVIOUS
  <2>3. Resolved(s, m) = x
    BY <1>0, <1>2, <2>2 DEF Resolved
  <2>4. s.task \in Tasks /\ s.fails < MaxConsecutiveFails
    BY <1>2 DEF Good, Local
  <2> HIDE DEF r
  <2>5. /\ x \in Runs /\ x.at = "answering" /\ x.abort = s.abort /\ x.pending = s.pending
        /\ x.limited = s.limited /\ x.fails = s.fails /\ x.task = s.task /\ x.saying = m
    BY <1>1, <2>1, <2>2 DEF Runs
  <2>6. Good(x)
    BY <1>0, <2>1, <2>4, <2>5 DEF Good, Local
  <2>7. OnwardTo(s, x)
    BY <1>0, <2>1, <2>5, <2>6 DEF OnwardTo, Holds
  <2> QED BY <2>1, <2>3, <2>5, <2>7, OffIsNoRun DEF Onward
<1>3. CASE s.at = "review"
  <2> DEFINE f == [r EXCEPT !.fails = 0]
  <2>1. 0 \in 0..MaxConsecutiveFails /\ 0 < MaxConsecutiveFails
    BY Bounds
  <2>2. Resolved(s, m) = Top(f)
    BY <1>3 DEF Resolved
  <2> HIDE DEF r
  <2>3. /\ f \in Runs /\ f.at = s.at /\ f.abort = s.abort /\ f.pending = s.pending
        /\ f.since = s.since /\ f.limited = s.limited /\ f.fails = 0
    BY <1>1, <2>1 DEF Runs
  <2> HIDE DEF f
  <2>4. Onward(f, Top(f)) /\ Like(s, f)
    BY <1>0, <2>1, <2>3, TopIs DEF Like
  <2>5. Onward(s, Top(f))
    BY <2>4, LikeOnward
  <2>6. PICK a \in {"resting", "quiet"} :
          Top(f) = [f EXCEPT !.at = a, !.task = Nothing, !.result = "none", !.since = {}]
    BY <1>0, <2>3 DEF Top
  <2>7. Top(f).at = a /\ Top(f).pending = f.pending /\ Top(f).abort = f.abort
    BY <2>3, <2>6 DEF Runs
  <2>8. a \in Places /\ a \notin Episode
    BY DEF Places, Episode
  <2> QED BY <1>3, <2>2, <2>3, <2>5, <2>7, <2>8, OffIsNoRun
<1>4. CASE s.at = "stuck"
  <2>1. "loading" \in Places /\ "loading" \notin Episode
    BY DEF Places, Episode
  <2>2. Resolved(s, m) = [r EXCEPT !.at = "loading"]
    BY <1>0, <1>4 DEF Resolved
  <2> HIDE DEF r
  <2>3. r.fails < MaxConsecutiveFails
    BY <1>1, <1>4 DEF Good, Local
  <2>4. Onward(r, [r EXCEPT !.at = "loading"]) /\ Like(s, r)
    BY <1>0, <1>1, <2>3, AwayIs DEF Like
  <2>5. PICK x : x = [r EXCEPT !.at = "loading"]
    OBVIOUS
  <2>6. x.at = "loading" /\ x.pending = s.pending /\ x.abort = s.abort
    BY <1>1, <2>1, <2>5, MovesTo
  <2>7. Onward(s, x)
    BY <2>4, <2>5, LikeOnward
  <2> QED BY <1>4, <2>1, <2>2, <2>5, <2>6, <2>7, OffIsNoRun
<1> QED BY <1>2, <1>3, <1>4 DEF Asking

LEMMA StartKeeps ==
  ASSUME RunInv, NEW all \in BOOLEAN, NEW only \in Maybe, Start(all, only)
  PROVE  RunInv'
<1> DEFINE b == Begin(all, only)
<1>0. "quiet" \in Places /\ "quiet" \notin Asking /\ <<>> \in Lists /\ {} \in Sets /\ {} \in Tasked
      /\ Nothing \in Maybe /\ Nothing \in Says /\ "none" \in Results
      /\ [t \in Tasks |-> 0] \in Counts
  BY Bounds DEF Places, Asking, Lists, Sets, Tasked, Maybe, Says, Results, Counts
<1>1. b \in Runs
  BY <1>0, Bounds DEF Begin, Runs
<1>2. b.at = "quiet" /\ ~b.limited /\ b.fails = 0
  BY DEF Begin
<1> HIDE DEF b
<1>3. Good(b)
  BY <1>0, <1>1, <1>2, Bounds DEF Good, Local
<1>4. run' = b /\ UNCHANGED <<status, fate>> /\ run = Off
  BY DEF Start, b
<1>5. \A m \in Steers : Followed(m)'
  BY <1>4 DEF RunInv, Followed, Waits
<1> QED BY <1>3, <1>4, <1>5 DEF RunInv

\* The loop stays where it is, and of the messages at most one is told apart.
LEMMA SameKeeps ==
  ASSUME RunInv, run # Off, NEW x, Same(run, x), Good(x), run' = x, UNCHANGED status,
         \A m \in Steers : fate'[m] \in {fate[m], "settled"}, fate' \in [Steers -> Fates]
  PROVE  RunInv'
<1>1. run \in Runs
  BY RunHas
<1>2. \A m \in Steers : Followed(m)'
  <2> SUFFICES ASSUME NEW m \in Steers PROVE Followed(m)'
    OBVIOUS
  <2>1. Followed(m)
    BY DEF RunInv
  <2>2. x # Off /\ Pending(x) = Pending(run) /\ (Waits(run, m) => Waits(x, m))
    BY <1>1, SameWaits
  <2>3. fate'[m] = fate[m] \/ fate'[m] = "settled"
    OBVIOUS
  <2> QED BY <2>1, <2>2, <2>3 DEF Followed
<1> QED BY <1>2 DEF RunInv

LEMMA PauseKeeps ==
  ASSUME RunInv, Pause
  PROVE  RunInv'
<1> DEFINE x == [run EXCEPT !.paused = TRUE]
<1>1. run # Off /\ Good(run) /\ run' = x /\ UNCHANGED <<status, fate>>
  BY RunHas DEF Pause
<1>2. Good(x) /\ Same(run, x)
  BY <1>1, PausedIs
<1> HIDE DEF x
<1> QED BY <1>1, <1>2, SameKeeps DEF RunInv

LEMMA ResumeKeeps ==
  ASSUME RunInv, Resume
  PROVE  RunInv'
<1>0. run # Off /\ Good(run) /\ run.paused /\ run \in Runs /\ Goes(Resolved(run, Nothing)) /\ UNCHANGED status
  BY RunHas DEF Resume
<1>1. CASE run.at \in Asking
  <2>1. Onward(run, Resolved(run, Nothing))
    BY <1>0, <1>1, ResolvedIs DEF Says
  <2> QED BY <1>0, <2>1, OnwardKeeps, StatusIs
<1>2. CASE run.at \notin Asking
  <2> DEFINE x == [run EXCEPT !.paused = FALSE]
  <2>1. Resolved(run, Nothing) = x
    BY <1>2 DEF Resolved, Asking
  <2>2. Good(x) /\ Same(run, x)
    BY <1>0, <1>2, PausedIs
  <2> HIDE DEF x
  <2>3. x # Off /\ ~Leaves(x)
    BY <1>0, <2>2, SameWaits DEF Leaves, Same
  <2>4. \A m \in Steers : FateIn(x, m) \in {fate[m], "settled"}
    BY <2>3 DEF FateIn
  <2>5. \A m \in Steers : fate[m] \in Fates
    BY DEF RunInv
  <2>6. run' = x /\ fate' = [m \in Steers |-> FateIn(x, m)]
    BY <1>0, <2>1 DEF Goes
  <2>7. fate' \in [Steers -> Fates]
    BY <2>4, <2>5, <2>6 DEF Fates
  <2>8. \A m \in Steers : fate'[m] \in {fate[m], "settled"}
    BY <2>4, <2>6
  <2> QED BY <1>0, <2>2, <2>6, <2>7, <2>8, SameKeeps
<1> QED BY <1>1, <1>2

LEMMA StopKeeps ==
  ASSUME RunInv, Stop
  PROVE  RunInv'
<1> DEFINE s == [run EXCEPT !.abort = TRUE, !.pending = <<>>]
<1>0. run # Off /\ Good(run) /\ run \in Runs /\ run' = Resolved(s, Nothing) /\ UNCHANGED status
  BY RunHas DEF Stop
<1>1. /\ s \in Runs /\ s.at = run.at /\ s.abort /\ s.task = run.task /\ s.turn = run.turn
      /\ s.limited = run.limited /\ s.continues = run.continues /\ s.fails = run.fails
  <2>1. <<>> \in Lists
    BY DEF Lists
  <2> QED BY <1>0, <2>1 DEF Runs
<1> HIDE DEF s
<1> DEFINE r == [s EXCEPT !.paused = FALSE]
<1>2. /\ r \in Runs /\ r.at = s.at /\ r.abort /\ r.task = s.task /\ r.turn = s.turn
      /\ r.limited = s.limited /\ r.continues = s.continues /\ r.fails = s.fails
  BY <1>1 DEF Runs
<1>3. run' = Off \/ Good(run')
  <2>1. CASE run.at \in Asking
    <3>1. s.at = "review" => Resolved(s, Nothing) = Top([r EXCEPT !.fails = 0])
      BY DEF Resolved
    <3> HIDE DEF r
    <3>2. [r EXCEPT !.fails = 0].abort
      BY <1>2 DEF Runs
    <3>3. s.at = "review" => Resolved(s, Nothing) = Off
      BY <3>1, <3>2 DEF Top
    <3>4. s.at \in {"asked", "stuck"} => Resolved(s, Nothing) = Off
      BY <1>1 DEF Resolved
    <3> QED BY <1>0, <1>1, <2>1, <3>3, <3>4 DEF Asking
  <2>2. CASE run.at \notin Asking
    <3>1. Resolved(s, Nothing) = r
      BY <1>1, <2>2 DEF Resolved, Asking
    <3> HIDE DEF r
    <3>2. Good(r)
      BY <1>0, <1>1, <1>2, <2>2 DEF Good, Local
    <3> QED BY <1>0, <3>1, <3>2
  <2> QED BY <2>1, <2>2
<1>4. fate' = [m \in Steers |-> IF fate[m] \in {"waiting", "late"} THEN "settled" ELSE fate[m]]
  BY DEF Stop
<1>5. fate' \in [Steers -> Fates]
  <2>1. \A m \in Steers : fate[m] \in Fates
    BY DEF RunInv
  <2> QED BY <1>4, <2>1 DEF Fates
<1>6. \A m \in Steers : Followed(m)'
  <2> SUFFICES ASSUME NEW m \in Steers PROVE Followed(m)'
    OBVIOUS
  <2>1. Followed(m)
    BY DEF RunInv
  <2>2. fate'[m] \notin {"missed", "waiting", "late"}
    BY <1>4, <2>1 DEF Followed
  <2> QED BY <2>2 DEF Followed
<1> QED BY <1>0, <1>3, <1>5, <1>6 DEF RunInv

LEMMA SteerKeeps ==
  ASSUME RunInv, NEW m \in Steers, Steer(m)
  PROVE  RunInv'
<1>0. run # Off /\ Good(run) /\ run \in Runs /\ UNCHANGED status /\ fate[m] = "unwritten"
  BY RunHas DEF Steer
<1>1. \A n \in Steers : fate[n] \in Fates /\ Followed(n)
  BY DEF RunInv
<1>2. CASE run.at \in Asking
  <2>1. PICK x : x = Resolved(run, m)
    OBVIOUS
  <2>2. /\ x # Off /\ Onward(run, x) /\ x.pending = run.pending /\ x.abort = run.abort
        /\ run.at = "asked" => x.at = "answering" /\ x.saying = m
    BY <1>0, <1>2, <2>1, ResolvedIs DEF Says
  <2>3. Good(x) /\ x \in Runs
    BY <2>2 DEF Onward, OnwardTo, Good
  <2>4. run' = x
    BY <1>2, <2>1 DEF Steer
  <2>5. fate' = [fate EXCEPT ![m] = IF run.at = "asked" THEN "waiting" ELSE "settled"]
    BY <1>2 DEF Steer
  <2>6. fate' \in [Steers -> Fates]
    BY <2>5 DEF RunInv, Fates
  <2>7. ASSUME NEW n \in Steers PROVE Followed(n)'
    <3>1. CASE n = m
      <4>1. fate'[m] = IF run.at = "asked" THEN "waiting" ELSE "settled"
        BY <2>5 DEF RunInv
      <4>2. run.at = "asked" => Waits(x, m)
        BY <1>0, <1>2, <2>2 DEF Waits, Good, Local
      <4> QED BY <2>4, <3>1, <4>1, <4>2 DEF Followed
    <3>2. CASE n # m
      <4>1. fate'[n] = fate[n]
        BY <2>5, <3>2 DEF RunInv
      <4>2. fate[n] # "waiting"
        BY <1>1, <1>2 DEF Followed, Waits, Asking, Episode
      <4>3. Pending(x) = Pending(run)
        BY <1>0, <2>2 DEF Pending
      <4> QED BY <1>1, <2>2, <2>4, <4>1, <4>2, <4>3 DEF Followed
    <3> QED BY <3>1, <3>2
  <2> QED BY <1>0, <2>3, <2>4, <2>6, <2>7, StatusIs DEF RunInv
<1>3. CASE run.at \notin Asking
  <2> DEFINE P == Append(run.pending, m)
             S == run.since \cup {m}
  <2>1. run.pending \in Seq(Steers) /\ P \in Lists /\ S \in Sets
    BY <1>0, RunIs DEF Lists, Sets
  <2>2. PICK x : x = [run EXCEPT !.pending = P, !.since = S]
    OBVIOUS
  <2>3. run' = x
    BY <1>3, <2>2 DEF Steer
  <2>4. /\ x \in Runs /\ x.at = run.at /\ x.abort = run.abort /\ x.task = run.task
        /\ x.turn = run.turn /\ x.limited = run.limited /\ x.continues = run.continues
        /\ x.fails = run.fails /\ x.saying = run.saying /\ x.pending = P /\ x.since = S
    <3> HIDE DEF P, S
    <3> QED BY <1>0, <2>1, <2>2 DEF Runs
  <2>5. Good(x) /\ x # Off
    BY <1>0, <1>3, <2>4, OffIsNoRun DEF Good, Local
  <2>6. fate' = [fate EXCEPT ![m] = IF run.at \in Episode /\ ~run.abort THEN "waiting" ELSE "late"]
    BY <1>3 DEF Steer
  <2>7. fate' \in [Steers -> Fates]
    BY <2>6 DEF RunInv, Fates
  <2>8. \A n : n \in Pending(x) <=> n \in Pending(run) \/ n = m
    <3>1. \A n : In(x.pending, n) <=> In(run.pending, n) \/ n = m
      <4>1. \A n : In(Append(run.pending, m), n) <=> In(run.pending, n) \/ n = m
        BY <2>1, InAppend
      <4> QED BY <2>4, <4>1
    <3>2. \A n : n \in Pending(x) <=> In(x.pending, n)
      BY <2>4, PendingIs
    <3>3. \A n : n \in Pending(run) <=> In(run.pending, n)
      BY <1>0, PendingIs
    <3> QED BY <3>1, <3>2, <3>3
  <2>9. ASSUME NEW n \in Steers PROVE Followed(n)'
    <3>1. CASE n = m
      <4>1. fate'[m] = IF run.at \in Episode /\ ~run.abort THEN "waiting" ELSE "late"
        BY <2>6 DEF RunInv
      <4>2. run.at \in Episode /\ ~run.abort => Waits(x, m)
        BY <2>4, <2>5, <2>8 DEF Waits
      <4> QED BY <2>3, <2>5, <2>8, <3>1, <4>1, <4>2 DEF Followed
    <3>2. CASE n # m
      <4>1. fate'[n] = fate[n]
        BY <2>6, <3>2 DEF RunInv
      <4>2. Waits(run, n) => Waits(x, n)
        BY <2>4, <2>5, <2>8 DEF Waits
      <4> QED BY <1>1, <2>3, <2>5, <2>8, <4>1, <4>2 DEF Followed
    <3> QED BY <3>1, <3>2
  <2> QED BY <1>0, <2>3, <2>5, <2>7, <2>9, StatusIs DEF RunInv
<1> QED BY <1>2, <1>3

LEMMA ReplyIntoPauseKeeps ==
  ASSUME RunInv, NEW m \in Steers, ReplyIntoPause(m)
  PROVE  RunInv'
<1> DEFINE x == [run EXCEPT !.paused = FALSE]
<1>1. run # Off /\ Good(run) /\ run.at \notin Asking /\ run' = x /\ UNCHANGED status
      /\ fate' = [fate EXCEPT ![m] = "settled"]
  BY RunHas DEF ReplyIntoPause
<1>2. Good(x) /\ Same(run, x)
  BY <1>1, PausedIs
<1> HIDE DEF x
<1>3. fate' \in [Steers -> Fates] /\ \A n \in Steers : fate'[n] \in {fate[n], "settled"}
  BY <1>1 DEF RunInv, Fates
<1> QED BY <1>1, <1>2, <1>3, SameKeeps
-----------------------------------------------------------------------------
\* RunInv holds at the start and is kept by every step.
LEMMA RunInvInductive ==
  /\ RunnerInit => RunInv
  /\ RunInv /\ [RunnerNext]_runnerVars => RunInv'
<1>1. RunnerInit => RunInv
  BY DEF RunnerInit, RunInv, Followed, Waits, Fates
<1>2. ASSUME RunInv, [RunnerNext]_runnerVars PROVE RunInv'
  <2>1. CASE UNCHANGED <<run, status, fate>>
    BY <1>2, <2>1 DEF RunInv, Followed, Waits, Pending
  <2>2. CASE LoopStep
    BY <1>2, <2>2, LoopKeeps DEF LoopStep
  <2>3. CASE \E all \in BOOLEAN, only \in Tasks \cup {Nothing} : Start(all, only)
    BY <1>2, <2>3, StartKeeps DEF Maybe
  <2>4. CASE Pause \/ Resume \/ Stop
    BY <1>2, <2>4, PauseKeeps, ResumeKeeps, StopKeeps
  <2>5. CASE \E m \in Steers : Steer(m) \/ ReplyIntoPause(m)
    BY <1>2, <2>5, SteerKeeps, ReplyIntoPauseKeeps
  <2> QED
    BY <1>2, <2>1, <2>2, <2>3, <2>4, <2>5 DEF RunnerNext, ByUser, Switched, runnerVars
<1> QED BY <1>1, <1>2

\* The user leaves a loop that does not ask where it is.
LEMMA ByUserStays ==
  ASSUME RunInv, ByUser, run # Off, run.at \notin Asking
  PROVE  run' # Off /\ run'.at = run.at
<1>0. Good(run) /\ run \in Runs
  BY RunHas
<1>1. CASE \E all \in BOOLEAN, only \in Tasks \cup {Nothing} : Start(all, only)
  BY <1>1 DEF Start
<1>2. CASE Pause
  <2>1. Same(run, run')
    BY <1>0, <1>2, PausedIs DEF Pause
  <2> QED BY <2>1, OffIsNoRun DEF Same
<1>3. CASE Resume
  <2>1. run' = [run EXCEPT !.paused = FALSE]
    BY <1>3 DEF Resume, Goes, Resolved, Asking
  <2>2. Same(run, run')
    BY <1>0, <2>1, PausedIs
  <2> QED BY <2>2, OffIsNoRun DEF Same
<1>4. CASE Stop
  <2>1. run' = [[run EXCEPT !.abort = TRUE, !.pending = <<>>] EXCEPT !.paused = FALSE]
    BY <1>0, <1>4 DEF Stop, Resolved, Asking, Runs
  <2>2. PICK x : x = [run EXCEPT !.abort = TRUE, !.pending = <<>>]
    OBVIOUS
  <2>3. <<>> \in Lists
    BY DEF Lists
  <2>4. x \in Runs /\ x.at = run.at
    BY <1>0, <2>2, <2>3 DEF Runs
  <2>5. run' = [x EXCEPT !.paused = FALSE]
    BY <2>1, <2>2
  <2>6. run' \in Runs /\ run'.at = x.at
    BY <2>4, <2>5 DEF Runs
  <2> QED BY <2>4, <2>6, OffIsNoRun
<1>5. ASSUME NEW m \in Steers, Steer(m) \/ ReplyIntoPause(m)
      PROVE  run' # Off /\ run'.at = run.at
  <2>1. \/ run' = [run EXCEPT !.pending = Append(@, m), !.since = @ \cup {m}]
        \/ run' = [run EXCEPT !.paused = FALSE]
    BY <1>5 DEF Steer, ReplyIntoPause
  <2>2. run.pending \in Seq(Steers) /\ run.since \subseteq Steers
    BY <1>0, RunIs DEF Lists, Sets
  <2>3. Append(run.pending, m) \in Lists /\ run.since \cup {m} \in Sets
    BY <2>2 DEF Lists, Sets
  <2>4. run' \in Runs /\ run'.at = run.at
    BY <1>0, <2>1, <2>3 DEF Runs
  <2> QED BY <2>4, OffIsNoRun
<1> QED BY <1>1, <1>2, <1>3, <1>4, <1>5 DEF ByUser

\* Only a turn waits for its chat: it stays in its place until the chat is open.
LEMMA AwayInductive ==
  /\ RunnerInit => AwayInv
  /\ RunInv /\ AwayInv /\ [RunnerNext]_runnerVars => AwayInv'
<1>1. RunnerInit => AwayInv
  BY DEF RunnerInit, AwayInv
<1>2. ASSUME RunInv, AwayInv, [RunnerNext]_runnerVars PROVE AwayInv'
  <2>1. CASE UNCHANGED runnerVars
    BY <1>2, <2>1 DEF runnerVars, AwayInv
  <2>2. CASE LoopStep
    BY <2>2 DEF LoopStep, AwayInv
  <2>3. CASE Switched
    BY <2>3 DEF Switched, AwayInv
  <2>4. CASE ByUser
    <3>1. away' = away /\ away \in BOOLEAN
      BY <1>2, <2>4 DEF ByUser, AwayInv
    <3>2. CASE away
      <4>1. run # Off /\ run.at \in Turns /\ run.at \notin Asking
        BY <1>2, <3>2 DEF AwayInv, Turns, Asking
      <4>2. run' # Off /\ run'.at = run.at
        BY <1>2, <2>4, <4>1, ByUserStays
      <4> QED BY <3>1, <4>1, <4>2 DEF AwayInv
    <3> QED BY <3>1, <3>2 DEF AwayInv
  <2> QED BY <1>2, <2>1, <2>2, <2>3, <2>4 DEF RunnerNext
<1> QED BY <1>1, <1>2

\* A run has its types, knows what it has to where it stands, and every message that waits is
\* where the loop will look for it: the inductive invariant of runner.ts.
THEOREM RunAlways == RunnerSpec => []RunInv
BY RunInvInductive, PTL DEF RunnerSpec

\* The types of a run; no count of it passes its limit, and a run that asks the user is paused
\* and was not stopped (runner.ts).
THEOREM RunnerTypeCorrect == RunnerSpec => []RunnerTypeOK
<1>1. RunInv /\ AwayInv => RunnerTypeOK
  BY DEF RunInv, AwayInv, Good, Local, RunnerTypeOK, Runs, Lists, Sets, Tasked, Maybe, Says, Results, Counts
<1> QED BY <1>1, AwayInductive, RunAlways, PTL DEF RunnerSpec

\* A message that is sent to a run becomes a turn of the task it was sent to, unless the user
\* stops the run or it comes too late for the task: none is missed (_runEpisode of runner.ts).
THEOREM MessagesArrive == RunnerSpec => []SteersArrive
<1>1. RunInv => SteersArrive
  <2> SUFFICES ASSUME RunInv, NEW m \in Steers
               PROVE  /\ fate[m] # "missed"
                      /\ fate[m] \in {"waiting", "late"} => m \in Pending(run) \/ run.saying = m
    BY DEF SteersArrive
  <2>1. Followed(m)
    BY DEF RunInv
  <2> QED BY <2>1 DEF Followed, Waits
<1> QED BY <1>1, RunAlways, PTL

\* Behind Stop the loop reaches no turn, but for the two that are reached without a look at the
\* flag (_runnerAbort of runner.ts); a turn that waits for its chat was reached before.
THEOREM StopIsFinal == RunnerSpec => StopIsFinalButForThree
<1> DEFINE Final == LoopStep /\ run # Off /\ run.abort /\ run' # Off /\ run'.at \in Turns
                      => run'.at \in {"replanTurn", "replyTurn"}
<1>1. ASSUME RunInv PROVE Final
  <2> SUFFICES ASSUME Loop, run # Off, run.abort, run' # Off, run'.at \in Turns
               PROVE  run'.at \in {"replanTurn", "replyTurn"}
    BY DEF LoopStep
  <2>1. PICK s : Onward(run, s) /\ Goes(s)
    BY <1>1, LoopSteps DEF Step
  <2>2. OnwardTo(run, run')
    BY <2>1 DEF Goes, Onward
  <2> QED BY <2>2 DEF OnwardTo, Takes, Holds, Turns
<1>2. RunInv => [Final]_runnerVars
  BY <1>1
<1> QED BY <1>2, RunAlways, PTL DEF RunnerSpec, StopIsFinalButForThree
=============================================================================
