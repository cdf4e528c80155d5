------------------------------ MODULE TextMerge ------------------------------
(***************************************************************************)
(* The three-way merge of a text: tryMerge of diff-utils, which decides    *)
(* what becomes of a file that two workers, or two sides of a sync, have   *)
(* both changed.  A text is a sequence of lines.  Positions count from 0,  *)
(* as they do there: a hunk replaces the lines from its start up to, and   *)
(* not with, its end.                                                      *)
(***************************************************************************)
EXTENDS Integers, SequencesExt

CONSTANTS
  Lines,    \* what a line may be
  MaxLines  \* bound on the lines of a text

VARIABLES
  base, sideA, sideB,  \* the inputs
  result               \* what the merge of them returns

vars == <<base, sideA, sideB, result>>

\* No line comes twice, so that it can be told who put it in and who took it out.
Texts == {t \in SeqOf(Lines, MaxLines) : IsInjective(t)}
NotYet == [merged |-> <<>>, conflicts |-> TRUE]

\* The lines from one position up to another.
Slice(s, from, to) == SubSeq(s, from + 1, to)

-----------------------------------------------------------------------------
(* What a side changed. *)

\* lcs[i, j] is the length of a longest common subsequence of a from i on and b from j on.
Lcs(a, b) ==
  LET lcs[i \in 0..Len(a), j \in 0..Len(b)] ==
        IF i = Len(a) \/ j = Len(b) THEN 0
        ELSE IF a[i + 1] = b[j + 1] THEN lcs[i + 1, j + 1] + 1
        ELSE Max({lcs[i + 1, j], lcs[i, j + 1]})
  IN lcs

\* The positions that a longest common subsequence pairs.
Matches(a, b) ==
  LET lcs == Lcs(a, b)
      from[i \in 0..Len(a), j \in 0..Len(b)] ==
        IF i = Len(a) \/ j = Len(b) THEN <<>>
        ELSE IF a[i + 1] = b[j + 1] THEN <<<<i, j>>>> \o from[i + 1, j + 1]
        ELSE IF lcs[i + 1, j] >= lcs[i, j + 1] THEN from[i + 1, j] ELSE from[i, j + 1]
  IN from[0, 0]

\* The changes of a side: what lies between two matches, where anything does.
Hunks(a, b) ==
  LET m == <<<<-1, -1>>>> \o Matches(a, b) \o <<<<Len(a), Len(b)>>>>
      gap(k) == [bs |-> m[k][1] + 1, be |-> m[k + 1][1],
                 rep |-> Slice(b, m[k][2] + 1, m[k + 1][2])]
      gaps == [k \in 1..(Len(m) - 1) |-> gap(k)]
  IN SelectSeq(gaps, LAMBDA h : h.bs < h.be \/ h.rep # <<>>)

-----------------------------------------------------------------------------
(* Putting the changes of both together. *)

\* The lines of the base from start to end with the hunks, in their order.
ApplyMergeHunks(b, hunks, start, end) ==
  LET step(done, h) == [at |-> h.be, out |-> done.out \o Slice(b, done.at, h.bs) \o h.rep]
      done == FoldLeft(step, [at |-> start, out |-> <<>>], hunks)
  IN done.out \o Slice(b, done.at, end)

\* How many hunks of ha and of hb touch each other from position `end` on, and where they end.
RECURSIVE Group(_, _, _, _, _)
Group(ha, hb, i, j, end) ==
  IF i < Len(ha) /\ ha[i + 1].bs <= end
    THEN Group(ha, hb, i + 1, j, Max({end, ha[i + 1].be}))
  ELSE IF j < Len(hb) /\ hb[j + 1].bs <= end
    THEN Group(ha, hb, i, j + 1, Max({end, hb[j + 1].be}))
  ELSE [a |-> i, b |-> j, end |-> end]

Overlap(g, h) == g.bs < h.be /\ h.bs < g.be

\* One group of hunks over the lines from start to end.  A conflict stands between markers, which
\* are left out here: nobody takes such a merge for clean.
MergeGroup(b, ga, gb, start, end) ==
  LET all == ga \o gb
      earlier(k, l) == all[k].bs < all[l].bs \/ (all[k].bs = all[l].bs /\ k < l)
      order == SetToSortSeq(DOMAIN all, earlier)
      both == [k \in DOMAIN all |-> all[order[k]]]
      overlap == \E g \in ToSet(ga), h \in ToSet(gb) : Overlap(g, h)
      wantA == ApplyMergeHunks(b, ga, start, end)
      wantB == ApplyMergeHunks(b, gb, start, end)
  IN [ merged |-> IF overlap THEN wantA ELSE ApplyMergeHunks(b, both, start, end),
       conflicts |-> overlap /\ wantA # wantB ]

RECURSIVE MergeFrom(_, _, _, _)
MergeFrom(b, ha, hb, at) ==
  IF ha = <<>> /\ hb = <<>>
    THEN [merged |-> Slice(b, at, Len(b)), conflicts |-> FALSE]
    ELSE LET start == Min({h.bs : h \in ToSet(ha \o hb)})
             g == Group(ha, hb, 0, 0, start)
             part == MergeGroup(b, Slice(ha, 0, g.a), Slice(hb, 0, g.b), start, g.end)
             rest == MergeFrom(b, Slice(ha, g.a, Len(ha)), Slice(hb, g.b, Len(hb)), g.end)
         IN [ merged |-> Slice(b, at, start) \o part.merged \o rest.merged,
              conflicts |-> part.conflicts \/ rest.conflicts ]

TryMerge(b, a, c) == MergeFrom(b, Hunks(b, a), Hunks(b, c), 0)

-----------------------------------------------------------------------------
\* What a side may have made of a text: lines added, removed and replaced, and none moved.
Edited(b) ==
  {t \in Texts : \A i, j \in DOMAIN b, k, l \in DOMAIN t :
                   b[i] = t[k] /\ b[j] = t[l] => (i < j <=> k < l)}

Init ==
  /\ base \in Texts
  /\ sideA \in Edited(base) /\ sideB \in Edited(base)
  /\ result = NotYet

Next ==
  /\ result = NotYet
  /\ result' = TryMerge(base, sideA, sideB)
  /\ UNCHANGED <<base, sideA, sideB>>

Spec == Init /\ [][Next]_vars

-----------------------------------------------------------------------------
\* A merge without conflicts has what either side put in, and nothing that either side took out.
CleanMergeIsBoth ==
  LET lines(s) == ToSet(s)
  IN ~result.conflicts =>
       /\ (lines(sideA) \cup lines(sideB)) \ lines(base) \subseteq lines(result.merged)
       /\ \A x \in lines(base) :
            x \notin lines(sideA) \/ x \notin lines(sideB) => x \notin lines(result.merged)

=============================================================================
