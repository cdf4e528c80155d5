--------------------------- MODULE OrderedHistory ---------------------------
(***************************************************************************)
(* What the stored history of one chat promises (the comment at            *)
(* session-store.ts:76): everything that changes it takes effect one       *)
(* operation at a time, in the order it was asked for.  An operation may   *)
(* be left out (a merged save, a failed write, a save the deletion made    *)
(* pointless) but none may take effect after a later one.                  *)
(***************************************************************************)
EXTENDS Naturals, Sequences

CONSTANT MaxOps        \* bound on the operations asked for

VARIABLES
  asked,  \* the kinds of the operations asked for, in order: the k-th has number k
  last,   \* the number of the newest operation that took effect
  gens    \* the generations of the history; the last one is the current one

Kinds == {"save", "compact", "delete"}

\* The histories operation k writes: a save the whole one, a compaction the full
\* history it seals and the short one it opens the next generation with.
History == [op : 1..MaxOps, part : {"full", "short"}]
Full(k) == [op |-> k, part |-> "full"]
Short(k) == [op |-> k, part |-> "short"]

\* replaceMessages, compactHistory and deleteChat on the generations of a chat.
Effect(kind, k, g) ==
  LET n == IF g = <<>> THEN 1 ELSE Len(g)
      current == [i \in 1..n |-> IF i = n THEN Full(k) ELSE g[i]]
  IN  CASE kind = "save" -> current
        [] kind = "compact" -> Append(current, Short(k))
        [] kind = "delete" -> <<>>

Init == asked = <<>> /\ last = 0 /\ gens = <<>>

Ask(kind) ==
  /\ Len(asked) < MaxOps
  /\ asked' = Append(asked, kind)
  /\ UNCHANGED <<last, gens>>

TakeEffect(k) ==
  /\ last < k
  /\ last' = k
  /\ gens' = Effect(asked[k], k, gens)
  /\ UNCHANGED asked

Next ==
  \/ \E kind \in Kinds : Ask(kind)
  \/ \E k \in 1..Len(asked) : TakeEffect(k)

Spec == Init /\ [][Next]_<<asked, last, gens>>
=============================================================================
