---------------------------- MODULE MC_ChatCache ----------------------------
(***************************************************************************)
(* ChatCache on small instances.  The tabs are alike.  races only grows:   *)
(* where more happened than a property excuses, it says nothing any more,  *)
(* and a run goes no further.                                              *)
(***************************************************************************)
EXTENDS ChatCache, TLC

AnyTab == Permutations(Tabs)

\* One page has the chat at a time.  Its turns without the lease do what a queued one does.
InOnePage ==
  races \subseteq {"overtaken", "uncached", "unlooked"} /\ \A t \in Tabs : turns[t] # "loose"

\* Pages of several tabs have it, and it is not both that a turn did not look and that one ran
\* beside another.  A dropped cache would end the run, so the store is not asked about it.
InTabs ==
  /\ races \subseteq {"shared", "unlooked"} \/ races \subseteq {"shared", "unleased"}
  /\ \A t \in Tabs : ~asked[t]

\* Both are explored.
Explored == InOnePage \/ InTabs
=============================================================================
