---------------------------- MODULE EndpointMutex ----------------------------
(***************************************************************************)
(* What "one request per endpoint" promises (the comment at                *)
(* model-router.ts:562): requests to one endpoint run one at a time, in    *)
(* the order they arrived; the slot passes straight to the next in line,   *)
(* and an abort takes a request out of the line.                           *)
(***************************************************************************)
EXTENDS Naturals, Sequences

CONSTANTS
  Callers,    \* the requests that can be under way at once
  Endpoints   \* the provider|model keys

VARIABLES
  inside,  \* inside[e]: the caller that has the slot of e, if any
  line     \* line[e]: the callers that wait for it, in order

mutex == <<inside, line>>

Without(q, i) == [j \in 1..Len(q) - 1 |-> IF j < i THEN q[j] ELSE q[j + 1]]

Init ==
  /\ inside = [e \in Endpoints |-> {}]
  /\ line = [e \in Endpoints |-> <<>>]

Arrive(c, e) ==
  IF inside[e] = {}
  THEN inside' = [inside EXCEPT ![e] = {c}] /\ UNCHANGED line
  ELSE line' = [line EXCEPT ![e] = Append(@, c)] /\ UNCHANGED inside

GiveUp(c, e) ==
  /\ \E i \in 1..Len(line[e]) : line[e][i] = c /\ line' = [line EXCEPT ![e] = Without(@, i)]
  /\ UNCHANGED inside

Leave(c, e) ==
  /\ inside[e] = {c}
  /\ IF line[e] = <<>>
     THEN inside' = [inside EXCEPT ![e] = {}] /\ UNCHANGED line
     ELSE /\ inside' = [inside EXCEPT ![e] = {Head(line[e])}]
          /\ line' = [line EXCEPT ![e] = Tail(@)]

Next == \E c \in Callers, e \in Endpoints : Arrive(c, e) \/ GiveUp(c, e) \/ Leave(c, e)

Spec == Init /\ [][Next]_mutex
=============================================================================
