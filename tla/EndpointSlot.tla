---------------------------- MODULE EndpointSlot ----------------------------
(***************************************************************************)
(* withEndpointSlot of model-router.ts.  _slotQueues has a key for each    *)
(* endpoint with a request in flight; its value is the queue of those that *)
(* wait.  The main loop, the workers and the compaction of one page all    *)
(* come here; the setting can be changed at any time, and a caller that    *)
(* came while it was off goes past the slot.  A caller whose request       *)
(* failed releases the slot before withRetry brings it back.               *)
(*                                                                         *)
(* A step is what runs between two waits: the caller that is handed the    *)
(* slot goes on in a later task, when Stop may have been pressed.          *)
(***************************************************************************)
EXTENDS Naturals, Sequences

CONSTANTS
  Callers,    \* the requests that can be under way at once
  Endpoints,  \* the provider|model keys
  NoEndpoint  \* the endpoint of a caller that asks for none

ASSUME SlotAssumption == NoEndpoint \notin Endpoints

VARIABLES
  keys,   \* the endpoints _slotQueues has a key for
  queue,  \* queue[e]: those that wait for e
  at,     \* at[c]: where the call of c is
  goal,   \* goal[c]: the endpoint it asks for
  gated   \* the setting singleRequestPerEndpoint

slotVars == <<keys, queue, at, goal, gated>>

SlotTypeOK ==
  /\ keys \subseteq Endpoints
  /\ queue \in [Endpoints -> Seq(Callers)]
  /\ \A e \in Endpoints : \A i, j \in 1..Len(queue[e]) : queue[e][i] = queue[e][j] => i = j
  /\ at \in [Callers -> {"idle", "waiting", "resolved", "running", "ungated"}]
  /\ goal \in [Callers -> Endpoints \cup {NoEndpoint}]
  /\ gated \in BOOLEAN

SlotInit ==
  /\ keys = {}
  /\ queue = [e \in Endpoints |-> <<>>]
  /\ at = [c \in Callers |-> "idle"]
  /\ goal = [c \in Callers |-> NoEndpoint]
  /\ gated = TRUE

Moves(c, place, e) == at' = [at EXCEPT ![c] = place] /\ goal' = [goal EXCEPT ![c] = e]

\* Planted bug: a caller that has to wait is put at the head of the queue.
Bug_Call(c, e) ==
  /\ at[c] = "idle"
  /\ \/ ~gated /\ Moves(c, "ungated", e) /\ UNCHANGED <<keys, queue>>
     \/ /\ gated /\ e \in keys
        /\ queue' = [queue EXCEPT ![e] = <<c>> \o @]
        /\ Moves(c, "waiting", e) /\ UNCHANGED keys
     \/ /\ gated /\ e \notin keys
        /\ keys' = keys \cup {e}
        /\ Moves(c, "running", e) /\ UNCHANGED queue
  /\ UNCHANGED gated

\* A caller that comes with an aborted signal and would have to wait goes away at once.
Call(c, e) ==
  /\ at[c] = "idle"
  /\ \/ ~gated /\ Moves(c, "ungated", e) /\ UNCHANGED <<keys, queue>>
     \/ /\ gated /\ e \in keys
        /\ queue' = [queue EXCEPT ![e] = Append(@, c)]
        /\ Moves(c, "waiting", e) /\ UNCHANGED keys
     \/ /\ gated /\ e \notin keys
        /\ keys' = keys \cup {e}
        /\ Moves(c, "running", e) /\ UNCHANGED queue
  /\ UNCHANGED gated

\* splice(i, 1)
Splice(q, i) == [j \in 1..Len(q) - 1 |-> IF j < i THEN q[j] ELSE q[j + 1]]

\* Planted bug: the entry of a caller that went away stays in the queue.
Bug_Abort(c) ==
  /\ at[c] = "waiting"
  /\ Moves(c, "idle", NoEndpoint)
  /\ UNCHANGED <<keys, queue, gated>>

\* onAbort.  A caller that was handed the slot no longer listens: its request starts,
\* finds the signal aborted, and ends.
Abort(c) ==
  /\ at[c] = "waiting"
  /\ \E i \in 1..Len(queue[goal[c]]) :
       queue[goal[c]][i] = c /\ queue' = [queue EXCEPT ![goal[c]] = Splice(@, i)]
  /\ Moves(c, "idle", NoEndpoint)
  /\ UNCHANGED <<keys, gated>>

Resume(c) ==
  /\ at[c] = "resolved"
  /\ Moves(c, "running", goal[c])
  /\ UNCHANGED <<keys, queue, gated>>

\* next(): the caller d that was handed the slot, if it still waits for it.
HandOver(c, d) ==
  [at EXCEPT ![c] = "idle", ![d] = IF @ = "waiting" THEN "resolved" ELSE @]

\* The request ended, either way: the finally block.
End(c) ==
  /\ at[c] = "running"
  /\ goal' = [goal EXCEPT ![c] = NoEndpoint]
  /\ LET q == queue[goal[c]] IN
     IF q = <<>>
     THEN at' = [at EXCEPT ![c] = "idle"] /\ keys' = keys \ {goal[c]} /\ UNCHANGED queue
     ELSE at' = HandOver(c, Head(q)) /\ queue' = [queue EXCEPT ![goal[c]] = Tail(q)]
          /\ UNCHANGED keys
  /\ UNCHANGED gated

EndUngated(c) ==
  /\ at[c] = "ungated"
  /\ Moves(c, "idle", NoEndpoint)
  /\ UNCHANGED <<keys, queue, gated>>

ChangeSetting == gated' = ~gated /\ UNCHANGED <<keys, queue, at, goal>>

SlotNext ==
  \/ \E c \in Callers, e \in Endpoints : Call(c, e)
  \/ \E c \in Callers : Abort(c) \/ Resume(c) \/ End(c) \/ EndUngated(c)
  \/ ChangeSetting

SlotSpec == SlotInit /\ [][SlotNext]_slotVars

\* Promise callbacks run, and a request ends: connecting and the silence of a stream
\* are limited in time (connectSignal, decodeOAIResponse).
FairSlotSpec == SlotSpec /\ \A c \in Callers : WF_slotVars(Resume(c)) /\ WF_slotVars(End(c))
-----------------------------------------------------------------------------
Has(c, e) == at[c] \in {"resolved", "running"} /\ goal[c] = e

\* The slots implement the mutex with arrival order.  Whoever was handed a slot and has
\* not run yet has it.
Mutex == INSTANCE EndpointMutex
         WITH inside <- [e \in Endpoints |-> {c \in Callers : Has(c, e)}], line <- queue
Implements == Mutex!Spec

\* Of the callers that went through the slot no two are with one endpoint, whoever
\* aborted and whenever the setting was changed.
OneRequest == \A c, d \in Callers : \A e \in Endpoints : Has(c, e) /\ Has(d, e) => c = d

\* Who waits gets the slot or is aborted: no abort, failure or change of the setting
\* leaves a slot with nobody.
EveryWaiterServed == \A c \in Callers : (at[c] = "waiting") ~> (at[c] # "waiting")
=============================================================================
