------------------------- MODULE SessionStoreProofs -------------------------
(***************************************************************************)
(* Proofs about SessionStore: for any number of operations, loads and      *)
(* failures, as long as the connection is not lost under an operation that *)
(* went past the queue, the database applies the operations in the order   *)
(* they were asked for (it implements OrderedHistory), and what a save or  *)
(* a load was told is true of the stored history.                          *)
(*                                                                         *)
(* IInv is the inductive invariant; its parts speak of the calls in all    *)
(* three places a call can be in: events, txs and waiting.                 *)
(***************************************************************************)
EXTENDS SessionStore, WellFoundedInduction, TLAPS

(* General facts. *)

\* A set of numbers has a least one: the form in which these proofs use induction.
LEMMA LeastNat ==
  ASSUME NEW S, S \subseteq Nat, S # {}
  PROVE  \E n \in S : \A m \in S : n <= m
<1> DEFINE R == OpToRel(<, Nat)
<1>1. IsWellFoundedOn(R, Nat)
  BY NatLessThanWellFounded
<1>2. \A x, y \in Nat : x < y => <<x, y>> \in R
  BY DEF OpToRel
<1> HIDE DEF R
<1>3. PICK x \in S : \A y \in S : ~ (<<y, x>> \in R)
  BY <1>1, WFMin
<1>4. \A y \in S : ~ (y < x)
  BY <1>2, <1>3
<1> QED BY <1>4

\* What Tail, Append and \o return, place by place.
LEMMA TailIs ==
  ASSUME NEW S, NEW s \in Seq(S), s # <<>>
  PROVE  /\ Tail(s) \in Seq(S) /\ Len(s) \in Nat \ {0} /\ Len(Tail(s)) = Len(s) - 1
         /\ Head(s) = s[1] /\ 1 \in 1..Len(s) /\ s[1] \in S
         /\ \A i \in 1..Len(Tail(s)) : Tail(s)[i] = s[i + 1] /\ i + 1 \in 1..Len(s)
  OBVIOUS

LEMMA AppendIs ==
  ASSUME NEW S, NEW s \in Seq(S), NEW x \in S
  PROVE  /\ Append(s, x) \in Seq(S) /\ Len(s) \in Nat /\ Len(Append(s, x)) = Len(s) + 1
         /\ Append(s, x) # <<>>
         /\ \A i \in 1..Len(Append(s, x)) :
              \/ i = Len(s) + 1 /\ Append(s, x)[i] = x
              \/ i \in 1..Len(s) /\ Append(s, x)[i] = s[i]
<1>1. Append(s, x) \in Seq(S) /\ Len(s) \in Nat /\ Len(Append(s, x)) = Len(s) + 1
  OBVIOUS
<1>2. Append(s, x) # <<>>
  BY <1>1
<1>3. \A i \in 1..Len(s) + 1 : Append(s, x)[i] = IF i = Len(s) + 1 THEN x ELSE s[i]
  OBVIOUS
<1> QED BY <1>1, <1>2, <1>3

LEMMA ConcatIs ==
  ASSUME NEW S, NEW s \in Seq(S), NEW t \in Seq(S)
  PROVE  /\ s \o t \in Seq(S) /\ Len(s) \in Nat /\ Len(t) \in Nat /\ Len(s \o t) = Len(s) + Len(t)
         /\ \A i \in 1..Len(s \o t) :
              \/ i \in 1..Len(s) /\ (s \o t)[i] = s[i]
              \/ i - Len(s) \in 1..Len(t) /\ (s \o t)[i] = t[i - Len(s)]
  OBVIOUS

\* Newest picks one of the saves, or 0.
LEMMA NewestIs ==
  ASSUME MaxOps \in Nat, NEW S, S \subseteq 1..MaxOps
  PROVE  Newest(S) \in S \cup {0}
<1> DEFINE T == {MaxOps - k : k \in S \cup {0}}
<1>1. T \subseteq Nat /\ T # {}
  OBVIOUS
<1>2. PICK m \in T : \A n \in T : m <= n
  BY <1>1, LeastNat
<1>3. PICK k \in S \cup {0} : m = MaxOps - k
  BY <1>2
<1>4. \A j \in S : MaxOps - k <= MaxOps - j
  BY <1>2, <1>3
<1>5. \A j \in S : j <= k
  BY <1>4
<1> QED BY <1>5 DEF Newest

\* The saves taken out up to the n-th place of q, as the function that WithoutSaves recurs on.
Keeps(q, f, m) ==
  f = [n \in 0..m |-> IF n = 0 THEN <<>>
                       ELSE IF q[n].kind = "save" THEN f[n - 1] ELSE Append(f[n - 1], q[n])]

\* There is such a function: a least length without one would have one.
LEMMA KeepsExists ==
  ASSUME NEW q \in Seq(Op)
  PROVE  \E f : Keeps(q, f, Len(q))
<1> SUFFICES ASSUME ~ \E f : Keeps(q, f, Len(q))
             PROVE  FALSE
  OBVIOUS
<1> DEFINE Bad == {m \in Nat : ~ \E f : Keeps(q, f, m)}
<1>1. Bad \subseteq Nat /\ Bad # {}
  <2>1. Len(q) \in Bad
    OBVIOUS
  <2> QED BY <2>1
<1>2. PICK m \in Bad : \A n \in Bad : m <= n
  <2> HIDE DEF Bad
  <2> QED BY <1>1, LeastNat
<1>3. m # 0
  <2>1. Keeps(q, [n \in 0..0 |-> <<>>], 0)
    BY DEF Keeps
  <2> QED BY <2>1, <1>2
<1>4. m - 1 \in Nat /\ m - 1 \notin Bad
  BY <1>2, <1>3
<1>5. PICK f : Keeps(q, f, m - 1)
  BY <1>4
<1> DEFINE g == [n \in 0..m |-> IF n < m THEN f[n]
                                ELSE IF q[n].kind = "save" THEN f[n - 1] ELSE Append(f[n - 1], q[n])]
<1>6. Keeps(q, g, m)
  <2> DEFINE h == [n \in 0..m |-> IF n = 0 THEN <<>>
                       ELSE IF q[n].kind = "save" THEN g[n - 1] ELSE Append(g[n - 1], q[n])]
  <2>1. ASSUME NEW n \in 0..m PROVE h[n] = g[n]
    <3>1. CASE n = 0
      BY <3>1, <1>4, <1>5 DEF Keeps
    <3>2. CASE n # 0
      <4>1. n - 1 \in 0..m /\ n - 1 < m /\ g[n - 1] = f[n - 1]
        BY <3>2, <1>4
      <4>2. CASE n = m
        BY <3>2, <4>1, <4>2
      <4>3. CASE n # m
        <5>1. n \in 0..m - 1 /\ n < m /\ g[n] = f[n]
          BY <4>3, <1>4
        <5>2. f[n] = IF q[n].kind = "save" THEN f[n - 1] ELSE Append(f[n - 1], q[n])
          BY <5>1, <3>2, <1>5 DEF Keeps
        <5> QED BY <5>1, <5>2, <4>1, <3>2
      <4> QED BY <4>2, <4>3
    <3> QED BY <3>1, <3>2
  <2>2. h = g
    BY <2>1
  <2> QED BY <2>2 DEF Keeps
<1> QED BY <1>2, <1>6

\* A deletion leaves operations of the queue, in order, and no save.
LEMMA WithoutSavesIs ==
  ASSUME NEW q \in Seq(Op), \A i, j \in 1..Len(q) : i < j => q[i].k < q[j].k
  PROVE  /\ WithoutSaves(q) \in Seq(Op)
         /\ \A i \in 1..Len(WithoutSaves(q)) :
              /\ \E j \in 1..Len(q) : WithoutSaves(q)[i] = q[j]
              /\ WithoutSaves(q)[i].kind # "save"
         /\ \A i, j \in 1..Len(WithoutSaves(q)) :
              i < j => WithoutSaves(q)[i].k < WithoutSaves(q)[j].k
<1> DEFINE f == CHOOSE f : Keeps(q, f, Len(q))
           Good(n) == /\ f[n] \in Seq(Op)
                      /\ \A i \in 1..Len(f[n]) : /\ \E j \in 1..n : f[n][i] = q[j]
                                                 /\ f[n][i].kind # "save"
                      /\ \A i, j \in 1..Len(f[n]) : i < j => f[n][i].k < f[n][j].k
           Bad == {n \in 0..Len(q) : ~Good(n)}
<1>1. Keeps(q, f, Len(q))
  BY KeepsExists
<1>2. WithoutSaves(q) = f[Len(q)]
  BY DEF WithoutSaves, Keeps
<1>3. Len(q) \in Nat
  OBVIOUS
<1>7. \A n \in 0..Len(q) :
        f[n] = IF n = 0 THEN <<>>
               ELSE IF q[n].kind = "save" THEN f[n - 1] ELSE Append(f[n - 1], q[n])
  <2> HIDE DEF f
  <2> QED BY <1>1 DEF Keeps
<1> HIDE DEF f
<1>4. Good(0)
  <2>1. f[0] = <<>>
    <3>1. 0 \in 0..Len(q)
      BY <1>3
    <3> QED BY <1>7, <3>1
  <2> QED BY <2>1
<1>5. ASSUME NEW n \in 1..Len(q), Good(n - 1) PROVE Good(n)
  <2>1. f[n] = IF q[n].kind = "save" THEN f[n - 1] ELSE Append(f[n - 1], q[n])
    <3>1. n \in 0..Len(q) /\ n # 0
      BY <1>3
    <3> QED BY <1>7, <3>1
  <2>2. CASE q[n].kind = "save"
    BY <2>1, <2>2, <1>3, <1>5
  <2>3. CASE q[n].kind # "save"
    <3>1. q[n] \in Op /\ f[n - 1] \in Seq(Op) /\ f[n] = Append(f[n - 1], q[n])
      BY <2>1, <2>3, <1>5
    <3>2. \A i \in 1..Len(f[n - 1]) : f[n - 1][i].k < q[n].k
      <4> TAKE i \in 1..Len(f[n - 1])
      <4>1. PICK j \in 1..n - 1 : f[n - 1][i] = q[j]
        BY <1>5
      <4>2. j \in 1..Len(q) /\ j < n
        BY <4>1, <1>3
      <4> QED BY <4>1, <4>2
    <3>3. \A i \in 1..Len(f[n]) :
             \/ i = Len(f[n - 1]) + 1 /\ f[n][i] = q[n]
             \/ i \in 1..Len(f[n - 1]) /\ f[n][i] = f[n - 1][i]
      BY <3>1, AppendIs
    <3>4. f[n] \in Seq(Op)
      BY <3>1
    <3>5. ASSUME NEW i \in 1..Len(f[n])
          PROVE  (\E j \in 1..n : f[n][i] = q[j]) /\ f[n][i].kind # "save"
      <4>1. CASE i \in 1..Len(f[n - 1]) /\ f[n][i] = f[n - 1][i]
        <5>1. PICK j \in 1..n - 1 : f[n - 1][i] = q[j]
          BY <4>1, <1>5
        <5>2. j \in 1..n
          BY <5>1, <1>3
        <5> QED BY <4>1, <5>1, <5>2, <1>5
      <4> QED BY <4>1, <3>3, <2>3
    <3>6. ASSUME NEW i \in 1..Len(f[n]), NEW j \in 1..Len(f[n]), i < j
          PROVE  f[n][i].k < f[n][j].k
      <4>1. Len(f[n - 1]) \in Nat /\ Len(f[n]) = Len(f[n - 1]) + 1
        BY <3>1
      <4>2. i \in 1..Len(f[n - 1]) /\ f[n][i] = f[n - 1][i]
        BY <4>1, <3>3, <3>6
      <4> QED BY <4>2, <3>2, <3>3, <3>6, <1>5
    <3> QED BY <3>4, <3>5, <3>6
  <2> QED BY <2>2, <2>3
<1>6. Good(Len(q))
  <2> SUFFICES ASSUME ~Good(Len(q)) PROVE FALSE
    OBVIOUS
  <2> HIDE DEF Good
  <2>1. Bad \subseteq Nat /\ Bad # {}
    BY <1>3
  <2>2. PICK n \in Bad : \A m \in Bad : n <= m
    <3> HIDE DEF Bad
    <3> QED BY <2>1, LeastNat
  <2>3. n # 0 /\ n \in 0..Len(q) /\ ~Good(n)
    BY <2>2, <1>4
  <2>4. n - 1 \in 0..Len(q) /\ n \in 1..Len(q)
    BY <2>3, <1>3
  <2>5. Good(n - 1)
    BY <2>2, <2>3, <2>4
  <2> QED BY <2>3, <2>4, <2>5, <1>5
<1> QED BY <1>2, <1>6
-----------------------------------------------------------------------------
(* The inductive invariant. *)

Results == {"committed", "aborted", "lost"}
Event == [call : Calls, result : Results]
IsWrite(call) == call.op # "load"

\* A load reads a generation and then its record, and writes nothing; a write is an operation.
Fits(call) ==
  /\ call.op = "load" <=> call.kind \in {"generation", "record"}
  /\ IsWrite(call) => call.k \in 1..Len(asked) /\ asked[call.k] = call.kind

\* In what follows e are decided calls, t transactions and w calls that wait for the connection.
\* No call of the kind op is under way, or at most one.
None(op, e, t, w) ==
  /\ \A i \in 1..Len(e) : e[i].call.op # op
  /\ \A i \in 1..Len(t) : t[i].op # op
  /\ \A i \in 1..Len(w) : w[i].op # op

Single(op, e, t, w) ==
  /\ \A i, j \in 1..Len(e) : e[i].call.op = op /\ e[j].call.op = op => i = j
  /\ \A i, j \in 1..Len(t) : t[i].op = op /\ t[j].op = op => i = j
  /\ \A i, j \in 1..Len(w) : w[i].op = op /\ w[j].op = op => i = j
  /\ \A i \in 1..Len(e), j \in 1..Len(t) : ~(e[i].call.op = op /\ t[j].op = op)
  /\ \A i \in 1..Len(e), j \in 1..Len(w) : ~(e[i].call.op = op /\ w[j].op = op)
  /\ \A i \in 1..Len(t), j \in 1..Len(w) : ~(t[i].op = op /\ w[j].op = op)

\* The writes of s are in the order they were asked for.
Ordered(s) == \A i, j \in 1..Len(s) : i < j /\ IsWrite(s[i]) /\ IsWrite(s[j]) => s[i].k < s[j].k
Before(s, t) == \A i \in 1..Len(s), j \in 1..Len(t) : IsWrite(s[i]) /\ IsWrite(t[j]) => s[i].k < t[j].k
NoWrite(s) == \A i \in 1..Len(s) : ~IsWrite(s[i])

\* A write that has not run yet: it is behind everything that has, the queue comes later, and a
\* write that went past the queue is older than the operation that is awaited.
ToRun(call) ==
  IsWrite(call) =>
    /\ last < call.k
    /\ \A i \in 1..Len(queue) : call.k < queue[i].k
    /\ call.op = "queued" => active # Idle /\ call.k = active.k
    /\ call.op = "direct" /\ active # Idle => call.k < active.k

\* An operation of the queue answers saves that are not younger than itself.
OpFits(op) ==
  /\ op.k \in 1..Len(asked) /\ asked[op.k] = op.kind
  /\ \A j \in op.waiters : j \in 1..op.k /\ asked[j] = "save"

\* A decided call: one that is going to be repeated finds no other write on its way.
Decided(ev, t, w) ==
  /\ Fits(ev.call)
  /\ ev.call.op = "queued" =>
       /\ active # Idle /\ ev.call.k = active.k
       /\ ev.result = "committed" => ev.call.k <= last
       /\ ev.result = "lost" /\ ev.call.try = 1 => NoWrite(t) /\ NoWrite(w) /\ last < ev.call.k
  /\ ev.call.op = "direct" => ev.result # "lost"

\* What a load has found so far is no older than what was answered before it began.
Deleted(from) == \E d \in from + 1..Len(asked) : asked[d] = "delete"
GoodGen == IF load.gen \in 1..Len(gens) THEN gens[load.gen].op >= load.floor
                                        ELSE load.floor > 0 => Deleted(load.floor)
GoodGot == IF load.got = NoHistory THEN load.floor > 0 => Deleted(load.floor)
                                   ELSE load.got.op >= load.floor

QueueOK ==
  /\ \A i \in 1..Len(queue) : OpFits(queue[i]) /\ last < queue[i].k
  /\ \A i, j \in 1..Len(queue) : i < j => queue[i].k < queue[j].k
  /\ active # Idle => /\ OpFits(active) /\ last <= active.k
                      /\ \A i \in 1..Len(queue) : active.k < queue[i].k
  /\ active = Idle => queue = <<>>

CallsOK(e, t, w) ==
  /\ \A i \in 1..Len(t) : Fits(t[i]) /\ ToRun(t[i])
  /\ \A i \in 1..Len(w) : Fits(w[i]) /\ ToRun(w[i])
  /\ Ordered(t) /\ Ordered(w) /\ Before(t, w)
  /\ \A i \in 1..Len(e) : Decided(e[i], t, w)

\* A connection that is lost has no transactions.  What went past the queue waits for nothing else.
ConnectionOK(d, t, w) ==
  /\ d => t = <<>>
  /\ ~d => \A i \in 1..Len(w) : w[i].op # "direct"

SingleOK(a, l, e, t, w) ==
  /\ Single("queued", e, t, w) /\ Single("load", e, t, w)
  /\ a = Idle => None("queued", e, t, w)
  /\ l.at \in {"none", "done", "failed"} => None("load", e, t, w)

\* The current history is the work of the newest operation.
StoredOK ==
  /\ last <= Len(asked)
  /\ Len(gens) <= last + 1
  /\ gens = <<>> => last = 0 \/ asked[last] = "delete"
  /\ gens # <<>> => last > 0 /\ gens[Len(gens)].op = last
  /\ \A k \in Acked : k <= last /\ asked[k] = "save"

LoadOK(e, t, w) ==
  /\ load.floor <= last
  /\ load.floor > 0 => asked[load.floor] = "save"
  /\ \A i \in 1..Len(t) : t[i].kind = "record" => GoodGen
  /\ \A i \in 1..Len(w) : w[i].kind # "record"
  /\ \A i \in 1..Len(e) :
       /\ e[i].result = "committed" /\ e[i].call.kind = "generation" => GoodGen
       /\ e[i].result = "committed" /\ e[i].call.kind = "record" => GoodGot
  /\ load.at = "done" => GoodGot

IInv ==
  /\ TypeOK /\ QueueOK /\ StoredOK
  /\ CallsOK(events, txs, waiting)
  /\ ConnectionOK(dead, txs, waiting)
  /\ SingleOK(active, load, events, txs, waiting)
  /\ LoadOK(events, txs, waiting)

InFlightOK(e, t, w) ==
  /\ CallsOK(e, t, w) /\ ConnectionOK(dead, t, w)
  /\ SingleOK(active, load, e, t, w) /\ LoadOK(e, t, w)
-----------------------------------------------------------------------------
(* At most one call of the queue and one of a load is under way. *)

\* A transaction is decided: its call moves from t to e.
LEMMA MovedIsSingle ==
  ASSUME NEW op, NEW e \in Seq(Event), NEW t \in Seq(Calls), NEW w \in Seq(Calls), t # <<>>,
         NEW ev \in Event, ev.call = Head(t)
  PROVE  /\ Single(op, e, t, w) => Single(op, Append(e, ev), Tail(t), w)
         /\ None(op, e, t, w) => None(op, Append(e, ev), Tail(t), w)
<1>1. /\ Len(e) \in Nat /\ Len(Append(e, ev)) = Len(e) + 1
      /\ \A i \in 1..Len(Append(e, ev)) :
           \/ i = Len(e) + 1 /\ Append(e, ev)[i].call = t[1]
           \/ i \in 1..Len(e) /\ Append(e, ev)[i] = e[i]
  BY AppendIs, TailIs
<1>2. /\ Len(t) \in Nat \ {0} /\ Len(Tail(t)) = Len(t) - 1 /\ 1 \in 1..Len(t)
      /\ \A i \in 1..Len(Tail(t)) : Tail(t)[i] = t[i + 1] /\ i + 1 \in 1..Len(t)
  BY TailIs
<1>3. ASSUME Single(op, e, t, w) PROVE Single(op, Append(e, ev), Tail(t), w)
  BY <1>1, <1>2, <1>3 DEF Single
<1>4. ASSUME None(op, e, t, w) PROVE None(op, Append(e, ev), Tail(t), w)
  BY <1>1, <1>2, <1>4 DEF None
<1> QED BY <1>3, <1>4

\* All transactions are lost.
LEMMA LostIsSingle ==
  ASSUME NEW op, NEW e \in Seq(Event), NEW t \in Seq(Calls), NEW w \in Seq(Calls),
         NEW f \in Seq(Event), f = [i \in 1..Len(t) |-> [call |-> t[i], result |-> "lost"]]
  PROVE  /\ Single(op, e, t, w) => Single(op, e \o f, <<>>, w)
         /\ None(op, e, t, w) => None(op, e \o f, <<>>, w)
<1>1. Len(f) = Len(t) /\ \A i \in 1..Len(t) : f[i].call = t[i]
  <2>1. Len(t) \in Nat
    OBVIOUS
  <2> QED BY <2>1
<1>2. /\ Len(e) \in Nat /\ Len(t) \in Nat /\ Len(e \o f) = Len(e) + Len(t)
      /\ \A i \in 1..Len(e \o f) :
           \/ i \in 1..Len(e) /\ (e \o f)[i] = e[i]
           \/ i - Len(e) \in 1..Len(t) /\ (e \o f)[i].call = t[i - Len(e)]
  BY ConcatIs, <1>1
<1>3. 1..Len(<<>>) = {}
  OBVIOUS
<1>4. ASSUME Single(op, e, t, w) PROVE Single(op, e \o f, <<>>, w)
  <2>1. /\ \A i, j \in 1..Len(e \o f) : (e \o f)[i].call.op = op /\ (e \o f)[j].call.op = op => i = j
        /\ \A i, j \in 1..Len(<<>>) : <<>>[i].op = op /\ <<>>[j].op = op => i = j
        /\ \A i, j \in 1..Len(w) : w[i].op = op /\ w[j].op = op => i = j
    BY <1>2, <1>3, <1>4 DEF Single
  <2>2. \A i \in 1..Len(e \o f), j \in 1..Len(<<>>) : ~((e \o f)[i].call.op = op /\ <<>>[j].op = op)
    BY <1>2, <1>3, <1>4 DEF Single
  <2>3. ASSUME NEW i \in 1..Len(e \o f), NEW j \in 1..Len(w)
        PROVE  ~((e \o f)[i].call.op = op /\ w[j].op = op)
    <3>1. CASE i \in 1..Len(e) /\ (e \o f)[i] = e[i]
      BY <3>1, <1>4 DEF Single
    <3>2. CASE i - Len(e) \in 1..Len(t) /\ (e \o f)[i].call = t[i - Len(e)]
      BY <3>2, <1>4 DEF Single
    <3> QED BY <3>1, <3>2, <1>2
  <2>4. \A i \in 1..Len(<<>>), j \in 1..Len(w) : ~(<<>>[i].op = op /\ w[j].op = op)
    BY <1>2, <1>3, <1>4 DEF Single
  <2> QED BY <2>1, <2>2, <2>3, <2>4 DEF Single
<1>5. ASSUME None(op, e, t, w) PROVE None(op, e \o f, <<>>, w)
  BY <1>2, <1>3, <1>5 DEF None
<1> QED BY <1>4, <1>5

\* An event is handled.
LEMMA HandledIsSingle ==
  ASSUME NEW op, NEW e \in Seq(Event), NEW t \in Seq(Calls), NEW w \in Seq(Calls), e # <<>>
  PROVE  /\ Single(op, e, t, w) => Single(op, Tail(e), t, w)
         /\ None(op, e, t, w) => None(op, Tail(e), t, w)
         /\ Single(op, e, t, w) /\ Head(e).call.op = op => None(op, Tail(e), t, w)
<1>1. /\ Len(e) \in Nat \ {0} /\ Len(Tail(e)) = Len(e) - 1 /\ 1 \in 1..Len(e) /\ Head(e) = e[1]
      /\ \A i \in 1..Len(Tail(e)) : Tail(e)[i] = e[i + 1] /\ i + 1 \in 1..Len(e)
  BY TailIs
<1>2. ASSUME Single(op, e, t, w) PROVE Single(op, Tail(e), t, w)
  <2>1. /\ \A i, j \in 1..Len(Tail(e)) : Tail(e)[i].call.op = op /\ Tail(e)[j].call.op = op => i = j
        /\ \A i, j \in 1..Len(t) : t[i].op = op /\ t[j].op = op => i = j
        /\ \A i, j \in 1..Len(w) : w[i].op = op /\ w[j].op = op => i = j
    <3>1. ASSUME NEW i \in 1..Len(Tail(e)), NEW j \in 1..Len(Tail(e)),
                 Tail(e)[i].call.op = op, Tail(e)[j].call.op = op
          PROVE  i = j
      <4>1. i + 1 = j + 1
        BY <1>1, <1>2, <3>1 DEF Single
      <4> QED BY <4>1
    <3> QED BY <1>2, <3>1 DEF Single
  <2>2. \A i \in 1..Len(Tail(e)), j \in 1..Len(t) : ~(Tail(e)[i].call.op = op /\ t[j].op = op)
    BY <1>1, <1>2 DEF Single
  <2>3. \A i \in 1..Len(Tail(e)), j \in 1..Len(w) : ~(Tail(e)[i].call.op = op /\ w[j].op = op)
    BY <1>1, <1>2 DEF Single
  <2>4. \A i \in 1..Len(t), j \in 1..Len(w) : ~(t[i].op = op /\ w[j].op = op)
    BY <1>1, <1>2 DEF Single
  <2> QED BY <2>1, <2>2, <2>3, <2>4 DEF Single
<1>3. ASSUME None(op, e, t, w) PROVE None(op, Tail(e), t, w)
  BY <1>1, <1>3 DEF None
<1>4. ASSUME Single(op, e, t, w), Head(e).call.op = op PROVE None(op, Tail(e), t, w)
  BY <1>1, <1>4 DEF Single, None
<1> QED BY <1>2, <1>3, <1>4

\* A call that waits is given up.
LEMMA GivenUpIsSingle ==
  ASSUME NEW op, NEW e \in Seq(Event), NEW t \in Seq(Calls), NEW w \in Seq(Calls), w # <<>>
  PROVE  /\ Single(op, e, t, w) => Single(op, e, t, Tail(w))
         /\ None(op, e, t, w) => None(op, e, t, Tail(w))
         /\ Single(op, e, t, w) /\ Head(w).op = op => None(op, e, t, Tail(w))
<1>1. /\ Len(w) \in Nat \ {0} /\ Len(Tail(w)) = Len(w) - 1 /\ 1 \in 1..Len(w) /\ Head(w) = w[1]
      /\ \A i \in 1..Len(Tail(w)) : Tail(w)[i] = w[i + 1] /\ i + 1 \in 1..Len(w)
  BY TailIs
<1>2. ASSUME Single(op, e, t, w) PROVE Single(op, e, t, Tail(w))
  BY <1>1, <1>2 DEF Single
<1>3. ASSUME None(op, e, t, w) PROVE None(op, e, t, Tail(w))
  BY <1>1, <1>3 DEF None
<1>4. ASSUME Single(op, e, t, w), Head(w).op = op PROVE None(op, e, t, Tail(w))
  BY <1>1, <1>4 DEF Single, None
<1> QED BY <1>2, <1>3, <1>4

\* The calls that wait become transactions.
LEMMA ReopenedIsSingle ==
  ASSUME NEW op, NEW e \in Seq(Event), NEW t \in Seq(Calls), NEW w \in Seq(Calls)
  PROVE  /\ Single(op, e, t, w) => Single(op, e, t \o w, <<>>)
         /\ None(op, e, t, w) => None(op, e, t \o w, <<>>)
<1>1. /\ Len(t) \in Nat /\ Len(w) \in Nat /\ Len(t \o w) = Len(t) + Len(w)
      /\ \A i \in 1..Len(t \o w) :
           \/ i \in 1..Len(t) /\ (t \o w)[i] = t[i]
           \/ i - Len(t) \in 1..Len(w) /\ (t \o w)[i] = w[i - Len(t)]
  BY ConcatIs
<1>2. 1..Len(<<>>) = {}
  OBVIOUS
<1>3. ASSUME Single(op, e, t, w) PROVE Single(op, e, t \o w, <<>>)
  <2>1. /\ \A i, j \in 1..Len(e) : e[i].call.op = op /\ e[j].call.op = op => i = j
        /\ \A i, j \in 1..Len(t \o w) : (t \o w)[i].op = op /\ (t \o w)[j].op = op => i = j
        /\ \A i, j \in 1..Len(<<>>) : <<>>[i].op = op /\ <<>>[j].op = op => i = j
    BY <1>1, <1>2, <1>3 DEF Single
  <2>2. \A i \in 1..Len(e), j \in 1..Len(t \o w) : ~(e[i].call.op = op /\ (t \o w)[j].op = op)
    BY <1>1, <1>2, <1>3 DEF Single
  <2>3. \A i \in 1..Len(e), j \in 1..Len(<<>>) : ~(e[i].call.op = op /\ <<>>[j].op = op)
    BY <1>1, <1>2, <1>3 DEF Single
  <2>4. \A i \in 1..Len(t \o w), j \in 1..Len(<<>>) : ~((t \o w)[i].op = op /\ <<>>[j].op = op)
    BY <1>1, <1>2, <1>3 DEF Single
  <2> QED BY <2>1, <2>2, <2>3, <2>4 DEF Single
<1>4. ASSUME None(op, e, t, w) PROVE None(op, e, t \o w, <<>>)
  BY <1>1, <1>2, <1>4 DEF None
<1> QED BY <1>3, <1>4

\* A call is added to the transactions, or to those that wait.
LEMMA AddedIsSingle ==
  ASSUME NEW op, NEW e \in Seq(Event), NEW t \in Seq(Calls), NEW w \in Seq(Calls),
         NEW c \in Calls
  PROVE  /\ None(op, e, t, w) => /\ Single(op, e, Append(t, c), w)
                                 /\ Single(op, e, t, Append(w, c))
         /\ c.op # op /\ None(op, e, t, w) => /\ None(op, e, Append(t, c), w)
                                              /\ None(op, e, t, Append(w, c))
         /\ c.op # op /\ Single(op, e, t, w) => /\ Single(op, e, Append(t, c), w)
                                                /\ Single(op, e, t, Append(w, c))
<1>1. /\ Len(t) \in Nat /\ Len(Append(t, c)) = Len(t) + 1
      /\ \A i \in 1..Len(Append(t, c)) : \/ i = Len(t) + 1 /\ Append(t, c)[i] = c
                                         \/ i \in 1..Len(t) /\ Append(t, c)[i] = t[i]
  BY AppendIs
<1>2. /\ Len(w) \in Nat /\ Len(Append(w, c)) = Len(w) + 1
      /\ \A i \in 1..Len(Append(w, c)) : \/ i = Len(w) + 1 /\ Append(w, c)[i] = c
                                         \/ i \in 1..Len(w) /\ Append(w, c)[i] = w[i]
  BY AppendIs
<1>3. ASSUME None(op, e, t, w) PROVE Single(op, e, Append(t, c), w)
  BY <1>1, <1>3 DEF None, Single
<1>4. ASSUME None(op, e, t, w) PROVE Single(op, e, t, Append(w, c))
  BY <1>2, <1>4 DEF None, Single
<1>5. ASSUME c.op # op, None(op, e, t, w)
      PROVE  None(op, e, Append(t, c), w) /\ None(op, e, t, Append(w, c))
  BY <1>1, <1>2, <1>5 DEF None
<1>6. ASSUME c.op # op, Single(op, e, t, w) PROVE Single(op, e, Append(t, c), w)
  BY <1>1, <1>6 DEF Single
<1>7. ASSUME c.op # op, Single(op, e, t, w) PROVE Single(op, e, t, Append(w, c))
  BY <1>2, <1>7 DEF Single
<1> QED BY <1>3, <1>4, <1>5, <1>6, <1>7

\* None is at most one.
LEMMA NoneIsSingle ==
  ASSUME NEW op, NEW e, NEW t, NEW w, None(op, e, t, w)
  PROVE  Single(op, e, t, w)
  BY DEF None, Single
-----------------------------------------------------------------------------
(* Calls of the adapter. *)

\* At the start nothing is under way.
LEMMA InitKeeps == StoreInit => IInv
<1> SUFFICES ASSUME StoreInit PROVE IInv
  OBVIOUS
<1>1. /\ Len(asked) = 0 /\ Len(gens) = 0 /\ Len(queue) = 0 /\ Len(txs) = 0
      /\ Len(events) = 0 /\ Len(waiting) = 0
  BY DEF StoreInit
<1>2. TypeOK
  <2>1. MaxOps \in Nat /\ MaxFaults \in Nat /\ MaxLoads \in Nat
    BY StoreAssumption
  <2>2. /\ asked \in Seq(Kinds) /\ Len(asked) <= MaxOps /\ gens \in Seq(History)
        /\ queue \in Seq(Op) /\ txs \in Seq(Calls) /\ waiting \in Seq(Calls)
        /\ events \in Seq([call : Calls, result : {"committed", "aborted", "lost"}])
    BY <1>1, <2>1 DEF StoreInit
  <2>3. \A i \in 1..Len(queue) - 1 : queue[i].kind = "save" => queue[i + 1].kind = "compact"
    BY <1>1
  <2>4. last \in 0..MaxOps /\ faults \in 0..MaxFaults /\ loads \in 0..MaxLoads
    BY <2>1 DEF StoreInit
  <2>6. active \in Op \cup {Idle} /\ dead \in BOOLEAN
    BY DEF StoreInit
  <2>5. /\ answer \in [1..MaxOps -> {"none", "true", "false"}]
        /\ load \in [at : {"none", "generation", "record", "done", "failed"}, floor : 0..MaxOps,
                     gen : 0..MaxOps + 1, got : History \cup {NoHistory}]
    BY <2>1 DEF StoreInit
  <2> QED BY <2>2, <2>3, <2>4, <2>5, <2>6 DEF TypeOK
<1>3. QueueOK /\ StoredOK
  BY <1>1 DEF StoreInit, QueueOK, StoredOK, Acked
<1>4. CallsOK(events, txs, waiting) /\ ConnectionOK(dead, txs, waiting)
  BY <1>1 DEF StoreInit, CallsOK, ConnectionOK, Ordered, Before
<1>5. SingleOK(active, load, events, txs, waiting)
  BY <1>1 DEF StoreInit, SingleOK, Single, None
<1>6. LoadOK(events, txs, waiting)
  BY <1>1 DEF StoreInit, LoadOK
<1> QED BY <1>2, <1>3, <1>4, <1>5, <1>6 DEF IInv

\* A call that is issued comes after all others: at the end of txs, or of waiting.
LEMMA IssueKeeps ==
  ASSUME NEW t \in Seq(Calls), NEW w \in Seq(Calls), NEW c \in Calls,
         Issue(c, t, w), dead \in BOOLEAN, ConnectionOK(dead, t, w),
         Ordered(t), Ordered(w), Before(t, w),
         IsWrite(c) => /\ \A i \in 1..Len(t) : IsWrite(t[i]) => t[i].k < c.k
                       /\ \A i \in 1..Len(w) : IsWrite(w[i]) => w[i].k < c.k
                       /\ ~dead => NoWrite(w)
  PROVE  /\ \/ ~dead /\ txs' = Append(t, c) /\ waiting' = w
            \/ dead /\ txs' = t /\ waiting' = Append(w, c)
         /\ txs' \in Seq(Calls) /\ waiting' \in Seq(Calls)
         /\ \A i \in 1..Len(txs') : \/ txs'[i] = c
                                    \/ \E j \in 1..Len(t) : txs'[i] = t[j]
         /\ \A i \in 1..Len(waiting') : \/ txs' = t /\ waiting'[i] = c
                                        \/ \E j \in 1..Len(w) : waiting'[i] = w[j]
         /\ ConnectionOK(dead, txs', waiting')
         /\ Ordered(txs') /\ Ordered(waiting') /\ Before(txs', waiting')
<1>1. CASE ~dead
  <2>1. txs' = Append(t, c) /\ waiting' = w
    BY <1>1 DEF Issue
  <2>2. /\ txs' \in Seq(Calls) /\ Len(t) \in Nat /\ Len(txs') = Len(t) + 1
        /\ \A i \in 1..Len(txs') : \/ i = Len(t) + 1 /\ txs'[i] = c
                                   \/ i \in 1..Len(t) /\ txs'[i] = t[i]
    BY <2>1, AppendIs
  <2>3. ConnectionOK(dead, txs', waiting')
    BY <1>1, <2>1 DEF ConnectionOK
  <2>4. Ordered(txs')
    <3> SUFFICES ASSUME NEW i \in 1..Len(txs'), NEW j \in 1..Len(txs'), i < j,
                        IsWrite(txs'[i]), IsWrite(txs'[j])
                 PROVE  txs'[i].k < txs'[j].k
      BY DEF Ordered
    <3>1. i \in 1..Len(t) /\ txs'[i] = t[i]
      BY <2>2
    <3>2. CASE j = Len(t) + 1 /\ txs'[j] = c
      BY <3>1, <3>2
    <3>3. CASE j \in 1..Len(t) /\ txs'[j] = t[j]
      BY <3>1, <3>3 DEF Ordered
    <3> QED BY <3>2, <3>3, <2>2
  <2>5. Before(txs', waiting')
    BY <1>1, <2>1, <2>2 DEF Before, NoWrite
  <2> QED BY <1>1, <2>1, <2>2, <2>3, <2>4, <2>5
<1>2. CASE dead
  <2>1. txs' = t /\ waiting' = Append(w, c) /\ t = <<>>
    BY <1>2 DEF Issue, ConnectionOK
  <2>2. /\ waiting' \in Seq(Calls) /\ Len(w) \in Nat /\ Len(waiting') = Len(w) + 1
        /\ \A i \in 1..Len(waiting') : \/ i = Len(w) + 1 /\ waiting'[i] = c
                                       \/ i \in 1..Len(w) /\ waiting'[i] = w[i]
    BY <2>1, AppendIs
  <2>3. ConnectionOK(dead, txs', waiting')
    BY <1>2, <2>1 DEF ConnectionOK
  <2>4. Ordered(waiting')
    <3> SUFFICES ASSUME NEW i \in 1..Len(waiting'), NEW j \in 1..Len(waiting'), i < j,
                        IsWrite(waiting'[i]), IsWrite(waiting'[j])
                 PROVE  waiting'[i].k < waiting'[j].k
      BY DEF Ordered
    <3>1. i \in 1..Len(w) /\ waiting'[i] = w[i]
      BY <2>2
    <3>2. CASE j = Len(w) + 1 /\ waiting'[j] = c
      BY <3>1, <3>2
    <3>3. CASE j \in 1..Len(w) /\ waiting'[j] = w[j]
      BY <3>1, <3>3 DEF Ordered
    <3> QED BY <3>2, <3>3, <2>2
  <2>5. Before(txs', waiting')
    BY <2>1, <2>2 DEF Before
  <2> QED BY <1>2, <2>1, <2>2, <2>3, <2>4, <2>5
<1> QED BY <1>1, <1>2

\* _pumpChatOps goes on: the awaited call is through.
LEMMA PumpKeeps ==
  ASSUME TypeOK, QueueOK, NEW STATE e, NEW STATE t, NEW STATE w,
         e \in Seq(Event), t \in Seq(Calls), w \in Seq(Calls),
         CallsOK(e, t, w), ConnectionOK(dead, t, w),
         None("queued", e, t, w), Single("load", e, t, w),
         load'.at \in {"none", "done", "failed"} => None("load", e, t, w),
         \A i \in 1..Len(w) : w[i].kind # "record",
         Pump(queue, t, w), asked' = asked, last' = last, dead' = dead, events' = e
  PROVE  /\ queue' \in Seq(Op) /\ active' \in Op \cup {Idle}
         /\ \A i \in 1..Len(queue') - 1 : queue'[i].kind = "save" => queue'[i + 1].kind = "compact"
         /\ txs' \in Seq(Calls) /\ waiting' \in Seq(Calls)
         /\ QueueOK'
         /\ CallsOK(events, txs, waiting)'
         /\ ConnectionOK(dead, txs, waiting)'
         /\ SingleOK(active, load, events, txs, waiting)'
         /\ \A i \in 1..Len(txs') : txs'[i].kind = "record" => \E j \in 1..Len(t) : t[j].kind = "record"
         /\ \A i \in 1..Len(waiting') : waiting'[i].kind # "record"
<1>1. /\ queue \in Seq(Op) /\ asked \in Seq(Kinds) /\ Len(asked) \in Nat /\ Len(asked) <= MaxOps
      /\ last \in Nat /\ MaxOps \in Nat /\ dead \in BOOLEAN
  BY StoreAssumption DEF TypeOK
<1>2. CASE queue = <<>>
  <2>1. queue' = <<>> /\ active' = Idle /\ txs' = t /\ waiting' = w /\ Len(queue') = 0
    BY <1>2 DEF Pump
  <2>2. QueueOK'
    BY <2>1 DEF QueueOK
  <2>3. ASSUME NEW i \in 1..Len(txs') PROVE Fits(txs[i])' /\ ToRun(txs[i])'
    BY <2>1 DEF CallsOK, None, Fits, ToRun
  <2>4. ASSUME NEW i \in 1..Len(waiting') PROVE Fits(waiting[i])' /\ ToRun(waiting[i])'
    BY <2>1 DEF CallsOK, None, Fits, ToRun
  <2>6. ASSUME NEW i \in 1..Len(events') PROVE Decided(events[i], txs, waiting)'
    BY <2>1 DEF CallsOK, None, Decided, Fits
  <2>7. CallsOK(events, txs, waiting)'
    BY <2>1, <2>3, <2>4, <2>6 DEF CallsOK
  <2>5. SingleOK(active, load, events, txs, waiting)'
    BY <2>1, NoneIsSingle DEF SingleOK
  <2> QED BY <2>1, <2>2, <2>7, <2>5 DEF ConnectionOK
<1>3. CASE queue # <<>>
  <2>15. Call("queued", Head(queue).kind, Head(queue).k, 1) \in Calls
    <3>1. Head(queue) \in Op
      BY <1>1, <1>3, TailIs
    <3> QED BY <3>1, <1>1 DEF Call, Calls, Op
  <2>16. PICK c \in Calls : c = Call("queued", Head(queue).kind, Head(queue).k, 1)
    BY <2>15
  <2>1. /\ queue' = Tail(queue) /\ active' = Head(queue) /\ Issue(c, t, w)
    BY <1>3, <2>16 DEF Pump
  <2>2. /\ queue' \in Seq(Op) /\ Len(queue) \in Nat \ {0} /\ Len(queue') = Len(queue) - 1
        /\ active' = queue[1] /\ 1 \in 1..Len(queue) /\ queue[1] \in Op
        /\ \A i \in 1..Len(queue') : queue'[i] = queue[i + 1] /\ i + 1 \in 1..Len(queue)
    BY <1>1, <1>3, <2>1, TailIs
  <2>3. /\ c \in Calls /\ c.op = "queued" /\ c.kind = queue[1].kind /\ c.k = queue[1].k
        /\ c.kind \in Kinds
    BY <1>1, <1>3, <2>2, <2>16, TailIs DEF Call, Calls, Op
  <2>4. active' # Idle /\ active # Idle
    BY <1>3, <2>2 DEF Idle, Op, QueueOK
  <2>5. QueueOK'
    <3>1. ASSUME NEW i \in 1..Len(queue')
          PROVE  OpFits(queue[i])' /\ last' < queue'[i].k /\ active'.k < queue'[i].k
      <4>1. i + 1 \in 1..Len(queue) /\ queue'[i] = queue[i + 1] /\ 1 < i + 1
        BY <2>2
      <4>2. OpFits(queue[i + 1]) /\ last < queue[i + 1].k /\ queue[1].k < queue[i + 1].k
        BY <4>1, <2>2 DEF QueueOK
      <4> QED BY <4>1, <4>2, <2>2 DEF OpFits
    <3>2. ASSUME NEW i \in 1..Len(queue'), NEW j \in 1..Len(queue'), i < j
          PROVE  queue'[i].k < queue'[j].k
      <4>1. i + 1 \in 1..Len(queue) /\ j + 1 \in 1..Len(queue) /\ i + 1 < j + 1
        BY <2>2, <3>2
      <4> QED BY <4>1, <2>2 DEF QueueOK
    <3>3. OpFits(active)' /\ last' <= active'.k
      <4>1. OpFits(queue[1]) /\ last < queue[1].k /\ queue[1].k \in Nat
        BY <2>2, <1>1 DEF QueueOK, Op
      <4> QED BY <4>1, <2>2, <1>1 DEF OpFits
    <3> QED BY <2>4, <3>1, <3>2, <3>3 DEF QueueOK
  <2>6. /\ \A i \in 1..Len(t) : IsWrite(t[i]) => t[i].k < c.k
        /\ \A i \in 1..Len(w) : IsWrite(w[i]) => w[i].k < c.k
    BY <2>2, <2>3 DEF CallsOK, ToRun
  <2>7. ~dead => NoWrite(w)
    <3> SUFFICES ASSUME ~dead, NEW i \in 1..Len(w) PROVE w[i].op = "load"
      BY DEF NoWrite, IsWrite
    <3>1. w[i] \in Calls /\ w[i].op # "direct" /\ w[i].op # "queued"
      BY DEF ConnectionOK, None
    <3> QED BY <3>1 DEF Calls
  <2>8. /\ \/ ~dead /\ txs' = Append(t, c) /\ waiting' = w
           \/ dead /\ txs' = t /\ waiting' = Append(w, c)
        /\ txs' \in Seq(Calls) /\ waiting' \in Seq(Calls)
        /\ \A i \in 1..Len(txs') : \/ txs'[i] = c
                                   \/ \E j \in 1..Len(t) : txs'[i] = t[j]
        /\ \A i \in 1..Len(waiting') : \/ txs' = t /\ waiting'[i] = c
                                       \/ \E j \in 1..Len(w) : waiting'[i] = w[j]
        /\ ConnectionOK(dead, txs', waiting')
        /\ Ordered(txs') /\ Ordered(waiting') /\ Before(txs', waiting')
    BY <1>1, <2>1, <2>3, <2>6, <2>7, IssueKeeps DEF CallsOK
  <2>9. Fits(c)' /\ ToRun(c)'
    <3>1. OpFits(queue[1]) /\ last < queue[1].k
      BY <2>2 DEF QueueOK
    <3>2. Fits(c)'
      BY <2>3, <3>1 DEF Fits, OpFits, Kinds, Promise!Kinds
    <3>3. ToRun(c)'
      BY <2>2, <2>3, <2>4, <2>5, <3>1 DEF ToRun, QueueOK
    <3> QED BY <3>2, <3>3
  <2>10. ASSUME NEW call, Fits(call), ToRun(call), call.op # "queued", call \in Calls
         PROVE  Fits(call)' /\ ToRun(call)'
    <3>1. Fits(call)'
      BY <2>10 DEF Fits
    <3>2. CASE IsWrite(call)
      <4>1. call.op = "direct" /\ last < call.k /\ call.k < queue[1].k
        BY <3>2, <2>2, <2>10 DEF ToRun, IsWrite, Calls
      <4>2. \A i \in 1..Len(queue') : call.k < queue'[i].k
        BY <3>2, <2>2, <2>10 DEF ToRun
      <4> QED BY <3>1, <4>1, <4>2, <2>2 DEF ToRun
    <3> QED BY <3>1, <3>2 DEF ToRun
  <2>11. CallsOK(events, txs, waiting)'
    <3>1. ASSUME NEW i \in 1..Len(txs') PROVE Fits(txs[i])' /\ ToRun(txs[i])'
      <4>1. ASSUME NEW j \in 1..Len(t), txs'[i] = t[j] PROVE Fits(txs[i])' /\ ToRun(txs[i])'
        <5>1. Fits(t[j]) /\ ToRun(t[j]) /\ t[j].op # "queued" /\ t[j] \in Calls
          BY DEF CallsOK, None
        <5> QED BY <4>1, <5>1, <2>10 DEF Fits, ToRun
      <4>2. CASE txs'[i] = c
        BY <4>2, <2>9 DEF Fits, ToRun
      <4> QED BY <4>1, <4>2, <2>8
    <3>2. ASSUME NEW i \in 1..Len(waiting') PROVE Fits(waiting[i])' /\ ToRun(waiting[i])'
      <4>1. ASSUME NEW j \in 1..Len(w), waiting'[i] = w[j] PROVE Fits(waiting[i])' /\ ToRun(waiting[i])'
        <5>1. Fits(w[j]) /\ ToRun(w[j]) /\ w[j].op # "queued" /\ w[j] \in Calls
          BY DEF CallsOK, None
        <5> QED BY <4>1, <5>1, <2>10 DEF Fits, ToRun
      <4>2. CASE waiting'[i] = c
        BY <4>2, <2>9 DEF Fits, ToRun
      <4> QED BY <4>1, <4>2, <2>8
    <3>3. ASSUME NEW i \in 1..Len(events') PROVE Decided(events[i], txs, waiting)'
      <4>1. events' = e /\ Decided(e[i], t, w) /\ e[i].call.op # "queued"
        BY DEF CallsOK, None
      <4> QED BY <4>1 DEF Decided, Fits
    <3> QED BY <2>8, <3>1, <3>2, <3>3 DEF CallsOK
  <2>12. SingleOK(active, load, events, txs, waiting)'
    <3>1. /\ Single("queued", e, txs', waiting') /\ Single("load", e, txs', waiting')
          /\ load'.at \in {"none", "done", "failed"} => None("load", e, txs', waiting')
      <4>1. /\ Single("queued", e, Append(t, c), w) /\ Single("queued", e, t, Append(w, c))
            /\ Single("load", e, Append(t, c), w) /\ Single("load", e, t, Append(w, c))
        BY <2>3, AddedIsSingle
      <4>2. None("load", e, t, w) => None("load", e, Append(t, c), w) /\ None("load", e, t, Append(w, c))
        BY <2>3, AddedIsSingle
      <4> QED BY <2>8, <4>1, <4>2
    <3> QED BY <3>1, <2>4 DEF SingleOK
  <2>13. /\ \A i \in 1..Len(txs') : txs'[i].kind = "record" => \E j \in 1..Len(t) : t[j].kind = "record"
         /\ \A i \in 1..Len(waiting') : waiting'[i].kind # "record"
    BY <2>3, <2>8 DEF Kinds, Promise!Kinds
  <2>14. ASSUME NEW i \in 1..Len(queue') - 1, queue'[i].kind = "save"
         PROVE  queue'[i + 1].kind = "compact"
    <3>1. /\ i \in 1..Len(queue') /\ i + 1 \in 1..Len(queue') /\ i + 1 \in 1..Len(queue) - 1
          /\ queue'[i] = queue[i + 1] /\ queue'[i + 1] = queue[(i + 1) + 1]
      BY <2>2
    <3> QED BY <3>1, <2>14 DEF TypeOK
  <2> QED BY <2>2, <2>5, <2>8, <2>11, <2>12, <2>13, <2>14 DEF ConnectionOK
<1> QED BY <1>2, <1>3
-----------------------------------------------------------------------------
(* The database decides. *)

\* The oldest transaction is decided, with any result.
LEMMA MoveKeeps ==
  ASSUME TypeOK, CallsOK(events, txs, waiting), ConnectionOK(dead, txs, waiting),
         SingleOK(active, load, events, txs, waiting),
         txs # <<>>, NEW ev \in Event, ev.call = Head(txs),
         events' = Append(events, ev), txs' = Tail(txs), waiting' = waiting,
         active' = active, load'.at = load.at, dead' = dead
  PROVE  /\ events' \in Seq(Event) /\ txs' \in Seq(Calls) /\ waiting' \in Seq(Calls)
         /\ Head(txs) \in Calls /\ Head(txs) = txs[1] /\ 1 \in 1..Len(txs)
         /\ \A i \in 1..Len(txs') : txs'[i] = txs[i + 1] /\ i + 1 \in 1..Len(txs) /\ 1 < i + 1
         /\ \A i \in 1..Len(events') : events'[i] = ev \/ (i \in 1..Len(events) /\ events'[i] = events[i])
         /\ Ordered(txs') /\ Ordered(waiting') /\ Before(txs', waiting')
         /\ NoWrite(txs) => NoWrite(txs')
         /\ ConnectionOK(dead', txs', waiting')
         /\ SingleOK(active', load', events', txs', waiting')
<1>1. events \in Seq(Event) /\ txs \in Seq(Calls) /\ waiting \in Seq(Calls)
  BY DEF TypeOK, Event, Results
<1>2. /\ events' \in Seq(Event)
      /\ \A i \in 1..Len(events') : events'[i] = ev \/ (i \in 1..Len(events) /\ events'[i] = events[i])
  BY <1>1, AppendIs
<1>3. /\ txs' \in Seq(Calls) /\ Head(txs) \in Calls /\ Head(txs) = txs[1] /\ 1 \in 1..Len(txs)
      /\ \A i \in 1..Len(txs') : txs'[i] = txs[i + 1] /\ i + 1 \in 1..Len(txs)
      /\ Len(txs) \in Nat /\ Len(txs') = Len(txs) - 1
  BY <1>1, TailIs
<1>4. \A i \in 1..Len(txs') : 1 < i + 1
  BY <1>3
<1>5. Ordered(txs')
  <2> SUFFICES ASSUME NEW i \in 1..Len(txs'), NEW j \in 1..Len(txs'), i < j,
                      IsWrite(txs'[i]), IsWrite(txs'[j])
               PROVE  txs'[i].k < txs'[j].k
    BY DEF Ordered
  <2>1. i + 1 \in 1..Len(txs) /\ j + 1 \in 1..Len(txs) /\ i + 1 < j + 1
    BY <1>3
  <2> QED BY <2>1, <1>3 DEF Ordered, CallsOK
<1>6. Ordered(waiting') /\ Before(txs', waiting')
  BY <1>3 DEF Before, CallsOK
<1>7. NoWrite(txs) => NoWrite(txs')
  BY <1>3 DEF NoWrite
<1>8. ConnectionOK(dead', txs', waiting')
  BY DEF ConnectionOK
<1>9. SingleOK(active', load', events', txs', waiting')
  <2>1. /\ Single("queued", events', txs', waiting') /\ Single("load", events', txs', waiting')
        /\ active = Idle => None("queued", events', txs', waiting')
    BY <1>1, MovedIsSingle DEF SingleOK
  <2>2. load.at \in {"none", "done", "failed"} => None("load", events', txs', waiting')
    BY <1>1, MovedIsSingle DEF SingleOK
  <2> QED BY <2>1, <2>2 DEF SingleOK
<1> QED BY <1>1, <1>2, <1>3, <1>4, <1>5, <1>6, <1>7, <1>8, <1>9

\* A transaction that is decided without an effect on the history.
LEMMA FailureKeeps ==
  ASSUME IInv, txs # <<>>, NEW ev \in Event, ev.call = Head(txs),
         ev.result = "aborted" \/ (ev.result = "lost" /\ Head(txs).op # "direct"),
         events' = Append(events, ev), txs' = Tail(txs), faults' \in 0..MaxFaults,
         UNCHANGED <<asked, last, gens, queue, active, waiting, dead, answer, load, loads>>
  PROVE  IInv'
<1>1. /\ events' \in Seq(Event) /\ txs' \in Seq(Calls) /\ waiting' \in Seq(Calls)
      /\ Head(txs) \in Calls /\ Head(txs) = txs[1] /\ 1 \in 1..Len(txs)
      /\ \A i \in 1..Len(txs') : txs'[i] = txs[i + 1] /\ i + 1 \in 1..Len(txs) /\ 1 < i + 1
      /\ \A i \in 1..Len(events') : events'[i] = ev \/ (i \in 1..Len(events) /\ events'[i] = events[i])
      /\ Ordered(txs') /\ Ordered(waiting') /\ Before(txs', waiting')
      /\ NoWrite(txs) => NoWrite(txs')
      /\ ConnectionOK(dead', txs', waiting')
      /\ SingleOK(active', load', events', txs', waiting')
  BY MoveKeeps DEF IInv
<1>2. TypeOK'
  BY <1>1 DEF IInv, TypeOK, Event, Results
<1>3. QueueOK' /\ StoredOK'
  BY DEF IInv, QueueOK, StoredOK, OpFits, Acked
<1>4. CallsOK(events, txs, waiting)'
  <2>1. ASSUME NEW i \in 1..Len(txs') PROVE Fits(txs[i])' /\ ToRun(txs[i])'
    BY <1>1 DEF IInv, CallsOK, Fits, ToRun
  <2>2. ASSUME NEW i \in 1..Len(waiting') PROVE Fits(waiting[i])' /\ ToRun(waiting[i])'
    BY DEF IInv, CallsOK, Fits, ToRun
  <2>3. ASSUME NEW i \in 1..Len(events') PROVE Decided(events[i], txs, waiting)'
    <3>1. CASE i \in 1..Len(events) /\ events'[i] = events[i]
      BY <3>1, <1>1 DEF IInv, CallsOK, Decided, Fits
    <3>2. CASE events'[i] = ev
      <4>1. Fits(txs[1]) /\ ToRun(txs[1])
        BY <1>1 DEF IInv, CallsOK
      <4>2. Fits(ev.call)' /\ (ev.call.op = "direct" => ev.result # "lost") /\ ev.result # "committed"
        BY <4>1, <1>1 DEF Fits
      <4>3. ASSUME ev.call.op = "queued" PROVE active # Idle /\ ev.call.k = active.k /\ last < ev.call.k
        BY <4>1, <4>3, <1>1 DEF ToRun, IsWrite
      <4>4. ASSUME ev.call.op = "queued", ev.result = "lost" PROVE NoWrite(txs') /\ NoWrite(waiting)
        <5>1. ~dead
          BY DEF IInv, ConnectionOK
        <5>2. ASSUME NEW j \in 1..Len(txs'), IsWrite(txs'[j]) PROVE FALSE
          <6>1. txs[1].k < txs[j + 1].k /\ IsWrite(txs[j + 1])
            BY <1>1, <5>2, <4>4 DEF IInv, CallsOK, Ordered, IsWrite
          <6>2. ToRun(txs[j + 1]) /\ txs[j + 1] \in Calls /\ txs[1] \in Calls
            BY <1>1 DEF IInv, CallsOK, TypeOK
          <6>3. txs[j + 1].op = "direct" \/ txs[j + 1].op = "queued"
            BY <6>1, <6>2 DEF IsWrite, Calls
          <6>4. txs[j + 1].k <= txs[1].k
            <7>1. /\ active # Idle /\ txs[1].k = active.k
                  /\ txs[1].k \in Nat /\ txs[j + 1].k \in Nat
              BY <6>2, <4>3, <4>4, <1>1, StoreAssumption DEF Calls
            <7>2. CASE txs[j + 1].op = "queued"
              BY <7>1, <7>2, <6>1, <6>2 DEF ToRun
            <7>3. CASE txs[j + 1].op = "direct"
              BY <7>1, <7>3, <6>1, <6>2 DEF ToRun
            <7> QED BY <6>3, <7>2, <7>3
          <6> QED BY <6>1, <6>2, <6>4 DEF Calls
        <5>3. ASSUME NEW j \in 1..Len(waiting), IsWrite(waiting[j]) PROVE FALSE
          <6>1. waiting[j] \in Calls /\ waiting[j].op # "direct"
            <7>1. waiting \in Seq(Calls)
              BY DEF IInv, TypeOK
            <7> QED BY <7>1, <5>1 DEF IInv, ConnectionOK
          <6>2. waiting[j].op = "queued" /\ txs[1].op = "queued"
            BY <6>1, <5>3, <4>4, <1>1 DEF IsWrite, Calls
          <6> QED BY <6>2, <1>1 DEF IInv, SingleOK, Single
        <5> QED BY <5>2, <5>3 DEF NoWrite
      <4> QED BY <3>2, <4>2, <4>3, <4>4 DEF Decided, Fits
    <3> QED BY <3>1, <3>2, <1>1
  <2> QED BY <1>1, <2>1, <2>2, <2>3 DEF CallsOK
<1>5. LoadOK(events, txs, waiting)'
  <2>1. GoodGen' = GoodGen /\ GoodGot' = GoodGot
    BY DEF GoodGen, GoodGot, Deleted
  <2>2. \A i \in 1..Len(txs') : txs'[i].kind = "record" => GoodGen'
    BY <1>1, <2>1 DEF IInv, LoadOK
  <2>3. \A i \in 1..Len(events') :
          /\ events'[i].result = "committed" /\ events'[i].call.kind = "generation" => GoodGen'
          /\ events'[i].result = "committed" /\ events'[i].call.kind = "record" => GoodGot'
    BY <1>1, <2>1 DEF IInv, LoadOK
  <2> QED BY <2>1, <2>2, <2>3 DEF IInv, LoadOK
<1> QED BY <1>1, <1>2, <1>3, <1>4, <1>5 DEF IInv

\* A transaction that aborts had no effect.
LEMMA AbortKeeps == ASSUME IInv, Abort PROVE IInv'
<1> DEFINE ev == [call |-> Head(txs), result |-> "aborted"]
<1>1. Head(txs) \in Calls /\ txs # <<>>
  BY TailIs DEF IInv, TypeOK, Abort
<1>2. ev \in Event /\ ev.call = Head(txs) /\ ev.result = "aborted"
  BY <1>1 DEF Event, Results
<1>3. faults' \in 0..MaxFaults
  BY StoreAssumption DEF IInv, TypeOK, Abort
<1> QED BY <1>1, <1>2, <1>3, FailureKeeps DEF Abort

\* A transaction that fails on its own may be repeated: no other write is on its way.
LEMMA InternalErrorKeeps == ASSUME IInv, ~LosesBypassed, InternalError PROVE IInv'
<1> DEFINE ev == [call |-> Head(txs), result |-> "lost"]
<1>1. Head(txs) \in Calls /\ txs # <<>> /\ Head(txs).op # "direct"
  BY TailIs DEF IInv, TypeOK, InternalError, Loses
<1>2. ev \in Event /\ ev.call = Head(txs) /\ ev.result = "lost"
  BY <1>1 DEF Event, Results
<1>3. faults' \in 0..MaxFaults
  BY StoreAssumption DEF IInv, TypeOK, InternalError
<1> QED BY <1>1, <1>2, <1>3, FailureKeeps DEF InternalError
-----------------------------------------------------------------------------
(* A transaction that takes effect. *)

\* What an operation leaves of the generations: the current one is its own.
LEMMA EffectIs ==
  ASSUME MaxOps \in Nat, NEW g \in Seq(History), NEW kind \in Kinds, NEW k \in 1..MaxOps,
         NEW h, h = Promise!Effect(kind, k, g)
  PROVE  /\ h \in Seq(History) /\ Len(h) <= Len(g) + (IF g = <<>> THEN 2 ELSE 1)
         /\ h = <<>> <=> kind = "delete"
         /\ h # <<>> => h[Len(h)].op = k
         /\ \A i \in 1..Len(h) : h[i].op = k \/ (i \in 1..Len(g) /\ h[i] = g[i])
         /\ kind # "delete" => Len(g) <= Len(h)
<1> DEFINE n == IF g = <<>> THEN 1 ELSE Len(g)
           current == [i \in 1..n |-> IF i = n THEN Promise!Full(k) ELSE g[i]]
<1>1. /\ n \in Nat \ {0} /\ Len(g) \in Nat /\ Len(g) <= n /\ n <= Len(g) + 1
      /\ (g # <<>> => n = Len(g)) /\ (g = <<>> => n = 1 /\ Len(g) = 0)
  OBVIOUS
<1>2. /\ Promise!Full(k) \in History /\ Promise!Short(k) \in History
      /\ Promise!Full(k).op = k /\ Promise!Short(k).op = k
  BY DEF Promise!Full, Promise!Short, History, Promise!History
<1>3. ASSUME NEW i \in 1..n, i # n PROVE i \in 1..Len(g) /\ g[i] \in History
  BY <1>1, <1>3
<1>4. current \in Seq(History) /\ Len(current) = n
  <2>1. current \in [1..n -> History]
    BY <1>2, <1>3
  <2> QED BY <2>1, <1>1
<1>5. current[n].op = k /\ \A i \in 1..n : current[i].op = k \/ (i \in 1..Len(g) /\ current[i] = g[i])
  BY <1>1, <1>2, <1>3
<1>6. current # <<>>
  BY <1>1, <1>4
<1> HIDE DEF current
<1>7. CASE kind = "save"
  <2>1. Promise!Effect(kind, k, g) = current
    BY <1>7 DEF Promise!Effect, current
  <2> QED BY <1>1, <1>4, <1>5, <1>6, <1>7, <2>1
<1>8. CASE kind = "compact"
  <2>1. h = Append(current, Promise!Short(k))
    BY <1>8 DEF Promise!Effect, current
  <2>5. current \in Seq(History) /\ Promise!Short(k) \in History /\ Len(current) = n
    BY <1>2, <1>4
  <2>2. /\ h \in Seq(History) /\ Len(h) = n + 1 /\ h # <<>>
        /\ \A i \in 1..Len(h) : \/ i = n + 1 /\ h[i] = Promise!Short(k)
                                \/ i \in 1..n /\ h[i] = current[i]
    <3> HIDE DEF n
    <3> QED BY <2>1, <2>5, AppendIs
  <2>3. h[Len(h)].op = k
    BY <2>2, <1>1, <1>2
  <2>4. \A i \in 1..Len(h) : h[i].op = k \/ (i \in 1..Len(g) /\ h[i] = g[i])
    BY <2>2, <1>2, <1>5
  <2> QED BY <2>1, <2>2, <2>3, <2>4, <1>1, <1>8
<1>9. CASE kind = "delete"
  <2>1. Promise!Effect(kind, k, g) = <<>>
    BY <1>9 DEF Promise!Effect
  <2> QED BY <2>1, <1>1, <1>9
<1> QED BY <1>7, <1>8, <1>9 DEF Kinds, Promise!Kinds

\* A load that has read the generations is not put back by a later operation.
LEMMA LoadStaysGood ==
  ASSUME IInv, NEW k \in 1..Len(asked), last < k, asked[k] \in Kinds,
         gens' = Promise!Effect(asked[k], k, gens), load' = load, asked' = asked
  PROVE  (GoodGen => GoodGen') /\ GoodGot' = GoodGot
<1>1. GoodGot' = GoodGot
  BY DEF GoodGot, Deleted
<1>2. /\ MaxOps \in Nat /\ gens \in Seq(History) /\ k \in 1..MaxOps /\ last \in Nat
      /\ load.floor \in Nat /\ load.gen \in Nat /\ load.floor < k /\ Len(asked) \in Nat
  BY StoreAssumption DEF IInv, TypeOK, LoadOK
<1>3. /\ gens' \in Seq(History)
      /\ gens' = <<>> <=> asked[k] = "delete"
      /\ \A i \in 1..Len(gens') : gens'[i].op = k \/ (i \in 1..Len(gens) /\ gens'[i] = gens[i])
      /\ asked[k] # "delete" => Len(gens) <= Len(gens')
  <2>1. PICK kind \in Kinds : kind = asked[k]
    OBVIOUS
  <2>2. PICK h : h = Promise!Effect(kind, k, gens)
    OBVIOUS
  <2>3. /\ h \in Seq(History)
        /\ h = <<>> <=> kind = "delete"
        /\ \A i \in 1..Len(h) : h[i].op = k \/ (i \in 1..Len(gens) /\ h[i] = gens[i])
        /\ kind # "delete" => Len(gens) <= Len(h)
    BY <1>2, <2>2, EffectIs
  <2>4. gens' = h
    BY <2>1, <2>2
  <2> QED BY <2>1, <2>3, <2>4
<1>4. ASSUME GoodGen PROVE GoodGen'
  <2>1. CASE load.gen \in 1..Len(gens')
    <3>1. gens'[load.gen].op >= load.floor
      BY <2>1, <1>2, <1>3, <1>4 DEF GoodGen
    <3> QED BY <2>1, <3>1 DEF GoodGen
  <2>2. CASE load.gen \notin 1..Len(gens')
    <3>1. CASE asked[k] = "delete"
      <4>1. Deleted(load.floor)'
        <5>1. k \in load.floor + 1..Len(asked)
          BY <1>2
        <5> QED BY <5>1, <3>1 DEF Deleted
      <4> QED BY <2>2, <4>1 DEF GoodGen
    <3>2. CASE asked[k] # "delete"
      <4>1. load.gen \notin 1..Len(gens)
        <5>1. Len(gens) \in Nat /\ Len(gens') \in Nat
          BY <1>2, <1>3
        <5> QED BY <5>1, <2>2, <3>2, <1>3, <1>2
      <4> QED BY <2>2, <4>1, <1>4 DEF GoodGen, Deleted
    <3> QED BY <3>1, <3>2
  <2> QED BY <2>1, <2>2
<1> QED BY <1>1, <1>4

\* A read changes what the load has found; a write is the newest one.
LEMMA CommitKeeps == ASSUME IInv, Commit PROVE IInv'
<1> DEFINE ev == [call |-> Head(txs), result |-> "committed"]
<1>1. /\ txs # <<>> /\ Head(txs) \in Calls /\ Head(txs) = txs[1] /\ 1 \in 1..Len(txs)
      /\ Fits(txs[1]) /\ ToRun(txs[1])
  BY TailIs DEF IInv, TypeOK, Commit, CallsOK
<1>2. ev \in Event /\ ev.call = txs[1] /\ ev.result = "committed"
  BY <1>1 DEF Event, Results
<1>3. /\ events' = Append(events, ev) /\ txs' = Tail(txs) /\ waiting' = waiting
      /\ asked' = asked /\ queue' = queue /\ active' = active /\ dead' = dead
      /\ faults' = faults /\ answer' = answer /\ loads' = loads
  BY DEF Commit
<1>4. /\ MaxOps \in Nat /\ asked \in Seq(Kinds) /\ Len(asked) \in Nat /\ Len(asked) <= MaxOps
      /\ last \in 0..MaxOps /\ gens \in Seq(History) /\ Len(gens) \in Nat
      /\ load \in [at : {"none", "generation", "record", "done", "failed"}, floor : 0..MaxOps,
                   gen : 0..MaxOps + 1, got : History \cup {NoHistory}]
  BY StoreAssumption DEF IInv, TypeOK
<1>5. CASE txs[1].op = "load"
  <2>1. load' = Read(txs[1].kind) /\ last' = last /\ gens' = gens
    BY <1>1, <1>5 DEF Commit
  <2>2. txs[1].kind \in {"generation", "record"}
    BY <1>1, <1>5 DEF Fits
  <2>3. /\ load' \in [at : {"none", "generation", "record", "done", "failed"}, floor : 0..MaxOps,
                      gen : 0..MaxOps + 1, got : History \cup {NoHistory}]
        /\ load'.at = load.at /\ load'.floor = load.floor
        /\ txs[1].kind = "generation" =>
             load'.gen = (IF gens = <<>> THEN 1 ELSE Len(gens)) /\ load'.got = load.got
        /\ txs[1].kind = "record" =>
             /\ load'.gen = load.gen
             /\ load'.got = IF load.gen \in 1..Len(gens) THEN gens[load.gen] ELSE NoHistory
    <3>1. (IF gens = <<>> THEN 1 ELSE Len(gens)) \in 0..MaxOps + 1
      BY <1>4, StoreAssumption DEF IInv, StoredOK
    <3>2. load.gen \in 1..Len(gens) => gens[load.gen] \in History
      BY <1>4
    <3> QED BY <1>4, <2>1, <2>2, <3>1, <3>2 DEF Read
  <2>4. /\ events' \in Seq(Event) /\ txs' \in Seq(Calls) /\ waiting' \in Seq(Calls)
        /\ \A i \in 1..Len(txs') : txs'[i] = txs[i + 1] /\ i + 1 \in 1..Len(txs) /\ 1 < i + 1
        /\ \A i \in 1..Len(events') : events'[i] = ev \/ (i \in 1..Len(events) /\ events'[i] = events[i])
        /\ Ordered(txs') /\ Ordered(waiting') /\ Before(txs', waiting')
        /\ NoWrite(txs) => NoWrite(txs')
        /\ ConnectionOK(dead', txs', waiting')
        /\ SingleOK(active', load', events', txs', waiting')
    BY <1>1, <1>2, <1>3, <2>3, MoveKeeps DEF IInv
  <2>5. TypeOK'
    BY <1>3, <2>1, <2>3, <2>4 DEF IInv, TypeOK, Event, Results
  <2>6. QueueOK' /\ StoredOK'
    BY <1>3, <2>1 DEF IInv, QueueOK, StoredOK, OpFits, Acked
  <2>7. CallsOK(events, txs, waiting)'
    <3>1. ASSUME NEW i \in 1..Len(txs') PROVE Fits(txs[i])' /\ ToRun(txs[i])'
      BY <1>3, <2>1, <2>4 DEF IInv, CallsOK, Fits, ToRun
    <3>2. ASSUME NEW i \in 1..Len(waiting') PROVE Fits(waiting[i])' /\ ToRun(waiting[i])'
      BY <1>3, <2>1 DEF IInv, CallsOK, Fits, ToRun
    <3>3. ASSUME NEW i \in 1..Len(events') PROVE Decided(events[i], txs, waiting)'
      <4>1. CASE i \in 1..Len(events) /\ events'[i] = events[i]
        BY <4>1, <1>3, <2>1, <2>4 DEF IInv, CallsOK, Decided, Fits
      <4>2. CASE events'[i] = ev
        BY <4>2, <1>1, <1>2, <1>3, <1>5 DEF Decided, Fits
      <4> QED BY <4>1, <4>2, <2>4
    <3> QED BY <2>4, <3>1, <3>2, <3>3 DEF CallsOK
  <2>8. LoadOK(events, txs, waiting)'
    <3>1. /\ load'.floor <= last' /\ (load'.floor > 0 => asked'[load'.floor] = "save")
          /\ \A i \in 1..Len(waiting') : waiting'[i].kind # "record"
          /\ load'.floor \in Nat /\ last \in Nat
      BY <1>3, <1>4, <2>1, <2>3 DEF IInv, LoadOK
    <3>2. CASE txs[1].kind = "generation"
      <4>1. GoodGot' = GoodGot
        BY <1>3, <2>3, <3>2 DEF GoodGot, Deleted
      <4>2. CASE gens = <<>>
        <5>1. load'.floor > 0 => last \in load'.floor + 1..Len(asked) /\ asked[last] = "delete"
          BY <4>2, <3>1, <1>3, <1>4, <2>1 DEF IInv, StoredOK
        <5>2. load'.gen \notin 1..Len(gens')
          BY <4>2, <3>2, <2>1, <2>3
        <5>3. load'.floor > 0 => Deleted(load'.floor)
          BY <5>1 DEF Deleted
        <5> QED BY <5>2, <5>3, <4>1, <3>1, <2>3, <2>4, <1>2, <3>2, <1>3 DEF GoodGen, Deleted, LoadOK, IInv
      <4>3. CASE gens # <<>>
        <5>1. load'.gen = Len(gens) /\ Len(gens) \in 1..Len(gens) /\ gens[Len(gens)].op = last
          BY <4>3, <1>4, <2>3, <3>2 DEF IInv, StoredOK
        <5>2. GoodGen'
          BY <5>1, <3>1, <2>1 DEF GoodGen
        <5> QED BY <5>2, <4>1, <3>1, <2>3, <2>4, <1>2, <3>2 DEF LoadOK, IInv
      <4> QED BY <4>2, <4>3
    <3>3. CASE txs[1].kind = "record"
      <4>1. GoodGen' = GoodGen /\ GoodGen
        BY <1>1, <1>3, <2>1, <2>3, <3>3 DEF GoodGen, Deleted, IInv, LoadOK
      <4>2. GoodGot'
        <5>1. CASE load.gen \in 1..Len(gens)
          <6>1. load'.got = gens[load.gen] /\ load'.got \in History /\ load'.got.op >= load'.floor
            BY <5>1, <4>1, <2>3, <3>3, <1>4 DEF GoodGen
          <6>2. load'.got # NoHistory
            BY <6>1, <1>4 DEF NoHistory, History, Promise!History
          <6> QED BY <6>1, <6>2 DEF GoodGot
        <5>2. CASE load.gen \notin 1..Len(gens)
          BY <5>2, <4>1, <2>3, <3>3, <1>3 DEF GoodGen, GoodGot, Deleted
        <5> QED BY <5>1, <5>2
      <4> QED BY <4>1, <4>2, <3>1, <2>3, <2>4, <1>2, <3>3 DEF LoadOK, IInv
    <3> QED BY <2>2, <3>2, <3>3
  <2> QED BY <2>4, <2>5, <2>6, <2>7, <2>8 DEF IInv
<1>6. CASE txs[1].op # "load"
  <2>1. load' = load /\ last' = txs[1].k /\ gens' = Promise!Effect(txs[1].kind, txs[1].k, gens)
    BY <1>1, <1>6 DEF Commit
  <2>2. /\ txs[1].k \in 1..Len(asked) /\ asked[txs[1].k] = txs[1].kind /\ last < txs[1].k
        /\ asked[txs[1].k] \in Kinds /\ txs[1].k \in 1..MaxOps
        /\ \A i \in 1..Len(queue) : txs[1].k < queue[i].k
        /\ txs[1].op = "queued" => active # Idle /\ txs[1].k = active.k
        /\ txs[1].op = "direct" /\ active # Idle => txs[1].k < active.k
    BY <1>1, <1>4, <1>6 DEF Fits, ToRun, IsWrite
  <2>3. txs[1].op = "queued" \/ txs[1].op = "direct"
    BY <1>1, <1>6 DEF Calls
  <2>4. /\ events' \in Seq(Event) /\ txs' \in Seq(Calls) /\ waiting' \in Seq(Calls)
        /\ \A i \in 1..Len(txs') : txs'[i] = txs[i + 1] /\ i + 1 \in 1..Len(txs) /\ 1 < i + 1
        /\ \A i \in 1..Len(events') : events'[i] = ev \/ (i \in 1..Len(events) /\ events'[i] = events[i])
        /\ Ordered(txs') /\ Ordered(waiting') /\ Before(txs', waiting')
        /\ NoWrite(txs) => NoWrite(txs')
        /\ ConnectionOK(dead', txs', waiting')
        /\ SingleOK(active', load', events', txs', waiting')
    BY <1>1, <1>2, <1>3, <2>1, MoveKeeps DEF IInv
  <2>5. /\ gens' \in Seq(History) /\ Len(gens') <= Len(gens) + (IF gens = <<>> THEN 2 ELSE 1)
        /\ gens' = <<>> <=> asked[txs[1].k] = "delete"
        /\ gens' # <<>> => gens'[Len(gens')].op = txs[1].k
    <3>1. PICK kind \in Kinds : kind = txs[1].kind
      BY <2>2
    <3>2. PICK k \in 1..MaxOps : k = txs[1].k
      BY <2>2
    <3>3. PICK h : h = Promise!Effect(kind, k, gens)
      OBVIOUS
    <3>4. /\ h \in Seq(History) /\ Len(h) <= Len(gens) + (IF gens = <<>> THEN 2 ELSE 1)
          /\ h = <<>> <=> kind = "delete"
          /\ h # <<>> => h[Len(h)].op = k
      BY <1>4, <3>3, EffectIs
    <3>5. gens' = h
      BY <2>1, <3>1, <3>2, <3>3
    <3> QED BY <2>2, <3>1, <3>2, <3>4, <3>5
  <2>6. TypeOK'
    <3>1. last' \in 0..MaxOps
      BY <2>1, <2>2, <1>4
    <3> QED BY <1>3, <2>1, <2>4, <2>5, <3>1 DEF IInv, TypeOK, Event, Results
  <2>7. QueueOK'
    <3>1. active # Idle => last' <= active.k
      <4>1. active # Idle => active.k \in Nat
        BY <1>4 DEF IInv, TypeOK, Op
      <4> QED BY <4>1, <2>1, <2>2, <2>3
    <3> QED BY <1>3, <2>1, <2>2, <3>1 DEF IInv, QueueOK, OpFits
  <2>8. StoredOK'
    <3>1. last' <= Len(asked') /\ last' > 0 /\ Len(gens') <= last' + 1
      <4>1. last \in Nat /\ Len(gens) <= last + 1 /\ txs[1].k \in Nat /\ Len(gens') \in Nat
        BY <1>4, <2>2, <2>5 DEF IInv, StoredOK
      <4>2. gens = <<>> => Len(gens) = 0
        OBVIOUS
      <4>3. Len(gens') <= last' + 1
        <5>1. last' = txs[1].k /\ last < txs[1].k
          BY <2>1, <2>2
        <5>2. CASE gens = <<>>
          <6>1. Len(gens') <= 2
            BY <2>5, <4>2, <5>2
          <6> QED BY <6>1, <4>1, <5>1
        <5>3. CASE gens # <<>>
          <6>1. Len(gens') <= Len(gens) + 1
            BY <2>5, <5>3
          <6> QED BY <6>1, <4>1, <5>1, <1>4
        <5> QED BY <5>2, <5>3
      <4> QED BY <4>1, <4>3, <1>3, <1>4, <2>1, <2>2
    <3>2. \A k \in Acked' : k <= last' /\ asked'[k] = "save"
      <4>1. Acked' = Acked
        BY <1>3 DEF Acked
      <4>2. \A k \in Acked : k \in Nat /\ k <= last /\ asked[k] = "save"
        BY <1>4 DEF IInv, StoredOK, Acked
      <4> QED BY <4>1, <4>2, <1>3, <1>4, <2>1, <2>2
    <3> QED BY <1>3, <2>1, <2>5, <3>1, <3>2 DEF StoredOK
  <2>9. CallsOK(events, txs, waiting)'
    <3>1. ASSUME NEW i \in 1..Len(txs') PROVE Fits(txs[i])' /\ ToRun(txs[i])'
      <4>1. txs'[i] = txs[i + 1] /\ Fits(txs[i + 1]) /\ ToRun(txs[i + 1])
        BY <2>4 DEF IInv, CallsOK
      <4>2. IsWrite(txs[i + 1]) => txs[1].k < txs[i + 1].k
        BY <1>1, <1>6, <2>4 DEF IInv, CallsOK, Ordered, IsWrite
      <4> QED BY <4>1, <4>2, <1>3, <2>1 DEF Fits, ToRun
    <3>2. ASSUME NEW i \in 1..Len(waiting') PROVE Fits(waiting[i])' /\ ToRun(waiting[i])'
      <4>1. Fits(waiting[i]) /\ ToRun(waiting[i])
        BY <1>3 DEF IInv, CallsOK
      <4>2. IsWrite(waiting[i]) => txs[1].k < waiting[i].k
        BY <1>1, <1>3, <1>6 DEF IInv, CallsOK, Before, IsWrite
      <4> QED BY <4>1, <4>2, <1>3, <2>1 DEF Fits, ToRun
    <3>3. ASSUME NEW i \in 1..Len(events') PROVE Decided(events[i], txs, waiting)'
      <4>1. CASE i \in 1..Len(events) /\ events'[i] = events[i]
        <5>1. Decided(events[i], txs, waiting) /\ events[i].call \in Calls
          <6>1. events \in Seq(Event)
            BY DEF IInv, TypeOK, Event, Results
          <6>2. events[i] \in Event
            BY <4>1, <6>1
          <6> QED BY <4>1, <6>2 DEF IInv, CallsOK, Event
        <5>2. ~NoWrite(txs)
          BY <1>1, <1>6 DEF NoWrite, IsWrite
        <5>3. events[i].call.k <= last => events[i].call.k <= last'
          <6>1. events[i].call.k \in Nat /\ last \in Nat /\ txs[1].k \in Nat
            BY <5>1, <1>4, <2>2 DEF Calls
          <6> QED BY <6>1, <2>1, <2>2
        <5> QED BY <4>1, <5>1, <5>2, <5>3, <1>3 DEF Decided, Fits
      <4>2. CASE events'[i] = ev
        <5>1. ev.call.k <= last' /\ (ev.call.op = "queued" => active' # Idle /\ ev.call.k = active'.k)
          BY <1>2, <1>3, <2>1, <2>2, <1>4
        <5> QED BY <4>2, <1>1, <1>2, <1>3, <5>1 DEF Decided, Fits
      <4> QED BY <4>1, <4>2, <2>4
    <3> QED BY <2>4, <3>1, <3>2, <3>3 DEF CallsOK
  <2>10. LoadOK(events, txs, waiting)'
    <3>1. (GoodGen => GoodGen') /\ GoodGot' = GoodGot
      BY <1>3, <2>1, <2>2, LoadStaysGood
    <3>2. /\ load'.floor <= last' /\ (load'.floor > 0 => asked'[load'.floor] = "save")
          /\ \A i \in 1..Len(waiting') : waiting'[i].kind # "record"
      BY <1>3, <1>4, <2>1, <2>2 DEF IInv, LoadOK
    <3>3. \A i \in 1..Len(txs') : txs'[i].kind = "record" => GoodGen'
      BY <2>4, <3>1 DEF IInv, LoadOK
    <3>4. txs[1].kind # "generation" /\ txs[1].kind # "record"
      BY <1>1, <1>6 DEF Fits
    <3>5. \A i \in 1..Len(events') :
            /\ events'[i].result = "committed" /\ events'[i].call.kind = "generation" => GoodGen'
            /\ events'[i].result = "committed" /\ events'[i].call.kind = "record" => GoodGot'
      BY <1>2, <2>4, <3>1, <3>4 DEF IInv, LoadOK
    <3>6. load'.at = "done" => GoodGot'
      BY <2>1, <3>1 DEF IInv, LoadOK
    <3> QED BY <3>2, <3>3, <3>5, <3>6 DEF LoadOK
  <2> QED BY <2>4, <2>6, <2>7, <2>8, <2>9, <2>10 DEF IInv
<1> QED BY <1>5, <1>6
-----------------------------------------------------------------------------
(* The connection. *)

\* Every transaction fails, and the awaited operation is repeated before any other.
LEMMA LoseConnectionKeeps == ASSUME IInv, ~LosesBypassed, LoseConnection PROVE IInv'
<1> DEFINE f == [i \in 1..Len(txs) |-> [call |-> txs[i], result |-> "lost"]]
<1>1. /\ faults < MaxFaults /\ ~dead /\ \A i \in 1..Len(txs) : txs[i].op # "direct"
      /\ dead' = TRUE /\ events' = events \o f /\ txs' = <<>> /\ faults' = faults + 1
      /\ UNCHANGED <<asked, last, gens, queue, active, waiting, answer, load, loads>>
  BY DEF LoseConnection, Loses
<1>2. events \in Seq(Event) /\ txs \in Seq(Calls) /\ waiting \in Seq(Calls) /\ Len(txs) \in Nat
  BY DEF IInv, TypeOK, Event, Results
<1>3. f \in Seq(Event) /\ Len(f) = Len(txs) /\ \A i \in 1..Len(txs) : f[i].call = txs[i] /\ f[i].result = "lost"
  <2>1. \A i \in 1..Len(txs) : [call |-> txs[i], result |-> "lost"] \in Event
    BY <1>2 DEF Event, Results
  <2>2. f \in [1..Len(txs) -> Event]
    BY <2>1
  <2>3. f \in Seq(Event) /\ Len(f) = Len(txs)
    <3> HIDE DEF f
    <3> QED BY <1>2, <2>2
  <2>4. \A i \in 1..Len(txs) : f[i].call = txs[i] /\ f[i].result = "lost"
    OBVIOUS
  <2> QED BY <2>3, <2>4
<1>4. /\ events' \in Seq(Event) /\ Len(events) \in Nat
      /\ \A i \in 1..Len(events') :
           \/ i \in 1..Len(events) /\ events'[i] = events[i]
           \/ /\ i - Len(events) \in 1..Len(txs)
              /\ events'[i].call = txs[i - Len(events)] /\ events'[i].result = "lost"
  <2> HIDE DEF f
  <2> QED BY <1>1, <1>2, <1>3, ConcatIs
<1>5. Len(txs') = 0 /\ txs' \in Seq(Calls) /\ faults' \in 0..MaxFaults
  BY <1>1, StoreAssumption DEF IInv, TypeOK
<1>6. TypeOK'
  BY <1>1, <1>2, <1>4, <1>5 DEF IInv, TypeOK, Event, Results
<1>7. QueueOK' /\ StoredOK'
  BY <1>1 DEF IInv, QueueOK, StoredOK, OpFits, Acked
<1>8. ConnectionOK(dead, txs, waiting)'
  BY <1>1 DEF ConnectionOK
<1>9. SingleOK(active, load, events, txs, waiting)'
  <2>1. /\ Single("queued", events \o f, <<>>, waiting) /\ Single("load", events \o f, <<>>, waiting)
        /\ None("queued", events, txs, waiting) => None("queued", events \o f, <<>>, waiting)
        /\ None("load", events, txs, waiting) => None("load", events \o f, <<>>, waiting)
    BY <1>2, <1>3, LostIsSingle DEF IInv, SingleOK
  <2> QED BY <1>1, <2>1 DEF IInv, SingleOK
<1>10. CallsOK(events, txs, waiting)'
  <2>1. ASSUME NEW i \in 1..Len(waiting') PROVE Fits(waiting[i])' /\ ToRun(waiting[i])'
    BY <1>1 DEF IInv, CallsOK, Fits, ToRun
  <2>2. ASSUME NEW i \in 1..Len(events') PROVE Decided(events[i], txs, waiting)'
    <3>1. CASE i \in 1..Len(events) /\ events'[i] = events[i]
      BY <3>1, <1>1, <1>5 DEF IInv, CallsOK, Decided, Fits, NoWrite
    <3>2. CASE /\ i - Len(events) \in 1..Len(txs)
               /\ events'[i].call = txs[i - Len(events)] /\ events'[i].result = "lost"
      <4> DEFINE j == i - Len(events)
      <4>1. Fits(txs[j]) /\ ToRun(txs[j]) /\ j \in 1..Len(txs) /\ txs[j].op # "direct"
        BY <3>2, <1>1 DEF IInv, CallsOK
      <4>2. Fits(events[i].call)'
        BY <3>2, <4>1, <1>1 DEF Fits
      <4>3. ASSUME txs[j].op = "queued"
            PROVE  active # Idle /\ txs[j].k = active.k /\ last < txs[j].k /\ NoWrite(waiting)
        <5>1. ASSUME NEW n \in 1..Len(waiting), IsWrite(waiting[n]) PROVE FALSE
          <6>1. waiting[n] \in Calls /\ waiting[n].op # "direct"
            BY <1>1, <1>2 DEF IInv, ConnectionOK
          <6>2. waiting[n].op = "queued"
            BY <6>1, <5>1 DEF IsWrite, Calls
          <6> QED BY <6>2, <4>1, <4>3 DEF IInv, SingleOK, Single
        <5> QED BY <4>1, <4>3, <5>1 DEF ToRun, IsWrite, NoWrite
      <4> QED BY <3>2, <4>1, <4>2, <4>3, <1>1, <1>5 DEF Decided, NoWrite
    <3> QED BY <3>1, <3>2, <1>4
  <2>3. Ordered(txs') /\ Ordered(waiting') /\ Before(txs', waiting')
    BY <1>1, <1>5 DEF IInv, CallsOK, Ordered, Before
  <2> QED BY <1>5, <2>1, <2>2, <2>3 DEF CallsOK
<1>11. LoadOK(events, txs, waiting)'
  <2>1. GoodGen' = GoodGen /\ GoodGot' = GoodGot
    BY <1>1 DEF GoodGen, GoodGot, Deleted
  <2>2. \A i \in 1..Len(events') :
          /\ events'[i].result = "committed" /\ events'[i].call.kind = "generation" => GoodGen'
          /\ events'[i].result = "committed" /\ events'[i].call.kind = "record" => GoodGot'
    BY <1>4, <2>1 DEF IInv, LoadOK
  <2> QED BY <1>1, <1>5, <2>1, <2>2 DEF IInv, LoadOK
<1> QED BY <1>6, <1>7, <1>8, <1>9, <1>10, <1>11 DEF IInv

\* The calls that waited come after the transactions there are.
LEMMA ReopenKeeps == ASSUME IInv, Reopen PROVE IInv'
<1>1. /\ dead' = FALSE /\ txs' = txs \o waiting /\ waiting' = <<>> /\ Len(waiting') = 0
      /\ UNCHANGED <<asked, last, gens, queue, active, events, faults, answer, load, loads>>
  BY DEF Reopen
<1>2. events \in Seq(Event) /\ txs \in Seq(Calls) /\ waiting \in Seq(Calls)
  BY DEF IInv, TypeOK, Event, Results
<1>3. /\ txs' \in Seq(Calls) /\ Len(txs) \in Nat /\ Len(waiting) \in Nat
      /\ \A i \in 1..Len(txs') :
           \/ i \in 1..Len(txs) /\ txs'[i] = txs[i]
           \/ /\ i > Len(txs) /\ i - Len(txs) \in 1..Len(waiting)
              /\ txs'[i] = waiting[i - Len(txs)]
  BY <1>1, <1>2, ConcatIs
<1>4. TypeOK'
  <2>1. dead' \in BOOLEAN
    BY <1>1
  <2>2. waiting' \in Seq(Calls)
    BY <1>1
  <2> QED BY <1>1, <1>2, <1>3, <2>1, <2>2 DEF IInv, TypeOK
<1>5. QueueOK' /\ StoredOK'
  BY <1>1 DEF IInv, QueueOK, StoredOK, OpFits, Acked
<1>6. ConnectionOK(dead, txs, waiting)'
  BY <1>1 DEF ConnectionOK
<1>7. SingleOK(active, load, events, txs, waiting)'
  <2>1. /\ Single("queued", events, txs \o waiting, <<>>) /\ Single("load", events, txs \o waiting, <<>>)
        /\ None("queued", events, txs, waiting) => None("queued", events, txs \o waiting, <<>>)
        /\ None("load", events, txs, waiting) => None("load", events, txs \o waiting, <<>>)
    BY <1>2, ReopenedIsSingle DEF IInv, SingleOK
  <2> QED BY <1>1, <2>1 DEF IInv, SingleOK
<1>8. CallsOK(events, txs, waiting)'
  <2>1. ASSUME NEW i \in 1..Len(txs') PROVE Fits(txs[i])' /\ ToRun(txs[i])'
    <3>1. Fits(txs'[i]) /\ ToRun(txs'[i])
      BY <1>3 DEF IInv, CallsOK
    <3> QED BY <1>1, <3>1 DEF Fits, ToRun
  <2>2. ASSUME NEW i \in 1..Len(events') PROVE Decided(events[i], txs, waiting)'
    <3>1. Decided(events[i], txs, waiting)
      BY <1>1 DEF IInv, CallsOK
    <3>2. NoWrite(txs) /\ NoWrite(waiting) => NoWrite(txs') /\ NoWrite(waiting')
      <4> SUFFICES ASSUME NoWrite(txs), NoWrite(waiting), NEW j \in 1..Len(txs')
                   PROVE  ~IsWrite(txs'[j])
        BY <1>1 DEF NoWrite
      <4> QED BY <1>3 DEF NoWrite
    <3> QED BY <1>1, <3>1, <3>2 DEF Decided, Fits
  <2>3. Ordered(txs')
    <3> SUFFICES ASSUME NEW i \in 1..Len(txs'), NEW j \in 1..Len(txs'), i < j,
                        IsWrite(txs'[i]), IsWrite(txs'[j])
                 PROVE  txs'[i].k < txs'[j].k
      BY DEF Ordered
    <3>1. CASE j \in 1..Len(txs) /\ txs'[j] = txs[j]
      <4>1. i \in 1..Len(txs) /\ txs'[i] = txs[i]
        BY <3>1, <1>3
      <4> QED BY <3>1, <4>1 DEF IInv, CallsOK, Ordered
    <3>2. CASE j > Len(txs) /\ j - Len(txs) \in 1..Len(waiting) /\ txs'[j] = waiting[j - Len(txs)]
      <4>1. CASE i \in 1..Len(txs) /\ txs'[i] = txs[i]
        BY <3>2, <4>1 DEF IInv, CallsOK, Before
      <4>2. CASE i > Len(txs) /\ i - Len(txs) \in 1..Len(waiting) /\ txs'[i] = waiting[i - Len(txs)]
        <5>1. i - Len(txs) < j - Len(txs)
          BY <1>3, <3>2, <4>2
        <5> QED BY <3>2, <4>2, <5>1 DEF IInv, CallsOK, Ordered
      <4> QED BY <4>1, <4>2, <1>3
    <3> QED BY <3>1, <3>2, <1>3
  <2>4. Ordered(waiting') /\ Before(txs', waiting')
    BY <1>1 DEF Ordered, Before
  <2> QED BY <1>1, <2>1, <2>2, <2>3, <2>4 DEF CallsOK
<1>9. LoadOK(events, txs, waiting)'
  <2>1. GoodGen' = GoodGen /\ GoodGot' = GoodGot
    BY <1>1 DEF GoodGen, GoodGot, Deleted
  <2>2. \A i \in 1..Len(txs') : txs'[i].kind = "record" => GoodGen'
    BY <1>3, <2>1 DEF IInv, LoadOK
  <2> QED BY <1>1, <2>1, <2>2 DEF IInv, LoadOK
<1> QED BY <1>4, <1>5, <1>6, <1>7, <1>8, <1>9 DEF IInv
-----------------------------------------------------------------------------
(* The page hears of a call. *)

\* The operation that is awaited is through, and its callers are answered.
LEMMA QueuedEnds ==
  ASSUME IInv, active # Idle, NEW value \in {"true", "false"}, value = "true" => active.k <= last,
         NEW STATE e, NEW STATE t, NEW STATE w,
         e \in Seq(Event), t \in Seq(Calls), w \in Seq(Calls),
         InFlightOK(e, t, w), None("queued", e, t, w),
         Answer(active.waiters, value), Pump(queue, t, w), events' = e,
         UNCHANGED <<asked, last, gens, dead, faults, load, loads>>
  PROVE  IInv'
<1>1. /\ TypeOK /\ QueueOK /\ StoredOK /\ CallsOK(e, t, w) /\ ConnectionOK(dead, t, w)
      /\ SingleOK(active, load, e, t, w) /\ LoadOK(e, t, w)
      /\ asked' = asked /\ last' = last /\ gens' = gens /\ dead' = dead /\ faults' = faults
      /\ load' = load /\ loads' = loads
  BY DEF IInv, InFlightOK
<1>2. /\ queue' \in Seq(Op) /\ active' \in Op \cup {Idle}
      /\ \A i \in 1..Len(queue') - 1 : queue'[i].kind = "save" => queue'[i + 1].kind = "compact"
      /\ txs' \in Seq(Calls) /\ waiting' \in Seq(Calls)
      /\ QueueOK'
      /\ CallsOK(events, txs, waiting)'
      /\ ConnectionOK(dead, txs, waiting)'
      /\ SingleOK(active, load, events, txs, waiting)'
      /\ \A i \in 1..Len(txs') : txs'[i].kind = "record" => \E j \in 1..Len(t) : t[j].kind = "record"
      /\ \A i \in 1..Len(waiting') : waiting'[i].kind # "record"
  <2>1. /\ Single("load", e, t, w) /\ (load'.at \in {"none", "done", "failed"} => None("load", e, t, w))
        /\ \A i \in 1..Len(w) : w[i].kind # "record"
    BY <1>1 DEF SingleOK, LoadOK
  <2> QED BY <1>1, <2>1, PumpKeeps
<1>3. answer' \in [1..MaxOps -> {"none", "true", "false"}]
  BY <1>1 DEF TypeOK, Answer
<1>4. TypeOK'
  BY <1>1, <1>2, <1>3 DEF TypeOK, Event, Results
<1>5. \A k \in Acked' : k \in Acked \/ (value = "true" /\ k \in active.waiters)
  BY DEF Acked, Answer
<1>6. StoredOK'
  <2>1. ASSUME NEW k \in Acked', value = "true", k \in active.waiters
        PROVE  k <= last' /\ asked'[k] = "save"
    <3>1. active \in Op /\ k \in 1..MaxOps /\ last \in Nat /\ MaxOps \in Nat
      BY <1>1, <2>1, StoreAssumption DEF TypeOK, Acked
    <3>2. k \in 1..active.k /\ asked[k] = "save"
      BY <1>1, <2>1 DEF QueueOK, OpFits
    <3> QED BY <1>1, <2>1, <3>1, <3>2 DEF Op
  <2>2. \A k \in Acked' : k <= last' /\ asked'[k] = "save"
    BY <1>1, <1>5, <2>1 DEF StoredOK
  <2> QED BY <1>1, <2>2 DEF StoredOK
<1>7. LoadOK(events, txs, waiting)'
  <2>1. GoodGen' = GoodGen /\ GoodGot' = GoodGot
    BY <1>1 DEF GoodGen, GoodGot, Deleted
  <2>2. \A i \in 1..Len(txs') : txs'[i].kind = "record" => GoodGen'
    BY <1>1, <1>2, <2>1 DEF LoadOK
  <2> QED BY <1>1, <1>2, <2>1, <2>2 DEF LoadOK
<1> QED BY <1>2, <1>4, <1>6, <1>7 DEF IInv

\* Nobody waits for more than the load, if at all.
LEMMA OtherEnds ==
  ASSUME IInv, NEW STATE e, NEW STATE t, NEW STATE w,
         e \in Seq(Event), t \in Seq(Calls), w \in Seq(Calls), InFlightOK(e, t, w),
         NEW at \in {"done", "failed"},
         load' = load \/ (load' = [load EXCEPT !.at = at] /\ None("load", e, t, w)
                          /\ (at = "done" => GoodGot)),
         txs' = t, waiting' = w, events' = e,
         UNCHANGED <<asked, last, gens, queue, active, dead, faults, answer, loads>>
  PROVE  IInv'
<1>1. /\ TypeOK /\ QueueOK /\ StoredOK /\ CallsOK(e, t, w) /\ ConnectionOK(dead, t, w)
      /\ SingleOK(active, load, e, t, w) /\ LoadOK(e, t, w)
      /\ asked' = asked /\ last' = last /\ gens' = gens /\ dead' = dead /\ faults' = faults
      /\ queue' = queue /\ active' = active /\ answer' = answer /\ loads' = loads
      /\ txs' = t /\ waiting' = w /\ events' = e
  BY DEF IInv, InFlightOK
<1>2. /\ load' \in [at : {"none", "generation", "record", "done", "failed"}, floor : 0..MaxOps,
                    gen : 0..MaxOps + 1, got : History \cup {NoHistory}]
      /\ load'.floor = load.floor /\ load'.gen = load.gen /\ load'.got = load.got
      /\ load' = load \/ (load'.at = at /\ None("load", e, t, w) /\ (at = "done" => GoodGot))
  BY <1>1 DEF TypeOK
<1>3. TypeOK'
  BY <1>1, <1>2 DEF TypeOK, Event, Results
<1>4. QueueOK' /\ StoredOK'
  BY <1>1 DEF QueueOK, StoredOK, OpFits, Acked
<1>5. CallsOK(events, txs, waiting)'
  <2>1. ASSUME NEW i \in 1..Len(txs') PROVE Fits(txs[i])' /\ ToRun(txs[i])'
    BY <1>1 DEF CallsOK, Fits, ToRun
  <2>2. ASSUME NEW i \in 1..Len(waiting') PROVE Fits(waiting[i])' /\ ToRun(waiting[i])'
    BY <1>1 DEF CallsOK, Fits, ToRun
  <2>3. ASSUME NEW i \in 1..Len(events') PROVE Decided(events[i], txs, waiting)'
    BY <1>1 DEF CallsOK, Decided, Fits
  <2> QED BY <1>1, <2>1, <2>2, <2>3 DEF CallsOK
<1>6. ConnectionOK(dead, txs, waiting)' /\ SingleOK(active, load, events, txs, waiting)'
  BY <1>1, <1>2 DEF ConnectionOK, SingleOK
<1>7. LoadOK(events, txs, waiting)'
  <2>1. GoodGen' = GoodGen /\ GoodGot' = GoodGot
    BY <1>1, <1>2 DEF GoodGen, GoodGot, Deleted
  <2> QED BY <1>1, <1>2, <2>1 DEF LoadOK
<1> QED BY <1>3, <1>4, <1>5, <1>6, <1>7 DEF IInv

\* A call has failed for good.
LEMMA RejectedKeeps ==
  ASSUME IInv, NEW STATE e, NEW STATE t, NEW STATE w,
         e \in Seq(Event), t \in Seq(Calls), w \in Seq(Calls), InFlightOK(e, t, w),
         NEW call \in Calls, call.op \in {"queued", "load"} => None(call.op, e, t, w),
         call.op = "queued" => active # Idle,
         Rejected(call, t, w), events' = e,
         UNCHANGED <<asked, last, gens, dead, faults, loads>>
  PROVE  IInv'
<1>1. CASE call.op = "queued"
  <2>1. Answer(active.waiters, "false") /\ Pump(queue, t, w) /\ load' = load
    BY <1>1 DEF Rejected
  <2> QED BY <1>1, <2>1, QueuedEnds
<1>2. CASE call.op = "direct"
  <2>1. txs' = t /\ waiting' = w /\ UNCHANGED <<answer, queue, active, load>>
    BY <1>2 DEF Rejected
  <2> QED BY <1>2, <2>1, OtherEnds
<1>3. CASE call.op = "load"
  <2>1. /\ load' = [load EXCEPT !.at = "failed"] /\ txs' = t /\ waiting' = w
        /\ UNCHANGED <<answer, queue, active>>
    BY <1>3 DEF Rejected
  <2> QED BY <1>3, <2>1, OtherEnds
<1> QED BY <1>1, <1>2, <1>3 DEF Calls

\* What is left once the first event has been taken.
LEMMA HandledLeaves ==
  ASSUME IInv, events # <<>>, NEW call, call = Head(events).call
  PROVE  /\ Tail(events) \in Seq(Event) /\ txs \in Seq(Calls) /\ waiting \in Seq(Calls)
         /\ Head(events) \in Event /\ call \in Calls
         /\ Decided(Head(events), txs, waiting)
         /\ InFlightOK(Tail(events), txs, waiting)
         /\ call.op \in {"queued", "load"} => None(call.op, Tail(events), txs, waiting)
         /\ Head(events).result = "committed" /\ call.kind = "generation" => GoodGen
         /\ Head(events).result = "committed" /\ call.kind = "record" => GoodGot
<1>1. events \in Seq(Event) /\ txs \in Seq(Calls) /\ waiting \in Seq(Calls)
  BY DEF IInv, TypeOK, Event, Results
<1>2. /\ Tail(events) \in Seq(Event) /\ Head(events) = events[1] /\ 1 \in 1..Len(events)
      /\ events[1] \in Event
      /\ \A i \in 1..Len(Tail(events)) : Tail(events)[i] = events[i + 1] /\ i + 1 \in 1..Len(events)
  BY <1>1, TailIs
<1>3. CallsOK(Tail(events), txs, waiting) /\ Decided(Head(events), txs, waiting)
  BY <1>2 DEF IInv, CallsOK
<1>4. LoadOK(Tail(events), txs, waiting)
  BY <1>2 DEF IInv, LoadOK
<1>5. SingleOK(active, load, Tail(events), txs, waiting)
  BY <1>1, HandledIsSingle DEF IInv, SingleOK
<1>6. call.op \in {"queued", "load"} => None(call.op, Tail(events), txs, waiting)
  BY <1>1, HandledIsSingle DEF IInv, SingleOK
<1>7. /\ Head(events).result = "committed" /\ call.kind = "generation" => GoodGen
      /\ Head(events).result = "committed" /\ call.kind = "record" => GoodGot
  BY <1>2 DEF IInv, LoadOK
<1> QED BY <1>1, <1>2, <1>3, <1>4, <1>5, <1>6, <1>7 DEF IInv, InFlightOK, Event

\* The call is made once more, on the next connection.
LEMMA RetryKeeps ==
  ASSUME IInv, NEW STATE e, e \in Seq(Event), txs \in Seq(Calls), waiting \in Seq(Calls),
         InFlightOK(e, txs, waiting),
         NEW call \in Calls, Fits(call), call.op \in {"queued", "load"},
         None(call.op, e, txs, waiting),
         call.op = "queued" => /\ active # Idle /\ call.k = active.k /\ last < call.k
                               /\ NoWrite(txs) /\ NoWrite(waiting),
         Retry(call), events' = e,
         UNCHANGED <<asked, last, gens, dead, faults, loads>>
  PROVE  IInv'
<1>1. /\ TypeOK /\ QueueOK /\ StoredOK /\ CallsOK(e, txs, waiting)
      /\ ConnectionOK(dead, txs, waiting)
      /\ SingleOK(active, load, e, txs, waiting) /\ LoadOK(e, txs, waiting)
      /\ asked' = asked /\ last' = last /\ gens' = gens /\ dead' = dead /\ faults' = faults
      /\ queue' = queue /\ active' = active /\ answer' = answer /\ loads' = loads
      /\ txs' = txs /\ events' = e
  BY DEF IInv, InFlightOK, Retry
<1>2. PICK c \in Calls : /\ waiting' = Append(waiting, c)
                         /\ c.op = call.op /\ c.k = call.k
                         /\ c.kind = IF call.kind = "record" THEN "generation" ELSE call.kind
  <2>1. [call EXCEPT !.try = 2, !.kind = IF @ = "record" THEN "generation" ELSE @] \in Calls
    BY DEF Calls
  <2> QED BY <2>1 DEF Retry, Calls
<1>3. /\ c.kind # "record"
      /\ c.op = "load" => c.kind = "generation"
      /\ c.op = "queued" => c.kind = call.kind
      /\ Fits(c)
  BY <1>2 DEF Fits, IsWrite
<1>4. /\ load' \in [at : {"none", "generation", "record", "done", "failed"}, floor : 0..MaxOps,
                    gen : 0..MaxOps + 1, got : History \cup {NoHistory}]
      /\ load'.floor = load.floor /\ load'.gen = load.gen /\ load'.got = load.got
      /\ c.op = "load" => load'.at = "generation"
      /\ c.op # "load" => load' = load
  BY <1>1, <1>2 DEF TypeOK, Retry
<1>5. /\ waiting' \in Seq(Calls) /\ Len(waiting) \in Nat /\ Len(waiting') = Len(waiting) + 1
      /\ \A i \in 1..Len(waiting') : \/ i = Len(waiting) + 1 /\ waiting'[i] = c
                                     \/ i \in 1..Len(waiting) /\ waiting'[i] = waiting[i]
  BY <1>2, AppendIs
<1>6. TypeOK'
  BY <1>1, <1>4, <1>5 DEF TypeOK, Event, Results
<1>7. QueueOK' /\ StoredOK'
  BY <1>1 DEF QueueOK, StoredOK, OpFits, Acked
<1>8. ConnectionOK(dead, txs, waiting)'
  BY <1>1, <1>2, <1>5 DEF ConnectionOK
<1>9. SingleOK(active, load, events, txs, waiting)'
  <2>1. /\ None("queued", e, txs, waiting) => Single("queued", e, txs, Append(waiting, c))
        /\ None("load", e, txs, waiting) => Single("load", e, txs, Append(waiting, c))
        /\ c.op = "load" => /\ Single("queued", e, txs, Append(waiting, c))
                            /\ active = Idle => None("queued", e, txs, Append(waiting, c))
        /\ c.op = "queued" =>
             /\ Single("load", e, txs, Append(waiting, c))
             /\ load.at \in {"none", "done", "failed"} => None("load", e, txs, Append(waiting, c))
    BY <1>1, AddedIsSingle DEF SingleOK
  <2> QED BY <1>1, <1>2, <1>4, <2>1 DEF SingleOK
<1>10. CallsOK(events, txs, waiting)'
  <2>1. ASSUME NEW i \in 1..Len(txs') PROVE Fits(txs[i])' /\ ToRun(txs[i])'
    BY <1>1 DEF CallsOK, Fits, ToRun
  <2>2. ToRun(c)
    <3>1. CASE c.op = "load"
      BY <3>1 DEF ToRun, IsWrite
    <3>2. CASE c.op = "queued"
      BY <3>2, <1>1, <1>2 DEF ToRun, QueueOK
    <3> QED BY <3>1, <3>2, <1>2
  <2>3. ASSUME NEW i \in 1..Len(waiting') PROVE Fits(waiting[i])' /\ ToRun(waiting[i])'
    <3>1. Fits(waiting'[i]) /\ ToRun(waiting'[i])
      BY <1>1, <1>3, <1>5, <2>2 DEF CallsOK
    <3> QED BY <1>1, <3>1 DEF Fits, ToRun
  <2>4. ASSUME NEW i \in 1..Len(events') PROVE Decided(events[i], txs, waiting)'
    <3>1. Decided(e[i], txs, waiting)
      BY <1>1 DEF CallsOK
    <3>2. CASE c.op = "queued"
      <4>1. e[i].call.op # "queued"
        BY <1>1, <1>2, <3>2 DEF None
      <4> QED BY <1>1, <3>1, <4>1 DEF Decided, Fits
    <3>3. CASE c.op = "load"
      <4>1. NoWrite(waiting) => NoWrite(waiting')
        BY <1>5, <3>3 DEF NoWrite, IsWrite
      <4> QED BY <1>1, <3>1, <4>1 DEF Decided, Fits
    <3> QED BY <3>2, <3>3, <1>2
  <2>5. Ordered(waiting') /\ Before(txs', waiting')
    <3>1. CASE c.op = "queued"
      <4>1. NoWrite(txs) /\ NoWrite(waiting)
        BY <1>2, <3>1
      <4>2. Ordered(waiting')
        <5> SUFFICES ASSUME NEW i \in 1..Len(waiting'), NEW j \in 1..Len(waiting'), i < j,
                            IsWrite(waiting'[i])
                     PROVE  FALSE
          BY DEF Ordered
        <5>1. i \in 1..Len(waiting) /\ waiting'[i] = waiting[i]
          BY <1>5
        <5> QED BY <4>1, <5>1 DEF NoWrite
      <4>3. Before(txs', waiting')
        BY <4>1, <1>1 DEF NoWrite, Before
      <4> QED BY <4>2, <4>3
    <3>2. CASE c.op = "load"
      <4>1. ~IsWrite(c)
        BY <3>2 DEF IsWrite
      <4>2. Ordered(waiting')
        BY <4>1, <1>1, <1>5 DEF CallsOK, Ordered
      <4>3. Before(txs', waiting')
        BY <4>1, <1>1, <1>5 DEF CallsOK, Before
      <4> QED BY <4>2, <4>3
    <3> QED BY <3>1, <3>2, <1>2
  <2> QED BY <1>1, <2>1, <2>3, <2>4, <2>5 DEF CallsOK
<1>11. LoadOK(events, txs, waiting)'
  <2>1. GoodGen' = GoodGen /\ GoodGot' = GoodGot
    BY <1>1, <1>4 DEF GoodGen, GoodGot, Deleted
  <2>2. \A i \in 1..Len(waiting') : waiting'[i].kind # "record"
    BY <1>1, <1>3, <1>5 DEF LoadOK
  <2>3. load'.at = "done" => load' = load
    BY <1>2, <1>4
  <2> QED BY <1>1, <1>4, <2>1, <2>2, <2>3 DEF LoadOK
<1> QED BY <1>6, <1>7, <1>8, <1>9, <1>10, <1>11 DEF IInv

\* A load has its generation, and reads the record.
LEMMA RecordKeeps ==
  ASSUME IInv, NEW STATE e, e \in Seq(Event), txs \in Seq(Calls), waiting \in Seq(Calls),
         InFlightOK(e, txs, waiting), None("load", e, txs, waiting), GoodGen, ~dead,
         NEW call \in Calls, call.op = "load",
         txs' = Append(txs, [call EXCEPT !.kind = "record"]),
         load' = [load EXCEPT !.at = "record"], events' = e,
         UNCHANGED <<asked, last, gens, queue, active, waiting, dead, faults, answer, loads>>
  PROVE  IInv'
<1>1. /\ TypeOK /\ QueueOK /\ StoredOK /\ CallsOK(e, txs, waiting)
      /\ ConnectionOK(dead, txs, waiting)
      /\ SingleOK(active, load, e, txs, waiting) /\ LoadOK(e, txs, waiting)
      /\ asked' = asked /\ last' = last /\ gens' = gens /\ dead' = dead /\ faults' = faults
      /\ queue' = queue /\ active' = active /\ answer' = answer /\ loads' = loads
      /\ waiting' = waiting /\ events' = e
  BY DEF IInv, InFlightOK
<1>2. PICK c \in Calls : /\ txs' = Append(txs, c)
                         /\ c.op = "load" /\ c.kind = "record"
  <2>1. [call EXCEPT !.kind = "record"] \in Calls
    BY DEF Calls
  <2> QED BY <2>1 DEF Calls
<1>3. /\ load' \in [at : {"none", "generation", "record", "done", "failed"}, floor : 0..MaxOps,
                    gen : 0..MaxOps + 1, got : History \cup {NoHistory}]
      /\ load'.floor = load.floor /\ load'.gen = load.gen /\ load'.got = load.got
      /\ load'.at = "record"
  BY <1>1 DEF TypeOK
<1>4. /\ txs' \in Seq(Calls) /\ Len(txs) \in Nat /\ Len(txs') = Len(txs) + 1
      /\ \A i \in 1..Len(txs') : \/ i = Len(txs) + 1 /\ txs'[i] = c
                                 \/ i \in 1..Len(txs) /\ txs'[i] = txs[i]
  BY <1>2, AppendIs
<1>5. TypeOK'
  BY <1>1, <1>3, <1>4 DEF TypeOK, Event, Results
<1>6. QueueOK' /\ StoredOK'
  BY <1>1 DEF QueueOK, StoredOK, OpFits, Acked
<1>7. ConnectionOK(dead, txs, waiting)'
  BY <1>1 DEF ConnectionOK
<1>8. SingleOK(active, load, events, txs, waiting)'
  <2>1. /\ Single("load", e, Append(txs, c), waiting)
        /\ Single("queued", e, Append(txs, c), waiting)
        /\ active = Idle => None("queued", e, Append(txs, c), waiting)
    BY <1>1, <1>2, AddedIsSingle DEF SingleOK
  <2> QED BY <1>1, <1>2, <1>3, <2>1 DEF SingleOK
<1>9. CallsOK(events, txs, waiting)'
  <2>1. ASSUME NEW i \in 1..Len(txs') PROVE Fits(txs[i])' /\ ToRun(txs[i])'
    <3>1. Fits(txs'[i]) /\ ToRun(txs'[i])
      BY <1>1, <1>2, <1>4 DEF CallsOK, Fits, ToRun, IsWrite
    <3> QED BY <1>1, <3>1 DEF Fits, ToRun
  <2>2. ASSUME NEW i \in 1..Len(waiting') PROVE Fits(waiting[i])' /\ ToRun(waiting[i])'
    BY <1>1 DEF CallsOK, Fits, ToRun
  <2>3. ASSUME NEW i \in 1..Len(events') PROVE Decided(events[i], txs, waiting)'
    <3>1. Decided(e[i], txs, waiting)
      BY <1>1 DEF CallsOK
    <3>2. NoWrite(txs) => NoWrite(txs')
      BY <1>2, <1>4 DEF NoWrite, IsWrite
    <3> QED BY <1>1, <3>1, <3>2 DEF Decided, Fits
  <2>4. Ordered(txs') /\ Ordered(waiting') /\ Before(txs', waiting')
    BY <1>1, <1>2, <1>4 DEF CallsOK, Ordered, Before, IsWrite
  <2> QED BY <1>1, <2>1, <2>2, <2>3, <2>4 DEF CallsOK
<1>10. LoadOK(events, txs, waiting)'
  <2>1. GoodGen' /\ GoodGot' = GoodGot
    BY <1>1, <1>3 DEF GoodGen, GoodGot, Deleted
  <2> QED BY <1>1, <1>3, <2>1 DEF LoadOK
<1> QED BY <1>5, <1>6, <1>7, <1>8, <1>9, <1>10 DEF IInv

\* A failed call is repeated once and then given up.
LEMMA FailedKeeps ==
  ASSUME IInv, NEW STATE e, e \in Seq(Event), txs \in Seq(Calls), waiting \in Seq(Calls),
         InFlightOK(e, txs, waiting),
         NEW call \in Calls, Fits(call), call.op \in {"queued", "load"},
         None(call.op, e, txs, waiting),
         call.op = "queued" => /\ active # Idle /\ call.k = active.k
                               /\ call.try = 1 => last < call.k /\ NoWrite(txs) /\ NoWrite(waiting),
         Failed(call), events' = e,
         UNCHANGED <<asked, last, gens, dead, faults, loads>>
  PROVE  IInv'
<1>1. CASE call.try = 1
  BY <1>1, RetryKeeps DEF Failed
<1>2. CASE call.try # 1
  BY <1>2, RejectedKeeps DEF Failed
<1> QED BY <1>1, <1>2

\* The page handles one event.
LEMMA HandleEventKeeps == ASSUME IInv, HandleEvent PROVE IInv'
<1>1. PICK call : call = Head(events).call
  OBVIOUS
<1>2. PICK result : result = Head(events).result
  OBVIOUS
<1>3. events # <<>> /\ events' = Tail(events) /\ UNCHANGED <<asked, last, gens, dead, faults, loads>>
  BY DEF HandleEvent
<1>4. /\ Tail(events) \in Seq(Event) /\ txs \in Seq(Calls) /\ waiting \in Seq(Calls)
      /\ Head(events) \in Event /\ call \in Calls
      /\ Decided(Head(events), txs, waiting)
      /\ InFlightOK(Tail(events), txs, waiting)
      /\ call.op \in {"queued", "load"} => None(call.op, Tail(events), txs, waiting)
      /\ result = "committed" /\ call.kind = "generation" => GoodGen
      /\ result = "committed" /\ call.kind = "record" => GoodGot
  BY <1>1, <1>2, <1>3, HandledLeaves
<1>5. /\ Fits(call) /\ result \in Results
      /\ call.op = "queued" =>
           /\ active # Idle /\ call.k = active.k
           /\ result = "committed" => call.k <= last
           /\ result = "lost" /\ call.try = 1 => NoWrite(txs) /\ NoWrite(waiting) /\ last < call.k
      /\ call.op = "direct" => result # "lost"
  BY <1>1, <1>2, <1>4 DEF Decided, Event
<1>6. CASE result = "committed"
  <2>1. Resolved(call)
    BY <1>1, <1>2, <1>6 DEF HandleEvent
  <2>8. call.op # "load" => call.kind # "generation" /\ call.kind # "record"
    BY <1>5 DEF Fits
  <2>2. CASE call.op = "queued"
    <3>1. Answer(active.waiters, "true") /\ Pump(queue, txs, waiting) /\ load' = load
      BY <2>1, <2>2, <2>8 DEF Resolved
    <3> QED BY <1>3, <1>4, <1>5, <1>6, <2>2, <3>1, QueuedEnds
  <2>3. CASE call.op = "direct"
    <3>1. UNCHANGED <<answer, queue, active, txs, waiting, load>>
      BY <2>1, <2>3, <2>8 DEF Resolved
    <3> QED BY <1>3, <1>4, <3>1, OtherEnds
  <2>4. CASE call.op = "load" /\ call.kind = "generation" /\ dead
    <3>1. Failed(call)
      BY <2>1, <2>4 DEF Resolved
    <3> QED BY <1>3, <1>4, <1>5, <2>4, <3>1, FailedKeeps
  <2>5. CASE call.op = "load" /\ call.kind = "generation" /\ ~dead
    <3>1. /\ txs' = Append(txs, [call EXCEPT !.kind = "record"])
          /\ load' = [load EXCEPT !.at = "record"]
          /\ UNCHANGED <<answer, queue, active, waiting>>
      BY <2>1, <2>5 DEF Resolved
    <3> QED BY <1>3, <1>4, <1>6, <2>5, <3>1, RecordKeeps
  <2>6. CASE call.op = "load" /\ call.kind = "record"
    <3>1. load' = [load EXCEPT !.at = "done"] /\ UNCHANGED <<answer, queue, active, txs, waiting>>
      BY <2>1, <2>6 DEF Resolved
    <3> QED BY <1>3, <1>4, <1>6, <2>6, <3>1, OtherEnds
  <2>7. call.op = "load" => call.kind \in {"generation", "record"}
    BY <1>5 DEF Fits
  <2> QED BY <1>4, <2>2, <2>3, <2>4, <2>5, <2>6, <2>7 DEF Calls
<1>7. CASE result = "lost"
  <2>1. Failed(call) /\ call.op \in {"queued", "load"}
    BY <1>1, <1>2, <1>4, <1>5, <1>7 DEF HandleEvent, Calls
  <2> QED BY <1>3, <1>4, <1>5, <1>7, <2>1, FailedKeeps
<1>8. CASE result = "aborted"
  <2>1. Rejected(call, txs, waiting)
    BY <1>1, <1>2, <1>8 DEF HandleEvent
  <2> QED BY <1>3, <1>4, <1>5, <2>1, RejectedKeeps
<1> QED BY <1>5, <1>6, <1>7, <1>8 DEF Results

\* The first call that waits is given up.
LEMMA ReopenFailsKeeps == ASSUME IInv, ReopenFails PROVE IInv'
<1>1. PICK call : call = Head(waiting)
  OBVIOUS
<1>2. /\ waiting # <<>> /\ dead /\ Rejected(call, txs, Tail(waiting))
      /\ UNCHANGED <<asked, last, gens, events, dead, faults, loads>>
  BY <1>1 DEF ReopenFails
<1>3. events \in Seq(Event) /\ txs \in Seq(Calls) /\ waiting \in Seq(Calls)
  BY DEF IInv, TypeOK, Event, Results
<1>4. /\ Tail(waiting) \in Seq(Calls) /\ call = waiting[1] /\ 1 \in 1..Len(waiting) /\ call \in Calls
      /\ Len(waiting) \in Nat \ {0} /\ Len(Tail(waiting)) = Len(waiting) - 1
      /\ \A i \in 1..Len(Tail(waiting)) :
           Tail(waiting)[i] = waiting[i + 1] /\ i + 1 \in 1..Len(waiting)
  BY <1>1, <1>2, <1>3, TailIs
<1>5. /\ SingleOK(active, load, events, txs, Tail(waiting))
      /\ call.op \in {"queued", "load"} => None(call.op, events, txs, Tail(waiting))
  BY <1>1, <1>2, <1>3, GivenUpIsSingle DEF IInv, SingleOK
<1>6. CallsOK(events, txs, Tail(waiting))
  <2>1. Ordered(Tail(waiting))
    <3> SUFFICES ASSUME NEW i \in 1..Len(Tail(waiting)), NEW j \in 1..Len(Tail(waiting)), i < j,
                        IsWrite(Tail(waiting)[i]), IsWrite(Tail(waiting)[j])
                 PROVE  Tail(waiting)[i].k < Tail(waiting)[j].k
      BY DEF Ordered
    <3>1. i + 1 \in 1..Len(waiting) /\ j + 1 \in 1..Len(waiting) /\ i + 1 < j + 1
      BY <1>4
    <3> QED BY <3>1, <1>4 DEF Ordered, IInv, CallsOK
  <2>2. Before(txs, Tail(waiting))
    BY <1>4 DEF Before, IInv, CallsOK
  <2>3. NoWrite(waiting) => NoWrite(Tail(waiting))
    BY <1>4 DEF NoWrite
  <2>4. \A i \in 1..Len(events) : Decided(events[i], txs, Tail(waiting))
    BY <2>3 DEF IInv, CallsOK, Decided
  <2> QED BY <1>4, <2>1, <2>2, <2>4 DEF IInv, CallsOK
<1>7. ConnectionOK(dead, txs, Tail(waiting)) /\ LoadOK(events, txs, Tail(waiting))
  BY <1>2, <1>4 DEF IInv, ConnectionOK, LoadOK
<1>8. call.op = "queued" => active # Idle
  BY <1>4 DEF IInv, CallsOK, ToRun, IsWrite
<1> QED BY <1>2, <1>3, <1>4, <1>5, <1>6, <1>7, <1>8, RejectedKeeps DEF InFlightOK
-----------------------------------------------------------------------------
(* Operations and loads are asked for. *)

\* A load begins, and asks for the newest history answered so far.
LEMMA LoadKeeps == ASSUME IInv, Load PROVE IInv'
<1>1. PICK c : c = Call("load", "generation", 0, 1)
  OBVIOUS
<1>2. /\ MaxOps \in Nat /\ MaxLoads \in Nat /\ dead \in BOOLEAN /\ last \in Nat
      /\ events \in Seq(Event) /\ txs \in Seq(Calls) /\ waiting \in Seq(Calls)
  BY StoreAssumption DEF IInv, TypeOK, Event, Results
<1>3. c \in Calls /\ c.op = "load" /\ c.kind = "generation"
  BY <1>1, <1>2 DEF Call, Calls
<1>4. /\ loads < MaxLoads /\ load.at \in {"none", "done", "failed"} /\ loads' = loads + 1
      /\ load' = [at |-> "generation", floor |-> Newest(Acked), gen |-> 0, got |-> NoHistory]
      /\ Issue(c, txs, waiting)
      /\ asked' = asked /\ last' = last /\ gens' = gens /\ queue' = queue /\ active' = active
      /\ events' = events /\ dead' = dead /\ faults' = faults /\ answer' = answer
  BY <1>1 DEF Load
<1>5. /\ CallsOK(events, txs, waiting) /\ ConnectionOK(dead, txs, waiting)
      /\ SingleOK(active, load, events, txs, waiting) /\ LoadOK(events, txs, waiting)
      /\ None("load", events, txs, waiting)
  BY <1>4 DEF IInv, SingleOK
<1>6. ~IsWrite(c)
  BY <1>3 DEF IsWrite
<1>7. /\ \/ ~dead /\ txs' = Append(txs, c) /\ waiting' = waiting
         \/ dead /\ txs' = txs /\ waiting' = Append(waiting, c)
      /\ txs' \in Seq(Calls) /\ waiting' \in Seq(Calls)
      /\ \A i \in 1..Len(txs') : \/ txs'[i] = c
                                 \/ \E j \in 1..Len(txs) : txs'[i] = txs[j]
      /\ \A i \in 1..Len(waiting') : \/ txs' = txs /\ waiting'[i] = c
                                     \/ \E j \in 1..Len(waiting) : waiting'[i] = waiting[j]
      /\ ConnectionOK(dead, txs', waiting')
      /\ Ordered(txs') /\ Ordered(waiting') /\ Before(txs', waiting')
  BY <1>2, <1>3, <1>4, <1>5, <1>6, IssueKeeps DEF CallsOK
<1>8. PICK newest \in 0..MaxOps : newest = Newest(Acked) /\ (newest = 0 \/ newest \in Acked)
  <2>1. Acked \subseteq 1..MaxOps
    BY DEF Acked
  <2>2. Newest(Acked) \in Acked \cup {0}
    BY <1>2, <2>1, NewestIs
  <2>3. Newest(Acked) \in 0..MaxOps
    <3>1. \A S, x : S \subseteq 1..MaxOps /\ x \in S \cup {0} => x \in 0..MaxOps
      BY <1>2
    <3> QED BY <2>1, <2>2, <3>1, Zenon
  <2> QED BY <2>2, <2>3
<1>9. TypeOK'
  <2>1. load' \in [at : {"none", "generation", "record", "done", "failed"}, floor : 0..MaxOps,
                   gen : 0..MaxOps + 1, got : History \cup {NoHistory}]
    BY <1>2, <1>4, <1>8
  <2>2. loads' \in 0..MaxLoads
    BY <1>2, <1>4 DEF IInv, TypeOK
  <2> QED BY <1>4, <1>7, <2>1, <2>2 DEF IInv, TypeOK
<1>10. QueueOK' /\ StoredOK'
  BY <1>4 DEF IInv, QueueOK, StoredOK, OpFits, Acked
<1>11. CallsOK(events, txs, waiting)'
  <2>1. Fits(c) /\ ToRun(c)
    BY <1>3, <1>6 DEF Fits, ToRun
  <2>2. ASSUME NEW i \in 1..Len(txs') PROVE Fits(txs[i])' /\ ToRun(txs[i])'
    <3>1. Fits(txs'[i]) /\ ToRun(txs'[i])
      BY <1>5, <1>7, <2>1 DEF CallsOK
    <3> QED BY <1>4, <3>1 DEF Fits, ToRun
  <2>3. ASSUME NEW i \in 1..Len(waiting') PROVE Fits(waiting[i])' /\ ToRun(waiting[i])'
    <3>1. Fits(waiting'[i]) /\ ToRun(waiting'[i])
      BY <1>5, <1>7, <2>1 DEF CallsOK
    <3> QED BY <1>4, <3>1 DEF Fits, ToRun
  <2>4. ASSUME NEW i \in 1..Len(events') PROVE Decided(events[i], txs, waiting)'
    <3>1. Decided(events[i], txs, waiting)
      BY <1>4, <1>5 DEF CallsOK
    <3>2. ASSUME NoWrite(txs), NoWrite(waiting) PROVE NoWrite(txs') /\ NoWrite(waiting')
      BY <1>6, <1>7, <3>2 DEF NoWrite
    <3> QED BY <1>4, <3>1, <3>2 DEF Decided, Fits
  <2> QED BY <1>7, <2>2, <2>3, <2>4 DEF CallsOK
<1>12. SingleOK(active, load, events, txs, waiting)'
  <2>1. /\ Single("load", events, Append(txs, c), waiting)
        /\ Single("load", events, txs, Append(waiting, c))
        /\ Single("queued", events, Append(txs, c), waiting)
        /\ Single("queued", events, txs, Append(waiting, c))
        /\ active = Idle => /\ None("queued", events, Append(txs, c), waiting)
                            /\ None("queued", events, txs, Append(waiting, c))
    BY <1>2, <1>3, <1>5, AddedIsSingle DEF SingleOK
  <2> QED BY <1>4, <1>7, <2>1 DEF SingleOK
<1>13. LoadOK(events, txs, waiting)'
  <2>1. load'.floor <= last' /\ (load'.floor > 0 => asked'[load'.floor] = "save")
    BY <1>2, <1>4, <1>8 DEF IInv, StoredOK
  <2>2. \A i \in 1..Len(txs) : txs[i].kind # "record"
    BY <1>5 DEF CallsOK, None, Fits
  <2>3. \A i \in 1..Len(events) : events[i].call.kind # "record" /\ events[i].call.kind # "generation"
    BY <1>5 DEF CallsOK, None, Decided, Fits
  <2>4. \A i \in 1..Len(txs') : txs'[i].kind # "record"
    BY <1>3, <1>7, <2>2
  <2>5. \A i \in 1..Len(waiting') : waiting'[i].kind # "record"
    BY <1>3, <1>5, <1>7 DEF LoadOK
  <2> QED BY <1>4, <2>1, <2>3, <2>4, <2>5 DEF LoadOK
<1> QED BY <1>4, <1>7, <1>9, <1>10, <1>11, <1>12, <1>13 DEF IInv

\* One more operation has been asked for.
LEMMA AskedStays ==
  ASSUME IInv, NEW kind \in Kinds, Len(asked) < MaxOps,
         asked' = Append(asked, kind), last' = last, gens' = gens, load' = load
  PROVE  /\ asked' \in Seq(Kinds) /\ Len(asked) \in Nat /\ Len(asked') = Len(asked) + 1
         /\ Len(asked') <= MaxOps /\ asked'[Len(asked) + 1] = kind
         /\ \A i \in 1..Len(asked) : asked'[i] = asked[i] /\ i \in 1..Len(asked')
         /\ \A i \in 1..MaxOps : i <= last => i \in 1..Len(asked)
         /\ \A call : Fits(call) => Fits(call)' /\ (IsWrite(call) => call.k < Len(asked) + 1)
         /\ \A op : OpFits(op) => OpFits(op)' /\ op.k < Len(asked) + 1
         /\ (GoodGen => GoodGen') /\ (GoodGot => GoodGot')
<1>1. /\ asked \in Seq(Kinds) /\ MaxOps \in Nat /\ last \in Nat /\ last <= Len(asked)
      /\ load.floor \in Nat
  BY StoreAssumption DEF IInv, TypeOK, StoredOK
<1>2. /\ asked' \in Seq(Kinds) /\ Len(asked) \in Nat /\ Len(asked') = Len(asked) + 1
      /\ Len(asked') <= MaxOps /\ asked'[Len(asked) + 1] = kind
      /\ \A i \in 1..Len(asked) : asked'[i] = asked[i] /\ i \in 1..Len(asked')
  BY <1>1
<1>3. \A i \in 1..MaxOps : i <= last => i \in 1..Len(asked)
  BY <1>1, <1>2
<1>4. ASSUME NEW call, Fits(call) PROVE Fits(call)' /\ (IsWrite(call) => call.k < Len(asked) + 1)
  BY <1>2, <1>4 DEF Fits
<1>5. ASSUME NEW op, OpFits(op), MaxOps \in Nat PROVE OpFits(op)' /\ op.k < Len(asked) + 1
  <2>1. op.k \in 1..Len(asked) /\ op.k < Len(asked) + 1
    BY <1>2, <1>5 DEF OpFits
  <2>2. ASSUME NEW j \in op.waiters PROVE j \in 1..op.k /\ asked'[j] = "save"
    <3>1. j \in 1..op.k /\ asked[j] = "save"
      BY <1>5 DEF OpFits
    <3>2. j \in 1..Len(asked)
      BY <1>2, <2>1, <3>1
    <3> QED BY <1>2, <3>1, <3>2
  <2> QED BY <1>2, <1>5, <2>1, <2>2 DEF OpFits
<1>6. ASSUME NEW from \in Nat, Deleted(from) PROVE Deleted(from)'
  <2>1. PICK d \in from + 1..Len(asked) : asked[d] = "delete"
    BY <1>6 DEF Deleted
  <2>2. d \in 1..Len(asked) /\ d \in from + 1..Len(asked')
    BY <1>2, <2>1
  <2> QED BY <1>2, <2>1, <2>2 DEF Deleted
<1>7. (GoodGen => GoodGen') /\ (GoodGot => GoodGot')
  <2>1. PICK from \in Nat : from = load.floor
    BY <1>1
  <2>2. Deleted(from) => Deleted(from)'
    BY <1>6
  <2> QED BY <2>1, <2>2 DEF GoodGen, GoodGot, Deleted
<1> QED BY <1>1, <1>2, <1>3, <1>4, <1>5, <1>7

\* With nothing awaited the operation goes to the adapter at once: a save through the queue, any
\* other beside it.
LEMMA IssuedKeeps ==
  ASSUME IInv, active = Idle, NEW kind \in Kinds, Len(asked) < MaxOps, asked' = Append(asked, kind),
         NEW c \in Calls, c.op \in {"queued", "direct"}, c.kind = kind, c.k = Len(asked) + 1,
         Issue(c, txs, waiting), queue' = <<>>,
         c.op = "direct" => active' = Idle,
         c.op = "queued" => /\ active' \in Op /\ active'.k = c.k /\ active'.kind = kind
                            /\ kind = "save" /\ active'.waiters = {c.k},
         answer' \in [1..MaxOps -> {"none", "true", "false"}], Acked' \subseteq Acked,
         UNCHANGED <<last, gens, events, dead, faults, load, loads>>
  PROVE  IInv'
<1>1. /\ last' = last /\ gens' = gens /\ events' = events /\ dead' = dead /\ faults' = faults
      /\ load' = load /\ loads' = loads /\ Len(queue') = 0
      /\ CallsOK(events, txs, waiting) /\ ConnectionOK(dead, txs, waiting)
      /\ SingleOK(active, load, events, txs, waiting) /\ LoadOK(events, txs, waiting)
      /\ None("queued", events, txs, waiting)
  BY DEF IInv, SingleOK
<1>2. /\ asked' \in Seq(Kinds) /\ Len(asked) \in Nat /\ Len(asked') = Len(asked) + 1
      /\ Len(asked') <= MaxOps /\ asked'[Len(asked) + 1] = kind
      /\ \A i \in 1..Len(asked) : asked'[i] = asked[i] /\ i \in 1..Len(asked')
      /\ \A i \in 1..MaxOps : i <= last => i \in 1..Len(asked)
      /\ \A call : Fits(call) => Fits(call)' /\ (IsWrite(call) => call.k < Len(asked) + 1)
      /\ (GoodGen => GoodGen') /\ (GoodGot => GoodGot')
  BY <1>1, AskedStays
<1>3. /\ MaxOps \in Nat /\ dead \in BOOLEAN /\ last \in Nat /\ last <= Len(asked)
      /\ events \in Seq(Event) /\ txs \in Seq(Calls) /\ waiting \in Seq(Calls)
  BY StoreAssumption DEF IInv, TypeOK, StoredOK, Event, Results
<1>4. \A i \in 1..Len(txs) : IsWrite(txs[i]) => txs[i].k < c.k
  BY <1>1, <1>2 DEF CallsOK
<1>5. \A i \in 1..Len(waiting) : IsWrite(waiting[i]) => waiting[i].k < c.k
  BY <1>1, <1>2 DEF CallsOK
<1>6. ~dead => NoWrite(waiting)
  <2> SUFFICES ASSUME ~dead, NEW i \in 1..Len(waiting) PROVE waiting[i].op = "load"
    BY DEF NoWrite, IsWrite
  <2>1. waiting[i] \in Calls /\ waiting[i].op # "direct" /\ waiting[i].op # "queued"
    BY <1>1, <1>3 DEF ConnectionOK, None
  <2> QED BY <2>1 DEF Calls
<1>7. /\ \/ ~dead /\ txs' = Append(txs, c) /\ waiting' = waiting
         \/ dead /\ txs' = txs /\ waiting' = Append(waiting, c)
      /\ txs' \in Seq(Calls) /\ waiting' \in Seq(Calls)
      /\ \A i \in 1..Len(txs') : \/ txs'[i] = c
                                 \/ \E j \in 1..Len(txs) : txs'[i] = txs[j]
      /\ \A i \in 1..Len(waiting') : \/ txs' = txs /\ waiting'[i] = c
                                     \/ \E j \in 1..Len(waiting) : waiting'[i] = waiting[j]
      /\ ConnectionOK(dead, txs', waiting')
      /\ Ordered(txs') /\ Ordered(waiting') /\ Before(txs', waiting')
  BY <1>1, <1>3, <1>4, <1>5, <1>6, IssueKeeps DEF CallsOK
<1>8. active' \in Op \cup {Idle} /\ (c.op = "queued" => active' # Idle)
  BY <1>3 DEF Op, Idle
<1>9. TypeOK'
  <2>1. queue' \in Seq(Op) /\ \A i \in 1..Len(queue') - 1 : queue'[i].kind = "save" => queue'[i + 1].kind = "compact"
    BY <1>1
  <2> QED BY <1>1, <1>2, <1>7, <1>8, <2>1 DEF IInv, TypeOK
<1>10. QueueOK'
  <2>1. CASE c.op = "direct"
    BY <2>1, <1>1 DEF QueueOK
  <2>2. CASE c.op = "queued"
    <3>1. OpFits(active)' /\ last' <= active'.k
      BY <2>2, <1>1, <1>2, <1>3 DEF OpFits
    <3> QED BY <3>1, <1>1, <1>8, <2>2 DEF QueueOK
  <2> QED BY <2>1, <2>2
<1>11. StoredOK'
  <2>1. last > 0 => asked'[last] = asked[last]
    BY <1>2, <1>3
  <2>2. \A k \in Acked' : k <= last' /\ asked'[k] = "save"
    <3>1. \A k \in Acked : k \in 1..MaxOps /\ k <= last /\ asked[k] = "save"
      BY DEF IInv, StoredOK, Acked
    <3> QED BY <3>1, <1>1, <1>2
  <2>3. gens = <<>> => last = 0 \/ (last > 0 /\ asked[last] = "delete")
    BY <1>3 DEF IInv, StoredOK
  <2>4. /\ last' <= Len(asked') /\ Len(gens') <= last' + 1
        /\ gens' # <<>> => last' > 0 /\ gens'[Len(gens')].op = last'
    BY <1>1, <1>2, <1>3 DEF IInv, StoredOK
  <2>5. gens' = <<>> => last' = 0 \/ asked'[last'] = "delete"
    BY <1>1, <2>1, <2>3
  <2> QED BY <2>2, <2>4, <2>5 DEF StoredOK
<1>12. CallsOK(events, txs, waiting)'
  <2>1. Fits(c)' /\ ToRun(c)'
    <3>1. c.op # "load" /\ c.kind # "generation" /\ c.kind # "record"
      BY DEF Kinds, Promise!Kinds
    <3>2. Fits(c)'
      BY <3>1, <1>2 DEF Fits
    <3>3. ToRun(c)'
      BY <1>1, <1>2, <1>3, <1>8 DEF ToRun
    <3> QED BY <3>2, <3>3
  <2>2. ASSUME NEW call \in Calls, Fits(call), ToRun(call), call.op # "queued"
        PROVE  Fits(call)' /\ ToRun(call)'
    <3>1. Fits(call)' /\ (IsWrite(call) => call.k < c.k)
      BY <1>2, <2>2
    <3>2. ToRun(call)'
      BY <1>1, <2>2, <3>1 DEF ToRun
    <3> QED BY <3>1, <3>2
  <2>3. ASSUME NEW i \in 1..Len(txs') PROVE Fits(txs[i])' /\ ToRun(txs[i])'
    <3>1. ASSUME NEW j \in 1..Len(txs), txs'[i] = txs[j] PROVE Fits(txs[i])' /\ ToRun(txs[i])'
      <4>1. Fits(txs[j]) /\ ToRun(txs[j]) /\ txs[j].op # "queued" /\ txs[j] \in Calls
        BY <1>1, <1>3 DEF CallsOK, None
      <4> QED BY <3>1, <4>1, <2>2 DEF Fits, ToRun
    <3>2. CASE txs'[i] = c
      BY <3>2, <2>1 DEF Fits, ToRun
    <3> QED BY <3>1, <3>2, <1>7
  <2>4. ASSUME NEW i \in 1..Len(waiting') PROVE Fits(waiting[i])' /\ ToRun(waiting[i])'
    <3>1. ASSUME NEW j \in 1..Len(waiting), waiting'[i] = waiting[j]
          PROVE  Fits(waiting[i])' /\ ToRun(waiting[i])'
      <4>1. Fits(waiting[j]) /\ ToRun(waiting[j]) /\ waiting[j].op # "queued" /\ waiting[j] \in Calls
        BY <1>1, <1>3 DEF CallsOK, None
      <4> QED BY <3>1, <4>1, <2>2 DEF Fits, ToRun
    <3>2. CASE waiting'[i] = c
      BY <3>2, <2>1 DEF Fits, ToRun
    <3> QED BY <3>1, <3>2, <1>7
  <2>5. ASSUME NEW i \in 1..Len(events') PROVE Decided(events[i], txs, waiting)'
    <3>1. Decided(events[i], txs, waiting) /\ events[i].call.op # "queued"
      BY <1>1 DEF CallsOK, None
    <3>2. Fits(events[i].call)'
      BY <1>1, <1>2, <3>1 DEF Decided, Fits
    <3> QED BY <1>1, <3>1, <3>2 DEF Decided
  <2> QED BY <1>7, <2>3, <2>4, <2>5 DEF CallsOK
<1>13. SingleOK(active, load, events, txs, waiting)'
  <2>1. /\ Single("queued", events, Append(txs, c), waiting)
        /\ Single("queued", events, txs, Append(waiting, c))
        /\ Single("load", events, Append(txs, c), waiting)
        /\ Single("load", events, txs, Append(waiting, c))
        /\ load.at \in {"none", "done", "failed"} => /\ None("load", events, Append(txs, c), waiting)
                                                     /\ None("load", events, txs, Append(waiting, c))
        /\ c.op = "direct" => /\ None("queued", events, Append(txs, c), waiting)
                              /\ None("queued", events, txs, Append(waiting, c))
    BY <1>1, <1>3, AddedIsSingle DEF SingleOK
  <2> QED BY <1>1, <1>7, <1>8, <2>1 DEF SingleOK
<1>14. LoadOK(events, txs, waiting)'
  <2>1. load'.floor <= last' /\ (load'.floor > 0 => asked'[load'.floor] = "save")
    <3>1. load.floor \in 0..MaxOps /\ load.floor <= last /\ (load.floor > 0 => asked[load.floor] = "save")
      BY <1>1 DEF LoadOK, IInv, TypeOK
    <3>2. load.floor > 0 => load.floor \in 1..Len(asked)
      BY <3>1, <1>2, <1>3
    <3> QED BY <3>1, <3>2, <1>1, <1>2
  <2>2. c.kind # "record"
    BY DEF Kinds, Promise!Kinds
  <2>3. /\ \A i \in 1..Len(txs') : txs'[i].kind = "record" => GoodGen'
        /\ \A i \in 1..Len(waiting') : waiting'[i].kind # "record"
    <3>1. /\ \A i \in 1..Len(txs) : txs[i].kind = "record" => GoodGen'
          /\ \A i \in 1..Len(waiting) : waiting[i].kind # "record"
      BY <1>1, <1>2 DEF LoadOK
    <3>2. \A i \in 1..Len(txs') : txs'[i].kind = "record" => GoodGen'
      BY <1>7, <2>2, <3>1
    <3>3. \A i \in 1..Len(waiting') : waiting'[i].kind # "record"
      BY <1>7, <2>2, <3>1
    <3> QED BY <3>2, <3>3
  <2>4. \A i \in 1..Len(events') :
          /\ events'[i].result = "committed" /\ events'[i].call.kind = "generation" => GoodGen'
          /\ events'[i].result = "committed" /\ events'[i].call.kind = "record" => GoodGot'
    BY <1>1, <1>2 DEF LoadOK
  <2> QED BY <1>1, <1>2, <2>1, <2>3, <2>4 DEF LoadOK
<1> QED BY <1>1, <1>7, <1>9, <1>10, <1>11, <1>12, <1>13, <1>14 DEF IInv

\* Behind the awaited operation a new one is put in the queue, whatever it merges with or drops.
LEMMA QueuedIs ==
  ASSUME IInv, NEW op \in Op, op.k = Len(asked) + 1, op.waiters \subseteq {op.k},
         NEW q, q = Queued(op, queue)
  PROVE  /\ q \in Seq(Op)
         /\ \A i \in 1..Len(q) - 1 : q[i].kind = "save" => q[i + 1].kind = "compact"
         /\ \A i \in 1..Len(q) :
              \/ \E j \in 1..Len(queue) : q[i] = queue[j]
              \/ /\ q[i].k = op.k /\ q[i].kind = op.kind
                 /\ \A n \in q[i].waiters : n \in op.waiters \/ \E j \in 1..Len(queue) : n \in queue[j].waiters
         /\ \A i, j \in 1..Len(q) : i < j => q[i].k < q[j].k
<1>1. /\ queue \in Seq(Op) /\ Len(queue) \in Nat /\ Len(asked) \in Nat
      /\ \A i \in 1..Len(queue) : queue[i].k \in 1..Len(asked) /\ queue[i].k < op.k
      /\ \A i, j \in 1..Len(queue) : i < j => queue[i].k < queue[j].k
      /\ \A i \in 1..Len(queue) - 1 : queue[i].kind = "save" => queue[i + 1].kind = "compact"
  <2>1. queue \in Seq(Op) /\ asked \in Seq(Kinds)
    BY DEF IInv, TypeOK
  <2>2. \A i \in 1..Len(queue) : queue[i].k \in 1..Len(asked)
    BY DEF IInv, QueueOK, OpFits
  <2>3. /\ \A i, j \in 1..Len(queue) : i < j => queue[i].k < queue[j].k
        /\ \A i \in 1..Len(queue) - 1 : queue[i].kind = "save" => queue[i + 1].kind = "compact"
    BY DEF IInv, QueueOK, TypeOK
  <2>4. Len(queue) \in Nat /\ Len(asked) \in Nat
    BY <2>1
  <2> QED BY <2>1, <2>2, <2>3, <2>4
<1>2. CASE op.kind = "save" /\ queue # <<>> /\ queue[Len(queue)].kind = "save"
  <2> DEFINE n == Len(queue)
             merged == [op EXCEPT !.waiters = @ \cup queue[n].waiters]
  <2>1. q = [queue EXCEPT ![n] = merged]
    BY <1>2 DEF Queued
  <2>2. n \in 1..Len(queue) /\ queue[n] \in Op
    BY <1>1, <1>2
  <2>3. merged \in Op /\ merged.k = op.k /\ merged.kind = "save"
        /\ merged.waiters = op.waiters \cup queue[n].waiters
    BY <2>2, <1>2 DEF Op
  <2>4. /\ q \in Seq(Op) /\ Len(q) = n
        /\ \A i \in 1..n : q[i] = IF i = n THEN merged ELSE queue[i]
    <3> HIDE DEF merged
    <3> QED BY <1>1, <2>1, <2>2, <2>3
  <2>5. ASSUME NEW i \in 1..Len(q) - 1, q[i].kind = "save" PROVE q[i + 1].kind = "compact"
    <3>1. i \in 1..n - 1 /\ i # n /\ q[i] = queue[i] /\ i + 1 \in 1..n
      BY <1>1, <2>4
    <3>2. queue[i + 1].kind = "compact"
      BY <1>1, <2>5, <3>1
    <3>3. i + 1 # n
      BY <1>2, <3>2
    <3> QED BY <2>4, <3>1, <3>2, <3>3
  <2>6. ASSUME NEW i \in 1..Len(q), NEW j \in 1..Len(q), i < j PROVE q[i].k < q[j].k
    <3>1. i # n /\ q[i] = queue[i]
      BY <1>1, <2>4, <2>6
    <3> QED BY <1>1, <2>3, <2>4, <2>6, <3>1
  <2>7. ASSUME NEW i \in 1..Len(q), i = n
        PROVE  /\ q[i].k = op.k /\ q[i].kind = op.kind
               /\ \A m \in q[i].waiters : m \in op.waiters \/ \E j \in 1..Len(queue) : m \in queue[j].waiters
    <3>1. q[i] = merged
      BY <2>4, <2>7
    <3> HIDE DEF merged
    <3> QED BY <3>1, <2>2, <2>3, <1>2
  <2> QED BY <2>4, <2>5, <2>6, <2>7
<1>3. ASSUME NEW s \in Seq(Op), q = Append(s, op),
             \A i \in 1..Len(s) : \E j \in 1..Len(queue) : s[i] = queue[j],
             \A i, j \in 1..Len(s) : i < j => s[i].k < s[j].k,
             \A i \in 1..Len(s) - 1 : s[i].kind = "save" => s[i + 1].kind = "compact",
             s # <<>> /\ s[Len(s)].kind = "save" => op.kind = "compact"
      PROVE  /\ q \in Seq(Op)
             /\ \A i \in 1..Len(q) - 1 : q[i].kind = "save" => q[i + 1].kind = "compact"
             /\ \A i \in 1..Len(q) : q[i] = op \/ \E j \in 1..Len(queue) : q[i] = queue[j]
             /\ \A i, j \in 1..Len(q) : i < j => q[i].k < q[j].k
  <2>1. /\ q \in Seq(Op) /\ Len(s) \in Nat /\ Len(q) = Len(s) + 1
        /\ \A i \in 1..Len(q) : \/ i = Len(s) + 1 /\ q[i] = op
                                \/ i \in 1..Len(s) /\ q[i] = s[i]
    BY <1>3, AppendIs
  <2>2. ASSUME NEW i \in 1..Len(q) - 1, q[i].kind = "save" PROVE q[i + 1].kind = "compact"
    <3>1. i \in 1..Len(q) /\ i \in 1..Len(s) /\ q[i] = s[i] /\ i + 1 \in 1..Len(q)
      BY <2>1
    <3>2. CASE i = Len(s)
      <4>1. s # <<>>
        BY <3>1, <3>2
      <4>2. q[i + 1] = op
        BY <2>1, <3>1, <3>2
      <4> QED BY <1>3, <2>2, <3>1, <3>2, <4>1, <4>2
    <3>3. CASE i # Len(s)
      <4>1. i \in 1..Len(s) - 1 /\ i + 1 \in 1..Len(s)
        BY <2>1, <3>1, <3>3
      <4>2. q[i + 1] = s[i + 1]
        BY <2>1, <3>1, <4>1
      <4> QED BY <1>3, <2>2, <3>1, <4>1, <4>2
    <3> QED BY <3>2, <3>3
  <2>3. ASSUME NEW i \in 1..Len(q), NEW j \in 1..Len(q), i < j PROVE q[i].k < q[j].k
    <3>1. i \in 1..Len(s) /\ q[i] = s[i]
      BY <2>1, <2>3
    <3>2. CASE j \in 1..Len(s) /\ q[j] = s[j]
      BY <1>3, <2>3, <3>1, <3>2
    <3>3. CASE j = Len(s) + 1 /\ q[j] = op
      BY <1>1, <1>3, <3>1, <3>3
    <3> QED BY <2>1, <3>2, <3>3
  <2> QED BY <1>3, <2>1, <2>2, <2>3
<1>4. CASE op.kind = "delete"
  <2>1. PICK s : s = WithoutSaves(queue)
    OBVIOUS
  <2>2. q = Append(s, op)
    BY <1>4, <2>1 DEF Queued
  <2>3. /\ s \in Seq(Op)
        /\ \A i \in 1..Len(s) : /\ \E j \in 1..Len(queue) : s[i] = queue[j]
                                /\ s[i].kind # "save"
        /\ \A i, j \in 1..Len(s) : i < j => s[i].k < s[j].k
    BY <1>1, <2>1, WithoutSavesIs
  <2>4. /\ \A i \in 1..Len(s) - 1 : s[i].kind # "save"
        /\ s # <<>> => s[Len(s)].kind # "save"
    <3>1. Len(s) \in Nat /\ (s # <<>> => Len(s) \in 1..Len(s))
      BY <2>3
    <3>2. \A i \in 1..Len(s) - 1 : i \in 1..Len(s)
      BY <3>1
    <3> QED BY <2>3, <3>1, <3>2
  <2> QED BY <1>3, <2>2, <2>3, <2>4
<1>5. CASE /\ ~(op.kind = "save" /\ queue # <<>> /\ queue[Len(queue)].kind = "save")
           /\ op.kind # "delete"
  <2>1. q = Append(queue, op)
    BY <1>5 DEF Queued
  <2>2. queue # <<>> /\ queue[Len(queue)].kind = "save" => op.kind = "compact"
    BY <1>5 DEF Op, Kinds, Promise!Kinds
  <2> QED BY <1>1, <1>3, <2>1, <2>2
<1> QED BY <1>2, <1>4, <1>5

\* Such an operation keeps the order.
LEMMA QueuedKeeps ==
  ASSUME IInv, active # Idle, NEW kind \in Kinds, Len(asked) < MaxOps, asked' = Append(asked, kind),
         NEW op \in Op, op.k = Len(asked) + 1, op.kind = kind,
         op.waiters = IF kind = "save" THEN {op.k} ELSE {},
         queue' = Queued(op, queue),
         answer' \in [1..MaxOps -> {"none", "true", "false"}], Acked' \subseteq Acked,
         UNCHANGED <<last, gens, active, txs, waiting, events, dead, faults, load, loads>>
  PROVE  IInv'
<1>1. /\ last' = last /\ gens' = gens /\ events' = events /\ dead' = dead /\ faults' = faults
      /\ load' = load /\ loads' = loads /\ active' = active /\ txs' = txs /\ waiting' = waiting
      /\ CallsOK(events, txs, waiting) /\ ConnectionOK(dead, txs, waiting)
      /\ SingleOK(active, load, events, txs, waiting) /\ LoadOK(events, txs, waiting)
  BY DEF IInv
<1>2. /\ asked' \in Seq(Kinds) /\ Len(asked) \in Nat /\ Len(asked') = Len(asked) + 1
      /\ Len(asked') <= MaxOps /\ asked'[Len(asked) + 1] = kind
      /\ \A i \in 1..Len(asked) : asked'[i] = asked[i] /\ i \in 1..Len(asked')
      /\ \A i \in 1..MaxOps : i <= last => i \in 1..Len(asked)
      /\ \A call : Fits(call) => Fits(call)' /\ (IsWrite(call) => call.k < Len(asked) + 1)
      /\ \A o : OpFits(o) => OpFits(o)' /\ o.k < Len(asked) + 1
      /\ (GoodGen => GoodGen') /\ (GoodGot => GoodGot')
  BY <1>1, AskedStays
<1>3. /\ MaxOps \in Nat /\ last \in Nat /\ last <= Len(asked)
  BY StoreAssumption DEF IInv, TypeOK, StoredOK
<1>4. /\ queue' \in Seq(Op)
      /\ \A i \in 1..Len(queue') - 1 : queue'[i].kind = "save" => queue'[i + 1].kind = "compact"
      /\ \A i \in 1..Len(queue') :
           \/ \E j \in 1..Len(queue) : queue'[i] = queue[j]
           \/ /\ queue'[i].k = op.k /\ queue'[i].kind = op.kind
              /\ \A n \in queue'[i].waiters : n \in op.waiters \/ \E j \in 1..Len(queue) : n \in queue[j].waiters
      /\ \A i, j \in 1..Len(queue') : i < j => queue'[i].k < queue'[j].k
  <2>1. op.waiters \subseteq {op.k}
    OBVIOUS
  <2>2. PICK q : q = Queued(op, queue)
    OBVIOUS
  <2>3. queue' = q
    BY <2>2
  <2> QED BY <2>1, <2>2, <2>3, QueuedIs
<1>5. TypeOK'
  BY <1>1, <1>2, <1>4 DEF IInv, TypeOK
<1>6. /\ \A j \in 1..Len(queue) : OpFits(queue[j]) /\ last < queue[j].k /\ active.k < queue[j].k
      /\ OpFits(active) /\ last <= active.k
  BY DEF IInv, QueueOK
<1>7. QueueOK'
  <2>1. ASSUME NEW i \in 1..Len(queue')
        PROVE  OpFits(queue[i])' /\ last' < queue'[i].k /\ active'.k < queue'[i].k
    <3>1. ASSUME NEW j \in 1..Len(queue), queue'[i] = queue[j]
          PROVE  OpFits(queue[i])' /\ last' < queue'[i].k /\ active'.k < queue'[i].k
      BY <1>1, <1>2, <1>6, <3>1 DEF OpFits
    <3>2. CASE /\ queue'[i].k = op.k /\ queue'[i].kind = op.kind
               /\ \A n \in queue'[i].waiters : n \in op.waiters \/ \E j \in 1..Len(queue) : n \in queue[j].waiters
      <4>1. ASSUME NEW n \in queue'[i].waiters PROVE n \in 1..queue'[i].k /\ asked'[n] = "save"
        <5>1. CASE n \in op.waiters
          BY <5>1, <1>2, <3>2
        <5>2. ASSUME NEW j \in 1..Len(queue), n \in queue[j].waiters
              PROVE  n \in 1..queue'[i].k /\ asked'[n] = "save"
          <6>1. OpFits(queue[j])
            BY <1>6
          <6>2. /\ queue[j].k \in 1..Len(asked) /\ n \in 1..queue[j].k /\ asked[n] = "save"
            BY <5>2, <6>1 DEF OpFits
          <6>3. n \in 1..Len(asked) /\ n \in 1..op.k
            BY <6>2, <1>2
          <6> QED BY <6>2, <6>3, <1>2, <3>2
        <5> QED BY <3>2, <5>1, <5>2
      <4>2. OpFits(queue[i])'
        BY <1>2, <3>2, <4>1 DEF OpFits
      <4>3. last' < op.k /\ active'.k < op.k
        BY <1>1, <1>2, <1>3, <1>6
      <4> QED BY <3>2, <4>2, <4>3
    <3> QED BY <1>4, <3>1, <3>2
  <2>2. OpFits(active)' /\ last' <= active'.k
    <3>1. \A o : OpFits(o) => OpFits(o)'
      BY <1>2
    <3> QED BY <3>1, <1>1, <1>6 DEF OpFits
  <2> QED BY <1>1, <1>4, <2>1, <2>2 DEF QueueOK
<1>8. StoredOK'
  <2>1. last > 0 => asked'[last] = asked[last]
    BY <1>2, <1>3
  <2>2. \A k \in Acked' : k <= last' /\ asked'[k] = "save"
    <3>1. \A k \in Acked : k \in 1..MaxOps /\ k <= last /\ asked[k] = "save"
      BY DEF IInv, StoredOK, Acked
    <3> QED BY <3>1, <1>1, <1>2
  <2>3. gens = <<>> => last = 0 \/ (last > 0 /\ asked[last] = "delete")
    BY <1>3 DEF IInv, StoredOK
  <2>4. /\ last' <= Len(asked') /\ Len(gens') <= last' + 1
        /\ gens' # <<>> => last' > 0 /\ gens'[Len(gens')].op = last'
    BY <1>1, <1>2, <1>3 DEF IInv, StoredOK
  <2>5. gens' = <<>> => last' = 0 \/ asked'[last'] = "delete"
    BY <1>1, <2>1, <2>3
  <2> QED BY <2>2, <2>4, <2>5 DEF StoredOK
<1>9. ASSUME NEW call, Fits(call), ToRun(call) PROVE Fits(call)' /\ ToRun(call)'
  <2>1. Fits(call)' /\ (IsWrite(call) => call.k < op.k)
    BY <1>2, <1>9
  <2>2. IsWrite(call) => \A i \in 1..Len(queue') : call.k < queue'[i].k
    BY <1>4, <1>9, <2>1 DEF ToRun
  <2> QED BY <1>1, <1>9, <2>1, <2>2 DEF ToRun
<1>10. CallsOK(events, txs, waiting)'
  <2>1. ASSUME NEW i \in 1..Len(txs') PROVE Fits(txs[i])' /\ ToRun(txs[i])'
    <3>1. Fits(txs[i]) /\ ToRun(txs[i])
      BY <1>1 DEF CallsOK
    <3> QED BY <1>1, <1>9, <3>1 DEF Fits, ToRun
  <2>2. ASSUME NEW i \in 1..Len(waiting') PROVE Fits(waiting[i])' /\ ToRun(waiting[i])'
    <3>1. Fits(waiting[i]) /\ ToRun(waiting[i])
      BY <1>1 DEF CallsOK
    <3> QED BY <1>1, <1>9, <3>1 DEF Fits, ToRun
  <2>3. ASSUME NEW i \in 1..Len(events') PROVE Decided(events[i], txs, waiting)'
    <3>1. Decided(events[i], txs, waiting)
      BY <1>1 DEF CallsOK
    <3>2. Fits(events[i].call)'
      BY <1>1, <1>2, <3>1 DEF Decided, Fits
    <3> QED BY <1>1, <3>1, <3>2 DEF Decided
  <2> QED BY <1>1, <2>1, <2>2, <2>3 DEF CallsOK
<1>11. ConnectionOK(dead, txs, waiting)' /\ SingleOK(active, load, events, txs, waiting)'
  BY <1>1
<1>12. LoadOK(events, txs, waiting)'
  <2>1. load'.floor <= last' /\ (load'.floor > 0 => asked'[load'.floor] = "save")
    <3>1. load.floor \in 0..MaxOps /\ load.floor <= last /\ (load.floor > 0 => asked[load.floor] = "save")
      BY <1>1 DEF LoadOK, IInv, TypeOK
    <3>2. load.floor > 0 => load.floor \in 1..Len(asked)
      BY <3>1, <1>2, <1>3
    <3> QED BY <3>1, <3>2, <1>1, <1>2
  <2>2. (GoodGen => GoodGen') /\ (GoodGot => GoodGot')
    BY <1>2
  <2> QED BY <1>1, <2>1, <2>2 DEF LoadOK
<1> QED BY <1>5, <1>7, <1>8, <1>10, <1>11, <1>12 DEF IInv

\* An operation is asked for.
LEMMA EnqueueKeeps == ASSUME IInv, NEW kind \in Kinds, Enqueue(kind) PROVE IInv'
<1>1. PICK op : op = [k |-> Len(asked) + 1, kind |-> kind,
                      waiters |-> IF kind = "save" THEN {Len(asked) + 1} ELSE {}]
  OBVIOUS
<1>2. /\ Len(asked) < MaxOps /\ asked' = Append(asked, kind) /\ last' = last /\ gens' = gens
      /\ IF active = Idle
         THEN IF kind = "save"
              THEN Pump(<<op>>, txs, waiting)
              ELSE Issue(Call("direct", kind, op.k, 1), txs, waiting) /\ queue' = queue /\ active' = active
         ELSE queue' = Queued(op, queue) /\ active' = active /\ txs' = txs /\ waiting' = waiting
      /\ Answer(IF kind = "delete" THEN SavesIn(queue) ELSE {}, "false")
      /\ UNCHANGED <<events, dead, faults, load, loads>>
  BY <1>1 DEF Enqueue
<1>3. asked \in Seq(Kinds) /\ MaxOps \in Nat /\ Len(asked) \in Nat /\ (active = Idle => queue = <<>>)
  BY StoreAssumption DEF IInv, TypeOK, QueueOK
<1>4. /\ op \in Op /\ op.k = Len(asked) + 1 /\ op.kind = kind
      /\ op.waiters = IF kind = "save" THEN {op.k} ELSE {}
  BY <1>1, <1>2, <1>3 DEF Op
<1>5. /\ answer' \in [1..MaxOps -> {"none", "true", "false"}] /\ Acked' \subseteq Acked
  <2>1. PICK saves : Answer(saves, "false")
    BY <1>2
  <2>2. answer \in [1..MaxOps -> {"none", "true", "false"}]
    BY DEF IInv, TypeOK
  <2>3. answer' \in [1..MaxOps -> {"none", "true", "false"}]
    BY <2>1, <2>2 DEF Answer
  <2> QED BY <2>1, <2>3 DEF Answer, Acked
<1>6. ASSUME NEW way \in {"queued", "direct"}
      PROVE  /\ Call(way, kind, op.k, 1) \in Calls /\ Call(way, kind, op.k, 1).op = way
             /\ Call(way, kind, op.k, 1).kind = kind /\ Call(way, kind, op.k, 1).k = op.k
  BY <1>4 DEF Call, Calls, Op
<1>7. CASE active = Idle /\ kind = "save"
  <2>1. Pump(<<op>>, txs, waiting)
    BY <1>2, <1>7
  <2>2. /\ queue' = <<>> /\ active' = op /\ Issue(Call("queued", op.kind, op.k, 1), txs, waiting)
    BY <2>1 DEF Pump
  <2>3. PICK c \in Calls : /\ c = Call("queued", kind, op.k, 1)
                           /\ c.op = "queued" /\ c.kind = kind /\ c.k = op.k
    BY <1>6
  <2>4. Issue(c, txs, waiting)
    BY <1>4, <2>2, <2>3
  <2> QED BY <1>2, <1>4, <1>5, <1>7, <2>2, <2>3, <2>4, IssuedKeeps
<1>8. CASE active = Idle /\ kind # "save"
  <2>1. PICK c \in Calls : /\ c = Call("direct", kind, op.k, 1)
                           /\ c.op = "direct" /\ c.kind = kind /\ c.k = op.k
    BY <1>6
  <2>2. Issue(c, txs, waiting) /\ queue' = <<>> /\ active' = Idle
    BY <1>2, <1>3, <1>8, <2>1
  <2> QED BY <1>2, <1>4, <1>5, <1>8, <2>1, <2>2, IssuedKeeps
<1>9. CASE active # Idle
  BY <1>2, <1>4, <1>5, <1>9, QueuedKeeps
<1> QED BY <1>7, <1>8, <1>9
-----------------------------------------------------------------------------
(* What every reachable state satisfies. *)

\* Every step keeps the invariant.
LEMMA NextKeeps == ASSUME ~LosesBypassed, IInv, [StoreNext]_vars PROVE IInv'
<1>1. ASSUME NEW kind \in Kinds, Enqueue(kind) PROVE IInv'
  BY <1>1, EnqueueKeeps
<1>2. CASE Commit
  BY <1>2, CommitKeeps
<1>3. CASE Abort
  BY <1>3, AbortKeeps
<1>4. CASE InternalError
  BY <1>4, InternalErrorKeeps
<1>5. CASE LoseConnection
  BY <1>5, LoseConnectionKeeps
<1>6. CASE HandleEvent
  BY <1>6, HandleEventKeeps
<1>7. CASE Reopen
  BY <1>7, ReopenKeeps
<1>8. CASE ReopenFails
  BY <1>8, ReopenFailsKeeps
<1>9. CASE Load
  BY <1>9, LoadKeeps
<1>10. CASE UNCHANGED vars
  <2>1. UNCHANGED <<asked, last, gens, queue, active, txs, events, waiting, dead, faults, answer, load, loads>>
    BY <1>10 DEF vars
  <2>2. TypeOK' /\ QueueOK' /\ StoredOK'
    BY <2>1 DEF IInv, TypeOK, QueueOK, StoredOK, OpFits, Acked
  <2>3. CallsOK(events, txs, waiting)'
    <3>1. ASSUME NEW i \in 1..Len(txs') PROVE Fits(txs[i])' /\ ToRun(txs[i])'
      BY <2>1 DEF IInv, CallsOK, Fits, ToRun
    <3>2. ASSUME NEW i \in 1..Len(waiting') PROVE Fits(waiting[i])' /\ ToRun(waiting[i])'
      BY <2>1 DEF IInv, CallsOK, Fits, ToRun
    <3>3. ASSUME NEW i \in 1..Len(events') PROVE Decided(events[i], txs, waiting)'
      BY <2>1 DEF IInv, CallsOK, Decided, Fits
    <3> QED BY <2>1, <3>1, <3>2, <3>3 DEF IInv, CallsOK
  <2>4. ConnectionOK(dead, txs, waiting)' /\ SingleOK(active, load, events, txs, waiting)'
    BY <2>1 DEF IInv
  <2>5. GoodGen' = GoodGen /\ GoodGot' = GoodGot
    BY <2>1 DEF GoodGen, GoodGot, Deleted
  <2>6. LoadOK(events, txs, waiting)'
    BY <2>1, <2>5 DEF IInv, LoadOK
  <2> QED BY <2>2, <2>3, <2>4, <2>6 DEF IInv
<1> QED BY <1>1, <1>2, <1>3, <1>4, <1>5, <1>6, <1>7, <1>8, <1>9, <1>10 DEF StoreNext

\* The inductive invariant of the store, as long as the connection is not lost under an operation
\* that went past the queue.
THEOREM WritesStayOrdered == ~LosesBypassed => (StoreSpec => []IInv)
<1> SUFFICES ASSUME ~LosesBypassed PROVE StoreSpec => []IInv
  OBVIOUS
<1>1. StoreInit => IInv
  BY InitKeeps
<1>2. IInv /\ [StoreNext]_vars => IInv'
  BY NextKeeps
<1> QED BY <1>1, <1>2, PTL DEF StoreSpec

\* Type correctness; of the queue it says that saves that wait behind one another are always merged.
THEOREM TypeCorrect == ~LosesBypassed => (StoreSpec => []TypeOK)
<1>1. IInv => TypeOK
  BY DEF IInv
<1> QED BY <1>1, WritesStayOrdered, PTL

\* Whatever a save or a load was told is true of the stored history (_pumpChatOps, loadHistory).
THEOREM AnswersAlwaysHold == ~LosesBypassed => (StoreSpec => []AnswersHold)
<1>1. ASSUME IInv PROVE AnswersHold
  <2>1. AckedIsStored
    <3> SUFFICES ASSUME NEW k \in Acked
                 PROVE  IF gens = <<>> THEN \E d \in k + 1..last : asked[d] = "delete"
                                       ELSE gens[Len(gens)].op >= k
      BY DEF AckedIsStored
    <3>1. k \in 1..MaxOps /\ k <= last /\ asked[k] = "save" /\ last \in Nat
      <4>1. k \in 1..MaxOps
        BY DEF Acked
      <4>2. k <= last /\ asked[k] = "save"
        BY <1>1 DEF IInv, StoredOK
      <4>3. last \in Nat
        BY <1>1, StoreAssumption DEF IInv, TypeOK
      <4> QED BY <4>1, <4>2, <4>3
    <3>2. CASE gens = <<>>
      <4>1. asked[last] = "delete"
        BY <1>1, <3>1, <3>2 DEF IInv, StoredOK
      <4>2. last \in k + 1..last
        BY <3>1, <4>1
      <4> QED BY <3>2, <4>1, <4>2
    <3>3. CASE gens # <<>>
      BY <1>1, <3>1, <3>3 DEF IInv, StoredOK
    <3> QED BY <3>2, <3>3
  <2>2. LoadIsFresh
    BY <1>1 DEF IInv, LoadOK, GoodGot, Deleted, LoadIsFresh
  <2> QED BY <2>1, <2>2 DEF AnswersHold
<1> QED BY <1>1, WritesStayOrdered, PTL

\* The queue and the adapter implement the ordered store: the database applies the operations in
\* the order they were asked for, each at most once, and never one that nobody asked for.
THEOREM RefinesOrderedHistory == ~LosesBypassed => (StoreSpec => Implements)
<1>1. StoreInit => Promise!Init
  BY DEF StoreInit, Promise!Init
<1>2. ASSUME IInv, [StoreNext]_vars PROVE [Promise!Next]_<<asked, last, gens>>
  <2>1. ASSUME NEW kind \in Kinds, Enqueue(kind) PROVE Promise!Next
    <3>1. Promise!Ask(kind)
      BY <2>1 DEF Enqueue, Promise!Ask
    <3> QED BY <3>1 DEF Promise!Next, Kinds
  <2>2. CASE Commit
    <3>1. /\ txs # <<>> /\ Head(txs) = txs[1] /\ Fits(txs[1]) /\ ToRun(txs[1]) /\ asked' = asked
      BY <1>2, <2>2, TailIs DEF IInv, TypeOK, Commit, CallsOK
    <3>2. CASE txs[1].op = "load"
      BY <2>2, <3>1, <3>2 DEF Commit
    <3>3. CASE txs[1].op # "load"
      <4>1. last' = txs[1].k /\ gens' = Promise!Effect(txs[1].kind, txs[1].k, gens)
        BY <2>2, <3>1, <3>3 DEF Commit
      <4>2. txs[1].k \in 1..Len(asked) /\ asked[txs[1].k] = txs[1].kind /\ last < txs[1].k
        BY <3>1, <3>3 DEF Fits, ToRun, IsWrite
      <4>3. PICK k \in 1..Len(asked) : k = txs[1].k
        BY <4>2
      <4>4. Promise!TakeEffect(k)
        BY <3>1, <4>1, <4>2, <4>3 DEF Promise!TakeEffect
      <4> QED BY <4>3, <4>4 DEF Promise!Next
    <3> QED BY <3>2, <3>3
  <2>3. CASE Abort \/ InternalError \/ LoseConnection \/ HandleEvent \/ Reopen \/ ReopenFails \/ Load
    BY <2>3 DEF Abort, InternalError, LoseConnection, HandleEvent, Reopen, ReopenFails, Load
  <2>4. CASE UNCHANGED vars
    BY <2>4 DEF vars
  <2> QED BY <1>2, <2>1, <2>2, <2>3, <2>4 DEF StoreNext
<1> QED BY <1>1, <1>2, WritesStayOrdered, PTL DEF StoreSpec, Implements, Promise!Spec
=============================================================================
