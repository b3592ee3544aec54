-------------------------- MODULE RemoteConnProofs --------------------------
(***************************************************************************)
(* A connection of the daemon keeps the order of arrival within a grant,   *)
(* hides nothing that is in use from its client and leaves no observation  *)
(* behind, for any number of grants, operations and places in flight.      *)
(***************************************************************************)
EXTENDS RemoteConn, SequenceTheorems, TLAPS

Label == {"queued", "handling", "storing", "closing", "ending", "done"}
OpRec == [method : Methods, grant : Grant, stream : Nat, previous : Nat,
          pc : Label, hand : SUBSET Nat]

TypeOK ==
    /\ ops \in Seq(OpRec)
    /\ tails \in [Grant -> Known \cup {Nothing}]
    /\ terms \in [Grant -> Known \cup {Nothing}]
    /\ obs \in [Grant -> Known \cup {Nothing}]
    /\ envs \subseteq Grant
    /\ done \in BOOLEAN /\ closed \in BOOLEAN /\ up \in BOOLEAN
    /\ sweep \subseteq Known /\ open \subseteq Known /\ copying \subseteq Known

\* An operation waits for an earlier one of its grant, and the tail of a
\* grant is one of its operations.
LinksOK ==
    /\ \A j \in Known :
          /\ ops[j].previous < j
          /\ ops[j].previous # Nothing =>
                ops[ops[j].previous].grant = ops[j].grant
    /\ \A g \in Grant : tails[g] # Nothing => ops[tails[g]].grant = g

\* While the connection is served: what came after the operation that j waits
\* for is done, and so is what came after the tail.
NothingBetween ==
    /\ \A i, j \in Known :
          i < j /\ ops[j].previous < i /\ ops[i].grant = ops[j].grant
              => ops[i].pc = "done"
    /\ \A i \in Known : tails[ops[i].grant] < i => ops[i].pc = "done"

Order == TypeOK /\ LinksOK /\ (~done => NothingBetween) /\ ArrivalOrder

----------------------------------------------------------------------------
(* What a step does to the operations.                                     *)

\* Operation i moves on, and nothing that was fixed at its arrival changes.
Moved(i) ==
    /\ ops' \in Seq(OpRec)
    /\ Known' = Known
    /\ \A j \in Known :
          /\ ops'[j].method = ops[j].method
          /\ ops'[j].grant = ops[j].grant
          /\ ops'[j].previous = ops[j].previous
    /\ \A j \in Known \ {i} : ops'[j] = ops[j]

LEMMA OpTypes ==
    ASSUME ops \in Seq(OpRec), NEW j \in Known
    PROVE  /\ ops[j] \in OpRec
           /\ ops[j].method \in Methods /\ ops[j].grant \in Grant
           /\ ops[j].previous \in Nat /\ ops[j].pc \in Label
           /\ j \in Nat /\ j # Nothing
<1>1. ops[j] \in OpRec
  BY DEF Known
<1> QED BY <1>1 DEF OpRec, Known, Nothing

LEMMA RecordMoves ==
    ASSUME TypeOK, NEW i \in Known, NEW r \in OpRec,
           r.method = ops[i].method, r.grant = ops[i].grant,
           r.previous = ops[i].previous, ops' = [ops EXCEPT ![i] = r]
    PROVE  Moved(i) /\ ops'[i] = r
<1>1. ops \in Seq(OpRec) /\ i \in 1..Len(ops)
  BY DEF TypeOK, Known
<1>2. /\ ops' \in Seq(OpRec) /\ Len(ops') = Len(ops)
      /\ \A j \in 1..Len(ops) : ops'[j] = IF j = i THEN r ELSE ops[j]
  BY <1>1, ExceptSeq
<1> QED BY <1>2 DEF Moved, Known

LEMMA GoToMoves ==
    ASSUME TypeOK, NEW i \in Known, NEW l \in Label, GoTo(i, l)
    PROVE  Moved(i) /\ ops'[i].pc = l /\ ops'[i].hand = ops[i].hand
<1> DEFINE r == [ops[i] EXCEPT !.pc = l]
<1>1. ops[i] \in OpRec
  BY OpTypes DEF TypeOK
<1>2. /\ r \in OpRec /\ r.method = ops[i].method /\ r.grant = ops[i].grant
      /\ r.previous = ops[i].previous /\ r.pc = l /\ r.hand = ops[i].hand
  BY <1>1 DEF OpRec
<1>3. ops' = [ops EXCEPT ![i] = r]
  BY DEF GoTo
<1> HIDE DEF r
<1> QED BY <1>2, <1>3, RecordMoves

LEMMA TakesMoves ==
    ASSUME TypeOK, NEW i \in Known, NEW h \in SUBSET Nat,
           ops' = [ops EXCEPT ![i].pc = "closing", ![i].hand = h]
    PROVE  Moved(i) /\ ops'[i].pc = "closing" /\ ops'[i].hand = h
<1> DEFINE r == [ops[i] EXCEPT !.pc = "closing", !.hand = h]
<1>1. ops[i] \in OpRec
  BY OpTypes DEF TypeOK
<1>2. /\ r \in OpRec /\ r.method = ops[i].method /\ r.grant = ops[i].grant
      /\ r.previous = ops[i].previous /\ r.pc = "closing" /\ r.hand = h
  BY <1>1 DEF OpRec, Label
<1>3. ops' = [ops EXCEPT ![i] = r]
  BY <1>1 DEF TypeOK
<1> HIDE DEF r
<1> QED BY <1>2, <1>3, RecordMoves

\* A frame is admitted as the next operation.
LEMMA DispatchAppends ==
    ASSUME TypeOK, NEW g \in Grant, NEW m \in Methods, NEW t \in Streams(m, g),
           Dispatch(m, g, t), NEW n, n = Len(ops) + 1
    PROVE  /\ ops' \in Seq(OpRec)
           /\ n \in Nat /\ Known' = Known \cup {n}
           /\ \A j \in Known : j < n /\ ops'[j] = ops[j]
           /\ ops'[n].method = m /\ ops'[n].grant = g
           /\ ops'[n].previous = tails[g] /\ ops'[n].pc = "queued"
           /\ ops'[n].hand = {}
<1> DEFINE r == [method |-> m, grant |-> g, stream |-> t, previous |-> tails[g],
                 pc |-> "queued", hand |-> {}]
<1>1. ops \in Seq(OpRec) /\ Len(ops) \in Nat
  BY DEF TypeOK
<1>2. t \in Nat
  BY <1>1 DEF Streams, Known, Nothing
<1>3. tails[g] \in Nat
  BY <1>1 DEF TypeOK, Known, Nothing
<1>4. r \in OpRec /\ ops' = Append(ops, r)
  BY <1>2, <1>3 DEF OpRec, Label, Dispatch
<1>5. /\ r.method = m /\ r.grant = g /\ r.previous = tails[g]
      /\ r.pc = "queued" /\ r.hand = {}
  OBVIOUS
<1> HIDE DEF r
<1>6. /\ ops' \in Seq(OpRec) /\ Len(ops') = n
      /\ \A j \in 1..Len(ops) : ops'[j] = ops[j]
      /\ ops'[n] = r
  BY <1>1, <1>4, AppendProperties
<1> QED BY <1>1, <1>5, <1>6 DEF Known

\* An operation leaves the queue only when it need not wait, or gives up; it
\* never returns to it, and is done once.
Advances(i) ==
    /\ Moved(i)
    /\ ops[i].pc # "done" /\ ops'[i].pc # "queued"
    /\ ops[i].pc = "queued" => ~Waits(i) \/ done

LEMMA HandlerAdvances ==
    ASSUME TypeOK, NEW i \in Known, Handler(i)
    PROVE  Advances(i) /\ UNCHANGED <<inflight, tails, endVars>>
<1>1. ops[i].pc \in {"handling", "storing", "closing"}
  BY DEF Handler, Refused, Ensure, Freeze, Opens, GivesBack, Keeps, Detach,
         Unwatch, Revoke, Closes, WritePty, Handles
<1>2. UNCHANGED <<inflight, tails, endVars>>
  BY DEF Handler, Refused, Ensure, Freeze, Opens, GivesBack, Keeps, Detach,
         Unwatch, Revoke, Closes, WritePty
<1>3. ops[i].grant \in Grant
  BY OpTypes DEF TypeOK
<1>4. \A g \in Grant : terms[g] \in Nat /\ obs[g] \in Nat
  BY DEF TypeOK, Known, Nothing
<1>5. \/ \E l \in {"storing", "ending"} : GoTo(i, l)
      \/ \E h \in SUBSET Nat :
            ops' = [ops EXCEPT ![i].pc = "closing", ![i].hand = h]
  <2>1. CASE Detach(i)
    BY <1>3, <1>4, <2>1 DEF Detach
  <2>2. CASE Unwatch(i)
    BY <1>3, <1>4, <2>2 DEF Unwatch
  <2>3. CASE Revoke(i)
    <3>1. {terms[ops[i].grant], obs[ops[i].grant]} \ {Nothing} \in SUBSET Nat
      BY <1>3, <1>4
    <3> QED BY <2>3, <3>1 DEF Revoke
  <2> QED BY <2>1, <2>2, <2>3 DEF Handler, Refused, Ensure, Freeze, Opens,
                GivesBack, Keeps, Closes, WritePty
<1>6. Moved(i) /\ ops'[i].pc \in {"storing", "ending", "closing"}
  BY <1>5, GoToMoves, TakesMoves DEF Label
<1> QED BY <1>1, <1>2, <1>6 DEF Advances

LEMMA QueueAdvances ==
    ASSUME TypeOK, NEW i \in Known, Start(i) \/ GiveUp(i) \/ Finish(i)
    PROVE  /\ Advances(i) /\ ops'[i].hand = ops[i].hand
           /\ ops[i].pc \in {"queued", "ending"}
           /\ ops'[i].pc \in {"handling", "ending", "done"}
           /\ UNCHANGED <<tails, connVars, endVars, open, copying>>
<1>1. \E l \in {"handling", "ending", "done"} : GoTo(i, l)
  BY DEF Start, GiveUp, Finish
<1>2. /\ Moved(i) /\ ops'[i].pc \in {"handling", "ending", "done"}
      /\ ops'[i].hand = ops[i].hand
  BY <1>1, GoToMoves DEF Label
<1> QED BY <1>2 DEF Start, GiveUp, Finish, Advances

----------------------------------------------------------------------------
(* Types.                                                                  *)

LEMMA TypeNext == ASSUME TypeOK, [Next]_vars PROVE TypeOK'
<1>1. CASE UNCHANGED vars
  BY <1>1 DEF TypeOK, Known, vars, connVars, endVars
<1>2. ASSUME NEW g \in Grant, NEW m \in Methods, NEW t \in Streams(m, g),
             Dispatch(m, g, t)
      PROVE  TypeOK'
  <2>1. ops' \in Seq(OpRec) /\ Known' = Known \cup {Len(ops) + 1}
    BY <1>2, DispatchAppends
  <2>2. tails' = [tails EXCEPT ![g] = Len(ops) + 1]
    BY <1>2 DEF Dispatch
  <2> DEFINE n == Len(ops) + 1
  <2> HIDE DEF n
  <2>3. tails' \in [Grant -> Known' \cup {Nothing}]
    BY <2>1, <2>2 DEF TypeOK, n
  <2> QED BY <1>2, <2>1, <2>3 DEF Dispatch, TypeOK, connVars, endVars, n
<1>3. ASSUME NEW i \in Known, Start(i) \/ GiveUp(i) \/ Finish(i)
      PROVE  TypeOK'
  BY <1>3, QueueAdvances DEF TypeOK, Advances, Moved, connVars, endVars
<1>4. ASSUME NEW i \in Known, Untail(i)
      PROVE  TypeOK'
  BY <1>4 DEF Untail, WithoutTail, TypeOK, Known, connVars, endVars
<1>5. ASSUME NEW i \in Known, Handler(i)
      PROVE  TypeOK'
  <2>1. /\ ops' \in Seq(OpRec) /\ Known' = Known
        /\ UNCHANGED <<tails, done, closed, sweep, up>>
    BY <1>5, HandlerAdvances DEF Advances, Moved, endVars
  <2>2. /\ open' \subseteq open \cup {i} /\ copying' \subseteq copying \cup {i}
        /\ envs' \subseteq envs \cup {ops[i].grant}
    BY <1>5 DEF Handler, Refused, Ensure, Freeze, Opens, GivesBack, Keeps, Detach,
         Unwatch, Revoke, Closes, WritePty, CloseAgain, Ended, HungUp, connVars
  <2>3. /\ \/ terms' = terms
           \/ \E e \in {i, Nothing} : terms' = [terms EXCEPT ![ops[i].grant] = e]
        /\ \/ obs' = obs
           \/ \E e \in {i, Nothing} : obs' = [obs EXCEPT ![ops[i].grant] = e]
    BY <1>5 DEF Handler, Refused, Ensure, Freeze, Opens, GivesBack, Keeps, Detach,
         Unwatch, Revoke, Closes, WritePty, connVars
  <2>4. terms' \in [Grant -> Known \cup {Nothing}] /\ obs' \in [Grant -> Known \cup {Nothing}]
    BY <2>3 DEF TypeOK
  <2>5. ops[i].grant \in Grant
    BY OpTypes DEF TypeOK
  <2> QED BY <2>1, <2>2, <2>4, <2>5 DEF TypeOK
<1>6. ASSUME NEW i \in Known, CopyPtyEnds(i) \/ CopyWatchEnds(i)
      PROVE  TypeOK'
  BY <1>6 DEF CopyPtyEnds, CopyWatchEnds, Forget, CloseWatch, TypeOK, Known, endVars
<1>7. ASSUME NEW i \in Known, Elsewhere(i)
      PROVE  TypeOK'
  BY <1>7 DEF Elsewhere, TypeOK, Known, connVars, endVars
<1>8. CASE Saturated \/ Drop \/ Shutdown \/ Close \/ Sweep
  BY <1>8 DEF Saturated, Drop, Shutdown, Close, Sweep, TypeOK, Known, connVars
<1> QED BY <1>1, <1>2, <1>3, <1>4, <1>5, <1>6, <1>7, <1>8 DEF Next

----------------------------------------------------------------------------
(* Order.                                                                  *)

\* The order is kept by any operation that moves on.
LEMMA AdvanceKeepsOrder ==
    ASSUME Order, NEW i \in Known, Advances(i), TypeOK', UNCHANGED <<tails, done>>
    PROVE  Order'
<1>1. /\ Known' = Known /\ TypeOK
      /\ \A j \in Known : /\ ops'[j].grant = ops[j].grant
                          /\ ops'[j].previous = ops[j].previous
                          /\ ops[j].pc = "done" => ops'[j].pc = "done"
                          /\ j # i => ops'[j].pc = ops[j].pc
  BY DEF Advances, Moved, Order
<1>2. \A j \in Known : /\ j \in Nat /\ ops[j].previous \in Nat
                       /\ ops[j].previous < j /\ ops[j].grant \in Grant
                       /\ ops[j].previous # Nothing => ops[j].previous \in Known
  <2> TAKE j \in Known
  <2>1. j \in Nat /\ ops[j].previous \in Nat /\ ops[j].grant \in Grant
    BY <1>1, OpTypes DEF TypeOK
  <2>2. ops[j].previous < j
    BY DEF Order, LinksOK
  <2> QED BY <1>1, <2>1, <2>2 DEF Known, Nothing, TypeOK
<1>3. LinksOK'
  <2>1. \A g \in Grant : tails[g] # Nothing => tails[g] \in Known
    BY <1>1 DEF TypeOK
  <2> QED BY <1>1, <1>2, <2>1 DEF Order, LinksOK
<1>4. ~done' => NothingBetween'
  BY <1>1 DEF Order, NothingBetween
<1>5. ArrivalOrder'
  <2> SUFFICES ASSUME ~done, NEW a \in Known, NEW b \in Known, a < b,
                      ops[a].grant = ops[b].grant, ops'[b].pc # "queued"
               PROVE  ops'[a].pc = "done"
    BY <1>1 DEF ArrivalOrder
  <2>1. CASE ops[b].pc # "queued"
    BY <1>1, <2>1 DEF Order, ArrivalOrder
  <2>2. CASE ops[b].pc = "queued"
    <3>1. b = i /\ ~Waits(b)
      BY <1>1, <2>2 DEF Advances
    <3> DEFINE p == ops[b].previous
    <3>2. CASE p < a
      BY <1>1, <3>2 DEF Order, NothingBetween
    <3>3. CASE a <= p
      <4>1. p # Nothing /\ p \in Known /\ ops[p].grant = ops[b].grant
        BY <1>2, <3>3 DEF Nothing, Order, LinksOK
      <4>2. ops[p].pc = "done"
        BY <3>1, <4>1 DEF Waits
      <4>3. a = p \/ a < p
        BY <1>2, <3>3
      <4>4. ops[a].pc = "done"
        BY <4>1, <4>2, <4>3 DEF Order, ArrivalOrder
      <4> QED BY <1>1, <4>4
    <3> QED BY <1>2, <3>2, <3>3
  <2> QED BY <2>1, <2>2
<1> QED BY <1>3, <1>4, <1>5 DEF Order

LEMMA DispatchKeepsOrder ==
    ASSUME Order, NEW g \in Grant, NEW m \in Methods, NEW t \in Streams(m, g),
           Dispatch(m, g, t), TypeOK'
    PROVE  Order'
<1>n. PICK n : n = Len(ops) + 1
  OBVIOUS
<1>1. /\ n \in Nat /\ Known' = Known \cup {n}
      /\ \A j \in Known : j < n /\ ops'[j] = ops[j]
      /\ ops'[n].grant = g /\ ops'[n].previous = tails[g]
      /\ ops'[n].pc = "queued"
  BY <1>n, DispatchAppends DEF Order
<1>2. /\ tails' = [tails EXCEPT ![g] = n] /\ done' = done
  BY <1>n DEF Dispatch, endVars
<1>3. /\ \A h \in Grant : tails[h] \in Known \cup {Nothing}
      /\ \A h \in Grant : tails'[h] = IF h = g THEN n ELSE tails[h]
      /\ Nothing < n
  BY <1>1, <1>2 DEF Order, TypeOK, Nothing, Known
<1>4. \A j \in Known : /\ j \in Nat /\ ops[j].previous \in Nat
                       /\ ops[j].previous < j /\ ops[j].grant \in Grant
                       /\ ops[j].previous # Nothing => ops[j].previous \in Known
  <2> TAKE j \in Known
  <2>1. j \in Nat /\ ops[j].previous \in Nat /\ ops[j].grant \in Grant
    BY OpTypes DEF Order, TypeOK
  <2>2. ops[j].previous < j
    BY DEF Order, LinksOK
  <2> QED BY <2>1, <2>2 DEF Known, Nothing, Order, TypeOK
<1>5. LinksOK'
  <2>1. ASSUME NEW j \in Known'
        PROVE  /\ ops'[j].previous < j
               /\ ops'[j].previous # Nothing =>
                     ops'[ops'[j].previous].grant = ops'[j].grant
    <3>1. CASE j = n
      BY <1>1, <1>3, <3>1 DEF Order, LinksOK
    <3>2. CASE j \in Known
      BY <1>1, <1>4, <3>2 DEF Order, LinksOK
    <3> QED BY <1>1, <3>1, <3>2
  <2>2. ASSUME NEW h \in Grant, tails'[h] # Nothing
        PROVE  ops'[tails'[h]].grant = h
    BY <1>1, <1>3, <2>2 DEF Order, LinksOK
  <2> QED BY <2>1, <2>2 DEF LinksOK
<1>6. ~done' => NothingBetween'
  <2> SUFFICES ASSUME ~done PROVE NothingBetween'
    BY <1>2
  <2>1. ASSUME NEW i \in Known', NEW j \in Known', i < j,
               ops'[j].previous < i, ops'[i].grant = ops'[j].grant
        PROVE  ops'[i].pc = "done"
    <3>1. i \in Known
      BY <1>1, <1>4, <2>1
    <3>2. CASE j = n
      BY <1>1, <2>1, <3>1, <3>2 DEF Order, NothingBetween
    <3>3. CASE j \in Known
      BY <1>1, <2>1, <3>1, <3>3 DEF Order, NothingBetween
    <3> QED BY <1>1, <3>2, <3>3
  <2>2. ASSUME NEW i \in Known', tails'[ops'[i].grant] < i
        PROVE  ops'[i].pc = "done"
    <3>1. i # n
      BY <1>1, <1>3, <2>2
    <3>2. i \in Known /\ ops'[i] = ops[i] /\ i < n
      BY <1>1, <3>1
    <3>3. ops[i].grant # g
      BY <1>1, <1>3, <1>4, <2>2, <3>2
    <3> QED BY <1>3, <1>4, <2>2, <3>2, <3>3 DEF Order, NothingBetween
  <2> QED BY <2>1, <2>2 DEF NothingBetween
<1>7. ArrivalOrder'
  <2> SUFFICES ASSUME ~done, NEW a \in Known', NEW b \in Known', a < b,
                      ops'[a].grant = ops'[b].grant, ops'[b].pc # "queued"
               PROVE  ops'[a].pc = "done"
    BY <1>2 DEF ArrivalOrder
  <2>1. b \in Known
    BY <1>1
  <2>2. a \in Known
    BY <1>1, <1>4, <2>1
  <2> QED BY <1>1, <2>1, <2>2 DEF Order, ArrivalOrder
<1> QED BY <1>5, <1>6, <1>7 DEF Order

LEMMA UntailKeepsOrder ==
    ASSUME Order, NEW i \in Known, Untail(i), TypeOK'
    PROVE  Order'
<1>1. /\ ops[i].pc = "done" /\ ops' = ops /\ done' = done
      /\ tails[ops[i].grant] = i
      /\ tails' = [tails EXCEPT ![ops[i].grant] = Nothing]
  BY DEF Untail, WithoutTail, endVars
<1>2. Known' = Known /\ ops[i].grant \in Grant
  BY <1>1, OpTypes DEF Known, Order, TypeOK
<1>3. \A g \in Grant : tails'[g] = IF g = ops[i].grant THEN Nothing ELSE tails[g]
  BY <1>1 DEF Order, TypeOK
<1>4. LinksOK' /\ ArrivalOrder'
  BY <1>1, <1>2, <1>3 DEF Order, LinksOK, ArrivalOrder
<1>5. ~done' => NothingBetween'
  <2> SUFFICES ASSUME ~done, NEW j \in Known, ops[j].grant = ops[i].grant
               PROVE  ops[j].pc = "done"
    <3>1. \A j \in Known : ops[j].grant \in Grant
      BY OpTypes DEF Order, TypeOK
    <3> QED BY <1>1, <1>2, <1>3, <3>1 DEF Order, NothingBetween
  <2>1. j \in Nat /\ i \in Nat
    BY OpTypes DEF Order, TypeOK
  <2>2. CASE j < i
    BY <1>1, <2>2 DEF Order, ArrivalOrder
  <2>3. CASE i < j
    BY <1>1, <2>3 DEF Order, NothingBetween
  <2> QED BY <1>1, <2>1, <2>2, <2>3
<1> QED BY <1>4, <1>5 DEF Order

LEMMA OrderNext == ASSUME Order, [Next]_vars PROVE Order'
<1>1. TypeOK'
  BY TypeNext DEF Order
<1>2. ASSUME ops' = ops, tails' = tails, done => done'
      PROVE  Order'
  BY <1>1, <1>2 DEF Order, LinksOK, NothingBetween, ArrivalOrder, Known
<1>3. ASSUME NEW i \in Known, Start(i) \/ GiveUp(i) \/ Finish(i) \/ Handler(i)
      PROVE  Order'
  BY <1>1, <1>3, QueueAdvances, HandlerAdvances, AdvanceKeepsOrder
     DEF Order, endVars
<1>4. ASSUME NEW i \in Known, CopyPtyEnds(i) \/ CopyWatchEnds(i)
      PROVE  Order'
  BY <1>2, <1>4 DEF CopyPtyEnds, CopyWatchEnds, endVars
<1>5. ASSUME NEW i \in Known, Elsewhere(i)
      PROVE  Order'
  BY <1>2, <1>5 DEF Elsewhere, endVars
<1>6. CASE Saturated \/ Drop \/ Shutdown \/ Close \/ Sweep
  BY <1>2, <1>6 DEF Saturated, Drop, Shutdown, Close, Sweep
<1>7. CASE UNCHANGED vars
  BY <1>2, <1>7 DEF vars, endVars
<1> QED BY <1>1, <1>3, <1>4, <1>5, <1>6, <1>7, DispatchKeepsOrder,
           UntailKeepsOrder DEF Next

LEMMA SpecOrder == Spec => []Order
<1>1. Init => Order
  <2> SUFFICES ASSUME Init PROVE Order
    OBVIOUS
  <2>1. ops = <<>> /\ Known = {}
    BY DEF Init, Known
  <2>2. ops \in Seq(OpRec)
    BY <2>1
  <2>3. TypeOK
    BY <2>1, <2>2 DEF Init, TypeOK
  <2> QED BY <2>1, <2>3 DEF Init, Order, LinksOK, NothingBetween, ArrivalOrder
<1>2. Order /\ [Next]_vars => Order'
  BY OrderNext
<1> QED BY <1>1, <1>2, PTL DEF Spec

\* The steps of a connection keep its maps and lists well typed.
THEOREM TypesHold == Spec => []TypeOK
<1>1. Order => TypeOK
  BY DEF Order
<1> QED BY <1>1, SpecOrder, PTL

\* However many operations of a grant wait for each other, and whatever
\* tails were removed meanwhile, none overtakes another while the connection
\* is served.
THEOREM NoneOvertakes == Spec => []ArrivalOrder
<1>1. Order => ArrivalOrder
  BY DEF Order
<1> QED BY <1>1, SpecOrder, PTL

----------------------------------------------------------------------------
(* What is in use.                                                         *)

\* The entries of a grant are its own.
EntriesOK ==
    \A g \in Grant : /\ terms[g] # Nothing => Of(terms[g], g, "attach")
                     /\ obs[g] # Nothing => Of(obs[g], g, "watch")

HandsOK ==
    \A i \in Known : \A s \in ops[i].hand :
        s \in Known /\ ops[s].grant = ops[i].grant

\* Only attach and watch store, and they open only when it is their turn,
\* also once the context is done: the host refuses them then.
OpensInTurn ==
    /\ \A i \in Known : ops[i].pc = "storing" => ops[i].method \in {"attach", "watch"}
    /\ \A i, j \in Known :
          /\ i < j /\ ops[i].grant = ops[j].grant
          /\ ops[j].pc \in {"handling", "storing"}
          /\ ops[j].method \in {"attach", "watch"}
          => ops[i].pc = "done"

\* While the host's answer is not stored, no other of its kind is in use, so
\* that storing it replaces no entry that is in use.
OneInUse ==
    \A i \in Known : ops[i].pc = "storing" =>
        \A s \in open : Of(s, ops[i].grant, ops[i].method) => s = i

\* An observation in use is copied from, or is about to be.
WatchesAreCopied ==
    \A s \in open : ops[s].method = "watch" => s \in copying \/ ops[s].pc = "storing"

Inv ==
    /\ Order /\ EntriesOK /\ HandsOK /\ OpensInTurn /\ OneInUse
    /\ WatchesAreCopied /\ InUseIsReachable

\* Steps that leave the operations alone and open nothing.
LEMMA OutsideKeepsInv ==
    ASSUME Inv, Order', ops' = ops, open' \subseteq open, up' => up,
           \A g \in Grant : terms'[g] \in {terms[g], Nothing}
                            /\ obs'[g] \in {obs[g], Nothing},
           up' => \A s \in open', g \in Grant :
                     /\ s = terms[g] => s = terms'[g]
                     /\ s = obs[g] => s = obs'[g],
           \A s \in open' : ops[s].method = "watch" /\ s \in copying => s \in copying'
    PROVE  Inv'
<1>1. Known' = Known /\ open \subseteq Known
  BY DEF Known, Inv, Order, TypeOK
<1>2. \A s \in open' : ops[s].grant \in Grant
  BY <1>1, OpTypes DEF Inv, Order, TypeOK
<1>3. EntriesOK'
  BY DEF Inv, EntriesOK, Of
<1>4. HandsOK' /\ OpensInTurn'
  BY <1>1 DEF Inv, HandsOK, OpensInTurn
<1>5. OneInUse' /\ WatchesAreCopied'
  BY <1>1 DEF Inv, OneInUse, WatchesAreCopied, Of
<1>6. InUseIsReachable'
  BY <1>1, <1>2 DEF Inv, InUseIsReachable
<1> QED BY <1>3, <1>4, <1>5, <1>6 DEF Inv

\* Copiers, the host, and the end of the connection.
LEMMA OutsideSteps ==
    ASSUME Inv, Order',
           \/ UNCHANGED vars
           \/ \E i \in Known : Untail(i) \/ CopyPtyEnds(i) \/ CopyWatchEnds(i)
                               \/ Elsewhere(i)
           \/ Saturated \/ Drop \/ Shutdown \/ Close \/ Sweep
    PROVE  Inv'
<1>1. CASE UNCHANGED vars
  BY <1>1, OutsideKeepsInv DEF vars, connVars, endVars
<1>2. ASSUME NEW i \in Known, Untail(i)
      PROVE  Inv'
  BY <1>2, OutsideKeepsInv DEF Untail, connVars, endVars
<1>3. ASSUME NEW i \in Known, CopyPtyEnds(i)
      PROVE  Inv'
  <2>1. /\ ops' = ops /\ open' = open /\ up' = up /\ obs' = obs
        /\ copying' = copying \ {i} /\ ops[i].method = "attach"
        /\ i \notin open \/ ~up
    BY <1>3 DEF CopyPtyEnds, endVars
  <2>2. \A g \in Grant : terms'[g] = terms[g] \/ (terms[g] = i /\ terms'[g] = Nothing)
    BY <1>3 DEF CopyPtyEnds, Forget, Inv, Order, TypeOK
  <2> QED BY <2>1, <2>2, OutsideKeepsInv
<1>4. ASSUME NEW i \in Known, CopyWatchEnds(i)
      PROVE  Inv'
  <2>1. /\ ops' = ops /\ open' = open \ {i} /\ up' = up /\ terms' = terms
        /\ copying' = copying \ {i}
    BY <1>4 DEF CopyWatchEnds, CloseWatch, endVars
  <2>2. \A g \in Grant : obs'[g] = obs[g] \/ (obs[g] = i /\ obs'[g] = Nothing)
    BY <1>4 DEF CopyWatchEnds, Forget, Inv, Order, TypeOK
  <2> QED BY <2>1, <2>2, OutsideKeepsInv
<1>5. ASSUME NEW i \in Known, Elsewhere(i)
      PROVE  Inv'
  BY <1>5, OutsideKeepsInv DEF Elsewhere, connVars, endVars
<1>6. CASE Saturated \/ Drop \/ Shutdown \/ Sweep
  BY <1>6, OutsideKeepsInv DEF Saturated, Drop, Shutdown, Sweep, connVars
<1>7. CASE Close
  BY <1>7, OutsideKeepsInv DEF Close
<1> QED BY <1>1, <1>2, <1>3, <1>4, <1>5, <1>6, <1>7

LEMMA DispatchKeepsInv ==
    ASSUME Inv, Order', NEW g \in Grant, NEW m \in Methods,
           NEW t \in Streams(m, g), Dispatch(m, g, t)
    PROVE  Inv'
<1>n. PICK n : n = Len(ops) + 1
  OBVIOUS
<1>1. /\ n \in Nat /\ Known' = Known \cup {n}
      /\ \A j \in Known : j < n /\ ops'[j] = ops[j] /\ j \in Nat
      /\ ops'[n].pc = "queued" /\ ops'[n].hand = {}
  BY <1>n, DispatchAppends, OpTypes DEF Inv, Order, TypeOK
<1>2. UNCHANGED <<terms, obs, open, copying, up>>
  BY DEF Dispatch, connVars, endVars
<1>3. /\ open \subseteq Known
      /\ \A h \in Grant : terms[h] \in Known \cup {Nothing} /\ obs[h] \in Known \cup {Nothing}
      /\ \A s \in open : ops[s].grant \in Grant
  BY OpTypes DEF Inv, Order, TypeOK
<1>4. EntriesOK'
  BY <1>1, <1>2, <1>3 DEF Inv, EntriesOK, Of
<1>5. HandsOK'
  BY <1>1 DEF Inv, HandsOK
<1>6. OpensInTurn'
  BY <1>1 DEF Inv, OpensInTurn
<1>7. OneInUse'
  BY <1>1, <1>2, <1>3 DEF Inv, OneInUse, Of
<1>8. WatchesAreCopied'
  BY <1>1, <1>2, <1>3 DEF Inv, WatchesAreCopied
<1>9. InUseIsReachable'
  BY <1>1, <1>2, <1>3 DEF Inv, InUseIsReachable
<1> QED BY <1>4, <1>5, <1>6, <1>7, <1>8, <1>9 DEF Inv

\* Operation i moves on to a label at which it holds nothing, and whatever it
\* held is not in use any more.
LEMMA LetsGoKeepsInv ==
    ASSUME Inv, Order', NEW i \in Known, Moved(i), ops'[i].hand = ops[i].hand,
           ops'[i].pc \in {"handling", "ending", "done"},
           ops[i].pc # "done",
           open' \subseteq open, UNCHANGED <<terms, obs, copying, up>>,
           ops[i].pc = "storing" => i \notin open',
           ops[i].pc = "closing" => open' \cap ops[i].hand = {},
           ops'[i].pc = "handling" /\ ops[i].method \in {"attach", "watch"} => ~done'
    PROVE  Inv'
<1>1. /\ Known' = Known
      /\ \A j \in Known : /\ ops'[j].method = ops[j].method
                          /\ ops'[j].grant = ops[j].grant
                          /\ ops'[j].hand = ops[j].hand
                          /\ j # i => ops'[j] = ops[j]
  BY DEF Moved
<1>2. /\ open \subseteq Known
      /\ \A h \in Grant : terms[h] \in Known \cup {Nothing} /\ obs[h] \in Known \cup {Nothing}
      /\ \A s \in open : ops[s].grant \in Grant
  BY OpTypes DEF Inv, Order, TypeOK
<1>3. EntriesOK'
  BY <1>1, <1>2 DEF Inv, EntriesOK, Of
<1>4. HandsOK'
  BY <1>1 DEF Inv, HandsOK
<1>5. OpensInTurn'
  <2>1. ASSUME NEW a \in Known, NEW b \in Known, a < b,
               ops'[a].grant = ops'[b].grant,
               ops'[b].pc \in {"handling", "storing"},
               ops'[b].method \in {"attach", "watch"}
        PROVE  ops'[a].pc = "done"
    <3>1. CASE b = i
      <4>1. ~done' /\ ops'[b].pc # "queued"
        BY <1>1, <2>1, <3>1
      <4> QED BY <1>1, <2>1, <4>1 DEF Order, ArrivalOrder
    <3>2. CASE b # i
      <4>1. ops[a].pc = "done"
        BY <1>1, <2>1, <3>2 DEF Inv, OpensInTurn
      <4> QED BY <1>1, <4>1
    <3> QED BY <3>1, <3>2
  <2>2. \A a \in Known : ops'[a].pc = "storing" => ops'[a].method \in {"attach", "watch"}
    BY <1>1 DEF Inv, OpensInTurn
  <2> QED BY <1>1, <2>1, <2>2 DEF OpensInTurn
<1>6. OneInUse'
  BY <1>1, <1>2 DEF Inv, OneInUse, Of
<1>7. WatchesAreCopied'
  BY <1>1, <1>2 DEF Inv, WatchesAreCopied
<1>8. InUseIsReachable'
  <2> SUFFICES ASSUME up, NEW s \in open'
               PROVE  \/ s \in {terms[ops[s].grant], obs[ops[s].grant]}
                      \/ ops'[s].pc = "storing"
                      \/ \E j \in Known : ops'[j].pc = "closing" /\ s \in ops'[j].hand
    BY <1>1, <1>2 DEF InUseIsReachable
  <2>1. CASE ops[s].pc = "storing"
    BY <1>1, <1>2, <2>1
  <2>2. ASSUME NEW j \in Known, ops[j].pc = "closing", s \in ops[j].hand
        PROVE  \E k \in Known : ops'[k].pc = "closing" /\ s \in ops'[k].hand
    <3>1. j # i
      BY <2>2
    <3> QED BY <1>1, <2>2, <3>1
  <2> QED BY <2>1, <2>2 DEF Inv, InUseIsReachable
<1> QED BY <1>3, <1>4, <1>5, <1>6, <1>7, <1>8 DEF Inv

LEMMA QueueKeepsInv ==
    ASSUME Inv, Order', NEW i \in Known, Start(i) \/ GiveUp(i) \/ Finish(i)
    PROVE  Inv'
<1>1. /\ Advances(i) /\ ops'[i].hand = ops[i].hand
      /\ ops[i].pc \in {"queued", "ending"}
      /\ ops'[i].pc \in {"handling", "ending", "done"}
      /\ UNCHANGED <<terms, obs, copying, up, done, open>>
  BY QueueAdvances DEF Inv, Order, connVars, endVars
<1>2. ops'[i].pc = "handling" /\ ops[i].method \in {"attach", "watch"} => ~done
  <2>1. CASE Start(i)
    <3>1. GoTo(i, "ending") => ops'[i].pc = "ending"
      BY GoToMoves DEF Inv, Order, Label
    <3> QED BY <2>1, <3>1 DEF Start
  <2>2. CASE GiveUp(i)
    BY <2>2, GoToMoves DEF GiveUp, Inv, Order, Label
  <2>3. CASE Finish(i)
    BY <2>3, GoToMoves DEF Finish, Inv, Order, Label
  <2> QED BY <2>1, <2>2, <2>3
<1> QED BY <1>1, <1>2, LetsGoKeepsInv DEF Advances

LEMMA EndersKeepInv ==
    ASSUME Inv, Order', NEW i \in Known,
           \/ Refused(i) \/ Ensure(i) \/ Freeze(i) \/ GivesBack(i) \/ Closes(i)
           \/ WritePty(i)
    PROVE  Inv'
<1>1. /\ GoTo(i, "ending") /\ open' \subseteq open
      /\ UNCHANGED <<terms, obs, copying, up>>
      /\ ops[i].pc # "done"
  BY DEF Refused, Ensure, Freeze, GivesBack, Closes, WritePty, Handles, Ended,
         HungUp, CloseAgain, connVars, endVars
<1>2. Moved(i) /\ ops'[i].pc = "ending" /\ ops'[i].hand = ops[i].hand
  BY <1>1, GoToMoves DEF Inv, Order, Label
<1>3. ops[i].pc = "storing" => i \notin open'
  BY DEF Refused, Ensure, Freeze, GivesBack, Closes, WritePty, Handles, CloseAgain
<1>4. ops[i].pc = "closing" => open' \cap ops[i].hand = {}
  <2> SUFFICES ASSUME Closes(i) PROVE open' \cap ops[i].hand = {}
    BY DEF Refused, Ensure, Freeze, GivesBack, WritePty, Handles
  <2> QED BY DEF Closes, Ended, Inv, HandsOK
<1> QED BY <1>1, <1>2, <1>3, <1>4, LetsGoKeepsInv

LEMMA OpensKeepsInv ==
    ASSUME Inv, Order', NEW i \in Known, Opens(i)
    PROVE  Inv'
<1>1. /\ GoTo(i, "storing") /\ open' = open \cup {i}
      /\ UNCHANGED <<terms, obs, copying, up>>
      /\ ops[i].pc = "handling" /\ ops[i].method \in {"attach", "watch"}
      /\ \A s \in open : ~Of(s, ops[i].grant, ops[i].method)
  BY DEF Opens, Handles, Free, connVars, endVars
<1>2. /\ Moved(i) /\ ops'[i].pc = "storing" /\ ops'[i].hand = ops[i].hand
  BY <1>1, GoToMoves DEF Inv, Order, Label
<1>3. /\ Known' = Known
      /\ \A j \in Known : /\ ops'[j].method = ops[j].method
                          /\ ops'[j].grant = ops[j].grant
                          /\ ops'[j].hand = ops[j].hand
                          /\ j # i => ops'[j] = ops[j]
  BY <1>2 DEF Moved
<1>4. /\ open \subseteq Known /\ \A j \in Known : j \in Nat
      /\ \A h \in Grant : terms[h] \in Known \cup {Nothing} /\ obs[h] \in Known \cup {Nothing}
      /\ \A s \in open' : ops[s].grant \in Grant
  BY <1>1, OpTypes DEF Inv, Order, TypeOK
<1>5. EntriesOK' /\ HandsOK'
  BY <1>1, <1>3, <1>4 DEF Inv, EntriesOK, HandsOK, Of
<1>6. OpensInTurn'
  <2>1. ASSUME NEW a \in Known, NEW b \in Known, a < b,
               ops'[a].grant = ops'[b].grant,
               ops'[b].pc \in {"handling", "storing"},
               ops'[b].method \in {"attach", "watch"}
        PROVE  ops'[a].pc = "done"
    <3>1. ops[b].pc \in {"handling", "storing"}
      BY <1>1, <1>3, <2>1
    <3>2. ops[a].pc = "done"
      BY <1>3, <2>1, <3>1 DEF Inv, OpensInTurn
    <3> QED BY <1>1, <1>3, <3>2
  <2>2. \A a \in Known : ops'[a].pc = "storing" => ops'[a].method \in {"attach", "watch"}
    BY <1>1, <1>3 DEF Inv, OpensInTurn
  <2> QED BY <1>3, <2>1, <2>2 DEF OpensInTurn
<1>7. OneInUse'
  <2> SUFFICES ASSUME NEW k \in Known, ops'[k].pc = "storing", NEW s \in open',
                      ops[s].grant = ops[k].grant, ops[s].method = ops[k].method
               PROVE  s = k
    BY <1>1, <1>3, <1>4 DEF OneInUse, Of
  <2>1. CASE k = i
    BY <1>1, <2>1 DEF Of
  <2>2. CASE k # i /\ s # i
    BY <1>1, <1>3, <2>2 DEF Inv, OneInUse, Of
  <2>3. CASE k # i /\ s = i
    <3>1. ops[k].pc = "storing" /\ ops[k].method \in {"attach", "watch"}
      BY <1>1, <1>3, <2>3
    <3>2. k < i \/ i < k
      BY <1>4, <2>3
    <3> QED BY <1>1, <2>3, <3>1, <3>2 DEF Inv, OpensInTurn
  <2> QED BY <2>1, <2>2, <2>3
<1>8. WatchesAreCopied'
  BY <1>1, <1>2, <1>3, <1>4 DEF Inv, WatchesAreCopied
<1>9. InUseIsReachable'
  <2> SUFFICES ASSUME up, NEW s \in open, s # i
               PROVE  \/ s \in {terms[ops[s].grant], obs[ops[s].grant]}
                      \/ ops'[s].pc = "storing"
                      \/ \E j \in Known : ops'[j].pc = "closing" /\ s \in ops'[j].hand
    BY <1>1, <1>2, <1>3, <1>4 DEF InUseIsReachable
  <2>1. ASSUME NEW j \in Known, ops[j].pc = "closing", s \in ops[j].hand
        PROVE  \E k \in Known : ops'[k].pc = "closing" /\ s \in ops'[k].hand
    BY <1>1, <1>3, <2>1
  <2> QED BY <1>3, <1>4, <2>1 DEF Inv, InUseIsReachable
<1> QED BY <1>5, <1>6, <1>7, <1>8, <1>9 DEF Inv

LEMMA KeepsKeepsInv ==
    ASSUME Inv, Order', NEW i \in Known, Keeps(i)
    PROVE  Inv'
<1>g. PICK g \in Grant : g = ops[i].grant
  BY OpTypes DEF Inv, Order, TypeOK
<1>1. /\ GoTo(i, "ending") /\ ops[i].pc = "storing"
      /\ UNCHANGED <<open, up>> /\ copying' = copying \cup {i}
      /\ \/ /\ ops[i].method = "attach" /\ obs' = obs
            /\ terms' = [terms EXCEPT ![g] = i]
         \/ /\ ops[i].method = "watch" /\ terms' = terms
            /\ obs' = [obs EXCEPT ![g] = i]
  BY <1>g DEF Keeps, endVars
<1>2. /\ Moved(i) /\ ops'[i].pc = "ending" /\ ops'[i].hand = ops[i].hand
  BY <1>1, GoToMoves DEF Inv, Order, Label
<1>3. /\ Known' = Known
      /\ \A j \in Known : /\ ops'[j].method = ops[j].method
                          /\ ops'[j].grant = ops[j].grant
                          /\ ops'[j].hand = ops[j].hand
                          /\ j # i => ops'[j] = ops[j]
  BY <1>2 DEF Moved
<1>4. /\ open \subseteq Known
      /\ \A h \in Grant : terms[h] \in Known \cup {Nothing} /\ obs[h] \in Known \cup {Nothing}
      /\ \A s \in open : ops[s].grant \in Grant
      /\ terms \in [Grant -> Known \cup {Nothing}] /\ obs \in [Grant -> Known \cup {Nothing}]
  BY OpTypes DEF Inv, Order, TypeOK
<1>5. \A h \in Grant :
         /\ terms'[h] = IF h = g /\ ops[i].method = "attach" THEN i ELSE terms[h]
         /\ obs'[h] = IF h = g /\ ops[i].method = "watch" THEN i ELSE obs[h]
  BY <1>1, <1>4
<1>6. EntriesOK'
  BY <1>g, <1>3, <1>4, <1>5 DEF Inv, EntriesOK, Of
<1>7. HandsOK'
  BY <1>3 DEF Inv, HandsOK
<1>8. OpensInTurn'
  BY <1>1, <1>2, <1>3 DEF Inv, OpensInTurn
<1>9. OneInUse'
  BY <1>1, <1>2, <1>3, <1>4 DEF Inv, OneInUse, Of
<1>10. WatchesAreCopied'
  BY <1>1, <1>2, <1>3, <1>4 DEF Inv, WatchesAreCopied
<1>11. InUseIsReachable'
  <2> SUFFICES ASSUME up, NEW s \in open
               PROVE  \/ s \in {terms'[ops[s].grant], obs'[ops[s].grant]}
                      \/ ops'[s].pc = "storing"
                      \/ \E j \in Known : ops'[j].pc = "closing" /\ s \in ops'[j].hand
    BY <1>1, <1>3, <1>4 DEF InUseIsReachable
  <2>1. CASE s = i
    BY <1>g, <1>1, <1>5, <2>1
  <2>2. CASE s # i /\ ops[s].pc = "storing"
    BY <1>3, <1>4, <2>2
  <2>3. CASE s # i /\ s \in {terms[ops[s].grant], obs[ops[s].grant]}
    <3>1. s # Nothing /\ ops[s].grant \in Grant
      BY <1>4, OpTypes DEF Inv, Order, TypeOK
    <3>2. CASE s = terms[ops[s].grant]
      <4>1. ops[s].method = "attach"
        BY <3>1, <3>2 DEF Inv, EntriesOK, Of
      <4>2. ~(ops[s].grant = g /\ ops[i].method = "attach")
        BY <1>g, <1>1, <2>3, <4>1 DEF Inv, OneInUse, Of
      <4> QED BY <1>5, <3>1, <3>2, <4>2
    <3>3. CASE s = obs[ops[s].grant]
      <4>1. ops[s].method = "watch"
        BY <3>1, <3>3 DEF Inv, EntriesOK, Of
      <4>2. ~(ops[s].grant = g /\ ops[i].method = "watch")
        BY <1>g, <1>1, <2>3, <4>1 DEF Inv, OneInUse, Of
      <4> QED BY <1>5, <3>1, <3>3, <4>2
    <3> QED BY <2>3, <3>2, <3>3
  <2>4. ASSUME NEW j \in Known, ops[j].pc = "closing", s \in ops[j].hand
        PROVE  \E k \in Known : ops'[k].pc = "closing" /\ s \in ops'[k].hand
    BY <1>1, <1>3, <2>4
  <2> QED BY <2>1, <2>2, <2>3, <2>4 DEF Inv, InUseIsReachable
<1> QED BY <1>6, <1>7, <1>8, <1>9, <1>10, <1>11 DEF Inv

\* Entries of the grant of i are taken into its hand.
LEMMA TakingKeepsInv ==
    ASSUME Inv, Order', NEW i \in Known, NEW g \in Grant, g = ops[i].grant,
           Moved(i), ops[i].pc = "handling", ops'[i].pc = "closing",
           UNCHANGED <<open, up, copying>>,
           ops'[i].hand \subseteq {terms[g], obs[g]} \ {Nothing},
           \/ terms' = terms
           \/ terms' = [terms EXCEPT ![g] = Nothing]
              /\ (terms[g] # Nothing => terms[g] \in ops'[i].hand),
           \/ obs' = obs
           \/ obs' = [obs EXCEPT ![g] = Nothing]
              /\ (obs[g] # Nothing => obs[g] \in ops'[i].hand)
    PROVE  Inv'
<1>1. /\ Known' = Known
      /\ \A j \in Known : /\ ops'[j].method = ops[j].method
                          /\ ops'[j].grant = ops[j].grant
                          /\ j # i => ops'[j] = ops[j]
  BY DEF Moved
<1>2. /\ open \subseteq Known
      /\ \A h \in Grant : terms[h] \in Known \cup {Nothing} /\ obs[h] \in Known \cup {Nothing}
      /\ \A s \in open : ops[s].grant \in Grant /\ s # Nothing
      /\ terms \in [Grant -> Known \cup {Nothing}] /\ obs \in [Grant -> Known \cup {Nothing}]
  BY OpTypes DEF Inv, Order, TypeOK
<1>3. \A h \in Grant : terms'[h] \in {terms[h], Nothing} /\ obs'[h] \in {obs[h], Nothing}
  BY <1>2
<1>4. EntriesOK'
  BY <1>1, <1>2, <1>3 DEF Inv, EntriesOK, Of
<1>5. HandsOK'
  <2>1. \A s \in ops'[i].hand : s \in Known /\ ops[s].grant = g
    BY <1>2 DEF Inv, EntriesOK, Of
  <2> QED BY <1>1, <2>1 DEF Inv, HandsOK
<1>6. OpensInTurn'
  BY <1>1 DEF Inv, OpensInTurn
<1>7. OneInUse' /\ WatchesAreCopied'
  BY <1>1, <1>2 DEF Inv, OneInUse, WatchesAreCopied, Of
<1>8. InUseIsReachable'
  <2> SUFFICES ASSUME up, NEW s \in open
               PROVE  \/ s \in {terms'[ops[s].grant], obs'[ops[s].grant]}
                      \/ ops'[s].pc = "storing"
                      \/ \E j \in Known : ops'[j].pc = "closing" /\ s \in ops'[j].hand
    BY <1>1, <1>2 DEF InUseIsReachable
  <2>1. CASE ops[s].pc = "storing"
    BY <1>1, <1>2, <2>1
  <2>2. CASE s \in {terms[ops[s].grant], obs[ops[s].grant]}
    <3>1. \/ s \in {terms'[ops[s].grant], obs'[ops[s].grant]}
          \/ s \in ops'[i].hand
      BY <1>2, <2>2
    <3> QED BY <3>1
  <2>3. ASSUME NEW j \in Known, ops[j].pc = "closing", s \in ops[j].hand
        PROVE  \E k \in Known : ops'[k].pc = "closing" /\ s \in ops'[k].hand
    BY <1>1, <2>3
  <2> QED BY <2>1, <2>2, <2>3 DEF Inv, InUseIsReachable
<1> QED BY <1>4, <1>5, <1>6, <1>7, <1>8 DEF Inv

LEMMA TakersKeepInv ==
    ASSUME Inv, Order', NEW i \in Known, Detach(i) \/ Unwatch(i) \/ Revoke(i)
    PROVE  Inv'
<1>g. PICK g \in Grant : g = ops[i].grant
  BY OpTypes DEF Inv, Order, TypeOK
<1>1. /\ terms[g] \in Nat /\ obs[g] \in Nat /\ TypeOK
      /\ UNCHANGED <<open, up, copying, done>> /\ ops[i].pc = "handling"
  BY DEF Inv, Order, TypeOK, Known, Nothing, Detach, Unwatch, Revoke, Handles, endVars
<1>2. CASE Detach(i) /\ OfStream(i, terms)
  <2>1. /\ ops' = [ops EXCEPT ![i].pc = "closing", ![i].hand = {terms[g]}]
        /\ terms' = [terms EXCEPT ![g] = Nothing] /\ obs' = obs
        /\ terms[g] # Nothing
    BY <1>g, <1>2 DEF Detach, OfStream
  <2>2. {terms[g]} \in SUBSET Nat
    BY <1>1
  <2>3. Moved(i) /\ ops'[i].pc = "closing" /\ ops'[i].hand = {terms[g]}
    BY <1>1, <2>1, <2>2, TakesMoves
  <2> QED BY <1>g, <1>1, <2>1, <2>3, TakingKeepsInv
<1>3. CASE Unwatch(i) /\ OfStream(i, obs)
  <2>1. /\ ops' = [ops EXCEPT ![i].pc = "closing", ![i].hand = {obs[g]}]
        /\ obs' = [obs EXCEPT ![g] = Nothing] /\ terms' = terms
        /\ obs[g] # Nothing
    BY <1>g, <1>3 DEF Unwatch, OfStream
  <2>2. {obs[g]} \in SUBSET Nat
    BY <1>1
  <2>3. Moved(i) /\ ops'[i].pc = "closing" /\ ops'[i].hand = {obs[g]}
    BY <1>1, <2>1, <2>2, TakesMoves
  <2> QED BY <1>g, <1>1, <2>1, <2>3, TakingKeepsInv
<1>4. CASE Revoke(i)
  <2> DEFINE h == {terms[g], obs[g]} \ {Nothing}
  <2>1. /\ ops' = [ops EXCEPT ![i].pc = "closing", ![i].hand = h]
        /\ obs' = [obs EXCEPT ![g] = Nothing]
        /\ terms' = [terms EXCEPT ![g] = Nothing]
    BY <1>g, <1>4 DEF Revoke
  <2>2. h \in SUBSET Nat
    BY <1>1
  <2>3. Moved(i) /\ ops'[i].pc = "closing" /\ ops'[i].hand = h
    BY <1>1, <2>1, <2>2, TakesMoves
  <2> QED BY <1>g, <1>1, <2>1, <2>3, TakingKeepsInv
<1>5. CASE GoTo(i, "ending") /\ terms' = terms /\ obs' = obs
  <2>1. Moved(i) /\ ops'[i].pc = "ending" /\ ops'[i].hand = ops[i].hand
    BY <1>1, <1>5, GoToMoves DEF Label
  <2> QED BY <1>1, <1>5, <2>1, LetsGoKeepsInv
<1> QED BY <1>2, <1>3, <1>4, <1>5 DEF Detach, Unwatch

LEMMA NextInv == ASSUME Inv, [Next]_vars PROVE Inv'
<1>1. Order'
  BY OrderNext DEF Inv
<1>2. ASSUME NEW i \in Known, Handler(i)
      PROVE  Inv'
  BY <1>1, <1>2, EndersKeepInv, OpensKeepsInv, KeepsKeepsInv, TakersKeepInv
     DEF Handler
<1> QED BY <1>1, <1>2, OutsideSteps, DispatchKeepsInv, QueueKeepsInv DEF Next

LEMMA SpecInv == Spec => []Inv
<1>1. Init /\ Order => Inv
  BY DEF Init, Known, Inv, EntriesOK, HandsOK, OpensInTurn, OneInUse,
         WatchesAreCopied, InUseIsReachable
<1>2. Inv /\ [Next]_vars => Inv'
  BY NextInv
<1> QED BY <1>1, <1>2, SpecOrder, PTL DEF Spec

\* While the client is there it can close whatever it opened: no late end of
\* an earlier copyPty or copyWatch, and no answer stored late, hides a
\* terminal or an observation that is in use.
THEOREM NothingIsHidden == Spec => []InUseIsReachable
<1>1. Inv => InUseIsReachable
  BY DEF Inv
<1> QED BY <1>1, SpecInv, PTL

\* A connection that is over leaves no observation behind, wherever close
\* found its operations.
THEOREM NoWatchIsLeft == Spec => []NoObservationStays
<1>1. Inv => NoObservationStays
  <2> SUFFICES ASSUME Inv, Over, NEW s \in open, ops[s].method = "watch"
               PROVE  FALSE
    BY DEF NoObservationStays
  <2>1. s \in Known /\ ops[s].pc = "storing"
    BY DEF Inv, Order, TypeOK, WatchesAreCopied, Over
  <2> QED BY <2>1 DEF Over
<1> QED BY <1>1, SpecInv, PTL
=============================================================================
