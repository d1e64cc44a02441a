-------------------------- MODULE WritePathProofs --------------------------
(***************************************************************************)
(* Proofs about Write and handleGRO, for every batch size, every set of    *)
(* packets and flows and any number of calls:                              *)
(*   - the slice pools of the flow tables never lose a slice and never run *)
(*     dry (PoolInv);                                                      *)
(*   - every packet taken up is in one place of one buffer to write        *)
(*     (BatchHeld);                                                        *)
(*   - what is merged, segmentation at the size in the virtio header       *)
(*     splits into the same packets, and every buffer is written with the  *)
(*     header its content calls for (MergeInv);                            *)
(*   - what gsoSplit makes of a buffer with such a header are the packets  *)
(*     it was merged from (HeaderInv, BufferSplits);                       *)
(*   - the datagrams of a flow stay in the order of the caller, as far as  *)
(*     udpGRO takes them (OrderInv).                                       *)
(***************************************************************************)
EXTENDS RoundTrip, FiniteSetTheorems, TLAPS
-----------------------------------------------------------------------------
(***************************************************************************)
(* The slice pools.                                                        *)
(***************************************************************************)

\* A table's slices are in its pool or with a live flow.
Balanced(t) ==
  /\ t = [items |-> t.items, live |-> t.live, pool |-> t.pool]
  /\ t.live \in SUBSET Flow
  /\ t.pool \in Int
  /\ t.pool + Cardinality(t.live) = PoolSize

\* What is taken up so far is part of a batch of legal size.
BatchInv == /\ batch \in Seq(Packet)
            /\ size \in 0..MaxBatch
            /\ Len(batch) <= size

\* No more flows are live than packets have been taken up; a packet is
\* scanned for a flow that is live already; idle tables are empty.
FlowsInv ==
  /\ Cardinality(tcp.live) <= Len(batch)
  /\ Cardinality(udp.live) <= Len(batch)
  /\ pc = "scan" => batch # <<>> /\ current.flow \in tcp.live
  /\ pc = "idle" => tcp.live = {} /\ udp.live = {}

PoolInv == BatchInv /\ Balanced(tcp) /\ Balanced(udp) /\ FlowsInv
-----------------------------------------------------------------------------
(***************************************************************************)
(* The operations of a table.                                              *)
(***************************************************************************)

\* A new table has all its slices in the pool.
LEMMA NewTableBalanced ==
  /\ Balanced(NewTable(Flow, PoolSize))
  /\ NewTable(Flow, PoolSize).live = {}
  /\ Cardinality({}) = 0
BY FS_EmptySet, BatchAssumption DEF Balanced, NewTable

\* The live flows of a balanced table are finite in number.
LEMMA LiveFinite ==
  ASSUME NEW t, Balanced(t)
  PROVE  IsFiniteSet(t.live) /\ Cardinality(t.live) \in Nat
BY FS_Subset, FS_CardinalityType, FlowAssumption DEF Balanced

\* insert takes a slice exactly when the flow was not live.
LEMMA InsertBalanced ==
  ASSUME NEW t, Balanced(t), NEW f \in Flow, NEW item
  PROVE  /\ Balanced(Insert(t, f, item))
         /\ Insert(t, f, item).live = t.live \cup {f}
         /\ f \in t.live =>
              Cardinality(Insert(t, f, item).live) = Cardinality(t.live)
         /\ Cardinality(Insert(t, f, item).live) <= Cardinality(t.live) + 1
<1>1. IsFiniteSet(t.live) /\ Cardinality(t.live) \in Nat
  BY LiveFinite
<1>2. Cardinality(t.live \cup {f}) =
        IF f \in t.live THEN Cardinality(t.live) ELSE Cardinality(t.live) + 1
  BY <1>1, FS_AddElement
<1>3. Insert(t, f, item).live = t.live \cup {f}
  BY DEF Insert
<1>4. Insert(t, f, item).pool = IF f \in t.live THEN t.pool ELSE t.pool - 1
  BY DEF Insert, Existing
<1>5. Balanced(Insert(t, f, item))
  <2>1. Insert(t, f, item) = [items |-> Insert(t, f, item).items,
                              live  |-> Insert(t, f, item).live,
                              pool  |-> Insert(t, f, item).pool]
    BY DEF Insert
  <2> QED
    BY <1>1, <1>2, <1>3, <1>4, <2>1, BatchAssumption DEF Balanced
<1> QED
  BY <1>1, <1>2, <1>3, <1>5

\* updateAt and deleteAt change the items of a flow only.
LEMMA ItemsOnly ==
  ASSUME NEW t, Balanced(t), NEW f, NEW k, NEW item
  PROVE  /\ Balanced(UpdateAt(t, f, k, item))
         /\ UpdateAt(t, f, k, item).live = t.live
         /\ Balanced(DeleteAt(t, f, k))
         /\ DeleteAt(t, f, k).live = t.live
BY DEF Balanced, UpdateAt, DeleteAt

\* reset puts every slice back, whatever the flows were.
LEMMA ResetBalanced ==
  ASSUME NEW t, Balanced(t)
  PROVE  Balanced(Reset(t)) /\ Reset(t).live = {}
<1>1. Cardinality(t.live) \in Nat /\ Cardinality({}) = 0
  BY LiveFinite, FS_EmptySet
<1> QED
  BY <1>1, BatchAssumption DEF Balanced, Reset

\* Taking a packet up lengthens the batch by one.
LEMMA Taken ==
  ASSUME BatchInv, NEW p \in Packet, Len(batch) < size,
         batch' = Append(batch, p), size' = size
  PROVE  /\ BatchInv'
         /\ Len(batch') = Len(batch) + 1
         /\ Len(batch) \in Nat
         /\ batch'[Len(batch')] = p
         /\ batch' # <<>>
BY BatchAssumption DEF BatchInv
-----------------------------------------------------------------------------
(***************************************************************************)
(* Pools.                                                                  *)
(***************************************************************************)

\* The tables are made with full pools.
LEMMA PoolInit == Init => PoolInv
<1> SUFFICES ASSUME Init PROVE PoolInv
  OBVIOUS
<1>1. BatchInv
  BY BatchAssumption DEF Init, BatchInv
<1>2. /\ Balanced(tcp) /\ Balanced(udp)
      /\ tcp.live = {} /\ udp.live = {} /\ Cardinality({}) = 0
  BY NewTableBalanced DEF Init
<1>3. FlowsInv
  BY <1>2 DEF Init, FlowsInv
<1> QED
  BY <1>1, <1>2, <1>3 DEF PoolInv

\* No step of Write or handleGRO disturbs the pools.
LEMMA PoolNext == PoolInv /\ [Next]_vars => PoolInv'
<1> SUFFICES ASSUME PoolInv, [Next]_vars
             PROVE  PoolInv'
  OBVIOUS
<1>n. /\ Len(batch) \in Nat
      /\ Cardinality(tcp.live) \in Nat /\ Cardinality(udp.live) \in Nat
  BY LiveFinite DEF PoolInv, BatchInv
<1>1. CASE Start
  <2>1. tcp.live = {} /\ udp.live = {} /\ Cardinality({}) = 0
    BY <1>1, FS_EmptySet DEF Start, PoolInv, FlowsInv
  <2> QED
    BY <1>1, <2>1, BatchAssumption
    DEF Start, PoolInv, BatchInv, FlowsInv, Balanced
<1>2. ASSUME NEW p \in Packet, TakeRaw(p) \/ TakeAsIs(p)
      PROVE  PoolInv'
  <2>1. Takes(p, Buffer(p, cur + 1)) \/ Takes(p, [Buffer(p, cur + 1) EXCEPT !.hdr = Plain])
    BY <1>2 DEF TakeRaw, TakeAsIs
  <2>2. /\ pc = "gro" /\ pc' = pc
        /\ UNCHANGED <<tcp, udp, size>>
        /\ batch' = Append(batch, p) /\ Len(batch) < size
    BY <1>2, <2>1 DEF TakeRaw, TakeAsIs, Takes
  <2>3. BatchInv' /\ Len(batch') = Len(batch) + 1
    BY <2>2, Taken DEF PoolInv
  <2> QED
    BY <1>n, <2>2, <2>3 DEF PoolInv, FlowsInv, Balanced
<1>3. ASSUME NEW p \in Packet, TakeTcp(p)
      PROVE  PoolInv'
  <2>1. /\ pc = "gro" /\ UNCHANGED <<udp, size>>
        /\ batch' = Append(batch, p) /\ Len(batch) < size
    BY <1>3 DEF TakeTcp, Takes
  <2>2. /\ BatchInv' /\ Len(batch') = Len(batch) + 1
        /\ batch' # <<>> /\ current' = p
    BY <2>1, Taken DEF PoolInv, current, cur
  <2>3. CASE Existing(tcp, p.flow)
    <3>1. pc' = "scan" /\ tcp' = tcp
      BY <1>3, <2>3 DEF TakeTcp
    <3> QED
      BY <1>n, <2>1, <2>2, <2>3, <3>1
      DEF PoolInv, FlowsInv, Balanced, Existing
  <2>4. CASE ~Existing(tcp, p.flow)
    <3>1. pc' = pc /\ tcp' = Insert(tcp, p.flow, TcpItem(p, cur + 1))
      BY <1>3, <2>4 DEF TakeTcp
    <3>2. Balanced(tcp') /\ Cardinality(tcp'.live) <= Cardinality(tcp.live) + 1
      BY <3>1, InsertBalanced, FlowAssumption DEF PoolInv
    <3>3. Cardinality(tcp'.live) \in Nat
      BY <3>2, LiveFinite
    <3> QED
      BY <1>n, <2>1, <2>2, <3>1, <3>2, <3>3 DEF PoolInv, FlowsInv, Balanced
  <2> QED
    BY <2>3, <2>4
<1>4. ASSUME NEW p \in Packet, TakeUdp(p)
      PROVE  PoolInv'
  <2>1. /\ pc = "gro" /\ pc' = pc /\ UNCHANGED <<tcp, size>>
        /\ batch' = Append(batch, p) /\ Len(batch) < size
    BY <1>4 DEF TakeUdp
  <2>2. BatchInv' /\ Len(batch') = Len(batch) + 1
    BY <2>1, Taken DEF PoolInv
  <2>3. \/ \E item : udp' = Insert(udp, p.flow, item)
        \/ \E k, item : udp' = UpdateAt(udp, p.flow, k, item)
    BY <1>4 DEF TakeUdp, UdpGRO
  <2>4. /\ Balanced(udp')
        /\ Cardinality(udp'.live) <= Cardinality(udp.live) + 1
    <3>1. ASSUME NEW item, udp' = Insert(udp, p.flow, item)
          PROVE  /\ Balanced(udp')
                 /\ Cardinality(udp'.live) <= Cardinality(udp.live) + 1
      BY <3>1, InsertBalanced, FlowAssumption DEF PoolInv
    <3>2. ASSUME NEW k, NEW item, udp' = UpdateAt(udp, p.flow, k, item)
          PROVE  /\ Balanced(udp')
                 /\ Cardinality(udp'.live) <= Cardinality(udp.live) + 1
      BY <1>n, <3>2, ItemsOnly DEF PoolInv
    <3> QED
      BY <2>3, <3>1, <3>2
  <2>5. Cardinality(udp'.live) \in Nat
    BY <2>4, LiveFinite
  <2> QED
    BY <1>n, <2>1, <2>2, <2>4, <2>5 DEF PoolInv, FlowsInv, Balanced
<1>5. CASE BadOffset
  BY <1>5 DEF BadOffset, PoolInv, BatchInv, FlowsInv, Balanced
<1>6. CASE Scan
  <2>1. /\ pc = "scan" /\ pc' \in {"scan", "gro"}
        /\ UNCHANGED <<batch, size, udp>>
    BY <1>6 DEF Scan, ScanFrame
  <2>2. \/ tcp' = tcp
        \/ \E f, k, item : tcp' = UpdateAt(tcp, f, k, item)
        \/ \E f, k : tcp' = DeleteAt(tcp, f, k)
    BY <1>6 DEF Scan
  <2>3. Balanced(tcp') /\ tcp'.live = tcp.live
    BY <2>2, ItemsOnly DEF PoolInv
  <2>4. current' = current
    BY <2>1 DEF current, cur
  <2> QED
    BY <1>n, <2>1, <2>3, <2>4 DEF PoolInv, BatchInv, FlowsInv, Balanced
<1>7. CASE ScanEnds
  <2>1. /\ pc = "scan" /\ pc' = "gro" /\ UNCHANGED <<batch, size, udp>>
        /\ tcp' = Insert(tcp, current.flow, TcpItem(current, cur))
    BY <1>7 DEF ScanEnds, ScanFrame
  <2>2. current.flow \in tcp.live /\ current.flow \in Flow
    BY <2>1 DEF PoolInv, FlowsInv, Balanced
  <2>3. Balanced(tcp') /\ Cardinality(tcp'.live) = Cardinality(tcp.live)
    BY <2>1, <2>2, InsertBalanced DEF PoolInv
  <2> QED
    BY <1>n, <2>1, <2>3 DEF PoolInv, BatchInv, FlowsInv, Balanced
<1>8. CASE Account \/ WriteOne \/ WriteGone \/ WriteDone
  <2>1. /\ UNCHANGED <<batch, size, tcp, udp>>
        /\ pc' \in {"write", "reset"}
    BY <1>8 DEF Account, WriteOne, WriteGone, WriteDone, WriteFrame
  <2> QED
    BY <2>1 DEF PoolInv, BatchInv, FlowsInv, Balanced
<1>9. CASE ResetTables
  <2>1. /\ UNCHANGED <<batch, size>> /\ pc' = "idle"
        /\ tcp' = Reset(tcp) /\ udp' = Reset(udp)
    BY <1>9 DEF ResetTables
  <2>2. /\ Balanced(tcp') /\ Balanced(udp')
        /\ tcp'.live = {} /\ udp'.live = {} /\ Cardinality({}) = 0
    BY <2>1, ResetBalanced, FS_EmptySet DEF PoolInv
  <2> QED
    BY <1>n, <2>1, <2>2 DEF PoolInv, BatchInv, FlowsInv, Balanced
<1>10. CASE UNCHANGED vars
  BY <1>10 DEF vars, PoolInv, BatchInv, FlowsInv, Balanced, current, cur
<1> QED
  BY <1>1, <1>2, <1>3, <1>4, <1>5, <1>6, <1>7, <1>8, <1>9, <1>10
  DEF Next, Take

\* The inductive invariant holds of every behaviour.
THEOREM PoolsInvariant == Spec => []PoolInv
BY PoolInit, PoolNext, PTL DEF Spec

\* tcpGROTable.reset and udpGROTable.reset undo newItems: at any time, after
\* any number of batches, the pool and the live flows have IdealBatchSize slices.
THEOREM NoSliceLost == Spec => []PoolsConserved
<1>1. PoolInv => PoolsConserved
  BY DEF PoolInv, Balanced, PoolsConserved
<1> QED
  BY <1>1, PoolsInvariant, PTL

\* newItems, which indexes the last slice of the pool without looking, finds
\* one for any packet of a batch of at most IdealBatchSize.
THEOREM PoolNeverDry == Spec => []PoolsLast
<1>1. PoolInv => PoolsLast
  BY LiveFinite, BatchAssumption
  DEF PoolInv, BatchInv, FlowsInv, Balanced, PoolsLast
<1> QED
  BY <1>1, PoolsInvariant, PTL
-----------------------------------------------------------------------------
(***************************************************************************)
(* Which packets the buffers to write hold.                                *)
(***************************************************************************)

\* The n sequences of ps hold the numbers up to d, each one in one place.
Covers(ps, n, d) ==
  /\ \A i \in 1..n : ps[i] \in Seq(1..d) /\ Len(ps[i]) <= d
  /\ \A m \in 1..d : \E i \in 1..n : \E k \in 1..Len(ps[i]) : ps[i][k] = m
  /\ \A i, j \in 1..n : \A k \in 1..Len(ps[i]), l \in 1..Len(ps[j]) :
       ps[i][k] = ps[j][l] => i = j /\ k = l

\* No buffer is queued twice.
Queued(q, d) == /\ d \in Nat /\ q \in Seq(1..d)
                /\ \A i, j \in 1..Len(q) : q[i] = q[j] => i = j

Contents(bs, q) == [i \in 1..Len(q) |-> bs[q[i]].parts]

\* The buffers of bs that q lists hold the first d packets, each in one place.
Held(bs, q, d) == Queued(q, d) /\ Covers(Contents(bs, q), Len(q), d)

\* What appending to a sequence does, and putting in front of it.
LEMMA AppendFacts ==
  ASSUME NEW S, NEW s \in Seq(S), NEW e \in S
  PROVE  /\ Append(s, e) \in Seq(S) /\ Len(Append(s, e)) = Len(s) + 1
         /\ \A k \in 1..Len(s) : Append(s, e)[k] = s[k]
         /\ Append(s, e)[Len(s) + 1] = e
OBVIOUS

\* What joining one element to a sequence does, at the end and in front.
LEMMA ConcatFacts ==
  ASSUME NEW S, NEW s \in Seq(S), NEW e \in S
  PROVE  /\ s \o <<e>> \in Seq(S) /\ Len(s \o <<e>>) = Len(s) + 1
         /\ \A k \in 1..Len(s) : (s \o <<e>>)[k] = s[k]
         /\ (s \o <<e>>)[Len(s) + 1] = e
         /\ <<e>> \o s \in Seq(S) /\ Len(<<e>> \o s) = Len(s) + 1
         /\ \A k \in 1..Len(s) : (<<e>> \o s)[k + 1] = s[k]
         /\ (<<e>> \o s)[1] = e
OBVIOUS

\* The elements of a sequence have its type.
LEMMA SeqFacts ==
  ASSUME NEW S, NEW s \in Seq(S)
  PROVE  Len(s) \in Nat /\ \A k \in 1..Len(s) : s[k] \in S
OBVIOUS

\* What replacing one element of a sequence does.
LEMMA ReplaceFacts ==
  ASSUME NEW S, NEW s \in Seq(S), NEW k \in 1..Len(s), NEW e \in S
  PROVE  /\ [s EXCEPT ![k] = e] \in Seq(S) /\ Len([s EXCEPT ![k] = e]) = Len(s)
         /\ [s EXCEPT ![k] = e][k] = e
         /\ \A i \in 1..Len(s) : i # k => [s EXCEPT ![k] = e][i] = s[i]
OBVIOUS

\* A sequence of a cover holds numbers up to d, and not more than d of them.
LEMMA CoversTypes ==
  ASSUME NEW ps, NEW n, NEW d, Covers(ps, n, d), NEW i \in 1..n
  PROVE  /\ ps[i] \in Seq(1..d) /\ Len(ps[i]) <= d /\ Len(ps[i]) \in Nat
         /\ \A k \in 1..Len(ps[i]) : ps[i][k] \in 1..d
<1>1. ps[i] \in Seq(1..d) /\ Len(ps[i]) <= d
  BY Zenon DEF Covers
<1>. QED  BY <1>1, SeqFacts, Zenon

\* A packet in a sequence of its own.
LEMMA CoversAlone ==
  ASSUME NEW ps, NEW rs, NEW n \in Nat, NEW d \in Nat, Covers(ps, n, d),
         \A i \in 1..n : rs[i] = ps[i], rs[n + 1] = <<d + 1>>
  PROVE  Covers(rs, n + 1, d + 1)
<1>1. \A i \in 1..(n + 1) : i \in 1..n \/ i = n + 1
  OBVIOUS
<1>2. /\ rs[n + 1] \in Seq(1..(d + 1)) /\ Len(rs[n + 1]) = 1
      /\ rs[n + 1][1] = d + 1 /\ n + 1 \in 1..(n + 1) /\ d + 1 \notin 1..d
  OBVIOUS
<1>3. ASSUME NEW i \in 1..n
      PROVE  /\ rs[i] = ps[i] /\ i \in 1..(n + 1)
             /\ rs[i] \in Seq(1..(d + 1)) /\ Len(rs[i]) <= d + 1
             /\ \A k \in 1..Len(rs[i]) : rs[i][k] \in 1..d
  <2>1. rs[i] = ps[i] /\ i \in 1..(n + 1)
    OBVIOUS
  <2>2. /\ ps[i] \in Seq(1..d) /\ Len(ps[i]) <= d /\ Len(ps[i]) \in Nat
        /\ \A k \in 1..Len(ps[i]) : ps[i][k] \in 1..d
    BY CoversTypes
  <2>3. ps[i] \in Seq(1..(d + 1)) /\ Len(ps[i]) <= d + 1
    BY <2>2
  <2>. QED  BY <2>1, <2>2, <2>3
<1>4. \A i \in 1..(n + 1) : rs[i] \in Seq(1..(d + 1)) /\ Len(rs[i]) <= d + 1
  <2>1. 1 <= d + 1
    OBVIOUS
  <2>. QED  BY <1>1, <1>2, <1>3, <2>1
<1>5. \A m \in 1..(d + 1) : \E i \in 1..(n + 1) : \E k \in 1..Len(rs[i]) : rs[i][k] = m
  <2>1. ASSUME NEW m \in 1..d
        PROVE  \E i \in 1..(n + 1) : \E k \in 1..Len(rs[i]) : rs[i][k] = m
    <3>1. PICK i \in 1..n : \E k \in 1..Len(ps[i]) : ps[i][k] = m
      BY Zenon DEF Covers
    <3>2. rs[i] = ps[i] /\ i \in 1..(n + 1)
      BY <1>3
    <3>. QED  BY <3>1, <3>2, Zenon
  <2>2. \E i \in 1..(n + 1) : \E k \in 1..Len(rs[i]) : rs[i][k] = d + 1
    <3>1. 1 \in 1..Len(rs[n + 1])
      BY <1>2
    <3>. QED  BY <1>2, <3>1, Zenon
  <2>3. \A m \in 1..(d + 1) : m \in 1..d \/ m = d + 1
    OBVIOUS
  <2>. QED  BY <2>1, <2>2, <2>3, Zenon
<1>6. ASSUME NEW i \in 1..(n + 1), NEW j \in 1..(n + 1),
             NEW k \in 1..Len(rs[i]), NEW l \in 1..Len(rs[j]), rs[i][k] = rs[j][l]
      PROVE  i = j /\ k = l
  <2>1. CASE i \in 1..n /\ j \in 1..n
    <3>1. rs[i] = ps[i] /\ rs[j] = ps[j]
      BY <1>3, <2>1
    <3>2. \A g \in 1..Len(ps[i]), h \in 1..Len(ps[j]) : ps[i][g] = ps[j][h] => i = j /\ g = h
      BY <2>1, Zenon DEF Covers
    <3>. QED  BY <1>6, <3>1, <3>2, Zenon
  <2>2. CASE i = n + 1 /\ j = n + 1
    <3>1. Len(rs[i]) = 1 /\ Len(rs[j]) = 1
      BY <1>2, <2>2, Zenon
    <3>2. k = 1 /\ l = 1
      BY <3>1
    <3>. QED  BY <2>2, <3>2
  <2>3. CASE i \in 1..n /\ j = n + 1
    <3>1. rs[i][k] \in 1..d
      BY <1>3, <2>3
    <3>2. Len(rs[j]) = 1 /\ rs[j][1] = d + 1
      BY <1>2, <2>3, Zenon
    <3>3. rs[j][l] = d + 1
      BY <3>2
    <3>. QED  BY <1>2, <1>6, <3>1, <3>3
  <2>4. CASE i = n + 1 /\ j \in 1..n
    <3>1. rs[j][l] \in 1..d
      BY <1>3, <2>4
    <3>2. Len(rs[i]) = 1 /\ rs[i][1] = d + 1
      BY <1>2, <2>4, Zenon
    <3>3. rs[i][k] = d + 1
      BY <3>2
    <3>. QED  BY <1>2, <1>6, <3>1, <3>3
  <2>. QED  BY <1>1, <2>1, <2>2, <2>3, <2>4
<1>. QED  BY <1>4, <1>5, <1>6, Zenon DEF Covers

\* A packet that joins the m-th sequence at pos; e is 1 if what the sequence
\* holds moves behind it.
LEMMA CoversMore ==
  ASSUME NEW ps, NEW rs, NEW n \in Nat, NEW d \in Nat, Covers(ps, n, d), NEW m \in 1..n,
         \A i \in 1..n : i # m => rs[i] = ps[i],
         rs[m] \in Seq(1..(d + 1)), Len(rs[m]) = Len(ps[m]) + 1,
         NEW e \in {0, 1}, NEW pos \in 1..Len(rs[m]),
         \A k \in 1..Len(ps[m]) : rs[m][k + e] = ps[m][k],
         \A k \in 1..Len(rs[m]) : k = pos \/ k - e \in 1..Len(ps[m]),
         rs[m][pos] = d + 1
  PROVE  Covers(rs, n, d + 1)
<1>1. ASSUME NEW i \in 1..n
      PROVE  /\ ps[i] \in Seq(1..d) /\ Len(ps[i]) <= d /\ Len(ps[i]) \in Nat
             /\ \A k \in 1..Len(ps[i]) : ps[i][k] \in 1..d
  BY CoversTypes
<1>2. \A i \in 1..n : rs[i] \in Seq(1..(d + 1)) /\ Len(rs[i]) <= d + 1
  <2>1. ASSUME NEW i \in 1..n, i # m
        PROVE  rs[i] \in Seq(1..(d + 1)) /\ Len(rs[i]) <= d + 1
    <3>1. rs[i] = ps[i]
      BY <2>1
    <3>2. ps[i] \in Seq(1..(d + 1)) /\ Len(ps[i]) <= d + 1
      BY <1>1
    <3>. QED  BY <3>1, <3>2
  <2>2. Len(rs[m]) <= d + 1
    <3>1. Len(ps[m]) <= d /\ Len(ps[m]) \in Nat
      BY <1>1
    <3>. QED  BY <3>1
  <2>. QED  BY <2>1, <2>2
<1>3. \A a \in 1..(d + 1) : \E i \in 1..n : \E k \in 1..Len(rs[i]) : rs[i][k] = a
  <2>1. ASSUME NEW a \in 1..d
        PROVE  \E i \in 1..n : \E k \in 1..Len(rs[i]) : rs[i][k] = a
    <3>1. PICK i \in 1..n : \E k \in 1..Len(ps[i]) : ps[i][k] = a
      BY Zenon DEF Covers
    <3>2. PICK k \in 1..Len(ps[i]) : ps[i][k] = a
      BY <3>1, Zenon
    <3>3. CASE i # m
      <4>1. rs[i] = ps[i]
        BY <3>3
      <4>. QED  BY <3>2, <4>1, Zenon
    <3>4. CASE i = m
      <4>1. k \in 1..Len(ps[m]) /\ Len(ps[m]) \in Nat /\ ps[m][k] = a
        BY <1>1, <3>2, <3>4, Zenon
      <4>2. k + e \in 1..Len(rs[m])
        <5>1. \A L \in Nat : \A x \in 1..L : x + e \in 1..(L + 1)
          OBVIOUS
        <5>. QED  BY <4>1, <5>1, Zenon
      <4>3. rs[m][k + e] = a
        BY <4>1
      <4>. QED  BY <4>2, <4>3, Zenon
    <3>. QED  BY <3>3, <3>4
  <2>2. \A a \in 1..(d + 1) : a \in 1..d \/ a = d + 1
    OBVIOUS
  <2>. QED  BY <2>1, <2>2, Zenon
<1>. DEFINE shift(i) == IF i = m THEN e ELSE 0
            Fresh(i, k) == i = m /\ k = pos /\ rs[i][k] = d + 1
            Moved(i, k) == /\ k - shift(i) \in 1..Len(ps[i])
                           /\ rs[i][k] = ps[i][k - shift(i)]
<1>4. ASSUME NEW i \in 1..n, NEW k \in 1..Len(rs[i])
      PROVE  Fresh(i, k) \/ Moved(i, k)
  <2>1. CASE i # m
    <3>1. rs[i] = ps[i] /\ shift(i) = 0
      BY <2>1
    <3>2. Len(ps[i]) \in Nat
      BY <1>1
    <3>3. k - 0 = k
      BY <3>1, <3>2
    <3>4. k - shift(i) = k
      BY <3>1, <3>3
    <3>. HIDE DEF shift
    <3>. QED  BY <3>1, <3>4
  <2>2. CASE i = m /\ k # pos
    <3>1. shift(i) = e /\ k - e \in 1..Len(ps[m])
      BY <2>2
    <3>2. rs[m][(k - e) + e] = ps[m][k - e]
      BY <3>1
    <3>3. Len(rs[m]) \in Nat
      OBVIOUS
    <3>4. (k - e) + e = k
      BY <2>2, <3>3
    <3>. HIDE DEF shift
    <3>. QED  BY <2>2, <3>1, <3>2, <3>4
  <2>3. CASE i = m /\ k = pos
    BY <2>3
  <2>. QED  BY <2>1, <2>2, <2>3, Zenon
<1>5. ASSUME NEW i \in 1..n, NEW k \in 1..Len(rs[i]), Moved(i, k)
      PROVE  rs[i][k] \in 1..d
  BY <1>1, <1>5
<1>6. d + 1 \notin 1..d
  OBVIOUS
<1>7. ASSUME NEW i \in 1..n, NEW j \in 1..n,
             NEW k \in 1..Len(rs[i]), NEW l \in 1..Len(rs[j]), rs[i][k] = rs[j][l]
      PROVE  i = j /\ k = l
  <2>1. CASE Fresh(i, k) /\ Fresh(j, l)
    BY <2>1
  <2>2. CASE Fresh(i, k) /\ Moved(j, l)
    <3>1. rs[j][l] \in 1..d /\ rs[i][k] = d + 1
      BY <1>5, <2>2
    <3>. QED  BY <1>6, <1>7, <3>1
  <2>3. CASE Moved(i, k) /\ Fresh(j, l)
    <3>1. rs[i][k] \in 1..d /\ rs[j][l] = d + 1
      BY <1>5, <2>3
    <3>. QED  BY <1>6, <1>7, <3>1
  <2>4. CASE Moved(i, k) /\ Moved(j, l)
    <3>1. \A g \in 1..Len(ps[i]), h \in 1..Len(ps[j]) : ps[i][g] = ps[j][h] => i = j /\ g = h
      BY Zenon DEF Covers
    <3>2. i = j /\ k - shift(i) = l - shift(j)
      BY <1>7, <2>4, <3>1
    <3>3. shift(i) \in {0, 1} /\ shift(j) = shift(i)
      BY <3>2
    <3>4. k \in Int /\ l \in Int
      BY <1>2
    <3>. HIDE DEF shift
    <3>. QED  BY <3>2, <3>3, <3>4
  <2>. HIDE DEF Fresh, Moved
  <2>. QED  BY <1>4, <2>1, <2>2, <2>3, <2>4, Zenon
<1>. QED  BY <1>2, <1>3, <1>7, Zenon DEF Covers

\* Only the packet numbers of the buffers matter for Held.
LEMMA HeldKeeps ==
  ASSUME NEW bs, NEW cs, NEW q, NEW d, Held(bs, q, d),
         \A n \in 1..d : cs[n].parts = bs[n].parts
  PROVE  Held(cs, q, d)
<1>1. \A i \in 1..Len(q) : q[i] \in 1..d
  BY SeqFacts, Zenon DEF Held, Queued
<1>2. Contents(cs, q) = Contents(bs, q)
  BY <1>1 DEF Contents
<1>. QED  BY <1>2, Zenon DEF Held

\* A packet that is queued in a buffer of its own.
LEMMA HeldQueues ==
  ASSUME NEW bs, NEW cs, NEW q, NEW d, Held(bs, q, d),
         \A n \in 1..d : cs[n].parts = bs[n].parts,
         cs[d + 1].parts = <<d + 1>>
  PROVE  Held(cs, Append(q, d + 1), d + 1)
<1>1. /\ d \in Nat /\ q \in Seq(1..d) /\ Covers(Contents(bs, q), Len(q), d)
      /\ \A i, j \in 1..Len(q) : q[i] = q[j] => i = j
  BY Zenon DEF Held, Queued
<1>2. q \in Seq(1..(d + 1)) /\ d + 1 \in 1..(d + 1) /\ d + 1 \notin 1..d
  BY <1>1
<1>3. Len(q) \in Nat /\ \A i \in 1..Len(q) : q[i] \in 1..d
  BY <1>1, SeqFacts, Zenon
<1>. DEFINE r == Append(q, d + 1)
<1>4. /\ r \in Seq(1..(d + 1)) /\ Len(r) = Len(q) + 1
      /\ \A i \in 1..Len(q) : r[i] = q[i]
      /\ r[Len(q) + 1] = d + 1
  BY <1>2, AppendFacts
<1>. HIDE DEF r
<1>5. Queued(r, d + 1)
  <2>1. ASSUME NEW i \in 1..Len(r), NEW j \in 1..Len(r), r[i] = r[j]
        PROVE  i = j
    <3>1. \A k \in 1..Len(r) : k \in 1..Len(q) \/ k = Len(q) + 1
      BY <1>3, <1>4
    <3>2. \A k \in 1..Len(q) : r[k] # d + 1
      BY <1>2, <1>3, <1>4, Zenon
    <3>. QED  BY <1>1, <1>4, <2>1, <3>1, <3>2, Zenon
  <2>2. d + 1 \in Nat
    BY <1>1
  <2>. QED  BY <1>4, <2>1, <2>2, Zenon DEF Queued
<1>6. Covers(Contents(cs, r), Len(q) + 1, d + 1)
  <2>1. /\ \A i \in 1..Len(q) : Contents(cs, r)[i] = Contents(bs, q)[i]
        /\ Contents(cs, r)[Len(q) + 1] = <<d + 1>>
    <3>1. Len(q) + 1 \in 1..Len(r) /\ \A i \in 1..Len(q) : i \in 1..Len(r)
      BY <1>3, <1>4
    <3>. QED  BY <1>3, <1>4, <3>1 DEF Contents
  <2>. QED  BY <1>1, <1>3, <2>1, CoversAlone, Zenon
<1>7. Held(cs, r, d + 1)
  BY <1>4, <1>5, <1>6, Zenon DEF Held
<1>. QED  BY <1>7 DEF r

\* From bs to cs, packet d + 1 is merged into buffer n.
MergedInto(bs, cs, n, d) ==
  /\ \A k \in 1..d : k # n => cs[k].parts = bs[k].parts
  /\ cs[n].parts \in {bs[n].parts \o <<d + 1>>, <<d + 1>> \o bs[n].parts}

\* A packet that is merged into the m-th buffer of the queue.
LEMMA HeldMerges ==
  ASSUME NEW bs, NEW cs, NEW q, NEW d, Held(bs, q, d), NEW m \in 1..Len(q),
         MergedInto(bs, cs, q[m], d)
  PROVE  Held(cs, q, d + 1)
<1>0. /\ \A n \in 1..d : n # q[m] => cs[n].parts = bs[n].parts
      /\ cs[q[m]].parts \in {bs[q[m]].parts \o <<d + 1>>, <<d + 1>> \o bs[q[m]].parts}
  BY Zenon DEF MergedInto
<1>1. /\ d \in Nat /\ q \in Seq(1..d) /\ Covers(Contents(bs, q), Len(q), d)
      /\ \A i, j \in 1..Len(q) : q[i] = q[j] => i = j
  BY Zenon DEF Held, Queued
<1>2. Len(q) \in Nat /\ \A i \in 1..Len(q) : q[i] \in 1..d
  BY <1>1, SeqFacts, Zenon
<1>3. Queued(q, d + 1)
  <2>1. q \in Seq(1..(d + 1)) /\ d + 1 \in Nat
    BY <1>1
  <2>. QED  BY <1>1, <2>1, Zenon DEF Queued
<1>. DEFINE ps == Contents(bs, q)
            rs == Contents(cs, q)
<1>4. /\ \A i \in 1..Len(q) : i # m => rs[i] = ps[i]
      /\ rs[m] \in {ps[m] \o <<d + 1>>, <<d + 1>> \o ps[m]}
  BY <1>0, <1>1, <1>2 DEF Contents
<1>. HIDE DEF ps, rs
<1>5. ps[m] \in Seq(1..d) /\ Len(ps[m]) \in Nat
  BY <1>1, CoversTypes, Zenon DEF ps
<1>6. ps[m] \in Seq(1..(d + 1)) /\ d + 1 \in 1..(d + 1)
  BY <1>1, <1>5
<1>7. CASE rs[m] = ps[m] \o <<d + 1>>
  <2>1. /\ rs[m] \in Seq(1..(d + 1)) /\ Len(rs[m]) = Len(ps[m]) + 1
        /\ \A k \in 1..Len(ps[m]) : rs[m][k] = ps[m][k]
        /\ rs[m][Len(ps[m]) + 1] = d + 1
    <3>. DEFINE x == ps[m] \o <<d + 1>>
    <3>1. /\ x \in Seq(1..(d + 1)) /\ Len(x) = Len(ps[m]) + 1
          /\ \A k \in 1..Len(ps[m]) : x[k] = ps[m][k]
          /\ x[Len(ps[m]) + 1] = d + 1
      BY <1>6, ConcatFacts
    <3>. HIDE DEF x
    <3>2. rs[m] = x
      BY <1>7 DEF x
    <3>. QED  BY <3>1, <3>2, Zenon
  <2>2. /\ \A k \in 1..Len(ps[m]) : rs[m][k + 0] = ps[m][k]
        /\ \A k \in 1..Len(rs[m]) : k = Len(ps[m]) + 1 \/ k - 0 \in 1..Len(ps[m])
        /\ Len(ps[m]) + 1 \in 1..Len(rs[m]) /\ 0 \in {0, 1}
    BY <1>5, <2>1
  <2>3. Covers(rs, Len(q), d + 1)
    BY <1>1, <1>2, <1>4, <2>1, <2>2, CoversMore, Zenon DEF ps
  <2>. QED  BY <1>3, <2>3, Zenon DEF Held, rs
<1>8. CASE rs[m] = <<d + 1>> \o ps[m]
  <2>1. /\ rs[m] \in Seq(1..(d + 1)) /\ Len(rs[m]) = Len(ps[m]) + 1
        /\ \A k \in 1..Len(ps[m]) : rs[m][k + 1] = ps[m][k]
        /\ rs[m][1] = d + 1
    <3>. DEFINE x == <<d + 1>> \o ps[m]
    <3>1. /\ x \in Seq(1..(d + 1)) /\ Len(x) = Len(ps[m]) + 1
          /\ \A k \in 1..Len(ps[m]) : x[k + 1] = ps[m][k]
          /\ x[1] = d + 1
      BY <1>6, ConcatFacts
    <3>. HIDE DEF x
    <3>2. rs[m] = x
      BY <1>8 DEF x
    <3>. QED  BY <3>1, <3>2, Zenon
  <2>2. /\ \A k \in 1..Len(rs[m]) : k = 1 \/ k - 1 \in 1..Len(ps[m])
        /\ 1 \in 1..Len(rs[m]) /\ 1 \in {0, 1}
    BY <1>5, <2>1
  <2>3. Covers(rs, Len(q), d + 1)
    BY <1>1, <1>2, <1>4, <2>1, <2>2, CoversMore, Zenon DEF ps
  <2>. QED  BY <1>3, <2>3, Zenon DEF Held, rs
<1>. QED  BY <1>4, <1>7, <1>8
-----------------------------------------------------------------------------
(***************************************************************************)
(* Buffers and items.                                                      *)
(***************************************************************************)

BufferType == [opts : {p.opts : p \in Packet}, psh : BOOLEAN, csum : BOOLEAN,
               cap : Nat, len : Nat, parts : Seq(Nat), hdr : Int]
ItemOfTcp == [buf : Nat, gsoSize : Nat, seq : 0..(SeqSpace - 1), psh : BOOLEAN,
              merged : Nat]
ItemOfUdp == [buf : Nat, gsoSize : Nat, bad : BOOLEAN, merged : Nat]

\* The packets of the batch whose place is settled: tcpGRO may still look for
\* one for the last.
settled == IF pc = "scan" THEN cur - 1 ELSE cur

\* The items of a table have their type, and their buffers are in the queue q.
TableHeld(t, Item, q) ==
  /\ t.items \in [Flow -> Seq(Item)]
  /\ \A f \in Flow : \A k \in 1..Len(t.items[f]) :
       \E i \in 1..Len(q) : t.items[f][k].buf = q[i]

Shapes == /\ vnetHdr \in BOOLEAN
          /\ pc \in {"idle", "gro", "scan", "write", "reset"}
          /\ bufs \in Seq(BufferType) /\ Len(bufs) = cur
          /\ TableHeld(tcp, ItemOfTcp, toWrite) /\ TableHeld(udp, ItemOfUdp, toWrite)

\* tcpGRO scans the items of the flow of the packet, which is in a buffer of its
\* own; a flow of udpGRO has an item; idle tables have none.
ScanInv ==
  /\ scan \in 0..MaxBatch
  /\ pc = "scan" => scan <= Len(tcp.items[current.flow]) /\ bufs[cur].parts = <<cur>>
  /\ \A f \in Flow : Len(tcp.items[f]) <= settled
  /\ \A f \in udp.live : udp.items[f] # <<>>
  /\ pc = "idle" => \A f \in Flow : tcp.items[f] = <<>> /\ udp.items[f] = <<>>

CountsInv == /\ sent \in 0..Len(toWrite) /\ written \in 0..sent
             /\ result \in {"none", "nil", "errors", "ErrClosed", "invalidOffset"}
             /\ writes \in 0..MaxWrites

\* The inductive invariant of Write.
BatchHeld == /\ PoolInv /\ Shapes /\ ScanInv /\ CountsInv
             /\ Held(bufs, toWrite, settled)

\* The buffer and the item a packet begins with.
LEMMA BufferTyped ==
  ASSUME NEW p \in Packet, NEW i \in Nat
  PROVE  /\ Buffer(p, i) \in BufferType /\ Buffer(p, i).parts = <<i>>
         /\ [Buffer(p, i) EXCEPT !.hdr = Plain] \in BufferType
         /\ [Buffer(p, i) EXCEPT !.hdr = Plain].parts = <<i>>
<1>1. /\ p.psh \in BOOLEAN /\ p.csum \in BOOLEAN /\ p.len \in Nat /\ p.cap \in Nat
      /\ p.opts \in {q.opts : q \in Packet} /\ <<i>> \in Seq(Nat)
  BY PacketAssumption, SpaceAssumption
<1>2. Unset \in Int /\ Plain \in Int
  BY DEF Unset, Plain
<1>. QED  BY <1>1, <1>2 DEF Buffer, BufferType

\* A new item stands for the buffer it was made for.
LEMMA ItemTyped ==
  ASSUME NEW p \in Packet, NEW i \in Nat, NEW bad \in BOOLEAN
  PROVE  /\ TcpItem(p, i) \in ItemOfTcp /\ TcpItem(p, i).buf = i
         /\ UdpItem(p, i, bad) \in ItemOfUdp /\ UdpItem(p, i, bad).buf = i
BY PacketAssumption DEF TcpItem, UdpItem, ItemOfTcp, ItemOfUdp

\* Joining two buffers joins the packet numbers they hold.
LEMMA JoinedTyped ==
  ASSUME NEW front \in BufferType, NEW back \in BufferType, NEW psh \in BOOLEAN
  PROVE  /\ Joined(front, back, psh) \in BufferType
         /\ Joined(front, back, psh).parts = front.parts \o back.parts
<1>1. front.len + back.len \in Nat /\ front.parts \o back.parts \in Seq(Nat)
  <2>1. front.len \in Nat /\ back.len \in Nat
        /\ front.parts \in Seq(Nat) /\ back.parts \in Seq(Nat)
    BY DEF BufferType
  <2>. QED  BY <2>1
<1>2. Joined(front, back, psh) =
        [front EXCEPT !.len = front.len + back.len,
                      !.parts = front.parts \o back.parts, !.psh = psh]
  BY DEF Joined, BufferType
<1>. HIDE DEF Joined
<1>3. ASSUME NEW n \in Nat, NEW s \in Seq(Nat)
      PROVE  /\ [front EXCEPT !.len = n, !.parts = s, !.psh = psh] \in BufferType
             /\ [front EXCEPT !.len = n, !.parts = s, !.psh = psh].parts = s
  BY DEF BufferType
<1>. QED  BY <1>1, <1>2, <1>3

\* A merge puts the packets of the one buffer behind those of the other.
LEMMA MergedTyped ==
  ASSUME NEW can, NEW b \in BufferType, NEW pb \in BufferType
  PROVE  /\ TcpMerged(can, b, pb) \in BufferType
         /\ TcpMerged(can, b, pb).parts \in {b.parts \o pb.parts, pb.parts \o b.parts}
         /\ UdpMerged(b, pb) \in BufferType
         /\ UdpMerged(b, pb).parts = b.parts \o pb.parts
<1>1. b.psh \in BOOLEAN /\ pb.psh \in BOOLEAN /\ (b.psh \/ pb.psh) \in BOOLEAN
  BY DEF BufferType
<1>2. CASE can = "prepend"
  BY <1>1, <1>2, JoinedTyped DEF TcpMerged, UdpMerged
<1>3. CASE can # "prepend"
  BY <1>1, <1>3, JoinedTyped DEF TcpMerged, UdpMerged
<1>. QED  BY <1>2, <1>3

\* An item stays with its buffer when a packet is merged into it.
LEMMA MergedItemTyped ==
  ASSUME NEW p \in Packet, NEW can
  PROVE  /\ \A item \in ItemOfTcp : /\ TcpMergedItem(can, item, p) \in ItemOfTcp
                                    /\ TcpMergedItem(can, item, p).buf = item.buf
         /\ \A item \in ItemOfUdp : /\ UdpMergedItem(item) \in ItemOfUdp
                                    /\ UdpMergedItem(item).buf = item.buf
<1>1. p.seq \in 0..(SeqSpace - 1) /\ p.len \in Nat /\ p.psh \in BOOLEAN
  BY PacketAssumption
<1>2. ASSUME NEW item \in ItemOfTcp
      PROVE  /\ TcpMergedItem(can, item, p) \in ItemOfTcp
             /\ TcpMergedItem(can, item, p).buf = item.buf
  <2>. DEFINE seq == IF can = "prepend" THEN p.seq ELSE item.seq
              psh == IF can = "append" THEN item.psh \/ p.psh ELSE item.psh
              size_ == IF p.len > item.gsoSize THEN p.len ELSE item.gsoSize
  <2>1. seq \in 0..(SeqSpace - 1) /\ psh \in BOOLEAN /\ size_ \in Nat
        /\ item.merged + 1 \in Nat
    BY <1>1 DEF ItemOfTcp
  <2>2. TcpMergedItem(can, item, p) =
          [item EXCEPT !.merged = item.merged + 1, !.seq = seq, !.psh = psh,
                       !.gsoSize = size_]
    BY DEF TcpMergedItem, ItemOfTcp
  <2>. HIDE DEF seq, psh, size_
  <2>. QED  BY <2>1, <2>2 DEF ItemOfTcp
<1>3. ASSUME NEW item \in ItemOfUdp
      PROVE  UdpMergedItem(item) \in ItemOfUdp /\ UdpMergedItem(item).buf = item.buf
  BY DEF UdpMergedItem, ItemOfUdp
<1>. QED  BY <1>2, <1>3

\* insert adds an item at the end of a flow, updateAt replaces one, deleteAt
\* removes one; each keeps the others.
LEMMA TableInsert ==
  ASSUME NEW t, NEW Item, NEW S, NEW q \in Seq(S), TableHeld(t, Item, q),
         NEW f \in Flow, NEW item \in Item, \E i \in 1..Len(q) : item.buf = q[i]
  PROVE  /\ TableHeld(Insert(t, f, item), Item, q)
         /\ Len(Insert(t, f, item).items[f]) = Len(t.items[f]) + 1
         /\ Insert(t, f, item).items[f] # <<>>
         /\ \A g \in Flow \ {f} : Insert(t, f, item).items[g] = t.items[g]
<1>. DEFINE u == Insert(t, f, item)
<1>1. /\ t.items \in [Flow -> Seq(Item)]
      /\ \A g \in Flow : \A k \in 1..Len(t.items[g]) :
           \E i \in 1..Len(q) : t.items[g][k].buf = q[i]
  BY Zenon DEF TableHeld
<1>2. t.items[f] \in Seq(Item)
  BY <1>1
<1>3. u.items = [t.items EXCEPT ![f] = Append(@, item)]
  BY DEF Insert
<1>4. /\ u.items \in [Flow -> Seq(Item)] /\ u.items[f] = Append(t.items[f], item)
      /\ \A g \in Flow \ {f} : u.items[g] = t.items[g]
  BY <1>1, <1>2, <1>3
<1>. HIDE DEF u
<1>5. /\ Len(u.items[f]) = Len(t.items[f]) + 1 /\ Len(t.items[f]) \in Nat
      /\ \A k \in 1..Len(t.items[f]) : u.items[f][k] = t.items[f][k]
      /\ u.items[f][Len(t.items[f]) + 1] = item
  <2>1. /\ Len(Append(t.items[f], item)) = Len(t.items[f]) + 1
        /\ \A k \in 1..Len(t.items[f]) : Append(t.items[f], item)[k] = t.items[f][k]
        /\ Append(t.items[f], item)[Len(t.items[f]) + 1] = item
    BY <1>2, AppendFacts
  <2>2. Len(t.items[f]) \in Nat
    BY <1>2, SeqFacts
  <2>. QED  BY <1>4, <2>1, <2>2, Zenon
<1>6. ASSUME NEW g \in Flow, NEW k \in 1..Len(u.items[g])
      PROVE  \E i \in 1..Len(q) : u.items[g][k].buf = q[i]
  <2>1. CASE g # f
    <3>1. u.items[g] = t.items[g]
      BY <1>4, <2>1
    <3>2. \E i \in 1..Len(q) : t.items[g][k].buf = q[i]
      <4>1. k \in 1..Len(t.items[g])
        BY <3>1, Zenon
      <4>. QED  BY <1>1, <4>1, Zenon
    <3>. QED  BY <3>1, <3>2, Zenon
  <2>2. CASE g = f /\ k = Len(t.items[f]) + 1
    BY <1>5, <2>2, Zenon
  <2>3. CASE g = f /\ k # Len(t.items[f]) + 1
    <3>1. k \in 1..(Len(t.items[f]) + 1)
      BY <1>5, <1>6, <2>3, Zenon
    <3>2. k \in 1..Len(t.items[f])
      BY <1>5, <2>3, <3>1
    <3>. QED  BY <1>1, <1>5, <2>3, <3>2, Zenon
  <2>. QED  BY <2>1, <2>2, <2>3
<1>7. u.items[f] # <<>>
  <2>1. Len(u.items[f]) # 0 /\ Len(<<>>) = 0
    BY <1>5
  <2>. QED  BY <2>1, Zenon
<1>8. TableHeld(u, Item, q)
  BY <1>4, <1>6, Zenon DEF TableHeld
<1>. QED  BY <1>4, <1>5, <1>7, <1>8, Zenon DEF u

\* updateAt leaves every item at a buffer to write.
LEMMA TableUpdate ==
  ASSUME NEW t, Balanced(t), NEW Item, NEW q, TableHeld(t, Item, q), NEW f \in Flow,
         NEW k \in 1..Len(t.items[f]), NEW item \in Item,
         item.buf = t.items[f][k].buf
  PROVE  /\ TableHeld(UpdateAt(t, f, k, item), Item, q)
         /\ \A g \in Flow : Len(UpdateAt(t, f, k, item).items[g]) = Len(t.items[g])
<1>. DEFINE u == UpdateAt(t, f, k, item)
<1>1. /\ t.items \in [Flow -> Seq(Item)]
      /\ \A g \in Flow : \A j \in 1..Len(t.items[g]) :
           \E i \in 1..Len(q) : t.items[g][j].buf = q[i]
  BY Zenon DEF TableHeld
<1>2. t.items[f] \in Seq(Item)
  BY <1>1
<1>3. u.items = [t.items EXCEPT ![f] = [t.items[f] EXCEPT ![k] = item]]
  BY DEF UpdateAt, Balanced
<1>. DEFINE x == [t.items[f] EXCEPT ![k] = item]
<1>4. /\ x \in Seq(Item) /\ Len(x) = Len(t.items[f]) /\ x[k] = item
      /\ \A j \in 1..Len(t.items[f]) : j # k => x[j] = t.items[f][j]
  BY <1>2, ReplaceFacts
<1>. HIDE DEF x
<1>5. u.items = [t.items EXCEPT ![f] = x]
  BY <1>3 DEF x
<1>. HIDE DEF u
<1>6. /\ u.items \in [Flow -> Seq(Item)] /\ u.items[f] = x
      /\ \A g \in Flow \ {f} : u.items[g] = t.items[g]
  BY <1>1, <1>4, <1>5
<1>7. ASSUME NEW g \in Flow, NEW j \in 1..Len(u.items[g])
      PROVE  \E i \in 1..Len(q) : u.items[g][j].buf = q[i]
  <2>1. CASE g # f
    <3>1. u.items[g] = t.items[g]
      BY <1>6, <2>1
    <3>2. \E i \in 1..Len(q) : t.items[g][j].buf = q[i]
      <4>1. j \in 1..Len(t.items[g])
        BY <3>1, Zenon
      <4>. QED  BY <1>1, <4>1, Zenon
    <3>. QED  BY <3>1, <3>2, Zenon
  <2>2. CASE g = f
    <3>1. j \in 1..Len(t.items[f])
      BY <1>4, <1>6, <1>7, <2>2, Zenon
    <3>2. x[j].buf = t.items[f][j].buf
      BY <1>4, <3>1, Zenon
    <3>. QED  BY <1>1, <1>6, <2>2, <3>1, <3>2, Zenon
  <2>. QED  BY <2>1, <2>2
<1>8. TableHeld(u, Item, q)
  BY <1>6, <1>7, Zenon DEF TableHeld
<1>9. \A g \in Flow : Len(u.items[g]) = Len(t.items[g])
  BY <1>4, <1>6, Zenon
<1>. QED  BY <1>8, <1>9, Zenon DEF u

\* What joining two sequences does.
LEMMA JoinFacts ==
  ASSUME NEW S, NEW a \in Seq(S), NEW b \in Seq(S)
  PROVE  /\ a \o b \in Seq(S) /\ Len(a \o b) = Len(a) + Len(b)
         /\ \A i \in 1..Len(a) : (a \o b)[i] = a[i]
         /\ \A i \in 1..Len(b) : (a \o b)[Len(a) + i] = b[i]
OBVIOUS

\* Removing an element leaves elements the sequence had.
LEMMA RemoveFacts ==
  ASSUME NEW S, NEW s \in Seq(S), NEW k \in 1..Len(s)
  PROVE  /\ RemoveAt(s, k) \in Seq(S) /\ Len(RemoveAt(s, k)) = Len(s) - 1
         /\ \A i \in 1..(Len(s) - 1) : \E j \in 1..Len(s) : RemoveAt(s, k)[i] = s[j]
<1>. DEFINE a == SubSeq(s, 1, k - 1)
            b == SubSeq(s, k + 1, Len(s))
<1>1. /\ a \in Seq(S) /\ Len(a) = k - 1 /\ \A i \in 1..(k - 1) : a[i] = s[i]
  OBVIOUS
<1>2. /\ b \in Seq(S) /\ Len(b) = Len(s) - k
      /\ \A i \in 1..(Len(s) - k) : b[i] = s[k + i]
  OBVIOUS
<1>3. RemoveAt(s, k) = a \o b
  BY DEF RemoveAt
<1>. HIDE DEF a, b
<1>4. /\ a \o b \in Seq(S) /\ Len(a \o b) = Len(a) + Len(b)
      /\ \A i \in 1..Len(a) : (a \o b)[i] = a[i]
      /\ \A i \in 1..Len(b) : (a \o b)[Len(a) + i] = b[i]
  <2>1. a \in Seq(S) /\ b \in Seq(S)
    BY <1>1, <1>2
  <2>. QED  BY <2>1, JoinFacts
<1>5. k \in Nat /\ Len(s) \in Nat
  OBVIOUS
<1>6. ASSUME NEW i \in 1..(Len(s) - 1)
      PROVE  \E j \in 1..Len(s) : (a \o b)[i] = s[j]
  <2>1. CASE i <= k - 1
    <3>1. i \in 1..(k - 1) /\ i \in 1..Len(s)
      BY <1>5, <2>1
    <3>2. (a \o b)[i] = s[i]
      BY <1>1, <1>4, <3>1
    <3>. QED  BY <3>1, <3>2, Zenon
  <2>2. CASE i > k - 1
    <3>1. /\ i - (k - 1) \in 1..(Len(s) - k) /\ (k - 1) + (i - (k - 1)) = i
          /\ k + (i - (k - 1)) \in 1..Len(s)
      BY <1>5, <2>2
    <3>2. (a \o b)[(k - 1) + (i - (k - 1))] = b[i - (k - 1)]
      BY <1>1, <1>2, <1>4, <3>1
    <3>3. (a \o b)[i] = s[k + (i - (k - 1))]
      BY <1>2, <3>1, <3>2
    <3>. QED  BY <3>1, <3>3, Zenon
  <2>3. i <= k - 1 \/ i > k - 1
    BY <1>5
  <2>. QED  BY <2>1, <2>2, <2>3, Zenon
<1>7. Len(a) + Len(b) = Len(s) - 1
  BY <1>1, <1>2, <1>5
<1>. QED  BY <1>3, <1>4, <1>6, <1>7

\* deleteAt leaves every other item at a buffer to write.
LEMMA TableDelete ==
  ASSUME NEW t, Balanced(t), NEW Item, NEW q, TableHeld(t, Item, q), NEW f \in Flow,
         NEW k \in 1..Len(t.items[f])
  PROVE  /\ TableHeld(DeleteAt(t, f, k), Item, q)
         /\ Len(DeleteAt(t, f, k).items[f]) = Len(t.items[f]) - 1
         /\ \A g \in Flow \ {f} : DeleteAt(t, f, k).items[g] = t.items[g]
<1>. DEFINE u == DeleteAt(t, f, k)
            x == RemoveAt(t.items[f], k)
<1>1. /\ t.items \in [Flow -> Seq(Item)]
      /\ \A g \in Flow : \A j \in 1..Len(t.items[g]) :
           \E i \in 1..Len(q) : t.items[g][j].buf = q[i]
  BY Zenon DEF TableHeld
<1>2. t.items[f] \in Seq(Item)
  BY <1>1
<1>3. u.items = [t.items EXCEPT ![f] = x]
  BY DEF DeleteAt, Balanced
<1>4. /\ x \in Seq(Item) /\ Len(x) = Len(t.items[f]) - 1
      /\ \A i \in 1..(Len(t.items[f]) - 1) : \E j \in 1..Len(t.items[f]) :
           x[i] = t.items[f][j]
  BY <1>2, RemoveFacts
<1>. HIDE DEF u, x
<1>5. /\ u.items \in [Flow -> Seq(Item)] /\ u.items[f] = x
      /\ \A g \in Flow \ {f} : u.items[g] = t.items[g]
  BY <1>1, <1>3, <1>4
<1>6. ASSUME NEW g \in Flow, NEW j \in 1..Len(u.items[g])
      PROVE  \E i \in 1..Len(q) : u.items[g][j].buf = q[i]
  <2>1. CASE g # f
    <3>1. u.items[g] = t.items[g]
      BY <1>5, <2>1
    <3>2. \E i \in 1..Len(q) : t.items[g][j].buf = q[i]
      <4>1. j \in 1..Len(t.items[g])
        BY <3>1, Zenon
      <4>. QED  BY <1>1, <4>1, Zenon
    <3>. QED  BY <3>1, <3>2, Zenon
  <2>2. CASE g = f
    <3>1. j \in 1..(Len(t.items[f]) - 1)
      BY <1>4, <1>5, <1>6, <2>2, Zenon
    <3>2. PICK i \in 1..Len(t.items[f]) : x[j] = t.items[f][i]
      BY <1>4, <3>1, Zenon
    <3>. QED  BY <1>1, <1>5, <2>2, <3>2, Zenon
  <2>. QED  BY <2>1, <2>2
<1>7. TableHeld(u, Item, q)
  BY <1>5, <1>6, Zenon DEF TableHeld
<1>. QED  BY <1>4, <1>5, <1>7, Zenon DEF u

\* A longer queue holds what the shorter one did.
LEMMA TableQueue ==
  ASSUME NEW t, NEW Item, NEW S, NEW q \in Seq(S), NEW e, TableHeld(t, Item, q)
  PROVE  TableHeld(t, Item, Append(q, e))
<1>1. q \in Seq(S \cup {e})
  OBVIOUS
<1>2. /\ Len(Append(q, e)) = Len(q) + 1 /\ Len(q) \in Nat
      /\ \A i \in 1..Len(q) : Append(q, e)[i] = q[i]
  BY <1>1
<1>3. \A i \in 1..Len(q) : i \in 1..Len(Append(q, e))
  BY <1>2
<1>. QED  BY <1>2, <1>3, Zenon DEF TableHeld

\* An empty table has no items at any buffer.
LEMMA TableReset ==
  ASSUME NEW t, NEW Item, NEW q, NEW r, TableHeld(t, Item, q)
  PROVE  TableHeld(Reset(t), Item, r) /\ \A f \in Flow : Reset(t).items[f] = <<>>
<1>1. DOMAIN t.items = Flow
  BY DEF TableHeld
<1>2. Reset(t).items = [f \in Flow |-> <<>>]
  BY <1>1 DEF Reset
<1>3. <<>> \in Seq(Item) /\ Len(<<>>) = 0
  OBVIOUS
<1>. QED  BY <1>2, <1>3 DEF TableHeld

\* An item of the packet that is queued.
LEMMA TableInsertQueued ==
  ASSUME NEW t, NEW Item, NEW S, NEW q \in Seq(S), NEW e, TableHeld(t, Item, q),
         NEW f \in Flow, NEW item \in Item, item.buf = e
  PROVE  /\ TableHeld(Insert(t, f, item), Item, Append(q, e))
         /\ Len(Insert(t, f, item).items[f]) = Len(t.items[f]) + 1
         /\ Insert(t, f, item).items[f] # <<>>
         /\ \A g \in Flow \ {f} : Insert(t, f, item).items[g] = t.items[g]
<1>. DEFINE r == Append(q, e)
            T == S \cup {e}
<1>1. r \in Seq(T) /\ \E i \in 1..Len(r) : item.buf = r[i]
  <2>1. q \in Seq(T) /\ e \in T
    OBVIOUS
  <2>2. /\ r \in Seq(T) /\ Len(r) = Len(q) + 1 /\ r[Len(q) + 1] = e /\ Len(q) \in Nat
    <3>. HIDE DEF T
    <3>. QED  BY <2>1, AppendFacts, SeqFacts
  <2>. HIDE DEF r
  <2>3. Len(q) + 1 \in 1..Len(r)
    BY <2>2
  <2>. QED  BY <2>2, <2>3, Zenon
<1>2. TableHeld(t, Item, r)
  BY TableQueue, Zenon
<1>. HIDE DEF r, T
<1>3. /\ TableHeld(Insert(t, f, item), Item, r)
      /\ Len(Insert(t, f, item).items[f]) = Len(t.items[f]) + 1
      /\ Insert(t, f, item).items[f] # <<>>
      /\ \A g \in Flow \ {f} : Insert(t, f, item).items[g] = t.items[g]
  BY <1>1, <1>2, TableInsert
<1>. QED  BY <1>3 DEF r
-----------------------------------------------------------------------------
(***************************************************************************)
(* A batch from the first packet to the reset.                             *)
(***************************************************************************)

\* The types of a batch under way.
LEMMA BatchFacts ==
  ASSUME BatchHeld
  PROVE  /\ cur \in Nat /\ settled \in Nat /\ cur <= size /\ size \in 0..MaxBatch
         /\ batch \in Seq(Packet) /\ bufs \in Seq(BufferType) /\ Len(bufs) = cur
         /\ toWrite \in Seq(1..settled) /\ Len(toWrite) \in Nat
         /\ \A i \in 1..Len(toWrite) : toWrite[i] \in 1..settled
         /\ pc = "scan" => cur # 0
<1>1. /\ cur \in Nat /\ cur <= size /\ size \in 0..MaxBatch /\ batch \in Seq(Packet)
      /\ pc = "scan" => cur # 0
  BY DEF BatchHeld, PoolInv, BatchInv, FlowsInv, cur
<1>2. bufs \in Seq(BufferType) /\ Len(bufs) = cur
  BY DEF BatchHeld, Shapes
<1>3. settled \in Nat /\ toWrite \in Seq(1..settled)
  BY DEF BatchHeld, Held, Queued
<1>4. Len(toWrite) \in Nat /\ \A i \in 1..Len(toWrite) : toWrite[i] \in 1..settled
  BY <1>3, SeqFacts, Zenon
<1>. QED  BY <1>1, <1>2, <1>3, <1>4, Zenon

\* One more packet in one more buffer.
LEMMA OneMore ==
  ASSUME BatchHeld, pc = "gro", NEW p \in Packet, NEW b \in BufferType,
         Len(batch) < size, batch' = Append(batch, p)
  PROVE  /\ cur' = cur + 1 /\ cur + 1 \in 1..MaxBatch /\ settled = cur
         /\ current' = p
         /\ Append(bufs, b) \in Seq(BufferType) /\ Len(Append(bufs, b)) = cur + 1
         /\ \A n \in 1..cur : Append(bufs, b)[n] = bufs[n]
         /\ Append(bufs, b)[cur + 1] = b
<1>1. /\ cur \in Nat /\ cur <= size /\ size \in 0..MaxBatch
      /\ batch \in Seq(Packet) /\ bufs \in Seq(BufferType) /\ Len(bufs) = cur
  BY BatchFacts
<1>2. /\ Append(bufs, b) \in Seq(BufferType) /\ Len(Append(bufs, b)) = cur + 1
      /\ \A n \in 1..cur : Append(bufs, b)[n] = bufs[n]
      /\ Append(bufs, b)[cur + 1] = b
  BY <1>1, AppendFacts
<1>3. cur' = cur + 1 /\ current' = p
  <2>1. /\ Len(Append(batch, p)) = Len(batch) + 1
        /\ Append(batch, p)[Len(batch) + 1] = p
    BY <1>1, AppendFacts
  <2>. QED  BY <2>1 DEF cur, current
<1>4. cur + 1 \in 1..MaxBatch /\ settled = cur
  BY <1>1, BatchAssumption DEF settled, cur
<1>. QED  BY <1>2, <1>3, <1>4, Zenon

\* A packet whose buffer is queued, whatever becomes of the tables.
LEMMA QueuedStep ==
  ASSUME BatchHeld, PoolInv', pc = "gro", pc' = "gro",
         NEW p \in Packet, NEW b \in BufferType, b.parts = <<cur + 1>>,
         Len(batch) < size, batch' = Append(batch, p), bufs' = Append(bufs, b),
         toWrite' = Append(toWrite, cur + 1),
         TableHeld(tcp, ItemOfTcp, toWrite)', TableHeld(udp, ItemOfUdp, toWrite)',
         \A f \in Flow : Len(tcp'.items[f]) <= cur + 1,
         \A f \in udp'.live : udp'.items[f] # <<>>,
         UNCHANGED <<vnetHdr, scan, sent, written, result, writes>>
  PROVE  BatchHeld'
<1>1. /\ cur' = cur + 1 /\ cur + 1 \in 1..MaxBatch /\ settled = cur
      /\ bufs' \in Seq(BufferType) /\ Len(bufs') = cur'
      /\ \A n \in 1..cur : bufs'[n] = bufs[n]
      /\ bufs'[cur + 1] = b /\ settled' = cur + 1
  BY OneMore DEF settled
<1>2. cur \in Nat /\ toWrite \in Seq(1..cur) /\ Len(toWrite) \in Nat
  BY BatchFacts, <1>1
<1>3. Held(bufs', toWrite', cur + 1)
  <2>1. Held(bufs, toWrite, cur)
    BY <1>1 DEF BatchHeld
  <2>2. /\ \A n \in 1..cur : bufs'[n].parts = bufs[n].parts
        /\ bufs'[cur + 1].parts = <<cur + 1>>
    BY <1>1
  <2>3. Held(bufs', Append(toWrite, cur + 1), cur + 1)
    BY <2>1, <2>2, HeldQueues
  <2>. QED  BY <2>3
<1>4. Shapes'
  <2>1. vnetHdr' \in BOOLEAN
    BY DEF BatchHeld, Shapes
  <2>. QED  BY <1>1, <2>1 DEF Shapes
<1>5. ScanInv'
  <2>1. scan' \in 0..MaxBatch
    BY DEF BatchHeld, ScanInv
  <2>. QED  BY <1>1, <2>1 DEF ScanInv
<1>6. CountsInv'
  <2>1. Len(toWrite') = Len(toWrite) + 1
    BY <1>2, AppendFacts DEF BatchHeld
  <2>2. /\ sent \in 0..Len(toWrite) /\ written \in 0..sent
        /\ result \in {"none", "nil", "errors", "ErrClosed", "invalidOffset"}
        /\ writes \in 0..MaxWrites
    BY DEF BatchHeld, CountsInv
  <2>3. sent \in 0..Len(toWrite')
    BY <1>2, <2>1, <2>2
  <2>. QED  BY <2>2, <2>3 DEF CountsInv
<1>. QED  BY <1>1, <1>3, <1>4, <1>5, <1>6 DEF BatchHeld

\* The tables as they are, with a longer queue.
LEMMA TablesKept ==
  ASSUME BatchHeld, NEW e, toWrite' = Append(toWrite, e)
  PROVE  /\ tcp' = tcp => TableHeld(tcp, ItemOfTcp, toWrite)'
         /\ udp' = udp => TableHeld(udp, ItemOfUdp, toWrite)'
<1>1. toWrite \in Seq(1..settled)
  BY BatchFacts
<1>2. TableHeld(tcp, ItemOfTcp, toWrite) /\ TableHeld(udp, ItemOfUdp, toWrite)
  BY DEF BatchHeld, Shapes
<1>3. /\ TableHeld(tcp, ItemOfTcp, Append(toWrite, e))
      /\ TableHeld(udp, ItemOfUdp, Append(toWrite, e))
  BY <1>1, <1>2, TableQueue
<1>. QED  BY <1>3

\* A new batch has taken up no packet.
LEMMA StartHeld == ASSUME BatchHeld, Start, PoolInv' PROVE BatchHeld'
<1>1. /\ pc = "idle" /\ pc' = "gro" /\ batch' = <<>> /\ bufs' = <<>> /\ toWrite' = <<>>
      /\ sent' = 0 /\ written' = 0 /\ writes' = writes + 1 /\ writes < MaxWrites
      /\ UNCHANGED <<vnetHdr, tcp, udp, scan, result>>
  BY DEF Start
<1>2. cur' = 0 /\ settled' = 0 /\ Len(<<>>) = 0 /\ 0 \in Nat
  BY <1>1 DEF cur, settled
<1>3. Held(bufs', toWrite', 0)
  <2>1. <<>> \in Seq(1..0) /\ 1..0 = {}
    OBVIOUS
  <2>2. Held(<<>>, <<>>, 0)
    BY <1>2, <2>1, Zenon DEF Held, Queued, Covers
  <2>. QED  BY <1>1, <2>2
<1>4. /\ tcp.items \in [Flow -> Seq(ItemOfTcp)] /\ udp.items \in [Flow -> Seq(ItemOfUdp)]
      /\ \A f \in Flow : tcp.items[f] = <<>> /\ udp.items[f] = <<>>
  BY <1>1 DEF BatchHeld, Shapes, TableHeld, ScanInv
<1>5. TableHeld(tcp', ItemOfTcp, toWrite') /\ TableHeld(udp', ItemOfUdp, toWrite')
  <2>1. \A f \in Flow : \A k \in 1..Len(tcp.items[f]) : FALSE
    BY <1>2, <1>4
  <2>2. \A f \in Flow : \A k \in 1..Len(udp.items[f]) : FALSE
    BY <1>2, <1>4
  <2>. QED  BY <1>1, <1>4, <2>1, <2>2, Zenon DEF TableHeld
<1>6. Shapes'
  <2>1. vnetHdr' \in BOOLEAN /\ bufs' \in Seq(BufferType) /\ Len(bufs') = 0
    BY <1>1 DEF BatchHeld, Shapes
  <2>. QED  BY <1>1, <1>2, <1>5, <2>1 DEF Shapes
<1>7. ScanInv'
  <2>1. scan' \in 0..MaxBatch
    BY <1>1 DEF BatchHeld, ScanInv
  <2>2. \A f \in Flow : Len(tcp'.items[f]) <= 0
    BY <1>1, <1>4
  <2>3. udp'.live = {}
    BY <1>1 DEF BatchHeld, PoolInv, FlowsInv
  <2>. QED  BY <1>1, <1>2, <2>1, <2>2, <2>3 DEF ScanInv
<1>8. CountsInv'
  <2>1. writes \in 0..MaxWrites
        /\ result \in {"none", "nil", "errors", "ErrClosed", "invalidOffset"}
    BY DEF BatchHeld, CountsInv
  <2>2. writes' \in 0..MaxWrites
    BY <1>1, <2>1, BatchAssumption
  <2>3. 0 \in 0..0 /\ Len(toWrite') = 0
    BY <1>1
  <2>. QED  BY <1>1, <2>1, <2>2, <2>3 DEF CountsInv
<1>. QED  BY <1>2, <1>3, <1>6, <1>7, <1>8 DEF BatchHeld

\* The items of a flow, which are never more than the buffers to write.
LEMMA ItemsFacts ==
  ASSUME BatchHeld, NEW f \in Flow
  PROVE  /\ tcp.items[f] \in Seq(ItemOfTcp) /\ udp.items[f] \in Seq(ItemOfUdp)
         /\ Len(tcp.items[f]) \in Nat /\ Len(tcp.items[f]) <= settled
<1>1. tcp.items[f] \in Seq(ItemOfTcp) /\ udp.items[f] \in Seq(ItemOfUdp)
  BY DEF BatchHeld, Shapes, TableHeld
<1>. QED  BY <1>1, SeqFacts DEF BatchHeld, ScanInv

\* A packet that is not merged gets a buffer to write of its own.
LEMMA TakeRawHeld ==
  ASSUME BatchHeld, PoolInv', NEW p \in Packet, TakeRaw(p) \/ TakeAsIs(p)
  PROVE  BatchHeld'
<1>1. cur \in Nat
  BY BatchFacts
<1>. DEFINE b == Buffer(p, cur + 1)
            c == [b EXCEPT !.hdr = Plain]
<1>2. /\ b \in BufferType /\ b.parts = <<cur + 1>>
      /\ c \in BufferType /\ c.parts = <<cur + 1>>
  BY <1>1, BufferTyped
<1>3. PICK d \in {b, c} : Takes(p, d) /\ toWrite' = Append(toWrite, cur + 1)
                          /\ UNCHANGED <<pc, tcp, udp, scan>>
  BY DEF TakeRaw, TakeAsIs, Queue
<1>4. d \in BufferType /\ d.parts = <<cur + 1>>
  BY <1>2, <1>3
<1>. HIDE DEF b, c
<1>5. /\ pc = "gro" /\ pc' = "gro" /\ Len(batch) < size /\ batch' = Append(batch, p)
      /\ bufs' = Append(bufs, d) /\ toWrite' = Append(toWrite, cur + 1)
      /\ UNCHANGED <<vnetHdr, tcp, udp, scan, sent, written, result, writes>>
  BY <1>3 DEF Takes
<1>6. TableHeld(tcp, ItemOfTcp, toWrite)' /\ TableHeld(udp, ItemOfUdp, toWrite)'
  BY <1>5, TablesKept
<1>7. \A f \in Flow : Len(tcp'.items[f]) <= cur + 1
  <2>1. settled = cur
    BY <1>5 DEF settled
  <2>. QED  BY <1>1, <1>5, <2>1, ItemsFacts
<1>8. \A f \in udp'.live : udp'.items[f] # <<>>
  BY <1>5 DEF BatchHeld, ScanInv
<1>. QED  BY <1>4, <1>5, <1>6, <1>7, <1>8, QueuedStep

\* A TCP packet of a new flow gets a buffer of its own; else the scan begins.
LEMMA TakeTcpHeld ==
  ASSUME BatchHeld, PoolInv', NEW p \in Packet, TakeTcp(p)
  PROVE  BatchHeld'
<1>. DEFINE b == Buffer(p, cur + 1)
            f == p.flow
<1>1. /\ pc = "gro" /\ Len(batch) < size /\ batch' = Append(batch, p)
      /\ bufs' = Append(bufs, b)
      /\ UNCHANGED <<vnetHdr, udp, sent, written, result, writes>>
  BY DEF TakeTcp, Takes
<1>2. f \in Flow /\ cur \in Nat /\ cur + 1 \in Nat
  BY FlowAssumption, BatchFacts
<1>3. b \in BufferType /\ b.parts = <<cur + 1>>
  BY <1>2, BufferTyped
<1>4. settled = cur
  BY <1>1 DEF settled
<1>5. \A g \in udp'.live : udp'.items[g] # <<>>
  BY <1>1 DEF BatchHeld, ScanInv
<1>6. CASE Existing(tcp, f)
  <2>. HIDE DEF b
  <2>1. pc' = "scan" /\ scan' = Len(tcp.items[f]) /\ UNCHANGED <<tcp, toWrite>>
    BY <1>6 DEF TakeTcp
  <2>2. /\ cur' = cur + 1 /\ cur + 1 \in 1..MaxBatch /\ current' = p
        /\ bufs' \in Seq(BufferType) /\ Len(bufs') = cur'
        /\ \A n \in 1..cur : bufs'[n] = bufs[n]
        /\ bufs'[cur + 1] = b
    BY <1>1, <1>3, OneMore
  <2>3. settled' = cur
    BY <1>2, <2>1, <2>2 DEF settled
  <2>4. Held(bufs', toWrite', settled')
    <3>1. Held(bufs, toWrite, cur)
      BY <1>4 DEF BatchHeld
    <3>2. \A n \in 1..cur : bufs'[n].parts = bufs[n].parts
      BY <2>2
    <3>3. Held(bufs', toWrite, cur)
      BY <3>1, <3>2, HeldKeeps
    <3>. QED  BY <2>1, <2>3, <3>3
  <2>5. Shapes'
    <3>1. /\ vnetHdr \in BOOLEAN /\ TableHeld(tcp, ItemOfTcp, toWrite)
          /\ TableHeld(udp, ItemOfUdp, toWrite)
      BY DEF BatchHeld, Shapes
    <3>. QED  BY <1>1, <2>1, <2>2, <3>1 DEF Shapes
  <2>6. ScanInv'
    <3>1. scan' \in 0..MaxBatch
      BY <1>2, <1>4, <2>1, <2>2, ItemsFacts, BatchAssumption
    <3>2. scan' <= Len(tcp'.items[current'.flow]) /\ bufs'[cur'].parts = <<cur'>>
      <4>1. Len(tcp.items[f]) \in Nat
        BY <1>2, ItemsFacts
      <4>2. scan' <= Len(tcp'.items[current'.flow])
        BY <2>1, <2>2, <4>1
      <4>. QED  BY <1>3, <2>2, <4>2
    <3>3. \A g \in Flow : Len(tcp'.items[g]) <= settled'
      BY <1>4, <2>1, <2>3, ItemsFacts
    <3>. QED  BY <1>5, <2>1, <3>1, <3>2, <3>3 DEF ScanInv
  <2>7. CountsInv'
    BY <1>1, <2>1 DEF BatchHeld, CountsInv
  <2>. QED  BY <2>4, <2>5, <2>6, <2>7 DEF BatchHeld
<1>7. CASE ~Existing(tcp, f)
  <2>. DEFINE item == TcpItem(p, cur + 1)
  <2>1. /\ pc' = "gro" /\ scan' = scan /\ toWrite' = Append(toWrite, cur + 1)
        /\ tcp' = Insert(tcp, f, item)
    BY <1>1, <1>7 DEF TakeTcp, Queue
  <2>2. item \in ItemOfTcp /\ item.buf = cur + 1
    BY <1>2, ItemTyped
  <2>. HIDE DEF b, item
  <2>3. /\ TableHeld(Insert(tcp, f, item), ItemOfTcp, Append(toWrite, cur + 1))
        /\ Len(Insert(tcp, f, item).items[f]) = Len(tcp.items[f]) + 1
        /\ \A g \in Flow \ {f} : Insert(tcp, f, item).items[g] = tcp.items[g]
    <3>1. TableHeld(tcp, ItemOfTcp, toWrite) /\ toWrite \in Seq(1..settled) /\ f \in Flow
      BY <1>2, BatchFacts DEF BatchHeld, Shapes
    <3>. HIDE DEF f
    <3>. QED  BY <2>2, <3>1, TableInsertQueued
  <2>4. TableHeld(tcp, ItemOfTcp, toWrite)' /\ TableHeld(udp, ItemOfUdp, toWrite)'
    BY <1>1, <2>1, <2>3, TablesKept
  <2>5. \A g \in Flow : Len(tcp'.items[g]) <= cur + 1
    <3>1. ASSUME NEW g \in Flow PROVE Len(tcp'.items[g]) <= cur + 1
      <4>1. Len(tcp.items[g]) \in Nat /\ Len(tcp.items[g]) <= cur
        BY <1>4, ItemsFacts
      <4>2. Len(tcp'.items[g]) \in {Len(tcp.items[g]), Len(tcp.items[g]) + 1}
        BY <2>1, <2>3
      <4>. QED  BY <1>2, <4>1, <4>2
    <3>. QED  BY <3>1
  <2>. QED  BY <1>1, <1>3, <1>5, <2>1, <2>4, <2>5, QueuedStep
<1>. QED  BY <1>6, <1>7

\* A datagram that begins an item.
LEMMA UdpInsertHeld ==
  ASSUME BatchHeld, PoolInv', NEW p \in Packet, NEW bad \in BOOLEAN,
         pc = "gro", pc' = "gro", Len(batch) < size, batch' = Append(batch, p),
         udp' = Insert(udp, p.flow, UdpItem(p, cur + 1, bad)),
         bufs' = Append(bufs, Buffer(p, cur + 1)), toWrite' = Append(toWrite, cur + 1),
         UNCHANGED <<vnetHdr, tcp, scan, sent, written, result, writes>>
  PROVE  BatchHeld'
<1>. DEFINE b == Buffer(p, cur + 1)
            f == p.flow
            item == UdpItem(p, cur + 1, bad)
<1>1. f \in Flow /\ cur \in Nat /\ cur + 1 \in Nat
  BY FlowAssumption, BatchFacts
<1>2. b \in BufferType /\ b.parts = <<cur + 1>>
  BY <1>1, BufferTyped
<1>3. item \in ItemOfUdp /\ item.buf = cur + 1
  BY <1>1, ItemTyped
<1>4. udp' = Insert(udp, f, item) /\ bufs' = Append(bufs, b)
  OBVIOUS
<1>. HIDE DEF b, item
<1>5. /\ TableHeld(Insert(udp, f, item), ItemOfUdp, Append(toWrite, cur + 1))
      /\ Insert(udp, f, item).items[f] # <<>>
      /\ \A g \in Flow \ {f} : Insert(udp, f, item).items[g] = udp.items[g]
  <2>1. TableHeld(udp, ItemOfUdp, toWrite) /\ toWrite \in Seq(1..settled)
    BY BatchFacts DEF BatchHeld, Shapes
  <2>. QED  BY <1>1, <1>3, <2>1, TableInsertQueued
<1>6. TableHeld(tcp, ItemOfTcp, toWrite)' /\ TableHeld(udp, ItemOfUdp, toWrite)'
  BY <1>4, <1>5, TablesKept
<1>7. \A g \in udp'.live : udp'.items[g] # <<>>
  <2>1. udp'.live = udp.live \cup {f} /\ udp.live \subseteq Flow
    BY <1>4 DEF Insert, BatchHeld, PoolInv, Balanced
  <2>. QED  BY <1>4, <1>5, <2>1 DEF BatchHeld, ScanInv
<1>8. \A g \in Flow : Len(tcp'.items[g]) <= cur + 1
  <2>1. settled = cur
    BY DEF settled
  <2>. QED  BY <1>1, <2>1, ItemsFacts
<1>. QED  BY <1>2, <1>4, <1>6, <1>7, <1>8, QueuedStep

\* What a merge of udpGRO does to the buffers.
UdpBufs(item, p) ==
  LET b == Buffer(p, cur + 1) IN
  [Append(bufs, b) EXCEPT ![item.buf] = UdpMerged(bufs[item.buf], b)]

LEMMA UdpBufsFacts ==
  ASSUME BatchHeld, NEW p \in Packet, NEW k \in 1..Len(udp.items[p.flow]),
         NEW item, item = udp.items[p.flow][k],
         pc = "gro", Len(batch) < size, batch' = Append(batch, p)
  PROVE  /\ item \in ItemOfUdp /\ \E i \in 1..Len(toWrite) : item.buf = toWrite[i]
         /\ settled = cur /\ cur' = cur + 1 /\ cur + 1 \in 1..MaxBatch
         /\ UdpBufs(item, p) \in Seq(BufferType) /\ Len(UdpBufs(item, p)) = cur + 1
         /\ UdpBufs(item, p)[item.buf].parts = bufs[item.buf].parts \o <<cur + 1>>
         /\ \A m \in 1..cur : m # item.buf => UdpBufs(item, p)[m] = bufs[m]
<1>. DEFINE b == Buffer(p, cur + 1)
            f == p.flow
            n == item.buf
            cs == UdpBufs(item, p)
            more == Append(bufs, b)
            merged == UdpMerged(bufs[n], b)
<1>1. f \in Flow /\ cur \in Nat /\ cur + 1 \in Nat
  BY FlowAssumption, BatchFacts
<1>2. b \in BufferType /\ b.parts = <<cur + 1>>
  BY <1>1, BufferTyped
<1>3. cs = [more EXCEPT ![n] = merged]
  BY Zenon DEF UdpBufs
<1>4. /\ cur' = cur + 1 /\ cur + 1 \in 1..MaxBatch /\ settled = cur
      /\ more \in Seq(BufferType) /\ Len(more) = cur + 1
      /\ \A m \in 1..cur : more[m] = bufs[m]
  BY <1>2, OneMore
<1>5. item \in ItemOfUdp /\ \E i \in 1..Len(toWrite) : item.buf = toWrite[i]
  <2>1. udp.items[f] \in Seq(ItemOfUdp)
    BY <1>1, ItemsFacts
  <2>2. item \in ItemOfUdp
    BY <2>1, SeqFacts
  <2>. QED  BY <1>1, <2>2 DEF BatchHeld, Shapes, TableHeld
<1>6. PICK i \in 1..Len(toWrite) : n = toWrite[i]
  BY <1>5
<1>7. n \in 1..cur /\ bufs[n] \in BufferType
  <2>1. n \in 1..cur /\ bufs \in Seq(BufferType) /\ Len(bufs) = cur
    BY <1>4, <1>6, BatchFacts
  <2>. QED  BY <2>1, SeqFacts
<1>8. merged \in BufferType /\ merged.parts = bufs[n].parts \o <<cur + 1>>
  <2>1. \A x, y \in BufferType : /\ UdpMerged(x, y) \in BufferType
                                 /\ UdpMerged(x, y).parts = x.parts \o y.parts
    BY MergedTyped
  <2>2. UdpMerged(bufs[n], b) \in BufferType
        /\ UdpMerged(bufs[n], b).parts = bufs[n].parts \o b.parts
    BY <1>2, <1>7, <2>1
  <2>. QED  BY <1>2, <2>2
<1>. HIDE DEF b, more, merged, n, cs
<1>9. /\ cs \in Seq(BufferType) /\ Len(cs) = cur + 1 /\ cs[n] = merged
       /\ \A m \in 1..cur : m # n => cs[m] = bufs[m]
  <2>1. n \in 1..(cur + 1)
    BY <1>1, <1>7
  <2>2. /\ [more EXCEPT ![n] = merged] \in Seq(BufferType)
        /\ Len([more EXCEPT ![n] = merged]) = Len(more)
        /\ [more EXCEPT ![n] = merged][n] = merged
        /\ \A m \in 1..Len(more) : m # n => [more EXCEPT ![n] = merged][m] = more[m]
    <3>1. n \in 1..Len(more)
      BY <1>4, <2>1
    <3>2. more \in Seq(BufferType) /\ merged \in BufferType
      BY <1>4, <1>8
    <3>. QED  BY <3>1, <3>2, ReplaceFacts
  <2>3. \A m \in 1..cur : m \in 1..(cur + 1)
    BY <1>1
  <2>. QED  BY <1>3, <1>4, <2>2, <2>3
<1>10. cs[n].parts = bufs[n].parts \o <<cur + 1>>
  BY <1>8, <1>9
<1>. QED  BY <1>4, <1>5, <1>9, <1>10 DEF n, cs

\* A datagram that is merged into the last item of its flow.
LEMMA UdpMergeHeld ==
  ASSUME BatchHeld, PoolInv', NEW p \in Packet, NEW k \in 1..Len(udp.items[p.flow]),
         NEW item, item = udp.items[p.flow][k],
         pc = "gro", pc' = "gro", Len(batch) < size, batch' = Append(batch, p),
         udp' = UpdateAt(udp, p.flow, k, UdpMergedItem(item)),
         bufs' = [Append(bufs, Buffer(p, cur + 1)) EXCEPT
                    ![item.buf] = UdpMerged(bufs[item.buf], Buffer(p, cur + 1))],
         UNCHANGED <<vnetHdr, tcp, scan, toWrite, sent, written, result, writes>>
  PROVE  BatchHeld'
<1>. DEFINE f == p.flow
            n == item.buf
<1>1. f \in Flow /\ cur \in Nat
  BY FlowAssumption, BatchFacts
<1>2. /\ item \in ItemOfUdp /\ \E i \in 1..Len(toWrite) : n = toWrite[i]
      /\ settled = cur /\ cur' = cur + 1 /\ cur + 1 \in 1..MaxBatch
      /\ bufs' \in Seq(BufferType) /\ Len(bufs') = cur + 1
      /\ bufs'[n].parts = bufs[n].parts \o <<cur + 1>>
      /\ \A m \in 1..cur : m # n => bufs'[m] = bufs[m]
  <2>1. bufs' = UdpBufs(item, p)
    BY Zenon DEF UdpBufs
  <2>2. Len(UdpBufs(item, p)) = cur + 1
    BY UdpBufsFacts, Zenon
  <2>3. UdpBufs(item, p) \in Seq(BufferType)
    BY UdpBufsFacts, Zenon
  <2>4. UdpBufs(item, p)[item.buf].parts = bufs[item.buf].parts \o <<cur + 1>>
    BY UdpBufsFacts, Zenon
  <2>5. \A m \in 1..cur : m # item.buf => UdpBufs(item, p)[m] = bufs[m]
    BY UdpBufsFacts, Zenon
  <2>6. \E i \in 1..Len(toWrite) : n = toWrite[i]
    BY UdpBufsFacts, Zenon
  <2>7. item \in ItemOfUdp /\ settled = cur /\ cur' = cur + 1 /\ cur + 1 \in 1..MaxBatch
    BY UdpBufsFacts, Zenon
  <2>. HIDE DEF n
  <2>. QED  BY <2>1, <2>2, <2>3, <2>4, <2>5, <2>6, <2>7 DEF n
<1>3. settled' = cur + 1
  BY <1>2 DEF settled
<1>4. PICK i \in 1..Len(toWrite) : n = toWrite[i]
  BY <1>2
<1>. HIDE DEF n
<1>5. Held(bufs', toWrite', settled')
  <2>1. Held(bufs, toWrite, cur)
    BY <1>2 DEF BatchHeld
  <2>2. MergedInto(bufs, bufs', n, cur)
    BY <1>2, Zenon DEF MergedInto
  <2>3. i \in 1..Len(toWrite) /\ MergedInto(bufs, bufs', toWrite[i], cur)
    BY <1>4, <2>2
  <2>4. Held(bufs', toWrite, cur + 1)
    BY <2>1, <2>3, HeldMerges, Zenon
  <2>. QED  BY <1>3, <2>4
<1>6. /\ TableHeld(udp', ItemOfUdp, toWrite)
       /\ \A g \in Flow : Len(udp'.items[g]) = Len(udp.items[g])
  <2>. DEFINE new == UdpMergedItem(item)
  <2>1. new \in ItemOfUdp /\ new.buf = udp.items[f][k].buf
    BY <1>2, MergedItemTyped
  <2>2. Balanced(udp) /\ TableHeld(udp, ItemOfUdp, toWrite)
    BY DEF BatchHeld, PoolInv, Shapes
  <2>3. udp' = UpdateAt(udp, f, k, new)
    OBVIOUS
  <2>. HIDE DEF new
  <2>4. /\ TableHeld(UpdateAt(udp, f, k, new), ItemOfUdp, toWrite)
        /\ \A g \in Flow : Len(UpdateAt(udp, f, k, new).items[g]) = Len(udp.items[g])
    BY <1>1, <2>1, <2>2, TableUpdate
  <2>. QED  BY <2>3, <2>4
<1>7. Shapes'
  <2>1. vnetHdr \in BOOLEAN /\ TableHeld(tcp, ItemOfTcp, toWrite)
    BY DEF BatchHeld, Shapes
  <2>. QED  BY <1>2, <1>6, <2>1 DEF Shapes
<1>8. ScanInv'
  <2>1. scan' \in 0..MaxBatch
    BY DEF BatchHeld, ScanInv
  <2>2. \A g \in Flow : Len(tcp'.items[g]) <= cur + 1
    <3>1. \A g \in Flow : Len(tcp.items[g]) \in Nat /\ Len(tcp.items[g]) <= cur
      BY <1>2, ItemsFacts
    <3>. QED  BY <1>1, <3>1
  <2>3. \A g \in udp'.live : udp'.items[g] # <<>>
    <3>1. ASSUME NEW g \in udp'.live PROVE udp'.items[g] # <<>>
      <4>1. g \in Flow /\ udp.items[g] # <<>>
        BY <3>1 DEF UpdateAt, BatchHeld, PoolInv, Balanced, ScanInv
      <4>2. Len(udp.items[g]) # 0
        BY <4>1, ItemsFacts
      <4>. QED  BY <1>6, <4>1, <4>2
    <3>. QED  BY <3>1
  <2>. QED  BY <1>2, <1>3, <2>1, <2>2, <2>3 DEF ScanInv
<1>9. CountsInv'
  BY DEF BatchHeld, CountsInv
<1>. QED  BY <1>5, <1>7, <1>8, <1>9 DEF BatchHeld

\* What TakeUdp does to its table, the buffers and the queue.
LEMMA TakeUdpCases ==
  ASSUME NEW p, TakeUdp(p), NEW f, f = p.flow,
         NEW item, item = Last(udp.items[f]), NEW b, b = Buffer(p, cur + 1)
  PROVE  \/ \E bad \in BOOLEAN :
              /\ udp' = Insert(udp, f, UdpItem(p, cur + 1, bad))
              /\ bufs' = Append(bufs, b) /\ toWrite' = Append(toWrite, cur + 1)
         \/ /\ Existing(udp, f)
            /\ udp' = UpdateAt(udp, f, Len(udp.items[f]), UdpMergedItem(item))
            /\ bufs' = [Append(bufs, b) EXCEPT
                          ![item.buf] = UdpMerged(bufs[item.buf], b)]
            /\ toWrite' = toWrite
<1>1. CASE Existing(udp, f)
  <2>1. UdpGRO(p, item, b)
    BY <1>1 DEF TakeUdp
  <2>. QED  BY <1>1, <2>1 DEF UdpGRO, Queue
<1>2. CASE ~Existing(udp, f)
  BY <1>2 DEF TakeUdp, Queue
<1>. QED  BY <1>1, <1>2

\* A UDP packet is merged into a buffer to write or gets one of its own.
LEMMA TakeUdpHeld ==
  ASSUME BatchHeld, PoolInv', NEW p \in Packet, TakeUdp(p)
  PROVE  BatchHeld'
<1>. DEFINE f == p.flow
            item == Last(udp.items[f])
            b == Buffer(p, cur + 1)
            k == Len(udp.items[f])
<1>1. /\ pc = "gro" /\ pc' = "gro" /\ Len(batch) < size /\ batch' = Append(batch, p)
      /\ UNCHANGED <<vnetHdr, tcp, scan, sent, written, result, writes>>
  BY DEF TakeUdp
<1>2. \/ \E bad \in BOOLEAN :
           /\ udp' = Insert(udp, f, UdpItem(p, cur + 1, bad))
           /\ bufs' = Append(bufs, b) /\ toWrite' = Append(toWrite, cur + 1)
      \/ /\ Existing(udp, f)
         /\ udp' = UpdateAt(udp, f, k, UdpMergedItem(item))
         /\ bufs' = [Append(bufs, b) EXCEPT ![item.buf] = UdpMerged(bufs[item.buf], b)]
         /\ toWrite' = toWrite
  BY TakeUdpCases
<1>3. ASSUME NEW bad \in BOOLEAN,
             udp' = Insert(udp, f, UdpItem(p, cur + 1, bad)),
             bufs' = Append(bufs, b), toWrite' = Append(toWrite, cur + 1)
      PROVE  BatchHeld'
  BY <1>1, <1>3, UdpInsertHeld
<1>4. ASSUME Existing(udp, f), udp' = UpdateAt(udp, f, k, UdpMergedItem(item)),
             bufs' = [Append(bufs, b) EXCEPT
                        ![item.buf] = UdpMerged(bufs[item.buf], b)],
             toWrite' = toWrite
      PROVE  BatchHeld'
  <2>1. f \in Flow
    BY FlowAssumption
  <2>2. udp.items[f] \in Seq(ItemOfUdp) /\ udp.items[f] # <<>>
    BY <1>4, <2>1, ItemsFacts DEF Existing, BatchHeld, ScanInv
  <2>3. k \in 1..Len(udp.items[f]) /\ item = udp.items[f][k]
    BY <2>2 DEF Last
  <2>. HIDE DEF item, k
  <2>. QED  BY <1>1, <1>4, <2>3, UdpMergeHeld
<1>. QED  BY <1>2, <1>3, <1>4

\* The item that tcpGRO looks at, and the buffers of it and of the packet.
LEMMA ScanFacts ==
  ASSUME BatchHeld, pc = "scan", scan > 0,
         NEW f, f = current.flow, NEW item, item = tcp.items[f][scan]
  PROVE  /\ current \in Packet /\ f \in Flow /\ scan \in 1..Len(tcp.items[f])
         /\ cur \in 1..MaxBatch /\ settled = cur - 1 /\ (cur - 1) + 1 = cur
         /\ item \in ItemOfTcp /\ item.buf \in 1..(cur - 1)
         /\ \E i \in 1..Len(toWrite) : item.buf = toWrite[i]
         /\ bufs[item.buf] \in BufferType /\ bufs[cur] \in BufferType
         /\ bufs[cur].parts = <<cur>>
<1>1. cur \in Nat /\ cur # 0 /\ cur <= MaxBatch /\ settled = cur - 1
  BY BatchFacts, BatchAssumption DEF settled
<1>2. current \in Packet /\ f \in Flow
  BY <1>1, BatchFacts, FlowAssumption DEF current, cur
<1>3. tcp.items[f] \in Seq(ItemOfTcp) /\ Len(tcp.items[f]) \in Nat
  BY <1>2, ItemsFacts
<1>4. scan \in 1..Len(tcp.items[f]) /\ bufs[cur].parts = <<cur>>
  BY <1>3, BatchAssumption DEF BatchHeld, ScanInv
<1>5. item \in ItemOfTcp /\ \E i \in 1..Len(toWrite) : item.buf = toWrite[i]
  BY <1>2, <1>3, <1>4, SeqFacts DEF BatchHeld, Shapes, TableHeld
<1>6. item.buf \in 1..(cur - 1)
  BY <1>1, <1>5, BatchFacts
<1>7. bufs[item.buf] \in BufferType /\ bufs[cur] \in BufferType
  <2>1. /\ item.buf \in 1..Len(bufs) /\ cur \in 1..Len(bufs)
        /\ bufs \in Seq(BufferType)
    BY <1>1, <1>6, BatchFacts
  <2>. QED  BY <2>1, SeqFacts
<1>. QED  BY <1>1, <1>2, <1>4, <1>5, <1>6, <1>7

\* What a merge of tcpGRO does to the buffers.
LEMMA TcpBufsFacts ==
  ASSUME BatchHeld, pc = "scan", scan > 0, NEW can,
         NEW f, f = current.flow, NEW item, item = tcp.items[f][scan]
  PROVE  /\ TcpBufs(can, item) \in Seq(BufferType) /\ Len(TcpBufs(can, item)) = cur
         /\ MergedInto(bufs, TcpBufs(can, item), item.buf, cur - 1)
<1>1. /\ cur \in Nat /\ (cur - 1) + 1 = cur
      /\ item.buf \in 1..(cur - 1) /\ item.buf \in 1..cur /\ cur \in 1..cur
      /\ bufs[item.buf] \in BufferType /\ bufs[cur] \in BufferType
      /\ bufs[cur].parts = <<cur>>
  <2>1. /\ cur \in 1..MaxBatch /\ (cur - 1) + 1 = cur /\ item.buf \in 1..(cur - 1)
        /\ bufs[item.buf] \in BufferType /\ bufs[cur] \in BufferType
        /\ bufs[cur].parts = <<cur>>
    BY ScanFacts, Zenon
  <2>. QED  BY <2>1, BatchAssumption
<1>2. bufs \in Seq(BufferType) /\ Len(bufs) = cur
  BY BatchFacts
<1>. DEFINE n == item.buf
            merged == TcpMerged(can, bufs[n], bufs[cur])
            x == IF can = "prepend" THEN bufs[n] ELSE bufs[cur]
            cs == [bufs EXCEPT ![n] = merged]
            ds == [cs EXCEPT ![cur] = x]
<1>3. /\ merged \in BufferType
      /\ merged.parts \in {bufs[n].parts \o <<cur>>, <<cur>> \o bufs[n].parts}
  <2>1. \A b, c \in BufferType :
           /\ TcpMerged(can, b, c) \in BufferType
           /\ TcpMerged(can, b, c).parts \in {b.parts \o c.parts, c.parts \o b.parts}
    BY MergedTyped
  <2>2. /\ merged \in BufferType
        /\ merged.parts \in {bufs[n].parts \o bufs[cur].parts,
                             bufs[cur].parts \o bufs[n].parts}
    BY <1>1, <2>1, Zenon
  <2>. QED  BY <1>1, <2>2
<1>4. x \in BufferType
  BY <1>1
<1>. HIDE DEF merged, x
<1>5. /\ cs \in Seq(BufferType) /\ Len(cs) = cur /\ cs[n] = merged
      /\ \A i \in 1..cur : i # n => cs[i] = bufs[i]
  <2>1. bufs \in Seq(BufferType) /\ n \in 1..Len(bufs) /\ Len(bufs) = cur
    BY <1>1, <1>2
  <2>. HIDE DEF n
  <2>. QED  BY <1>3, <2>1, ReplaceFacts
<1>6. n # cur /\ \A k \in 1..(cur - 1) : k \in 1..cur /\ k # cur
  BY <1>1
<1>. HIDE DEF n
<1>7. TcpBufs(can, item) = ds
  BY DEF TcpBufs, n, merged, x
<1>. HIDE DEF cs
<1>8. /\ ds \in Seq(BufferType) /\ Len(ds) = cur
      /\ \A i \in 1..cur : i # cur => ds[i] = cs[i]
  BY <1>1, <1>4, <1>5, ReplaceFacts
<1>. HIDE DEF ds
<1>9. /\ \A k \in 1..(cur - 1) : k # n => ds[k].parts = bufs[k].parts
      /\ ds[n].parts = merged.parts
  BY <1>1, <1>5, <1>6, <1>8 DEF n
<1>10. MergedInto(bufs, ds, n, cur - 1)
  BY <1>1, <1>3, <1>9 DEF MergedInto
<1>. QED  BY <1>7, <1>8, <1>10 DEF n

\* tcpGRO has found the packet's place: what the rest of the batch keeps.
LEMMA SettledStep ==
  ASSUME BatchHeld, PoolInv', pc = "scan", pc' = "gro", ScanFrame,
         scan' \in 0..MaxBatch, bufs' \in Seq(BufferType), Len(bufs') = cur,
         Held(bufs', toWrite', cur),
         TableHeld(tcp, ItemOfTcp, toWrite)', TableHeld(udp, ItemOfUdp, toWrite)',
         \A g \in Flow : Len(tcp'.items[g]) <= cur,
         Len(toWrite') \in {Len(toWrite), Len(toWrite) + 1}
  PROVE  BatchHeld'
<1>1. /\ cur' = cur /\ settled' = cur
      /\ UNCHANGED <<vnetHdr, udp, sent, written, result, writes>>
  BY DEF ScanFrame, cur, settled
<1>2. Shapes'
  <2>1. vnetHdr \in BOOLEAN
    BY DEF BatchHeld, Shapes
  <2>. QED  BY <1>1, <2>1 DEF Shapes
<1>3. ScanInv'
  <2>1. \A g \in udp'.live : udp'.items[g] # <<>>
    BY <1>1 DEF BatchHeld, ScanInv
  <2>. QED  BY <1>1, <2>1 DEF ScanInv
<1>4. CountsInv'
  <2>1. /\ sent \in 0..Len(toWrite) /\ written \in 0..sent
        /\ result \in {"none", "nil", "errors", "ErrClosed", "invalidOffset"}
        /\ writes \in 0..MaxWrites
    BY DEF BatchHeld, CountsInv
  <2>2. sent \in 0..Len(toWrite')
    BY <2>1, BatchFacts
  <2>. QED  BY <1>1, <2>1, <2>2 DEF CountsInv
<1>. QED  BY <1>1, <1>2, <1>3, <1>4 DEF BatchHeld

\* The scanned packet goes into the buffer of the item it is merged with.
LEMMA ScanMergesHeld ==
  ASSUME BatchHeld, PoolInv', pc = "scan", scan > 0, NEW can,
         NEW f, f = current.flow, NEW item, item = tcp.items[f][scan],
         tcp' = UpdateAt(tcp, f, scan, TcpMergedItem(can, item, current)),
         bufs' = TcpBufs(can, item), pc' = "gro", scan' = 0, toWrite' = toWrite,
         ScanFrame
  PROVE  BatchHeld'
<1>1. /\ current \in Packet /\ f \in Flow /\ scan \in 1..Len(tcp.items[f])
      /\ cur \in 1..MaxBatch /\ settled = cur - 1 /\ (cur - 1) + 1 = cur
      /\ item \in ItemOfTcp /\ \E i \in 1..Len(toWrite) : item.buf = toWrite[i]
  BY ScanFacts
<1>2. /\ bufs' \in Seq(BufferType) /\ Len(bufs') = cur
      /\ MergedInto(bufs, bufs', item.buf, cur - 1)
  BY TcpBufsFacts
<1>3. Held(bufs', toWrite', cur)
  <2>1. PICK i \in 1..Len(toWrite) : item.buf = toWrite[i]
    BY <1>1
  <2>2. /\ i \in 1..Len(toWrite) /\ MergedInto(bufs, bufs', toWrite[i], cur - 1)
        /\ Held(bufs, toWrite, cur - 1)
    BY <1>1, <1>2, <2>1 DEF BatchHeld
  <2>3. Held(bufs', toWrite, (cur - 1) + 1)
    BY <2>2, HeldMerges, Zenon
  <2>. QED  BY <1>1, <2>3
<1>4. /\ TableHeld(tcp', ItemOfTcp, toWrite)
      /\ \A g \in Flow : Len(tcp'.items[g]) = Len(tcp.items[g])
  <2>. DEFINE new == TcpMergedItem(can, item, current)
  <2>1. new \in ItemOfTcp /\ new.buf = tcp.items[f][scan].buf
    BY <1>1, MergedItemTyped
  <2>2. Balanced(tcp) /\ TableHeld(tcp, ItemOfTcp, toWrite)
    BY DEF BatchHeld, PoolInv, Shapes
  <2>3. tcp' = UpdateAt(tcp, f, scan, new)
    OBVIOUS
  <2>. HIDE DEF new
  <2>4. /\ TableHeld(UpdateAt(tcp, f, scan, new), ItemOfTcp, toWrite)
        /\ \A g \in Flow : Len(UpdateAt(tcp, f, scan, new).items[g])
                             = Len(tcp.items[g])
    BY <1>1, <2>1, <2>2, TableUpdate
  <2>. QED  BY <2>3, <2>4
<1>5. TableHeld(tcp, ItemOfTcp, toWrite)' /\ TableHeld(udp, ItemOfUdp, toWrite)'
  BY <1>4 DEF ScanFrame, BatchHeld, Shapes
<1>6. \A g \in Flow : Len(tcp'.items[g]) <= cur
  BY <1>1, <1>4, ItemsFacts
<1>7. scan' \in 0..MaxBatch
  BY BatchAssumption
<1>. QED  BY <1>2, <1>3, <1>5, <1>6, <1>7, SettledStep

\* Packet cur is queued on its own, in a buffer that only lost its header.
LEMMA SettledQueued ==
  ASSUME BatchHeld, PoolInv', pc = "scan", pc' = "gro", ScanFrame,
         toWrite' = Append(toWrite, cur), bufs' \in Seq(BufferType), Len(bufs') = cur,
         \A n \in 1..cur : bufs'[n].parts = bufs[n].parts,
         scan' \in 0..MaxBatch, TableHeld(tcp, ItemOfTcp, toWrite)',
         \A g \in Flow : Len(tcp'.items[g]) <= cur
  PROVE  BatchHeld'
<1>1. /\ cur \in Nat /\ cur # 0 /\ settled = cur - 1 /\ (cur - 1) + 1 = cur
      /\ toWrite \in Seq(1..settled)
  BY BatchFacts DEF settled
<1>2. Held(bufs', toWrite', cur)
  <2>1. bufs[cur].parts = <<cur>> /\ Held(bufs, toWrite, cur - 1)
    BY <1>1 DEF BatchHeld, ScanInv
  <2>2. /\ \A n \in 1..(cur - 1) : bufs'[n].parts = bufs[n].parts
        /\ bufs'[(cur - 1) + 1].parts = <<(cur - 1) + 1>>
    BY <1>1, <2>1
  <2>3. Held(bufs', Append(toWrite, (cur - 1) + 1), (cur - 1) + 1)
    BY <2>1, <2>2, HeldQueues, Zenon
  <2>. QED  BY <1>1, <2>3
<1>3. TableHeld(udp, ItemOfUdp, toWrite)'
  BY TablesKept DEF ScanFrame
<1>4. Len(toWrite') = Len(toWrite) + 1
  BY <1>1
<1>. QED  BY <1>2, <1>3, <1>4, SettledStep

\* A packet with a bad checksum: its buffer gets a plain header.
LEMMA ScanRefusesHeld ==
  ASSUME BatchHeld, PoolInv', pc = "scan", scan > 0, pc' = "gro", scan' = 0,
         bufs' = [bufs EXCEPT ![cur].hdr = Plain], toWrite' = Append(toWrite, cur),
         tcp' = tcp, ScanFrame
  PROVE  BatchHeld'
<1>1. cur \in 1..MaxBatch /\ bufs[cur] \in BufferType /\ settled = cur - 1
  BY ScanFacts
<1>2. bufs \in Seq(BufferType) /\ Len(bufs) = cur /\ cur \in 1..Len(bufs)
  BY <1>1, BatchFacts
<1>. DEFINE b == [bufs[cur] EXCEPT !.hdr = Plain]
<1>3. b \in BufferType /\ b.parts = bufs[cur].parts
  <2>1. Plain \in Int
    BY DEF Plain
  <2>. QED  BY <1>1, <2>1 DEF BufferType
<1>4. bufs' = [bufs EXCEPT ![cur] = b]
  OBVIOUS
<1>. HIDE DEF b
<1>5. /\ bufs' \in Seq(BufferType) /\ Len(bufs') = cur
      /\ \A n \in 1..cur : bufs'[n].parts = bufs[n].parts
  <2>1. /\ [bufs EXCEPT ![cur] = b] \in Seq(BufferType)
        /\ Len([bufs EXCEPT ![cur] = b]) = cur
        /\ [bufs EXCEPT ![cur] = b][cur] = b
        /\ \A n \in 1..cur : n # cur => [bufs EXCEPT ![cur] = b][n] = bufs[n]
    BY <1>2, <1>3, ReplaceFacts
  <2>. QED  BY <1>3, <1>4, <2>1
<1>6. TableHeld(tcp, ItemOfTcp, toWrite)'
  BY TablesKept
<1>7. \A g \in Flow : Len(tcp'.items[g]) <= cur
  BY <1>1, ItemsFacts
<1>8. scan' \in 0..MaxBatch
  BY BatchAssumption
<1>. QED  BY <1>5, <1>6, <1>7, <1>8, SettledQueued

\* A packet that no item takes gets a buffer to write of its own.
LEMMA ScanEndsHeld == ASSUME BatchHeld, ScanEnds, PoolInv' PROVE BatchHeld'
<1>. DEFINE f == current.flow
            item == TcpItem(current, cur)
<1>1. /\ pc = "scan" /\ pc' = "gro" /\ ScanFrame /\ UNCHANGED <<bufs, scan>>
      /\ tcp' = Insert(tcp, f, item) /\ toWrite' = Append(toWrite, cur)
  BY DEF ScanEnds, Queue
<1>2. /\ cur \in Nat /\ cur # 0 /\ settled = cur - 1 /\ toWrite \in Seq(1..settled)
      /\ bufs \in Seq(BufferType) /\ Len(bufs) = cur
  BY <1>1, BatchFacts DEF settled
<1>3. current \in Packet /\ f \in Flow
  BY <1>2, BatchFacts, FlowAssumption DEF current, cur
<1>4. item \in ItemOfTcp /\ item.buf = cur
  BY <1>2, <1>3, ItemTyped
<1>. HIDE DEF item
<1>5. /\ TableHeld(Insert(tcp, f, item), ItemOfTcp, Append(toWrite, cur))
      /\ Len(Insert(tcp, f, item).items[f]) = Len(tcp.items[f]) + 1
      /\ \A g \in Flow \ {f} : Insert(tcp, f, item).items[g] = tcp.items[g]
  <2>1. TableHeld(tcp, ItemOfTcp, toWrite) /\ toWrite \in Seq(1..settled) /\ f \in Flow
    BY <1>2, <1>3 DEF BatchHeld, Shapes
  <2>. HIDE DEF f
  <2>. QED  BY <1>4, <2>1, TableInsertQueued
<1>6. TableHeld(tcp, ItemOfTcp, toWrite)'
  BY <1>1, <1>5
<1>7. \A g \in Flow : Len(tcp'.items[g]) <= cur
  <2>1. ASSUME NEW g \in Flow PROVE Len(tcp'.items[g]) <= cur
    <3>1. Len(tcp.items[g]) \in Nat /\ Len(tcp.items[g]) <= cur - 1
      BY <1>2, ItemsFacts
    <3>2. Len(tcp'.items[g]) \in {Len(tcp.items[g]), Len(tcp.items[g]) + 1}
      BY <1>1, <1>5
    <3>. QED  BY <1>2, <3>1, <3>2
  <2>. QED  BY <2>1
<1>8. scan' \in 0..MaxBatch
  BY <1>1 DEF BatchHeld, ScanInv
<1>. QED  BY <1>1, <1>2, <1>6, <1>7, <1>8, SettledQueued

\* tcpGRO goes on to the item before, and may drop the one it looked at.
LEMMA ScanGoesOnHeld ==
  ASSUME BatchHeld, PoolInv', pc = "scan", scan > 0, pc' = "scan", scan' = scan - 1,
         bufs' = bufs, toWrite' = toWrite, ScanFrame,
         NEW f, f = current.flow,
         tcp' = tcp \/ tcp' = DeleteAt(tcp, f, scan)
  PROVE  BatchHeld'
<1>1. /\ f \in Flow /\ scan \in 1..Len(tcp.items[f]) /\ cur \in 1..MaxBatch
      /\ settled = cur - 1 /\ bufs[cur].parts = <<cur>>
  BY ScanFacts
<1>2. /\ cur' = cur /\ current' = current /\ settled' = settled
      /\ UNCHANGED <<vnetHdr, udp, sent, written, result, writes>>
  BY DEF ScanFrame, cur, current, settled
<1>3. TableHeld(tcp, ItemOfTcp, toWrite) /\ Balanced(tcp)
  BY DEF BatchHeld, Shapes, PoolInv
<1>4. /\ TableHeld(tcp', ItemOfTcp, toWrite)
      /\ Len(tcp'.items[f]) \in {Len(tcp.items[f]), Len(tcp.items[f]) - 1}
      /\ \A g \in Flow \ {f} : tcp'.items[g] = tcp.items[g]
  <2>1. CASE tcp' = tcp
    BY <1>3, <2>1
  <2>2. CASE tcp' = DeleteAt(tcp, f, scan)
    <3>1. /\ TableHeld(DeleteAt(tcp, f, scan), ItemOfTcp, toWrite)
          /\ Len(DeleteAt(tcp, f, scan).items[f]) = Len(tcp.items[f]) - 1
          /\ \A g \in Flow \ {f} : DeleteAt(tcp, f, scan).items[g] = tcp.items[g]
      <4>1. /\ Balanced(tcp) /\ TableHeld(tcp, ItemOfTcp, toWrite)
            /\ f \in Flow /\ scan \in 1..Len(tcp.items[f])
        BY <1>1, <1>3
      <4>. QED  BY <4>1, TableDelete
    <3>. QED  BY <2>2, <3>1
  <2>. QED  BY <2>1, <2>2
<1>5. Shapes'
  <2>1. /\ vnetHdr \in BOOLEAN /\ bufs \in Seq(BufferType) /\ Len(bufs) = cur
        /\ TableHeld(udp, ItemOfUdp, toWrite)
    BY DEF BatchHeld, Shapes
  <2>2. /\ vnetHdr' \in BOOLEAN /\ pc' \in {"idle", "gro", "scan", "write", "reset"}
        /\ bufs' \in Seq(BufferType) /\ Len(bufs') = cur'
    BY <1>2, <2>1
  <2>3. TableHeld(tcp', ItemOfTcp, toWrite') /\ TableHeld(udp', ItemOfUdp, toWrite')
    BY <1>2, <1>4, <2>1, Zenon
  <2>. QED  BY <2>2, <2>3, Zenon DEF Shapes
<1>6. ScanInv'
  <2>1. Len(tcp.items[f]) \in Nat /\ scan \in 0..MaxBatch /\ MaxBatch \in Nat
    BY <1>1, ItemsFacts, BatchAssumption DEF BatchHeld, ScanInv
  <2>2. scan' \in 0..MaxBatch /\ scan' <= Len(tcp'.items[f])
    <3>1. scan \in 1..Len(tcp.items[f])
      BY <1>1, Zenon
    <3>2. Len(tcp'.items[f]) \in {Len(tcp.items[f]), Len(tcp.items[f]) - 1}
      BY <1>4, Zenon
    <3>. QED  BY <2>1, <3>1, <3>2
  <2>3. \A g \in Flow : Len(tcp'.items[g]) <= settled'
    <3>1. ASSUME NEW g \in Flow PROVE Len(tcp'.items[g]) <= settled'
      <4>1. /\ Len(tcp.items[g]) \in Nat /\ Len(tcp.items[g]) <= settled
            /\ settled \in Nat
        BY ItemsFacts, BatchFacts
      <4>2. Len(tcp'.items[g]) \in {Len(tcp.items[g]), Len(tcp.items[g]) - 1}
        BY <1>4
      <4>. QED  BY <1>2, <4>1, <4>2
    <3>. QED  BY <3>1
  <2>4. \A g \in udp'.live : udp'.items[g] # <<>>
    BY <1>2 DEF BatchHeld, ScanInv
  <2>. QED  BY <1>1, <1>2, <2>2, <2>3, <2>4 DEF ScanInv
<1>7. CountsInv' /\ Held(bufs', toWrite', settled')
  BY <1>2 DEF BatchHeld, CountsInv
<1>. QED  BY <1>5, <1>6, <1>7 DEF BatchHeld

\* One turn of the loop of tcpGRO.
LEMMA ScanHeld == ASSUME BatchHeld, Scan, PoolInv' PROVE BatchHeld'
<1>. DEFINE f == current.flow
            item == tcp.items[f][scan]
            can == TcpCanCoalesce(current, item, bufs[item.buf])
<1>1. pc = "scan" /\ scan > 0 /\ ScanFrame
  BY DEF Scan
<1>2. \/ /\ tcp' = UpdateAt(tcp, f, scan, TcpMergedItem(can, item, current))
         /\ bufs' = TcpBufs(can, item) /\ pc' = "gro" /\ scan' = 0 /\ toWrite' = toWrite
      \/ /\ tcp' \in {tcp, DeleteAt(tcp, f, scan)} /\ scan' = scan - 1
         /\ pc' = pc /\ bufs' = bufs /\ toWrite' = toWrite
      \/ /\ bufs' = [bufs EXCEPT ![cur].hdr = Plain] /\ toWrite' = Append(toWrite, cur)
         /\ pc' = "gro" /\ scan' = 0 /\ tcp' = tcp
  BY DEF Scan, Queue
<1>. HIDE DEF can, item, f
<1>3. CASE /\ tcp' = UpdateAt(tcp, f, scan, TcpMergedItem(can, item, current))
           /\ bufs' = TcpBufs(can, item) /\ pc' = "gro" /\ scan' = 0
           /\ toWrite' = toWrite
  <2>1. f = current.flow /\ item = tcp.items[f][scan]
    BY DEF f, item
  <2>. QED  BY <1>1, <1>3, <2>1, ScanMergesHeld
<1>4. CASE /\ tcp' \in {tcp, DeleteAt(tcp, f, scan)} /\ scan' = scan - 1
           /\ pc' = pc /\ bufs' = bufs /\ toWrite' = toWrite
  <2>1. f = current.flow /\ (tcp' = tcp \/ tcp' = DeleteAt(tcp, f, scan))
    BY <1>4 DEF f
  <2>. QED  BY <1>1, <1>4, <2>1, ScanGoesOnHeld
<1>5. CASE /\ bufs' = [bufs EXCEPT ![cur].hdr = Plain]
           /\ toWrite' = Append(toWrite, cur)
           /\ pc' = "gro" /\ scan' = 0 /\ tcp' = tcp
  BY <1>1, <1>5, ScanRefusesHeld
<1>. QED  BY <1>2, <1>3, <1>4, <1>5

\* The header of an item is a number.
LEMMA HdrTyped ==
  ASSUME BatchHeld, NEW item \in Items(tcp) \cup Items(udp)
  PROVE  ItemHdr(item) \in Int
<1>1. \E f \in Flow : item \in ToSet(tcp.items[f]) \/ item \in ToSet(udp.items[f])
  BY DEF Items, BatchHeld, PoolInv, Balanced
<1>2. PICK f \in Flow : item \in ToSet(tcp.items[f]) \/ item \in ToSet(udp.items[f])
  BY <1>1
<1>3. item \in ItemOfTcp \cup ItemOfUdp
  <2>1. tcp.items[f] \in Seq(ItemOfTcp) /\ udp.items[f] \in Seq(ItemOfUdp)
    BY <1>2, ItemsFacts
  <2>. QED  BY <1>2, <2>1 DEF ToSet
<1>4. item.gsoSize \in Int
  BY <1>3 DEF ItemOfTcp, ItemOfUdp
<1>. QED  BY <1>4 DEF ItemHdr, Plain

\* The headers change, the contents of the buffers do not.
LEMMA AccountHeld == ASSUME BatchHeld, Account, PoolInv' PROVE BatchHeld'
<1>1. /\ pc = "gro" /\ pc' = "write"
      /\ UNCHANGED <<vnetHdr, size, batch, tcp, udp, scan, toWrite, sent, written,
                     result, writes>>
  BY DEF Account
<1>2. cur' = cur /\ settled = cur /\ settled' = cur
  BY <1>1 DEF cur, settled
<1>3. /\ bufs' \in Seq(BufferType) /\ Len(bufs') = cur
      /\ \A n \in 1..cur : bufs'[n].parts = bufs[n].parts
  <2>1. cur \in Nat /\ bufs \in Seq(BufferType) /\ Len(bufs) = cur
    BY BatchFacts
  <2>2. \A n \in 1..cur : bufs[n] \in BufferType
    BY <2>1, SeqFacts
  <2>3. CASE ~vnetHdr
    BY <2>1, <2>3 DEF Account
  <2>4. CASE vnetHdr
    <3>. DEFINE its == Items(tcp) \cup Items(udp)
                Hdr(n) == IF \E item \in its : item.buf = n
                          THEN ItemHdr(CHOOSE item \in its : item.buf = n)
                          ELSE bufs[n].hdr
    <3>1. bufs' = [n \in DOMAIN bufs |-> [bufs[n] EXCEPT !.hdr = Hdr(n)]]
      BY <2>4 DEF Account
    <3>2. \A n \in 1..cur : Hdr(n) \in Int
      <4>1. ASSUME NEW n \in 1..cur PROVE Hdr(n) \in Int
        <5>1. CASE \E item \in its : item.buf = n
          <6>1. (CHOOSE item \in its : item.buf = n) \in its
            BY <5>1
          <6>2. ItemHdr(CHOOSE item \in its : item.buf = n) \in Int
            BY <6>1, HdrTyped
          <6>. QED  BY <5>1, <6>2
        <5>2. CASE ~\E item \in its : item.buf = n
          <6>1. bufs[n].hdr \in Int
            BY <2>2, <4>1 DEF BufferType
          <6>. QED  BY <5>2, <6>1
        <5>. QED  BY <5>1, <5>2
      <4>. QED  BY <4>1
    <3>. HIDE DEF Hdr
    <3>3. \A n \in 1..cur : /\ [bufs[n] EXCEPT !.hdr = Hdr(n)] \in BufferType
                            /\ [bufs[n] EXCEPT !.hdr = Hdr(n)].parts = bufs[n].parts
      BY <2>2, <3>2 DEF BufferType
    <3>. DEFINE new(n) == [bufs[n] EXCEPT !.hdr = Hdr(n)]
    <3>4. \A n \in 1..cur : new(n) \in BufferType /\ new(n).parts = bufs[n].parts
      BY <3>3
    <3>5. bufs' = [n \in DOMAIN bufs |-> new(n)]
      BY <3>1
    <3>. HIDE DEF new
    <3>6. bufs' = [n \in 1..cur |-> new(n)]
      <4>1. DOMAIN bufs = 1..cur
        BY <2>1
      <4>. QED  BY <3>5, <4>1
    <3>7. bufs' \in Seq(BufferType) /\ Len(bufs') = cur
      BY <2>1, <3>4, <3>6
    <3>. QED  BY <3>4, <3>6, <3>7
  <2>. QED  BY <2>3, <2>4
<1>4. Held(bufs', toWrite', settled')
  <2>1. Held(bufs, toWrite, cur)
    BY <1>2 DEF BatchHeld
  <2>2. Held(bufs', toWrite, cur)
    BY <1>3, <2>1, HeldKeeps
  <2>. QED  BY <1>1, <1>2, <2>2
<1>5. Shapes'
  <2>1. /\ vnetHdr \in BOOLEAN /\ TableHeld(tcp, ItemOfTcp, toWrite)
        /\ TableHeld(udp, ItemOfUdp, toWrite)
    BY DEF BatchHeld, Shapes
  <2>. QED  BY <1>1, <1>2, <1>3, <2>1 DEF Shapes
<1>6. ScanInv' /\ CountsInv'
  BY <1>1, <1>2 DEF BatchHeld, ScanInv, CountsInv
<1>. QED  BY <1>4, <1>5, <1>6 DEF BatchHeld

\* Steps that leave the packets and the tables alone.
LEMMA WritesHeld ==
  ASSUME BatchHeld, PoolInv', BadOffset \/ WriteOne \/ WriteGone \/ WriteDone
  PROVE  BatchHeld'
<1>1. /\ pc \in {"gro", "write"} /\ pc' \in {"write", "reset"}
      /\ UNCHANGED <<vnetHdr, batch, bufs, tcp, udp, scan, toWrite, writes>>
  BY DEF BadOffset, WriteOne, WriteGone, WriteDone, WriteFrame
<1>2. cur' = cur /\ settled = cur /\ settled' = cur
  BY <1>1 DEF cur, settled
<1>3. Shapes' /\ ScanInv' /\ Held(bufs', toWrite', settled')
  <2>1. Shapes'
    BY <1>1, <1>2 DEF BatchHeld, Shapes
  <2>2. ScanInv'
    BY <1>1, <1>2 DEF BatchHeld, ScanInv
  <2>3. Held(bufs', toWrite', settled')
    BY <1>1, <1>2 DEF BatchHeld
  <2>. QED  BY <2>1, <2>2, <2>3
<1>4. CountsInv'
  <2>1. /\ sent \in 0..Len(toWrite) /\ written \in 0..sent /\ Len(toWrite) \in Nat
        /\ result \in {"none", "nil", "errors", "ErrClosed", "invalidOffset"}
        /\ writes \in 0..MaxWrites
    BY BatchFacts DEF BatchHeld, CountsInv
  <2>2. sent' \in 0..Len(toWrite) /\ written' \in 0..sent'
    BY <2>1 DEF BadOffset, WriteOne, WriteGone, WriteDone
  <2>3. result' \in {"none", "nil", "errors", "ErrClosed", "invalidOffset"}
    BY <2>1 DEF BadOffset, WriteOne, WriteGone, WriteDone
  <2>. QED  BY <1>1, <2>1, <2>2, <2>3 DEF CountsInv
<1>. QED  BY <1>3, <1>4 DEF BatchHeld

\* After a batch nothing is in the tables.
LEMMA ResetHeld == ASSUME BatchHeld, ResetTables, PoolInv' PROVE BatchHeld'
<1>1. /\ pc = "reset" /\ pc' = "idle" /\ scan' = 0
      /\ tcp' = Reset(tcp) /\ udp' = Reset(udp)
      /\ UNCHANGED <<vnetHdr, batch, bufs, toWrite, sent, written, result, writes>>
  BY DEF ResetTables
<1>2. cur' = cur /\ settled = cur /\ settled' = cur /\ cur \in Nat
  BY <1>1, BatchFacts DEF cur, settled
<1>3. /\ TableHeld(Reset(tcp), ItemOfTcp, toWrite)
      /\ TableHeld(Reset(udp), ItemOfUdp, toWrite)
      /\ \A f \in Flow : Reset(tcp).items[f] = <<>> /\ Reset(udp).items[f] = <<>>
  <2>1. TableHeld(tcp, ItemOfTcp, toWrite) /\ TableHeld(udp, ItemOfUdp, toWrite)
    BY DEF BatchHeld, Shapes
  <2>. QED  BY <2>1, TableReset
<1>4. Shapes'
  <2>1. vnetHdr \in BOOLEAN /\ bufs \in Seq(BufferType) /\ Len(bufs) = cur
    BY DEF BatchHeld, Shapes
  <2>. QED  BY <1>1, <1>2, <1>3, <2>1 DEF Shapes
<1>5. ScanInv'
  <2>1. scan' \in 0..MaxBatch /\ Len(<<>>) = 0
    BY <1>1, BatchAssumption
  <2>2. udp'.live = {}
    BY <1>1 DEF Reset
  <2>. QED  BY <1>1, <1>2, <1>3, <2>1, <2>2 DEF ScanInv
<1>6. CountsInv' /\ Held(bufs', toWrite', settled')
  BY <1>1, <1>2 DEF BatchHeld, CountsInv
<1>. QED  BY <1>4, <1>5, <1>6 DEF BatchHeld

\* Before the first batch there is nothing to hold.
LEMMA BatchInit == ASSUME Init PROVE BatchHeld
<1>1. PoolInv /\ cur = 0 /\ settled = 0 /\ Len(<<>>) = 0
  BY PoolInit DEF Init, cur, settled
<1>2. /\ tcp.items = [f \in Flow |-> <<>>] /\ udp.items = [f \in Flow |-> <<>>]
      /\ tcp.live = {} /\ udp.live = {}
  BY DEF Init, NewTable
<1>3. Held(bufs, toWrite, settled)
  <2>1. <<>> \in Seq(1..0) /\ 1..0 = {} /\ 0 \in Nat
    OBVIOUS
  <2>2. Held(<<>>, <<>>, 0)
    BY <1>1, <2>1, Zenon DEF Held, Queued, Covers
  <2>. QED  BY <1>1, <2>2 DEF Init
<1>4. TableHeld(tcp, ItemOfTcp, toWrite) /\ TableHeld(udp, ItemOfUdp, toWrite)
  <2>1. tcp.items \in [Flow -> Seq(ItemOfTcp)] /\ udp.items \in [Flow -> Seq(ItemOfUdp)]
    BY <1>2
  <2>2. \A f \in Flow : /\ \A k \in 1..Len(tcp.items[f]) : FALSE
                        /\ \A k \in 1..Len(udp.items[f]) : FALSE
    BY <1>2
  <2>. QED  BY <2>1, <2>2, Zenon DEF TableHeld
<1>5. Shapes
  <2>1. vnetHdr \in BOOLEAN /\ pc = "idle" /\ bufs \in Seq(BufferType) /\ Len(bufs) = 0
    BY DEF Init
  <2>. QED  BY <1>1, <1>4, <2>1 DEF Shapes
<1>6. ScanInv
  <2>1. pc = "idle" /\ scan \in 0..MaxBatch
    BY BatchAssumption DEF Init
  <2>. QED  BY <1>1, <1>2, <2>1 DEF ScanInv
<1>7. CountsInv
  BY BatchAssumption DEF Init, CountsInv
<1>. QED  BY <1>1, <1>3, <1>5, <1>6, <1>7 DEF BatchHeld

\* No step of Write or handleGRO loses or duplicates a packet.
LEMMA BatchNext == ASSUME BatchHeld, [Next]_vars PROVE BatchHeld'
<1>1. PoolInv'
  BY PoolNext DEF BatchHeld
<1>2. CASE Start
  BY <1>1, <1>2, StartHeld
<1>3. CASE Take
  BY <1>1, <1>3, TakeRawHeld, TakeTcpHeld, TakeUdpHeld DEF Take
<1>4. CASE Scan
  BY <1>1, <1>4, ScanHeld
<1>5. CASE ScanEnds
  BY <1>1, <1>5, ScanEndsHeld
<1>6. CASE Account
  BY <1>1, <1>6, AccountHeld
<1>7. CASE BadOffset \/ WriteOne \/ WriteGone \/ WriteDone
  BY <1>1, <1>7, WritesHeld
<1>8. CASE ResetTables
  BY <1>1, <1>8, ResetHeld
<1>9. CASE UNCHANGED vars
  <2>1. cur' = cur /\ current' = current /\ settled' = settled
    BY <1>9 DEF vars, cur, current, settled
  <2>2. Shapes' /\ CountsInv' /\ Held(bufs', toWrite', settled')
    BY <1>9, <2>1 DEF vars, BatchHeld, Shapes, CountsInv
  <2>3. ScanInv'
    BY <1>9, <2>1 DEF vars, BatchHeld, ScanInv
  <2>. QED  BY <1>1, <2>2, <2>3 DEF BatchHeld
<1>. QED  BY <1>2, <1>3, <1>4, <1>5, <1>6, <1>7, <1>8, <1>9 DEF Next

\* Whatever the packets are, between any two steps of a batch every packet that
\* handleGRO has taken up is in one place of one buffer, and the items of the
\* flow tables stand for buffers of this batch that are to be written.
THEOREM BatchInvariant == Spec => []BatchHeld
BY BatchInit, BatchNext, PTL DEF Spec

\* The indices of a batch are those of its packets and buffers.
LEMMA HeldTyped == ASSUME BatchHeld PROVE TypeOK
<1>1. /\ cur \in Nat /\ settled \in 0..cur /\ size \in 0..MaxBatch /\ cur <= size
      /\ batch \in Seq(Packet) /\ toWrite \in Seq(1..settled)
  BY BatchFacts DEF settled
<1>2. toWrite \in Seq(1..cur)
  <2>1. 1..settled \subseteq 1..cur
    BY <1>1
  <2>. QED  BY <1>1, <2>1
<1>3. \A item \in TcpItems \cup UdpItems : item.buf \in 1..cur
  <2>1. ASSUME NEW item \in TcpItems \cup UdpItems PROVE item.buf \in 1..cur
    <3>0. tcp.live \subseteq Flow /\ udp.live \subseteq Flow
      BY DEF BatchHeld, PoolInv, Balanced
    <3>1. PICK f \in Flow : item \in ToSet(tcp.items[f]) \/ item \in ToSet(udp.items[f])
      BY <3>0 DEF TcpItems, UdpItems, Items
    <3>2. tcp.items[f] \in Seq(ItemOfTcp) /\ udp.items[f] \in Seq(ItemOfUdp)
      BY <3>1, ItemsFacts, Zenon
    <3>3. ASSUME NEW t, NEW Item, TableHeld(t, Item, toWrite), t.items[f] \in Seq(Item),
                 item \in ToSet(t.items[f])
          PROVE  \E i \in 1..Len(toWrite) : item.buf = toWrite[i]
      <4>1. PICK k \in 1..Len(t.items[f]) : item = t.items[f][k]
        BY <3>3 DEF ToSet
      <4>. QED  BY <3>3, <4>1, Zenon DEF TableHeld
    <3>4. PICK i \in 1..Len(toWrite) : item.buf = toWrite[i]
      <4>1. TableHeld(tcp, ItemOfTcp, toWrite) /\ TableHeld(udp, ItemOfUdp, toWrite)
        BY DEF BatchHeld, Shapes
      <4>. QED  BY <3>1, <3>2, <3>3, <4>1, Zenon
    <3>5. toWrite[i] \in 1..cur
      BY <1>2, SeqFacts
    <3>. QED  BY <3>4, <3>5, Zenon
  <2>. QED  BY <2>1
<1>4. /\ vnetHdr \in BOOLEAN /\ pc \in {"idle", "gro", "scan", "write", "reset"}
      /\ Len(bufs) = cur
  BY DEF BatchHeld, Shapes
<1>5. scan \in 0..MaxBatch
  BY DEF BatchHeld, ScanInv
<1>. QED  BY <1>1, <1>2, <1>3, <1>4, <1>5 DEF TypeOK, cur, BatchHeld, CountsInv

\* Outside the scan, exactly one place of one buffer holds a packet.
LEMMA HeldOnce ==
  ASSUME BatchHeld, pc \in {"gro", "write"}, NEW n \in 1..Len(batch)
  PROVE  Cardinality(Holders(n)) = 1
<1>. DEFINE ps == Contents(bufs, toWrite)
            w == Len(toWrite)
<1>1. settled = cur
  BY DEF settled
<1>2. /\ cur \in Nat /\ batch \in Seq(Packet) /\ DOMAIN batch = 1..cur
      /\ toWrite \in Seq(1..cur) /\ DOMAIN toWrite = 1..w
  BY <1>1, BatchFacts DEF cur
<1>3. Covers(ps, w, cur)
  BY <1>1 DEF BatchHeld, Held
<1>4. \A i \in 1..w : bufs[toWrite[i]].parts = ps[i]
  BY DEF Contents
<1>. HIDE DEF ps, w
<1>5. \A i \in 1..w : /\ DOMAIN ps[i] = 1..Len(ps[i])
                      /\ \A k \in 1..Len(ps[i]) : k \in 1..cur
  <2>1. ASSUME NEW i \in 1..w
        PROVE  ps[i] \in Seq(1..cur) /\ Len(ps[i]) <= cur /\ Len(ps[i]) \in Nat
    BY <1>3, CoversTypes
  <2>. QED  BY <1>2, <2>1
<1>6. n \in 1..cur
  BY DEF cur
<1>7. PICK i \in 1..w : \E k \in 1..Len(ps[i]) : ps[i][k] = n
  BY <1>3, <1>6, Zenon DEF Covers
<1>8. PICK k \in 1..Len(ps[i]) : ps[i][k] = n
  BY <1>7
<1>9. \A j \in 1..w : \A l \in 1..Len(ps[j]) : ps[j][l] = n => j = i /\ l = k
  <2>1. \A g, h \in 1..w : \A a \in 1..Len(ps[g]), b \in 1..Len(ps[h]) :
          ps[g][a] = ps[h][b] => g = h /\ a = b
    BY <1>3, Zenon DEF Covers
  <2>2. ASSUME NEW j \in 1..w, NEW l \in 1..Len(ps[j]), ps[j][l] = n
        PROVE  j = i /\ l = k
    <3>1. ps[j][l] = ps[i][k]
      BY <1>8, <2>2
    <3>. QED  BY <2>1, <3>1
  <2>. QED  BY <2>2
<1>10. Holders(n) = {at \in (1..w) \X (1..cur) :
                       at[2] \in DOMAIN ps[at[1]] /\ ps[at[1]][at[2]] = n}
  BY <1>2, <1>4 DEF Holders
<1>11. Holders(n) = {<<i, k>>}
  BY <1>5, <1>7, <1>8, <1>9, <1>10
<1>. QED  BY <1>11, FS_Singleton

\* Write and handleGRO index bufs, toWrite and the items only inside the batch,
\* whatever the packets are, and the counts stay in their ranges.
THEOREM TypeCorrect == Spec => []TypeOK
BY BatchInvariant, HeldTyped, PTL

\* handleGRO neither loses nor duplicates a packet, whatever it merges, prepends,
\* refuses or drops from a flow: each is in one place of one buffer to write.
THEOREM OnceEach == Spec => []EveryPacketOnce
<1>1. BatchHeld => EveryPacketOnce
  BY HeldOnce DEF EveryPacketOnce
<1>. QED  BY <1>1, BatchInvariant, PTL
-----------------------------------------------------------------------------
(***************************************************************************)
(* Trains and streams: what a buffer holds that packets were merged into.  *)
(***************************************************************************)

\* The payloads of a buffer of a batch, in order.
Payload(bt, b) == [k \in 1..Len(b.parts) |-> bt[b.parts[k]]]

\* The packets P, one behind the other in buffer b, are what segmenting the
\* payload at the size of the item gives.
Train(P, item, b) ==
  LET n == Len(P) IN
  /\ n = item.merged + 1
  /\ \A k \in 1..n : P[k].opts = b.opts
  /\ \A k \in 1..(n - 1) : P[k].len = item.gsoSize
  /\ P[n].len \in 1..item.gsoSize
  /\ b.len = (n - 1) * item.gsoSize + P[n].len
  /\ n > 1 => b.len <= b.cap /\ \A k \in 1..n : P[k].csum
  /\ n = 1 /\ b.csum => P[1].csum

\* ... and they belong to a TCP connection, where PSH ends a merge ...
Segments(P, item, b) ==
  LET n == Len(P) IN
  /\ P[1].seq = item.seq
  /\ \A k \in 1..(n - 1) : ~P[k].psh
  /\ (P[n].psh => item.psh) /\ (b.psh => P[n].psh)
  /\ \A k \in 1..n : P[k].proto = "tcp"

\* ... and are consecutive in its byte stream.
Stream(P, item, b) ==
  LET n == Len(P) IN
  /\ P[1].seq = item.seq
  /\ \A k \in 1..(n - 1) : P[k + 1].seq = (P[k].seq + P[k].len) % SeqSpace
  /\ (P[n].seq + P[n].len) % SeqSpace = (item.seq + b.len) % SeqSpace

\* ... a segment apart, as a split takes them to be.
Spaced(P, item) ==
  \A k \in 1..Len(P) : P[k].seq = (item.seq + (k - 1) * item.gsoSize) % SeqSpace

\* Arithmetic with a modulus.
LEMMA ModUnique ==
  ASSUME NEW m \in Nat \ {0}, NEW q \in Int, NEW r \in 0..(m - 1)
  PROVE  (q * m + r) % m = r
OBVIOUS

LEMMA DivUnique ==
  ASSUME NEW m \in Nat \ {0}, NEW q \in Int, NEW r \in 0..(m - 1)
  PROVE  (q * m + r) \div m = q
OBVIOUS

\* Products of natural numbers are natural numbers.
LEMMA TimesNat == ASSUME NEW a \in Nat, NEW b \in Nat PROVE a * b \in Nat
OBVIOUS

\* A remainder and its quotient.
LEMMA ModParts ==
  ASSUME NEW m \in Nat \ {0}, NEW x \in Nat
  PROVE  x % m \in 0..(m - 1) /\ \E q \in Nat : x = q * m + (x % m)
<1>1. x = (x \div m) * m + (x % m) /\ x % m \in 0..(m - 1)
  OBVIOUS
<1>2. x \div m \in Nat
  OBVIOUS
<1>. QED  BY <1>1, <1>2, Zenon

\* A remainder may be taken before an addition as well as after it.
LEMMA ModAdd ==
  ASSUME NEW m \in Nat \ {0}, NEW x \in Nat, NEW y \in Nat
  PROVE  ((x % m) + y) % m = (x + y) % m
<1>1. PICK q \in Nat : x = q * m + (x % m)
  BY ModParts
<1>2. x % m \in Nat /\ (x % m) + y \in Nat
  BY ModParts
<1>3. PICK h \in Nat : (x % m) + y = h * m + (((x % m) + y) % m)
  BY <1>2, ModParts
<1>4. ((x % m) + y) % m \in 0..(m - 1)
  BY <1>2, ModParts
<1>5. x + y = (q + h) * m + (((x % m) + y) % m)
  BY <1>1, <1>2, <1>3
<1>6. q + h \in Int
  OBVIOUS
<1>. QED  BY <1>4, <1>5, <1>6, ModUnique

\* A payload that is a multiple of the segment size has no short end.
LEMMA NoShortEnd ==
  ASSUME NEW g \in Nat, NEW n \in Nat, NEW l \in 1..g, (n * g + l) % g = 0
  PROVE  l = g
<1>1. CASE l < g
  <2>1. g \in Nat \ {0} /\ l \in 0..(g - 1) /\ n \in Int
    BY <1>1
  <2>2. (n * g + l) % g = l
    BY <2>1, ModUnique
  <2>. QED  BY <2>2
<1>. QED  BY <1>1

\* A packet that is not empty is a train of its own.
LEMMA TrainAlone ==
  ASSUME NEW p \in Packet, p.len # 0, NEW i \in Nat, NEW item, NEW b, NEW P,
         P = <<p>>, item.merged = 0, item.gsoSize = p.len,
         b.opts = p.opts, b.csum = p.csum, b.cap = p.cap, b.len = p.len
  PROVE  Train(P, item, b)
<1>1. p.len \in 1..p.len /\ p.len \in Nat
  BY PacketAssumption
<1>2. Len(P) = 1 /\ P[1] = p
  OBVIOUS
<1>3. b.len = (1 - 1) * item.gsoSize + P[1].len
  BY <1>1, <1>2
<1>4. b.csum => P[1].csum
  BY <1>2, Zenon
<1>5. /\ \A k \in 1..Len(P) : P[k].opts = b.opts
      /\ \A k \in 1..(Len(P) - 1) : P[k].len = item.gsoSize
      /\ ~(Len(P) > 1)
  BY <1>2
<1>. HIDE DEF Train
<1>6. /\ Len(P) = item.merged + 1 /\ P[Len(P)].len \in 1..item.gsoSize
      /\ b.len = (Len(P) - 1) * item.gsoSize + P[Len(P)].len
  <2>1. Len(P) = item.merged + 1 /\ P[Len(P)].len \in 1..item.gsoSize
    BY <1>1, <1>2
  <2>. QED  BY <1>2, <1>3, <2>1, Zenon
<1>. QED  BY <1>4, <1>5, <1>6, Zenon DEF Train

\* A packet behind the others; the payload so far has no short end.
LEMMA TrainAppend ==
  ASSUME NEW P \in Seq(Packet), NEW item, NEW b, Train(P, item, b),
         item.gsoSize \in Nat, item.merged \in Nat, b.len \in Nat, b.cap \in Nat,
         NEW p \in Packet, p.opts = b.opts, p.len # 0, p.len <= item.gsoSize, p.csum,
         ~ShortEnd(b, item), item.merged = 0 => b.csum, b.len + p.len <= b.cap,
         NEW j, j.merged = item.merged + 1, j.gsoSize = item.gsoSize,
         NEW c, c.opts = b.opts, c.cap = b.cap, c.len = b.len + p.len
  PROVE  Train(Append(P, p), j, c)
<1>. DEFINE n == Len(P)
            R == Append(P, p)
            g == item.gsoSize
<1>1. /\ n = item.merged + 1 /\ n \in Nat \ {0} /\ g \in Nat
      /\ \A k \in 1..n : P[k].opts = b.opts
      /\ \A k \in 1..(n - 1) : P[k].len = g
      /\ P[n].len \in 1..g
      /\ b.len = (n - 1) * g + P[n].len
      /\ n > 1 => \A k \in 1..n : P[k].csum
      /\ n = 1 /\ b.csum => P[1].csum
  BY DEF Train
<1>2. /\ Len(R) = n + 1 /\ R[n + 1] = p
      /\ \A k \in 1..n : R[k] = P[k]
  BY AppendFacts
<1>. HIDE DEF n, R, g
<1>3. P[n].len = g
  <2>1. n - 1 \in Nat /\ ((n - 1) * g + P[n].len) % g = 0
    BY <1>1 DEF ShortEnd, g
  <2>. QED  BY <1>1, <2>1, NoShortEnd
<1>4. \A k \in 1..(n + 1) : k \in 1..n \/ k = n + 1
  BY <1>1
<1>5. \A k \in 1..(n + 1) : R[k].opts = c.opts
  BY <1>1, <1>2, <1>4
<1>6. \A k \in 1..n : R[k].len = g
  <2>1. \A k \in 1..n : k \in 1..(n - 1) \/ k = n
    BY <1>1
  <2>. QED  BY <1>1, <1>2, <1>3, <2>1
<1>7. \A k \in 1..(n + 1) : R[k].csum
  <2>1. \A k \in 1..n : P[k].csum
    <3>1. CASE n > 1
      BY <1>1, <3>1
    <3>2. CASE n = 1
      <4>1. b.csum
        BY <1>1, <3>2
      <4>2. P[1].csum
        BY <1>1, <3>2, <4>1, Zenon
      <4>3. \A k \in 1..n : k = 1
        BY <3>2
      <4>. QED  BY <4>2, <4>3, Zenon
    <3>. QED  BY <1>1, <3>1, <3>2
  <2>2. \A k \in 1..n : R[k].csum
    BY <1>2, <2>1, Zenon
  <2>3. R[n + 1].csum
    BY <1>2, Zenon
  <2>. QED  BY <1>4, <2>2, <2>3, Zenon
<1>8. p.len \in 1..g /\ p.len \in Nat
  BY <1>1, PacketAssumption DEF g
<1>9. c.len = n * g + p.len
  BY <1>1, <1>3, <1>8
<1>10. c.len <= c.cap
  OBVIOUS
<1>11. j.merged + 1 = n + 1 /\ j.gsoSize = g /\ (n + 1) - 1 = n /\ n + 1 # 1
  BY <1>1 DEF g
<1>12. Train(R, j, c)
  BY <1>2, <1>5, <1>6, <1>7, <1>8, <1>9, <1>10, <1>11 DEF Train
<1>. QED  BY <1>12 DEF R

\* A packet in front of the others: it is as long as they are, or longer than
\* the only one.
LEMMA TrainPrepend ==
  ASSUME NEW P \in Seq(Packet), NEW item, NEW b, Train(P, item, b),
         item.gsoSize \in Nat, item.merged \in Nat, b.len \in Nat,
         NEW p \in Packet, p.opts = b.opts, p.len # 0, p.csum,
         p.len >= item.gsoSize, p.len > item.gsoSize => item.merged = 0,
         item.merged = 0 => b.csum, b.len + p.len <= p.cap,
         NEW j, j.merged = item.merged + 1, j.gsoSize = p.len,
         NEW c, c.opts = p.opts, c.cap = p.cap, c.len = p.len + b.len
  PROVE  Train(<<p>> \o P, j, c)
<1>. DEFINE n == Len(P)
            R == <<p>> \o P
            g == item.gsoSize
            h == p.len
<1>0. n = item.merged + 1 /\ n \in Nat \ {0} /\ g \in Nat
  BY DEF Train
<1>1. /\ \A k \in 1..n : P[k].opts = b.opts
      /\ \A k \in 1..(n - 1) : P[k].len = g
      /\ P[n].len \in 1..g
      /\ b.len = (n - 1) * g + P[n].len
  BY DEF Train
<1>2. \A k \in 1..n : P[k].csum
  <2>1. n > 1 => \A k \in 1..n : P[k].csum
    BY Zenon DEF Train
  <2>2. n = 1 => P[1].csum
    <3>1. n = 1 => b.csum
      BY <1>0
    <3>. QED  BY <3>1, Zenon DEF Train
  <2>3. \A k \in 1..n : n > 1 \/ (n = 1 /\ k = 1)
    BY <1>0
  <2>. QED  BY <2>1, <2>2, <2>3, Zenon
<1>3. /\ Len(R) = n + 1 /\ R[1] = p
      /\ \A k \in 1..n : R[k + 1] = P[k]
  BY ConcatFacts
<1>. HIDE DEF n, R, g
<1>4. h \in Nat /\ p.cap \in Nat
  BY PacketAssumption
<1>. HIDE DEF h
<1>5. \A k \in 1..(n + 1) : k = 1 \/ (k - 1 \in 1..n /\ (k - 1) + 1 = k)
  BY <1>0
<1>6. \A k \in 1..(n + 1) : R[k] = p \/ \E l \in 1..n : R[k] = P[l]
  BY <1>3, <1>5, Zenon
<1>7. \A k \in 1..(n + 1) : R[k].opts = c.opts
  BY <1>1, <1>6
<1>8. \A k \in 1..(n + 1) : R[k].csum
  BY <1>2, <1>6, Zenon
<1>9. n = 1 \/ h = g
  BY <1>0, <1>4 DEF g, h
<1>10. \A k \in 1..n : R[k].len = h
  <2>1. ASSUME NEW k \in 1..n PROVE R[k].len = h
    <3>1. CASE k = 1
      BY <1>3, <3>1, Zenon DEF h
    <3>2. CASE k # 1
      <4>1. n # 1 /\ k - 1 \in 1..(n - 1) /\ k - 1 \in 1..n /\ (k - 1) + 1 = k
        BY <1>0, <3>2
      <4>2. R[k] = P[k - 1]
        BY <1>3, <4>1
      <4>3. P[k - 1].len = g
        BY <1>1, <4>1
      <4>. QED  BY <1>9, <4>1, <4>2, <4>3, Zenon
    <3>. QED  BY <3>1, <3>2
  <2>. QED  BY <2>1
<1>11. R[n + 1] = P[n] /\ P[n].len \in 1..h
  <2>0. n \in 1..n
    BY <1>0
  <2>1. n \in 1..n /\ P[n].len \in 1..g
    BY <1>1, <2>0, Zenon
  <2>2. R[n + 1] = P[n]
    BY <1>3, <2>1, Zenon
  <2>3. g <= h
    BY DEF g, h
  <2>. QED  BY <1>0, <1>4, <2>1, <2>2, <2>3
<1>12. c.len = n * h + P[n].len
  <2>. DEFINE l == P[n].len
              y == (n - 1) * h
              z == n * h
  <2>1. b.len = y + l
    <3>1. CASE n = 1
      <4>1. (n - 1) * g = 0 /\ y = 0
        BY <1>0, <1>4, <3>1
      <4>. QED  BY <1>1, <4>1
    <3>2. CASE h = g
      BY <1>1, <3>2
    <3>. QED  BY <1>9, <3>1, <3>2
  <2>2. z = h + y /\ y \in Nat /\ l \in Nat
    <3>1. l \in 1..g
      BY <1>1, Zenon
    <3>2. \A a, k \in Nat : a * k \in Nat /\ (a + 1) * k = k + a * k
      OBVIOUS
    <3>3. n - 1 \in Nat /\ (n - 1) + 1 = n
      BY <1>0
    <3>4. y \in Nat /\ ((n - 1) + 1) * h = h + y
      BY <1>4, <3>2, <3>3, Zenon
    <3>5. z = h + y
      BY <3>3, <3>4, Zenon
    <3>. HIDE DEF l, y, z
    <3>. QED  BY <1>0, <3>1, <3>4, <3>5
  <2>3. c.len = h + b.len
    BY DEF h
  <2>. HIDE DEF l, y, z
  <2>4. c.len = z + l
    BY <1>4, <2>1, <2>2, <2>3
  <2>. QED  BY <2>4 DEF z, l
<1>13. c.len <= c.cap
  BY <1>4 DEF h
<1>14. j.merged + 1 = n + 1 /\ j.gsoSize = h /\ (n + 1) - 1 = n /\ n + 1 # 1
  BY <1>0 DEF h
<1>15. Train(R, j, c)
  BY <1>3, <1>7, <1>8, <1>10, <1>11, <1>12, <1>13, <1>14 DEF Train
<1>. QED  BY <1>15 DEF R

\* A TCP packet is a stream of its own.
LEMMA StreamAlone ==
  ASSUME NEW p \in Packet, p.proto = "tcp", NEW item, NEW b, NEW P,
         P = <<p>>, item.seq = p.seq, item.psh = p.psh, b.psh = p.psh, b.len = p.len
  PROVE  Segments(P, item, b) /\ Stream(P, item, b)
<1>1. Len(P) = 1 /\ P[1] = p /\ \A k \in 1..Len(P) : k = 1
  OBVIOUS
<1>2. \A k \in 1..(Len(P) - 1) : FALSE
  BY <1>1
<1>. QED  BY <1>1, <1>2, Zenon DEF Segments, Stream

\* The numbers of a packet.
LEMMA PacketNumbers ==
  ASSUME NEW p \in Packet
  PROVE  /\ p.seq \in Nat /\ p.len \in Nat /\ p.seq % SeqSpace = p.seq
         /\ SeqSpace \in Nat \ {0}
<1>. QED  BY PacketAssumption, SpaceAssumption

\* Products of one factor less.
LEMMA LessOne ==
  ASSUME NEW k \in Nat, k > 0, NEW a \in Nat, NEW s \in Nat
  PROVE  /\ (k - 1) * a \in Nat /\ s + a \in Nat
         /\ (s + a) + (k - 1) * a = s + k * a
         /\ s + (k - 1) * a \in Nat
<1>1. k - 1 \in Nat /\ (k - 1) * a = k * a - a
  OBVIOUS
<1>2. \A b \in Nat : b * a \in Nat
  OBVIOUS
<1>3. (k - 1) * a \in Nat /\ k * a \in Nat
  BY <1>1, <1>2
<1>. QED  BY <1>1, <1>3

\* A single packet.
LEMMA SpacedAlone ==
  ASSUME NEW p \in Packet, NEW item, item.seq = p.seq, item.gsoSize = p.len
  PROVE  Spaced(<<p>>, item)
<1>1. /\ p.seq \in Nat /\ p.len \in Nat /\ p.seq % SeqSpace = p.seq
      /\ SeqSpace \in Nat \ {0}
  BY PacketAssumption, SpaceAssumption
<1>2. Len(<<p>>) = 1 /\ <<p>>[1] = p
  OBVIOUS
<1>3. item.seq + (1 - 1) * item.gsoSize = p.seq
  BY <1>1
<1>4. \A k \in 1..Len(<<p>>) : k = 1
  BY <1>2
<1>. QED  BY <1>1, <1>2, <1>3, <1>4, Zenon DEF Spaced

\* A packet behind the others.
LEMMA SpacedAppend ==
  ASSUME NEW P \in Seq(Packet), NEW item, Spaced(P, item), NEW p \in Packet,
         NEW l, l = Len(P) * item.gsoSize, p.seq = (item.seq + l) % SeqSpace,
         NEW j, j.seq = item.seq, j.gsoSize = item.gsoSize
  PROVE  Spaced(Append(P, p), j)
<1>. DEFINE n == Len(P)
            R == Append(P, p)
<1>0. /\ n \in Nat /\ (n + 1) - 1 = n
      /\ \A k \in 1..(n + 1) : k \in 1..n \/ k = n + 1
  OBVIOUS
<1>1. /\ Len(R) = n + 1 /\ R[n + 1] = p
      /\ \A k \in 1..n : R[k] = P[k]
  BY AppendFacts
<1>2. \A k \in 1..n : P[k].seq = (item.seq + (k - 1) * item.gsoSize) % SeqSpace
  BY Zenon DEF Spaced
<1>. HIDE DEF n, R
<1>3. \A k \in 1..n : R[k].seq = (j.seq + (k - 1) * j.gsoSize) % SeqSpace
  BY <1>1, <1>2, Zenon
<1>4. R[n + 1].seq = (j.seq + ((n + 1) - 1) * j.gsoSize) % SeqSpace
  BY <1>0, <1>1, Zenon DEF n
<1>5. Spaced(R, j)
  BY <1>0, <1>1, <1>3, <1>4, Zenon DEF Spaced
<1>. QED  BY <1>5 DEF R

\* A packet in front of the others.
LEMMA SpacedPrepend ==
  ASSUME NEW P \in Seq(Packet), NEW item, Spaced(P, item), NEW p \in Packet,
         (p.seq + p.len) % SeqSpace = item.seq, item.gsoSize \in Nat,
         Len(P) > 1 => item.gsoSize = p.len,
         NEW j, j.seq = p.seq, j.gsoSize = p.len
  PROVE  Spaced(<<p>> \o P, j)
<1>. DEFINE n == Len(P)
            R == <<p>> \o P
<1>0. /\ n \in Nat
      /\ \A k \in 1..(n + 1) : k = 1 \/ (k - 1 \in 1..n /\ (k - 1) + 1 = k)
      /\ \A k \in 1..n : k = 1 \/ n > 1
  OBVIOUS
<1>1. /\ Len(R) = n + 1 /\ R[1] = p
      /\ \A k \in 1..n : R[k + 1] = P[k]
  BY ConcatFacts
<1>2. \A k \in 1..n : P[k].seq = (item.seq + (k - 1) * item.gsoSize) % SeqSpace
  BY Zenon DEF Spaced
<1>3. /\ p.seq \in Nat /\ p.len \in Nat /\ p.seq % SeqSpace = p.seq
      /\ SeqSpace \in Nat \ {0}
  BY PacketNumbers
<1>4. n > 1 => item.gsoSize = p.len
  OBVIOUS
<1>. HIDE DEF n, R
<1>5. ASSUME NEW k \in 1..n
      PROVE  P[k].seq = (p.seq + k * p.len) % SeqSpace
  <2>1. (k - 1) * item.gsoSize = (k - 1) * p.len
    <3>1. CASE k = 1
      <4>1. \A a, c \in Nat : (1 - 1) * a = (1 - 1) * c
        OBVIOUS
      <4>. QED  BY <1>3, <3>1, <4>1, Zenon
    <3>2. CASE k # 1
      <4>1. n > 1
        BY <1>0, <3>2
      <4>. QED  BY <1>4, <4>1
    <3>. QED  BY <3>1, <3>2
  <2>2. /\ (k - 1) * p.len \in Nat /\ p.seq + p.len \in Nat
        /\ (p.seq + p.len) + (k - 1) * p.len = p.seq + k * p.len
    <3>1. k \in Nat /\ k > 0
      BY <1>0
    <3>. QED  BY <1>3, <3>1, LessOne
  <2>3. (((p.seq + p.len) % SeqSpace) + (k - 1) * p.len) % SeqSpace
          = ((p.seq + p.len) + (k - 1) * p.len) % SeqSpace
    BY <1>3, <2>2, ModAdd
  <2>. QED  BY <1>2, <2>1, <2>2, <2>3, Zenon
<1>6. R[1].seq = (j.seq + (1 - 1) * j.gsoSize) % SeqSpace
  <2>1. p.seq + (1 - 1) * p.len = p.seq
    BY <1>3
  <2>. QED  BY <1>1, <1>3, <2>1, Zenon
<1>7. ASSUME NEW k \in 1..(n + 1), k - 1 \in 1..n, (k - 1) + 1 = k
      PROVE  R[k].seq = (j.seq + (k - 1) * j.gsoSize) % SeqSpace
  <2>1. R[k] = P[k - 1]
    BY <1>1, <1>7, Zenon
  <2>2. P[k - 1].seq = (p.seq + (k - 1) * p.len) % SeqSpace
    BY <1>5, <1>7, Zenon
  <2>. QED  BY <2>1, <2>2, Zenon
<1>8. Spaced(R, j)
  BY <1>0, <1>1, <1>6, <1>7, Zenon DEF Spaced
<1>. QED  BY <1>8 DEF R

\* A packet behind the others, of which none has PSH.
LEMMA SegmentsAppend ==
  ASSUME NEW P \in Seq(Packet), P # <<>>, NEW item, NEW b, Segments(P, item, b),
         NEW p \in Packet, p.proto = "tcp", ~item.psh,
         NEW j, j.seq = item.seq, p.psh => j.psh, NEW c, c.psh => b.psh \/ p.psh
  PROVE  Segments(Append(P, p), j, c)
<1>. DEFINE n == Len(P)
            R == Append(P, p)
<1>0. /\ n \in Nat \ {0} /\ (n + 1) - 1 = n /\ 1 \in 1..n
      /\ \A k \in 1..n : k \in 1..(n - 1) \/ k = n
      /\ \A k \in 1..(n + 1) : k \in 1..n \/ k = n + 1
  OBVIOUS
<1>1. /\ P[1].seq = item.seq
      /\ \A k \in 1..(n - 1) : ~P[k].psh
      /\ \A k \in 1..n : P[k].proto = "tcp"
  BY Zenon DEF Segments
<1>2. ~P[n].psh /\ ~b.psh
  BY Zenon DEF Segments
<1>3. /\ Len(R) = n + 1 /\ R[n + 1] = p
      /\ \A k \in 1..n : R[k] = P[k]
  BY AppendFacts
<1>. HIDE DEF n, R
<1>4. R[1].seq = j.seq
  BY <1>0, <1>1, <1>3, Zenon
<1>5. \A k \in 1..n : ~R[k].psh
  BY <1>0, <1>1, <1>2, <1>3, Zenon
<1>6. \A k \in 1..(n + 1) : R[k].proto = "tcp"
  <2>1. \A k \in 1..n : R[k].proto = "tcp"
    BY <1>1, <1>3, Zenon
  <2>2. R[n + 1].proto = "tcp"
    BY <1>3, Zenon
  <2>. QED  BY <1>0, <2>1, <2>2, Zenon
<1>7. (p.psh => j.psh) /\ (c.psh => p.psh)
  BY <1>2, Zenon
<1>8. Segments(R, j, c)
  BY <1>0, <1>3, <1>4, <1>5, <1>6, <1>7, Zenon DEF Segments
<1>. QED  BY <1>8 DEF R

\* A packet without PSH in front of the others.
LEMMA SegmentsPrepend ==
  ASSUME NEW P \in Seq(Packet), P # <<>>, NEW item, NEW b, Segments(P, item, b),
         NEW p \in Packet, p.proto = "tcp", ~p.psh,
         NEW j, j.seq = p.seq, item.psh => j.psh, NEW c, ~c.psh
  PROVE  Segments(<<p>> \o P, j, c)
<1>. DEFINE n == Len(P)
            R == <<p>> \o P
<1>0. /\ n \in Nat \ {0} /\ (n + 1) - 1 = n /\ n \in 1..n
      /\ \A k \in 1..n : k = 1 \/ (k - 1 \in 1..(n - 1) /\ k - 1 \in 1..n
                                   /\ (k - 1) + 1 = k)
      /\ \A k \in 1..(n + 1) : k = 1 \/ (k - 1 \in 1..n /\ (k - 1) + 1 = k)
  OBVIOUS
<1>1. /\ \A k \in 1..(n - 1) : ~P[k].psh
      /\ \A k \in 1..n : P[k].proto = "tcp"
      /\ P[n].psh => item.psh
  BY Zenon DEF Segments
<1>2. /\ Len(R) = n + 1 /\ R[1] = p
      /\ \A k \in 1..n : R[k + 1] = P[k]
  BY ConcatFacts
<1>. HIDE DEF n, R
<1>3. \A k \in 1..n : ~R[k].psh
  BY <1>0, <1>1, <1>2, Zenon
<1>4. R[n + 1] = P[n]
  BY <1>0, <1>2, Zenon
<1>5. \A k \in 1..(n + 1) : R[k].proto = "tcp"
  <2>1. \A k \in 1..n : R[k + 1].proto = "tcp"
    BY <1>1, <1>2, Zenon
  <2>2. R[1].proto = "tcp"
    BY <1>2, Zenon
  <2>. QED  BY <1>0, <2>1, <2>2, Zenon
<1>6. (P[n].psh => j.psh) /\ (c.psh => P[n].psh)
  BY <1>1, Zenon
<1>7. R[1].seq = j.seq
  BY <1>2, Zenon
<1>8. Segments(R, j, c)
  BY <1>0, <1>2, <1>3, <1>4, <1>5, <1>6, <1>7, Zenon DEF Segments
<1>. QED  BY <1>8 DEF R

\* A packet that continues the stream.
LEMMA StreamAppend ==
  ASSUME NEW P \in Seq(Packet), P # <<>>, NEW item, NEW b, Stream(P, item, b),
         item.seq \in Nat, b.len \in Nat, NEW p \in Packet,
         p.seq = (item.seq + b.len) % SeqSpace,
         NEW j, j.seq = item.seq, NEW c, c.len = b.len + p.len
  PROVE  Stream(Append(P, p), j, c)
<1>. DEFINE n == Len(P)
            R == Append(P, p)
<1>0. /\ n \in Nat \ {0} /\ (n + 1) - 1 = n /\ 1 \in 1..n
      /\ \A k \in 1..n : k \in 1..(n - 1) \/ k = n
  OBVIOUS
<1>1. /\ P[1].seq = item.seq
      /\ \A k \in 1..(n - 1) : P[k + 1].seq = (P[k].seq + P[k].len) % SeqSpace
      /\ (P[n].seq + P[n].len) % SeqSpace = (item.seq + b.len) % SeqSpace
  BY Zenon DEF Stream
<1>3. /\ Len(R) = n + 1 /\ R[n + 1] = p
      /\ \A k \in 1..n : R[k] = P[k]
  BY AppendFacts
<1>. HIDE DEF n, R
<1>4. R[1].seq = j.seq
  BY <1>0, <1>1, <1>3, Zenon
<1>5. \A k \in 1..n : R[k + 1].seq = (R[k].seq + R[k].len) % SeqSpace
  <2>1. ASSUME NEW k \in 1..(n - 1)
        PROVE  R[k + 1].seq = (R[k].seq + R[k].len) % SeqSpace
    <3>1. k \in 1..n /\ k + 1 \in 1..n
      BY <1>0
    <3>. QED  BY <1>1, <1>3, <3>1, Zenon
  <2>2. R[n + 1].seq = (R[n].seq + R[n].len) % SeqSpace
    <3>1. n \in 1..n
      BY <1>0
    <3>. QED  BY <1>1, <1>3, <3>1, Zenon
  <2>. QED  BY <1>0, <2>1, <2>2, Zenon
<1>6. (p.seq + p.len) % SeqSpace = (j.seq + c.len) % SeqSpace
  <2>1. p.len \in Nat /\ item.seq + b.len \in Nat /\ SeqSpace \in Nat \ {0}
    <3>1. p.len \in Nat
      BY PacketAssumption
    <3>2. item.seq + b.len \in Nat
      OBVIOUS
    <3>. QED  BY <3>1, <3>2, SpaceAssumption, Zenon
  <2>2. (((item.seq + b.len) % SeqSpace) + p.len) % SeqSpace
          = ((item.seq + b.len) + p.len) % SeqSpace
    BY <2>1, ModAdd
  <2>3. (item.seq + b.len) + p.len = j.seq + c.len
    BY <2>1
  <2>. QED  BY <2>2, <2>3
<1>7. Stream(R, j, c)
  BY <1>0, <1>3, <1>4, <1>5, <1>6, Zenon DEF Stream
<1>. QED  BY <1>7 DEF R

\* A packet that ends where the stream begins.
LEMMA StreamPrepend ==
  ASSUME NEW P \in Seq(Packet), P # <<>>, NEW item, NEW b, Stream(P, item, b),
         b.len \in Nat, NEW p \in Packet, (p.seq + p.len) % SeqSpace = item.seq,
         NEW j, j.seq = p.seq, NEW c, c.len = p.len + b.len
  PROVE  Stream(<<p>> \o P, j, c)
<1>. DEFINE n == Len(P)
            R == <<p>> \o P
<1>0. /\ n \in Nat \ {0} /\ (n + 1) - 1 = n /\ 1 \in 1..n /\ n \in 1..n
      /\ \A k \in 1..n : k = 1 \/ (k - 1 \in 1..(n - 1) /\ k - 1 \in 1..n
                                   /\ (k - 1) + 1 = k)
  OBVIOUS
<1>1. /\ P[1].seq = item.seq
      /\ \A k \in 1..(n - 1) : P[k + 1].seq = (P[k].seq + P[k].len) % SeqSpace
      /\ (P[n].seq + P[n].len) % SeqSpace = (item.seq + b.len) % SeqSpace
  BY Zenon DEF Stream
<1>2. /\ Len(R) = n + 1 /\ R[1] = p
      /\ \A k \in 1..n : R[k + 1] = P[k]
  BY ConcatFacts
<1>. HIDE DEF n, R
<1>3. \A k \in 1..n : R[k + 1].seq = (R[k].seq + R[k].len) % SeqSpace
  <2>1. R[1 + 1].seq = (R[1].seq + R[1].len) % SeqSpace
    BY <1>0, <1>1, <1>2, Zenon
  <2>2. ASSUME NEW k \in 1..n, k - 1 \in 1..(n - 1), k - 1 \in 1..n, (k - 1) + 1 = k
        PROVE  R[k + 1].seq = (R[k].seq + R[k].len) % SeqSpace
    <3>1. R[k] = P[k - 1] /\ R[k + 1] = P[k]
      BY <1>2, <2>2, Zenon
    <3>2. P[(k - 1) + 1].seq = (P[k - 1].seq + P[k - 1].len) % SeqSpace
      BY <1>1, <2>2, Zenon
    <3>. QED  BY <2>2, <3>1, <3>2, Zenon
  <2>. QED  BY <1>0, <2>1, <2>2, Zenon
<1>4. R[n + 1] = P[n]
  BY <1>0, <1>2, Zenon
<1>5. (P[n].seq + P[n].len) % SeqSpace = (j.seq + c.len) % SeqSpace
  <2>1. p.seq + p.len \in Nat /\ SeqSpace \in Nat \ {0}
    BY PacketAssumption, SpaceAssumption
  <2>2. (((p.seq + p.len) % SeqSpace) + b.len) % SeqSpace
          = ((p.seq + p.len) + b.len) % SeqSpace
    BY <2>1, ModAdd
  <2>3. (p.seq + p.len) + b.len = j.seq + c.len
    <3>1. p.seq \in Nat /\ p.len \in Nat
      BY PacketAssumption, SpaceAssumption
    <3>. QED  BY <3>1
  <2>. QED  BY <1>1, <2>2, <2>3, Zenon
<1>6. R[1].seq = j.seq
  BY <1>2, Zenon
<1>7. Stream(R, j, c)
  BY <1>0, <1>2, <1>3, <1>4, <1>5, <1>6, Zenon DEF Stream
<1>. QED  BY <1>7 DEF R
-----------------------------------------------------------------------------
(***************************************************************************)
(* Payloads.                                                               *)
(***************************************************************************)

\* The parts of a buffer are packets of the batch.
Carried(bt, b) == \A k \in 1..Len(b.parts) : b.parts[k] \in 1..Len(bt)

\* The buffer that item stands for splits back into its packets.
Fits(bt, b, item) == Carried(bt, b) /\ Train(Payload(bt, b), item, b)
Follows(bt, b, item) ==
  LET P == Payload(bt, b) IN
  /\ Segments(P, item, b)
  /\ b.len < LenSpace => Stream(P, item, b) /\ Spaced(P, item)

\* The parts of a buffer are datagrams.
Datagrams(bt, b) == \A k \in 1..Len(b.parts) : bt[b.parts[k]].proto = "udp"

\* Sequences with the same elements are equal.
LEMMA SeqEqual ==
  ASSUME NEW S, NEW s \in Seq(S), NEW t \in Seq(S), Len(s) = Len(t),
         \A k \in 1..Len(s) : s[k] = t[k]
  PROVE  s = t
OBVIOUS

\* The payload of a buffer is made of packets of the batch.
LEMMA PayloadType ==
  ASSUME NEW bt \in Seq(Packet), NEW b \in BufferType, Carried(bt, b)
  PROVE  /\ Payload(bt, b) \in Seq(Packet) /\ Len(Payload(bt, b)) = Len(b.parts)
         /\ \A k \in 1..Len(b.parts) : Payload(bt, b)[k] = bt[b.parts[k]]
<1>1. b.parts \in Seq(Nat) /\ Len(b.parts) \in Nat
  BY DEF BufferType
<1>2. \A k \in 1..Len(b.parts) : bt[b.parts[k]] \in Packet
  BY DEF Carried
<1>. QED  BY <1>1, <1>2 DEF Payload

\* Payloads stay the same while the batch grows.
LEMMA PayloadKeeps ==
  ASSUME NEW bt \in Seq(Packet), NEW bu \in Seq(Packet), Len(bt) <= Len(bu),
         \A k \in 1..Len(bt) : bu[k] = bt[k],
         NEW b \in BufferType, Carried(bt, b), NEW c, c.parts = b.parts
  PROVE  Payload(bu, c) = Payload(bt, b) /\ Carried(bu, c)
<1>1. \A k \in 1..Len(b.parts) : bu[b.parts[k]] = bt[b.parts[k]]
  BY Zenon DEF Carried
<1>2. Payload(bu, c) = Payload(bt, b)
  BY <1>1 DEF Payload
<1>3. \A k \in 1..Len(bt) : k \in 1..Len(bu)
  OBVIOUS
<1>. QED  BY <1>2, <1>3, Zenon DEF Carried

\* Batch bu is batch bt and what came after it.
Extends(bt, bu) == /\ bt \in Seq(Packet) /\ bu \in Seq(Packet) /\ Len(bt) <= Len(bu)
                   /\ \A k \in 1..Len(bt) : bu[k] = bt[k]

\* Taking up further packets leaves the payload of a buffer as it was.
LEMMA PayloadExtends ==
  ASSUME NEW bt, NEW bu, Extends(bt, bu), NEW b \in BufferType, Carried(bt, b),
         NEW n \in 1..Len(bu)
  PROVE  /\ bu \in Seq(Packet) /\ bu[n] \in Packet /\ n \in Nat
         /\ Payload(bt, b) \in Seq(Packet) /\ Len(Payload(bt, b)) = Len(b.parts)
         /\ \A k \in 1..Len(b.parts) : Payload(bt, b)[k] = bu[b.parts[k]]
         /\ \A k \in 1..Len(b.parts) : b.parts[k] \in 1..Len(bu)
         /\ b.parts \in Seq(Nat) /\ Len(b.parts) \in Nat
<1>1. /\ bt \in Seq(Packet) /\ bu \in Seq(Packet) /\ Len(bt) <= Len(bu)
      /\ \A k \in 1..Len(bt) : bu[k] = bt[k]
  BY Zenon DEF Extends
<1>2. /\ Payload(bt, b) \in Seq(Packet) /\ Len(Payload(bt, b)) = Len(b.parts)
      /\ \A k \in 1..Len(b.parts) : Payload(bt, b)[k] = bu[b.parts[k]]
  BY <1>1, PayloadType DEF Carried
<1>3. \A k \in 1..Len(b.parts) : b.parts[k] \in 1..Len(bu)
  BY <1>1 DEF Carried
<1>4. b.parts \in Seq(Nat) /\ Len(b.parts) \in Nat
  BY DEF BufferType
<1>5. bu[n] \in Packet /\ n \in Nat
  BY <1>1, SeqFacts
<1>. QED  BY <1>1, <1>2, <1>3, <1>4, <1>5

\* Packet n of the batch behind the others.
LEMMA PayloadBehind ==
  ASSUME NEW bt, NEW bu, Extends(bt, bu), NEW n \in 1..Len(bu),
         NEW b \in BufferType, Carried(bt, b),
         NEW c \in BufferType, c.parts = b.parts \o <<n>>
  PROVE  Payload(bu, c) = Append(Payload(bt, b), bu[n]) /\ Carried(bu, c)
<1>. DEFINE P == Payload(bt, b)
            m == Len(b.parts)
            R == Append(P, bu[n])
<1>1. /\ bu \in Seq(Packet) /\ bu[n] \in Packet /\ n \in Nat
      /\ P \in Seq(Packet) /\ Len(P) = m
      /\ \A k \in 1..m : P[k] = bu[b.parts[k]]
      /\ \A k \in 1..m : b.parts[k] \in 1..Len(bu)
      /\ b.parts \in Seq(Nat) /\ m \in Nat
  BY PayloadExtends
<1>2. /\ Len(c.parts) = m + 1 /\ c.parts[m + 1] = n
      /\ \A k \in 1..m : c.parts[k] = b.parts[k]
  BY <1>1, ConcatFacts
<1>3. /\ R \in Seq(Packet) /\ Len(R) = m + 1
      /\ \A k \in 1..m : R[k] = P[k]
      /\ R[m + 1] = bu[n]
  BY <1>1, AppendFacts
<1>. HIDE DEF P, m, R
<1>4. /\ \A k \in 1..(m + 1) : k \in 1..m \/ k = m + 1
      /\ \A k \in 1..m : k \in 1..(m + 1)
      /\ m + 1 \in 1..(m + 1)
  BY <1>1
<1>5. Carried(bu, c)
  <2>1. ASSUME NEW k \in 1..Len(c.parts) PROVE c.parts[k] \in 1..Len(bu)
    <3>0. k \in 1..m \/ k = m + 1
      BY <1>2, <1>4
    <3>1. CASE k \in 1..m
      BY <1>1, <1>2, <3>1
    <3>2. CASE k = m + 1
      BY <1>2, <3>2
    <3>. QED  BY <3>0, <3>1, <3>2
  <2>. QED  BY <2>1, Zenon DEF Carried
<1>6. /\ Payload(bu, c) \in Seq(Packet) /\ Len(Payload(bu, c)) = m + 1
      /\ \A k \in 1..(m + 1) : Payload(bu, c)[k] = bu[c.parts[k]]
  <2>1. bu \in Seq(Packet)
    BY <1>1
  <2>2. /\ Payload(bu, c) \in Seq(Packet) /\ Len(Payload(bu, c)) = Len(c.parts)
        /\ \A k \in 1..Len(c.parts) : Payload(bu, c)[k] = bu[c.parts[k]]
    BY <1>5, <2>1, PayloadType, Zenon
  <2>3. Len(c.parts) = m + 1
    BY <1>2
  <2>. QED  BY <2>2, <2>3, Zenon
<1>7. \A k \in 1..(m + 1) : Payload(bu, c)[k] = R[k]
  <2>1. ASSUME NEW k \in 1..m PROVE Payload(bu, c)[k] = R[k]
    <3>1. k \in 1..(m + 1) /\ c.parts[k] = b.parts[k]
      BY <1>2, <1>4
    <3>2. Payload(bu, c)[k] = bu[b.parts[k]]
      BY <1>6, <3>1
    <3>. QED  BY <1>1, <1>3, <3>2
  <2>2. Payload(bu, c)[m + 1] = R[m + 1]
    BY <1>2, <1>3, <1>4, <1>6, Zenon
  <2>. QED  BY <1>4, <2>1, <2>2, Zenon
<1>8. Payload(bu, c) = R
  BY <1>3, <1>6, <1>7, SeqEqual
<1>. QED  BY <1>5, <1>8 DEF R, P

\* ... and in front of them.
LEMMA PayloadFront ==
  ASSUME NEW bt, NEW bu, Extends(bt, bu), NEW n \in 1..Len(bu),
         NEW b \in BufferType, Carried(bt, b),
         NEW c \in BufferType, c.parts = <<n>> \o b.parts
  PROVE  Payload(bu, c) = <<bu[n]>> \o Payload(bt, b) /\ Carried(bu, c)
<1>. DEFINE P == Payload(bt, b)
            m == Len(b.parts)
            R == <<bu[n]>> \o P
<1>1. /\ bu \in Seq(Packet) /\ bu[n] \in Packet /\ n \in Nat
      /\ P \in Seq(Packet) /\ Len(P) = m
      /\ \A k \in 1..m : P[k] = bu[b.parts[k]]
      /\ \A k \in 1..m : b.parts[k] \in 1..Len(bu)
      /\ b.parts \in Seq(Nat) /\ m \in Nat
  BY PayloadExtends
<1>2. /\ Len(c.parts) = m + 1 /\ c.parts[1] = n
      /\ \A k \in 1..m : c.parts[k + 1] = b.parts[k]
  BY <1>1, ConcatFacts
<1>3. /\ R \in Seq(Packet) /\ Len(R) = m + 1
      /\ \A k \in 1..m : R[k + 1] = P[k]
      /\ R[1] = bu[n]
  BY <1>1, ConcatFacts
<1>. HIDE DEF P, m, R
<1>4. /\ \A k \in 1..(m + 1) : k = 1 \/ (k - 1 \in 1..m /\ (k - 1) + 1 = k)
      /\ \A k \in 1..m : k + 1 \in 1..(m + 1)
      /\ 1 \in 1..(m + 1)
  BY <1>1
<1>5. Carried(bu, c)
  <2>1. ASSUME NEW k \in 1..Len(c.parts) PROVE c.parts[k] \in 1..Len(bu)
    <3>0. k = 1 \/ (k - 1 \in 1..m /\ (k - 1) + 1 = k)
      BY <1>2, <1>4
    <3>1. CASE k = 1
      BY <1>2, <3>1
    <3>2. CASE k - 1 \in 1..m /\ (k - 1) + 1 = k
      <4>1. c.parts[k] = b.parts[k - 1]
        BY <1>2, <3>2
      <4>. QED  BY <1>1, <3>2, <4>1
    <3>. QED  BY <3>0, <3>1, <3>2
  <2>. QED  BY <2>1, Zenon DEF Carried
<1>6. /\ Payload(bu, c) \in Seq(Packet) /\ Len(Payload(bu, c)) = m + 1
      /\ \A k \in 1..(m + 1) : Payload(bu, c)[k] = bu[c.parts[k]]
  <2>1. bu \in Seq(Packet)
    BY <1>1
  <2>2. /\ Payload(bu, c) \in Seq(Packet) /\ Len(Payload(bu, c)) = Len(c.parts)
        /\ \A k \in 1..Len(c.parts) : Payload(bu, c)[k] = bu[c.parts[k]]
    BY <1>5, <2>1, PayloadType, Zenon
  <2>3. Len(c.parts) = m + 1
    BY <1>2
  <2>. QED  BY <2>2, <2>3, Zenon
<1>7. \A k \in 1..(m + 1) : Payload(bu, c)[k] = R[k]
  <2>1. ASSUME NEW k \in 1..m PROVE Payload(bu, c)[k + 1] = R[k + 1]
    <3>1. k + 1 \in 1..(m + 1) /\ c.parts[k + 1] = b.parts[k]
      BY <1>2, <1>4
    <3>2. Payload(bu, c)[k + 1] = bu[b.parts[k]]
      BY <1>6, <3>1
    <3>. QED  BY <1>1, <1>3, <3>2
  <2>2. Payload(bu, c)[1] = R[1]
    BY <1>2, <1>3, <1>4, <1>6, Zenon
  <2>. QED  BY <1>4, <2>1, <2>2, Zenon
<1>8. Payload(bu, c) = R
  BY <1>3, <1>6, <1>7, SeqEqual
<1>. QED  BY <1>5, <1>8 DEF R, P

\* The payload of a buffer with one packet.
LEMMA PayloadAlone ==
  ASSUME NEW bt \in Seq(Packet), NEW n \in 1..Len(bt), NEW b, b.parts = <<n>>
  PROVE  Payload(bt, b) = <<bt[n]>> /\ Carried(bt, b)
<1>1. Len(b.parts) = 1 /\ b.parts[1] = n
  OBVIOUS
<1>2. \A k \in 1..Len(b.parts) : k = 1
  BY <1>1
<1>3. Payload(bt, b) = [k \in 1..1 |-> bt[n]]
  BY <1>1, <1>2 DEF Payload
<1>4. bt[n] \in Packet
  BY SeqFacts
<1>5. [k \in 1..1 |-> bt[n]] = <<bt[n]>>
  BY <1>4
<1>. QED  BY <1>1, <1>2, <1>3, <1>5, Zenon DEF Carried
-----------------------------------------------------------------------------
(***************************************************************************)
(* What the items of the tables stand for.                                 *)
(***************************************************************************)

\* A flow with items is live, and no two items have the same buffer.
Orderly(t) ==
  /\ \A f \in Flow : t.items[f] # <<>> => f \in t.live
  /\ \A f, g \in Flow :
       \A k \in 1..Len(t.items[f]), l \in 1..Len(t.items[g]) :
         t.items[f][k].buf = t.items[g][l].buf => f = g /\ k = l

\* A buffer without an item is written as it is: it holds a single packet, and
\* has an empty header or is a TCP packet with a bad checksum.
Loose(bt, b) ==
  /\ Len(b.parts) = 1
  /\ \/ b.hdr = Plain
     \/ b.hdr = Unset /\ ~b.csum /\ bt[b.parts[1]].proto = "tcp"

TablesInv == /\ Orderly(tcp) /\ Orderly(udp)
             /\ \A x \in Items(tcp), y \in Items(udp) : x.buf # y.buf

TrainsInv ==
  /\ \A x \in Items(tcp) : /\ Fits(batch, bufs[x.buf], x)
                           /\ Follows(batch, bufs[x.buf], x)
  /\ \A x \in Items(udp) : /\ Fits(batch, bufs[x.buf], x)
                           /\ Datagrams(batch, bufs[x.buf])

LooseInv ==
  /\ vnetHdr /\ pc \in {"gro", "scan"} =>
       /\ \A x \in Items(tcp) : bufs[x.buf].hdr = Unset
       /\ \A i \in 1..Len(toWrite) :
            \/ \E x \in Items(tcp) \cup Items(udp) : x.buf = toWrite[i]
            \/ Loose(batch, bufs[toWrite[i]])
  /\ pc = "scan" => /\ vnetHdr /\ bufs[cur] = Buffer(current, cur)
                    /\ current.proto = "tcp" /\ current.len # 0

MergeInv == TablesInv /\ TrainsInv /\ LooseInv /\ HeadersFit

\* The items of a table are those at the positions of its flows.
LEMMA ItemsAt ==
  ASSUME NEW t, NEW Item, NEW q, Balanced(t), TableHeld(t, Item, q), Orderly(t)
  PROVE  /\ \A x \in Items(t) : \E f \in Flow : \E k \in 1..Len(t.items[f]) :
              x = t.items[f][k]
         /\ \A f \in Flow : \A k \in 1..Len(t.items[f]) : t.items[f][k] \in Items(t)
         /\ \A x \in Items(t) : x \in Item
<1>1. /\ t.items \in [Flow -> Seq(Item)] /\ t.live \subseteq Flow
      /\ \A f \in Flow : t.items[f] # <<>> => f \in t.live
  BY DEF TableHeld, Balanced, Orderly
<1>2. ASSUME NEW f \in Flow
      PROVE  t.items[f] \in Seq(Item) /\ \A x : x \in ToSet(t.items[f])
               <=> \E k \in 1..Len(t.items[f]) : x = t.items[f][k]
  <2>1. t.items[f] \in Seq(Item)
    BY <1>1
  <2>. QED  BY <2>1 DEF ToSet
<1>3. ASSUME NEW x \in Items(t)
      PROVE  \E f \in Flow : \E k \in 1..Len(t.items[f]) : x = t.items[f][k]
  <2>1. PICK f \in Flow : x \in ToSet(t.items[f])
    BY <1>1 DEF Items
  <2>2. \E k \in 1..Len(t.items[f]) : x = t.items[f][k]
    BY <1>2, <2>1, Zenon
  <2>. QED  BY <2>2, Zenon
<1>4. ASSUME NEW f \in Flow, NEW k \in 1..Len(t.items[f])
      PROVE  t.items[f][k] \in Items(t)
  <2>1. f \in t.live
    BY <1>1, <1>2
  <2>. QED  BY <1>2, <2>1 DEF Items
<1>5. ASSUME NEW x \in Items(t) PROVE x \in Item
  <2>1. PICK f \in Flow : \E k \in 1..Len(t.items[f]) : x = t.items[f][k]
    BY <1>3
  <2>. QED  BY <1>2, <2>1, SeqFacts
<1>. QED  BY <1>3, <1>4, <1>5

\* insert adds an item, whose buffer is that of no other.
LEMMA InsertItems ==
  ASSUME NEW t, NEW Item, NEW q, Balanced(t), TableHeld(t, Item, q), Orderly(t),
         NEW f \in Flow, NEW new \in Item, \A x \in Items(t) : x.buf # new.buf,
         NEW r, TableHeld(Insert(t, f, new), Item, r)
  PROVE  /\ Orderly(Insert(t, f, new))
         /\ \A x : x \in Items(Insert(t, f, new)) <=> x \in Items(t) \/ x = new
<1>. DEFINE u == Insert(t, f, new)
            n == Len(t.items[f])
<1>1. t.items \in [Flow -> Seq(Item)] /\ t.items[f] \in Seq(Item) /\ n \in Nat
  BY SeqFacts DEF TableHeld
<1>2. /\ u.items = [t.items EXCEPT ![f] = Append(t.items[f], new)]
      /\ u.live = t.live \cup {f}
  BY DEF Insert
<1>. DEFINE s == Append(t.items[f], new)
<1>3. /\ u.items[f] = s /\ \A g \in Flow \ {f} : u.items[g] = t.items[g]
  BY <1>1, <1>2
<1>4. /\ Len(s) = n + 1 /\ s[n + 1] = new
      /\ \A k \in 1..n : s[k] = t.items[f][k]
  BY <1>1, AppendFacts
<1>5. \A k \in 1..(n + 1) : k \in 1..n \/ k = n + 1
  BY <1>1
<1>. HIDE DEF u, n, s
\* every position of u is one of t, or the new one
<1>6. ASSUME NEW g \in Flow, NEW k \in 1..Len(u.items[g])
      PROVE  \/ k \in 1..Len(t.items[g]) /\ u.items[g][k] = t.items[g][k]
             \/ g = f /\ k = n + 1 /\ u.items[g][k] = new
  <2>1. CASE g # f
    <3>1. u.items[g] = t.items[g]
      BY <1>3, <2>1
    <3>. QED  BY <3>1
  <2>2. CASE g = f
    <3>1. u.items[g] = s /\ k \in 1..(n + 1)
      BY <1>3, <1>4, <2>2, Zenon
    <3>2. CASE k \in 1..n
      <4>1. u.items[g][k] = t.items[f][k]
        BY <1>4, <3>1, <3>2, Zenon
      <4>. QED  BY <2>2, <3>2, <4>1, Zenon DEF n
    <3>3. CASE k = n + 1
      BY <1>4, <2>2, <3>1, <3>3, Zenon
    <3>. QED  BY <1>5, <3>1, <3>2, <3>3
  <2>. QED  BY <2>1, <2>2
<1>7. \A g \in Flow : \A k \in 1..Len(t.items[g]) : t.items[g][k].buf # new.buf
  BY ItemsAt
<1>8. \A g, h \in Flow : \A k \in 1..Len(t.items[g]), l \in 1..Len(t.items[h]) :
        t.items[g][k].buf = t.items[h][l].buf => g = h /\ k = l
  BY Zenon DEF Orderly
<1>9. Orderly(u)
  <2>1. ASSUME NEW g \in Flow, u.items[g] # <<>>
        PROVE  g \in u.live
    <3>1. CASE g = f
      BY <1>2, <3>1 DEF u
    <3>2. CASE g # f
      <4>1. g \in t.live
        BY <1>3, <2>1, <3>2 DEF Orderly
      <4>. QED  BY <1>2, <4>1 DEF u
    <3>. QED  BY <3>1, <3>2
  <2>2. ASSUME NEW g \in Flow, NEW h \in Flow, NEW k \in 1..Len(u.items[g]),
               NEW l \in 1..Len(u.items[h]), u.items[g][k].buf = u.items[h][l].buf
        PROVE  g = h /\ k = l
    <3>1. \/ k \in 1..Len(t.items[g]) /\ u.items[g][k] = t.items[g][k]
          \/ g = f /\ k = n + 1 /\ u.items[g][k] = new
      BY <1>6
    <3>2. \/ l \in 1..Len(t.items[h]) /\ u.items[h][l] = t.items[h][l]
          \/ h = f /\ l = n + 1 /\ u.items[h][l] = new
      BY <1>6
    <3>3. CASE k \in 1..Len(t.items[g]) /\ u.items[g][k] = t.items[g][k]
      <4>1. CASE l \in 1..Len(t.items[h]) /\ u.items[h][l] = t.items[h][l]
        <5>1. t.items[g][k].buf = t.items[h][l].buf
          BY <2>2, <3>3, <4>1
        <5>2. k \in 1..Len(t.items[g]) /\ l \in 1..Len(t.items[h])
          BY <3>3, <4>1, Zenon
        <5>. QED  BY <1>8, <5>1, <5>2, Zenon
      <4>2. CASE u.items[h][l] = new
        BY <1>7, <2>2, <3>3, <4>2, Zenon
      <4>. QED  BY <3>2, <4>1, <4>2, Zenon
    <3>4. CASE g = f /\ k = n + 1 /\ u.items[g][k] = new
      <4>1. CASE l \in 1..Len(t.items[h]) /\ u.items[h][l] = t.items[h][l]
        BY <1>7, <2>2, <3>4, <4>1, Zenon
      <4>2. CASE h = f /\ l = n + 1
        BY <3>4, <4>2, Zenon
      <4>. QED  BY <3>2, <4>1, <4>2, Zenon
    <3>. QED  BY <3>1, <3>3, <3>4, Zenon
  <2>. QED  BY <2>1, <2>2, Zenon DEF Orderly
<1>10. Balanced(u)
  BY InsertBalanced DEF u
<1>11. ASSUME NEW x PROVE x \in Items(u) <=> x \in Items(t) \/ x = new
  <2>1. ASSUME x \in Items(u) PROVE x \in Items(t) \/ x = new
    <3>1. PICK g \in Flow : \E k \in 1..Len(u.items[g]) : x = u.items[g][k]
      BY <1>9, <1>10, <2>1, ItemsAt DEF u
    <3>2. PICK k \in 1..Len(u.items[g]) : x = u.items[g][k]
      BY <3>1
    <3>. QED  BY <1>6, <3>2, ItemsAt
  <2>2. ASSUME x \in Items(t) PROVE x \in Items(u)
    <3>1. PICK g \in Flow : \E k \in 1..Len(t.items[g]) : x = t.items[g][k]
      BY <2>2, ItemsAt
    <3>2. PICK k \in 1..Len(t.items[g]) : x = t.items[g][k]
      BY <3>1
    <3>3. k \in 1..Len(u.items[g]) /\ u.items[g][k] = x
      <4>1. CASE g # f
        BY <1>3, <3>2, <4>1
      <4>2. CASE g = f
        <5>1. k \in 1..n /\ k \in 1..(n + 1)
          BY <1>1, <3>2, <4>2 DEF n
        <5>. QED  BY <1>3, <1>4, <3>2, <4>2, <5>1, Zenon
      <4>. QED  BY <4>1, <4>2
    <3>. QED  BY <1>9, <1>10, <3>3, ItemsAt DEF u
  <2>3. new \in Items(u)
    <3>1. n + 1 \in 1..Len(u.items[f]) /\ u.items[f][n + 1] = new
      BY <1>1, <1>3, <1>4 DEF n
    <3>. QED  BY <1>9, <1>10, <3>1, ItemsAt DEF u
  <2>. QED  BY <2>1, <2>2, <2>3
<1>. QED  BY <1>9, <1>11 DEF u

\* updateAt puts an item with the same buffer in the place of another.
LEMMA UpdateItems ==
  ASSUME NEW t, NEW Item, NEW q, Balanced(t), TableHeld(t, Item, q), Orderly(t),
         NEW f \in Flow, NEW k \in 1..Len(t.items[f]), NEW new \in Item,
         new.buf = t.items[f][k].buf, TableHeld(UpdateAt(t, f, k, new), Item, q)
  PROVE  /\ Orderly(UpdateAt(t, f, k, new))
         /\ \A x : x \in Items(UpdateAt(t, f, k, new))
                     <=> (x \in Items(t) /\ x.buf # new.buf) \/ x = new
<1>. DEFINE u == UpdateAt(t, f, k, new)
            s == [t.items[f] EXCEPT ![k] = new]
<1>1. t.items \in [Flow -> Seq(Item)] /\ t.items[f] \in Seq(Item)
  BY DEF TableHeld
<1>2. u.items = [t.items EXCEPT ![f] = s] /\ u.live = t.live
  BY DEF UpdateAt, Balanced
<1>3. /\ Len(s) = Len(t.items[f]) /\ s[k] = new
      /\ \A l \in 1..Len(t.items[f]) : l # k => s[l] = t.items[f][l]
  BY <1>1, ReplaceFacts
<1>. HIDE DEF s, u
<1>4. u.items[f] = s /\ \A g \in Flow \ {f} : u.items[g] = t.items[g]
  BY <1>1, <1>2
<1>5. \A g \in Flow : Len(u.items[g]) = Len(t.items[g])
  BY <1>3, <1>4, Zenon
<1>6. ASSUME NEW g \in Flow, NEW l \in 1..Len(t.items[g])
      PROVE  \/ (g # f \/ l # k) /\ u.items[g][l] = t.items[g][l]
             \/ g = f /\ l = k /\ u.items[g][l] = new
  BY <1>3, <1>4
<1>7. \A g, h \in Flow : \A j \in 1..Len(t.items[g]), l \in 1..Len(t.items[h]) :
        t.items[g][j].buf = t.items[h][l].buf => g = h /\ j = l
  BY Zenon DEF Orderly
<1>8. \A g \in Flow : \A l \in 1..Len(t.items[g]) :
        u.items[g][l].buf = t.items[g][l].buf
  BY <1>6, Zenon
<1>9. Orderly(u)
  <2>1. ASSUME NEW g \in Flow, u.items[g] # <<>>
        PROVE  g \in u.live
    <3>1. t.items[g] # <<>>
      <4>1. CASE g = f
        BY <1>1, <4>1
      <4>2. CASE g # f
        BY <1>4, <2>1, <4>2
      <4>. QED  BY <4>1, <4>2
    <3>. QED  BY <1>2, <3>1 DEF Orderly
  <2>2. \A g, h \in Flow : \A j \in 1..Len(u.items[g]), l \in 1..Len(u.items[h]) :
          u.items[g][j].buf = u.items[h][l].buf => g = h /\ j = l
    <3>1. ASSUME NEW g \in Flow, NEW h \in Flow, NEW j \in 1..Len(u.items[g]),
                 NEW l \in 1..Len(u.items[h]), u.items[g][j].buf = u.items[h][l].buf
          PROVE  g = h /\ j = l
      <4>1. j \in 1..Len(t.items[g]) /\ l \in 1..Len(t.items[h])
        BY <1>5
      <4>2. t.items[g][j].buf = t.items[h][l].buf
        BY <1>8, <3>1, <4>1, Zenon
      <4>3. \A x \in 1..Len(t.items[g]), y \in 1..Len(t.items[h]) :
              t.items[g][x].buf = t.items[h][y].buf => g = h /\ x = y
        BY <1>7, Zenon
      <4>. QED  BY <4>1, <4>2, <4>3
    <3>. QED  BY <3>1, Zenon
  <2>. QED  BY <2>1, <2>2, Zenon DEF Orderly
<1>10. Balanced(u)
  BY ItemsOnly DEF u
<1>11. \A x \in Items(u) : \E g \in Flow : \E l \in 1..Len(u.items[g]) :
         x = u.items[g][l]
  BY <1>9, <1>10, ItemsAt DEF u
<1>12. \A g \in Flow : \A l \in 1..Len(u.items[g]) : u.items[g][l] \in Items(u)
  BY <1>9, <1>10, ItemsAt DEF u
<1>13. /\ \A x \in Items(t) : \E g \in Flow : \E l \in 1..Len(t.items[g]) :
            x = t.items[g][l]
       /\ \A g \in Flow : \A l \in 1..Len(t.items[g]) : t.items[g][l] \in Items(t)
  BY ItemsAt
<1>14. ASSUME NEW x
       PROVE  x \in Items(u) <=> (x \in Items(t) /\ x.buf # new.buf) \/ x = new
  <2>1. ASSUME x \in Items(u)
        PROVE  (x \in Items(t) /\ x.buf # new.buf) \/ x = new
    <3>1. PICK g \in Flow : \E l \in 1..Len(u.items[g]) : x = u.items[g][l]
      BY <1>11, <2>1
    <3>2. PICK l \in 1..Len(t.items[g]) : x = u.items[g][l]
      BY <1>5, <3>1
    <3>3. CASE (g # f \/ l # k) /\ u.items[g][l] = t.items[g][l]
      <4>1. t.items[g][l].buf # new.buf
        BY <1>7, <3>3
      <4>. QED  BY <1>13, <3>2, <3>3, <4>1
    <3>. QED  BY <1>6, <3>2, <3>3
  <2>2. ASSUME x \in Items(t), x.buf # new.buf PROVE x \in Items(u)
    <3>1. PICK g \in Flow : \E l \in 1..Len(t.items[g]) : x = t.items[g][l]
      BY <1>13, <2>2
    <3>2. PICK l \in 1..Len(t.items[g]) : x = t.items[g][l]
      BY <3>1
    <3>3. g # f \/ l # k
      BY <2>2, <3>2
    <3>4. u.items[g][l] = x /\ l \in 1..Len(u.items[g])
      BY <1>5, <1>6, <3>2, <3>3
    <3>. QED  BY <1>12, <3>4
  <2>3. new \in Items(u)
    <3>1. k \in 1..Len(u.items[f]) /\ u.items[f][k] = new
      BY <1>5, <1>6
    <3>. QED  BY <1>12, <3>1
  <2>. QED  BY <2>1, <2>2, <2>3
<1>. QED  BY <1>9, <1>14 DEF u

\* Where the elements of RemoveAt(s, k) come from.
LEMMA RemoveSource ==
  ASSUME NEW S, NEW s \in Seq(S), NEW k \in 1..Len(s)
  PROVE  /\ \A i \in 1..(Len(s) - 1) :
              RemoveAt(s, k)[i] = s[IF i < k THEN i ELSE i + 1]
         /\ Len(RemoveAt(s, k)) = Len(s) - 1
<1>1. Len(RemoveAt(s, k)) = Len(s) - 1
  BY RemoveFacts
<1>. DEFINE a == SubSeq(s, 1, k - 1)
            b == SubSeq(s, k + 1, Len(s))
<1>2. /\ a \in Seq(S) /\ Len(a) = k - 1 /\ \A i \in 1..(k - 1) : a[i] = s[i]
  OBVIOUS
<1>3. /\ b \in Seq(S) /\ Len(b) = Len(s) - k
      /\ \A i \in 1..(Len(s) - k) : b[i] = s[k + i]
  OBVIOUS
<1>4. RemoveAt(s, k) = a \o b
  BY DEF RemoveAt
<1>5. k \in Nat /\ Len(s) \in Nat
  OBVIOUS
<1>. HIDE DEF a, b
<1>6. /\ \A i \in 1..(k - 1) : (a \o b)[i] = a[i]
      /\ \A i \in 1..(Len(s) - k) : (a \o b)[(k - 1) + i] = b[i]
  <2>1. a \in Seq(S) /\ b \in Seq(S)
    BY <1>2, <1>3
  <2>2. /\ \A i \in 1..Len(a) : (a \o b)[i] = a[i]
        /\ \A i \in 1..Len(b) : (a \o b)[Len(a) + i] = b[i]
    BY <2>1, JoinFacts
  <2>. QED  BY <1>2, <1>3, <2>2
<1>7. ASSUME NEW i \in 1..(Len(s) - 1)
      PROVE  (a \o b)[i] = s[IF i < k THEN i ELSE i + 1]
  <2>1. CASE i < k
    <3>1. i \in 1..(k - 1)
      BY <1>5, <2>1
    <3>2. (a \o b)[i] = s[i]
      BY <1>2, <1>6, <3>1
    <3>. QED  BY <2>1, <3>2
  <2>2. CASE ~(i < k)
    <3>1. /\ i - (k - 1) \in 1..(Len(s) - k) /\ (k - 1) + (i - (k - 1)) = i
          /\ k + (i - (k - 1)) = i + 1
      BY <1>5, <2>2
    <3>2. (a \o b)[(k - 1) + (i - (k - 1))] = b[i - (k - 1)]
      BY <1>6, <3>1, Zenon
    <3>3. b[i - (k - 1)] = s[k + (i - (k - 1))]
      BY <1>3, <3>1, Zenon
    <3>4. (a \o b)[i] = s[i + 1]
      BY <3>1, <3>2, <3>3, Zenon
    <3>. QED  BY <2>2, <3>4
  <2>. QED  BY <2>1, <2>2, Zenon
<1>. QED  BY <1>1, <1>4, <1>7

\* deleteAt takes an item away and keeps the order of the others.
LEMMA DeleteItems ==
  ASSUME NEW t, NEW Item, NEW q, Balanced(t), TableHeld(t, Item, q), Orderly(t),
         NEW f \in Flow, NEW k \in 1..Len(t.items[f]),
         TableHeld(DeleteAt(t, f, k), Item, q)
  PROVE  /\ Orderly(DeleteAt(t, f, k))
         /\ \A x : x \in Items(DeleteAt(t, f, k))
                     => x \in Items(t) /\ x.buf # t.items[f][k].buf
         /\ \A x \in Items(t) : x.buf # t.items[f][k].buf
                                  => x \in Items(DeleteAt(t, f, k))
<1>. DEFINE u == DeleteAt(t, f, k)
            s == RemoveAt(t.items[f], k)
            n == Len(t.items[f])
            from(g, i) == IF g = f /\ ~(i < k) THEN i + 1 ELSE i
<1>1. t.items \in [Flow -> Seq(Item)] /\ t.items[f] \in Seq(Item) /\ n \in Nat
  BY SeqFacts DEF TableHeld
<1>2. u.items = [t.items EXCEPT ![f] = s] /\ u.live = t.live
  BY DEF DeleteAt, Balanced
<1>3. /\ Len(s) = n - 1
      /\ \A i \in 1..(n - 1) : s[i] = t.items[f][IF i < k THEN i ELSE i + 1]
  BY <1>1, RemoveSource
<1>. HIDE DEF s, u
<1>4. u.items[f] = s /\ \A g \in Flow \ {f} : u.items[g] = t.items[g]
  BY <1>1, <1>2
<1>5. k \in 1..n /\ k \in Nat
  OBVIOUS
<1>6. ASSUME NEW g \in Flow, NEW i \in 1..Len(u.items[g])
      PROVE  /\ from(g, i) \in 1..Len(t.items[g])
             /\ u.items[g][i] = t.items[g][from(g, i)]
             /\ g # f \/ from(g, i) # k
             /\ i \in Nat
  <2>1. CASE g # f
    BY <1>4, <2>1
  <2>2. CASE g = f
    <3>1. i \in 1..(n - 1)
      BY <1>3, <1>4, <2>2
    <3>2. CASE i < k
      <4>1. from(g, i) = i /\ i \in 1..n /\ i # k /\ i \in Nat
        BY <1>1, <1>5, <3>1, <3>2
      <4>. QED  BY <1>3, <1>4, <2>2, <3>1, <3>2, <4>1
    <3>3. CASE ~(i < k)
      <4>1. from(g, i) = i + 1 /\ i + 1 \in 1..n /\ i + 1 # k /\ i \in Nat
        BY <1>1, <1>5, <2>2, <3>1, <3>3
      <4>. QED  BY <1>3, <1>4, <2>2, <3>1, <3>3, <4>1
    <3>. QED  BY <3>2, <3>3
  <2>. QED  BY <2>1, <2>2
<1>7. \A g \in Flow : \A i, j \in Nat : from(g, i) = from(g, j) => i = j
  BY <1>5
<1>8. ASSUME NEW g \in Flow, NEW j \in 1..Len(t.items[g]), g # f \/ j # k
      PROVE  \E i \in 1..Len(u.items[g]) : u.items[g][i] = t.items[g][j]
  <2>1. CASE g # f
    BY <1>4, <2>1
  <2>2. CASE g = f
    <3>1. j \in 1..n /\ j # k
      BY <1>8, <2>2
    <3>2. CASE j < k
      <4>1. j \in 1..(n - 1)
        BY <1>1, <1>5, <3>1, <3>2
      <4>2. s[j] = t.items[f][j]
        BY <1>3, <3>2, <4>1
      <4>. QED  BY <1>3, <1>4, <2>2, <4>1, <4>2, Zenon
    <3>3. CASE ~(j < k)
      <4>1. j - 1 \in 1..(n - 1) /\ ~(j - 1 < k) /\ (j - 1) + 1 = j
        BY <1>1, <1>5, <3>1, <3>3
      <4>2. s[j - 1] = t.items[f][j]
        BY <1>3, <4>1
      <4>. QED  BY <1>3, <1>4, <2>2, <4>1, <4>2, Zenon
    <3>. QED  BY <3>2, <3>3
  <2>. QED  BY <2>1, <2>2
<1>. HIDE DEF from, n
<1>9. \A g, h \in Flow : \A j \in 1..Len(t.items[g]), l \in 1..Len(t.items[h]) :
        t.items[g][j].buf = t.items[h][l].buf => g = h /\ j = l
  BY Zenon DEF Orderly
<1>10. Orderly(u)
  <2>1. ASSUME NEW g \in Flow, u.items[g] # <<>>
        PROVE  g \in u.live
    <3>1. t.items[g] # <<>>
      <4>1. CASE g = f
        BY <1>1, <1>5, <4>1 DEF n
      <4>2. CASE g # f
        BY <1>4, <2>1, <4>2
      <4>. QED  BY <4>1, <4>2
    <3>. QED  BY <1>2, <3>1 DEF Orderly
  <2>2. ASSUME NEW g \in Flow, NEW h \in Flow, NEW i \in 1..Len(u.items[g]),
               NEW l \in 1..Len(u.items[h]), u.items[g][i].buf = u.items[h][l].buf
        PROVE  g = h /\ i = l
    <3>. DEFINE a == from(g, i)
                b == from(h, l)
    <3>1. /\ a \in 1..Len(t.items[g]) /\ b \in 1..Len(t.items[h])
          /\ t.items[g][a].buf = t.items[h][b].buf
          /\ i \in Nat /\ l \in Nat
      BY <1>6, <2>2
    <3>. HIDE DEF a, b
    <3>2. g = h
      BY <1>9, <3>1, Zenon
    <3>3. a = b
      BY <1>9, <3>1, Zenon
    <3>4. from(g, i) = from(g, l)
      BY <3>2, <3>3 DEF a, b
    <3>. QED  BY <1>7, <3>1, <3>2, <3>4, Zenon
  <2>. QED  BY <2>1, <2>2, Zenon DEF Orderly
<1>11. Balanced(u)
  BY ItemsOnly DEF u
<1>12. \A x \in Items(u) : \E g \in Flow : \E l \in 1..Len(u.items[g]) :
         x = u.items[g][l]
  BY <1>10, <1>11, ItemsAt DEF u
<1>13. \A g \in Flow : \A l \in 1..Len(u.items[g]) : u.items[g][l] \in Items(u)
  BY <1>10, <1>11, ItemsAt DEF u
<1>14. /\ \A x \in Items(t) : \E g \in Flow : \E l \in 1..Len(t.items[g]) :
            x = t.items[g][l]
       /\ \A g \in Flow : \A l \in 1..Len(t.items[g]) : t.items[g][l] \in Items(t)
  BY ItemsAt
<1>15. ASSUME NEW x, x \in Items(u)
       PROVE  x \in Items(t) /\ x.buf # t.items[f][k].buf
  <2>1. PICK g \in Flow : \E i \in 1..Len(u.items[g]) : x = u.items[g][i]
    BY <1>12, <1>15
  <2>2. PICK i \in 1..Len(u.items[g]) : x = u.items[g][i]
    BY <2>1
  <2>3. /\ from(g, i) \in 1..Len(t.items[g]) /\ x = t.items[g][from(g, i)]
        /\ g # f \/ from(g, i) # k
    BY <1>6, <2>2
  <2>4. x.buf # t.items[f][k].buf
    BY <1>9, <2>3
  <2>. QED  BY <1>14, <2>3, <2>4
<1>16. ASSUME NEW x \in Items(t), x.buf # t.items[f][k].buf PROVE x \in Items(u)
  <2>1. PICK g \in Flow : \E j \in 1..Len(t.items[g]) : x = t.items[g][j]
    BY <1>14
  <2>2. PICK j \in 1..Len(t.items[g]) : x = t.items[g][j]
    BY <2>1
  <2>3. g # f \/ j # k
    BY <1>16, <2>2
  <2>4. \E i \in 1..Len(u.items[g]) : u.items[g][i] = x
    BY <1>8, <2>2, <2>3
  <2>. QED  BY <1>13, <2>4
<1>. QED  BY <1>10, <1>15, <1>16 DEF u

\* A table without items.
LEMMA NoItems ==
  ASSUME NEW t, Balanced(t), \A f \in Flow : t.items[f] = <<>>
  PROVE  Orderly(t) /\ Items(t) = {}
<1>1. \A f \in Flow : \A k \in 1..Len(t.items[f]) : FALSE
  OBVIOUS
<1>2. Orderly(t)
  BY <1>1, Zenon DEF Orderly
<1>3. \A f \in t.live : ToSet(t.items[f]) = {}
  BY DEF Balanced, ToSet
<1>. QED  BY <1>2, <1>3, Zenon DEF Items

\* An item keeps its train while only the header of the buffer changes.
Same(b, c) == /\ c.opts = b.opts /\ c.psh = b.psh /\ c.csum = b.csum
              /\ c.cap = b.cap /\ c.len = b.len /\ c.parts = b.parts

\* A buffer that is left alone still fits its item when the batch grows.
LEMMA FitsKeeps ==
  ASSUME NEW bt \in Seq(Packet), NEW bu \in Seq(Packet), Len(bt) <= Len(bu),
         \A k \in 1..Len(bt) : bu[k] = bt[k],
         NEW b \in BufferType, NEW c, Same(b, c), NEW item, Fits(bt, b, item)
  PROVE  /\ Fits(bu, c, item)
         /\ Follows(bt, b, item) => Follows(bu, c, item)
         /\ Loose(bt, b) /\ c.hdr = b.hdr => Loose(bu, c)
         /\ Datagrams(bt, b) => Datagrams(bu, c)
<1>1. Carried(bt, b) /\ Train(Payload(bt, b), item, b)
  BY DEF Fits
<1>2. Payload(bu, c) = Payload(bt, b) /\ Carried(bu, c)
  BY <1>1, PayloadKeeps DEF Same
<1>. DEFINE P == Payload(bt, b)
<1>. HIDE DEF P
<1>3. Train(P, item, c)
  BY <1>1, Zenon DEF Train, Same, P
<1>4. /\ Segments(P, item, b) => Segments(P, item, c)
      /\ Stream(P, item, b) => Stream(P, item, c)
      /\ c.len = b.len
  BY Zenon DEF Segments, Stream, Same
<1>5. ASSUME Loose(bt, b), c.hdr = b.hdr PROVE Loose(bu, c)
  <2>1. Len(b.parts) = 1 /\ 1 \in 1..Len(b.parts)
    BY <1>5 DEF Loose
  <2>2. bu[b.parts[1]] = bt[b.parts[1]]
    BY <1>1, <2>1, Zenon DEF Carried
  <2>. QED  BY <1>5, <2>2, Zenon DEF Loose, Same
<1>6. Fits(bu, c, item)
  BY <1>2, <1>3, Zenon DEF Fits, P
<1>7. Follows(bt, b, item) => Follows(bu, c, item)
  BY <1>2, <1>4, Zenon DEF Follows, P
<1>8. Datagrams(bt, b) => Datagrams(bu, c)
  BY <1>1, Zenon DEF Datagrams, Carried, Same
<1>. QED  BY <1>5, <1>6, <1>7, <1>8
-----------------------------------------------------------------------------
(***************************************************************************)
(* Merges.                                                                 *)
(***************************************************************************)

\* What the tests of tcpPacketsCanCoalesce leave.
LEMMA TcpCanFacts ==
  ASSUME NEW p, NEW item, NEW b, NEW can, can = TcpCanCoalesce(p, item, b),
         can # "unavailable"
  PROVE  /\ p.opts = b.opts
         /\ \/ /\ can = "append" /\ p.seq = (item.seq + LhsLen(item)) % SeqSpace
               /\ ~item.psh /\ ~ShortEnd(b, item) /\ ~(p.len > item.gsoSize)
            \/ /\ can = "prepend" /\ (p.seq + p.len) % SeqSpace = item.seq
               /\ ~p.psh /\ ~(p.len < item.gsoSize)
               /\ ~(p.len > item.gsoSize /\ item.merged > 0)
<1>1. p.opts = b.opts
  BY Zenon DEF TcpCanCoalesce
<1>2. CASE p.seq = (item.seq + LhsLen(item)) % SeqSpace
  <2>1. can = IF item.psh \/ ShortEnd(b, item) \/ p.len > item.gsoSize
              THEN "unavailable" ELSE "append"
    BY <1>1, <1>2, Zenon DEF TcpCanCoalesce
  <2>. QED  BY <1>1, <1>2, <2>1, Zenon
<1>3. CASE p.seq # (item.seq + LhsLen(item)) % SeqSpace
  <2>1. (p.seq + p.len) % SeqSpace = item.seq
    BY <1>1, <1>3, Zenon DEF TcpCanCoalesce
  <2>2. can = IF \/ p.psh
                 \/ p.len < item.gsoSize
                 \/ p.len > item.gsoSize /\ item.merged > 0
              THEN "unavailable" ELSE "prepend"
    BY <1>1, <1>3, <2>1, Zenon DEF TcpCanCoalesce
  <2>. QED  BY <1>1, <2>1, <2>2, Zenon
<1>. QED  BY <1>2, <1>3, Zenon

\* What a successful merge was sure of.
LEMMA MergeFacts ==
  ASSUME NEW front, NEW item, NEW b, NEW pb, NEW bad,
         MergeResult(front, item, b, pb, bad) = "success"
  PROVE  /\ ~(front.cap < b.len + pb.len) /\ (item.merged = 0 => b.csum) /\ pb.csum
<1>1. ~(front.cap < b.len + pb.len)
  BY Zenon DEF MergeResult
<1>2. ~(item.merged = 0 /\ (bad \/ ~b.csum))
  BY <1>1, Zenon DEF MergeResult
<1>3. pb.csum
  BY <1>1, <1>2, Zenon DEF MergeResult
<1>. QED  BY <1>1, <1>2, <1>3, Zenon

\* The fields of joined buffers.
LEMMA JoinedFields ==
  \A front, back \in BufferType : \A psh \in BOOLEAN :
    /\ Joined(front, back, psh).opts = front.opts
    /\ Joined(front, back, psh).cap = front.cap
    /\ Joined(front, back, psh).len = front.len + back.len
    /\ Joined(front, back, psh).parts = front.parts \o back.parts
    /\ Joined(front, back, psh).hdr = front.hdr
BY DEF Joined, BufferType

\* The PSH flag of joined buffers is the one asked for.
LEMMA JoinedPsh ==
  \A front, back \in BufferType : \A psh \in BOOLEAN :
    Joined(front, back, psh).psh = psh
BY DEF Joined, BufferType

\* A merge leaves the header of a buffer unset.
LEMMA MergedHdr ==
  ASSUME NEW can, NEW b \in BufferType, b.hdr = Unset,
         NEW pb \in BufferType, pb.hdr = Unset
  PROVE  TcpMerged(can, b, pb).hdr = Unset
<1>1. b.psh \in BOOLEAN /\ pb.psh \in BOOLEAN /\ (b.psh \/ pb.psh) \in BOOLEAN
  BY DEF BufferType
<1>2. Joined(pb, b, pb.psh).hdr = Unset /\ Joined(b, pb, b.psh \/ pb.psh).hdr = Unset
  BY <1>1, JoinedFields
<1>. QED  BY <1>2, Zenon DEF TcpMerged

\* The payload of an item without a short end is as long as tcpGRO takes it to
\* be, if 16 bits can count it.
LEMMA LhsIsLen ==
  ASSUME NEW P \in Seq(Packet), NEW item \in ItemOfTcp, NEW b \in BufferType,
         Train(P, item, b), ~ShortEnd(b, item)
  PROVE  /\ b.len < LenSpace => LhsLen(item) = b.len
         /\ b.len = (item.merged + 1) * item.gsoSize
<1>. DEFINE g == item.gsoSize
            m == item.merged
            y == m * g
            l == P[Len(P)].len
<1>1. /\ g \in Nat /\ m \in Nat /\ b.len \in Nat
  BY DEF ItemOfTcp, BufferType
<1>2. Len(P) = m + 1 /\ l \in 1..g /\ b.len = (Len(P) - 1) * g + l
  BY DEF Train
<1>3. Len(P) - 1 = m
  BY <1>1, <1>2
<1>4. b.len = y + l
  BY <1>2, <1>3, Zenon
<1>5. (m * g + l) % g = 0
  BY <1>4 DEF ShortEnd
<1>6. l = g
  BY <1>1, <1>2, <1>5, NoShortEnd
<1>7. y \in Nat
  <2>1. \A a, k \in Nat : a * k \in Nat
    OBVIOUS
  <2>. QED  BY <1>1, <2>1
<1>8. LhsLen(item) = (g + y) % LenSpace
  BY DEF LhsLen
<1>. HIDE DEF g, m, y, l
<1>9. g + y = b.len /\ (b.len < LenSpace => b.len \in 0..(LenSpace - 1))
  BY <1>1, <1>2, <1>4, <1>6, <1>7, SpaceAssumption
<1>10. b.len = (m + 1) * g
  BY <1>1, <1>9 DEF y
<1>. QED  BY <1>8, <1>9, <1>10, SpaceAssumption DEF m, g

\* Packet p, the n-th of its batch, may join the others in buffer b, which makes
\* it buffer c and item j.
MayFollow(p, n, item, b, j, c) ==
  /\ p.opts = b.opts /\ p.csum /\ ~ShortEnd(b, item) /\ ~(p.len > item.gsoSize)
  /\ (item.merged = 0 => b.csum) /\ ~(b.cap < b.len + p.len)
  /\ j.merged = item.merged + 1 /\ j.gsoSize = item.gsoSize
  /\ c.opts = b.opts /\ c.cap = b.cap /\ c.len = b.len + p.len
  /\ c.parts = b.parts \o <<n>>

\* The segment behind the others.
LEMMA AppendMerges ==
  ASSUME NEW bt, NEW bu, Extends(bt, bu), NEW n \in 1..Len(bu), NEW p, p = bu[n],
         p.len # 0, NEW item, item.gsoSize \in Nat, item.merged \in Nat,
         NEW b \in BufferType, Fits(bt, b, item), NEW j, NEW c \in BufferType,
         MayFollow(p, n, item, b, j, c)
  PROVE  /\ Fits(bu, c, j)
         /\ Payload(bt, b) # <<>>
<1>0. /\ p.opts = b.opts /\ p.csum /\ ~ShortEnd(b, item) /\ ~(p.len > item.gsoSize)
      /\ (item.merged = 0 => b.csum) /\ ~(b.cap < b.len + p.len)
      /\ j.merged = item.merged + 1 /\ j.gsoSize = item.gsoSize
      /\ c.opts = b.opts /\ c.cap = b.cap /\ c.len = b.len + p.len
      /\ c.parts = b.parts \o <<n>>
  BY Zenon DEF MayFollow
<1>1. /\ bt \in Seq(Packet) /\ bu \in Seq(Packet) /\ Len(bt) <= Len(bu)
      /\ \A k \in 1..Len(bt) : bu[k] = bt[k]
  BY Zenon DEF Extends
<1>. DEFINE P == Payload(bt, b)
<1>2. Carried(bt, b) /\ Train(P, item, b)
  BY DEF Fits
<1>3. P \in Seq(Packet)
  BY <1>1, <1>2, PayloadType
<1>4. Payload(bu, c) = Append(P, p) /\ Carried(bu, c)
  BY <1>0, <1>2, PayloadBehind
<1>. HIDE DEF P
<1>5. p \in Packet /\ p.len \in Nat
  BY <1>1, SeqFacts, PacketAssumption, SpaceAssumption
<1>6. b.len \in Nat /\ b.cap \in Nat
  BY DEF BufferType
<1>7. p.len <= item.gsoSize /\ b.len + p.len <= b.cap
  BY <1>0, <1>5, <1>6
<1>8. Train(Append(P, p), j, c)
  BY <1>0, <1>2, <1>3, <1>5, <1>6, <1>7, TrainAppend
<1>9. P # <<>>
  <2>1. Len(P) = item.merged + 1
    BY <1>2, Zenon DEF Train
  <2>. QED  BY <2>1
<1>. QED  BY <1>3, <1>4, <1>8, <1>9 DEF Fits, P

\* tcpGRO finds that packet p in buffer pb can join the item in buffer b.
Coalesces(can, p, item, b, pb) ==
  /\ can = TcpCanCoalesce(p, item, b) /\ can # "unavailable"
  /\ TcpMerge(can, item, b, pb) = "success"

\* A segment merged by tcpGRO, on either side.
LEMMA TcpMergeFits ==
  ASSUME NEW bt, NEW bu, Extends(bt, bu), NEW n \in 1..Len(bu), NEW p, p = bu[n],
         p.proto = "tcp", p.len # 0, NEW item \in ItemOfTcp, NEW b \in BufferType,
         Fits(bt, b, item), Follows(bt, b, item),
         NEW can, Coalesces(can, p, item, b, Buffer(p, n))
  PROVE  /\ Fits(bu, TcpMerged(can, b, Buffer(p, n)), TcpMergedItem(can, item, p))
         /\ Follows(bu, TcpMerged(can, b, Buffer(p, n)), TcpMergedItem(can, item, p))
<1>. DEFINE pb == Buffer(p, n)
            c == TcpMerged(can, b, pb)
            j == TcpMergedItem(can, item, p)
            P == Payload(bt, b)
<1>1. bt \in Seq(Packet) /\ bu \in Seq(Packet) /\ Len(bt) <= Len(bu)
      /\ \A k \in 1..Len(bt) : bu[k] = bt[k]
  BY Zenon DEF Extends
<1>2. p \in Packet /\ p.seq \in Nat /\ p.len \in Nat /\ p.cap \in Nat /\ n \in Nat
  BY <1>1, SeqFacts, PacketAssumption, SpaceAssumption
<1>3. /\ pb \in BufferType /\ pb.opts = p.opts /\ pb.cap = p.cap /\ pb.len = p.len
      /\ pb.parts = <<n>> /\ pb.hdr = Unset
  BY <1>2, BufferTyped DEF Buffer
<1>4. pb.psh = p.psh /\ pb.csum = p.csum
  BY Zenon DEF Buffer
<1>5. /\ item.gsoSize \in Nat /\ item.merged \in Nat /\ item.seq \in Nat
      /\ b.len \in Nat /\ b.cap \in Nat
  BY DEF ItemOfTcp, BufferType
<1>6. b.psh \in BOOLEAN /\ pb.psh \in BOOLEAN /\ (b.psh \/ pb.psh) \in BOOLEAN
  BY <1>3, Zenon DEF BufferType
<1>7. /\ p.opts = b.opts
      /\ \/ /\ can = "append" /\ p.seq = (item.seq + LhsLen(item)) % SeqSpace
            /\ ~item.psh /\ ~ShortEnd(b, item) /\ ~(p.len > item.gsoSize)
         \/ /\ can = "prepend" /\ (p.seq + p.len) % SeqSpace = item.seq
            /\ ~p.psh /\ ~(p.len < item.gsoSize)
            /\ ~(p.len > item.gsoSize /\ item.merged > 0)
  <2>1. can = TcpCanCoalesce(p, item, b) /\ can # "unavailable"
    BY Zenon DEF Coalesces
  <2>. QED  BY <2>1, TcpCanFacts
<1>8. /\ ~((IF can = "prepend" THEN pb ELSE b).cap < b.len + pb.len)
      /\ item.merged = 0 => b.csum
      /\ pb.csum
  <2>1. TcpMerge(can, item, b, pb) = "success"
    BY Zenon DEF Coalesces
  <2>. QED  BY <2>1, MergeFacts DEF TcpMerge
<1>9. p.csum
  BY <1>4, <1>8, Zenon
<1>10. /\ P \in Seq(Packet) /\ Train(P, item, b) /\ Carried(bt, b)
       /\ Segments(P, item, b)
       /\ b.len < LenSpace => Stream(P, item, b) /\ Spaced(P, item)
  <2>1. /\ Carried(bt, b) /\ Train(P, item, b) /\ Segments(P, item, b)
        /\ b.len < LenSpace => Stream(P, item, b) /\ Spaced(P, item)
    BY Zenon DEF Fits, Follows
  <2>. QED  BY <1>1, <2>1, PayloadType
<1>11. /\ j.merged = item.merged + 1
       /\ j.gsoSize = IF p.len > item.gsoSize THEN p.len ELSE item.gsoSize
       /\ j.seq = IF can = "prepend" THEN p.seq ELSE item.seq
       /\ j.psh = IF can = "append" THEN item.psh \/ p.psh ELSE item.psh
  BY DEF TcpMergedItem, ItemOfTcp
<1>12. c \in BufferType
  BY <1>3, MergedTyped
<1>. HIDE DEF pb, j, P
<1>13. CASE can = "append"
  <2>. DEFINE psh == b.psh \/ pb.psh
  <2>1. c = Joined(b, pb, psh) /\ psh \in BOOLEAN
    BY <1>6, <1>13, Zenon DEF TcpMerged
  <2>. HIDE DEF c, psh
  <2>2. /\ c.opts = b.opts /\ c.cap = b.cap /\ c.len = b.len + pb.len
        /\ c.parts = b.parts \o pb.parts /\ c.hdr = b.hdr
    BY <1>3, <2>1, JoinedFields
  <2>0. c.psh = psh
    BY <1>3, <2>1, JoinedPsh, Zenon
  <2>3. /\ p.seq = (item.seq + LhsLen(item)) % SeqSpace
        /\ ~item.psh /\ ~ShortEnd(b, item) /\ ~(p.len > item.gsoSize)
    BY <1>7, <1>13
  <2>4. j.merged = item.merged + 1 /\ j.gsoSize = item.gsoSize /\ j.seq = item.seq
    BY <1>11, <1>13, <2>3
  <2>5. ~(b.cap < b.len + p.len) /\ c.len = b.len + p.len /\ c.parts = b.parts \o <<n>>
    BY <1>3, <1>8, <1>13, <2>2
  <2>6. /\ Fits(bu, c, j) /\ Payload(bu, c) = Append(P, p) /\ P # <<>>
    <3>1. /\ Fits(bu, c, j) /\ Payload(bu, c) = Append(Payload(bt, b), p)
          /\ Payload(bt, b) # <<>>
      <4>1. MayFollow(p, n, item, b, j, c)
        BY <1>7, <1>8, <1>9, <2>2, <2>3, <2>4, <2>5, Zenon DEF MayFollow
      <4>2. Fits(bu, c, j)
        BY <1>5, <1>12, <4>1, AppendMerges
      <4>3. Payload(bu, c) = Append(Payload(bt, b), p)
        BY <1>10, <1>12, <2>5, PayloadBehind
      <4>4. Payload(bt, b) # <<>>
        BY <1>5, <1>12, <4>1, AppendMerges
      <4>. QED  BY <4>2, <4>3, <4>4, Zenon
    <3>. QED  BY <3>1 DEF P
  <2>7. (p.psh => j.psh) /\ (c.psh => b.psh \/ p.psh)
    BY <1>4, <1>11, <1>13, <2>0, Zenon DEF psh
  <2>8. Segments(Append(P, p), j, c)
    BY <1>2, <1>10, <2>3, <2>4, <2>6, <2>7, SegmentsAppend
  <2>9. ASSUME c.len < LenSpace
        PROVE  Stream(Append(P, p), j, c) /\ Spaced(Append(P, p), j)
    <3>0. b.len < LenSpace
      BY <1>2, <1>5, <2>5, <2>9, SpaceAssumption
    <3>1. Stream(P, item, b) /\ Spaced(P, item)
      BY <1>10, <3>0
    <3>2. p.seq = (item.seq + b.len) % SeqSpace
      BY <1>10, <2>3, <3>0, LhsIsLen
    <3>3. Stream(Append(P, p), j, c)
      BY <1>2, <1>5, <1>10, <2>4, <2>5, <2>6, <3>1, <3>2, StreamAppend
    <3>4. b.len = Len(P) * item.gsoSize
      <4>1. b.len = (item.merged + 1) * item.gsoSize
        BY <1>10, <2>3, LhsIsLen
      <4>2. Len(P) = item.merged + 1
        BY <1>10, Zenon DEF Train
      <4>. QED  BY <4>1, <4>2, Zenon
    <3>5. Spaced(Append(P, p), j)
      BY <1>2, <1>10, <2>4, <3>1, <3>2, <3>4, SpacedAppend
    <3>. QED  BY <3>3, <3>5
  <2>10. Follows(bu, c, j)
    BY <2>6, <2>8, <2>9, Zenon DEF Follows
  <2>. QED  BY <2>6, <2>10 DEF c, j, pb
<1>14. CASE can = "prepend"
  <2>1. c = Joined(pb, b, pb.psh)
    BY <1>14 DEF TcpMerged
  <2>. HIDE DEF c
  <2>2. /\ c.opts = pb.opts /\ c.cap = pb.cap /\ c.len = pb.len + b.len
        /\ c.parts = pb.parts \o b.parts /\ c.hdr = pb.hdr
    BY <1>3, <1>6, <2>1, JoinedFields
  <2>0. c.psh = pb.psh
    BY <1>3, <1>6, <2>1, JoinedPsh, Zenon
  <2>3. /\ (p.seq + p.len) % SeqSpace = item.seq /\ ~p.psh /\ ~(p.len < item.gsoSize)
        /\ ~(p.len > item.gsoSize /\ item.merged > 0)
    BY <1>7, <1>14
  <2>4. j.merged = item.merged + 1 /\ j.gsoSize = p.len /\ j.seq = p.seq
    BY <1>2, <1>5, <1>11, <1>14, <2>3
  <2>5. /\ p.len >= item.gsoSize /\ (p.len > item.gsoSize => item.merged = 0)
        /\ b.len + p.len <= p.cap
        /\ c.opts = p.opts /\ c.cap = p.cap /\ c.len = p.len + b.len
        /\ c.parts = <<n>> \o b.parts
    BY <1>2, <1>3, <1>5, <1>8, <1>14, <2>2, <2>3
  <2>6. Payload(bu, c) = <<p>> \o P /\ Carried(bu, c)
    <3>1. Carried(bt, b) /\ c.parts = <<n>> \o b.parts
      BY <1>10, <2>5
    <3>2. c \in BufferType /\ n \in 1..Len(bu)
      BY <1>12
    <3>3. Payload(bu, c) = <<bu[n]>> \o Payload(bt, b) /\ Carried(bu, c)
      BY <3>1, <3>2, PayloadFront
    <3>. QED  BY <3>3 DEF P
  <2>7. Train(<<p>> \o P, j, c)
    BY <1>2, <1>5, <1>7, <1>8, <1>9, <1>10, <2>4, <2>5, TrainPrepend
  <2>8. P # <<>>
    <3>1. Len(P) = item.merged + 1
      BY <1>10, Zenon DEF Train
    <3>. QED  BY <1>5, <3>1
  <2>9. (item.psh => j.psh) /\ ~c.psh
    BY <1>4, <1>11, <1>14, <2>0, <2>3, Zenon
  <2>10. Segments(<<p>> \o P, j, c)
    BY <1>2, <1>10, <2>3, <2>4, <2>8, <2>9, SegmentsPrepend
  <2>11. ASSUME c.len < LenSpace
         PROVE  Stream(<<p>> \o P, j, c) /\ Spaced(<<p>> \o P, j)
    <3>0. b.len < LenSpace
      BY <1>2, <1>5, <2>5, <2>11, SpaceAssumption
    <3>1. Stream(P, item, b) /\ Spaced(P, item)
      BY <1>10, <3>0
    <3>2. Stream(<<p>> \o P, j, c)
      BY <1>2, <1>5, <1>10, <2>3, <2>4, <2>5, <2>8, <3>1, StreamPrepend
    <3>3. Len(P) = item.merged + 1
      BY <1>10, Zenon DEF Train
    <3>4. Len(P) > 1 => item.gsoSize = p.len
      BY <1>2, <1>5, <2>5, <3>3
    <3>5. Spaced(<<p>> \o P, j)
      BY <1>2, <1>5, <1>10, <2>3, <2>4, <3>1, <3>4, SpacedPrepend
    <3>. QED  BY <3>2, <3>5
  <2>12. Fits(bu, c, j) /\ Follows(bu, c, j)
    BY <2>6, <2>7, <2>10, <2>11, Zenon DEF Fits, Follows
  <2>. QED  BY <2>12 DEF c, j, pb
<1>. QED  BY <1>7, <1>13, <1>14 DEF c, j, pb

\* A datagram behind other datagrams.
LEMMA DatagramsMore ==
  ASSUME NEW bt, NEW bu, Extends(bt, bu), NEW n \in 1..Len(bu), bu[n].proto = "udp",
         NEW b \in BufferType, Carried(bt, b), Datagrams(bt, b),
         NEW c, c.parts = b.parts \o <<n>>
  PROVE  Datagrams(bu, c)
<1>. DEFINE m == Len(b.parts)
<1>1. /\ n \in Nat /\ b.parts \in Seq(Nat) /\ m \in Nat
      /\ \A k \in 1..m : bt[b.parts[k]] = bu[b.parts[k]]
  BY PayloadExtends, Zenon DEF Extends, Carried
<1>2. /\ Len(c.parts) = m + 1 /\ c.parts[m + 1] = n
      /\ \A k \in 1..m : c.parts[k] = b.parts[k]
  BY <1>1, ConcatFacts
<1>3. \A k \in 1..m : bt[b.parts[k]].proto = "udp"
  BY Zenon DEF Datagrams
<1>. HIDE DEF m
<1>4. ASSUME NEW k \in 1..Len(c.parts) PROVE bu[c.parts[k]].proto = "udp"
  <2>1. k \in 1..m \/ k = m + 1
    BY <1>1, <1>2
  <2>2. CASE k \in 1..m
    BY <1>1, <1>2, <1>3, <2>2, Zenon
  <2>3. CASE k = m + 1
    BY <1>2, <2>3, Zenon
  <2>. QED  BY <2>1, <2>2, <2>3
<1>. QED  BY <1>4, Zenon DEF Datagrams

\* A datagram merged by udpGRO.
LEMMA UdpMergeFits ==
  ASSUME NEW bt, NEW bu, Extends(bt, bu), NEW n \in 1..Len(bu), NEW p, p = bu[n],
         p.proto = "udp", p.len # 0, NEW item \in ItemOfUdp, NEW b \in BufferType,
         Fits(bt, b, item), Datagrams(bt, b),
         UdpCanCoalesce(p, item, b) # "unavailable",
         UdpMerge(item, b, Buffer(p, n)) = "success"
  PROVE  /\ Fits(bu, UdpMerged(b, Buffer(p, n)), UdpMergedItem(item))
         /\ Datagrams(bu, UdpMerged(b, Buffer(p, n)))
<1>. DEFINE pb == Buffer(p, n)
            c == UdpMerged(b, pb)
            j == UdpMergedItem(item)
<1>1. bu \in Seq(Packet)
  BY Zenon DEF Extends
<1>2. p \in Packet /\ n \in Nat
  BY <1>1, SeqFacts
<1>3. pb \in BufferType /\ pb.len = p.len /\ pb.parts = <<n>>
  BY <1>2, BufferTyped DEF Buffer
<1>4. pb.csum = p.csum
  BY Zenon DEF Buffer
<1>5. item.gsoSize \in Nat /\ item.merged \in Nat /\ b.psh \in BOOLEAN
  BY DEF ItemOfUdp, BufferType
<1>6. p.opts = b.opts /\ ~ShortEnd(b, item) /\ ~(p.len > item.gsoSize)
  BY Zenon DEF UdpCanCoalesce
<1>7. ~(b.cap < b.len + pb.len) /\ (item.merged = 0 => b.csum) /\ pb.csum
  BY MergeFacts DEF UdpMerge
<1>8. p.csum
  BY <1>4, <1>7, Zenon
<1>9. j.merged = item.merged + 1 /\ j.gsoSize = item.gsoSize
  BY DEF UdpMergedItem, ItemOfUdp
<1>10. c \in BufferType
  BY <1>3, MergedTyped
<1>. HIDE DEF pb, j
<1>11. /\ c.opts = b.opts /\ c.cap = b.cap /\ c.len = b.len + pb.len
       /\ c.parts = b.parts \o pb.parts
  <2>. DEFINE psh == b.psh
  <2>1. c = Joined(b, pb, psh) /\ psh \in BOOLEAN
    BY <1>5, Zenon DEF UdpMerged
  <2>. HIDE DEF c, psh
  <2>2. /\ Joined(b, pb, psh).opts = b.opts /\ Joined(b, pb, psh).cap = b.cap
        /\ Joined(b, pb, psh).len = b.len + pb.len
        /\ Joined(b, pb, psh).parts = b.parts \o pb.parts
    BY <1>3, <2>1, JoinedFields
  <2>. QED  BY <2>1, <2>2, Zenon
<1>. HIDE DEF c
<1>12. c.len = b.len + p.len /\ c.parts = b.parts \o <<n>> /\ ~(b.cap < b.len + p.len)
  BY <1>3, <1>7, <1>11
<1>13. MayFollow(p, n, item, b, j, c)
  BY <1>6, <1>7, <1>8, <1>9, <1>11, <1>12, Zenon DEF MayFollow
<1>14. Fits(bu, c, j)
  BY <1>5, <1>10, <1>13, AppendMerges
<1>15. Datagrams(bu, c)
  <2>1. Carried(bt, b)
    BY Zenon DEF Fits
  <2>. QED  BY <1>12, <2>1, DatagramsMore
<1>. QED  BY <1>14, <1>15 DEF c, j, pb
-----------------------------------------------------------------------------
(***************************************************************************)
(* Merges, from the first packet to the reset.                             *)
(***************************************************************************)

\* The place of all packets is settled but perhaps of the last.
LEMMA SettledFacts ==
  ASSUME BatchHeld
  PROVE  settled \in Nat /\ cur \in Nat /\ settled <= cur
<1>1. settled \in Nat /\ cur \in Nat
  BY BatchFacts
<1>2. settled = cur - 1 \/ settled = cur
  BY DEF settled
<1>. QED  BY <1>1, <1>2

\* The items of both tables, and their buffers, which are in the queue.
LEMMA ItemBufs ==
  ASSUME BatchHeld, TablesInv
  PROVE  /\ \A x \in Items(tcp) : x \in ItemOfTcp
         /\ \A x \in Items(udp) : x \in ItemOfUdp
         /\ \A x \in Items(tcp) \cup Items(udp) :
              /\ x.buf \in 1..settled /\ bufs[x.buf] \in BufferType
              /\ \E i \in 1..Len(toWrite) : x.buf = toWrite[i]
<1>1. /\ Balanced(tcp) /\ Balanced(udp) /\ Orderly(tcp) /\ Orderly(udp)
      /\ TableHeld(tcp, ItemOfTcp, toWrite) /\ TableHeld(udp, ItemOfUdp, toWrite)
  BY DEF BatchHeld, PoolInv, Shapes, TablesInv
<1>2. /\ \A x \in Items(tcp) : x \in ItemOfTcp
      /\ \A x \in Items(tcp) : \E f \in Flow : \E k \in 1..Len(tcp.items[f]) :
           x = tcp.items[f][k]
  BY <1>1, ItemsAt
<1>3. /\ \A x \in Items(udp) : x \in ItemOfUdp
      /\ \A x \in Items(udp) : \E f \in Flow : \E k \in 1..Len(udp.items[f]) :
           x = udp.items[f][k]
  BY <1>1, ItemsAt
<1>4. \A x \in Items(tcp) \cup Items(udp) : \E i \in 1..Len(toWrite) : x.buf = toWrite[i]
  <2>1. \A f \in Flow : \A k \in 1..Len(tcp.items[f]) :
          \E i \in 1..Len(toWrite) : tcp.items[f][k].buf = toWrite[i]
    BY <1>1 DEF TableHeld
  <2>2. \A f \in Flow : \A k \in 1..Len(udp.items[f]) :
          \E i \in 1..Len(toWrite) : udp.items[f][k].buf = toWrite[i]
    BY <1>1 DEF TableHeld
  <2>3. \A x \in Items(tcp) : \E i \in 1..Len(toWrite) : x.buf = toWrite[i]
    BY <1>2, <2>1
  <2>4. \A x \in Items(udp) : \E i \in 1..Len(toWrite) : x.buf = toWrite[i]
    BY <1>3, <2>2
  <2>. QED  BY <2>3, <2>4, Zenon
<1>5. ASSUME NEW i \in 1..Len(toWrite)
      PROVE  toWrite[i] \in 1..settled /\ bufs[toWrite[i]] \in BufferType
  <2>1. /\ toWrite[i] \in 1..settled /\ bufs \in Seq(BufferType) /\ Len(bufs) = cur
        /\ cur \in Nat /\ settled <= cur /\ settled \in Nat
    BY BatchFacts, SettledFacts
  <2>2. toWrite[i] \in 1..Len(bufs)
    BY <2>1
  <2>. QED  BY <2>1, <2>2, SeqFacts
<1>. QED  BY <1>2, <1>3, <1>4, <1>5, Zenon

\* The buffers in the queue hold packets of the batch.
LEMMA QueueCarried ==
  ASSUME BatchHeld, NEW i \in 1..Len(toWrite)
  PROVE  bufs[toWrite[i]] \in BufferType /\ Carried(batch, bufs[toWrite[i]])
<1>1. Covers(Contents(bufs, toWrite), Len(toWrite), settled) /\ settled \in Nat
      /\ Len(toWrite) \in Nat
  BY BatchFacts DEF BatchHeld, Held
<1>2. Contents(bufs, toWrite)[i] \in Seq(1..settled)
  BY <1>1, CoversTypes
<1>3. bufs[toWrite[i]].parts \in Seq(1..settled)
  BY <1>2 DEF Contents
<1>4. /\ toWrite[i] \in 1..settled /\ bufs \in Seq(BufferType) /\ Len(bufs) = cur
      /\ cur \in Nat /\ settled <= cur /\ settled \in Nat
  BY BatchFacts, SettledFacts
<1>5. toWrite[i] \in 1..Len(bufs)
  BY <1>4
<1>6. bufs[toWrite[i]] \in BufferType
  BY <1>4, <1>5, SeqFacts
<1>7. ASSUME NEW k \in 1..Len(bufs[toWrite[i]].parts)
      PROVE  bufs[toWrite[i]].parts[k] \in 1..Len(batch)
  <2>1. bufs[toWrite[i]].parts[k] \in 1..settled
    BY <1>3, SeqFacts
  <2>. QED  BY <1>4, <2>1 DEF cur
<1>. QED  BY <1>6, <1>7 DEF Carried

\* A loose buffer stays one while the batch grows.
LEMMA LooseKeeps ==
  ASSUME NEW bt, NEW bu, Extends(bt, bu), NEW b \in BufferType, Carried(bt, b),
         Loose(bt, b)
  PROVE  Loose(bu, b)
<1>1. Len(b.parts) = 1 /\ 1 \in 1..Len(b.parts)
  BY DEF Loose
<1>2. bu[b.parts[1]] = bt[b.parts[1]]
  BY <1>1, Zenon DEF Carried, Extends
<1>. QED  BY <1>2, Zenon DEF Loose

\* An item keeps its train while the batch grows.
LEMMA FitsExtended ==
  ASSUME NEW bt, NEW bu, Extends(bt, bu), NEW b \in BufferType, NEW item,
         Fits(bt, b, item)
  PROVE  /\ Fits(bu, b, item)
         /\ Follows(bt, b, item) => Follows(bu, b, item)
         /\ Datagrams(bt, b) => Datagrams(bu, b)
<1>1. /\ bt \in Seq(Packet) /\ bu \in Seq(Packet) /\ Len(bt) <= Len(bu)
      /\ \A k \in 1..Len(bt) : bu[k] = bt[k]
  BY Zenon DEF Extends
<1>2. Same(b, b)
  BY DEF Same
<1>. QED  BY <1>1, <1>2, FitsKeeps

\* What is known of an item in buffer b.
TcpHolds(bt, b, item) == /\ Fits(bt, b, item) /\ Follows(bt, b, item)
                         /\ vnetHdr => b.hdr = Unset
UdpHolds(bt, b, item) == Fits(bt, b, item) /\ Datagrams(bt, b)

\* Buffer n of the queue bears its item, or is loose.
Placed(bt, bs, its, n) == (\E x \in its : x.buf = n) \/ Loose(bt, bs[n])

\* A step of handleGRO for which the only settled buffer that may change is n,
\* with its item.
GroStep(n) ==
  /\ pc \in {"gro", "scan"} /\ pc' \in {"gro", "scan"} /\ vnetHdr' = vnetHdr
  /\ Extends(batch, batch')
  /\ \A m \in 1..settled : m # n => bufs'[m] = bufs[m]

\* ... the items of a table t, of which that of buffer n is new or gone,
ItemsStep(t, u, n) ==
  /\ Orderly(u)
  /\ \A x \in Items(u) : x.buf # n => x \in Items(t)
  /\ \A x \in Items(t) : x.buf # n => x \in Items(u)

\* ... and the queue, which may get n.
QueueStep(n) ==
  /\ \A i \in 1..Len(toWrite') :
       toWrite'[i] = n \/ \E j \in 1..Len(toWrite) : toWrite'[i] = toWrite[j]
  /\ \/ vnetHdr => Placed(batch', bufs', Items(tcp') \cup Items(udp'), n)
     \/ \A i \in 1..Len(toWrite') : toWrite'[i] # n

\* A step of GRO that settles at most buffer n keeps MergeInv when the items of
\* n fit it.
LEMMA GroStepHolds ==
  ASSUME BatchHeld, MergeInv, NEW n, GroStep(n),
         ItemsStep(tcp, tcp', n), ItemsStep(udp, udp', n), QueueStep(n),
         \A x \in Items(tcp') : x.buf = n => TcpHolds(batch', bufs'[n], x),
         \A x \in Items(udp') : x.buf = n => UdpHolds(batch', bufs'[n], x),
         \A x \in Items(tcp'), y \in Items(udp') : ~(x.buf = n /\ y.buf = n),
         pc' = "scan" => /\ vnetHdr /\ bufs'[cur'] = Buffer(current', cur')
                         /\ current'.proto = "tcp" /\ current'.len # 0
  PROVE  MergeInv'
<1>1. /\ Orderly(tcp') /\ Orderly(udp')
      /\ \A x \in Items(tcp') \cup Items(udp') :
           x.buf # n => x \in Items(tcp) \cup Items(udp)
      /\ \A x \in Items(tcp') : x.buf # n => x \in Items(tcp)
      /\ \A x \in Items(udp') : x.buf # n => x \in Items(udp)
      /\ \A x \in Items(tcp) \cup Items(udp) :
           x.buf # n => x \in Items(tcp') \cup Items(udp')
  BY Zenon DEF ItemsStep
<1>2. TablesInv'
  <2>1. \A x \in Items(tcp), y \in Items(udp) : x.buf # y.buf
    BY Zenon DEF MergeInv, TablesInv
  <2>2. \A x \in Items(tcp'), y \in Items(udp') : x.buf # y.buf
    BY <1>1, <2>1, Zenon
  <2>. QED  BY <1>1, <2>2 DEF TablesInv
<1>3. /\ \A x \in Items(tcp) \cup Items(udp) :
           x.buf \in 1..settled /\ bufs[x.buf] \in BufferType
      /\ \A x \in Items(tcp) : Fits(batch, bufs[x.buf], x) /\ Follows(batch, bufs[x.buf], x)
      /\ \A x \in Items(udp) : Fits(batch, bufs[x.buf], x) /\ Datagrams(batch, bufs[x.buf])
  BY ItemBufs, Zenon DEF MergeInv, TrainsInv
<1>4. Extends(batch, batch') /\ \A m \in 1..settled : m # n => bufs'[m] = bufs[m]
  BY Zenon DEF GroStep
<1>5. ASSUME NEW x \in Items(tcp')
      PROVE  TcpHolds(batch', bufs'[x.buf], x)
  <2>1. CASE x.buf = n
    BY <2>1
  <2>2. CASE x.buf # n
    <3>1. /\ x \in Items(tcp) /\ bufs'[x.buf] = bufs[x.buf] /\ bufs[x.buf] \in BufferType
          /\ Fits(batch, bufs[x.buf], x) /\ Follows(batch, bufs[x.buf], x)
      BY <1>1, <1>3, <1>4, <2>2, Zenon
    <3>2. vnetHdr => bufs[x.buf].hdr = Unset
      BY <3>1, Zenon DEF MergeInv, LooseInv, GroStep
    <3>3. Fits(batch', bufs[x.buf], x) /\ Follows(batch', bufs[x.buf], x)
      BY <1>4, <3>1, FitsExtended
    <3>. QED  BY <3>1, <3>2, <3>3, Zenon DEF TcpHolds
  <2>. QED  BY <2>1, <2>2
<1>6. ASSUME NEW x \in Items(udp')
      PROVE  UdpHolds(batch', bufs'[x.buf], x)
  <2>1. CASE x.buf = n
    BY <2>1
  <2>2. CASE x.buf # n
    <3>1. /\ x \in Items(udp) /\ bufs'[x.buf] = bufs[x.buf] /\ bufs[x.buf] \in BufferType
          /\ Fits(batch, bufs[x.buf], x) /\ Datagrams(batch, bufs[x.buf])
      BY <1>1, <1>3, <1>4, <2>2, Zenon
    <3>3. Fits(batch', bufs[x.buf], x) /\ Datagrams(batch', bufs[x.buf])
      BY <1>4, <3>1, FitsExtended
    <3>. QED  BY <3>1, <3>3, Zenon DEF UdpHolds
  <2>. QED  BY <2>1, <2>2
<1>7. TrainsInv'
  BY <1>5, <1>6, Zenon DEF TrainsInv, TcpHolds, UdpHolds
<1>8. ASSUME vnetHdr, NEW i \in 1..Len(toWrite')
      PROVE  Placed(batch', bufs', Items(tcp') \cup Items(udp'), toWrite'[i])
  <2>1. CASE toWrite'[i] = n
    BY <1>8, <2>1, Zenon DEF QueueStep
  <2>2. CASE toWrite'[i] # n
    <3>1. PICK j \in 1..Len(toWrite) : toWrite'[i] = toWrite[j]
      BY <2>2, Zenon DEF QueueStep
    <3>2. toWrite[j] \in 1..settled /\ bufs'[toWrite[j]] = bufs[toWrite[j]]
      BY <1>4, <2>2, <3>1, BatchFacts
    <3>3. bufs[toWrite[j]] \in BufferType /\ Carried(batch, bufs[toWrite[j]])
      BY QueueCarried
    <3>4. CASE \E x \in Items(tcp) \cup Items(udp) : x.buf = toWrite[j]
      BY <1>1, <2>2, <3>1, <3>4, Zenon DEF Placed
    <3>5. CASE Loose(batch, bufs[toWrite[j]])
      <4>1. Loose(batch', bufs[toWrite[j]])
        BY <1>4, <3>3, <3>5, LooseKeeps
      <4>. QED  BY <3>1, <3>2, <4>1, Zenon DEF Placed
    <3>. QED  BY <1>8, <3>4, <3>5, Zenon DEF MergeInv, LooseInv, GroStep
  <2>. QED  BY <2>1, <2>2
<1>9. LooseInv'
  <2>1. vnetHdr' = vnetHdr
    BY DEF GroStep
  <2>2. vnetHdr' => \A x \in Items(tcp') : bufs'[x.buf].hdr = Unset
    BY <1>5, <2>1, Zenon DEF TcpHolds
  <2>3. vnetHdr' => \A i \in 1..Len(toWrite') :
          \/ \E x \in Items(tcp') \cup Items(udp') : x.buf = toWrite'[i]
          \/ Loose(batch', bufs'[toWrite'[i]])
    BY <1>8, <2>1, Zenon DEF Placed
  <2>. QED  BY <2>1, <2>2, <2>3, Zenon DEF LooseInv
<1>10. HeadersFit'
  BY DEF HeadersFit, GroStep
<1>. QED  BY <1>2, <1>7, <1>9, <1>10, Zenon DEF MergeInv

\* A packet of the batch in a buffer of its own.
LEMMA NewPacket ==
  ASSUME BatchHeld, pc = "gro", pc' \in {"gro", "scan"}, vnetHdr' = vnetHdr,
         NEW p \in Packet, NEW b \in BufferType,
         Len(batch) < size, batch' = Append(batch, p), bufs' = Append(bufs, b)
  PROVE  /\ GroStep(cur + 1) /\ cur \in Nat /\ settled = cur
         /\ batch' \in Seq(Packet) /\ cur + 1 \in 1..Len(batch')
         /\ batch'[cur + 1] = p /\ bufs'[cur + 1] = b
         /\ cur' = cur + 1 /\ current' = p
<1>1. /\ cur' = cur + 1 /\ cur + 1 \in 1..MaxBatch /\ settled = cur
      /\ current' = p
      /\ \A n \in 1..cur : bufs'[n] = bufs[n]
      /\ bufs'[cur + 1] = b
  BY OneMore
<1>2. batch \in Seq(Packet) /\ cur \in Nat /\ cur = Len(batch)
  BY BatchFacts DEF cur
<1>3. /\ batch' \in Seq(Packet) /\ Len(batch') = cur + 1 /\ batch'[cur + 1] = p
      /\ \A k \in 1..cur : batch'[k] = batch[k]
  BY <1>2, AppendFacts
<1>4. Extends(batch, batch')
  BY <1>2, <1>3 DEF Extends
<1>5. GroStep(cur + 1)
  BY <1>1, <1>4, Zenon DEF GroStep
<1>. QED  BY <1>1, <1>2, <1>3, <1>5

\* A table that stays as it is.
LEMMA SameItems ==
  ASSUME TablesInv, NEW n
  PROVE  ItemsStep(tcp, tcp, n) /\ ItemsStep(udp, udp, n)
BY DEF TablesInv, ItemsStep

\* The queue gets the buffer n, which bears an item or is loose.
LEMMA QueueGrows ==
  ASSUME BatchHeld, NEW n, toWrite' = Append(toWrite, n),
         vnetHdr => Placed(batch', bufs', Items(tcp') \cup Items(udp'), n)
  PROVE  QueueStep(n)
<1>1. \A i \in 1..Len(toWrite') :
        toWrite'[i] = n \/ \E j \in 1..Len(toWrite) : toWrite'[i] = toWrite[j]
  <2>1. toWrite \in Seq(1..settled \cup {n})
    BY BatchFacts
  <2>. QED  BY <2>1, AppendFacts
<1>. QED  BY <1>1, Zenon DEF QueueStep

\* A packet that is not merged disturbs no item.
LEMMA TakeRawMerges ==
  ASSUME BatchHeld, MergeInv, NEW p \in Packet, TakeRaw(p) \/ TakeAsIs(p)
  PROVE  MergeInv'
<1>1. cur \in Nat
  BY BatchFacts
<1>. DEFINE b == Buffer(p, cur + 1)
            c == [b EXCEPT !.hdr = Plain]
<1>2. /\ b \in BufferType /\ b.parts = <<cur + 1>>
      /\ c \in BufferType /\ c.parts = <<cur + 1>> /\ c.hdr = Plain
  <2>1. b \in BufferType /\ b.parts = <<cur + 1>> /\ c \in BufferType
        /\ c.parts = <<cur + 1>>
    BY <1>1, BufferTyped
  <2>. HIDE DEF b
  <2>2. c.hdr = Plain
    BY <2>1 DEF BufferType
  <2>. QED  BY <2>1, <2>2
<1>3. PICK d \in {b, c} : /\ Takes(p, d) /\ toWrite' = Append(toWrite, cur + 1)
                          /\ UNCHANGED <<pc, tcp, udp, scan>>
                          /\ vnetHdr => d = c
  BY DEF TakeRaw, TakeAsIs, Queue
<1>4. d \in BufferType /\ d.parts = <<cur + 1>> /\ (vnetHdr => d.hdr = Plain)
  BY <1>2, <1>3
<1>. HIDE DEF b, c
<1>5. /\ pc = "gro" /\ pc' = "gro" /\ Len(batch) < size /\ batch' = Append(batch, p)
      /\ bufs' = Append(bufs, d) /\ vnetHdr' = vnetHdr /\ tcp' = tcp /\ udp' = udp
  BY <1>3 DEF Takes
<1>6. GroStep(cur + 1) /\ settled = cur /\ bufs'[cur + 1] = d
  BY <1>4, <1>5, NewPacket
<1>7. ItemsStep(tcp, tcp', cur + 1) /\ ItemsStep(udp, udp', cur + 1)
  BY <1>5, SameItems DEF MergeInv
<1>8. \A x \in Items(tcp') \cup Items(udp') : x.buf # cur + 1
  <2>1. \A x \in Items(tcp) \cup Items(udp) : x.buf \in 1..cur
    BY <1>6, ItemBufs DEF MergeInv
  <2>. QED  BY <1>1, <1>5, <2>1
<1>9. QueueStep(cur + 1)
  <2>1. vnetHdr => Loose(batch', bufs'[cur + 1])
    <3>1. Len(d.parts) = 1
      BY <1>4
    <3>. QED  BY <1>4, <1>6, <3>1, Zenon DEF Loose
  <2>2. vnetHdr => Placed(batch', bufs', Items(tcp') \cup Items(udp'), cur + 1)
    BY <2>1, Zenon DEF Placed
  <2>. QED  BY <1>3, <2>2, QueueGrows
<1>. QED  BY <1>5, <1>6, <1>7, <1>8, <1>9, GroStepHolds

\* A packet of the batch alone in its buffer, and the item made of it.
LEMMA AloneFits ==
  ASSUME NEW bt \in Seq(Packet), NEW n \in 1..Len(bt), NEW p, p = bt[n], p.len # 0,
         NEW bad \in BOOLEAN
  PROVE  /\ Fits(bt, Buffer(p, n), TcpItem(p, n))
         /\ Fits(bt, Buffer(p, n), UdpItem(p, n, bad))
         /\ p.proto = "tcp" => Follows(bt, Buffer(p, n), TcpItem(p, n))
         /\ p.proto = "udp" => Datagrams(bt, Buffer(p, n))
         /\ Buffer(p, n).hdr = Unset
<1>. DEFINE b == Buffer(p, n)
            x == TcpItem(p, n)
            y == UdpItem(p, n, bad)
<1>1. p \in Packet /\ n \in Nat
  BY SeqFacts
<1>2. /\ b.opts = p.opts /\ b.cap = p.cap /\ b.len = p.len
      /\ b.parts = <<n>> /\ b.hdr = Unset
  BY DEF Buffer
<1>3. b.csum = p.csum /\ b.psh = p.psh
  BY Zenon DEF Buffer
<1>4. x.merged = 0 /\ x.gsoSize = p.len /\ x.seq = p.seq
  BY DEF TcpItem
<1>5. x.psh = p.psh
  BY Zenon DEF TcpItem
<1>6. y.merged = 0 /\ y.gsoSize = p.len
  BY DEF UdpItem
<1>. HIDE DEF b, x, y
<1>7. Payload(bt, b) = <<p>> /\ Carried(bt, b)
  BY <1>2, PayloadAlone
<1>. DEFINE P == Payload(bt, b)
<1>8. Train(P, x, b)
  BY <1>1, <1>2, <1>3, <1>4, <1>7, TrainAlone
<1>9. Train(P, y, b)
  BY <1>1, <1>2, <1>3, <1>6, <1>7, TrainAlone
<1>10. p.proto = "tcp" => Segments(P, x, b) /\ Stream(P, x, b)
  BY <1>1, <1>2, <1>3, <1>4, <1>5, <1>7, StreamAlone
<1>11. Spaced(P, x)
  <2>1. Spaced(<<p>>, x)
    BY <1>1, <1>4, SpacedAlone
  <2>. QED  BY <1>7, <2>1, Zenon
<1>12. p.proto = "udp" => Datagrams(bt, b)
  BY <1>2 DEF Datagrams
<1>13. Fits(bt, b, x) /\ Fits(bt, b, y) /\ (p.proto = "tcp" => Follows(bt, b, x))
  BY <1>7, <1>8, <1>9, <1>10, <1>11, Zenon DEF Fits, Follows
<1>. QED  BY <1>2, <1>12, <1>13, Zenon DEF b, x, y

\* A new item of either table, in buffer n.
LEMMA TcpInsertMerges ==
  ASSUME BatchHeld, MergeInv, NEW n \in Nat, GroStep(n), n > settled,
         toWrite' = Append(toWrite, n), NEW f \in Flow,
         NEW new \in ItemOfTcp, new.buf = n, TcpHolds(batch', bufs'[n], new),
         tcp' = Insert(tcp, f, new), udp' = udp, pc' = "gro"
  PROVE  MergeInv'
<1>1. \A x \in Items(tcp) \cup Items(udp) : x.buf # n
  <2>1. \A x \in Items(tcp) \cup Items(udp) : x.buf \in 1..settled
    BY ItemBufs DEF MergeInv
  <2>. QED  BY <2>1, SettledFacts
<1>2. /\ Orderly(tcp')
      /\ \A x : x \in Items(tcp') <=> x \in Items(tcp) \/ x = new
  <2>1. /\ Balanced(tcp) /\ TableHeld(tcp, ItemOfTcp, toWrite) /\ Orderly(tcp)
        /\ toWrite \in Seq(1..settled)
    BY BatchFacts DEF BatchHeld, PoolInv, Shapes, MergeInv, TablesInv
  <2>2. TableHeld(tcp', ItemOfTcp, Append(toWrite, n))
    BY <2>1, TableInsertQueued
  <2>3. \A x \in Items(tcp) : x.buf # new.buf
    BY <1>1
  <2>. QED  BY <2>1, <2>2, <2>3, InsertItems
<1>3. ItemsStep(tcp, tcp', n) /\ ItemsStep(udp, udp', n)
  <2>1. ItemsStep(tcp, tcp', n)
    BY <1>2 DEF ItemsStep
  <2>. QED  BY <2>1, SameItems DEF MergeInv
<1>4. QueueStep(n)
  <2>1. Placed(batch', bufs', Items(tcp') \cup Items(udp'), n)
    BY <1>2 DEF Placed
  <2>. QED  BY <2>1, QueueGrows
<1>5. \A x \in Items(tcp') : x.buf = n => TcpHolds(batch', bufs'[n], x)
  BY <1>1, <1>2
<1>6. \A x \in Items(udp') : x.buf # n
  BY <1>1
<1>. QED  BY <1>3, <1>4, <1>5, <1>6, GroStepHolds

\* A new item of a UDP flow has a buffer no other item stands for.
LEMMA UdpInsertMerges ==
  ASSUME BatchHeld, MergeInv, NEW n \in Nat, GroStep(n), n > settled,
         toWrite' = Append(toWrite, n), NEW f \in Flow,
         NEW new \in ItemOfUdp, new.buf = n, UdpHolds(batch', bufs'[n], new),
         udp' = Insert(udp, f, new), tcp' = tcp, pc' = "gro"
  PROVE  MergeInv'
<1>1. \A x \in Items(tcp) \cup Items(udp) : x.buf # n
  <2>1. \A x \in Items(tcp) \cup Items(udp) : x.buf \in 1..settled
    BY ItemBufs DEF MergeInv
  <2>. QED  BY <2>1, SettledFacts
<1>2. /\ Orderly(udp')
      /\ \A x : x \in Items(udp') <=> x \in Items(udp) \/ x = new
  <2>1. /\ Balanced(udp) /\ TableHeld(udp, ItemOfUdp, toWrite) /\ Orderly(udp)
        /\ toWrite \in Seq(1..settled)
    BY BatchFacts DEF BatchHeld, PoolInv, Shapes, MergeInv, TablesInv
  <2>2. TableHeld(udp', ItemOfUdp, Append(toWrite, n))
    BY <2>1, TableInsertQueued
  <2>3. \A x \in Items(udp) : x.buf # new.buf
    BY <1>1
  <2>. QED  BY <2>1, <2>2, <2>3, InsertItems
<1>3. ItemsStep(tcp, tcp', n) /\ ItemsStep(udp, udp', n)
  <2>1. ItemsStep(udp, udp', n)
    BY <1>2 DEF ItemsStep
  <2>. QED  BY <2>1, SameItems DEF MergeInv
<1>4. QueueStep(n)
  <2>1. Placed(batch', bufs', Items(tcp') \cup Items(udp'), n)
    BY <1>2 DEF Placed
  <2>. QED  BY <2>1, QueueGrows
<1>5. \A x \in Items(udp') : x.buf = n => UdpHolds(batch', bufs'[n], x)
  BY <1>1, <1>2
<1>6. \A x \in Items(tcp') : x.buf # n
  BY <1>1
<1>. QED  BY <1>3, <1>4, <1>5, <1>6, GroStepHolds

\* A TCP packet of a new flow is a train and a stream of its own.
LEMMA TakeTcpMerges ==
  ASSUME BatchHeld, MergeInv, NEW p \in Packet, TakeTcp(p)
  PROVE  MergeInv'
<1>. DEFINE b == Buffer(p, cur + 1)
            f == p.flow
<1>1. /\ pc = "gro" /\ pc' \in {"gro", "scan"} /\ vnetHdr
      /\ Len(batch) < size /\ batch' = Append(batch, p)
      /\ bufs' = Append(bufs, b) /\ UNCHANGED <<vnetHdr, udp>>
      /\ p.proto = "tcp" /\ p.len # 0
  BY DEF TakeTcp, Takes, NotMergeable
<1>2. f \in Flow /\ cur \in Nat /\ cur + 1 \in Nat
  BY FlowAssumption, BatchFacts
<1>3. b \in BufferType
  BY <1>2, BufferTyped
<1>4. /\ GroStep(cur + 1) /\ settled = cur
      /\ batch' \in Seq(Packet) /\ cur + 1 \in 1..Len(batch')
      /\ batch'[cur + 1] = p /\ bufs'[cur + 1] = b
      /\ cur' = cur + 1 /\ current' = p
  BY <1>1, <1>3, NewPacket
<1>5. CASE Existing(tcp, f)
  <2>1. pc' = "scan" /\ UNCHANGED <<tcp, toWrite>>
    BY <1>5 DEF TakeTcp
  <2>2. ItemsStep(tcp, tcp', cur + 1) /\ ItemsStep(udp, udp', cur + 1)
    BY <1>1, <2>1, SameItems DEF MergeInv
  <2>3. \A x \in Items(tcp') \cup Items(udp') : x.buf # cur + 1
    <3>1. \A x \in Items(tcp) \cup Items(udp) : x.buf \in 1..cur
      BY <1>4, ItemBufs DEF MergeInv
    <3>. QED  BY <1>1, <1>2, <2>1, <3>1
  <2>4. QueueStep(cur + 1)
    <3>1. \A i \in 1..Len(toWrite) : toWrite[i] \in 1..cur
      BY <1>4, BatchFacts
    <3>2. \A i \in 1..Len(toWrite') : toWrite'[i] # cur + 1
      BY <1>2, <2>1, <3>1
    <3>3. \A i \in 1..Len(toWrite') : \E j \in 1..Len(toWrite) : toWrite'[i] = toWrite[j]
      BY <2>1
    <3>. QED  BY <3>2, <3>3, Zenon DEF QueueStep
  <2>5. bufs'[cur'] = Buffer(current', cur') /\ current'.proto = "tcp"
        /\ current'.len # 0
    BY <1>1, <1>4
  <2>. HIDE DEF b
  <2>. QED  BY <1>1, <1>4, <2>2, <2>3, <2>4, <2>5, GroStepHolds
<1>6. CASE ~Existing(tcp, f)
  <2>. DEFINE item == TcpItem(p, cur + 1)
  <2>1. /\ pc' = "gro" /\ toWrite' = Append(toWrite, cur + 1)
        /\ tcp' = Insert(tcp, f, item)
    BY <1>1, <1>6 DEF TakeTcp, Queue
  <2>2. item \in ItemOfTcp /\ item.buf = cur + 1
    BY <1>2, ItemTyped
  <2>3. TcpHolds(batch', bufs'[cur + 1], item)
    <3>1. /\ Fits(batch', b, item) /\ Follows(batch', b, item) /\ b.hdr = Unset
      BY <1>1, <1>4, AloneFits
    <3>. HIDE DEF b, item
    <3>. QED  BY <1>4, <3>1 DEF TcpHolds
  <2>4. cur + 1 > settled
    BY <1>2, <1>4
  <2>. HIDE DEF b, item
  <2>. QED  BY <1>1, <1>2, <1>4, <2>1, <2>2, <2>3, <2>4, TcpInsertMerges
<1>. QED  BY <1>5, <1>6

\* The packet that tcpGRO looks for a place for is alone in its buffer.
LEMMA ScanPacket ==
  ASSUME BatchHeld, MergeInv, pc = "scan"
  PROVE  /\ vnetHdr /\ cur \in 1..Len(batch) /\ cur \in Nat /\ settled < cur
         /\ batch \in Seq(Packet) /\ current = batch[cur] /\ current \in Packet
         /\ bufs[cur] = Buffer(current, cur)
         /\ current.proto = "tcp" /\ current.len # 0
<1>1. /\ cur \in Nat /\ cur # 0 /\ batch \in Seq(Packet) /\ current = batch[cur]
      /\ cur = Len(batch) /\ settled = cur - 1
  BY BatchFacts DEF cur, current, settled
<1>2. cur \in 1..Len(batch) /\ settled < cur
  BY <1>1
<1>3. current \in Packet
  BY <1>1, <1>2, SeqFacts
<1>4. vnetHdr /\ bufs[cur] = Buffer(current, cur) /\ current.proto = "tcp"
      /\ current.len # 0
  BY Zenon DEF MergeInv, LooseInv
<1>. QED  BY <1>1, <1>2, <1>3, <1>4, Zenon

\* A packet that no item takes is a train and a stream of its own.
LEMMA ScanEndsMerges == ASSUME BatchHeld, MergeInv, ScanEnds PROVE MergeInv'
<1>. DEFINE f == current.flow
            item == TcpItem(current, cur)
<1>1. /\ pc = "scan" /\ pc' = "gro" /\ UNCHANGED <<vnetHdr, batch, udp, bufs>>
      /\ tcp' = Insert(tcp, f, item) /\ toWrite' = Append(toWrite, cur)
  BY DEF ScanEnds, Queue, ScanFrame
<1>2. /\ cur \in 1..Len(batch) /\ cur \in Nat /\ settled < cur
      /\ batch \in Seq(Packet) /\ current = batch[cur] /\ current \in Packet
      /\ bufs[cur] = Buffer(current, cur)
      /\ current.proto = "tcp" /\ current.len # 0
  BY <1>1, ScanPacket
<1>3. f \in Flow /\ item \in ItemOfTcp /\ item.buf = cur
  BY <1>2, ItemTyped, FlowAssumption
<1>4. TcpHolds(batch', bufs'[cur], item)
  <2>1. /\ Fits(batch, bufs[cur], item) /\ Follows(batch, bufs[cur], item)
        /\ bufs[cur].hdr = Unset
    BY <1>2, AloneFits
  <2>. HIDE DEF item
  <2>. QED  BY <1>1, <2>1 DEF TcpHolds
<1>5. GroStep(cur)
  BY <1>1, <1>2 DEF GroStep, Extends
<1>6. cur > settled
  BY <1>2, SettledFacts
<1>. HIDE DEF item, f
<1>. QED  BY <1>1, <1>2, <1>3, <1>4, <1>5, <1>6, TcpInsertMerges

\* An item of a table whose buffer a merge changes.
LEMMA UpdateStep ==
  ASSUME NEW t, NEW Item, NEW q, Balanced(t), TableHeld(t, Item, q), Orderly(t),
         NEW f \in Flow, NEW k \in 1..Len(t.items[f]), NEW new \in Item,
         NEW n, n = t.items[f][k].buf, new.buf = n, NEW S, q \in Seq(S)
  PROVE  /\ ItemsStep(t, UpdateAt(t, f, k, new), n)
         /\ \A x \in Items(UpdateAt(t, f, k, new)) : x.buf = n => x = new
         /\ new \in Items(UpdateAt(t, f, k, new))
         /\ t.items[f][k] \in Items(t)
<1>1. TableHeld(UpdateAt(t, f, k, new), Item, q)
  BY TableUpdate
<1>2. /\ Orderly(UpdateAt(t, f, k, new))
      /\ \A x : x \in Items(UpdateAt(t, f, k, new))
                  <=> (x \in Items(t) /\ x.buf # new.buf) \/ x = new
  BY <1>1, UpdateItems
<1>3. t.items[f][k] \in Items(t)
  BY ItemsAt
<1>. QED  BY <1>2, <1>3, Zenon DEF ItemsStep

\* A datagram merged by udpGRO continues the train of its item.
LEMMA UdpMergeMerges ==
  ASSUME BatchHeld, MergeInv, NEW p \in Packet, p.proto = "udp", p.len # 0,
         NEW k \in 1..Len(udp.items[p.flow]), NEW item, item = udp.items[p.flow][k],
         pc = "gro", pc' = "gro", Len(batch) < size, batch' = Append(batch, p),
         UdpCanCoalesce(p, item, bufs[item.buf]) # "unavailable",
         UdpMerge(item, bufs[item.buf], Buffer(p, cur + 1)) = "success",
         udp' = UpdateAt(udp, p.flow, k, UdpMergedItem(item)),
         bufs' = [Append(bufs, Buffer(p, cur + 1)) EXCEPT
                    ![item.buf] = UdpMerged(bufs[item.buf], Buffer(p, cur + 1))],
         toWrite' = toWrite, tcp' = tcp, vnetHdr' = vnetHdr
  PROVE  MergeInv'
<1>. DEFINE b == Buffer(p, cur + 1)
            f == p.flow
            n == item.buf
            more == Append(bufs, b)
            merged == UdpMerged(bufs[n], b)
            new == UdpMergedItem(item)
<1>1. f \in Flow /\ cur \in Nat /\ cur + 1 \in Nat
  BY FlowAssumption, BatchFacts
<1>2. b \in BufferType
  BY <1>1, BufferTyped
<1>3. bufs' = [more EXCEPT ![n] = merged] /\ udp' = UpdateAt(udp, f, k, new)
  OBVIOUS
<1>. HIDE DEF b
<1>4. /\ cur + 1 \in 1..MaxBatch /\ settled = cur
      /\ more \in Seq(BufferType) /\ Len(more) = cur + 1
      /\ \A m \in 1..cur : more[m] = bufs[m]
  BY <1>2, OneMore
<1>5. /\ Balanced(udp) /\ TableHeld(udp, ItemOfUdp, toWrite) /\ Orderly(udp)
      /\ toWrite \in Seq(1..cur)
  BY <1>4, BatchFacts DEF BatchHeld, PoolInv, Shapes, MergeInv, TablesInv
<1>6. item \in ItemOfUdp
  <2>1. udp.items[f] \in Seq(ItemOfUdp)
    BY <1>1, ItemsFacts
  <2>. QED  BY <2>1, SeqFacts
<1>7. new \in ItemOfUdp /\ new.buf = n
  BY <1>6, MergedItemTyped
<1>. HIDE DEF new
<1>8. /\ ItemsStep(udp, udp', n) /\ new \in Items(udp') /\ item \in Items(udp)
      /\ \A x \in Items(udp') : x.buf = n => x = new
  BY <1>1, <1>3, <1>5, <1>7, UpdateStep
<1>9. n \in 1..cur /\ bufs[n] \in BufferType
      /\ Fits(batch, bufs[n], item) /\ Datagrams(batch, bufs[n])
      /\ \A x \in Items(tcp) : x.buf # n
  BY <1>4, <1>8, ItemBufs DEF MergeInv, TrainsInv, TablesInv
<1>10. merged \in BufferType
  BY <1>2, <1>9, MergedTyped
<1>11. /\ batch \in Seq(Packet) /\ batch' \in Seq(Packet) /\ cur = Len(batch)
       /\ Extends(batch, batch')
       /\ cur + 1 \in 1..Len(batch') /\ batch'[cur + 1] = p
  <2>1. batch \in Seq(Packet) /\ cur = Len(batch)
    BY BatchFacts DEF cur
  <2>2. /\ batch' \in Seq(Packet) /\ Len(batch') = cur + 1 /\ batch'[cur + 1] = p
        /\ \A m \in 1..cur : batch'[m] = batch[m]
    BY <2>1, AppendFacts
  <2>. QED  BY <1>1, <2>1, <2>2 DEF Extends
<1>12. Fits(batch', merged, new) /\ Datagrams(batch', merged)
  BY <1>6, <1>9, <1>11, UdpMergeFits DEF b, new
<1>. HIDE DEF more, merged, n
<1>13. /\ bufs'[n] = merged
       /\ \A m \in 1..cur : m # n => bufs'[m] = bufs[m]
  <2>1. n \in 1..(cur + 1)
    BY <1>1, <1>9
  <2>2. /\ [more EXCEPT ![n] = merged][n] = merged
        /\ \A m \in 1..Len(more) : m # n => [more EXCEPT ![n] = merged][m] = more[m]
    BY <1>4, <1>10, <2>1, ReplaceFacts
  <2>3. \A m \in 1..cur : m \in 1..(cur + 1)
    BY <1>1
  <2>. QED  BY <1>3, <1>4, <2>2, <2>3
<1>14. GroStep(n)
  BY <1>4, <1>11, <1>13, Zenon DEF GroStep
<1>15. ItemsStep(tcp, tcp', n)
  BY SameItems DEF MergeInv
<1>16. QueueStep(n)
  BY <1>7, <1>8, Zenon DEF QueueStep, Placed
<1>17. /\ \A x \in Items(tcp') : x.buf # n
       /\ \A x \in Items(udp') : x.buf = n => UdpHolds(batch', bufs'[n], x)
  BY <1>8, <1>9, <1>12, <1>13 DEF UdpHolds
<1>. QED  BY <1>8, <1>14, <1>15, <1>16, <1>17, GroStepHolds

\* A UDP packet continues the train of an item or begins one.
LEMMA TakeUdpMerges ==
  ASSUME BatchHeld, MergeInv, NEW p \in Packet, TakeUdp(p)
  PROVE  MergeInv'
<1>. DEFINE f == p.flow
            item == Last(udp.items[f])
            b == Buffer(p, cur + 1)
            k == Len(udp.items[f])
            free == UdpCanCoalesce(p, item, bufs[item.buf]) # "unavailable"
            success == UdpMerge(item, bufs[item.buf], b) = "success"
<1>1. /\ pc = "gro" /\ pc' = "gro" /\ Len(batch) < size /\ batch' = Append(batch, p)
      /\ vnetHdr' = vnetHdr /\ tcp' = tcp /\ p.proto = "udp" /\ p.len # 0
  BY DEF TakeUdp, NotMergeable
<1>2. f \in Flow /\ cur \in Nat /\ cur + 1 \in Nat
  BY FlowAssumption, BatchFacts
<1>3. \/ \E bad \in BOOLEAN :
           /\ udp' = Insert(udp, f, UdpItem(p, cur + 1, bad))
           /\ bufs' = Append(bufs, b) /\ toWrite' = Append(toWrite, cur + 1)
      \/ /\ Existing(udp, f) /\ free /\ success
         /\ udp' = UpdateAt(udp, f, k, UdpMergedItem(item))
         /\ bufs' = [Append(bufs, b) EXCEPT ![item.buf] = UdpMerged(bufs[item.buf], b)]
         /\ toWrite' = toWrite
  <2>1. CASE Existing(udp, f)
    <3>1. UdpGRO(p, item, b)
      BY <2>1 DEF TakeUdp
    <3>. HIDE DEF b, item, k, f
    <3>. DEFINE can == UdpCanCoalesce(p, item, bufs[item.buf])
                merge == IF can = "unavailable" THEN can
                         ELSE UdpMerge(item, bufs[item.buf], b)
    <3>2. CASE merge = "success"
      <4>1. can # "unavailable" /\ UdpMerge(item, bufs[item.buf], b) = "success"
        BY <3>2
      <4>2. /\ udp' = UpdateAt(udp, f, k, UdpMergedItem(item))
            /\ bufs' = [Append(bufs, b) EXCEPT ![item.buf] = UdpMerged(bufs[item.buf], b)]
            /\ toWrite' = toWrite
        BY <3>1, <3>2 DEF UdpGRO, f, k
      <4>. QED  BY <2>1, <4>1, <4>2
    <3>3. CASE merge # "success"
      <4>1. /\ udp' = Insert(udp, f, UdpItem(p, cur + 1, merge = "pktInvalidCSum"))
            /\ bufs' = Append(bufs, b) /\ toWrite' = Append(toWrite, cur + 1)
        BY <3>1, <3>3 DEF UdpGRO, Queue, f
      <4>. QED  BY <4>1
    <3>. QED  BY <3>2, <3>3
  <2>2. CASE ~Existing(udp, f)
    BY <2>2 DEF TakeUdp, Queue
  <2>. QED  BY <2>1, <2>2
<1>4. ASSUME NEW bad \in BOOLEAN,
             udp' = Insert(udp, f, UdpItem(p, cur + 1, bad)),
             bufs' = Append(bufs, b), toWrite' = Append(toWrite, cur + 1)
      PROVE  MergeInv'
  <2>. DEFINE new == UdpItem(p, cur + 1, bad)
  <2>1. b \in BufferType /\ new \in ItemOfUdp /\ new.buf = cur + 1
    BY <1>2, BufferTyped, ItemTyped
  <2>2. /\ GroStep(cur + 1) /\ settled = cur
        /\ batch' \in Seq(Packet) /\ cur + 1 \in 1..Len(batch')
        /\ batch'[cur + 1] = p /\ bufs'[cur + 1] = b
    BY <1>1, <1>4, <2>1, NewPacket
  <2>3. UdpHolds(batch', bufs'[cur + 1], new)
    <3>1. Fits(batch', b, new) /\ Datagrams(batch', b)
      BY <1>1, <2>2, AloneFits
    <3>. HIDE DEF b, new
    <3>. QED  BY <2>2, <3>1, Zenon DEF UdpHolds
  <2>4. cur + 1 > settled /\ udp' = Insert(udp, f, new)
    BY <1>2, <1>4, <2>2
  <2>. HIDE DEF b, new
  <2>. QED  BY <1>1, <1>2, <1>4, <2>1, <2>2, <2>3, <2>4, UdpInsertMerges
<1>5. ASSUME Existing(udp, f), free, success,
             udp' = UpdateAt(udp, f, k, UdpMergedItem(item)),
             bufs' = [Append(bufs, b) EXCEPT
                        ![item.buf] = UdpMerged(bufs[item.buf], b)],
             toWrite' = toWrite
      PROVE  MergeInv'
  <2>1. udp.items[f] \in Seq(ItemOfUdp) /\ udp.items[f] # <<>>
    BY <1>2, <1>5, ItemsFacts DEF Existing, BatchHeld, ScanInv
  <2>2. k \in 1..Len(udp.items[f]) /\ item = udp.items[f][k]
    BY <2>1 DEF Last
  <2>. HIDE DEF item, k
  <2>. QED  BY <1>1, <1>5, <2>2, UdpMergeMerges
<1>. QED  BY <1>3, <1>4, <1>5

\* A batch extends itself.
LEMMA ExtendsSelf ==
  ASSUME NEW bt \in Seq(Packet)
  PROVE  Extends(bt, bt)
BY DEF Extends

\* The buffers after a merge of tcpGRO.
LEMMA TcpBufsValues ==
  ASSUME BatchHeld, pc = "scan", scan > 0, NEW can,
         NEW f, f = current.flow, NEW item, item = tcp.items[f][scan]
  PROVE  /\ TcpBufs(can, item)[item.buf] = TcpMerged(can, bufs[item.buf], bufs[cur])
         /\ \A m \in 1..settled : m # item.buf => TcpBufs(can, item)[m] = bufs[m]
<1>0. /\ cur \in 1..MaxBatch /\ settled = cur - 1 /\ item.buf \in 1..(cur - 1)
      /\ bufs[item.buf] \in BufferType /\ bufs[cur] \in BufferType
  BY ScanFacts
<1>1. /\ cur \in Nat /\ item.buf \in 1..cur /\ cur \in 1..cur /\ item.buf # cur
      /\ \A m \in 1..(cur - 1) : m \in 1..cur /\ m # cur
  BY <1>0, BatchAssumption
<1>. DEFINE n == item.buf
            merged == TcpMerged(can, bufs[n], bufs[cur])
            x == IF can = "prepend" THEN bufs[n] ELSE bufs[cur]
<1>2. bufs \in Seq(BufferType) /\ Len(bufs) = cur
  BY BatchFacts
<1>3. TcpBufs(can, item) = [bufs EXCEPT ![n] = merged, ![cur] = x]
  BY DEF TcpBufs
<1>. HIDE DEF merged, x
<1>4. DOMAIN bufs = 1..cur
  BY <1>2
<1>5. TcpBufs(can, item)[n] = merged
  BY <1>1, <1>3, <1>4
<1>6. \A m \in 1..(cur - 1) : m # n => TcpBufs(can, item)[m] = bufs[m]
  BY <1>1, <1>3, <1>4
<1>. QED  BY <1>0, <1>5, <1>6 DEF n, merged

\* A segment merged by tcpGRO continues the train and the stream of its item.
LEMMA ScanMergesMerges ==
  ASSUME BatchHeld, MergeInv, pc = "scan", scan > 0,
         NEW can, NEW f, f = current.flow, NEW item, item = tcp.items[f][scan],
         Coalesces(can, current, item, bufs[item.buf], bufs[cur]),
         tcp' = UpdateAt(tcp, f, scan, TcpMergedItem(can, item, current)),
         bufs' = TcpBufs(can, item), pc' = "gro", toWrite' = toWrite, ScanFrame
  PROVE  MergeInv'
<1>1. /\ current \in Packet /\ f \in Flow /\ scan \in 1..Len(tcp.items[f])
      /\ settled = cur - 1 /\ item \in ItemOfTcp
      /\ item.buf \in 1..(cur - 1) /\ bufs[item.buf] \in BufferType
  BY ScanFacts
<1>0. /\ TcpBufs(can, item)[item.buf] = TcpMerged(can, bufs[item.buf], bufs[cur])
      /\ \A m \in 1..settled : m # item.buf => TcpBufs(can, item)[m] = bufs[m]
  BY TcpBufsValues
<1>. DEFINE n == item.buf
            merged == TcpMerged(can, bufs[n], bufs[cur])
            new == TcpMergedItem(can, item, current)
<1>2. /\ cur \in 1..Len(batch) /\ batch \in Seq(Packet) /\ current = batch[cur]
      /\ bufs[cur] = Buffer(current, cur) /\ current.proto = "tcp" /\ current.len # 0
  BY ScanPacket
<1>3. UNCHANGED <<vnetHdr, batch, udp>>
  BY DEF ScanFrame
<1>4. /\ Balanced(tcp) /\ TableHeld(tcp, ItemOfTcp, toWrite) /\ Orderly(tcp)
      /\ toWrite \in Seq(1..settled)
  BY BatchFacts DEF BatchHeld, PoolInv, Shapes, MergeInv, TablesInv
<1>5. new \in ItemOfTcp /\ new.buf = n /\ tcp' = UpdateAt(tcp, f, scan, new)
  <2>1. current \in Packet /\ item \in ItemOfTcp
    BY <1>1
  <2>2. \A x \in ItemOfTcp : /\ TcpMergedItem(can, x, current) \in ItemOfTcp
                             /\ TcpMergedItem(can, x, current).buf = x.buf
    BY <2>1, MergedItemTyped
  <2>. QED  BY <2>1, <2>2
<1>. HIDE DEF new
<1>6. /\ ItemsStep(tcp, tcp', n) /\ new \in Items(tcp') /\ item \in Items(tcp)
      /\ \A x \in Items(tcp') : x.buf = n => x = new
  BY <1>1, <1>4, <1>5, UpdateStep
<1>7. /\ Fits(batch, bufs[n], item) /\ Follows(batch, bufs[n], item)
      /\ bufs[n].hdr = Unset
      /\ \A x \in Items(udp) : x.buf # n
  <2>1. vnetHdr
    BY ScanPacket
  <2>. QED  BY <1>6, <2>1, Zenon DEF MergeInv, TrainsInv, TablesInv, LooseInv
<1>8. Extends(batch, batch)
  BY <1>2, ExtendsSelf
<1>9. Fits(batch, merged, new) /\ Follows(batch, merged, new) /\ merged.hdr = Unset
  <2>. DEFINE b == bufs[n]
              p == current
              c == TcpMerged(can, b, Buffer(p, cur))
  <2>1. /\ p = batch[cur] /\ p.proto = "tcp" /\ p.len # 0
        /\ Coalesces(can, p, item, b, Buffer(p, cur))
        /\ merged = c /\ new = TcpMergedItem(can, item, p)
        /\ b \in BufferType
        /\ Fits(batch, b, item) /\ Follows(batch, b, item) /\ b.hdr = Unset
    BY <1>1, <1>2, <1>7, Zenon DEF new
  <2>. HIDE DEF b, p, merged
  <2>2. Fits(batch, c, TcpMergedItem(can, item, p))
    BY <1>1, <1>2, <1>8, <2>1, TcpMergeFits
  <2>3. Follows(batch, c, TcpMergedItem(can, item, p))
    BY <1>1, <1>2, <1>8, <2>1, TcpMergeFits
  <2>4. c.hdr = Unset
    <3>1. cur \in Nat
      BY BatchFacts
    <3>2. Buffer(p, cur) \in BufferType /\ Buffer(p, cur).hdr = Unset
      BY <1>1, <3>1, BufferTyped DEF p, Buffer
    <3>. QED  BY <2>1, <3>2, MergedHdr
  <2>. QED  BY <2>1, <2>2, <2>3, <2>4, Zenon
<1>10. /\ bufs'[n] = merged
       /\ \A m \in 1..settled : m # n => bufs'[m] = bufs[m]
  BY <1>0
<1>. HIDE DEF merged, n
<1>11. GroStep(n)
  BY <1>3, <1>8, <1>10, Zenon DEF GroStep
<1>12. ItemsStep(udp, udp', n)
  BY <1>3, SameItems DEF MergeInv
<1>13. QueueStep(n)
  BY <1>5, <1>6, Zenon DEF QueueStep, Placed, n
<1>14. /\ \A x \in Items(udp') : x.buf # n
       /\ \A x \in Items(tcp') : x.buf = n => TcpHolds(batch', bufs'[n], x)
  BY <1>3, <1>6, <1>7, <1>9, <1>10 DEF TcpHolds
<1>. QED  BY <1>6, <1>11, <1>12, <1>13, <1>14, GroStepHolds

\* The packet is refused: it goes as it is.
LEMMA ScanRefusesMerges ==
  ASSUME BatchHeld, MergeInv, pc = "scan", pc' = "gro",
         bufs' = [bufs EXCEPT ![cur].hdr = Plain], toWrite' = Append(toWrite, cur),
         tcp' = tcp, ScanFrame
  PROVE  MergeInv'
<1>1. /\ cur \in 1..Len(batch) /\ cur \in Nat /\ settled < cur
      /\ batch \in Seq(Packet) /\ current \in Packet
      /\ bufs[cur] = Buffer(current, cur)
  BY ScanPacket
<1>2. UNCHANGED <<vnetHdr, batch, udp>>
  BY DEF ScanFrame
<1>3. /\ bufs \in Seq(BufferType) /\ Len(bufs) = cur /\ settled \in Nat
      /\ bufs[cur] \in BufferType /\ bufs[cur].parts = <<cur>>
  BY <1>1, BatchFacts, BufferTyped
<1>. DEFINE b == [bufs[cur] EXCEPT !.hdr = Plain]
<1>4. b.hdr = Plain /\ b.parts = <<cur>>
  BY <1>3 DEF BufferType
<1>. HIDE DEF b
<1>5. bufs'[cur] = b /\ \A m \in 1..settled : m # cur => bufs'[m] = bufs[m]
  <2>1. bufs' = [bufs EXCEPT ![cur] = b]
    BY DEF b
  <2>2. DOMAIN bufs = 1..cur /\ cur \in 1..cur /\ \A m \in 1..settled : m \in 1..cur
    BY <1>1, <1>3
  <2>. QED  BY <2>1, <2>2
<1>6. GroStep(cur)
  <2>1. Extends(batch, batch')
    BY <1>1, <1>2 DEF Extends
  <2>. QED  BY <1>2, <1>5, <2>1, Zenon DEF GroStep
<1>7. ItemsStep(tcp, tcp', cur) /\ ItemsStep(udp, udp', cur)
  BY <1>2, SameItems DEF MergeInv
<1>8. \A x \in Items(tcp') \cup Items(udp') : x.buf # cur
  <2>1. \A x \in Items(tcp) \cup Items(udp) : x.buf \in 1..settled
    BY ItemBufs DEF MergeInv
  <2>. QED  BY <1>1, <1>2, <1>3, <2>1
<1>9. QueueStep(cur)
  <2>1. Loose(batch', bufs'[cur])
    <3>1. Len(b.parts) = 1
      BY <1>4
    <3>. QED  BY <1>4, <1>5, <3>1, Zenon DEF Loose
  <2>2. Placed(batch', bufs', Items(tcp') \cup Items(udp'), cur)
    BY <2>1, Zenon DEF Placed
  <2>. QED  BY <2>2, QueueGrows
<1>. QED  BY <1>6, <1>7, <1>8, <1>9, GroStepHolds

\* The item is passed over.
LEMMA ScanPassesMerges ==
  ASSUME BatchHeld, MergeInv, pc = "scan", pc' = pc,
         UNCHANGED <<bufs, toWrite, tcp>>, ScanFrame
  PROVE  MergeInv'
<1>1. /\ vnetHdr /\ cur \in Nat /\ settled < cur /\ batch \in Seq(Packet)
      /\ bufs[cur] = Buffer(current, cur) /\ current.proto = "tcp" /\ current.len # 0
  BY ScanPacket
<1>2. /\ UNCHANGED <<vnetHdr, batch, udp>> /\ cur' = cur /\ current' = current
  BY DEF ScanFrame, cur, current
<1>3. GroStep(cur)
  <2>1. Extends(batch, batch')
    BY <1>1, <1>2 DEF Extends
  <2>. QED  BY <1>2, <2>1, Zenon DEF GroStep
<1>4. ItemsStep(tcp, tcp', cur) /\ ItemsStep(udp, udp', cur)
  BY <1>2, SameItems DEF MergeInv
<1>5. settled \in Nat /\ \A i \in 1..Len(toWrite) : toWrite[i] \in 1..settled
  BY BatchFacts
<1>6. \A x \in Items(tcp') \cup Items(udp') : x.buf # cur
  <2>1. \A x \in Items(tcp) \cup Items(udp) : x.buf \in 1..settled
    BY ItemBufs DEF MergeInv
  <2>. QED  BY <1>1, <1>2, <1>5, <2>1
<1>7. QueueStep(cur)
  <2>1. \A i \in 1..Len(toWrite') : toWrite'[i] # cur
    BY <1>1, <1>5
  <2>. QED  BY <2>1, Zenon DEF QueueStep
<1>. QED  BY <1>1, <1>2, <1>3, <1>4, <1>6, <1>7, GroStepHolds

\* An item whose own checksum is bad is dropped, its packet stays in the queue.
LEMMA ScanDropsMerges ==
  ASSUME BatchHeld, MergeInv, pc = "scan", scan > 0, pc' = "scan",
         NEW f, f = current.flow, NEW item, item = tcp.items[f][scan],
         item.merged = 0, ~bufs[item.buf].csum,
         tcp' = DeleteAt(tcp, f, scan), UNCHANGED <<bufs, toWrite>>, ScanFrame
  PROVE  MergeInv'
<1>1. /\ f \in Flow /\ scan \in 1..Len(tcp.items[f]) /\ item.buf \in 1..(cur - 1)
      /\ bufs[item.buf] \in BufferType
  BY ScanFacts
<1>2. /\ vnetHdr /\ batch \in Seq(Packet)
      /\ bufs[cur] = Buffer(current, cur) /\ current.proto = "tcp" /\ current.len # 0
  BY ScanPacket
<1>3. UNCHANGED <<vnetHdr, batch, udp>> /\ cur' = cur /\ current' = current
  BY DEF ScanFrame, cur, current
<1>4. /\ Balanced(tcp) /\ TableHeld(tcp, ItemOfTcp, toWrite) /\ Orderly(tcp)
  BY DEF BatchHeld, PoolInv, Shapes, MergeInv, TablesInv
<1>5. item \in Items(tcp)
  BY <1>1, <1>4, ItemsAt
<1>. DEFINE n == item.buf
            b == bufs[n]
<1>6. /\ Orderly(tcp')
      /\ \A x : x \in Items(tcp') => x \in Items(tcp) /\ x.buf # n
      /\ \A x \in Items(tcp) : x.buf # n => x \in Items(tcp')
  <2>1. TableHeld(DeleteAt(tcp, f, scan), ItemOfTcp, toWrite)
    BY <1>1, <1>4, TableDelete
  <2>. QED  BY <1>1, <1>4, <2>1, DeleteItems
<1>7. /\ Fits(batch, b, item) /\ Follows(batch, b, item) /\ b.hdr = Unset
      /\ \A x \in Items(udp) : x.buf # n
  BY <1>2, <1>5, Zenon DEF MergeInv, TrainsInv, TablesInv, LooseInv
<1>8. Loose(batch, b)
  <2>. DEFINE P == Payload(batch, b)
  <2>1. Carried(batch, b) /\ Train(P, item, b) /\ Segments(P, item, b)
    BY <1>7, Zenon DEF Fits, Follows
  <2>2. Len(P) = Len(b.parts) /\ \A k \in 1..Len(b.parts) : P[k] = batch[b.parts[k]]
    BY <1>1, <1>2, <2>1, PayloadType
  <2>. HIDE DEF P, b
  <2>3. Len(P) = item.merged + 1
    BY <2>1, Zenon DEF Train
  <2>4. Len(b.parts) = 1
    BY <2>2, <2>3
  <2>5. \A k \in 1..Len(P) : P[k].proto = "tcp"
    BY <2>1, Zenon DEF Segments
  <2>6. P[1].proto = "tcp" /\ P[1] = batch[b.parts[1]]
    BY <2>2, <2>4, <2>5
  <2>7. ~b.csum
    BY Zenon DEF b
  <2>. QED  BY <1>7, <2>4, <2>6, <2>7, Zenon DEF Loose
<1>. HIDE DEF b
<1>9. GroStep(n)
  <2>1. Extends(batch, batch')
    BY <1>2, <1>3, ExtendsSelf
  <2>. QED  BY <1>3, <2>1, Zenon DEF GroStep
<1>10. ItemsStep(tcp, tcp', n) /\ ItemsStep(udp, udp', n)
  <2>1. ItemsStep(tcp, tcp', n)
    BY <1>6, Zenon DEF ItemsStep
  <2>. QED  BY <1>3, <2>1, SameItems DEF MergeInv
<1>11. QueueStep(n)
  <2>1. Placed(batch', bufs', Items(tcp') \cup Items(udp'), n)
    BY <1>3, <1>8 DEF Placed, b
  <2>2. \A i \in 1..Len(toWrite') : \E j \in 1..Len(toWrite) : toWrite'[i] = toWrite[j]
    OBVIOUS
  <2>. QED  BY <2>1, <2>2, Zenon DEF QueueStep
<1>12. \A x \in Items(tcp') \cup Items(udp') : x.buf # n
  BY <1>3, <1>6, <1>7
<1>13. bufs'[cur'] = Buffer(current', cur') /\ current'.proto = "tcp"
       /\ current'.len # 0
  BY <1>2, <1>3
<1>. HIDE DEF n
<1>. QED  BY <1>2, <1>9, <1>10, <1>11, <1>12, <1>13, GroStepHolds

\* One turn of the loop of tcpGRO.
LEMMA ScanMerges == ASSUME BatchHeld, MergeInv, Scan PROVE MergeInv'
<1>. DEFINE p == current
            item == tcp.items[p.flow][scan]
            b == bufs[item.buf]
            can == TcpCanCoalesce(p, item, b)
            merge == IF can = "unavailable" THEN can
                     ELSE TcpMerge(can, item, b, bufs[cur])
<1>1. pc = "scan" /\ scan > 0 /\ ScanFrame
  BY DEF Scan
<1>2. \/ /\ merge = "success"
         /\ tcp' = UpdateAt(tcp, p.flow, scan, TcpMergedItem(can, item, p))
         /\ bufs' = TcpBufs(can, item) /\ pc' = "gro" /\ toWrite' = toWrite
      \/ /\ merge = "itemInvalidCSum"
         /\ tcp' = DeleteAt(tcp, p.flow, scan)
         /\ pc' = pc /\ bufs' = bufs /\ toWrite' = toWrite
      \/ /\ bufs' = [bufs EXCEPT ![cur].hdr = Plain] /\ toWrite' = Append(toWrite, cur)
         /\ pc' = "gro" /\ tcp' = tcp
      \/ UNCHANGED <<pc, bufs, tcp, toWrite>>
  BY DEF Scan, Queue
<1>3. CASE /\ merge = "success"
           /\ tcp' = UpdateAt(tcp, p.flow, scan, TcpMergedItem(can, item, p))
           /\ bufs' = TcpBufs(can, item) /\ pc' = "gro" /\ toWrite' = toWrite
  <2>1. Coalesces(can, p, item, b, bufs[cur])
    <3>1. can # "unavailable" /\ TcpMerge(can, item, b, bufs[cur]) = "success"
      BY <1>3
    <3>. QED  BY <3>1, Zenon DEF Coalesces
  <2>2. p.flow = current.flow /\ item = tcp.items[p.flow][scan]
    OBVIOUS
  <2>. HIDE DEF item, can
  <2>. QED  BY <1>1, <1>3, <2>1, <2>2, ScanMergesMerges
<1>4. CASE /\ merge = "itemInvalidCSum"
           /\ tcp' = DeleteAt(tcp, p.flow, scan)
           /\ pc' = pc /\ bufs' = bufs /\ toWrite' = toWrite
  <2>1. item.merged = 0 /\ ~b.csum
    <3>. DEFINE front == IF can = "prepend" THEN bufs[cur] ELSE b
                pb == bufs[cur]
    <3>1. can # "unavailable" \/ can = "unavailable"
      OBVIOUS
    <3>2. can # "unavailable"
      BY <1>4
    <3>3. MergeResult(front, item, b, pb, FALSE) = "itemInvalidCSum"
      BY <1>4, <3>2 DEF TcpMerge
    <3>. HIDE DEF front, pb, b, item
    <3>4. ~(front.cap < b.len + pb.len)
      BY <3>3, Zenon DEF MergeResult
    <3>5. item.merged = 0 /\ (FALSE \/ ~b.csum)
      <4>1. (IF item.merged = 0 /\ (FALSE \/ ~b.csum) THEN "itemInvalidCSum"
             ELSE IF ~pb.csum THEN "pktInvalidCSum" ELSE "success") = "itemInvalidCSum"
        BY <3>3, <3>4, Zenon DEF MergeResult
      <4>. QED  BY <4>1
    <3>. QED  BY <3>5, Zenon
  <2>2. item = tcp.items[p.flow][scan] /\ p.flow = current.flow
    OBVIOUS
  <2>3. ~bufs[item.buf].csum
    BY <2>1
  <2>. HIDE DEF item, b, can, merge
  <2>. QED  BY <1>1, <1>4, <2>1, <2>2, <2>3, ScanDropsMerges
<1>5. CASE /\ bufs' = [bufs EXCEPT ![cur].hdr = Plain]
           /\ toWrite' = Append(toWrite, cur) /\ pc' = "gro" /\ tcp' = tcp
  <2>. HIDE DEF item, b, can, merge
  <2>. QED  BY <1>1, <1>5, ScanRefusesMerges
<1>6. CASE UNCHANGED <<pc, bufs, tcp, toWrite>>
  <2>. HIDE DEF item, b, can, merge
  <2>. QED  BY <1>1, <1>6, ScanPassesMerges
<1>. HIDE DEF item, b, can, merge
<1>. QED  BY <1>2, <1>3, <1>4, <1>5, <1>6

\* The header that the item of a buffer asks for fits what the buffer holds.
HdrFits(bt, b) ==
  \/ b.hdr = Unset /\ Len(b.parts) = 1 /\ ~b.csum /\ bt[b.parts[1]].proto = "tcp"
  \/ b.hdr = Plain /\ Len(b.parts) = 1
  \/ /\ b.hdr # Unset /\ b.hdr # Plain /\ Len(b.parts) > 1
     /\ b.hdr = bt[b.parts[1]].len

\* The three headers a buffer can have.
LEMMA FitsCase ==
  ASSUME NEW bt, NEW b, HdrFits(bt, b)
  PROVE  CASE b.hdr = Unset -> Len(b.parts) = 1 /\ ~b.csum
                                 /\ bt[b.parts[1]].proto = "tcp"
           [] b.hdr = Plain -> Len(b.parts) = 1
           [] OTHER -> /\ Len(b.parts) > 1
                       /\ b.hdr = bt[b.parts[1]].len
<1>1. Unset # Plain
  BY DEF Unset, Plain
<1>2. CASE b.hdr = Unset
  BY <1>1, <1>2, Zenon DEF HdrFits
<1>3. CASE b.hdr = Plain
  BY <1>1, <1>3, Zenon DEF HdrFits
<1>4. CASE b.hdr # Unset /\ b.hdr # Plain
  BY <1>4, Zenon DEF HdrFits
<1>. QED  BY <1>2, <1>3, <1>4, Zenon

\* The header made from an item fits the buffer of the item.
LEMMA ItemHdrFits ==
  ASSUME NEW bt \in Seq(Packet), NEW b \in BufferType, NEW item,
         item.merged \in Nat, item.gsoSize \in Nat, Fits(bt, b, item),
         b.hdr = ItemHdr(item)
  PROVE  HdrFits(bt, b)
<1>. DEFINE P == Payload(bt, b)
            m == item.merged
            g == item.gsoSize
<1>1. Carried(bt, b) /\ Train(P, item, b)
  BY Zenon DEF Fits
<1>2. Len(P) = Len(b.parts) /\ \A k \in 1..Len(b.parts) : P[k] = bt[b.parts[k]]
  BY <1>1, PayloadType
<1>. HIDE DEF P
<1>3. /\ Len(P) = m + 1 /\ P[Len(P)].len \in 1..g
      /\ \A k \in 1..(Len(P) - 1) : P[k].len = g
  BY <1>1, Zenon DEF Train
<1>4. CASE m = 0
  <2>1. b.hdr = Plain /\ Len(b.parts) = 1
    BY <1>2, <1>3, <1>4 DEF ItemHdr
  <2>. QED  BY <2>1, Zenon DEF HdrFits
<1>5. CASE m # 0
  <2>1. b.hdr = g /\ g \in Nat \ {0} /\ Len(b.parts) > 1
    BY <1>2, <1>3, <1>5 DEF ItemHdr
  <2>2. b.hdr # Unset /\ b.hdr # Plain
    BY <2>1 DEF Unset, Plain
  <2>3. P[1].len = g /\ P[1] = bt[b.parts[1]]
    BY <1>2, <1>3, <1>5
  <2>4. b.hdr = bt[b.parts[1]].len
    BY <2>1, <2>3
  <2>. QED  BY <2>1, <2>2, <2>4, Zenon DEF HdrFits
<1>. QED  BY <1>4, <1>5

\* applyTCPCoalesceAccounting and applyUDPCoalesceAccounting write headers only.
LEMMA AccountBufs ==
  ASSUME BatchHeld, Account, NEW n \in 1..cur
  PROVE  /\ Same(bufs[n], bufs'[n])
         /\ vnetHdr => bufs'[n].hdr =
              IF \E item \in Items(tcp) \cup Items(udp) : item.buf = n
              THEN ItemHdr(CHOOSE item \in Items(tcp) \cup Items(udp) : item.buf = n)
              ELSE bufs[n].hdr
<1>1. cur \in Nat /\ bufs \in Seq(BufferType) /\ Len(bufs) = cur
  BY BatchFacts
<1>2. bufs[n] \in BufferType
  BY <1>1, SeqFacts
<1>3. CASE ~vnetHdr
  <2>1. bufs'[n] = bufs[n]
    BY <1>3 DEF Account
  <2>. QED  BY <1>3, <2>1 DEF Same
<1>4. CASE vnetHdr
  <2>. DEFINE its == Items(tcp) \cup Items(udp)
              Hdr(m) == IF \E item \in its : item.buf = m
                        THEN ItemHdr(CHOOSE item \in its : item.buf = m)
                        ELSE bufs[m].hdr
  <2>1. bufs' = [m \in DOMAIN bufs |-> [bufs[m] EXCEPT !.hdr = Hdr(m)]]
    BY <1>4 DEF Account
  <2>2. DOMAIN bufs = 1..cur
    BY <1>1
  <2>. HIDE DEF Hdr
  <2>3. bufs'[n] = [bufs[n] EXCEPT !.hdr = Hdr(n)]
    BY <2>1, <2>2
  <2>4. bufs'[n].hdr = Hdr(n) /\ Same(bufs[n], bufs'[n])
    <3>1. bufs'[n].hdr = Hdr(n)
      BY <1>2, <2>3 DEF BufferType
    <3>2. /\ bufs'[n].opts = bufs[n].opts /\ bufs'[n].cap = bufs[n].cap
          /\ bufs'[n].len = bufs[n].len /\ bufs'[n].parts = bufs[n].parts
      BY <1>2, <2>3 DEF BufferType
    <3>3. bufs'[n].psh = bufs[n].psh /\ bufs'[n].csum = bufs[n].csum
      BY <1>2, <2>3 DEF BufferType
    <3>. QED  BY <3>1, <3>2, <3>3, Zenon DEF Same
  <2>. QED  BY <2>4 DEF Hdr
<1>. QED  BY <1>3, <1>4

\* The headers made at the end of a batch fit every buffer to write.
LEMMA AccountMerges == ASSUME BatchHeld, MergeInv, Account PROVE MergeInv'
<1>1. /\ pc = "gro" /\ pc' = "write"
      /\ UNCHANGED <<vnetHdr, batch, tcp, udp, toWrite>>
  BY DEF Account
<1>2. /\ settled = cur /\ cur = Len(batch) /\ batch \in Seq(Packet)
  BY <1>1, BatchFacts DEF settled, cur
<1>3. /\ \A x \in Items(tcp) : x \in ItemOfTcp
      /\ \A x \in Items(udp) : x \in ItemOfUdp
      /\ \A x \in Items(tcp) \cup Items(udp) :
           x.buf \in 1..cur /\ bufs[x.buf] \in BufferType
  BY <1>2, ItemBufs DEF MergeInv
<1>4. ASSUME NEW x \in Items(tcp) \cup Items(udp)
      PROVE  /\ Fits(batch, bufs'[x.buf], x)
             /\ x \in Items(tcp) => Follows(batch, bufs'[x.buf], x)
             /\ x \in Items(udp) => Datagrams(batch, bufs'[x.buf])
  <2>1. Same(bufs[x.buf], bufs'[x.buf]) /\ bufs[x.buf] \in BufferType
    BY <1>3, AccountBufs
  <2>2. /\ Fits(batch, bufs[x.buf], x)
        /\ x \in Items(tcp) => Follows(batch, bufs[x.buf], x)
        /\ x \in Items(udp) => Datagrams(batch, bufs[x.buf])
    BY Zenon DEF MergeInv, TrainsInv
  <2>. DEFINE b == bufs[x.buf]
              c == bufs'[x.buf]
  <2>. HIDE DEF b, c
  <2>3. /\ Fits(batch, c, x) /\ (Follows(batch, b, x) => Follows(batch, c, x))
        /\ Datagrams(batch, b) => Datagrams(batch, c)
    <3>1. /\ Same(b, c) /\ b \in BufferType /\ Fits(batch, b, x)
          /\ Len(batch) <= Len(batch) /\ \A k \in 1..Len(batch) : batch[k] = batch[k]
      BY <1>2, <2>1, <2>2 DEF b, c
    <3>. QED  BY <1>2, <3>1, FitsKeeps
  <2>. QED  BY <2>2, <2>3, Zenon DEF b, c
<1>5. TablesInv'
  BY <1>1 DEF MergeInv, TablesInv
<1>6. TrainsInv'
  BY <1>1, <1>4, Zenon DEF TrainsInv
<1>7. LooseInv'
  BY <1>1, Zenon DEF LooseInv
<1>8. HeadersFit'
  <2>1. ASSUME vnetHdr, NEW i \in 1..Len(toWrite)
        PROVE  HdrFits(batch, bufs'[toWrite[i]])
    <3>. DEFINE n == toWrite[i]
                its == Items(tcp) \cup Items(udp)
    <3>1. n \in 1..cur /\ bufs[n] \in BufferType /\ bufs'[n] \in BufferType
      <4>1. bufs' \in Seq(BufferType) /\ Len(bufs') = cur
        <5>1. BatchHeld'
          BY BatchNext, <1>1 DEF Next
        <5>2. cur' = cur
          BY <1>1 DEF cur
        <5>. QED  BY <5>1, <5>2 DEF BatchHeld, Shapes
      <4>2. bufs \in Seq(BufferType) /\ Len(bufs) = cur /\ n \in 1..cur
        BY <1>2, BatchFacts
      <4>3. \A m \in 1..cur : bufs[m] \in BufferType /\ bufs'[m] \in BufferType
        BY <4>1, <4>2, SeqFacts
      <4>. QED  BY <4>2, <4>3
    <3>. HIDE DEF n
    <3>2. CASE \E x \in its : x.buf = n
      <4>. DEFINE x == CHOOSE y \in its : y.buf = n
      <4>1. x \in its /\ x.buf = n
        BY <3>2
      <4>2. bufs'[n].hdr = ItemHdr(x)
        BY <2>1, <3>1, <3>2, AccountBufs
      <4>. HIDE DEF x
      <4>3. Fits(batch, bufs'[n], x)
        BY <1>4, <4>1
      <4>4. x.merged \in Nat /\ x.gsoSize \in Nat
        BY <1>3, <4>1 DEF ItemOfTcp, ItemOfUdp
      <4>. QED  BY <1>2, <3>1, <4>2, <4>3, <4>4, ItemHdrFits DEF n
    <3>3. CASE ~\E x \in its : x.buf = n
      <4>1. Loose(batch, bufs[n])
        BY <1>1, <2>1, <3>3, Zenon DEF MergeInv, LooseInv, n
      <4>2. bufs'[n].hdr = bufs[n].hdr
        BY <2>1, <3>1, <3>3, AccountBufs
      <4>3. Same(bufs[n], bufs'[n])
        BY <3>1, AccountBufs
      <4>4. HdrFits(batch, bufs'[n])
        BY <4>1, <4>2, <4>3, Zenon DEF Loose, HdrFits, Same
      <4>. QED  BY <4>4 DEF n
    <3>. QED  BY <3>2, <3>3
  <2>2. vnetHdr => \A n \in ToSet(toWrite) : HdrFits(batch, bufs'[n])
    BY <2>1, BatchFacts DEF ToSet
  <2>. QED  BY <1>1, <2>2, FitsCase DEF HeadersFit
<1>. QED  BY <1>5, <1>6, <1>7, <1>8, Zenon DEF MergeInv

\* Steps that leave the packets, the buffers and the tables alone.
LEMMA WritesMerge ==
  ASSUME MergeInv, BadOffset \/ WriteOne \/ WriteGone \/ WriteDone
  PROVE  MergeInv'
<1>1. /\ pc' \in {"write", "reset"} /\ (pc' = "write" => pc = "write")
      /\ UNCHANGED <<vnetHdr, batch, bufs, tcp, udp, toWrite>>
  BY DEF BadOffset, WriteOne, WriteGone, WriteDone, WriteFrame
<1>2. TablesInv'
  BY <1>1 DEF MergeInv, TablesInv
<1>3. TrainsInv'
  BY <1>1 DEF MergeInv, TrainsInv
<1>4. LooseInv'
  BY <1>1 DEF LooseInv
<1>5. HeadersFit'
  BY <1>1 DEF MergeInv, HeadersFit
<1>. QED  BY <1>2, <1>3, <1>4, <1>5 DEF MergeInv

\* Without items there is nothing to hold.
LEMMA EmptyMerge ==
  ASSUME Items(tcp) = {}, Items(udp) = {}, Orderly(tcp), Orderly(udp),
         pc = "idle" \/ (pc = "gro" /\ toWrite = <<>>)
  PROVE  MergeInv
<1>1. TablesInv /\ TrainsInv
  BY DEF TablesInv, TrainsInv
<1>2. LooseInv
  BY DEF LooseInv
<1>3. HeadersFit
  BY DEF HeadersFit
<1>. QED  BY <1>1, <1>2, <1>3 DEF MergeInv

\* Before the first batch there are no items.
LEMMA MergeInit == ASSUME Init PROVE MergeInv
<1>1. BatchHeld /\ pc = "idle"
  BY BatchInit DEF Init
<1>2. \A f \in Flow : tcp.items[f] = <<>> /\ udp.items[f] = <<>>
  BY <1>1 DEF BatchHeld, ScanInv
<1>3. Orderly(tcp) /\ Items(tcp) = {} /\ Orderly(udp) /\ Items(udp) = {}
  BY <1>1, <1>2, NoItems DEF BatchHeld, PoolInv
<1>. QED  BY <1>1, <1>3, EmptyMerge

\* A new batch begins with empty tables.
LEMMA StartMerges ==
  ASSUME BatchHeld, BatchHeld', Start \/ ResetTables
  PROVE  MergeInv'
<1>1. pc' = "idle" \/ (pc' = "gro" /\ toWrite' = <<>>)
  BY DEF Start, ResetTables
<1>2. \A f \in Flow : tcp'.items[f] = <<>> /\ udp'.items[f] = <<>>
  <2>1. CASE Start
    BY <2>1 DEF Start, BatchHeld, ScanInv
  <2>2. CASE ResetTables
    BY <2>2 DEF ResetTables, BatchHeld, ScanInv
  <2>. QED  BY <2>1, <2>2
<1>3. Orderly(tcp') /\ Items(tcp') = {} /\ Orderly(udp') /\ Items(udp') = {}
  BY <1>2, NoItems DEF BatchHeld, PoolInv
<1>4. TablesInv' /\ TrainsInv' /\ LooseInv' /\ HeadersFit'
  BY <1>1, <1>3 DEF TablesInv, TrainsInv, LooseInv, HeadersFit
<1>. QED  BY <1>4 DEF MergeInv

\* No step of Write or handleGRO makes an item disagree with its buffer.
LEMMA MergeNext == ASSUME BatchHeld, MergeInv, [Next]_vars PROVE MergeInv'
<1>1. BatchHeld'
  BY BatchNext
<1>2. CASE Start \/ ResetTables
  BY <1>1, <1>2, StartMerges
<1>3. CASE Take
  BY <1>3, TakeRawMerges, TakeTcpMerges, TakeUdpMerges DEF Take
<1>4. CASE Scan
  BY <1>4, ScanMerges
<1>5. CASE ScanEnds
  BY <1>5, ScanEndsMerges
<1>6. CASE Account
  BY <1>6, AccountMerges
<1>7. CASE BadOffset \/ WriteOne \/ WriteGone \/ WriteDone
  BY <1>7, WritesMerge
<1>8. CASE UNCHANGED vars
  <2>1. cur' = cur /\ current' = current
    BY <1>8 DEF vars, cur, current
  <2>2. TablesInv' /\ TrainsInv' /\ HeadersFit'
    BY <1>8 DEF vars, MergeInv, TablesInv, TrainsInv, HeadersFit
  <2>3. LooseInv'
    BY <1>8, <2>1, Zenon DEF vars, MergeInv, LooseInv
  <2>. QED  BY <2>2, <2>3 DEF MergeInv
<1>. QED  BY <1>2, <1>3, <1>4, <1>5, <1>6, <1>7, <1>8 DEF Next

\* From the first packet of a batch to the reset of the tables, an item of a flow
\* table describes the packets that tcpGRO or udpGRO has merged into its buffer,
\* different items have different buffers, and a buffer no item stands for holds
\* one packet as the caller passed it.
THEOREM MergeInvariant == Spec => [](BatchHeld /\ MergeInv)
<1>1. Init => BatchHeld /\ MergeInv
  BY BatchInit, MergeInit
<1>2. BatchHeld /\ MergeInv /\ [Next]_vars => (BatchHeld /\ MergeInv)'
  BY BatchNext, MergeNext
<1>. QED  BY <1>1, <1>2, PTL DEF Spec

\* The buffer of an item splits back into the packets merged into it.
LEMMA FitsSplit ==
  ASSUME BatchHeld, NEW item, item.merged \in Nat, bufs[item.buf] \in BufferType,
         Fits(batch, bufs[item.buf], item)
  PROVE  SplitsBack(item)
<1>. DEFINE b == bufs[item.buf]
            P == Payload(batch, b)
            n == Len(b.parts)
            part(k) == batch[b.parts[k]]
<1>1. Carried(batch, b) /\ Train(P, item, b) /\ batch \in Seq(Packet)
  BY BatchFacts, Zenon DEF Fits
<1>2. Len(P) = n /\ \A k \in 1..n : P[k] = part(k)
  BY <1>1, PayloadType
<1>. HIDE DEF P
<1>3. /\ n = item.merged + 1
      /\ \A k \in 1..n : P[k].opts = b.opts
      /\ \A k \in 1..(n - 1) : P[k].len = item.gsoSize
      /\ P[n].len \in 1..item.gsoSize
      /\ b.len = (n - 1) * item.gsoSize + P[n].len
      /\ n > 1 => b.len <= b.cap /\ \A k \in 1..n : P[k].csum
  BY <1>1, <1>2, Zenon DEF Train
<1>4. n \in 1..n /\ \A k \in 1..(n - 1) : k \in 1..n
  BY <1>3
<1>5. /\ \A k \in 1..n : part(k).opts = b.opts
      /\ \A k \in 1..(n - 1) : part(k).len = item.gsoSize
      /\ part(n).len \in 1..item.gsoSize
      /\ b.len = (n - 1) * item.gsoSize + part(n).len
      /\ n > 1 => b.len <= b.cap /\ \A k \in 1..n : part(k).csum
  BY <1>2, <1>3, <1>4, Zenon
<1>. QED  BY <1>3, <1>5, Zenon DEF SplitsBack

\* The parts of the buffer of a TCP item are consecutive, if it is not too long,
\* and none but the last has PSH.
LEMMA FollowsConsecutive ==
  ASSUME BatchHeld, NEW item, item.merged \in Nat, bufs[item.buf] \in BufferType,
         Fits(batch, bufs[item.buf], item), Follows(batch, bufs[item.buf], item)
  PROVE  PshLast(item) /\ (bufs[item.buf].len < LenSpace => Consecutive(item))
<1>. DEFINE b == bufs[item.buf]
            P == Payload(batch, b)
            n == Len(b.parts)
<1>1. /\ Carried(batch, b) /\ Train(P, item, b) /\ Segments(P, item, b)
      /\ b.len < LenSpace => Stream(P, item, b)
      /\ batch \in Seq(Packet)
  BY BatchFacts, Zenon DEF Fits, Follows
<1>2. Len(P) = n /\ \A k \in 1..n : P[k] = batch[b.parts[k]]
  BY <1>1, PayloadType
<1>. HIDE DEF P
<1>3. n = item.merged + 1
  BY <1>1, <1>2, Zenon DEF Train
<1>4. 1 \in 1..n /\ \A k \in 1..(n - 1) : k \in 1..n /\ k + 1 \in 1..n
  BY <1>3
<1>5. \A k \in 1..(n - 1) : ~batch[b.parts[k]].psh
  BY <1>1, <1>2, <1>4, Zenon DEF Segments
<1>6. ASSUME b.len < LenSpace
      PROVE  /\ batch[b.parts[1]].seq = item.seq
             /\ \A k \in 1..(n - 1) :
                  batch[b.parts[k + 1]].seq
                    = (batch[b.parts[k]].seq + batch[b.parts[k]].len) % SeqSpace
  <2>1. /\ P[1].seq = item.seq
        /\ \A k \in 1..(n - 1) : P[k + 1].seq = (P[k].seq + P[k].len) % SeqSpace
    BY <1>1, <1>2, <1>6, Zenon DEF Stream
  <2>. QED  BY <1>2, <1>4, <2>1, Zenon
<1>. QED  BY <1>5, <1>6, Zenon DEF Consecutive, PshLast

\* Items that agree with their buffers are undone by segmentation.
LEMMA MergeUndone == ASSUME BatchHeld, MergeInv PROVE MergesUndone
<1>1. /\ \A x \in Items(tcp) : x \in ItemOfTcp
      /\ \A x \in Items(udp) : x \in ItemOfUdp
      /\ \A x \in Items(tcp) \cup Items(udp) : bufs[x.buf] \in BufferType
  BY ItemBufs DEF MergeInv
<1>2. /\ \A x \in Items(tcp) : x.merged \in Nat
      /\ \A x \in Items(udp) : x.merged \in Nat
  BY <1>1 DEF ItemOfTcp, ItemOfUdp
<1>3. ASSUME NEW x \in Items(tcp)
      PROVE  /\ SplitsBack(x) /\ PshLast(x)
             /\ bufs[x.buf].len < LenSpace => Consecutive(x)
  <2>1. Fits(batch, bufs[x.buf], x) /\ Follows(batch, bufs[x.buf], x)
    BY DEF MergeInv, TrainsInv
  <2>2. bufs[x.buf] \in BufferType /\ x.merged \in Nat
    BY <1>1, <1>2
  <2>. QED  BY <2>1, <2>2, FitsSplit, FollowsConsecutive
<1>4. ASSUME NEW x \in Items(udp) PROVE SplitsBack(x)
  <2>1. Fits(batch, bufs[x.buf], x)
    BY DEF MergeInv, TrainsInv
  <2>2. bufs[x.buf] \in BufferType /\ x.merged \in Nat
    BY <1>1, <1>2
  <2>. QED  BY <2>1, <2>2, FitsSplit
<1>. QED  BY <1>3, <1>4, Zenon DEF MergesUndone, TcpItems, UdpItems

\* What GRO merges, the segmentation of the receiver undoes: offload_linux.go
\* coalesces only what GSO at the size in the virtio header splits into the same
\* packets, however many packets, flows and batches there are and whatever room
\* the buffers have; and TCP segments follow each other in the byte stream as
\* long as 16 bits can count the payload.
THEOREM SplitUndoesMerge == Spec => []MergesUndone
BY MergeInvariant, MergeUndone, PTL

\* Every buffer Write passes to the file has the header its content calls for.
THEOREM HeadersTrue == Spec => []HeadersFit
<1>1. MergeInv => HeadersFit
  BY DEF MergeInv
<1>. QED  BY <1>1, MergeInvariant, PTL
-----------------------------------------------------------------------------
(***************************************************************************)
(* The way back: what gsoSplit makes of a buffer with a GSO header.        *)
(***************************************************************************)

\* Headers: without virtio headers there are none, and a buffer with one that
\* asks to be split bears an item.
RawInv == ~vnetHdr => \A i \in 1..Len(bufs) : bufs[i].hdr = Unset
MarkedInv ==
  pc = "write" /\ vnetHdr =>
    \A i \in 1..Len(toWrite) :
      Segmented(bufs[toWrite[i]]) =>
        \E x \in Items(tcp) \cup Items(udp) : x.buf = toWrite[i]

HeaderInv == RawInv /\ MarkedInv

\* Only handleGRO, which runs for files with virtio headers, touches a header.
LEMMA RawNext == ASSUME BatchHeld, MergeInv, RawInv, Next PROVE RawInv'
<1>1. CASE Start
  BY <1>1 DEF Start, RawInv
<1>2. CASE Take
  <2>1. PICK p \in Packet : TakeRaw(p) \/ TakeAsIs(p) \/ TakeTcp(p) \/ TakeUdp(p)
    BY <1>2 DEF Take
  <2>2. CASE vnetHdr
    <3>1. vnetHdr' = vnetHdr
      BY <2>1 DEF TakeRaw, TakeAsIs, TakeTcp, TakeUdp, Takes
    <3>. QED  BY <2>2, <3>1 DEF RawInv
  <2>3. CASE ~vnetHdr
    <3>. DEFINE b == Buffer(p, cur + 1)
    <3>1. bufs' = Append(bufs, b) /\ vnetHdr' = vnetHdr
      BY <2>1, <2>3 DEF TakeRaw, TakeAsIs, TakeTcp, TakeUdp, Takes
    <3>2. b \in BufferType /\ b.hdr = Unset
      <4>1. cur + 1 \in Nat
        BY BatchFacts
      <4>. QED  BY <4>1, BufferTyped DEF Buffer
    <3>3. bufs \in Seq(BufferType)
      BY BatchFacts
    <3>. HIDE DEF b
    <3>4. /\ Len(bufs') = Len(bufs) + 1 /\ bufs'[Len(bufs) + 1] = b
          /\ \A i \in 1..Len(bufs) : bufs'[i] = bufs[i]
      BY <3>1, <3>2, <3>3, AppendFacts
    <3>5. \A i \in 1..(Len(bufs) + 1) : i \in 1..Len(bufs) \/ i = Len(bufs) + 1
      BY <3>3
    <3>. QED  BY <2>3, <3>1, <3>2, <3>4, <3>5, Zenon DEF RawInv
  <2>. QED  BY <2>2, <2>3
<1>3. CASE Scan \/ ScanEnds
  <2>1. vnetHdr /\ vnetHdr' = vnetHdr
    BY <1>3 DEF Scan, ScanEnds, ScanFrame, MergeInv, LooseInv
  <2>. QED  BY <2>1 DEF RawInv
<1>4. CASE Account
  BY <1>4 DEF Account, RawInv
<1>5. CASE BadOffset \/ WriteOne \/ WriteGone \/ WriteDone \/ ResetTables
  BY <1>5 DEF BadOffset, WriteOne, WriteGone, WriteDone, WriteFrame, ResetTables, RawInv
<1>. QED  BY <1>1, <1>2, <1>3, <1>4, <1>5 DEF Next

\* The accounting gives only buffers with an item a header to split by.
LEMMA MarkedNext ==
  ASSUME BatchHeld, MergeInv, MarkedInv, Next
  PROVE  MarkedInv'
<1>1. CASE Account
  <2>1. /\ pc = "gro" /\ UNCHANGED <<vnetHdr, tcp, udp, toWrite>>
    BY <1>1 DEF Account
  <2>2. ASSUME vnetHdr, NEW i \in 1..Len(toWrite), Segmented(bufs'[toWrite[i]])
        PROVE  \E x \in Items(tcp) \cup Items(udp) : x.buf = toWrite[i]
    <3>. DEFINE n == toWrite[i]
    <3>1. n \in 1..cur
      <4>1. n \in 1..settled /\ settled \in Nat /\ cur \in Nat /\ settled <= cur
        BY BatchFacts, SettledFacts
      <4>. QED  BY <4>1
    <3>. HIDE DEF n
    <3>2. SUFFICES ASSUME ~\E x \in Items(tcp) \cup Items(udp) : x.buf = n
                   PROVE  FALSE
      BY DEF n
    <3>3. Loose(batch, bufs[n])
      BY <2>1, <2>2, <3>2, Zenon DEF MergeInv, LooseInv, n
    <3>4. bufs'[n].hdr = bufs[n].hdr
      BY <1>1, <2>2, <3>1, <3>2, AccountBufs
    <3>5. bufs[n].hdr = Plain \/ bufs[n].hdr = Unset
      BY <3>3, Zenon DEF Loose
    <3>6. bufs'[n].hdr # Plain /\ bufs'[n].hdr # Unset
      BY <2>2 DEF Segmented, n
    <3>. QED  BY <3>4, <3>5, <3>6
  <2>. QED  BY <2>1, <2>2 DEF MarkedInv
<1>2. CASE WriteOne
  BY <1>2 DEF WriteOne, WriteFrame, MarkedInv
<1>3. CASE ~Account /\ ~WriteOne
  <2>1. CASE Take
    <3>1. PICK p \in Packet : TakeRaw(p) \/ TakeAsIs(p) \/ TakeTcp(p) \/ TakeUdp(p)
      BY <2>1 DEF Take
    <3>2. pc' = "gro" \/ pc' = "scan"
      BY <3>1 DEF TakeRaw, TakeAsIs, TakeTcp, TakeUdp, Takes
    <3>. QED  BY <3>2 DEF MarkedInv
  <2>2. CASE Scan
    <3>1. pc = "scan" /\ (pc' = "gro" \/ pc' = pc)
      BY <2>2, Zenon DEF Scan
    <3>. QED  BY <3>1 DEF MarkedInv
  <2>3. CASE Start \/ BadOffset \/ ScanEnds \/ WriteGone \/ WriteDone \/ ResetTables
    <3>1. pc' # "write"
      BY <2>3 DEF Start, BadOffset, ScanEnds, WriteGone, WriteDone, ResetTables
    <3>. QED  BY <3>1 DEF MarkedInv
  <2>. QED  BY <1>3, <2>1, <2>2, <2>3 DEF Next
<1>. QED  BY <1>1, <1>2, <1>3

\* Unused headers before the first batch.
LEMMA HeaderInit == ASSUME Init PROVE HeaderInv
<1>1. RawInv
  BY DEF Init, RawInv
<1>2. MarkedInv
  BY DEF Init, MarkedInv
<1>. QED  BY <1>1, <1>2 DEF HeaderInv

\* ... and after every step.
LEMMA HeaderNext ==
  ASSUME BatchHeld, MergeInv, HeaderInv, [Next]_vars
  PROVE  HeaderInv'
<1>1. CASE Next
  <2>1. RawInv'
    BY <1>1, RawNext DEF HeaderInv
  <2>2. MarkedInv'
    BY <1>1, MarkedNext DEF HeaderInv
  <2>. QED  BY <2>1, <2>2 DEF HeaderInv
<1>2. CASE UNCHANGED vars
  BY <1>2 DEF vars, HeaderInv, RawInv, MarkedInv, Segmented, Items
<1>. QED  BY <1>1, <1>2

\* The number of segments a payload of l bytes is cut into.
Pieces(l, g) == l \div g + (IF l % g = 0 THEN 0 ELSE 1)

\* A payload of m full segments and another one is cut into m + 1 ...
LEMMA CutCount ==
  ASSUME NEW g \in Nat, NEW m \in Nat, NEW r \in 1..g, NEW l, l = m * g + r
  PROVE  Pieces(l, g) = m + 1
<1>1. g \in Nat \ {0} /\ r \in Nat
  OBVIOUS
<1>2. l \div g + (IF l % g = 0 THEN 0 ELSE 1) = m + 1
  <2>1. CASE r = g
    <3>1. l = (m + 1) * g
      BY <2>1
    <3>2. l % g = 0 /\ l \div g = m + 1
      <4>1. ((m + 1) * g + 0) % g = 0
        BY <1>1, ModUnique
      <4>2. ((m + 1) * g + 0) \div g = m + 1
        BY <1>1, DivUnique
      <4>3. l = (m + 1) * g + 0
        BY <3>1
      <4>. QED  BY <4>1, <4>2, <4>3
    <3>. QED  BY <3>2
  <2>2. CASE r # g
    <3>1. r \in 0..(g - 1)
      BY <2>2
    <3>2. (m * g + r) % g = r /\ (m * g + r) \div g = m
      BY <1>1, <3>1, ModUnique, DivUnique
    <3>3. l % g = r /\ l \div g = m
      BY <3>2
    <3>. QED  BY <2>2, <3>3
  <2>. QED  BY <2>1, <2>2
<1>. QED  BY <1>2 DEF Pieces

\* ... where its full segments begin.
LEMMA CutNumbers ==
  ASSUME NEW g \in Nat, NEW m \in Nat, NEW r \in 1..g, NEW l, l = m * g + r,
         NEW i \in 0..m
  PROVE  /\ i < m => ~(l - i * g < g) /\ i * g + g # l
         /\ i = m => l - i * g = r
<1>1. g \in Nat \ {0} /\ r \in Nat
  OBVIOUS
<1>2. ASSUME i < m PROVE ~(l - i * g < g) /\ i * g + g # l
  <2>. DEFINE d == (m - 1) - i
  <2>1. d \in Nat /\ m = (d + i) + 1
    BY <1>2
  <2>2. l = d * g + i * g + g + r
    BY <1>1, <2>1
  <2>3. d * g \in Nat /\ i * g \in Nat
    BY <1>1, <2>1, TimesNat
  <2>. HIDE DEF d
  <2>. QED  BY <1>1, <2>2, <2>3
<1>3. i = m => l - i * g = r
  BY <1>1, TimesNat
<1>. QED  BY <1>2, <1>3

\* The frame that is written for a buffer, as gsoSplit sees it.
LEMMA FrameFields ==
  ASSUME NEW b, b.len \in Nat, LengthFits(b)
  PROVE  /\ MergedFrame(b).len = b.len /\ MergedFrame(b).gsoSize = b.hdr
         /\ MergedFrame(b).seq = batch[b.parts[1]].seq
         /\ MergedFrame(b).end = b.psh
         /\ Gso!IsTcp(MergedFrame(b)) => batch[b.parts[1]].proto = "tcp"
<1>0. LengthField(b) = b.len
  <2>1. HdrLen + b.len \in 0..(LenSpace - 1)
    BY SpaceAssumption DEF LengthFits
  <2>2. (HdrLen + b.len) % LenSpace = HdrLen + b.len
    BY <2>1, SpaceAssumption
  <2>. QED  BY <2>2, SpaceAssumption DEF LengthField
<1>1. /\ MergedFrame(b).len = b.len /\ MergedFrame(b).gsoSize = b.hdr
      /\ MergedFrame(b).seq = batch[b.parts[1]].seq
  BY <1>0 DEF MergedFrame
<1>2. MergedFrame(b).end = b.psh
  BY Zenon DEF MergedFrame
<1>3. Gso!IsTcp(MergedFrame(b)) => batch[b.parts[1]].proto = "tcp"
  BY DEF MergedFrame, Gso!IsTcp
<1>. QED  BY <1>1, <1>2, <1>3

\* What gsoSplit puts into a segment.
LEMMA SegmentFields ==
  ASSUME NEW frame, NEW i, NEW at
  PROVE  /\ Gso!Segment(frame, i, at).len = Gso!SegmentLen(frame, at)
         /\ Gso!IsTcp(frame) =>
              Gso!Segment(frame, i, at).seq = (frame.seq + at) % SeqSpace
         /\ Gso!IsTcp(frame) /\ Gso!Segment(frame, i, at).end =>
              frame.end /\ at + Gso!SegmentLen(frame, at) = frame.len
<1>1. Gso!Segment(frame, i, at).len = Gso!SegmentLen(frame, at)
  BY DEF Gso!Segment
<1>2. ASSUME Gso!IsTcp(frame)
      PROVE  Gso!Segment(frame, i, at).seq = (frame.seq + at) % SeqSpace
  BY <1>2 DEF Gso!Segment
<1>3. ASSUME Gso!IsTcp(frame), Gso!Segment(frame, i, at).end
      PROVE  frame.end /\ at + Gso!SegmentLen(frame, at) = frame.len
  BY <1>3, Zenon DEF Gso!Segment
<1>. QED  BY <1>1, <1>2, <1>3

\* The packets merged into one buffer have valid checksums.
LEMMA PartsChecked ==
  ASSUME batch \in Seq(Packet), NEW b \in BufferType, NEW item,
         Fits(batch, b, item), Len(b.parts) > 1
  PROVE  \A k \in ToSet(b.parts) : batch[k].csum
<1>. DEFINE P == Payload(batch, b)
            n == Len(b.parts)
<1>1. Carried(batch, b) /\ Train(P, item, b)
  BY Zenon DEF Fits
<1>2. Len(P) = n /\ \A k \in 1..n : P[k] = batch[b.parts[k]]
  BY <1>1, PayloadType
<1>. HIDE DEF P
<1>3. \A k \in 1..n : P[k].csum
  BY <1>1, <1>2, Zenon DEF Train
<1>4. ASSUME NEW k \in ToSet(b.parts) PROVE batch[k].csum
  <2>1. PICK h \in 1..n : k = b.parts[h]
    BY DEF ToSet, BufferType
  <2>. QED  BY <1>2, <1>3, <2>1, Zenon
<1>. QED  BY <1>4

\* Splitting the buffer of an item gives its packets, if its length fits.
LEMMA BufferSplits ==
  ASSUME batch \in Seq(Packet), NEW b \in BufferType,
         NEW item, item.gsoSize \in Nat, item.merged \in Nat, Fits(batch, b, item),
         Len(b.parts) > 1, b.hdr = batch[b.parts[1]].len,
         batch[b.parts[1]].proto = "tcp" => Follows(batch, b, item), LengthFits(b)
  PROVE  SegmentsArePackets(b)
<1>. DEFINE P == Payload(batch, b)
            n == Len(b.parts)
            m == item.merged
            g == item.gsoSize
            r == P[n].len
            frame == MergedFrame(b)
            tcpFrame == Gso!IsTcp(frame)
            full == frame.len
<1>0. m \in Nat /\ g \in Nat
  OBVIOUS
<1>1. Carried(batch, b) /\ Train(P, item, b)
  BY Zenon DEF Fits
<1>2. Len(P) = n /\ \A k \in 1..n : P[k] = batch[b.parts[k]]
  BY <1>1, PayloadType
<1>3. b.len \in Nat /\ b.len < LenSpace
  <2>1. b.len \in Nat
    BY DEF BufferType
  <2>. QED  BY <2>1, SpaceAssumption DEF LengthFits
<1>4. tcpFrame => Segments(P, item, b) /\ Stream(P, item, b) /\ Spaced(P, item)
  <2>1. tcpFrame => batch[b.parts[1]].proto = "tcp"
    BY <1>3, FrameFields
  <2>. QED  BY <1>3, <2>1, Zenon DEF Follows
<1>5. /\ frame.len = b.len /\ frame.gsoSize = b.hdr /\ frame.end = b.psh
      /\ frame.seq = batch[b.parts[1]].seq
  BY <1>3, FrameFields
<1>. HIDE DEF P, frame, tcpFrame, full
<1>6. /\ n = m + 1 /\ r \in 1..g /\ b.len = (n - 1) * g + r
      /\ \A k \in 1..n : P[k].opts = b.opts
      /\ \A k \in 1..(n - 1) : P[k].len = g
  BY <1>1, <1>2, Zenon DEF Train
<1>7. /\ n - 1 = m /\ 1 \in 1..n /\ 1 \in 1..(n - 1) /\ n > 1
      /\ \A i \in 0..(n - 1) : /\ i \in 0..m /\ i + 1 \in 1..n /\ (i + 1) - 1 = i
                               /\ i < m => i + 1 \in 1..(n - 1)
                               /\ ~(i < m) => i = m /\ i + 1 = n
  <2>1. n = m + 1 /\ n > 1 /\ m \in Nat
    BY <1>0, <1>6
  <2>. HIDE DEF n, m
  <2>. QED  BY <2>1
<1>8. b.hdr = g /\ full = m * g + r
  BY <1>2, <1>5, <1>6, <1>7, Zenon DEF full
<1>9. Gso!SegmentCount(frame) = n
  <2>. HIDE DEF m, g, r, n
  <2>1. Pieces(full, g) = m + 1
    <3>1. r \in 1..g /\ full = m * g + r
      BY <1>6, <1>8, Zenon
    <3>. QED  BY <1>0, <3>1, CutCount
  <2>. QED  BY <1>5, <1>6, <1>8, <2>1 DEF Gso!SegmentCount, Pieces, full
<1>10. ASSUME NEW i \in 0..(n - 1)
      PROVE  /\ Gso!SegmentLen(frame, i * g) = P[i + 1].len
             /\ i * g + Gso!SegmentLen(frame, i * g) = full => i = m
  <2>. HIDE DEF m, g, r, n
  <2>1. /\ i < m => ~(full - i * g < g) /\ i * g + g # full
        /\ i = m => full - i * g = r
    <3>1. r \in 1..g /\ full = m * g + r /\ i \in 0..m
      BY <1>6, <1>7, <1>8, Zenon
    <3>. QED  BY <1>0, <3>1, CutNumbers
  <2>2. frame.gsoSize = g /\ frame.len = full
    BY <1>5, <1>8 DEF full
  <2>3. CASE i < m
    <3>1. Gso!SegmentLen(frame, i * g) = g
      BY <2>1, <2>2, <2>3 DEF Gso!SegmentLen
    <3>2. P[i + 1].len = g
      BY <1>6, <1>7, <2>3
    <3>. QED  BY <2>1, <2>3, <3>1, <3>2
  <2>4. CASE ~(i < m)
    <3>1. i = m /\ i + 1 = n
      BY <1>7, <2>4
    <3>2. full - i * g = r /\ r \in 1..g
      BY <1>6, <2>1, <3>1
    <3>3. Gso!SegmentLen(frame, i * g) = r
      BY <1>0, <2>2, <3>2 DEF Gso!SegmentLen
    <3>. QED  BY <3>1, <3>3 DEF r
  <2>. QED  BY <2>3, <2>4
<1>11. ASSUME NEW i \in 0..(n - 1), tcpFrame
       PROVE  P[i + 1].seq = (frame.seq + i * g) % SeqSpace
  <2>1. \A k \in 1..n : P[k].seq = (item.seq + (k - 1) * g) % SeqSpace
    BY <1>2, <1>4, <1>11, Zenon DEF Spaced
  <2>2. frame.seq = item.seq
    BY <1>2, <1>4, <1>5, <1>7, <1>11, Zenon DEF Stream
  <2>. QED  BY <1>7, <2>1, <2>2, Zenon
<1>12. tcpFrame /\ b.psh => P[n].psh
  BY <1>2, <1>4, Zenon DEF Segments
<1>13. ASSUME NEW i \in 0..(n - 1)
       PROVE  LET seg == Gso!Segment(frame, i, i * frame.gsoSize)
                  packet == batch[b.parts[i + 1]]
              IN /\ seg.len = packet.len
                 /\ Gso!IsTcp(frame) => seg.seq = packet.seq
                 /\ Gso!IsTcp(frame) /\ seg.end => packet.psh
                 /\ packet.opts = b.opts
  <2>1. frame.gsoSize = g /\ i + 1 \in 1..n /\ batch[b.parts[i + 1]] = P[i + 1]
    BY <1>2, <1>5, <1>7, <1>8, Zenon
  <2>2. P[i + 1].opts = b.opts
    BY <1>6, <2>1
  <2>. DEFINE at == i * g
              seg == Gso!Segment(frame, i, at)
  <2>3. /\ Gso!SegmentLen(frame, at) = P[i + 1].len
        /\ at + Gso!SegmentLen(frame, at) = full => i = m
        /\ tcpFrame => P[i + 1].seq = (frame.seq + at) % SeqSpace
    BY <1>10, <1>11, Zenon
  <2>4. i * frame.gsoSize = at
    BY <2>1, Zenon
  <2>. HIDE DEF m, g, r, n, at
  <2>5. /\ seg.len = Gso!SegmentLen(frame, at)
        /\ tcpFrame => seg.seq = (frame.seq + at) % SeqSpace
        /\ tcpFrame /\ seg.end => frame.end /\ at + Gso!SegmentLen(frame, at) = full
    BY SegmentFields, Zenon DEF tcpFrame, full
  <2>. HIDE DEF seg
  <2>6. seg.len = P[i + 1].len /\ (tcpFrame => seg.seq = P[i + 1].seq)
    BY <2>3, <2>5, Zenon
  <2>7. ASSUME tcpFrame, seg.end PROVE P[i + 1].psh
    <3>1. i = m /\ b.psh
      BY <1>5, <2>3, <2>5, <2>7, Zenon
    <3>2. i + 1 = n
      BY <1>6, <3>1
    <3>. QED  BY <1>12, <2>7, <3>1, <3>2, Zenon
  <2>. QED  BY <2>1, <2>2, <2>4, <2>6, <2>7, Zenon DEF tcpFrame, seg
<1>. QED  BY <1>9, <1>13, Zenon DEF SegmentsArePackets, frame, n

\* The buffers to write come back as they went.
LEMMA WrittenSplits ==
  ASSUME BatchHeld, MergeInv, HeaderInv
  PROVE  RoundTrips
<1>1. SUFFICES ASSUME pc = "write", NEW i \in 1..Len(toWrite),
                      Segmented(bufs[toWrite[i]])
               PROVE  /\ LengthFits(bufs[toWrite[i]]) =>
                           SegmentsArePackets(bufs[toWrite[i]])
                      /\ \A k \in ToSet(bufs[toWrite[i]].parts) : batch[k].csum
  <2>1. \A k \in ToSet(toWrite) : \E i \in 1..Len(toWrite) : k = toWrite[i]
    BY BatchFacts DEF ToSet
  <2>. QED  BY <2>1, Zenon DEF RoundTrips
<1>. DEFINE n == toWrite[i]
            b == bufs[n]
<1>2. n \in 1..Len(bufs) /\ b \in BufferType /\ batch \in Seq(Packet)
  <2>1. /\ n \in 1..settled /\ Len(bufs) = cur /\ batch \in Seq(Packet)
    BY BatchFacts
  <2>2. settled \in Nat /\ cur \in Nat /\ settled <= cur
    BY SettledFacts
  <2>. QED  BY <2>1, <2>2, QueueCarried
<1>3. b.hdr # Unset /\ b.hdr # Plain
  BY <1>1 DEF Segmented
<1>4. vnetHdr
  BY <1>2, <1>3 DEF HeaderInv, RawInv
<1>5. PICK x \in Items(tcp) \cup Items(udp) : x.buf = n
  BY <1>1, <1>4, Zenon DEF HeaderInv, MarkedInv
<1>6. Len(b.parts) > 1 /\ b.hdr = batch[b.parts[1]].len
  <2>1. n \in ToSet(toWrite)
    BY BatchFacts DEF ToSet
  <2>. QED  BY <1>1, <1>3, <1>4, <2>1, Zenon DEF MergeInv, HeadersFit
<1>7. x.gsoSize \in Nat /\ x.merged \in Nat
  BY ItemBufs DEF MergeInv, ItemOfTcp, ItemOfUdp
<1>8. Fits(batch, b, x)
  BY <1>5, Zenon DEF MergeInv, TrainsInv
<1>9. batch[b.parts[1]].proto = "tcp" => Follows(batch, b, x)
  <2>1. CASE x \in Items(tcp)
    BY <1>5, <2>1, Zenon DEF MergeInv, TrainsInv
  <2>2. CASE x \in Items(udp)
    <3>1. Datagrams(batch, b)
      BY <1>5, <2>2, Zenon DEF MergeInv, TrainsInv
    <3>2. 1 \in 1..Len(b.parts)
      BY <1>2, <1>6 DEF BufferType
    <3>. QED  BY <3>1, <3>2 DEF Datagrams
  <2>. QED  BY <2>1, <2>2
<1>. HIDE DEF b
<1>10. \A k \in ToSet(b.parts) : batch[k].csum
  BY <1>2, <1>6, <1>8, PartsChecked
<1>11. LengthFits(b) => SegmentsArePackets(b)
  BY <1>2, <1>6, <1>7, <1>8, <1>9, BufferSplits
<1>. QED  BY <1>10, <1>11, Zenon DEF b

\* What Write merges, the split that Read makes of such a frame gives back: as
\* many segments as packets, and each with the payload length, the sequence
\* number, the options of its packet, and with PSH only if that had it; provided
\* that the merged length fits its field.
THEOREM SplitGivesBack == Spec => []RoundTrips
<1>1. Init => HeaderInv
  BY HeaderInit
<1>2. BatchHeld /\ MergeInv /\ HeaderInv /\ [Next]_vars => HeaderInv'
  BY HeaderNext
<1>3. BatchHeld /\ MergeInv /\ HeaderInv => RoundTrips
  BY WrittenSplits
<1>. QED  BY <1>1, <1>2, <1>3, MergeInvariant, PTL DEF Spec
-----------------------------------------------------------------------------
(***************************************************************************)
(* The order of the datagrams of a flow.                                   *)
(***************************************************************************)

\* udpGRO takes a datagram into its table.
Mergeable(p) == p.proto = "udp" /\ ~NotMergeable(p)

\* Packets m and n of a batch, in this order, are such datagrams of one flow.
Rivals(bt, m, n) == /\ m < n /\ bt[m].flow = bt[n].flow
                    /\ Mergeable(bt[m]) /\ Mergeable(bt[n])

\* In the first w sequences of ps, m stands in front of n ...
InFront(ps, w, m, n) ==
  \A i, k \in 1..w : \A j \in 1..Len(ps[i]), l \in 1..Len(ps[k]) :
    ps[i][j] = m /\ ps[k][l] = n => i < k \/ (i = k /\ j < l)

\* ... and not behind the k-th sequence.
NotBehind(ps, w, m, k) == \A i \in 1..w : \A j \in 1..Len(ps[i]) : ps[i][j] = m => i <= k

Ordered(bt, ps, w, d) ==
  \A m, n \in 1..d : Rivals(bt, m, n) => InFront(ps, w, m, n)

\* udpGRO compares with the last item of a flow, and no datagram of the flow is
\* queued behind the buffer of that item.
Latest(t, f) == Last(t.items[f]).buf
Trailed(bt, ps, q, w, t, d) ==
  \A m \in 1..d : Mergeable(bt[m]) =>
    \A k \in 1..w : q[k] = Latest(t, bt[m].flow) => NotBehind(ps, w, m, k)

places == Contents(bufs, toWrite)

OrderInv ==
  /\ pc \in {"gro", "scan", "write"} => Ordered(batch, places, Len(toWrite), settled)
  /\ vnetHdr /\ pc \in {"gro", "scan"} =>
       Trailed(batch, places, toWrite, Len(toWrite), udp, settled)

\* Packet c, the next one, is queued in a buffer of its own.
LEMMA QueueOrders ==
  ASSUME NEW bt, NEW bu, NEW d \in Nat, NEW c, c = d + 1,
         \A m \in 1..d : bu[m] = bt[m],
         NEW ps, NEW rs, NEW w \in Nat, NEW v, v = w + 1, Covers(ps, w, d),
         \A i \in 1..w : rs[i] = ps[i], rs[v] = <<c>>
  PROVE  Ordered(bt, ps, w, d) => Ordered(bu, rs, v, c)
<1>1. /\ \A i \in 1..v : i \in 1..w \/ i = v
      /\ \A i \in 1..w : i < v
      /\ \A m \in 1..c : m \in 1..d \/ m = c
      /\ \A m, n \in 1..c : m < n => m # c
      /\ ~(c \in 1..d) /\ Len(rs[v]) = 1 /\ rs[v][1] = c
  OBVIOUS
<1>2. \A i \in 1..w : \A j \in 1..Len(rs[i]) : rs[i][j] \in 1..d /\ rs[i][j] = ps[i][j]
  BY CoversTypes
<1>3. \A j \in 1..Len(rs[v]) : rs[v][j] = c
  BY <1>1
<1>4. ASSUME Ordered(bt, ps, w, d), NEW m \in 1..c, NEW n \in 1..c, Rivals(bu, m, n)
      PROVE  InFront(rs, v, m, n)
  <2>1. m < n /\ m # c /\ m \in 1..d
    BY <1>1, <1>4 DEF Rivals
  <2>2. ASSUME NEW i \in 1..v, NEW k \in 1..v,
               NEW j \in 1..Len(rs[i]), NEW l \in 1..Len(rs[k]),
               rs[i][j] = m, rs[k][l] = n
        PROVE  i < k \/ (i = k /\ j < l)
    <3>1. i \in 1..w
      BY <1>1, <1>3, <2>1, <2>2, Zenon
    <3>2. CASE k = v
      BY <1>1, <3>1, <3>2
    <3>3. CASE k \in 1..w
      <4>1. n \in 1..d
        BY <1>2, <2>2, <3>3
      <4>2. Rivals(bt, m, n)
        BY <1>4, <2>1, <4>1, Zenon DEF Rivals
      <4>3. InFront(ps, w, m, n)
        BY <1>4, <2>1, <4>1, <4>2, Zenon DEF Ordered
      <4>. QED  BY <2>2, <3>1, <3>3, <4>3, Zenon DEF InFront
    <3>. QED  BY <1>1, <3>2, <3>3
  <2>. QED  BY <2>2, Zenon DEF InFront
<1>. QED  BY <1>4, Zenon DEF Ordered

\* ... and becomes the last item of its flow if it is a datagram.
LEMMA QueueTrails ==
  ASSUME NEW bt, NEW bu, NEW d \in Nat, NEW c, c = d + 1,
         \A m \in 1..d : bu[m] = bt[m],
         NEW ps, NEW rs, NEW w \in Nat, NEW v, v = w + 1, Covers(ps, w, d),
         \A i \in 1..w : rs[i] = ps[i], rs[v] = <<c>>,
         NEW q, NEW r, \A k \in 1..w : r[k] = q[k] /\ q[k] \in 1..d,
         NEW t, NEW u,
         \A m \in 1..d : \/ Latest(u, bu[m].flow) = Latest(t, bu[m].flow)
                         \/ Latest(u, bu[m].flow) = c,
         Mergeable(bu[c]) => Latest(u, bu[c].flow) = c
  PROVE  Trailed(bt, ps, q, w, t, d) => Trailed(bu, rs, r, v, u, c)
<1>1. /\ \A i \in 1..v : i \in 1..w \/ i = v
      /\ \A i \in 1..v : i <= v
      /\ \A m \in 1..c : m \in 1..d \/ m = c
      /\ ~(c \in 1..d) /\ Len(rs[v]) = 1 /\ rs[v][1] = c
  OBVIOUS
<1>2. \A j \in 1..Len(rs[v]) : rs[v][j] = c
  BY <1>1
<1>3. ASSUME Trailed(bt, ps, q, w, t, d), NEW m \in 1..c, Mergeable(bu[m]),
             NEW k \in 1..v, r[k] = Latest(u, bu[m].flow)
      PROVE  NotBehind(rs, v, m, k)
  <2>1. CASE k = v
    BY <1>1, <2>1, Zenon DEF NotBehind
  <2>2. CASE k \in 1..w
    <3>1. r[k] = q[k] /\ r[k] # c
      <4>1. r[k] = q[k] /\ q[k] \in 1..d
        BY <2>2
      <4>2. q[k] # c
        BY <1>1, <4>1, Zenon
      <4>. QED  BY <4>1, <4>2, Zenon
    <3>2. m \in 1..d
      BY <1>1, <1>3, <3>1, Zenon
    <3>3. q[k] = Latest(t, bt[m].flow) /\ Mergeable(bt[m])
      BY <1>3, <3>1, <3>2, Zenon
    <3>4. NotBehind(ps, w, m, k)
      BY <1>3, <2>2, <3>2, <3>3, Zenon DEF Trailed
    <3>5. ASSUME NEW i \in 1..v, NEW j \in 1..Len(rs[i]), rs[i][j] = m PROVE i <= k
      <4>1. i \in 1..w
        <5>1. i # v
          <6>1. SUFFICES ASSUME i = v PROVE FALSE
            OBVIOUS
          <6>2. rs[i][j] = c
            BY <1>2, <3>5, <6>1, Zenon
          <6>. QED  BY <1>1, <3>2, <3>5, <6>2, Zenon
        <5>. QED  BY <1>1, <5>1, Zenon
      <4>. QED  BY <3>4, <3>5, <4>1, Zenon DEF NotBehind
    <3>. QED  BY <3>5, Zenon DEF NotBehind
  <2>. QED  BY <1>1, <2>1, <2>2
<1>. QED  BY <1>3, Zenon DEF Trailed

\* From ps to rs, packet c comes behind those of the h-th sequence.
Behind(bt, bu, ps, rs, w, d, h, c) ==
  /\ \A m \in 1..d : bu[m] = bt[m]
  /\ \A i \in 1..w : i # h => rs[i] = ps[i]
  /\ rs[h] = ps[h] \o <<c>>

\* This is in order if it is the buffer of the last item of its flow.
LEMMA UdpOrders ==
  ASSUME NEW bt, NEW bu, NEW d \in Nat, NEW c, c = d + 1,
         NEW ps, NEW rs, NEW w \in Nat, Covers(ps, w, d),
         NEW q, \A i, k \in 1..w : q[i] = q[k] => i = k,
         NEW h \in 1..w, Behind(bt, bu, ps, rs, w, d, h, c),
         NEW t, q[h] = Latest(t, bu[c].flow),
         Ordered(bt, ps, w, d), Trailed(bt, ps, q, w, t, d)
  PROVE  Ordered(bu, rs, w, c) /\ Trailed(bu, rs, q, w, t, c)
<1>0. /\ \A m \in 1..d : bu[m] = bt[m]
      /\ \A i \in 1..w : i # h => rs[i] = ps[i]
      /\ rs[h] = ps[h] \o <<c>>
  BY Zenon DEF Behind
<1>1. /\ \A i \in 1..w : i <= i
      /\ \A m \in 1..c : m \in 1..d \/ m = c
      /\ \A m, n \in 1..c : m < n => m # c
      /\ c \in 1..c /\ ~(c \in 1..d)
  OBVIOUS
<1>2. \A i \in 1..w : \A j \in 1..Len(ps[i]) : ps[i][j] \in 1..d
  BY CoversTypes
<1>. DEFINE z == Len(ps[h])
<1>3. /\ z \in Nat /\ Len(rs[h]) = z + 1 /\ rs[h][z + 1] = c
      /\ \A j \in 1..z : rs[h][j] = ps[h][j]
  <2>1. ps[h] \in Seq(1..d) /\ z \in Nat
    BY CoversTypes
  <2>2. ps[h] \in Seq(1..c)
    BY <2>1
  <2>. DEFINE x == ps[h] \o <<c>>
  <2>3. /\ Len(x) = z + 1 /\ x[z + 1] = c /\ \A j \in 1..z : x[j] = ps[h][j]
    BY <1>1, <2>2, ConcatFacts
  <2>. HIDE DEF x
  <2>4. rs[h] = x
    BY <1>0, Zenon DEF x
  <2>. QED  BY <2>1, <2>3, <2>4
<1>. HIDE DEF z
<1>4. ASSUME NEW i \in 1..w, NEW j \in 1..Len(rs[i])
      PROVE  \/ rs[i][j] = c /\ i = h /\ j = z + 1
             \/ j \in 1..Len(ps[i]) /\ rs[i][j] = ps[i][j] /\ rs[i][j] \in 1..d
  <2>1. CASE i = h
    <3>1. j = z + 1 \/ j \in 1..z
      BY <1>3, <2>1
    <3>. QED  BY <1>2, <1>3, <2>1, <3>1 DEF z
  <2>2. CASE i # h
    BY <1>0, <1>2, <2>2
  <2>. QED  BY <2>1, <2>2
<1>5. ASSUME NEW m \in 1..d, Mergeable(bt[m]), bt[m].flow = bu[c].flow
      PROVE  NotBehind(ps, w, m, h)
  BY <1>5, Zenon DEF Trailed
<1>6. ASSUME NEW m \in 1..c, NEW n \in 1..c, Rivals(bu, m, n)
      PROVE  InFront(rs, w, m, n)
  <2>1. m \in 1..d
    BY <1>1, <1>6, Zenon DEF Rivals
  <2>2. ASSUME NEW i \in 1..w, NEW k \in 1..w,
               NEW j \in 1..Len(rs[i]), NEW l \in 1..Len(rs[k]),
               rs[i][j] = m, rs[k][l] = n
        PROVE  i < k \/ (i = k /\ j < l)
    <3>1. j \in 1..Len(ps[i]) /\ ps[i][j] = m
      <4>1. rs[i][j] # c
        BY <1>1, <2>1, <2>2, Zenon
      <4>. QED  BY <1>4, <2>2, <4>1
    <3>2. CASE n = c
      <4>1. k = h /\ l = z + 1
        <5>1. ~(rs[k][l] \in 1..d)
          BY <1>1, <2>2, <3>2, Zenon
        <5>. QED  BY <1>4, <5>1, Zenon
      <4>2. NotBehind(ps, w, m, h)
        BY <1>0, <1>5, <1>6, <2>1, <3>2, Zenon DEF Rivals
      <4>3. i <= h
        BY <3>1, <4>2, Zenon DEF NotBehind
      <4>4. i = h => j < z + 1
        BY <1>3, <3>1 DEF z
      <4>. QED  BY <4>1, <4>3, <4>4
    <3>3. CASE n \in 1..d
      <4>1. l \in 1..Len(ps[k]) /\ ps[k][l] = n
        <5>1. rs[k][l] # c
          BY <1>1, <2>2, <3>3, Zenon
        <5>. QED  BY <1>4, <2>2, <5>1
      <4>2. Rivals(bt, m, n)
        BY <1>0, <1>6, <2>1, <3>3, Zenon DEF Rivals
      <4>3. InFront(ps, w, m, n)
        BY <2>1, <3>3, <4>2, Zenon DEF Ordered
      <4>. QED  BY <3>1, <4>1, <4>3, Zenon DEF InFront
    <3>. QED  BY <1>1, <3>2, <3>3
  <2>. QED  BY <2>2, Zenon DEF InFront
<1>7. ASSUME NEW m \in 1..c, Mergeable(bu[m]), NEW k \in 1..w,
             q[k] = Latest(t, bu[m].flow), NEW i \in 1..w, NEW j \in 1..Len(rs[i]),
             rs[i][j] = m
      PROVE  i <= k
  <2>1. CASE m = c
    <3>1. i = h
      <4>1. ~(rs[i][j] \in 1..d)
        BY <1>1, <1>7, <2>1, Zenon
      <4>. QED  BY <1>4, <4>1, Zenon
    <3>2. q[k] = q[h]
      BY <1>7, <2>1, Zenon
    <3>3. k = h
      BY <3>2, Zenon
    <3>. QED  BY <3>1, <3>3
  <2>2. CASE m \in 1..d
    <3>1. j \in 1..Len(ps[i]) /\ ps[i][j] = m
      <4>1. rs[i][j] # c
        BY <1>1, <1>7, <2>2, Zenon
      <4>. QED  BY <1>4, <1>7, <4>1
    <3>2. Mergeable(bt[m]) /\ q[k] = Latest(t, bt[m].flow)
      BY <1>0, <1>7, <2>2, Zenon
    <3>3. NotBehind(ps, w, m, k)
      BY <2>2, <3>2, Zenon DEF Trailed
    <3>. QED  BY <3>1, <3>3, Zenon DEF NotBehind
  <2>. QED  BY <1>1, <2>1, <2>2
<1>8. Ordered(bu, rs, w, c)
  BY <1>6, Zenon DEF Ordered
<1>9. Trailed(bu, rs, q, w, t, c)
  BY <1>7, Zenon DEF Trailed, NotBehind
<1>. QED  BY <1>8, <1>9

\* From ps to rs, packet c may come into a sequence, but none that changes holds
\* a datagram.
Others(bt, bu, ps, rs, w, d, c) ==
  /\ \A m \in 1..d : bu[m] = bt[m]
  /\ c = d \/ (c = d + 1 /\ ~Mergeable(bu[c]))
  /\ \A i \in 1..w : \/ rs[i] = ps[i]
                     \/ \A j \in 1..Len(rs[i]) : ~Mergeable(bu[rs[i][j]])

LEMMA OthersOrder ==
  ASSUME NEW bt, NEW bu, NEW d \in Nat, NEW c, NEW ps, NEW rs, NEW w \in Nat,
         NEW q, NEW t, Others(bt, bu, ps, rs, w, d, c)
  PROVE  /\ Ordered(bt, ps, w, d) => Ordered(bu, rs, w, c)
         /\ Trailed(bt, ps, q, w, t, d) => Trailed(bu, rs, q, w, t, c)
<1>0. /\ \A m \in 1..d : bu[m] = bt[m]
      /\ c = d \/ (c = d + 1 /\ ~Mergeable(bu[c]))
      /\ \A i \in 1..w : \/ rs[i] = ps[i]
                         \/ \A j \in 1..Len(rs[i]) : ~Mergeable(bu[rs[i][j]])
  BY Zenon DEF Others
<1>1. \A m \in 1..c : Mergeable(bu[m]) => m \in 1..d
  <2>1. CASE c = d
    BY <2>1
  <2>2. CASE c = d + 1 /\ ~Mergeable(bu[c])
    <3>1. \A m \in 1..c : m \in 1..d \/ m = c
      BY <2>2
    <3>. QED  BY <2>2, <3>1, Zenon
  <2>. QED  BY <1>0, <2>1, <2>2
<1>2. ASSUME NEW i \in 1..w, NEW j \in 1..Len(rs[i]), Mergeable(bu[rs[i][j]])
      PROVE  rs[i] = ps[i]
  BY <1>0, <1>2, Zenon
<1>3. ASSUME Ordered(bt, ps, w, d), NEW m \in 1..c, NEW n \in 1..c, Rivals(bu, m, n)
      PROVE  InFront(rs, w, m, n)
  <2>1. m \in 1..d /\ n \in 1..d /\ Mergeable(bu[m]) /\ Mergeable(bu[n])
    BY <1>1, <1>3, Zenon DEF Rivals
  <2>2. Rivals(bt, m, n)
    BY <1>0, <1>3, <2>1, Zenon DEF Rivals
  <2>3. InFront(ps, w, m, n)
    BY <1>3, <2>1, <2>2, Zenon DEF Ordered
  <2>4. ASSUME NEW i \in 1..w, NEW k \in 1..w,
               NEW j \in 1..Len(rs[i]), NEW l \in 1..Len(rs[k]),
               rs[i][j] = m, rs[k][l] = n
        PROVE  i < k \/ (i = k /\ j < l)
    <3>1. rs[i] = ps[i]
      BY <1>2, <2>1, <2>4, Zenon
    <3>2. rs[k] = ps[k]
      BY <1>2, <2>1, <2>4, Zenon
    <3>. QED  BY <2>3, <2>4, <3>1, <3>2, Zenon DEF InFront
  <2>. QED  BY <2>4, Zenon DEF InFront
<1>4. ASSUME Trailed(bt, ps, q, w, t, d), NEW m \in 1..c, Mergeable(bu[m]),
             NEW k \in 1..w, q[k] = Latest(t, bu[m].flow),
             NEW i \in 1..w, NEW j \in 1..Len(rs[i]), rs[i][j] = m
      PROVE  i <= k
  <2>1. m \in 1..d
    BY <1>1, <1>4, Zenon
  <2>2. Mergeable(bt[m]) /\ q[k] = Latest(t, bt[m].flow)
    BY <1>0, <1>4, <2>1, Zenon
  <2>3. NotBehind(ps, w, m, k)
    BY <1>4, <2>1, <2>2, Zenon DEF Trailed
  <2>4. rs[i] = ps[i]
    BY <1>2, <1>4, Zenon
  <2>. QED  BY <1>4, <2>3, <2>4, Zenon DEF NotBehind
<1>5. Ordered(bt, ps, w, d) => Ordered(bu, rs, w, c)
  BY <1>3, Zenon DEF Ordered
<1>6. Trailed(bt, ps, q, w, t, d) => Trailed(bu, rs, q, w, t, c)
  BY <1>4, Zenon DEF Trailed, NotBehind
<1>. QED  BY <1>5, <1>6

\* The queue before a step.
LEMMA OrderFacts ==
  ASSUME BatchHeld
  PROVE  /\ settled \in Nat /\ cur \in Nat /\ settled <= cur /\ Len(toWrite) \in Nat
         /\ Covers(places, Len(toWrite), settled)
         /\ \A i, k \in 1..Len(toWrite) : toWrite[i] = toWrite[k] => i = k
         /\ \A i \in 1..Len(toWrite) : /\ toWrite[i] \in 1..settled
                                       /\ places[i] = bufs[toWrite[i]].parts
         /\ toWrite \in Seq(1..settled)
         /\ \A m \in 1..settled : batch[m].flow \in Flow
<1>1. /\ settled \in Nat /\ cur \in Nat /\ settled <= cur /\ Len(toWrite) \in Nat
      /\ toWrite \in Seq(1..settled)
      /\ \A i \in 1..Len(toWrite) : toWrite[i] \in 1..settled
  BY BatchFacts, SettledFacts
<1>2. Covers(places, Len(toWrite), settled)
  BY Zenon DEF BatchHeld, Held, places
<1>3. \A i, k \in 1..Len(toWrite) : toWrite[i] = toWrite[k] => i = k
  BY Zenon DEF BatchHeld, Held, Queued
<1>4. \A i \in 1..Len(toWrite) : places[i] = bufs[toWrite[i]].parts
  BY DEF places, Contents
<1>5. ASSUME NEW m \in 1..settled PROVE batch[m].flow \in Flow
  <2>1. batch \in Seq(Packet) /\ m \in 1..Len(batch)
    BY <1>1, BatchFacts DEF cur
  <2>2. batch[m] \in Packet
    BY <2>1, SeqFacts
  <2>. QED  BY <2>2, FlowAssumption
<1>. QED  BY <1>1, <1>2, <1>3, <1>4, <1>5, Zenon

\* A step that settles no packet and leaves queue and datagrams where they are.
LEMMA OrderKept ==
  ASSUME BatchHeld, OrderInv, pc \in {"gro", "scan"}, vnetHdr' = vnetHdr,
         udp' = udp, toWrite' = toWrite, settled' = settled,
         \A m \in 1..settled : batch'[m] = batch[m] /\ bufs'[m].parts = bufs[m].parts
  PROVE  OrderInv'
<1>. DEFINE w == Len(toWrite)
            d == settled
<1>1. /\ d \in Nat /\ w \in Nat
      /\ \A i \in 1..w : toWrite[i] \in 1..d /\ places[i] = bufs[toWrite[i]].parts
  BY OrderFacts
<1>2. \A i \in 1..w : places'[i] = places[i]
  BY <1>1 DEF places, Contents
<1>3. Others(batch, batch', places, places', w, d, d)
  BY <1>2 DEF Others
<1>4. /\ Ordered(batch, places, w, d)
      /\ vnetHdr => Trailed(batch, places, toWrite, w, udp, d)
  BY Zenon DEF OrderInv
<1>. HIDE DEF d, w
<1>5. /\ Ordered(batch', places', w, d)
      /\ vnetHdr => Trailed(batch', places', toWrite, w, udp, d)
  BY <1>1, <1>3, <1>4, OthersOrder, Zenon
<1>6. toWrite' = toWrite /\ Len(toWrite') = w /\ settled' = d
  BY DEF d, w
<1>. QED  BY <1>5, <1>6, Zenon DEF OrderInv

\* A packet that is queued in a buffer of its own, as the last item of its flow
\* if it is a datagram.
LEMMA OrderQueued ==
  ASSUME BatchHeld, OrderInv, pc \in {"gro", "scan"}, pc' = "gro", vnetHdr' = vnetHdr,
         NEW c, c = settled + 1, settled' = c, toWrite' = Append(toWrite, c),
         \A m \in 1..settled : batch'[m] = batch[m] /\ bufs'[m].parts = bufs[m].parts,
         bufs'[c].parts = <<c>>,
         vnetHdr => /\ \A m \in 1..settled :
                         \/ Latest(udp', batch'[m].flow) = Latest(udp, batch'[m].flow)
                         \/ Latest(udp', batch'[m].flow) = c
                    /\ Mergeable(batch'[c]) => Latest(udp', batch'[c].flow) = c
  PROVE  OrderInv'
<1>. DEFINE w == Len(toWrite)
            d == settled
            v == w + 1
<1>1. /\ d \in Nat /\ w \in Nat /\ Covers(places, w, d) /\ c \in Nat
      /\ \A i \in 1..w : toWrite[i] \in 1..d /\ places[i] = bufs[toWrite[i]].parts
      /\ toWrite \in Seq(1..d)
  BY OrderFacts
<1>2. /\ Len(toWrite') = v /\ toWrite'[v] = c /\ v \in 1..v
      /\ \A i \in 1..w : toWrite'[i] = toWrite[i] /\ i \in 1..v
  <2>1. toWrite \in Seq(Nat)
    BY <1>1
  <2>2. /\ Len(Append(toWrite, c)) = v /\ Append(toWrite, c)[v] = c
        /\ \A i \in 1..w : Append(toWrite, c)[i] = toWrite[i]
    BY <1>1, <2>1, AppendFacts
  <2>. QED  BY <1>1, <2>2
<1>3. places'[v] = <<c>> /\ \A i \in 1..w : places'[i] = places[i]
  <2>1. \A i \in 1..v : places'[i] = bufs'[toWrite'[i]].parts
    BY <1>2 DEF places, Contents
  <2>2. places'[v] = <<c>>
    BY <1>2, <2>1
  <2>3. ASSUME NEW i \in 1..w PROVE places'[i] = places[i]
    <3>1. toWrite'[i] = toWrite[i] /\ i \in 1..v /\ toWrite[i] \in 1..d
      BY <1>1, <1>2, Zenon
    <3>2. bufs'[toWrite[i]].parts = bufs[toWrite[i]].parts
      BY <3>1
    <3>. QED  BY <1>1, <2>1, <3>1, <3>2, Zenon
  <2>. QED  BY <2>2, <2>3
<1>4. /\ Ordered(batch, places, w, d)
      /\ vnetHdr => Trailed(batch, places, toWrite, w, udp, d)
  BY Zenon DEF OrderInv
<1>5. c = d + 1 /\ v = w + 1 /\ \A m \in 1..d : batch'[m] = batch[m]
  OBVIOUS
<1>. HIDE DEF d, w, v
<1>6. Ordered(batch', places', v, c)
  BY <1>1, <1>3, <1>4, <1>5, QueueOrders
<1>7. ASSUME vnetHdr PROVE Trailed(batch', places', toWrite', v, udp', c)
  <2>1. /\ \A m \in 1..d : \/ Latest(udp', batch'[m].flow) = Latest(udp, batch'[m].flow)
                           \/ Latest(udp', batch'[m].flow) = c
        /\ Mergeable(batch'[c]) => Latest(udp', batch'[c].flow) = c
    BY <1>7, Zenon DEF d
  <2>2. \A k \in 1..w : toWrite'[k] = toWrite[k] /\ toWrite[k] \in 1..d
    BY <1>1, <1>2, Zenon
  <2>3. Trailed(batch, places, toWrite, w, udp, d)
    BY <1>4, <1>7
  <2>. QED  BY <1>1, <1>3, <1>5, <2>1, <2>2, <2>3, QueueTrails
<1>. QED  BY <1>2, <1>6, <1>7, Zenon DEF OrderInv

\* The last item of each flow after an insertion and after a merge.
LEMMA LatestInsert ==
  ASSUME BatchHeld, NEW f \in Flow, NEW new \in ItemOfUdp
  PROVE  /\ Latest(Insert(udp, f, new), f) = new.buf
         /\ \A g \in Flow \ {f} : Latest(Insert(udp, f, new), g) = Latest(udp, g)
<1>. DEFINE u == Insert(udp, f, new)
<1>1. udp.items \in [Flow -> Seq(ItemOfUdp)]
  BY DEF BatchHeld, Shapes, TableHeld
<1>2. u.items = [udp.items EXCEPT ![f] = Append(@, new)]
  BY DEF Insert
<1>. HIDE DEF u
<1>3. /\ u.items[f] = Append(udp.items[f], new)
      /\ \A g \in Flow \ {f} : u.items[g] = udp.items[g]
  BY <1>1, <1>2
<1>4. Last(Append(udp.items[f], new)) = new
  <2>1. udp.items[f] \in Seq(ItemOfUdp)
    BY <1>1
  <2>2. /\ Len(Append(udp.items[f], new)) = Len(udp.items[f]) + 1
        /\ Append(udp.items[f], new)[Len(udp.items[f]) + 1] = new
    BY <2>1, AppendFacts
  <2>. QED  BY <2>2 DEF Last
<1>5. Latest(u, f) = new.buf /\ \A g \in Flow \ {f} : Latest(u, g) = Latest(udp, g)
  BY <1>3, <1>4 DEF Latest
<1>. QED  BY <1>5 DEF u

LEMMA LatestUpdate ==
  ASSUME BatchHeld, NEW f \in Flow, NEW k, k = Len(udp.items[f]), k # 0,
         NEW new \in ItemOfUdp, new.buf = udp.items[f][k].buf
  PROVE  \A g \in Flow : Latest(UpdateAt(udp, f, k, new), g) = Latest(udp, g)
<1>. DEFINE u == UpdateAt(udp, f, k, new)
            x == [udp.items[f] EXCEPT ![k] = new]
<1>1. udp.items \in [Flow -> Seq(ItemOfUdp)] /\ Balanced(udp)
  BY DEF BatchHeld, Shapes, TableHeld, PoolInv
<1>2. udp.items[f] \in Seq(ItemOfUdp) /\ k \in 1..Len(udp.items[f])
  <2>1. udp.items[f] \in Seq(ItemOfUdp)
    BY <1>1
  <2>. QED  BY <2>1
<1>3. Len(x) = k /\ x[k] = new
  BY <1>2, ReplaceFacts
<1>4. u.items = [udp.items EXCEPT ![f] = x]
  BY <1>1 DEF UpdateAt, Balanced
<1>. HIDE DEF u, x
<1>5. /\ u.items[f] = x
      /\ \A g \in Flow \ {f} : u.items[g] = udp.items[g]
  BY <1>1, <1>4
<1>6. Last(x) = new /\ Last(udp.items[f]) = udp.items[f][k]
  BY <1>3 DEF Last
<1>7. ASSUME NEW g \in Flow PROVE Latest(u, g) = Latest(udp, g)
  BY <1>5, <1>6 DEF Latest
<1>. QED  BY <1>7 DEF u

\* The batch with one more packet.
LEMMA OneTaken ==
  ASSUME BatchHeld, pc = "gro", pc' \in {"gro", "scan"}, NEW p \in Packet,
         NEW b \in BufferType, b.parts = <<cur + 1>>,
         Len(batch) < size, batch' = Append(batch, p), bufs' = Append(bufs, b)
  PROVE  /\ settled = cur /\ cur' = cur + 1
         /\ settled' = (IF pc' = "scan" THEN settled ELSE settled + 1)
         /\ \A m \in 1..settled : batch'[m] = batch[m] /\ bufs'[m].parts = bufs[m].parts
         /\ batch'[settled + 1] = p /\ bufs'[settled + 1].parts = <<settled + 1>>
<1>1. /\ cur' = cur + 1 /\ settled = cur
      /\ \A m \in 1..cur : bufs'[m] = bufs[m]
      /\ bufs'[cur + 1] = b
  BY OneMore
<1>2. batch \in Seq(Packet) /\ Len(batch) = cur /\ cur \in Nat
  BY BatchFacts DEF cur
<1>3. batch'[cur + 1] = p /\ \A m \in 1..cur : batch'[m] = batch[m]
  BY <1>2, AppendFacts
<1>4. settled' = (IF pc' = "scan" THEN settled ELSE settled + 1)
  BY <1>1, <1>2 DEF settled
<1>. QED  BY <1>1, <1>3, <1>4

\* Packets that are no candidates are not datagrams udpGRO takes.
LEMMA TakeRawOrders ==
  ASSUME BatchHeld, OrderInv, NEW p \in Packet, TakeRaw(p) \/ TakeAsIs(p)
  PROVE  OrderInv'
<1>1. cur \in Nat
  BY BatchFacts
<1>. DEFINE b == Buffer(p, cur + 1)
            c == [b EXCEPT !.hdr = Plain]
<1>2. /\ b \in BufferType /\ b.parts = <<cur + 1>>
      /\ c \in BufferType /\ c.parts = <<cur + 1>>
  BY <1>1, BufferTyped
<1>3. PICK e \in {b, c} : /\ Takes(p, e) /\ toWrite' = Append(toWrite, cur + 1)
                          /\ UNCHANGED <<pc, udp>>
  BY DEF TakeRaw, TakeAsIs, Queue
<1>4. e \in BufferType /\ e.parts = <<cur + 1>>
  BY <1>2, <1>3
<1>5. vnetHdr => ~Mergeable(p)
  BY DEF TakeRaw, TakeAsIs, Mergeable
<1>. HIDE DEF b, c
<1>6. /\ pc = "gro" /\ pc' = "gro" /\ Len(batch) < size /\ batch' = Append(batch, p)
      /\ bufs' = Append(bufs, e) /\ vnetHdr' = vnetHdr /\ udp' = udp
  BY <1>3 DEF Takes
<1>7. /\ settled = cur /\ settled' = settled + 1
      /\ \A m \in 1..settled : batch'[m] = batch[m] /\ bufs'[m].parts = bufs[m].parts
      /\ batch'[settled + 1] = p /\ bufs'[settled + 1].parts = <<settled + 1>>
  BY <1>4, <1>6, OneTaken
<1>8. toWrite' = Append(toWrite, settled + 1)
  BY <1>3, <1>7
<1>9. vnetHdr => /\ \A m \in 1..settled :
                      Latest(udp', batch'[m].flow) = Latest(udp, batch'[m].flow)
                 /\ Mergeable(batch'[settled + 1])
                      => Latest(udp', batch'[settled + 1].flow) = settled + 1
  BY <1>5, <1>6, <1>7
<1>. QED  BY <1>6, <1>7, <1>8, <1>9, OrderQueued

\* A TCP packet of a new flow is queued, one of a known flow waits for its scan.
LEMMA TakeTcpOrders ==
  ASSUME BatchHeld, OrderInv, NEW p \in Packet, TakeTcp(p)
  PROVE  OrderInv'
<1>1. cur \in Nat /\ cur + 1 \in Nat
  BY BatchFacts
<1>. DEFINE b == Buffer(p, cur + 1)
<1>2. b \in BufferType /\ b.parts = <<cur + 1>>
  <2>1. b \in BufferType
    BY <1>1, BufferTyped
  <2>2. b.parts = <<cur + 1>>
    BY <1>1, BufferTyped
  <2>. QED  BY <2>1, <2>2
<1>3. /\ pc = "gro" /\ Len(batch) < size /\ batch' = Append(batch, p)
      /\ bufs' = Append(bufs, b) /\ UNCHANGED <<vnetHdr, udp>>
      /\ ~Mergeable(p)
      /\ \/ pc' = "scan" /\ toWrite' = toWrite
         \/ pc' = "gro" /\ toWrite' = Append(toWrite, cur + 1)
  BY DEF TakeTcp, Takes, Queue, Mergeable
<1>. HIDE DEF b
<1>4. /\ settled = cur
      /\ settled' = (IF pc' = "scan" THEN settled ELSE settled + 1)
      /\ \A m \in 1..settled : batch'[m] = batch[m] /\ bufs'[m].parts = bufs[m].parts
      /\ batch'[settled + 1] = p /\ bufs'[settled + 1].parts = <<settled + 1>>
  BY <1>2, <1>3, OneTaken
<1>5. CASE pc' = "scan" /\ toWrite' = toWrite
  BY <1>3, <1>4, <1>5, OrderKept
<1>6. CASE pc' = "gro" /\ toWrite' = Append(toWrite, cur + 1)
  <2>1. settled' = settled + 1 /\ toWrite' = Append(toWrite, settled + 1)
    BY <1>4, <1>6
  <2>2. vnetHdr => /\ \A m \in 1..settled :
                        Latest(udp', batch'[m].flow) = Latest(udp, batch'[m].flow)
                   /\ Mergeable(batch'[settled + 1])
                        => Latest(udp', batch'[settled + 1].flow) = settled + 1
    BY <1>3, <1>4
  <2>. QED  BY <1>3, <1>4, <1>6, <2>1, <2>2, OrderQueued
<1>. QED  BY <1>3, <1>5, <1>6

\* A datagram that is not merged becomes the last item of its flow.
LEMMA UdpInsertOrders ==
  ASSUME BatchHeld, OrderInv, NEW p \in Packet, NEW b \in BufferType,
         b.parts = <<cur + 1>>, NEW new \in ItemOfUdp, new.buf = cur + 1,
         pc = "gro", pc' = "gro", Len(batch) < size, batch' = Append(batch, p),
         bufs' = Append(bufs, b), toWrite' = Append(toWrite, cur + 1),
         udp' = Insert(udp, p.flow, new), vnetHdr' = vnetHdr
  PROVE  OrderInv'
<1>1. /\ settled = cur /\ settled' = settled + 1
      /\ \A m \in 1..settled : batch'[m] = batch[m] /\ bufs'[m].parts = bufs[m].parts
      /\ batch'[settled + 1] = p /\ bufs'[settled + 1].parts = <<settled + 1>>
  BY OneTaken
<1>2. p.flow \in Flow
  BY FlowAssumption
<1>3. /\ Latest(udp', p.flow) = cur + 1
      /\ \A g \in Flow : g # p.flow => Latest(udp', g) = Latest(udp, g)
  BY <1>2, LatestInsert
<1>4. \A m \in 1..settled : batch'[m].flow \in Flow
  BY <1>1, OrderFacts
<1>5. vnetHdr => /\ \A m \in 1..settled :
                      \/ Latest(udp', batch'[m].flow) = Latest(udp, batch'[m].flow)
                      \/ Latest(udp', batch'[m].flow) = settled + 1
                 /\ Mergeable(batch'[settled + 1])
                      => Latest(udp', batch'[settled + 1].flow) = settled + 1
  <2>1. ASSUME NEW m \in 1..settled
        PROVE  \/ Latest(udp', batch'[m].flow) = Latest(udp, batch'[m].flow)
               \/ Latest(udp', batch'[m].flow) = settled + 1
    BY <1>1, <1>3, <1>4, Zenon
  <2>2. Latest(udp', batch'[settled + 1].flow) = settled + 1
    BY <1>1, <1>3, Zenon
  <2>. QED  BY <2>1, <2>2
<1>6. toWrite' = Append(toWrite, settled + 1)
  BY <1>1
<1>. QED  BY <1>1, <1>5, <1>6, OrderQueued

\* A datagram is merged into the last item of its flow only, behind the others.
LEMMA UdpMergeOrders ==
  ASSUME BatchHeld, OrderInv, vnetHdr, vnetHdr' = vnetHdr,
         NEW p \in Packet, NEW k, k = Len(udp.items[p.flow]), k # 0,
         NEW item, item = udp.items[p.flow][k],
         pc = "gro", pc' = "gro", Len(batch) < size, batch' = Append(batch, p),
         udp' = UpdateAt(udp, p.flow, k, UdpMergedItem(item)),
         bufs' = UdpBufs(item, p), toWrite' = toWrite
  PROVE  OrderInv'
<1>. DEFINE f == p.flow
            n == item.buf
            w == Len(toWrite)
            d == settled
            c == cur + 1
<1>1. f \in Flow /\ cur \in Nat
  BY FlowAssumption, BatchFacts
<1>2. k \in 1..Len(udp.items[f])
  <2>1. udp.items[f] \in Seq(ItemOfUdp)
    BY <1>1, ItemsFacts
  <2>. QED  BY <2>1
<1>3. item \in ItemOfUdp /\ d = cur /\ cur' = c
  BY <1>2, UdpBufsFacts, ZenonT(40)
<1>4. \E i \in 1..w : n = toWrite[i]
  BY <1>2, UdpBufsFacts, ZenonT(40)
<1>5. bufs'[n].parts = bufs[n].parts \o <<c>>
  BY <1>2, UdpBufsFacts, ZenonT(40)
<1>6. \A m \in 1..cur : m # n => bufs'[m] = bufs[m]
  BY <1>2, UdpBufsFacts, ZenonT(40)
<1>7. PICK h \in 1..w : n = toWrite[h]
  BY <1>4
<1>8. /\ d \in Nat /\ w \in Nat /\ Covers(places, w, d) /\ c = d + 1
      /\ \A i \in 1..w : toWrite[i] \in 1..d /\ places[i] = bufs[toWrite[i]].parts
      /\ \A i, j \in 1..w : toWrite[i] = toWrite[j] => i = j
      /\ \A m \in 1..d : batch[m].flow \in Flow
  BY <1>3, OrderFacts
<1>9. batch'[c] = p /\ \A m \in 1..d : batch'[m] = batch[m]
  <2>1. batch \in Seq(Packet) /\ Len(batch) = cur
    BY BatchFacts DEF cur
  <2>. QED  BY <1>3, <2>1, AppendFacts
<1>10. \A g \in Flow : Latest(udp', g) = Latest(udp, g)
  <2>1. UdpMergedItem(item) \in ItemOfUdp /\ UdpMergedItem(item).buf = item.buf
    BY <1>3, MergedItemTyped
  <2>. QED  BY <1>1, <2>1, LatestUpdate
<1>11. \A m \in 1..c : Latest(udp', batch'[m].flow) = Latest(udp, batch'[m].flow)
  <2>1. \A m \in 1..c : m \in 1..d \/ m = c
    BY <1>8
  <2>2. \A m \in 1..c : batch'[m].flow \in Flow
    BY <1>1, <1>8, <1>9, <2>1, Zenon
  <2>. QED  BY <1>10, <2>2
<1>12. toWrite[h] = Latest(udp, batch'[c].flow)
  BY <1>7, <1>9 DEF Latest, Last
<1>13. \A i \in 1..w : places'[i] = bufs'[toWrite[i]].parts
  BY DEF places, Contents
<1>14. places'[h] = places[h] \o <<c>>
  BY <1>5, <1>7, <1>8, <1>13, Zenon
<1>15. ASSUME NEW i \in 1..w, i # h PROVE places'[i] = places[i]
  <2>1. toWrite[i] # n /\ toWrite[i] \in 1..cur
    BY <1>3, <1>7, <1>8, <1>15, Zenon
  <2>2. bufs'[toWrite[i]] = bufs[toWrite[i]]
    BY <1>6, <2>1, Zenon
  <2>. QED  BY <1>8, <1>13, <2>2, Zenon
<1>16. Ordered(batch, places, w, d) /\ Trailed(batch, places, toWrite, w, udp, d)
  BY Zenon DEF OrderInv
<1>17. toWrite' = toWrite /\ Len(toWrite') = w /\ settled' = c
  BY <1>3 DEF settled
<1>. HIDE DEF d, w, c, n, f
<1>18. Ordered(batch', places', w, c) /\ Trailed(batch', places', toWrite, w, udp', c)
  <2>1. /\ d \in Nat /\ w \in Nat /\ h \in 1..w /\ c = d + 1 /\ Covers(places, w, d)
        /\ \A i, j \in 1..w : toWrite[i] = toWrite[j] => i = j
        /\ Behind(batch, batch', places, places', w, d, h, c)
        /\ toWrite[h] = Latest(udp, batch'[c].flow)
    BY <1>8, <1>9, <1>12, <1>14, <1>15, Zenon DEF Behind
  <2>2. Ordered(batch', places', w, c)
    BY <1>16, <2>1, UdpOrders
  <2>3. Trailed(batch', places', toWrite, w, udp, c)
    BY <1>16, <2>1, UdpOrders
  <2>4. Trailed(batch', places', toWrite, w, udp', c)
    BY <1>11, <2>3, Zenon DEF Trailed
  <2>. QED  BY <2>2, <2>4
<1>. QED  BY <1>17, <1>18, Zenon DEF OrderInv

\* A datagram that udpGRO takes, merged or not.
LEMMA TakeUdpOrders ==
  ASSUME BatchHeld, OrderInv, NEW p \in Packet, TakeUdp(p)
  PROVE  OrderInv'
<1>. DEFINE f == p.flow
            item == Last(udp.items[f])
            b == Buffer(p, cur + 1)
            k == Len(udp.items[f])
<1>1. /\ pc = "gro" /\ pc' = "gro" /\ Len(batch) < size /\ batch' = Append(batch, p)
      /\ vnetHdr /\ vnetHdr' = vnetHdr
  BY DEF TakeUdp
<1>2. f \in Flow /\ cur \in Nat /\ cur + 1 \in Nat
  BY FlowAssumption, BatchFacts
<1>3. \/ \E bad \in BOOLEAN :
           /\ udp' = Insert(udp, f, UdpItem(p, cur + 1, bad))
           /\ bufs' = Append(bufs, b) /\ toWrite' = Append(toWrite, cur + 1)
      \/ /\ Existing(udp, f)
         /\ udp' = UpdateAt(udp, f, k, UdpMergedItem(item))
         /\ bufs' = [Append(bufs, b) EXCEPT ![item.buf] = UdpMerged(bufs[item.buf], b)]
         /\ toWrite' = toWrite
  BY TakeUdpCases
<1>4. ASSUME NEW bad \in BOOLEAN,
             udp' = Insert(udp, f, UdpItem(p, cur + 1, bad)),
             bufs' = Append(bufs, b), toWrite' = Append(toWrite, cur + 1)
      PROVE  OrderInv'
  <2>. DEFINE new == UdpItem(p, cur + 1, bad)
  <2>1. b \in BufferType /\ b.parts = <<cur + 1>>
    BY <1>2, BufferTyped
  <2>2. new \in ItemOfUdp /\ new.buf = cur + 1
    BY <1>2, ItemTyped
  <2>3. udp' = Insert(udp, f, new)
    BY <1>4
  <2>. HIDE DEF b, new
  <2>. QED  BY <1>1, <1>4, <2>1, <2>2, <2>3, UdpInsertOrders
<1>5. ASSUME Existing(udp, f),
             udp' = UpdateAt(udp, f, k, UdpMergedItem(item)),
             bufs' = [Append(bufs, b) EXCEPT
                        ![item.buf] = UdpMerged(bufs[item.buf], b)],
             toWrite' = toWrite
      PROVE  OrderInv'
  <2>1. udp.items[f] \in Seq(ItemOfUdp) /\ udp.items[f] # <<>>
    BY <1>2, <1>5, ItemsFacts DEF Existing, BatchHeld, ScanInv
  <2>2. k # 0 /\ item = udp.items[f][k]
    BY <2>1 DEF Last
  <2>3. bufs' = UdpBufs(item, p)
    BY <1>5, Zenon DEF UdpBufs
  <2>. HIDE DEF item
  <2>. QED  BY <1>1, <1>5, <2>2, <2>3, UdpMergeOrders
<1>. QED  BY <1>3, <1>4, <1>5

\* A buffer that tcpGRO merges holds TCP packets only.
LEMMA ScanMergesOrders ==
  ASSUME BatchHeld, MergeInv, OrderInv, pc = "scan", scan > 0,
         NEW can, NEW item, item = tcp.items[current.flow][scan],
         bufs' = TcpBufs(can, item), pc' = "gro", toWrite' = toWrite, ScanFrame
  PROVE  OrderInv'
<1>. DEFINE n == item.buf
            w == Len(toWrite)
            d == settled
            c == cur
<1>1. /\ current.flow \in Flow /\ scan \in 1..Len(tcp.items[current.flow])
      /\ d = c - 1 /\ n \in 1..(c - 1)
      /\ bufs[n] \in BufferType /\ bufs[c] \in BufferType /\ bufs[c].parts = <<c>>
  BY ScanFacts
<1>2. /\ vnetHdr /\ c \in 1..Len(batch) /\ c \in Nat /\ batch \in Seq(Packet)
      /\ current = batch[c] /\ current.proto = "tcp"
  BY ScanPacket
<1>3. UNCHANGED <<vnetHdr, batch, udp>>
  BY DEF ScanFrame
<1>4. item \in Items(tcp)
  <2>1. Balanced(tcp) /\ TableHeld(tcp, ItemOfTcp, toWrite) /\ Orderly(tcp)
    BY DEF BatchHeld, PoolInv, Shapes, MergeInv, TablesInv
  <2>. QED  BY <1>1, <2>1, ItemsAt
<1>. DEFINE P == bufs[n].parts
<1>5. \A k \in 1..Len(P) : batch[P[k]].proto = "tcp"
  <2>1. Fits(batch, bufs[n], item) /\ Follows(batch, bufs[n], item)
    BY <1>4, Zenon DEF MergeInv, TrainsInv
  <2>. DEFINE Q == Payload(batch, bufs[n])
  <2>2. Carried(batch, bufs[n]) /\ Segments(Q, item, bufs[n])
    BY <2>1, Zenon DEF Fits, Follows
  <2>3. Len(Q) = Len(P) /\ \A k \in 1..Len(P) : Q[k] = batch[P[k]]
    BY <1>1, <1>2, <2>2, PayloadType
  <2>4. \A k \in 1..Len(Q) : Q[k].proto = "tcp"
    BY <2>2, Zenon DEF Segments
  <2>. HIDE DEF Q, P
  <2>5. \A k \in 1..Len(P) : k \in 1..Len(Q) /\ Q[k] = batch[P[k]]
    BY <2>3, Zenon
  <2>. QED  BY <2>4, <2>5, Zenon
<1>6. P \in Seq(Nat) /\ Len(P) \in Nat
  <2>1. bufs[n].parts \in Seq(Nat)
    <3>1. bufs[n] \in BufferType
      BY <1>1
    <3>. HIDE DEF n
    <3>. QED  BY <3>1 DEF BufferType
  <2>2. P \in Seq(Nat)
    BY <2>1
  <2>. HIDE DEF P
  <2>. QED  BY <2>2
<1>7. /\ bufs'[n].parts \in {P \o <<c>>, <<c>> \o P}
      /\ \A m \in 1..d : m # n => bufs'[m].parts = bufs[m].parts
  <2>1. MergedInto(bufs, bufs', n, c - 1) /\ (c - 1) + 1 = c
    BY <1>2, TcpBufsFacts
  <2>. QED  BY <1>1, <2>1 DEF MergedInto
<1>8. \A j \in 1..Len(bufs'[n].parts) : ~Mergeable(batch[bufs'[n].parts[j]])
  <2>. DEFINE x == P \o <<c>>
              y == <<c>> \o P
  <2>1. /\ Len(x) = Len(P) + 1 /\ x[Len(P) + 1] = c
        /\ \A k \in 1..Len(P) : x[k] = P[k]
        /\ Len(y) = Len(P) + 1 /\ y[1] = c
        /\ \A k \in 1..Len(P) : y[k + 1] = P[k]
    <3>1. P \in Seq(Nat) /\ c \in Nat
      BY <1>2, <1>6
    <3>. HIDE DEF P, c
    <3>2. /\ Len(x) = Len(P) + 1 /\ x[Len(P) + 1] = c
          /\ \A k \in 1..Len(P) : x[k] = P[k]
      BY <3>1, ConcatFacts
    <3>3. /\ Len(y) = Len(P) + 1 /\ y[1] = c
          /\ \A k \in 1..Len(P) : y[k + 1] = P[k]
      BY <3>1, ConcatFacts
    <3>. QED  BY <3>2, <3>3
  <2>. HIDE DEF x, y, P
  <2>2. ASSUME NEW j \in 1..(Len(P) + 1)
        PROVE  batch[x[j]].proto = "tcp" /\ batch[y[j]].proto = "tcp"
    <3>1. j = Len(P) + 1 \/ j \in 1..Len(P)
      BY <1>6
    <3>2. j = 1 \/ (j - 1 \in 1..Len(P) /\ j = (j - 1) + 1)
      BY <1>6
    <3>3. batch[x[j]].proto = "tcp"
      BY <1>2, <1>5, <2>1, <3>1
    <3>4. batch[y[j]].proto = "tcp"
      BY <1>2, <1>5, <2>1, <3>2
    <3>. QED  BY <3>3, <3>4
  <2>3. bufs'[n].parts = x \/ bufs'[n].parts = y
    BY <1>7 DEF x, y
  <2>4. \A j \in 1..Len(bufs'[n].parts) : batch[bufs'[n].parts[j]].proto = "tcp"
    BY <2>1, <2>2, <2>3, Zenon
  <2>. QED  BY <2>4 DEF Mergeable
<1>. HIDE DEF P
<1>9. /\ d \in Nat /\ w \in Nat
      /\ \A i \in 1..w : toWrite[i] \in 1..d /\ places[i] = bufs[toWrite[i]].parts
  BY OrderFacts
<1>10. \A i \in 1..w : places'[i] = bufs'[toWrite[i]].parts
  BY DEF places, Contents
<1>11. ASSUME NEW i \in 1..w
       PROVE  \/ places'[i] = places[i]
              \/ \A j \in 1..Len(places'[i]) : ~Mergeable(batch[places'[i][j]])
  <2>1. CASE toWrite[i] = n
    BY <1>8, <1>10, <2>1, Zenon
  <2>2. CASE toWrite[i] # n
    BY <1>7, <1>9, <1>10, <2>2, Zenon
  <2>. QED  BY <2>1, <2>2
<1>12. Others(batch, batch, places, places', w, d, c)
  <2>1. c = d + 1
    BY <1>1, <1>2
  <2>2. ~Mergeable(batch[c])
    BY <1>2 DEF Mergeable
  <2>. HIDE DEF d, w, c
  <2>. QED  BY <1>11, <2>1, <2>2, Zenon DEF Others
<1>13. Ordered(batch, places, w, d) /\ Trailed(batch, places, toWrite, w, udp, d)
  BY <1>2, Zenon DEF OrderInv
<1>14. toWrite' = toWrite /\ Len(toWrite') = w /\ settled' = c
  BY <1>3 DEF settled, cur
<1>. HIDE DEF d, w, c, n
<1>15. Ordered(batch, places', w, c)
  BY <1>9, <1>12, <1>13, OthersOrder
<1>16. Trailed(batch, places', toWrite, w, udp, c)
  BY <1>9, <1>12, <1>13, OthersOrder
<1>. QED  BY <1>3, <1>14, <1>15, <1>16, Zenon DEF OrderInv

\* The packet that was scanned for is queued in its buffer.
LEMMA ScanQueuesOrders ==
  ASSUME BatchHeld, MergeInv, OrderInv, pc = "scan", pc' = "gro", ScanFrame,
         toWrite' = Append(toWrite, cur),
         \A m \in 1..Len(bufs) : bufs'[m].parts = bufs[m].parts
  PROVE  OrderInv'
<1>1. /\ cur \in Nat /\ cur = Len(batch) /\ Len(bufs) = cur /\ settled = cur - 1
      /\ settled \in Nat /\ cur = settled + 1
  <2>1. /\ cur \in Nat /\ cur = Len(batch) /\ Len(bufs) = cur /\ settled = cur - 1
        /\ settled \in Nat
    BY BatchFacts DEF settled, cur
  <2>. QED  BY <2>1
<1>2. /\ current \in Packet /\ current = batch[cur] /\ current.proto = "tcp"
      /\ bufs[cur] = Buffer(current, cur)
  BY ScanPacket
<1>3. UNCHANGED <<vnetHdr, batch, udp>>
  BY DEF ScanFrame
<1>4. settled' = cur
  BY <1>3 DEF settled, cur
<1>5. bufs'[cur].parts = <<cur>>
  <2>1. bufs[cur].parts = <<cur>>
    BY <1>1, <1>2, BufferTyped
  <2>2. cur \in 1..Len(bufs)
    BY <1>1
  <2>. QED  BY <2>1, <2>2
<1>6. \A m \in 1..settled : batch'[m] = batch[m] /\ bufs'[m].parts = bufs[m].parts
  <2>1. \A m \in 1..settled : m \in 1..Len(bufs)
    BY <1>1
  <2>. QED  BY <1>3, <2>1, Zenon
<1>7. ~Mergeable(batch'[cur])
  BY <1>2, <1>3 DEF Mergeable
<1>8. vnetHdr => /\ \A m \in 1..settled :
                      \/ Latest(udp', batch'[m].flow) = Latest(udp, batch'[m].flow)
                      \/ Latest(udp', batch'[m].flow) = cur
                 /\ Mergeable(batch'[cur]) => Latest(udp', batch'[cur].flow) = cur
  BY <1>3, <1>7
<1>. QED  BY <1>1, <1>3, <1>4, <1>5, <1>6, <1>8, OrderQueued

\* No item took the packet.
LEMMA ScanEndsOrders ==
  ASSUME BatchHeld, MergeInv, OrderInv, ScanEnds
  PROVE  OrderInv'
<1>1. /\ pc = "scan" /\ pc' = "gro" /\ bufs' = bufs /\ ScanFrame
      /\ toWrite' = Append(toWrite, cur)
  BY DEF ScanEnds, Queue
<1>. QED  BY <1>1, ScanQueuesOrders

\* One turn of the loop of tcpGRO.
LEMMA ScanOrders == ASSUME BatchHeld, MergeInv, OrderInv, Scan PROVE OrderInv'
<1>. DEFINE item == tcp.items[current.flow][scan]
            can == TcpCanCoalesce(current, item, bufs[item.buf])
<1>1. pc = "scan" /\ scan > 0 /\ ScanFrame
  BY DEF Scan
<1>2. \/ bufs' = TcpBufs(can, item) /\ pc' = "gro" /\ toWrite' = toWrite
      \/ pc' = pc /\ bufs' = bufs /\ toWrite' = toWrite
      \/ /\ bufs' = [bufs EXCEPT ![cur].hdr = Plain] /\ toWrite' = Append(toWrite, cur)
         /\ pc' = "gro"
  BY DEF Scan, Queue
<1>3. UNCHANGED <<vnetHdr, batch, udp>> /\ cur' = cur
  BY <1>1 DEF ScanFrame, cur
<1>4. CASE bufs' = TcpBufs(can, item) /\ pc' = "gro" /\ toWrite' = toWrite
  <2>1. item = tcp.items[current.flow][scan]
    OBVIOUS
  <2>. HIDE DEF item, can
  <2>. QED  BY <1>1, <1>4, <2>1, ScanMergesOrders
<1>. HIDE DEF item, can
<1>5. CASE pc' = pc /\ bufs' = bufs /\ toWrite' = toWrite
  <2>1. settled' = settled
    BY <1>3, <1>5 DEF settled
  <2>. QED  BY <1>1, <1>3, <1>5, <2>1, OrderKept
<1>6. CASE /\ bufs' = [bufs EXCEPT ![cur].hdr = Plain]
           /\ toWrite' = Append(toWrite, cur) /\ pc' = "gro"
  <2>1. \A m \in 1..Len(bufs) : bufs'[m].parts = bufs[m].parts
    <3>1. cur \in 1..Len(bufs) /\ DOMAIN bufs = 1..Len(bufs)
      BY <1>1, ScanPacket, BatchFacts DEF cur
    <3>. QED  BY <1>6, <3>1
  <2>. QED  BY <1>1, <1>3, <1>6, <2>1, ScanQueuesOrders
<1>. QED  BY <1>2, <1>4, <1>5, <1>6

\* The accounting changes headers only.
LEMMA AccountOrders == ASSUME BatchHeld, OrderInv, Account PROVE OrderInv'
<1>1. /\ pc = "gro" /\ pc' = "write"
      /\ UNCHANGED <<vnetHdr, batch, udp, toWrite>>
  BY DEF Account
<1>2. \A m \in 1..Len(bufs) : bufs'[m].parts = bufs[m].parts
  <2>1. Len(bufs) = cur
    BY BatchFacts
  <2>2. ASSUME NEW m \in 1..cur PROVE bufs'[m].parts = bufs[m].parts
    <3>1. Same(bufs[m], bufs'[m])
      BY AccountBufs
    <3>. QED  BY <3>1 DEF Same
  <2>. QED  BY <2>1, <2>2
<1>3. settled' = settled
  BY <1>1 DEF settled, cur
<1>4. \A m \in 1..settled : batch'[m] = batch[m] /\ bufs'[m].parts = bufs[m].parts
  <2>1. Len(bufs) = cur /\ cur \in Nat /\ settled \in Nat /\ settled <= cur
    BY BatchFacts, SettledFacts
  <2>2. \A m \in 1..settled : m \in 1..Len(bufs)
    BY <2>1
  <2>. QED  BY <1>1, <1>2, <2>2
<1>. QED  BY <1>1, <1>3, <1>4, OrderKept

\* A step that leaves the queue alone, or after which there is none to order.
LEMMA OrderRests ==
  ASSUME OrderInv,
         \/ UNCHANGED <<vnetHdr, pc, batch, bufs, udp, toWrite>>
         \/ pc' \in {"idle", "reset"}
  PROVE  OrderInv'
<1>1. CASE UNCHANGED <<vnetHdr, pc, batch, bufs, udp, toWrite>>
  <2>1. places' = places /\ settled' = settled
    BY <1>1 DEF places, Contents, settled, cur
  <2>. QED  BY <1>1, <2>1, Zenon DEF OrderInv
<1>2. CASE pc' \in {"idle", "reset"}
  BY <1>2 DEF OrderInv
<1>. QED  BY <1>1, <1>2

\* A batch begins with no packet.
LEMMA StartOrders == ASSUME Start PROVE OrderInv'
<1>1. settled' = 0
  BY DEF Start, settled, cur
<1>2. ~(\E m : m \in 1..0)
  OBVIOUS
<1>. QED  BY <1>1, <1>2, Zenon DEF OrderInv, Ordered, Trailed

LEMMA OrderInit == Init => OrderInv
BY DEF Init, OrderInv

LEMMA OrderNext ==
  ASSUME BatchHeld, MergeInv, OrderInv, [Next]_vars
  PROVE  OrderInv'
<1>1. CASE Start
  BY <1>1, StartOrders
<1>2. CASE Take
  <2>1. PICK p \in Packet : TakeRaw(p) \/ TakeAsIs(p) \/ TakeTcp(p) \/ TakeUdp(p)
    BY <1>2 DEF Take
  <2>. QED  BY <2>1, TakeRawOrders, TakeTcpOrders, TakeUdpOrders
<1>3. CASE Scan
  BY <1>3, ScanOrders
<1>4. CASE ScanEnds
  BY <1>4, ScanEndsOrders
<1>5. CASE Account
  BY <1>5, AccountOrders
<1>6. CASE WriteOne
  BY <1>6, OrderRests DEF WriteOne, WriteFrame
<1>7. CASE BadOffset \/ WriteGone \/ WriteDone \/ ResetTables
  <2>1. pc' \in {"idle", "reset"}
    BY <1>7 DEF BadOffset, WriteGone, WriteDone, ResetTables
  <2>. QED  BY <2>1, OrderRests
<1>8. CASE UNCHANGED vars
  BY <1>8, OrderRests DEF vars
<1>. QED  BY <1>1, <1>2, <1>3, <1>4, <1>5, <1>6, <1>7, <1>8 DEF Next

\* Each packet of a batch that is written has a place.
LEMMA PlaceOf ==
  ASSUME BatchHeld, pc = "write", NEW n \in 1..Len(batch)
  PROVE  \E i \in 1..Len(toWrite) : \E k \in 1..Len(places[i]) :
           places[i][k] = n /\ <<i, k>> \in Holders(n)
<1>. DEFINE w == Len(toWrite)
<1>1. settled = cur
  BY DEF settled
<1>2. /\ cur \in Nat /\ batch \in Seq(Packet) /\ DOMAIN batch = 1..cur
      /\ toWrite \in Seq(1..cur) /\ DOMAIN toWrite = 1..w /\ n \in 1..cur
  BY <1>1, BatchFacts DEF cur
<1>3. /\ Covers(places, w, cur)
      /\ \A i \in 1..w : bufs[toWrite[i]].parts = places[i]
  BY <1>1, OrderFacts
<1>. HIDE DEF w
<1>4. PICK i \in 1..w : \E k \in 1..Len(places[i]) : places[i][k] = n
  BY <1>2, <1>3, Zenon DEF Covers
<1>5. PICK k \in 1..Len(places[i]) : places[i][k] = n
  BY <1>4
<1>6. /\ places[i] \in Seq(1..cur) /\ Len(places[i]) <= cur /\ Len(places[i]) \in Nat
  BY <1>3, CoversTypes
<1>7. k \in 1..cur /\ k \in DOMAIN places[i]
  BY <1>2, <1>6
<1>8. <<i, k>> \in Holders(n)
  BY <1>2, <1>3, <1>5, <1>7 DEF Holders
<1>. QED  BY <1>5, <1>8 DEF w

\* The order of the datagrams is that of their places.
LEMMA OrderSeen == ASSUME BatchHeld, OrderInv PROVE UdpMergeableOrder
<1>. DEFINE S == {p \in Packet : p.proto = "udp" /\ ~NotMergeable(p)}
<1>1. ASSUME pc = "write", NEW m \in 1..Len(batch), NEW n \in 1..Len(batch),
             m < n, {batch[m], batch[n]} \subseteq S, batch[m].flow = batch[n].flow
      PROVE  Before(m, n)
  <2>1. settled = Len(batch)
    BY <1>1 DEF settled, cur
  <2>2. Rivals(batch, m, n)
    BY <1>1 DEF Rivals, Mergeable
  <2>3. InFront(places, Len(toWrite), m, n)
    BY <1>1, <2>1, <2>2, Zenon DEF OrderInv, Ordered
  <2>4. PICK i \in 1..Len(toWrite) : \E j \in 1..Len(places[i]) :
          places[i][j] = m /\ <<i, j>> \in Holders(m)
    BY <1>1, PlaceOf
  <2>5. PICK j \in 1..Len(places[i]) : places[i][j] = m /\ <<i, j>> \in Holders(m)
    BY <2>4
  <2>6. PICK k \in 1..Len(toWrite) : \E l \in 1..Len(places[k]) :
          places[k][l] = n /\ <<k, l>> \in Holders(n)
    BY <1>1, PlaceOf
  <2>7. PICK l \in 1..Len(places[k]) : places[k][l] = n /\ <<k, l>> \in Holders(n)
    BY <2>6
  <2>8. i < k \/ (i = k /\ j < l)
    BY <2>3, <2>5, <2>7, Zenon DEF InFront
  <2>. QED  BY <2>5, <2>7, <2>8 DEF Before
<1>. QED  BY <1>1, Zenon DEF UdpMergeableOrder, InOrder

\* The datagrams of a flow that udpGRO takes are written in the order the caller
\* passed them, merged or not: udpGRO only merges a datagram behind those of the
\* last item of its flow, and no datagram of the flow is queued behind that item.
THEOREM DatagramsInOrder == Spec => []UdpMergeableOrder
<1>1. Init => OrderInv
  BY OrderInit
<1>2. BatchHeld /\ MergeInv /\ OrderInv /\ [Next]_vars => OrderInv'
  BY OrderNext
<1>3. BatchHeld /\ OrderInv => UdpMergeableOrder
  BY OrderSeen
<1>. QED  BY <1>1, <1>2, <1>3, MergeInvariant, PTL DEF Spec
=============================================================================
