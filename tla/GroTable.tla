------------------------------ MODULE GroTable ------------------------------
(***************************************************************************)
(* The flow tables of offload_linux.go, tcpGROTable and udpGROTable: the   *)
(* items under evaluation of every flow of the current batch, in arrival   *)
(* order, and a pool of empty item slices that flows borrow from.  The two *)
(* tables differ only in what an item holds.                               *)
(***************************************************************************)
EXTENDS Integers, FiniteSets, SequencesExt

\* Mistake: flows give back their slices, but one too few.
ResetLeaks(t) == [items |-> [f \in DOMAIN t.items |-> <<>>], live |-> {},
                  pool |-> IF t.live = {} THEN t.pool
                           ELSE t.pool + Cardinality(t.live) - 1]

\* Mistake: the pool is made for half a batch.
NewTableHalf(Flow, n) ==
  [items |-> [f \in Flow |-> <<>>], live |-> {}, pool |-> n \div 2]

\* A table for the flows in Flow with n slices in its pool.
NewTable(Flow, n) ==
  [items |-> [f \in Flow |-> <<>>], live |-> {}, pool |-> n]

TableType(Flow, Item, n) ==
  [items : [Flow -> Seq(Item)], live : SUBSET Flow, pool : Int]

\* A flow keeps its entry, and its slice, even when all its items are deleted.
Existing(t, f) == f \in t.live

\* insert: the first item of a flow takes a slice from the pool.
Insert(t, f, item) ==
  [items |-> [t.items EXCEPT ![f] = Append(@, item)],
   live  |-> t.live \cup {f},
   pool  |-> IF Existing(t, f) THEN t.pool ELSE t.pool - 1]

UpdateAt(t, f, k, item) == [t EXCEPT !.items[f][k] = item]

DeleteAt(t, f, k) == [t EXCEPT !.items[f] = RemoveAt(@, k)]

\* reset, after every batch: all flows give their slices back.
Reset(t) == [items |-> [f \in DOMAIN t.items |-> <<>>], live |-> {},
             pool |-> t.pool + Cardinality(t.live)]
=============================================================================
