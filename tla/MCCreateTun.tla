---------------------------- MODULE MCCreateTun -----------------------------
(***************************************************************************)
(* Instances of CreateTun for TLC: two callers that may ask for the same   *)
(* name, for one the other's call chooses, or for none.                    *)
(***************************************************************************)
EXTENDS CreateTun

CONSTANTS a, b

UnitNames == <<"tun0", "tun1">>
AskedNames == {"", "tun1"}

\* The MTU of one device is of no concern to the other, and the callers may
\* change places.
Rank == [CreateTUN |-> 1, FromFile |-> 2, Unmonitored |-> 3]
MCInit == Init /\ want[a] = want[b] /\ Rank[entry[a]] <= Rank[entry[b]]
MCSpec == MCInit /\ [][Next]_vars /\ Fairness
=============================================================================
