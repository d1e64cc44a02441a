----------------------------- MODULE MCLinuxTun -----------------------------
(***************************************************************************)
(* Instances of LinuxTun for TLC.                                          *)
(***************************************************************************)
EXTENDS LinuxTun, TLC

CONSTANTS c1, c2, r1, r2

\* The callers of Close are interchangeable, and no safety property names one.
CallerSymmetry == Permutations({c1, c2})

\* Devices whose links are watched for good: the others tell nothing about what
\* the application hears of a link that is.
Stays == fileOpen' /\ device' # "gone" /\ mkPc' # "failed"
WatchedSpec == /\ Init /\ [][Next /\ Stays]_vars
               /\ NlFairness /\ HkFairness /\ CallFairness /\ WF_vars(TakeEvent)

\* Two Closes are checked with every change of the link.  Reads, and packets
\* for them, are checked with one Close, which alone closes the file, a link
\* that only vanishes and an application that has heard of no state yet: what a
\* Read waits for knows no other change, no second Close and no event.
Reading == packets > 0 \/ \E r \in Readers : rdPc[r] # "idle"
Apart == Reading => /\ changes = 0 \/ device = "gone"
                    /\ closer[c2] = "idle"
                    /\ fileOpen \/ closePc = "done"
                    /\ view = "none"
\* The callers of Close are interchangeable: the first to call is c1.
InTurn == closer[c2] = "idle" \/ closer[c1] # "idle"
CallsSpec == /\ Init /\ [][Next /\ (Apart /\ InTurn)']_vars
             /\ NlFairness /\ HkFairness /\ CallFairness
=============================================================================
