---------------------------- MODULE MCWritePath -----------------------------
(***************************************************************************)
(* Instances of WritePath and RoundTrip for TLC.  Payloads are one or two  *)
(* units long, sequence numbers wrap inside the batch, and a buffer may    *)
(* lack room to merge.                                                     *)
(***************************************************************************)
EXTENDS RoundTrip, TLC

CONSTANTS f, g, h, q

Pkt(proto, flow, seq, len, psh, csum, opts, cap, odd) ==
  [proto |-> proto, flow |-> flow, seq |-> seq, len |-> len, psh |-> psh,
   csum |-> csum, opts |-> opts, cap |-> cap, odd |-> odd]

\* One TCP flow around the wrap of its sequence numbers: full and short
\* segments, PSH, other headers, bad checksums, too little room, a packet that is
\* too long for its length field.
TcpData(seqs, lens, psh, csum) ==
  {Pkt("tcp", f, seq, len, psh, csum, 0, 7, FALSE) : seq \in seqs, len \in lens}
TcpPackets ==
  TcpData({14, 0, 2}, {1, 2}, FALSE, TRUE)
  \cup TcpData({15}, {1, 6}, FALSE, TRUE)
  \cup TcpData({15, 0}, {1}, TRUE, TRUE)
  \cup TcpData({15, 0}, {1}, FALSE, FALSE)
  \cup {Pkt("tcp", f, 0, 1, FALSE, TRUE, 1, 7, FALSE),
        Pkt("tcp", f, 15, 1, FALSE, TRUE, 0, 1, FALSE)}

\* Two flows of each protocol, for the tables and the order of datagrams.
UdpPackets == {Pkt("udp", flow, 0, len, FALSE, csum, 0, 4, FALSE) :
                 flow \in {f, g}, len \in {0, 1, 2}, csum \in BOOLEAN}
MixedPackets == UdpPackets \cup
  {Pkt("udp", f, 0, 1, FALSE, TRUE, 1, 4, FALSE),
   Pkt("udp", f, 0, 2, FALSE, TRUE, 0, 2, FALSE),
   Pkt("udp", f, 0, 2, FALSE, TRUE, 0, 4, TRUE),
   Pkt("tcp", f, 0, 1, FALSE, TRUE, 0, 4, FALSE),
   Pkt("tcp", g, 0, 1, FALSE, TRUE, 0, 4, FALSE),
   Pkt("other", f, 0, 1, FALSE, TRUE, 0, 4, FALSE)}

\* As many flows of each protocol as its table has slices.
PoolPackets == {Pkt(proto, flow, 0, 1, FALSE, TRUE, 0, 4, FALSE) :
                  proto \in {"tcp", "udp"}, flow \in {f, g, h, q}}

\* A batch is made of up to four TCP packets, of up to three mixed ones, or of
\* the packets of up to four flows.  A second batch is one of the last kind, for
\* the first leaves nothing behind but the pools, and so is one that the kernel
\* refuses packets of: that changes no buffer.
AllPackets == TcpPackets \cup MixedPackets \cup PoolPackets
Taken == \/ writes = 1 /\ ToSet(batch) \subseteq TcpPackets
         \/ writes = 1 /\ ToSet(batch) \subseteq MixedPackets /\ size <= 3
OneKind == \/ ToSet(batch) \subseteq PoolPackets
           \/ Taken /\ written = sent /\ result # "ErrClosed"
MCSpec == Init /\ [][Next /\ OneKind' /\ (writes' = 2 => vnetHdr)]_vars

\* The flows that only PoolPackets have are interchangeable.
FlowSymmetry == Permutations({h, q})
=============================================================================
