----------------------------- MODULE MCPacketIO -----------------------------
(***************************************************************************)
(* PacketIO on all its platforms, for TLC.  Reads and writes share nothing *)
(* but Close, so a behaviour here has the one or the other; the second     *)
(* writer has packets that every device takes.                             *)
(***************************************************************************)
EXTENDS PacketIO

CONSTANTS w1, w2, c1, c2

OneSide == \/ \A w \in Writers : write[w].pc = "idle"
           \/ offered = <<>> /\ errors.ever = 0 /\ read.pc \in {"making", "idle"}
PlainSecond == \A k \in DOMAIN write[w2].batch : write[w2].batch[k] = "v4"

MCSpec == Init /\ [][Next /\ OneSide' /\ PlainSecond']_vars /\ Fairness
=============================================================================
