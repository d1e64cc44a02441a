----------------------------- MODULE MCGsoRead ------------------------------
(***************************************************************************)
(* Instances of GsoRead for TLC: frames of up to five segments, sequence   *)
(* numbers and identifications that wrap inside a frame, buffers from too  *)
(* short, or ending before the offset, to large enough for any segment.    *)
(* With bytes of four values a word of 64 bits has 65536; a payload of     *)
(* bytes with all bits set makes nearly every addition carry.              *)
(***************************************************************************)
EXTENDS GsoRead

HdrLen == 6
Unit == 27      \* an odd length, of which five fill a block of 128

Ones(n) == [k \in 1..n |-> Radix - 1]
Mixed(n) == [k \in 1..n |-> (k * k + k \div 3) % Radix]
Addr(version) == [k \in 1..(IF version = 4 THEN 4 ELSE 16) |-> (k + 1) % Radix]

Make(type, version, sound, partial, n, gsoSize, end, data) ==
  [type |-> type, version |-> version, sound |-> sound, partial |-> partial,
   hdrLen |-> HdrLen, len |-> n, gsoSize |-> gsoSize, seq |-> 13, id |-> 14,
   end |-> end, src |-> Addr(version), dst |-> Addr(version), data |-> data]

Types == {"none", "tcp4", "tcp6", "udp", "other"}

Frames ==
  \* every kind of frame, sound or not, with little or no payload
  UNION {{Make(type, version, sound, TRUE, n, gsoSize, FALSE, Mixed(n)) :
            type \in Types, version \in {4, 6}, sound \in BOOLEAN, gsoSize \in {0, Unit}} :
         n \in {0, Unit}}
  \* frames that are split in up to five
  \cup UNION {{Make(type, IF type = "tcp6" THEN 6 ELSE version, TRUE, TRUE, n, gsoSize, end, data) :
                 type \in {"none", "tcp6", "udp"}, version \in {4, 6}, gsoSize \in {Unit, 2 * Unit},
                 end \in BOOLEAN, data \in {Ones(n), Mixed(n)}} : n \in {4 * Unit, 5 * Unit}}
  \cup {Make("tcp4", 4, TRUE, TRUE, 5 * Unit, gsoSize, TRUE, Ones(5 * Unit)) :
          gsoSize \in {Unit, 2 * Unit}}
  \* a frame the kernel leaves nothing to do for
  \cup {Make("none", 4, FALSE, FALSE, 2 * Unit, 0, TRUE, Mixed(2 * Unit))}

Buffers == {-1, HdrLen + Unit - 1, HdrLen + Unit, HdrLen + 2 * Unit}
AllRooms == {<<>>, <<HdrLen + 2 * Unit>>}
            \cup {<<a, b>> : a \in {HdrLen + Unit, HdrLen + 2 * Unit, HdrLen + 5 * Unit},
                             b \in Buffers}
            \cup {<<HdrLen + 2 * Unit, b, c>> : b \in Buffers, c \in Buffers}
=============================================================================
