---------------------------- MODULE GsoReadProofs ---------------------------
(***************************************************************************)
(* A Read that fails leaves the caller's buffers alone, and one that       *)
(* succeeds stays inside them and fills them with the whole payload, under *)
(* checksums that are right: for any frames with any bytes, any buffers    *)
(* and any number of segments.                                             *)
(***************************************************************************)
EXTENDS GsoRead, ChecksumProofs

\* Payload offset of the j-th segment, counted from 0.
Start(j) == IF j * frame.gsoSize <= frame.len THEN j * frame.gsoSize ELSE frame.len

\* The first n segments have room.
Fit(n) ==
  \A j \in Nat : j < n => frame.hdrLen + SegmentLen(frame, Start(j)) <= rooms[j + 1]

Blank == \A k \in DOMAIN rooms : out[k] = Untouched /\ sizes[k] = -1

\* Nothing is written before all checks are through.
BlankInv == pc \in {"read", "check", "room"} => Blank

\* What the loops go by: a frame worth splitting, as many segments as buffers
\* at most, and the offset that belongs to the counter.
LoopInv ==
  /\ pc = "read" => Len(rooms) >= 1
  /\ pc = "check" => frame \in Frame /\ Len(rooms) >= 1
  /\ pc \in {"read", "check"} => i = 0 /\ at = 0
  /\ pc \in {"room", "split"} =>
       /\ frame \in Frame /\ frame.gsoSize > 0
       /\ SegmentCount(frame) <= Len(rooms)
       /\ at = Start(i)

\* The checks cover the segments up to the counter, and then all of them.
RoomInv ==
  /\ pc = "room" => Fit(i)
  /\ pc = "split" => Fit(SegmentCount(frame))

IndInv == TypeOK /\ BlankInv /\ LoopInv /\ RoomInv /\ AllOrNothing /\ InBounds
-----------------------------------------------------------------------------
\* The types of a frame's fields.
LEMMA FrameShape ==
  ASSUME NEW fr \in Frame
  PROVE  fr.hdrLen \in Nat /\ fr.len \in Nat /\ fr.gsoSize \in Nat
BY FrameAssumption

\* The types of the caller's buffers.
LEMMA RoomShape ==
  ASSUME rooms \in Rooms \cup {<<>>}
  PROVE  /\ rooms \in Seq(Int) /\ Len(rooms) \in Nat
         /\ DOMAIN rooms = 1..Len(rooms)
         /\ \A k \in DOMAIN rooms : rooms[k] \in Int
<1>1. rooms \in Seq(Int)
  <2>1. CASE rooms \in Rooms
    BY <2>1, RoomsAssumption
  <2>2. CASE rooms = <<>>
    BY <2>2
  <2> QED BY <2>1, <2>2
<1> QED BY <1>1

\* The number of segments is a natural number.
LEMMA CountType ==
  ASSUME NEW fr \in Frame, fr.gsoSize > 0
  PROVE  SegmentCount(fr) \in Nat
<1>1. \A x, y \in Nat : y > 0 => x \div y \in Nat
  OBVIOUS
<1>2. fr.len \div fr.gsoSize \in Nat
  BY <1>1, FrameShape
<1> QED BY <1>2 DEF SegmentCount

\* One segment on.
LEMMA NextStart ==
  ASSUME frame \in Frame, frame.gsoSize > 0, NEW j \in Nat
  PROVE  /\ Start(j) \in 0..frame.len
         /\ SegmentLen(frame, Start(j)) \in Nat
         /\ Start(j) + SegmentLen(frame, Start(j)) = Start(j + 1)
         /\ Start(0) = 0
<1> DEFINE g == frame.gsoSize
           m == j * g
<1>1. g \in Nat /\ frame.len \in Nat /\ m \in Nat /\ (j + 1) * g = m + g /\ 0 * g = 0
  <2>1. \A x, y \in Nat : x * y \in Nat /\ (x + 1) * y = x * y + y /\ 0 * y = 0
    OBVIOUS
  <2> QED BY <2>1, FrameShape
<1>2. /\ Start(j) = IF m <= frame.len THEN m ELSE frame.len
      /\ Start(j + 1) = IF m + g <= frame.len THEN m + g ELSE frame.len
      /\ Start(0) = 0
  BY <1>1 DEF Start
<1>3. PICK n \in Nat : n = frame.len
  BY <1>1
<1>4. \A x : SegmentLen(frame, x) = IF n - x < g THEN n - x ELSE g
  BY <1>3 DEF SegmentLen
<1>5. g > 0
  OBVIOUS
<1> HIDE DEF g, m
<1>6. CASE m + g <= n
  <2>1. Start(j) = m /\ Start(j + 1) = m + g /\ m \in 0..n
    BY <1>1, <1>2, <1>3, <1>6
  <2>2. SegmentLen(frame, m) = g
    BY <1>1, <1>4, <1>6
  <2> QED BY <1>1, <1>2, <1>3, <2>1, <2>2
<1>7. CASE m <= n /\ m + g > n
  <2>1. Start(j) = m /\ Start(j + 1) = n /\ m \in 0..n
    BY <1>1, <1>2, <1>3, <1>7
  <2>2. SegmentLen(frame, m) = n - m
    BY <1>1, <1>4, <1>7
  <2> QED BY <1>1, <1>2, <1>3, <2>1, <2>2
<1>8. CASE m > n
  <2>1. Start(j) = n /\ Start(j + 1) = n
    BY <1>1, <1>2, <1>3, <1>5, <1>8
  <2>2. SegmentLen(frame, n) = 0
    BY <1>1, <1>4, <1>5
  <2> QED BY <1>1, <1>2, <1>3, <2>1, <2>2
<1> QED BY <1>1, <1>3, <1>6, <1>7, <1>8
-----------------------------------------------------------------------------
\* The invariant holds before the first Read.
LEMMA IndInit == Init => IndInv
BY BoundsAssumption DEF Init, IndInv, TypeOK, BlankInv, LoopInv, RoomInv, AllOrNothing,
   InBounds, NoFrame

\* A return with an error before anything was written.
LEMMA ErrorKeeps ==
  ASSUME IndInv, pc \in {"read", "check", "room"}, NEW e, Returns(<<"error", e>>),
         UNCHANGED <<vnetHdr, rooms, out, sizes, frame, i, at, reads>>
  PROVE  IndInv'
<1>1. TypeOK'
  BY DEF IndInv, TypeOK, Returns
<1>2. Blank /\ Blank'
  BY DEF IndInv, BlankInv, Blank
<1>3. BlankInv' /\ LoopInv' /\ RoomInv'
  BY DEF Returns, BlankInv, LoopInv, RoomInv
<1>4. AllOrNothing' /\ InBounds'
  BY <1>2 DEF AllOrNothing, InBounds, Blank, IndInv, TypeOK
<1> QED BY <1>1, <1>3, <1>4 DEF IndInv

\* Read returns one packet, in the first buffer.
ReturnsOne(n, content) ==
  /\ pc \in {"read", "check"} /\ frame' \in Frame \cup {NoFrame}
  /\ out' = [out EXCEPT ![1] = content] /\ sizes' = [sizes EXCEPT ![1] = n]
  /\ Returns(<<"count", 1>>)
  /\ UNCHANGED <<vnetHdr, rooms, i, at, reads>>

\* Returning one packet that has room keeps the invariant.
LEMMA OneKeeps ==
  ASSUME IndInv, NEW n \in Int, NEW content, n <= rooms[1], ReturnsOne(n, content)
  PROVE  IndInv'
<1> USE DEF ReturnsOne
<1>1. TypeOK'
  BY DEF IndInv, TypeOK, Returns
<1>2. BlankInv' /\ LoopInv' /\ RoomInv' /\ AllOrNothing'
  BY DEF Returns, BlankInv, LoopInv, RoomInv, AllOrNothing
<1>3. InBounds'
  <2> SUFFICES ASSUME NEW k \in DOMAIN out', out'[k] # Untouched
               PROVE  sizes'[k] <= rooms'[k]
    BY DEF InBounds
  <2>1. DOMAIN out = DOMAIN rooms /\ DOMAIN sizes = DOMAIN rooms /\ k \in DOMAIN out
    BY DEF IndInv, TypeOK
  <2>2. CASE k = 1
    BY <2>1, <2>2
  <2>3. CASE k # 1
    BY <2>1, <2>3 DEF IndInv, InBounds
  <2> QED BY <2>2, <2>3
<1> QED BY <1>1, <1>2, <1>3 DEF IndInv

\* No step of Read disturbs the invariant.
LEMMA IndNext == IndInv /\ [Next]_vars => IndInv'
<1> SUFFICES ASSUME IndInv, [Next]_vars PROVE IndInv'
  OBVIOUS
<1> USE DEF IndInv
<1>s. /\ rooms \in Seq(Int) /\ Len(rooms) \in Nat /\ DOMAIN rooms = 1..Len(rooms)
      /\ \A k \in DOMAIN rooms : rooms[k] \in Int
  BY RoomShape DEF TypeOK
<1>1. ASSUME NEW rs \in Rooms, NEW n \in 0..Len(rs), Call(rs, n) PROVE IndInv'
  <2>s. rs \in Seq(Int) /\ Len(rs) \in Nat /\ DOMAIN rs = 1..Len(rs)
    BY RoomsAssumption
  <2>1. /\ rooms' = rs /\ out' = [k \in DOMAIN rs |-> Untouched]
        /\ sizes' = [k \in 1..n |-> -1] /\ frame' = NoFrame /\ i' = 0 /\ at' = 0
        /\ reads' = reads + 1 /\ reads < MaxReads /\ vnetHdr' = vnetHdr
    BY <1>1 DEF Call
  <2>2. \/ pc' = "idle" /\ result' = <<"error", "shortBuffer">>
        \/ pc' = "read" /\ result' = result /\ Len(rs) >= BatchSize /\ n = Len(rs)
    <3>1. Len(rs) \in Nat /\ n \in 0..Len(rs) /\ BatchSize \in Nat
      BY <2>s, BoundsAssumption DEF BatchSize
    <3>2. \/ Len(rs) < BatchSize \/ n < Len(rs)
          \/ Len(rs) >= BatchSize /\ n = Len(rs)
      BY <3>1
    <3> QED BY <1>1, <3>1, <3>2 DEF Call, Returns
  <2>d. DOMAIN sizes' \subseteq DOMAIN rs /\ (pc' # "idle" => DOMAIN sizes' = DOMAIN rs)
    <3>1. 1..n \subseteq 1..Len(rs)
      BY <2>s
    <3> QED BY <2>s, <2>1, <2>2, <3>1
  <2>3. TypeOK'
    <3>1. /\ vnetHdr' \in BOOLEAN /\ pc' \in {"idle", "read"}
          /\ result'[1] \in {"count", "error"}
      BY <2>1, <2>2 DEF TypeOK
    <3>2. DOMAIN out' = DOMAIN rs /\ i' \in 0..Len(rs) /\ at' \in Nat
      BY <2>s, <2>1
    <3>3. reads' \in 0..MaxReads
      BY <2>1, BoundsAssumption DEF TypeOK
    <3> QED BY <2>1, <2>d, <3>1, <3>2, <3>3 DEF TypeOK
  <2>4. AllOrNothing' /\ InBounds'
    BY <2>1 DEF AllOrNothing, InBounds
  <2>b. BlankInv'
    <3>1. /\ \A k \in DOMAIN sizes' : sizes'[k] = -1
          /\ \A k \in DOMAIN rs : out'[k] = Untouched
      BY <2>1
    <3>2. rooms' = rs /\ pc' \in {"idle", "read"}
      BY <2>1, <2>2
    <3>3. ASSUME pc' = "read", NEW k \in DOMAIN rs PROVE out'[k] = Untouched /\ sizes'[k] = -1
      BY <2>d, <3>1, <3>3
    <3>4. pc' = "read" => Blank'
      BY <3>2, <3>3, Zenon DEF Blank
    <3> QED BY <3>2, <3>4 DEF BlankInv
  <2>5. BatchSize >= 1 /\ BatchSize \in Nat
    BY BoundsAssumption DEF BatchSize
  <2>6. LoopInv' /\ RoomInv'
    <3>1. pc' \in {"idle", "read"} /\ (pc' = "read" => Len(rooms') >= 1)
      <4>1. pc' \in {"idle", "read"} /\ (pc' = "read" => Len(rs) >= BatchSize)
        BY <2>2
      <4>2. Len(rs) >= BatchSize => Len(rs) >= 1
        BY <2>s, <2>5
      <4> QED BY <2>1, <4>1, <4>2
    <3> QED BY <2>1, <3>1 DEF LoopInv, RoomInv
  <2> QED BY <2>3, <2>4, <2>b, <2>6
<1>2. ASSUME NEW fr \in Frame, FileRead(fr) PROVE IndInv'
  <2>1. TypeOK'
    BY <1>2 DEF FileRead, TypeOK
  <2>2. Blank /\ Blank'
    BY <1>2 DEF FileRead, BlankInv, Blank
  <2>3. LoopInv' /\ RoomInv'
    BY <1>2 DEF FileRead, LoopInv, RoomInv
  <2>4. AllOrNothing' /\ InBounds'
    BY <1>2 DEF FileRead, AllOrNothing, InBounds
  <2> QED BY <2>1, <2>2, <2>3, <2>4 DEF BlankInv
<1>3. ASSUME NEW fr \in Frame, FileReadRaw(fr) PROVE IndInv'
  <2>1. PICK n \in Int : n = Min({fr.hdrLen + fr.len, rooms[1]}) /\ n <= rooms[1]
    <3>1. fr.hdrLen + fr.len \in Int /\ rooms[1] \in Int
      BY <1>3, <1>s, FrameShape DEF FileReadRaw, LoopInv
    <3>2. \A x, y \in Int : Min({x, y}) \in Int /\ Min({x, y}) <= y
      <4> SUFFICES ASSUME NEW x \in Int, NEW y \in Int
                   PROVE  Min({x, y}) \in Int /\ Min({x, y}) <= y
        OBVIOUS
      <4>1. \E m \in {x, y} : \A z \in {x, y} : m <= z
        <5>1. CASE x <= y
          BY <5>1
        <5>2. CASE y <= x
          BY <5>2
        <5> QED BY <5>1, <5>2
      <4> QED BY <4>1 DEF Min
    <3> QED BY <3>1, <3>2
  <2>2. ReturnsOne(n, Whole(fr))
    BY <1>3, <2>1 DEF FileReadRaw, ReturnsOne
  <2> QED BY <2>1, <2>2, OneKeeps
<1>4. CASE FileError
  BY <1>4, ErrorKeeps DEF FileError
<1>5. CASE Reject
  BY <1>5, ErrorKeeps DEF Reject, Fails
<1>6. CASE NoGso
  <2>1. CASE frame.hdrLen + frame.len > rooms[1]
    BY <1>6, <2>1, ErrorKeeps DEF NoGso, Fails
  <2>2. CASE ~(frame.hdrLen + frame.len > rooms[1])
    <3>1. frame \in Frame /\ rooms[1] \in Int
      BY <1>6, <1>s DEF NoGso, LoopInv
    <3>2. frame.hdrLen + frame.len \in Int /\ frame.hdrLen + frame.len <= rooms[1]
      BY <2>2, <3>1, FrameShape
    <3> QED BY <1>6, <2>2, <3>1, <3>2, OneKeeps DEF NoGso, ReturnsOne
  <2> QED BY <2>1, <2>2
<1>7. CASE Count
  <2>1. CASE SegmentCount(frame) > Len(rooms)
    BY <1>7, <2>1, ErrorKeeps DEF Count, Fails
  <2>2. CASE ~(SegmentCount(frame) > Len(rooms))
    <3>1. /\ pc = "check" /\ frame \in Frame /\ ~Malformed(frame) /\ frame.type # "none"
          /\ pc' = "room"
          /\ UNCHANGED <<vnetHdr, rooms, out, sizes, frame, i, at, result, reads>>
      BY <1>7, <2>2 DEF Count, LoopInv
    <3>2. frame.gsoSize > 0 /\ SegmentCount(frame) \in Nat
      <4>1. frame.gsoSize \in Nat /\ frame.gsoSize # 0
        BY <3>1, FrameShape DEF Malformed
      <4> QED BY <3>1, <4>1, CountType
    <3>3. i = 0 /\ at = Start(0) /\ at \in 0..frame.len
      BY <3>1, <3>2, NextStart DEF LoopInv
    <3>4. TypeOK'
      BY <3>1, <3>3 DEF TypeOK
    <3>5. LoopInv' /\ RoomInv'
      BY <2>2, <3>1, <3>2, <3>3, <1>s DEF LoopInv, RoomInv, Fit, Start
    <3>6. BlankInv' /\ AllOrNothing' /\ InBounds'
      BY <3>1 DEF BlankInv, Blank, AllOrNothing, InBounds
    <3> QED BY <3>4, <3>5, <3>6
  <2> QED BY <2>1, <2>2
<1>8. CASE CheckRoom
  <2>0. /\ pc = "room" /\ i \in Nat /\ i < SegmentCount(frame) /\ at = Start(i)
        /\ frame \in Frame /\ frame.gsoSize > 0
        /\ SegmentCount(frame) \in Nat /\ SegmentCount(frame) <= Len(rooms)
    BY <1>8, CountType, <1>s DEF CheckRoom, LoopInv, TypeOK
  <2>1. CASE rooms[i + 1] < 0
    BY <1>8, <2>1, ErrorKeeps DEF CheckRoom, Fails
  <2>2. CASE ~(rooms[i + 1] < 0) /\ TooSmall(rooms[i + 1])
    BY <1>8, <2>2, ErrorKeeps DEF CheckRoom, Fails
  <2>3. CASE ~(rooms[i + 1] < 0) /\ ~TooSmall(rooms[i + 1])
    <3>1. /\ i' = i + 1 /\ at' = at + SegmentLen(frame, at)
          /\ UNCHANGED <<vnetHdr, pc, rooms, out, sizes, frame, result, reads>>
      BY <1>8, <2>3 DEF CheckRoom
    <3>2. at' = Start(i + 1) /\ at' \in 0..frame.len /\ SegmentLen(frame, Start(i)) \in Nat
      <4>0. i + 1 \in Nat
        BY <2>0
      <4>1. Start(i + 1) \in 0..frame.len
        BY <2>0, <4>0, NextStart, Zenon
      <4>2. /\ Start(i) + SegmentLen(frame, Start(i)) = Start(i + 1)
            /\ SegmentLen(frame, Start(i)) \in Nat
        BY <2>0, NextStart
      <4> QED BY <2>0, <3>1, <4>1, <4>2
    <3>3. frame.hdrLen + SegmentLen(frame, Start(i)) <= rooms[i + 1]
      <4>1. rooms[i + 1] \in Int
        BY <1>s, <2>0
      <4> QED BY <2>0, <2>3, <3>2, <4>1, FrameShape DEF TooSmall
    <3>4. Fit(i + 1)
      BY <2>0, <3>3 DEF RoomInv, Fit
    <3>5. TypeOK'
      BY <1>s, <2>0, <3>1, <3>2, FrameShape DEF TypeOK
    <3>6. LoopInv' /\ RoomInv'
      BY <2>0, <3>1, <3>2, <3>4 DEF LoopInv, RoomInv, Fit, Start
    <3>7. BlankInv' /\ AllOrNothing' /\ InBounds'
      BY <3>1 DEF BlankInv, Blank, AllOrNothing, InBounds
    <3> QED BY <3>5, <3>6, <3>7
  <2> QED BY <2>1, <2>2, <2>3
<1>9. CASE RoomEnds
  <2>1. /\ pc = "room" /\ pc' = "split" /\ i = SegmentCount(frame) /\ i' = 0 /\ at' = 0
        /\ UNCHANGED <<vnetHdr, rooms, out, sizes, frame, result, reads>>
        /\ frame \in Frame /\ frame.gsoSize > 0
    BY <1>9 DEF RoomEnds, LoopInv
  <2>2. at' = Start(0) /\ at' \in 0..frame.len
    BY <2>1, NextStart
  <2>3. TypeOK'
    BY <1>s, <2>1, <2>2, FrameShape DEF TypeOK
  <2>4. LoopInv' /\ RoomInv'
    BY <2>1, <2>2 DEF LoopInv, RoomInv, Fit, Start
  <2>5. BlankInv' /\ AllOrNothing' /\ InBounds'
    BY <2>1 DEF BlankInv, AllOrNothing, InBounds
  <2> QED BY <2>3, <2>4, <2>5
<1>10. CASE Split
  <2>0. /\ pc = "split" /\ i \in Nat /\ i < SegmentCount(frame) /\ at = Start(i)
        /\ frame \in Frame /\ frame.gsoSize > 0
        /\ SegmentCount(frame) \in Nat /\ SegmentCount(frame) <= Len(rooms)
    BY <1>10, CountType, <1>s DEF Split, LoopInv, TypeOK
  <2>1. /\ out' = [out EXCEPT ![i + 1] = Sealed(frame, Segment(frame, i, at))]
        /\ sizes' = [sizes EXCEPT ![i + 1] = frame.hdrLen + SegmentLen(frame, at)]
        /\ i' = i + 1 /\ at' = at + SegmentLen(frame, at)
        /\ UNCHANGED <<vnetHdr, pc, rooms, frame, result, reads>>
    BY <1>10 DEF Split
  <2>2. at' = Start(i + 1) /\ at' \in 0..frame.len
    <3>0. i + 1 \in Nat
      BY <2>0
    <3>1. Start(i + 1) \in 0..frame.len
      BY <2>0, <3>0, NextStart, Zenon
    <3>2. Start(i) + SegmentLen(frame, Start(i)) = Start(i + 1)
      BY <2>0, NextStart
    <3> QED BY <2>0, <2>1, <3>1, <3>2
  <2>3. frame.hdrLen + SegmentLen(frame, at) <= rooms[i + 1]
    BY <2>0 DEF RoomInv, Fit
  <2>4. TypeOK'
    BY <1>s, <2>0, <2>1, <2>2, FrameShape DEF TypeOK
  <2>5. LoopInv' /\ RoomInv'
    BY <2>0, <2>1, <2>2 DEF LoopInv, RoomInv, Fit, Start
  <2>6. InBounds'
    <3> SUFFICES ASSUME NEW k \in DOMAIN out', out'[k] # Untouched
                 PROVE  sizes'[k] <= rooms'[k]
      BY DEF InBounds
    <3>1. DOMAIN out = DOMAIN rooms /\ DOMAIN sizes = DOMAIN rooms /\ k \in DOMAIN out
      BY <2>0, <2>1 DEF TypeOK
    <3>2. CASE k = i + 1
      BY <2>1, <2>3, <3>1, <3>2
    <3>3. CASE k # i + 1
      BY <2>1, <3>1, <3>3 DEF InBounds
    <3> QED BY <3>2, <3>3
  <2>7. BlankInv' /\ AllOrNothing'
    BY <2>0, <2>1 DEF BlankInv, AllOrNothing
  <2> QED BY <2>4, <2>5, <2>6, <2>7
<1>11. CASE SplitEnds
  <2>1. TypeOK'
    BY <1>11 DEF SplitEnds, Returns, TypeOK
  <2>2. BlankInv' /\ LoopInv' /\ RoomInv' /\ AllOrNothing' /\ InBounds'
    BY <1>11 DEF SplitEnds, Returns, BlankInv, LoopInv, RoomInv, AllOrNothing, InBounds
  <2> QED BY <2>1, <2>2
<1>12. CASE UNCHANGED vars
  BY <1>12 DEF vars, TypeOK, BlankInv, Blank, LoopInv, RoomInv, Fit, Start, AllOrNothing, InBounds
<1> QED
  BY <1>1, <1>2, <1>3, <1>4, <1>5, <1>6, <1>7, <1>8, <1>9, <1>10, <1>11, <1>12 DEF Next

\* The inductive invariant holds of every behaviour.
LEMMA Inductive == Spec => []IndInv
BY IndInit, IndNext, PTL DEF Spec
-----------------------------------------------------------------------------
\* handleVirtioRead and gsoSplit write to a buffer, or set a size, only when
\* nothing can fail any more.
THEOREM ReadAllOrNothing == Spec => []AllOrNothing
<1>1. IndInv => AllOrNothing
  BY DEF IndInv
<1> QED BY <1>1, Inductive, PTL

\* gsoSplit reslices buffers without looking; validateGSOSplit has made sure of
\* them, for the very lengths the split comes to.
THEOREM ReadInBounds == Spec => []BoundsInv
<1>1. IndInv => BoundsInv
  BY DEF IndInv, BoundsInv
<1> QED BY <1>1, Inductive, PTL
-----------------------------------------------------------------------------
(***************************************************************************)
(* What a Read that succeeds returns.                                      *)
(***************************************************************************)

\* Arithmetic with a modulus.
LEMMA ModUnique ==
  ASSUME NEW m \in Nat \ {0}, NEW q \in Int, NEW r \in 0..(m - 1)
  PROVE  (q * m + r) % m = r
OBVIOUS

LEMMA ModParts ==
  ASSUME NEW m \in Nat \ {0}, NEW x \in Nat
  PROVE  /\ x = (x \div m) * m + (x % m) /\ x % m \in 0..(m - 1)
         /\ x \div m \in Nat
<1>1. x = (x \div m) * m + (x % m) /\ x % m \in 0..(m - 1)
  OBVIOUS
<1>2. x \div m \in Nat
  OBVIOUS
<1>. QED  BY <1>1, <1>2, Zenon

\* A remainder may be taken before an addition as well as after it.
LEMMA ModAdd ==
  ASSUME NEW m \in Nat \ {0}, NEW x \in Nat, NEW y \in Nat
  PROVE  ((x % m) + y) % m = (x + y) % m
<1>1. PICK q \in Nat : x = q * m + (x % m)
  BY ModParts, Zenon
<1>2. x % m \in Nat /\ (x % m) + y \in Nat
  BY ModParts
<1>3. PICK h \in Nat : (x % m) + y = h * m + (((x % m) + y) % m)
  BY <1>2, ModParts, Zenon
<1>4. ((x % m) + y) % m \in 0..(m - 1)
  BY <1>2, ModParts
<1>5. x + y = (q + h) * m + (((x % m) + y) % m)
  BY <1>1, <1>2, <1>3
<1>6. q + h \in Int
  OBVIOUS
<1>. QED  BY <1>4, <1>5, <1>6, ModUnique

\* The remainder of a number that is small enough is the number.
LEMMA ModSmall ==
  ASSUME NEW m \in Nat \ {0}, NEW x \in 0..(m - 1)
  PROVE  x % m = x
OBVIOUS

\* The segments but for the last are full, and the last ends with the payload.
LEMMA CountBounds ==
  ASSUME NEW fr \in Frame, fr.gsoSize > 0, fr.len # 0
  PROVE  /\ SegmentCount(fr) \in Nat \ {0}
         /\ (SegmentCount(fr) - 1) * fr.gsoSize < fr.len
         /\ fr.len <= SegmentCount(fr) * fr.gsoSize
<1>. DEFINE g == fr.gsoSize
            n == fr.len
            d == n \div g
            r == n % g
<1>1. g \in Nat \ {0} /\ n \in Nat \ {0}
  BY FrameShape
<1>2. n = d * g + r /\ r \in 0..(g - 1) /\ d \in Nat
  BY <1>1, ModParts, Zenon
<1>3. SegmentCount(fr) = d + (IF r = 0 THEN 0 ELSE 1)
  BY DEF SegmentCount
<1>. HIDE DEF d, r, g, n
<1>4. (d + 1) * g = d * g + g /\ (d - 1) * g = d * g - g /\ d * g \in Nat
  BY <1>1, <1>2
<1>5. CASE r = 0
  <2>1. SegmentCount(fr) = d /\ n = d * g
    BY <1>2, <1>3, <1>4, <1>5
  <2>2. d # 0
    <3>1. 0 * g = 0
      BY <1>1
    <3>. QED  BY <1>1, <2>1, <3>1
  <2>3. d \in Nat \ {0} /\ (d - 1) * g < n /\ n <= d * g
    BY <1>1, <1>2, <1>4, <2>1, <2>2
  <2>. QED  BY <2>1, <2>3 DEF g, n
<1>6. CASE r # 0
  <2>1. SegmentCount(fr) = d + 1 /\ (d + 1) - 1 = d
    BY <1>2, <1>3, <1>6
  <2>2. d + 1 \in Nat \ {0} /\ d * g < n /\ n <= (d + 1) * g
    BY <1>1, <1>2, <1>4, <1>6
  <2>. QED  BY <2>1, <2>2 DEF g, n
<1>. QED  BY <1>5, <1>6

\* Multiples are ordered as their factors.
LEMMA TimesOrder ==
  ASSUME NEW j \in Nat, NEW k \in Nat, j <= k, NEW g \in Nat
  PROVE  j * g \in Nat /\ k * g \in Nat /\ j * g <= k * g
<1>1. PICK d \in Nat : k = j + d
  <2>1. k - j \in Nat /\ k = j + (k - j)
    OBVIOUS
  <2>. QED  BY <2>1
<1>2. k * g = j * g + d * g /\ j * g \in Nat /\ d * g \in Nat
  BY <1>1
<1>. QED  BY <1>2

\* Where the segments start, and how long they are.
LEMMA StartsOf ==
  ASSUME frame \in Frame, frame.gsoSize > 0, frame.len # 0
  PROVE  LET n == SegmentCount(frame) IN
         /\ n \in Nat \ {0} /\ Start(0) = 0 /\ Start(n) = frame.len
         /\ \A k \in 1..(n - 1) : /\ SegmentLen(frame, Start(k - 1)) = frame.gsoSize
                                  /\ Start(k) < frame.len
         /\ SegmentLen(frame, Start(n - 1)) \in 1..frame.gsoSize
<1>. DEFINE n == SegmentCount(frame)
            g == frame.gsoSize
            l == frame.len
<1>1. g \in Nat \ {0} /\ l \in Nat \ {0}
  BY FrameShape
<1>2. n \in Nat \ {0} /\ (n - 1) * g < l /\ l <= n * g
  BY CountBounds
<1>3. /\ \A j : Start(j) = IF j * g <= l THEN j * g ELSE l
      /\ \A x : SegmentLen(frame, x) = IF l - x < g THEN l - x ELSE g
  BY DEF Start, SegmentLen
<1>. HIDE DEF n, g, l
<1>4. ASSUME NEW k \in 0..(n - 1) PROVE Start(k) = k * g /\ k * g < l /\ k * g \in Nat
  <2>1. k \in Nat /\ n - 1 \in Nat /\ k <= n - 1
    BY <1>2
  <2>2. k * g \in Nat /\ (n - 1) * g \in Nat /\ k * g <= (n - 1) * g
    BY <1>1, <2>1, TimesOrder
  <2>. QED  BY <1>1, <1>2, <1>3, <2>2
<1>5. Start(0) = 0
  <2>1. 0 * g = 0 /\ 0 \in 0..(n - 1)
    BY <1>1, <1>2
  <2>. QED  BY <1>4, <2>1
<1>6. Start(n) = l
  <2>1. n * g \in Nat
    BY <1>1, <1>2, TimesOrder
  <2>. QED  BY <1>1, <1>2, <1>3, <2>1
<1>7. ASSUME NEW k \in 1..(n - 1)
      PROVE  SegmentLen(frame, Start(k - 1)) = g /\ Start(k) < l
  <2>1. k - 1 \in 0..(n - 1) /\ k \in 0..(n - 1) /\ k \in Nat
    BY <1>2
  <2>2. Start(k - 1) = (k - 1) * g /\ Start(k) = k * g /\ k * g < l /\ k * g \in Nat
    BY <1>4, <2>1
  <2>3. (k - 1) * g = k * g - g
    BY <1>1, <2>1
  <2>4. ~(l - (k - 1) * g < g)
    BY <1>1, <2>2, <2>3
  <2>. QED  BY <1>3, <2>2, <2>4
<1>8. SegmentLen(frame, Start(n - 1)) \in 1..g
  <2>1. n - 1 \in 0..(n - 1)
    BY <1>2
  <2>2. Start(n - 1) = (n - 1) * g /\ (n - 1) * g < l /\ (n - 1) * g \in Nat
    BY <1>4, <2>1
  <2>3. n * g = (n - 1) * g + g
    BY <1>1, <1>2
  <2>4. IF l - (n - 1) * g < g THEN l - (n - 1) * g \in 1..g ELSE g \in 1..g
    BY <1>1, <2>2
  <2>. QED  BY <1>3, <2>2, <2>4
<1>. QED  BY <1>2, <1>5, <1>6, <1>7, <1>8 DEF n, g, l
-----------------------------------------------------------------------------
\* The fields of a segment as it is returned.
LEMMA SegmentFields ==
  ASSUME NEW fr, NEW j, NEW x
  PROVE  LET s == Sealed(fr, Segment(fr, j, x)) IN
         /\ s.seq = IF IsTcp(fr) THEN (fr.seq + x) % SeqSpace ELSE fr.seq
         /\ s.id = IF fr.version = 4 THEN (fr.id + j) % IdSpace ELSE fr.id
         /\ s.from = x /\ s.len = SegmentLen(fr, x)
<1>. DEFINE seg == Segment(fr, j, x)
<1>1. PICK c, d : Sealed(fr, seg) = WithSums(seg, c, d)
  BY DEF Sealed
<1>2. /\ seg.seq = IF IsTcp(fr) THEN (fr.seq + x) % SeqSpace ELSE fr.seq
      /\ seg.id = IF fr.version = 4 THEN (fr.id + j) % IdSpace ELSE fr.id
      /\ seg.from = x /\ seg.len = SegmentLen(fr, x)
  BY DEF Segment
<1>. HIDE DEF seg
<1>4. /\ Sealed(fr, seg).seq = seg.seq /\ Sealed(fr, seg).id = seg.id
      /\ Sealed(fr, seg).from = seg.from /\ Sealed(fr, seg).len = seg.len
  BY <1>1 DEF WithSums
<1>. QED  BY <1>2, <1>4 DEF seg

\* ... FIN and PSH.
LEMMA SegmentEnd ==
  ASSUME NEW fr, NEW j, NEW x
  PROVE  Sealed(fr, Segment(fr, j, x)).end
           = (fr.end /\ (IsTcp(fr) => x + SegmentLen(fr, x) = fr.len))
<1>. DEFINE seg == Segment(fr, j, x)
<1>1. PICK c, d : Sealed(fr, seg) = WithSums(seg, c, d)
  BY DEF Sealed
<1>2. seg.end = (fr.end /\ (IsTcp(fr) => x + SegmentLen(fr, x) = fr.len))
  BY Zenon DEF Segment
<1>. HIDE DEF seg
<1>4. Sealed(fr, seg).end = seg.end
  BY <1>1 DEF WithSums
<1>. QED  BY <1>2, <1>4, Zenon DEF seg

\* The fields of a packet that is not split.
LEMMA WholeFields ==
  ASSUME NEW fr
  PROVE  /\ Completed(fr).seq = fr.seq /\ Completed(fr).id = fr.id
         /\ Completed(fr).from = 0 /\ Completed(fr).len = fr.len
         /\ Completed(fr).end = fr.end
<1>1. PICK c, d : Completed(fr) = WithSums(Whole(fr), c, d)
  BY DEF Completed
<1>. QED  BY <1>1 DEF WithSums, Whole
-----------------------------------------------------------------------------
\* The first n segments are in the caller's buffers, and nothing else is.
Written(n) ==
  /\ \A k \in 1..n :
       /\ out[k] = Sealed(frame, Segment(frame, k - 1, Start(k - 1)))
       /\ sizes[k] = frame.hdrLen + SegmentLen(frame, Start(k - 1))
  /\ \A k \in DOMAIN rooms \ (1..n) : out[k] = Untouched /\ sizes[k] = -1

\* A packet that was not split is in the first.
Alone ==
  /\ out[1] = Completed(frame) /\ sizes[1] = frame.hdrLen + frame.len
  /\ \A k \in DOMAIN rooms \ {1} : out[k] = Untouched /\ sizes[k] = -1

Returned ==
  /\ frame \in Frame /\ result[2] \in 1..Len(rooms)
  /\ \/ frame.type = "none" /\ result[2] = 1 /\ Alone
     \/ /\ frame.type # "none" /\ frame.gsoSize > 0 /\ frame.len # 0
        /\ result[2] = SegmentCount(frame) /\ Written(SegmentCount(frame))

SplitInv ==
  /\ pc \in {"room", "split"} => frame.type # "none" /\ frame.len # 0
  /\ pc = "split" => Written(i)
  /\ vnetHdr /\ Ready /\ result[1] = "count" => Returned

\* Before the first Read.
LEMMA SplitInit == Init => SplitInv
BY DEF Init, SplitInv, Ready

\* No step of Read loses track of what was written.
LEMMA SplitNext ==
  ASSUME IndInv, SplitInv, [Next]_vars
  PROVE  SplitInv'
<1>s. /\ rooms \in Seq(Int) /\ Len(rooms) \in Nat /\ DOMAIN rooms = 1..Len(rooms)
      /\ DOMAIN out = DOMAIN rooms
      /\ pc # "idle" => DOMAIN sizes = DOMAIN rooms
  BY RoomShape DEF IndInv, TypeOK
<1>1. ASSUME NEW rs \in Rooms, NEW n \in 0..Len(rs), Call(rs, n) PROVE SplitInv'
  BY <1>1 DEF Call, Returns, SplitInv, Ready
<1>2. ASSUME NEW fr \in Frame, FileRead(fr) PROVE SplitInv'
  BY <1>2 DEF FileRead, SplitInv, Ready
<1>3. ASSUME NEW fr \in Frame, FileReadRaw(fr) PROVE SplitInv'
  BY <1>3 DEF FileReadRaw, Returns, SplitInv
<1>4. CASE FileError
  BY <1>4 DEF FileError, Returns, SplitInv
<1>5. ASSUME NEW e, Fails(e) PROVE SplitInv'
  BY <1>5 DEF Fails, Returns, SplitInv
<1>6. CASE NoGso
  <2>1. CASE frame.hdrLen + frame.len > rooms[1]
    BY <1>5, <1>6, <2>1 DEF NoGso
  <2>2. CASE ~(frame.hdrLen + frame.len > rooms[1])
    <3>1. /\ pc = "check" /\ frame.type = "none"
          /\ out' = [out EXCEPT ![1] = Completed(frame)]
          /\ sizes' = [sizes EXCEPT ![1] = frame.hdrLen + frame.len]
          /\ pc' = "idle" /\ result' = <<"count", 1>>
          /\ UNCHANGED <<vnetHdr, rooms, frame>>
      BY <1>6, <2>2 DEF NoGso, Returns
    <3>2. Len(rooms) >= 1 /\ frame \in Frame /\ Blank
      BY <3>1 DEF IndInv, LoopInv, BlankInv
    <3>3. 1 \in DOMAIN rooms
      BY <1>s, <3>2
    <3>4. Alone'
      BY <1>s, <3>1, <3>2, <3>3 DEF Alone, Blank
    <3>5. result'[2] = 1 /\ 1 \in 1..Len(rooms)
      BY <1>s, <3>1, <3>3
    <3>6. Returned'
      BY <3>1, <3>2, <3>4, <3>5 DEF Returned
    <3>. QED  BY <3>1, <3>6 DEF SplitInv
  <2>. QED  BY <2>1, <2>2
<1>7. CASE Count
  <2>1. CASE SegmentCount(frame) > Len(rooms)
    BY <1>5, <1>7, <2>1 DEF Count
  <2>2. CASE ~(SegmentCount(frame) > Len(rooms))
    BY <1>7, <2>2 DEF Count, Malformed, SplitInv, Ready
  <2>. QED  BY <2>1, <2>2
<1>8. CASE CheckRoom
  <2>1. CASE rooms[i + 1] < 0 \/ TooSmall(rooms[i + 1])
    BY <1>5, <1>8, <2>1 DEF CheckRoom
  <2>2. CASE ~(rooms[i + 1] < 0 \/ TooSmall(rooms[i + 1]))
    BY <1>8, <2>2 DEF CheckRoom, SplitInv, Ready
  <2>. QED  BY <2>1, <2>2
<1>9. CASE RoomEnds
  <2>1. /\ pc = "room" /\ pc' = "split" /\ i' = 0
        /\ UNCHANGED <<vnetHdr, rooms, out, sizes, frame, result>>
    BY <1>9 DEF RoomEnds
  <2>2. Blank
    BY <2>1 DEF IndInv, BlankInv
  <2>3. Written(0)'
    BY <2>1, <2>2 DEF Written, Blank
  <2>. QED  BY <2>1, <2>3 DEF SplitInv, Ready
<1>10. CASE Split
  <2>1. /\ pc = "split" /\ i \in Nat /\ i < SegmentCount(frame) /\ at = Start(i)
        /\ SegmentCount(frame) \in Nat /\ SegmentCount(frame) <= Len(rooms)
    BY <1>10, CountType, <1>s DEF Split, IndInv, LoopInv, TypeOK
  <2>2. /\ out' = [out EXCEPT ![i + 1] = Sealed(frame, Segment(frame, i, at))]
        /\ sizes' = [sizes EXCEPT ![i + 1] = frame.hdrLen + SegmentLen(frame, at)]
        /\ i' = i + 1
        /\ UNCHANGED <<vnetHdr, pc, rooms, frame, result>>
    BY <1>10 DEF Split
  <2>3. i + 1 \in DOMAIN rooms /\ (i + 1) - 1 = i
    BY <1>s, <2>1
  <2>4. Written(i)
    BY <2>1 DEF SplitInv
  <2>5. \A x : Start(x)' = Start(x)
    BY <2>2 DEF Start
  <2>6. ASSUME NEW k \in 1..(i + 1)
        PROVE  /\ out'[k] = Sealed(frame, Segment(frame, k - 1, Start(k - 1)))
               /\ sizes'[k] = frame.hdrLen + SegmentLen(frame, Start(k - 1))
    <3>1. CASE k = i + 1
      BY <1>s, <2>1, <2>2, <2>3, <3>1
    <3>2. CASE k # i + 1
      <4>1. k \in 1..i /\ k \in DOMAIN rooms
        BY <1>s, <2>1, <2>3, <3>2
      <4>2. out'[k] = out[k] /\ sizes'[k] = sizes[k]
        BY <1>s, <2>2, <3>2, <4>1
      <4>. QED  BY <2>4, <4>1, <4>2 DEF Written
    <3>. QED  BY <3>1, <3>2
  <2>7. ASSUME NEW k \in DOMAIN rooms \ (1..(i + 1))
        PROVE  out'[k] = Untouched /\ sizes'[k] = -1
    <3>1. k # i + 1 /\ k \in DOMAIN rooms \ (1..i)
      BY <1>s, <2>1, <2>3
    <3>2. out'[k] = out[k] /\ sizes'[k] = sizes[k]
      BY <1>s, <2>2, <3>1
    <3>. QED  BY <2>4, <3>1, <3>2 DEF Written
  <2>8. Written(i)'
    BY <2>2, <2>5, <2>6, <2>7 DEF Written
  <2>. QED  BY <2>1, <2>2, <2>8 DEF SplitInv, Ready
<1>11. CASE SplitEnds
  <2>1. /\ pc = "split" /\ i = SegmentCount(frame) /\ pc' = "idle"
        /\ result' = <<"count", i>>
        /\ UNCHANGED <<vnetHdr, rooms, out, sizes, frame, i>>
    BY <1>11 DEF SplitEnds, Returns
  <2>2. /\ frame \in Frame /\ frame.gsoSize > 0 /\ SegmentCount(frame) <= Len(rooms)
        /\ frame.type # "none" /\ frame.len # 0 /\ Written(i)
    BY <2>1 DEF IndInv, LoopInv, SplitInv
  <2>3. SegmentCount(frame) \in Nat \ {0}
    BY <2>2, CountBounds
  <2>4. result'[2] = SegmentCount(frame) /\ SegmentCount(frame) \in 1..Len(rooms)
    BY <1>s, <2>1, <2>2, <2>3
  <2>5. Written(SegmentCount(frame))'
    BY <2>1, <2>2 DEF Written, Start
  <2>6. Returned'
    BY <2>1, <2>2, <2>4, <2>5 DEF Returned
  <2>. QED  BY <2>1, <2>6 DEF SplitInv
<1>12. CASE UNCHANGED vars
  BY <1>12 DEF vars, SplitInv, Ready, Returned, Alone, Written, Start
<1>13. CASE Reject
  BY <1>5, <1>13 DEF Reject
<1>. QED
  BY <1>1, <1>2, <1>3, <1>4, <1>6, <1>7, <1>8, <1>9, <1>10, <1>11, <1>12, <1>13 DEF Next
-----------------------------------------------------------------------------
\* A packet that was not split is returned as it came.
LEMMA AloneComplete ==
  ASSUME TypeOK, vnetHdr, Ready, result[1] = "count", Returned, frame.type = "none"
  PROVE  SplitComplete
<1>1. /\ frame \in Frame /\ result[2] = 1 /\ 1 \in 1..Len(rooms) /\ Alone
  BY DEF Returned
<1>2. /\ out[1].seq = frame.seq /\ out[1].id = frame.id
      /\ out[1].from = 0 /\ out[1].len = frame.len
  BY <1>1, WholeFields DEF Alone
<1>3. out[1].end = frame.end
  BY <1>1, WholeFields, Zenon DEF Alone
<1>4. frame.len \in Nat
  BY <1>1, FrameShape
<1>5. out[1].from + out[1].len = frame.len
  BY <1>2, <1>4
<1>6. \A k \in 1..1 : sizes[k] = frame.hdrLen + out[k].len
  BY <1>1, <1>2 DEF Alone
<1>7. \A k \in DOMAIN rooms \ (1..1) : out[k] = Untouched /\ sizes[k] = -1
  BY <1>1 DEF Alone
<1>8. 1..(1 - 1) = {}
  OBVIOUS
<1>. QED  BY <1>1, <1>2, <1>3, <1>5, <1>6, <1>7, <1>8, Zenon DEF SplitComplete

\* The segments of a frame continue each other.
LEMMA Continues ==
  ASSUME frame \in Frame, frame.gsoSize > 0, frame.len # 0, Written(SegmentCount(frame)),
         NEW k \in 1..(SegmentCount(frame) - 1)
  PROVE  /\ out[k + 1].from = out[k].from + out[k].len
         /\ out[k].len = frame.gsoSize
         /\ IsTcp(frame) => out[k + 1].seq = (out[k].seq + out[k].len) % SeqSpace
         /\ IsTcp(frame) => ~out[k].end
         /\ frame.version = 4 => out[k + 1].id = (out[k].id + 1) % IdSpace
<1>. DEFINE n == SegmentCount(frame)
<1>1. /\ n \in Nat \ {0}
      /\ SegmentLen(frame, Start(k - 1)) = frame.gsoSize /\ Start(k) < frame.len
  BY StartsOf
<1>2. frame.len \in Nat /\ frame.gsoSize \in Nat
  BY FrameShape
<1>3. /\ frame.seq \in Nat /\ frame.id \in Nat
      /\ SeqSpace \in Nat \ {0} /\ IdSpace \in Nat \ {0}
  BY FieldAssumption
<1>. HIDE DEF n
<1>4. k \in Nat /\ k - 1 \in Nat /\ k \in 1..n /\ k + 1 \in 1..n /\ (k + 1) - 1 = k
      /\ (k - 1) + 1 = k
  BY <1>1 DEF n
<1>5. /\ out[k] = Sealed(frame, Segment(frame, k - 1, Start(k - 1)))
      /\ out[k + 1] = Sealed(frame, Segment(frame, k, Start(k)))
  BY <1>4 DEF Written, n
<1>6. Start(k - 1) \in Nat /\ Start(k) = Start(k - 1) + frame.gsoSize /\ Start(k) \in Nat
  <2>1. /\ Start(k - 1) \in 0..frame.len
        /\ Start(k - 1) + SegmentLen(frame, Start(k - 1)) = Start((k - 1) + 1)
    BY <1>4, NextStart
  <2>. QED  BY <1>1, <1>2, <1>4, <2>1
<1>7. /\ out[k].from = Start(k - 1) /\ out[k].len = frame.gsoSize
      /\ out[k + 1].from = Start(k)
  BY <1>1, <1>5, SegmentFields
<1>8. ASSUME IsTcp(frame)
      PROVE  out[k + 1].seq = (out[k].seq + out[k].len) % SeqSpace
  <2>1. /\ out[k].seq = (frame.seq + Start(k - 1)) % SeqSpace
        /\ out[k + 1].seq = (frame.seq + Start(k)) % SeqSpace
    BY <1>5, <1>8, SegmentFields
  <2>2. frame.seq + Start(k - 1) \in Nat
        /\ frame.seq + Start(k) = (frame.seq + Start(k - 1)) + frame.gsoSize
    BY <1>2, <1>3, <1>6
  <2>3. (((frame.seq + Start(k - 1)) % SeqSpace) + frame.gsoSize) % SeqSpace
          = ((frame.seq + Start(k - 1)) + frame.gsoSize) % SeqSpace
    BY <1>2, <1>3, <2>2, ModAdd
  <2>. QED  BY <1>7, <2>1, <2>2, <2>3
<1>9. ASSUME IsTcp(frame) PROVE ~out[k].end
  <2>1. Start(k - 1) + SegmentLen(frame, Start(k - 1)) # frame.len
    BY <1>1, <1>2, <1>6
  <2>2. Sealed(frame, Segment(frame, k - 1, Start(k - 1))).end
          = (frame.end /\ (IsTcp(frame) =>
                        Start(k - 1) + SegmentLen(frame, Start(k - 1)) = frame.len))
    BY SegmentEnd, Zenon
  <2>. QED  BY <1>5, <1>9, <2>1, <2>2, Zenon
<1>10. ASSUME frame.version = 4 PROVE out[k + 1].id = (out[k].id + 1) % IdSpace
  <2>1. /\ out[k].id = (frame.id + (k - 1)) % IdSpace
        /\ out[k + 1].id = (frame.id + k) % IdSpace
    BY <1>5, <1>10, SegmentFields
  <2>2. frame.id + (k - 1) \in Nat /\ frame.id + k = (frame.id + (k - 1)) + 1
    BY <1>3, <1>4
  <2>. QED  BY <1>3, <2>1, <2>2, ModAdd
<1>11. out[k + 1].from = out[k].from + out[k].len
  BY <1>6, <1>7
<1>. QED  BY <1>7, <1>8, <1>9, <1>10, <1>11, Zenon

\* The first segment starts with the payload, the last one ends with it.
LEMMA FromFirstToLast ==
  ASSUME frame \in Frame, frame.gsoSize > 0, frame.len # 0, Written(SegmentCount(frame)),
         NEW n, n = SegmentCount(frame)
  PROVE  /\ out[1].from = 0 /\ out[1].seq = frame.seq /\ out[1].id = frame.id
         /\ out[n].from + out[n].len = frame.len
         /\ out[n].len \in 1..frame.gsoSize
         /\ out[n].end = frame.end
<1>1. /\ n \in Nat \ {0} /\ Start(0) = 0 /\ Start(n) = frame.len
      /\ SegmentLen(frame, Start(n - 1)) \in 1..frame.gsoSize
  BY StartsOf
<1>2. /\ SeqSpace \in Nat \ {0} /\ IdSpace \in Nat \ {0}
      /\ frame.seq \in 0..(SeqSpace - 1) /\ frame.id \in 0..(IdSpace - 1)
  BY FieldAssumption
<1>3. 1 \in 1..n /\ n \in 1..n /\ 1 - 1 = 0 /\ n - 1 \in Nat /\ (n - 1) + 1 = n
  BY <1>1
<1>4. /\ out[1] = Sealed(frame, Segment(frame, 0, 0))
      /\ out[n] = Sealed(frame, Segment(frame, n - 1, Start(n - 1)))
  BY <1>1, <1>3 DEF Written
<1>5. /\ (frame.seq + 0) % SeqSpace = frame.seq
      /\ (frame.id + 0) % IdSpace = frame.id
  <2>1. frame.seq + 0 = frame.seq /\ frame.id + 0 = frame.id
    BY <1>2
  <2>2. frame.seq % SeqSpace = frame.seq
    BY <1>2, ModSmall
  <2>3. frame.id % IdSpace = frame.id
    BY <1>2, ModSmall
  <2>. QED  BY <2>1, <2>2, <2>3
<1>6. out[1].from = 0 /\ out[1].seq = frame.seq /\ out[1].id = frame.id
  BY <1>4, <1>5, SegmentFields
<1>7. out[n].from = Start(n - 1) /\ out[n].len = SegmentLen(frame, Start(n - 1))
  BY <1>4, SegmentFields
<1>8. Start(n - 1) + SegmentLen(frame, Start(n - 1)) = frame.len
  BY <1>1, <1>3, NextStart
<1>9. out[n].end = frame.end
  <2>1. \A j, x : Sealed(frame, Segment(frame, j, x)).end
                  = (frame.end /\ (IsTcp(frame) => x + SegmentLen(frame, x) = frame.len))
    BY SegmentEnd, Zenon
  <2>2. frame.end \in BOOLEAN
    BY FieldAssumption, Zenon
  <2>. QED  BY <1>4, <1>8, <2>1, <2>2, Zenon
<1>. QED  BY <1>1, <1>6, <1>7, <1>8, <1>9, Zenon

\* ... which is what a Read that succeeds is meant to return.
LEMMA WhatIsReturned == IndInv /\ SplitInv => SplitComplete
<1>. SUFFICES ASSUME IndInv, SplitInv, vnetHdr, Ready, result[1] = "count"
              PROVE  SplitComplete
  BY DEF SplitComplete
<1>1. TypeOK /\ Returned
  BY DEF IndInv, SplitInv
<1>2. CASE frame.type = "none"
  BY <1>1, <1>2, AloneComplete
<1>3. CASE frame.type # "none"
  <2>. DEFINE n == SegmentCount(frame)
  <2>1. /\ frame \in Frame /\ frame.gsoSize > 0 /\ frame.len # 0
        /\ result[2] = n /\ n \in 1..Len(rooms) /\ Written(n)
    BY <1>1, <1>3 DEF Returned
  <2>2. /\ out[1].from = 0 /\ out[1].seq = frame.seq /\ out[1].id = frame.id
        /\ out[n].from + out[n].len = frame.len
        /\ out[n].len \in 1..frame.gsoSize
        /\ out[n].end = frame.end
    BY <2>1, FromFirstToLast, Zenon
  <2>3. ASSUME NEW k \in 1..(n - 1)
        PROVE  /\ out[k + 1].from = out[k].from + out[k].len
               /\ out[k].len = frame.gsoSize
               /\ IsTcp(frame) => out[k + 1].seq = (out[k].seq + out[k].len) % SeqSpace
               /\ IsTcp(frame) => ~out[k].end
               /\ frame.version = 4 => out[k + 1].id = (out[k].id + 1) % IdSpace
    BY <2>1, Continues, Zenon
  <2>4. ASSUME NEW k \in 1..n PROVE sizes[k] = frame.hdrLen + out[k].len
    <3>1. /\ out[k] = Sealed(frame, Segment(frame, k - 1, Start(k - 1)))
          /\ sizes[k] = frame.hdrLen + SegmentLen(frame, Start(k - 1))
      BY <2>1 DEF Written
    <3>. QED  BY <3>1, SegmentFields
  <2>5. \A k \in DOMAIN rooms \ (1..n) : out[k] = Untouched /\ sizes[k] = -1
    BY <2>1 DEF Written
  <2>. HIDE DEF n
  <2>. QED  BY <2>1, <2>2, <2>3, <2>4, <2>5, Zenon DEF SplitComplete
<1>. QED  BY <1>2, <1>3

\* A Read that succeeds returns the whole payload of the frame, in segments that
\* continue each other, and touches no other buffer: for any frames and buffers.
THEOREM ReadGivesAll == Spec => []SplitComplete
<1>1. IndInv /\ SplitInv /\ [Next]_vars => (IndInv /\ SplitInv)'
  BY IndNext, SplitNext
<1>2. Init => IndInv /\ SplitInv
  BY IndInit, SplitInit
<1>. QED  BY <1>1, <1>2, WhatIsReturned, PTL DEF Spec
-----------------------------------------------------------------------------
(***************************************************************************)
(* The checksums of what is returned.                                      *)
(***************************************************************************)

\* Sixteen bits fit in a word.
LEMMA Word16Fits == Word16 <= Word64
<1>1. PICK w \in Nat : w = Word16 /\ w > 1
  BY WordSizes
<1>2. ASSUME NEW x \in Nat, NEW y \in Nat, x > 0 PROVE y <= y * x
  <2>1. PICK d \in Nat : x = d + 1
    <3>1. x - 1 \in Nat /\ x = (x - 1) + 1
      BY <1>2
    <3>. QED  BY <3>1
  <2>2. y * x = y * d + y /\ y * d \in Nat
    BY <2>1
  <2>. QED  BY <2>2
<1>3. /\ w * w \in Nat /\ w * w * w \in Nat /\ w * w * w * w \in Nat
      /\ w <= w * w /\ w * w <= w * w * w /\ w * w * w <= w * w * w * w
  <2>1. w * w \in Nat /\ w * w * w \in Nat /\ w * w * w * w \in Nat
    BY <1>1
  <2>. QED  BY <1>1, <1>2, <2>1
<1>. QED  BY <1>1, <1>3 DEF Word64

\* Two bytes hold a number of 16 bits.
LEMMA PutBytes ==
  ASSUME NEW x \in Nat
  PROVE  /\ PutUint16(x) \in Seq(Byte) /\ Len(PutUint16(x)) = 2
         /\ x < Word16 => WordSum(PutUint16(x)) = x
<1>. DEFINE h == x \div Radix
            l == x % Radix
<1>1. h \in Nat /\ l \in Byte /\ x = (Radix * h) + l /\ (x < Word16 => h < Radix)
  <2>1. \A y \in Nat : x < Radix * y => x \div Radix < y
    BY ShiftByte, Zenon
  <2>2. Radix \in Nat
    BY RadixAssumption
  <2>3. x < Word16 => h < Radix
    BY <2>1, <2>2 DEF Word16
  <2>. QED  BY <2>3, ShiftByte
<1>. HIDE DEF h, l
<1>2. h % Radix \in Byte
  BY <1>1, ShiftByte
<1>3. PutUint16(x) = <<h % Radix, l>>
  BY DEF PutUint16, h, l
<1>4. PutUint16(x) \in Seq(Byte) /\ Len(PutUint16(x)) = 2
  <2>1. \A y, z \in Byte : <<y, z>> \in Seq(Byte) /\ Len(<<y, z>>) = 2
    OBVIOUS
  <2>. QED  BY <1>1, <1>2, <1>3, <2>1
<1>5. ASSUME x < Word16 PROVE WordSum(PutUint16(x)) = x
  <2>1. h % Radix = h
    <3>1. h \in 0..(Radix - 1) /\ Radix \in Nat \ {0}
      BY <1>1, <1>5, RadixAssumption
    <3>2. \A y \in 0..(Radix - 1) : y % Radix = y
      BY <3>1
    <3>. QED  BY <3>1, <3>2
  <2>2. WordSum(<<h % Radix, l>>) = (Radix * (h % Radix)) + l
    BY <1>1, <1>2, ShortSums
  <2>. QED  BY <1>1, <1>3, <2>1, <2>2
<1>. QED  BY <1>4, <1>5

\* No bytes at all where a checksum is to come.
LEMMA ZeroSum == Zero \in Seq(Byte) /\ Len(Zero) = 2 /\ WordSum(Zero) = 0
<1>1. 0 \in Byte /\ Radix * 0 + 0 = 0
  BY RadixAssumption DEF Byte
<1>2. WordSum(<<0, 0>>) = Radix * 0 + 0
  BY <1>1, ShortSums
<1>. QED  BY <1>1, <1>2 DEF Zero

\* Concatenation is associative.
LEMMA ConcatTwice ==
  ASSUME NEW f \in Seq(Byte), NEW g \in Seq(Byte), NEW h \in Seq(Byte)
  PROVE  (f \o g) \o h = f \o (g \o h)
<1>. DEFINE l == (f \o g) \o h
            r == f \o (g \o h)
            n == Len(f) + Len(g) + Len(h)
<1>1. l \in Seq(Byte) /\ r \in Seq(Byte) /\ Len(l) = n /\ Len(r) = n /\ n \in Nat
  OBVIOUS
<1>2. ASSUME NEW k \in 1..n PROVE l[k] = r[k]
  OBVIOUS
<1>. HIDE DEF l, r, n
<1>3. l = [k \in 1..n |-> l[k]] /\ r = [k \in 1..n |-> r[k]]
  BY <1>1
<1>4. l = r
  BY <1>2, <1>3
<1>. QED  BY <1>4 DEF l, r

\* Bytes of even length that are put before others.
LEMMA EvenConcat ==
  ASSUME NEW a \in Seq(Byte), NEW b \in Seq(Byte), Len(a) % 2 = 0
  PROVE  /\ WordSum(a \o b) = WordSum(a) + WordSum(b)
         /\ WordSum(a) \in Nat /\ WordSum(b) \in Nat
         /\ a \o b \in Seq(Byte)
         /\ Len(b) % 2 = 0 => Len(a \o b) % 2 = 0
<1>1. Len(a) \in Nat /\ Len(b) \in Nat /\ Len(a \o b) = Len(a) + Len(b)
  BY WordSumConcat
<1>2. Len(b) % 2 = 0 => Len(a \o b) % 2 = 0
  <2>1. \A x, y \in Nat : x % 2 = 0 /\ y % 2 = 0 => (x + y) % 2 = 0
    OBVIOUS
  <2>. QED  BY <1>1, <2>1
<1>. QED  BY <1>2, WordSumConcat

\* The complement of a sum makes the bytes verify.
LEMMA ComplementVerifies ==
  ASSUME NEW f \in 0..(Word16 - 1), NEW s \in Nat, Same(f, s), NEW t,
         t = s + Complement(f)
  PROVE  /\ Complement(f) \in Nat /\ Complement(f) < Word16
         /\ t \in Nat /\ t > 0 /\ t % (Word16 - 1) = 0
<1>1. PICK m \in Nat : m = Word16 - 1 /\ m > 0
  BY WordSizes
<1>2. PICK q \in Int : f = s + q * m
  BY <1>1 DEF Same
<1>3. /\ f \in 0..m /\ Word16 = m + 1
      /\ Complement(f) = m - f
  BY <1>1, WordSizes DEF Complement
<1>4. t = s + (m - f) /\ t \in Nat /\ Complement(f) \in Nat /\ Complement(f) < Word16
  BY <1>3
<1>5. t > 0
  <2>1. s = 0 => f = 0
    BY DEF Same
  <2>. QED  BY <1>1, <1>3, <1>4, <2>1
<1>6. t % m = 0
  <2>1. t = (1 - q) * m + 0
    <3>1. (1 - q) * m = m - q * m /\ q * m \in Int
      OBVIOUS
    <3>. QED  BY <1>2, <1>3, <1>4, <3>1
  <2>2. 1 - q \in Int /\ 0 \in 0..(m - 1) /\ m \in Nat \ {0}
    BY <1>1
  <2>. QED  BY <2>1, <2>2, ModUnique
<1>. QED  BY <1>1, <1>4, <1>5, <1>6

\* A segment within the payload of a frame.
IsSegment(fr, seg) == /\ seg.seq \in Nat /\ seg.id \in Nat
                      /\ seg.from \in Nat /\ seg.len \in Nat /\ seg.from + seg.len <= fr.len

\* The bytes of a frame.
LEMMA FrameBytes ==
  ASSUME NEW fr \in Frame
  PROVE  /\ fr.src \in Seq(Byte) /\ fr.dst \in Seq(Byte) /\ fr.data \in Seq(Byte)
         /\ Len(fr.src) % 2 = 0 /\ Len(fr.dst) % 2 = 0 /\ Len(fr.data) = fr.len
<1>1. {fr.src, fr.dst, fr.data} \subseteq Seq(Byte)
  BY BytesAssumption, Zenon DEF Byte
<1>2. Len(fr.src) % 2 = 0 /\ Len(fr.dst) % 2 = 0 /\ Len(fr.data) = fr.len
  BY BytesAssumption, Zenon
<1>. QED  BY <1>1, <1>2, Zenon

\* pseudoHeaderChecksumNoFold is the sum of the pseudo-header, which is not zero.
LEMMA PseudoSum ==
  ASSUME NEW fr \in Frame, NEW seg, IsSegment(fr, seg)
  PROVE  LET sum == pseudoHeaderChecksumNoFold(Protocol(fr), fr.src, fr.dst,
                                               TransportLen(fr, seg))
             w == WordSum(PseudoHeader(fr, seg))
         IN /\ PseudoHeader(fr, seg) \in Seq(Byte) /\ Len(PseudoHeader(fr, seg)) % 2 = 0
            /\ sum \in Word /\ w \in Nat /\ w > 0 /\ Same(sum, w)
<1>. DEFINE a == fr.src
            b == fr.dst
            c == <<0, Protocol(fr)>>
            d == PutUint16(TransportLen(fr, seg))
            A == checksumNoFold(a, 0)
            B == checksumNoFold(b, A)
            C == checksumNoFold(c, B)
            D == checksumNoFold(d, C)
<1>1. /\ a \in Seq(Byte) /\ b \in Seq(Byte) /\ Len(a) % 2 = 0 /\ Len(b) % 2 = 0
  BY FrameBytes
<1>2. c \in Seq(Byte) /\ Len(c) = 2 /\ WordSum(c) \in Nat /\ WordSum(c) > 0
  <2>1. 0 \in Byte /\ Protocol(fr) \in Byte /\ Protocol(fr) \in Nat /\ Protocol(fr) > 0
    BY RadixAssumption DEF Byte, Protocol
  <2>2. WordSum(c) = Radix * 0 + Protocol(fr)
    BY <2>1, ShortSums
  <2>3. \A y, z \in Byte : <<y, z>> \in Seq(Byte) /\ Len(<<y, z>>) = 2
    OBVIOUS
  <2>4. Radix * 0 = 0
    BY RadixAssumption
  <2>. QED  BY <2>1, <2>2, <2>3, <2>4
<1>3. d \in Seq(Byte) /\ Len(d) = 2
  <2>1. TransportLen(fr, seg) \in Nat
    BY DEF IsSegment, TransportLen
  <2>. QED  BY <2>1, PutBytes
<1>. HIDE DEF a, b, c, d
<1>4. PseudoHeader(fr, seg) = ((a \o b) \o c) \o d
  BY Zenon DEF PseudoHeader, a, b, c, d
<1>5. pseudoHeaderChecksumNoFold(Protocol(fr), fr.src, fr.dst, TransportLen(fr, seg)) = D
  BY Zenon DEF pseudoHeaderChecksumNoFold, a, b, c, d
<1>6. /\ a \o b \in Seq(Byte) /\ Len(a \o b) % 2 = 0
      /\ WordSum(a \o b) = WordSum(a) + WordSum(b) /\ WordSum(a) \in Nat /\ WordSum(b) \in Nat
  BY <1>1, EvenConcat
<1>7. /\ (a \o b) \o c \in Seq(Byte) /\ Len((a \o b) \o c) % 2 = 0
      /\ WordSum((a \o b) \o c) = WordSum(a \o b) + WordSum(c)
  <2>. DEFINE x == a \o b
  <2>. HIDE DEF x
  <2>1. x \in Seq(Byte) /\ Len(x) % 2 = 0 /\ Len(c) % 2 = 0
    BY <1>2, <1>6 DEF x
  <2>2. /\ x \o c \in Seq(Byte) /\ Len(x \o c) % 2 = 0
        /\ WordSum(x \o c) = WordSum(x) + WordSum(c)
    BY <1>2, <2>1, EvenConcat
  <2>. QED  BY <2>2 DEF x
<1>8. /\ ((a \o b) \o c) \o d \in Seq(Byte) /\ Len(((a \o b) \o c) \o d) % 2 = 0
      /\ WordSum(((a \o b) \o c) \o d) = WordSum((a \o b) \o c) + WordSum(d)
      /\ WordSum(d) \in Nat
  <2>. DEFINE x == (a \o b) \o c
  <2>. HIDE DEF x
  <2>1. x \in Seq(Byte) /\ Len(x) % 2 = 0 /\ Len(d) % 2 = 0
    BY <1>3, <1>7 DEF x
  <2>2. /\ x \o d \in Seq(Byte) /\ Len(x \o d) % 2 = 0
        /\ WordSum(x \o d) = WordSum(x) + WordSum(d) /\ WordSum(d) \in Nat
    BY <1>3, <2>1, EvenConcat
  <2>. QED  BY <2>2 DEF x
<1>. DEFINE p == WordSum(a)
            q == WordSum(b)
            r == WordSum(c)
            s == WordSum(d)
<1>9. WordSum(PseudoHeader(fr, seg)) = p + q + r + s
  BY <1>2, <1>4, <1>6, <1>7, <1>8
<1>10. ASSUME NEW x \in Seq(Byte), NEW v \in Word, NEW y \in Nat, Same(v, y)
       PROVE  /\ checksumNoFold(x, v) \in Word
              /\ Same(checksumNoFold(x, v), y + WordSum(x))
  <2>1. /\ checksumNoFold(x, v) \in Word /\ WordSum(x) \in Nat
        /\ Same(checksumNoFold(x, v), v + WordSum(x))
    BY AccumulatorIsSum
  <2>. DEFINE f == checksumNoFold(x, v)
              w == WordSum(x)
  <2>. HIDE DEF f, w
  <2>2. f \in Nat /\ v \in Nat /\ w \in Nat
    BY <2>1, WordSizes DEF Word, f, w
  <2>3. Same(v + w, y + w)
    BY <1>10, <2>2, SamePlus
  <2>. DEFINE m == v + w
              n == y + w
  <2>4. m \in Nat /\ n \in Nat /\ Same(f, m) /\ Same(m, n)
    BY <2>1, <2>2, <2>3 DEF f, w
  <2>. HIDE DEF m, n
  <2>5. Same(f, n)
    BY <2>2, <2>4, SameOn
  <2>. QED  BY <2>1, <2>5 DEF f, w, n
<1>. HIDE DEF A, B, C, D, p, q, r, s
<1>11. p \in Nat /\ q \in Nat /\ r \in Nat /\ s \in Nat /\ r > 0
  BY <1>2, <1>6, <1>8 DEF p, q, r, s
<1>12. A \in Word /\ Same(A, 0 + p)
  <2>1. 0 \in Word /\ 0 \in Nat /\ Same(0, 0)
    BY WordSizes, SameSelf DEF Word
  <2>. QED  BY <1>1, <1>10, <2>1 DEF A, p
<1>13. B \in Word /\ Same(B, (0 + p) + q)
  <2>1. 0 + p \in Nat
    BY <1>11
  <2>. QED  BY <1>1, <1>10, <1>12, <2>1 DEF B, q
<1>14. C \in Word /\ Same(C, ((0 + p) + q) + r)
  <2>1. (0 + p) + q \in Nat
    BY <1>11
  <2>. QED  BY <1>2, <1>10, <1>13, <2>1 DEF C, r
<1>15. D \in Word /\ Same(D, (((0 + p) + q) + r) + s)
  <2>1. ((0 + p) + q) + r \in Nat
    BY <1>11
  <2>. QED  BY <1>3, <1>10, <1>14, <2>1 DEF D, s
<1>16. (((0 + p) + q) + r) + s = p + q + r + s /\ p + q + r + s \in Nat /\ p + q + r + s > 0
  BY <1>11
<1>17. /\ PseudoHeader(fr, seg) \in Seq(Byte) /\ Len(PseudoHeader(fr, seg)) % 2 = 0
  BY <1>4, <1>8
<1>18. Same(D, p + q + r + s)
  BY <1>15, <1>16
<1>19. WordSum(PseudoHeader(fr, seg)) = p + q + r + s
  BY <1>9, Zenon DEF p, q, r, s
<1>. DEFINE t == p + q + r + s
<1>20. t \in Nat /\ t > 0 /\ Same(D, t) /\ WordSum(PseudoHeader(fr, seg)) = t
  BY <1>16, <1>18, <1>19
<1>. HIDE DEF t
<1>. QED  BY <1>5, <1>15, <1>17, <1>20

\* Where the checksum of a packet goes: between an even number of bytes and the
\* rest.
LEMMA FieldSum ==
  ASSUME NEW a \in Seq(Byte), Len(a) % 2 = 0, NEW b \in Seq(Byte),
         NEW c \in Seq(Byte), Len(c) = 2
  PROVE  /\ a \o c \o b \in Seq(Byte)
         /\ WordSum(a \o c \o b) = WordSum(a \o Zero \o b) + WordSum(c)
         /\ WordSum(a \o Zero \o b) \in Nat /\ WordSum(c) \in Nat
<1>1. ASSUME NEW x \in Seq(Byte), Len(x) = 2
      PROVE  /\ (a \o x) \o b \in Seq(Byte)
             /\ WordSum((a \o x) \o b) = (WordSum(a) + WordSum(x)) + WordSum(b)
             /\ WordSum(a) \in Nat /\ WordSum(b) \in Nat /\ WordSum(x) \in Nat
  <2>1. /\ a \o x \in Seq(Byte) /\ Len(a \o x) % 2 = 0
        /\ WordSum(a \o x) = WordSum(a) + WordSum(x) /\ WordSum(a) \in Nat
        /\ WordSum(x) \in Nat
    <3>1. Len(x) % 2 = 0
      BY <1>1
    <3>. QED  BY <3>1, EvenConcat
  <2>. DEFINE y == a \o x
  <2>. HIDE DEF y
  <2>2. /\ y \o b \in Seq(Byte) /\ WordSum(y \o b) = WordSum(y) + WordSum(b)
        /\ WordSum(b) \in Nat
    BY <2>1, EvenConcat DEF y
  <2>. QED  BY <2>1, <2>2 DEF y
<1>2. /\ (a \o c) \o b \in Seq(Byte)
      /\ WordSum((a \o c) \o b) = (WordSum(a) + WordSum(c)) + WordSum(b)
      /\ WordSum(a) \in Nat /\ WordSum(b) \in Nat /\ WordSum(c) \in Nat
  BY <1>1
<1>3. WordSum((a \o Zero) \o b) = (WordSum(a) + 0) + WordSum(b)
  BY <1>1, ZeroSum
<1>. DEFINE p == WordSum(a)
            q == WordSum(b)
            r == WordSum(c)
<1>. HIDE DEF p, q, r
<1>4. p \in Nat /\ q \in Nat /\ r \in Nat
  BY <1>2 DEF p, q, r
<1>5. (p + r) + q = ((p + 0) + q) + r /\ (p + 0) + q \in Nat
  BY <1>4
<1>. QED  BY <1>2, <1>3, <1>5, Zenon DEF p, q, r

\* The transport header and payload, with and without their checksum.
LEMMA TransportSum ==
  ASSUME NEW fr \in Frame, NEW seg, IsSegment(fr, seg), NEW c \in Seq(Byte), Len(c) = 2
  PROVE  /\ Transport(fr, seg, c) \in Seq(Byte)
         /\ WordSum(Transport(fr, seg, c)) = WordSum(Transport(fr, seg, Zero)) + WordSum(c)
         /\ WordSum(Transport(fr, seg, Zero)) \in Nat /\ WordSum(c) \in Nat
<1>. DEFINE x == PutUint16(seg.seq)
            e == <<IF seg.end THEN 1 ELSE 0, 0>>
            u == PutUint16(4 + seg.len)
            a == IF IsTcp(fr) THEN x \o e ELSE u
            b == SubSeq(fr.data, seg.from + 1, seg.from + seg.len)
<1>1. x \in Seq(Byte) /\ Len(x) = 2 /\ u \in Seq(Byte) /\ Len(u) = 2
  <2>1. seg.seq \in Nat /\ 4 + seg.len \in Nat
    BY DEF IsSegment
  <2>. QED  BY <2>1, PutBytes
<1>2. e \in Seq(Byte) /\ Len(e) = 2
  <2>. DEFINE f == IF seg.end THEN 1 ELSE 0
  <2>1. f = 0 \/ f = 1
    BY Zenon
  <2>. HIDE DEF f
  <2>2. f \in Byte /\ 0 \in Byte
    BY <2>1, RadixAssumption DEF Byte
  <2>3. \A y, z \in Byte : <<y, z>> \in Seq(Byte) /\ Len(<<y, z>>) = 2
    OBVIOUS
  <2>4. <<f, 0>> \in Seq(Byte) /\ Len(<<f, 0>>) = 2
    BY <2>2, <2>3
  <2>. QED  BY <2>4, Zenon DEF f
<1>. HIDE DEF x, e, u
<1>3. a \in Seq(Byte) /\ Len(a) % 2 = 0
  <2>1. x \o e \in Seq(Byte) /\ Len(x \o e) % 2 = 0
    <3>1. Len(x) % 2 = 0 /\ Len(e) % 2 = 0
      BY <1>1, <1>2
    <3>. QED  BY <1>1, <1>2, <3>1, EvenConcat
  <2>2. Len(u) % 2 = 0
    BY <1>1
  <2>. QED  BY <1>1, <2>1, <2>2
<1>4. b \in Seq(Byte)
  <2>. DEFINE d == fr.data
              f == seg.from
              l == seg.len
  <2>1. d \in Seq(Byte) /\ f \in Nat /\ l \in Nat /\ f + l <= Len(d)
    BY FrameBytes DEF IsSegment
  <2>. HIDE DEF d, f, l
  <2>2. \A k \in (f + 1)..(f + l) : d[k] \in Byte
    BY <2>1, ByteType
  <2>3. SubSeq(d, f + 1, f + l) \in Seq(Byte)
    BY <2>1, <2>2
  <2>. QED  BY <2>3 DEF d, f, l
<1>5. \A z : Transport(fr, seg, z) = a \o z \o b
  BY Zenon DEF Transport, a, b, x, e, u
<1>. HIDE DEF a, b
<1>6. /\ a \o c \o b \in Seq(Byte)
      /\ WordSum(a \o c \o b) = WordSum(a \o Zero \o b) + WordSum(c)
      /\ WordSum(a \o Zero \o b) \in Nat /\ WordSum(c) \in Nat
  BY <1>3, <1>4, FieldSum
<1>. QED  BY <1>5, <1>6, Zenon

\* The IPv4 header, with and without its checksum.
LEMMA IpHeaderSum ==
  ASSUME NEW fr \in Frame, NEW seg, IsSegment(fr, seg), NEW c \in Seq(Byte), Len(c) = 2
  PROVE  /\ IpHeader(fr, seg, c) \in Seq(Byte)
         /\ WordSum(IpHeader(fr, seg, c)) = WordSum(IpHeader(fr, seg, Zero)) + WordSum(c)
         /\ WordSum(IpHeader(fr, seg, Zero)) \in Nat /\ WordSum(c) \in Nat
<1>. DEFINE x == PutUint16(fr.hdrLen + seg.len)
            y == PutUint16(seg.id)
            a == x \o y
            b == fr.src \o fr.dst
<1>1. x \in Seq(Byte) /\ Len(x) = 2 /\ y \in Seq(Byte) /\ Len(y) = 2
  <2>1. fr.hdrLen + seg.len \in Nat /\ seg.id \in Nat
    <3>1. fr.hdrLen \in Nat
      BY FrameAssumption
    <3>. QED  BY <3>1 DEF IsSegment
  <2>. QED  BY <2>1, PutBytes
<1>. HIDE DEF x, y
<1>2. a \in Seq(Byte) /\ Len(a) % 2 = 0
  <2>1. Len(x) % 2 = 0 /\ Len(y) % 2 = 0
    BY <1>1
  <2>. QED  BY <1>1, <2>1, EvenConcat
<1>3. b \in Seq(Byte)
  BY FrameBytes, EvenConcat
<1>4. ASSUME NEW z \in Seq(Byte) PROVE IpHeader(fr, seg, z) = a \o z \o b
  <2>1. IpHeader(fr, seg, z) = x \o y \o z \o fr.src \o fr.dst
    BY Zenon DEF IpHeader, x, y
  <2>2. fr.src \in Seq(Byte) /\ fr.dst \in Seq(Byte)
    BY FrameBytes
  <2>. HIDE DEF a
  <2>3. a \o z \in Seq(Byte)
    BY <1>2
  <2>4. (a \o z) \o fr.src \o fr.dst = (a \o z) \o (fr.src \o fr.dst)
    BY <2>2, <2>3, ConcatTwice, Zenon
  <2>. QED  BY <2>1, <2>4, Zenon DEF a
<1>. HIDE DEF a, b
<1>6. /\ a \o c \o b \in Seq(Byte)
      /\ WordSum(a \o c \o b) = WordSum(a \o Zero \o b) + WordSum(c)
      /\ WordSum(a \o Zero \o b) \in Nat /\ WordSum(c) \in Nat
  BY <1>2, <1>3, FieldSum
<1>7. IpHeader(fr, seg, c) = a \o c \o b /\ IpHeader(fr, seg, Zero) = a \o Zero \o b
  BY <1>4, ZeroSum
<1>. QED  BY <1>6, <1>7, Zenon

\* Bytes in front of others whose checksum is completed with theirs.
LEMMA SumOnTop ==
  ASSUME NEW b \in Seq(Byte), NEW initial \in Word, NEW w \in Nat, Same(initial, w)
  PROVE  /\ checksum(b, initial) \in 0..(Word16 - 1) /\ WordSum(b) \in Nat
         /\ Same(checksum(b, initial), w + WordSum(b)) /\ w + WordSum(b) \in Nat
<1>. DEFINE f == checksum(b, initial)
            s == WordSum(b)
<1>1. f \in 0..(Word16 - 1) /\ Same(f, initial + s) /\ s \in Nat
  BY ChecksumIsSum, AccumulatorIsSum
<1>. HIDE DEF f, s
<1>2. f \in Nat /\ initial \in Nat
  BY <1>1, WordSizes DEF Word
<1>3. Same(initial + s, w + s)
  BY <1>1, <1>2, SamePlus
<1>. DEFINE m == initial + s
            n == w + s
<1>4. m \in Nat /\ n \in Nat /\ Same(f, m) /\ Same(m, n)
  BY <1>1, <1>2, <1>3
<1>. HIDE DEF m, n
<1>5. Same(f, n)
  BY <1>2, <1>4, SameOn
<1>. QED  BY <1>1, <1>4, <1>5, Zenon DEF f, s, n

\* A transport checksum that is computed from that of the pseudo-header is right.
LEMMA TransportVerifies ==
  ASSUME NEW fr \in Frame, NEW seg, IsSegment(fr, seg), NEW initial \in Word,
         Same(initial, WordSum(PseudoHeader(fr, seg))),
         NEW c, c = Complement(checksum(Transport(fr, seg, Zero), initial))
  PROVE  Verifies(PseudoHeader(fr, seg) \o Transport(fr, seg, PutUint16(c)))
<1>. DEFINE p == PseudoHeader(fr, seg)
            z == Transport(fr, seg, Zero)
            t == Transport(fr, seg, PutUint16(c))
            f == checksum(z, initial)
            w == WordSum(p)
<1>1. p \in Seq(Byte) /\ Len(p) % 2 = 0 /\ w \in Nat
  BY PseudoSum, Zenon
<1>2. z \in Seq(Byte)
  BY ZeroSum, TransportSum
<1>. HIDE DEF z, p, t
<1>3. /\ f \in 0..(Word16 - 1) /\ WordSum(z) \in Nat
      /\ Same(f, w + WordSum(z)) /\ w + WordSum(z) \in Nat
  BY <1>1, <1>2, SumOnTop DEF p
<1>4. c = Complement(f)
  BY DEF z
<1>. HIDE DEF f
<1>. DEFINE s == w + WordSum(z)
            y == s + Complement(f)
<1>5. c \in Nat /\ c < Word16 /\ y > 0 /\ y % (Word16 - 1) = 0
  <2>1. s \in Nat /\ Same(f, s)
    BY <1>3
  <2>. HIDE DEF s
  <2>. QED  BY <1>3, <1>4, <2>1, ComplementVerifies
<1>6. PutUint16(c) \in Seq(Byte) /\ Len(PutUint16(c)) = 2 /\ WordSum(PutUint16(c)) = c
  BY <1>5, PutBytes
<1>7. t \in Seq(Byte) /\ WordSum(t) = WordSum(z) + c
  BY <1>6, TransportSum DEF t, z
<1>8. WordSum(p \o t) = w + WordSum(t)
  BY <1>1, <1>7, EvenConcat
<1>9. WordSum(p \o t) = y
  BY <1>1, <1>3, <1>4, <1>5, <1>7, <1>8
<1>. QED  BY <1>5, <1>9, Zenon DEF Verifies, p, t

\* ... as is that of the IPv4 header.
LEMMA IpHeaderVerifies ==
  ASSUME NEW fr \in Frame, NEW seg, IsSegment(fr, seg),
         NEW c, c = Complement(checksum(IpHeader(fr, seg, Zero), 0))
  PROVE  Verifies(IpHeader(fr, seg, PutUint16(c)))
<1>. DEFINE z == IpHeader(fr, seg, Zero)
            t == IpHeader(fr, seg, PutUint16(c))
            f == checksum(z, 0)
<1>1. z \in Seq(Byte)
  BY ZeroSum, IpHeaderSum
<1>2. 0 \in Word /\ 0 \in Nat /\ Same(0, 0)
  BY WordSizes, SameSelf DEF Word
<1>. HIDE DEF z, t
<1>3. /\ f \in 0..(Word16 - 1) /\ WordSum(z) \in Nat
      /\ Same(f, 0 + WordSum(z)) /\ 0 + WordSum(z) \in Nat
  BY <1>1, <1>2, SumOnTop
<1>4. c = Complement(f)
  BY DEF z
<1>. HIDE DEF f
<1>. DEFINE s == 0 + WordSum(z)
            y == s + Complement(f)
<1>5. c \in Nat /\ c < Word16 /\ y > 0 /\ y % (Word16 - 1) = 0
  <2>1. s \in Nat /\ Same(f, s)
    BY <1>3
  <2>. HIDE DEF s
  <2>. QED  BY <1>3, <1>4, <2>1, ComplementVerifies
<1>6. PutUint16(c) \in Seq(Byte) /\ Len(PutUint16(c)) = 2 /\ WordSum(PutUint16(c)) = c
  BY <1>5, PutBytes
<1>7. t \in Seq(Byte) /\ WordSum(t) = WordSum(z) + c
  BY <1>6, IpHeaderSum DEF t, z
<1>8. WordSum(t) = y
  BY <1>3, <1>4, <1>5, <1>7
<1>. QED  BY <1>5, <1>8, Zenon DEF Verifies, t

\* Filling the checksums in changes nothing that they cover.
LEMMA SumsApart ==
  ASSUME NEW fr, NEW seg, NEW c, NEW d, NEW s, s = WithSums(seg, c, d)
  PROVE  /\ s.csum = c /\ s.ipCsum = d
         /\ PseudoHeader(fr, s) = PseudoHeader(fr, seg)
         /\ \A z : Transport(fr, s, z) = Transport(fr, seg, z)
         /\ \A z : IpHeader(fr, s, z) = IpHeader(fr, seg, z)
<1>1. /\ s.csum = c /\ s.ipCsum = d /\ s.seq = seg.seq /\ s.id = seg.id
      /\ s.from = seg.from /\ s.len = seg.len
  BY DEF WithSums
<1>2. s.end = seg.end
  BY DEF WithSums
<1>3. PseudoHeader(fr, s) = PseudoHeader(fr, seg)
  <2>1. TransportLen(fr, s) = TransportLen(fr, seg)
    BY <1>1, Zenon DEF TransportLen
  <2>. QED  BY <2>1, Zenon DEF PseudoHeader
<1>4. \A z : Transport(fr, s, z) = Transport(fr, seg, z)
  BY <1>1, <1>2, Zenon DEF Transport
<1>5. \A z : IpHeader(fr, s, z) = IpHeader(fr, seg, z)
  BY <1>1, Zenon DEF IpHeader
<1>. QED  BY <1>1, <1>3, <1>4, <1>5, Zenon

\* The packet's checksums are right.
Right(fr, s) == /\ Verifies(PseudoHeader(fr, s) \o Transport(fr, s, PutUint16(s.csum)))
                /\ fr.version = 4 => Verifies(IpHeader(fr, s, PutUint16(s.ipCsum)))

\* gsoSplit's checksums of a segment.
LEMMA SealedVerifies ==
  ASSUME NEW fr \in Frame, NEW seg, IsSegment(fr, seg)
  PROVE  Right(fr, Sealed(fr, seg))
<1>. DEFINE sum == pseudoHeaderChecksumNoFold(Protocol(fr), fr.src, fr.dst,
                                              TransportLen(fr, seg))
            c == Complement(checksum(Transport(fr, seg, Zero), sum))
            e == Complement(checksum(IpHeader(fr, seg, Zero), 0))
            d == IF fr.version = 4 THEN e ELSE -1
            s == Sealed(fr, seg)
<1>1. s = WithSums(seg, c, d)
  BY Zenon DEF Sealed
<1>2. sum \in Word /\ Same(sum, WordSum(PseudoHeader(fr, seg)))
  BY PseudoSum, Zenon
<1>3. Verifies(PseudoHeader(fr, seg) \o Transport(fr, seg, PutUint16(c)))
  <2>. HIDE DEF sum
  <2>. QED  BY <1>2, TransportVerifies
<1>4. Verifies(IpHeader(fr, seg, PutUint16(e)))
  BY IpHeaderVerifies
<1>. HIDE DEF s, c, e
<1>5. /\ s.csum = c /\ s.ipCsum = d
      /\ PseudoHeader(fr, s) = PseudoHeader(fr, seg)
      /\ \A z : Transport(fr, s, z) = Transport(fr, seg, z)
      /\ \A z : IpHeader(fr, s, z) = IpHeader(fr, seg, z)
  <2>. HIDE DEF d
  <2>. QED  BY <1>1, SumsApart
<1>6. Verifies(PseudoHeader(fr, s) \o Transport(fr, s, PutUint16(s.csum)))
  <2>. HIDE DEF d
  <2>. QED  BY <1>3, <1>5, Zenon
<1>7. ASSUME fr.version = 4 PROVE Verifies(IpHeader(fr, s, PutUint16(s.ipCsum)))
  <2>1. d = e
    BY <1>7
  <2>. HIDE DEF d
  <2>. QED  BY <1>4, <1>5, <2>1, Zenon
<1>. QED  BY <1>6, <1>7, Zenon DEF Right, s

\* A frame as a segment of itself.
LEMMA WholeSegment == ASSUME NEW fr \in Frame PROVE IsSegment(fr, Whole(fr))
<1>1. fr.seq \in Nat /\ fr.id \in Nat /\ fr.len \in Nat
  BY FieldAssumption, FrameAssumption
<1>2. /\ Whole(fr).seq = fr.seq /\ Whole(fr).id = fr.id /\ Whole(fr).from = 0
      /\ Whole(fr).len = fr.len
  BY DEF Whole
<1>. QED  BY <1>1, <1>2 DEF IsSegment

\* What the kernel leaves in the checksum field stands for the pseudo-header.
LEMMA KernelSumFits ==
  ASSUME NEW fr \in Frame
  PROVE  /\ KernelSum(fr) \in Word
         /\ Same(KernelSum(fr), WordSum(PseudoHeader(fr, Whole(fr))))
<1>1. PICK w \in Nat : w = WordSum(PseudoHeader(fr, Whole(fr))) /\ w > 0
  BY WholeSegment, PseudoSum
<1>2. PICK m \in Nat \ {0} : m = Word16 - 1
  BY WordSizes
<1>3. PICK r \in 0..(m - 1), q \in Nat : r = (w - 1) % m /\ w - 1 = q * m + r
  <2>1. w - 1 \in Nat
    BY <1>1
  <2>2. /\ w - 1 = ((w - 1) \div m) * m + ((w - 1) % m)
        /\ (w - 1) % m \in 0..(m - 1) /\ (w - 1) \div m \in Nat
    BY <2>1
  <2>. QED  BY <2>2
<1>4. KernelSum(fr) = 1 + r
  BY <1>1, <1>2, <1>3 DEF KernelSum
<1>5. 1 + r \in Word
  BY <1>2, <1>3, Word16Fits, WordSizes DEF Word
<1>6. Same(w, 1 + r)
  <2>1. w = (1 + r) + q * m
    <3>1. q * m \in Nat
      OBVIOUS
    <3>. QED  BY <1>1, <1>3, <3>1
  <2>2. w # 0 /\ 1 + r # 0
    BY <1>1, <1>3
  <2>. QED  BY <1>2, <2>1, <2>2 DEF Same
<1>7. Same(1 + r, w)
  <2>. DEFINE k == 1 + r
  <2>1. k \in Nat /\ Same(w, k)
    BY <1>3, <1>6
  <2>. HIDE DEF k
  <2>2. Same(k, w)
    BY <2>1, SameBack
  <2>. QED  BY <2>2 DEF k
<1>. QED  BY <1>1, <1>4, <1>5, <1>7

\* gsoNoneChecksum's checksum of a frame that the kernel left without one.
LEMMA CompletedVerifies ==
  ASSUME NEW fr \in Frame, fr.partial
  PROVE  Verifies(PseudoHeader(fr, Completed(fr))
                  \o Transport(fr, Completed(fr), PutUint16(Completed(fr).csum)))
<1>. DEFINE seg == Whole(fr)
            c == gsoNoneChecksum(fr)
            s == Completed(fr)
<1>1. s = WithSums(seg, c, -1)
  BY Zenon DEF Completed
<1>2. c = Complement(checksum(Transport(fr, seg, Zero), KernelSum(fr)))
  BY Zenon DEF gsoNoneChecksum
<1>3. IsSegment(fr, seg)
  BY WholeSegment
<1>4. KernelSum(fr) \in Word /\ Same(KernelSum(fr), WordSum(PseudoHeader(fr, seg)))
  BY KernelSumFits
<1>. HIDE DEF seg, c, s
<1>5. Verifies(PseudoHeader(fr, seg) \o Transport(fr, seg, PutUint16(c)))
  BY <1>2, <1>3, <1>4, TransportVerifies
<1>6. /\ s.csum = c /\ PseudoHeader(fr, s) = PseudoHeader(fr, seg)
      /\ \A z : Transport(fr, s, z) = Transport(fr, seg, z)
  BY <1>1, SumsApart
<1>. QED  BY <1>5, <1>6, Zenon DEF s

\* The segments of a frame lie in its payload.
LEMMA SegmentInside ==
  ASSUME frame \in Frame, frame.gsoSize > 0, NEW j \in Nat
  PROVE  IsSegment(frame, Segment(frame, j, Start(j)))
<1>. DEFINE x == Start(j)
            seg == Segment(frame, j, x)
<1>1. /\ frame.len \in Nat /\ frame.seq \in Nat /\ frame.id \in Nat
      /\ SeqSpace \in Nat \ {0} /\ IdSpace \in Nat \ {0}
  BY FieldAssumption, FrameAssumption
<1>2. x \in Nat /\ SegmentLen(frame, x) \in Nat /\ x + SegmentLen(frame, x) <= frame.len
  <2>1. j + 1 \in Nat
    OBVIOUS
  <2>2. Start(j + 1) \in 0..frame.len
    BY <2>1, NextStart, Zenon
  <2>3. Start(j) \in 0..frame.len /\ SegmentLen(frame, Start(j)) \in Nat
        /\ Start(j) + SegmentLen(frame, Start(j)) = Start(j + 1)
    BY NextStart
  <2>. QED  BY <1>1, <2>2, <2>3
<1>. HIDE DEF x
<1>3. /\ seg.seq = IF IsTcp(frame) THEN (frame.seq + x) % SeqSpace ELSE frame.seq
      /\ seg.id = IF frame.version = 4 THEN (frame.id + j) % IdSpace ELSE frame.id
      /\ seg.from = x /\ seg.len = SegmentLen(frame, x)
  BY DEF Segment
<1>4. (frame.seq + x) % SeqSpace \in Nat /\ (frame.id + j) % IdSpace \in Nat
  <2>1. \A m \in Nat \ {0} : \A y \in Nat : y % m \in Nat
    OBVIOUS
  <2>2. frame.seq + x \in Nat /\ frame.id + j \in Nat
    BY <1>1, <1>2
  <2>. QED  BY <1>1, <2>1, <2>2
<1>. HIDE DEF seg
<1>5. IsSegment(frame, seg)
  BY <1>1, <1>2, <1>3, <1>4 DEF IsSegment
<1>. QED  BY <1>5 DEF seg, x

\* ... and whatever is returned has the checksums of its segments.
LEMMA RightIsReturned == SplitInv => ChecksumsVerify
<1>. SUFFICES ASSUME SplitInv, vnetHdr, Ready, result[1] = "count", NEW k \in 1..result[2]
              PROVE  /\ frame.type # "none" \/ frame.partial =>
                          Verifies(PseudoHeader(frame, out[k])
                                   \o Transport(frame, out[k], PutUint16(out[k].csum)))
                     /\ frame.type # "none" /\ frame.version = 4 =>
                          Verifies(IpHeader(frame, out[k], PutUint16(out[k].ipCsum)))
  BY Zenon DEF ChecksumsVerify
<1>1. Returned
  BY DEF SplitInv
<1>2. CASE frame.type = "none"
  <2>1. frame \in Frame /\ k = 1 /\ out[1] = Completed(frame)
    BY <1>1, <1>2 DEF Returned, Alone
  <2>2. ASSUME frame.partial
        PROVE  Verifies(PseudoHeader(frame, out[k])
                        \o Transport(frame, out[k], PutUint16(out[k].csum)))
    <3>1. Verifies(PseudoHeader(frame, Completed(frame))
                   \o Transport(frame, Completed(frame), PutUint16(Completed(frame).csum)))
      BY <2>1, <2>2, CompletedVerifies, Zenon
    <3>. QED  BY <2>1, <3>1, Zenon
  <2>. QED  BY <1>2, <2>2, Zenon
<1>3. CASE frame.type # "none"
  <2>. DEFINE n == SegmentCount(frame)
  <2>1. /\ frame \in Frame /\ frame.gsoSize > 0 /\ frame.len # 0
        /\ result[2] = n /\ Written(n)
    BY <1>1, <1>3 DEF Returned
  <2>2. n \in Nat
    BY <2>1, CountType
  <2>. HIDE DEF n
  <2>3. k \in 1..n /\ k - 1 \in Nat
    BY <2>1, <2>2
  <2>. DEFINE seg == Segment(frame, k - 1, Start(k - 1))
  <2>4. out[k] = Sealed(frame, seg)
    BY <2>1, <2>3, Zenon DEF Written
  <2>5. IsSegment(frame, seg)
    BY <2>1, <2>3, SegmentInside
  <2>. HIDE DEF seg
  <2>6. Right(frame, out[k])
    BY <2>1, <2>4, <2>5, SealedVerifies, Zenon
  <2>. QED  BY <2>6, Zenon DEF Right
<1>. QED  BY <1>2, <1>3

\* Every packet that Read splits off a frame, or completes, has the checksums
\* its receiver computes: for any bytes.
THEOREM ReadChecksums == Spec => []ChecksumsVerify
<1>1. IndInv /\ SplitInv /\ [Next]_vars => (IndInv /\ SplitInv)'
  BY IndNext, SplitNext
<1>2. Init => IndInv /\ SplitInv
  BY IndInit, SplitInit
<1>. QED  BY <1>1, <1>2, RightIsReturned, PTL DEF Spec
=============================================================================
