-------------------------- MODULE CreateTunProofs ---------------------------
(***************************************************************************)
(* Creation for any number of callers and any names: nobody destroys the   *)
(* interface of another, a device has the MTU it was created with, udpGSO  *)
(* says what the kernel has switched on, and a failure loses nothing but   *)
(* what the code of Linux leaves behind.                                   *)
(***************************************************************************)
EXTENDS CreateTun, FiniteSetTheorems, SequenceTheorems, WellFoundedInduction, TLAPS

\* A sequence, whatever its elements are.
IsSeq(s) == \E S : s \in Seq(S)

\* Tuples of up to four elements are sequences of their length.
LEMMA Tuples ==
  /\ IsSeq(<<>>) /\ Len(<<>>) = 0
  /\ \A a : IsSeq(<<a>>) /\ Len(<<a>>) = 1
  /\ \A a, b : IsSeq(<<a, b>>) /\ Len(<<a, b>>) = 2
  /\ \A a, b, c : IsSeq(<<a, b, c>>) /\ Len(<<a, b, c>>) = 3
  /\ \A a, b, c, d : IsSeq(<<a, b, c, d>>) /\ Len(<<a, b, c, d>>) = 4
<1>1. IsSeq(<<>>) /\ Len(<<>>) = 0
  <2>1. <<>> \in Seq({})
    OBVIOUS
  <2>. QED  BY <2>1 DEF IsSeq
<1>2. ASSUME NEW a PROVE IsSeq(<<a>>) /\ Len(<<a>>) = 1
  <2>1. <<a>> \in Seq({a})
    OBVIOUS
  <2>. QED  BY <2>1 DEF IsSeq
<1>3. ASSUME NEW a, NEW b PROVE IsSeq(<<a, b>>) /\ Len(<<a, b>>) = 2
  <2>1. <<a, b>> \in Seq({a, b})
    OBVIOUS
  <2>. QED  BY <2>1 DEF IsSeq
<1>4. ASSUME NEW a, NEW b, NEW c PROVE IsSeq(<<a, b, c>>) /\ Len(<<a, b, c>>) = 3
  <2>1. <<a, b, c>> \in Seq({a, b, c})
    OBVIOUS
  <2>. QED  BY <2>1 DEF IsSeq
<1>5. ASSUME NEW a, NEW b, NEW c, NEW d
      PROVE  IsSeq(<<a, b, c, d>>) /\ Len(<<a, b, c, d>>) = 4
  <2>1. <<a, b, c, d>> \in Seq({a, b, c, d})
    OBVIOUS
  <2>. QED  BY <2>1 DEF IsSeq
<1>. QED  BY <1>1, <1>2, <1>3, <1>4, <1>5, Zenon

\* ... and so are those of the longer programs.
LEMMA LongTuples ==
  ASSUME NEW a, NEW b, NEW c, NEW d, NEW e, NEW f, NEW g, NEW h, NEW i, NEW j
  PROVE  /\ IsSeq(<<a, b, c, d, e>>) /\ Len(<<a, b, c, d, e>>) = 5
         /\ IsSeq(<<a, b, c, d, e, f>>) /\ Len(<<a, b, c, d, e, f>>) = 6
         /\ IsSeq(<<a, b, c, d, e, f, g, h, i, j>>)
         /\ Len(<<a, b, c, d, e, f, g, h, i, j>>) = 10
<1>. DEFINE S == {a, b, c, d, e, f, g, h, i, j}
<1>1. <<a, b, c, d, e>> \in Seq(S) /\ <<a, b, c, d, e, f>> \in Seq(S)
  OBVIOUS
<1>2. <<a, b, c, d, e, f, g, h, i, j>> \in Seq(S)
  OBVIOUS
<1>. QED  BY <1>1, <1>2 DEF IsSeq

\* What joining two sequences does.
LEMMA Joined ==
  ASSUME NEW s, NEW t, IsSeq(s), IsSeq(t)
  PROVE  /\ IsSeq(s \o t) /\ Len(s \o t) = Len(s) + Len(t)
         /\ Len(s) \in Nat /\ Len(t) \in Nat
         /\ \A k \in 1..Len(s) : (s \o t)[k] = s[k]
         /\ \A k \in 1..Len(t) : (s \o t)[Len(s) + k] = t[k]
<1>1. PICK S : s \in Seq(S)
  BY DEF IsSeq
<1>2. PICK T : t \in Seq(T)
  BY DEF IsSeq
<1>3. s \in Seq(S \cup T) /\ t \in Seq(S \cup T)
  BY <1>1, <1>2
<1>. QED  BY <1>3 DEF IsSeq
-----------------------------------------------------------------------------
(***************************************************************************)
(* The programs: which steps make an interface, name it or destroy it.     *)
(***************************************************************************)

\* The calls that make an interface on some platform, or name it anew.
Naming == {"TUNSETIFF", "connect", "CreateAdapter", "open", "SIOCSIFNAME"}

\* Steps that leave the interface alone.
Mild(s) == /\ IsSeq(s)
           /\ \A k \in 1..Len(s) : s[k].call \notin Naming /\ "iface" \notin s[k].undo

\* Two pieces that leave the interface alone make one that does.
LEMMA MildJoined ==
  ASSUME NEW s, NEW t, Mild(s), Mild(t)
  PROVE  Mild(s \o t)
<1>1. IsSeq(s) /\ IsSeq(t)
  BY DEF Mild
<1>2. ASSUME NEW k \in 1..Len(s \o t)
      PROVE  (s \o t)[k].call \notin Naming /\ "iface" \notin (s \o t)[k].undo
  <2>1. CASE k \in 1..Len(s)
    BY <1>1, <2>1, Joined DEF Mild
  <2>2. CASE k \notin 1..Len(s)
    <3>1. PICK i \in 1..Len(t) : k = Len(s) + i
      <4>1. k - Len(s) \in 1..Len(t) /\ k = Len(s) + (k - Len(s))
        BY <1>1, <2>2, Joined
      <4>. QED  BY <4>1
    <3>2. (s \o t)[k] = t[i]
      BY <1>1, <3>1, Joined
    <3>. QED  BY <3>2 DEF Mild
  <2>. QED  BY <2>1, <2>2
<1>. QED  BY <1>1, <1>2, Joined DEF Mild

\* The two calls made over a control socket.
LEMMA OverSocketSteps ==
  ASSUME NEW call, NEW undo
  PROVE  /\ IsSeq(OverSocket(call, undo)) /\ Len(OverSocket(call, undo)) = 2
         /\ OverSocket(call, undo)[1].call = "socket"
         /\ OverSocket(call, undo)[2].call = call
         /\ "iface" \notin undo /\ call \notin Naming => Mild(OverSocket(call, undo))
<1>1. IsSeq(OverSocket(call, undo)) /\ Len(OverSocket(call, undo)) = 2
  BY Tuples DEF OverSocket
<1>2. /\ OverSocket(call, undo)[1].call = "socket"
      /\ OverSocket(call, undo)[2].call = call
      /\ OverSocket(call, undo)[1].undo = undo
      /\ OverSocket(call, undo)[2].undo = undo \cup {"ctl"}
  BY DEF OverSocket, Step
<1>3. ASSUME "iface" \notin undo, call \notin Naming PROVE Mild(OverSocket(call, undo))
  <2>1. ASSUME NEW k \in 1..2
        PROVE  /\ OverSocket(call, undo)[k].call \notin Naming
               /\ "iface" \notin OverSocket(call, undo)[k].undo
    BY <1>2, <1>3 DEF Naming
  <2>. QED  BY <1>1, <2>1 DEF Mild
<1>. QED  BY <1>1, <1>2, <1>3

\* The pieces of the Linux program that leave the interface alone.
LEMMA LinuxPieces ==
  /\ Mild(NameSlow) /\ Len(NameSlow) = 1
  /\ Mild(InitFromFlags) /\ Len(InitFromFlags) = 3
  /\ Mild(GetIFIndex) /\ Len(GetIFIndex) = 2
  /\ Mild(CreateNetlinkSocket) /\ Len(CreateNetlinkSocket) = 2
<1>1. Mild(NameSlow) /\ Len(NameSlow) = 1
  <2>1. IsSeq(NameSlow) /\ Len(NameSlow) = 1
    BY Tuples DEF NameSlow
  <2>2. \A k \in 1..1 : NameSlow[k].call \notin Naming /\ "iface" \notin NameSlow[k].undo
    BY DEF NameSlow, Does, Step, Naming
  <2>. QED  BY <2>1, <2>2 DEF Mild
<1>2. Mild(InitFromFlags) /\ Len(InitFromFlags) = 3
  <2>1. IsSeq(InitFromFlags) /\ Len(InitFromFlags) = 3
    BY Tuples DEF InitFromFlags
  <2>2. \A k \in 1..3 :
          InitFromFlags[k].call \notin Naming /\ "iface" \notin InitFromFlags[k].undo
    BY DEF InitFromFlags, Does, Step, Sure, Naming
  <2>. QED  BY <2>1, <2>2 DEF Mild
<1>3. Mild(GetIFIndex) /\ Len(GetIFIndex) = 2
  BY OverSocketSteps DEF GetIFIndex, Naming
<1>4. Mild(CreateNetlinkSocket) /\ Len(CreateNetlinkSocket) = 2
  <2>1. IsSeq(CreateNetlinkSocket) /\ Len(CreateNetlinkSocket) = 2
    BY Tuples DEF CreateNetlinkSocket
  <2>2. \A k \in 1..2 : /\ CreateNetlinkSocket[k].call \notin Naming
                        /\ "iface" \notin CreateNetlinkSocket[k].undo
    BY DEF CreateNetlinkSocket, Does, Step, Naming
  <2>. QED  BY <2>1, <2>2 DEF Mild
<1>. QED  BY <1>1, <1>2, <1>3, <1>4

\* ... and what they make up.
LEMMA LinuxMild == Mild(LinuxFromFile) /\ Mild(LinuxUnmonitored)
<1>. DEFINE starts == <<Step("NewRWCancel", {"pipe"}, {}, {"netlink"}),
                        Sure("go", {"goroutines"}, {})>>
            wraps == <<Does("SetNonblock", {}), Sure("NewFile", {"file"}, {"fd"})>>
<1>1. Mild(starts)
  <2>1. IsSeq(starts) /\ Len(starts) = 2
    BY Tuples
  <2>2. \A k \in 1..2 : starts[k].call \notin Naming /\ "iface" \notin starts[k].undo
    BY DEF Step, Sure, Naming
  <2>. HIDE DEF starts
  <2>. QED  BY <2>1, <2>2 DEF Mild
<1>2. Mild(wraps)
  <2>1. IsSeq(wraps) /\ Len(wraps) = 2
    BY Tuples
  <2>2. \A k \in 1..2 : wraps[k].call \notin Naming /\ "iface" \notin wraps[k].undo
    BY DEF Does, Step, Sure, Naming
  <2>. HIDE DEF wraps
  <2>. QED  BY <2>1, <2>2 DEF Mild
<1>3. Mild(OverSocket("setMTU", {"netlink"}))
  BY OverSocketSteps DEF Naming
<1>. HIDE DEF starts, wraps
<1>4. Mild(NameSlow \o InitFromFlags \o GetIFIndex \o CreateNetlinkSocket)
  BY LinuxPieces, MildJoined
<1>5. Mild((NameSlow \o InitFromFlags \o GetIFIndex \o CreateNetlinkSocket) \o starts)
  BY <1>1, <1>4, MildJoined
<1>6. Mild(LinuxFromFile)
  BY <1>3, <1>5, MildJoined DEF LinuxFromFile, starts
<1>7. Mild(LinuxUnmonitored)
  BY <1>2, LinuxPieces, MildJoined DEF LinuxUnmonitored, wraps
<1>. QED  BY <1>6, <1>7

\* The calls that start the BSD listener.
LEMMA ListenSteps ==
  /\ Mild(Listen) /\ Len(Listen) = 4 /\ Listen[1].call = "Name"
<1>1. IsSeq(Listen) /\ Len(Listen) = 4
  BY Tuples DEF Listen
<1>2. \A k \in 1..4 : Listen[k].call \notin Naming /\ "iface" \notin Listen[k].undo
  BY DEF Listen, Does, Step, Sure, Naming
<1>3. Listen[1].call = "Name"
  BY DEF Listen, Does, Step
<1>. QED  BY <1>1, <1>2, <1>3 DEF Mild

\* The last call of setMTU on the BSDs sets the MTU.
LEMMA BsdSetMTUSteps ==
  /\ IsSeq(BsdSetMTU) /\ Len(BsdSetMTU) = 2
  /\ BsdSetMTU[2].call = "setMTU"
  /\ \A k \in 1..2 : BsdSetMTU[k].call \notin Naming
  /\ platform # "freebsd" => Mild(BsdSetMTU)
<1>1. platform # "freebsd" => "iface" \notin CloseAll
  BY DEF CloseAll
<1>2. /\ IsSeq(BsdSetMTU) /\ Len(BsdSetMTU) = 2
      /\ BsdSetMTU[1].call = "socket" /\ BsdSetMTU[2].call = "setMTU"
      /\ platform # "freebsd" => Mild(BsdSetMTU)
  BY <1>1, OverSocketSteps DEF BsdSetMTU, Naming
<1>. QED  BY <1>2 DEF Naming

\* The steps of CreateTUNFromFile leave the interface alone, but on freebsd where
\* the last two may destroy it.
LEMMA FromFileSteps ==
  ASSUME platform \in Platforms
  PROVE  /\ IsSeq(FromFile)
         /\ \A k \in 1..Len(FromFile) : FromFile[k].call \notin Naming
         /\ platform # "freebsd" => Mild(FromFile)
         /\ platform = "freebsd" =>
              /\ Len(FromFile) = 7 /\ FromFile[2].call = "Name"
              /\ \A k \in 1..5 : "iface" \notin FromFile[k].undo
<1>1. CASE platform = "linux"
  BY <1>1, LinuxMild DEF FromFile, Mild
<1>2. CASE platform \in {"darwin", "openbsd"}
  <2>1. Mild(Listen \o BsdSetMTU)
    BY <1>2, ListenSteps, BsdSetMTUSteps, MildJoined
  <2>. QED  BY <1>2, <2>1 DEF FromFile, DarwinFromFile, OpenbsdFromFile, Mild
<1>3. CASE platform = "windows"
  BY <1>3, Tuples DEF FromFile, Mild
<1>4. CASE platform = "freebsd"
  <2>. DEFINE pid == <<Does("TUNSIFPID", {"file"})>>
              head == pid \o Listen
  <2>1. Mild(pid) /\ Len(pid) = 1
    <3>1. IsSeq(pid) /\ Len(pid) = 1
      BY Tuples
    <3>2. \A k \in 1..1 : pid[k].call \notin Naming /\ "iface" \notin pid[k].undo
      BY DEF Does, Step, Naming
    <3>. HIDE DEF pid
    <3>. QED  BY <3>1, <3>2 DEF Mild
  <2>2. FromFile = head \o BsdSetMTU
    BY <1>4 DEF FromFile, FreebsdFromFile
  <2>. HIDE DEF pid
  <2>3. Mild(head) /\ Len(head) = 5 /\ head[2].call = "Name"
    <3>1. Mild(head)
      BY <2>1, ListenSteps, MildJoined
    <3>2. IsSeq(pid) /\ IsSeq(Listen)
      BY <2>1, ListenSteps DEF Mild
    <3>3. Len(head) = Len(pid) + Len(Listen)
          /\ \A k \in 1..Len(Listen) : head[Len(pid) + k] = Listen[k]
      BY <3>2, Joined
    <3>4. Len(head) = 5 /\ \A k \in 1..4 : head[1 + k] = Listen[k]
      BY <2>1, <3>3, ListenSteps
    <3>5. 1 \in 1..4 /\ 1 + 1 = 2
      OBVIOUS
    <3>. QED  BY <3>1, <3>4, <3>5, ListenSteps
  <2>. HIDE DEF head
  <2>4. /\ IsSeq(head \o BsdSetMTU) /\ Len(head \o BsdSetMTU) = 7
        /\ \A k \in 1..5 : (head \o BsdSetMTU)[k] = head[k]
        /\ \A k \in 1..2 : (head \o BsdSetMTU)[5 + k] = BsdSetMTU[k]
    <3>1. IsSeq(head) /\ IsSeq(BsdSetMTU)
      BY <2>3, BsdSetMTUSteps DEF Mild
    <3>2. /\ IsSeq(head \o BsdSetMTU)
          /\ Len(head \o BsdSetMTU) = Len(head) + Len(BsdSetMTU)
          /\ \A k \in 1..Len(head) : (head \o BsdSetMTU)[k] = head[k]
          /\ \A k \in 1..Len(BsdSetMTU) :
               (head \o BsdSetMTU)[Len(head) + k] = BsdSetMTU[k]
      BY <3>1, Joined
    <3>3. Len(head) = 5 /\ Len(BsdSetMTU) = 2
      BY <2>3, BsdSetMTUSteps
    <3>. QED  BY <3>2, <3>3
  <2>5. \A k \in 1..5 : /\ (head \o BsdSetMTU)[k].call \notin Naming
                        /\ "iface" \notin (head \o BsdSetMTU)[k].undo
    BY <2>3, <2>4 DEF Mild
  <2>6. ASSUME NEW k \in 1..7, k \notin 1..5
        PROVE  (head \o BsdSetMTU)[k].call \notin Naming
    <3>1. k = 5 + 1 \/ k = 5 + 2
      BY <2>6
    <3>. QED  BY <2>4, <3>1, BsdSetMTUSteps
  <2>. QED  BY <1>4, <2>2, <2>3, <2>4, <2>5, <2>6
<1>. QED  BY <1>1, <1>2, <1>3, <1>4, PlatformAssumption

\* The step that makes the interface, of those before CreateTUNFromFile.
MakesAt == CASE platform = "linux" -> 3 [] platform = "darwin" -> 4
             [] platform = "windows" -> 1 [] OTHER -> 2

\* What CreateTUN does first: one step makes the interface; only on freebsd may
\* one name it anew, the last, and some destroy it, after its name is known.
LEMMA OpensSteps ==
  ASSUME platform \in Platforms
  PROVE  /\ IsSeq(Opens)
         /\ \A k \in 1..Len(Opens) :
              /\ Opens[k].call = MakingCall => k = MakesAt
              /\ Opens[k].call = "SIOCSIFNAME" => platform = "freebsd" /\ k = 10
              /\ "iface" \in Opens[k].undo => platform = "freebsd" /\ k \in 4..10
         /\ platform = "freebsd" => Len(Opens) = 10 /\ Opens[3].call = "tunName"
<1>1. CASE platform = "linux"
  <2>1. IsSeq(LinuxOpens) /\ Len(LinuxOpens) = 5
    BY LongTuples DEF LinuxOpens
  <2>2. \A k \in 1..5 : /\ LinuxOpens[k].call = "TUNSETIFF" => k = 3
                        /\ LinuxOpens[k].call # "SIOCSIFNAME"
                        /\ "iface" \notin LinuxOpens[k].undo
    BY DEF LinuxOpens, Step, Does, Sure
  <2>. QED  BY <1>1, <2>1, <2>2 DEF Opens, MakingCall, MakesAt
<1>2. CASE platform = "darwin"
  <2>1. IsSeq(DarwinOpens) /\ Len(DarwinOpens) = 6
    BY LongTuples DEF DarwinOpens
  <2>2. \A k \in 1..6 : /\ DarwinOpens[k].call = "connect" => k = 4
                        /\ DarwinOpens[k].call # "SIOCSIFNAME"
                        /\ "iface" \notin DarwinOpens[k].undo
    BY DEF DarwinOpens, Step, Does, Sure
  <2>. QED  BY <1>2, <2>1, <2>2 DEF Opens, MakingCall, MakesAt
<1>3. CASE platform = "openbsd"
  <2>1. IsSeq(OpenbsdOpens) /\ Len(OpenbsdOpens) = 2
    BY Tuples DEF OpenbsdOpens
  <2>2. \A k \in 1..2 : /\ OpenbsdOpens[k].call = "open" => k = 2
                        /\ OpenbsdOpens[k].call # "SIOCSIFNAME"
                        /\ "iface" \notin OpenbsdOpens[k].undo
    BY DEF OpenbsdOpens, Step, Does
  <2>. QED  BY <1>3, <2>1, <2>2 DEF Opens, MakingCall, MakesAt
<1>4. CASE platform = "windows"
  <2>1. IsSeq(WindowsOpens) /\ Len(WindowsOpens) = 2
    BY Tuples DEF WindowsOpens
  <2>2. \A k \in 1..2 : /\ WindowsOpens[k].call = "CreateAdapter" => k = 1
                        /\ WindowsOpens[k].call # "SIOCSIFNAME"
                        /\ "iface" \notin WindowsOpens[k].undo
    BY DEF WindowsOpens, Step
  <2>. QED  BY <1>4, <2>1, <2>2 DEF Opens, MakingCall, MakesAt
<1>5. CASE platform = "freebsd"
  <2>1. IsSeq(FreebsdOpens) /\ Len(FreebsdOpens) = 10
    BY LongTuples DEF FreebsdOpens
  <2>2. \A k \in 1..10 : /\ FreebsdOpens[k].call = "open" => k = 2
                         /\ FreebsdOpens[k].call = "SIOCSIFNAME" => k = 10
    BY DEF FreebsdOpens, Step, Does
  <2>3. FreebsdOpens[3].call = "tunName"
    BY DEF FreebsdOpens, Does, Step
  <2>4. \A k \in 1..3 : "iface" \notin FreebsdOpens[k].undo
    BY DEF FreebsdOpens, Does, Step
  <2>5. \A k \in 1..10 : "iface" \in FreebsdOpens[k].undo => k \in 4..10
    BY <2>4
  <2>. QED  BY <1>5, <2>1, <2>2, <2>3, <2>5 DEF Opens, MakingCall, MakesAt
<1>. QED  BY <1>1, <1>2, <1>3, <1>4, <1>5, PlatformAssumption

CallTypes ==
  /\ platform \in Platforms /\ asked \in [Creators -> Asked]
  /\ entry \in [Creators -> {"CreateTUN", "FromFile", "Unmonitored"}]
  /\ \A c \in Creators : entry[c] = "Unmonitored" => platform = "linux"

\* The steps of freebsd before which the code knows the name of the interface:
\* from tunName to the new name, and again after Name.
KnownAt(c) == IF entry[c] = "CreateTUN" THEN (4..10) \cup (13..18) ELSE 3..8

\* What DestroysOwn needs of the steps of a call.
LEMMA ProgramSteps ==
  ASSUME CallTypes, NEW c \in Creators, NEW k \in 1..Len(Program(c))
  PROVE  /\ Program(c)[k].call = MakingCall => entry[c] = "CreateTUN" /\ k = MakesAt
         /\ Program(c)[k].call = "SIOCSIFNAME" =>
              platform = "freebsd" /\ entry[c] = "CreateTUN" /\ k = 10
         /\ "iface" \in Program(c)[k].undo => platform = "freebsd" /\ k \in KnownAt(c)
         /\ platform = "freebsd" /\ k + 1 \in KnownAt(c) /\ k \notin KnownAt(c) =>
              Program(c)[k].call \in {"tunName", "Name"}
<1>1. MakingCall \in Naming /\ "SIOCSIFNAME" \in Naming
  BY DEF MakingCall, Naming
<1>2. entry[c] \in {"CreateTUN", "FromFile", "Unmonitored"} /\ platform \in Platforms
  BY DEF CallTypes
<1>3. CASE entry[c] = "Unmonitored"
  <2>1. Mild(Program(c)) /\ platform # "freebsd"
    BY <1>3, LinuxMild DEF Program, CallTypes
  <2>. QED  BY <1>1, <2>1 DEF Mild
<1>4. CASE entry[c] = "FromFile"
  <2>1. Program(c) = FromFile
    BY <1>4 DEF Program
  <2>2. Program(c)[k].call \notin Naming
    BY <1>2, <2>1, FromFileSteps
  <2>3. CASE platform # "freebsd"
    <3>1. Mild(Program(c))
      BY <1>2, <2>1, <2>3, FromFileSteps
    <3>. QED  BY <1>1, <2>2, <2>3, <3>1 DEF Mild
  <2>4. CASE platform = "freebsd"
    <3>1. /\ k \in 1..7 /\ Program(c)[2].call = "Name"
          /\ k \in 1..5 => "iface" \notin Program(c)[k].undo
      BY <1>2, <2>1, <2>4, FromFileSteps
    <3>2. KnownAt(c) = 3..8
      BY <1>4 DEF KnownAt
    <3>3. "iface" \in Program(c)[k].undo => k \in KnownAt(c)
      BY <3>1, <3>2
    <3>4. k + 1 \in KnownAt(c) /\ k \notin KnownAt(c) => k = 2
      BY <3>1, <3>2
    <3>. QED  BY <1>1, <2>2, <2>4, <3>1, <3>3, <3>4
  <2>. QED  BY <2>3, <2>4
<1>5. CASE entry[c] = "CreateTUN"
  <2>1. Program(c) = Opens \o FromFile
    BY <1>5 DEF Program
  <2>2. IsSeq(Opens) /\ IsSeq(FromFile)
    BY <1>2, OpensSteps, FromFileSteps
  <2>3. /\ Len(Program(c)) = Len(Opens) + Len(FromFile)
        /\ Len(Opens) \in Nat /\ Len(FromFile) \in Nat
        /\ \A i \in 1..Len(Opens) : Program(c)[i] = Opens[i]
        /\ \A i \in 1..Len(FromFile) : Program(c)[Len(Opens) + i] = FromFile[i]
    BY <2>1, <2>2, Joined
  <2>4. CASE k \in 1..Len(Opens)
    <3>1. Program(c)[k] = Opens[k]
      BY <2>3, <2>4
    <3>2. /\ Opens[k].call = MakingCall => k = MakesAt
          /\ Opens[k].call = "SIOCSIFNAME" => platform = "freebsd" /\ k = 10
          /\ "iface" \in Opens[k].undo => platform = "freebsd" /\ k \in 4..10
      BY <1>2, <2>4, OpensSteps
    <3>3. platform = "freebsd" => k \in 1..10 /\ Opens[3].call = "tunName"
      BY <1>2, <2>4, OpensSteps
    <3>4. KnownAt(c) = (4..10) \cup (13..18)
      BY <1>5 DEF KnownAt
    <3>5. k \in 1..10 /\ k + 1 \in KnownAt(c) /\ k \notin KnownAt(c) => k = 3
      BY <3>4
    <3>. QED  BY <1>5, <3>1, <3>2, <3>3, <3>4, <3>5
  <2>5. CASE k \notin 1..Len(Opens)
    <3>1. PICK i \in 1..Len(FromFile) : k = Len(Opens) + i
      <4>1. k - Len(Opens) \in 1..Len(FromFile) /\ k = Len(Opens) + (k - Len(Opens))
        BY <2>3, <2>5
      <4>. QED  BY <4>1
    <3>2. Program(c)[k] = FromFile[i]
      BY <2>3, <3>1
    <3>3. Program(c)[k].call \notin Naming
      BY <1>2, <3>2, FromFileSteps
    <3>4. CASE platform # "freebsd"
      <4>1. "iface" \notin FromFile[i].undo
        BY <1>2, <3>4, FromFileSteps DEF Mild
      <4>. QED  BY <1>1, <3>2, <3>3, <3>4, <4>1
    <3>5. CASE platform = "freebsd"
      <4>1. /\ i \in 1..7 /\ FromFile[2].call = "Name"
            /\ i \in 1..5 => "iface" \notin FromFile[i].undo
        BY <1>2, <3>5, FromFileSteps
      <4>2. k = 10 + i
        BY <1>2, <3>1, <3>5, OpensSteps
      <4>3. KnownAt(c) = (4..10) \cup (13..18)
        BY <1>5 DEF KnownAt
      <4>4. i \notin 1..5 => k \in KnownAt(c)
        BY <4>1, <4>2, <4>3
      <4>5. k + 1 \in KnownAt(c) /\ k \notin KnownAt(c) => i = 2
        BY <4>1, <4>2, <4>3
      <4>. QED  BY <1>1, <3>2, <3>3, <3>5, <4>1, <4>4, <4>5
    <3>. QED  BY <3>4, <3>5
  <2>. QED  BY <2>4, <2>5
<1>. QED  BY <1>2, <1>3, <1>4, <1>5
-----------------------------------------------------------------------------
(***************************************************************************)
(* Interfaces and their names.                                             *)
(***************************************************************************)

StateTypes == /\ at \in [Creators -> Nat \ {0}]
              /\ result \in [Creators -> {"running", "ok", "error"}]
              /\ DOMAIN iface = Creators /\ DOMAIN known = Creators

\* A call that has not come to the step that makes its interface has none.
NotYet == \A c \in Creators :
  entry[c] = "CreateTUN" /\ at[c] <= MakesAt => iface[c] = NoName

\* Only Wintun gives a name twice.
NamesUnique == platform # "windows" =>
  \A c, d \in Creators : iface[c] = iface[d] /\ iface[c] # NoName => c = d

\* While an error would destroy the interface by name, the name is its own.
KnowsName == \A c \in Creators :
  platform = "freebsd" /\ result[c] = "running" /\ at[c] \in KnownAt(c)
    => known[c] = iface[c]

IfaceInv == CallTypes /\ StateTypes /\ NotYet /\ NamesUnique /\ KnowsName

\* Before any call of CreateTUN no interface has been made.
LEMMA IfaceInit == Init => IfaceInv
<1>. SUFFICES ASSUME Init PROVE IfaceInv
  OBVIOUS
<1>1. CallTypes
  BY DEF Init, CallTypes, Entries
<1>2. StateTypes
  BY DEF Init, StateTypes
<1>3. NotYet
  BY DEF Init, NotYet
<1>4. NamesUnique
  BY DEF Init, NamesUnique
<1>5. KnowsName
  BY DEF Init, KnowsName, KnownAt
<1>. QED  BY <1>1, <1>2, <1>3, <1>4, <1>5 DEF IfaceInv

\* What a step that succeeds does to the interface: nothing, or it gets a name
\* that is not taken.  A call that has an interface keeps one.
LEMMA PassNames ==
  ASSUME IfaceInv, NEW c \in Creators, Pass(c)
  PROVE  /\ DOMAIN iface' = Creators /\ \A d \in Creators \ {c} : iface'[d] = iface[d]
         /\ iface'[c] = iface[c] \/ platform = "windows" \/ ~Taken(iface'[c])
         /\ iface[c] # NoName => iface'[c] # NoName
         /\ \/ iface'[c] = iface[c]
            \/ entry[c] = "CreateTUN" /\ (at[c] = 10 \/ at[c] = MakesAt)
         /\ at[c] < MakesAt /\ entry[c] = "CreateTUN" => iface'[c] = iface[c]
<1>. USE DEF IfaceInv
<1>1. at[c] \in 1..Len(Program(c)) /\ at[c] \in Nat
  BY DEF Pass, Busy, StateTypes
<1>2. /\ Makes(c) => entry[c] = "CreateTUN" /\ at[c] = MakesAt
      /\ Now(c).call = "SIOCSIFNAME" =>
           platform = "freebsd" /\ entry[c] = "CreateTUN" /\ at[c] = 10
  BY <1>1, ProgramSteps DEF Makes, Now
<1>3. MakesAt \in {1, 2, 3, 4}
  BY DEF MakesAt
<1>4. CASE Makes(c)
  <2>1. iface' = [iface EXCEPT ![c] = MadeName(c)]
    <3>1. MakingCall # "SIOCSIFNAME"
      BY DEF MakingCall
    <3>. QED  BY <1>4, <3>1 DEF Pass, Makes
  <2>2. platform = "windows" \/ ~Taken(MadeName(c))
    BY <1>4 DEF Pass, Refused
  <2>3. iface[c] = NoName
    BY <1>1, <1>2, <1>3, <1>4 DEF NotYet
  <2>4. DOMAIN iface' = Creators /\ \A d \in Creators \ {c} : iface'[d] = iface[d]
    BY <2>1 DEF StateTypes
  <2>5. platform = "windows" \/ ~Taken(iface'[c])
    BY <2>1, <2>2 DEF StateTypes
  <2>6. ~(at[c] < MakesAt)
    BY <1>2, <1>3, <1>4
  <2>. QED  BY <1>2, <1>4, <2>3, <2>4, <2>5, <2>6, Zenon
<1>5. CASE Now(c).call = "SIOCSIFNAME"
  <2>1. ~Makes(c) /\ ~(at[c] < MakesAt)
    BY <1>2, <1>3, <1>5
  <2>2. iface' = [iface EXCEPT ![c] = asked[c]]
    BY <1>5, <2>1 DEF Pass
  <2>3. ~Taken(asked[c])
    BY <1>5 DEF Pass, Refused
  <2>4. asked[c] # NoName
    BY NameAssumption DEF CallTypes
  <2>5. /\ DOMAIN iface' = Creators /\ \A d \in Creators \ {c} : iface'[d] = iface[d]
        /\ iface'[c] = asked[c]
    BY <2>2 DEF StateTypes
  <2>. QED  BY <1>2, <1>5, <2>1, <2>3, <2>4, <2>5, Zenon
<1>6. CASE ~Makes(c) /\ Now(c).call # "SIOCSIFNAME"
  <2>1. iface' = iface
    BY <1>6 DEF Pass
  <2>. QED  BY <2>1 DEF StateTypes
<1>. QED  BY <1>4, <1>5, <1>6

\* An error path destroys no interface but its own.
LEMMA UndoOwn ==
  ASSUME IfaceInv, NEW c \in Creators, Busy(c), NEW d \in Creators, d # c,
         NEW destroys \in BOOLEAN
  PROVE  AfterUndo(c, Now(c).undo, destroys)[d] = iface[d]
<1>. USE DEF IfaceInv
<1>1. at[c] \in 1..Len(Program(c)) /\ result[c] = "running"
  BY DEF Busy, StateTypes
<1>2. CASE "iface" \in Now(c).undo /\ iface[d] = known[c]
  <2>1. platform = "freebsd" /\ at[c] \in KnownAt(c)
    BY <1>1, <1>2, ProgramSteps DEF Now
  <2>2. known[c] = iface[c]
    BY <1>1, <2>1 DEF KnowsName
  <2>3. iface[d] = NoName
    BY <1>2, <2>1, <2>2 DEF NamesUnique
  <2>. QED  BY <1>2, <2>3 DEF AfterUndo
<1>3. CASE ~("iface" \in Now(c).undo /\ iface[d] = known[c])
  BY <1>3 DEF AfterUndo
<1>. QED  BY <1>2, <1>3

\* A call that succeeds keeps the names apart, and the FreeBSD device knows its
\* own.
LEMMA IfacePass ==
  ASSUME IfaceInv, NEW c \in Creators, Pass(c)
  PROVE  IfaceInv'
<1>. USE DEF IfaceInv
<1>1. /\ at' = [at EXCEPT ![c] = @ + 1] /\ UNCHANGED <<callVars, result>>
      /\ known' = IF Now(c).call \in {"tunName", "Name"}
                  THEN [known EXCEPT ![c] = iface[c]] ELSE known
      /\ at[c] \in 1..Len(Program(c)) /\ result[c] = "running"
  BY DEF Pass, Busy, StateTypes
<1>2. UNCHANGED <<platform, entry, asked>> /\ MakesAt' = MakesAt
      /\ \A d \in Creators : KnownAt(d)' = KnownAt(d)
  BY <1>1 DEF callVars, MakesAt, KnownAt
<1>3. /\ at' \in [Creators -> Nat \ {0}] /\ at[c] \in Nat /\ at'[c] = at[c] + 1
      /\ \A d \in Creators \ {c} : at'[d] = at[d] /\ known'[d] = known[d]
      /\ DOMAIN known' = Creators
  BY <1>1 DEF StateTypes
<1>4. CallTypes' /\ StateTypes'
  BY <1>1, <1>2, <1>3, PassNames DEF CallTypes, StateTypes
<1>5. NotYet'
  <2>. SUFFICES ASSUME NEW d \in Creators, entry'[d] = "CreateTUN", at'[d] <= MakesAt'
                PROVE  iface'[d] = NoName
    BY DEF NotYet
  <2>1. CASE d # c
    BY <1>2, <1>3, <2>1, PassNames DEF NotYet
  <2>2. CASE d = c
    <3>1. MakesAt \in {1, 2, 3, 4}
      BY DEF MakesAt
    <3>2. at[c] < MakesAt /\ at[c] <= MakesAt
      BY <1>2, <1>3, <2>2, <3>1
    <3>. QED  BY <1>2, <2>2, <3>2, PassNames DEF NotYet
  <2>. QED  BY <2>1, <2>2
<1>6. NamesUnique'
  BY <1>2, PassNames DEF NamesUnique, Taken
<1>7. KnowsName'
  <2>. SUFFICES ASSUME NEW d \in Creators, platform = "freebsd",
                       result[d] = "running", at'[d] \in KnownAt(d)
                PROVE  known'[d] = iface'[d]
    BY <1>1, <1>2 DEF KnowsName
  <2>1. CASE d # c
    BY <1>3, <2>1, PassNames DEF KnowsName
  <2>2. CASE d = c
    <3>1. at[c] + 1 \in KnownAt(c)
      BY <1>3, <2>2
    <3>2. MakesAt = 2
      BY DEF MakesAt
    <3>3. entry[c] = "CreateTUN" => at[c] # 10 /\ at[c] # MakesAt
      BY <1>3, <3>1, <3>2 DEF KnownAt
    <3>4. iface'[c] = iface[c]
      BY <3>3, PassNames
    <3>5. CASE at[c] \in KnownAt(c)
      BY <1>1, <2>2, <3>4, <3>5 DEF KnowsName, StateTypes
    <3>6. CASE at[c] \notin KnownAt(c)
      <4>1. Now(c).call \in {"tunName", "Name"}
        BY <1>1, <3>1, <3>6, ProgramSteps DEF Now
      <4>. QED  BY <1>1, <2>2, <3>4, <4>1 DEF StateTypes
    <3>. QED  BY <3>5, <3>6
  <2>. QED  BY <2>1, <2>2
<1>. QED  BY <1>4, <1>5, <1>6, <1>7

\* So does a call that is left out.
LEMMA IfaceLeaveOut ==
  ASSUME IfaceInv, NEW c \in Creators, LeaveOut(c)
  PROVE  IfaceInv'
<1>. USE DEF IfaceInv
<1>1. /\ at' = [at EXCEPT ![c] = @ + 1]
      /\ UNCHANGED <<platform, entry, asked, result, iface, known>>
      /\ at[c] \in 1..Len(Program(c)) /\ result[c] = "running"
      /\ MakesAt' = MakesAt /\ \A d \in Creators : KnownAt(d)' = KnownAt(d)
  BY DEF LeaveOut, Busy, StateTypes, callVars, MakesAt, KnownAt
<1>2. /\ at' \in [Creators -> Nat \ {0}] /\ at[c] \in Nat /\ at'[c] = at[c] + 1
      /\ \A d \in Creators \ {c} : at'[d] = at[d]
  BY <1>1 DEF StateTypes
<1>3. CallTypes' /\ StateTypes' /\ NamesUnique'
  BY <1>1, <1>2 DEF CallTypes, StateTypes, NamesUnique
<1>4. NotYet'
  <2>1. MakesAt \in {1, 2, 3, 4}
    BY DEF MakesAt
  <2>. QED  BY <1>1, <1>2, <2>1 DEF NotYet
<1>5. KnowsName'
  <2>. SUFFICES ASSUME NEW d \in Creators, platform = "freebsd",
                       result[d] = "running", at'[d] \in KnownAt(d)
                PROVE  known[d] = iface[d]
    BY <1>1 DEF KnowsName
  <2>1. CASE d # c
    BY <1>2, <2>1 DEF KnowsName
  <2>2. CASE d = c
    <3>1. Now(c).call \notin {"tunName", "Name"}
      BY DEF LeaveOut, LeftOut
    <3>2. at[c] + 1 \in KnownAt(c)
      BY <1>2, <2>2
    <3>3. at[c] \in KnownAt(c)
      BY <1>1, <3>1, <3>2, ProgramSteps DEF Now
    <3>. QED  BY <2>2, <3>3 DEF KnowsName
  <2>. QED  BY <2>1, <2>2
<1>. QED  BY <1>3, <1>4, <1>5

\* So does a call that fails, with the cleanup after it.
LEMMA IfaceFail ==
  ASSUME IfaceInv, NEW c \in Creators, Fail(c)
  PROVE  IfaceInv'
<1>. USE DEF IfaceInv
<1>. PICK destroys \in BOOLEAN : iface' = AfterUndo(c, Now(c).undo, destroys)
  BY DEF Fail
<1>1. /\ result' = [result EXCEPT ![c] = "error"]
      /\ UNCHANGED <<platform, entry, asked, at, known>> /\ Busy(c)
      /\ MakesAt' = MakesAt /\ \A d \in Creators : KnownAt(d)' = KnownAt(d)
  BY DEF Fail, callVars, MakesAt, KnownAt
<1>2. /\ DOMAIN iface' = Creators /\ iface'[c] \in {iface[c], NoName}
      /\ \A d \in Creators \ {c} : iface'[d] = iface[d]
  <2>1. DOMAIN iface' = Creators /\ iface'[c] \in {iface[c], NoName}
    BY <1>1 DEF AfterUndo
  <2>. QED  BY <1>1, <2>1, UndoOwn
<1>3. /\ result' \in [Creators -> {"running", "ok", "error"}] /\ result'[c] = "error"
      /\ \A d \in Creators \ {c} : result'[d] = result[d]
  BY <1>1 DEF StateTypes
<1>4. CallTypes' /\ StateTypes'
  BY <1>1, <1>2, <1>3 DEF CallTypes, StateTypes
<1>5. NotYet'
  BY <1>1, <1>2 DEF NotYet
<1>6. NamesUnique'
  BY <1>1, <1>2 DEF NamesUnique
<1>7. KnowsName'
  BY <1>1, <1>2, <1>3 DEF KnowsName
<1>. QED  BY <1>4, <1>5, <1>6, <1>7

\* So does the finalizer of a file that nobody closed.
LEMMA IfaceCollect ==
  ASSUME IfaceInv, NEW c \in Creators, Collect(c)
  PROVE  IfaceInv'
<1>. USE DEF IfaceInv
<1>1. /\ UNCHANGED <<platform, entry, asked, at, known, result>> /\ result[c] = "error"
      /\ iface' = [iface EXCEPT ![c] = IF Drops({"file"}) THEN NoName ELSE @]
      /\ MakesAt' = MakesAt /\ \A d \in Creators : KnownAt(d)' = KnownAt(d)
  BY DEF Collect, callVars, MakesAt, KnownAt
<1>2. /\ DOMAIN iface' = Creators /\ iface'[c] \in {iface[c], NoName}
      /\ \A d \in Creators \ {c} : iface'[d] = iface[d]
  BY <1>1 DEF StateTypes
<1>3. CallTypes' /\ StateTypes'
  BY <1>1, <1>2 DEF CallTypes, StateTypes
<1>4. NotYet' /\ NamesUnique'
  BY <1>1, <1>2 DEF NotYet, NamesUnique
<1>5. KnowsName'
  BY <1>1, <1>2 DEF KnowsName
<1>. QED  BY <1>3, <1>4, <1>5

\* No step of device creation disturbs the names of interfaces.
LEMMA IfaceStep == IfaceInv /\ [Next]_vars => IfaceInv'
<1>. SUFFICES ASSUME IfaceInv, [Next]_vars PROVE IfaceInv'
  OBVIOUS
<1>1. ASSUME NEW c \in Creators, Succeed(c) PROVE IfaceInv'
  <2>1. /\ result' = [result EXCEPT ![c] = "ok"]
        /\ UNCHANGED <<platform, entry, asked, at, iface, known>>
    BY <1>1 DEF Succeed, callVars
  <2>2. /\ result' \in [Creators -> {"running", "ok", "error"}] /\ result'[c] = "ok"
        /\ \A d \in Creators \ {c} : result'[d] = result[d]
    BY <2>1 DEF IfaceInv, StateTypes
  <2>3. MakesAt' = MakesAt /\ \A d \in Creators : KnownAt(d)' = KnownAt(d)
    BY <2>1 DEF MakesAt, KnownAt
  <2>4. CallTypes' /\ StateTypes' /\ NotYet' /\ NamesUnique'
    BY <2>1, <2>2, <2>3 DEF IfaceInv, CallTypes, StateTypes, NotYet, NamesUnique
  <2>5. KnowsName'
    BY <2>1, <2>2, <2>3 DEF IfaceInv, KnowsName
  <2>. QED  BY <2>4, <2>5 DEF IfaceInv
<1>2. CASE UNCHANGED vars \/ \E c \in Creators : TryNext(c)
  <2>1. UNCHANGED <<platform, entry, asked, at, result, iface, known>>
    BY <1>2 DEF TryNext, vars, callVars
  <2>2. MakesAt' = MakesAt /\ \A d \in Creators : KnownAt(d)' = KnownAt(d)
    BY <2>1 DEF MakesAt, KnownAt
  <2>. QED
    BY <2>1, <2>2 DEF IfaceInv, CallTypes, StateTypes, NotYet, NamesUnique, KnowsName
<1>. QED
  BY <1>1, <1>2, IfacePass, IfaceLeaveOut, IfaceFail, IfaceCollect DEF Next, Creates

\* The inductive invariant holds of every behaviour.
LEMMA IfaceInvariant == Spec => []IfaceInv
BY IfaceInit, IfaceStep, PTL DEF Spec

\* Whatever names the callers ask for and whoever takes one first, an interface
\* disappears only when the creation it belongs to fails: the error paths of
\* freebsd, which destroy by name, know the right one whenever they do it.
THEOREM DestroysNoOthers == Spec => DestroysOwn
<1>1. IfaceInv /\ [Next]_vars =>
        [\A c \in Creators :
           iface[c] # NoName /\ iface'[c] = NoName => result'[c] = "error"]_vars
  <2>. SUFFICES ASSUME IfaceInv, Next, NEW c \in Creators,
                       iface[c] # NoName, iface'[c] = NoName
                PROVE  result'[c] = "error"
    OBVIOUS
  <2>1. ASSUME NEW d \in Creators, Pass(d) PROVE FALSE
    BY <2>1, PassNames
  <2>2. ASSUME NEW d \in Creators, Fail(d) PROVE result'[c] = "error"
    <3>. PICK destroys \in BOOLEAN : iface' = AfterUndo(d, Now(d).undo, destroys)
      BY <2>2 DEF Fail
    <3>1. Busy(d) /\ result' = [result EXCEPT ![d] = "error"]
      BY <2>2 DEF Fail
    <3>2. c = d
      BY <3>1, UndoOwn
    <3>. QED  BY <3>1, <3>2 DEF IfaceInv, StateTypes
  <2>3. ASSUME NEW d \in Creators, Collect(d) PROVE result'[c] = "error"
    BY <2>3 DEF Collect, IfaceInv, StateTypes
  <2>4. ASSUME NEW d \in Creators, LeaveOut(d) \/ TryNext(d) \/ Succeed(d) PROVE FALSE
    BY <2>4 DEF LeaveOut, TryNext, Succeed
  <2>. QED  BY <2>1, <2>2, <2>3, <2>4 DEF Next, Creates
<1>. QED  BY <1>1, IfaceInvariant, PTL DEF Spec, DestroysOwn
-----------------------------------------------------------------------------
(***************************************************************************)
(* The offloads of Linux and the MTU.                                      *)
(***************************************************************************)

\* Programs that ask for the TCP offloads at p, for the UDP ones next, and for
\* none elsewhere; programs that ask for none.
OffloadsAt(s, p) ==
  /\ IsSeq(s) /\ p \in Nat \ {0} /\ p + 1 \in 1..Len(s)
  /\ \A k \in 1..Len(s) : /\ s[k].call = "tunTCPOffloads" <=> k = p
                          /\ s[k].call = "tunUDPOffloads" <=> k = p + 1
NoOffloads(s) ==
  /\ IsSeq(s)
  /\ \A k \in 1..Len(s) : s[k].call \notin {"tunTCPOffloads", "tunUDPOffloads"}

\* Where a step of two programs run one after the other comes from.
LEMMA JoinedStep ==
  ASSUME NEW s, NEW t, IsSeq(s), IsSeq(t), NEW k \in 1..Len(s \o t)
  PROVE  \/ k \in 1..Len(s) /\ (s \o t)[k] = s[k]
         \/ \E i \in 1..Len(t) : k = Len(s) + i /\ (s \o t)[k] = t[i]
<1>1. Len(s \o t) = Len(s) + Len(t) /\ Len(s) \in Nat /\ Len(t) \in Nat
  BY Joined
<1>2. CASE k \in 1..Len(s)
  BY <1>2, Joined
<1>3. CASE k \notin 1..Len(s)
  <2>1. k - Len(s) \in 1..Len(t) /\ k = Len(s) + (k - Len(s))
    BY <1>1, <1>3
  <2>2. (s \o t)[Len(s) + (k - Len(s))] = t[k - Len(s)]
    BY <2>1, Joined
  <2>. QED  BY <2>1, <2>2
<1>. QED  BY <1>2, <1>3

\* Two pieces without an offload call make one without.
LEMMA NoOffloadsJoined ==
  ASSUME NEW s, NEW t, NoOffloads(s), NoOffloads(t)
  PROVE  NoOffloads(s \o t)
<1>1. IsSeq(s) /\ IsSeq(t)
  BY DEF NoOffloads
<1>2. ASSUME NEW k \in 1..Len(s \o t)
      PROVE  (s \o t)[k].call \notin {"tunTCPOffloads", "tunUDPOffloads"}
  <2>1. CASE k \in 1..Len(s) /\ (s \o t)[k] = s[k]
    BY <2>1 DEF NoOffloads
  <2>2. CASE \E i \in 1..Len(t) : k = Len(s) + i /\ (s \o t)[k] = t[i]
    BY <2>2 DEF NoOffloads
  <2>3. \/ k \in 1..Len(s) /\ (s \o t)[k] = s[k]
        \/ \E i \in 1..Len(t) : k = Len(s) + i /\ (s \o t)[k] = t[i]
    BY <1>1, JoinedStep
  <2>. QED  BY <2>1, <2>2, <2>3
<1>. QED  BY <1>1, <1>2, Joined DEF NoOffloads

\* The offload calls stay in their place when calls follow.
LEMMA OffloadsThen ==
  ASSUME NEW s, NEW t, NEW p, OffloadsAt(s, p), NoOffloads(t)
  PROVE  OffloadsAt(s \o t, p)
<1>0. IsSeq(s) /\ IsSeq(t)
  BY DEF OffloadsAt, NoOffloads
<1>1. IsSeq(s) /\ IsSeq(t) /\ p \in Nat \ {0} /\ p + 1 \in 1..Len(s)
  BY DEF OffloadsAt, NoOffloads
<1>2. /\ IsSeq(s \o t) /\ Len(s \o t) = Len(s) + Len(t)
      /\ Len(s) \in Nat /\ Len(t) \in Nat
  BY <1>1, Joined
<1>3. p + 1 \in 1..Len(s \o t)
  BY <1>1, <1>2
<1>4. ASSUME NEW k \in 1..Len(s \o t)
      PROVE  /\ (s \o t)[k].call = "tunTCPOffloads" <=> k = p
             /\ (s \o t)[k].call = "tunUDPOffloads" <=> k = p + 1
  <2>1. CASE k \in 1..Len(s) /\ (s \o t)[k] = s[k]
    BY <2>1 DEF OffloadsAt
  <2>2. ASSUME NEW i \in 1..Len(t), k = Len(s) + i, (s \o t)[k] = t[i]
        PROVE  /\ (s \o t)[k].call = "tunTCPOffloads" <=> k = p
               /\ (s \o t)[k].call = "tunUDPOffloads" <=> k = p + 1
    <3>1. k # p /\ k # p + 1
      BY <1>1, <1>2, <2>2
    <3>. QED  BY <2>2, <3>1 DEF NoOffloads
  <2>3. \/ k \in 1..Len(s) /\ (s \o t)[k] = s[k]
        \/ \E i \in 1..Len(t) : k = Len(s) + i /\ (s \o t)[k] = t[i]
    BY <1>0, JoinedStep
  <2>. QED  BY <2>1, <2>2, <2>3
<1>. QED  BY <1>1, <1>2, <1>3, <1>4 DEF OffloadsAt

\* ... and are shifted by the calls in front.
LEMMA OffloadsAfter ==
  ASSUME NEW s, NEW t, NEW p, NoOffloads(s), OffloadsAt(t, p)
  PROVE  OffloadsAt(s \o t, Len(s) + p)
<1>1. IsSeq(s) /\ IsSeq(t) /\ p \in Nat \ {0} /\ p + 1 \in 1..Len(t)
  BY DEF OffloadsAt, NoOffloads
<1>2. /\ IsSeq(s \o t) /\ Len(s \o t) = Len(s) + Len(t)
      /\ Len(s) \in Nat /\ Len(t) \in Nat
  BY <1>1, Joined
<1>3. Len(s) + p \in Nat \ {0} /\ (Len(s) + p) + 1 \in 1..Len(s \o t)
  BY <1>1, <1>2
<1>4. ASSUME NEW k \in 1..Len(s \o t)
      PROVE  /\ (s \o t)[k].call = "tunTCPOffloads" <=> k = Len(s) + p
             /\ (s \o t)[k].call = "tunUDPOffloads" <=> k = (Len(s) + p) + 1
  <2>1. CASE k \in 1..Len(s) /\ (s \o t)[k] = s[k]
    <3>1. s[k].call \notin {"tunTCPOffloads", "tunUDPOffloads"}
      BY <2>1 DEF NoOffloads
    <3>2. k # Len(s) + p /\ k # (Len(s) + p) + 1
      BY <1>1, <1>2, <2>1
    <3>. QED  BY <2>1, <3>1, <3>2
  <2>2. ASSUME NEW i \in 1..Len(t), k = Len(s) + i, (s \o t)[k] = t[i]
        PROVE  /\ (s \o t)[k].call = "tunTCPOffloads" <=> k = Len(s) + p
               /\ (s \o t)[k].call = "tunUDPOffloads" <=> k = (Len(s) + p) + 1
    <3>1. (k = Len(s) + p <=> i = p) /\ (k = (Len(s) + p) + 1 <=> i = p + 1)
      BY <1>1, <1>2, <2>2
    <3>. QED  BY <2>2, <3>1 DEF OffloadsAt
  <2>3. \/ k \in 1..Len(s) /\ (s \o t)[k] = s[k]
        \/ \E i \in 1..Len(t) : k = Len(s) + i /\ (s \o t)[k] = t[i]
    BY <1>1, JoinedStep
  <2>. QED  BY <2>1, <2>2, <2>3
<1>. QED  BY <1>2, <1>3, <1>4 DEF OffloadsAt

\* The offload calls of the Linux programs.
LEMMA LinuxOffloads ==
  /\ NoOffloads(LinuxOpens) /\ Len(LinuxOpens) = 5
  /\ OffloadsAt(LinuxFromFile, 3) /\ OffloadsAt(LinuxUnmonitored, 5)
<1>. DEFINE starts == <<Step("NewRWCancel", {"pipe"}, {}, {"netlink"}),
                        Sure("go", {"goroutines"}, {})>>
            wraps == <<Does("SetNonblock", {}), Sure("NewFile", {"file"}, {"fd"})>>
<1>1. NoOffloads(LinuxOpens) /\ Len(LinuxOpens) = 5
  <2>1. IsSeq(LinuxOpens) /\ Len(LinuxOpens) = 5
    BY LongTuples DEF LinuxOpens
  <2>2. \A k \in 1..5 :
          LinuxOpens[k].call \notin {"tunTCPOffloads", "tunUDPOffloads"}
    BY DEF LinuxOpens, Step, Does, Sure
  <2>. QED  BY <2>1, <2>2 DEF NoOffloads
<1>2. OffloadsAt(InitFromFlags, 2)
  <2>1. IsSeq(InitFromFlags) /\ Len(InitFromFlags) = 3
    BY Tuples DEF InitFromFlags
  <2>2. \A k \in 1..3 : /\ InitFromFlags[k].call = "tunTCPOffloads" <=> k = 2
                        /\ InitFromFlags[k].call = "tunUDPOffloads" <=> k = 3
    BY DEF InitFromFlags, Does, Sure, Step
  <2>. QED  BY <2>1, <2>2 DEF OffloadsAt
<1>3. NoOffloads(NameSlow) /\ Len(NameSlow) = 1
  <2>1. IsSeq(NameSlow) /\ Len(NameSlow) = 1
    BY Tuples DEF NameSlow
  <2>2. \A k \in 1..1 : NameSlow[k].call \notin {"tunTCPOffloads", "tunUDPOffloads"}
    BY DEF NameSlow, Does, Step
  <2>. QED  BY <2>1, <2>2 DEF NoOffloads
<1>4. ASSUME NEW call \in {"SIOCGIFINDEX", "setMTU"}, NEW undo
      PROVE  NoOffloads(OverSocket(call, undo))
  <2>1. /\ IsSeq(OverSocket(call, undo)) /\ Len(OverSocket(call, undo)) = 2
        /\ OverSocket(call, undo)[1].call = "socket"
        /\ OverSocket(call, undo)[2].call = call
    BY OverSocketSteps
  <2>. QED  BY <2>1 DEF NoOffloads
<1>5. NoOffloads(CreateNetlinkSocket)
  <2>1. IsSeq(CreateNetlinkSocket) /\ Len(CreateNetlinkSocket) = 2
    BY Tuples DEF CreateNetlinkSocket
  <2>2. \A k \in 1..2 :
          CreateNetlinkSocket[k].call \notin {"tunTCPOffloads", "tunUDPOffloads"}
    BY DEF CreateNetlinkSocket, Does, Step
  <2>. QED  BY <2>1, <2>2 DEF NoOffloads
<1>6. NoOffloads(starts)
  <2>1. IsSeq(starts) /\ Len(starts) = 2
    BY Tuples
  <2>2. \A k \in 1..2 : starts[k].call \notin {"tunTCPOffloads", "tunUDPOffloads"}
    BY DEF Step, Sure
  <2>. HIDE DEF starts
  <2>. QED  BY <2>1, <2>2 DEF NoOffloads
<1>7. NoOffloads(wraps) /\ Len(wraps) = 2
  <2>1. IsSeq(wraps) /\ Len(wraps) = 2
    BY Tuples
  <2>2. \A k \in 1..2 : wraps[k].call \notin {"tunTCPOffloads", "tunUDPOffloads"}
    BY DEF Does, Step, Sure
  <2>. HIDE DEF wraps
  <2>. QED  BY <2>1, <2>2 DEF NoOffloads
<1>. HIDE DEF starts, wraps
<1>8. OffloadsAt(NameSlow \o InitFromFlags, 3)
  <2>1. OffloadsAt(NameSlow \o InitFromFlags, 1 + 2)
    BY <1>2, <1>3, OffloadsAfter
  <2>. QED  BY <2>1
<1>9. OffloadsAt((NameSlow \o InitFromFlags) \o GetIFIndex, 3)
  BY <1>4, <1>8, OffloadsThen DEF GetIFIndex
<1>10. OffloadsAt(((NameSlow \o InitFromFlags) \o GetIFIndex) \o CreateNetlinkSocket, 3)
  BY <1>5, <1>9, OffloadsThen
<1>11. OffloadsAt((((NameSlow \o InitFromFlags) \o GetIFIndex) \o CreateNetlinkSocket)
                    \o starts, 3)
  BY <1>6, <1>10, OffloadsThen
<1>12. OffloadsAt(LinuxFromFile, 3)
  BY <1>4, <1>11, OffloadsThen DEF LinuxFromFile, starts
<1>13. OffloadsAt(LinuxUnmonitored, 5)
  <2>1. NoOffloads(wraps \o NameSlow) /\ Len(wraps \o NameSlow) = 3
    <3>1. IsSeq(wraps) /\ IsSeq(NameSlow)
      BY <1>3, <1>7 DEF NoOffloads
    <3>2. IsSeq(wraps \o NameSlow) /\ Len(wraps \o NameSlow) = Len(wraps) + Len(NameSlow)
      BY <3>1, Joined
    <3>3. NoOffloads(wraps \o NameSlow)
      BY <1>3, <1>7, NoOffloadsJoined
    <3>4. Len(wraps \o NameSlow) = 3
      BY <1>3, <1>7, <3>2
    <3>. QED  BY <3>3, <3>4
  <2>2. OffloadsAt((wraps \o NameSlow) \o InitFromFlags, 3 + 2)
    BY <1>2, <2>1, OffloadsAfter
  <2>. QED  BY <2>2 DEF LinuxUnmonitored, wraps
<1>. QED  BY <1>1, <1>12, <1>13

\* The step of a creation on Linux that asks for the TCP offloads.
TcpAt(c) == CASE entry[c] = "CreateTUN" -> 8 [] entry[c] = "FromFile" -> 3
              [] entry[c] = "Unmonitored" -> 5

\* Where the program of a caller on Linux sets its offloads.
LEMMA OffloadSteps ==
  ASSUME CallTypes, platform = "linux", NEW c \in Creators
  PROVE  OffloadsAt(Program(c), TcpAt(c)) /\ TcpAt(c) \in Nat
<1>1. CASE entry[c] = "CreateTUN"
  <2>1. OffloadsAt(LinuxOpens \o LinuxFromFile, 5 + 3)
    BY LinuxOffloads, OffloadsAfter
  <2>2. Program(c) = LinuxOpens \o LinuxFromFile
    BY <1>1 DEF Program, Opens, FromFile
  <2>. QED  BY <1>1, <2>1, <2>2 DEF TcpAt
<1>2. CASE entry[c] = "FromFile"
  BY <1>2, LinuxOffloads DEF Program, FromFile, TcpAt
<1>3. CASE entry[c] = "Unmonitored"
  BY <1>3, LinuxOffloads DEF Program, TcpAt
<1>. QED  BY <1>1, <1>2, <1>3 DEF CallTypes

FileTypes == /\ vnet \in [Creators -> BOOLEAN]
             /\ udpGSO \in [Creators -> BOOLEAN]
             /\ offload \in [Creators -> SUBSET {"tcp", "udp"}]

\* The kernel has the TCP offloads on from the step that asks for them, the UDP
\* ones only after the next step; udpGSO never says otherwise.
OffloadsOf(c) ==
  /\ vnet[c] => platform = "linux"
  /\ udpGSO[c] = ("udp" \in offload[c])
  /\ "tcp" \in offload[c] <=> vnet[c] /\ at[c] > TcpAt(c)
  /\ "udp" \in offload[c] => at[c] > TcpAt(c) + 1
  /\ result[c] = "ok" /\ platform = "linux" => at[c] > TcpAt(c) + 1
OffloadInv == FileTypes /\ \A c \in Creators : OffloadsOf(c)

\* Before any call no offloads are set.
LEMMA OffloadInit == Init => OffloadInv
<1>. SUFFICES ASSUME Init PROVE OffloadInv
  OBVIOUS
<1>1. FileTypes
  BY DEF Init, FileTypes
<1>2. ASSUME NEW c \in Creators PROVE OffloadsOf(c)
  <2>1. /\ vnet[c] => platform = "linux"
        /\ offload[c] = {} /\ udpGSO[c] = FALSE /\ at[c] = 1 /\ result[c] = "running"
    BY DEF Init
  <2>2. vnet[c] => ~(1 > TcpAt(c))
    <3>1. vnet[c] => entry[c] \in {"CreateTUN", "FromFile", "Unmonitored"}
      BY DEF Init, Entries
    <3>. QED  BY <3>1 DEF TcpAt
  <2>3. udpGSO[c] = ("udp" \in offload[c])
    <3>1. ("udp" \in offload[c]) = FALSE
      BY <2>1
    <3>2. udpGSO[c] = FALSE
      BY <2>1
    <3>. QED  BY <3>1, <3>2, Zenon
  <2>4. "tcp" \in offload[c] <=> vnet[c] /\ at[c] > TcpAt(c)
    BY <2>1, <2>2
  <2>. QED  BY <2>1, <2>3, <2>4 DEF OffloadsOf
<1>. QED  BY <1>1, <1>2 DEF OffloadInv

\* A call that does not move keeps its offloads.
LEMMA OffloadsKept ==
  ASSUME NEW c \in Creators, OffloadsOf(c), UNCHANGED <<platform, entry, vnet>>,
         at'[c] = at[c], offload'[c] = offload[c], udpGSO'[c] = udpGSO[c],
         result'[c] \in {result[c], "error"}
  PROVE  OffloadsOf(c)'
<1>1. TcpAt(c)' = TcpAt(c)
  BY DEF TcpAt
<1>. QED  BY <1>1 DEF OffloadsOf

\* A call that succeeds keeps the flags in step with the kernel.
LEMMA OffloadsPass ==
  ASSUME CallTypes, StateTypes, OffloadInv, NEW c \in Creators, Pass(c)
  PROVE  OffloadInv'
<1>1. /\ at' = [at EXCEPT ![c] = @ + 1] /\ UNCHANGED <<platform, entry, vnet, result>>
      /\ at[c] \in 1..Len(Program(c)) /\ result[c] = "running" /\ at[c] \in Nat
      /\ at'[c] = at[c] + 1 /\ \A d \in Creators \ {c} : at'[d] = at[d]
  BY DEF Pass, Busy, StateTypes, callVars
<1>2. TcpAt(c)' = TcpAt(c)
  BY <1>1 DEF TcpAt
<1>3. vnet[c] =>
        /\ platform = "linux" /\ TcpAt(c) \in Nat
        /\ Now(c).call = "tunTCPOffloads" <=> at[c] = TcpAt(c)
        /\ Now(c).call = "tunUDPOffloads" <=> at[c] = TcpAt(c) + 1
  BY <1>1, OffloadSteps DEF OffloadInv, OffloadsOf, OffloadsAt, Now
<1>4. ASSUME NEW o \in SUBSET {"tcp", "udp"}, NEW u \in BOOLEAN,
             offload' = [offload EXCEPT ![c] = o], udpGSO' = [udpGSO EXCEPT ![c] = u],
             u = ("udp" \in o), "tcp" \in o <=> vnet[c] /\ at[c] + 1 > TcpAt(c),
             "udp" \in o => at[c] + 1 > TcpAt(c) + 1
      PROVE  OffloadInv'
  <2>1. /\ FileTypes' /\ offload'[c] = o /\ udpGSO'[c] = u
        /\ \A d \in Creators \ {c} : offload'[d] = offload[d] /\ udpGSO'[d] = udpGSO[d]
    BY <1>1, <1>4 DEF OffloadInv, FileTypes
  <2>2. ASSUME NEW d \in Creators \ {c} PROVE OffloadsOf(d)'
    BY <1>1, <2>1, OffloadsKept DEF OffloadInv
  <2>3. OffloadsOf(c)'
    BY <1>1, <1>2, <1>3, <1>4, <2>1 DEF OffloadsOf
  <2>. QED  BY <2>1, <2>2, <2>3 DEF OffloadInv
<1>5. /\ udpGSO[c] \in BOOLEAN /\ offload[c] \in SUBSET {"tcp", "udp"}
      /\ udpGSO[c] = ("udp" \in offload[c])
      /\ "tcp" \in offload[c] <=> vnet[c] /\ at[c] > TcpAt(c)
      /\ "udp" \in offload[c] => at[c] > TcpAt(c) + 1
  BY DEF OffloadInv, OffloadsOf, FileTypes
<1>6. offload = [offload EXCEPT ![c] = offload[c]] /\ udpGSO = [udpGSO EXCEPT ![c] = udpGSO[c]]
  BY DEF OffloadInv, FileTypes
<1>7. CASE vnet[c] /\ Now(c).call = "tunTCPOffloads"
  <2>1. offload' = [offload EXCEPT ![c] = {"tcp"}] /\ udpGSO' = udpGSO
    BY <1>7 DEF Pass, Offloads
  <2>2. at[c] = TcpAt(c) /\ TcpAt(c) \in Nat
    BY <1>3, <1>7
  <2>3. "udp" \notin offload[c]
    BY <1>5, <2>2
  <2>4. udpGSO[c] = ("udp" \in {"tcp"})
    BY <1>5, <2>3
  <2>5. "tcp" \in {"tcp"} <=> vnet[c] /\ at[c] + 1 > TcpAt(c)
    BY <1>7, <2>2
  <2>6. {"tcp"} \in SUBSET {"tcp", "udp"} /\ "udp" \notin {"tcp"}
    OBVIOUS
  <2>. QED  BY <1>4, <1>5, <1>6, <2>1, <2>4, <2>5, <2>6
<1>8. CASE vnet[c] /\ Now(c).call = "tunUDPOffloads"
  <2>1. PICK ok \in BOOLEAN :
          /\ offload' = IF ok THEN [offload EXCEPT ![c] = {"tcp", "udp"}] ELSE offload
          /\ udpGSO' = [udpGSO EXCEPT ![c] = ok]
    BY <1>8 DEF Pass, Offloads
  <2>2. at[c] = TcpAt(c) + 1 /\ TcpAt(c) \in Nat
    BY <1>3, <1>8
  <2>3. "tcp" \in offload[c] /\ "udp" \notin offload[c]
    BY <1>5, <1>8, <2>2
  <2>4. CASE ok = TRUE
    <3>1. offload' = [offload EXCEPT ![c] = {"tcp", "udp"}]
      BY <2>1, <2>4
    <3>2. {"tcp", "udp"} \in SUBSET {"tcp", "udp"} /\ ok = ("udp" \in {"tcp", "udp"})
      BY <2>4
    <3>3. /\ "tcp" \in {"tcp", "udp"} <=> vnet[c] /\ at[c] + 1 > TcpAt(c)
          /\ at[c] + 1 > TcpAt(c) + 1
      BY <1>8, <2>2
    <3>. QED  BY <1>4, <2>1, <3>1, <3>2, <3>3
  <2>5. CASE ok = FALSE
    <3>1. offload' = [offload EXCEPT ![c] = offload[c]]
      BY <1>6, <2>1, <2>5
    <3>2. ok = ("udp" \in offload[c])
      BY <2>3, <2>5
    <3>3. "tcp" \in offload[c] <=> vnet[c] /\ at[c] + 1 > TcpAt(c)
      BY <1>8, <2>2, <2>3
    <3>. QED  BY <1>4, <1>5, <2>1, <2>3, <3>1, <3>2, <3>3
  <2>. QED  BY <2>4, <2>5
<1>9. CASE ~(vnet[c] /\ Now(c).call \in {"tunTCPOffloads", "tunUDPOffloads"})
  <2>1. UNCHANGED <<offload, udpGSO>>
    BY <1>9 DEF Pass, Offloads
  <2>2. /\ offload' = [offload EXCEPT ![c] = offload[c]]
        /\ udpGSO' = [udpGSO EXCEPT ![c] = udpGSO[c]]
    BY <1>6, <2>1
  <2>3. "tcp" \in offload[c] <=> vnet[c] /\ at[c] + 1 > TcpAt(c)
    BY <1>1, <1>3, <1>5, <1>9
  <2>4. "udp" \in offload[c] => at[c] + 1 > TcpAt(c) + 1
    <3>1. CASE vnet[c]
      BY <1>1, <1>3, <1>5, <3>1
    <3>2. CASE ~vnet[c]
      <4>1. TcpAt(c) \in Nat
        BY DEF TcpAt, CallTypes
      <4>. QED  BY <1>1, <1>5, <4>1
    <3>. QED  BY <3>1, <3>2
  <2>. QED  BY <1>4, <1>5, <2>2, <2>3, <2>4
<1>. QED  BY <1>7, <1>8, <1>9

\* No step of device creation gets the flags out of step.
LEMMA OffloadStep ==
  ASSUME IfaceInv, OffloadInv, [Next]_vars
  PROVE  OffloadInv'
<1>1. CallTypes /\ StateTypes
  BY DEF IfaceInv
<1>2. ASSUME UNCHANGED <<platform, entry, vnet, offload, udpGSO>>,
             \A d \in Creators : OffloadsOf(d)'
      PROVE  OffloadInv'
  BY <1>2 DEF OffloadInv, FileTypes
<1>3. CASE UNCHANGED vars
  <2>1. ASSUME NEW d \in Creators PROVE OffloadsOf(d)'
    BY <1>3, OffloadsKept DEF OffloadInv, vars, callVars
  <2>. QED  BY <1>2, <1>3, <2>1 DEF vars, callVars
<1>4. ASSUME NEW c \in Creators, Pass(c) PROVE OffloadInv'
  BY <1>1, <1>4, OffloadsPass
<1>5. ASSUME NEW c \in Creators, LeaveOut(c) PROVE OffloadInv'
  <2>1. /\ UNCHANGED <<platform, entry, vnet, offload, udpGSO, result>>
        /\ at'[c] = at[c] + 1 /\ at[c] \in Nat /\ platform # "linux"
        /\ \A d \in Creators \ {c} : at'[d] = at[d]
    BY <1>1, <1>5 DEF LeaveOut, LeftOut, StateTypes, callVars
  <2>2. ASSUME NEW d \in Creators \ {c} PROVE OffloadsOf(d)'
    BY <2>1, OffloadsKept DEF OffloadInv
  <2>3. OffloadsOf(c)'
    <3>1. /\ TcpAt(c) \in Nat /\ TcpAt(c)' = TcpAt(c)
      BY <1>1, <2>1 DEF TcpAt, CallTypes
    <3>2. /\ ~vnet[c] /\ udpGSO[c] = ("udp" \in offload[c]) /\ "tcp" \notin offload[c]
          /\ "udp" \in offload[c] => at[c] > TcpAt(c) + 1
      BY <2>1 DEF OffloadInv, OffloadsOf
    <3>3. "udp" \in offload[c] => at[c] + 1 > TcpAt(c) + 1
      BY <2>1, <3>1, <3>2
    <3>. QED  BY <2>1, <3>1, <3>2, <3>3 DEF OffloadsOf
  <2>. QED  BY <1>2, <2>1, <2>2, <2>3
<1>6. ASSUME NEW c \in Creators, TryNext(c) PROVE OffloadInv'
  <2>1. ASSUME NEW d \in Creators PROVE OffloadsOf(d)'
    BY <1>6, OffloadsKept DEF OffloadInv, TryNext, callVars
  <2>. QED  BY <1>2, <1>6, <2>1 DEF TryNext, callVars
<1>7. ASSUME NEW c \in Creators, Fail(c) PROVE OffloadInv'
  <2>1. /\ UNCHANGED <<platform, entry, vnet, offload, udpGSO, at>>
        /\ \A d \in Creators : result'[d] \in {result[d], "error"}
    BY <1>1, <1>7 DEF Fail, StateTypes, callVars
  <2>2. ASSUME NEW d \in Creators PROVE OffloadsOf(d)'
    BY <2>1, OffloadsKept DEF OffloadInv
  <2>. QED  BY <1>2, <2>1, <2>2
<1>8. ASSUME NEW c \in Creators, Succeed(c) PROVE OffloadInv'
  <2>1. /\ UNCHANGED <<platform, entry, vnet, offload, udpGSO, at>>
        /\ at[c] > Len(Program(c)) /\ at[c] \in Nat
        /\ \A d \in Creators \ {c} : result'[d] = result[d]
    BY <1>1, <1>8 DEF Succeed, StateTypes, callVars
  <2>2. ASSUME NEW d \in Creators \ {c} PROVE OffloadsOf(d)'
    BY <2>1, OffloadsKept DEF OffloadInv
  <2>3. platform = "linux" => at[c] > TcpAt(c) + 1
    <3>1. ASSUME platform = "linux" PROVE TcpAt(c) + 1 <= Len(Program(c))
      <4>1. OffloadsAt(Program(c), TcpAt(c)) /\ TcpAt(c) \in Nat
        BY <1>1, <3>1, OffloadSteps
      <4>. QED  BY <4>1 DEF OffloadsAt
    <3>2. ASSUME platform = "linux" PROVE Len(Program(c)) \in Nat /\ TcpAt(c) \in Nat
      <4>1. OffloadsAt(Program(c), TcpAt(c)) /\ TcpAt(c) \in Nat
        BY <1>1, <3>2, OffloadSteps
      <4>. QED  BY <4>1 DEF OffloadsAt, IsSeq
    <3>. QED  BY <2>1, <3>1, <3>2
  <2>4. OffloadsOf(c)'
    <3>1. TcpAt(c)' = TcpAt(c)
      BY <2>1 DEF TcpAt
    <3>. QED  BY <2>1, <2>3, <3>1 DEF OffloadInv, OffloadsOf
  <2>. QED  BY <1>2, <2>1, <2>2, <2>4
<1>9. ASSUME NEW c \in Creators, Collect(c) PROVE OffloadInv'
  <2>1. ASSUME NEW d \in Creators PROVE OffloadsOf(d)'
    BY <1>9, OffloadsKept DEF OffloadInv, Collect, callVars
  <2>. QED  BY <1>2, <1>9, <2>1 DEF Collect, callVars
<1>. QED  BY <1>3, <1>4, <1>5, <1>6, <1>7, <1>8, <1>9 DEF Next, Creates

\* A device that was created merges datagrams exactly if the kernel splits
\* them, whatever ioctl was refused on the way, on every platform and however
\* many creations run at the same time (initFromFlags of tun_linux.go).
THEOREM OffloadsTrue == Spec => []OffloadsAgree
<1>1. Init => OffloadInv
  BY OffloadInit
<1>2. IfaceInv /\ OffloadInv /\ [Next]_vars => OffloadInv'
  BY OffloadStep
<1>3. IfaceInv /\ OffloadInv => OffloadsAgree
  <2>. SUFFICES ASSUME IfaceInv, OffloadInv, NEW c \in Creators, result[c] = "ok"
                PROVE  /\ udpGSO[c] <=> "udp" \in offload[c]
                       /\ vnet[c] <=> "tcp" \in offload[c]
    BY DEF OffloadsAgree
  <2>1. /\ vnet[c] => platform = "linux"
        /\ udpGSO[c] = ("udp" \in offload[c])
        /\ "tcp" \in offload[c] <=> vnet[c] /\ at[c] > TcpAt(c)
        /\ platform = "linux" => at[c] > TcpAt(c) + 1
    BY DEF OffloadInv, OffloadsOf
  <2>2. at[c] \in Nat /\ TcpAt(c) \in Nat
    BY DEF IfaceInv, CallTypes, StateTypes, TcpAt
  <2>3. vnet[c] <=> "tcp" \in offload[c]
    BY <2>1, <2>2
  <2>4. udpGSO[c] <=> "udp" \in offload[c]
    BY <2>1
  <2>. QED  BY <2>3, <2>4
<1>. QED  BY <1>1, <1>2, <1>3, IfaceInvariant, PTL DEF Spec
-----------------------------------------------------------------------------
(***************************************************************************)
(* The MTU.                                                                *)
(***************************************************************************)

EndsWithMTU(s) == IsSeq(s) /\ Len(s) \in Nat \ {0} /\ s[Len(s)].call = "setMTU"

\* A program ends with the MTU when its last piece does.
LEMMA EndsJoined ==
  ASSUME NEW s, NEW t, IsSeq(s), EndsWithMTU(t)
  PROVE  EndsWithMTU(s \o t)
<1>1. /\ IsSeq(s \o t) /\ Len(s \o t) = Len(s) + Len(t) /\ Len(s) \in Nat
      /\ \A k \in 1..Len(t) : (s \o t)[Len(s) + k] = t[k]
  BY Joined DEF EndsWithMTU
<1>2. Len(t) \in 1..Len(t) /\ Len(t) \in Nat \ {0} /\ t[Len(t)].call = "setMTU"
  BY DEF EndsWithMTU
<1>3. (s \o t)[Len(s \o t)] = t[Len(t)]
  BY <1>1, <1>2
<1>. QED  BY <1>1, <1>2, <1>3 DEF EndsWithMTU

\* CreateTUNFromFile ends by setting the MTU on every platform that has it, and
\* so does CreateTUN there.
LEMMA LastStep ==
  ASSUME CallTypes, platform # "windows", NEW c \in Creators, entry[c] # "Unmonitored"
  PROVE  EndsWithMTU(Program(c))
<1>1. ASSUME NEW undo PROVE EndsWithMTU(OverSocket("setMTU", undo))
  BY OverSocketSteps DEF EndsWithMTU
<1>2. IsSeq(Listen)
  BY ListenSteps DEF Mild
<1>3. EndsWithMTU(Listen \o BsdSetMTU)
  <2>1. EndsWithMTU(BsdSetMTU)
    BY <1>1 DEF BsdSetMTU
  <2>. QED  BY <1>2, <2>1, EndsJoined
<1>4. EndsWithMTU(FromFile)
  <2>1. CASE platform = "linux"
    <3>. DEFINE starts == <<Step("NewRWCancel", {"pipe"}, {}, {"netlink"}),
                            Sure("go", {"goroutines"}, {})>>
                head == NameSlow \o InitFromFlags \o GetIFIndex \o CreateNetlinkSocket
    <3>1. IsSeq(starts)
      BY Tuples
    <3>. HIDE DEF starts
    <3>2. IsSeq(head)
      <4>1. Mild(head)
        BY LinuxPieces, MildJoined
      <4>. QED  BY <4>1 DEF Mild
    <3>3. FromFile = (head \o starts) \o OverSocket("setMTU", {"netlink"})
      BY <2>1 DEF FromFile, LinuxFromFile, starts
    <3>. HIDE DEF head
    <3>4. IsSeq(head \o starts)
      BY <3>1, <3>2, Joined
    <3>. QED  BY <1>1, <3>3, <3>4, EndsJoined
  <2>2. CASE platform \in {"darwin", "openbsd"}
    BY <1>3, <2>2 DEF FromFile, DarwinFromFile, OpenbsdFromFile
  <2>3. CASE platform = "freebsd"
    <3>. DEFINE pid == <<Does("TUNSIFPID", {"file"})>>
    <3>1. IsSeq(pid)
      BY Tuples
    <3>2. FromFile = (pid \o Listen) \o BsdSetMTU
      BY <2>3 DEF FromFile, FreebsdFromFile
    <3>. HIDE DEF pid
    <3>3. IsSeq(pid \o Listen)
      BY <1>2, <3>1, Joined
    <3>4. EndsWithMTU(BsdSetMTU)
      BY <1>1 DEF BsdSetMTU
    <3>. QED  BY <3>2, <3>3, <3>4, EndsJoined
  <2>. QED  BY <2>1, <2>2, <2>3, PlatformAssumption DEF CallTypes
<1>5. CASE entry[c] = "FromFile"
  BY <1>4, <1>5 DEF Program
<1>6. CASE entry[c] = "CreateTUN"
  <2>1. IsSeq(Opens) /\ Program(c) = Opens \o FromFile
    BY <1>6, OpensSteps DEF CallTypes, Program
  <2>. QED  BY <1>4, <2>1, EndsJoined
<1>. QED  BY <1>5, <1>6 DEF CallTypes

\* The program of a caller stays the same during the call.
LEMMA ProgramKept ==
  ASSUME NEW c \in Creators, UNCHANGED <<platform, entry>>
  PROVE  Program(c)' = Program(c)
BY DEF Program, Opens, FromFile, DarwinFromFile, OpenbsdFromFile, FreebsdFromFile,
       BsdSetMTU, OverSocket, Step, CloseAll

MTUTypes == /\ want \in [Creators -> {"none", "default", "other"}]
            /\ mtu \in [Creators -> {"default", "other"}]

\* What the end of a creation comes to.
MTUSet(c) == /\ want[c] # "none" => mtu[c] = want[c]
             /\ want[c] = "none" => platform \in {"darwin", "windows"}

\* Wintun's session has the MTU from the first step on; elsewhere the last step
\* has set it, refused, or found nothing to do.
MTUOf(c) ==
  /\ platform = "windows" => entry[c] = "CreateTUN"
  /\ platform = "windows" /\ at[c] > 1 /\ want[c] # "none" => mtu[c] = want[c]
  /\ entry[c] # "Unmonitored" /\ at[c] > Len(Program(c)) => MTUSet(c)
  /\ result[c] = "ok" => at[c] > Len(Program(c))
SizeInv == MTUTypes /\ \A c \in Creators : MTUOf(c)

\* Every program has a call to make.
LEMMA ProgramLength ==
  ASSUME CallTypes, NEW c \in Creators, platform = "windows" => entry[c] = "CreateTUN"
  PROVE  Len(Program(c)) \in Nat \ {0}
<1>1. CASE entry[c] = "Unmonitored"
  <2>1. OffloadsAt(Program(c), TcpAt(c))
    BY <1>1, OffloadSteps DEF CallTypes
  <2>2. IsSeq(Program(c)) /\ TcpAt(c) + 1 \in 1..Len(Program(c)) /\ TcpAt(c) \in Nat \ {0}
    BY <2>1 DEF OffloadsAt
  <2>. QED  BY <2>2 DEF IsSeq
<1>2. CASE entry[c] # "Unmonitored" /\ platform # "windows"
  BY <1>2, LastStep DEF EndsWithMTU
<1>3. CASE platform = "windows"
  <2>1. IsSeq(WindowsOpens) /\ Len(WindowsOpens) = 2 /\ IsSeq(<<>>) /\ Len(<<>>) = 0
    BY Tuples DEF WindowsOpens
  <2>2. Program(c) = WindowsOpens \o <<>>
    BY <1>3 DEF Program, Opens, FromFile
  <2>3. Len(WindowsOpens \o <<>>) = Len(WindowsOpens) + Len(<<>>)
    BY <2>1, Joined
  <2>. QED  BY <2>1, <2>2, <2>3
<1>. QED  BY <1>1, <1>2, <1>3

\* Before any call no device has an MTU to keep.
LEMMA SizeInit == Init => SizeInv
<1>. SUFFICES ASSUME Init PROVE SizeInv
  OBVIOUS
<1>1. MTUTypes
  BY DEF Init, MTUTypes
<1>2. ASSUME NEW c \in Creators PROVE MTUOf(c)
  <2>1. /\ platform = "windows" => entry[c] = "CreateTUN"
        /\ at[c] = 1 /\ result[c] = "running" /\ CallTypes
    BY DEF Init, Entries, CallTypes
  <2>2. Len(Program(c)) \in Nat \ {0}
    BY <2>1, ProgramLength
  <2>3. ~(at[c] > 1) /\ ~(at[c] > Len(Program(c)))
    BY <2>1, <2>2
  <2>. QED  BY <2>1, <2>3 DEF MTUOf
<1>. QED  BY <1>1, <1>2 DEF SizeInv

\* A call that does not move keeps its MTU.
LEMMA MTUKept ==
  ASSUME NEW c \in Creators, MTUOf(c), UNCHANGED <<platform, entry, want>>,
         at'[c] = at[c], mtu'[c] = mtu[c], result'[c] \in {result[c], "error"}
  PROVE  MTUOf(c)'
<1>1. Program(c)' = Program(c)
  BY ProgramKept
<1>. QED  BY <1>1 DEF MTUOf, MTUSet

\* A step of a program is followed by the next, or was the last.
LEMMA MTUMoves ==
  ASSUME CallTypes, NEW c \in Creators, MTUOf(c), UNCHANGED <<platform, entry, want>>,
         at[c] \in 1..Len(Program(c)), at'[c] = at[c] + 1,
         result[c] = "running", result'[c] = "running",
         platform = "windows" => MTUSet(c)',
         platform # "windows" /\ entry[c] # "Unmonitored" /\ Now(c).call = "setMTU" => MTUSet(c)'
  PROVE  MTUOf(c)'
<1>1. Program(c)' = Program(c)
  BY ProgramKept
<1>2. Len(Program(c)) \in Nat \ {0}
  BY ProgramLength DEF MTUOf
<1>3. ASSUME platform # "windows", entry[c] # "Unmonitored", at'[c] > Len(Program(c))
      PROVE  MTUSet(c)'
  <2>1. at[c] = Len(Program(c))
    BY <1>2, <1>3
  <2>2. Now(c).call = "setMTU"
    BY <1>3, <2>1, LastStep DEF EndsWithMTU, Now
  <2>. QED  BY <1>3, <2>2
<1>4. /\ platform' = "windows" => entry'[c] = "CreateTUN"
      /\ platform' = "windows" /\ at'[c] > 1 /\ want'[c] # "none" => mtu'[c] = want'[c]
  BY DEF MTUOf, MTUSet
<1>5. entry'[c] # "Unmonitored" /\ at'[c] > Len(Program(c)') => MTUSet(c)'
  BY <1>1, <1>3
<1>6. result'[c] # "ok"
  OBVIOUS
<1>. QED  BY <1>4, <1>5, <1>6 DEF MTUOf

\* No step of device creation returns a device without its MTU.
LEMMA SizeStep ==
  ASSUME IfaceInv, SizeInv, [Next]_vars
  PROVE  SizeInv'
<1>1. CallTypes /\ StateTypes
  BY DEF IfaceInv
<1>2. ASSUME NEW c \in Creators, Pass(c) PROVE SizeInv'
  <2>1. /\ UNCHANGED <<platform, entry, want, result>>
        /\ at[c] \in 1..Len(Program(c)) /\ at'[c] = at[c] + 1 /\ result[c] = "running"
        /\ \A d \in Creators \ {c} : at'[d] = at[d]
        /\ ~Refused(c)
        /\ mtu' = IF Now(c).call = "setMTU" \/ (platform = "windows" /\ want[c] # "none")
                  THEN [mtu EXCEPT ![c] = want[c]] ELSE mtu
    BY <1>1, <1>2 DEF Pass, Busy, StateTypes, callVars
  <2>2. Now(c).call = "setMTU" => want[c] # "none"
    BY <2>1 DEF Refused
  <2>3. CASE Now(c).call = "setMTU" \/ (platform = "windows" /\ want[c] # "none")
    <3>1. mtu' = [mtu EXCEPT ![c] = want[c]] /\ want[c] \in {"default", "other"}
      BY <2>1, <2>2, <2>3 DEF SizeInv, MTUTypes
    <3>2. /\ MTUTypes' /\ mtu'[c] = want[c]
          /\ \A d \in Creators \ {c} : mtu'[d] = mtu[d]
      BY <2>1, <3>1 DEF SizeInv, MTUTypes
    <3>3. MTUSet(c)'
      BY <2>1, <3>1, <3>2 DEF MTUSet
    <3>4. MTUOf(c)'
      BY <1>1, <2>1, <3>3, MTUMoves DEF SizeInv
    <3>5. ASSUME NEW d \in Creators \ {c} PROVE MTUOf(d)'
      BY <2>1, <3>2, MTUKept DEF SizeInv
    <3>. QED  BY <3>2, <3>4, <3>5 DEF SizeInv
  <2>4. CASE ~(Now(c).call = "setMTU" \/ (platform = "windows" /\ want[c] # "none"))
    <3>1. mtu' = mtu /\ MTUTypes'
      BY <2>1, <2>4 DEF SizeInv, MTUTypes
    <3>2. platform = "windows" => MTUSet(c)'
      BY <2>1, <2>4, <3>1 DEF MTUSet
    <3>3. MTUOf(c)'
      BY <1>1, <2>1, <2>4, <3>2, MTUMoves DEF SizeInv
    <3>4. ASSUME NEW d \in Creators \ {c} PROVE MTUOf(d)'
      BY <2>1, <3>1, MTUKept DEF SizeInv
    <3>. QED  BY <3>1, <3>3, <3>4 DEF SizeInv
  <2>. QED  BY <2>3, <2>4
<1>3. ASSUME NEW c \in Creators, LeaveOut(c) PROVE SizeInv'
  <2>1. /\ UNCHANGED <<platform, entry, want, mtu, result>>
        /\ at[c] \in 1..Len(Program(c)) /\ at'[c] = at[c] + 1 /\ result[c] = "running"
        /\ \A d \in Creators \ {c} : at'[d] = at[d]
        /\ LeftOut(c)
    BY <1>1, <1>3 DEF LeaveOut, Busy, StateTypes, callVars
  <2>2. platform # "windows"
    BY <2>1 DEF LeftOut
  <2>3. Now(c).call = "setMTU" => MTUSet(c)'
    <3>1. mtu[c] \in {"default", "other"}
      BY DEF SizeInv, MTUTypes
    <3>2. Now(c).call = "setMTU" =>
            \/ platform = "darwin" /\ want[c] = "none"
            \/ mtu[c] = want[c]
      BY <2>1 DEF LeftOut
    <3>. QED  BY <2>1, <3>1, <3>2 DEF MTUSet
  <2>4. MTUOf(c)'
    BY <1>1, <2>1, <2>2, <2>3, MTUMoves DEF SizeInv
  <2>5. ASSUME NEW d \in Creators \ {c} PROVE MTUOf(d)'
    BY <2>1, MTUKept DEF SizeInv
  <2>. QED  BY <2>1, <2>4, <2>5 DEF SizeInv, MTUTypes
<1>4. ASSUME NEW c \in Creators, Succeed(c) PROVE SizeInv'
  <2>1. /\ UNCHANGED <<platform, entry, want, mtu, at>> /\ at[c] > Len(Program(c))
        /\ \A d \in Creators \ {c} : result'[d] = result[d]
    BY <1>1, <1>4 DEF Succeed, StateTypes, callVars
  <2>2. ASSUME NEW d \in Creators \ {c} PROVE MTUOf(d)'
    BY <2>1, MTUKept DEF SizeInv
  <2>3. MTUOf(c)'
    <3>1. Program(c)' = Program(c)
      BY <2>1, ProgramKept
    <3>. QED  BY <2>1, <3>1 DEF SizeInv, MTUOf, MTUSet
  <2>. QED  BY <2>1, <2>2, <2>3 DEF SizeInv, MTUTypes
<1>5. CASE \/ UNCHANGED vars
           \/ \E c \in Creators : TryNext(c) \/ Fail(c) \/ Collect(c)
  <2>1. /\ UNCHANGED <<platform, entry, want, mtu, at>>
        /\ \A d \in Creators : result'[d] \in {result[d], "error"}
    BY <1>1, <1>5 DEF TryNext, Fail, Collect, StateTypes, callVars, vars
  <2>2. ASSUME NEW d \in Creators PROVE MTUOf(d)'
    BY <2>1, MTUKept DEF SizeInv
  <2>. QED  BY <2>1, <2>2 DEF SizeInv, MTUTypes
<1>. QED  BY <1>2, <1>3, <1>4, <1>5 DEF Next, Creates

\* A device that was created has the MTU that was asked for; without one, only
\* darwin and windows create it (setMTU and CreateTUN of every platform).
THEOREM MTUSetAsAsked == Spec => []MTUAsAsked
<1>1. Init => SizeInv
  BY SizeInit
<1>2. IfaceInv /\ SizeInv /\ [Next]_vars => SizeInv'
  BY SizeStep
<1>3. SizeInv => MTUAsAsked
  BY DEF SizeInv, MTUOf, MTUSet, MTUAsAsked
<1>. QED  BY <1>1, <1>2, <1>3, IfaceInvariant, PTL DEF Spec

\* A created device is what its caller asked for and what its fields say, on
\* every platform, whatever was refused and however many creations run at the
\* same time.
THEOREM CreatedAsAsked == Spec => []DeviceAsAsked
BY OffloadsTrue, MTUSetAsAsked, PTL DEF DeviceAsAsked
-----------------------------------------------------------------------------
(***************************************************************************)
(* The types of the state.                                                 *)
(***************************************************************************)

AllUnits == {Units[k] : k \in DOMAIN Units}

\* While a caller has no interface, one of the names is free: there are as many
\* as callers, and each caller takes one at most.
LEMMA SomeFree ==
  ASSUME NEW c \in Creators, iface[c] = NoName
  PROVE  \E k \in DOMAIN Units : ~Taken(Units[k])
<1>. SUFFICES ASSUME \A k \in DOMAIN Units : Taken(Units[k]) PROVE FALSE
  OBVIOUS
<1>. DEFINE others == Creators \ {c}
            taker == [k \in 1..Len(Units) |-> CHOOSE d \in Creators : iface[d] = Units[k]]
<1>1. DOMAIN Units = 1..Len(Units) /\ Len(Units) \in Nat
  BY NameAssumption
<1>2. ASSUME NEW k \in 1..Len(Units)
      PROVE  taker[k] \in others /\ iface[taker[k]] = Units[k]
  <2>1. \E d \in Creators : iface[d] = Units[k]
    BY <1>1 DEF Taken
  <2>2. taker[k] \in Creators /\ iface[taker[k]] = Units[k]
    BY <2>1
  <2>3. Units[k] # NoName
    BY <1>1, NameAssumption
  <2>. QED  BY <2>2, <2>3
<1>3. /\ IsFiniteSet(others) /\ Cardinality(others) < Len(Units)
  <2>1. /\ IsFiniteSet(others) /\ Cardinality(others) \in Nat
        /\ Cardinality(Creators) \in Nat
        /\ Cardinality(others) = Cardinality(Creators) - 1
    <3>1. IsFiniteSet(Creators)
      BY NameAssumption
    <3>2. IsFiniteSet(others) /\ Cardinality(others) = Cardinality(Creators) - 1
      BY <3>1, FS_RemoveElement
    <3>. QED  BY <3>1, <3>2, FS_CardinalityType
  <2>. QED  BY <1>1, <2>1, NameAssumption
<1>4. IsFiniteSet(1..Len(Units)) /\ Cardinality(1..Len(Units)) = Len(Units)
  BY <1>1, FS_Interval
<1>5. taker \in [1..Len(Units) -> others]
  BY <1>2
<1>. HIDE DEF taker, others
<1>6. PICK j, k \in 1..Len(Units) : j # k /\ taker[j] = taker[k]
  BY <1>3, <1>4, <1>5, FS_PigeonHole
<1>7. Units[j] = Units[k]
  BY <1>2, <1>6
<1>. QED  BY <1>1, <1>6, <1>7, NameAssumption

\* The kernel then chooses one of them.
LEMMA FirstFreeUnit ==
  ASSUME NEW c \in Creators, iface[c] = NoName
  PROVE  FirstFree \in AllUnits
<1>. DEFINE Free == {k \in DOMAIN Units : ~Taken(Units[k])}
<1>1. DOMAIN Units = 1..Len(Units) /\ Len(Units) \in Nat
  BY NameAssumption
<1>2. Free \subseteq Nat /\ Free # {}
  BY <1>1, SomeFree
<1>3. \E k \in Free : \A j \in Free : ~(<<j, k>> \in OpToRel(<, Nat))
  BY <1>2, NatLessThanWellFounded, WFMin
<1>4. PICK k \in Free : \A j \in Free : ~(<<j, k>> \in OpToRel(<, Nat))
  BY <1>3
<1>5. \A j \in Free : ~(j < k)
  BY <1>2, <1>4 DEF OpToRel
<1>6. \A j \in 1..(k - 1) : Taken(Units[j])
  BY <1>1, <1>5
<1>7. \E i \in DOMAIN Units : ~Taken(Units[i]) /\ \A j \in 1..(i - 1) : Taken(Units[j])
  BY <1>4, <1>6
<1>. QED  BY <1>7 DEF FirstFree, AllUnits
-----------------------------------------------------------------------------
(***************************************************************************)
(* What the programs open and close.                                       *)
(***************************************************************************)

\* What no device keeps.
Passing == {"ctl"} \cup Deferred

\* A creation that fails in a call may leave X: FailureReleases.
Leaves(os, e, call, X) ==
  X \subseteq IF os # "linux" THEN {}
              ELSE IF "goroutines" \in X THEN {"file", "pipe", "goroutines"}
              ELSE CASE call = "bind" -> {"file", "netlink"}
                     [] call \in {"NewIfreq", "TUNSETIFF"} -> {"fd"}
                     [] OTHER -> IF e = "Unmonitored" THEN {"fd", "file"} ELSE {"file"}

\* The calls LeftOut speaks of.
Optional == {"socket", "setMTU", "AF_INET", "SIOCSIFNAME"}

\* A step takes what is held, but for what no device keeps, from X to Y; should
\* it fail, its error path leaves no more than a failure may leave.
Accounts(os, e, s, X, Y) ==
  /\ s.opens \subseteq Resource
  /\ Y = (X \ s.closes) \cup (s.opens \ Passing)
  /\ s.sure = TRUE \/ Leaves(os, e, s.call, X \ s.undo)
  /\ s.call \in Optional => s.opens \cup s.closes \subseteq Passing
  /\ "ctl" \in s.opens => s.call = "socket"
  /\ "ctl" \in s.closes => s.call \in {"setMTU", "SIOCGIFINDEX"} /\ "ctl" \in s.undo

\* h[k] is what is held before step k of p; a control socket is closed by the step
\* after the one that opens it.
Ledger(os, e, p, h) ==
  /\ IsSeq(p)
  /\ \A k \in 1..Len(p) : Accounts(os, e, p[k], h[k], h[k + 1])
  /\ \A k \in 1..Len(p) :
       "ctl" \in p[k].opens => k + 1 \in 1..Len(p) /\ "ctl" \in p[k + 1].closes

\* The steps of p take what is held from X to Y.
Path(os, e, p, X, Y) == \E h : Ledger(os, e, p, h) /\ h[1] = X /\ h[Len(p) + 1] = Y

\* The steps of two pieces follow each other.
LEMMA PathJoined ==
  ASSUME NEW os, NEW e, NEW p, NEW q, NEW X, NEW Y, NEW Z,
         Path(os, e, p, X, Y), Path(os, e, q, Y, Z)
  PROVE  Path(os, e, p \o q, X, Z)
<1>1. PICK f : Ledger(os, e, p, f) /\ f[1] = X /\ f[Len(p) + 1] = Y
  BY DEF Path
<1>2. PICK g : Ledger(os, e, q, g) /\ g[1] = Y /\ g[Len(q) + 1] = Z
  BY DEF Path
<1>3. /\ IsSeq(p \o q) /\ Len(p \o q) = Len(p) + Len(q)
      /\ Len(p) \in Nat /\ Len(q) \in Nat
      /\ \A k \in 1..Len(p) : (p \o q)[k] = p[k]
      /\ \A k \in 1..Len(q) : (p \o q)[Len(p) + k] = q[k]
  BY <1>1, <1>2, Joined DEF Ledger
<1>. DEFINE m == Len(p)
            n == Len(q)
            r == p \o q
            h == [k \in 1..(m + n + 1) |-> IF k <= m THEN f[k] ELSE g[k - m]]
<1>. HIDE DEF m, n, r
<1>4. /\ \A k \in 1..m : h[k] = f[k]
      /\ \A k \in 1..(n + 1) : h[m + k] = g[k]
      /\ h[m + 1] = f[m + 1]
  <2>1. m \in Nat /\ n \in Nat
    BY <1>3 DEF m, n
  <2>2. \A k \in 1..m : h[k] = f[k]
    BY <2>1
  <2>3. ASSUME NEW k \in 1..(n + 1) PROVE h[m + k] = g[k]
    <3>1. m + k \in 1..(m + n + 1) /\ ~(m + k <= m) /\ (m + k) - m = k
      BY <2>1
    <3>. QED  BY <3>1
  <2>4. 1 \in 1..(n + 1)
    BY <2>1
  <2>5. h[m + 1] = g[1] /\ f[m + 1] = g[1]
    BY <1>1, <1>2, <2>3, <2>4 DEF m
  <2>. QED  BY <2>2, <2>3, <2>5
<1>. HIDE DEF h
<1>5. m \in Nat /\ n \in Nat /\ Len(r) = m + n /\ IsSeq(r)
      /\ (\A k \in 1..m : r[k] = p[k]) /\ (\A k \in 1..n : r[m + k] = q[k])
  BY <1>3 DEF m, n, r
<1>6. \A k \in 1..m : h[k + 1] = f[k + 1]
  <2>. SUFFICES ASSUME NEW k \in 1..m PROVE h[k + 1] = f[k + 1]
    OBVIOUS
  <2>1. k + 1 \in 1..m \/ k + 1 = m + 1
    BY <1>5
  <2>. QED  BY <1>4, <2>1
<1>7. /\ \A k \in 1..m : Accounts(os, e, p[k], f[k], f[k + 1])
      /\ \A k \in 1..m : "ctl" \in p[k].opens => k + 1 \in 1..m /\ "ctl" \in p[k + 1].closes
      /\ \A k \in 1..n : Accounts(os, e, q[k], g[k], g[k + 1])
      /\ \A k \in 1..n : "ctl" \in q[k].opens => k + 1 \in 1..n /\ "ctl" \in q[k + 1].closes
  BY <1>1, <1>2 DEF Ledger, m, n
<1>8. ASSUME NEW k \in 1..m
      PROVE  /\ Accounts(os, e, r[k], h[k], h[k + 1])
             /\ "ctl" \in r[k].opens => k + 1 \in 1..Len(r) /\ "ctl" \in r[k + 1].closes
  <2>1. r[k] = p[k] /\ h[k] = f[k] /\ h[k + 1] = f[k + 1]
    BY <1>4, <1>5, <1>6
  <2>2. k + 1 \in 1..m => k + 1 \in 1..Len(r) /\ r[k + 1] = p[k + 1]
    BY <1>5
  <2>. QED  BY <1>7, <2>1, <2>2
<1>9. ASSUME NEW k \in 1..n
      PROVE  /\ Accounts(os, e, r[m + k], h[m + k], h[m + k + 1])
             /\ "ctl" \in r[m + k].opens =>
                  m + k + 1 \in 1..Len(r) /\ "ctl" \in r[m + k + 1].closes
  <2>1. k \in 1..(n + 1) /\ k + 1 \in 1..(n + 1) /\ m + k + 1 = m + (k + 1)
    BY <1>5
  <2>2. r[m + k] = q[k] /\ h[m + k] = g[k] /\ h[m + k + 1] = g[k + 1]
    BY <1>4, <1>5, <2>1
  <2>3. k + 1 \in 1..n => m + k + 1 \in 1..Len(r) /\ r[m + k + 1] = q[k + 1]
    BY <1>5, <2>1
  <2>. QED  BY <1>7, <2>2, <2>3
<1>10. ASSUME NEW k \in 1..Len(r)
       PROVE  /\ Accounts(os, e, r[k], h[k], h[k + 1])
              /\ "ctl" \in r[k].opens => k + 1 \in 1..Len(r) /\ "ctl" \in r[k + 1].closes
  <2>1. CASE k \in 1..m
    BY <1>8, <2>1
  <2>2. CASE k \notin 1..m
    <3>1. k - m \in 1..n /\ m + (k - m) = k
      BY <1>5, <2>2
    <3>. QED  BY <1>9, <3>1
  <2>. QED  BY <2>1, <2>2
<1>11. Ledger(os, e, r, h)
  BY <1>5, <1>10 DEF Ledger
<1>12. h[1] = X
  <2>1. CASE m = 0
    <3>1. h[0 + 1] = f[0 + 1]
      BY <1>4, <2>1
    <3>. QED  BY <1>1, <3>1
  <2>2. CASE m # 0
    <3>1. 1 \in 1..m
      BY <1>5, <2>2
    <3>. QED  BY <1>1, <1>4, <3>1
  <2>. QED  BY <2>1, <2>2
<1>13. h[Len(r) + 1] = Z
  <2>1. n + 1 \in 1..(n + 1) /\ Len(r) + 1 = m + (n + 1)
    BY <1>5
  <2>2. g[n + 1] = Z
    BY <1>2 DEF n
  <2>. QED  BY <1>4, <2>1, <2>2
<1>. QED  BY <1>11, <1>12, <1>13 DEF Path, r

\* A step that changes nothing of what is held.
Flat(os, e, s, X) == Accounts(os, e, s, X, X) /\ "ctl" \notin s.opens

\* Steps that all change nothing.
LEMMA FlatPath ==
  ASSUME NEW os, NEW e, NEW p, NEW X, IsSeq(p), \A k \in 1..Len(p) : Flat(os, e, p[k], X)
  PROVE  Path(os, e, p, X, X)
<1>. DEFINE h == [k \in 1..(Len(p) + 1) |-> X]
<1>1. Len(p) \in Nat
  BY DEF IsSeq
<1>2. 1 \in 1..(Len(p) + 1) /\ Len(p) + 1 \in 1..(Len(p) + 1)
      /\ \A k \in 1..Len(p) : k \in 1..(Len(p) + 1) /\ k + 1 \in 1..(Len(p) + 1)
  BY <1>1
<1>3. /\ h[1] = X /\ h[Len(p) + 1] = X
      /\ \A k \in 1..Len(p) : h[k] = X /\ h[k + 1] = X
  BY <1>2
<1>. HIDE DEF h
<1>4. Ledger(os, e, p, h)
  BY <1>3 DEF Ledger, Flat
<1>. QED  BY <1>3, <1>4 DEF Path

\* A single step.
LEMMA OnePath ==
  ASSUME NEW os, NEW e, NEW s, NEW X, NEW Y, Accounts(os, e, s, X, Y), "ctl" \notin s.opens
  PROVE  Path(os, e, <<s>>, X, Y)
<1>. DEFINE h == <<X, Y>>
            p == <<s>>
<1>1. IsSeq(p) /\ Len(p) = 1 /\ p[1] = s
  BY Tuples
<1>2. h[1] = X /\ h[1 + 1] = Y
  OBVIOUS
<1>. HIDE DEF h, p
<1>3. \A k \in 1..Len(p) : k = 1
  BY <1>1
<1>4. Ledger(os, e, p, h)
  BY <1>1, <1>2, <1>3 DEF Ledger
<1>5. Path(os, e, p, X, Y)
  BY <1>1, <1>2, <1>4 DEF Path
<1>. QED  BY <1>5 DEF p

\* A call over a control socket changes nothing that lasts.
LEMMA OverSocketPath ==
  ASSUME NEW os, NEW e, NEW call, NEW undo, NEW X,
         call \in {"setMTU", "SIOCGIFINDEX"}, "ctl" \notin X,
         Leaves(os, e, "socket", X \ undo), Leaves(os, e, call, X \ undo)
  PROVE  Path(os, e, OverSocket(call, undo), X, X)
<1>. DEFINE h == <<X, X, X>>
            p == OverSocket(call, undo)
            s == Step("socket", {"ctl"}, {}, undo)
            t == Step(call, {}, {"ctl"}, undo \cup {"ctl"})
<1>1. IsSeq(p) /\ Len(p) = 2
  BY OverSocketSteps
<1>2. p[1] = s /\ p[1 + 1] = t
  BY DEF OverSocket
<1>3. h[1] = X /\ h[1 + 1] = X /\ h[2 + 1] = X /\ h[2] = X
  OBVIOUS
<1>4. /\ s.call = "socket" /\ s.opens = {"ctl"} /\ s.closes = {} /\ s.undo = undo
      /\ t.call = call /\ t.opens = {} /\ t.closes = {"ctl"} /\ t.undo = undo \cup {"ctl"}
  BY DEF Step
<1>. HIDE DEF h, p, s, t
<1>5. X \ (undo \cup {"ctl"}) = X \ undo
  OBVIOUS
<1>6. Accounts(os, e, s, X, X)
  BY <1>4 DEF Accounts, Resource, Passing, Deferred, Optional
<1>7. Accounts(os, e, t, X, X)
  <2>1. Leaves(os, e, t.call, X \ t.undo)
    BY <1>4, <1>5
  <2>2. t.closes \subseteq Passing /\ X = (X \ t.closes) \cup (t.opens \ Passing)
    BY <1>4 DEF Passing, Deferred
  <2>. QED  BY <1>4, <2>1, <2>2 DEF Accounts
<1>8. \A k \in 1..Len(p) : k = 1 \/ k = 2
  BY <1>1
<1>9. 1 + 1 \in 1..Len(p) /\ "ctl" \in p[1 + 1].closes /\ "ctl" \notin p[2].opens
  BY <1>1, <1>2, <1>4
<1>10. p[2] = t
  BY <1>2
<1>11. \A k \in 1..Len(p) : Accounts(os, e, p[k], h[k], h[k + 1])
  BY <1>2, <1>3, <1>6, <1>7, <1>8, <1>10
<1>12. \A k \in 1..Len(p) :
         "ctl" \in p[k].opens => k + 1 \in 1..Len(p) /\ "ctl" \in p[k + 1].closes
  BY <1>8, <1>9
<1>13. Ledger(os, e, p, h)
  BY <1>1, <1>11, <1>12 DEF Ledger
<1>14. h[Len(p) + 1] = X
  BY <1>1, <1>3
<1>15. Path(os, e, p, X, X)
  BY <1>3, <1>13, <1>14 DEF Path
<1>. QED  BY <1>15 DEF p

\* A pair is two steps put together.
LEMMA Pair ==
  ASSUME NEW a, NEW b
  PROVE  <<a, b>> = <<a>> \o <<b>>
<1>1. <<a>> \in Seq({a, b}) /\ <<b>> \in Seq({a, b}) /\ <<a, b>> \in Seq({a, b})
  OBVIOUS
<1>2. (<<a>> \o <<b>>) \in Seq({a, b}) /\ Len(<<a>> \o <<b>>) = 2
  BY <1>1
<1>3. (<<a>> \o <<b>>)[1] = a /\ (<<a>> \o <<b>>)[2] = b
  BY <1>1
<1>4. \A k \in 1..2 : (<<a>> \o <<b>>)[k] = <<a, b>>[k]
  BY <1>3
<1>. QED  BY <1>1, <1>2, <1>4, SeqEqual

\* Two steps, and more, one after the other.
LEMMA TwoPath ==
  ASSUME NEW os, NEW e, NEW a, NEW b, NEW X, NEW Y, NEW Z,
         Path(os, e, <<a>>, X, Y), Path(os, e, <<b>>, Y, Z)
  PROVE  Path(os, e, <<a, b>>, X, Z)
<1>1. <<a, b>> = <<a>> \o <<b>>
  BY Pair
<1>2. Path(os, e, <<a>> \o <<b>>, X, Z)
  BY PathJoined
<1>. QED  BY <1>1, <1>2

LEMMA ThreePath ==
  ASSUME NEW os, NEW e, NEW a, NEW b, NEW c, NEW X, NEW Y, NEW Z,
         Path(os, e, <<a>>, X, Y), Path(os, e, <<b, c>>, Y, Z)
  PROVE  Path(os, e, <<a, b, c>>, X, Z)
<1>1. <<a, b, c>> = <<a>> \o <<b, c>>
  OBVIOUS
<1>2. Path(os, e, <<a>> \o <<b, c>>, X, Z)
  BY PathJoined
<1>. QED  BY <1>1, <1>2

LEMMA FourPath ==
  ASSUME NEW os, NEW e, NEW a, NEW b, NEW c, NEW d, NEW X, NEW Y, NEW Z,
         Path(os, e, <<a, b>>, X, Y), Path(os, e, <<c, d>>, Y, Z)
  PROVE  Path(os, e, <<a, b, c, d>>, X, Z)
<1>1. <<a, b, c, d>> = <<a, b>> \o <<c, d>>
  OBVIOUS
<1>2. Path(os, e, <<a, b>> \o <<c, d>>, X, Z)
  BY PathJoined
<1>. QED  BY <1>1, <1>2

LEMMA FivePath ==
  ASSUME NEW os, NEW e, NEW a, NEW b, NEW c, NEW d, NEW f, NEW X, NEW Y, NEW Z,
         Path(os, e, <<a, b>>, X, Y), Path(os, e, <<c, d, f>>, Y, Z)
  PROVE  Path(os, e, <<a, b, c, d, f>>, X, Z)
<1>1. <<a, b, c, d, f>> = <<a, b>> \o <<c, d, f>>
  OBVIOUS
<1>2. Path(os, e, <<a, b>> \o <<c, d, f>>, X, Z)
  BY PathJoined
<1>. QED  BY <1>1, <1>2

\* A step that opens and closes nothing.
LEMMA DoesPath ==
  ASSUME NEW os, NEW e, NEW call, NEW undo, NEW X, Leaves(os, e, call, X \ undo)
  PROVE  Path(os, e, <<Does(call, undo)>>, X, X)
<1>. DEFINE s == Does(call, undo)
<1>1. s.call = call /\ s.opens = {} /\ s.closes = {} /\ s.undo = undo
  BY DEF Does, Step
<1>. HIDE DEF s
<1>2. Accounts(os, e, s, X, X) /\ "ctl" \notin s.opens
  BY <1>1 DEF Accounts
<1>3. Path(os, e, <<s>>, X, X)
  BY <1>2, OnePath
<1>. QED  BY <1>3 DEF s

\* A step that opens what the device keeps.
LEMMA OpenPath ==
  ASSUME NEW os, NEW e, NEW call, NEW r \in Resource, r \notin Passing, call \notin Optional,
         NEW undo, NEW X, Leaves(os, e, call, X \ undo)
  PROVE  Path(os, e, <<Step(call, {r}, {}, undo)>>, X, X \cup {r})
<1>. DEFINE s == Step(call, {r}, {}, undo)
<1>1. s.call = call /\ s.opens = {r} /\ s.closes = {} /\ s.undo = undo
  BY DEF Step
<1>. HIDE DEF s
<1>2. (X \ s.closes) \cup (s.opens \ Passing) = X \cup {r}
  BY <1>1
<1>3. "ctl" \notin s.opens
  BY <1>1 DEF Passing
<1>4. Accounts(os, e, s, X, X \cup {r})
  BY <1>1, <1>2, <1>3 DEF Accounts
<1>5. Path(os, e, <<s>>, X, X \cup {r})
  BY <1>3, <1>4, OnePath
<1>. QED  BY <1>5 DEF s

\* A step that opens what a deferred call closes.
LEMMA DeferredPath ==
  ASSUME NEW os, NEW e, NEW call, NEW r \in Deferred, NEW undo, NEW X,
         Leaves(os, e, call, X \ undo)
  PROVE  Path(os, e, <<Step(call, {r}, {}, undo)>>, X, X)
<1>. DEFINE s == Step(call, {r}, {}, undo)
<1>1. s.call = call /\ s.opens = {r} /\ s.closes = {} /\ s.undo = undo
  BY DEF Step
<1>. HIDE DEF s
<1>2. X = (X \ s.closes) \cup (s.opens \ Passing)
  BY <1>1 DEF Passing
<1>3. "ctl" \notin s.opens /\ s.opens \subseteq Resource /\ s.opens \subseteq Passing
  BY <1>1 DEF Passing, Deferred, Resource
<1>4. Accounts(os, e, s, X, X)
  BY <1>1, <1>2, <1>3 DEF Accounts
<1>5. Path(os, e, <<s>>, X, X)
  BY <1>3, <1>4, OnePath
<1>. QED  BY <1>5 DEF s

\* A step that cannot fail.
LEMMA SurePath ==
  ASSUME NEW os, NEW e, NEW call, call \notin Optional,
         NEW opens, opens \subseteq Resource \ Passing,
         NEW closes, "ctl" \notin closes, NEW X
  PROVE  Path(os, e, <<Sure(call, opens, closes)>>, X, (X \ closes) \cup opens)
<1>. DEFINE s == Sure(call, opens, closes)
<1>1. s.call = call /\ s.opens = opens /\ s.closes = closes
  BY DEF Sure
<1>2. s.sure = TRUE
  BY Zenon DEF Sure
<1>. HIDE DEF s
<1>3. (X \ closes) \cup opens = (X \ s.closes) \cup (s.opens \ Passing)
  BY <1>1
<1>4. "ctl" \notin s.opens
  BY <1>1 DEF Passing
<1>5. Accounts(os, e, s, X, (X \ closes) \cup opens)
  <2>1. /\ s.opens \subseteq Resource
        /\ s.call \in Optional => s.opens \cup s.closes \subseteq Passing
        /\ "ctl" \in s.opens => s.call = "socket"
        /\ "ctl" \in s.closes => s.call \in {"setMTU", "SIOCGIFINDEX"} /\ "ctl" \in s.undo
    BY <1>1, <1>4
  <2>. QED  BY <1>2, <1>3, <2>1, Zenon DEF Accounts
<1>6. Path(os, e, <<s>>, X, (X \ closes) \cup opens)
  BY <1>4, <1>5, OnePath
<1>. QED  BY <1>6 DEF s

\* The Linux program until the file.
LEMMA LinuxOpensPath ==
  ASSUME NEW e
  PROVE  Path("linux", e, LinuxOpens, {}, {"file"})
<1>. DEFINE s1 == Step("open", {"fd"}, {}, {})
            s2 == Does("NewIfreq", {})
            s3 == Does("TUNSETIFF", {})
            s4 == Does("SetNonblock", {"fd"})
            s5 == Sure("NewFile", {"file"}, {"fd"})
            P(p, X, Y) == Path("linux", e, p, X, Y)
<1>1. LinuxOpens = <<s1, s2, s3, s4, s5>>
  BY DEF LinuxOpens
<1>2. P(<<s1>>, {}, {"fd"})
  <2>1. Leaves("linux", e, "open", {} \ {})
    BY DEF Leaves
  <2>2. "fd" \in Resource /\ "fd" \notin Passing /\ "open" \notin Optional
    BY DEF Resource, Passing, Deferred, Optional
  <2>3. Path("linux", e, <<s1>>, {}, {} \cup {"fd"})
    BY <2>1, <2>2, OpenPath
  <2>4. {} \cup {"fd"} = {"fd"}
    OBVIOUS
  <2>. QED  BY <2>3, <2>4
<1>3. P(<<s2>>, {"fd"}, {"fd"})
  <2>1. Leaves("linux", e, "NewIfreq", {"fd"} \ {})
    BY DEF Leaves
  <2>. QED  BY <2>1, DoesPath
<1>4. P(<<s3>>, {"fd"}, {"fd"})
  <2>1. Leaves("linux", e, "TUNSETIFF", {"fd"} \ {})
    BY DEF Leaves
  <2>. QED  BY <2>1, DoesPath
<1>5. P(<<s4>>, {"fd"}, {"fd"})
  <2>1. Leaves("linux", e, "SetNonblock", {"fd"} \ {"fd"})
    BY DEF Leaves
  <2>. QED  BY <2>1, DoesPath
<1>6. P(<<s5>>, {"fd"}, {"file"})
  <2>1. "NewFile" \notin Optional /\ {"file"} \subseteq Resource \ Passing /\ "ctl" \notin {"fd"}
    BY DEF Optional, Resource, Passing, Deferred
  <2>2. Path("linux", e, <<s5>>, {"fd"}, ({"fd"} \ {"fd"}) \cup {"file"})
    BY <2>1, SurePath
  <2>3. ({"fd"} \ {"fd"}) \cup {"file"} = {"file"}
    OBVIOUS
  <2>. QED  BY <2>2, <2>3
<1>. HIDE DEF s1, s2, s3, s4, s5
<1>7. P(<<s1, s2>>, {}, {"fd"})
  BY <1>2, <1>3, TwoPath
<1>8. P(<<s3, s4, s5>>, {"fd"}, {"file"})
  <2>1. P(<<s4, s5>>, {"fd"}, {"file"})
    BY <1>5, <1>6, TwoPath
  <2>. QED  BY <1>4, <2>1, ThreePath
<1>. QED  BY <1>1, <1>7, <1>8, FivePath

\* What the three Linux programs have in common.
LEMMA NamedPath ==
  ASSUME NEW e
  PROVE  /\ Path("linux", e, NameSlow, {"file"}, {"file"})
         /\ Path("linux", e, InitFromFlags, {"file"}, {"file"})
<1>. DEFINE X1 == {"file"}
            t1 == Does("TUNGETIFF", {})
            t2 == Does("tunTCPOffloads", {})
            t3 == Sure("tunUDPOffloads", {}, {})
            P(p, X, Y) == Path("linux", e, p, X, Y)
<1>1. P(NameSlow, X1, X1)
  <2>1. Leaves("linux", e, "Name", X1 \ {})
    BY DEF Leaves
  <2>. QED  BY <2>1, DoesPath DEF NameSlow
<1>2. P(<<t1>>, X1, X1)
  <2>1. Leaves("linux", e, "TUNGETIFF", X1 \ {})
    BY DEF Leaves
  <2>. QED  BY <2>1, DoesPath
<1>3. P(<<t2>>, X1, X1)
  <2>1. Leaves("linux", e, "tunTCPOffloads", X1 \ {})
    BY DEF Leaves
  <2>. QED  BY <2>1, DoesPath
<1>4. P(<<t3>>, X1, X1)
  <2>1. "tunUDPOffloads" \notin Optional /\ {} \subseteq Resource \ Passing /\ "ctl" \notin {}
    BY DEF Optional
  <2>2. Path("linux", e, <<t3>>, X1, (X1 \ {}) \cup {})
    BY <2>1, SurePath
  <2>3. (X1 \ {}) \cup {} = X1
    OBVIOUS
  <2>. QED  BY <2>2, <2>3
<1>5. InitFromFlags = <<t1, t2, t3>>
  BY DEF InitFromFlags
<1>. HIDE DEF t1, t2, t3, X1
<1>6. P(<<t2, t3>>, X1, X1)
  BY <1>3, <1>4, TwoPath
<1>7. P(InitFromFlags, X1, X1)
  BY <1>2, <1>5, <1>6, ThreePath
<1>. QED  BY <1>1, <1>7 DEF X1

\* ... and from the file on.
LEMMA LinuxFilePath ==
  ASSUME NEW e
  PROVE  Path("linux", e, LinuxFromFile, {"file"}, {"file", "netlink", "pipe", "goroutines"})
<1>. DEFINE X1 == {"file"}
            X2 == {"file", "netlink"}
            X3 == {"file", "netlink", "pipe"}
            X4 == {"file", "netlink", "pipe", "goroutines"}
            s1 == Step("NewRWCancel", {"pipe"}, {}, {"netlink"})
            s2 == Sure("go", {"goroutines"}, {})
            P(p, X, Y) == Path("linux", e, p, X, Y)
<1>1. P(NameSlow, X1, X1) /\ P(InitFromFlags, X1, X1)
  BY NamedPath
<1>2. P(GetIFIndex, X1, X1)
  <2>1. Leaves("linux", e, "socket", X1 \ {})
    BY DEF Leaves
  <2>2. Leaves("linux", e, "SIOCGIFINDEX", X1 \ {})
    BY DEF Leaves
  <2>3. "ctl" \notin X1
    OBVIOUS
  <2>. HIDE DEF X1
  <2>. QED  BY <2>1, <2>2, <2>3, OverSocketPath DEF GetIFIndex
<1>3. P(CreateNetlinkSocket, X1, X2)
  <2>. DEFINE t1 == Step("netlink", {"netlink"}, {}, {})
              t2 == Does("bind", {})
  <2>1. P(<<t1>>, X1, X2)
    <3>1. Leaves("linux", e, "netlink", X1 \ {})
      BY DEF Leaves
    <3>2. "netlink" \in Resource /\ "netlink" \notin Passing /\ "netlink" \notin Optional
      BY DEF Resource, Passing, Deferred, Optional
    <3>3. Path("linux", e, <<t1>>, X1, X1 \cup {"netlink"})
      BY <3>1, <3>2, OpenPath
    <3>4. X1 \cup {"netlink"} = X2
      OBVIOUS
    <3>. QED  BY <3>3, <3>4
  <2>2. P(<<t2>>, X2, X2)
    <3>1. Leaves("linux", e, "bind", X2 \ {})
      BY DEF Leaves
    <3>. QED  BY <3>1, DoesPath
  <2>3. CreateNetlinkSocket = <<t1, t2>>
    BY DEF CreateNetlinkSocket
  <2>. HIDE DEF t1, t2
  <2>. QED  BY <2>1, <2>2, <2>3, TwoPath
<1>4. P(<<s1, s2>>, X2, X4)
  <2>1. P(<<s1>>, X2, X3)
    <3>1. Leaves("linux", e, "NewRWCancel", X2 \ {"netlink"})
      BY DEF Leaves
    <3>2. "pipe" \in Resource /\ "pipe" \notin Passing /\ "NewRWCancel" \notin Optional
      BY DEF Resource, Passing, Deferred, Optional
    <3>3. Path("linux", e, <<s1>>, X2, X2 \cup {"pipe"})
      BY <3>1, <3>2, OpenPath
    <3>4. X2 \cup {"pipe"} = X3
      OBVIOUS
    <3>. QED  BY <3>3, <3>4
  <2>2. P(<<s2>>, X3, X4)
    <3>1. "go" \notin Optional /\ {"goroutines"} \subseteq Resource \ Passing /\ "ctl" \notin {}
      BY DEF Optional, Resource, Passing, Deferred
    <3>2. Path("linux", e, <<s2>>, X3, (X3 \ {}) \cup {"goroutines"})
      BY <3>1, SurePath
    <3>3. (X3 \ {}) \cup {"goroutines"} = X4
      OBVIOUS
    <3>. QED  BY <3>2, <3>3
  <2>. HIDE DEF s1, s2
  <2>. QED  BY <2>1, <2>2, TwoPath
<1>5. P(OverSocket("setMTU", {"netlink"}), X4, X4)
  <2>1. Leaves("linux", e, "socket", X4 \ {"netlink"})
    BY DEF Leaves
  <2>2. Leaves("linux", e, "setMTU", X4 \ {"netlink"})
    BY DEF Leaves
  <2>3. "ctl" \notin X4
    OBVIOUS
  <2>. HIDE DEF X4
  <2>. QED  BY <2>1, <2>2, <2>3, OverSocketPath
<1>. HIDE DEF X1, X2, X3, X4, s1, s2
<1>6. P(NameSlow \o InitFromFlags \o GetIFIndex, X1, X1)
  BY <1>1, <1>2, PathJoined
<1>7. P(NameSlow \o InitFromFlags \o GetIFIndex \o CreateNetlinkSocket, X1, X2)
  BY <1>3, <1>6, PathJoined
<1>8. P(NameSlow \o InitFromFlags \o GetIFIndex \o CreateNetlinkSocket \o <<s1, s2>>, X1, X4)
  BY <1>4, <1>7, PathJoined
<1>9. P(LinuxFromFile, X1, X4)
  BY <1>5, <1>8, PathJoined DEF LinuxFromFile, s1, s2
<1>. QED  BY <1>9 DEF X1, X4

\* A descriptor that is handed over without monitoring.
LEMMA LinuxUnmonitoredPath ==
  Path("linux", "Unmonitored", LinuxUnmonitored, {"fd"}, {"file"})
<1>. DEFINE s1 == Does("SetNonblock", {})
            s2 == Sure("NewFile", {"file"}, {"fd"})
            X1 == {"fd"}
            X2 == {"file"}
            P(p, X, Y) == Path("linux", "Unmonitored", p, X, Y)
<1>1. P(<<s1>>, X1, X1)
  <2>1. Leaves("linux", "Unmonitored", "SetNonblock", X1 \ {})
    BY DEF Leaves
  <2>. QED  BY <2>1, DoesPath
<1>2. P(<<s2>>, X1, X2)
  <2>1. "NewFile" \notin Optional /\ {"file"} \subseteq Resource \ Passing /\ "ctl" \notin {"fd"}
    BY DEF Optional, Resource, Passing, Deferred
  <2>2. Path("linux", "Unmonitored", <<s2>>, X1, (X1 \ {"fd"}) \cup {"file"})
    BY <2>1, SurePath
  <2>3. (X1 \ {"fd"}) \cup {"file"} = X2
    OBVIOUS
  <2>. QED  BY <2>2, <2>3
<1>3. P(NameSlow, X2, X2) /\ P(InitFromFlags, X2, X2)
  BY NamedPath
<1>4. LinuxUnmonitored = <<s1, s2>> \o NameSlow \o InitFromFlags
  BY DEF LinuxUnmonitored
<1>. HIDE DEF s1, s2, X1, X2
<1>5. P(<<s1, s2>>, X1, X2)
  BY <1>1, <1>2, TwoPath
<1>6. P(<<s1, s2>> \o NameSlow, X1, X2)
  BY <1>3, <1>5, PathJoined
<1>7. P(<<s1, s2>> \o NameSlow \o InitFromFlags, X1, X2)
  BY <1>3, <1>6, PathJoined
<1>. QED  BY <1>4, <1>7 DEF X1, X2

\* Where a failure must leave nothing, the undo of a step that opens and closes
\* nothing has everything.
LEMMA CleanPath ==
  ASSUME NEW os, os # "linux", NEW e, NEW call, NEW undo, NEW X, X \subseteq undo
  PROVE  Path(os, e, <<Does(call, undo)>>, X, X)
<1>1. Leaves(os, e, call, X \ undo)
  BY DEF Leaves
<1>. QED  BY <1>1, DoesPath

\* The BSDs from the file on.
LEMMA ListenPath ==
  ASSUME NEW os, os # "linux", NEW e
  PROVE  Path(os, e, Listen, {"file"}, {"file", "route", "goroutines"})
<1>. DEFINE s1 == Does("Name", {"file"})
            s2 == Does("InterfaceByName", {"file"})
            s3 == Step("AF_ROUTE", {"route"}, {}, {"file"})
            s4 == Sure("go", {"goroutines"}, {})
            X1 == {"file"}
            X2 == {"file", "route"}
            X3 == {"file", "route", "goroutines"}
            P(p, X, Y) == Path(os, e, p, X, Y)
<1>1. P(<<s1>>, X1, X1) /\ P(<<s2>>, X1, X1)
  BY CleanPath
<1>2. P(<<s3>>, X1, X2)
  <2>1. Leaves(os, e, "AF_ROUTE", X1 \ {"file"})
    BY DEF Leaves
  <2>2. "route" \in Resource /\ "route" \notin Passing /\ "AF_ROUTE" \notin Optional
    BY DEF Resource, Passing, Deferred, Optional
  <2>3. Path(os, e, <<s3>>, X1, X1 \cup {"route"})
    BY <2>1, <2>2, OpenPath
  <2>4. X1 \cup {"route"} = X2
    OBVIOUS
  <2>. QED  BY <2>3, <2>4
<1>3. P(<<s4>>, X2, X3)
  <2>1. "go" \notin Optional /\ {"goroutines"} \subseteq Resource \ Passing /\ "ctl" \notin {}
    BY DEF Optional, Resource, Passing, Deferred
  <2>2. Path(os, e, <<s4>>, X2, (X2 \ {}) \cup {"goroutines"})
    BY <2>1, SurePath
  <2>3. (X2 \ {}) \cup {"goroutines"} = X3
    OBVIOUS
  <2>. QED  BY <2>2, <2>3
<1>4. Listen = <<s1, s2, s3, s4>>
  BY DEF Listen
<1>. HIDE DEF s1, s2, s3, s4, X1, X2, X3
<1>5. P(<<s1, s2>>, X1, X1)
  BY <1>1, TwoPath
<1>6. P(<<s3, s4>>, X1, X3)
  BY <1>2, <1>3, TwoPath
<1>7. P(Listen, X1, X3)
  BY <1>4, <1>5, <1>6, FourPath
<1>. QED  BY <1>7 DEF X1, X3

\* CloseAll has all that a device of a BSD holds.
LEMMA BsdSetMTUPath ==
  ASSUME NEW os, os # "linux", NEW e
  PROVE  Path(os, e, BsdSetMTU, {"file", "route", "goroutines"}, {"file", "route", "goroutines"})
<1>. DEFINE X == {"file", "route", "goroutines"}
<1>1. Leaves(os, e, "socket", X \ CloseAll)
  BY DEF Leaves, CloseAll
<1>2. Leaves(os, e, "setMTU", X \ CloseAll)
  BY DEF Leaves, CloseAll
<1>3. "ctl" \notin X
  OBVIOUS
<1>. HIDE DEF X
<1>4. Path(os, e, OverSocket("setMTU", CloseAll), X, X)
  BY <1>1, <1>2, <1>3, OverSocketPath
<1>. QED  BY <1>4 DEF BsdSetMTU, X

\* What CreateTUN of each platform does before.
LEMMA DarwinOpensPath ==
  ASSUME NEW e
  PROVE  Path("darwin", e, DarwinOpens, {}, {"file"})
<1>. DEFINE s1 == Does("Sscanf", {})
            s2 == Step("AF_SYSTEM", {"fd"}, {}, {})
            s3 == Does("CtlInfo", {"fd"})
            s4 == Does("connect", {"fd"})
            s5 == Does("SetNonblock", {"fd"})
            s6 == Sure("NewFile", {"file"}, {"fd"})
            X1 == {}
            X2 == {"fd"}
            X3 == {"file"}
            P(p, X, Y) == Path("darwin", e, p, X, Y)
<1>1. P(<<s1>>, X1, X1)
  BY CleanPath
<1>2. P(<<s2>>, X1, X2)
  <2>1. Leaves("darwin", e, "AF_SYSTEM", X1 \ {})
    BY DEF Leaves
  <2>2. "fd" \in Resource /\ "fd" \notin Passing /\ "AF_SYSTEM" \notin Optional
    BY DEF Resource, Passing, Deferred, Optional
  <2>3. Path("darwin", e, <<s2>>, X1, X1 \cup {"fd"})
    BY <2>1, <2>2, OpenPath
  <2>4. X1 \cup {"fd"} = X2
    OBVIOUS
  <2>. QED  BY <2>3, <2>4
<1>3. P(<<s3>>, X2, X2) /\ P(<<s4>>, X2, X2) /\ P(<<s5>>, X2, X2)
  BY CleanPath
<1>4. P(<<s6>>, X2, X3)
  <2>1. "NewFile" \notin Optional /\ {"file"} \subseteq Resource \ Passing /\ "ctl" \notin {"fd"}
    BY DEF Optional, Resource, Passing, Deferred
  <2>2. Path("darwin", e, <<s6>>, X2, (X2 \ {"fd"}) \cup {"file"})
    BY <2>1, SurePath
  <2>3. (X2 \ {"fd"}) \cup {"file"} = X3
    OBVIOUS
  <2>. QED  BY <2>2, <2>3
<1>5. DarwinOpens = <<s1, s2, s3, s4, s5, s6>>
  BY DEF DarwinOpens
<1>. HIDE DEF s1, s2, s3, s4, s5, s6, X1, X2, X3
<1>6. <<s1, s2, s3, s4, s5, s6>> = <<s1, s2, s3>> \o <<s4, s5, s6>>
  OBVIOUS
<1>7. P(<<s2, s3>>, X1, X2)
  BY <1>2, <1>3, TwoPath
<1>8. P(<<s1, s2, s3>>, X1, X2)
  BY <1>1, <1>7, ThreePath
<1>9. P(<<s5, s6>>, X2, X3)
  BY <1>3, <1>4, TwoPath
<1>10. P(<<s4, s5, s6>>, X2, X3)
  BY <1>3, <1>9, ThreePath
<1>11. P(<<s1, s2, s3>> \o <<s4, s5, s6>>, X1, X3)
  BY <1>8, <1>10, PathJoined
<1>. QED  BY <1>5, <1>6, <1>11 DEF X1, X3

LEMMA OpenbsdOpensPath ==
  ASSUME NEW e
  PROVE  Path("openbsd", e, OpenbsdOpens, {}, {"file"})
<1>. DEFINE s1 == Does("Sscanf", {})
            s2 == Step("open", {"file"}, {}, {})
            X1 == {}
<1>1. Path("openbsd", e, <<s1>>, X1, X1)
  BY CleanPath
<1>2. Path("openbsd", e, <<s2>>, X1, {"file"})
  <2>1. Leaves("openbsd", e, "open", X1 \ {})
    BY DEF Leaves
  <2>2. "file" \in Resource /\ "file" \notin Passing /\ "open" \notin Optional
    BY DEF Resource, Passing, Deferred, Optional
  <2>3. Path("openbsd", e, <<s2>>, X1, X1 \cup {"file"})
    BY <2>1, <2>2, OpenPath
  <2>4. X1 \cup {"file"} = {"file"}
    OBVIOUS
  <2>. QED  BY <2>3, <2>4
<1>3. OpenbsdOpens = <<s1, s2>>
  BY DEF OpenbsdOpens
<1>. HIDE DEF s1, s2, X1
<1>4. Path("openbsd", e, OpenbsdOpens, X1, {"file"})
  BY <1>1, <1>2, <1>3, TwoPath
<1>. QED  BY <1>4 DEF X1

LEMMA WindowsOpensPath ==
  ASSUME NEW e
  PROVE  Path("windows", e, WindowsOpens, {}, {"adapter", "session"})
<1>. DEFINE s1 == Step("CreateAdapter", {"adapter"}, {}, {})
            s2 == Step("StartSession", {"session"}, {}, {"adapter"})
            X1 == {}
            X2 == {"adapter"}
            X3 == {"adapter", "session"}
<1>1. Path("windows", e, <<s1>>, X1, X2)
  <2>1. Leaves("windows", e, "CreateAdapter", X1 \ {})
    BY DEF Leaves
  <2>2. "adapter" \in Resource /\ "adapter" \notin Passing /\ "CreateAdapter" \notin Optional
    BY DEF Resource, Passing, Deferred, Optional
  <2>3. Path("windows", e, <<s1>>, X1, X1 \cup {"adapter"})
    BY <2>1, <2>2, OpenPath
  <2>4. X1 \cup {"adapter"} = X2
    OBVIOUS
  <2>. QED  BY <2>3, <2>4
<1>2. Path("windows", e, <<s2>>, X2, X3)
  <2>1. Leaves("windows", e, "StartSession", X2 \ {"adapter"})
    BY DEF Leaves
  <2>2. "session" \in Resource /\ "session" \notin Passing /\ "StartSession" \notin Optional
    BY DEF Resource, Passing, Deferred, Optional
  <2>3. Path("windows", e, <<s2>>, X2, X2 \cup {"session"})
    BY <2>1, <2>2, OpenPath
  <2>4. X2 \cup {"session"} = X3
    OBVIOUS
  <2>. QED  BY <2>3, <2>4
<1>3. WindowsOpens = <<s1, s2>>
  BY DEF WindowsOpens
<1>. HIDE DEF s1, s2, X1, X2, X3
<1>4. Path("windows", e, WindowsOpens, X1, X3)
  BY <1>1, <1>2, <1>3, TwoPath
<1>. QED  BY <1>4 DEF X1, X3

LEMMA FreebsdOpensPath ==
  ASSUME NEW e
  PROVE  Path("freebsd", e, FreebsdOpens, {}, {"file"})
<1>. DEFINE undo == {"file", "iface"}
            s1 == Does("exists", {})
            s2 == Step("open", {"file"}, {}, {})
            s3 == Does("tunName", {"file"})
            s4 == Does("TUNSIFHEAD", undo)
            s5 == Does("TUNSIFMODE", undo)
            s6 == Step("AF_INET6", {"confd6"}, {}, undo)
            s7 == Does("SIOCGIFINFO_IN6", undo)
            s8 == Does("SIOCSIFINFO_IN6", undo)
            s9 == Step("AF_INET", {"confd"}, {}, undo)
            s10 == Does("SIOCSIFNAME", undo)
            X1 == {}
            X2 == {"file"}
            P(p, X, Y) == Path("freebsd", e, p, X, Y)
<1>1. P(<<s1>>, X1, X1)
  BY CleanPath
<1>2. P(<<s2>>, X1, X2)
  <2>1. Leaves("freebsd", e, "open", X1 \ {})
    BY DEF Leaves
  <2>2. "file" \in Resource /\ "file" \notin Passing /\ "open" \notin Optional
    BY DEF Resource, Passing, Deferred, Optional
  <2>3. Path("freebsd", e, <<s2>>, X1, X1 \cup {"file"})
    BY <2>1, <2>2, OpenPath
  <2>4. X1 \cup {"file"} = X2
    OBVIOUS
  <2>. QED  BY <2>3, <2>4
<1>3. /\ P(<<s3>>, X2, X2) /\ P(<<s4>>, X2, X2) /\ P(<<s5>>, X2, X2)
      /\ P(<<s7>>, X2, X2) /\ P(<<s8>>, X2, X2) /\ P(<<s10>>, X2, X2)
  BY CleanPath
<1>4. P(<<s6>>, X2, X2)
  <2>1. Leaves("freebsd", e, "AF_INET6", X2 \ undo)
    BY DEF Leaves
  <2>2. "confd6" \in Deferred
    BY DEF Deferred
  <2>. HIDE DEF undo, X2
  <2>. QED  BY <2>1, <2>2, DeferredPath
<1>5. P(<<s9>>, X2, X2)
  <2>1. Leaves("freebsd", e, "AF_INET", X2 \ undo)
    BY DEF Leaves
  <2>2. "confd" \in Deferred
    BY DEF Deferred
  <2>. HIDE DEF undo, X2
  <2>. QED  BY <2>1, <2>2, DeferredPath
<1>6. FreebsdOpens = <<s1, s2, s3, s4, s5, s6, s7, s8, s9, s10>>
  BY DEF FreebsdOpens
<1>. HIDE DEF s1, s2, s3, s4, s5, s6, s7, s8, s9, s10, X1, X2
<1>7. <<s1, s2, s3, s4, s5, s6, s7, s8, s9, s10>>
        = <<s1, s2, s3, s4, s5>> \o <<s6, s7, s8, s9, s10>>
  OBVIOUS
<1>8. P(<<s1, s2, s3, s4, s5>>, X1, X2)
  <2>1. P(<<s1, s2>>, X1, X2)
    BY <1>1, <1>2, TwoPath
  <2>2. P(<<s4, s5>>, X2, X2)
    BY <1>3, TwoPath
  <2>3. P(<<s3, s4, s5>>, X2, X2)
    BY <1>3, <2>2, ThreePath
  <2>. QED  BY <2>1, <2>3, FivePath
<1>9. P(<<s6, s7, s8, s9, s10>>, X2, X2)
  <2>1. P(<<s6, s7>>, X2, X2)
    BY <1>3, <1>4, TwoPath
  <2>2. P(<<s9, s10>>, X2, X2)
    BY <1>3, <1>5, TwoPath
  <2>3. P(<<s8, s9, s10>>, X2, X2)
    BY <1>3, <2>2, ThreePath
  <2>. QED  BY <2>1, <2>3, FivePath
<1>10. P(<<s1, s2, s3, s4, s5>> \o <<s6, s7, s8, s9, s10>>, X1, X2)
  BY <1>8, <1>9, PathJoined
<1>. QED  BY <1>6, <1>7, <1>10 DEF X1, X2

\* What a call is given, and what the device has in the end: DeviceHolds.
Given(c) == CASE entry[c] = "CreateTUN" -> {}
              [] entry[c] = "FromFile" -> {"file"}
              [] entry[c] = "Unmonitored" -> {"fd"}
DeviceHeld(c) ==
  CASE entry[c] = "Unmonitored" -> {"file"}
    [] platform = "linux" /\ entry[c] # "Unmonitored" ->
         {"file", "netlink", "pipe", "goroutines"}
    [] platform = "windows" -> {"adapter", "session"}
    [] platform \notin {"linux", "windows"} -> {"file", "route", "goroutines"}

\* Every program, on every platform, leads from the one to the other.
LEMMA ProgramPath ==
  ASSUME CallTypes, NEW c \in Creators, platform = "windows" => entry[c] = "CreateTUN"
  PROVE  Path(platform, entry[c], Program(c), Given(c), DeviceHeld(c))
<1>. DEFINE os == platform
            e == entry[c]
            L == {"file", "netlink", "pipe", "goroutines"}
            B == {"file", "route", "goroutines"}
            W == {"adapter", "session"}
            P(p, X, Y) == Path(platform, entry[c], p, X, Y)
<1>1. CASE e = "Unmonitored"
  <2>1. platform = "linux"
    BY <1>1 DEF CallTypes
  <2>2. Program(c) = LinuxUnmonitored /\ Given(c) = {"fd"} /\ DeviceHeld(c) = {"file"}
    BY <1>1, <2>1 DEF Program, Given, DeviceHeld
  <2>3. Path("linux", "Unmonitored", Program(c), Given(c), DeviceHeld(c))
    BY <2>2, LinuxUnmonitoredPath
  <2>. QED  BY <1>1, <2>1, <2>3, Zenon
<1>2. CASE e # "Unmonitored" /\ platform = "linux"
  <2>1. DeviceHeld(c) = L /\ FromFile = LinuxFromFile /\ Opens = LinuxOpens
    BY <1>2 DEF DeviceHeld, FromFile, Opens
  <2>2. P(LinuxOpens, {}, {"file"})
    BY <1>2, LinuxOpensPath
  <2>3. P(LinuxFromFile, {"file"}, L)
    BY <1>2, LinuxFilePath
  <2>. HIDE DEF L
  <2>4. CASE e = "FromFile"
    <3>1. Program(c) = LinuxFromFile /\ Given(c) = {"file"}
      BY <2>1, <2>4 DEF Program, Given
    <3>. QED  BY <2>1, <2>3, <3>1
  <2>5. CASE e = "CreateTUN"
    <3>1. Program(c) = LinuxOpens \o LinuxFromFile /\ Given(c) = {}
      BY <2>1, <2>5 DEF Program, Given
    <3>2. P(LinuxOpens \o LinuxFromFile, {}, L)
      BY <2>2, <2>3, PathJoined
    <3>. QED  BY <2>1, <3>1, <3>2
  <2>. QED  BY <1>2, <2>4, <2>5 DEF CallTypes
<1>3. CASE platform \in {"darwin", "freebsd", "openbsd"}
  <2>1. DeviceHeld(c) = B /\ e # "Unmonitored"
    BY <1>3 DEF DeviceHeld, CallTypes
  <2>2. P(Listen, {"file"}, B) /\ P(BsdSetMTU, B, B)
    BY <1>3, ListenPath, BsdSetMTUPath
  <2>3. P(FromFile, {"file"}, B)
    <3>1. CASE platform \in {"darwin", "openbsd"}
      <4>1. FromFile = Listen \o BsdSetMTU
        BY <3>1 DEF FromFile, DarwinFromFile, OpenbsdFromFile
      <4>. HIDE DEF B
      <4>. QED  BY <2>2, <4>1, PathJoined
    <3>2. CASE platform = "freebsd"
      <4>1. P(<<Does("TUNSIFPID", {"file"})>>, {"file"}, {"file"})
        BY <3>2, CleanPath
      <4>. DEFINE pid == <<Does("TUNSIFPID", {"file"})>>
      <4>2. FromFile = pid \o Listen \o BsdSetMTU
        BY <3>2 DEF FromFile, FreebsdFromFile
      <4>3. P(pid, {"file"}, {"file"})
        BY <4>1
      <4>. HIDE DEF B, pid
      <4>4. P(pid \o Listen, {"file"}, B)
        BY <2>2, <4>3, PathJoined
      <4>. QED  BY <2>2, <4>2, <4>4, PathJoined
    <3>. QED  BY <1>3, <3>1, <3>2
  <2>4. P(Opens, {}, {"file"})
    <3>1. CASE platform = "darwin"
      BY <3>1, DarwinOpensPath DEF Opens
    <3>2. CASE platform = "freebsd"
      BY <3>2, FreebsdOpensPath DEF Opens
    <3>3. CASE platform = "openbsd"
      BY <3>3, OpenbsdOpensPath DEF Opens
    <3>. QED  BY <1>3, <3>1, <3>2, <3>3
  <2>. HIDE DEF B
  <2>5. CASE e = "FromFile"
    <3>1. Program(c) = FromFile /\ Given(c) = {"file"}
      BY <2>5 DEF Program, Given
    <3>. QED  BY <2>1, <2>3, <3>1
  <2>6. CASE e = "CreateTUN"
    <3>1. Program(c) = Opens \o FromFile /\ Given(c) = {}
      BY <2>6 DEF Program, Given
    <3>2. P(Opens \o FromFile, {}, B)
      BY <2>3, <2>4, PathJoined
    <3>. QED  BY <2>1, <3>1, <3>2
  <2>. QED  BY <2>1, <2>5, <2>6 DEF CallTypes
<1>4. CASE platform = "windows"
  <2>1. DeviceHeld(c) = W /\ Given(c) = {} /\ Program(c) = WindowsOpens \o <<>>
    BY <1>4 DEF DeviceHeld, Given, Program, Opens, FromFile
  <2>2. P(WindowsOpens, {}, W)
    BY <1>4, WindowsOpensPath
  <2>3. IsSeq(<<>>) /\ Len(<<>>) = 0 /\ \A k \in 1..0 : FALSE
    BY Tuples
  <2>. HIDE DEF W
  <2>4. P(<<>>, W, W)
    BY <2>3, FlatPath
  <2>5. P(WindowsOpens \o <<>>, {}, W)
    BY <2>2, <2>4, PathJoined
  <2>. QED  BY <2>1, <2>5
<1>. QED  BY <1>1, <1>2, <1>3, <1>4, PlatformAssumption DEF CallTypes
-----------------------------------------------------------------------------
(***************************************************************************)
(* Names and units.                                                        *)
(***************************************************************************)

NameOf == {NoName} \cup Asked \cup AllUnits

NameTypes == /\ unit \in [Creators -> DOMAIN Units]
             /\ iface \in [Creators -> NameOf] /\ known \in [Creators -> NameOf]

\* Before any call.
LEMMA NamesInit == Init => NameTypes
<1>. SUFFICES ASSUME Init PROVE NameTypes
  OBVIOUS
<1>1. ASSUME NEW c \in Creators PROVE 1 \in DOMAIN Units
  <2>1. Cardinality(Creators) # 0 /\ Cardinality(Creators) \in Nat
    BY NameAssumption, FS_EmptySet, FS_CardinalityType
  <2>. QED  BY <2>1, NameAssumption
<1>2. unit \in [Creators -> DOMAIN Units]
  BY <1>1 DEF Init
<1>3. iface \in [Creators -> NameOf] /\ known \in [Creators -> NameOf]
  BY DEF Init, NameOf, AllUnits
<1>. QED  BY <1>2, <1>3 DEF NameTypes

\* The name an interface gets is one that was asked for or chosen.
LEMMA NamesPass ==
  ASSUME IfaceInv, NameTypes, NEW c \in Creators, Pass(c)
  PROVE  NameTypes'
<1>1. /\ at[c] \in 1..Len(Program(c)) /\ unit' = unit
      /\ known' = IF Now(c).call \in {"tunName", "Name"}
                  THEN [known EXCEPT ![c] = iface[c]] ELSE known
      /\ iface' = CASE Makes(c) -> [iface EXCEPT ![c] = MadeName(c)]
                    [] Now(c).call = "SIOCSIFNAME" -> [iface EXCEPT ![c] = asked[c]]
                    [] OTHER -> iface
  BY DEF Pass, Busy, IfaceInv, StateTypes
<1>2. asked[c] \in NameOf
  BY DEF IfaceInv, CallTypes, NameOf
<1>3. Makes(c) => MadeName(c) \in NameOf
  <2>. SUFFICES ASSUME Makes(c) PROVE MadeName(c) \in NameOf
    OBVIOUS
  <2>1. entry[c] = "CreateTUN" /\ at[c] = MakesAt
    BY <1>1, ProgramSteps DEF Makes, Now, IfaceInv
  <2>2. MakesAt \in {1, 2, 3, 4}
    BY DEF MakesAt
  <2>3. iface[c] = NoName
    BY <2>1, <2>2 DEF IfaceInv, NotYet
  <2>4. FirstFree \in NameOf
    BY <2>3, FirstFreeUnit DEF NameOf
  <2>5. Units[unit[c]] \in NameOf
    BY DEF NameTypes, NameOf, AllUnits
  <2>. QED  BY <1>2, <2>4, <2>5 DEF MadeName
<1>4. iface' \in [Creators -> NameOf]
  <2>1. CASE Makes(c)
    <3>1. Now(c).call # "SIOCSIFNAME"
      BY <2>1 DEF Makes, MakingCall
    <3>2. iface' = [iface EXCEPT ![c] = MadeName(c)]
      BY <1>1, <2>1, <3>1
    <3>. QED  BY <1>3, <2>1, <3>2 DEF NameTypes
  <2>2. CASE ~Makes(c) /\ Now(c).call = "SIOCSIFNAME"
    <3>1. iface' = [iface EXCEPT ![c] = asked[c]]
      BY <1>1, <2>2
    <3>. QED  BY <1>2, <3>1 DEF NameTypes
  <2>3. CASE ~Makes(c) /\ Now(c).call # "SIOCSIFNAME"
    BY <1>1, <2>3 DEF NameTypes
  <2>. QED  BY <2>1, <2>2, <2>3
<1>5. known' \in [Creators -> NameOf]
  BY <1>1 DEF NameTypes
<1>. QED  BY <1>1, <1>4, <1>5 DEF NameTypes

\* No step of device creation makes up a name.
LEMMA NamesStep ==
  ASSUME IfaceInv, NameTypes, [Next]_vars
  PROVE  NameTypes'
<1>1. ASSUME NEW c \in Creators, TryNext(c) PROVE NameTypes'
  <2>1. /\ unit' = [unit EXCEPT ![c] = @ + 1] /\ unit[c] < Len(Units)
        /\ UNCHANGED <<iface, known>>
    BY <1>1 DEF TryNext
  <2>2. DOMAIN Units = 1..Len(Units) /\ Len(Units) \in Nat
    BY NameAssumption
  <2>3. unit[c] + 1 \in DOMAIN Units
    BY <2>1, <2>2 DEF NameTypes
  <2>. QED  BY <2>1, <2>3 DEF NameTypes
<1>2. ASSUME NEW c \in Creators, Fail(c) \/ Collect(c) PROVE NameTypes'
  <2>1. UNCHANGED <<unit, known>>
    BY <1>2 DEF Fail, Collect
  <2>2. iface' \in [Creators -> NameOf]
    <3>1. CASE Fail(c)
      <4>. PICK destroys \in BOOLEAN : iface' = AfterUndo(c, Now(c).undo, destroys)
        BY <3>1 DEF Fail
      <4>. QED  BY DEF AfterUndo, NameTypes, NameOf
    <3>2. CASE Collect(c)
      <4>1. iface' = [iface EXCEPT ![c] = IF Drops({"file"}) THEN NoName ELSE @]
        BY <3>2 DEF Collect
      <4>2. IF Drops({"file"}) THEN NoName \in NameOf ELSE iface[c] \in NameOf
        BY DEF NameTypes, NameOf
      <4>. QED  BY <4>1, <4>2 DEF NameTypes
    <3>. QED  BY <1>2, <3>1, <3>2
  <2>. QED  BY <2>1, <2>2 DEF NameTypes
<1>3. CASE UNCHANGED vars \/ \E c \in Creators : LeaveOut(c) \/ Succeed(c)
  BY <1>3 DEF LeaveOut, Succeed, vars, NameTypes
<1>. QED  BY <1>1, <1>2, <1>3, NamesPass DEF Next, Creates
-----------------------------------------------------------------------------
(***************************************************************************)
(* What is held.                                                           *)
(***************************************************************************)

\* A call that goes on holds what the ledger of its program says, and what the
\* deferred calls close; over a control socket it makes only the next call.
Along(c) == \E h :
  /\ Ledger(platform, entry[c], Program(c), h)
  /\ h[at[c]] = held[c] \ Passing
  /\ h[Len(Program(c)) + 1] = DeviceHeld(c)
  /\ "ctl" \in held[c] =>
       /\ at[c] \in 1..Len(Program(c)) /\ "ctl" \in Program(c)[at[c]].closes
       /\ ~(platform = "darwin" /\ want[c] = "none")

HeldOf(c) ==
  /\ at[c] \in 1..(Len(Program(c)) + 1)
  /\ result[c] = "running" => Along(c)
  /\ result[c] = "error" => Leaves(platform, entry[c], failedAt[c], held[c])
  /\ result[c] = "ok" => held[c] = DeviceHeld(c)

HeldTypes == held \in [Creators -> SUBSET Resource] /\ DOMAIN failedAt = Creators
HeldInv == HeldTypes /\ \A c \in Creators : HeldOf(c)

\* A call that goes on stands before a step of its program.
LEMMA NowAccounts ==
  ASSUME NEW os, NEW e, NEW p, NEW h, Ledger(os, e, p, h), NEW k \in 1..Len(p)
  PROVE  /\ Accounts(os, e, p[k], h[k], h[k + 1])
         /\ "ctl" \in p[k].opens => k + 1 \in 1..Len(p) /\ "ctl" \in p[k + 1].closes
BY DEF Ledger

\* Before any call a caller holds what it is given.
LEMMA HeldInit == Init => HeldInv
<1>. SUFFICES ASSUME Init PROVE HeldInv
  OBVIOUS
<1>1. CallTypes
  BY IfaceInit DEF IfaceInv
<1>2. HeldTypes
  <2>1. held = [c \in Creators |-> Given(c)] /\ DOMAIN failedAt = Creators
    BY DEF Init, Given
  <2>2. \A c \in Creators : Given(c) \in SUBSET Resource
    BY <1>1 DEF Given, Resource, CallTypes
  <2>. QED  BY <2>1, <2>2 DEF HeldTypes
<1>3. ASSUME NEW c \in Creators PROVE HeldOf(c)
  <2>1. /\ platform = "windows" => entry[c] = "CreateTUN"
        /\ at[c] = 1 /\ result[c] = "running"
    BY DEF Init, Entries
  <2>2. held[c] = Given(c)
    BY DEF Init, Given
  <2>3. PICK h : /\ Ledger(platform, entry[c], Program(c), h) /\ h[1] = Given(c)
                 /\ h[Len(Program(c)) + 1] = DeviceHeld(c)
    BY <1>1, <2>1, ProgramPath DEF Path
  <2>4. held[c] \ Passing = held[c] /\ "ctl" \notin held[c]
    BY <1>1, <2>2 DEF Given, Passing, Deferred, CallTypes
  <2>5. Along(c)
    BY <2>1, <2>2, <2>3, <2>4 DEF Along
  <2>6. Len(Program(c)) \in Nat \ {0}
    BY <1>1, <2>1, ProgramLength
  <2>. QED  BY <2>1, <2>5, <2>6 DEF HeldOf
<1>. QED  BY <1>2, <1>3 DEF HeldInv

\* Nobody touches what another caller holds.
LEMMA HeldKept ==
  ASSUME NEW c \in Creators, HeldOf(c), UNCHANGED <<platform, entry, want>>,
         at'[c] = at[c], result'[c] = result[c], held'[c] = held[c],
         failedAt'[c] = failedAt[c]
  PROVE  HeldOf(c)'
<1>1. Program(c)' = Program(c)
  BY ProgramKept
<1>2. DeviceHeld(c)' = DeviceHeld(c)
  BY DEF DeviceHeld
<1>3. Along(c) => Along(c)'
  BY <1>1, <1>2 DEF Along
<1>. QED  BY <1>1, <1>2, <1>3 DEF HeldOf

\* A step that succeeds takes a call along its ledger.
LEMMA HeldPass ==
  ASSUME HeldInv, IfaceInv, NEW c \in Creators, Pass(c)
  PROVE  HeldInv'
<1>. DEFINE p == Program(c)
            k == at[c]
            s == p[k]
            e == entry[c]
<1>1. /\ k \in 1..Len(p) /\ result[c] = "running"
      /\ UNCHANGED <<platform, entry, want, result, failedAt>>
      /\ at' = [at EXCEPT ![c] = @ + 1]
      /\ held' = [held EXCEPT ![c] = (@ \ s.closes) \cup s.opens]
      /\ LeftOut(c) => MTUUnknown(c)
  BY DEF Pass, Busy, Now, IfaceInv, StateTypes, callVars
<1>2. /\ at'[c] = k + 1 /\ held'[c] = (held[c] \ s.closes) \cup s.opens
      /\ \A d \in Creators \ {c} : at'[d] = at[d] /\ held'[d] = held[d]
  BY <1>1 DEF HeldInv, HeldTypes, IfaceInv, StateTypes
<1>3. ASSUME NEW d \in Creators \ {c} PROVE HeldOf(d)'
  BY <1>1, <1>2, HeldKept DEF HeldInv
<1>4. p' = p /\ DeviceHeld(c)' = DeviceHeld(c)
  BY <1>1, ProgramKept DEF DeviceHeld
<1>5. Along(c)
  BY <1>1 DEF HeldInv, HeldOf
<1>6. PICK h : /\ Ledger(platform, e, p, h)
               /\ h[k] = held[c] \ Passing
               /\ h[Len(p) + 1] = DeviceHeld(c)
               /\ "ctl" \in held[c] => k \in 1..Len(p) /\ "ctl" \in s.closes
  BY <1>5 DEF Along
<1>7. /\ Accounts(platform, e, s, h[k], h[k + 1])
      /\ "ctl" \in s.opens => k + 1 \in 1..Len(p) /\ "ctl" \in p[k + 1].closes
  BY <1>1, <1>6, NowAccounts
<1>8. /\ s.opens \subseteq Resource
      /\ h[k + 1] = (h[k] \ s.closes) \cup (s.opens \ Passing)
      /\ "ctl" \in s.opens => s.call = "socket"
  BY <1>7 DEF Accounts
<1>9. HeldTypes'
  <2>1. (held[c] \ s.closes) \cup s.opens \in SUBSET Resource
    BY <1>8 DEF HeldInv, HeldTypes
  <2>. QED  BY <1>1, <2>1 DEF HeldInv, HeldTypes
<1>10. h[k + 1] = held'[c] \ Passing
  BY <1>2, <1>6, <1>8
<1>11. "ctl" \in held'[c] =>
         /\ k + 1 \in 1..Len(p) /\ "ctl" \in p[k + 1].closes
         /\ ~(platform = "darwin" /\ want[c] = "none")
  <2>. SUFFICES ASSUME "ctl" \in held'[c]
                PROVE  /\ k + 1 \in 1..Len(p) /\ "ctl" \in p[k + 1].closes
                       /\ ~(platform = "darwin" /\ want[c] = "none")
    OBVIOUS
  <2>1. "ctl" \in s.opens
    BY <1>2, <1>6
  <2>2. s.call = "socket"
    BY <1>8, <2>1
  <2>3. ~(platform = "darwin" /\ want[c] = "none")
    BY <1>1, <2>2 DEF LeftOut, MTUUnknown, Now
  <2>. QED  BY <1>7, <2>1, <2>3
<1>12. Along(c)'
  BY <1>1, <1>2, <1>4, <1>6, <1>10, <1>11 DEF Along
<1>13. at'[c] \in 1..(Len(p) + 1)
  <2>1. Len(p) \in Nat
    BY <1>6 DEF Ledger, IsSeq
  <2>. QED  BY <1>1, <1>2, <2>1
<1>14. HeldOf(c)'
  BY <1>1, <1>4, <1>12, <1>13 DEF HeldOf
<1>. QED  BY <1>3, <1>9, <1>14 DEF HeldInv

\* So does a step that is left out: it would have opened and closed nothing that
\* lasts, and there is no control socket to close.
LEMMA HeldLeaveOut ==
  ASSUME HeldInv, IfaceInv, NEW c \in Creators, LeaveOut(c)
  PROVE  HeldInv'
<1>. DEFINE p == Program(c)
            k == at[c]
            s == p[k]
            e == entry[c]
<1>1. /\ k \in 1..Len(p) /\ result[c] = "running" /\ LeftOut(c)
      /\ UNCHANGED <<platform, entry, want, result, failedAt, held>>
      /\ at' = [at EXCEPT ![c] = @ + 1]
  BY DEF LeaveOut, Busy, IfaceInv, StateTypes, callVars
<1>2. at'[c] = k + 1 /\ \A d \in Creators \ {c} : at'[d] = at[d]
  BY <1>1 DEF IfaceInv, StateTypes
<1>3. ASSUME NEW d \in Creators \ {c} PROVE HeldOf(d)'
  BY <1>1, <1>2, HeldKept DEF HeldInv
<1>4. p' = p /\ DeviceHeld(c)' = DeviceHeld(c)
  BY <1>1, ProgramKept DEF DeviceHeld
<1>5. Along(c)
  BY <1>1 DEF HeldInv, HeldOf
<1>6. PICK h : /\ Ledger(platform, e, p, h)
               /\ h[k] = held[c] \ Passing
               /\ h[Len(p) + 1] = DeviceHeld(c)
               /\ "ctl" \in held[c] => /\ "ctl" \in s.closes
                                       /\ ~(platform = "darwin" /\ want[c] = "none")
  BY <1>5 DEF Along
<1>7. Accounts(platform, e, s, h[k], h[k + 1])
  BY <1>1, <1>6, NowAccounts
<1>8. s.call \in Optional
  BY <1>1 DEF LeftOut, Now, Optional
<1>9. /\ s.opens \cup s.closes \subseteq Passing
      /\ h[k + 1] = (h[k] \ s.closes) \cup (s.opens \ Passing)
      /\ "ctl" \in s.closes => s.call \in {"setMTU", "SIOCGIFINDEX"}
  BY <1>7, <1>8 DEF Accounts
<1>10. h[k + 1] = held[c] \ Passing
  BY <1>6, <1>9
<1>11. "ctl" \notin held[c]
  <2>1. CASE platform = "freebsd"
    <3>1. s.call \in {"AF_INET", "SIOCSIFNAME"}
      BY <1>1, <2>1 DEF LeftOut, Now
    <3>. QED  BY <1>6, <1>9, <3>1
  <2>2. CASE platform # "freebsd"
    BY <1>1, <1>6, <2>2 DEF LeftOut
  <2>. QED  BY <2>1, <2>2
<1>12. Along(c)'
  BY <1>1, <1>2, <1>4, <1>6, <1>10, <1>11 DEF Along
<1>13. at'[c] \in 1..(Len(p) + 1)
  <2>1. Len(p) \in Nat
    BY <1>6 DEF Ledger, IsSeq
  <2>. QED  BY <1>1, <1>2, <2>1
<1>14. HeldOf(c)'
  BY <1>1, <1>4, <1>12, <1>13 DEF HeldOf
<1>. QED  BY <1>1, <1>3, <1>14 DEF HeldInv, HeldTypes

\* A step that fails leaves no more than it may.
LEMMA HeldFail ==
  ASSUME HeldInv, IfaceInv, NEW c \in Creators, Fail(c)
  PROVE  HeldInv'
<1>. DEFINE p == Program(c)
            k == at[c]
            s == p[k]
            e == entry[c]
<1>1. /\ k \in 1..Len(p) /\ result[c] = "running"
      /\ UNCHANGED <<platform, entry, want, at>>
      /\ result' = [result EXCEPT ![c] = "error"]
      /\ failedAt' = [failedAt EXCEPT ![c] = s.call]
      /\ held' = [held EXCEPT ![c] = @ \ (s.undo \cup Deferred)]
  BY DEF Fail, Busy, Now, IfaceInv, StateTypes, callVars
<1>2. ~s.sure
  BY DEF Fail, Now
<1>3. /\ result'[c] = "error" /\ failedAt'[c] = s.call
      /\ held'[c] = held[c] \ (s.undo \cup Deferred)
      /\ \A d \in Creators \ {c} : /\ result'[d] = result[d] /\ held'[d] = held[d]
                                   /\ failedAt'[d] = failedAt[d]
  BY <1>1 DEF HeldInv, HeldTypes, IfaceInv, StateTypes
<1>4. ASSUME NEW d \in Creators \ {c} PROVE HeldOf(d)'
  BY <1>1, <1>3, HeldKept DEF HeldInv
<1>5. p' = p
  BY <1>1, ProgramKept
<1>6. Along(c) /\ at[c] \in 1..(Len(p) + 1)
  BY <1>1 DEF HeldInv, HeldOf
<1>7. PICK h : /\ Ledger(platform, e, p, h)
               /\ h[k] = held[c] \ Passing
               /\ "ctl" \in held[c] => "ctl" \in s.closes
  BY <1>6 DEF Along
<1>8. Accounts(platform, e, s, h[k], h[k + 1])
  BY <1>1, <1>7, NowAccounts
<1>9. "ctl" \in s.closes => "ctl" \in s.undo
  BY <1>8 DEF Accounts
<1>10. Leaves(platform, e, s.call, h[k] \ s.undo)
  <2>1. s.sure = TRUE \/ Leaves(platform, e, s.call, h[k] \ s.undo)
    BY <1>8, Zenon DEF Accounts
  <2>. QED  BY <1>2, <2>1, Zenon
<1>11. held'[c] = h[k] \ s.undo
  BY <1>3, <1>7, <1>9 DEF Passing
<1>12. Leaves(platform, e, failedAt'[c], held'[c])
  BY <1>3, <1>10, <1>11
<1>13. HeldTypes'
  BY <1>1 DEF HeldInv, HeldTypes
<1>14. HeldOf(c)'
  BY <1>1, <1>3, <1>5, <1>6, <1>12 DEF HeldOf
<1>. QED  BY <1>4, <1>13, <1>14 DEF HeldInv

\* A call that has made every step holds the device.
LEMMA HeldSucceed ==
  ASSUME HeldInv, IfaceInv, NEW c \in Creators, Succeed(c)
  PROVE  HeldInv'
<1>. DEFINE p == Program(c)
            k == at[c]
<1>1. /\ k > Len(p) /\ result[c] = "running"
      /\ UNCHANGED <<platform, entry, want, at, failedAt>>
      /\ result' = [result EXCEPT ![c] = "ok"]
      /\ held' = [held EXCEPT ![c] = @ \ Deferred]
  BY DEF Succeed, callVars
<1>2. /\ result'[c] = "ok" /\ held'[c] = held[c] \ Deferred
      /\ \A d \in Creators \ {c} : result'[d] = result[d] /\ held'[d] = held[d]
  BY <1>1 DEF HeldInv, HeldTypes, IfaceInv, StateTypes
<1>3. ASSUME NEW d \in Creators \ {c} PROVE HeldOf(d)'
  BY <1>1, <1>2, HeldKept DEF HeldInv
<1>4. p' = p /\ DeviceHeld(c)' = DeviceHeld(c)
  BY <1>1, ProgramKept DEF DeviceHeld
<1>5. Along(c) /\ k \in 1..(Len(p) + 1)
  BY <1>1 DEF HeldInv, HeldOf
<1>6. PICK h : /\ Ledger(platform, entry[c], p, h)
               /\ h[k] = held[c] \ Passing
               /\ h[Len(p) + 1] = DeviceHeld(c)
               /\ "ctl" \in held[c] => k \in 1..Len(p)
  BY <1>5 DEF Along
<1>7. Len(p) \in Nat
  BY <1>6 DEF Ledger, IsSeq
<1>8. k = Len(p) + 1 /\ "ctl" \notin held[c]
  BY <1>1, <1>5, <1>6, <1>7
<1>9. held'[c] = DeviceHeld(c)
  BY <1>2, <1>6, <1>8 DEF Passing
<1>10. HeldTypes'
  BY <1>1 DEF HeldInv, HeldTypes
<1>11. HeldOf(c)'
  BY <1>1, <1>2, <1>4, <1>5, <1>9 DEF HeldOf
<1>. QED  BY <1>3, <1>10, <1>11 DEF HeldInv

\* The collector only takes.
LEMMA HeldCollect ==
  ASSUME HeldInv, NEW c \in Creators, Collect(c)
  PROVE  HeldInv'
<1>1. /\ result[c] = "error" /\ "goroutines" \notin held[c]
      /\ UNCHANGED <<platform, entry, want, at, failedAt, result>>
      /\ held' = [held EXCEPT ![c] = @ \ {"file"}]
  BY DEF Collect, callVars
<1>2. /\ held'[c] = held[c] \ {"file"}
      /\ \A d \in Creators \ {c} : held'[d] = held[d]
  BY <1>1 DEF HeldInv, HeldTypes
<1>3. ASSUME NEW d \in Creators \ {c} PROVE HeldOf(d)'
  BY <1>1, <1>2, HeldKept DEF HeldInv
<1>4. Leaves(platform, entry[c], failedAt[c], held[c])
  BY <1>1 DEF HeldInv, HeldOf
<1>5. Leaves(platform, entry[c], failedAt[c], held'[c])
  <2>1. held'[c] \subseteq held[c] /\ "goroutines" \notin held[c] /\ "goroutines" \notin held'[c]
    BY <1>1, <1>2
  <2>. QED  BY <1>4, <2>1 DEF Leaves
<1>6. Program(c)' = Program(c) /\ at[c] \in 1..(Len(Program(c)) + 1)
  BY <1>1, ProgramKept DEF HeldInv, HeldOf
<1>7. HeldOf(c)'
  BY <1>1, <1>5, <1>6 DEF HeldOf
<1>8. HeldTypes'
  BY <1>1 DEF HeldInv, HeldTypes
<1>. QED  BY <1>3, <1>7, <1>8 DEF HeldInv

\* No step of device creation loses sight of what is held.
LEMMA HeldStep ==
  ASSUME HeldInv, IfaceInv, [Next]_vars
  PROVE  HeldInv'
<1>1. CASE UNCHANGED vars \/ \E c \in Creators : TryNext(c)
  <2>1. UNCHANGED <<platform, entry, want, at, result, held, failedAt>>
    BY <1>1 DEF TryNext, vars, callVars
  <2>2. ASSUME NEW d \in Creators PROVE HeldOf(d)'
    BY <2>1, HeldKept DEF HeldInv
  <2>. QED  BY <2>1, <2>2 DEF HeldInv, HeldTypes
<1>. QED
  BY <1>1, HeldPass, HeldLeaveOut, HeldFail, HeldSucceed, HeldCollect DEF Next, Creates

\* Whichever call of a creation fails, on whichever platform, every descriptor,
\* adapter and session it opened is closed again, but for what the code of Linux
\* leaves behind; and a device that was created has exactly what its Close
\* releases (the error paths of CreateTUN and CreateTUNFromFile).
THEOREM NothingIsLost == Spec => []ResourceInv
<1>1. Init => NameTypes /\ HeldInv
  BY NamesInit, HeldInit
<1>2. IfaceInv /\ NameTypes /\ HeldInv /\ [Next]_vars => NameTypes' /\ HeldInv'
  BY NamesStep, HeldStep
<1>3. Init => OffloadInv
  BY OffloadInit
<1>4. IfaceInv /\ OffloadInv /\ [Next]_vars => OffloadInv'
  BY OffloadStep
<1>5. IfaceInv /\ OffloadInv /\ NameTypes /\ HeldInv => ResourceInv
  <2>. SUFFICES ASSUME IfaceInv, OffloadInv, NameTypes, HeldInv PROVE ResourceInv
    OBVIOUS
  <2>1. TypeOK
    <3>1. \A c \in Creators : at[c] \in 1..(Len(Program(c)) + 1) /\ unit[c] \in DOMAIN Units
      BY DEF HeldInv, HeldOf, NameTypes
    <3>2. \A c \in Creators : {iface[c], known[c]} \subseteq
            {NoName} \cup Asked \cup {Units[k] : k \in DOMAIN Units}
      BY DEF NameTypes, NameOf, AllUnits
    <3>3. /\ result \in [Creators -> {"running", "ok", "error"}]
          /\ held \in [Creators -> SUBSET Resource]
          /\ udpGSO \in [Creators -> BOOLEAN] /\ offload \in [Creators -> SUBSET {"tcp", "udp"}]
      BY DEF IfaceInv, StateTypes, HeldInv, HeldTypes, OffloadInv, FileTypes
    <3>. QED  BY <3>1, <3>2, <3>3 DEF TypeOK
  <2>2. FailureReleases
    <3>1. ASSUME NEW c \in Creators, Leaves(platform, entry[c], failedAt[c], held[c])
          PROVE  held[c] \subseteq IF platform = "linux" THEN LeftBehind(c) ELSE {}
      BY <3>1 DEF Leaves, LeftBehind
    <3>. QED  BY <3>1 DEF FailureReleases, HeldInv, HeldOf
  <2>3. DeviceHolds
    BY DEF DeviceHolds, DeviceHeld, HeldInv, HeldOf
  <2>. QED  BY <2>1, <2>2, <2>3 DEF ResourceInv
<1>. QED  BY <1>1, <1>2, <1>3, <1>4, <1>5, IfaceInvariant, PTL DEF Spec
=============================================================================
