----------------------------- MODULE CreateTun ------------------------------
(***************************************************************************)
(* The creation of a device on every platform: CreateTUN,                  *)
(* CreateTUNFromFile and, on Linux, CreateUnmonitoredTUNFromFD.  A creation *)
(* is a sequence of steps, a table for each platform; any step that can    *)
(* fail may, and the code then undoes what its error path says.  Several   *)
(* callers create devices at the same time or one after the other, and ask *)
(* for names that may be taken.  What the goroutines do once they run is in *)
(* LinuxTun and BsdTun.                                                    *)
(***************************************************************************)
EXTENDS Naturals, Sequences, FiniteSets

CONSTANTS Platforms,   \* platforms to look at
          Creators,    \* callers, one creation each
          Units,       \* interface names the kernel or the code chooses, in order
          Asked        \* names a caller asks for: "" leaves the choice to others

ASSUME PlatformAssumption ==
  Platforms \subseteq {"linux", "darwin", "freebsd", "openbsd", "windows"}
NoName == "none"

\* The names are different, and enough for all callers.
ASSUME NameAssumption ==
  /\ Units \in Seq(STRING) /\ \A j, k \in DOMAIN Units : Units[j] = Units[k] => j = k
  /\ IsFiniteSet(Creators) /\ Cardinality(Creators) <= Len(Units)
  /\ Asked \subseteq STRING /\ NoName \notin Asked \cup {Units[k] : k \in DOMAIN Units}

VARIABLES
  platform,
  entry,     \* the function called
  asked,     \* the name it is given
  want,      \* the MTU it is given: "none" for 0 or less
  fileClosed,   \* freebsd: the file it is given has been closed
  at,        \* number of the next step
  unit,      \* CreateTUN of openbsd: the device to try next
  result,    \* "running", "ok" or "error"
  failedAt,  \* the step that failed
  undestroyed,  \* tunDestroy failed on the error path
  held,      \* what the creation has opened or started
  iface,     \* name of the caller's interface in the kernel
  known,     \* the name the code knows it by: assignedName, then tun.name
  mtu,       \* MTU of the interface
  vnet,      \* the tun file has IFF_VNET_HDR
  offload,   \* offloads the kernel has switched on for it
  udpGSO     \* tun.udpGSO

callVars == <<platform, entry, asked, want, fileClosed>>
vars == <<callVars, at, unit, result, failedAt, undestroyed, held, iface, known,
          mtu, vnet, offload, udpGSO>>
-----------------------------------------------------------------------------
(***************************************************************************)
(* Steps.  A step opens and closes resources; when it fails nothing of     *)
(* that happens, and the error path closes those in undo.  "iface" in undo *)
(* is FreeBSD's tunDestroy of the name known.                              *)
(***************************************************************************)

Step(call, opens, closes, undo) ==
  [call |-> call, opens |-> opens, closes |-> closes, undo |-> undo, sure |-> FALSE]
Does(call, undo) == Step(call, {}, {}, undo)
Sure(call, opens, closes) ==
  [call |-> call, opens |-> opens, closes |-> closes, undo |-> {}, sure |-> TRUE]

\* Mistake: the temporary socket is closed only when all went well.
OverSocketLeaks(call, undo) ==
  <<Step("socket", {"ctl"}, {}, undo), Step(call, {}, {"ctl"}, undo)>>

\* An ioctl on a temporary socket, which a deferred call closes in any case.
OverSocket(call, undo) ==
  <<Step("socket", {"ctl"}, {}, undo), Step(call, {}, {"ctl"}, undo \cup {"ctl"})>>

\* Mistake: the descriptor stays open when it cannot be made non-blocking.
LinuxOpensKept ==
  <<Step("open", {"fd"}, {}, {}), Does("NewIfreq", {}), Does("TUNSETIFF", {}),
    Does("SetNonblock", {}), Sure("NewFile", {"file"}, {"fd"})>>

\* Until NewFile the descriptor is a bare number, which nothing closes when
\* NewIfreq or TUNSETIFF fails.
LinuxOpens ==
  <<Step("open", {"fd"}, {}, {}), Does("NewIfreq", {}), Does("TUNSETIFF", {}),
    Does("SetNonblock", {"fd"}), Sure("NewFile", {"file"}, {"fd"})>>

InitFromFlags ==
  <<Does("TUNGETIFF", {}), Does("tunTCPOffloads", {}), Sure("tunUDPOffloads", {}, {})>>

\* An ioctl on the file, which Control keeps open for it.
NameSlow == <<Does("Name", {})>>
GetIFIndex == OverSocket("SIOCGIFINDEX", {})

\* The socket is not closed when bind fails.
CreateNetlinkSocket == <<Step("netlink", {"netlink"}, {}, {}), Does("bind", {})>>

LinuxFromFile ==
  NameSlow \o InitFromFlags \o GetIFIndex \o CreateNetlinkSocket \o
  <<Step("NewRWCancel", {"pipe"}, {}, {"netlink"}), Sure("go", {"goroutines"}, {})>> \o
  OverSocket("setMTU", {"netlink"})

LinuxUnmonitored ==
  <<Does("SetNonblock", {}), Sure("NewFile", {"file"}, {"fd"})>> \o NameSlow \o InitFromFlags

\* Close, which a failing setMTU calls on these platforms: the file, the
\* interface on freebsd, the route socket, and with that the listener.
CloseAll == {"file", "route", "goroutines"}
            \cup IF platform = "freebsd" THEN {"iface"} ELSE {}

\* What the three share, each with a setMTU of its own.
Listen ==
  <<Does("Name", {"file"}), Does("InterfaceByName", {"file"}),
    Step("AF_ROUTE", {"route"}, {}, {"file"}), Sure("go", {"goroutines"}, {})>>
BsdSetMTU == OverSocket("setMTU", CloseAll)

DarwinFromFile == Listen \o BsdSetMTU
OpenbsdFromFile == Listen \o BsdSetMTU
FreebsdFromFile == <<Does("TUNSIFPID", {"file"})>> \o Listen \o BsdSetMTU

DarwinOpens ==
  <<Does("Sscanf", {}), Step("AF_SYSTEM", {"fd"}, {}, {}), Does("CtlInfo", {"fd"}),
    Does("connect", {"fd"}), Does("SetNonblock", {"fd"}), Sure("NewFile", {"file"}, {"fd"})>>

OpenbsdOpens == <<Does("Sscanf", {}), Step("open", {"file"}, {}, {})>>

\* Mistake: the socket for the new name stays open.
DeferredFirst == {"confd6"}

\* The sockets confd6 and confd are closed by deferred calls of CreateTUN, each
\* on a line after its creation, hence after CreateTUNFromFile.
Deferred == {"confd6", "confd"}

FreebsdOpens ==
  LET undo == {"file", "iface"} IN
  <<Does("exists", {}), Step("open", {"file"}, {}, {}), Does("tunName", {"file"}),
    Does("TUNSIFHEAD", undo), Does("TUNSIFMODE", undo), Step("AF_INET6", {"confd6"}, {}, undo),
    Does("SIOCGIFINFO_IN6", undo), Does("SIOCSIFINFO_IN6", undo),
    Step("AF_INET", {"confd"}, {}, undo), Does("SIOCSIFNAME", undo)>>

WindowsOpens ==
  <<Step("CreateAdapter", {"adapter"}, {}, {}),
    Step("StartSession", {"session"}, {}, {"adapter"})>>

Opens == CASE platform = "linux" -> LinuxOpens
           [] platform = "darwin" -> DarwinOpens
           [] platform = "freebsd" -> FreebsdOpens
           [] platform = "openbsd" -> OpenbsdOpens
           [] platform = "windows" -> WindowsOpens
FromFile == CASE platform = "linux" -> LinuxFromFile
              [] platform = "darwin" -> DarwinFromFile
              [] platform = "freebsd" -> FreebsdFromFile
              [] platform = "openbsd" -> OpenbsdFromFile
              [] platform = "windows" -> <<>>

\* Everything a call does, in order.
Program(c) == CASE entry[c] = "CreateTUN" -> Opens \o FromFile
                [] entry[c] = "FromFile" -> FromFile
                [] entry[c] = "Unmonitored" -> LinuxUnmonitored
-----------------------------------------------------------------------------
Entries == CASE platform = "linux" -> {"CreateTUN", "FromFile", "Unmonitored"}
             [] platform = "windows" -> {"CreateTUN"}
             [] OTHER -> {"CreateTUN", "FromFile"}

\* A file that is handed over belongs to an interface of its own.  On freebsd,
\* where closing the file leaves the interface, it may have been closed.
Init ==
  /\ platform \in Platforms
  /\ entry \in [Creators -> Entries]
  /\ asked \in [Creators -> Asked]
  /\ want \in [Creators -> {"none", "default", "other"}]
  /\ at = [c \in Creators |-> 1] /\ unit = [c \in Creators |-> 1]
  /\ result = [c \in Creators |-> "running"]
  /\ failedAt = [c \in Creators |-> "nothing"]
  /\ undestroyed = [c \in Creators |-> FALSE]
  /\ fileClosed \in [Creators -> BOOLEAN]
  /\ \A c \in Creators : fileClosed[c] => platform = "freebsd" /\ entry[c] = "FromFile"
  /\ held = [c \in Creators |-> CASE entry[c] = "CreateTUN" -> {}
                                  [] entry[c] = "FromFile" -> {"file"}
                                  [] entry[c] = "Unmonitored" -> {"fd"}]
  /\ iface \in [Creators -> {NoName} \cup {Units[k] : k \in DOMAIN Units}]
  /\ \A c \in Creators : iface[c] = NoName <=> entry[c] = "CreateTUN"
  /\ \A c, d \in Creators : iface[c] = iface[d] /\ iface[c] # NoName => c = d
  /\ known = [c \in Creators |-> NoName]
  /\ mtu = [c \in Creators |-> "default"]
  /\ vnet \in [Creators -> BOOLEAN]
  /\ \A c \in Creators : vnet[c] => platform = "linux"
  /\ \A c \in Creators : platform = "linux" /\ entry[c] = "CreateTUN" => vnet[c]
  /\ offload = [c \in Creators |-> {}]
  /\ udpGSO = [c \in Creators |-> FALSE]

Taken(name) == \E d \in Creators : iface[d] = name
FirstFree == Units[CHOOSE k \in DOMAIN Units :
                     ~Taken(Units[k]) /\ \A j \in 1..(k - 1) : Taken(Units[j])]

Busy(c) == result[c] = "running" /\ at[c] <= Len(Program(c))
Now(c) == Program(c)[at[c]]

\* The call that brings the interface into being, and the name it gets.
MakingCall == CASE platform = "linux" -> "TUNSETIFF" [] platform = "darwin" -> "connect"
                [] platform = "windows" -> "CreateAdapter" [] OTHER -> "open"
Makes(c) == Now(c).call = MakingCall
MadeName(c) ==
  IF asked[c] # "" /\ platform # "freebsd" THEN asked[c]
  ELSE IF platform = "openbsd" THEN Units[unit[c]] ELSE FirstFree

\* What the kernel refuses for certain.  Wintun takes a name twice.
Refused(c) ==
  LET call == Now(c).call IN
  \/ Makes(c) /\ platform # "windows" /\ Taken(MadeName(c))
  \/ call \in {"exists", "SIOCSIFNAME"} /\ Taken(asked[c])
  \/ call = "setMTU" /\ want[c] = "none"

\* Mistake: openbsd sets the MTU only if it is right already.
LeftOutInverted(c) ==
  platform = "openbsd" /\ Now(c).call \in {"socket", "setMTU"} /\ mtu[c] # want[c]

\* Calls an if leaves out: the renaming on freebsd when no name is asked for,
\* setMTU on darwin without an MTU, and on openbsd when MTU returned that value.
LeftOut(c) ==
  LET call == Now(c).call IN
  \/ platform = "freebsd" /\ call \in {"AF_INET", "SIOCSIFNAME"} /\ asked[c] = ""
  \/ platform = "darwin" /\ call \in {"socket", "setMTU"} /\ want[c] = "none"
  \/ platform = "openbsd" /\ call \in {"socket", "setMTU"} /\ mtu[c] = want[c]
                          /\ "ctl" \notin held[c]

\* MTU on openbsd may fail, which only means that setMTU is called.
MTUUnknown(c) == platform = "openbsd" /\ Now(c).call = "socket"

LeaveOut(c) ==
  /\ Busy(c) /\ LeftOut(c)
  /\ at' = [at EXCEPT ![c] = @ + 1]
  /\ UNCHANGED <<callVars, unit, result, failedAt, undestroyed, held, iface, known,
                 mtu, vnet, offload, udpGSO>>

\* Mistake: udpGSO is set although the kernel refused.
OffloadsClaimed(c) ==
  CASE Now(c).call = "tunTCPOffloads" /\ vnet[c] ->
         offload' = [offload EXCEPT ![c] = {"tcp"}] /\ UNCHANGED udpGSO
    [] Now(c).call = "tunUDPOffloads" /\ vnet[c] ->
         /\ offload' \in {offload, [offload EXCEPT ![c] = {"tcp", "udp"}]}
         /\ udpGSO' = [udpGSO EXCEPT ![c] = TRUE]
    [] OTHER -> UNCHANGED <<offload, udpGSO>>

\* initFromFlags: a file with virtio headers must take the TCP offloads; the
\* UDP ones, which replace the set, may be refused by an older kernel.
Offloads(c) ==
  CASE Now(c).call = "tunTCPOffloads" /\ vnet[c] ->
         offload' = [offload EXCEPT ![c] = {"tcp"}] /\ UNCHANGED udpGSO
    [] Now(c).call = "tunUDPOffloads" /\ vnet[c] ->
         \E ok \in BOOLEAN :
           /\ offload' = IF ok THEN [offload EXCEPT ![c] = {"tcp", "udp"}] ELSE offload
           /\ udpGSO' = [udpGSO EXCEPT ![c] = ok]
    [] OTHER -> UNCHANGED <<offload, udpGSO>>

\* operateOnFd cannot use a closed file.  It returns nothing: its error goes to
\* tun.errors, and TUNSIFPID counts as done.  The channel has room for one, so
\* that Name, when it comes to send the next, waits for a reader nobody is yet.
Hangs(c) == fileClosed[c] /\ Now(c).call = "Name"

Pass(c) ==
  /\ Busy(c) /\ ~Refused(c) /\ ~Hangs(c) /\ (LeftOut(c) => MTUUnknown(c))
  /\ at' = [at EXCEPT ![c] = @ + 1]
  /\ held' = [held EXCEPT ![c] = (@ \ Now(c).closes) \cup Now(c).opens]
  /\ iface' = CASE Makes(c) -> [iface EXCEPT ![c] = MadeName(c)]
                [] Now(c).call = "SIOCSIFNAME" -> [iface EXCEPT ![c] = asked[c]]
                [] OTHER -> iface
  /\ known' = IF Now(c).call \in {"tunName", "Name"}
              THEN [known EXCEPT ![c] = iface[c]] ELSE known
  /\ mtu' = IF Now(c).call = "setMTU" \/ (platform = "windows" /\ want[c] # "none")
            THEN [mtu EXCEPT ![c] = want[c]] ELSE mtu
  /\ Offloads(c)
  /\ UNCHANGED <<callVars, unit, result, failedAt, undestroyed, vnet>>

\* Mistake: the loop over the devices has no end.
TryNextForever(c) ==
  /\ Busy(c) /\ Makes(c) /\ platform = "openbsd" /\ asked[c] = ""
  /\ unit' = [unit EXCEPT ![c] = @ + 1]
  /\ UNCHANGED <<callVars, at, result, failedAt, undestroyed, held, iface, known,
                 mtu, vnet, offload, udpGSO>>

\* Mistake: the loop starts over when all devices are busy.
TryNextAround(c) ==
  /\ Busy(c) /\ Makes(c) /\ platform = "openbsd" /\ asked[c] = ""
  /\ unit' = [unit EXCEPT ![c] = IF @ < Len(Units) THEN @ + 1 ELSE 1]
  /\ UNCHANGED <<callVars, at, result, failedAt, undestroyed, held, iface, known,
                 mtu, vnet, offload, udpGSO>>

\* CreateTUN("tun") of openbsd goes on to the next device while they are busy.
TryNext(c) ==
  /\ Busy(c) /\ Makes(c) /\ platform = "openbsd" /\ asked[c] = ""
  /\ unit[c] < Len(Units)
  /\ unit' = [unit EXCEPT ![c] = @ + 1]
  /\ UNCHANGED <<callVars, at, result, failedAt, undestroyed, held, iface, known,
                 mtu, vnet, offload, udpGSO>>

\* An interface lives as long as its descriptor, except on freebsd.
Drops(resources) == platform # "freebsd" /\ resources \cap {"fd", "file", "adapter"} # {}

\* Mistake: tunDestroy is given the name asked for.
AfterUndoAsked(c, undo, destroys) ==
  [d \in Creators |-> IF destroys /\ "iface" \in undo /\ iface[d] = asked[c]
                      THEN NoName ELSE iface[d]]

\* tunDestroy goes by the name.  It fails without a socket to ask on and when
\* the ioctl does, and then the interface stays.
AfterUndo(c, undo, destroys) ==
  [d \in Creators |-> IF \/ d = c /\ Drops(undo)
                         \/ destroys /\ "iface" \in undo /\ iface[d] = known[c]
                      THEN NoName ELSE iface[d]]

\* No error path looks at what tunDestroy returns.
Fail(c) ==
  /\ Busy(c) /\ ~Now(c).sure /\ ~fileClosed[c] /\ (LeftOut(c) => MTUUnknown(c))
  /\ Now(c).call = "tunTCPOffloads" => vnet[c]
  /\ result' = [result EXCEPT ![c] = "error"]
  /\ failedAt' = [failedAt EXCEPT ![c] = Now(c).call]
  /\ held' = [held EXCEPT ![c] = @ \ (Now(c).undo \cup Deferred)]
  /\ \E destroys \in BOOLEAN :
       /\ iface' = AfterUndo(c, Now(c).undo, destroys)
       /\ undestroyed' = [undestroyed EXCEPT ![c] = "iface" \in Now(c).undo /\ ~destroys]
  /\ UNCHANGED <<callVars, at, unit, known, mtu, vnet, offload, udpGSO>>

Succeed(c) ==
  /\ result[c] = "running" /\ at[c] > Len(Program(c))
  /\ result' = [result EXCEPT ![c] = "ok"]
  /\ held' = [held EXCEPT ![c] = @ \ Deferred]
  /\ UNCHANGED <<callVars, at, unit, failedAt, undestroyed, iface, known, mtu, vnet,
                 offload, udpGSO>>

\* The runtime closes an os.File nobody refers to any more.  A goroutine does,
\* and so does the caller of CreateTUNFromFile.
Collect(c) ==
  /\ result[c] = "error" /\ entry[c] # "FromFile"
  /\ "file" \in held[c] /\ "goroutines" \notin held[c]
  /\ held' = [held EXCEPT ![c] = @ \ {"file"}]
  /\ iface' = [iface EXCEPT ![c] = IF Drops({"file"}) THEN NoName ELSE @]
  /\ UNCHANGED <<callVars, at, unit, result, failedAt, undestroyed, known, mtu, vnet,
                 offload, udpGSO>>

Creates(c) == Pass(c) \/ LeaveOut(c) \/ TryNext(c) \/ Fail(c) \/ Succeed(c)
Next == \E c \in Creators : Creates(c) \/ Collect(c)

Spec == Init /\ [][Next]_vars

\* A call goes on, and the collector runs every few minutes.
Fairness == \A c \in Creators : WF_vars(Creates(c)) /\ WF_vars(Collect(c))
FairSpec == Spec /\ Fairness
-----------------------------------------------------------------------------
(***************************************************************************)
(* Properties.                                                             *)
(***************************************************************************)

Resource == {"fd", "file", "ctl", "netlink", "pipe", "goroutines", "route",
             "confd6", "confd", "adapter", "session"}

\* Every variable has its type, and no call runs past its last step.
TypeOK ==
  /\ \A c \in Creators : at[c] \in 1..(Len(Program(c)) + 1) /\ unit[c] \in DOMAIN Units
  /\ result \in [Creators -> {"running", "ok", "error"}]
  /\ held \in [Creators -> SUBSET Resource]
  /\ \A c \in Creators : {iface[c], known[c]} \subseteq
       {NoName} \cup Asked \cup {Units[k] : k \in DOMAIN Units}
  /\ udpGSO \in [Creators -> BOOLEAN] /\ offload \in [Creators -> SUBSET {"tcp", "udp"}]

\* What the code of Linux leaves behind: a bare descriptor that could not be
\* made an interface, a socket that could not be bound, and whatever the
\* goroutines use when setMTU fails after they were started.
LeftBehind(c) ==
  IF "goroutines" \in held[c] THEN {"file", "pipe", "goroutines"}
  ELSE CASE failedAt[c] = "bind" -> {"file", "netlink"}
         [] failedAt[c] \in {"NewIfreq", "TUNSETIFF"} -> {"fd"}
         [] OTHER -> IF entry[c] = "Unmonitored" THEN {"fd", "file"} ELSE {"file"}

\* A creation that fails, at whichever step, has closed every descriptor and
\* session it opened and has ended its goroutine; on Linux it may leave what
\* LeftBehind says, an os.File to the collector or to the caller it came from.
FailureReleases == \A c \in Creators :
  result[c] = "error" => held[c] \subseteq IF platform = "linux" THEN LeftBehind(c) ELSE {}

\* A device that was created has exactly what its Close, and the end of its
\* listeners, release.
DeviceHolds == \A c \in Creators : result[c] = "ok" =>
  held[c] = CASE entry[c] = "Unmonitored" -> {"file"}
              [] platform = "linux" /\ entry[c] # "Unmonitored" ->
                   {"file", "netlink", "pipe", "goroutines"}
              [] platform = "windows" -> {"adapter", "session"}
              [] platform \notin {"linux", "windows"} -> {"file", "route", "goroutines"}

\* All three, as the run checks them: every step of every program accounts for
\* what it opens.
ResourceInv == TypeOK /\ FailureReleases /\ DeviceHolds

\* The interface of a device has the MTU it was created with, where one was
\* given and the function takes one.
MTUAsAsked == \A c \in Creators :
  result[c] = "ok" /\ entry[c] # "Unmonitored" =>
    /\ want[c] # "none" => mtu[c] = want[c]
    /\ want[c] = "none" => platform \in {"darwin", "windows"}

\* udpGSO, on which Write decides whether to merge datagrams, says what the
\* kernel has switched on, whatever ioctl was refused on the way.
OffloadsAgree == \A c \in Creators : result[c] = "ok" =>
  /\ udpGSO[c] <=> "udp" \in offload[c]
  /\ vnet[c] <=> "tcp" \in offload[c]

\* Both, as the run checks them: a call that returns a device has brought about
\* what its fields say and what its caller asked for.
DeviceAsAsked == MTUAsAsked /\ OffloadsAgree

\* An interface disappears only when its own creation fails, although freebsd
\* destroys by name and another call may be after the same name.
DestroysOwn ==
  [][\A c \in Creators : iface[c] # NoName /\ iface'[c] = NoName => result'[c] = "error"]_vars

\* The interface of a failed CreateTUN disappears, so that its name can be used
\* again; but not on Linux once the goroutines hold the file, and not on freebsd
\* if tunName, or CreateTUNFromFile before its listener runs, fails, or if the
\* tunDestroy of the error path itself fails, which nobody is told.
NameComesBack == \A c \in Creators :
  /\ result[c] = "error" /\ entry[c] = "CreateTUN" /\ "goroutines" \notin held[c]
  /\ platform = "freebsd" => failedAt[c] \notin
       {"tunName", "TUNSIFPID", "Name", "InterfaceByName", "AF_ROUTE"}
  /\ ~undestroyed[c]
  ~> iface[c] = NoName

\* A creation returns, whatever fails and whichever names are taken: also the
\* search of openbsd for a device that is not busy ends.  The exception is
\* CreateTUNFromFile of freebsd for a file that has been closed.
CreationsReturn == \A c \in Creators :
  result[c] = "running" /\ ~fileClosed[c] ~> result[c] # "running"
=============================================================================
