------------------------- MODULE PdradSocketProofs -------------------------
(***************************************************************************)
(* PrivateSocketsKept, for every value of Pdrad's constants: the numbers   *)
(* that the LAN side uses are lost only through the two variables that go  *)
(* on being used after close().                                            *)
(***************************************************************************)
EXTENDS PdradProofs

(* Which threads exist before main has created them all.                   *)
NotStarted == /\ pc["main"] = "init" => pc["dhcp"] = "off"
              /\ pc["main"] # "supervise" => pc["ra"] = "off" /\ pc["rs"] = "off"

(* A variable that nothing was assigned to holds no number.                *)
Fresh == /\ pc["dhcp"] \in {"off", "open"} => fd["dhcp"] = NoFd
         /\ pc["ra"] \in {"off", "open"} => fd["ra"] = NoFd

(* A socket in use was opened: its variable holds a number.                *)
Opened == \A k \in RawSockets : InUse(k) => fd[k] \in Fd

SocketInv == NotStarted /\ Fresh /\ Opened /\ PrivateSocketsKept

(* close() of numbers of the DHCP thread, of utils_handler, or of sockets  *)
(* that their own thread gives up.                                         *)
LEMMA CloseKeeps ==
  ASSUME TypeInv, Opened, PrivateSocketsKept, NEW S \in SUBSET Sockets, Close(S),
         \A k \in RawSockets : InUse(k)' => InUse(k) /\ k \notin S,
         \A j \in S : j \in {"dhcp", "utils"} \/ InUse(j) \/ fd[j] = NoFd
  PROVE  Opened' /\ PrivateSocketsKept'
<1>1. fd' = fd /\ \A n \in Fd : table'[n] = IF \E k \in S : fd[k] = n THEN "free" ELSE table[n]
  BY DEF Close
<1>2. Opened'
  BY <1>1 DEF Opened
<1>3. ~Holds("utils") => ~Holds("utils")'
  BY <1>1 DEF Holds
<1>4. ASSUME NEW k \in RawSockets, InUse(k)', ~Holds(k)'
      PROVE  fd'[k] = fd'["dhcp"] \/ (fd'[k] = fd'["utils"] /\ ~Holds("utils")')
  <2>1. InUse(k) /\ k \notin S
    BY <1>4
  <2>2. CASE ~Holds(k)
    BY <1>1, <1>3, <2>1, <2>2 DEF PrivateSocketsKept
  <2>3. CASE Holds(k)
    <3>1. PICK j \in S : fd[j] = fd[k]
      BY <1>1, <1>4, <2>3 DEF Holds
    <3>2. j # k /\ ~Holds(j)
      BY <2>1, <2>3, <3>1, TypeParts DEF Holds, RawSockets, Sockets
    <3>3. CASE j \in {"dhcp", "utils"}
      BY <1>1, <1>3, <3>1, <3>2, <3>3
    <3>4. CASE InUse(j) /\ j \in RawSockets
      BY <1>1, <1>3, <3>1, <3>2, <3>4 DEF PrivateSocketsKept
    <3>5. fd[j] # NoFd
      BY <2>3, <3>1 DEF Holds, Fd, NoFd
    <3> QED BY <3>1, <3>3, <3>4, <3>5 DEF Sockets
  <2> QED BY <2>2, <2>3
<1> QED BY <1>2, <1>4 DEF PrivateSocketsKept

(* socket() takes a free number, which no socket in use loses.             *)
LEMMA OpenKeeps ==
  ASSUME TypeInv, Opened, PrivateSocketsKept, NEW j \in Sockets, Open(j),
         \A k \in RawSockets : InUse(k)' => (InUse(k) \/ k = j) /\ j # "utils",
         j = "dhcp" => fd[j] = NoFd
  PROVE  Opened' /\ PrivateSocketsKept'
<1>1. PICK n \in Fd : /\ table[n] = "free"
                      /\ table' = [table EXCEPT ![n] = j]
                      /\ fd' = [fd EXCEPT ![j] = n]
  BY DEF Open, LowestFree
<1>2. fd \in [Sockets -> Fd \cup {NoFd}] /\ table \in [Fd -> Sockets \cup {"free"}]
  BY TypeParts DEF DescriptorsOK
<1>3. RawSockets \subseteq Sockets /\ "free" \notin Sockets /\ {"dhcp", "utils"} \subseteq Sockets
  BY DEF Sockets, RawSockets
<1>4. Opened'
  BY <1>1, <1>2, <1>3 DEF Opened
<1>5. ASSUME NEW k \in RawSockets, InUse(k)', ~Holds(k)'
      PROVE  fd'[k] = fd'["dhcp"] \/ (fd'[k] = fd'["utils"] /\ ~Holds("utils")')
  <2>1. k # j /\ InUse(k) /\ fd'[k] = fd[k] /\ j # "utils"
    BY <1>1, <1>2, <1>3, <1>5 DEF Holds
  <2>2. fd[k] \in Fd /\ ~Holds(k)
    BY <1>1, <1>2, <1>3, <1>5, <2>1 DEF Opened, Holds
  <2>3. fd[k] # NoFd
    BY <2>2 DEF Fd, NoFd
  <2>4. CASE fd[k] = fd["dhcp"]
    BY <1>1, <1>2, <1>3, <2>1, <2>3, <2>4
  <2>5. CASE fd[k] = fd["utils"] /\ ~Holds("utils")
    BY <1>1, <1>2, <1>3, <2>1, <2>5 DEF Holds
  <2> QED BY <2>1, <2>2, <2>4, <2>5 DEF PrivateSocketsKept
<1> QED BY <1>4, <1>5 DEF PrivateSocketsKept

(* A step that touches no descriptor and starts to use no socket.          *)
LEMMA UnchangedKeeps ==
  ASSUME Opened, PrivateSocketsKept, UNCHANGED descriptors,
         \A k \in RawSockets : InUse(k)' => InUse(k)
  PROVE  Opened' /\ PrivateSocketsKept'
BY DEF Opened, PrivateSocketsKept, Holds, descriptors
-----------------------------------------------------------------------------
(* One lemma per thread.                                                   *)

LEMMA SocketInit == Init => SocketInv
BY DEF Init, SocketInv, NotStarted, Fresh, Opened, PrivateSocketsKept, InUse, Threads, Advertisers,
  RawSockets, Sockets

LEMMA MainSockets == TypeInv /\ SocketInv /\ Main => SocketInv'
<1> SUFFICES ASSUME TypeInv, SocketInv, Main PROVE SocketInv'
  OBVIOUS
<1> USE TypeParts DEF SocketInv
<1>1. CASE MainInit
  <2>1. pc["ra"] = "off" /\ pc["rs"] = "off" /\ pc["dhcp"] = "off"
    BY <1>1 DEF MainInit, NotStarted
  <2>2. pc'["main"] = "wait" /\ pc'["ra"] = "off" /\ pc'["rs"] = "off"
    BY <1>1, <2>1 DEF MainInit, PcOK, Threads, Advertisers
  <2>3. fd'["dhcp"] = fd["dhcp"] /\ fd'["ra"] = fd["ra"]
    BY <1>1 DEF MainInit, UtilsInit, Open, DescriptorsOK, Sockets, RawSockets, descriptors
  <2>4. \A k \in RawSockets : ~InUse(k)'
    BY <2>2 DEF InUse, RawSockets
  <2> QED
    BY <2>1, <2>2, <2>3, <2>4 DEF NotStarted, Fresh, Opened, PrivateSocketsKept
<1>2. CASE MainStart
  <2>1. /\ pc'["main"] = "supervise" /\ pc'["dhcp"] = pc["dhcp"]
        /\ pc'["ra"] = "open" /\ pc'["rs"] = "open"
    BY <1>2 DEF MainStart, PcOK, Threads, Advertisers
  <2>2. \A k \in RawSockets : ~InUse(k)'
    BY <2>1 DEF InUse, RawSockets
  <2>3. UNCHANGED descriptors
    BY <1>2 DEF MainStart, KeepAll, KeepSockets
  <2>4. fd["ra"] = NoFd
    BY <1>2 DEF MainStart, NotStarted, Fresh
  <2> QED
    BY <2>1, <2>2, <2>3, <2>4 DEF NotStarted, Fresh, Opened, PrivateSocketsKept, descriptors
<1>3. CASE MainExit
  BY <1>3, UnchangedKeeps DEF MainExit, Exit, control, descriptors, NotStarted, Fresh, InUse
<1> QED BY <1>1, <1>2, <1>3 DEF Main

(* A thread that moves exists, so main is past its initialisation, and the *)
(* other threads stay where they are.                                      *)
LEMMA ThreadMoves ==
  ASSUME TypeInv, NotStarted, NEW t \in {"dhcp", "ra", "rs"}, NEW from, NEW to,
         from # "off", Goto(t, from, to)
  PROVE  /\ pc[t] = from /\ pc'[t] = to
         /\ \A u \in Threads \ {t} : pc'[u] = pc[u]
         /\ NotStarted'
<1>1. pc[t] = from /\ pc'[t] = to /\ \A u \in Threads \ {t} : pc'[u] = pc[u]
  BY TypeParts DEF Goto, PcOK, Threads, Advertisers
<1>2. NotStarted'
  BY <1>1 DEF NotStarted, Threads, Advertisers
<1> QED BY <1>1, <1>2

LEMMA DhcpSockets == TypeInv /\ SocketInv /\ (DhcpProgress \/ DhcpLock \/ DhcpEnvironment) => SocketInv'
<1> SUFFICES ASSUME TypeInv, SocketInv, DhcpProgress \/ DhcpLock \/ DhcpEnvironment
             PROVE  SocketInv'
  OBVIOUS
<1> USE DEF SocketInv, Threads, Advertisers
<1>1. ASSUME NEW from, NEW to, from \notin {"off", "open"}, to \notin {"off", "open"}, Goto("dhcp", from, to)
      PROVE  /\ \A k \in RawSockets : InUse(k)' <=> InUse(k)
             /\ NotStarted'
             /\ fd' = fd => Fresh'
  BY <1>1, ThreadMoves DEF InUse, Fresh
<1>2. ASSUME NEW from, NEW to, from \notin {"off", "open"}, to \notin {"off", "open"}, Goto("dhcp", from, to),
             UNCHANGED descriptors
      PROVE  SocketInv'
  BY <1>1, <1>2, UnchangedKeeps DEF descriptors
<1>3. ASSUME NEW from, NEW to, from \notin {"off", "open"}, to \notin {"off", "open"}, Goto("dhcp", from, to),
             Close({"dhcp"})
      PROVE  SocketInv'
  <2>1. fd' = fd
    BY <1>3 DEF Close
  <2>2. \A k \in RawSockets : InUse(k)' => InUse(k) /\ k \notin {"dhcp"}
    BY <1>1, <1>3 DEF RawSockets
  <2>3. {"dhcp"} \in SUBSET Sockets
    BY DEF Sockets
  <2> QED BY <1>1, <1>3, <2>1, <2>2, <2>3, CloseKeeps
<1>4. CASE DhcpOpen
  <2>1. /\ pc["dhcp"] = "open" /\ pc'["dhcp"] \in {"bind", "done"}
        /\ \A k \in RawSockets : InUse(k)' <=> InUse(k)
        /\ NotStarted'
    BY <1>4, ThreadMoves DEF DhcpOpen, InUse
  <2>2. CASE UNCHANGED descriptors
    BY <2>1, <2>2, UnchangedKeeps, ThreadMoves, <1>4 DEF descriptors, Fresh, DhcpOpen
  <2>3. CASE Open("dhcp")
    <3>1. Opened' /\ PrivateSocketsKept'
      BY <2>1, <2>3, OpenKeeps DEF Fresh, Sockets
    <3>2. fd'["ra"] = fd["ra"] /\ pc'["ra"] = pc["ra"]
      BY <1>4, <2>3, ThreadMoves, TypeParts DEF DhcpOpen, Open, DescriptorsOK, Sockets, RawSockets
    <3> QED BY <2>1, <3>1, <3>2 DEF Fresh
  <2> QED BY <1>4, <2>2, <2>3 DEF DhcpOpen
<1>5. CASE DhcpSolicitFails \/ DhcpRecvFails \/ DhcpBadReply
  BY <1>5, UnchangedKeeps DEF DhcpSolicitFails, DhcpRecvFails, DhcpBadReply, Exit, control, descriptors, NotStarted, Fresh, InUse
<1>6. CASE DhcpBind \/ DhcpCheck \/ DhcpClose
  BY <1>2, <1>3, <1>6 DEF DhcpBind, DhcpCheck, DhcpClose, KeepAll, KeepSockets
<1>7. CASE DhcpLock \/ DhcpSend \/ DhcpRecv \/ DhcpReply \/ DhcpStatusReply \/ DhcpRestart
  BY <1>2, <1>7 DEF DhcpLock, DhcpSend, DhcpRecv, DhcpReply, DhcpStatusReply, DhcpRestart, KeepAll, KeepSockets
<1>8. CASE DhcpConvert \/ DhcpSetLength \/ DhcpUnlock \/ DhcpWake
  BY <1>2, <1>8 DEF DhcpConvert, DhcpSetLength, DhcpUnlock, DhcpWake, KeepAll, KeepSockets
<1> QED BY <1>4, <1>5, <1>6, <1>7, <1>8 DEF DhcpProgress, DhcpEnvironment

LEMMA AdvertSockets ==
  ASSUME TypeInv, SocketInv, NEW t \in Advertisers, AdvertProgress(t) \/ AdvertLock(t)
  PROVE  SocketInv'
<1> USE DEF SocketInv
<1> DEFINE outside == {"off", "open", "openSend", "done"}
<1>1. ASSUME NEW from, NEW to, from \notin outside, to \notin outside, Goto(t, from, to)
      PROVE  /\ \A k \in RawSockets : InUse(k)' <=> InUse(k)
             /\ NotStarted'
             /\ fd' = fd => Fresh'
  <2>1. /\ pc[t] = from /\ pc'[t] = to
        /\ \A u \in Threads \ {t} : pc'[u] = pc[u]
        /\ NotStarted'
    BY <1>1, ThreadMoves DEF Advertisers
  <2> QED BY <1>1, <2>1 DEF InUse, Fresh, Threads, Advertisers
<1>2. ASSUME NEW from, NEW to, from \notin outside, to \notin outside, Goto(t, from, to),
             UNCHANGED descriptors
      PROVE  SocketInv'
  <2> HIDE DEF outside
  <2> QED BY <1>1, <1>2, UnchangedKeeps DEF descriptors
<1>3. CASE UtilsCloseOnError(t)
  <2>1. Goto(t, "disconnect", AfterAddress(t)) /\ AfterAddress(t) \in {"lock", "recv"}
    BY <1>3 DEF UtilsCloseOnError, AfterAddress
  <2>2. /\ \A k \in RawSockets : InUse(k)' <=> InUse(k)
        /\ NotStarted'
        /\ fd' = fd => Fresh'
    BY <1>1, <2>1
  <2>3. fd' = fd /\ Close({"utils"})
    BY <1>3 DEF UtilsCloseOnError, Close
  <2>4. {"utils"} \in SUBSET Sockets /\ "utils" \notin RawSockets
    BY DEF Sockets, RawSockets
  <2> QED BY <2>2, <2>3, <2>4, CloseKeeps
<1>4. CASE UtilsConnect(t) \/ UtilsGetSockName(t)
  BY <1>2, <1>4 DEF UtilsConnect, UtilsGetSockName, AfterAddress, KeepAll, KeepSockets
<1>5. CASE AdvertLock(t) \/ AdvertCopy(t) \/ AdvertSend(t) \/ AdvertUnlock(t)
  BY <1>2, <1>5 DEF AdvertLock, AdvertCopy, AdvertSend, AdvertUnlock, KeepSockets
<1> QED BY <1>3, <1>4, <1>5 DEF AdvertProgress

LEMMA RaSockets == TypeInv /\ SocketInv /\ RaProgress => SocketInv'
<1> SUFFICES ASSUME TypeInv, SocketInv, RaProgress PROVE SocketInv'
  OBVIOUS
<1> USE DEF SocketInv
<1>1. ASSUME NEW from, NEW to, from # "off", Goto("ra", from, to)
      PROVE  /\ pc["ra"] = from /\ pc'["ra"] = to
             /\ pc'["rs"] = pc["rs"] /\ pc'["dhcp"] = pc["dhcp"]
             /\ NotStarted'
  BY <1>1, ThreadMoves DEF Threads, Advertisers
<1>2. ASSUME NEW from \in {"open", "bind", "check"}, Goto("ra", from, "done"), Close({"ra"})
      PROVE  SocketInv'
  <2>1. fd' = fd
    BY <1>2 DEF Close
  <2>2. \A k \in RawSockets : InUse(k)' => InUse(k) /\ k \notin {"ra"}
    BY <1>1, <1>2 DEF RawSockets, InUse
  <2>3. InUse("ra") \/ fd["ra"] = NoFd
    BY <1>1, <1>2 DEF InUse, Fresh
  <2>4. {"ra"} \in SUBSET Sockets
    BY DEF Sockets, RawSockets
  <2>5. Opened' /\ PrivateSocketsKept'
    BY <1>2, <2>2, <2>3, <2>4, CloseKeeps
  <2> QED BY <1>1, <1>2, <2>1, <2>5 DEF Fresh
<1>3. CASE Goto("ra", "open", "bind") /\ Open("ra")
  <2>1. \A k \in RawSockets : InUse(k)' => (InUse(k) \/ k = "ra") /\ "ra" # "utils"
    BY <1>1, <1>3 DEF RawSockets, InUse
  <2>2. Opened' /\ PrivateSocketsKept'
    BY <1>3, <2>1, OpenKeeps DEF Sockets, RawSockets
  <2>3. fd'["dhcp"] = fd["dhcp"]
    BY <1>3, TypeParts DEF Open, DescriptorsOK, Sockets, RawSockets
  <2> QED BY <1>1, <1>3, <2>2, <2>3 DEF Fresh
<1>4. ASSUME NEW from \in {"bind", "check", "sleep"}, NEW to \in {"check", "connect"},
             Goto("ra", from, to), UNCHANGED descriptors
      PROVE  SocketInv'
  <2>1. \A k \in RawSockets : InUse(k)' => InUse(k)
    BY <1>1, <1>4 DEF RawSockets, InUse
  <2> QED BY <1>1, <1>4, <2>1, UnchangedKeeps DEF Fresh, descriptors
<1>5. CASE RaOpen
  BY <1>2, <1>3, <1>5 DEF RaOpen, RaFails
<1>6. CASE RaBind
  BY <1>2, <1>4, <1>6 DEF RaBind, RaFails, KeepAll, KeepSockets
<1>7. CASE RaCheck \/ RaWake
  BY <1>2, <1>4, <1>7 DEF RaCheck, RaWake, KeepAll, KeepSockets
<1>8. CASE AdvertProgress("ra")
  BY <1>8, AdvertSockets DEF Advertisers
<1> QED BY <1>5, <1>6, <1>7, <1>8 DEF RaProgress

LEMMA RsSockets == TypeInv /\ SocketInv /\ (RsProgress \/ RsEnvironment) => SocketInv'
<1> SUFFICES ASSUME TypeInv, SocketInv, RsProgress \/ RsEnvironment PROVE SocketInv'
  OBVIOUS
<1> USE DEF SocketInv
<1>1. ASSUME NEW from, NEW to, from # "off", Goto("rs", from, to)
      PROVE  /\ pc["rs"] = from /\ pc'["rs"] = to
             /\ pc'["ra"] = pc["ra"] /\ pc'["dhcp"] = pc["dhcp"]
             /\ NotStarted'
  BY <1>1, ThreadMoves DEF Threads, Advertisers
<1>2. ASSUME NEW from \in {"bind", "check"}, Goto("rs", from, "done"),
             NEW S \in SUBSET {"rsRecv", "rsSend"}, Close(S)
      PROVE  SocketInv'
  <2>1. fd' = fd
    BY <1>2 DEF Close
  <2>2. \A k \in RawSockets : InUse(k)' => InUse(k) /\ k \notin S
    BY <1>1, <1>2 DEF RawSockets, InUse
  <2>3. S \in SUBSET Sockets /\ \A j \in S : InUse(j)
    BY <1>1, <1>2 DEF InUse, Sockets, RawSockets
  <2>4. Opened' /\ PrivateSocketsKept'
    BY <1>2, <2>2, <2>3, CloseKeeps
  <2> QED BY <1>1, <1>2, <2>1, <2>4 DEF Fresh
<1>3. ASSUME NEW k \in {"rsRecv", "rsSend"}, Open(k),
             Goto("rs", IF k = "rsRecv" THEN "open" ELSE "openSend", IF k = "rsRecv" THEN "openSend" ELSE "bind")
      PROVE  SocketInv'
  <2>1. \A j \in RawSockets : InUse(j)' => (InUse(j) \/ j = k) /\ k # "utils"
    BY <1>1, <1>3 DEF RawSockets, InUse
  <2>2. Opened' /\ PrivateSocketsKept'
    BY <1>3, <2>1, OpenKeeps DEF Sockets, RawSockets
  <2>3. fd'["dhcp"] = fd["dhcp"] /\ fd'["ra"] = fd["ra"]
    BY <1>3, TypeParts DEF Open, DescriptorsOK, Sockets, RawSockets
  <2> QED BY <1>1, <1>3, <2>2, <2>3 DEF Fresh
<1>4. ASSUME NEW from \in {"bind", "check", "recv", "blocked"},
             NEW to \in {"check", "connect", "recv", "blocked", "lock"},
             Goto("rs", from, to), UNCHANGED descriptors
      PROVE  SocketInv'
  <2>1. \A k \in RawSockets : InUse(k)' => InUse(k)
    BY <1>1, <1>4 DEF RawSockets, InUse
  <2> QED BY <1>1, <1>4, <2>1, UnchangedKeeps DEF Fresh, descriptors
<1>5. CASE RsOpen \/ RsOpenSend
  BY <1>3, <1>5 DEF RsOpen, RsOpenSend
<1>6. CASE RsOpenFails
  BY <1>6, UnchangedKeeps DEF RsOpenFails, Exit, control, descriptors, NotStarted, Fresh, InUse
<1>7. CASE RsBind \/ RsCheck
  BY <1>2, <1>4, <1>7 DEF RsBind, RsCheck, KeepAll, KeepSockets
<1>8. CASE RsRecv \/ RsDrop
  BY <1>4, <1>8 DEF RsRecv, RsDrop, KeepAll, KeepSockets
<1>9. CASE RsRecvFails \/ RsSolicited
  BY <1>4, <1>9 DEF RsRecvFails, RsSolicited, TakeClient, KeepSockets
<1>10. CASE AdvertProgress("rs")
  BY <1>10, AdvertSockets DEF Advertisers
<1> QED BY <1>5, <1>6, <1>7, <1>8, <1>9, <1>10 DEF RsProgress, RsEnvironment

LEMMA SignalSockets == TypeInv /\ SocketInv /\ (Signal \/ SignalDispose) => SocketInv'
<1> SUFFICES ASSUME TypeInv, SocketInv, Signal \/ SignalDispose PROVE SocketInv'
  OBVIOUS
<1> USE DEF SocketInv
<1>1. pc' = pc /\ fd' = fd
  BY DEF Signal, SignalDispose, Close, descriptors
<1>2. \A k \in RawSockets : InUse(k)' <=> InUse(k)
  BY <1>1 DEF InUse
<1>3. NotStarted' /\ Fresh'
  BY <1>1 DEF NotStarted, Fresh
<1>4. CASE Signal
  BY <1>2, <1>3, <1>4, UnchangedKeeps DEF Signal
<1>5. CASE SignalDispose
  BY <1>2, <1>3, <1>5, CloseKeeps DEF SignalDispose, Sockets, RawSockets
<1> QED BY <1>4, <1>5

LEMMA SocketInvariant == Spec => []SocketInv
<1>1. TypeInv /\ SocketInv /\ [Next]_vars => SocketInv'
  <2> SUFFICES ASSUME TypeInv, SocketInv, [Next]_vars PROVE SocketInv'
    OBVIOUS
  <2>1. CASE UNCHANGED vars
    <3>1. pc' = pc /\ fd' = fd /\ UNCHANGED descriptors /\ \A k \in RawSockets : InUse(k)' <=> InUse(k)
      BY <2>1 DEF vars, control, descriptors, InUse
    <3>2. NotStarted' /\ Fresh'
      BY <3>1 DEF SocketInv, NotStarted, Fresh
    <3> QED BY <3>1, <3>2, UnchangedKeeps DEF SocketInv
  <2>2. CASE Step
    BY <2>2, MainSockets, DhcpSockets, AdvertSockets, RaSockets, RsSockets, SignalSockets DEF Step, Work
  <2> QED BY <2>1, <2>2 DEF Next, Terminated
<1> QED BY <1>1, SocketInit, TypeInvariant, PTL DEF Spec

(* A socket of the LAN side leaves its thread only through the number that *)
(* the DHCP thread closes again and again, or through a utils_handler that *)
(* was closed before.                                                      *)
THEOREM SocketsKept == Spec => []PrivateSocketsKept
<1>1. SocketInv => PrivateSocketsKept
  BY DEF SocketInv
<1> QED BY <1>1, SocketInvariant, PTL
-----------------------------------------------------------------------------
(* socket() always finds a number.                                         *)

(* The statement that opens socket k lies ahead.                           *)
NotYetOpened(k) ==
  /\ k = "utils" => pc["main"] = "init"
  /\ k = "dhcp" => pc["dhcp"] \in {"off", "open"}
  /\ k = "ra" => pc["ra"] \in {"off", "open"}
  /\ k = "rsRecv" => pc["rs"] \in {"off", "open"}
  /\ k = "rsSend" => pc["rs"] \in {"off", "open", "openSend"}

(* Each socket is opened once, so it is open under one number at most.     *)
TableInv ==
  /\ \A k \in Sockets : NotYetOpened(k) => \A n \in Fd : table[n] # k
  /\ \A m, n \in Fd : table[m] = table[n] /\ table[n] # "free" => m = n

NumberFree == \E n \in Fd : LowestFree(n)

(* A socket that is still to be opened leaves four for the five numbers.   *)
LEMMA NumberIsFree ==
  ASSUME TypeInv, TableInv, NEW k \in Sockets, NotYetOpened(k)
  PROVE  NumberFree
<1>1. /\ \A n \in {3, 4, 5, 6, 7} : table[n] \in {"utils", "dhcp", "ra", "rsRecv", "rsSend", "free"} \ {k}
      /\ \A m, n \in {3, 4, 5, 6, 7} : table[m] = table[n] /\ table[n] # "free" => m = n
      /\ k \in {"utils", "dhcp", "ra", "rsRecv", "rsSend"}
  BY TypeParts DEF TableInv, DescriptorsOK, Fd, Sockets, RawSockets
<1>2. \E n \in {3, 4, 5, 6, 7} : table[n] = "free"
  BY <1>1
<1>3. PICK n \in Fd : table[n] = "free" /\ \A m \in Fd : m < n => table[m] # "free"
  BY <1>2 DEF Fd
<1> QED BY <1>3 DEF NumberFree, LowestFree

LEMMA TableKept ==
  ASSUME TypeInv, TableInv, \A k \in Sockets : NotYetOpened(k)' => NotYetOpened(k),
         \/ UNCHANGED descriptors
         \/ \E S : Close(S)
         \/ \E k \in Sockets : Open(k) /\ NotYetOpened(k) /\ ~NotYetOpened(k)'
         \/ UNCHANGED table
  PROVE  TableInv'
<1>1. table \in [Fd -> Sockets \cup {"free"}] /\ "free" \notin Sockets
  BY TypeParts DEF DescriptorsOK, Sockets, RawSockets
<1>2. CASE UNCHANGED table \/ UNCHANGED descriptors
  BY <1>2 DEF TableInv, descriptors
<1>3. CASE \E S : Close(S)
  <2>1. \A n \in Fd : table'[n] \in {table[n], "free"}
    BY <1>3 DEF Close
  <2> HIDE DEF NotYetOpened
  <2> QED BY <1>1, <2>1 DEF TableInv
<1>4. ASSUME NEW k \in Sockets, Open(k), NotYetOpened(k), ~NotYetOpened(k)' PROVE TableInv'
  <2>1. PICK n \in Fd : table' = [table EXCEPT ![n] = k]
    BY <1>4 DEF Open
  <2>2. \A m \in Fd : table[m] # k
    BY <1>4 DEF TableInv
  <2> QED BY <1>1, <1>4, <2>1, <2>2 DEF TableInv
<1> QED BY <1>2, <1>3, <1>4

LEMMA TableInit == Init => TableInv
BY DEF Init, TableInv, Sockets, RawSockets

LEMMA MainTable == TypeInv /\ NotStarted /\ TableInv /\ Main => TableInv'
<1> SUFFICES ASSUME TypeInv, NotStarted, TableInv, Main PROVE TableInv'
  OBVIOUS
<1> USE TypeParts
<1>1. CASE MainInit
  <2>1. /\ pc["main"] = "init" /\ pc["dhcp"] = "off"
        /\ pc'["main"] = "wait" /\ pc'["ra"] = pc["ra"] /\ pc'["rs"] = pc["rs"]
    BY <1>1 DEF MainInit, NotStarted, PcOK, Threads, Advertisers
  <2>2. \A k \in Sockets : NotYetOpened(k)' => NotYetOpened(k)
    BY <2>1 DEF NotYetOpened
  <2>3. NotYetOpened("utils") /\ ~NotYetOpened("utils")' /\ "utils" \in Sockets
    BY <2>1 DEF NotYetOpened, Sockets
  <2> QED BY <1>1, <2>2, <2>3, TableKept DEF MainInit, UtilsInit
<1>2. CASE MainStart
  <2>1. /\ pc["ra"] = "off" /\ pc["rs"] = "off" /\ pc'["dhcp"] = pc["dhcp"]
        /\ pc["main"] # "init" /\ pc'["main"] # "init"
    BY <1>2 DEF MainStart, NotStarted, PcOK, Threads, Advertisers
  <2>2. \A k \in Sockets : NotYetOpened(k)' => NotYetOpened(k)
    BY <2>1 DEF NotYetOpened
  <2> QED BY <1>2, <2>2, TableKept DEF MainStart, KeepAll, KeepSockets
<1>3. CASE MainExit
  BY <1>3, TableKept DEF MainExit, Exit, control, NotYetOpened
<1> QED BY <1>1, <1>2, <1>3 DEF Main

(* What a step of thread t from `from' to `to' opens, if anything.         *)
LEMMA TableMove ==
  ASSUME TypeInv, NotStarted, TableInv, NEW t \in {"dhcp", "ra", "rs"}, NEW from, NEW to,
         from # "off", Goto(t, from, to), to \notin {"off", "open"},
         to = "openSend" => from = "open" /\ t = "rs",
         \/ UNCHANGED descriptors
         \/ \E S : Close(S)
         \/ t \in {"dhcp", "ra"} /\ from = "open" /\ Open(t)
         \/ t = "rs" /\ from = "open" /\ Open("rsRecv")
         \/ t = "rs" /\ from = "openSend" /\ to # "openSend" /\ Open("rsSend")
  PROVE  TableInv'
<1>1. pc[t] = from /\ pc'[t] = to /\ \A u \in Threads \ {t} : pc'[u] = pc[u]
  BY ThreadMoves
<1>2. \A k \in Sockets : NotYetOpened(k)' => NotYetOpened(k)
  BY <1>1 DEF NotYetOpened, Threads, Advertisers
<1>3. CASE t \in {"dhcp", "ra"} /\ from = "open" /\ Open(t)
  <2>1. t \in Sockets /\ NotYetOpened(t) /\ ~NotYetOpened(t)'
    BY <1>1, <1>3 DEF NotYetOpened, Sockets, RawSockets
  <2> QED BY <1>2, <1>3, <2>1, TableKept
<1>4. CASE t = "rs" /\ from = "open" /\ Open("rsRecv")
  <2>1. "rsRecv" \in Sockets /\ NotYetOpened("rsRecv") /\ ~NotYetOpened("rsRecv")'
    BY <1>1, <1>4 DEF NotYetOpened, Sockets, RawSockets
  <2> QED BY <1>2, <1>4, <2>1, TableKept
<1>5. CASE t = "rs" /\ from = "openSend" /\ to # "openSend" /\ Open("rsSend")
  <2>1. "rsSend" \in Sockets /\ NotYetOpened("rsSend") /\ ~NotYetOpened("rsSend")'
    BY <1>1, <1>5 DEF NotYetOpened, Sockets, RawSockets
  <2> QED BY <1>2, <1>5, <2>1, TableKept
<1>6. CASE UNCHANGED descriptors \/ \E S : Close(S)
  BY <1>2, <1>6, TableKept
<1> QED BY <1>3, <1>4, <1>5, <1>6

(* A step that moves no thread.                                            *)
LEMMA TableStays ==
  ASSUME TypeInv, TableInv, UNCHANGED pc, UNCHANGED descriptors \/ \E S : Close(S)
  PROVE  TableInv'
BY TableKept DEF NotYetOpened

LEMMA ThreadsTable == TypeInv /\ NotStarted /\ TableInv /\ Work => TableInv'
<1> SUFFICES ASSUME TypeInv, NotStarted, TableInv, Work PROVE TableInv'
  OBVIOUS
<1> USE DEF KeepAll, KeepSockets
<1>1. CASE DhcpOpen \/ DhcpBind \/ DhcpCheck \/ DhcpClose
  BY <1>1, TableMove DEF DhcpOpen, DhcpBind, DhcpCheck, DhcpClose
<1>2. CASE DhcpLock \/ DhcpSend \/ DhcpRecv \/ DhcpReply \/ DhcpStatusReply \/ DhcpRestart
  BY <1>2, TableMove DEF DhcpLock, DhcpSend, DhcpRecv, DhcpReply, DhcpStatusReply, DhcpRestart
<1>3. CASE DhcpConvert \/ DhcpSetLength \/ DhcpUnlock \/ DhcpWake
  BY <1>3, TableMove DEF DhcpConvert, DhcpSetLength, DhcpUnlock, DhcpWake
<1>4. CASE DhcpSolicitFails \/ DhcpRecvFails \/ DhcpBadReply \/ RsOpenFails
  BY <1>4, TableStays DEF DhcpSolicitFails, DhcpRecvFails, DhcpBadReply, RsOpenFails, Exit, control
<1>5. ASSUME NEW t \in Advertisers, AdvertProgress(t) \/ AdvertLock(t) PROVE TableInv'
  <2>1. CASE UtilsConnect(t) \/ UtilsGetSockName(t) \/ UtilsCloseOnError(t)
    BY <2>1, TableMove DEF UtilsConnect, UtilsGetSockName, UtilsCloseOnError, AfterAddress, Advertisers
  <2>2. CASE AdvertLock(t) \/ AdvertCopy(t) \/ AdvertSend(t) \/ AdvertUnlock(t)
    BY <2>2, TableMove DEF AdvertLock, AdvertCopy, AdvertSend, AdvertUnlock, Advertisers
  <2> QED BY <1>5, <2>1, <2>2 DEF AdvertProgress
<1>6. CASE RaOpen \/ RaBind \/ RaCheck \/ RaWake
  BY <1>6, TableMove DEF RaOpen, RaBind, RaCheck, RaWake, RaFails
<1>7. CASE RsOpen \/ RsOpenSend \/ RsBind \/ RsCheck
  BY <1>7, TableMove DEF RsOpen, RsOpenSend, RsBind, RsCheck
<1>8. CASE RsRecv \/ RsDrop \/ RsRecvFails \/ RsSolicited
  BY <1>8, TableMove DEF RsRecv, RsDrop, RsRecvFails, RsSolicited, TakeClient
<1> QED BY <1>1, <1>2, <1>3, <1>4, <1>5, <1>6, <1>7, <1>8
    DEF Work, DhcpProgress, DhcpEnvironment, RaProgress, RsProgress, RsEnvironment, Advertisers

LEMMA TableInvariant == Spec => []TableInv
<1>1. TypeInv /\ SocketInv /\ TableInv /\ [Next]_vars => TableInv'
  <2> SUFFICES ASSUME TypeInv, SocketInv, TableInv, [Next]_vars PROVE TableInv'
    OBVIOUS
  <2>1. CASE UNCHANGED vars
    BY <2>1, TableStays DEF vars, control
  <2>2. CASE Signal \/ SignalDispose
    BY <2>2, TableStays DEF Signal, SignalDispose
  <2>3. CASE Main \/ Work
    BY <2>3, MainTable, ThreadsTable DEF SocketInv
  <2> QED BY <2>1, <2>2, <2>3 DEF Next, Step, Terminated
<1> QED BY <1>1, TableInit, TypeInvariant, SocketInvariant, PTL DEF Spec
=============================================================================
