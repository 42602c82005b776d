------------------------- MODULE PdradPrefixProofs -------------------------
(***************************************************************************)
(* What the mutex buys, for every value of Pdrad's constants: the daemon   *)
(* implements PrefixCell, and a grant is accepted once, so that the two    *)
(* lifetimes keep one byte order.                                          *)
(***************************************************************************)
EXTENDS PdradSocketProofs

Lockers == {"dhcp", "ra", "rs"}

Critical(t) ==
  IF t = "dhcp" THEN {"send", "recv", "blocked", "close", "convert", "setLength", "unlock"}
  ELSE {"copy", "send", "unlock"}

(* The mutex is held by the thread that is between lock and unlock.        *)
MutexInv == \A t \in Lockers : mutex = t <=> pc[t] \in Critical(t)

(* main passes its wait before the first record is published only while    *)
(* the DHCP thread is about to publish it.                                 *)
StartInv == /\ useDhcp \/ published # None
            /\ pc["main"] = "supervise" /\ published = None => mutex = "dhcp"

(* Outside the DHCP thread's critical section _prefix is what is published.*)
PrefixInv == /\ mutex # "dhcp" => prefix = published \/ (published = None /\ prefix = ZeroRecord)
             /\ pc["dhcp"] = "unlock" => prefix.PrefixLength = 64
             /\ \A t \in Advertisers : pc[t] = "send" => copy[t] = prefix.Prefix

CellInv == MutexInv /\ StartInv /\ PrefixInv

LEMMA CellInit == Init => CellInv
<1> SUFFICES ASSUME Init PROVE CellInv
  OBVIOUS
<1>1. MutexInv
  BY DEF Init, MutexInv, Lockers, Critical, Threads, Advertisers
<1>2. useDhcp \/ published # None
  <2>1. CASE ~useDhcp
    BY <2>1, StaticRecordType, NoneAssumption DEF Init
  <2> QED BY <2>1
<1>3. mutex # "dhcp" => prefix = published \/ (published = None /\ prefix = ZeroRecord)
  BY DEF Init
<1> QED BY <1>1, <1>2, <1>3 DEF Init, CellInv, StartInv, PrefixInv, Threads, Advertisers

(* A step that leaves _prefix and its mutex alone keeps the invariant if no*)
(* thread enters or leaves a critical section by it.                       *)
LEMMA CellKept ==
  ASSUME CellInv, UNCHANGED <<useDhcp, mutex, prefix, published>>,
         \A t \in Lockers : pc'[t] \in Critical(t) <=> pc[t] \in Critical(t),
         pc'["main"] = "supervise" /\ published = None => mutex = "dhcp",
         pc'["dhcp"] = "unlock" => prefix.PrefixLength = 64,
         \A t \in Advertisers : pc'[t] = "send" => copy'[t] = prefix.Prefix
  PROVE  CellInv'
BY DEF CellInv, MutexInv, StartInv, PrefixInv

LEMMA MainCell == TypeInv /\ SocketInv /\ CellInv /\ Main => CellInv'
<1> SUFFICES ASSUME TypeInv, SocketInv, CellInv, Main PROVE CellInv'
  OBVIOUS
<1> USE TypeParts DEF KeepAll, KeepData, KeepSockets, KeepControl, KeepProcess, data, control
<1>1. CASE MainInit
  <2>1. /\ pc'["main"] = "wait" /\ pc["dhcp"] = "off" /\ pc'["dhcp"] \in {"open", "off"}
        /\ pc'["ra"] = pc["ra"] /\ pc'["rs"] = pc["rs"]
    <3> DEFINE first == IF useDhcp THEN "open" ELSE "off"
    <3>1. first \in {"open", "off"}
      OBVIOUS
    <3>2. pc' = [pc EXCEPT !["main"] = "wait", !["dhcp"] = first] /\ pc["dhcp"] = "off"
      BY <1>1 DEF MainInit, SocketInv, NotStarted
    <3>3. PcOK /\ Threads = {"ra", "rs", "main", "dhcp"}
      BY DEF Threads, Advertisers
    <3> HIDE DEF first
    <3> QED BY <3>1, <3>2, <3>3 DEF PcOK
  <2> QED
    BY <1>1, <2>1, CellKept DEF MainInit, Lockers, Critical, Advertisers, CellInv, PrefixInv
<1>2. CASE MainStart
  <2>1. /\ pc["ra"] = "off" /\ pc["rs"] = "off" /\ pc'["ra"] = "open" /\ pc'["rs"] = "open"
        /\ pc'["dhcp"] = pc["dhcp"]
    BY <1>2 DEF MainStart, SocketInv, NotStarted, PcOK, Threads, Advertisers
  <2>2. published = None => mutex = "dhcp"
    <3>1. ZeroRecord.PrefixLength = 0
      BY DEF ZeroRecord
    <3>2. prefix # None
      BY TypeParts, NoneAssumption DEF DataOK
    <3> QED BY <1>2, <3>1, <3>2 DEF MainStart, CellInv, StartInv, PrefixInv
  <2> QED
    BY <1>2, <2>1, <2>2, CellKept DEF MainStart, Lockers, Critical, Advertisers, CellInv, PrefixInv
<1>3. CASE MainExit
  BY <1>3, CellKept DEF MainExit, Exit, CellInv, StartInv, PrefixInv
<1> QED BY <1>1, <1>2, <1>3 DEF Main

LEMMA DhcpCell ==
  TypeInv /\ SocketInv /\ CellInv /\ (DhcpProgress \/ DhcpLock \/ DhcpEnvironment) => CellInv'
<1> SUFFICES ASSUME TypeInv, SocketInv, CellInv, DhcpProgress \/ DhcpLock \/ DhcpEnvironment
             PROVE  CellInv'
  OBVIOUS
<1> USE DEF KeepAll, KeepData, KeepSockets, KeepControl, KeepProcess, data, control
<1>1. ASSUME NEW from, NEW to, from # "off", Goto("dhcp", from, to)
      PROVE  /\ pc["dhcp"] = from /\ pc'["dhcp"] = to
             /\ pc'["main"] = pc["main"] /\ pc'["ra"] = pc["ra"] /\ pc'["rs"] = pc["rs"]
  BY <1>1, ThreadMoves DEF SocketInv, Threads, Advertisers
<1>2. ASSUME NEW from, NEW to, from # "off", to # "unlock", Goto("dhcp", from, to),
             from \in Critical("dhcp") <=> to \in Critical("dhcp"),
             UNCHANGED <<useDhcp, mutex, prefix, published, copy>>
      PROVE  CellInv'
  BY <1>1, <1>2, CellKept DEF CellInv, StartInv, PrefixInv, Lockers, Advertisers
<1>3. CASE DhcpOpen \/ DhcpBind \/ DhcpCheck
  BY <1>2, <1>3 DEF DhcpOpen, DhcpBind, DhcpCheck, Critical
<1>4. CASE DhcpSend \/ DhcpRecv \/ DhcpRestart
  BY <1>2, <1>4 DEF DhcpSend, DhcpRecv, DhcpRestart, Critical
<1>5. CASE DhcpClose \/ DhcpWake
  BY <1>2, <1>5 DEF DhcpClose, DhcpWake, Critical
<1>6. CASE DhcpSolicitFails \/ DhcpRecvFails \/ DhcpBadReply
  BY <1>6, CellKept DEF DhcpSolicitFails, DhcpRecvFails, DhcpBadReply, Exit, CellInv, StartInv, PrefixInv
<1>7. CASE DhcpLock
  BY <1>1, <1>7 DEF DhcpLock, Lock, CellInv, MutexInv, StartInv, PrefixInv, Lockers, Critical, Advertisers
<1>8. ASSUME NEW from \in {"blocked", "convert"}, NEW to \in {"close", "setLength"}, Goto("dhcp", from, to),
             UNCHANGED <<useDhcp, mutex, published>>
      PROVE  CellInv'
  <2>1. mutex = "dhcp" /\ \A t \in Advertisers : pc[t] # "send"
    BY <1>1, <1>8 DEF CellInv, MutexInv, Lockers, Critical, Advertisers
  <2> QED BY <1>1, <1>8, <2>1 DEF CellInv, MutexInv, StartInv, PrefixInv, Lockers, Critical, Advertisers
<1>9. CASE DhcpReply \/ DhcpStatusReply \/ DhcpConvert
  BY <1>8, <1>9 DEF DhcpReply, DhcpStatusReply, DhcpConvert
<1>10. CASE DhcpSetLength
  <2>1. pc["dhcp"] = "setLength" /\ pc'["dhcp"] = "unlock" /\ UNCHANGED <<useDhcp, mutex, published>>
    BY <1>1, <1>10 DEF DhcpSetLength
  <2>2. mutex = "dhcp" /\ \A t \in Advertisers : pc[t] # "send"
    BY <2>1 DEF CellInv, MutexInv, Lockers, Critical, Advertisers
  <2>3. prefix'.PrefixLength = 64
    BY <1>10, TypeParts DEF DhcpSetLength, DataOK, PrefixRecord
  <2>4. \A t \in Advertisers : pc'[t] # "send"
    BY <1>1, <1>10, <2>2 DEF DhcpSetLength, Advertisers
  <2>5. MutexInv'
    BY <1>1, <1>10, <2>1 DEF DhcpSetLength, CellInv, MutexInv, Lockers, Critical
  <2> QED BY <2>1, <2>2, <2>3, <2>4, <2>5 DEF CellInv, StartInv, PrefixInv
<1>11. CASE DhcpUnlock
  <2>1. /\ pc["dhcp"] = "unlock" /\ pc'["dhcp"] = "sleep"
        /\ pc'["ra"] = pc["ra"] /\ pc'["rs"] = pc["rs"]
    BY <1>1, <1>11 DEF DhcpUnlock
  <2>2. /\ mutex' = "free" /\ published' = prefix /\ prefix' = prefix /\ copy' = copy
    BY <1>11 DEF DhcpUnlock, Unlock
  <2>3. published' # None
    BY <2>2, TypeParts, NoneAssumption DEF DataOK
  <2>4. MutexInv'
    BY <2>1, <2>2 DEF CellInv, MutexInv, Lockers, Critical
  <2> QED BY <2>1, <2>2, <2>3, <2>4 DEF CellInv, StartInv, PrefixInv, Advertisers
<1> QED BY <1>3, <1>4, <1>5, <1>6, <1>7, <1>9, <1>10, <1>11 DEF DhcpProgress, DhcpEnvironment

LEMMA AdvertCell ==
  ASSUME TypeInv, SocketInv, CellInv, NEW t \in Advertisers, AdvertProgress(t) \/ AdvertLock(t)
  PROVE  CellInv'
<1> USE DEF KeepAll, KeepData, KeepSockets, KeepControl, KeepProcess, data, control
<1>1. ASSUME NEW from, NEW to, from # "off", Goto(t, from, to)
      PROVE  /\ pc[t] = from /\ pc'[t] = to
             /\ \A u \in Threads \ {t} : pc'[u] = pc[u]
  BY <1>1, ThreadMoves DEF SocketInv, Advertisers
<1>2. ASSUME NEW from \in {"connect", "sockname", "disconnect"},
             NEW to \in {"sockname", "disconnect", "lock", "recv"}, Goto(t, from, to),
             UNCHANGED <<useDhcp, mutex, prefix, published, copy>>
      PROVE  CellInv'
  <2>1. \A u \in Lockers : pc'[u] \in Critical(u) <=> pc[u] \in Critical(u)
    BY <1>1, <1>2 DEF Lockers, Critical, Advertisers, Threads
  <2>2. /\ pc'["main"] = pc["main"] /\ pc'["dhcp"] = pc["dhcp"]
        /\ \A u \in Advertisers : pc'[u] = "send" => pc[u] = "send"
    BY <1>1, <1>2 DEF Advertisers, Threads
  <2> QED BY <1>2, <2>1, <2>2, CellKept DEF CellInv, StartInv, PrefixInv
<1>3. CASE UtilsConnect(t) \/ UtilsGetSockName(t) \/ UtilsCloseOnError(t)
  BY <1>2, <1>3 DEF UtilsConnect, UtilsGetSockName, UtilsCloseOnError, AfterAddress
<1>4. CASE AdvertLock(t)
  <2>1. /\ pc[t] = "lock" /\ pc'[t] = "copy" /\ \A u \in Threads \ {t} : pc'[u] = pc[u]
    BY <1>1, <1>4 DEF AdvertLock
  <2>2. mutex = "free" /\ mutex' = t /\ UNCHANGED <<useDhcp, prefix, published, copy>>
    BY <1>4 DEF AdvertLock, Lock
  <2> QED BY <2>1, <2>2 DEF CellInv, MutexInv, StartInv, PrefixInv, Lockers, Critical, Advertisers, Threads
<1>5. CASE AdvertCopy(t)
  <2>1. /\ pc[t] = "copy" /\ pc'[t] = "send" /\ \A u \in Threads \ {t} : pc'[u] = pc[u]
    BY <1>1, <1>5 DEF AdvertCopy
  <2>2. copy' = [copy EXCEPT ![t] = prefix.Prefix] /\ UNCHANGED <<useDhcp, mutex, prefix, published>>
    BY <1>5 DEF AdvertCopy
  <2>3. \A u \in Advertisers : pc'[u] = "send" => copy'[u] = prefix.Prefix
    BY <2>1, <2>2, TypeParts DEF DataOK, CellInv, PrefixInv, Advertisers, Threads
  <2>4. \A u \in Lockers : pc'[u] \in Critical(u) <=> pc[u] \in Critical(u)
    BY <2>1 DEF Lockers, Critical, Advertisers, Threads
  <2>5. pc'["main"] = pc["main"] /\ pc'["dhcp"] = pc["dhcp"]
    BY <2>1 DEF Advertisers, Threads
  <2> QED BY <2>2, <2>3, <2>4, <2>5, CellKept DEF CellInv, StartInv, PrefixInv
<1>6. CASE AdvertSend(t)
  <2>1. /\ pc[t] = "send" /\ pc'[t] = "unlock" /\ \A u \in Threads \ {t} : pc'[u] = pc[u]
    BY <1>1, <1>6 DEF AdvertSend
  <2>2. UNCHANGED <<useDhcp, mutex, prefix, published, copy>>
    BY <1>6 DEF AdvertSend
  <2>3. \A u \in Lockers : pc'[u] \in Critical(u) <=> pc[u] \in Critical(u)
    BY <2>1 DEF Lockers, Critical, Advertisers, Threads
  <2>4. /\ pc'["main"] = pc["main"] /\ pc'["dhcp"] = pc["dhcp"]
        /\ \A u \in Advertisers : pc'[u] = "send" => pc[u] = "send"
    BY <2>1 DEF Advertisers, Threads
  <2> QED BY <2>2, <2>3, <2>4, CellKept DEF CellInv, StartInv, PrefixInv
<1>7. CASE AdvertUnlock(t)
  <2>1. /\ pc[t] = "unlock" /\ pc'[t] \in {"sleep", "check"} /\ \A u \in Threads \ {t} : pc'[u] = pc[u]
    BY <1>1, <1>7 DEF AdvertUnlock
  <2>2. mutex = t
    BY <2>1 DEF CellInv, MutexInv, Lockers, Critical, Advertisers
  <2>3. \A u \in Advertisers : pc'[u] # "send"
    BY <2>1, <2>2 DEF CellInv, MutexInv, Lockers, Critical, Advertisers, Threads
  <2>4. mutex' = "free" /\ UNCHANGED <<useDhcp, prefix, published>>
    BY <1>7 DEF AdvertUnlock, Unlock
  <2>5. MutexInv'
    BY <2>1, <2>2, <2>4 DEF CellInv, MutexInv, Lockers, Critical, Advertisers, Threads
  <2>6. pc'["main"] = pc["main"] /\ pc'["dhcp"] = pc["dhcp"] /\ mutex # "dhcp"
    BY <2>1, <2>2 DEF Advertisers, Threads
  <2> QED BY <2>3, <2>4, <2>5, <2>6 DEF CellInv, StartInv, PrefixInv
<1> QED BY <1>3, <1>4, <1>5, <1>6, <1>7 DEF AdvertProgress

LEMMA RaRsCell ==
  TypeInv /\ SocketInv /\ CellInv /\ (RaProgress \/ RsProgress \/ RsEnvironment) => CellInv'
<1> SUFFICES ASSUME TypeInv, SocketInv, CellInv, RaProgress \/ RsProgress \/ RsEnvironment
             PROVE  CellInv'
  OBVIOUS
<1> USE DEF KeepAll, KeepData, KeepSockets, KeepControl, KeepProcess, data, control
<1>1. ASSUME NEW t \in Advertisers, NEW from, NEW to, from \notin Critical(t) \cup {"off"}, to \notin Critical(t),
             Goto(t, from, to), UNCHANGED <<useDhcp, mutex, prefix, published, copy>>
      PROVE  CellInv'
  <2>1. pc[t] = from /\ pc'[t] = to /\ \A u \in Threads \ {t} : pc'[u] = pc[u]
    BY <1>1, ThreadMoves DEF SocketInv, Advertisers
  <2>2. \A u \in Lockers : pc'[u] \in Critical(u) <=> pc[u] \in Critical(u)
    BY <1>1, <2>1 DEF Lockers, Advertisers, Threads
  <2>3. /\ pc'["main"] = pc["main"] /\ pc'["dhcp"] = pc["dhcp"]
        /\ \A u \in Advertisers : pc'[u] = "send" => pc[u] = "send"
    BY <1>1, <2>1 DEF Advertisers, Threads, Critical
  <2> QED BY <1>1, <2>2, <2>3, CellKept DEF CellInv, StartInv, PrefixInv
<1>2. CASE RaOpen \/ RaBind
  BY <1>1, <1>2 DEF RaOpen, RaBind, RaFails, Critical, Advertisers
<1>3. CASE RaCheck \/ RaWake
  BY <1>1, <1>3 DEF RaCheck, RaWake, Critical, Advertisers
<1>4. CASE RsOpen \/ RsOpenSend \/ RsBind \/ RsCheck
  BY <1>1, <1>4 DEF RsOpen, RsOpenSend, RsBind, RsCheck, Critical, Advertisers
<1>5. CASE RsRecv \/ RsDrop \/ RsRecvFails \/ RsSolicited
  BY <1>1, <1>5 DEF RsRecv, RsDrop, RsRecvFails, RsSolicited, TakeClient, Critical, Advertisers
<1>6. CASE RsOpenFails
  BY <1>6, CellKept DEF RsOpenFails, Exit, CellInv, StartInv, PrefixInv
<1>7. CASE \E t \in Advertisers : AdvertProgress(t)
  BY <1>7, AdvertCell
<1> QED BY <1>2, <1>3, <1>4, <1>5, <1>6, <1>7 DEF RaProgress, RsProgress, RsEnvironment, Advertisers

LEMMA CellInvariant == Spec => []CellInv
<1>1. TypeInv /\ SocketInv /\ CellInv /\ [Next]_vars => CellInv'
  <2> SUFFICES ASSUME TypeInv, SocketInv, CellInv, [Next]_vars PROVE CellInv'
    OBVIOUS
  <2>1. CASE UNCHANGED vars
    BY <2>1, CellKept DEF vars, control, data, CellInv, StartInv, PrefixInv
  <2>2. CASE Signal \/ SignalDispose
    BY <2>2, CellKept DEF Signal, SignalDispose, KeepProcess, data, CellInv, StartInv, PrefixInv
  <2>3. CASE Main \/ Work
    BY <2>3, MainCell, DhcpCell, AdvertCell, RaRsCell DEF Work
  <2> QED BY <2>1, <2>2, <2>3 DEF Next, Step, Terminated
<1> QED BY <1>1, CellInit, TypeInvariant, SocketInvariant, PTL DEF Spec

-----------------------------------------------------------------------------
(* The refinement.                                                         *)

(* Every Router Advertisement carries one complete record that the DHCP    *)
(* thread (or main) published, the current one, and every record published *)
(* later is for a /64.                                                     *)
THEOREM Refinement == Spec => AdvertisesPublishedRecords
<1>1. Init => Cell!Init
  <2> SUFFICES ASSUME Init PROVE Cell!Init
    OBVIOUS
  <2>1. published \in PrefixRecord \cup {None}
    BY TypeInit, TypeParts DEF DataOK
  <2> QED BY <2>1 DEF Init, Cell!Init
<1>2. TypeInv /\ SocketInv /\ CellInv /\ [Next]_vars => [Cell!Next]_(Cell!vars)
  <2> SUFFICES ASSUME TypeInv, SocketInv, CellInv, [Next]_vars
               PROVE  Cell!Next \/ UNCHANGED Cell!vars
    OBVIOUS
  <2> USE DEF KeepAll, KeepData, KeepSockets, KeepControl, KeepProcess, data, control
  <2>1. ASSUME UNCHANGED <<published, lastRa>> PROVE UNCHANGED Cell!vars
    BY <2>1 DEF Cell!vars
  <2>2. CASE DhcpUnlock
    <3>1. published' = prefix /\ prefix.PrefixLength = 64 /\ lastRa' = lastRa
      BY <2>2 DEF DhcpUnlock, Goto, CellInv, PrefixInv
    <3>2. prefix \in PrefixRecord
      BY TypeParts DEF DataOK
    <3> QED BY <3>1, <3>2 DEF Cell!Next, Cell!Publish
  <2>3. ASSUME NEW t \in Advertisers, AdvertSend(t) PROVE Cell!Next \/ UNCHANGED Cell!vars
    <3>1. CASE UNCHANGED <<published, lastRa>>
      BY <2>1, <3>1
    <3>2. CASE lastRa' = [record |-> [prefix EXCEPT !.Prefix = copy[t]], by |-> t, to |-> Destination(t)]
      <4>1. pc[t] = "send" /\ published' = published
        BY <2>3 DEF AdvertSend, Goto
      <4>2. mutex # "dhcp" /\ copy[t] = prefix.Prefix
        BY <4>1 DEF CellInv, MutexInv, PrefixInv, Lockers, Critical, Advertisers
      <4>3. published # None
        BY <4>1, <4>2 DEF CellInv, StartInv, SocketInv, NotStarted, Advertisers
      <4>4. prefix \in PrefixRecord /\ [prefix EXCEPT !.Prefix = copy[t]] = prefix
        BY <4>2, TypeParts DEF DataOK, PrefixRecord
      <4>5. lastRa'.record = prefix /\ lastRa' # None
        BY <3>2, <4>4, TypeParts, AdvertIsAdvert, NoneAssumption
      <4> QED BY <4>1, <4>2, <4>3, <4>5 DEF CellInv, PrefixInv, Cell!Next, Cell!Advertise
    <3> QED BY <2>3, <3>1, <3>2 DEF AdvertSend
  <2>4. CASE UNCHANGED vars
    BY <2>1, <2>4 DEF vars
  <2>5. CASE Main \/ Signal \/ SignalDispose
    BY <2>1, <2>5 DEF Main, MainInit, MainStart, MainExit, Exit, Signal, SignalDispose
  <2>6. CASE DhcpLock \/ DhcpEnvironment \/ (DhcpProgress /\ ~DhcpUnlock)
    BY <2>1, <2>6 DEF DhcpProgress, DhcpEnvironment, DhcpOpen, DhcpBind, DhcpCheck, DhcpLock, DhcpSend,
      DhcpSolicitFails, DhcpRecv, DhcpRecvFails, DhcpReply, DhcpStatusReply, DhcpBadReply, DhcpRestart, DhcpClose, DhcpConvert,
      DhcpSetLength, DhcpWake, Exit
  <2>7. ASSUME NEW t \in Advertisers, AdvertProgress(t) \/ AdvertLock(t)
        PROVE  Cell!Next \/ UNCHANGED Cell!vars
    BY <2>1, <2>3, <2>7 DEF AdvertProgress, AdvertLock, UtilsConnect, UtilsGetSockName,
      UtilsCloseOnError, AdvertCopy, AdvertUnlock
  <2>8. CASE RaProgress
    BY <2>1, <2>7, <2>8 DEF RaProgress, RaOpen, RaBind, RaCheck, RaWake, RaFails, Advertisers
  <2>9. CASE RsProgress \/ RsEnvironment
    BY <2>1, <2>7, <2>9 DEF RsProgress, RsEnvironment, RsOpen, RsOpenSend, RsOpenFails, RsBind, RsCheck,
      RsRecv, RsRecvFails, RsSolicited, RsDrop, TakeClient, Exit, Advertisers
  <2> QED BY <2>2, <2>4, <2>5, <2>6, <2>7, <2>8, <2>9 DEF Next, Step, Work, Terminated
<1> QED BY <1>1, <1>2, TypeInvariant, SocketInvariant, CellInvariant, PTL
      DEF Spec, AdvertisesPublishedRecords, Cell!Spec

-----------------------------------------------------------------------------
(* One grant, and the byte order of its lifetimes.                         *)

(* Once something was granted or published the DHCP thread's socket is     *)
(* gone, or about to be closed, and it can never again wait for a reply.   *)
NoSecondReply ==
  /\ useDhcp /\ (granted # None \/ published # None) =>
       /\ pc["dhcp"] \notin {"off", "open", "bind", "recv", "blocked"}
       /\ pc["dhcp"] # "close" => ~Holds("dhcp")
  /\ pc["dhcp"] \in {"convert", "setLength", "unlock", "sleep"} => ~Holds("dhcp")
  /\ ~useDhcp => pc["dhcp"] = "off"

PrefixInOrder ==
  useDhcp /\ granted # None => SameOrder(prefix, granted) \/ SwappedOrder(prefix, granted)

LifetimesInv == NoSecondReply /\ PrefixInOrder /\ LifetimesShareByteOrder

(* Only the DHCP thread's own socket() gives it a socket.                  *)
LEMMA HoldsOnlyByOpen ==
  ASSUME TypeInv, ~Holds("dhcp"),
         \/ UNCHANGED descriptors
         \/ \E S : Close(S)
         \/ \E k \in Sockets \ {"dhcp"} : Open(k)
  PROVE  ~Holds("dhcp")'
<1>1. fd \in [Sockets -> Fd \cup {NoFd}] /\ table \in [Fd -> Sockets \cup {"free"}]
  BY TypeParts DEF DescriptorsOK
<1>2. CASE UNCHANGED descriptors
  BY <1>2 DEF Holds, descriptors
<1>3. CASE \E S : Close(S)
  BY <1>1, <1>3 DEF Holds, Close
<1>4. CASE \E k \in Sockets \ {"dhcp"} : Open(k)
  BY <1>1, <1>4 DEF Holds, Open, Sockets
<1> QED BY <1>2, <1>3, <1>4

(* Reversing the bytes of both lifetimes exchanges the two orders.         *)
LEMMA SwapOrder ==
  ASSUME NEW r \in PrefixRecord, NEW q \in PrefixRecord, NEW g \in Grant,
         SameOrder(r, g) \/ SwappedOrder(r, g), SwappedOrder(q, r)
  PROVE  SameOrder(q, g) \/ SwappedOrder(q, g)
<1>1. g.PreferredLifetime \in Word32 /\ g.ValidLifetime \in Word32
  BY ConstantsAssumption DEF Grant
<1> QED BY <1>1, SwapWord DEF SameOrder, SwappedOrder

(* A step of another thread.                                               *)
LEMMA LifetimesKept ==
  ASSUME LifetimesInv, UNCHANGED <<useDhcp, prefix, granted, published>>, pc'["dhcp"] = pc["dhcp"],
         ~Holds("dhcp") => ~Holds("dhcp")'
  PROVE  LifetimesInv'
BY DEF LifetimesInv, NoSecondReply, PrefixInOrder, LifetimesShareByteOrder, SameOrder, SwappedOrder

LEMMA LifetimesInit == Init => LifetimesInv
BY DEF Init, LifetimesInv, NoSecondReply, PrefixInOrder, LifetimesShareByteOrder, Threads, Advertisers

LEMMA DhcpLifetimes ==
  TypeInv /\ SocketInv /\ LifetimesInv /\ (DhcpProgress \/ DhcpLock \/ DhcpEnvironment) => LifetimesInv'
<1> SUFFICES ASSUME TypeInv, SocketInv, LifetimesInv, DhcpProgress \/ DhcpLock \/ DhcpEnvironment
             PROVE  LifetimesInv'
  OBVIOUS
<1> USE DEF LifetimesInv, KeepAll, KeepData, KeepSockets, KeepControl, KeepProcess, data, control
<1>1. ASSUME NEW from, NEW to, from # "off", Goto("dhcp", from, to)
      PROVE  pc["dhcp"] = from /\ pc'["dhcp"] = to /\ useDhcp
  BY <1>1, ThreadMoves DEF SocketInv, NoSecondReply
<1>2. ASSUME UNCHANGED <<useDhcp, prefix, granted, published>>, NoSecondReply'
      PROVE  LifetimesInv'
  BY <1>2 DEF PrefixInOrder, LifetimesShareByteOrder, SameOrder, SwappedOrder
<1>3. CASE DhcpOpen \/ DhcpBind
  <2>1. UNCHANGED <<useDhcp, prefix, granted, published>>
    BY <1>3 DEF DhcpOpen, DhcpBind
  <2>2. pc["dhcp"] \in {"open", "bind"} /\ pc'["dhcp"] \in {"bind", "check", "done"} /\ useDhcp
    BY <1>1, <1>3 DEF DhcpOpen, DhcpBind
  <2> QED BY <1>2, <2>1, <2>2 DEF NoSecondReply
<1>4. CASE DhcpCheck \/ DhcpLock \/ DhcpWake
  <2>1. UNCHANGED <<useDhcp, prefix, granted, published>>
    BY <1>4 DEF DhcpCheck, DhcpLock, DhcpWake
  <2>2. pc["dhcp"] \in {"check", "lock", "sleep"} /\ pc'["dhcp"] \in {"check", "lock", "send", "done"} /\ useDhcp
    BY <1>1, <1>4 DEF DhcpCheck, DhcpLock, DhcpWake
  <2>3. ~Holds("dhcp") => ~Holds("dhcp")'
    BY <1>4, HoldsOnlyByOpen DEF DhcpCheck, DhcpLock, DhcpWake
  <2> QED BY <1>2, <2>1, <2>2, <2>3 DEF NoSecondReply
<1>5. CASE DhcpSend \/ DhcpRecv \/ DhcpRestart
  <2>1. UNCHANGED <<useDhcp, prefix, granted, published>> /\ UNCHANGED descriptors
    BY <1>5 DEF DhcpSend, DhcpRecv, DhcpRestart
  <2>2. /\ useDhcp
        /\ \/ pc["dhcp"] \in {"send", "recv"} /\ pc'["dhcp"] \in {"recv", "blocked"} /\ Holds("dhcp")
           \/ pc["dhcp"] = "send" /\ pc'["dhcp"] = "close"
           \/ pc["dhcp"] = "blocked" /\ pc'["dhcp"] = "recv"
    BY <1>1, <1>5 DEF DhcpSend, DhcpRecv, DhcpRestart
  <2> QED BY <1>2, <2>1, <2>2 DEF NoSecondReply
<1>6. CASE DhcpReply
  <2>1. pc["dhcp"] = "blocked" /\ pc'["dhcp"] = "close" /\ useDhcp /\ UNCHANGED <<useDhcp, published>>
    BY <1>1, <1>6 DEF DhcpReply
  <2>2. published = None
    BY <2>1 DEF NoSecondReply
  <2>3. granted' \in Grant
    BY <1>6 DEF DhcpReply
  <2>4. SwappedOrder(prefix', granted')
    BY <1>6, <2>3 DEF DhcpReply, SwappedOrder, LoadRaw, Grant
  <2> QED BY <2>1, <2>2, <2>4 DEF NoSecondReply, PrefixInOrder, LifetimesShareByteOrder
<1>7. CASE DhcpClose
  <2>1. UNCHANGED <<useDhcp, prefix, granted, published>>
    BY <1>7 DEF DhcpClose
  <2>2. pc'["dhcp"] = "convert" /\ useDhcp
    BY <1>1, <1>7 DEF DhcpClose
  <2>3. ~Holds("dhcp")'
    BY <1>7 DEF DhcpClose, Close, Holds
  <2> QED BY <1>2, <2>1, <2>2, <2>3 DEF NoSecondReply
<1>8. CASE DhcpConvert \/ DhcpSetLength
  <2>1. UNCHANGED <<useDhcp, granted, published>> /\ UNCHANGED descriptors
    BY <1>8 DEF DhcpConvert, DhcpSetLength
  <2>2. pc["dhcp"] \in {"convert", "setLength"} /\ pc'["dhcp"] \in {"setLength", "unlock"} /\ useDhcp
    BY <1>1, <1>8 DEF DhcpConvert, DhcpSetLength
  <2>3. NoSecondReply'
    BY <2>1, <2>2 DEF NoSecondReply, Holds, descriptors
  <2>4. prefix \in PrefixRecord /\ prefix' \in PrefixRecord /\ granted \in Grant \cup {None}
    BY <1>8, DhcpType, TypeParts, TypePartsNext DEF DataOK, DhcpProgress
  <2>5. SameOrder(prefix', prefix) \/ SwappedOrder(prefix', prefix)
    BY <1>8, <2>4 DEF DhcpConvert, DhcpSetLength, SameOrder, SwappedOrder, be32toh, PrefixRecord
  <2>6. PrefixInOrder'
    BY <2>1, <2>2, <2>4, <2>5, SwapOrder DEF PrefixInOrder, SameOrder, SwappedOrder
  <2> QED BY <2>1, <2>3, <2>6 DEF LifetimesShareByteOrder, SameOrder, SwappedOrder
<1>9. CASE DhcpUnlock
  <2>1. pc["dhcp"] = "unlock" /\ pc'["dhcp"] = "sleep" /\ useDhcp
    BY <1>1, <1>9 DEF DhcpUnlock
  <2>2. UNCHANGED <<useDhcp, prefix, granted>> /\ published' = prefix /\ UNCHANGED descriptors
    BY <1>9 DEF DhcpUnlock
  <2>3. NoSecondReply'
    BY <2>1, <2>2 DEF NoSecondReply, Holds, descriptors
  <2> QED BY <2>2, <2>3 DEF PrefixInOrder, LifetimesShareByteOrder, SameOrder, SwappedOrder
<1>10. CASE DhcpSolicitFails \/ DhcpRecvFails \/ DhcpBadReply
  BY <1>10, LifetimesKept, HoldsOnlyByOpen DEF DhcpSolicitFails, DhcpRecvFails, DhcpBadReply, Exit
<1>11. CASE DhcpStatusReply
  <2>1. pc["dhcp"] = "blocked" /\ pc'["dhcp"] = "close" /\ useDhcp /\ UNCHANGED <<useDhcp, published, granted>>
    BY <1>1, <1>11 DEF DhcpStatusReply
  <2>2. published = None /\ granted = None
    BY <2>1 DEF NoSecondReply
  <2> QED BY <2>1, <2>2 DEF NoSecondReply, PrefixInOrder, LifetimesShareByteOrder
<1> QED BY <1>3, <1>4, <1>5, <1>6, <1>7, <1>8, <1>9, <1>10, <1>11 DEF DhcpProgress, DhcpEnvironment

LEMMA MainLifetimes == TypeInv /\ SocketInv /\ LifetimesInv /\ Main => LifetimesInv'
<1> SUFFICES ASSUME TypeInv, SocketInv, LifetimesInv, Main PROVE LifetimesInv'
  OBVIOUS
<1> USE TypeParts DEF KeepAll, KeepData, KeepSockets, KeepControl, KeepProcess, data, control
<1>1. CASE MainInit
  <2>1. pc["dhcp"] = "off"
    BY <1>1 DEF MainInit, SocketInv, NotStarted
  <2>2. pc'["dhcp"] = IF useDhcp THEN "open" ELSE "off"
    BY <1>1 DEF MainInit, PcOK, Threads
  <2> QED
    BY <1>1, <2>1, <2>2 DEF MainInit, LifetimesInv, NoSecondReply, PrefixInOrder, LifetimesShareByteOrder
<1>2. CASE MainStart
  <2>1. pc'["dhcp"] = pc["dhcp"]
    BY <1>2 DEF MainStart, PcOK, Threads
  <2> QED BY <1>2, <2>1, LifetimesKept, HoldsOnlyByOpen DEF MainStart
<1>3. CASE MainExit
  BY <1>3, LifetimesKept, HoldsOnlyByOpen DEF MainExit, Exit
<1> QED BY <1>1, <1>2, <1>3 DEF Main

LEMMA AdvertLifetimes ==
  ASSUME TypeInv, SocketInv, LifetimesInv, NEW t \in Advertisers, AdvertProgress(t) \/ AdvertLock(t)
  PROVE  LifetimesInv'
<1> USE DEF KeepAll, KeepData, KeepSockets, KeepControl, KeepProcess, data, control
<1>1. ASSUME NEW from, NEW to, from # "off", Goto(t, from, to) PROVE pc'["dhcp"] = pc["dhcp"]
  BY <1>1, ThreadMoves DEF SocketInv, Threads, Advertisers
<1>2. CASE UtilsConnect(t) \/ UtilsGetSockName(t) \/ UtilsCloseOnError(t)
  <2>1. pc'["dhcp"] = pc["dhcp"]
    BY <1>1, <1>2 DEF UtilsConnect, UtilsGetSockName, UtilsCloseOnError
  <2> QED
    BY <1>2, <2>1, LifetimesKept, HoldsOnlyByOpen DEF UtilsConnect, UtilsGetSockName, UtilsCloseOnError
<1>3. CASE AdvertLock(t) \/ AdvertCopy(t) \/ AdvertSend(t) \/ AdvertUnlock(t)
  <2>1. pc'["dhcp"] = pc["dhcp"]
    BY <1>1, <1>3 DEF AdvertLock, AdvertCopy, AdvertSend, AdvertUnlock
  <2> QED
    BY <1>3, <2>1, LifetimesKept, HoldsOnlyByOpen DEF AdvertLock, AdvertCopy, AdvertSend, AdvertUnlock
<1> QED BY <1>2, <1>3 DEF AdvertProgress

LEMMA RaRsLifetimes ==
  TypeInv /\ SocketInv /\ LifetimesInv /\ (RaProgress \/ RsProgress \/ RsEnvironment) => LifetimesInv'
<1> SUFFICES ASSUME TypeInv, SocketInv, LifetimesInv, RaProgress \/ RsProgress \/ RsEnvironment
             PROVE  LifetimesInv'
  OBVIOUS
<1> USE DEF KeepAll, KeepData, KeepSockets, KeepControl, KeepProcess, data, control
<1>1. ASSUME NEW t \in Advertisers, NEW from, NEW to, from # "off", Goto(t, from, to)
      PROVE  pc'["dhcp"] = pc["dhcp"]
  BY <1>1, ThreadMoves DEF SocketInv, Threads, Advertisers
<1>2. CASE RaOpen \/ RaBind \/ RaCheck \/ RaWake
  <2>1. pc'["dhcp"] = pc["dhcp"]
    BY <1>1, <1>2 DEF RaOpen, RaBind, RaCheck, RaWake, RaFails, Advertisers
  <2> QED
    BY <1>2, <2>1, LifetimesKept, HoldsOnlyByOpen
    DEF RaOpen, RaBind, RaCheck, RaWake, RaFails, Sockets, RawSockets
<1>3. CASE RsOpen \/ RsOpenSend \/ RsBind \/ RsCheck
  <2>1. pc'["dhcp"] = pc["dhcp"]
    BY <1>1, <1>3 DEF RsOpen, RsOpenSend, RsBind, RsCheck, Advertisers
  <2> QED
    BY <1>3, <2>1, LifetimesKept, HoldsOnlyByOpen DEF RsOpen, RsOpenSend, RsBind, RsCheck, Sockets, RawSockets
<1>4. CASE RsRecv \/ RsDrop \/ RsRecvFails \/ RsSolicited
  <2>1. pc'["dhcp"] = pc["dhcp"]
    BY <1>1, <1>4 DEF RsRecv, RsDrop, RsRecvFails, RsSolicited, TakeClient, Advertisers
  <2> QED
    BY <1>4, <2>1, LifetimesKept, HoldsOnlyByOpen DEF RsRecv, RsDrop, RsRecvFails, RsSolicited, TakeClient
<1>5. CASE RsOpenFails
  BY <1>5, LifetimesKept, HoldsOnlyByOpen DEF RsOpenFails, Exit
<1>6. CASE \E t \in Advertisers : AdvertProgress(t)
  BY <1>6, AdvertLifetimes
<1> QED BY <1>2, <1>3, <1>4, <1>5, <1>6 DEF RaProgress, RsProgress, RsEnvironment, Advertisers

LEMMA LifetimesInvariant == Spec => []LifetimesInv
<1>1. TypeInv /\ SocketInv /\ LifetimesInv /\ [Next]_vars => LifetimesInv'
  <2> SUFFICES ASSUME TypeInv, SocketInv, LifetimesInv, [Next]_vars PROVE LifetimesInv'
    OBVIOUS
  <2>1. CASE UNCHANGED vars
    BY <2>1, LifetimesKept, HoldsOnlyByOpen DEF vars, control, data
  <2>2. CASE Signal \/ SignalDispose
    BY <2>2, LifetimesKept, HoldsOnlyByOpen DEF Signal, SignalDispose, KeepProcess, data
  <2>3. CASE Main \/ Work
    BY <2>3, MainLifetimes, DhcpLifetimes, AdvertLifetimes, RaRsLifetimes DEF Work
  <2> QED BY <2>1, <2>2, <2>3 DEF Next, Step, Terminated
<1> QED BY <1>1, LifetimesInit, TypeInvariant, SocketInvariant, PTL DEF Spec

(* Whatever the number of failed renewals, the two published lifetimes are *)
(* in one byte order: both as granted, or both swapped.                    *)
THEOREM LifetimesInOneOrder == Spec => []LifetimesShareByteOrder
<1>1. LifetimesInv => LifetimesShareByteOrder
  BY DEF LifetimesInv
<1> QED BY <1>1, LifetimesInvariant, PTL

(* The daemon accepts at most one reply in its life: the thread closes its *)
(* socket after the first request and never opens another.                 *)
THEOREM GrantedOnce == Spec => []GrantedOnlyOnce
<1>1. LifetimesInv => GrantedOnlyOnce
  BY DEF LifetimesInv, NoSecondReply, GrantedOnlyOnce
<1> QED BY <1>1, LifetimesInvariant, PTL
-----------------------------------------------------------------------------
(* The steps of the two advertising threads, as the other threads see them.*)

LanStep == \/ RaProgress \/ RsProgress \/ RsEnvironment
           \/ \E t \in Advertisers : AdvertLock(t)

LEMMA LanSteps ==
  ASSUME TypeInv, NotStarted, LanStep
  PROVE  /\ UNCHANGED <<useDhcp, prefix, published, granted>>
         /\ pc'["main"] = pc["main"] /\ pc'["dhcp"] = pc["dhcp"]
         /\ UNCHANGED lastRa \/ \E t \in Advertisers : AdvertSend(t)
<1> USE DEF KeepAll, KeepData, KeepSockets, KeepControl, KeepProcess, data, control
<1> DEFINE Quiet == /\ UNCHANGED <<useDhcp, prefix, published, granted>>
                    /\ pc'["main"] = pc["main"] /\ pc'["dhcp"] = pc["dhcp"]
<1>1. ASSUME NEW t \in Advertisers, NEW from, NEW to, from # "off", Goto(t, from, to),
             UNCHANGED <<useDhcp, prefix, published, granted>>
      PROVE  Quiet
  BY <1>1, ThreadMoves DEF Threads, Advertisers
<1>2. ASSUME NEW t \in Advertisers, AdvertProgress(t) \/ AdvertLock(t)
      PROVE  Quiet /\ (UNCHANGED lastRa \/ AdvertSend(t))
  <2> HIDE DEF Quiet
  <2>1. CASE UtilsConnect(t) \/ UtilsGetSockName(t) \/ UtilsCloseOnError(t)
    BY <1>1, <2>1 DEF UtilsConnect, UtilsGetSockName, UtilsCloseOnError
  <2>2. CASE AdvertLock(t) \/ AdvertCopy(t) \/ AdvertSend(t) \/ AdvertUnlock(t)
    BY <1>1, <2>2 DEF AdvertLock, AdvertCopy, AdvertSend, AdvertUnlock
  <2> QED BY <1>2, <2>1, <2>2 DEF AdvertProgress
<1>3. CASE RaOpen \/ RaBind \/ RaCheck \/ RaWake
  <2> HIDE DEF Quiet
  <2>1. Quiet /\ UNCHANGED lastRa
    BY <1>1, <1>3 DEF RaOpen, RaBind, RaCheck, RaWake, RaFails, Advertisers
  <2> QED BY <2>1 DEF Quiet
<1>4. CASE RsOpen \/ RsOpenSend \/ RsBind \/ RsCheck \/ RsRecv \/ RsDrop \/ RsRecvFails \/ RsSolicited
  <2> HIDE DEF Quiet
  <2>1. Quiet /\ UNCHANGED lastRa
    BY <1>1, <1>4 DEF RsOpen, RsOpenSend, RsBind, RsCheck, RsRecv, RsDrop, RsRecvFails, RsSolicited,
      TakeClient, Advertisers
  <2> QED BY <2>1 DEF Quiet
<1>5. CASE RsOpenFails
  BY <1>5 DEF RsOpenFails, Exit
<1>6. CASE \E t \in Advertisers : AdvertProgress(t) \/ AdvertLock(t)
  BY <1>2, <1>6
<1> QED BY <1>3, <1>4, <1>5, <1>6 DEF LanStep, RaProgress, RsProgress, RsEnvironment, Advertisers

LEMMA WorkSplits == Work => DhcpProgress \/ DhcpLock \/ DhcpEnvironment \/ LanStep
BY DEF Work, LanStep

-----------------------------------------------------------------------------
(* The wait for a reply.                                                   *)

(* Until the first request ends there is no length for main to see.        *)
FirstRequest == {"off", "open", "bind", "check", "lock", "send", "recv", "blocked", "done"}

WaitInv ==
  /\ pc["dhcp"] \in FirstRequest /\ published = None =>
       prefix.PrefixLength = 0 /\ pc["main"] # "supervise"
  /\ pc["dhcp"] = "sleep" => published # None

LEMMA WaitInit == Init => WaitInv
BY ZeroRecordType, StaticRecordType, NoneAssumption DEF Init, WaitInv, ZeroRecord, Threads, Advertisers

LEMMA WaitKept ==
  ASSUME WaitInv, UNCHANGED <<prefix, published>>, pc'["main"] = pc["main"],
         pc'["dhcp"] \in FirstRequest => pc["dhcp"] \in FirstRequest \cup {"sleep"},
         pc'["dhcp"] = "sleep" => pc["dhcp"] = "sleep"
  PROVE  WaitInv'
BY DEF WaitInv

LEMMA MainWaits == TypeInv /\ SocketInv /\ CellInv /\ WaitInv /\ Main => WaitInv'
<1> SUFFICES ASSUME TypeInv, SocketInv, CellInv, WaitInv, Main PROVE WaitInv'
  OBVIOUS
<1> USE TypeParts DEF KeepAll, KeepData, KeepSockets, KeepControl, KeepProcess, data, control
<1>1. CASE MainInit
  <2>1. pc["dhcp"] = "off" /\ pc'["main"] = "wait" /\ UNCHANGED <<prefix, published>>
    BY <1>1 DEF MainInit, SocketInv, NotStarted, PcOK, Threads, Advertisers
  <2>2. pc'["dhcp"] \in {"open", "off"}
    BY <1>1 DEF MainInit, PcOK, Threads, Advertisers
  <2> QED BY <2>1, <2>2 DEF WaitInv, FirstRequest
<1>2. CASE MainStart
  <2>1. pc'["dhcp"] = pc["dhcp"] /\ UNCHANGED <<prefix, published>>
    BY <1>2 DEF MainStart, PcOK, Threads, Advertisers
  <2>2. published # None \/ prefix.PrefixLength # 0
    BY <1>2 DEF MainStart, CellInv, StartInv
  <2> QED BY <2>1, <2>2 DEF WaitInv, FirstRequest
<1>3. CASE MainExit
  BY <1>3, WaitKept DEF MainExit, Exit
<1> QED BY <1>1, <1>2, <1>3 DEF Main

LEMMA DhcpWaits ==
  TypeInv /\ SocketInv /\ WaitInv /\ (DhcpProgress \/ DhcpLock \/ DhcpEnvironment) => WaitInv'
<1> SUFFICES ASSUME TypeInv, SocketInv, WaitInv, DhcpProgress \/ DhcpLock \/ DhcpEnvironment
             PROVE  WaitInv'
  OBVIOUS
<1> USE DEF KeepAll, KeepData, KeepSockets, KeepControl, KeepProcess, data, control
<1>1. ASSUME NEW from, NEW to, from # "off", Goto("dhcp", from, to)
      PROVE  pc["dhcp"] = from /\ pc'["dhcp"] = to /\ pc'["main"] = pc["main"]
  BY <1>1, ThreadMoves DEF SocketInv, Threads, Advertisers
<1>2. ASSUME NEW from \in FirstRequest \ {"off"}, NEW to \in (FirstRequest \ {"off"}) \cup {"close"},
             Goto("dhcp", from, to), UNCHANGED <<prefix, published>>
      PROVE  WaitInv'
  BY <1>1, <1>2, WaitKept DEF FirstRequest
<1>3. CASE DhcpOpen \/ DhcpBind \/ DhcpCheck \/ DhcpLock
  BY <1>2, <1>3 DEF DhcpOpen, DhcpBind, DhcpCheck, DhcpLock, FirstRequest
<1>4. CASE DhcpSend \/ DhcpRecv \/ DhcpRestart
  BY <1>2, <1>4 DEF DhcpSend, DhcpRecv, DhcpRestart, FirstRequest
<1>5. CASE DhcpSolicitFails \/ DhcpRecvFails \/ DhcpBadReply
  BY <1>5, WaitKept DEF DhcpSolicitFails, DhcpRecvFails, DhcpBadReply, Exit
<1>6. CASE DhcpReply \/ DhcpStatusReply \/ DhcpClose \/ DhcpConvert \/ DhcpSetLength
  <2>1. pc'["dhcp"] \in {"close", "convert", "setLength", "unlock"} /\ UNCHANGED published
    BY <1>1, <1>6 DEF DhcpReply, DhcpStatusReply, DhcpClose, DhcpConvert, DhcpSetLength
  <2> QED BY <2>1 DEF WaitInv, FirstRequest
<1>7. CASE DhcpUnlock
  <2>1. pc'["dhcp"] = "sleep" /\ published' = prefix
    BY <1>1, <1>7 DEF DhcpUnlock
  <2> QED BY <2>1, TypeParts, NoneAssumption DEF WaitInv, FirstRequest, DataOK
<1>8. CASE DhcpWake
  BY <1>1, <1>8, WaitKept DEF DhcpWake
<1> QED BY <1>3, <1>4, <1>5, <1>6, <1>7, <1>8 DEF DhcpProgress, DhcpEnvironment

LEMMA WaitInvariant == Spec => []WaitInv
<1>1. TypeInv /\ SocketInv /\ CellInv /\ WaitInv /\ [Next]_vars => WaitInv'
  <2> SUFFICES ASSUME TypeInv, SocketInv, CellInv, WaitInv, [Next]_vars PROVE WaitInv'
    OBVIOUS
  <2>1. CASE UNCHANGED vars
    BY <2>1, WaitKept DEF vars, control, data
  <2>2. CASE Signal \/ SignalDispose
    BY <2>2, WaitKept DEF Signal, SignalDispose, data
  <2>3. CASE LanStep
    BY <2>3, LanSteps, WaitKept DEF SocketInv
  <2>4. CASE Main \/ Work
    BY <2>3, <2>4, MainWaits, DhcpWaits, WorkSplits
  <2> QED BY <2>1, <2>2, <2>4 DEF Next, Step, Terminated
<1> QED BY <1>1, WaitInit, TypeInvariant, SocketInvariant, CellInvariant, PTL DEF Spec

(* The DHCP thread waits for a reply with the mutex locked only while the  *)
(* threads that could want the mutex have not been created.                *)
THEOREM ReplyWaitHarmless == Spec => []ReplyHoldsUpNobody
<1>1. SocketInv /\ LifetimesInv /\ WaitInv => ReplyHoldsUpNobody
  <2> SUFFICES ASSUME SocketInv, LifetimesInv, WaitInv, pc["dhcp"] = "blocked"
               PROVE  pc["ra"] = "off" /\ pc["rs"] = "off"
    BY DEF ReplyHoldsUpNobody
  <2>1. published = None
    BY DEF LifetimesInv, NoSecondReply
  <2>2. pc["main"] # "supervise"
    BY <2>1 DEF WaitInv, FirstRequest
  <2> QED BY <2>2 DEF SocketInv, NotStarted
<1> QED BY <1>1, SocketInvariant, LifetimesInvariant, WaitInvariant, PTL
-----------------------------------------------------------------------------
(* No deadlock, but for main's wait.                                       *)

(* Whom main created is there, and the RA thread leaves only with its flag *)
(* set.                                                                    *)
CreatedInv ==
  /\ pc["main"] = "wait" /\ useDhcp => pc["dhcp"] # "off"
  /\ pc["main"] = "supervise" => pc["ra"] # "off"
  /\ pc["ra"] = "done" => cancel["ra"]

LEMMA CreatedInit == Init => CreatedInv
BY DEF Init, CreatedInv, Threads, Advertisers

LEMMA CreatedKept ==
  ASSUME CreatedInv, UNCHANGED useDhcp, pc'["main"] = pc["main"],
         pc["dhcp"] # "off" => pc'["dhcp"] # "off",
         pc["ra"] # "off" => pc'["ra"] # "off",
         pc'["ra"] = "done" => pc["ra"] = "done" \/ cancel'["ra"],
         cancel["ra"] => cancel'["ra"]
  PROVE  CreatedInv'
BY DEF CreatedInv

LEMMA MainCreates == TypeInv /\ SocketInv /\ CreatedInv /\ Main => CreatedInv'
<1> SUFFICES ASSUME TypeInv, SocketInv, CreatedInv, Main PROVE CreatedInv'
  OBVIOUS
<1> USE TypeParts DEF KeepAll, KeepData, KeepSockets, KeepControl, KeepProcess, control
<1>1. CASE MainInit
  <2>1. /\ pc'["main"] = "wait" /\ pc'["dhcp"] = IF useDhcp THEN "open" ELSE "off"
        /\ pc'["ra"] = pc["ra"] /\ UNCHANGED <<useDhcp, cancel>>
    BY <1>1 DEF MainInit, PcOK, Threads, Advertisers
  <2> QED BY <2>1 DEF CreatedInv
<1>2. CASE MainStart
  <2>1. pc'["main"] = "supervise" /\ pc'["ra"] = "open"
    BY <1>2 DEF MainStart, PcOK, Threads, Advertisers
  <2> QED BY <2>1 DEF CreatedInv
<1>3. CASE MainExit
  BY <1>3, CreatedKept DEF MainExit, Exit
<1> QED BY <1>1, <1>2, <1>3 DEF Main

LEMMA FlagStays ==
  ASSUME TypeInv, UNCHANGED cancel \/ \E S : SetCancel(S)
  PROVE  cancel["ra"] => cancel'["ra"]
BY TypeParts DEF FlagsOK, SetCancel

(* What a step of thread t does to the invariant: nothing, if the RA thread*)
(* does not end without its flag.                                          *)
LEMMA MoveKeepsCreated ==
  ASSUME TypeInv, SocketInv, CreatedInv, NEW t \in {"dhcp", "ra", "rs"}, NEW from, NEW to,
         from # "off", to # "off", Goto(t, from, to), UNCHANGED useDhcp,
         UNCHANGED cancel \/ \E S : SetCancel(S),
         t = "ra" /\ to = "done" => cancel'["ra"]
  PROVE  CreatedInv'
<1>1. pc[t] = from /\ pc'[t] = to /\ \A u \in Threads \ {t} : pc'[u] = pc[u]
  BY ThreadMoves DEF SocketInv
<1> QED BY <1>1, CreatedKept, FlagStays DEF Threads, Advertisers

LEMMA ThreadsCreated == TypeInv /\ SocketInv /\ CreatedInv /\ Work => CreatedInv'
<1> SUFFICES ASSUME TypeInv, SocketInv, CreatedInv, Work PROVE CreatedInv'
  OBVIOUS
<1> USE MoveKeepsCreated DEF KeepAll, KeepData, KeepSockets, KeepControl, KeepProcess
<1>1. CASE DhcpOpen \/ DhcpBind \/ DhcpCheck \/ DhcpClose
  BY <1>1 DEF DhcpOpen, DhcpBind, DhcpCheck, DhcpClose
<1>2. CASE DhcpLock \/ DhcpSend \/ DhcpRecv \/ DhcpReply \/ DhcpStatusReply \/ DhcpRestart
  BY <1>2 DEF DhcpLock, DhcpSend, DhcpRecv, DhcpReply, DhcpStatusReply, DhcpRestart
<1>3. CASE DhcpConvert \/ DhcpSetLength \/ DhcpUnlock \/ DhcpWake
  BY <1>3 DEF DhcpConvert, DhcpSetLength, DhcpUnlock, DhcpWake
<1>4. CASE DhcpSolicitFails \/ DhcpRecvFails \/ DhcpBadReply \/ RsOpenFails
  BY <1>4, CreatedKept DEF DhcpSolicitFails, DhcpRecvFails, DhcpBadReply, RsOpenFails, Exit, control
<1>5. ASSUME NEW t \in Advertisers, AdvertProgress(t) \/ AdvertLock(t) PROVE CreatedInv'
  <2>1. CASE UtilsConnect(t) \/ UtilsGetSockName(t) \/ UtilsCloseOnError(t)
    BY <2>1 DEF UtilsConnect, UtilsGetSockName, UtilsCloseOnError, AfterAddress, Advertisers
  <2>2. CASE AdvertLock(t) \/ AdvertCopy(t) \/ AdvertSend(t) \/ AdvertUnlock(t)
    BY <2>2 DEF AdvertLock, AdvertCopy, AdvertSend, AdvertUnlock, Advertisers
  <2> QED BY <1>5, <2>1, <2>2 DEF AdvertProgress
<1>6. ASSUME NEW from, RaFails(from), from # "off" PROVE CreatedInv'
  <2>1. cancel'["ra"]
    BY <1>6, TypeParts DEF RaFails, SetCancel, FlagsOK
  <2> QED BY <1>6, <2>1 DEF RaFails
<1>7. CASE RaOpen \/ RaBind \/ RaCheck \/ RaWake
  BY <1>6, <1>7 DEF RaOpen, RaBind, RaCheck, RaWake
<1>8. CASE RsOpen \/ RsOpenSend \/ RsBind \/ RsCheck
  BY <1>8 DEF RsOpen, RsOpenSend, RsBind, RsCheck
<1>9. CASE RsRecv \/ RsDrop \/ RsRecvFails \/ RsSolicited
  BY <1>9 DEF RsRecv, RsDrop, RsRecvFails, RsSolicited, TakeClient
<1> QED BY <1>1, <1>2, <1>3, <1>4, <1>5, <1>7, <1>8, <1>9
    DEF Work, DhcpProgress, DhcpEnvironment, RaProgress, RsProgress, RsEnvironment, Advertisers

LEMMA CreatedInvariant == Spec => []CreatedInv
<1>1. TypeInv /\ SocketInv /\ CreatedInv /\ [Next]_vars => CreatedInv'
  <2> SUFFICES ASSUME TypeInv, SocketInv, CreatedInv, [Next]_vars PROVE CreatedInv'
    OBVIOUS
  <2>1. CASE UNCHANGED vars
    BY <2>1, CreatedKept DEF vars, control
  <2>2. CASE Signal \/ SignalDispose
    BY <2>2, CreatedKept, FlagStays DEF Signal, SignalDispose, KeepProcess
  <2>3. CASE Main \/ Work
    BY <2>3, MainCreates, ThreadsCreated
  <2> QED BY <2>1, <2>2, <2>3 DEF Next, Step, Terminated
<1> QED BY <1>1, CreatedInit, TypeInvariant, SocketInvariant, PTL DEF Spec

(* Nothing but main's wait gets stuck.                                     *)

(* What a statement waits for, but for messages and time: main, the end of *)
(* its wait or a flag; the other threads, the mutex; socket(), a number.   *)
MainGoesOn ==
  \/ pc["main"] = "init" /\ NumberFree
  \/ pc["main"] = "wait" /\ (useDhcp => prefix.PrefixLength # 0)
  \/ pc["main"] = "supervise" /\ (cancel["rs"] \/ cancel["ra"])

GoesOn(t) ==
  /\ pc[t] \notin {"off", "done"}
  /\ pc[t] = "lock" => mutex = "free"
  /\ pc[t] \in {"open", "openSend"} => NumberFree

(* StuckOnlyInWait by what the threads wait for, not by what is enabled: no*)
(* thread ends with the mutex, main is told of the end of the RA thread,   *)
(* and all that is ever waited for in vain is the DHCP thread's result.    *)
SomeThreadGoesOn ==
  proc = "running" =>
    \/ MainGoesOn
    \/ \E t \in Threads \ {"main"} : GoesOn(t)
    \/ pc["main"] = "wait" /\ pc["dhcp"] = "done"

(* The holder of the mutex waits for nothing.                              *)
LEMMA HolderGoesOn ==
  ASSUME TypeInv, CellInv, mutex # "free"
  PROVE  \E t \in Threads \ {"main"} : GoesOn(t)
<1>1. mutex \in Lockers
  BY TypeParts DEF DataOK, Lockers
<1>2. pc[mutex] \in Critical(mutex)
  BY <1>1 DEF CellInv, MutexInv
<1>3. GoesOn(mutex)
  BY <1>2 DEF GoesOn, Critical
<1> QED BY <1>1, <1>3 DEF Lockers, Threads, Advertisers

(* A thread that is created and has not returned goes on, or the holder of *)
(* the mutex does.                                                         *)
LEMMA CreatedGoesOn ==
  ASSUME TypeInv, CellInv, TableInv, NEW t \in {"dhcp", "ra"}, pc[t] \notin {"off", "done"}
  PROVE  \E u \in Threads \ {"main"} : GoesOn(u)
<1>1. t \in Threads \ {"main"} /\ t \in Sockets
  BY DEF Threads, Advertisers, Sockets, RawSockets
<1>2. pc[t] = "open" => NumberFree
  BY <1>1, NumberIsFree DEF NotYetOpened
<1>3. pc[t] # "openSend"
  BY TypeParts DEF PcOK, DhcpLabels, RaLabels, CommonLabels
<1> QED BY <1>1, <1>2, <1>3, HolderGoesOn DEF GoesOn

(* In every state of the running process some thread waits for nothing but *)
(* a message or the time, or main waits for the result of a DHCP thread    *)
(* that has returned.  StuckOnlyInWait says the same with ENABLED.         *)
THEOREM StuckOnlyWithoutDhcp == Spec => []SomeThreadGoesOn
<1>1. TypeInv /\ SocketInv /\ TableInv /\ CellInv /\ CreatedInv => SomeThreadGoesOn
  <2> SUFFICES ASSUME TypeInv, SocketInv, TableInv, CellInv, CreatedInv
               PROVE  \/ MainGoesOn
                      \/ \E t \in Threads \ {"main"} : GoesOn(t)
                      \/ pc["main"] = "wait" /\ pc["dhcp"] = "done"
    BY DEF SomeThreadGoesOn
  <2>1. CASE pc["main"] = "init"
    BY <2>1, NumberIsFree DEF MainGoesOn, NotYetOpened, Sockets
  <2>2. CASE pc["main"] = "wait"
    <3>1. ~useDhcp => MainGoesOn
      BY <2>2 DEF MainGoesOn
    <3>2. useDhcp => pc["dhcp"] # "off"
      BY <2>2 DEF CreatedInv
    <3> QED BY <2>2, <3>1, <3>2, CreatedGoesOn
  <2>3. CASE pc["main"] = "supervise"
    <3>1. pc["ra"] # "off"
      BY <2>3 DEF CreatedInv
    <3>2. pc["ra"] = "done" => MainGoesOn
      BY <2>3 DEF CreatedInv, MainGoesOn
    <3> QED BY <3>1, <3>2, CreatedGoesOn
  <2> QED BY <2>1, <2>2, <2>3, TypeParts DEF PcOK
<1> QED BY <1>1, TypeInvariant, SocketInvariant, TableInvariant, CellInvariant, CreatedInvariant, PTL
-----------------------------------------------------------------------------
(* From the grant to the LAN.                                              *)

(* A granted prefix is in _prefix, then in what is published, and then in  *)
(* what is advertised.                                                     *)
GrantInv ==
  /\ lastRa # None => published # None
  /\ granted # None =>
       /\ useDhcp
       /\ prefix.Prefix = granted.Prefix
       /\ published # None => published.Prefix = granted.Prefix /\ published.PrefixLength = 64
  /\ AdvertisesGrantedPrefix

LEMMA GrantInit == Init => GrantInv
BY DEF Init, GrantInv, AdvertisesGrantedPrefix

LEMMA GrantKept ==
  ASSUME GrantInv, UNCHANGED <<useDhcp, published, granted, lastRa>>,
         granted # None => prefix'.Prefix = prefix.Prefix
  PROVE  GrantInv'
BY DEF GrantInv, AdvertisesGrantedPrefix, SameOrder, SwappedOrder

LEMMA DhcpGrants ==
  TypeInv /\ CellInv /\ LifetimesInv /\ GrantInv /\ (DhcpProgress \/ DhcpLock \/ DhcpEnvironment) => GrantInv'
<1> SUFFICES ASSUME TypeInv, CellInv, LifetimesInv, GrantInv, DhcpProgress \/ DhcpLock \/ DhcpEnvironment
             PROVE  GrantInv'
  OBVIOUS
<1> USE DEF KeepAll, KeepData, KeepSockets, KeepControl, KeepProcess, data, control
<1>1. CASE DhcpReply
  <2>1. /\ pc["dhcp"] = "blocked" /\ useDhcp /\ published = None /\ lastRa = None
        /\ UNCHANGED <<useDhcp, published, lastRa>>
    BY <1>1 DEF DhcpReply, Goto, LifetimesInv, NoSecondReply, GrantInv
  <2>2. granted' \in Grant /\ prefix'.Prefix = granted'.Prefix
    BY <1>1 DEF DhcpReply, Grant
  <2> QED BY <2>1, <2>2 DEF GrantInv, AdvertisesGrantedPrefix
<1>2. CASE DhcpStatusReply
  <2>1. granted = None /\ UNCHANGED <<useDhcp, published, granted, lastRa>>
    BY <1>2 DEF DhcpStatusReply, Goto, LifetimesInv, NoSecondReply
  <2> QED BY <2>1, GrantKept
<1>3. CASE DhcpConvert \/ DhcpSetLength
  <2>1. prefix'.Prefix = prefix.Prefix /\ UNCHANGED <<useDhcp, published, granted, lastRa>>
    BY <1>3, TypeParts DEF DhcpConvert, DhcpSetLength, DataOK, PrefixRecord
  <2> QED BY <2>1, GrantKept
<1>4. CASE DhcpUnlock
  <2>1. published' = prefix /\ prefix.PrefixLength = 64 /\ UNCHANGED <<useDhcp, prefix, granted, lastRa>>
    BY <1>4 DEF DhcpUnlock, Goto, CellInv, PrefixInv
  <2>2. prefix # None
    BY TypeParts, NoneAssumption DEF DataOK
  <2> QED BY <2>1, <2>2 DEF GrantInv, AdvertisesGrantedPrefix, SameOrder, SwappedOrder
<1>5. CASE DhcpOpen \/ DhcpBind \/ DhcpCheck \/ DhcpLock \/ DhcpSend \/ DhcpRecv
  BY <1>5, GrantKept DEF DhcpOpen, DhcpBind, DhcpCheck, DhcpLock, DhcpSend, DhcpRecv, Exit
<1>6. CASE DhcpSolicitFails \/ DhcpRecvFails \/ DhcpBadReply \/ DhcpRestart \/ DhcpClose \/ DhcpWake
  BY <1>6, GrantKept DEF DhcpSolicitFails, DhcpRecvFails, DhcpBadReply, DhcpRestart, DhcpClose, DhcpWake, Exit
<1> QED BY <1>1, <1>2, <1>3, <1>4, <1>5, <1>6 DEF DhcpProgress, DhcpEnvironment

(* What is sent is what is published.                                      *)
LEMMA SendsPublished ==
  ASSUME TypeInv, SocketInv, CellInv, NEW t \in Advertisers, AdvertSend(t)
  PROVE  published # None /\ (UNCHANGED lastRa \/ lastRa'.record = published)
<1>1. pc[t] = "send"
  BY DEF AdvertSend, Goto
<1>2. mutex # "dhcp" /\ copy[t] = prefix.Prefix
  BY <1>1 DEF CellInv, MutexInv, PrefixInv, Lockers, Critical, Advertisers
<1>3. published # None /\ prefix = published
  BY <1>1, <1>2 DEF CellInv, StartInv, PrefixInv, SocketInv, NotStarted, Advertisers
<1>4. [prefix EXCEPT !.Prefix = copy[t]] = prefix
  BY <1>2, TypeParts DEF DataOK, PrefixRecord
<1> QED BY <1>3, <1>4 DEF AdvertSend

LEMMA LanGrants == TypeInv /\ SocketInv /\ CellInv /\ LifetimesInv /\ GrantInv /\ LanStep => GrantInv'
<1> SUFFICES ASSUME TypeInv, SocketInv, CellInv, LifetimesInv, GrantInv, LanStep PROVE GrantInv'
  OBVIOUS
<1>1. UNCHANGED <<useDhcp, prefix, published, granted>>
  BY LanSteps DEF SocketInv
<1>2. CASE UNCHANGED lastRa
  BY <1>1, <1>2, GrantKept
<1>3. CASE published # None /\ lastRa'.record = published
  BY <1>1, <1>3 DEF GrantInv, AdvertisesGrantedPrefix, LifetimesInv, LifetimesShareByteOrder,
    SameOrder, SwappedOrder
<1> QED BY <1>2, <1>3, LanSteps, SendsPublished DEF SocketInv

LEMMA GrantInvariant == Spec => []GrantInv
<1>1. TypeInv /\ SocketInv /\ CellInv /\ LifetimesInv /\ GrantInv /\ [Next]_vars => GrantInv'
  <2> SUFFICES ASSUME TypeInv, SocketInv, CellInv, LifetimesInv, GrantInv, [Next]_vars PROVE GrantInv'
    OBVIOUS
  <2>1. CASE UNCHANGED vars
    BY <2>1, GrantKept DEF vars, data
  <2>2. CASE Main \/ Signal \/ SignalDispose
    BY <2>2, GrantKept DEF Main, MainInit, MainStart, MainExit, Exit, Signal, SignalDispose,
      KeepAll, KeepData, KeepSockets, KeepControl, KeepProcess, data
  <2>3. CASE Work
    BY <2>3, DhcpGrants, LanGrants, WorkSplits
  <2> QED BY <2>1, <2>2, <2>3 DEF Next, Step, Terminated
<1> QED BY <1>1, GrantInit, TypeInvariant, SocketInvariant, CellInvariant, LifetimesInvariant, PTL DEF Spec

(* From the first grant on, every Router Advertisement of either thread is *)
(* for the granted prefix, as a /64, with its lifetimes in one byte order. *)
THEOREM GrantReachesLan == Spec => []AdvertisesGrantedPrefix
<1>1. GrantInv => AdvertisesGrantedPrefix
  BY DEF GrantInv
<1> QED BY <1>1, GrantInvariant, PTL
-----------------------------------------------------------------------------
(* The result main waits for.                                              *)

OwnNumber == Holds("dhcp") /\ fd["dhcp"] # fd["utils"]

(* As long as nothing fails that sends a request without a socket, the     *)
(* first request has one to its end: nobody else remembers its number.     *)
(* When a signal has closed utils_handler before the DHCP thread opened its*)
(* socket, the number is shared, but then the thread sees its cancel flag. *)
ResultInv ==
  /\ useDhcp /\ granted = None =>
       /\ disposing > 0 => cancel["dhcp"]
       /\ prefix = ZeroRecord
       /\ pc["main"] # "supervise"
       /\ pc["dhcp"] \in FirstRequest
       /\ pc["dhcp"] \in {"bind", "check"} => OwnNumber \/ cancel["dhcp"]
       /\ pc["dhcp"] \in {"lock", "send", "recv", "blocked"} => OwnNumber
       /\ fd["utils"] = NoFd \/ Holds("utils") \/ cancel["dhcp"]
  /\ (useDhcp /\ granted = None) \/ prefix.Prefix # Unspecified

(* The faults under which the wait ends well, those of connect(), and of   *)
(* socket(), which leave no number behind; and no prefix granted is "::".  *)
WaitAssumption == Faults \subseteq {"socket", "connect"} /\ Unspecified \notin Prefixes

LEMMA ResultInit == WaitAssumption /\ Init => ResultInv
<1> SUFFICES ASSUME WaitAssumption, Init PROVE ResultInv
  OBVIOUS
<1>1. disposing = 0 /\ granted = None /\ fd["utils"] = NoFd /\ pc["main"] = "init" /\ pc["dhcp"] = "off"
  BY DEF Init, Sockets, Threads, Advertisers
<1>2. ~useDhcp => prefix.Prefix # Unspecified
  BY DEF Init, WaitAssumption, StaticRecord
<1>3. useDhcp => prefix = ZeroRecord
  BY DEF Init
<1> QED BY <1>1, <1>2, <1>3 DEF ResultInv, FirstRequest

LEMMA ResultKept ==
  ASSUME ResultInv, UNCHANGED <<useDhcp, prefix, granted, cancel, disposing, descriptors>>,
         pc'["main"] = pc["main"],
         pc'["dhcp"] = pc["dhcp"]
  PROVE  ResultInv'
BY DEF ResultInv, OwnNumber, Holds, descriptors

(* After the grant only the prefix itself matters.                         *)
LEMMA GrantedKeeps ==
  ASSUME ResultInv, ~(useDhcp /\ granted = None), UNCHANGED <<useDhcp, granted>>,
         prefix'.Prefix = prefix.Prefix
  PROVE  ResultInv'
BY DEF ResultInv

(* Until main has passed its wait the LAN side has no threads.             *)
LEMMA LanNeedsMain == SocketInv /\ LanStep => pc["main"] = "supervise"
<1> SUFFICES ASSUME NotStarted, LanStep, pc["main"] # "supervise" PROVE FALSE
  BY DEF SocketInv
<1>1. pc["ra"] = "off" /\ pc["rs"] = "off"
  BY DEF NotStarted
<1>2. \A t \in Advertisers : ~AdvertProgress(t) /\ ~AdvertLock(t)
  BY <1>1 DEF Advertisers, AdvertProgress, AdvertLock, UtilsConnect, UtilsGetSockName, UtilsCloseOnError,
    AdvertCopy, AdvertSend, AdvertUnlock, Goto
<1>3. ~RaProgress
  BY <1>1, <1>2 DEF RaProgress, RaOpen, RaBind, RaCheck, RaWake, RaFails, Goto, Advertisers
<1>4. ~RsProgress /\ ~RsEnvironment
  BY <1>1, <1>2 DEF RsProgress, RsEnvironment, RsOpen, RsOpenSend, RsOpenFails, RsBind, RsCheck, RsRecv,
    RsRecvFails, RsSolicited, RsDrop, TakeClient, Goto, Advertisers
<1> QED BY <1>2, <1>3, <1>4 DEF LanStep

LEMMA LanResult == TypeInv /\ SocketInv /\ ResultInv /\ LanStep => ResultInv'
<1> SUFFICES ASSUME TypeInv, SocketInv, ResultInv, LanStep PROVE ResultInv'
  OBVIOUS
<1>1. ~(useDhcp /\ granted = None)
  BY LanNeedsMain DEF ResultInv
<1>2. UNCHANGED <<useDhcp, prefix, granted>>
  BY LanSteps DEF SocketInv
<1> QED BY <1>1, <1>2, GrantedKeeps

(* A step of main creates the threads, or sees a length that is not zero,  *)
(* which the zeroed _prefix does not have.                                 *)
LEMMA MainResult ==
  WaitAssumption /\ TypeInv /\ SocketInv /\ ResultInv /\ Main => ResultInv'
<1> SUFFICES ASSUME WaitAssumption, TypeInv, SocketInv, ResultInv, Main PROVE ResultInv'
  OBVIOUS
<1> USE DEF KeepAll, KeepData, KeepSockets, KeepControl, KeepProcess, data, control
<1>1. UNCHANGED <<useDhcp, prefix, granted>>
  BY DEF Main, MainInit, MainStart, MainExit, Exit
<1>2. CASE ~(useDhcp /\ granted = None)
  BY <1>1, <1>2, GrantedKeeps
<1>3. CASE useDhcp /\ granted = None /\ MainInit
  <2>1. pc["dhcp"] = "off" /\ pc'["dhcp"] = "open" /\ pc'["main"] = "wait"
    BY <1>3, TypeParts DEF MainInit, SocketInv, NotStarted, PcOK, Threads, Advertisers
  <2>2. fd'["utils"] = NoFd \/ Holds("utils")' \/ cancel'["dhcp"]
    <3>1. CASE UNCHANGED descriptors
      BY <1>3, <3>1 DEF MainInit, ResultInv, Holds, descriptors
    <3>2. CASE Open("utils")
      BY <3>2, TypeParts DEF Open, Holds, DescriptorsOK, Sockets
    <3> QED BY <1>3, <3>1, <3>2 DEF MainInit, UtilsInit, WaitAssumption
  <2>3. UNCHANGED <<disposing, cancel>>
    BY <1>3 DEF MainInit
  <2> QED BY <1>1, <1>3, <2>1, <2>2, <2>3 DEF ResultInv, FirstRequest
<1>4. CASE useDhcp /\ granted = None /\ MainStart
  BY <1>4 DEF MainStart, ResultInv, ZeroRecord
<1>5. CASE MainExit
  BY <1>5, ResultKept DEF MainExit, Exit
<1> QED BY <1>2, <1>3, <1>4, <1>5 DEF Main

LEMMA SignalResult ==
  TypeInv /\ SocketInv /\ ResultInv /\ (Signal \/ SignalDispose) => ResultInv'
<1> SUFFICES ASSUME TypeInv, SocketInv, ResultInv, Signal \/ SignalDispose PROVE ResultInv'
  OBVIOUS
<1> USE DEF KeepProcess, data
<1>1. UNCHANGED <<useDhcp, prefix, granted>> /\ UNCHANGED pc
  BY DEF Signal, SignalDispose
<1>2. CASE ~(useDhcp /\ granted = None)
  BY <1>1, <1>2, GrantedKeeps
<1>3. CASE useDhcp /\ granted = None /\ Signal
  <2>1. cancel'["dhcp"]
    BY <1>3, TypeParts DEF Signal, SetCancel, FlagsOK
  <2>2. UNCHANGED descriptors
    BY <1>3 DEF Signal
  <2> QED BY <1>1, <1>3, <2>1, <2>2 DEF ResultInv, OwnNumber, Holds, descriptors
<1>4. CASE useDhcp /\ granted = None /\ SignalDispose
  <2>1. cancel' = cancel /\ cancel["dhcp"]
    BY <1>4 DEF SignalDispose, ResultInv
  <2>2. fd' = fd /\ \A n \in Fd : table'[n] = IF fd["utils"] = n THEN "free" ELSE table[n]
    BY <1>4 DEF SignalDispose, Close
  <2>3. OwnNumber => OwnNumber'
    BY <2>2 DEF OwnNumber, Holds
  <2> QED BY <1>1, <1>4, <2>1, <2>3 DEF ResultInv
<1> QED BY <1>2, <1>3, <1>4

LEMMA DhcpResult ==
  WaitAssumption /\ TypeInv /\ SocketInv /\ ResultInv /\ (DhcpProgress \/ DhcpLock \/ DhcpEnvironment)
    => ResultInv'
<1> SUFFICES ASSUME WaitAssumption, TypeInv, SocketInv, ResultInv,
                    DhcpProgress \/ DhcpLock \/ DhcpEnvironment
             PROVE  ResultInv'
  OBVIOUS
<1> USE DEF KeepAll, KeepData, KeepSockets, KeepControl, KeepProcess, data, control
<1>1. ASSUME NEW from, NEW to, from # "off", Goto("dhcp", from, to)
      PROVE  pc["dhcp"] = from /\ pc'["dhcp"] = to /\ pc'["main"] = pc["main"]
  BY <1>1, ThreadMoves DEF SocketInv, Threads, Advertisers
<1>2. CASE DhcpReply
  <2>1. granted' \in Grant /\ prefix'.Prefix = granted'.Prefix
    BY <1>2 DEF DhcpReply, Grant
  <2>2. granted' # None /\ granted'.Prefix \in Prefixes
    BY <2>1, NoneAssumption DEF Grant
  <2> QED BY <2>1, <2>2 DEF ResultInv, WaitAssumption
<1>3. CASE ~(useDhcp /\ granted = None) /\ ~DhcpReply
  <2>1. UNCHANGED <<useDhcp, granted>> /\ prefix'.Prefix = prefix.Prefix
    <3>1. CASE DhcpConvert \/ DhcpSetLength
      BY <3>1, TypeParts DEF DhcpConvert, DhcpSetLength, DataOK, PrefixRecord
    <3>2. CASE DhcpEnvironment
      BY <1>3, <3>2 DEF DhcpEnvironment, DhcpStatusReply, DhcpBadReply, DhcpRestart, WaitAssumption
    <3>3. CASE DhcpProgress /\ ~(DhcpConvert \/ DhcpSetLength)
      BY <3>3 DEF DhcpProgress, DhcpOpen, DhcpBind, DhcpCheck, DhcpSolicitFails, DhcpSend, DhcpRecv,
        DhcpRecvFails, DhcpClose, DhcpUnlock, DhcpWake, Exit
    <3>4. CASE DhcpLock
      BY <3>4 DEF DhcpLock
    <3> QED BY <3>1, <3>2, <3>3, <3>4
  <2> QED BY <1>3, <2>1, GrantedKeeps
<1>4. CASE useDhcp /\ granted = None /\ ~DhcpReply
  <2> USE <1>4
  <2>1. CASE DhcpOpen
    <3>1. CASE Goto("dhcp", "open", "bind") /\ Open("dhcp") /\ KeepData
      <4>1. PICK n \in Fd : /\ table[n] = "free"
                            /\ table' = [table EXCEPT ![n] = "dhcp"]
                            /\ fd' = [fd EXCEPT !["dhcp"] = n]
        BY <3>1 DEF Open, LowestFree
      <4>2. fd \in [Sockets -> Fd \cup {NoFd}] /\ table \in [Fd -> Sockets \cup {"free"}]
        BY TypeParts DEF DescriptorsOK
      <4>3. Holds("dhcp")' /\ fd'["utils"] = fd["utils"]
        BY <4>1, <4>2 DEF Holds, Sockets
      <4>4. CASE fd["utils"] = NoFd
        <5>1. fd'["dhcp"] = n /\ n # NoFd
          BY <4>1, <4>2 DEF Sockets, Fd, NoFd
        <5>2. fd'["dhcp"] # fd'["utils"]
          BY <4>3, <4>4, <5>1
        <5> QED BY <1>1, <3>1, <4>3, <4>4, <5>2 DEF ResultInv, OwnNumber, FirstRequest
      <4>5. CASE Holds("utils")
        <5>1. fd["utils"] # n /\ Holds("utils")'
          BY <4>1, <4>2, <4>3, <4>5 DEF Holds
        <5>2. fd'["dhcp"] # fd'["utils"]
          BY <4>1, <4>2, <4>3, <5>1 DEF Sockets
        <5> QED BY <1>1, <3>1, <4>3, <5>1, <5>2 DEF ResultInv, OwnNumber, FirstRequest
      <4>6. CASE cancel["dhcp"]
        BY <1>1, <3>1, <4>6 DEF ResultInv, FirstRequest
      <4> QED BY <4>4, <4>5, <4>6 DEF ResultInv
    <3>2. CASE /\ Goto("dhcp", "open", "done")
               /\ SetCancel({"dhcp"})
               /\ KeepProcess /\ UNCHANGED <<signals, disposing, descriptors, data>>
      <4>1. cancel'["dhcp"]
        BY <3>2, TypeParts DEF SetCancel, FlagsOK
      <4>2. pc'["dhcp"] = "done" /\ pc'["main"] = pc["main"]
        BY <1>1, <3>2
      <4> QED BY <3>2, <4>1, <4>2 DEF ResultInv, FirstRequest
    <3> QED BY <2>1, <3>1, <3>2 DEF DhcpOpen
  <2>2. CASE DhcpCheck /\ cancel["dhcp"]
    BY <1>1, <2>2 DEF DhcpCheck, ResultInv, FirstRequest
  <2>3. ASSUME UNCHANGED <<useDhcp, prefix, granted, disposing, cancel>> /\ UNCHANGED descriptors,
               NEW from, NEW to, Goto("dhcp", from, to),
               \/ from = "bind" /\ to = "check"
               \/ from = "check" /\ to = "lock" /\ ~cancel["dhcp"]
               \/ from \in {"lock", "send", "recv", "blocked"} /\ to \in {"send", "recv", "blocked"}
        PROVE  ResultInv'
    BY <1>1, <2>3 DEF ResultInv, OwnNumber, Holds, descriptors, FirstRequest
  <2>4. CASE DhcpBind \/ DhcpLock \/ (DhcpCheck /\ ~cancel["dhcp"])
    BY <2>3, <2>4 DEF DhcpBind, DhcpLock, DhcpCheck, WaitAssumption
  <2>5. CASE DhcpSend
    <3>1. Holds("dhcp")
      BY <2>5 DEF DhcpSend, Goto, ResultInv, OwnNumber
    <3> QED BY <2>3, <2>5, <3>1 DEF DhcpSend, WaitAssumption
  <2>6. CASE DhcpRecv \/ DhcpRestart
    BY <2>3, <2>6 DEF DhcpRecv, DhcpRestart
  <2>7. CASE DhcpSolicitFails \/ DhcpRecvFails
    BY <2>7, ResultKept DEF DhcpSolicitFails, DhcpRecvFails, Exit
  <2>8. ~(DhcpClose \/ DhcpConvert \/ DhcpSetLength \/ DhcpUnlock \/ DhcpWake)
    BY DEF ResultInv, FirstRequest, DhcpClose, DhcpConvert, DhcpSetLength, DhcpUnlock, DhcpWake, Goto
  <2>9. ~(DhcpStatusReply \/ DhcpBadReply)
    BY DEF DhcpStatusReply, DhcpBadReply, WaitAssumption
  <2> QED BY <2>1, <2>2, <2>4, <2>5, <2>6, <2>7, <2>8, <2>9 DEF DhcpProgress, DhcpEnvironment
<1> QED BY <1>2, <1>3, <1>4

LEMMA ResultInvariant == WaitAssumption /\ Spec => []ResultInv
<1>1. WaitAssumption /\ TypeInv /\ SocketInv /\ ResultInv /\ [Next]_vars => ResultInv'
  <2> SUFFICES ASSUME WaitAssumption, TypeInv, SocketInv, ResultInv, [Next]_vars PROVE ResultInv'
    OBVIOUS
  <2>1. CASE UNCHANGED vars
    BY <2>1, ResultKept DEF vars, control, data
  <2>2. CASE Main \/ Signal \/ SignalDispose
    BY <2>2, MainResult, SignalResult
  <2>3. CASE Work
    BY <2>3, DhcpResult, LanResult, WorkSplits
  <2> QED BY <2>1, <2>2, <2>3 DEF Next, Step, Terminated
<1> SUFFICES ASSUME WaitAssumption PROVE Spec => []ResultInv
  OBVIOUS
<1>2. Init => ResultInv
  BY ResultInit
<1>3. TypeInv /\ SocketInv /\ ResultInv /\ [Next]_vars => ResultInv'
  BY <1>1
<1> QED BY <1>2, <1>3, TypeInvariant, SocketInvariant, PTL DEF Spec

(* What the comment at main's wait says does hold where no sendto(), no    *)
(* bind() and no reply goes wrong, whatever connect() and socket() do and  *)
(* however many signals arrive: main gets past the wait with the prefix of *)
(* a reply.  (With a failing sendto() it need not, see the run `wait'.)    *)
THEOREM WaitEndsWithResult ==
  ASSUME WaitAssumption
  PROVE  Spec => []WaitsForResult
<1>1. ResultInv => WaitsForResult
  BY DEF ResultInv, WaitsForResult
<1> QED BY <1>1, ResultInvariant, PTL
=============================================================================
