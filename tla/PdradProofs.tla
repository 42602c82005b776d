---------------------------- MODULE PdradProofs ----------------------------
(***************************************************************************)
(* Theorems about Pdrad, for every value of its constants.                 *)
(***************************************************************************)
EXTENDS Pdrad, TLAPS

(* Swap32 maps words to words and is its own inverse.                      *)
LEMMA SwapWord ==
  ASSUME NEW w \in Word32
  PROVE  Swap32(w) \in Word32 /\ Swap32(Swap32(w)) = w
BY DEF Word32, Swap32, Byte

LEMMA ZeroRecordType == ZeroRecord \in PrefixRecord
BY DEF ZeroRecord, PrefixRecord, Zero32, Word32, Byte

-----------------------------------------------------------------------------
(* Types.                                                                  *)

TypeInv == TypeOK /\ disposing <= signals

LEMMA StaticRecordType == StaticRecord \subseteq PrefixRecord
<1>1. <<0, 0, 93, 192>> \in Word32 /\ <<0, 0, 187, 128>> \in Word32
  BY DEF Word32, Byte
<1> QED
  BY <1>1, ConstantsAssumption DEF StaticRecord, PrefixRecord

LEMMA TypeInit == Init => TypeInv
<1> SUFFICES ASSUME Init PROVE TypeInv
  OBVIOUS
<1>1. useDhcp \in BOOLEAN
  BY Zenon DEF Init
<1>2. prefix \in PrefixRecord
  BY <1>1, ZeroRecordType, StaticRecordType DEF Init
<1>3. published \in PrefixRecord \cup {None}
  BY <1>1, <1>2 DEF Init
<1> QED
  BY <1>1, <1>2, <1>3, ConstantsAssumption DEF Init, TypeInv, TypeOK, Threads, Advertisers,
    DhcpLabels, RaLabels, RsLabels, CommonLabels, Fd, NoFd

(* TypeOK in three parts: program counters, descriptors, the data.         *)
PcOK ==
  /\ pc \in [Threads -> {"init", "wait", "supervise"} \cup DhcpLabels \cup RaLabels \cup RsLabels]
  /\ pc["main"] \in {"init", "wait", "supervise"}
  /\ pc["dhcp"] \in DhcpLabels
  /\ pc["ra"] \in RaLabels
  /\ pc["rs"] \in RsLabels

DescriptorsOK ==
  /\ fd \in [Sockets -> Fd \cup {NoFd}]
  /\ table \in [Fd -> Sockets \cup {"free"}]

DataOK ==
  /\ prefix \in PrefixRecord
  /\ mutex \in {"dhcp", "ra", "rs", "free"}
  /\ copy \in [Advertisers -> Prefixes \cup {Unspecified}]
  /\ client \in Clients \cup {Unspecified}
  /\ published \in PrefixRecord \cup {None}
  /\ granted \in Grant \cup {None}
  /\ lastRa \in Advert \cup {None}

FlagsOK ==
  /\ useDhcp \in BOOLEAN
  /\ proc \in {"running", "exited", "crashed"}
  /\ cancel \in [{"ra", "rs", "dhcp"} -> BOOLEAN]
  /\ signals \in 0..MaxSignals
  /\ disposing \in 0..MaxSignals
  /\ disposing <= signals

LEMMA TypeParts == TypeInv <=> PcOK /\ DescriptorsOK /\ DataOK /\ FlagsOK
BY DEF TypeInv, TypeOK, PcOK, DescriptorsOK, DataOK, FlagsOK

LEMMA TypePartsNext == TypeInv' <=> PcOK' /\ DescriptorsOK' /\ DataOK' /\ FlagsOK'
BY DEF TypeInv, TypeOK, PcOK, DescriptorsOK, DataOK, FlagsOK

(* The helpers keep the types of what they assign.                         *)
LEMMA GotoDhcp ==
  ASSUME PcOK, NEW from, NEW to \in DhcpLabels, Goto("dhcp", from, to)
  PROVE  PcOK'
BY DEF PcOK, Goto, Threads

LEMMA GotoRa ==
  ASSUME PcOK, NEW from, NEW to \in RaLabels, Goto("ra", from, to)
  PROVE  PcOK'
BY DEF PcOK, Goto, Threads, Advertisers

LEMMA GotoRs ==
  ASSUME PcOK, NEW from, NEW to \in RsLabels, Goto("rs", from, to)
  PROVE  PcOK'
BY DEF PcOK, Goto, Threads, Advertisers

LEMMA GotoAdvert ==
  ASSUME PcOK, NEW t \in Advertisers, NEW from, NEW to,
         IF t = "ra" THEN to \in RaLabels ELSE to \in RsLabels, Goto(t, from, to)
  PROVE  PcOK'
<1>1. CASE t = "ra" BY <1>1, GotoRa
<1>2. CASE t = "rs" BY <1>2, GotoRs
<1> QED BY <1>1, <1>2 DEF Advertisers

LEMMA OpenType ==
  ASSUME NEW k \in Sockets, DescriptorsOK, Open(k)
  PROVE  DescriptorsOK'
BY DEF DescriptorsOK, Open

LEMMA CloseType ==
  ASSUME NEW S, DescriptorsOK, Close(S)
  PROVE  DescriptorsOK'
BY DEF DescriptorsOK, Close

LEMMA SetCancelType ==
  ASSUME NEW S, FlagsOK, SetCancel(S)
  PROVE  cancel' \in [{"ra", "rs", "dhcp"} -> BOOLEAN]
BY DEF FlagsOK, SetCancel

LEMMA KeepControlType == FlagsOK /\ KeepControl => FlagsOK'
BY DEF FlagsOK, KeepControl, KeepProcess

LEMMA KeepSocketsType == DescriptorsOK /\ FlagsOK /\ KeepSockets => DescriptorsOK' /\ FlagsOK'
BY KeepControlType DEF KeepSockets, DescriptorsOK, descriptors

LEMMA UnchangedDataType == DataOK /\ UNCHANGED data => DataOK'
BY DEF DataOK, data

LEMMA KeepDataType == DataOK /\ FlagsOK /\ KeepData => DataOK' /\ FlagsOK'
BY KeepControlType, UnchangedDataType DEF KeepData

LEMMA KeepAllType ==
  DescriptorsOK /\ DataOK /\ FlagsOK /\ KeepAll => DescriptorsOK' /\ DataOK' /\ FlagsOK'
BY KeepSocketsType, UnchangedDataType DEF KeepAll

LEMMA MainType == TypeInv /\ Main => TypeInv'
<1> SUFFICES ASSUME TypeInv, Main PROVE TypeInv'
  OBVIOUS
<1> USE TypeParts, TypePartsNext
<1>1. CASE MainInit
  <2>1. DescriptorsOK'
    BY <1>1, OpenType DEF MainInit, UtilsInit, Sockets, DescriptorsOK, descriptors
  <2>2. PcOK'
    <3> DEFINE first == IF useDhcp THEN "open" ELSE "off"
    <3>1. first \in {"open", "off"}
      OBVIOUS
    <3>2. pc' = [pc EXCEPT !["main"] = "wait", !["dhcp"] = first]
      BY <1>1 DEF MainInit
    <3>3. PcOK /\ Threads = {"ra", "rs", "main", "dhcp"}
      BY DEF Threads, Advertisers
    <3> HIDE DEF first
    <3> QED BY <3>1, <3>2, <3>3 DEF PcOK, DhcpLabels
  <2> QED BY <1>1, <2>1, <2>2, KeepDataType DEF MainInit
<1>2. CASE MainStart
  <2>1. PcOK'
    BY <1>2 DEF MainStart, PcOK, Threads, Advertisers, RaLabels, RsLabels, CommonLabels
  <2> QED BY <1>2, <2>1, KeepAllType DEF MainStart
<1>3. CASE MainExit
  BY <1>3 DEF MainExit, Exit, TypeInv, TypeOK, control, descriptors, data
<1> QED BY <1>1, <1>2, <1>3 DEF Main

LEMMA DhcpType == TypeInv /\ (DhcpProgress \/ DhcpLock \/ DhcpEnvironment) => TypeInv'
<1> SUFFICES ASSUME TypeInv, DhcpProgress \/ DhcpLock \/ DhcpEnvironment PROVE TypeInv'
  OBVIOUS
<1> USE TypeParts, TypePartsNext, GotoDhcp DEF DhcpLabels
<1>1. CASE DhcpOpen
  <2>1. CASE Goto("dhcp", "open", "bind") /\ Open("dhcp") /\ KeepData
    BY <2>1, OpenType, KeepDataType DEF Sockets
  <2>2. CASE ~(Goto("dhcp", "open", "bind") /\ Open("dhcp") /\ KeepData)
    <3>1. FlagsOK'
      BY <1>1, <2>2, SetCancelType DEF DhcpOpen, KeepProcess, FlagsOK
    <3>2. DescriptorsOK' /\ DataOK'
      BY <1>1, <2>2, UnchangedDataType DEF DhcpOpen, DescriptorsOK, descriptors
    <3> QED BY <1>1, <2>2, <3>1, <3>2 DEF DhcpOpen
  <2> QED BY <2>1, <2>2
<1>2. CASE DhcpBind
  BY <1>2, CloseType, KeepAllType, KeepDataType DEF DhcpBind
<1>3. CASE DhcpCheck
  BY <1>3, CloseType, KeepAllType, KeepDataType DEF DhcpCheck
<1>4. CASE DhcpLock
  BY <1>4, KeepSocketsType DEF DhcpLock, Lock, DataOK
<1>5. CASE DhcpSend
  BY <1>5, KeepAllType DEF DhcpSend
<1>6. CASE DhcpRecv
  BY <1>6, KeepAllType DEF DhcpRecv
<1>7. CASE DhcpSolicitFails \/ DhcpRecvFails \/ DhcpBadReply
  BY <1>7 DEF DhcpSolicitFails, DhcpRecvFails, DhcpBadReply, Exit, TypeInv, TypeOK, control, descriptors, data
<1>8. CASE DhcpReply
  <2>1. granted' \in Grant /\ granted' \in PrefixRecord
    BY <1>8, ConstantsAssumption DEF DhcpReply, Grant, PrefixRecord
  <2>2. prefix' = [granted' EXCEPT !.PreferredLifetime = Swap32(granted'.PreferredLifetime),
                                   !.ValidLifetime = Swap32(granted'.ValidLifetime)]
    BY <1>8 DEF DhcpReply, LoadRaw
  <2>3. prefix' \in PrefixRecord
    BY <2>1, <2>2, SwapWord DEF PrefixRecord
  <2>4. DataOK'
    BY <1>8, <2>1, <2>3 DEF DhcpReply, DataOK
  <2> QED BY <1>8, <2>4, KeepSocketsType DEF DhcpReply
<1>9. CASE DhcpRestart \/ DhcpStatusReply
  BY <1>9, KeepAllType, KeepSocketsType, StatusesAssumption DEF DhcpRestart, DhcpStatusReply, DataOK
<1>10. CASE DhcpClose
  BY <1>10, CloseType, KeepDataType DEF DhcpClose
<1>11. CASE DhcpConvert
  <2>1. prefix' = [prefix EXCEPT !.PreferredLifetime = Swap32(prefix.PreferredLifetime),
                                 !.ValidLifetime = Swap32(prefix.ValidLifetime)]
    BY <1>11 DEF DhcpConvert, be32toh
  <2>2. prefix' \in PrefixRecord
    BY <2>1, SwapWord DEF PrefixRecord, DataOK
  <2> QED BY <1>11, <2>2, KeepSocketsType DEF DhcpConvert, DataOK
<1>12. CASE DhcpSetLength
  <2>1. prefix' \in PrefixRecord
    BY <1>12 DEF DhcpSetLength, PrefixRecord, DataOK, Byte
  <2> QED BY <1>12, <2>1, KeepSocketsType DEF DhcpSetLength, DataOK
<1>13. CASE DhcpUnlock
  BY <1>13, KeepSocketsType DEF DhcpUnlock, Unlock, DataOK
<1>14. CASE DhcpWake
  BY <1>14, KeepAllType DEF DhcpWake
<1> QED BY <1>1, <1>2, <1>3, <1>4, <1>5, <1>6, <1>7, <1>8, <1>9, <1>10, <1>11, <1>12, <1>13, <1>14
  DEF DhcpProgress, DhcpEnvironment

(* What AdvertSend sends is an advertisement.                              *)
LEMMA AdvertIsAdvert ==
  ASSUME DataOK, NEW t \in Advertisers
  PROVE  [record |-> [prefix EXCEPT !.Prefix = copy[t]], by |-> t, to |-> Destination(t)] \in Advert
<1>1. [prefix EXCEPT !.Prefix = copy[t]] \in PrefixRecord
  BY DEF DataOK, PrefixRecord
<1> QED BY <1>1 DEF Advert, Destination, DataOK

LEMMA AdvertType ==
  ASSUME TypeInv, NEW t \in Advertisers, AdvertProgress(t) \/ AdvertLock(t)
  PROVE  TypeInv'
<1> USE TypeParts, TypePartsNext, GotoAdvert DEF RaLabels, RsLabels, CommonLabels
<1>1. CASE UtilsConnect(t)
  BY <1>1, KeepAllType DEF UtilsConnect
<1>2. CASE UtilsGetSockName(t)
  BY <1>2, KeepAllType DEF UtilsGetSockName, AfterAddress
<1>3. CASE UtilsCloseOnError(t)
  BY <1>3, CloseType, KeepDataType DEF UtilsCloseOnError, AfterAddress
<1>4. CASE AdvertLock(t)
  BY <1>4, KeepSocketsType DEF AdvertLock, Lock, DataOK, Advertisers
<1>5. CASE AdvertCopy(t)
  <2>1. prefix.Prefix \in Prefixes \cup {Unspecified}
    BY DEF DataOK, PrefixRecord
  <2>2. DataOK'
    BY <1>5, <2>1 DEF AdvertCopy, DataOK
  <2> QED BY <1>5, <2>2, KeepSocketsType DEF AdvertCopy
<1>6. CASE AdvertSend(t)
  <2> DEFINE advert == [record |-> [prefix EXCEPT !.Prefix = copy[t]], by |-> t, to |-> Destination(t)]
  <2>2. advert \in Advert
    BY AdvertIsAdvert
  <2>3. lastRa' \in {lastRa, advert}
    BY <1>6 DEF AdvertSend
  <2>4. DataOK'
    BY <1>6, <2>2, <2>3 DEF AdvertSend, DataOK
  <2> QED BY <1>6, <2>4, KeepSocketsType DEF AdvertSend
<1>7. CASE AdvertUnlock(t)
  BY <1>7, KeepSocketsType DEF AdvertUnlock, Unlock, DataOK
<1> QED BY <1>1, <1>2, <1>3, <1>4, <1>5, <1>6, <1>7 DEF AdvertProgress

LEMMA RaType == TypeInv /\ RaProgress => TypeInv'
<1> SUFFICES ASSUME TypeInv, RaProgress PROVE TypeInv'
  OBVIOUS
<1> USE TypeParts, TypePartsNext, GotoRa DEF RaLabels, CommonLabels
<1>1. ASSUME NEW from, RaFails(from) PROVE TypeInv'
  <2>1. FlagsOK'
    BY <1>1, SetCancelType DEF RaFails, KeepProcess, FlagsOK
  <2> QED BY <1>1, <2>1, CloseType, UnchangedDataType DEF RaFails
<1>2. CASE RaOpen
  BY <1>1, <1>2, OpenType, KeepDataType DEF RaOpen, Sockets, RawSockets
<1>3. CASE RaBind
  BY <1>1, <1>3, KeepAllType DEF RaBind
<1>4. CASE RaCheck
  BY <1>4, CloseType, KeepAllType, KeepDataType DEF RaCheck
<1>5. CASE RaWake
  BY <1>5, KeepAllType DEF RaWake
<1>6. CASE AdvertProgress("ra")
  BY <1>6, AdvertType DEF Advertisers
<1> QED BY <1>2, <1>3, <1>4, <1>5, <1>6 DEF RaProgress

LEMMA RsType == TypeInv /\ (RsProgress \/ RsEnvironment) => TypeInv'
<1> SUFFICES ASSUME TypeInv, RsProgress \/ RsEnvironment PROVE TypeInv'
  OBVIOUS
<1> USE TypeParts, TypePartsNext, GotoRs DEF RsLabels, CommonLabels
<1>1. ASSUME NEW from, NEW A \in SUBSET (Clients \cup {Unspecified}), TakeClient(from, A)
      PROVE  TypeInv'
  BY <1>1, KeepSocketsType DEF TakeClient, DataOK
<1>2. CASE RsOpen
  BY <1>2, OpenType, KeepDataType DEF RsOpen, Sockets, RawSockets
<1>3. CASE RsOpenSend
  BY <1>3, OpenType, KeepDataType DEF RsOpenSend, Sockets, RawSockets
<1>4. CASE RsOpenFails
  BY <1>4 DEF RsOpenFails, Exit, TypeInv, TypeOK, control, descriptors, data
<1>5. CASE RsBind
  BY <1>5, CloseType, KeepAllType, KeepDataType DEF RsBind
<1>6. CASE RsCheck
  BY <1>6, CloseType, KeepAllType, KeepDataType DEF RsCheck
<1>7. CASE RsRecv
  BY <1>7, KeepAllType DEF RsRecv
<1>8. CASE RsRecvFails
  BY <1>1, <1>8 DEF RsRecvFails
<1>9. CASE RsSolicited
  BY <1>1, <1>9 DEF RsSolicited
<1>10. CASE RsDrop
  BY <1>10, KeepAllType DEF RsDrop
<1>11. CASE AdvertProgress("rs")
  BY <1>11, AdvertType DEF Advertisers
<1> QED BY <1>2, <1>3, <1>4, <1>5, <1>6, <1>7, <1>8, <1>9, <1>10, <1>11 DEF RsProgress, RsEnvironment

LEMMA SignalType == TypeInv /\ (Signal \/ SignalDispose) => TypeInv'
<1> SUFFICES ASSUME TypeInv, Signal \/ SignalDispose PROVE TypeInv'
  OBVIOUS
<1> USE TypeParts, TypePartsNext, ConstantsAssumption
<1>1. CASE Signal
  <2>1. FlagsOK'
    BY <1>1, SetCancelType DEF Signal, KeepProcess, FlagsOK
  <2> QED BY <1>1, <2>1, UnchangedDataType DEF Signal, PcOK, DescriptorsOK, descriptors
<1>2. CASE SignalDispose
  <2>1. FlagsOK'
    BY <1>2 DEF SignalDispose, KeepProcess, FlagsOK
  <2> QED BY <1>2, <2>1, CloseType, UnchangedDataType DEF SignalDispose, PcOK
<1> QED BY <1>1, <1>2

LEMMA TypeInvariant == Spec => []TypeInv
<1>1. TypeInv /\ [Next]_vars => TypeInv'
  <2> SUFFICES ASSUME TypeInv, [Next]_vars PROVE TypeInv'
    OBVIOUS
  <2>1. CASE UNCHANGED vars
    BY <2>1 DEF vars, control, descriptors, data, TypeInv, TypeOK
  <2>2. CASE Step
    BY <2>2, MainType, DhcpType, AdvertType, RaType, RsType, SignalType DEF Step, Work
  <2> QED BY <2>1, <2>2 DEF Next, Terminated
<1> QED BY <1>1, TypeInit, PTL DEF Spec

(* TypeOK holds in every reachable state of the daemon.                    *)
THEOREM TypeCorrect == Spec => []TypeOK
<1>1. TypeInv => TypeOK
  BY DEF TypeInv
<1> QED BY <1>1, TypeInvariant, PTL
=============================================================================
