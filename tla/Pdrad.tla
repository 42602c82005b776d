-------------------------------- MODULE Pdrad --------------------------------
(***************************************************************************)
(* The pdrad process: main, the DHCPv6 thread, the Router Advertisement    *)
(* thread, the Router Solicitation thread, and the handler of SIGINT and   *)
(* SIGTERM, over what they share: the delegated prefix and its mutex, the  *)
(* three cancel flags, and the process's table of file descriptors.        *)
(*                                                                         *)
(* A descriptor is a number.  close() frees the number, socket() takes the *)
(* lowest free one, and a thread that still remembers a number it closed   *)
(* reaches whatever socket has the number now.                             *)
(***************************************************************************)
EXTENDS Integers, ByteOrder

CONSTANTS
  Modes,       \* how pdrad may be started: a subset of {"static", "dhcp"}
  Prefixes,    \* the prefixes a server delegates or an operator configures
  Lengths,     \* the prefix lengths they come with
  Lifetimes,   \* the lifetimes a server grants, as numbers
  Statuses,    \* what the bytes of a status code amount to, read as a prefix
  Clients,     \* the link-local addresses of the hosts on the LAN
  Faults,      \* what the environment may do wrong
  MaxSignals,  \* how often pdrad is signalled
  None         \* no record: nothing published, granted, advertised

FaultKinds == {"socket", "bind", "clock", "send", "connect", "reply"}

ASSUME ConstantsAssumption ==
  /\ Modes \subseteq {"static", "dhcp"}
  /\ Lengths \subseteq Byte
  /\ Lifetimes \subseteq Word32
  /\ Faults \subseteq FaultKinds
  /\ MaxSignals \in Nat

(* The sockets of the process, named after the variable that holds each.   *)
(*   utils  utils_handler                     dhcp  handler (DHCP thread)  *)
(*   ra     ndpHandler (RA thread)                                         *)
(*   rsRecv ndpMulticastHandler (RS thread)   rsSend ndpHandler (RS thread)*)
RawSockets == {"ra", "rsRecv", "rsSend"}
Sockets == RawSockets \cup {"utils", "dhcp"}

(* 0, 1 and 2 are the standard streams.  Every socket is opened once, so   *)
(* five further numbers are never exhausted.                               *)
Fd == 3..7
NoFd == -1

Advertisers == {"ra", "rs"}
Threads == Advertisers \cup {"main", "dhcp"}

Unspecified == "::"
AllNodes == "ff02::1"

(* dh_opt_IA_Prefix, without the options that follow the prefix.           *)
PrefixRecord == [Prefix            : Prefixes \cup {Unspecified},
                 PrefixLength      : Byte,
                 PreferredLifetime : Word32,
                 ValidLifetime     : Word32]

ZeroRecord == [Prefix            |-> Unspecified,
               PrefixLength      |-> 0,
               PreferredLifetime |-> Zero32,
               ValidLifetime     |-> Zero32]

Grant == [Prefix            : Prefixes,
          PrefixLength      : Lengths,
          PreferredLifetime : Lifetimes,
          ValidLifetime     : Lifetimes]

Advert == [record : PrefixRecord,
           by     : Advertisers,
           to     : Clients \cup {Unspecified, AllNodes}]

(* Mode s of the command line; main sets the lifetimes to 24000 and 48000.     *)
StaticRecord == [Prefix            : Prefixes,
                 PrefixLength      : Lengths,
                 PreferredLifetime : {<<0, 0, 93, 192>>},
                 ValidLifetime     : {<<0, 0, 187, 128>>}]

ASSUME StatusesAssumption == Statuses \subseteq PrefixRecord

ASSUME NoneAssumption ==
  None \notin PrefixRecord \cup Grant \cup Advert

VARIABLES
  useDhcp,     \* the mode main was started in
  proc,        \* "running", "exited" or "crashed"
  pc,          \* where each thread is
  prefix,      \* _prefix
  mutex,       \* the thread that holds _prefixMutex, or "free"
  cancel,      \* the three Thread_*_cancel flags
  fd,          \* the number each socket's variable holds
  table,       \* the socket open under each number, or "free"
  copy,        \* the local `prefix' of each advertising thread
  client,      \* clientAddr of the RS thread
  signals,     \* signals delivered
  disposing,   \* handlers that have yet to call utils_Dispose
  published,   \* history: _prefix when the mutex was last released by a writer
  granted,     \* history: what the last accepted reply grants
  lastRa       \* history: the last Router Advertisement sent

descriptors == <<fd, table>>
control == <<pc, cancel, signals, disposing>>
data == <<mutex, prefix, published, granted, copy, client, lastRa>>
vars == <<useDhcp, proc, control, descriptors, data>>

Init ==
  /\ useDhcp \in {m = "dhcp" : m \in Modes}
  /\ proc = "running"
  /\ pc = [t \in Threads |-> IF t = "main" THEN "init" ELSE "off"]
  /\ IF useDhcp THEN prefix = ZeroRecord ELSE prefix \in StaticRecord
  /\ published = IF useDhcp THEN None ELSE prefix
  /\ granted = None
  /\ mutex = "free"
  /\ cancel = [t \in {"ra", "rs", "dhcp"} |-> FALSE]
  /\ fd = [k \in Sockets |-> NoFd]
  /\ table = [n \in Fd |-> "free"]
  /\ copy = [t \in Advertisers |-> Unspecified]
  /\ client = Unspecified
  /\ signals = 0
  /\ disposing = 0
  /\ lastRa = None

-----------------------------------------------------------------------------
(* Descriptors, labels, and the frames of the actions.                     *)

Holds(k) == fd[k] \in Fd /\ table[fd[k]] = k
IsOpen(k) == fd[k] \in Fd /\ table[fd[k]] # "free"
IsRaw(k) == fd[k] \in Fd /\ table[fd[k]] \in RawSockets

LowestFree(n) == table[n] = "free" /\ \A m \in Fd : m < n => table[m] # "free"

Open(k) == \E n \in Fd : /\ LowestFree(n)
                         /\ table' = [table EXCEPT ![n] = k]
                         /\ fd' = [fd EXCEPT ![k] = n]

(* close() of the numbers that the variables in S hold.                    *)
Close(S) == /\ table' = [n \in Fd |-> IF \E k \in S : fd[k] = n THEN "free" ELSE table[n]]
            /\ UNCHANGED fd

Goto(t, from, to) == pc[t] = from /\ pc' = [pc EXCEPT ![t] = to]

Lock(t) == mutex = "free" /\ mutex' = t
Unlock == mutex' = "free"

SetCancel(S) == cancel' = [t \in DOMAIN cancel |-> cancel[t] \/ t \in S]

KeepProcess == UNCHANGED <<useDhcp, proc>>
KeepControl == KeepProcess /\ UNCHANGED <<cancel, signals, disposing>>
KeepSockets == KeepControl /\ UNCHANGED descriptors
KeepData == KeepControl /\ UNCHANGED data
KeepAll == KeepSockets /\ UNCHANGED data

Exit(how) == proc' = how /\ UNCHANGED <<useDhcp, control, descriptors, data>>

-----------------------------------------------------------------------------
(* main.                                                                   *)

(* utils_Init, whose result main ignores: on failure utils_handler keeps   *)
(* the number of the closed socket, or the -1 that socket() returned.      *)
UtilsInit ==
  \/ Open("utils")
  \/ /\ "bind" \in Faults
     /\ \E n \in Fd : LowestFree(n) /\ fd' = [fd EXCEPT !["utils"] = n]
     /\ UNCHANGED table
  \/ "socket" \in Faults /\ UNCHANGED descriptors

(* Up to the wait for a result: the handlers are registered and, in DHCP   *)
(* mode, the DHCP thread is created.                                       *)
MainInit ==
  /\ pc["main"] = "init"
  /\ UtilsInit
  /\ pc' = [pc EXCEPT !["main"] = "wait", !["dhcp"] = IF useDhcp THEN "open" ELSE "off"]
  /\ KeepData

(* Mutant of MainStart: the wait also ends when the DHCP thread is told to.*)
MainStartCancelled ==
  /\ pc["main"] = "wait"
  /\ useDhcp => prefix.PrefixLength # 0 \/ cancel["dhcp"]
  /\ pc' = [pc EXCEPT !["main"] = "supervise", !["ra"] = "open", !["rs"] = "open"]
  /\ KeepAll

(* The wait reads _prefix.PrefixLength without the mutex.                  *)
MainStart ==
  /\ pc["main"] = "wait"
  /\ useDhcp => prefix.PrefixLength # 0
  /\ pc' = [pc EXCEPT !["main"] = "supervise", !["ra"] = "open", !["rs"] = "open"]
  /\ KeepAll

MainExit == pc["main"] = "supervise" /\ (cancel["rs"] \/ cancel["ra"]) /\ Exit("exited")

-----------------------------------------------------------------------------
(* The DHCP thread.                                                        *)

DhcpOpen ==
  \/ Goto("dhcp", "open", "bind") /\ Open("dhcp") /\ KeepData
  \/ /\ "socket" \in Faults
     /\ Goto("dhcp", "open", "done")
     /\ SetCancel({"dhcp"})
     /\ KeepProcess /\ UNCHANGED <<signals, disposing, descriptors, data>>

(* SO_BINDTODEVICE and bind(); a failure ends the thread and sets no flag. *)
DhcpBind ==
  \/ Goto("dhcp", "bind", "check") /\ KeepAll
  \/ "bind" \in Faults /\ Goto("dhcp", "bind", "done") /\ Close({"dhcp"}) /\ KeepData

DhcpCheck ==
  \/ ~cancel["dhcp"] /\ Goto("dhcp", "check", "lock") /\ KeepAll
  \/ cancel["dhcp"] /\ Goto("dhcp", "check", "done") /\ Close({"dhcp"}) /\ KeepData

DhcpLock ==
  /\ Goto("dhcp", "lock", "send")
  /\ Lock("dhcp")
  /\ KeepSockets /\ UNCHANGED <<prefix, published, granted, copy, client, lastRa>>

(* The clock cannot be read for the transaction id: the -1 that comes back *)
(* instead of a Solicit is taken for the size of a null packet, and dumped.*)
DhcpSolicitFails == "clock" \in Faults /\ pc["dhcp"] = "send" /\ Exit("crashed")

(* sendto() of the Solicit to port 547: a raw ICMPv6 socket and a closed   *)
(* number refuse it.                                                       *)
DhcpSend ==
  \/ Holds("dhcp") /\ Goto("dhcp", "send", "recv") /\ KeepAll
  \/ ~Holds("dhcp") /\ Goto("dhcp", "send", "close") /\ KeepAll
  \/ "send" \in Faults /\ Goto("dhcp", "send", "close") /\ KeepAll

(* recvfrom blocks, without a timeout.                                     *)
DhcpRecv == Holds("dhcp") /\ Goto("dhcp", "recv", "blocked") /\ KeepAll

(* A failed recvfrom returns -1, which print_memory_hex takes for a size.  *)
DhcpRecvFails == pc["dhcp"] = "recv" /\ ~Holds("dhcp") /\ Exit("crashed")

(* A reply with an IA_PD that holds a prefix.  Whatever its transaction id,*)
(* the prefix option is copied as it is on the wire.                       *)
DhcpReply ==
  /\ Goto("dhcp", "blocked", "close")
  /\ granted' \in Grant
  /\ prefix' = [granted' EXCEPT !.PreferredLifetime = LoadRaw(@), !.ValidLifetime = LoadRaw(@)]
  /\ KeepSockets /\ UNCHANGED <<mutex, published, copy, client, lastRa>>

(* A reply of another type or without an IA_PD: the null IA_PDList is      *)
(* dereferenced.                                                           *)
DhcpBadReply == "reply" \in Faults /\ pc["dhcp"] = "blocked" /\ Exit("crashed")

(* A reply whose IA_PD holds no prefix but, say, a status code: its bytes  *)
(* are copied all the same.                                                *)
DhcpStatusReply ==
  /\ "reply" \in Faults
  /\ Goto("dhcp", "blocked", "close")
  /\ prefix' \in Statuses
  /\ KeepSockets /\ UNCHANGED <<mutex, published, granted, copy, client, lastRa>>

(* A recvfrom that a signal interrupts is restarted on the same number.    *)
DhcpRestart == signals > 0 /\ Goto("dhcp", "blocked", "recv") /\ KeepAll

(* Mutant of DhcpClose: the socket stays open for the next request.        *)
DhcpKeepsSocket == Goto("dhcp", "close", "convert") /\ KeepAll

(* After the copy, and after a failed sendto.                              *)
DhcpClose == Goto("dhcp", "close", "convert") /\ Close({"dhcp"}) /\ KeepData

(* Mutant of DhcpConvert: the conversion of the second lifetime forgotten. *)
DhcpConvertsOne ==
  /\ Goto("dhcp", "convert", "setLength")
  /\ prefix' = [prefix EXCEPT !.PreferredLifetime = be32toh(@)]
  /\ KeepSockets /\ UNCHANGED <<mutex, published, granted, copy, client, lastRa>>

(* be32toh of both lifetimes, whatever requestAndReceiveDhcp returned.     *)
DhcpConvert ==
  /\ Goto("dhcp", "convert", "setLength")
  /\ prefix' = [prefix EXCEPT !.PreferredLifetime = be32toh(@), !.ValidLifetime = be32toh(@)]
  /\ KeepSockets /\ UNCHANGED <<mutex, published, granted, copy, client, lastRa>>

(* Mutant of DhcpSetLength: the length, already in bits, multiplied by 8.  *)
DhcpScalesLength ==
  /\ Goto("dhcp", "setLength", "unlock")
  /\ prefix' = [prefix EXCEPT !.PrefixLength = @ * 8]
  /\ KeepSockets /\ UNCHANGED <<mutex, published, granted, copy, client, lastRa>>

DhcpSetLength ==
  /\ Goto("dhcp", "setLength", "unlock")
  /\ prefix' = [prefix EXCEPT !.PrefixLength = 64]
  /\ KeepSockets /\ UNCHANGED <<mutex, published, granted, copy, client, lastRa>>

(* Mutant of DhcpUnlock: the mutex stays locked through the sleep.         *)
DhcpKeepsMutex ==
  /\ Goto("dhcp", "unlock", "sleep")
  /\ published' = prefix
  /\ KeepSockets /\ UNCHANGED <<mutex, prefix, granted, copy, client, lastRa>>

DhcpUnlock ==
  /\ Goto("dhcp", "unlock", "sleep")
  /\ Unlock
  /\ published' = prefix
  /\ KeepSockets /\ UNCHANGED <<prefix, granted, copy, client, lastRa>>

(* sleep() of PreferredLifetime seconds ends: time is not modelled.        *)
DhcpWake == Goto("dhcp", "sleep", "check") /\ KeepAll

-----------------------------------------------------------------------------
(* utils_getLinkLocalAddress, called by both advertising threads.  Its     *)
(* address only feeds a checksum that is discarded, so what matters here   *)
(* is what it does to utils_handler; its result is ignored.                *)

AfterAddress(t) == IF t = "ra" THEN "lock" ELSE "recv"

UtilsConnect(t) ==
  \/ IsOpen("utils") /\ Goto(t, "connect", "sockname") /\ KeepAll
  \/ ~IsOpen("utils") /\ Goto(t, "connect", "disconnect") /\ KeepAll
  \/ "connect" \in Faults /\ Goto(t, "connect", "disconnect") /\ KeepAll

UtilsGetSockName(t) ==
  \/ IsOpen("utils") /\ Goto(t, "sockname", AfterAddress(t)) /\ KeepAll
  \/ ~IsOpen("utils") /\ Goto(t, "sockname", "disconnect") /\ KeepAll

UtilsCloseOnError(t) ==
  Goto(t, "disconnect", AfterAddress(t)) /\ Close({"utils"}) /\ KeepData

-----------------------------------------------------------------------------
(* What both advertising threads do under the mutex.                       *)

SocketOf(t) == IF t = "ra" THEN "ra" ELSE "rsRecv"
Destination(t) == IF t = "ra" THEN AllNodes ELSE client

(* Mutant of AdvertLock: _prefix is read without the mutex.                *)
AdvertSkipsLock(t) == Goto(t, "lock", "copy") /\ KeepSockets /\ UNCHANGED data

AdvertLock(t) ==
  /\ Goto(t, "lock", "copy")
  /\ Lock(t)
  /\ KeepSockets /\ UNCHANGED <<prefix, published, granted, copy, client, lastRa>>

AdvertCopy(t) ==
  /\ Goto(t, "copy", "send")
  /\ copy' = [copy EXCEPT ![t] = prefix.Prefix]
  /\ KeepSockets /\ UNCHANGED <<mutex, prefix, published, granted, client, lastRa>>

(* Mutant of AdvertSend: a failed sendmsg closes the socket.               *)
AdvertSendCloses(t) ==
  /\ Goto(t, "send", "unlock")
  /\ \/ /\ IsRaw(SocketOf(t))
        /\ lastRa' = [record |-> [prefix EXCEPT !.Prefix = copy[t]], by |-> t, to |-> Destination(t)]
        /\ UNCHANGED descriptors
     \/ "send" \in Faults /\ Close({SocketOf(t)}) /\ UNCHANGED lastRa
  /\ KeepControl /\ UNCHANGED <<mutex, prefix, published, granted, copy, client>>

(* sendRouterAdv: the local copy of the prefix, the other fields from      *)
(* _prefix.  A failed sendmsg is logged and forgotten.                     *)
AdvertSend(t) ==
  /\ Goto(t, "send", "unlock")
  /\ \/ /\ IsRaw(SocketOf(t))
        /\ lastRa' = [record |-> [prefix EXCEPT !.Prefix = copy[t]], by |-> t, to |-> Destination(t)]
     \/ ~IsRaw(SocketOf(t)) /\ UNCHANGED lastRa
     \/ "send" \in Faults /\ UNCHANGED lastRa
  /\ KeepSockets /\ UNCHANGED <<mutex, prefix, published, granted, copy, client>>

(* Mutant of AdvertUnlock: the mutex is not released.                      *)
AdvertKeepsMutex(t) ==
  /\ Goto(t, "unlock", IF t = "ra" THEN "sleep" ELSE "check")
  /\ copy' = [copy EXCEPT ![t] = Unspecified]
  /\ client' = IF t = "rs" THEN Unspecified ELSE client
  /\ KeepSockets /\ UNCHANGED <<mutex, prefix, published, granted, lastRa>>

(* The body of the loop ends, and with it the life of its locals.          *)
AdvertUnlock(t) ==
  /\ Goto(t, "unlock", IF t = "ra" THEN "sleep" ELSE "check")
  /\ Unlock
  /\ copy' = [copy EXCEPT ![t] = Unspecified]
  /\ client' = IF t = "rs" THEN Unspecified ELSE client
  /\ KeepSockets /\ UNCHANGED <<prefix, published, granted, lastRa>>

-----------------------------------------------------------------------------
(* The Router Advertisement thread.  Its failures end the process, through *)
(* the flag that main looks at.                                            *)

RaFails(from) ==
  /\ Goto("ra", from, "done")
  /\ SetCancel({"ra"})
  /\ Close({"ra"})
  /\ KeepProcess /\ UNCHANGED <<signals, disposing, data>>

RaOpen ==
  \/ Goto("ra", "open", "bind") /\ Open("ra") /\ KeepData
  \/ "socket" \in Faults /\ RaFails("open")

RaBind ==
  \/ Goto("ra", "bind", "check") /\ KeepAll
  \/ "bind" \in Faults /\ RaFails("bind")

RaCheck ==
  \/ ~cancel["ra"] /\ Goto("ra", "check", "connect") /\ KeepAll
  \/ cancel["ra"] /\ Goto("ra", "check", "done") /\ Close({"ra"}) /\ KeepData

RaWake == Goto("ra", "sleep", "check") /\ KeepAll

-----------------------------------------------------------------------------
(* The Router Solicitation thread.                                         *)

RsOpen == Goto("rs", "open", "openSend") /\ Open("rsRecv") /\ KeepData

RsOpenSend == Goto("rs", "openSend", "bind") /\ Open("rsSend") /\ KeepData

(* A socket() that fails here ends the process: exit(EXIT_FAILURE).        *)
RsOpenFails == "socket" \in Faults /\ pc["rs"] \in {"open", "openSend"} /\ Exit("exited")

(* SO_BINDTODEVICE on both sockets and the multicast join: a failure closes*)
(* one of the two sockets and ends the thread, and no flag is set.         *)
RsBind ==
  \/ Goto("rs", "bind", "check") /\ KeepAll
  \/ /\ "bind" \in Faults
     /\ Goto("rs", "bind", "done")
     /\ \E k \in {"rsRecv", "rsSend"} : Close({k})
     /\ KeepData

RsCheck ==
  \/ ~cancel["rs"] /\ Goto("rs", "check", "connect") /\ KeepAll
  \/ cancel["rs"] /\ Goto("rs", "check", "done") /\ Close({"rsRecv", "rsSend"}) /\ KeepData

(* recvfrom blocks on the socket that is open under the number now, even   *)
(* if the number is closed meanwhile.                                      *)
RsRecv == IsRaw("rsRecv") /\ Goto("rs", "recv", "blocked") /\ KeepAll

TakeClient(from, addresses) ==
  /\ Goto("rs", from, "lock")
  /\ client' \in addresses
  /\ KeepSockets /\ UNCHANGED <<mutex, prefix, published, granted, copy, lastRa>>

(* recvfrom's failure is not checked: the buffer keeps whatever it held,   *)
(* which is dropped (recvfrom is called again) or taken for a solicitation.*)
RsRecvFails == ~IsRaw("rsRecv") /\ TakeClient("recv", Clients \cup {Unspecified})

RsSolicited == TakeClient("blocked", Clients)

(* A message whose type is not 133 or whose code is not 0, or a signal that*)
(* restarts the recvfrom.                                                  *)
RsDrop == Goto("rs", "blocked", "recv") /\ KeepAll

-----------------------------------------------------------------------------
(* The signal handler.  It runs on whichever thread the kernel picks;      *)
(* SIGINT and SIGTERM can interrupt each other's handler.                  *)

(* Mutant of Signal: only the DHCP thread is told.                         *)
SignalTellsOne ==
  /\ pc["main"] # "init"
  /\ signals < MaxSignals
  /\ signals' = signals + 1
  /\ SetCancel({"dhcp"})
  /\ disposing' = disposing + 1
  /\ KeepProcess /\ UNCHANGED <<pc, descriptors, data>>

Signal ==
  /\ pc["main"] # "init"
  /\ signals < MaxSignals
  /\ signals' = signals + 1
  /\ SetCancel({"ra", "rs", "dhcp"})
  /\ disposing' = disposing + 1
  /\ KeepProcess /\ UNCHANGED <<pc, descriptors, data>>

SignalDispose ==
  /\ disposing > 0
  /\ disposing' = disposing - 1
  /\ Close({"utils"})
  /\ KeepProcess /\ UNCHANGED <<pc, cancel, signals, data>>

-----------------------------------------------------------------------------

Main == MainInit \/ MainStart \/ MainExit

DhcpEnvironment == DhcpReply \/ DhcpStatusReply \/ DhcpBadReply \/ DhcpRestart

DhcpProgress ==
  \/ DhcpOpen \/ DhcpBind \/ DhcpCheck \/ DhcpSolicitFails \/ DhcpSend \/ DhcpRecv
  \/ DhcpRecvFails \/ DhcpClose \/ DhcpConvert \/ DhcpSetLength \/ DhcpUnlock
  \/ DhcpWake

AdvertProgress(t) ==
  \/ UtilsConnect(t) \/ UtilsGetSockName(t) \/ UtilsCloseOnError(t)
  \/ AdvertCopy(t) \/ AdvertSend(t) \/ AdvertUnlock(t)

RaProgress == RaOpen \/ RaBind \/ RaCheck \/ RaWake \/ AdvertProgress("ra")

RsEnvironment == RsSolicited \/ RsDrop

RsProgress ==
  \/ RsOpen \/ RsOpenSend \/ RsOpenFails \/ RsBind \/ RsCheck \/ RsRecv
  \/ RsRecvFails \/ AdvertProgress("rs")

Work == \/ DhcpProgress \/ DhcpLock \/ DhcpEnvironment
        \/ RaProgress \/ RsProgress \/ RsEnvironment
        \/ \E t \in Advertisers : AdvertLock(t)

Step == Main \/ Work \/ Signal \/ SignalDispose

(* The process is gone: nothing happens any more.                          *)
Terminated == proc # "running" /\ UNCHANGED vars

Next == \/ proc = "running" /\ Step
        \/ Terminated

Spec == Init /\ [][Next]_vars

Running(A) == proc = "running" /\ A

(* The scheduler runs every thread and sleeps end.  That a mutex which is  *)
(* free again and again is eventually obtained is an assumption about mutex*)
(* and scheduler, and the code alone does not give it: glibc's mutex is not*)
(* fair, and a thread that has released it need not sleep before it locks  *)
(* again - sleep(0) returns at once, a failed recvfrom does not wait.      *)
(* The network owes nothing: neither a reply nor a solicitation ever comes.*)
Fairness ==
  /\ WF_vars(Running(Main))
  /\ WF_vars(Running(DhcpProgress)) /\ SF_vars(Running(DhcpLock))
  /\ WF_vars(Running(RaProgress)) /\ SF_vars(Running(AdvertLock("ra")))
  /\ WF_vars(Running(RsProgress)) /\ SF_vars(Running(AdvertLock("rs")))

FairSpec == Spec /\ Fairness
-----------------------------------------------------------------------------
(* Types.                                                                  *)

DhcpLabels == {"off", "open", "bind", "check", "lock", "send", "recv", "blocked",
               "close", "convert", "setLength", "unlock", "sleep", "done"}
CommonLabels == {"off", "open", "bind", "check", "connect", "sockname", "disconnect",
                 "lock", "copy", "send", "unlock", "done"}
RaLabels == CommonLabels \cup {"sleep"}
RsLabels == CommonLabels \cup {"openSend", "recv", "blocked"}

(* Every variable has its type: numbers of descriptors are legal or -1, a  *)
(* prefix record has byte-sized length and 32-bit lifetimes, and what was  *)
(* granted and advertised are records of the wire's fields.                *)
TypeOK ==
  /\ useDhcp \in BOOLEAN
  /\ proc \in {"running", "exited", "crashed"}
  /\ pc \in [Threads -> {"init", "wait", "supervise"} \cup DhcpLabels \cup RaLabels \cup RsLabels]
  /\ pc["main"] \in {"init", "wait", "supervise"}
  /\ pc["dhcp"] \in DhcpLabels
  /\ pc["ra"] \in RaLabels
  /\ pc["rs"] \in RsLabels
  /\ prefix \in PrefixRecord
  /\ mutex \in {"dhcp", "ra", "rs", "free"}
  /\ cancel \in [{"ra", "rs", "dhcp"} -> BOOLEAN]
  /\ fd \in [Sockets -> Fd \cup {NoFd}]
  /\ table \in [Fd -> Sockets \cup {"free"}]
  /\ copy \in [Advertisers -> Prefixes \cup {Unspecified}]
  /\ client \in Clients \cup {Unspecified}
  /\ signals \in 0..MaxSignals
  /\ disposing \in 0..MaxSignals
  /\ published \in PrefixRecord \cup {None}
  /\ granted \in Grant \cup {None}
  /\ lastRa \in Advert \cup {None}

-----------------------------------------------------------------------------
(* Safety.                                                                 *)

(* The refinement: _prefix is a cell.  main lets the advertising threads   *)
(* start on an unlocked read of the length that the DHCP thread is still   *)
(* filling in, and the advertising threads read _prefix in two places; the *)
(* mutex alone makes every advertisement carry one complete record that    *)
(* the DHCP thread had published (length 64), and nothing before the first.*)
Cell == INSTANCE PrefixCell
          WITH Values <- PrefixRecord, Unset <- None, NoAdvert <- None, LinkLength <- 64,
               cell <- published,
               advert <- IF lastRa = None THEN None ELSE lastRa.record

AdvertisesPublishedRecords == Cell!Spec

(* A thread of the LAN side is between its socket() and its close().       *)
InUse(k) ==
  IF k = "ra" THEN pc["ra"] \notin {"off", "open", "done"}
  ELSE pc["rs"] \notin {"off", "open", "done"} \cup (IF k = "rsSend" THEN {"openSend"} ELSE {})

(* Stale numbers.  The DHCP thread closes `handler' each time it asks for a*)
(* prefix, and the signal handler and a failed connect() close             *)
(* utils_handler, both without forgetting the number.  A socket of the LAN *)
(* side is closed behind its thread's back only through one of those two   *)
(* numbers, and through utils_handler's only once that was closed before.  *)
PrivateSocketsKept ==
  \A k \in RawSockets :
    InUse(k) /\ ~Holds(k) => \/ fd[k] = fd["dhcp"]
                            \/ (fd[k] = fd["utils"] /\ ~Holds("utils"))

SameOrder(r, g) ==
  /\ r.PreferredLifetime = g.PreferredLifetime
  /\ r.ValidLifetime = g.ValidLifetime

SwappedOrder(r, g) ==
  /\ r.PreferredLifetime = Swap32(g.PreferredLifetime)
  /\ r.ValidLifetime = Swap32(g.ValidLifetime)

(* Every failed request converts the lifetimes once more.  Whatever the    *)
(* number of rounds, the two lifetimes that are published are both what the*)
(* server granted or both byte-swapped, never one of each.                 *)
LifetimesShareByteOrder ==
  useDhcp /\ published # None /\ granted # None =>
    SameOrder(published, granted) \/ SwappedOrder(published, granted)

(* No deadlock: in every state of the running process some thread can take *)
(* a step without the help of a signal, but for one: main waits for the    *)
(* result of a DHCP thread that has returned (after a failed socket() or   *)
(* bind(), or a signal before its first request), a wait no signal ends.   *)
StuckOnlyInWait ==
  proc = "running" /\ ~ENABLED (Main \/ Work) =>
    pc["main"] = "wait" /\ pc["dhcp"] = "done"

(* The DHCP thread keeps the mutex while it waits for a reply, without a   *)
(* timeout.  It does so only as long as there is nobody to keep it from:   *)
(* main has not passed its wait, which needs no mutex, and later rounds    *)
(* have no socket to wait on.                                              *)
ReplyHoldsUpNobody ==
  pc["dhcp"] = "blocked" => pc["ra"] = "off" /\ pc["rs"] = "off"

(* From the server to the LAN: once a prefix is granted, every Router      *)
(* Advertisement is for that prefix, as a /64, with both lifetimes as they *)
(* were granted or both with their bytes reversed.                         *)
AdvertisesGrantedPrefix ==
  granted # None /\ lastRa # None =>
    /\ lastRa.record.Prefix = granted.Prefix
    /\ lastRa.record.PrefixLength = 64
    /\ SameOrder(lastRa.record, granted) \/ SwappedOrder(lastRa.record, granted)

(* A reply is waited for in the first round only, before anything has been *)
(* granted or published: one reply is accepted in the life of the daemon,  *)
(* and no renewal ever is.                                                 *)
GrantedOnlyOnce ==
  pc["dhcp"] = "blocked" => granted = None /\ published = None

-----------------------------------------------------------------------------
(* What comments and log messages of test.c say, and the code does not do. *)

(* test.c:439, "wait for a result": main passes the wait when a reply has  *)
(* delegated a prefix.  That is so as long as no bind(), no sendto() and no*)
(* reply fails, and a single failing sendto() suffices that it is not.     *)
WaitsForResult ==
  pc["main"] = "supervise" => prefix.Prefix # Unspecified

(* test.c:234, "Parse success, prefix=`%s/%d`": what a reply has brought to*)
(* the LAN is a prefix that a server delegated.                            *)
AdvertisesDelegatedPrefix ==
  useDhcp /\ lastRa # None =>
    granted # None /\ lastRa.record.Prefix = granted.Prefix

(* test.c:243, "Sleep %d sec before next request": the request of every    *)
(* round is made on the DHCP thread's socket.                              *)
RequestHasSocket ==
  pc["dhcp"] = "send" => Holds("dhcp")

(* test.c:234, "Parse success, ... preferred lifetime=%d, lifetime=%d": the*)
(* lifetimes that are advertised are the ones parsed from the reply.       *)
AdvertisesGrantedLifetimes ==
  granted # None /\ lastRa # None => SameOrder(lastRa.record, granted)

-----------------------------------------------------------------------------
(* Liveness, under Fairness.                                               *)

(* Once a record is published the Router Advertisement thread gets to send *)
(* it, or the process is on its way out: the busy wait of main ends, and   *)
(* the DHCP thread's rounds do not keep the mutex.                         *)
PublishedGetsAdvertised ==
  published # None ~> pc["ra"] = "send" \/ proc # "running"

(* A host that solicits is sent an advertisement, unless the process goes  *)
(* away or the RS thread has lost its socket.  In particular a DHCP round  *)
(* that waits for a reply never holds the mutex against it.                *)
SolicitationAnswered ==
  \A c \in Clients :
    pc["rs"] = "lock" /\ client = c
      ~> \/ pc["rs"] = "unlock" /\ lastRa # None /\ lastRa.by = "rs" /\ lastRa.to = c
         \/ proc # "running" \/ ~Holds("rsRecv")

(* A signal ends the process, even one that arrives during main's wait,    *)
(* which looks at no flag - provided that wait ends.                       *)
SignalStopsDaemon ==
  signals > 0 /\ (useDhcp => prefix.PrefixLength # 0) ~> proc # "running"
=============================================================================
