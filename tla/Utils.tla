-------------------------------- MODULE Utils --------------------------------
(***************************************************************************)
(* utils_getHardwareAddressByName, which the Router Advertisement and the  *)
(* Router Solicitation threads call outside the mutex.  All callers share  *)
(* one ioctl request, utils_request: a call clears four bytes of it, lets  *)
(* the kernel fill it, and copies the address out.                         *)
(*                                                                         *)
(* The four bytes are the address family and the first two bytes of the    *)
(* hardware address, so an address has two parts here: `head', those two   *)
(* bytes, and `tail', the other four.                                      *)
(***************************************************************************)
CONSTANTS Callers,     \* the threads that call it
          MayDispose   \* whether utils_handler may be closed

ASSUME MayDisposeAssumption == MayDispose \in BOOLEAN

Part == {"zero", "address", "garbage"}
Address == [head : Part, tail : Part]

Zero == [head |-> "zero", tail |-> "zero"]
Whole == [head |-> "address", tail |-> "address"]

Labels == {"clear", "fetchHead", "fetchTail", "copyHead", "copyTail", "use"}

VARIABLES
  pc,         \* where each caller is
  request,    \* utils_request->ifr_ifru
  handler,    \* utils_handler: "open" or "closed"
  hwAddress   \* each caller's buffer, zero before the call

vars == <<pc, request, handler, hwAddress>>

(* malloc leaves the request's address undefined; utils_Init may fail.     *)
Init ==
  /\ pc = [t \in Callers |-> "clear"]
  /\ request = [head |-> "garbage", tail |-> "garbage"]
  /\ handler \in IF MayDispose THEN {"open", "closed"} ELSE {"open"}
  /\ hwAddress = [t \in Callers |-> Zero]

Goto(t, from, to) == pc[t] = from /\ pc' = [pc EXCEPT ![t] = to]

(* Mutant of Clear: the whole address is cleared.                          *)
ClearsAll(t) ==
  /\ Goto(t, "clear", "fetchHead")
  /\ request' = Zero
  /\ UNCHANGED <<handler, hwAddress>>

(* ifru_ivalue = 0.                                                        *)
Clear(t) ==
  /\ Goto(t, "clear", "fetchHead")
  /\ request' = [request EXCEPT !.head = "zero"]
  /\ UNCHANGED <<handler, hwAddress>>

(* ioctl(SIOCGIFHWADDR): the kernel copies the request back.  It fails on a*)
(* closed number, unless another socket has taken it, and returns at once. *)
FetchHead(t) ==
  \/ /\ Goto(t, "fetchHead", "fetchTail")
     /\ request' = [request EXCEPT !.head = "address"]
     /\ UNCHANGED <<handler, hwAddress>>
  \/ /\ handler = "closed"
     /\ Goto(t, "fetchHead", "use")
     /\ UNCHANGED <<request, handler, hwAddress>>

FetchTail(t) ==
  /\ Goto(t, "fetchTail", "copyHead")
  /\ request' = [request EXCEPT !.tail = "address"]
  /\ UNCHANGED <<handler, hwAddress>>

CopyHead(t) ==
  /\ Goto(t, "copyHead", "copyTail")
  /\ hwAddress' = [hwAddress EXCEPT ![t].head = request.head]
  /\ UNCHANGED <<request, handler>>

(* Mutant of CopyTail: the copy starts two bytes late and runs past the end.*)
CopiesLate(t) ==
  /\ Goto(t, "copyTail", "use")
  /\ hwAddress' = [hwAddress EXCEPT ![t].tail = "past the end"]
  /\ UNCHANGED <<request, handler>>

CopyTail(t) ==
  /\ Goto(t, "copyTail", "use")
  /\ hwAddress' = [hwAddress EXCEPT ![t].tail = request.tail]
  /\ UNCHANGED <<request, handler>>

(* The address has gone into an advertisement; the next call starts with a *)
(* fresh, zeroed buffer.                                                   *)
Use(t) ==
  /\ Goto(t, "use", "clear")
  /\ hwAddress' = [hwAddress EXCEPT ![t] = Zero]
  /\ UNCHANGED <<request, handler>>

(* utils_Dispose, from the signal handler.                                 *)
Dispose ==
  /\ MayDispose
  /\ handler = "open"
  /\ handler' = "closed"
  /\ UNCHANGED <<pc, request, hwAddress>>

Call(t) == Clear(t) \/ FetchHead(t) \/ FetchTail(t) \/ CopyHead(t) \/ CopyTail(t) \/ Use(t)

Next == Dispose \/ \E t \in Callers : Call(t)

Spec == Init /\ [][Next]_vars
-----------------------------------------------------------------------------
(* Parts of addresses are cleared, filled or never written.                *)
TypeOK ==
  /\ pc \in [Callers -> Labels]
  /\ request \in Address
  /\ handler \in {"open", "closed"}
  /\ hwAddress \in [Callers -> Address]

(* The sharing is unsynchronised, but what it can do to an advertisement is*)
(* bounded: an address is all zero (the ioctl failed) or has its last four *)
(* bytes right, and undefined memory of the request never gets out.        *)
OnlyHeadTorn ==
  \A t \in Callers : pc[t] = "use" =>
    \/ hwAddress[t] = Zero
    \/ hwAddress[t].tail = "address" /\ hwAddress[t].head \in {"zero", "address"}

(* test.c:121, "Get hardware address %s to build RA": a call that succeeds *)
(* delivers the address of the interface.                                  *)
DeliversAddress ==
  \A t \in Callers : pc[t] = "use" => hwAddress[t] \in {Zero, Whole}
=============================================================================
