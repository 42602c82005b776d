---------------------------- MODULE UtilsProofs ----------------------------
(***************************************************************************)
(* OnlyHeadTorn for any number of callers.                                 *)
(***************************************************************************)
EXTENDS Utils, TLAPS

(* Whoever is past its ioctl finds the tail filled, whoever has called     *)
(* finds the head written, and a buffer is zero until it is copied to.     *)
CopyInv ==
  \A t \in Callers :
    /\ pc[t] \in {"copyHead", "copyTail"} => request.tail = "address"
    /\ pc[t] # "clear" => request.head \in {"zero", "address"}
    /\ pc[t] \notin {"copyTail", "use"} => hwAddress[t] = Zero
    /\ pc[t] = "copyTail" => hwAddress[t].head \in {"zero", "address"}

IInv == TypeOK /\ CopyInv /\ OnlyHeadTorn

LEMMA AddressParts == Zero \in Address /\ Zero.head = "zero" /\ Zero.tail = "zero"
BY DEF Zero, Address, Part

LEMMA InvInit == Init => IInv
BY AddressParts, MayDisposeAssumption
   DEF Init, IInv, TypeOK, CopyInv, OnlyHeadTorn, Labels, Address, Part

LEMMA CallKeeps ==
  ASSUME IInv, NEW t \in Callers, Call(t)
  PROVE  IInv'
<1> USE DEF IInv, TypeOK, CopyInv, OnlyHeadTorn, Goto, Labels, Address, Part
<1>1. CASE Clear(t)
  BY <1>1 DEF Clear
<1>2. CASE FetchHead(t)
  BY <1>2 DEF FetchHead
<1>3. CASE FetchTail(t)
  BY <1>3 DEF FetchTail
<1>4. CASE CopyHead(t)
  BY <1>4 DEF CopyHead
<1>5. CASE CopyTail(t)
  BY <1>5 DEF CopyTail
<1>6. CASE Use(t)
  BY <1>6, AddressParts DEF Use
<1> QED BY <1>1, <1>2, <1>3, <1>4, <1>5, <1>6 DEF Call

LEMMA Invariant == Spec => []IInv
<1>1. IInv /\ [Next]_vars => IInv'
  <2> SUFFICES ASSUME IInv, [Next]_vars PROVE IInv'
    OBVIOUS
  <2>1. CASE UNCHANGED vars
    BY <2>1 DEF vars, IInv, TypeOK, CopyInv, OnlyHeadTorn
  <2>2. CASE Dispose
    BY <2>2 DEF Dispose, IInv, TypeOK, CopyInv, OnlyHeadTorn
  <2> QED BY <2>1, <2>2, CallKeeps DEF Next
<1> QED BY <1>1, InvInit, PTL DEF Spec

(* However many threads share the request, an advertised address is zero or*)
(* wrong in its first two bytes at most.                                   *)
THEOREM HeadTornAtMost == Spec => []OnlyHeadTorn
<1>1. IInv => OnlyHeadTorn
  BY DEF IInv
<1> QED BY <1>1, Invariant, PTL

(* The parts of the shared request and of every caller's buffer stay those *)
(* that utils_getHardwareAddressByName and the kernel write.               *)
THEOREM TypesKept == Spec => []TypeOK
<1>1. IInv => TypeOK
  BY DEF IInv
<1> QED BY <1>1, Invariant, PTL
-----------------------------------------------------------------------------
(* The tear is the sharing's: with one caller there is none, whether or not*)
(* the socket is closed under it.                                          *)

(* A caller by itself finds in the request what its own ioctl left there.  *)
AloneInv ==
  \A t \in Callers :
    /\ pc[t] \in {"fetchTail", "copyHead"} => request.head = "address"
    /\ pc[t] = "copyTail" => hwAddress[t].head = "address"

LEMMA AloneKeeps ==
  ASSUME \A s, t \in Callers : s = t, IInv, AloneInv, DeliversAddress,
         NEW t \in Callers, Call(t)
  PROVE  AloneInv' /\ DeliversAddress'
<1> USE DEF IInv, TypeOK, CopyInv, AloneInv, DeliversAddress, Goto, Labels, Address, Part
<1>1. CASE Clear(t)
  BY <1>1 DEF Clear
<1>2. CASE FetchHead(t)
  BY <1>2 DEF FetchHead
<1>3. CASE FetchTail(t)
  BY <1>3 DEF FetchTail
<1>4. CASE CopyHead(t)
  BY <1>4 DEF CopyHead
<1>5. CASE CopyTail(t)
  <2>1. hwAddress'[t] = [head |-> "address", tail |-> "address"]
    BY <1>5 DEF CopyTail
  <2> QED BY <1>5, <2>1 DEF CopyTail, Whole
<1>6. CASE Use(t)
  BY <1>6 DEF Use
<1> QED BY <1>1, <1>2, <1>3, <1>4, <1>5, <1>6 DEF Call

(* With a single thread in utils_getHardwareAddressByName, as in a daemon  *)
(* without the Router Solicitation thread, test.c:121 is right.            *)
THEOREM TornBySharing ==
  ASSUME \A s, t \in Callers : s = t
  PROVE  Spec => []DeliversAddress
<1>1. Init => AloneInv /\ DeliversAddress
  BY DEF Init, AloneInv, DeliversAddress
<1>2. IInv /\ AloneInv /\ DeliversAddress /\ [Next]_vars => AloneInv' /\ DeliversAddress'
  <2> SUFFICES ASSUME IInv, AloneInv, DeliversAddress, [Next]_vars PROVE AloneInv' /\ DeliversAddress'
    OBVIOUS
  <2>1. CASE UNCHANGED vars
    BY <2>1 DEF vars, AloneInv, DeliversAddress
  <2>2. CASE Dispose
    BY <2>2 DEF Dispose, AloneInv, DeliversAddress
  <2> QED BY <2>1, <2>2, AloneKeeps DEF Next
<1> QED BY <1>1, <1>2, Invariant, PTL DEF Spec
=============================================================================
