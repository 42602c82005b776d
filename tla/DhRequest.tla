------------------------------ MODULE DhRequest ------------------------------
(***************************************************************************)
(* requestAndReceiveDhcp, round after round, and the two other callers of  *)
(* dh_CreateCustomizedSolicitPacket: options are constructed, put into a   *)
(* Solicit and freed; the Solicit is sent; a reply is parsed.  The packets *)
(* are those of DhPackets; what this module adds is the heap.              *)
(***************************************************************************)
EXTENDS DhPackets

CONSTANTS
  ClientSizes,     \* the sizes of a caller's own client identifier
  RequestFaults,   \* a subset of {"clock", "send", "recv"}
  MaxRounds        \* rounds of requestAndReceiveDhcp

ASSUME RequestAssumption ==
  /\ ClientSizes \subseteq 0..(SizeMod - 1)
  /\ MaxRounds \in Nat \ {0}
  /\ SizeMod > HeaderSize + 4 * (MaxField + HeaderSize)

VARIABLES
  step,         \* where the caller of DhPackets is; "direct" without one
  caller,       \* the function that makes the Solicit
  identifier,   \* the client identifier it brings: a size, and whether there is a pointer
  blocks,       \* the option blocks given to dh_createPacket
  heap,         \* how many blocks of each kind are allocated
  listed,       \* history: IA_PD options listed in the rounds that have ended
  rounds        \* requests made

requestVars == <<step, caller, identifier, blocks, heap, listed, rounds>>

Kinds == {"option", "list", "packet", "node"}
Allocate1(kind) == heap' = [heap EXCEPT ![kind] = @ + 1]

(* The four bytes of requestAndReceiveDhcp.                                *)
OwnBytes == [size |-> 4, data |-> TRUE]

RequestInit ==
  /\ Init /\ phase = "count"
  /\ \/ step = "direct"
     \/ step = "solicit" /\ options = <<>> /\ msgType = SOLICIT
  /\ caller = "requestAndReceiveDhcp"
  /\ identifier = OwnBytes
  /\ blocks = <<>>
  /\ heap = [k \in Kinds |-> 0]
  /\ listed = 0
  /\ rounds = 0

Callers == {"dh_createSolicitPacket", "dh_createRapidSolicitPacket", "requestAndReceiveDhcp"}

(* The two public functions look at neither pointer nor size.  Where there *)
(* is a pointer, there are as many bytes.                                  *)
Identifiers(c) ==
  IF c = "requestAndReceiveDhcp" THEN {OwnBytes}
  ELSE {d \in [size : ClientSizes, data : BOOLEAN] : d.data => d.size + HeaderSize < SizeMod}

(* The options of dh_createSolicitPacket, of dh_createRapidSolicitPacket,  *)
(* and of requestAndReceiveDhcp.                                           *)
SolicitOptions(c, d) ==
  LET own    == createCustomOptPayload(CLIENTID, d.data, d.size)
      daemon == createOption_ClientIdentifier_En(d.size)
      time   == createOption_ElapsedTime
      pd     == createOption_IA_PD(0)
      rapid  == createOption_RapidCommit
  IN CASE c = "dh_createSolicitPacket"      -> <<own, time, pd>>
       [] c = "dh_createRapidSolicitPacket" -> <<own, time, pd, rapid>>
       [] c = "requestAndReceiveDhcp"       -> <<daemon, time, pd, rapid>>

(* A function is called, with an identifier; the daemon's is called again. *)
Call ==
  /\ step = "solicit"
  /\ caller' \in IF rounds = 0 THEN Callers ELSE {caller}
  /\ identifier' \in Identifiers(caller')

(* dh_CreateCustomizedSolicitPacket, up to its call of dh_createPacket; the*)
(* transaction id is not represented.                                      *)
Solicit ==
  /\ Call
  /\ blocks' = SolicitOptions(caller', identifier')
  /\ \A n \in 1..3 : blocks'[n] # NoBlock
  /\ options' = [n \in DOMAIN blocks' |-> [code |-> blocks'[n].code, length |-> blocks'[n].length]]
  /\ heap' = [heap EXCEPT !["option"] = @ + Len(blocks'), !["list"] = @ + 1]
  /\ step' = "create"
  /\ UNCHANGED <<phase, i, length, optionOffset, packet, msgType, size, parser, listed, rounds>>

(* It returns -1 when the clock cannot be read, after it has allocated its *)
(* list.  requestAndReceiveDhcp frees the options, and dumps a null packet *)
(* of that size.                                                           *)
SolicitFails ==
  /\ "clock" \in RequestFaults
  /\ Call
  /\ IF caller' = "requestAndReceiveDhcp"
     THEN step' = "crashed" /\ Allocate1("list")
     ELSE /\ step' = "returned"
          /\ heap' = [heap EXCEPT !["option"] = @ + Len(SolicitOptions(caller', identifier')),
                                  !["list"] = @ + 1]
  /\ UNCHANGED <<vars, blocks, listed, rounds>>

CreatePacket ==
  /\ step = "create"
  /\ \/ CountOption /\ UNCHANGED heap
     \/ Allocate /\ Allocate1("packet")
     \/ CopyOption /\ UNCHANGED heap
  /\ UNCHANGED <<step, caller, identifier, blocks, listed, rounds>>

(* The option is longer than its block, because the sum that was asked of  *)
(* malloc has wrapped around: its copy goes on behind the block, where it  *)
(* may end the process.                                                    *)
CopyFaults ==
  /\ step = "create" /\ phase = "copy" /\ i < Len(options)
  /\ SizeOf(options[i + 1]) > blocks[i + 1].allocated
  /\ step' = "crashed"
  /\ UNCHANGED <<vars, caller, identifier, blocks, heap, listed, rounds>>

(* Mutant of Created: the option list is freed in place of an option.      *)
CreatedFreesList ==
  /\ step = "create" /\ phase = "copy" /\ i = Len(options)
  /\ IF caller = "requestAndReceiveDhcp"
     THEN step' = "send" /\ heap' = [heap EXCEPT !["option"] = 1, !["list"] = @ - 1]
     ELSE step' = "returned" /\ UNCHANGED heap
  /\ UNCHANGED <<vars, caller, identifier, blocks, listed, rounds>>

(* requestAndReceiveDhcp frees its options; the others return.             *)
Created ==
  /\ step = "create" /\ phase = "copy" /\ i = Len(options)
  /\ IF caller = "requestAndReceiveDhcp"
     THEN step' = "send" /\ heap' = [heap EXCEPT !["option"] = @ - Len(options)]
     ELSE step' = "returned" /\ UNCHANGED heap
  /\ UNCHANGED <<vars, caller, identifier, blocks, listed, rounds>>

(* The caller calls again; nobody frees the nodes of the list.             *)
EndRound ==
  /\ rounds' = rounds + 1
  /\ listed' = listed + Len(result.IA_PDList)
  /\ step' = IF rounds' < MaxRounds THEN "solicit" ELSE "returned"
  /\ blocks' = <<>>
  /\ phase' = "count" /\ options' = <<>> /\ i' = 0 /\ length' = HeaderSize /\ optionOffset' = 0
  /\ packet' = <<>> /\ msgType' = SOLICIT /\ size' = 0
  /\ reader' = 0 /\ unread' = 0 /\ result' = NoResult

(* sendto fails, and the function returns 1.                               *)
SendFails ==
  /\ step = "send" /\ "send" \in RequestFaults
  /\ EndRound
  /\ UNCHANGED <<caller, identifier, heap>>

Send ==
  /\ step = "send"
  /\ step' = "wait"
  /\ UNCHANGED <<vars, caller, identifier, blocks, heap, listed, rounds>>

(* A packet arrives, and recvfrom returns.  The packet that was sent stays *)
(* allocated, and the parser is given another one.                         *)
Receive ==
  /\ step = "wait"
  /\ step' = "parse" /\ phase' = "check"
  /\ size' \in Sizes
  /\ msgType' \in {SOLICIT, ADVERTISE, REPLY}
  /\ options' = <<>> /\ packet' = <<>> /\ i' = 0 /\ length' = HeaderSize /\ optionOffset' = 0
  /\ UNCHANGED <<parser, caller, identifier, blocks, heap, listed, rounds>>

(* recvfrom fails; its -1 is dumped and parsed as a length.                *)
ReceiveFails ==
  /\ step = "wait" /\ "recv" \in RequestFaults
  /\ step' = "crashed"
  /\ UNCHANGED <<vars, caller, identifier, blocks, heap, listed, rounds>>

(* A node is allocated for each IA_PD option that is listed.               *)
Parse ==
  /\ step = "parse"
  /\ \/ CheckPacket /\ UNCHANGED heap
     \/ /\ ParseOption
        /\ heap' = [heap EXCEPT !["node"] = @ + Len(result'.IA_PDList) - Len(result.IA_PDList)]
  /\ UNCHANGED <<step, caller, identifier, blocks, listed, rounds>>

(* The first IA_PD is taken, whatever success says; without one the null   *)
(* list is dereferenced.                                                   *)
TakePrefix ==
  /\ step = "parse" /\ phase = "done" /\ result.IA_PDList # <<>>
  /\ EndRound
  /\ UNCHANGED <<caller, identifier, heap>>

TakeNothing ==
  /\ step = "parse" /\ phase = "done" /\ result.IA_PDList = <<>>
  /\ step' = "crashed"
  /\ UNCHANGED <<vars, caller, identifier, blocks, heap, listed, rounds>>

(* dh_createPacket and dh_parseOptions alone, on any options.              *)
Direct == step = "direct" /\ Next /\ UNCHANGED requestVars

Progress == \/ Solicit \/ SolicitFails \/ CreatePacket \/ CopyFaults \/ Created
            \/ SendFails \/ Send \/ Parse \/ TakePrefix \/ TakeNothing

Environment == Receive \/ ReceiveFails

RequestNext == Direct \/ Progress \/ Environment

RequestSpec == RequestInit /\ [][RequestNext]_<<vars, requestVars>>

(* A single thread, which is scheduled.  recvfrom has no timeout and the   *)
(* network owes no reply: nothing makes it return.                         *)
FairRequestSpec == RequestSpec /\ WF_<<vars, requestVars>>(Direct \/ Progress)
-----------------------------------------------------------------------------
(* Nothing is freed twice, and the types of DhPackets.                     *)
RequestTypeOK ==
  /\ TypeOK
  /\ step \in {"direct", "solicit", "create", "send", "wait", "parse", "returned", "crashed"}
  /\ caller \in Callers
  /\ identifier \in Identifiers(caller)
  /\ heap \in [Kinds -> Nat]
  /\ listed \in Nat
  /\ rounds \in 0..MaxRounds

(* OptionLength can hold the identifier's size, and there are bytes to     *)
(* fill it with.                                                           *)
FitsOption(d) == d.size <= MaxField /\ (d.data \/ d.size = 0)

(* The constructors announce a length, dh_createPacket copies by it.  Every*)
(* memcpy reads blocks that are still allocated: the whole block, and      *)
(* nothing behind it or without a value.  The one exception is the         *)
(* identifier of a public caller that has no bytes, or more than           *)
(* OptionLength can hold: its data has no value or is cut off; even so     *)
(* nothing behind the block is read, unless the sum of its size and the    *)
(* header's wraps around.                                                  *)
CopiesWholeOptions ==
  step = "create" /\ phase = "copy" /\ i < Len(options) =>
    LET b == blocks[i + 1]
        n == SizeOf(options[i + 1])
    IN /\ heap["option"] = Len(options)
       /\ \/ Whole(b) /\ n = b.allocated
          \/ i = 0 /\ caller # "requestAndReceiveDhcp" /\ ~FitsOption(identifier)
       /\ n <= b.allocated \/ identifier.size + HeaderSize >= SizeMod

HeapIs(option, list, pkt) ==
  heap["option"] = option /\ heap["list"] = list /\ heap["packet"] = pkt

(* What is left allocated.  The daemon's rounds free their options and     *)
(* leave a packet and a list of options each, as long as they go on and    *)
(* when they have ended.  The two public functions leave their options and *)
(* their list behind, also where the clock failed and they return -1       *)
(* without a packet.  The nodes of every list of IA_PD options stay.       *)
RoundsLeak ==
  /\ step = "solicit" => HeapIs(0, rounds, rounds)
  /\ step = "returned" =>
       CASE caller = "requestAndReceiveDhcp"       -> HeapIs(0, rounds, rounds)
         [] caller = "dh_createSolicitPacket"      -> HeapIs(3, 1, IF phase = "copy" THEN 1 ELSE 0)
         [] caller = "dh_createRapidSolicitPacket" -> HeapIs(4, 1, IF phase = "copy" THEN 1 ELSE 0)
  /\ step # "direct" => heap["node"] = listed + Len(result.IA_PDList)

(* Where a round is, in the order of its statements.                       *)
Stage ==
  [solicit |-> 0, count |-> 1, copy |-> 2, send |-> 3, wait |-> 4, check |-> 5, parse |-> 6,
   done |-> 7, returned |-> 8, crashed |-> 8]
    [IF step \in {"solicit", "send", "wait", "returned", "crashed"} THEN step ELSE phase]

(* What is left of the loop it is in: options, or bytes of the reply.      *)
Left == IF phase = "parse" THEN size - reader ELSE Len(options) - i

(* Whatever the options and whatever the reply, no step is taken in vain:  *)
(* it ends the round, or takes it to a later statement, or a turn of a loop*)
(* leaves less to do, and never less than nothing.  Rounds, statements and *)
(* turns being finite in number, requestAndReceiveDhcp and both functions  *)
(* it calls come to an end, once there is a reply: recvfrom's return is a  *)
(* step of the environment, which need not take it.                        *)
StepsWindDown ==
  [][\/ rounds' = rounds + 1
     \/ rounds' = rounds /\ Stage < Stage'
     \/ rounds' = rounds /\ Stage' = Stage /\ Left' \in 0..(Left - 1)]_<<vars, requestVars>>

(* dh_createPacket and dh_parseOptions return, whatever they are given, and*)
(* with them every round; but a request that is never answered waits for   *)
(* ever in recvfrom, and nothing else does.                                *)
Returns ==
  <>[](\/ step \in {"returned", "crashed", "wait"}
       \/ step = "direct" /\ phase = "done")
=============================================================================
