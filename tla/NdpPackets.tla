----------------------------- MODULE NdpPackets -----------------------------
(***************************************************************************)
(* sendRouterAdv, again and again: it constructs four options, has         *)
(* ndp_createRAPacket put them behind a Router Advertisement's header, and *)
(* sends and frees the packet.                                             *)
(*                                                                         *)
(* A packet is a function from offsets to what starts there: the header at *)
(* 0 and the options.                                                      *)
(***************************************************************************)
EXTENDS NdpOptions

CONSTANTS
  Bits,                 \* the bits of a prefix that may be one
  PrefixLengths,
  RoutePrefixLengths,   \* {56} in sendRouterAdv
  Lifetimes,
  MaxAdverts,           \* how many advertisements are sent
  WordMod, Words        \* see Checksum

ASSUME AdvertAssumption ==
  /\ Bits \subseteq 0 .. AddressBytes * 8 - 1
  /\ PrefixLengths \subseteq Byte
  /\ RoutePrefixLengths \subseteq 0..127
  /\ Lifetimes \subseteq Word32
  /\ MaxAdverts \in Nat
  /\ WordMod \in Nat \ 0..1 /\ Words \subseteq 0 .. WordMod - 1

(* Of enum ndp_ra_flag, as sets of bits.                                   *)
ra_flag_O == {6}
ra_flag_Prf_High == {3}
ra_flag_R == 2..7

RaHeaderSize == 16    \* sizeof(struct nd_router_advert)

(* In C, & binds tighter than |.                                           *)
RaHeader == [type |-> 134, code |-> 0, curHopLimit |-> 64, routerLifeTime |-> 1800,
             flags |-> ra_flag_O \cup (ra_flag_Prf_High \cap ra_flag_R)]

(* The blocks that sendRouterAdv has allocated.                            *)
OptionBlocks == {"prefixInfo", "routeInfo", "mtu", "linkAddress"}
Blocks == OptionBlocks \cup {"raPacket"}

VARIABLES
  phase,      \* "idle", "count", "copy", "checksum" or "send"
  prefix,     \* the prefix to advertise
  options,    \* the arguments of ndp_createRAPacket
  i,          \* its loop variable
  length,     \* what it allocates
  offset,     \* where it copies to
  packet,     \* what is in the packet's memory
  heap,       \* how many blocks of each kind there are
  adverts,    \* advertisements sent
  at, left, sum, sumHeader, checksum, residue   \* see Checksum

C == INSTANCE Checksum

summing == <<at, left, sum, sumHeader, checksum, residue>>
message == <<prefix, options, length, packet>>
vars == <<phase, message, i, offset, heap, adverts, summing>>

Init ==
  /\ phase = "idle"
  /\ prefix = {} /\ options = <<>> /\ packet = <<>>
  /\ i = 0 /\ length = 0 /\ offset = 0
  /\ heap = [b \in Blocks |-> 0]
  /\ adverts = 0
  /\ C!Init

Allocate(S) == heap' = [b \in Blocks |-> IF b \in S THEN heap[b] + 1 ELSE heap[b]]
Free(S) == heap' = [b \in Blocks |-> IF b \in S THEN heap[b] - 1 ELSE heap[b]]

-----------------------------------------------------------------------------
Construct ==
  /\ phase = "idle" /\ adverts < MaxAdverts
  /\ prefix' \in SUBSET Bits
  /\ \E n \in PrefixLengths, r \in RoutePrefixLengths, valid \in Lifetimes, preferred \in Lifetimes :
       options' = << createOptionSourceLinkLayerAddress,
                     createOptionPrefixInformation(n, (flag_L \cup flag_A) \cap flag_R, valid, preferred, prefix'),
                     createOptionRouteInformation(r, valid, prefix'),
                     createOptionMtu(<<0, 0, 5, 220>>) >>
  /\ Allocate(OptionBlocks)
  /\ phase' = "count"
  /\ i' = 0
  /\ length' = RaHeaderSize
  /\ packet' = <<>>
  /\ UNCHANGED <<offset, adverts, summing>>

SizeOf(o) == o.length * Unit

(* Mutant of CountOption: the units are counted as bytes.                  *)
CountsUnits ==
  /\ phase = "count" /\ i < Len(options)
  /\ length' = length + options[i + 1].length
  /\ i' = i + 1
  /\ UNCHANGED <<phase, prefix, options, packet, offset, heap, adverts, summing>>

CountOption ==
  /\ phase = "count" /\ i < Len(options)
  /\ length' = length + SizeOf(options[i + 1])
  /\ i' = i + 1
  /\ UNCHANGED <<phase, prefix, options, packet, offset, heap, adverts, summing>>

FillHeader ==
  /\ phase = "count" /\ i = Len(options)
  /\ Allocate({"raPacket"})
  /\ packet' = [n \in {0} |-> RaHeader]
  /\ phase' = "copy"
  /\ i' = 0
  /\ offset' = RaHeaderSize
  /\ UNCHANGED <<prefix, options, length, adverts, summing>>

CopyOption ==
  /\ phase = "copy" /\ i < Len(options)
  /\ packet' = [n \in DOMAIN packet \cup {offset} |->
                  IF n = offset THEN options[i + 1] ELSE packet[n]]
  /\ offset' = offset + SizeOf(options[i + 1])
  /\ i' = i + 1
  /\ UNCHANGED <<phase, prefix, options, length, heap, adverts, summing>>

(* The checksum is computed; what it is only matters if it is negative, and*)
(* the field in the header stays zero.                                     *)
StartChecksum ==
  /\ phase = "copy" /\ i = Len(options)
  /\ phase' = "checksum"
  /\ C!Start
  /\ UNCHANGED <<message, i, offset, heap, adverts>>

ComputeChecksum ==
  /\ phase = "checksum"
  /\ C!Step(length)
  /\ UNCHANGED <<phase, message, i, offset, heap, adverts>>

Return ==
  /\ phase = "checksum" /\ at = "done"
  /\ phase' = "send"
  /\ C!Reset
  /\ UNCHANGED <<message, i, offset, heap, adverts>>

(* Mutants of Send: one option more is forgotten; one is freed twice.      *)
SendKeepsMtu ==
  /\ phase = "send" /\ phase' = "idle" /\ adverts' = adverts + 1
  /\ Free({"prefixInfo", "linkAddress", "raPacket"})
  /\ UNCHANGED <<message, i, offset, summing>>

SendFreesTwice ==
  /\ phase = "send" /\ phase' = "idle" /\ adverts' = adverts + 1
  /\ heap' = [heap EXCEPT !["prefixInfo"] = @ - 2, !["mtu"] = @ - 1,
                          !["linkAddress"] = @ - 1, !["raPacket"] = @ - 1]
  /\ UNCHANGED <<message, i, offset, summing>>

(* sendmsg, whether it fails or not; then everything but routeInfo is freed.*)
Send ==
  /\ phase = "send"
  /\ phase' = "idle"
  /\ adverts' = adverts + 1
  /\ Free(Blocks \ {"routeInfo"})
  /\ UNCHANGED <<message, i, offset, summing>>

-----------------------------------------------------------------------------
Create == CountOption \/ FillHeader \/ CopyOption \/ StartChecksum \/ ComputeChecksum \/ Return

Next == Construct \/ Create \/ Send

Spec == Init /\ [][Next]_vars
-----------------------------------------------------------------------------
OptionRecord ==
  [type : Nat, length : Nat, allocated : Nat, written : Nat, prefixLength : Byte,
   ones : SUBSET Bits, flags : SUBSET (0..7), lifetimes : Seq(Word32)]

(* Offsets, lengths and counts of blocks are numbers, none is freed twice. *)
TypeOK ==
  /\ phase \in {"idle", "count", "copy", "checksum", "send"}
  /\ prefix \in SUBSET Bits
  /\ options \in Seq(OptionRecord)
  /\ i \in 0 .. Len(options)
  /\ {length, offset, adverts} \subseteq Nat
  /\ heap \in [Blocks -> Nat]

(* ndp_createRAPacket counts in one loop and copies in another, by lengths *)
(* the constructors announced: each memcpy reads no further than what the  *)
(* constructor allocated and gave a value, writes inside the packet, and   *)
(* the last one ends where the packet ends.                                *)
CopiesFit ==
  phase = "copy" =>
    IF i = Len(options) THEN offset = length
    ELSE LET o == options[i + 1]
         IN  WellFormed(o) /\ offset + SizeOf(o) <= length

(* A receiver that goes from option to option by their lengths: it finds   *)
(* the options given, the n-th at o[n], and behind the last one the end.   *)
Finds(o) ==
  /\ o[1] = RaHeaderSize
  /\ \A n \in 1 .. Len(options) :
       /\ o[n] \in DOMAIN packet /\ packet[o[n]] = options[n]
       /\ o[n] < o[n + 1] /\ o[n + 1] = o[n] + SizeOf(packet[o[n]])
  /\ o[Len(options) + 1] = length

(* The receiver of an advertisement finds the options that were given, and *)
(* nothing else up to the end; the prefix and the route it reads there are *)
(* those of the caller, as far as their lengths announce them.             *)
ReceiverFindsOptions ==
  phase = "send" =>
    /\ \E o \in [1 .. Len(options) + 1 -> DOMAIN packet \cup {length}] :
         /\ Finds(o)
         /\ \A a \in DOMAIN packet \ {0} : \E n \in 1 .. Len(options) : a = o[n]
    /\ \A n \in 1 .. Len(options) : Announces(options[n], prefix)

(* However many advertisements were sent, what they left allocated is their*)
(* route information options.                                              *)
OnlyRouteInfoLeaks ==
  phase = "idle" => heap = [b \in Blocks |-> IF b = "routeInfo" THEN adverts ELSE 0]

(* See Checksum.                                                           *)
ChecksumLacksLastCarryOnly == C!LacksLastCarryOnly

(* ndp_options.h:83, "The bits in the prefix after the prefix length (if   *)
(* any) are reserved and MUST be initialized to zero by the sender".       *)
NoBitsBehindRoutePrefix ==
  phase = "send" =>
    \A n \in 1 .. Len(options) :
      options[n].type = 24 => \A b \in options[n].ones : b < options[n].prefixLength
=============================================================================
