------------------------------ MODULE DhPackets ------------------------------
(***************************************************************************)
(* DHCPv6 packets: dh_createPacket lays options out one after the other and*)
(* puts their headers in network order; dh_parseOptions walks over them,   *)
(* converts each header in place, and lists the IA_PD options.             *)
(*                                                                         *)
(* A packet is a function from the offset of an option (counted from the   *)
(* end of the four-byte message header) to the header that lies there;     *)
(* option data is not represented.  The parser also runs on packets that   *)
(* come from elsewhere, whose headers may say anything.                    *)
(***************************************************************************)
EXTENDS DhOptions

CONSTANTS
  Codes,         \* option codes
  DataLengths,   \* the lengths of option data
  MaxOptions,    \* the most options dh_createPacket is given
  Sizes,         \* the lengths of received packets
  OutOfMemory    \* whether the allocation of a list node may fail

SOLICIT == 1
ADVERTISE == 2
REPLY == 7

ASSUME PacketAssumption ==
  /\ Codes \subseteq 0..MaxField
  /\ DataLengths \subseteq 0..MaxField
  /\ MaxOptions \in Nat
  /\ Sizes \subseteq Nat
  /\ SizeMod \in Nat
  /\ \A s \in Sizes : s < SizeMod
  /\ SizeMod > HeaderSize + (MaxOptions + 1) * (MaxField + HeaderSize)
  /\ OutOfMemory \in BOOLEAN

Byte == 0..255
Field == Byte \X Byte                          \* a uint16_t, as it lies in memory
Option == [code : Codes, length : DataLengths] \* in host order
AnyOption == [code : 0..MaxField, length : 0..MaxField]
Header == [code : Field, length : Field]

Host(f) == f[1] + 256 * f[2]                   \* its value on a little-endian machine
Stored(v) == <<v % 256, v \div 256>>
be16toh(f) == <<f[2], f[1]>>
htobe16(f) == be16toh(f)

Native(o) == [code |-> Stored(o.code), length |-> Stored(o.length)]
OnWire(o) == [code |-> htobe16(Stored(o.code)), length |-> htobe16(Stored(o.length))]

SizeOf(o) == o.length + HeaderSize

(* Mutant of Minus: as if size_t were signed.                              *)
SignedMinus(a, b) == a - b

(* size_t addition and subtraction.                                        *)
Plus(a, b) == IF a + b < SizeMod THEN a + b ELSE a + b - SizeMod
Minus(a, b) == IF a >= b THEN a - b ELSE a + SizeMod - b

NoOption == -1
NoResult == [success |-> FALSE, ClientIdentifier |-> NoOption,
             ServerIdentifier |-> NoOption, IA_PDList |-> <<>>]

VARIABLES
  phase,         \* "count", "copy", "check", "parse" or "done"
  options,       \* the arguments of dh_createPacket
  i,             \* its loop variable
  length,        \* what it allocates
  optionOffset,  \* where it copies to
  packet,        \* the option headers in the packet's memory
  msgType,
  size,          \* the length given to dh_parseOptions
  reader,        \* readerPtr, as an offset from the first option
  unread,        \* unreadDataLength
  result         \* what dh_parseOptions returns

creator == <<options, i, length, optionOffset>>
parser == <<reader, unread, result>>
vars == <<phase, creator, packet, msgType, size, parser>>

(* A packet to create and parse, or one received.                          *)
Init ==
  /\ i = 0
  /\ length = HeaderSize
  /\ optionOffset = 0
  /\ packet = <<>>
  /\ msgType \in {SOLICIT, ADVERTISE, REPLY}
  /\ reader = 0
  /\ unread = 0
  /\ result = NoResult
  /\ \/ /\ phase = "count"
        /\ options \in UNION {[1..n -> Option] : n \in 0..MaxOptions}
        /\ size = 0
     \/ /\ phase = "check"
        /\ options = <<>>
        /\ size \in Sizes

-----------------------------------------------------------------------------
(* dh_createPacket.                                                        *)

(* Mutant of CountOption: the option's own header is not counted.          *)
CountsData ==
  /\ phase = "count" /\ i < Len(options)
  /\ length' = Plus(length, options[i + 1].length)
  /\ i' = i + 1
  /\ UNCHANGED <<phase, options, optionOffset, packet, msgType, size, parser>>

CountOption ==
  /\ phase = "count" /\ i < Len(options)
  /\ length' = Plus(length, SizeOf(options[i + 1]))
  /\ i' = i + 1
  /\ UNCHANGED <<phase, options, optionOffset, packet, msgType, size, parser>>

Allocate ==
  /\ phase = "count" /\ i = Len(options)
  /\ phase' = "copy"
  /\ i' = 0
  /\ UNCHANGED <<options, length, optionOffset, packet, msgType, size, parser>>

(* Mutant of CopyOption: the length stays in host order.                   *)
CopiesHostLength ==
  /\ phase = "copy" /\ i < Len(options)
  /\ LET o == options[i + 1] IN
       /\ packet' = [n \in DOMAIN packet \cup {optionOffset} |->
                       IF n = optionOffset THEN [OnWire(o) EXCEPT !.length = Stored(o.length)]
                       ELSE packet[n]]
       /\ optionOffset' = Plus(optionOffset, SizeOf(o))
  /\ i' = i + 1
  /\ UNCHANGED <<phase, options, length, msgType, size, parser>>

CopyOption ==
  /\ phase = "copy" /\ i < Len(options)
  /\ LET o == options[i + 1] IN
       /\ packet' = [n \in DOMAIN packet \cup {optionOffset} |->
                       IF n = optionOffset THEN OnWire(o) ELSE packet[n]]
       /\ optionOffset' = Plus(optionOffset, SizeOf(o))
  /\ i' = i + 1
  /\ UNCHANGED <<phase, options, length, msgType, size, parser>>

(* What was created is given to dh_parseOptions as it is.                  *)
Deliver ==
  /\ phase = "copy" /\ i = Len(options)
  /\ phase' = "check"
  /\ size' = length
  /\ UNCHANGED <<creator, packet, msgType, parser>>

-----------------------------------------------------------------------------
(* dh_parseOptions.                                                        *)

Finish(r) == phase' = "done" /\ result' = r

(* A packet without options, or of another type, is refused; the length of *)
(* one shorter than the message header wraps around.                       *)
CheckPacket ==
  /\ phase = "check"
  /\ unread' = Minus(size, HeaderSize)
  /\ \/ /\ unread' = 0 \/ msgType \notin {ADVERTISE, REPLY}
        /\ Finish(NoResult)
     \/ /\ unread' # 0 /\ msgType \in {ADVERTISE, REPLY}
        /\ phase' = "parse"
        /\ UNCHANGED result
  /\ UNCHANGED <<creator, packet, msgType, size, reader>>

(* The header under readerPtr: what was stored there, or anything.         *)
HeadersAt(n) == IF n \in DOMAIN packet THEN {packet[n]} ELSE {OnWire(o) : o \in Option}

(* Each IA_PD goes to the end of the list, if a node can be allocated.     *)
Note(r, code) ==
  CASE code = CLIENTID -> {[r EXCEPT !.ClientIdentifier = reader]}
    [] code = SERVERID -> {[r EXCEPT !.ServerIdentifier = reader]}
    [] code = IA_PD    -> {[r EXCEPT !.success = FALSE, !.IA_PDList = Append(@, reader)]}
                          \cup (IF OutOfMemory THEN {[r EXCEPT !.success = FALSE]} ELSE {})
    [] OTHER           -> {r}

(* Mutant of NextOption: no bound on readerPtr.                            *)
NextOptionUnbounded(r, n) ==
  /\ unread' = Minus(unread, n)
  /\ reader' = IF unread' = 0 THEN reader ELSE reader + n
  /\ \/ unread' = 0 /\ Finish([r EXCEPT !.success = TRUE])
     \/ unread' # 0 /\ result' = r /\ UNCHANGED phase

(* The end of the loop's body, for an option that takes n bytes.           *)
NextOption(r, n) ==
  /\ unread' = Minus(unread, n)
  /\ reader' = IF unread' = 0 THEN reader ELSE reader + n
  /\ \/ /\ unread' = 0 \/ HeaderSize + reader' > size
        /\ Finish([r EXCEPT !.success = TRUE])
     \/ /\ unread' # 0 /\ HeaderSize + reader' <= size
        /\ result' = r
        /\ UNCHANGED phase

(* Mutant of ParseOption: it advances by the option's data alone.          *)
ParseAdvancesData ==
  /\ phase = "parse"
  /\ \E h \in HeadersAt(reader) :
       LET code == be16toh(h.code)
           len  == be16toh(h.length)
       IN /\ packet' = [n \in DOMAIN packet \cup {reader} |->
                          IF n = reader THEN [code |-> code, length |-> len] ELSE packet[n]]
          /\ \E r \in Note(result, Host(code)) : NextOption(r, Host(len))
  /\ UNCHANGED <<creator, msgType, size>>

ParseOption ==
  /\ phase = "parse"
  /\ \E h \in HeadersAt(reader) :
       LET code == be16toh(h.code)
           len  == be16toh(h.length)
       IN /\ packet' = [n \in DOMAIN packet \cup {reader} |->
                          IF n = reader THEN [code |-> code, length |-> len] ELSE packet[n]]
          /\ \E r \in Note(result, Host(code)) : NextOption(r, Host(len) + HeaderSize)
  /\ UNCHANGED <<creator, msgType, size>>

-----------------------------------------------------------------------------

Create == CountOption \/ Allocate \/ CopyOption \/ Deliver

Next == Create \/ CheckPacket \/ ParseOption

Spec == Init /\ [][Next]_vars
-----------------------------------------------------------------------------
(* Offsets and lengths are numbers, headers are pairs of two-byte fields.  *)
TypeOK ==
  /\ phase \in {"count", "copy", "check", "parse", "done"}
  /\ options \in Seq(AnyOption)
  /\ i \in 0..Len(options)
  /\ {length, optionOffset, size, unread} \subseteq 0..(SizeMod - 1)
  /\ DOMAIN packet \subseteq Nat
  /\ \A n \in DOMAIN packet : packet[n] \in Header
  /\ msgType \in {SOLICIT, ADVERTISE, REPLY}
  /\ reader \in Nat
  /\ result \in [success : BOOLEAN, ClientIdentifier : Nat \cup {NoOption},
                 ServerIdentifier : Nat \cup {NoOption}, IA_PDList : Seq(Nat)]

(* dh_createPacket counts in one loop and copies in another: the copies    *)
(* stay inside what was counted, and fill it.                              *)
CopyFillsPacket ==
  phase = "copy" =>
    IF i = Len(options) THEN HeaderSize + optionOffset = length
    ELSE HeaderSize + optionOffset + SizeOf(options[i + 1]) <= length

(* Option n of the created packet lies at o[n]; behind the last is the end.*)
LaysOut(o) ==
  /\ o[1] = 0
  /\ \A n \in 1..Len(options) : o[n + 1] = o[n] + SizeOf(options[n])
  /\ size = HeaderSize + o[Len(options) + 1]

(* x points to the last of the first k options that has the code.          *)
Identifies(x, code, o, k) ==
  \/ x = NoOption /\ \A n \in 1..k : options[n].code # code
  \/ \E n \in 1..k : /\ x = o[n] /\ options[n].code = code
                     /\ \A m \in n + 1 .. k : options[m].code # code

(* The list holds IA_PD options among the first k, in their order, and all *)
(* of them unless memory is short.                                         *)
Lists(list, o, k) ==
  /\ \A m \in DOMAIN list : \E n \in 1..k : options[n].code = IA_PD /\ list[m] = o[n]
  /\ \A l, m \in DOMAIN list : l < m => list[l] < list[m]
  /\ OutOfMemory \/ \A n \in 1..k :
       options[n].code = IA_PD => \E m \in DOMAIN list : list[m] = o[n]

(* The first k options have been parsed, and no other.                     *)
Parsed(o, k) ==
  /\ \A n \in 1..Len(options) :
       packet[o[n]] = IF n <= k THEN Native(options[n]) ELSE OnWire(options[n])
  /\ Identifies(result.ClientIdentifier, CLIENTID, o, k)
  /\ Identifies(result.ServerIdentifier, SERVERID, o, k)
  /\ Lists(result.IA_PDList, o, k)

(* What dh_parseOptions makes of what dh_createPacket wrote: every header  *)
(* is in host order, converted once, and nothing else is taken for one; the*)
(* IA_PD options are listed in order; an identifier that occurs twice is   *)
(* the last one.  Where memory is short some are missing from the list, and*)
(* the others keep their order.  A message other than dh_ADVERTISE and     *)
(* dh_REPLY is left as it was.                                             *)
RoundTrip ==
  phase = "done" /\ options # <<>> =>
    \E o \in [1..Len(options) + 1 -> DOMAIN packet \cup {size - HeaderSize}] :
      /\ LaysOut(o)
      /\ \A a \in DOMAIN packet : \E n \in 1..Len(options) : a = o[n]
      /\ IF msgType = SOLICIT
         THEN result = NoResult /\ Parsed(o, 0)
         ELSE result.success /\ Parsed(o, Len(options))

(* unreadDataLength is unsigned, so its test against zero misses an option *)
(* that claims more than is left; the test of readerPtr does not.  Every   *)
(* header but the first of a packet shorter than its own header starts     *)
(* inside the packet (it may still end outside).                           *)
HeadersStartInside ==
  phase = "parse" =>
    \/ HeaderSize + reader < size
    \/ size < HeaderSize /\ reader = 0

(* In a packet that dh_createPacket made every header ends inside, too,    *)
(* whatever the lengths of its options: only a packet from elsewhere has   *)
(* the parser convert bytes that lie behind its end.                       *)
CreatedHeadersInside ==
  phase = "parse" /\ options # <<>> => HeaderSize + reader + HeaderSize <= size

(* The offsets that result r has under a code.                             *)
Noted(r, code) ==
  CASE code = CLIENTID -> {r.ClientIdentifier} \ {NoOption}
    [] code = SERVERID -> {r.ServerIdentifier} \ {NoOption}
    [] code = IA_PD    -> {r.IA_PDList[m] : m \in DOMAIN r.IA_PDList}

(* Whatever the packet, and however the walk over it ends: what the caller *)
(* is pointed to are options that were read, begin inside the packet and   *)
(* still bear the code they are noted for (no header is converted twice);  *)
(* and no IA_PD is listed twice.                                           *)
NotedOptionsRead ==
  /\ \A code \in {CLIENTID, SERVERID, IA_PD} : \A n \in Noted(result, code) :
       /\ n \in DOMAIN packet /\ Host(packet[n].code) = code
       /\ HeaderSize + n < size \/ (size < HeaderSize /\ n = 0)
  /\ \A l, m \in DOMAIN result.IA_PDList :
       l < m => result.IA_PDList[l] < result.IA_PDList[m]
=============================================================================
