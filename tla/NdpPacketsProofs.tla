-------------------------- MODULE NdpPacketsProofs --------------------------
(***************************************************************************)
(* Router Advertisements for any prefix, any lifetimes and any length of a *)
(* prefix or route: what is copied fits, what stays allocated, and what is *)
(* wrong with the checksum.                                                *)
(***************************************************************************)
EXTENDS NdpPackets, TLAPS

(* The end of the n-th of four options.                                    *)
Before(n) == IF options[n].length \in Nat THEN SizeOf(options[n]) ELSE 0
End(n) == RaHeaderSize + (IF n >= 1 THEN Before(1) ELSE 0) + (IF n >= 2 THEN Before(2) ELSE 0)
                       + (IF n >= 3 THEN Before(3) ELSE 0) + (IF n >= 4 THEN Before(4) ELSE 0)

(* Four options, and each is what it announces.                            *)
Given ==
  phase # "idle" =>
    /\ DOMAIN options = 1..4 /\ Len(options) = 4
    /\ \A n \in 1..4 : options[n].length \in Nat /\ WellFormed(options[n])

(* The counting loop and the copying loop add up the same lengths.         *)
Sums ==
  /\ phase = "count" => i \in 0..4 /\ length = End(i)
  /\ phase = "copy" => i \in 0..4 /\ length = End(4) /\ offset = End(i)

FitInv == Given /\ Sums

LEMMA RouteIsWellFormed ==
  ASSUME NEW r \in RoutePrefixLengths, NEW t, NEW S
  PROVE  /\ createOptionRouteInformation(r, t, S).length \in Nat
         /\ WellFormed(createOptionRouteInformation(r, t, S))
<1> DEFINE o == createOptionRouteInformation(r, t, S)
           units == PrefixUnits(r)
<1>1. units \in Nat
  <2>1. r \in 0..127
    BY AdvertAssumption
  <2> QED BY <2>1 DEF PrefixUnits
<1>2. /\ o.length = 1 + units /\ o.allocated = (1 + units) * 8
      /\ o.written = 8 + units * 8
  BY DEF createOptionRouteInformation, Plain, Unit, ndp_optOffset, ndp_opt_RouteInformation
<1> HIDE DEF o, units
<1>3. o.length \in Nat /\ WellFormed(o)
  BY <1>1, <1>2 DEF WellFormed, Unit
<1> QED BY <1>3 DEF o

LEMMA OthersAreWellFormed ==
  ASSUME NEW n, NEW f, NEW valid, NEW preferred, NEW S, NEW mtu
  PROVE  \A o \in {createOptionSourceLinkLayerAddress, createOptionMtu(mtu),
                   createOptionPrefixInformation(n, f, valid, preferred, S)} :
           o.length \in Nat /\ WellFormed(o)
<1> USE DEF Plain, Unit, ndp_optOffset
<1>1. /\ createOptionSourceLinkLayerAddress.length = 1
      /\ createOptionSourceLinkLayerAddress.allocated = 8
      /\ createOptionSourceLinkLayerAddress.written = 8
  BY DEF createOptionSourceLinkLayerAddress, createOptionLinkLayerAddressCore, ndp_opt_LinkLayerAddress
<1>2. /\ createOptionMtu(mtu).length = 1
      /\ createOptionMtu(mtu).allocated = 8 /\ createOptionMtu(mtu).written = 8
  BY DEF createOptionMtu, ndp_opt_Mtu
<1> DEFINE o == createOptionPrefixInformation(n, f, valid, preferred, S)
<1>3. o.length = 4 /\ o.allocated = 32 /\ o.written = 32
  BY DEF createOptionPrefixInformation, ndp_opt_PrefixInformation, AddressBytes
<1> HIDE DEF o
<1> QED BY <1>1, <1>2, <1>3 DEF WellFormed, o

LEMMA ConstructFits ==
  ASSUME Construct
  PROVE  FitInv'
<1>1. PICK n \in PrefixLengths, r \in RoutePrefixLengths, valid \in Lifetimes, preferred \in Lifetimes :
        options' = << createOptionSourceLinkLayerAddress,
                      createOptionPrefixInformation(n, (flag_L \cup flag_A) \cap flag_R, valid, preferred, prefix'),
                      createOptionRouteInformation(r, valid, prefix'),
                      createOptionMtu(<<0, 0, 5, 220>>) >>
  BY DEF Construct
<1> DEFINE a == createOptionSourceLinkLayerAddress
           b == createOptionPrefixInformation(n, (flag_L \cup flag_A) \cap flag_R, valid, preferred, prefix')
           c == createOptionRouteInformation(r, valid, prefix')
           d == createOptionMtu(<<0, 0, 5, 220>>)
<1>2. \A o \in {a, b, c, d} : o.length \in Nat /\ WellFormed(o)
  BY RouteIsWellFormed, OthersAreWellFormed
<1>3. options' = <<a, b, c, d>>
  BY <1>1
<1> HIDE DEF a, b, c, d
<1>4. DOMAIN options' = 1..4 /\ Len(options') = 4
  BY <1>3
<1>5. \A m \in 1..4 : options'[m].length \in Nat /\ WellFormed(options'[m])
  BY <1>2, <1>3
<1>6. phase' = "count" /\ i' = 0 /\ length' = RaHeaderSize
  BY DEF Construct
<1> QED BY <1>4, <1>5, <1>6 DEF FitInv, Given, Sums, End, RaHeaderSize

(* The next option ends where its size says.                               *)
LEMMA EndNext ==
  ASSUME Given, phase # "idle", NEW n \in 0..3
  PROVE  /\ End(n + 1) = End(n) + SizeOf(options[n + 1])
         /\ End(n + 1) <= End(4)
         /\ n + 1 \in 1..4
<1> DEFINE a == Before(1) b == Before(2) c == Before(3) d == Before(4)
<1>1. /\ a = SizeOf(options[1]) /\ b = SizeOf(options[2])
      /\ c = SizeOf(options[3]) /\ d = SizeOf(options[4])
  BY DEF Given, Before
<1>2. a \in Nat /\ b \in Nat /\ c \in Nat /\ d \in Nat
  <2>1. \A m \in 1..4 : options[m].length \in Nat
    BY DEF Given
  <2> QED BY <2>1 DEF Before, SizeOf, Unit
<1>3. /\ End(0) = 16 /\ End(1) = 16 + a /\ End(2) = 16 + a + b
      /\ End(3) = 16 + a + b + c /\ End(4) = 16 + a + b + c + d
  <2> HIDE DEF a, b, c, d
  <2>1. \A m \in 0..4 : End(m) = 16 + (IF m >= 1 THEN a ELSE 0) + (IF m >= 2 THEN b ELSE 0)
                                    + (IF m >= 3 THEN c ELSE 0) + (IF m >= 4 THEN d ELSE 0)
    BY DEF End, RaHeaderSize, a, b, c, d
  <2> QED BY <1>2, <2>1
<1> HIDE DEF a, b, c, d
<1>4. n = 0 \/ n = 1 \/ n = 2 \/ n = 3
  OBVIOUS
<1> QED BY <1>1, <1>2, <1>3, <1>4

LEMMA CreateFits ==
  ASSUME FitInv, Create
  PROVE  FitInv'
<1>1. CASE CountOption
  <2> DEFINE size == SizeOf(options[i + 1])
             bound == Len(options)
  <2>0. phase = "count" /\ i < bound /\ i' = i + 1 /\ length' = length + size
        /\ UNCHANGED <<phase, options>>
    BY <1>1 DEF CountOption
  <2>1. /\ phase = "count" /\ i \in 0..3 /\ i' = i + 1 /\ length' = length + size
        /\ UNCHANGED <<phase, options>>
    <3>1. bound = 4
      BY <2>0 DEF FitInv, Given
    <3> HIDE DEF size, bound
    <3>2. i \in 0..4
      BY <2>0 DEF FitInv, Sums
    <3> QED BY <2>0, <3>1, <3>2
  <2>2. \A n : End(n)' = End(n)
    BY <2>1 DEF End, Before
  <2>3. length' = End(i') /\ i' \in 0..4
    BY <2>1, EndNext DEF FitInv, Sums
  <2> QED BY <2>1, <2>2, <2>3 DEF FitInv, Given, Sums
<1>2. CASE FillHeader
  <2>1. phase = "count" /\ i = 4 /\ phase' = "copy" /\ i' = 0 /\ offset' = RaHeaderSize
        /\ UNCHANGED <<options, length>>
    BY <1>2 DEF FillHeader, FitInv, Given
  <2>2. \A n : End(n)' = End(n)
    BY <2>1 DEF End, Before
  <2>3. End(0) = RaHeaderSize
    BY DEF End, RaHeaderSize
  <2> QED BY <2>1, <2>2, <2>3 DEF FitInv, Given, Sums
<1>3. CASE CopyOption
  <2> DEFINE size == SizeOf(options[i + 1])
             bound == Len(options)
  <2>0. phase = "copy" /\ i < bound /\ i' = i + 1 /\ offset' = offset + size
        /\ UNCHANGED <<phase, options, length>>
    BY <1>3 DEF CopyOption
  <2>1. /\ phase = "copy" /\ i \in 0..3 /\ i' = i + 1 /\ offset' = offset + size
        /\ UNCHANGED <<phase, options, length>>
    <3>1. bound = 4
      BY <2>0 DEF FitInv, Given
    <3> HIDE DEF size, bound
    <3>2. i \in 0..4
      BY <2>0 DEF FitInv, Sums
    <3> QED BY <2>0, <3>1, <3>2
  <2>2. \A n : End(n)' = End(n)
    BY <2>1 DEF End, Before
  <2>3. offset' = End(i') /\ i' \in 0..4
    BY <2>1, EndNext DEF FitInv, Sums
  <2> QED BY <2>1, <2>2, <2>3 DEF FitInv, Given, Sums
<1>4. CASE StartChecksum \/ ComputeChecksum \/ Return
  <2>1. phase' \in {"checksum", "send"} /\ phase # "idle" /\ UNCHANGED options
    BY <1>4 DEF StartChecksum, ComputeChecksum, Return, message
  <2> QED BY <2>1 DEF FitInv, Given, Sums
<1> QED BY <1>1, <1>2, <1>3, <1>4 DEF Create

LEMMA FitInvariant == Spec => []FitInv
<1>1. Init => FitInv
  BY DEF Init, FitInv, Given, Sums
<1>2. FitInv /\ [Next]_vars => FitInv'
  <2> SUFFICES ASSUME FitInv, [Next]_vars PROVE FitInv'
    OBVIOUS
  <2>1. CASE Send
    BY <2>1 DEF Send, FitInv, Given, Sums
  <2>2. CASE UNCHANGED vars
    BY <2>2 DEF vars, message, FitInv, Given, Sums, End, Before
  <2> QED BY <2>1, <2>2, ConstructFits, CreateFits DEF Next
<1> QED BY <1>1, <1>2, PTL DEF Spec

(* Each option is copied inside the packet and from inside its block, and  *)
(* the options fill the packet, for prefixes and routes of every length.   *)
THEOREM AdvertisementsFit == Spec => []CopiesFit
<1>1. FitInv => CopiesFit
  <2> SUFFICES ASSUME FitInv, phase = "copy" PROVE CopiesFit
    BY DEF CopiesFit
  <2>1. i \in 0..4 /\ length = End(4) /\ offset = End(i) /\ Len(options) = 4
    BY DEF FitInv, Given, Sums
  <2>2. CASE i = 4
    BY <2>1, <2>2 DEF CopiesFit
  <2>3. CASE i \in 0..3
    <3>1. offset + SizeOf(options[i + 1]) <= length /\ i + 1 \in 1..4
      BY <2>1, <2>3, EndNext DEF FitInv
    <3> QED BY <2>1, <2>3, <3>1 DEF CopiesFit, FitInv, Given
  <2> QED BY <2>1, <2>2, <2>3
<1> QED BY <1>1, FitInvariant, PTL

-----------------------------------------------------------------------------
(* What a receiver finds.                                                  *)

(* The first k options lie one behind the other, behind the header.        *)
Laid(k) ==
  /\ DOMAIN packet = {0} \cup {End(m) : m \in 0 .. k - 1}
  /\ \A m \in 0 .. k - 1 : packet[End(m)] = options[m + 1]

PacketInv ==
  /\ phase # "idle" => \A n \in 1..4 : options[n].length >= 1 /\ Announces(options[n], prefix)
  /\ phase = "copy" => Laid(i)
  /\ phase \in {"checksum", "send"} => length = End(4) /\ Laid(4)

(* A route's units hold all bits its length announces.                     *)
LEMMA RouteAnnounces ==
  ASSUME NEW r \in RoutePrefixLengths, NEW t, NEW S
  PROVE  /\ createOptionRouteInformation(r, t, S).length >= 1
         /\ Announces(createOptionRouteInformation(r, t, S), S)
<1> DEFINE o == createOptionRouteInformation(r, t, S)
           units == PrefixUnits(r)
<1>1. r \in 0..127
  BY AdvertAssumption
<1>2. units \in Nat /\ r <= units * 64
  BY <1>1 DEF PrefixUnits
<1>3. /\ o.length = 1 + units /\ o.prefixLength = r
      /\ o.ones = {b \in S : b < units * 64}
  <2>1. o.length = 1 + units /\ o.prefixLength = r /\ o.ones = {b \in S : b < units * Unit * 8}
    BY DEF createOptionRouteInformation, Plain
  <2>2. units * Unit * 8 = units * 64
    BY <1>2 DEF Unit
  <2> QED BY <2>1, <2>2
<1> HIDE DEF o, units
<1>4. \A b \in 0 .. r - 1 : b < units * 64
  BY <1>1, <1>2
<1>5. o.length >= 1 /\ Announces(o, S)
  BY <1>2, <1>3, <1>4 DEF Announces
<1> QED BY <1>5 DEF o

LEMMA OthersAnnounce ==
  ASSUME NEW n, NEW f, NEW valid, NEW preferred, NEW S, NEW mtu
  PROVE  \A o \in {createOptionSourceLinkLayerAddress, createOptionMtu(mtu),
                   createOptionPrefixInformation(n, f, valid, preferred, S)} :
           o.length >= 1 /\ Announces(o, S)
<1>1. /\ createOptionSourceLinkLayerAddress.length = 1
      /\ createOptionSourceLinkLayerAddress.prefixLength = 0
  BY DEF createOptionSourceLinkLayerAddress, createOptionLinkLayerAddressCore, Plain
<1>2. createOptionMtu(mtu).length = 1 /\ createOptionMtu(mtu).prefixLength = 0
  BY DEF createOptionMtu, Plain
<1> DEFINE o == createOptionPrefixInformation(n, f, valid, preferred, S)
<1>3. o.length = 4 /\ o.ones = S
  BY DEF createOptionPrefixInformation, Plain
<1> HIDE DEF o
<1>4. Announces(o, S)
  BY <1>3 DEF Announces
<1>5. \A q : q.prefixLength = 0 => Announces(q, S)
  BY DEF Announces
<1> QED BY <1>1, <1>2, <1>3, <1>4, <1>5 DEF o

LEMMA ConstructPacket == ASSUME Construct PROVE PacketInv'
<1>1. PICK n \in PrefixLengths, r \in RoutePrefixLengths, valid \in Lifetimes, preferred \in Lifetimes :
        options' = << createOptionSourceLinkLayerAddress,
                      createOptionPrefixInformation(n, (flag_L \cup flag_A) \cap flag_R, valid, preferred, prefix'),
                      createOptionRouteInformation(r, valid, prefix'),
                      createOptionMtu(<<0, 0, 5, 220>>) >>
  BY DEF Construct
<1> DEFINE a == createOptionSourceLinkLayerAddress
           b == createOptionPrefixInformation(n, (flag_L \cup flag_A) \cap flag_R, valid, preferred, prefix')
           c == createOptionRouteInformation(r, valid, prefix')
           d == createOptionMtu(<<0, 0, 5, 220>>)
<1>2. \A o \in {a, b, c, d} : o.length >= 1 /\ Announces(o, prefix')
  BY RouteAnnounces, OthersAnnounce
<1>3. options' = <<a, b, c, d>>
  BY <1>1
<1> HIDE DEF a, b, c, d
<1>4. \A m \in 1..4 : options'[m].length >= 1 /\ Announces(options'[m], prefix')
  BY <1>2, <1>3
<1>5. phase' = "count"
  BY DEF Construct
<1> QED BY <1>4, <1>5 DEF PacketInv, Announces

(* No option has the size zero, so that no two have the same offset.       *)
LEMMA EndsApart ==
  ASSUME FitInv, PacketInv, phase # "idle"
  PROVE  /\ \A n \in 0..4 : End(n) \in Nat /\ End(n) > 0
         /\ \A m, n \in 0..4 : m < n => End(m) < End(n)
<1>1. \A n \in 1..4 : SizeOf(options[n]) \in Nat /\ SizeOf(options[n]) > 0
  <2> SUFFICES ASSUME NEW n \in 1..4 PROVE SizeOf(options[n]) \in Nat /\ SizeOf(options[n]) > 0
    OBVIOUS
  <2>1. options[n].length \in Nat /\ options[n].length >= 1
    BY DEF FitInv, Given, PacketInv
  <2> QED BY <2>1 DEF SizeOf, Unit
<1>2. /\ End(1) = End(0) + SizeOf(options[1]) /\ End(2) = End(1) + SizeOf(options[2])
      /\ End(3) = End(2) + SizeOf(options[3]) /\ End(4) = End(3) + SizeOf(options[4])
  <2>1. \A n \in 0..3 : End(n + 1) = End(n) + SizeOf(options[n + 1])
    BY EndNext DEF FitInv
  <2>2. 0 + 1 = 1 /\ 1 + 1 = 2 /\ 2 + 1 = 3 /\ 3 + 1 = 4
    OBVIOUS
  <2> QED BY <2>1, <2>2
<1>3. End(0) = 16
  BY DEF End, RaHeaderSize
<1>4. \A n \in 0..4 : n = 0 \/ n = 1 \/ n = 2 \/ n = 3 \/ n = 4
  OBVIOUS
<1> DEFINE a == SizeOf(options[1]) b == SizeOf(options[2])
           c == SizeOf(options[3]) d == SizeOf(options[4])
<1>5. /\ a \in Nat /\ a > 0 /\ b \in Nat /\ b > 0
      /\ c \in Nat /\ c > 0 /\ d \in Nat /\ d > 0
  BY <1>1
<1>6. /\ End(0) = 16 /\ End(1) = 16 + a /\ End(2) = 16 + a + b
      /\ End(3) = 16 + a + b + c /\ End(4) = 16 + a + b + c + d
  BY <1>2, <1>3
<1> HIDE DEF a, b, c, d
<1> QED BY <1>4, <1>5, <1>6

(* What lies where depends on nothing but the options and the packet.      *)
LEMMA LaidKept ==
  ASSUME UNCHANGED <<options, packet>>
  PROVE  /\ \A n : End(n)' = End(n)
         /\ \A k : Laid(k) => Laid(k)'
<1>1. \A n : End(n)' = End(n)
  BY DEF End, Before
<1>2. ASSUME NEW k, Laid(k) PROVE Laid(k)'
  BY <1>1, <1>2 DEF Laid
<1> QED BY <1>1, <1>2

LEMMA PacketStep == ASSUME FitInv, PacketInv, [Next]_vars PROVE PacketInv'
<1>1. CASE Construct
  BY <1>1, ConstructPacket
<1>2. CASE CountOption
  BY <1>2 DEF CountOption, PacketInv, Announces
<1>3. CASE FillHeader
  <2>1. /\ phase = "count" /\ phase' = "copy" /\ i' = 0 /\ packet' = [n \in {0} |-> RaHeader]
        /\ UNCHANGED <<prefix, options>>
    BY <1>3 DEF FillHeader
  <2>2. 0 .. i' - 1 = {}
    BY <2>1
  <2>3. Laid(i)'
    BY <2>1, <2>2 DEF Laid
  <2> QED BY <2>1, <2>3 DEF PacketInv
<1>4. CASE CopyOption
  <2>1. /\ phase = "copy" /\ i' = i + 1 /\ i < Len(options) /\ UNCHANGED <<phase, prefix, options, length>>
        /\ packet' = [n \in DOMAIN packet \cup {offset} |->
                        IF n = offset THEN options[i + 1] ELSE packet[n]]
    BY <1>4 DEF CopyOption
  <2>2. i \in 0..3 /\ offset = End(i) /\ Laid(i)
    <3>1. i \in 0..4 /\ offset = End(i) /\ Laid(i)
      BY <2>1 DEF FitInv, Sums, PacketInv
    <3>2. Len(options) = 4
      BY <2>1 DEF FitInv, Given
    <3> QED BY <2>1, <3>1, <3>2
  <2>3. \A n : End(n)' = End(n)
    BY <2>1 DEF End, Before
  <2>4. 0 .. i' - 1 = (0 .. i - 1) \cup {i}
    BY <2>1, <2>2
  <2>5. \A m \in 0 .. i - 1 : End(m) # End(i)
    <3>1. \A m \in 0 .. i - 1 : m \in 0..4 /\ m < i
      BY <2>2
    <3>2. i \in 0..4
      BY <2>2
    <3> QED BY <2>1, <3>1, <3>2, EndsApart
  <2>6. DOMAIN packet' = {0} \cup {End(m) : m \in 0 .. i' - 1}
    BY <2>1, <2>2, <2>4 DEF Laid
  <2>7. \A m \in 0 .. i' - 1 : packet'[End(m)] = options[m + 1]
    <3>1. packet'[End(i)] = options[i + 1]
      BY <2>1, <2>2
    <3>2. \A m \in 0 .. i - 1 : packet'[End(m)] = options[m + 1]
      BY <2>1, <2>2, <2>5 DEF Laid
    <3> QED BY <2>4, <3>1, <3>2
  <2>8. Laid(i)'
    BY <2>1, <2>3, <2>6, <2>7 DEF Laid
  <2> QED BY <2>1, <2>8 DEF PacketInv
<1>5. CASE StartChecksum
  <2>1. phase = "copy" /\ i = Len(options) /\ phase' = "checksum" /\ UNCHANGED message
    BY <1>5 DEF StartChecksum
  <2>2. i = 4 /\ length = End(4) /\ Laid(4)
    BY <2>1 DEF FitInv, Given, Sums, PacketInv
  <2>3. length' = End(4)' /\ Laid(4)'
    BY <2>1, <2>2, LaidKept DEF message
  <2> QED BY <2>1, <2>3 DEF PacketInv, message
<1>6. CASE ComputeChecksum \/ Return
  <2>1. phase = "checksum" /\ phase' \in {"checksum", "send"} /\ UNCHANGED message
    BY <1>6 DEF ComputeChecksum, Return
  <2>2. length' = End(4)' /\ Laid(4)'
    BY <2>1, LaidKept DEF PacketInv, message
  <2> QED BY <2>1, <2>2 DEF PacketInv, message
<1>7. CASE Send
  BY <1>7 DEF Send, PacketInv
<1>8. CASE UNCHANGED vars
  BY <1>8 DEF vars, message, PacketInv, Laid, End, Before
<1> QED BY <1>1, <1>2, <1>3, <1>4, <1>5, <1>6, <1>7, <1>8 DEF Next, Create

LEMMA PacketIsFound == ASSUME FitInv, PacketInv PROVE ReceiverFindsOptions
<1> SUFFICES ASSUME phase = "send" PROVE ReceiverFindsOptions
  BY DEF ReceiverFindsOptions
<1>1. Len(options) = 4 /\ length = End(4) /\ Laid(4)
  BY DEF FitInv, Given, PacketInv
<1> DEFINE o == [n \in 1..5 |-> End(n - 1)]
<1>2. \A n \in 1..4 : /\ o[n] = End(n - 1) /\ o[n] \in DOMAIN packet /\ packet[o[n]] = options[n]
                      /\ o[n] < o[n + 1] /\ o[n + 1] = o[n] + SizeOf(options[n])
  <2> SUFFICES ASSUME NEW n \in 1..4
               PROVE  /\ o[n] = End(n - 1) /\ o[n] \in DOMAIN packet /\ packet[o[n]] = options[n]
                      /\ o[n] < o[n + 1] /\ o[n + 1] = o[n] + SizeOf(options[n])
    OBVIOUS
  <2>1. /\ n - 1 \in 0..3 /\ n - 1 \in 0 .. 4 - 1 /\ (n - 1) + 1 = n /\ (n + 1) - 1 = n
        /\ n \in 1..5 /\ n + 1 \in 1..5 /\ n - 1 < n /\ n - 1 \in 0..4 /\ n \in 0..4
    OBVIOUS
  <2>2. o[n] = End(n - 1) /\ o[n + 1] = End(n)
    BY <2>1
  <2>3. End(n - 1) \in DOMAIN packet /\ packet[End(n - 1)] = options[n]
    BY <1>1, <2>1 DEF Laid
  <2>4. End(n - 1) < End(n)
    BY <2>1, EndsApart
  <2>5. End(n) = End(n - 1) + SizeOf(options[n])
    BY <2>1, EndNext DEF FitInv
  <2> QED BY <2>2, <2>3, <2>4, <2>5
<1>3. o[1] = RaHeaderSize /\ o[5] = length
  <2>1. o[1] = End(0) /\ o[5] = End(4)
    OBVIOUS
  <2>2. End(0) = RaHeaderSize
    BY DEF End, RaHeaderSize
  <2> QED BY <1>1, <2>1, <2>2
<1>4. o \in [1..5 -> DOMAIN packet \cup {length}]
  <2>1. \A n \in 1..5 : o[n] \in DOMAIN packet \cup {length}
    <3> HIDE DEF o
    <3>1. \A n \in 1..5 : n \in 1..4 \/ n = 5
      OBVIOUS
    <3> QED BY <1>2, <1>3, <3>1
  <2> QED BY <2>1
<1>5. \A a \in DOMAIN packet \ {0} : \E n \in 1..4 : a = o[n]
  <2> SUFFICES ASSUME NEW a \in DOMAIN packet \ {0} PROVE \E n \in 1..4 : a = o[n]
    OBVIOUS
  <2>1. PICK m \in 0 .. 4 - 1 : a = End(m)
    BY <1>1 DEF Laid
  <2>2. m + 1 \in 1..4 /\ (m + 1) - 1 = m
    OBVIOUS
  <2> QED BY <1>2, <2>1, <2>2
<1> HIDE DEF o
<1>6. Len(options) + 1 = 5
  BY <1>1
<1>7. Finds(o)
  BY <1>1, <1>2, <1>3, <1>6 DEF Finds
<1>8. \A n \in 1..4 : Announces(options[n], prefix)
  BY DEF PacketInv
<1> QED BY <1>1, <1>4, <1>5, <1>6, <1>7, <1>8 DEF ReceiverFindsOptions

(* For every prefix, and routes and prefixes of every length: the options  *)
(* of an advertisement are found one behind the other up to its end, and   *)
(* carry every bit of the prefix that they announce.                       *)
THEOREM OptionsAreFound == Spec => []ReceiverFindsOptions
<1>1. Init => PacketInv
  BY DEF Init, PacketInv
<1>2. FitInv /\ PacketInv /\ [Next]_vars => PacketInv'
  BY PacketStep
<1>3. FitInv /\ PacketInv => ReceiverFindsOptions
  BY PacketIsFound
<1> QED BY <1>1, <1>2, <1>3, FitInvariant, PTL DEF Spec

-----------------------------------------------------------------------------
(* The bits behind the length of a route's prefix.                         *)

Clean(o) == o.type = 24 => \A b \in o.ones : b < o.prefixLength
CleanInv == phase # "idle" => \A n \in 1..4 : Clean(options[n])

LEMMA OthersAreNoRoutes ==
  ASSUME NEW n, NEW f, NEW valid, NEW preferred, NEW S, NEW mtu
  PROVE  \A o \in {createOptionSourceLinkLayerAddress, createOptionMtu(mtu),
                   createOptionPrefixInformation(n, f, valid, preferred, S)} : o.type # 24
<1>1. createOptionSourceLinkLayerAddress.type = 1
  BY DEF createOptionSourceLinkLayerAddress, createOptionLinkLayerAddressCore, Plain
<1>2. createOptionMtu(mtu).type = 5
  BY DEF createOptionMtu, Plain
<1>3. createOptionPrefixInformation(n, f, valid, preferred, S).type = 3
  BY DEF createOptionPrefixInformation, Plain
<1> QED BY <1>1, <1>2, <1>3

(* The one cause of run route: where the prefix has no bit between the     *)
(* length of the route and the end of the unit of eight bytes that is      *)
(* copied last, the option leaves what is reserved at zero.                *)
THEOREM OnlySubnetBitsReserved ==
  ASSUME \A r \in RoutePrefixLengths : \A b \in Bits : b < r \/ b >= PrefixUnits(r) * Unit * 8
  PROVE  Spec => []NoBitsBehindRoutePrefix
<1>1. ASSUME NEW r \in RoutePrefixLengths, NEW t, NEW S \in SUBSET Bits
      PROVE  Clean(createOptionRouteInformation(r, t, S))
  <2> DEFINE o == createOptionRouteInformation(r, t, S)
             end == PrefixUnits(r) * Unit * 8
  <2>1. o.prefixLength = r /\ o.ones = {b \in S : b < end}
    BY DEF createOptionRouteInformation, Plain
  <2>2. \A b \in S : b < r \/ b >= end
    OBVIOUS
  <2>3. r \in Nat /\ end \in Nat /\ \A b \in S : b \in Nat
    BY AdvertAssumption DEF PrefixUnits, Unit
  <2> HIDE DEF o, end
  <2>4. Clean(o)
    BY <2>1, <2>2, <2>3 DEF Clean
  <2> QED BY <2>4 DEF o
<1>2. Construct => CleanInv'
  <2> SUFFICES ASSUME Construct PROVE CleanInv'
    OBVIOUS
  <2>1. PICK n \in PrefixLengths, r \in RoutePrefixLengths, valid \in Lifetimes, preferred \in Lifetimes :
          options' = << createOptionSourceLinkLayerAddress,
                        createOptionPrefixInformation(n, (flag_L \cup flag_A) \cap flag_R, valid, preferred, prefix'),
                        createOptionRouteInformation(r, valid, prefix'),
                        createOptionMtu(<<0, 0, 5, 220>>) >>
    BY DEF Construct
  <2> DEFINE a == createOptionSourceLinkLayerAddress
             b == createOptionPrefixInformation(n, (flag_L \cup flag_A) \cap flag_R, valid, preferred, prefix')
             c == createOptionRouteInformation(r, valid, prefix')
             d == createOptionMtu(<<0, 0, 5, 220>>)
  <2>2. Clean(a) /\ Clean(b) /\ Clean(d)
    BY OthersAreNoRoutes DEF Clean
  <2>3. Clean(c)
    BY <1>1 DEF Construct
  <2>4. options' = <<a, b, c, d>>
    BY <2>1
  <2> HIDE DEF a, b, c, d
  <2>5. \A m \in 1..4 : Clean(options'[m])
    BY <2>2, <2>3, <2>4
  <2> QED BY <2>5 DEF CleanInv, Clean
<1>3. CleanInv /\ [Next]_vars => CleanInv'
  <2> SUFFICES ASSUME CleanInv, [Next]_vars, ~Construct PROVE CleanInv'
    BY <1>2
  <2>1. options' = options /\ (phase' # "idle" => phase # "idle")
    BY DEF Next, Create, CountOption, FillHeader, CopyOption, StartChecksum, ComputeChecksum, Return, Send,
           message, vars
  <2> QED BY <2>1 DEF CleanInv, Clean
<1>4. Init => CleanInv
  BY DEF Init, CleanInv
<1>5. FitInv /\ CleanInv => NoBitsBehindRoutePrefix
  BY DEF FitInv, Given, CleanInv, Clean, NoBitsBehindRoutePrefix
<1> QED BY <1>3, <1>4, <1>5, FitInvariant, PTL DEF Spec

-----------------------------------------------------------------------------
(* What is allocated at each point of sendRouterAdv.                       *)
Kept(S) == heap = [b \in Blocks |-> (IF b = "routeInfo" THEN adverts ELSE 0) + (IF b \in S THEN 1 ELSE 0)]

HeapInv ==
  /\ adverts \in Nat
  /\ phase \in {"idle", "count", "copy", "checksum", "send"}
  /\ phase = "idle" => Kept({})
  /\ phase = "count" => Kept(OptionBlocks)
  /\ phase \in {"copy", "checksum", "send"} => Kept(Blocks)

LEMMA HeapStep == HeapInv /\ [Next]_vars => HeapInv'
<1> SUFFICES ASSUME HeapInv, [Next]_vars PROVE HeapInv'
  OBVIOUS
<1> USE DEF HeapInv, Kept, Blocks, OptionBlocks
<1>1. CASE Construct
  BY <1>1 DEF Construct, Allocate
<1>2. CASE CountOption
  BY <1>2 DEF CountOption
<1>3. CASE FillHeader
  BY <1>3 DEF FillHeader, Allocate
<1>4. CASE CopyOption
  BY <1>4 DEF CopyOption
<1>5. CASE StartChecksum \/ ComputeChecksum \/ Return
  BY <1>5 DEF StartChecksum, ComputeChecksum, Return
<1>6. CASE Send
  BY <1>6 DEF Send, Free
<1>7. CASE UNCHANGED vars
  BY <1>7 DEF vars
<1> QED BY <1>1, <1>2, <1>3, <1>4, <1>5, <1>6, <1>7 DEF Next, Create

(* After any number of advertisements, their route information options are *)
(* all that stays allocated.                                               *)
THEOREM OneBlockLeaks == Spec => []OnlyRouteInfoLeaks
<1>1. Init => HeapInv
  BY DEF Init, HeapInv, Kept
<1>2. HeapInv => OnlyRouteInfoLeaks
  BY DEF HeapInv, Kept, OnlyRouteInfoLeaks
<1> QED BY <1>1, <1>2, HeapStep, PTL DEF Spec

-----------------------------------------------------------------------------
(* Type correctness: the constructors make records of their types.         *)
LEMMA SwappedWord == ASSUME NEW w \in Word32 PROVE htobe32(w) \in Word32
BY DEF htobe32, Swap32, Word32

LEMMA LiteralsAreTyped == <<0, 0, 5, 220>> \in Word32 /\ 64 \in Byte /\ 0 \in Byte
BY DEF Word32, Byte

LEMMA RecordStays ==
  ASSUME NEW T, NEW L, NEW A, NEW W, NEW P, NEW Q, NEW G, NEW Z,
         NEW o \in [type : T, length : L, allocated : A, written : W, prefixLength : P,
                    ones : Q, flags : G, lifetimes : Z],
         NEW w \in W, NEW p \in P, NEW q \in Q, NEW g \in G, NEW z \in Z
  PROVE  {[o EXCEPT !.lifetimes = z],
          [o EXCEPT !.prefixLength = p, !.ones = q, !.flags = g, !.lifetimes = z],
          [o EXCEPT !.written = w, !.prefixLength = p, !.ones = q, !.lifetimes = z]}
           \subseteq [type : T, length : L, allocated : A, written : W, prefixLength : P,
                      ones : Q, flags : G, lifetimes : Z]
OBVIOUS

LEMMA OptionStays ==
  ASSUME NEW o \in OptionRecord, NEW w \in Nat, NEW p \in Byte, NEW q \in SUBSET Bits,
         NEW g \in SUBSET (0..7), NEW z \in Seq(Word32)
  PROVE  /\ [o EXCEPT !.lifetimes = z] \in OptionRecord
         /\ [o EXCEPT !.prefixLength = p, !.ones = q, !.flags = g, !.lifetimes = z] \in OptionRecord
         /\ [o EXCEPT !.written = w, !.prefixLength = p, !.ones = q, !.lifetimes = z] \in OptionRecord
BY RecordStays, Zenon DEF OptionRecord

LEMMA PlainIsTyped ==
  ASSUME NEW t \in Nat, NEW l \in Nat, NEW a \in Nat
  PROVE  Plain(t, l, a) \in OptionRecord
<1>1. {} \in SUBSET Bits /\ {} \in SUBSET (0..7) /\ <<>> \in Seq(Word32)
  OBVIOUS
<1> QED BY <1>1, LiteralsAreTyped, Zenon DEF Plain, OptionRecord

LEMMA MtuIsTyped == ASSUME NEW mtu \in Word32 PROVE createOptionMtu(mtu) \in OptionRecord
<1>1. Plain(5, 1, ndp_optOffset + ndp_opt_Mtu) \in OptionRecord
  BY PlainIsTyped DEF ndp_optOffset, ndp_opt_Mtu
<1>2. <<htobe32(mtu)>> \in Seq(Word32)
  BY SwappedWord
<1>3. 0 \in Nat /\ {} \in SUBSET Bits /\ {} \in SUBSET (0..7)
  OBVIOUS
<1> QED BY <1>1, <1>2, <1>3, LiteralsAreTyped, OptionStays, Zenon DEF createOptionMtu

LEMMA OptionsAreTyped ==
  ASSUME NEW n \in PrefixLengths, NEW r \in RoutePrefixLengths, NEW valid \in Lifetimes,
         NEW preferred \in Lifetimes, NEW S \in SUBSET Bits, NEW f
  PROVE  /\ createOptionSourceLinkLayerAddress \in OptionRecord
         /\ createOptionPrefixInformation(n, f, valid, preferred, S) \in OptionRecord
         /\ createOptionRouteInformation(r, valid, S) \in OptionRecord
         /\ createOptionMtu(<<0, 0, 5, 220>>) \in OptionRecord
<1>1. n \in Byte /\ valid \in Word32 /\ preferred \in Word32
  BY AdvertAssumption
<1>2. r \in Byte /\ PrefixUnits(r) \in Nat
  <2>1. r \in 0..127
    BY AdvertAssumption
  <2> QED BY <2>1 DEF PrefixUnits, Byte
<1>3. htobe32(valid) \in Word32 /\ htobe32(preferred) \in Word32
  BY <1>1, SwappedWord
<1>4. f \cap {7, 6} \in SUBSET (0..7) /\ {} \in SUBSET (0..7)
  OBVIOUS
<1>5. /\ <<htobe32(valid)>> \in Seq(Word32)
      /\ <<htobe32(valid), htobe32(preferred)>> \in Seq(Word32)
  BY <1>3
<1>6. createOptionSourceLinkLayerAddress \in OptionRecord
  <2>1. 1 \in Nat /\ ndp_optOffset + ndp_opt_LinkLayerAddress \in Nat
    BY DEF ndp_optOffset, ndp_opt_LinkLayerAddress
  <2> QED BY <2>1, PlainIsTyped
          DEF createOptionSourceLinkLayerAddress, createOptionLinkLayerAddressCore
<1>7. createOptionMtu(<<0, 0, 5, 220>>) \in OptionRecord
  BY MtuIsTyped, LiteralsAreTyped
<1>8. createOptionPrefixInformation(n, f, valid, preferred, S) \in OptionRecord
  <2>1. Plain(3, 4, ndp_optOffset + ndp_opt_PrefixInformation) \in OptionRecord
    BY PlainIsTyped DEF ndp_optOffset, ndp_opt_PrefixInformation, AddressBytes
  <2>2. 0 \in Nat
    OBVIOUS
  <2> QED BY <2>1, <2>2, <1>1, <1>4, <1>5, OptionStays, Zenon DEF createOptionPrefixInformation
<1>9. createOptionRouteInformation(r, valid, S) \in OptionRecord
  <2> DEFINE units == PrefixUnits(r)
             ones == {b \in S : b < units * Unit * 8}
  <2>1. ones \in SUBSET Bits
    OBVIOUS
  <2>2. /\ Plain(24, 1 + units, (1 + units) * Unit) \in OptionRecord
        /\ ndp_optOffset + ndp_opt_RouteInformation + units * Unit \in Nat
    BY <1>2, PlainIsTyped DEF Unit, ndp_optOffset, ndp_opt_RouteInformation
  <2> QED BY <2>1, <2>2, <1>2, <1>4, <1>5, OptionStays, Zenon
          DEF createOptionRouteInformation
<1> QED BY <1>6, <1>7, <1>8, <1>9

TypeInv == TypeOK /\ HeapInv

LEMMA TypeStep == TypeInv /\ [Next]_vars => TypeInv'
<1> SUFFICES ASSUME TypeInv, [Next]_vars PROVE TypeInv'
  OBVIOUS
<1>1. HeapInv'
  BY HeapStep DEF TypeInv
<1>2. heap' \in [Blocks -> Nat] /\ phase' \in {"idle", "count", "copy", "checksum", "send"}
      /\ adverts' \in Nat
  BY <1>1 DEF HeapInv, Kept
<1> HIDE DEF OptionRecord, Blocks, HeapInv
<1>3. /\ prefix' \in SUBSET Bits /\ options' \in Seq(OptionRecord)
      /\ i' \in 0 .. Len(options') /\ length' \in Nat /\ offset' \in Nat
  <2> USE DEF TypeInv, TypeOK
  <2>1. CASE Construct
    <3> DEFINE f == (flag_L \cup flag_A) \cap flag_R
    <3>1. PICK n \in PrefixLengths, r \in RoutePrefixLengths, valid \in Lifetimes, preferred \in Lifetimes :
            options' = << createOptionSourceLinkLayerAddress,
                          createOptionPrefixInformation(n, f, valid, preferred, prefix'),
                          createOptionRouteInformation(r, valid, prefix'),
                          createOptionMtu(<<0, 0, 5, 220>>) >>
      BY <2>1 DEF Construct
    <3>2. prefix' \in SUBSET Bits /\ i' = 0 /\ length' = 16 /\ offset' = offset
      BY <2>1 DEF Construct, RaHeaderSize
    <3>3. options' \in Seq(OptionRecord)
      BY <3>1, <3>2, OptionsAreTyped
    <3> QED BY <3>2, <3>3
  <2>2. ASSUME i < Len(options), i' = i + 1, UNCHANGED <<prefix, options>>,
               \/ length' = length + SizeOf(options[i + 1]) /\ UNCHANGED offset
               \/ offset' = offset + SizeOf(options[i + 1]) /\ UNCHANGED length
        PROVE  /\ prefix' \in SUBSET Bits /\ options' \in Seq(OptionRecord)
               /\ i' \in 0 .. Len(options') /\ length' \in Nat /\ offset' \in Nat
    <3>1. options[i + 1] \in OptionRecord
      BY <2>2
    <3>2. SizeOf(options[i + 1]) \in Nat
      <4>1. options[i + 1].length \in Nat
        BY <3>1, Zenon DEF OptionRecord
      <4> QED BY <4>1 DEF SizeOf, Unit
    <3> QED BY <2>2, <3>2
  <2>3. CASE CountOption
    BY <2>2, <2>3 DEF CountOption
  <2>4. CASE CopyOption
    BY <2>2, <2>4 DEF CopyOption
  <2>5. CASE FillHeader
    BY <2>5 DEF FillHeader, RaHeaderSize
  <2>6. CASE StartChecksum \/ ComputeChecksum \/ Return \/ Send \/ UNCHANGED vars
    <3>1. UNCHANGED <<prefix, options, i, length, offset>>
      BY <2>6 DEF StartChecksum, ComputeChecksum, Return, Send, vars, message
    <3> QED BY <3>1
  <2> QED BY <2>1, <2>3, <2>4, <2>5, <2>6 DEF Next, Create
<1> QED BY <1>1, <1>2, <1>3 DEF TypeInv, TypeOK

(* For any prefixes, lengths and lifetimes options keep their types, and no*)
(* block is freed twice.                                                   *)
THEOREM TypesKept == Spec => []TypeOK
<1>1. Init => TypeInv
  <2> SUFFICES ASSUME Init PROVE TypeInv
    OBVIOUS
  <2>1. HeapInv /\ heap \in [Blocks -> Nat]
    BY DEF Init, HeapInv, Kept
  <2> QED BY <2>1 DEF Init, TypeInv, TypeOK
<1>2. TypeInv => TypeOK
  BY DEF TypeInv
<1> QED BY <1>1, <1>2, TypeStep, PTL DEF Spec

-----------------------------------------------------------------------------
(* Residues modulo 65535, the three facts about them that are used.        *)
Mod(n) == n % 65535

LEMMA ModRange == ASSUME NEW n \in Nat PROVE Mod(n) \in Nat
BY DEF Mod

LEMMA ModDrop == ASSUME NEW n \in Nat, n >= 65535 PROVE Mod(n - 65535) = Mod(n)
BY DEF Mod

LEMMA ModAdd == ASSUME NEW a \in Nat, NEW b \in Nat PROVE Mod(Mod(a) + b) = Mod(a + b)
BY DEF Mod

(* The running sums agree with the words added, modulo 65535.              *)
SumInv ==
  /\ sum \in Nat /\ sum <= 65535 /\ sumHeader \in Nat /\ sumHeader <= 65535
  /\ at \in {"none", "header"} => sumHeader = 0
  /\ at \in {"header", "body"} => Mod(sumHeader + sum) = residue
  /\ ChecksumLacksLastCarryOnly

LEMMA FirstCarry ==
  ASSUME NEW n \in Nat, n >= 65536, n <= 131070
  PROVE  n % 65536 = n - 65536
<1> DEFINE m == n - 65536
<1>1. m \in Nat /\ m < 65536 /\ n = m + 65536
  OBVIOUS
<1> HIDE DEF m
<1>2. m % 65536 = m
  BY <1>1
<1>3. (m + 65536) % 65536 = m % 65536
  BY <1>1
<1> QED BY <1>1, <1>2, <1>3 DEF m

LEMMA FoldIs ==
  ASSUME WordMod = 65536, NEW n \in Nat, n <= 131070
  PROVE  C!Fold(n) \in Nat /\ C!Fold(n) <= 65535 /\ (C!Fold(n) = n \/ (n >= 65535 /\ C!Fold(n) = n - 65535))
<1>1. C!Fold(n) = IF n < 65536 THEN n ELSE (n % 65536) + (n \div 65536)
  BY DEF C!Fold
<1>2. CASE n < 65536
  BY <1>1, <1>2
<1>3. CASE n >= 65536
  <2>1. n \div 65536 = 1
    BY <1>3
  <2>2. n % 65536 = n - 65536
    BY <1>3, FirstCarry
  <2> QED BY <1>1, <1>3, <2>1, <2>2
<1> QED BY <1>2, <1>3

(* Outside "done" the property says nothing.                               *)
LEMMA NotDone == ASSUME at # "done" PROVE ChecksumLacksLastCarryOnly
BY DEF ChecksumLacksLastCarryOnly, C!LacksLastCarryOnly

LEMMA NotDoneNext == ASSUME at' # "done" PROVE ChecksumLacksLastCarryOnly'
BY DEF ChecksumLacksLastCarryOnly, C!LacksLastCarryOnly

LEMMA WordBounds == Words \subseteq 0 .. WordMod - 1 /\ WordMod \in Nat
<1>1. WordMod \in Nat \ 0..1 /\ Words \subseteq 0 .. WordMod - 1
  BY Zenon, AdvertAssumption
<1> QED BY <1>1

LEMMA WordIsSmall == ASSUME NEW w \in Words PROVE w \in Nat /\ w <= WordMod - 1
<1>1. \A m \in Nat : w \in 0 .. m - 1 => w \in Nat /\ w <= m - 1
  OBVIOUS
<1>2. WordMod \in Nat /\ w \in 0 .. WordMod - 1
  BY WordBounds
<1> QED BY <1>1, <1>2, Zenon

LEMMA AddWordKeeps ==
  ASSUME WordMod = 65536, SumInv, C!AddWord
  PROVE  SumInv'
<1>1. PICK w \in Words : sum' = C!Fold(sum + w) /\ residue' = (residue + w) % (WordMod - 1)
  BY DEF C!AddWord
<1>2. w \in Nat /\ w <= 65535
  <2>1. w \in Nat /\ w <= WordMod - 1
    BY WordIsSmall
  <2> QED BY <2>1
<1>3. residue' = Mod(residue + w)
  BY <1>1 DEF Mod
<1>4. at \in {"header", "body"} /\ at' = at /\ sumHeader' = sumHeader
  BY DEF C!AddWord
<1>5. /\ sum \in Nat /\ sum <= 65535 /\ sumHeader \in Nat /\ sumHeader <= 65535
      /\ Mod(sumHeader + sum) = residue
  BY <1>4 DEF SumInv
<1>6. sum' \in Nat /\ sum' <= 65535 /\ (sum' = sum + w \/ (sum + w >= 65535 /\ sum' = sum + w - 65535))
  <2>1. sum + w \in Nat /\ sum + w <= 131070
    BY <1>2, <1>5
  <2> DEFINE n == sum + w
  <2>2. sum' = C!Fold(n)
    BY <1>1
  <2>3. n \in Nat /\ n <= 131070
    BY <2>1
  <2> HIDE DEF n
  <2>4. sum' \in Nat /\ sum' <= 65535 /\ (sum' = n \/ (n >= 65535 /\ sum' = n - 65535))
    BY <2>2, <2>3, FoldIs
  <2> QED BY <1>2, <1>5, <2>4 DEF n
<1>7. residue' = Mod(sumHeader + sum + w)
  <2> DEFINE total == sumHeader + sum
  <2>1. total \in Nat /\ w \in Nat /\ Mod(total) = residue
    BY <1>2, <1>5
  <2>3. sumHeader + sum + w = total + w
    OBVIOUS
  <2> HIDE DEF total
  <2>2. Mod(Mod(total) + w) = Mod(total + w)
    BY <2>1, ModAdd
  <2> QED BY <1>3, <2>1, <2>2, <2>3
<1>8. Mod(sumHeader + sum') = Mod(sumHeader + sum + w)
  <2>1. CASE sum' = sum + w
    <3>1. sumHeader + sum' = sumHeader + sum + w
      BY <1>2, <1>5, <2>1
    <3> QED BY <3>1
  <2>2. CASE sum + w >= 65535 /\ sum' = sum + w - 65535
    <3> DEFINE n == sumHeader + sum + w
    <3>1. n \in Nat /\ n >= 65535 /\ sumHeader + sum' = n - 65535
      BY <1>2, <1>5, <2>2
    <3> HIDE DEF n
    <3>2. Mod(sumHeader + sum') = Mod(n)
      BY <3>1, ModDrop
    <3> QED BY <3>2 DEF n
  <2> QED BY <1>6, <2>1, <2>2
<1>9. ChecksumLacksLastCarryOnly'
  BY <1>4, NotDoneNext
<1>10. at' \in {"none", "header"} => sumHeader' = 0
  BY <1>4 DEF SumInv
<1> QED BY <1>4, <1>5, <1>6, <1>7, <1>8, <1>9, <1>10 DEF SumInv

LEMMA ComplementKeeps ==
  ASSUME WordMod = 65536, SumInv, C!Complement
  PROVE  SumInv'
<1> DEFINE total == sumHeader + sum
           carry == IF total < 65536 THEN 0 ELSE 1
<1>1. at = "body" /\ at' = "done" /\ UNCHANGED <<sum, sumHeader, residue>>
  BY DEF C!Complement
<1>2. /\ sum \in Nat /\ sum <= 65535 /\ sumHeader \in Nat /\ sumHeader <= 65535
      /\ Mod(total) = residue
  BY <1>1 DEF SumInv
<1>3. total \in Nat /\ total <= 131070
  BY <1>2
<1>4. checksum' = 65535 - (total % 65536)
  BY DEF C!Complement
<1>5. Mod(65535 - checksum' + carry) = residue
  <2> HIDE DEF total
  <2>1. CASE total < 65536
    <3>1. total % 65536 = total
      BY <1>3, <2>1
    <3>2. 65535 - checksum' + carry = total
      BY <1>3, <1>4, <2>1, <3>1
    <3> QED BY <1>2, <3>2
  <2>2. CASE total >= 65536
    <3>1. total % 65536 = total - 65536
      BY <1>3, <2>2, FirstCarry
    <3>2. 65535 - checksum' + carry = total - 65535 /\ total \in Nat /\ total >= 65535
      BY <1>3, <1>4, <2>2, <3>1
    <3> QED BY <1>2, <3>2, ModDrop
  <2> QED BY <1>3, <2>1, <2>2
<1>6. (carry = IF sumHeader' + sum' < WordMod THEN 0 ELSE 1) /\ residue' = residue
  BY <1>1
<1>7. (WordMod - 1 - checksum' + carry) % (WordMod - 1) = residue'
  <2>1. WordMod - 1 = 65535
    OBVIOUS
  <2> HIDE DEF carry
  <2> QED BY <1>5, <1>6, <2>1 DEF Mod
<1> HIDE DEF carry, total
<1>8. ChecksumLacksLastCarryOnly'
  BY <1>6, <1>7 DEF ChecksumLacksLastCarryOnly, C!LacksLastCarryOnly
<1> QED BY <1>1, <1>2, <1>8 DEF SumInv

LEMMA OthersKeep ==
  ASSUME SumInv, C!Start \/ C!NextBuffer(length) \/ C!Reset \/ UNCHANGED summing
  PROVE  SumInv'
<1>1. CASE UNCHANGED summing
  BY <1>1 DEF summing, SumInv, ChecksumLacksLastCarryOnly, C!LacksLastCarryOnly
<1>2. CASE C!Start
  <2>1. at = "none" /\ at' = "header" /\ sum' = 0 /\ residue' = 0 /\ sumHeader' = sumHeader
    BY <1>2 DEF C!Start
  <2>2. sumHeader = 0 /\ Mod(0 + 0) = 0
    BY <2>1 DEF SumInv, Mod
  <2> QED BY <2>1, <2>2, NotDoneNext DEF SumInv
<1>3. CASE C!NextBuffer(length)
  <2>1. /\ at = "header" /\ at' = "body"
        /\ sumHeader' = sum /\ sum' = 0 /\ residue' = residue
    BY <1>3 DEF C!NextBuffer
  <2>2. sumHeader = 0 /\ sum \in Nat /\ sum <= 65535 /\ Mod(sumHeader + sum) = residue
    BY <2>1 DEF SumInv
  <2>3. sumHeader' + sum' = sumHeader + sum
    BY <2>1, <2>2
  <2> QED BY <2>1, <2>2, <2>3, NotDoneNext DEF SumInv
<1>4. CASE C!Reset
  <2>1. at' = "none" /\ sumHeader' = 0 /\ sum' = sum
    BY <1>4 DEF C!Reset
  <2> QED BY <2>1, NotDoneNext DEF SumInv
<1> QED BY <1>1, <1>2, <1>3, <1>4

(* With words of 16 bits, whatever they are and however many: the checksum *)
(* is the complement of their sum, but for the carry between the buffers.  *)
THEOREM ChecksumLacksCarry ==
  ASSUME WordMod = 65536
  PROVE  Spec => []ChecksumLacksLastCarryOnly
<1>1. Init => SumInv
  <2> SUFFICES ASSUME Init PROVE SumInv
    OBVIOUS
  <2>1. at = "none" /\ sum = 0 /\ sumHeader = 0
    BY DEF Init, C!Init
  <2> QED BY <2>1, NotDone DEF SumInv
<1>2. SumInv /\ [Next]_vars => SumInv'
  <2> SUFFICES ASSUME SumInv, [Next]_vars PROVE SumInv'
    OBVIOUS
  <2>1. \/ UNCHANGED summing \/ C!Start \/ C!NextBuffer(length) \/ C!Reset
        \/ C!AddWord \/ C!Complement
    BY DEF Next, Create, Construct, CountOption, FillHeader, CopyOption, StartChecksum,
           ComputeChecksum, Return, Send, vars, C!Step
  <2> QED BY <2>1, AddWordKeeps, ComplementKeeps, OthersKeep
<1>3. SumInv => ChecksumLacksLastCarryOnly
  BY DEF SumInv
<1> QED BY <1>1, <1>2, <1>3, PTL DEF Spec
=============================================================================
