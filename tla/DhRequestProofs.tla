-------------------------- MODULE DhRequestProofs --------------------------
(***************************************************************************)
(* Rounds of requestAndReceiveDhcp keep what DhPacketsProofs shows of one  *)
(* packet, however many they are and whatever they receive; what they copy *)
(* from blocks of any size; and what they leave on the heap.               *)
(***************************************************************************)
EXTENDS DhRequest, DhPacketsProofs

AnyBlock(b) == b.code \in 0..MaxField /\ b.length \in 0..MaxField

(* The block of caller c's identifier d: whole, unless the caller is a     *)
(* public one whose bytes do not fit; and even then not longer than what   *)
(* was allocated, unless that sum has wrapped around.                      *)
OwnBlock(b, c, d) ==
  \/ Whole(b)
  \/ /\ c # "requestAndReceiveDhcp" /\ ~FitsOption(d)
     /\ b.length + HeaderSize <= b.allocated \/ d.size + HeaderSize >= SizeMod

LEMMA SizeModIs == SizeMod \in Nat /\ SizeMod > 262160
<1>1. SizeMod \in Nat
  BY PacketAssumption
<1>2. SizeMod > HeaderSize + 4 * (MaxField + HeaderSize)
  BY RequestAssumption
<1> QED BY <1>1, <1>2 DEF HeaderSize, MaxField

LEMMA CustomBlock ==
  ASSUME NEW c \in Callers, c # "requestAndReceiveDhcp", NEW d \in Identifiers(c)
  PROVE  LET b == createCustomOptPayload(CLIENTID, d.data, d.size)
         IN AnyBlock(b) /\ OwnBlock(b, c, d)
<1> DEFINE n == d.size
           b == createCustomOptPayload(CLIENTID, d.data, d.size)
<1>1. d \in [size : ClientSizes, data : BOOLEAN] /\ (d.data => d.size + HeaderSize < SizeMod)
  BY DEF Identifiers
<1>2. n \in Nat /\ n < SizeMod /\ d.data \in BOOLEAN
  <2>1. d.size \in ClientSizes /\ d.data \in BOOLEAN
    BY <1>1
  <2>2. d.size \in 0..(SizeMod - 1)
    BY <2>1, RequestAssumption
  <2> QED BY <2>1, <2>2, SizeModIs
<1>3. /\ b.code = 1 /\ b.length = n % 65536
      /\ b.allocated = (n + HeaderSize) % SizeMod
      /\ b.written = HeaderSize + (IF d.data THEN n ELSE 0)
  <2>1. b.code = CLIENTID /\ b.length = n % (MaxField + 1)
        /\ b.allocated = (n + HeaderSize) % SizeMod
        /\ b.written = HeaderSize + (IF d.data THEN n ELSE 0)
    BY DEF createCustomOptPayload, Block
  <2> QED BY <2>1 DEF CLIENTID, MaxField
<1>4. /\ n % 65536 \in Nat /\ n % 65536 <= 65535 /\ n % 65536 <= n
      /\ n <= 65535 => n % 65536 = n
  BY <1>2
<1> HIDE DEF b, n
<1>5. AnyBlock(b)
  <2>1. b.code \in Nat /\ b.code <= MaxField /\ b.length \in Nat /\ b.length <= MaxField
    BY <1>3, <1>4 DEF MaxField
  <2> QED BY <2>1, Limits DEF AnyBlock
<1>6. CASE n + HeaderSize >= SizeMod
  <2>1. ~d.data /\ n # 0
    BY <1>1, <1>2, <1>6, SizeModIs DEF n, HeaderSize
  <2>2. ~FitsOption(d)
    BY <2>1 DEF FitsOption, n
  <2> QED BY <1>5, <1>6, <2>2 DEF OwnBlock, n, b
<1>7. CASE n + HeaderSize < SizeMod
  <2>1. b.allocated = n + HeaderSize
    <3>1. n + HeaderSize \in 0..(SizeMod - 1)
      BY <1>2, <1>7, SizeModIs DEF HeaderSize
    <3>2. \A m \in 0..(SizeMod - 1) : m % SizeMod = m
      BY SizeModIs
    <3> QED BY <1>3, <3>1, <3>2
  <2>2. b.length + HeaderSize <= b.allocated
    BY <1>2, <1>3, <1>4, <2>1 DEF HeaderSize
  <2>3. CASE ~FitsOption(d)
    BY <1>5, <2>2, <2>3 DEF OwnBlock, n, b
  <2>4. CASE FitsOption(d)
    <3>1. n <= 65535 /\ (d.data \/ n = 0)
      BY <2>4 DEF FitsOption, n, MaxField
    <3>2. b.length = n /\ b.written = HeaderSize + n
      BY <1>2, <1>3, <1>4, <3>1
    <3>3. Whole(b)
      BY <1>2, <2>1, <3>2 DEF Whole, HeaderSize
    <3> QED BY <1>5, <3>3 DEF OwnBlock, b
  <2> QED BY <2>3, <2>4
<1> QED BY <1>2, <1>6, <1>7, SizeModIs DEF HeaderSize

LEMMA BlocksAreWhole ==
  \A b \in {createOption_ElapsedTime, createOption_IA_PD(0), createOption_RapidCommit,
            createOption_ClientIdentifier_En(4)} : AnyBlock(b) /\ Whole(b)
<1> USE DEF AnyBlock, Whole, Block
<1>2. \A n \in 0..10 : n % (MaxField + 1) = n
  BY DEF MaxField
<1>3. 25 <= MaxField
  BY DEF MaxField
<1> USE <1>2, <1>3, Limits DEF HeaderSize
<1>4. AnyBlock(createOption_ElapsedTime) /\ Whole(createOption_ElapsedTime)
  BY DEF createOption_ElapsedTime, sizeof_ElapsedTime, ELAPSED_TIME
<1>5. AnyBlock(createOption_IA_PD(0)) /\ Whole(createOption_IA_PD(0))
  <2>1. 12 % (MaxField + 1) = 12
    BY DEF MaxField
  <2> QED BY <2>1 DEF createOption_IA_PD, sizeof_IA_PD, IA_PD
<1>6. AnyBlock(createOption_RapidCommit) /\ Whole(createOption_RapidCommit)
  <2>1. 4 % SizeMod = 4
    <3>1. \A m \in 0..(SizeMod - 1) : m % SizeMod = m
      BY SizeModIs
    <3> QED BY <3>1, SizeModIs
  <2> QED BY <2>1 DEF createOption_RapidCommit, createCustomOptPayload, RAPID_COMMIT
<1>7. AnyBlock(createOption_ClientIdentifier_En(4)) /\ Whole(createOption_ClientIdentifier_En(4))
  BY DEF createOption_ClientIdentifier_En, sizeof_DUId_En, CLIENTID
<1> QED BY <1>4, <1>5, <1>6, <1>7

OptionCount(c) == IF c = "dh_createSolicitPacket" THEN 3 ELSE 4

(* The list that each caller makes: three options, or four.                *)
LEMMA ListsAreWhole ==
  ASSUME NEW c \in Callers, NEW d \in Identifiers(c), NEW b, b = SolicitOptions(c, d)
  PROVE  /\ Len(b) = OptionCount(c) /\ DOMAIN b = 1..Len(b)
         /\ \A n \in 1..Len(b) : AnyBlock(b[n])
         /\ OwnBlock(b[1], c, d)
         /\ \A n \in 1..Len(b) : n # 1 => Whole(b[n])
<1> DEFINE t == createOption_ElapsedTime
           p == createOption_IA_PD(0)
           r == createOption_RapidCommit
           e == createOption_ClientIdentifier_En(4)
           own == createCustomOptPayload(CLIENTID, d.data, d.size)
<1>1. /\ AnyBlock(t) /\ AnyBlock(p) /\ AnyBlock(r) /\ AnyBlock(e)
      /\ Whole(t) /\ Whole(p) /\ Whole(r) /\ Whole(e)
  BY BlocksAreWhole
<1>2. c # "requestAndReceiveDhcp" => AnyBlock(own) /\ OwnBlock(own, c, d)
  BY CustomBlock
<1>3. OwnBlock(e, c, d)
  BY <1>1 DEF OwnBlock
<1>4. \/ c = "dh_createSolicitPacket" /\ b = <<own, t, p>>
      \/ c = "dh_createRapidSolicitPacket" /\ b = <<own, t, p, r>>
      \/ c = "requestAndReceiveDhcp" /\ b = <<e, t, p, r>>
  BY DEF SolicitOptions, Callers, Identifiers, OwnBytes
<1> HIDE DEF t, p, r, e, own
<1>6. PICK x : /\ AnyBlock(x) /\ OwnBlock(x, c, d)
               /\ \/ b = <<x, t, p>> /\ OptionCount(c) = 3
                  \/ b = <<x, t, p, r>> /\ OptionCount(c) = 4
  BY <1>1, <1>2, <1>3, <1>4 DEF OptionCount
<1>7. CASE b = <<x, t, p>> /\ OptionCount(c) = 3
  <2>1. Len(b) = 3 /\ DOMAIN b = 1..3 /\ b[1] = x /\ b[2] = t /\ b[3] = p
    BY <1>7
  <2>2. \A n \in 1..3 : n = 1 \/ n = 2 \/ n = 3
    OBVIOUS
  <2> QED BY <1>1, <1>6, <1>7, <2>1, <2>2
<1>8. CASE b = <<x, t, p, r>> /\ OptionCount(c) = 4
  <2>1. Len(b) = 4 /\ DOMAIN b = 1..4 /\ b[1] = x /\ b[2] = t /\ b[3] = p /\ b[4] = r
    BY <1>8
  <2>2. \A n \in 1..4 : n = 1 \/ n = 2 \/ n = 3 \/ n = 4
    OBVIOUS
  <2> QED BY <1>1, <1>6, <1>8, <2>1, <2>2
<1> QED BY <1>6, <1>7, <1>8

-----------------------------------------------------------------------------
Control ==
  /\ step \in {"direct", "solicit", "create", "send", "wait", "parse", "returned", "crashed"}
  /\ caller \in Callers /\ identifier \in Identifiers(caller)
  /\ rounds \in Nat /\ rounds <= MaxRounds
  /\ caller # "requestAndReceiveDhcp" => rounds = 0
  /\ step \in {"solicit", "create", "send", "wait", "parse"} => rounds < MaxRounds
  /\ step = "solicit" => phase = "count" /\ i = 0 /\ length = HeaderSize /\ optionOffset = 0
  /\ step = "create" => phase \in {"count", "copy"}
  /\ step \in {"send", "wait"} => phase = "copy"
  /\ step \in {"send", "wait", "parse"} => caller = "requestAndReceiveDhcp"

(* What a function that has returned leaves.                               *)
Remains ==
  IF caller = "requestAndReceiveDhcp" THEN HeapIs(0, rounds, rounds)
  ELSE HeapIs(OptionCount(caller), 1, IF phase = "copy" THEN 1 ELSE 0)

HeapInv ==
  /\ heap \in [Kinds -> Nat]
  /\ step = "solicit" => HeapIs(0, rounds, rounds)
  /\ step = "create" => HeapIs(Len(options), rounds + 1, IF phase = "copy" THEN rounds + 1 ELSE rounds)
  /\ step \in {"send", "wait", "parse"} => HeapIs(0, rounds + 1, rounds + 1)
  /\ step = "returned" => Remains

(* The nodes: those of the lists that are gone, and those of this round.   *)
NodeInv ==
  /\ listed \in Nat
  /\ step # "direct" => heap["node"] = listed + Len(result.IA_PDList)

GivenInv ==
  step = "create" =>
    /\ Len(options) = OptionCount(caller)
    /\ \A n \in 1..Len(options) : options[n].length = blocks[n].length
    /\ OwnBlock(blocks[1], caller, identifier)
    /\ \A n \in 1..Len(options) : n # 1 => Whole(blocks[n])

RInv == IInv /\ Control /\ HeapInv /\ NodeInv /\ GivenInv

LEMMA RInit == RequestInit => RInv
<1> SUFFICES ASSUME RequestInit PROVE RInv
  OBVIOUS
<1>1. IInv
  BY InvInit DEF RequestInit
<1>2. Control
  BY RequestAssumption DEF RequestInit, Init, Control, Callers, Identifiers
<1>3. HeapInv /\ GivenInv
  BY DEF RequestInit, HeapInv, GivenInv, HeapIs, Kinds
<1>4. NodeInv
  BY DEF RequestInit, Init, NodeInv, NoResult, Kinds
<1> QED BY <1>1, <1>2, <1>3, <1>4 DEF RInv

(* A packet to be created anew, with up to four options.                   *)
LEMMA Fresh ==
  ASSUME IInv, NEW n \in 0..4,
         phase' = "count" /\ i' = 0 /\ length' = HeaderSize /\ optionOffset' = 0,
         options' \in Seq(AnyOption) /\ Len(options') = n,
         UNCHANGED <<packet, msgType, size, reader, unread, result>>
         \/ (packet' = <<>> /\ msgType' = SOLICIT /\ size' = 0 /\ reader' = 0 /\ unread' = 0 /\ result' = NoResult),
         reader' = 0
  PROVE  IInv'
<1>1. 0 \in SizeT /\ HeaderSize \in SizeT
  BY SizeModAssumption, SizeTHoldsOptions DEF SizeT
<1>2. NoResult \in ResultType
  BY DEF NoResult, ResultType, NoOption
<1>3. TypeInv'
  BY <1>1, <1>2 DEF IInv, TypeInv
<1>4. LayoutInv'
  <2>1. n \in Nat /\ n <= 4
    OBVIOUS
  <2>2. SizeMod \in Nat /\ SizeMod > 4 + 4 * 65539
    BY RequestAssumption, BoundIs, SizeModAssumption
  <2>3. Bound(n) < SizeMod
    BY <2>1, <2>2 DEF Bound
  <2> DEFINE e == [m \in 0..0 |-> HeaderSize]
  <2>4. Ends(e, 0) /\ e[0] = HeaderSize
    BY NoEnds
  <2>5. Ends(e, 0)'
    <3>1. /\ e \in [0..0 -> Nat] /\ \A m \in 0..0 : e[m] <= e[0] /\ e[m] <= Bound(m)
          /\ \A l, m \in 0..0 : l < m => e[l] < e[m]
      BY <2>4 DEF Ends
    <3>2. 1..0 = {}
      OBVIOUS
    <3> HIDE DEF e
    <3> QED BY <2>4, <3>1, <3>2 DEF Ends
  <2> HIDE DEF e
  <2>6. \E g : Ends(g, i)' /\ length' = g[i']
    BY <2>4, <2>5 DEF Ends
  <2> QED BY <2>3, <2>6 DEF LayoutInv, Bound
<1> QED BY <1>3, <1>4 DEF IInv, UnreadInv, HeadersStartInside

LEMMA CallIs ==
  ASSUME RInv, Call
  PROVE  /\ step = "solicit" /\ caller' \in Callers /\ identifier' \in Identifiers(caller')
         /\ caller' # "requestAndReceiveDhcp" => rounds = 0
BY DEF Call, RInv, Control

LEMMA SolicitKeeps ==
  ASSUME RInv, Solicit
  PROVE  RInv'
<1>1. /\ step = "solicit" /\ step' = "create"
      /\ caller' \in Callers /\ identifier' \in Identifiers(caller')
      /\ caller' # "requestAndReceiveDhcp" => rounds = 0
  BY CallIs DEF Solicit
<1>2. /\ blocks' = SolicitOptions(caller', identifier')
      /\ options' = [n \in DOMAIN blocks' |-> [code |-> blocks'[n].code, length |-> blocks'[n].length]]
      /\ heap' = [heap EXCEPT !["option"] = @ + Len(blocks'), !["list"] = @ + 1]
      /\ UNCHANGED <<phase, i, length, optionOffset, packet, msgType, size, reader, unread, result,
                     listed, rounds>>
  BY DEF Solicit, parser
<1>3. /\ Len(blocks') = OptionCount(caller') /\ DOMAIN blocks' = 1..Len(blocks')
      /\ \A n \in 1..Len(blocks') : AnyBlock(blocks'[n])
      /\ OwnBlock(blocks'[1], caller', identifier')
      /\ \A n \in 1..Len(blocks') : n # 1 => Whole(blocks'[n])
  BY <1>1, <1>2, ListsAreWhole
<1>4. OptionCount(caller') \in 3..4
  BY DEF OptionCount
<1>5. options' \in Seq(AnyOption) /\ Len(options') = Len(blocks')
  <2> DEFINE k == Len(blocks')
  <2>1. k \in Nat /\ DOMAIN blocks' = 1..k
    BY <1>3, <1>4
  <2>2. \A n \in 1..k : [code |-> blocks'[n].code, length |-> blocks'[n].length] \in AnyOption
    BY <1>3 DEF AnyBlock, AnyOption
  <2>3. options' \in [1..k -> AnyOption]
    BY <1>2, <2>1, <2>2
  <2> HIDE DEF k
  <2>4. options' \in Seq(AnyOption) /\ Len(options') = k
    BY <2>1, <2>3
  <2> QED BY <2>4 DEF k
<1>6. phase = "count" /\ i = 0 /\ length = HeaderSize /\ optionOffset = 0
  BY <1>1 DEF RInv, Control
<1>7. reader = 0
  BY <1>6 DEF RInv, IInv, UnreadInv
<1>8. IInv'
  BY <1>2, <1>3, <1>4, <1>5, <1>6, <1>7, Fresh DEF RInv
<1>9. GivenInv'
  BY <1>2, <1>3, <1>5 DEF GivenInv, OwnBlock, Whole, OptionCount, FitsOption
<1>10. HeapInv' /\ NodeInv'
  <2>1. HeapIs(0, rounds, rounds) /\ heap \in [Kinds -> Nat]
    BY <1>1 DEF RInv, HeapInv
  <2>2. Len(blocks') \in Nat /\ rounds \in Nat
    BY <1>3, <1>4 DEF RInv, Control
  <2>3. /\ heap'["option"] = Len(options') /\ heap'["list"] = rounds + 1 /\ heap'["packet"] = rounds
        /\ heap' \in [Kinds -> Nat] /\ heap'["node"] = heap["node"]
    BY <1>2, <1>5, <2>1, <2>2 DEF HeapIs, Kinds
  <2>4. step' = "create" /\ phase' = "count" /\ rounds' = rounds
    BY <1>1, <1>2, <1>6
  <2>5. HeapInv'
    BY <2>3, <2>4 DEF HeapInv, HeapIs
  <2> QED BY <1>1, <1>2, <2>3, <2>5 DEF NodeInv, RInv
<1>11. Control'
  BY <1>1, <1>2, <1>6 DEF RInv, Control, Identifiers
<1> QED BY <1>8, <1>9, <1>10, <1>11 DEF RInv

LEMMA StuckVars ==
  ASSUME IInv, UNCHANGED vars
  PROVE  IInv' /\ UNCHANGED <<phase, options, i, length, optionOffset, result>>
BY StutterKeeps DEF vars, creator, parser

(* The lists that are no longer reached stay in numbers.                   *)
LEMMA NodesStay ==
  ASSUME NodeInv, step # "direct", heap'["node"] = heap["node"], UNCHANGED <<listed, result>>
  PROVE  NodeInv'
BY DEF NodeInv

LEMMA SolicitFailsKeeps ==
  ASSUME RInv, SolicitFails
  PROVE  RInv'
<1>1. /\ step = "solicit" /\ step' \in {"crashed", "returned"}
      /\ caller' \in Callers /\ identifier' \in Identifiers(caller')
      /\ caller' # "requestAndReceiveDhcp" => rounds = 0
      /\ UNCHANGED <<vars, blocks, listed, rounds>>
  BY CallIs DEF SolicitFails
<1>2. IInv' /\ UNCHANGED <<phase, options, i, length, optionOffset, result>>
  BY <1>1, StuckVars DEF RInv
<1>3. GivenInv'
  BY <1>1 DEF GivenInv
<1>4. Control'
  BY <1>1, <1>2 DEF RInv, Control, Identifiers
<1>5. phase = "count" /\ HeapIs(0, rounds, rounds) /\ heap \in [Kinds -> Nat] /\ rounds \in Nat
  BY <1>1 DEF RInv, Control, HeapInv
<1>6. CASE caller' = "requestAndReceiveDhcp"
  <2>1. step' = "crashed" /\ heap' = [heap EXCEPT !["list"] = @ + 1]
    BY <1>6 DEF SolicitFails, Allocate1
  <2>2. heap' \in [Kinds -> Nat] /\ heap'["node"] = heap["node"]
    BY <1>5, <2>1 DEF Kinds
  <2>3. HeapInv'
    BY <2>1, <2>2 DEF HeapInv
  <2>4. NodeInv'
    BY <1>1, <1>2, <2>2, NodesStay DEF RInv
  <2> QED BY <1>2, <1>3, <1>4, <2>3, <2>4 DEF RInv
<1>7. CASE caller' # "requestAndReceiveDhcp"
  <2> DEFINE k == Len(SolicitOptions(caller', identifier'))
  <2>1. step' = "returned" /\ heap' = [heap EXCEPT !["option"] = @ + k, !["list"] = @ + 1]
    BY <1>7 DEF SolicitFails
  <2>2. k = OptionCount(caller')
    BY <1>1, ListsAreWhole
  <2> HIDE DEF k
  <2>3. k \in Nat
    BY <2>2 DEF OptionCount
  <2>4. /\ heap' \in [Kinds -> Nat] /\ heap'["node"] = heap["node"]
        /\ heap'["option"] = k /\ heap'["list"] = 1 /\ heap'["packet"] = 0
    BY <1>1, <1>5, <1>7, <2>1, <2>3 DEF Kinds, HeapIs
  <2>5. HeapInv'
    BY <1>2, <1>5, <1>7, <2>1, <2>2, <2>4 DEF HeapInv, HeapIs, Remains, OptionCount
  <2>6. NodeInv'
    BY <1>1, <1>2, <2>4, NodesStay DEF RInv
  <2> QED BY <1>2, <1>3, <1>4, <2>5, <2>6 DEF RInv
<1> QED BY <1>6, <1>7

LEMMA CreatePacketKeeps ==
  ASSUME RInv, CreatePacket
  PROVE  RInv'
<1>1. step = "create" /\ UNCHANGED <<step, caller, identifier, blocks, listed, rounds>>
  BY DEF CreatePacket
<1>2. IInv'
  BY CreateKeeps DEF CreatePacket, Create, RInv
<1>3. UNCHANGED <<options, result>> /\ phase' \in {"count", "copy"}
  BY DEF CreatePacket, CountOption, Allocate, CopyOption, RInv, Control, parser
<1>4. GivenInv' /\ Control'
  BY <1>1, <1>3 DEF RInv, GivenInv, Control
<1>5. HeapInv' /\ NodeInv'
  <2>1. heap \in [Kinds -> Nat] /\ rounds \in Nat
        /\ HeapIs(Len(options), rounds + 1, IF phase = "copy" THEN rounds + 1 ELSE rounds)
    BY <1>1 DEF RInv, HeapInv, Control
  <2>2. CASE Allocate /\ Allocate1("packet")
    <3>1. phase = "count" /\ phase' = "copy" /\ heap' = [heap EXCEPT !["packet"] = @ + 1]
      BY <2>2 DEF Allocate, Allocate1
    <3>2. HeapInv' /\ heap'["node"] = heap["node"]
      BY <1>1, <1>3, <2>1, <3>1 DEF HeapInv, HeapIs, Kinds
    <3> QED BY <1>1, <1>3, <3>2, NodesStay DEF RInv
  <2>3. CASE (CountOption \/ CopyOption) /\ UNCHANGED heap
    <3>1. phase' = phase /\ heap' = heap
      BY <2>3 DEF CountOption, CopyOption
    <3>2. HeapInv'
      BY <1>1, <1>3, <2>1, <3>1 DEF HeapInv, HeapIs
    <3> QED BY <1>1, <1>3, <3>1, <3>2, NodesStay DEF RInv
  <2> QED BY <2>2, <2>3 DEF CreatePacket
<1> QED BY <1>2, <1>4, <1>5 DEF RInv

LEMMA CreatedKeeps ==
  ASSUME RInv, Created
  PROVE  RInv'
<1>1. /\ step = "create" /\ phase = "copy"
      /\ UNCHANGED <<vars, caller, identifier, blocks, listed, rounds>>
      /\ \/ /\ caller = "requestAndReceiveDhcp" /\ step' = "send"
            /\ heap' = [heap EXCEPT !["option"] = @ - Len(options)]
         \/ caller # "requestAndReceiveDhcp" /\ step' = "returned" /\ UNCHANGED heap
  BY DEF Created
<1>2. IInv' /\ UNCHANGED <<phase, options, i, length, optionOffset, result>>
  BY <1>1, StuckVars DEF RInv
<1>3. GivenInv' /\ Control'
  BY <1>1, <1>2 DEF RInv, GivenInv, Control
<1>4. /\ heap \in [Kinds -> Nat] /\ HeapIs(Len(options), rounds + 1, rounds + 1)
      /\ Len(options) \in Nat /\ rounds \in Nat /\ Len(options) = OptionCount(caller)
  BY <1>1 DEF RInv, HeapInv, IInv, TypeInv, Control, GivenInv
<1>5. HeapInv' /\ heap'["node"] = heap["node"]
  <2>1. CASE caller = "requestAndReceiveDhcp"
    BY <1>1, <1>4, <2>1 DEF HeapInv, HeapIs, Kinds
  <2>2. CASE caller # "requestAndReceiveDhcp"
    <3>1. rounds = 0
      BY <2>2 DEF RInv, Control
    <3> QED BY <1>1, <1>2, <1>4, <2>2, <3>1 DEF HeapInv, HeapIs, Remains, OptionCount
  <2> QED BY <2>1, <2>2
<1> QED BY <1>1, <1>2, <1>3, <1>5, NodesStay DEF RInv

LEMMA EndRoundKeeps ==
  ASSUME RInv, step \in {"send", "parse"}, EndRound, UNCHANGED <<caller, identifier, heap>>
  PROVE  RInv'
<1>1. /\ rounds' = rounds + 1 /\ listed' = listed + Len(result.IA_PDList)
      /\ step' = IF rounds' < MaxRounds THEN "solicit" ELSE "returned"
      /\ phase' = "count" /\ options' = <<>> /\ i' = 0 /\ length' = HeaderSize /\ optionOffset' = 0
      /\ packet' = <<>> /\ msgType' = SOLICIT /\ size' = 0
      /\ reader' = 0 /\ unread' = 0 /\ result' = NoResult
  BY DEF EndRound
<1>2. IInv'
  <2>1. options' \in Seq(AnyOption) /\ Len(options') = 0
    BY <1>1
  <2> QED BY <1>1, <2>1, Fresh DEF RInv
<1>3. Control'
  BY <1>1, RequestAssumption DEF RInv, Control
<1>4. HeapInv' /\ GivenInv'
  BY <1>1 DEF RInv, Control, HeapInv, HeapIs, Remains, GivenInv
<1>5. NodeInv'
  <2>1. Len(result.IA_PDList) \in Nat /\ listed \in Nat /\ heap["node"] = listed + Len(result.IA_PDList)
    BY DEF RInv, IInv, TypeInv, ResultType, NodeInv
  <2>2. Len(result'.IA_PDList) = 0
    BY <1>1 DEF NoResult
  <2> QED BY <1>1, <2>1, <2>2 DEF NodeInv
<1> QED BY <1>2, <1>3, <1>4, <1>5 DEF RInv

LEMMA ReceiveKeeps ==
  ASSUME RInv, Receive
  PROVE  RInv'
<1>1. /\ step = "wait" /\ step' = "parse" /\ phase' = "check" /\ size' \in Sizes
      /\ msgType' \in {SOLICIT, ADVERTISE, REPLY}
      /\ options' = <<>> /\ packet' = <<>> /\ i' = 0 /\ length' = HeaderSize /\ optionOffset' = 0
      /\ UNCHANGED <<reader, unread, result, caller, identifier, blocks, heap, listed, rounds>>
  BY DEF Receive, parser
<1>2. reader = 0
  BY <1>1 DEF RInv, Control, IInv, UnreadInv
<1>3. 0 \in SizeT /\ HeaderSize \in SizeT /\ size' \in SizeT
  BY <1>1, PacketAssumption, SizeModAssumption, SizeTHoldsOptions DEF SizeT
<1>4. TypeInv'
  BY <1>1, <1>3 DEF RInv, IInv, TypeInv
<1>5. LayoutInv'
  <2>1. Len(options') = 0 /\ Bound(0) < SizeMod
    BY <1>1, SizeModAssumption DEF Bound
  <2> QED BY <1>1, <2>1 DEF LayoutInv, Bound
<1>6. IInv'
  BY <1>1, <1>2, <1>4, <1>5 DEF IInv, UnreadInv, HeadersStartInside
<1>7. Control' /\ GivenInv'
  BY <1>1 DEF RInv, Control, GivenInv
<1>8. HeapInv' /\ NodeInv'
  BY <1>1 DEF RInv, HeapInv, HeapIs, NodeInv
<1> QED BY <1>6, <1>7, <1>8 DEF RInv

(* Before a packet is parsed, the result is empty.                         *)
Unparsed ==
  phase \in {"count", "copy", "check"} \/ step \in {"send", "wait"} => result = NoResult

LEMMA UnparsedInvariant == RequestSpec => []Unparsed
<1>1. RequestInit => Unparsed
  BY DEF RequestInit, Init, Unparsed
<1>2. Unparsed /\ [RequestNext]_<<vars, requestVars>> => Unparsed'
  <2> SUFFICES ASSUME Unparsed, [RequestNext]_<<vars, requestVars>> PROVE Unparsed'
    OBVIOUS
  <2>1. CASE Direct \/ CreatePacket \/ Parse
    <3>1. step' = step /\ step \in {"direct", "create", "parse"}
      BY <2>1 DEF Direct, CreatePacket, Parse, requestVars
    <3>2. CASE Create
      BY <3>1, <3>2 DEF Create, CountOption, Allocate, CopyOption, Deliver, parser, Unparsed
    <3>3. CASE CheckPacket
      <4>1. phase' \in {"parse", "done"}
        BY <3>3 DEF CheckPacket, Finish
      <4> QED BY <3>1, <4>1 DEF Unparsed
    <3>4. CASE ParseOption
      <4>1. phase' \in {"parse", "done"}
        BY <3>4 DEF ParseOption, NextOption, Finish
      <4> QED BY <3>1, <4>1 DEF Unparsed
    <3> QED BY <2>1, <3>2, <3>3, <3>4 DEF Direct, CreatePacket, Parse, Next, Create
  <2>2. CASE Solicit \/ Receive
    BY <2>2 DEF Solicit, Call, Receive, parser, Unparsed
  <2>3. CASE SolicitFails \/ Created \/ TakeNothing \/ CopyFaults \/ Send \/ ReceiveFails
    <3>1. UNCHANGED <<phase, result>>
      BY <2>3 DEF SolicitFails, Created, TakeNothing, CopyFaults, Send, ReceiveFails, vars, parser
    <3>2. \/ step' \in {"crashed", "returned"}
          \/ step' = "send" /\ phase = "copy"
          \/ step' = "wait" /\ step = "send"
      BY <2>3 DEF SolicitFails, Created, TakeNothing, CopyFaults, Send, ReceiveFails
    <3> QED BY <3>1, <3>2 DEF Unparsed
  <2>4. CASE SendFails \/ TakePrefix
    BY <2>4 DEF SendFails, TakePrefix, EndRound, Unparsed
  <2>5. CASE UNCHANGED <<vars, requestVars>>
    BY <2>5 DEF vars, parser, requestVars, Unparsed
  <2> QED BY <2>1, <2>2, <2>3, <2>4, <2>5 DEF RequestNext, Progress, Environment
<1> QED BY <1>1, <1>2, PTL DEF RequestSpec

LEMMA ParsesKeep ==
  ASSUME RInv, Unparsed, Parse
  PROVE  RInv'
<1>1. step = "parse" /\ UNCHANGED <<step, caller, identifier, blocks, listed, rounds>>
  BY DEF Parse
<1>2. IInv'
  BY CheckKeeps, ParseKeeps DEF Parse, RInv
<1>3. Len(result'.IA_PDList) \in Nat /\ Len(result.IA_PDList) \in Nat
  BY <1>2 DEF RInv, IInv, TypeInv, ResultType
<1>4. /\ heap \in [Kinds -> Nat] /\ HeapIs(0, rounds + 1, rounds + 1)
      /\ listed \in Nat /\ heap["node"] = listed + Len(result.IA_PDList)
  BY <1>1 DEF RInv, HeapInv, NodeInv
<1>5. HeapInv' /\ NodeInv'
  <2>1. CASE CheckPacket /\ UNCHANGED heap
    <3>1. HeapInv'
      BY <1>1, <1>4, <2>1 DEF HeapInv, HeapIs
    <3>2. result' \in {result, NoResult} /\ phase = "check"
      BY <2>1 DEF CheckPacket, Finish
    <3>3. UNCHANGED result
      BY <3>2 DEF Unparsed
    <3> QED BY <1>1, <2>1, <3>1, <3>3, NodesStay DEF RInv
  <2>2. CASE ParseOption /\ heap' = [heap EXCEPT !["node"] = @ + Len(result'.IA_PDList) - Len(result.IA_PDList)]
    <3>1. PICK m \in Nat : m = Len(result'.IA_PDList)
      BY <1>3
    <3>2. PICK n \in Nat : n = Len(result.IA_PDList)
      BY <1>3
    <3>3. heap["node"] = listed + n /\ heap' = [heap EXCEPT !["node"] = (listed + n) + m - n]
      BY <1>4, <2>2, <3>1, <3>2
    <3>4. (listed + n) + m - n = listed + m /\ listed + m \in Nat
      BY <1>4
    <3>5. heap' = [heap EXCEPT !["node"] = listed + m]
      BY <3>3, <3>4
    <3>6. /\ heap' \in [Kinds -> Nat] /\ heap'["node"] = listed + m
          /\ heap'["option"] = heap["option"] /\ heap'["list"] = heap["list"]
          /\ heap'["packet"] = heap["packet"]
      BY <1>4, <3>4, <3>5 DEF Kinds
    <3>7. HeapInv'
      BY <1>1, <1>4, <3>6 DEF HeapInv, HeapIs
    <3> QED BY <1>1, <1>4, <3>1, <3>6, <3>7 DEF NodeInv
  <2> QED BY <2>1, <2>2 DEF Parse
<1> QED BY <1>1, <1>2, <1>5 DEF RInv, Control, GivenInv

(* A step that only ends the process, or begins to wait.                   *)
LEMMA StopsKeep ==
  ASSUME RInv, SendFails \/ TakePrefix \/ TakeNothing \/ CopyFaults \/ Send \/ ReceiveFails
  PROVE  RInv'
<1>1. CASE SendFails \/ TakePrefix
  BY <1>1, EndRoundKeeps DEF SendFails, TakePrefix
<1>2. CASE TakeNothing \/ CopyFaults \/ ReceiveFails
  <2>1. /\ step # "direct" /\ step' = "crashed"
        /\ UNCHANGED <<vars, caller, identifier, blocks, heap, listed, rounds>>
    BY <1>2 DEF TakeNothing, CopyFaults, ReceiveFails
  <2>2. IInv' /\ UNCHANGED <<phase, options, i, length, optionOffset, result>>
    BY <2>1, StuckVars DEF RInv
  <2> QED BY <2>1, <2>2, NodesStay DEF RInv, Control, HeapInv, GivenInv
<1>3. CASE Send
  <2>1. /\ step = "send" /\ step' = "wait"
        /\ UNCHANGED <<vars, caller, identifier, blocks, heap, listed, rounds>>
    BY <1>3 DEF Send
  <2>2. IInv' /\ UNCHANGED <<phase, options, i, length, optionOffset, result>>
    BY <2>1, StuckVars DEF RInv
  <2> QED BY <2>1, <2>2, NodesStay DEF RInv, Control, HeapInv, HeapIs, GivenInv
<1> QED BY <1>1, <1>2, <1>3

LEMMA DirectKeeps ==
  ASSUME RInv, Direct
  PROVE  RInv'
<1>1. /\ step = "direct" /\ Next
      /\ UNCHANGED <<step, caller, identifier, blocks, heap, listed, rounds>>
  BY DEF Direct, requestVars
<1> QED BY <1>1, NextKeeps DEF RInv, Control, HeapInv, NodeInv, GivenInv

LEMMA RequestInvariant == RequestSpec => []RInv
<1>1. RInv /\ Unparsed /\ [RequestNext]_<<vars, requestVars>> => RInv'
  <2> SUFFICES ASSUME RInv, Unparsed, [RequestNext]_<<vars, requestVars>> PROVE RInv'
    OBVIOUS
  <2>1. CASE UNCHANGED <<vars, requestVars>>
    BY <2>1, StuckVars
    DEF requestVars, RInv, Control, HeapInv, HeapIs, Remains, NodeInv, GivenInv
  <2> QED BY <2>1, SolicitKeeps, SolicitFailsKeeps, CreatePacketKeeps, CreatedKeeps, ReceiveKeeps,
             ParsesKeep, StopsKeep, DirectKeeps DEF RequestNext, Progress, Environment
<1> QED BY <1>1, RInit, UnparsedInvariant, PTL DEF RequestSpec

(* A caller starts again with an empty result, and parses with one.        *)
LEMMA RequestNotes == ASSUME RInv, NotedInv, RequestNext PROVE NotedInv'
<1>1. CASE Solicit \/ Receive
  <2>1. step \in {"solicit", "wait"} /\ UNCHANGED result /\ phase' \in {phase, "check"}
    BY <1>1 DEF Solicit, Call, Receive, parser
  <2>2. phase \in {"count", "copy"}
    BY <2>1 DEF RInv, Control
  <2> QED BY <2>1, <2>2, NotedBefore
<1>2. CASE SolicitFails \/ Created \/ TakeNothing \/ CopyFaults \/ Send \/ ReceiveFails
  BY <1>2, NotedStutter DEF SolicitFails, Created, TakeNothing, CopyFaults, Send, ReceiveFails
<1>3. CASE CreatePacket
  BY <1>3, CreateNotes DEF CreatePacket, Create
<1>4. CASE SendFails \/ TakePrefix
  <2>1. phase' = "count" /\ result' = NoResult
    BY <1>4 DEF SendFails, TakePrefix, EndRound
  <2>2. \A code \in {CLIENTID, SERVERID, IA_PD} : Noted(result', code) = {}
    BY <2>1, NothingNoted
  <2>3. result'.IA_PDList = <<>>
    BY <2>1 DEF NoResult
  <2> QED BY <2>1, <2>2, <2>3 DEF NotedInv, NotedOptionsRead
<1>5. CASE Parse
  BY <1>5, CheckNotes, ParseNotes DEF Parse, RInv
<1>6. CASE Direct
  BY <1>6, NextNotes DEF Direct, RInv
<1> QED BY <1>1, <1>2, <1>3, <1>4, <1>5, <1>6 DEF RequestNext, Progress, Environment

(* Round after round, and for each public caller's identifier of any size, *)
(* with bytes or without: every option is copied from a block that is still*)
(* allocated; whole, unless that identifier has no bytes or more than      *)
(* OptionLength can hold; and then still from inside the block, unless the *)
(* size and the header's have wrapped around.                              *)
THEOREM OptionsCopiedWhole == RequestSpec => []CopiesWholeOptions
<1>1. RInv => CopiesWholeOptions
  <2> SUFFICES ASSUME RInv, step = "create", phase = "copy", i < Len(options)
               PROVE  LET b == blocks[i + 1]
                          n == SizeOf(options[i + 1])
                      IN /\ heap["option"] = Len(options)
                         /\ \/ Whole(b) /\ n = b.allocated
                            \/ i = 0 /\ caller # "requestAndReceiveDhcp" /\ ~FitsOption(identifier)
                         /\ n <= b.allocated \/ identifier.size + HeaderSize >= SizeMod
    BY DEF CopiesWholeOptions
  <2> DEFINE b == blocks[i + 1]
             n == SizeOf(options[i + 1])
  <2>1. i + 1 \in 1..Len(options) /\ i \in Nat /\ (i + 1 = 1 => i = 0)
    BY DEF RInv, IInv, TypeInv
  <2>2. heap["option"] = Len(options)
    BY DEF RInv, HeapInv, HeapIs
  <2>3. n = b.length + HeaderSize
    BY <2>1 DEF RInv, GivenInv, SizeOf
  <2>4. n \in Nat
    BY <2>1, OptionParts, Limits DEF RInv, IInv, TypeInv, SizeOf
  <2>5. Whole(b) \/ (i = 0 /\ OwnBlock(b, caller, identifier))
    <3>1. CASE i + 1 = 1
      <4>1. i = 0 /\ OwnBlock(blocks[i + 1], caller, identifier)
        BY <2>1, <3>1 DEF RInv, GivenInv
      <4> QED BY <4>1
    <3>2. CASE i + 1 # 1
      BY <2>1, <3>2 DEF RInv, GivenInv
    <3> QED BY <3>1, <3>2
  <2> HIDE DEF b, n
  <2>6. Whole(b) => n = b.allocated /\ n <= b.allocated
    BY <2>3, <2>4 DEF Whole
  <2>7. OwnBlock(b, caller, identifier) =>
          \/ Whole(b)
          \/ /\ caller # "requestAndReceiveDhcp" /\ ~FitsOption(identifier)
             /\ n <= b.allocated \/ identifier.size + HeaderSize >= SizeMod
    BY <2>3 DEF OwnBlock
  <2> QED BY <2>2, <2>5, <2>6, <2>7 DEF b, n
<1> QED BY <1>1, RequestInvariant, PTL

(* However many rounds, and whatever is received: each leaves one packet   *)
(* and one option list behind, no option, and the nodes of the IA_PD       *)
(* options it was sent; the public functions leave their options, too,     *)
(* with a packet or without.                                               *)
THEOREM EachRoundLeaks == RequestSpec => []RoundsLeak
<1>1. RInv => RoundsLeak
  <2> SUFFICES ASSUME RInv PROVE RoundsLeak
    OBVIOUS
  <2>1. step = "solicit" => HeapIs(0, rounds, rounds)
    BY DEF RInv, HeapInv
  <2>2. caller \in Callers /\ (step = "returned" => Remains)
    BY DEF RInv, HeapInv, Control
  <2>3. step # "direct" => heap["node"] = listed + Len(result.IA_PDList)
    BY DEF RInv, NodeInv
  <2> QED BY <2>1, <2>2, <2>3 DEF RoundsLeak, Remains, OptionCount, Callers
<1> QED BY <1>1, RequestInvariant, PTL

(* No counter of blocks falls below zero: nothing is freed twice.          *)
THEOREM RequestTypesKept == RequestSpec => []RequestTypeOK
<1>1. RInv => RequestTypeOK
  <2> SUFFICES ASSUME RInv PROVE RequestTypeOK
    OBVIOUS
  <2>1. rounds \in 0..MaxRounds
    BY RequestAssumption DEF RInv, Control
  <2> QED BY <2>1, Implied DEF RInv, Control, HeapInv, NodeInv, RequestTypeOK
<1> QED BY <1>1, RequestInvariant, PTL

(* What DhPacketsProofs shows of one packet holds in every round.          *)
THEOREM RoundsKeepPackets == RequestSpec => [](CopyFillsPacket /\ HeadersStartInside)
<1>1. RInv => CopyFillsPacket /\ HeadersStartInside
  BY Implied DEF RInv, IInv
<1> QED BY <1>1, RequestInvariant, PTL

(* In every round, what requestAndReceiveDhcp dereferences is an option    *)
(* that was read, where the reply has any.                                 *)
THEOREM NotedInRounds == RequestSpec => []NotedOptionsRead
<1>1. RequestInit => NotedInv
  BY NotedInit DEF RequestInit
<1>2. RInv /\ NotedInv /\ [RequestNext]_<<vars, requestVars>> => NotedInv'
  BY RequestNotes, NotedStutter
<1>3. NotedInv => NotedOptionsRead
  BY DEF NotedInv
<1> QED BY <1>1, <1>2, <1>3, RequestInvariant, PTL DEF RequestSpec
-----------------------------------------------------------------------------
(* No step is taken in vain.                                               *)

InPackets == step \notin {"solicit", "send", "wait", "returned", "crashed"}

LEMMA Stages ==
  /\ step = "solicit" => Stage = 0
  /\ step = "send" => Stage = 3
  /\ step = "wait" => Stage = 4
  /\ step \in {"returned", "crashed"} => Stage = 8
  /\ InPackets => /\ phase = "count" => Stage = 1
                  /\ phase = "copy" => Stage = 2
                  /\ phase = "check" => Stage = 5
                  /\ phase = "parse" => Stage = 6
                  /\ phase = "done" => Stage = 7
BY DEF Stage, InPackets

LEMMA StagesNext ==
  /\ step' = "solicit" => Stage' = 0
  /\ step' = "send" => Stage' = 3
  /\ step' = "wait" => Stage' = 4
  /\ step' \in {"returned", "crashed"} => Stage' = 8
  /\ InPackets' => /\ phase' = "count" => Stage' = 1
                   /\ phase' = "copy" => Stage' = 2
                   /\ phase' = "check" => Stage' = 5
                   /\ phase' = "parse" => Stage' = 6
                   /\ phase' = "done" => Stage' = 7
BY DEF Stage, InPackets

LEMMA LessIsLeft ==
  ASSUME NEW a \in Nat, NEW b \in Nat, NEW c \in Nat, NEW h \in Nat, a < b, h + b < c
  PROVE  c - b \in 0..(c - a - 1)
OBVIOUS

(* Each step of the creator and of the parser, whoever called them.        *)
LEMMA PacketsWindDown ==
  ASSUME IInv, InPackets, step' = step, Next
  PROVE  Stage < Stage' \/ (Stage' = Stage /\ Left' \in 0..(Left - 1))
<1>1. InPackets'
  BY DEF InPackets
<1>2. CASE CountOption \/ CopyOption
  <2>1. /\ phase \in {"count", "copy"} /\ phase' = phase
        /\ i < Len(options) /\ i' = i + 1 /\ options' = options
    BY <1>2 DEF CountOption, CopyOption
  <2>2. Left = Len(options) - i /\ Left' = Len(options) - i'
    BY <2>1 DEF Left
  <2>3. i \in Nat /\ Len(options) \in Nat
    BY DEF IInv, TypeInv
  <2>4. Stage' = Stage
    BY <1>1, <2>1, Stages, StagesNext
  <2> QED BY <2>1, <2>2, <2>3, <2>4
<1>3. CASE Allocate \/ Deliver
  <2>1. (phase = "count" /\ phase' = "copy") \/ (phase = "copy" /\ phase' = "check")
    BY <1>3 DEF Allocate, Deliver
  <2> QED BY <1>1, <2>1, Stages, StagesNext
<1>4. CASE CheckPacket
  <2>1. phase = "check" /\ phase' \in {"parse", "done"}
    BY <1>4 DEF CheckPacket, Finish
  <2> QED BY <1>1, <2>1, Stages, StagesNext
<1>5. CASE ParseOption
  <2>1. phase = "parse" /\ size' = size
    BY <1>5 DEF ParseOption
  <2>2. CASE phase' = "parse"
    <3>1. reader \in Nat /\ reader' \in Nat /\ size \in Nat
      BY <1>5, ParseKeeps, SizeModAssumption DEF IInv, TypeInv, SizeT
    <3>2. reader < reader' /\ HeaderSize + reader' < size
      BY <1>5, <2>2, ParseAdvances
    <3>3. size - reader' \in 0..(size - reader - 1)
      BY <3>1, <3>2, Limits, LessIsLeft
    <3>4. Left = size - reader /\ Left' = size - reader'
      BY <2>1, <2>2 DEF Left
    <3>5. Stage' = Stage
      BY <1>1, <2>1, <2>2, Stages, StagesNext
    <3> QED BY <3>3, <3>4, <3>5
  <2>3. phase' \in {"parse", "done"}
    BY <1>5 DEF ParseOption, NextOption, Finish
  <2> QED BY <1>1, <2>1, <2>2, <2>3, Stages, StagesNext
<1> QED BY <1>2, <1>3, <1>4, <1>5 DEF Next, Create

(* Whatever the callers give, whatever is received and whatever fails: the *)
(* rounds are counted, the statements of a round follow one another, and   *)
(* every turn of a loop leaves less for the next.  With this, and a reply  *)
(* to every request, a round ends as long as steps are taken at all.       *)
THEOREM NoStepInVain == RequestSpec => StepsWindDown
<1> DEFINE Goes == \/ rounds' = rounds + 1
                   \/ rounds' = rounds /\ Stage < Stage'
                   \/ rounds' = rounds /\ Stage' = Stage /\ Left' \in 0..(Left - 1)
<1>1. ASSUME RInv, RequestNext PROVE Goes
  <2>1. CASE Solicit
    <3>1. step = "solicit" /\ step' = "create" /\ rounds' = rounds /\ phase' = phase
      BY <2>1 DEF Solicit, Call
    <3>2. phase' = "count" /\ InPackets'
      BY <1>1, <3>1 DEF RInv, Control, InPackets
    <3> QED BY <3>1, <3>2, Stages, StagesNext
  <2>2. CASE SolicitFails
    <3>1. step = "solicit" /\ step' \in {"returned", "crashed"} /\ rounds' = rounds
      BY <2>2 DEF SolicitFails, Call
    <3> QED BY <3>1, Stages, StagesNext
  <2>3. CASE Created
    <3>1. /\ step = "create" /\ phase = "copy" /\ step' \in {"send", "returned"}
          /\ rounds' = rounds
      BY <2>3 DEF Created
    <3>2. InPackets
      BY <3>1 DEF InPackets
    <3> QED BY <3>1, <3>2, Stages, StagesNext
  <2>4. CASE SendFails \/ TakePrefix
    BY <2>4 DEF SendFails, TakePrefix, EndRound
  <2>5. CASE Receive
    <3>1. step = "wait" /\ step' = "parse" /\ phase' = "check" /\ rounds' = rounds
      BY <2>5 DEF Receive
    <3>2. InPackets'
      BY <3>1 DEF InPackets
    <3> QED BY <3>1, <3>2, Stages, StagesNext
  <2>6. CASE Send \/ ReceiveFails
    <3>1. /\ rounds' = rounds
          /\ \/ step = "send" /\ step' = "wait"
             \/ step = "wait" /\ step' = "crashed"
      BY <2>6 DEF Send, ReceiveFails
    <3> QED BY <3>1, Stages, StagesNext
  <2>8. CASE TakeNothing \/ CopyFaults
    <3>1. /\ step \in {"parse", "create"} /\ phase \in {"done", "copy"}
          /\ step' = "crashed" /\ rounds' = rounds
      BY <2>8 DEF TakeNothing, CopyFaults
    <3>2. InPackets
      BY <3>1 DEF InPackets
    <3> QED BY <3>1, <3>2, Stages, StagesNext
  <2>7. CASE CreatePacket \/ Parse \/ Direct
    <3>1. step \in {"create", "parse", "direct"} /\ step' = step /\ rounds' = rounds
      BY <2>7 DEF CreatePacket, Parse, Direct, requestVars
    <3>2. Next
      BY <2>7 DEF CreatePacket, Parse, Direct, Next, Create
    <3>3. InPackets
      BY <3>1 DEF InPackets
    <3> QED BY <1>1, <3>1, <3>2, <3>3, PacketsWindDown DEF RInv
  <2> QED BY <1>1, <2>1, <2>2, <2>3, <2>4, <2>5, <2>6, <2>7, <2>8 DEF RequestNext, Progress, Environment
<1>2. RInv /\ [RequestNext]_<<vars, requestVars>> => [Goes]_<<vars, requestVars>>
  <2> HIDE DEF Goes
  <2> QED BY <1>1
<1> QED BY <1>2, RequestInvariant, PTL DEF RequestSpec, StepsWindDown
=============================================================================
