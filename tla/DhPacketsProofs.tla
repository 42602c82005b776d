-------------------------- MODULE DhPacketsProofs --------------------------
(***************************************************************************)
(* Packets of any size, with options of any length: dh_createPacket stays  *)
(* inside what it counted, and the bounds test of dh_parseOptions is enough*)
(* for the start of every header, whatever the headers say.                *)
(***************************************************************************)
EXTENDS DhPackets, TLAPS

(* No step but the bounds of a field needs their values.                   *)
LEMMA Limits == MaxField \in Nat /\ HeaderSize \in Nat /\ HeaderSize > 0
BY DEF MaxField, HeaderSize

LEMMA FieldParts ==
  ASSUME NEW f \in Field
  PROVE  f[1] \in 0..255 /\ f[2] \in 0..255
BY DEF Field, Byte

LEMMA HostIsNat == ASSUME NEW f \in Field PROVE Host(f) \in 0..MaxField
<1> DEFINE a == f[1]
           b == f[2]
<1>1. a \in Nat /\ b \in Nat /\ a <= 255 /\ b <= 255
  BY FieldParts
<1>2. Host(f) = a + 256 * b
  BY DEF Host
<1> HIDE DEF a, b
<1>3. Host(f) \in Nat
  BY <1>1, <1>2
<1>4. Host(f) <= MaxField
  BY <1>1, <1>2 DEF MaxField
<1> QED BY <1>3, <1>4, Limits

LEMMA StoredIsField ==
  ASSUME NEW v \in Nat, v <= MaxField
  PROVE  Stored(v) \in Field
<1>1. v % 256 \in 0..255
  OBVIOUS
<1>2. v \div 256 \in 0..255
  <2>1. v \div 256 \in Nat
    OBVIOUS
  <2>2. v \div 256 <= 255
    BY DEF MaxField
  <2> QED BY <2>1, <2>2
<1> DEFINE low == v % 256
           high == v \div 256
<1>3. Stored(v) = <<low, high>>
  BY DEF Stored
<1>4. low \in 0..255 /\ high \in 0..255
  BY <1>1, <1>2
<1> HIDE DEF low, high
<1> QED BY <1>3, <1>4 DEF Field, Byte

LEMMA SwapIsField == ASSUME NEW f \in Field PROVE be16toh(f) \in Field
BY FieldParts DEF be16toh, Field, Byte

LEMMA OptionParts ==
  ASSUME NEW o \in AnyOption
  PROVE  o.code \in 0..MaxField /\ o.length \in 0..MaxField
BY DEF AnyOption

LEMMA OptionIsAny == Option \subseteq AnyOption
BY PacketAssumption DEF Option, AnyOption

LEMMA OnWireIsHeader == ASSUME NEW o \in AnyOption PROVE OnWire(o) \in Header
<1>1. o.code \in Nat /\ o.code <= MaxField /\ o.length \in Nat /\ o.length <= MaxField
  BY OptionParts, Limits
<1>2. be16toh(Stored(o.code)) \in Field /\ be16toh(Stored(o.length)) \in Field
  BY <1>1, StoredIsField, SwapIsField
<1> QED BY <1>2 DEF OnWire, Header, htobe16

LEMMA SizeBounds == ASSUME NEW o \in AnyOption PROVE SizeOf(o) \in HeaderSize..(MaxField + HeaderSize)
BY OptionParts, Limits DEF SizeOf

(* Four bytes of message header, and n options of the largest size.        *)
Bound(n) == 4 + n * 65539

LEMMA BoundIs == HeaderSize = 4 /\ MaxField + HeaderSize = 65539
BY DEF HeaderSize, MaxField

LEMMA SizeModAssumption ==
  /\ SizeMod \in Nat /\ SizeMod > MaxField + HeaderSize
  /\ MaxOptions \in Nat /\ SizeMod > Bound(MaxOptions)
<1>1. /\ SizeMod \in Nat /\ MaxOptions \in Nat
      /\ SizeMod > HeaderSize + (MaxOptions + 1) * (MaxField + HeaderSize)
  BY PacketAssumption
<1>2. SizeMod > 4 + (MaxOptions + 1) * 65539
  BY <1>1, BoundIs
<1> QED BY <1>1, <1>2, BoundIs DEF Bound

(* size_t arithmetic stays below SizeMod.                                  *)
SizeT == 0..(SizeMod - 1)

LEMMA SizeTClosed ==
  ASSUME NEW a \in SizeT, NEW b \in SizeT
  PROVE  Plus(a, b) \in SizeT /\ Minus(a, b) \in SizeT
BY SizeModAssumption DEF SizeT, Plus, Minus

LEMMA SizeTHoldsOptions ==
  /\ HeaderSize \in SizeT
  /\ \A n \in HeaderSize..(MaxField + HeaderSize) : n \in SizeT
  /\ \A o \in AnyOption : SizeOf(o) \in SizeT
BY SizeModAssumption, Limits, SizeBounds DEF SizeT

-----------------------------------------------------------------------------
ResultType == [success : BOOLEAN, ClientIdentifier : Nat \cup {NoOption},
               ServerIdentifier : Nat \cup {NoOption}, IA_PDList : Seq(Nat)]

(* TypeOK, one number at a time.                                           *)
TypeInv ==
  /\ phase \in {"count", "copy", "check", "parse", "done"}
  /\ options \in Seq(AnyOption)
  /\ i \in 0..Len(options)
  /\ length \in SizeT /\ optionOffset \in SizeT /\ size \in SizeT /\ unread \in SizeT
  /\ DOMAIN packet \subseteq Nat
  /\ \A n \in DOMAIN packet : packet[n] \in Header
  /\ msgType \in {SOLICIT, ADVERTISE, REPLY}
  /\ reader \in Nat
  /\ result \in ResultType

(* Where the first n options end.                                          *)
Ends(e, n) ==
  /\ e \in [0..n -> Nat]
  /\ e[0] = HeaderSize
  /\ \A m \in 1..n : e[m] = e[m - 1] + SizeOf(options[m])
  /\ \A m \in 0..n : e[m] <= e[n] /\ e[m] <= Bound(m)
  /\ \A l, m \in 0..n : l < m => e[l] < e[m]

(* The counting loop and the copying loop add up the same ends.            *)
LayoutInv ==
  /\ Bound(Len(options)) < SizeMod
  /\ phase = "count" => /\ optionOffset = 0
                        /\ \E e : Ends(e, i) /\ length = e[i]
  /\ phase = "copy" => \E e : /\ Ends(e, Len(options))
                              /\ length = e[Len(options)]
                              /\ HeaderSize + optionOffset = e[i]

(* While options are left, unreadDataLength is what lies behind readerPtr; *)
(* in a packet shorter than its header it has wrapped around.              *)
UnreadInv ==
  /\ phase \in {"count", "copy", "check"} => reader = 0
  /\ phase = "parse" =>
       IF size < HeaderSize THEN unread = Minus(size, HeaderSize)
       ELSE unread = size - HeaderSize - reader

IInv == TypeInv /\ LayoutInv /\ UnreadInv /\ HeadersStartInside

LEMMA NoEnds == Ends([m \in 0..0 |-> HeaderSize], 0)
BY Limits, BoundIs DEF Ends, Bound

(* The ends depend on nothing but the options.                             *)
LEMMA EndsKept ==
  ASSUME UNCHANGED options, NEW e, NEW n, Ends(e, n)
  PROVE  Ends(e, n)'
BY DEF Ends, Bound

(* One option more.                                                        *)
LEMMA EndsNext ==
  ASSUME NEW n \in Nat, NEW e, Ends(e, n), SizeOf(options[n + 1]) \in HeaderSize..(MaxField + HeaderSize)
  PROVE  LET f == [m \in 0..(n + 1) |-> IF m <= n THEN e[m] ELSE e[n] + SizeOf(options[n + 1])]
         IN  Ends(f, n + 1) /\ f[n + 1] = e[n] + SizeOf(options[n + 1])
<1> DEFINE size1 == SizeOf(options[n + 1])
           f == [m \in 0..(n + 1) |-> IF m <= n THEN e[m] ELSE e[n] + size1]
<1>1. size1 \in Nat /\ size1 <= 65539 /\ size1 > 0
  BY Limits, BoundIs
<1>2. /\ e \in [0..n -> Nat] /\ e[0] = HeaderSize
      /\ \A m \in 1..n : e[m] = e[m - 1] + SizeOf(options[m])
      /\ \A m \in 0..n : e[m] \in Nat /\ e[m] <= e[n] /\ e[m] <= Bound(m)
      /\ \A l, m \in 0..n : l < m => e[l] < e[m]
  BY DEF Ends
<1>3. n + 1 \in 0..(n + 1) /\ \A m \in 0..n : m \in 0..(n + 1)
  OBVIOUS
<1>4. f[n + 1] = e[n] + size1 /\ \A m \in 0..n : f[m] = e[m]
  <2> HIDE DEF size1
  <2> QED BY <1>3
<1>5. f \in [0..(n + 1) -> Nat]
  <2> HIDE DEF size1
  <2> QED BY <1>1, <1>2
<1> HIDE DEF f
<1>6. \A m \in 1..(n + 1) : f[m] = f[m - 1] + SizeOf(options[m])
  <2> SUFFICES ASSUME NEW m \in 1..(n + 1) PROVE f[m] = f[m - 1] + SizeOf(options[m])
    OBVIOUS
  <2>1. CASE m = n + 1
    <3>1. m - 1 = n /\ n \in 0..n
      BY <2>1
    <3>2. f[m - 1] = e[n] /\ f[m] = e[n] + size1
      BY <1>4, <2>1, <3>1
    <3> QED BY <2>1, <3>2
  <2>2. CASE m \in 1..n
    <3>1. m \in 0..n /\ m - 1 \in 0..n
      BY <2>2
    <3> QED BY <1>2, <1>4, <2>2, <3>1
  <2> QED BY <2>1, <2>2
<1>7. \A m \in 0..(n + 1) : f[m] <= f[n + 1] /\ f[m] <= Bound(m)
  <2> HIDE DEF size1
  <2> SUFFICES ASSUME NEW m \in 0..(n + 1) PROVE f[m] <= f[n + 1] /\ f[m] <= Bound(m)
    OBVIOUS
  <2>1. e[n] \in Nat /\ e[n] <= Bound(n) /\ n \in 0..n
    BY <1>2
  <2>2. CASE m = n + 1
    BY <1>1, <1>4, <2>1, <2>2 DEF Bound
  <2>3. CASE m \in 0..n
    BY <1>1, <1>2, <1>4, <2>1, <2>3
  <2> QED BY <2>2, <2>3
<1>8. f[0] = HeaderSize
  BY <1>2, <1>4
<1>9. \A l, m \in 0..(n + 1) : l < m => f[l] < f[m]
  <2> HIDE DEF size1
  <2> SUFFICES ASSUME NEW l \in 0..(n + 1), NEW m \in 0..(n + 1), l < m PROVE f[l] < f[m]
    OBVIOUS
  <2>1. l \in 0..n
    OBVIOUS
  <2>2. CASE m \in 0..n
    BY <1>2, <1>4, <2>1, <2>2
  <2>3. CASE m = n + 1
    <3>1. f[l] = e[l] /\ e[l] \in Nat /\ e[l] <= e[n] /\ e[n] \in Nat
      BY <1>2, <1>4, <2>1
    <3> QED BY <1>1, <1>4, <2>3, <3>1
  <2> QED BY <2>2, <2>3
<1>10. Ends(f, n + 1)
  BY <1>5, <1>6, <1>7, <1>8, <1>9 DEF Ends
<1> QED BY <1>4, <1>10 DEF f

(* The end of the next option, in a packet that has been counted.          *)
LEMMA NextEnd ==
  ASSUME IInv, phase = "copy", i < Len(options)
  PROVE  /\ HeaderSize + optionOffset + SizeOf(options[i + 1]) <= length
         /\ Plus(optionOffset, SizeOf(options[i + 1])) = optionOffset + SizeOf(options[i + 1])
         /\ \E e : /\ Ends(e, Len(options)) /\ length = e[Len(options)]
                   /\ HeaderSize + (optionOffset + SizeOf(options[i + 1])) = e[i + 1]
<1> DEFINE n == Len(options)
           size1 == SizeOf(options[i + 1])
<1>1. PICK e : Ends(e, n) /\ length = e[n] /\ HeaderSize + optionOffset = e[i]
  BY DEF IInv, LayoutInv
<1>2. n \in Nat /\ i \in Nat /\ i + 1 \in 1..n /\ n \in 0..n /\ i + 1 \in 0..n /\ i \in 0..n
  BY DEF IInv, TypeInv
<1>3. options[i + 1] \in AnyOption
  BY <1>2 DEF IInv, TypeInv
<1>4. size1 \in HeaderSize..(MaxField + HeaderSize)
  BY <1>3, SizeBounds
<1>5. size1 \in Nat
  BY <1>4, Limits
<1>6. optionOffset \in Nat /\ SizeMod \in Nat
  BY SizeModAssumption DEF IInv, TypeInv, SizeT
<1>7. e[i + 1] = e[(i + 1) - 1] + size1 /\ (i + 1) - 1 = i
  BY <1>1, <1>2 DEF Ends
<1>8. e[i + 1] <= e[n] /\ e[n] <= Bound(n) /\ e[n] \in Nat /\ e[i + 1] \in Nat /\ e[i] \in Nat
  BY <1>1, <1>2 DEF Ends
<1>9. Bound(n) < SizeMod
  BY DEF IInv, LayoutInv
<1>10. Bound(n) \in Nat
  BY <1>2 DEF Bound
<1> HIDE DEF size1, n
<1>11. e[i + 1] = HeaderSize + optionOffset + size1
  BY <1>1, <1>7
<1>12. optionOffset + size1 < SizeMod
  BY <1>5, <1>6, <1>8, <1>9, <1>10, <1>11, Limits
<1>13. Plus(optionOffset, size1) = optionOffset + size1
  BY <1>12 DEF Plus
<1>14. HeaderSize + optionOffset + size1 = HeaderSize + (optionOffset + size1)
  BY <1>5, <1>6, Limits
<1>15. HeaderSize + optionOffset + size1 <= length
  BY <1>1, <1>8, <1>11
<1> QED BY <1>1, <1>11, <1>13, <1>14, <1>15 DEF size1, n

LEMMA InvInit == Init => IInv
<1> SUFFICES ASSUME Init PROVE IInv
  OBVIOUS
<1>1. HeaderSize \in SizeT /\ 0 \in SizeT /\ Sizes \subseteq SizeT
  BY PacketAssumption, Limits DEF SizeT
<1>2. options \in Seq(AnyOption) /\ Len(options) \in 0..MaxOptions
  <2>1. CASE options = <<>>
    BY <2>1, SizeModAssumption
  <2>2. CASE options \in UNION {[1..n -> Option] : n \in 0..MaxOptions}
    <3>1. PICK n \in 0..MaxOptions : options \in [1..n -> Option]
      BY <2>2
    <3>2. n \in Nat
      BY SizeModAssumption
    <3>3. options \in Seq(Option) /\ Len(options) = n
      BY <3>1, <3>2
    <3> QED BY <3>1, <3>3, OptionIsAny
  <2> QED BY <2>1, <2>2 DEF Init
<1>3. Bound(Len(options)) < SizeMod
  <2> DEFINE n == Len(options)
  <2>1. n \in Nat /\ n <= MaxOptions
    BY <1>2, SizeModAssumption
  <2> HIDE DEF n
  <2>2. Bound(n) < SizeMod
    BY <2>1, SizeModAssumption DEF Bound
  <2> QED BY <2>2 DEF n
<1>4. LayoutInv
  <2>1. i = 0 /\ length = HeaderSize /\ optionOffset = 0 /\ phase # "copy"
    BY DEF Init
  <2> DEFINE e == [m \in 0..0 |-> HeaderSize]
  <2>2. Ends(e, i) /\ length = e[i]
    BY <2>1, NoEnds
  <2> QED BY <1>3, <2>1, <2>2 DEF LayoutInv
<1>5. NoResult \in ResultType
  BY DEF NoResult, ResultType, NoOption
<1>6. TypeInv
  BY <1>1, <1>2, <1>5 DEF Init, TypeInv
<1> QED BY <1>4, <1>6 DEF Init, IInv, UnreadInv, HeadersStartInside

(* What the creator leaves alone.                                          *)
LEMMA CreatorKeeps ==
  ASSUME IInv, phase \in {"count", "copy"}, phase' \in {"count", "copy", "check"}, UNCHANGED parser
  PROVE  UnreadInv' /\ HeadersStartInside'
BY DEF IInv, UnreadInv, HeadersStartInside, parser

LEMMA CountOptionKeeps ==
  ASSUME IInv, CountOption
  PROVE  IInv'
<1>1. /\ phase = "count" /\ i < Len(options) /\ length' = Plus(length, SizeOf(options[i + 1]))
      /\ i' = i + 1
      /\ UNCHANGED <<phase, options, optionOffset, packet, msgType, size, reader, unread, result>>
  BY DEF CountOption, parser
<1>2. i \in Nat /\ i + 1 \in 1..Len(options) /\ options[i + 1] \in AnyOption /\ length \in SizeT
  BY <1>1 DEF IInv, TypeInv
<1>3. SizeOf(options[i + 1]) \in HeaderSize..(MaxField + HeaderSize)
  BY <1>2, SizeBounds
<1>4. length' \in SizeT
  BY <1>1, <1>2, SizeTHoldsOptions, SizeTClosed
<1>5. TypeInv'
  BY <1>1, <1>2, <1>4 DEF IInv, TypeInv
<1>6. PICK e : Ends(e, i) /\ length = e[i]
  BY <1>1 DEF IInv, LayoutInv
<1> DEFINE f == [m \in 0..(i + 1) |-> IF m <= i THEN e[m] ELSE e[i] + SizeOf(options[i + 1])]
<1>7. Ends(f, i + 1) /\ f[i + 1] = e[i] + SizeOf(options[i + 1])
  BY <1>2, <1>3, <1>6, EndsNext
<1> HIDE DEF f
<1>8. length' = f[i + 1]
  <2> DEFINE size1 == SizeOf(options[i + 1])
             n == Len(options)
  <2>1. f[i + 1] \in Nat /\ f[i + 1] <= Bound(i + 1)
    BY <1>2, <1>7 DEF Ends
  <2>2. i + 1 \in Nat /\ n \in Nat /\ i + 1 <= n /\ Bound(n) < SizeMod /\ SizeMod \in Nat
    BY <1>2, SizeModAssumption DEF IInv, TypeInv, LayoutInv
  <2> HIDE DEF n, size1
  <2>3. f[i + 1] < SizeMod
    BY <2>1, <2>2 DEF Bound
  <2>4. f[i + 1] = length + size1
    BY <1>6, <1>7 DEF size1
  <2>5. length' = Plus(length, size1)
    BY <1>1 DEF size1
  <2> QED BY <2>3, <2>4, <2>5 DEF Plus
<1>9. LayoutInv'
  <2>1. Bound(Len(options)) < SizeMod /\ optionOffset = 0
    BY <1>1 DEF IInv, LayoutInv
  <2>2. PICK g : Ends(g, i') /\ length' = g[i']
    BY <1>1, <1>7, <1>8
  <2>3. Ends(g, i)'
    BY <1>1, <2>2 DEF Ends
  <2> QED BY <1>1, <2>1, <2>2, <2>3 DEF LayoutInv, Bound
<1> QED BY <1>1, <1>5, <1>9, CreatorKeeps DEF IInv, parser

LEMMA AllocateKeeps ==
  ASSUME IInv, Allocate
  PROVE  IInv'
<1>1. /\ phase = "count" /\ i = Len(options) /\ phase' = "copy" /\ i' = 0
      /\ UNCHANGED <<options, length, optionOffset, packet, msgType, size, reader, unread, result>>
  BY DEF Allocate, parser
<1>2. TypeInv'
  BY <1>1 DEF IInv, TypeInv
<1>3. LayoutInv'
  <2>1. Bound(Len(options)) < SizeMod /\ optionOffset = 0
    BY <1>1 DEF IInv, LayoutInv
  <2>2. PICK e : Ends(e, Len(options)) /\ length = e[Len(options)]
    BY <1>1 DEF IInv, LayoutInv
  <2>3. HeaderSize + optionOffset' = e[i']
    BY <1>1, <2>1, <2>2, Limits DEF Ends
  <2>4. Ends(e, Len(options))' /\ length' = e[Len(options')]
    BY <1>1, <2>2 DEF Ends
  <2>5. Bound(Len(options')) < SizeMod
    BY <1>1, <2>1
  <2> QED BY <1>1, <2>3, <2>4, <2>5 DEF LayoutInv
<1> QED BY <1>1, <1>2, <1>3, CreatorKeeps DEF IInv, parser

LEMMA CopyOptionKeeps ==
  ASSUME IInv, CopyOption
  PROVE  IInv'
<1> DEFINE o == options[i + 1]
<1>1. /\ phase = "copy" /\ i < Len(options) /\ i' = i + 1
      /\ optionOffset' = Plus(optionOffset, SizeOf(o))
      /\ packet' = [n \in DOMAIN packet \cup {optionOffset} |->
                      IF n = optionOffset THEN OnWire(o) ELSE packet[n]]
      /\ UNCHANGED <<phase, options, length, msgType, size, reader, unread, result>>
  BY DEF CopyOption, parser
<1>2. i + 1 \in 1..Len(options) /\ o \in AnyOption
  BY <1>1 DEF IInv, TypeInv
<1>3. optionOffset' \in SizeT
  BY <1>1, <1>2, SizeTHoldsOptions, SizeTClosed DEF IInv, TypeInv
<1>4. optionOffset \in Nat
  BY SizeModAssumption DEF IInv, TypeInv, SizeT
<1>5. DOMAIN packet' \subseteq Nat /\ \A n \in DOMAIN packet' : packet'[n] \in Header
  <2>1. OnWire(o) \in Header
    BY <1>2, OnWireIsHeader
  <2> HIDE DEF o
  <2> QED BY <1>1, <1>4, <2>1 DEF IInv, TypeInv
<1>6. TypeInv'
  <2>1. i' = i + 1 /\ UNCHANGED <<phase, options, length, msgType, size, reader, unread, result>>
    BY <1>1
  <2>2. i' \in 0..Len(options)
    BY <1>2, <2>1
  <2> QED BY <1>3, <1>5, <2>1, <2>2 DEF IInv, TypeInv
<1>7. LayoutInv'
  <2>1. Bound(Len(options)) < SizeMod
    BY DEF IInv, LayoutInv
  <2>2. \E e : /\ Ends(e, Len(options)) /\ length = e[Len(options)]
               /\ HeaderSize + optionOffset' = e[i']
    BY <1>1, NextEnd
  <2>3. \E e : /\ Ends(e, Len(options))' /\ length' = e[Len(options')]
               /\ HeaderSize + optionOffset' = e[i']
    BY <1>1, <2>2, EndsKept
  <2> QED BY <1>1, <2>1, <2>3 DEF LayoutInv, Bound
<1> QED BY <1>1, <1>6, <1>7, CreatorKeeps DEF IInv, parser

LEMMA DeliverKeeps ==
  ASSUME IInv, Deliver
  PROVE  IInv'
<1>1. phase = "copy" /\ phase' = "check" /\ size' = length
      /\ UNCHANGED <<options, i, length, optionOffset, packet, msgType, reader, unread, result>>
  BY DEF Deliver, creator, parser
<1>2. TypeInv'
  BY <1>1 DEF IInv, TypeInv
<1>3. LayoutInv'
  BY <1>1 DEF IInv, LayoutInv, Bound
<1> QED BY <1>1, <1>2, <1>3, CreatorKeeps DEF IInv, parser

(* The creator touches nothing of the parser's but hands it the size.      *)
LEMMA CreateKeeps ==
  ASSUME IInv, Create
  PROVE  IInv'
BY CountOptionKeeps, AllocateKeeps, CopyOptionKeeps, DeliverKeeps DEF Create

LEMMA CheckKeeps ==
  ASSUME IInv, CheckPacket
  PROVE  IInv'
<1> USE Limits
<1>1. HeaderSize \in SizeT
  BY SizeTHoldsOptions
<1>2. unread' = Minus(size, HeaderSize) /\ unread' \in SizeT
  BY <1>1, SizeTClosed DEF CheckPacket, IInv, TypeInv
<1>3. TypeInv'
  <2>1. NoResult \in ResultType
    BY DEF NoResult, ResultType, NoOption
  <2>2. phase' \in {"parse", "done"} /\ result' \in {result, NoResult}
        /\ UNCHANGED <<options, i, length, optionOffset, packet, msgType, size, reader>>
    BY DEF CheckPacket, Finish, creator
  <2> QED BY <1>2, <2>1, <2>2 DEF IInv, TypeInv
<1>4. phase' = "parse" => unread' # 0
  BY DEF CheckPacket, Finish
<1>5. size >= HeaderSize => unread' = size - HeaderSize
  BY <1>2 DEF Minus, IInv, TypeInv, SizeT
<1>6. phase' \in {"parse", "done"} /\ reader' = 0 /\ size' = size
  BY DEF CheckPacket, Finish, IInv, UnreadInv
<1>7. UnreadInv'
  BY <1>2, <1>5, <1>6 DEF UnreadInv, IInv, TypeInv, SizeT, Minus
<1>8. HeadersStartInside'
  BY <1>4, <1>5, <1>6 DEF HeadersStartInside, IInv, TypeInv, SizeT
<1>9. LayoutInv'
  BY <1>6 DEF CheckPacket, creator, IInv, LayoutInv, Bound
<1> QED BY <1>3, <1>7, <1>8, <1>9 DEF IInv

(* An option of n bytes: if it wraps unreadDataLength around, it also takes*)
(* readerPtr past the end.                                                 *)
LEMMA NextOptionKeeps ==
  ASSUME IInv, phase = "parse", NEW r, NEW n \in HeaderSize..(MaxField + HeaderSize),
         NextOption(r, n), size' = size
  PROVE  /\ unread' \in SizeT /\ reader' \in Nat /\ phase' \in {"parse", "done"}
         /\ result' \in {r, [r EXCEPT !.success = TRUE]}
         /\ UnreadInv' /\ HeadersStartInside'
<1> USE Limits, SizeModAssumption
<1>0. n \in Nat /\ n >= HeaderSize /\ n \in SizeT
  BY SizeTHoldsOptions
<1>1. unread' = Minus(unread, n) /\ unread' \in SizeT
  BY <1>0, SizeTClosed DEF NextOption, IInv, TypeInv
<1>2. reader' \in Nat /\ phase' \in {"parse", "done"} /\ result' \in {r, [r EXCEPT !.success = TRUE]}
  BY <1>0 DEF NextOption, Finish, IInv, TypeInv
<1>3. SUFFICES ASSUME phase' = "parse" PROVE UnreadInv' /\ HeadersStartInside'
  BY <1>1, <1>2 DEF UnreadInv, HeadersStartInside
<1>4. unread' # 0 /\ reader' = reader + n /\ HeaderSize + reader + n <= size
  <2>1. phase' # "done"
    BY <1>3
  <2>2. unread' # 0 /\ HeaderSize + reader' <= size
    BY <2>1 DEF NextOption, Finish
  <2>3. reader' = reader + n
    BY <2>2 DEF NextOption
  <2> QED BY <1>0, <2>2, <2>3 DEF IInv, TypeInv, SizeT
<1>5. size >= HeaderSize /\ unread = size - HeaderSize - reader
  BY <1>0, <1>4 DEF IInv, TypeInv, UnreadInv, HeadersStartInside, SizeT
<1>6. unread' = size - HeaderSize - reader - n
  BY <1>0, <1>1, <1>4, <1>5 DEF Minus, IInv, TypeInv, SizeT
<1> QED BY <1>0, <1>3, <1>4, <1>5, <1>6 DEF UnreadInv, HeadersStartInside, IInv, TypeInv, SizeT

LEMMA NoteIsResult ==
  ASSUME IInv, NEW c, NEW r \in Note(result, c)
  PROVE  r \in ResultType /\ [r EXCEPT !.success = TRUE] \in ResultType
<1>1. result \in ResultType /\ reader \in Nat
  BY DEF IInv, TypeInv
<1>2. Append(result.IA_PDList, reader) \in Seq(Nat)
  BY <1>1 DEF ResultType
<1>3. r \in {result, [result EXCEPT !.ClientIdentifier = reader],
             [result EXCEPT !.ServerIdentifier = reader], [result EXCEPT !.success = FALSE],
             [result EXCEPT !.success = FALSE, !.IA_PDList = Append(result.IA_PDList, reader)]}
  BY DEF Note
<1>4. r \in ResultType
  BY <1>1, <1>2, <1>3, Zenon DEF ResultType
<1> QED BY <1>4 DEF ResultType

LEMMA ParseKeeps ==
  ASSUME IInv, ParseOption
  PROVE  IInv'
<1>1. PICK h \in HeadersAt(reader) :
        LET code == be16toh(h.code)
            len  == be16toh(h.length)
        IN /\ packet' = [n \in DOMAIN packet \cup {reader} |->
                           IF n = reader THEN [code |-> code, length |-> len] ELSE packet[n]]
           /\ \E r \in Note(result, Host(code)) : NextOption(r, Host(len) + HeaderSize)
  BY DEF ParseOption
<1> DEFINE code == be16toh(h.code)
           len  == be16toh(h.length)
<1>2. h \in Header
  BY OnWireIsHeader, OptionIsAny DEF HeadersAt, IInv, TypeInv
<1>3. code \in Field /\ len \in Field
  BY <1>2, SwapIsField DEF Header
<1>4. [code |-> code, length |-> len] \in Header
  BY <1>3 DEF Header
<1>5. DOMAIN packet' \subseteq Nat /\ \A n \in DOMAIN packet' : packet'[n] \in Header
  BY <1>1, <1>4 DEF IInv, TypeInv
<1>6. PICK r \in Note(result, Host(code)) : NextOption(r, Host(len) + HeaderSize)
  BY <1>1
<1>7. Host(len) + HeaderSize \in HeaderSize..(MaxField + HeaderSize)
  BY <1>3, HostIsNat, Limits
<1>8. phase = "parse" /\ size' = size /\ UNCHANGED <<creator, msgType>>
  BY DEF ParseOption
<1>9. /\ unread' \in SizeT /\ reader' \in Nat /\ phase' \in {"parse", "done"}
      /\ UnreadInv' /\ HeadersStartInside'
      /\ result' \in {r, [r EXCEPT !.success = TRUE]}
  <2> HIDE DEF code, len
  <2> QED BY <1>6, <1>7, <1>8, NextOptionKeeps
<1>10. result' \in ResultType
  BY <1>6, <1>9, NoteIsResult
<1>11. TypeInv'
  BY <1>5, <1>8, <1>9, <1>10 DEF IInv, TypeInv, creator
<1>12. LayoutInv'
  BY <1>8, <1>9 DEF creator, IInv, LayoutInv, Bound
<1> QED BY <1>9, <1>11, <1>12 DEF IInv

LEMMA StutterKeeps == ASSUME IInv, UNCHANGED vars PROVE IInv'
<1>1. UNCHANGED <<phase, options, i, length, optionOffset, packet, msgType, size, reader, unread, result>>
  BY DEF vars, creator, parser
<1>2. LayoutInv'
  BY <1>1, EndsKept DEF IInv, LayoutInv, Bound
<1> QED BY <1>1, <1>2 DEF IInv, TypeInv, UnreadInv, HeadersStartInside, Minus

LEMMA NextKeeps == ASSUME IInv, Next PROVE IInv'
BY CreateKeeps, CheckKeeps, ParseKeeps DEF Next

LEMMA Implied == ASSUME IInv PROVE TypeOK /\ CopyFillsPacket
<1>1. TypeOK
  BY DEF IInv, TypeInv, TypeOK, ResultType, SizeT
<1>2. CopyFillsPacket
  <2> SUFFICES ASSUME phase = "copy" PROVE CopyFillsPacket
    BY DEF CopyFillsPacket
  <2>1. CASE i = Len(options)
    BY <2>1 DEF CopyFillsPacket, IInv, LayoutInv
  <2>2. CASE i # Len(options)
    <3>1. i < Len(options)
      BY <2>2 DEF IInv, TypeInv
    <3> QED BY <2>2, <3>1, NextEnd DEF CopyFillsPacket
  <2> QED BY <2>1, <2>2
<1> QED BY <1>1, <1>2

LEMMA Invariant == Spec => []IInv
<1>1. IInv /\ [Next]_vars => IInv'
  BY StutterKeeps, NextKeeps
<1> QED BY <1>1, InvInit, PTL DEF Spec

(* Every header dh_parseOptions reads starts inside the packet, except the *)
(* first of a packet shorter than the message header.                      *)
THEOREM HeadersInside == Spec => []HeadersStartInside
<1>1. IInv => HeadersStartInside
  BY DEF IInv
<1> QED BY <1>1, Invariant, PTL

(* What dh_createPacket copies fits into what it allocated, and fills it.  *)
THEOREM CreatedIsFilled == Spec => []CopyFillsPacket
<1>1. IInv => CopyFillsPacket
  BY Implied
<1> QED BY <1>1, Invariant, PTL

(* No offset leaves its type: nothing that size_t computes is out of it.   *)
THEOREM TypesKept == Spec => []TypeOK
<1>1. IInv => TypeOK
  BY Implied
<1> QED BY <1>1, Invariant, PTL
-----------------------------------------------------------------------------
(* The round trip.                                                         *)

(* The bytes of both fields are exchanged by the creator and by the parser.*)
LEMMA HostOfStored == ASSUME NEW v \in 0..MaxField PROVE Host(Stored(v)) = v
<1> DEFINE low == v % 256
           high == v \div 256
<1>1. v \in Nat
  BY Limits
<1>2. v = low + 256 * high
  BY <1>1
<1>3. Host(Stored(v)) = low + 256 * high
  BY DEF Host, Stored
<1> HIDE DEF low, high
<1> QED BY <1>2, <1>3

LEMMA WireToHost ==
  ASSUME NEW o \in AnyOption
  PROVE  /\ [code |-> be16toh(OnWire(o).code), length |-> be16toh(OnWire(o).length)] = Native(o)
         /\ Host(be16toh(OnWire(o).code)) = o.code
         /\ Host(be16toh(OnWire(o).length)) = o.length
<1>1. \A v : be16toh(htobe16(Stored(v))) = Stored(v)
  BY DEF be16toh, htobe16, Stored
<1>2. Host(Stored(o.code)) = o.code /\ Host(Stored(o.length)) = o.length
  BY HostOfStored, OptionParts
<1> QED BY <1>1, <1>2 DEF OnWire, Native

(* LaysOut, before the size is known, and with the order it implies.       *)
Places(o) ==
  /\ o \in [1..Len(options) + 1 -> Nat]
  /\ o[1] = 0
  /\ \A n \in 1..Len(options) : o[n + 1] = o[n] + SizeOf(options[n])
  /\ \A m, n \in 1..Len(options) + 1 : m < n => o[m] < o[n]

(* The first k options have been copied.                                   *)
Copied(o, k) ==
  /\ length = HeaderSize + o[Len(options) + 1]
  /\ DOMAIN packet = {o[n] : n \in 1..k}
  /\ \A n \in 1..k : packet[o[n]] = OnWire(options[n])
  /\ result = NoResult

Walked(o, k) ==
  /\ size = HeaderSize + o[Len(options) + 1]
  /\ DOMAIN packet = {o[n] : n \in 1..Len(options)}
  /\ Parsed(o, k)

(* A created packet on its way: what each phase leaves to the next.        *)
TripInv ==
  /\ phase = "count" => packet = <<>> /\ result = NoResult
  /\ phase # "count" /\ options # <<>> =>
       \E o : /\ Places(o)
              /\ phase = "copy" => optionOffset = o[i + 1] /\ Copied(o, i)
              /\ phase = "check" => Walked(o, 0) /\ result = NoResult
              /\ phase = "parse" =>
                   /\ msgType # SOLICIT
                   /\ \E k \in 0..(Len(options) - 1) : reader = o[k + 1] /\ Walked(o, k)
              /\ phase = "done" =>
                   IF msgType = SOLICIT THEN result = NoResult /\ Walked(o, 0)
                   ELSE result.success /\ Walked(o, Len(options))

LEMMA PlacesKept == ASSUME UNCHANGED options, NEW o, Places(o) PROVE Places(o)'
BY DEF Places

LEMMA WalkedKept ==
  ASSUME UNCHANGED <<options, packet, size, result>>, NEW o, NEW k, Walked(o, k)
  PROVE  Walked(o, k)'
BY DEF Walked, Parsed, Identifies, Lists

(* The ends of the counting loop are the places of the copying loop.       *)
LEMMA EndsGivePlaces ==
  ASSUME IInv, NEW e, Ends(e, Len(options))
  PROVE  LET o == [n \in 1..Len(options) + 1 |-> e[n - 1] - HeaderSize]
         IN  Places(o) /\ HeaderSize + o[Len(options) + 1] = e[Len(options)]
<1> DEFINE last == Len(options)
           o == [n \in 1..last + 1 |-> e[n - 1] - HeaderSize]
<1>1. last \in Nat
  BY DEF IInv, TypeInv
<1>2. /\ e \in [0..last -> Nat] /\ e[0] = HeaderSize
      /\ \A m \in 1..last : e[m] = e[m - 1] + SizeOf(options[m])
      /\ \A l, m \in 0..last : l < m => e[l] < e[m]
  BY DEF Ends
<1>3. \A n \in 1..last : options[n] \in AnyOption /\ SizeOf(options[n]) \in Nat
  BY SizeBounds, Limits DEF IInv, TypeInv
<1> HIDE DEF last
<1>4. \A n \in 1..last + 1 : n - 1 \in 0..last /\ e[n - 1] \in Nat /\ e[n - 1] >= HeaderSize
  <2> SUFFICES ASSUME NEW n \in 1..last + 1 PROVE n - 1 \in 0..last /\ e[n - 1] \in Nat /\ e[n - 1] >= HeaderSize
    OBVIOUS
  <2>1. n - 1 \in 0..last /\ 0 \in 0..last /\ e[n - 1] \in Nat
    BY <1>1, <1>2
  <2>2. n - 1 = 0 \/ 0 < n - 1
    BY <1>1
  <2> QED BY <1>2, <2>1, <2>2, Limits
<1>5. o \in [1..last + 1 -> Nat]
  BY <1>4, Limits
<1>6. o[1] = 0
  BY <1>1, <1>2, Limits
<1>7. \A n \in 1..last : o[n + 1] = o[n] + SizeOf(options[n])
  <2> SUFFICES ASSUME NEW n \in 1..last PROVE o[n + 1] = o[n] + SizeOf(options[n])
    OBVIOUS
  <2>1. n \in 1..last + 1 /\ n + 1 \in 1..last + 1 /\ (n + 1) - 1 = n
    BY <1>1
  <2>2. o[n + 1] = e[n] - HeaderSize /\ o[n] = e[n - 1] - HeaderSize
    BY <2>1
  <2>3. e[n] = e[n - 1] + SizeOf(options[n])
    BY <1>2
  <2> HIDE DEF o
  <2> QED BY <1>3, <1>4, <2>1, <2>2, <2>3, Limits
<1>8. \A m, n \in 1..last + 1 : m < n => o[m] < o[n]
  <2> SUFFICES ASSUME NEW m \in 1..last + 1, NEW n \in 1..last + 1, m < n PROVE o[m] < o[n]
    OBVIOUS
  <2>1. e[m - 1] < e[n - 1]
    BY <1>2, <1>4
  <2> QED BY <1>4, <2>1, Limits
<1>9. HeaderSize + o[last + 1] = e[last]
  <2>1. last + 1 \in 1..last + 1 /\ (last + 1) - 1 = last
    BY <1>1
  <2> QED BY <1>4, <2>1, Limits
<1> QED BY <1>5, <1>6, <1>7, <1>8, <1>9 DEF Places, last

LEMMA TripInit == Init => TripInv
BY DEF Init, TripInv

LEMMA TripStutter == ASSUME TripInv, UNCHANGED vars PROVE TripInv'
<1>1. UNCHANGED <<phase, options, i, length, optionOffset, packet, msgType, size, reader, unread, result>>
  BY DEF vars, creator, parser
<1>2. CASE phase # "count" /\ options # <<>>
  <2>1. PICK o : /\ Places(o)
                 /\ phase = "copy" => optionOffset = o[i + 1] /\ Copied(o, i)
                 /\ phase = "check" => Walked(o, 0) /\ result = NoResult
                 /\ phase = "parse" =>
                      /\ msgType # SOLICIT
                      /\ \E k \in 0..(Len(options) - 1) : reader = o[k + 1] /\ Walked(o, k)
                 /\ phase = "done" =>
                      IF msgType = SOLICIT THEN result = NoResult /\ Walked(o, 0)
                      ELSE result.success /\ Walked(o, Len(options))
    BY <1>2 DEF TripInv
  <2>2. Places(o)' /\ \A k : Walked(o, k) => Walked(o, k)'
    BY <1>1, <2>1, PlacesKept, WalkedKept
  <2>3. Copied(o, i) => Copied(o, i)'
    BY <1>1 DEF Copied
  <2> QED BY <1>1, <1>2, <2>1, <2>2, <2>3 DEF TripInv
<1> QED BY <1>1, <1>2 DEF TripInv

(* The creator's steps.                                                    *)
LEMMA CountTrips == ASSUME TripInv, CountOption PROVE TripInv'
BY DEF CountOption, TripInv, parser

LEMMA AllocateTrips == ASSUME IInv, TripInv, Allocate PROVE TripInv'
<1>1. /\ phase = "count" /\ i = Len(options) /\ phase' = "copy" /\ i' = 0
      /\ UNCHANGED <<options, length, optionOffset, packet, msgType, size, reader, unread, result>>
  BY DEF Allocate, parser
<1>2. packet = <<>> /\ result = NoResult /\ optionOffset = 0
  BY <1>1 DEF TripInv, IInv, LayoutInv
<1>3. PICK e : Ends(e, Len(options)) /\ length = e[Len(options)]
  BY <1>1 DEF IInv, LayoutInv
<1>4. PICK o : Places(o) /\ HeaderSize + o[Len(options) + 1] = e[Len(options)]
  BY <1>3, EndsGivePlaces
<1>5. Copied(o, 0)'
  BY <1>1, <1>2, <1>3, <1>4 DEF Copied
<1>6. Places(o)' /\ optionOffset' = o[i' + 1]
  BY <1>1, <1>2, <1>4, PlacesKept DEF Places
<1> QED BY <1>1, <1>5, <1>6 DEF TripInv

LEMMA CopyTrips == ASSUME IInv, TripInv, CopyOption PROVE TripInv'
<1> DEFINE opt == options[i + 1]
<1>1. /\ phase = "copy" /\ i < Len(options) /\ i' = i + 1
      /\ optionOffset' = Plus(optionOffset, SizeOf(opt))
      /\ packet' = [n \in DOMAIN packet \cup {optionOffset} |->
                      IF n = optionOffset THEN OnWire(opt) ELSE packet[n]]
      /\ UNCHANGED <<phase, options, length, msgType, size, reader, unread, result>>
  BY DEF CopyOption, parser
<1>2. i \in Nat /\ Len(options) \in Nat /\ i + 1 \in 1..Len(options) /\ options # <<>>
  BY <1>1 DEF IInv, TypeInv
<1>3. PICK o : Places(o) /\ optionOffset = o[i + 1] /\ Copied(o, i)
  BY <1>1, <1>2 DEF TripInv
<1>4. Plus(optionOffset, SizeOf(opt)) = optionOffset + SizeOf(opt)
  BY <1>1, NextEnd
<1>5. (optionOffset = o[i + 1])'
  BY <1>1, <1>2, <1>3, <1>4 DEF Places
<1>6. \A n \in 1..i : o[n] # o[i + 1]
  <2> SUFFICES ASSUME NEW n \in 1..i PROVE o[n] # o[i + 1]
    OBVIOUS
  <2>1. n \in 1..Len(options) + 1 /\ i + 1 \in 1..Len(options) + 1 /\ n < i + 1
    BY <1>2
  <2> QED BY <1>3, <2>1 DEF Places
<1>7. Copied(o, i)'
  <2>1. DOMAIN packet' = {o[n] : n \in 1..i + 1}
    BY <1>1, <1>2, <1>3 DEF Copied
  <2>2. \A n \in 1..i + 1 : packet'[o[n]] = OnWire(options[n])
    <3> SUFFICES ASSUME NEW n \in 1..i + 1 PROVE packet'[o[n]] = OnWire(options[n])
      OBVIOUS
    <3>1. CASE n = i + 1
      BY <1>1, <1>3, <3>1
    <3>2. CASE n \in 1..i
      BY <1>1, <1>3, <1>6, <3>2 DEF Copied
    <3> QED BY <1>2, <3>1, <3>2
  <2> QED BY <1>1, <1>3, <2>1, <2>2 DEF Copied
<1>8. Places(o)'
  BY <1>1, <1>3, PlacesKept
<1> QED BY <1>1, <1>2, <1>5, <1>7, <1>8 DEF TripInv

LEMMA DeliverTrips == ASSUME IInv, TripInv, Deliver PROVE TripInv'
<1>1. phase = "copy" /\ i = Len(options) /\ phase' = "check" /\ size' = length
      /\ UNCHANGED <<options, i, length, optionOffset, packet, msgType, reader, unread, result>>
  BY DEF Deliver, creator, parser
<1>2. CASE options # <<>>
  <2>1. PICK o : Places(o) /\ Copied(o, Len(options))
    BY <1>1, <1>2 DEF TripInv
  <2>2. /\ result' = NoResult /\ result'.ClientIdentifier = NoOption
        /\ result'.ServerIdentifier = NoOption /\ result'.IA_PDList = <<>>
    BY <1>1, <2>1 DEF Copied, NoResult
  <2>3. Parsed(o, 0)'
    BY <1>1, <2>1, <2>2 DEF Copied, Parsed, Identifies, Lists
  <2>4. Walked(o, 0)'
    BY <1>1, <2>1, <2>3 DEF Copied, Walked
  <2> QED BY <1>1, <2>1, <2>2, <2>4, PlacesKept DEF TripInv
<1> QED BY <1>1, <1>2 DEF TripInv

(* The parser's steps.                                                     *)
LEMMA CheckTrips == ASSUME IInv, TripInv, CheckPacket PROVE TripInv'
<1>1. /\ phase = "check" /\ unread' = Minus(size, HeaderSize)
      /\ UNCHANGED <<options, i, length, optionOffset, packet, msgType, size, reader>>
      /\ \/ (unread' = 0 \/ msgType \notin {ADVERTISE, REPLY}) /\ phase' = "done" /\ result' = NoResult
         \/ unread' # 0 /\ msgType \in {ADVERTISE, REPLY} /\ phase' = "parse" /\ UNCHANGED result
  BY DEF CheckPacket, Finish, creator
<1>2. CASE options # <<>>
  <2>1. PICK o : Places(o) /\ Walked(o, 0) /\ result = NoResult
    BY <1>1, <1>2 DEF TripInv
  <2> DEFINE last == Len(options)
  <2>2. last \in Nat /\ last > 0
    BY <1>2 DEF IInv, TypeInv
  <2>3. 1 \in 1..last + 1 /\ last + 1 \in 1..last + 1 /\ 1 < last + 1
    BY <2>2
  <2>4. o[1] = 0 /\ o[1] < o[last + 1] /\ o[last + 1] \in Nat /\ size = HeaderSize + o[last + 1]
    BY <2>1, <2>3 DEF Places, Walked
  <2> HIDE DEF last
  <2>5. unread' # 0
    BY <1>1, <2>4, Limits DEF Minus
  <2>6. msgType \in {ADVERTISE, REPLY} <=> msgType # SOLICIT
    BY DEF IInv, TypeInv, SOLICIT, ADVERTISE, REPLY
  <2>7. reader' = o[0 + 1] /\ 0 \in 0..(last - 1)
    BY <1>1, <2>2, <2>4 DEF IInv, UnreadInv
  <2>8. Places(o)' /\ Walked(o, 0)' /\ result' = NoResult
    BY <1>1, <2>1, PlacesKept, WalkedKept
  <2> QED BY <1>1, <2>5, <2>6, <2>7, <2>8 DEF TripInv, last
<1> QED BY <1>1, <1>2 DEF TripInv

(* What an option adds to the result.                                      *)
LEMMA ListsGrow ==
  ASSUME NEW o, Places(o), NEW k \in 0..(Len(options) - 1), Len(options) \in Nat, reader = o[k + 1],
         NEW list \in Seq(Nat), Lists(list, o, k), options[k + 1].code = IA_PD
  PROVE  Lists(Append(list, reader), o, k + 1)
<1> DEFINE more == Append(list, reader)
<1>1. /\ DOMAIN list = 1..Len(list) /\ Len(list) \in Nat
      /\ DOMAIN more = 1..(Len(list) + 1)
      /\ \A m \in 1..Len(list) : more[m] = list[m]
      /\ more[Len(list) + 1] = reader
  BY DEF Places
<1> HIDE DEF more
<1>2. \A n \in 1..k : o[n] < o[k + 1] /\ n \in 1..(k + 1)
  <2> SUFFICES ASSUME NEW n \in 1..k PROVE o[n] < o[k + 1] /\ n \in 1..(k + 1)
    OBVIOUS
  <2>1. n \in 1..Len(options) + 1 /\ k + 1 \in 1..Len(options) + 1 /\ n < k + 1
    OBVIOUS
  <2> QED BY <2>1 DEF Places
<1>3. \A m \in 1..Len(list) : \E n \in 1..k : options[n].code = IA_PD /\ list[m] = o[n]
  BY <1>1 DEF Lists
<1>4. \A m \in DOMAIN more : \E n \in 1..(k + 1) : options[n].code = IA_PD /\ more[m] = o[n]
  <2> SUFFICES ASSUME NEW m \in DOMAIN more
               PROVE  \E n \in 1..(k + 1) : options[n].code = IA_PD /\ more[m] = o[n]
    OBVIOUS
  <2>1. CASE m \in 1..Len(list)
    BY <1>1, <1>2, <1>3, <2>1
  <2>2. CASE m = Len(list) + 1
    <3>1. k + 1 \in 1..(k + 1)
      OBVIOUS
    <3> QED BY <1>1, <2>2, <3>1
  <2> QED BY <1>1, <2>1, <2>2
<1>5. \A l, m \in DOMAIN more : l < m => more[l] < more[m]
  <2> SUFFICES ASSUME NEW l \in DOMAIN more, NEW m \in DOMAIN more, l < m PROVE more[l] < more[m]
    OBVIOUS
  <2>1. l \in 1..Len(list)
    BY <1>1
  <2>2. CASE m \in 1..Len(list)
    BY <1>1, <2>1, <2>2 DEF Lists
  <2>3. CASE m = Len(list) + 1
    BY <1>1, <1>2, <1>3, <2>1, <2>3
  <2> QED BY <1>1, <2>2, <2>3
<1>6. ASSUME ~OutOfMemory, NEW n \in 1..(k + 1), options[n].code = IA_PD
      PROVE  \E m \in DOMAIN more : more[m] = o[n]
  <2>1. CASE n \in 1..k
    <3>1. PICK m \in DOMAIN list : list[m] = o[n]
      BY <1>6, <2>1, PacketAssumption DEF Lists
    <3>2. m \in DOMAIN more /\ more[m] = list[m]
      BY <1>1, <3>1
    <3> QED BY <3>1, <3>2
  <2>2. CASE n = k + 1
    <3>1. Len(list) + 1 \in DOMAIN more
      BY <1>1
    <3> QED BY <1>1, <2>2, <3>1
  <2> QED BY <2>1, <2>2
<1> QED BY <1>4, <1>5, <1>6, PacketAssumption DEF Lists, more

LEMMA ListsStay ==
  ASSUME NEW o, NEW k \in Nat, NEW list, Lists(list, o, k),
         options[k + 1].code = IA_PD => OutOfMemory
  PROVE  Lists(list, o, k + 1)
<1>1. \A n \in 1..(k + 1) : n \in 1..k \/ n = k + 1
  OBVIOUS
<1>2. \A n \in 1..k : n \in 1..(k + 1)
  OBVIOUS
<1> QED BY <1>1, <1>2, PacketAssumption DEF Lists

(* Another option with the code takes the identifier's place, and one with *)
(* another code leaves it.                                                 *)
LEMMA IdentifiesLast ==
  ASSUME NEW o, NEW k \in Nat, NEW x, NEW code, Identifies(x, code, o, k), NEW y,
         y = IF options[k + 1].code = code THEN o[k + 1] ELSE x
  PROVE  Identifies(y, code, o, k + 1)
<1>1. \A n \in 1..(k + 1) : n \in 1..k \/ n = k + 1
  OBVIOUS
<1>2. k + 1 \in 1..(k + 1) /\ \A n \in 1..k : n \in 1..(k + 1)
  OBVIOUS
<1>3. CASE options[k + 1].code = code
  <2>1. \A m \in (k + 1) + 1 .. k + 1 : FALSE
    OBVIOUS
  <2> QED BY <1>2, <1>3, <2>1 DEF Identifies
<1>4. CASE options[k + 1].code # code /\ x = NoOption /\ \A n \in 1..k : options[n].code # code
  BY <1>1, <1>4 DEF Identifies
<1>5. ASSUME options[k + 1].code # code, NEW n \in 1..k, x = o[n], options[n].code = code,
             \A m \in n + 1 .. k : options[m].code # code
      PROVE  Identifies(y, code, o, k + 1)
  <2>1. \A m \in n + 1 .. k + 1 : m \in n + 1 .. k \/ m = k + 1
    OBVIOUS
  <2>2. \A m \in n + 1 .. k + 1 : options[m].code # code
    BY <1>5, <2>1
  <2> QED BY <1>2, <1>5, <2>2 DEF Identifies
<1> QED BY <1>3, <1>4, <1>5 DEF Identifies

ResultParsed(r, o, k) ==
  /\ Identifies(r.ClientIdentifier, CLIENTID, o, k)
  /\ Identifies(r.ServerIdentifier, SERVERID, o, k)
  /\ Lists(r.IA_PDList, o, k)

LEMMA NoteParses ==
  ASSUME IInv, NEW o, Places(o), NEW k \in 0..(Len(options) - 1), reader = o[k + 1],
         ResultParsed(result, o, k), NEW r \in Note(result, options[k + 1].code)
  PROVE  /\ ResultParsed(r, o, k + 1)
         /\ ResultParsed([r EXCEPT !.success = TRUE], o, k + 1)
<1> DEFINE code == options[k + 1].code
<1>1. result \in ResultType /\ r \in ResultType /\ Len(options) \in Nat /\ k \in Nat
  <2>1. result \in ResultType /\ options \in Seq(AnyOption)
    BY DEF IInv, TypeInv
  <2>2. r \in ResultType
    BY NoteIsResult
  <2> QED BY <2>1, <2>2
<1>2. CLIENTID # SERVERID /\ CLIENTID # IA_PD /\ SERVERID # IA_PD
  BY DEF CLIENTID, SERVERID, IA_PD
<1>3. /\ r.ClientIdentifier = IF code = CLIENTID THEN reader ELSE result.ClientIdentifier
      /\ r.ServerIdentifier = IF code = SERVERID THEN reader ELSE result.ServerIdentifier
      /\ \/ code = IA_PD /\ r.IA_PDList = Append(result.IA_PDList, reader)
         \/ (code = IA_PD => OutOfMemory) /\ r.IA_PDList = result.IA_PDList
  <2> HIDE DEF code
  <2>1. CASE code = CLIENTID
    BY <1>1, <1>2, <2>1 DEF Note, ResultType, code
  <2>2. CASE code = SERVERID
    BY <1>1, <1>2, <2>2 DEF Note, ResultType, code
  <2>3. CASE code = IA_PD
    BY <1>1, <1>2, <2>3, PacketAssumption DEF Note, ResultType, code
  <2>4. CASE code \notin {CLIENTID, SERVERID, IA_PD}
    <3>1. Note(result, code) = {result}
      BY <2>4 DEF Note
    <3> QED BY <2>4, <3>1 DEF code
  <2> QED BY <2>1, <2>2, <2>3, <2>4
<1>4. Identifies(r.ClientIdentifier, CLIENTID, o, k + 1)
  BY <1>1, <1>3, IdentifiesLast DEF ResultParsed
<1>5. Identifies(r.ServerIdentifier, SERVERID, o, k + 1)
  BY <1>1, <1>3, IdentifiesLast DEF ResultParsed
<1>6. Lists(r.IA_PDList, o, k + 1)
  <2>1. result.IA_PDList \in Seq(Nat) /\ Lists(result.IA_PDList, o, k)
    BY <1>1 DEF ResultType, ResultParsed
  <2> QED BY <1>1, <1>3, <2>1, ListsGrow, ListsStay
<1>7. ResultParsed(r, o, k + 1)
  BY <1>4, <1>5, <1>6 DEF ResultParsed
<1>8. LET q == [r EXCEPT !.success = TRUE]
      IN  /\ q.ClientIdentifier = r.ClientIdentifier /\ q.ServerIdentifier = r.ServerIdentifier
          /\ q.IA_PDList = r.IA_PDList
  BY <1>1 DEF ResultType
<1> QED BY <1>7, <1>8 DEF ResultParsed

LEMMA ParseTrips == ASSUME IInv, TripInv, ParseOption PROVE TripInv'
<1>1. phase = "parse" /\ UNCHANGED <<options, i, length, optionOffset, msgType, size>>
  BY DEF ParseOption, creator
<1>2. phase' \in {"parse", "done"}
  BY <1>1 DEF ParseOption, NextOption, Finish
<1>3. CASE options # <<>>
  <2> DEFINE last == Len(options)
  <2>1. PICK o : /\ Places(o) /\ msgType # SOLICIT
                 /\ \E k \in 0..(last - 1) : reader = o[k + 1] /\ Walked(o, k)
    BY <1>1, <1>3 DEF TripInv
  <2>2. PICK k \in 0..(last - 1) : reader = o[k + 1] /\ Walked(o, k)
    BY <2>1
  <2> DEFINE opt == options[k + 1]
             n == SizeOf(opt)
  <2>3. last \in Nat /\ k \in Nat /\ k + 1 \in 1..last
    BY DEF IInv, TypeInv
  <2>4. opt \in AnyOption /\ n \in Nat /\ n = opt.length + HeaderSize
    BY <2>3, SizeBounds, Limits DEF IInv, TypeInv, SizeOf
  <2>5. reader \in DOMAIN packet /\ packet[reader] = OnWire(opt)
    BY <2>2, <2>3 DEF Walked, Parsed
  <2>6. /\ packet' = [a \in DOMAIN packet \cup {reader} |-> IF a = reader THEN Native(opt) ELSE packet[a]]
        /\ \E r \in Note(result, opt.code) : NextOption(r, n)
    BY <2>4, <2>5, WireToHost DEF ParseOption, HeadersAt
  <2>7. PICK r \in Note(result, opt.code) : NextOption(r, n)
    BY <2>6
  <2> HIDE DEF opt, n, last
  <2>8. ResultParsed(result, o, k)
    BY <2>2 DEF Walked, Parsed, ResultParsed
  <2>9. ResultParsed(r, o, k + 1) /\ ResultParsed([r EXCEPT !.success = TRUE], o, k + 1)
    BY <2>1, <2>2, <2>7, <2>8, NoteParses DEF opt, last
  <2>10. \A m \in 1..last : o[m] = reader <=> m = k + 1
    <3> SUFFICES ASSUME NEW m \in 1..last PROVE o[m] = reader <=> m = k + 1
      OBVIOUS
    <3>1. m \in 1..last + 1 /\ k + 1 \in 1..last + 1 /\ o[m] \in Nat /\ o[k + 1] \in Nat
      <4>1. m \in 1..last + 1 /\ k + 1 \in 1..last + 1
        BY <2>3
      <4> QED BY <2>1, <4>1 DEF Places, last
    <3>2. m < k + 1 \/ m = k + 1 \/ k + 1 < m
      BY <2>3
    <3>3. (m < k + 1 => o[m] < o[k + 1]) /\ (k + 1 < m => o[k + 1] < o[m])
      BY <2>1, <3>1 DEF Places, last
    <3> QED BY <2>2, <3>1, <3>2, <3>3
  <2>11. /\ DOMAIN packet' = {o[m] : m \in 1..last}
         /\ \A m \in 1..last :
              packet'[o[m]] = IF m <= k + 1 THEN Native(options[m]) ELSE OnWire(options[m])
    <3>1. DOMAIN packet' = {o[m] : m \in 1..last}
      BY <2>2, <2>5, <2>6 DEF Walked, last
    <3> SUFFICES ASSUME NEW m \in 1..last
                 PROVE  packet'[o[m]] = IF m <= k + 1 THEN Native(options[m]) ELSE OnWire(options[m])
      BY <3>1
    <3>2. CASE m = k + 1
      BY <2>3, <2>5, <2>6, <2>10, <3>2 DEF opt
    <3>3. CASE m # k + 1
      <4>1. m <= k <=> m <= k + 1
        BY <2>3, <3>3
      <4>2. packet'[o[m]] = packet[o[m]]
        BY <2>6, <2>10, <3>1, <3>3
      <4> QED BY <2>2, <4>1, <4>2 DEF Walked, Parsed, last
    <3> QED BY <3>2, <3>3
  <2>12. ASSUME NEW q, result' = q, ResultParsed(q, o, k + 1) PROVE Walked(o, k + 1)'
    <3>1. size' = HeaderSize + o[Len(options') + 1]
      BY <1>1, <2>2 DEF Walked
    <3>2. Parsed(o, k + 1)'
      BY <1>1, <2>11, <2>12 DEF Parsed, ResultParsed, Identifies, Lists, last
    <3> QED BY <1>1, <2>11, <3>1, <3>2 DEF Walked, last
  <2>13. /\ o[k + 1] \in Nat /\ o[k + 2] \in Nat /\ o[last + 1] \in Nat /\ o[k + 2] = o[k + 1] + n
         /\ (k + 1 < last => o[k + 2] < o[last + 1])
    <3>1. k + 1 \in 1..last + 1 /\ k + 2 \in 1..last + 1 /\ last + 1 \in 1..last + 1 /\ (k + 1) + 1 = k + 2
      BY <2>3
    <3> QED BY <2>1, <2>3, <3>1 DEF Places, last, n, opt
  <2>14. unread = o[last + 1] - o[k + 1] /\ size = HeaderSize + o[last + 1]
    BY <1>1, <2>2, <2>13, Limits DEF IInv, UnreadInv, Walked, last
  <2>15. CASE k + 1 = last
    <3>1. unread' = 0
      BY <2>4, <2>7, <2>13, <2>14, <2>15 DEF NextOption, Minus
    <3>2. phase' = "done" /\ result' = [r EXCEPT !.success = TRUE]
      BY <2>7, <3>1 DEF NextOption, Finish
    <3>3. r \in ResultType
      BY <2>7, NoteIsResult
    <3>4. result'.success
      BY <3>2, <3>3 DEF ResultType
    <3>5. Walked(o, k + 1)'
      BY <2>9, <2>12, <3>2
    <3>6. Places(o)'
      BY <1>1, <2>1, PlacesKept
    <3>7. Len(options') = k + 1
      BY <1>1, <2>15 DEF last
    <3>8. Walked(o, Len(options))'
      BY <3>5, <3>7 DEF Walked
    <3> QED BY <1>1, <2>1, <3>2, <3>4, <3>6, <3>8 DEF TripInv
  <2>16. CASE k + 1 < last
    <3>1. unread' = o[last + 1] - o[k + 2] /\ unread' # 0
      BY <2>4, <2>7, <2>13, <2>14, <2>16 DEF NextOption, Minus
    <3>2. reader' = o[k + 2] /\ HeaderSize + reader' <= size
      BY <2>2, <2>7, <2>13, <2>14, <2>16, <3>1, Limits DEF NextOption
    <3>3. phase' = "parse" /\ result' = r
      <4>1. ~(HeaderSize + reader' > size)
        BY <2>13, <2>14, <3>2, Limits
      <4> QED BY <1>1, <2>7, <3>1, <4>1 DEF NextOption
    <3>4. Walked(o, k + 1)'
      BY <2>9, <2>12, <3>3
    <3>5. k + 1 \in 0..(Len(options') - 1) /\ reader' = o[(k + 1) + 1]
      BY <1>1, <2>3, <2>16, <3>2 DEF last
    <3>6. Places(o)'
      BY <1>1, <2>1, PlacesKept
    <3> QED BY <1>1, <2>1, <3>3, <3>4, <3>5, <3>6 DEF TripInv
  <2> QED BY <2>3, <2>15, <2>16
<1> QED BY <1>1, <1>2, <1>3 DEF TripInv

LEMMA NextTrips == ASSUME IInv, TripInv, Next PROVE TripInv'
BY CountTrips, AllocateTrips, CopyTrips, DeliverTrips, CheckTrips, ParseTrips DEF Next, Create

LEMMA TripImplies == ASSUME IInv, TripInv PROVE RoundTrip
<1> SUFFICES ASSUME phase = "done", options # <<>>
             PROVE  \E o \in [1..Len(options) + 1 -> DOMAIN packet \cup {size - HeaderSize}] :
                      /\ LaysOut(o)
                      /\ \A a \in DOMAIN packet : \E n \in 1..Len(options) : a = o[n]
                      /\ IF msgType = SOLICIT
                         THEN result = NoResult /\ Parsed(o, 0)
                         ELSE result.success /\ Parsed(o, Len(options))
  BY DEF RoundTrip
<1> DEFINE last == Len(options)
<1>1. PICK o : /\ Places(o)
               /\ IF msgType = SOLICIT THEN result = NoResult /\ Walked(o, 0)
                  ELSE result.success /\ Walked(o, last)
  BY DEF TripInv
<1>2. last \in Nat
  BY DEF IInv, TypeInv
<1>3. size = HeaderSize + o[last + 1] /\ DOMAIN packet = {o[n] : n \in 1..last}
  BY <1>1 DEF Walked
<1>4. o \in [1..last + 1 -> Nat]
  BY <1>1 DEF Places
<1>5. o \in [1..last + 1 -> DOMAIN packet \cup {size - HeaderSize}]
  <2> SUFFICES ASSUME NEW n \in 1..last + 1 PROVE o[n] \in DOMAIN packet \cup {size - HeaderSize}
    BY <1>4
  <2>1. CASE n \in 1..last
    BY <1>3, <2>1
  <2>2. CASE n = last + 1
    <3>1. o[last + 1] \in Nat
      BY <1>4, <2>2
    <3> QED BY <1>3, <2>2, <3>1, Limits
  <2> QED BY <1>2, <2>1, <2>2
<1>6. LaysOut(o)
  BY <1>1, <1>3 DEF Places, LaysOut
<1> QED BY <1>1, <1>3, <1>5, <1>6 DEF Walked

LEMMA TripInvariant == Spec => []TripInv
<1>1. IInv /\ TripInv /\ [Next]_vars => TripInv'
  BY NextTrips, TripStutter
<1> QED BY <1>1, TripInit, Invariant, PTL DEF Spec

(* Whatever options dh_createPacket is given, dh_parseOptions finds exactly*)
(* these in a reply, each converted to host order once, with the IA_PD     *)
(* options listed in order and the last of each identifier noted; only a   *)
(* failed allocation leaves an IA_PD option out of the list.               *)
THEOREM CreatedIsParsed == Spec => []RoundTrip
<1>1. IInv /\ TripInv => RoundTrip
  BY TripImplies
<1> QED BY <1>1, Invariant, TripInvariant, PTL

LEMMA OwnHeadersFit == ASSUME IInv, TripInv PROVE CreatedHeadersInside
<1> SUFFICES ASSUME phase = "parse", options # <<>>
             PROVE  HeaderSize + reader + HeaderSize <= size
  BY DEF CreatedHeadersInside
<1> DEFINE last == Len(options)
<1>1. PICK o : Places(o) /\ \E k \in 0..(last - 1) : reader = o[k + 1] /\ Walked(o, k)
  BY DEF TripInv
<1>2. PICK k \in 0..(last - 1) : reader = o[k + 1] /\ Walked(o, k)
  BY <1>1
<1>3. last \in Nat /\ size = HeaderSize + o[last + 1]
  BY <1>2 DEF Walked, IInv, TypeInv
<1>4. SizeOf(options[k + 1]) \in Nat /\ SizeOf(options[k + 1]) >= HeaderSize
  <2>1. k + 1 \in 1..last
    BY <1>3
  <2>2. options[k + 1] \in AnyOption
    BY <2>1 DEF IInv, TypeInv
  <2> QED BY <2>2, SizeBounds, Limits
<1>5. /\ o \in [1..last + 1 -> Nat]
      /\ \A n \in 1..last : o[n + 1] = o[n] + SizeOf(options[n])
      /\ \A m, n \in 1..last + 1 : m < n => o[m] < o[n]
  BY <1>1 DEF Places
<1> HIDE DEF last
<1>6. /\ k + 1 \in 1..last /\ k + 1 \in 1..last + 1 /\ k + 2 \in 1..last + 1
      /\ last + 1 \in 1..last + 1 /\ (k + 1) + 1 = k + 2
  BY <1>3
<1>7. o[k + 1] \in Nat /\ o[k + 2] \in Nat /\ o[last + 1] \in Nat
  BY <1>5, <1>6
<1>8. o[k + 2] = o[k + 1] + SizeOf(options[k + 1])
  BY <1>5, <1>6
<1>9. o[k + 2] <= o[last + 1]
  <2>1. k + 2 = last + 1 \/ k + 2 < last + 1
    BY <1>3
  <2>2. CASE k + 2 = last + 1
    BY <1>7, <2>2
  <2>3. CASE k + 2 < last + 1
    <3>1. o[k + 2] < o[last + 1]
      BY <1>5, <1>6, <2>3
    <3> QED BY <1>7, <3>1
  <2> QED BY <2>1, <2>2, <2>3
<1> QED BY <1>2, <1>3, <1>4, <1>7, <1>8, <1>9, Limits

(* The parser converts no header that ends behind a packet of our own,     *)
(* however short the data of its last option.                              *)
THEOREM OwnHeadersInside == Spec => []CreatedHeadersInside
<1>1. IInv /\ TripInv => CreatedHeadersInside
  BY OwnHeadersFit
<1> QED BY <1>1, Invariant, TripInvariant, PTL
-----------------------------------------------------------------------------
(* What the caller is pointed to, in any packet.                           *)

(* Before the walk nothing is noted; during it, only what lies behind.     *)
NotedInv ==
  /\ phase \in {"count", "copy", "check"} => result = NoResult
  /\ phase = "parse" =>
       \A code \in {CLIENTID, SERVERID, IA_PD} : \A n \in Noted(result, code) : n < reader
  /\ NotedOptionsRead

LEMMA CodesDiffer == CLIENTID # SERVERID /\ CLIENTID # IA_PD /\ SERVERID # IA_PD
BY DEF CLIENTID, SERVERID, IA_PD

LEMMA NothingNoted == \A code \in {CLIENTID, SERVERID, IA_PD} : Noted(NoResult, code) = {}
<1>1. /\ NoResult.ClientIdentifier = NoOption /\ NoResult.ServerIdentifier = NoOption
      /\ DOMAIN NoResult.IA_PDList = {}
  BY DEF NoResult
<1>2. Noted(NoResult, CLIENTID) = {} /\ Noted(NoResult, SERVERID) = {}
  BY <1>1, CodesDiffer DEF Noted
<1>3. Noted(NoResult, IA_PD) = {}
  BY <1>1, CodesDiffer DEF Noted
<1> QED BY <1>2, <1>3

LEMMA NotedInit == Init => NotedInv
<1>1. NoResult.IA_PDList = <<>>
  BY DEF NoResult
<1> QED BY <1>1, NothingNoted DEF Init, NotedInv, NotedOptionsRead

LEMMA NotedStutter == ASSUME NotedInv, UNCHANGED vars PROVE NotedInv'
BY DEF NotedInv, NotedOptionsRead, Noted, vars, creator, parser

(* While nothing is noted, any packet will do.                             *)
LEMMA NotedBefore ==
  ASSUME NotedInv, phase \in {"count", "copy", "check"}, UNCHANGED result, phase' # "done"
  PROVE  NotedInv'
<1>1. result' = NoResult
  BY DEF NotedInv
<1>2. \A code \in {CLIENTID, SERVERID, IA_PD} : Noted(result', code) = {}
  BY <1>1, NothingNoted
<1>3. result'.IA_PDList = <<>>
  BY <1>1 DEF NoResult
<1> QED BY <1>1, <1>2, <1>3 DEF NotedInv, NotedOptionsRead

LEMMA CreateNotes == ASSUME NotedInv, Create PROVE NotedInv'
<1>1. phase \in {"count", "copy"} /\ phase' \in {"count", "copy", "check"} /\ UNCHANGED result
  BY DEF Create, CountOption, Allocate, CopyOption, Deliver, parser
<1> QED BY <1>1, NotedBefore

LEMMA CheckNotes == ASSUME NotedInv, CheckPacket PROVE NotedInv'
<1>1. phase = "check" /\ phase' \in {"parse", "done"} /\ result' \in {result, NoResult}
  BY DEF CheckPacket, Finish
<1>2. result' = NoResult
  BY <1>1 DEF NotedInv
<1>3. \A code \in {CLIENTID, SERVERID, IA_PD} : Noted(result', code) = {}
  BY <1>2, NothingNoted
<1>4. result'.IA_PDList = <<>>
  BY <1>2 DEF NoResult
<1> QED BY <1>1, <1>2, <1>3, <1>4 DEF NotedInv, NotedOptionsRead

(* An option adds its own offset under its own code, at the list's end.    *)
LEMMA NoteAdds ==
  ASSUME IInv, NEW c \in Nat, NEW r \in Note(result, c),
         NEW q, q = r \/ q = [r EXCEPT !.success = TRUE]
  PROVE  /\ \A code \in {CLIENTID, SERVERID, IA_PD} : \A n \in Noted(q, code) :
              n \in Noted(result, code) \/ (n = reader /\ code = c)
         /\ q.IA_PDList \in {result.IA_PDList, Append(result.IA_PDList, reader)}
<1>1. result \in ResultType /\ r \in ResultType
  BY NoteIsResult DEF IInv, TypeInv
<1>2. /\ q.ClientIdentifier = r.ClientIdentifier /\ q.ServerIdentifier = r.ServerIdentifier
      /\ q.IA_PDList = r.IA_PDList
  BY <1>1 DEF ResultType
<1>3. \/ /\ c = CLIENTID /\ r.ClientIdentifier = reader
         /\ r.ServerIdentifier = result.ServerIdentifier /\ r.IA_PDList = result.IA_PDList
      \/ /\ c = SERVERID /\ r.ServerIdentifier = reader
         /\ r.ClientIdentifier = result.ClientIdentifier /\ r.IA_PDList = result.IA_PDList
      \/ /\ c = IA_PD /\ r.IA_PDList = Append(result.IA_PDList, reader)
         /\ r.ClientIdentifier = result.ClientIdentifier /\ r.ServerIdentifier = result.ServerIdentifier
      \/ /\ r.ClientIdentifier = result.ClientIdentifier /\ r.ServerIdentifier = result.ServerIdentifier
         /\ r.IA_PDList = result.IA_PDList
  <2>1. CASE c = CLIENTID
    BY <1>1, <2>1, CodesDiffer DEF Note, ResultType
  <2>2. CASE c = SERVERID
    BY <1>1, <2>2, CodesDiffer DEF Note, ResultType
  <2>3. CASE c = IA_PD
    BY <1>1, <2>3, CodesDiffer DEF Note, ResultType
  <2>4. CASE c \notin {CLIENTID, SERVERID, IA_PD}
    <3>1. Note(result, c) = {result}
      BY <2>4 DEF Note
    <3> QED BY <3>1
  <2> QED BY <2>1, <2>2, <2>3, <2>4
<1>4. q.IA_PDList \in {result.IA_PDList, Append(result.IA_PDList, reader)}
  BY <1>2, <1>3
<1>5. \A n \in Noted(q, CLIENTID) : n \in Noted(result, CLIENTID) \/ (n = reader /\ c = CLIENTID)
  BY <1>2, <1>3 DEF Noted
<1>6. \A n \in Noted(q, SERVERID) : n \in Noted(result, SERVERID) \/ (n = reader /\ c = SERVERID)
  BY <1>2, <1>3, CodesDiffer DEF Noted
<1>7. \A n \in Noted(q, IA_PD) : n \in Noted(result, IA_PD) \/ (n = reader /\ c = IA_PD)
  <2>1. /\ Noted(q, IA_PD) = {q.IA_PDList[m] : m \in DOMAIN q.IA_PDList}
        /\ Noted(result, IA_PD) = {result.IA_PDList[m] : m \in DOMAIN result.IA_PDList}
    BY CodesDiffer DEF Noted
  <2>2. CASE q.IA_PDList = result.IA_PDList
    BY <2>1, <2>2
  <2>3. CASE c = IA_PD /\ q.IA_PDList = Append(result.IA_PDList, reader)
    <3>1. result.IA_PDList \in Seq(Nat)
      BY <1>1 DEF ResultType
    <3> QED BY <2>1, <2>3, <3>1
  <2> QED BY <1>2, <1>3, <2>2, <2>3
<1> QED BY <1>4, <1>5, <1>6, <1>7

(* A turn of the loop goes forward, and stays inside.                      *)
LEMMA ParseAdvances ==
  ASSUME IInv, ParseOption, phase' = "parse"
  PROVE  reader < reader' /\ HeaderSize + reader' < size
<1>1. PICK h \in HeadersAt(reader) : \E r \in Note(result, Host(be16toh(h.code))) :
        NextOption(r, Host(be16toh(h.length)) + HeaderSize)
  BY DEF ParseOption
<1> DEFINE n == Host(be16toh(h.length)) + HeaderSize
<1>2. n \in Nat /\ n > 0
  <2>1. h \in Header
    BY OnWireIsHeader, OptionIsAny DEF HeadersAt, IInv, TypeInv
  <2>2. Host(be16toh(h.length)) \in 0..MaxField
    BY <2>1, SwapIsField, HostIsNat DEF Header
  <2> QED BY <2>2, Limits
<1>3. PICK r : NextOption(r, n)
  BY <1>1
<1> HIDE DEF n
<1>4. reader' = reader + n /\ reader \in Nat /\ size' = size
  BY <1>3 DEF NextOption, Finish, ParseOption, IInv, TypeInv
<1>5. HeaderSize + reader' < size' \/ reader' = 0
  BY ParseKeeps DEF IInv, HeadersStartInside
<1> QED BY <1>2, <1>4, <1>5

LEMMA ParseNotes == ASSUME IInv, NotedInv, ParseOption PROVE NotedInv'
<1>1. PICK h \in HeadersAt(reader) :
        LET code == be16toh(h.code)
            len  == be16toh(h.length)
        IN /\ packet' = [n \in DOMAIN packet \cup {reader} |->
                           IF n = reader THEN [code |-> code, length |-> len] ELSE packet[n]]
           /\ \E r \in Note(result, Host(code)) : NextOption(r, Host(len) + HeaderSize)
  BY DEF ParseOption
<1> DEFINE code == be16toh(h.code)
           len  == be16toh(h.length)
           c == Host(code)
           n == Host(len) + HeaderSize
<1>2. PICK r \in Note(result, c) : NextOption(r, n)
  BY <1>1
<1>3. c \in Nat /\ n \in Nat /\ n > 0
  <2>1. h \in Header
    BY OnWireIsHeader, OptionIsAny DEF HeadersAt, IInv, TypeInv
  <2>2. Host(code) \in 0..MaxField /\ Host(len) \in 0..MaxField
    BY <2>1, SwapIsField, HostIsNat DEF Header
  <2> QED BY <2>2, Limits
<1>4. /\ DOMAIN packet' = DOMAIN packet \cup {reader} /\ Host(packet'[reader].code) = c
      /\ \A a \in DOMAIN packet : a # reader => packet'[a] = packet[a]
  BY <1>1
<1> HIDE DEF code, len, c, n
<1>5. phase = "parse" /\ size' = size /\ reader \in Nat
  BY DEF ParseOption, IInv, TypeInv
<1>6. HeaderSize + reader < size \/ (size < HeaderSize /\ reader = 0)
  BY <1>5 DEF IInv, HeadersStartInside
<1>7. /\ result' \in {r, [r EXCEPT !.success = TRUE]} /\ phase' \in {"parse", "done"}
      /\ phase' = "parse" => reader < reader'
  <2>1. result' \in {r, [r EXCEPT !.success = TRUE]} /\ phase' \in {"parse", "done"}
    BY <1>2, <1>5 DEF NextOption, Finish
  <2> QED BY <2>1, ParseAdvances
<1>8. \A x \in {CLIENTID, SERVERID, IA_PD} : \A a \in Noted(result', x) :
        a \in Noted(result, x) \/ (a = reader /\ x = c)
  <2>1. PICK q : result' = q /\ (q = r \/ q = [r EXCEPT !.success = TRUE])
    BY <1>7
  <2>2. \A x \in {CLIENTID, SERVERID, IA_PD} : \A a \in Noted(q, x) :
          a \in Noted(result, x) \/ (a = reader /\ x = c)
    BY <1>2, <1>3, <2>1, NoteAdds
  <2> QED BY <2>1, <2>2
<1>9. ASSUME NEW x \in {CLIENTID, SERVERID, IA_PD}, NEW a \in Noted(result', x)
      PROVE  /\ a \in DOMAIN packet' /\ Host(packet'[a].code) = x
             /\ HeaderSize + a < size' \/ (size' < HeaderSize /\ a = 0)
             /\ phase' = "parse" => a < reader'
  <2>1. CASE a = reader /\ x = c
    BY <1>4, <1>5, <1>6, <1>7, <2>1
  <2>2. CASE a \in Noted(result, x)
    <3>1. /\ a < reader /\ a \in DOMAIN packet /\ Host(packet[a].code) = x
          /\ HeaderSize + a < size \/ (size < HeaderSize /\ a = 0)
      BY <1>5, <2>2 DEF NotedInv, NotedOptionsRead
    <3>2. a \in Nat
      BY <3>1 DEF IInv, TypeInv
    <3>3. phase' = "parse" => reader' \in Nat
      BY <1>2, <1>3, <1>5, <1>7 DEF NextOption
    <3> QED BY <1>4, <1>5, <1>7, <3>1, <3>2, <3>3
  <2> QED BY <1>8, <2>1, <2>2
<1>10. \A l, m \in DOMAIN result'.IA_PDList : l < m => result'.IA_PDList[l] < result'.IA_PDList[m]
  <2> DEFINE list == result.IA_PDList
  <2>1. /\ list \in Seq(Nat)
        /\ \A l, m \in DOMAIN list : l < m => list[l] < list[m]
    BY DEF IInv, TypeInv, ResultType, NotedInv, NotedOptionsRead
  <2>2. \A m \in DOMAIN list : list[m] < reader
    <3>1. Noted(result, IA_PD) = {list[m] : m \in DOMAIN list}
      BY CodesDiffer DEF Noted
    <3> QED BY <1>5, <3>1 DEF NotedInv
  <2>3. result'.IA_PDList \in {list, Append(list, reader)}
    <3>1. PICK q : result' = q /\ (q = r \/ q = [r EXCEPT !.success = TRUE])
      BY <1>7
    <3>2. q.IA_PDList \in {list, Append(list, reader)}
      BY <1>2, <1>3, <3>1, NoteAdds
    <3> QED BY <3>1, <3>2
  <2> HIDE DEF list
  <2>4. ASSUME NEW l \in DOMAIN Append(list, reader), NEW m \in DOMAIN Append(list, reader), l < m
        PROVE  Append(list, reader)[l] < Append(list, reader)[m]
    <3>1. /\ DOMAIN list = 1..Len(list) /\ Len(list) \in Nat
          /\ DOMAIN Append(list, reader) = 1..(Len(list) + 1)
      BY <2>1, <1>5
    <3>2. l \in DOMAIN list /\ Append(list, reader)[l] = list[l]
      BY <2>1, <2>4, <3>1, <1>5
    <3>3. CASE m \in DOMAIN list
      BY <1>5, <2>1, <2>4, <3>1, <3>2, <3>3
    <3>4. CASE m = Len(list) + 1
      BY <1>5, <2>1, <2>2, <3>1, <3>2, <3>4
    <3> QED BY <3>1, <3>3, <3>4
  <2> QED BY <2>1, <2>3, <2>4
<1>11. NotedOptionsRead'
  BY <1>9, <1>10 DEF NotedOptionsRead, Noted
<1>12. phase' = "parse" => \A x \in {CLIENTID, SERVERID, IA_PD} : \A a \in Noted(result', x) : a < reader'
  BY <1>9
<1> QED BY <1>7, <1>11, <1>12 DEF NotedInv, Noted

LEMMA NextNotes == ASSUME IInv, NotedInv, Next PROVE NotedInv'
BY CreateNotes, CheckNotes, ParseNotes DEF Next

(* Whatever the packet: the identifiers and the IA_PD options that the     *)
(* caller is handed begin inside it, were read, converted once, and bear   *)
(* the code they are noted for; no IA_PD is listed twice.                  *)
THEOREM NotedWereRead == Spec => []NotedOptionsRead
<1>1. IInv /\ NotedInv /\ [Next]_vars => NotedInv'
  BY NextNotes, NotedStutter
<1>2. NotedInv => NotedOptionsRead
  BY DEF NotedInv
<1> QED BY <1>1, <1>2, NotedInit, Invariant, PTL DEF Spec
=============================================================================
