----------------------------- MODULE NdpOptions -----------------------------
(***************************************************************************)
(* The options of Neighbor Discovery messages, as their constructors leave *)
(* them on the heap.  An option is a record of                             *)
(*                                                                         *)
(*   type, length    the two header fields; length counts units of 8 bytes *)
(*   allocated       the bytes asked of malloc                             *)
(*   written         the bytes, from the start, that are given a value     *)
(*   prefixLength    the prefix length announced, 0 without one            *)
(*   ones            the positions of the one-bits of the prefix carried   *)
(*   flags           the one-bits of the flags byte                        *)
(*   lifetimes       the 32-bit fields, as they lie in memory              *)
(*                                                                         *)
(* A prefix is the set of the positions of its one-bits, 0 the first; a    *)
(* byte of flags the set of its one-bits, 7 the highest.                   *)
(***************************************************************************)
EXTENDS Integers, Sequences, ByteOrder

Unit == 8
ndp_optOffset == 2
AddressBytes == 16    \* sizeof(struct in6_addr)

ndp_opt_LinkLayerAddress == 6               \* the sizes of the option data
ndp_opt_PrefixInformation == 14 + AddressBytes
ndp_opt_Mtu == 6
ndp_opt_RouteInformation == 6               \* without the prefix

flag_L == {7}
flag_A == {6}
flag_R == {7, 6}

Plain(type, length, size) ==
  [type |-> type, length |-> length, allocated |-> size, written |-> size,
   prefixLength |-> 0, ones |-> {}, flags |-> {}, lifetimes |-> <<>>]

NoOption == Plain(0, 0, 0)                  \* NULL

createOptionLinkLayerAddressCore(type) ==
  IF type \in {1, 2} THEN Plain(type, 1, ndp_optOffset + ndp_opt_LinkLayerAddress)
  ELSE NoOption
createOptionSourceLinkLayerAddress == createOptionLinkLayerAddressCore(1)

createOptionPrefixInformation(prefixLength, flags, valid, preferred, ones) ==
  [Plain(3, 4, ndp_optOffset + ndp_opt_PrefixInformation) EXCEPT
     !.prefixLength = prefixLength,
     !.ones = ones,
     !.flags = flags \cap {7, 6},
     !.lifetimes = <<htobe32(valid), htobe32(preferred)>>]

createOptionMtu(mtu) ==
  [Plain(5, 1, ndp_optOffset + ndp_opt_Mtu) EXCEPT !.lifetimes = <<htobe32(mtu)>>]

(* Mutant of PrefixUnits: rounded down.                                    *)
RoundsDown(prefixLength) == prefixLength \div 64

(* Units of eight bytes for the prefix.                                    *)
PrefixUnits(prefixLength) == IF prefixLength = 0 THEN 0 ELSE prefixLength \div 64 + 1

(* The prefix is copied in whole units; the bits behind its length are not *)
(* cleared, and the test for lengths beyond 128 has an empty body.         *)
createOptionRouteInformation(prefixLength, lifetime, ones) ==
  LET propLen == 1 + PrefixUnits(prefixLength) IN
  [Plain(24, propLen, propLen * Unit) EXCEPT
     !.written = ndp_optOffset + ndp_opt_RouteInformation + PrefixUnits(prefixLength) * Unit,
     !.prefixLength = prefixLength,
     !.ones = {b \in ones : b < PrefixUnits(prefixLength) * Unit * 8},
     !.lifetimes = <<htobe32(lifetime)>>]

(* What an option announces is what it occupies, and all of it has a value.*)
WellFormed(o) == o.length * Unit = o.allocated /\ o.written = o.allocated

(* The leading bits that an option announces are those of the prefix p.    *)
Announces(o, p) == \A b \in 0 .. o.prefixLength - 1 : b \in o.ones <=> b \in p
=============================================================================
