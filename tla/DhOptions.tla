----------------------------- MODULE DhOptions -----------------------------
(***************************************************************************)
(* The options of DHCPv6 messages, as their constructors leave them on the *)
(* heap: the two header fields in host order, the bytes asked of malloc,   *)
(* and the bytes, from the start, that are given a value.                  *)
(***************************************************************************)
EXTENDS Integers, Sequences

CONSTANT SizeMod   \* size_t counts modulo SizeMod

CLIENTID == 1
SERVERID == 2
ELAPSED_TIME == 8
RAPID_COMMIT == 14
IA_PD == 25

HeaderSize == 4              \* dh_optPayload_offset
MaxField == 65535            \* the largest uint16_t

sizeof_IA_PD == 12           \* without nested options
sizeof_ElapsedTime == 2
sizeof_DUId_En == 2 + 4      \* DUId type and enterprise number

Block(code, length, allocated, written) ==
  [code |-> code, length |-> length % (MaxField + 1),
   allocated |-> allocated, written |-> written]

NoBlock == Block(0, 0, 0, 0) \* NULL

(* An option with n bytes of data, a size_t, where data says whether there *)
(* is a pointer to them: without one the bytes keep whatever malloc        *)
(* returned.  The size is not compared with what OptionLength can hold, nor*)
(* the sum with what a size_t can.                                         *)
createCustomOptPayload(code, data, n) ==
  Block(code, n, (n + HeaderSize) % SizeMod, HeaderSize + (IF data THEN n ELSE 0))

(* With n bytes of nested options, for which nothing is allocated.         *)
createOption_IA_PD(n) ==
  Block(IA_PD, sizeof_IA_PD + n, sizeof_IA_PD + HeaderSize, sizeof_IA_PD + HeaderSize + n)

createOption_RapidCommit == createCustomOptPayload(RAPID_COMMIT, FALSE, 0)

(* Mutant of createOption_ClientIdentifier_En: the DUId type is not counted. *)
IdentifierWithoutType(n) ==
  IF n = 0 THEN NoBlock
  ELSE Block(CLIENTID, 4 + n, HeaderSize + sizeof_DUId_En + n, HeaderSize + sizeof_DUId_En + n)

createOption_ClientIdentifier_En(n) ==
  IF n = 0 THEN NoBlock
  ELSE Block(CLIENTID, sizeof_DUId_En + n, HeaderSize + sizeof_DUId_En + n,
             HeaderSize + sizeof_DUId_En + n)

createOption_ElapsedTime ==
  Block(ELAPSED_TIME, sizeof_ElapsedTime, HeaderSize + sizeof_ElapsedTime,
        HeaderSize + sizeof_ElapsedTime)

(* The option announces what it occupies, and all of it has a value.       *)
Whole(b) == b.length + HeaderSize = b.allocated /\ b.written = b.allocated
=============================================================================
