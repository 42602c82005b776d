---------------------------- MODULE MCDhRequest ----------------------------
(* An instance of DhRequest: packets dh_createPacket builds, packets that   *)
(* came from elsewhere, and rounds of requests and replies.                 *)
EXTENDS DhRequest

MCCodes == {CLIENTID, SERVERID, ELAPSED_TIME, IA_PD}

(* Zero, lengths that end before, at and after the end of a packet of       *)
(* MCSizes, and one whose two bytes differ.                                 *)
MCLengths == {0, 1, 4, 300, 65535}
MCSizes == 0..16

(* No identifier; one that fits, and the longest that does; one of 65536    *)
(* bytes and ten; and a size that wraps around when the header's is added.  *)
MCClientSizes == {0, 10, 65535, 65546, SizeMod - 2}
MCFaults == {"clock", "send", "recv"}
=============================================================================
