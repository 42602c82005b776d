---------------------------- MODULE MCNdpPackets ----------------------------
(* Instances of NdpPackets.                                                 *)
EXTENDS NdpPackets

(* A bit inside a /56, one behind it, and one behind a /64.                 *)
MCBits == {40, 60, 100}
OneLifetime == {<<0, 0, 14, 16>>}

(* The literal of sendRouterAdv, and where the number of units changes.     *)
AnyRoute == {0, 56, 64, 127}
ItsRoute == {56}

(* Zero, one, and the words whose sums carry.                               *)
MCWords == {0, 1, 7}
=============================================================================
