------------------------------- MODULE MCPdrad -------------------------------
(***************************************************************************)
(* Values for the model checker.  The lifetime is 3600 s: a word whose     *)
(* bytes differ from its swapped bytes.  Length 0 is the value main's busy *)
(* wait takes for "no result yet"; a server may send it.                   *)
(***************************************************************************)
EXTENDS Pdrad

MCLengths == {0, 56}
OneLifetime == {<<0, 0, 14, 16>>}
TwoLifetimes == {<<0, 0, 14, 16>>, <<0, 0, 28, 32>>}
(* NoPrefixAvail (6) without a message, followed by what the buffer held.   *)
NoPrefixAvail == {[ZeroRecord EXCEPT !.PreferredLifetime = <<0, 0, 6, 0>>]}
(* Its swapped form is itself: for runs that do not look at lifetimes.         *)
ZeroLifetime == {Zero32}
NoStatuses == {}
AllModes == {"static", "dhcp"}
StaticMode == {"static"}
DhcpMode == {"dhcp"}
NoFaults == {}
=============================================================================
