------------------------------- MODULE LinkLayer -------------------------------
(***************************************************************************)
(* What ARPCache and NDCache share: the MAC addresses of a link.           *)
(***************************************************************************)
EXTENDS Naturals

CONSTANTS Macs, NoMac       \* NoMac: all zero

ASSUME NoMacAssumption == NoMac \notin Macs

AtMost(n, limit) == IF n < limit THEN n ELSE limit
================================================================================
