---------------------------- MODULE MCChatSync ----------------------------
(* Devices whose clocks differ, by less than the time between two changes. *)
EXTENDS ChatSync, TLC

OriginAhead == [d \in Dev |-> IF d = Origin THEN 1 ELSE 0]
===========================================================================
