--------------------------- MODULE MCChatDelivery ---------------------------
(***************************************************************************)
(* ChatDelivery on small instances: one message to a friend with one or    *)
(* two devices, and one or two ids for its copies and changes on the       *)
(* server.                                                                 *)
(***************************************************************************)
EXTENDS ChatDelivery, TLC
=============================================================================
