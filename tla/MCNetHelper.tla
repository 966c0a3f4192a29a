---------------------------- MODULE MCNetHelper ----------------------------
(* NetHelper for TLC: one node sends to another.  The last message gets the*)
(* packet id of the first and fills the buffer of the receiver.            *)
EXTENDS NetHelper

MCSizes == <<3, 1, 1, 1, 1, 4>>
=============================================================================
