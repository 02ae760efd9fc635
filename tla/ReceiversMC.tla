---------------------------- MODULE ReceiversMC ----------------------------
(* A stream in which the decoder reads two sizes so large that PacketSize   *)
(* wraps around, to 1 and 2, and then the size 1; three datagrams.          *)
EXTENDS Receivers
TheSizes == [position \in 0..Total |-> CASE position = 2 -> SizeRange - 3
                                         [] position = 3 -> SizeRange - 2
                                         [] position = 5 -> 1
                                         [] OTHER -> 0]
=============================================================================
