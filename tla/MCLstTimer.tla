------------------------------ MODULE MCLstTimer ------------------------------
(* LstTimer with timers set one to three units ahead, so that an insertion *)
(* can hit the front, the middle, the end and equal expiry times.          *)
EXTENDS LstTimer

MCDelays == 1 .. 3

=============================================================================
