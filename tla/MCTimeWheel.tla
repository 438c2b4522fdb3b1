----------------------------- MODULE MCTimeWheel -----------------------------
(* TimeWheel on a wheel of three slots.  With SI = 2 milliseconds per slot *)
(* the timeouts are one tick (rounded up), two ticks, one full turn, and a *)
(* full turn and a remainder (rounded down).                               *)
EXTENDS TimeWheel

MCTimeouts == {1, 4, 6, 9}

=============================================================================
