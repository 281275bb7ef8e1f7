--------------------------- MODULE MCTimerWheel ---------------------------
(* Small instances of the timer wheel for TLC.                             *)
EXTENDS TimerWheel

(* Ranges that end below the most significant digit.                       *)
LowRanges == {<<0, 1>>, <<1, 2>>, <<1, 3>>, <<2, 3>>}
=============================================================================
