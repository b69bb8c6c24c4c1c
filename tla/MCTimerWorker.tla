--------------------------- MODULE MCTimerWorker ---------------------------
(* TLC instances of TimerWorker: a periodic timer and timers that are due once. *)
EXTENDS TimerWorker, TLC

CONSTANTS t1, t2, t3

TwoTimers == {t1, t2}
TwoPoints == (t1 :> 0 @@ t2 :> 1)
TwoPeriods == (t1 :> 1 @@ t2 :> 0)

ThreeTimers == {t1, t2, t3}
Points == (t1 :> 0 @@ t2 :> 1 @@ t3 :> 1)
Periods == (t1 :> 1 @@ t2 :> 0 @@ t3 :> 0)
=============================================================================
