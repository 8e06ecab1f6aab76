------------------------------ MODULE MCTimers ------------------------------
(* Three periodic timers, one of them maskable, two of them of the same    *)
(* timeout; two sleeps of the same length; a plain one-shot timer.         *)
EXTENDS Timers, TLC

CONSTANTS slice, uart, mask, nap1, nap2, shot, poll
MCTimer == {slice, uart, mask, nap1, nap2, shot}
MCTimeout ==
  slice :> 1 @@ uart :> 3 @@ mask :> 3 @@ nap1 :> 2 @@ nap2 :> 2 @@ shot :> 2
MCTimerPoll == {slice, uart, poll}
MCTimeoutPoll == slice :> 2 @@ uart :> 2 @@ poll :> 0
MCPeriodic == {slice, uart, mask}
MCMaskable == {mask}
MCSleeper == {nap1, nap2}
MCNone == {}
MCPeriodicPoll == {slice, uart}
=============================================================================
