------------------------------- MODULE Clock --------------------------------
(***************************************************************************)
(* The chain's clock (external): Clock::get().unix_timestamp, which never  *)
(* runs backwards and is the same for every program.                       *)
(***************************************************************************)
EXTENDS Naturals

CONSTANT MaxTime     \* bound of the clock

VARIABLE now

TimePasses ==
    /\ now < MaxTime
    /\ now' = now + 1
=============================================================================
