----------------------------- MODULE StreakGate -----------------------------
(***************************************************************************)
(* What the simulator gate promises: of the trading days recorded one by   *)
(* one it counts those in a row, up to the latest, that were good enough,  *)
(* and opens when there are enough of them ("10 consecutive sim days",     *)
(* spec U6).                                                               *)
(***************************************************************************)
EXTENDS Naturals, Sequences

CONSTANT Required   \* days in a row

VARIABLES
    verdicts,       \* of every recorded day, whether it was good enough
    streak          \* good days in a row, counted up to Required

Count(good) == IF ~good THEN 0 ELSE IF streak < Required THEN streak + 1 ELSE streak

GateInit == verdicts = <<>> /\ streak = 0

Record(good) == verdicts' = Append(verdicts, good) /\ streak' = Count(good)

Promise == GateInit /\ [][\E good \in BOOLEAN : Record(good)]_<<verdicts, streak>>
=============================================================================
