-------------------------- MODULE MCRangingResults --------------------------
(***************************************************************************)
(* A small instance of RangingResults with the code's distances (one tick  *)
(* is 4.692 mm): plausible readings on both limits and beyond them, within *)
(* and beyond the spread of each other; counters that wrap; clocks that    *)
(* differ; angles that swing from one end to the other; and powers that    *)
(* are good, bad, unreadable and degenerate.                               *)
(***************************************************************************)
EXTENDS RangingResults

MCMinPlausible == -300
MCDistances == -2000 .. 50000

\* From one end of the angles to the other, 180; twice halved it is below 50.
MCSwings == <<180, 90, 45>>

MCSample(tof, a, b, angle) ==
    [ exchange |-> [tof |-> tof, reply1 |-> 3000, reply2 |-> 1500, start |-> 160000],
      a |-> a, b |-> b, responders |-> <<ResponderIndex>>,
      stsRead |-> TRUE, stsPassed |-> TRUE, quality |-> 55,
      angle |-> angle, powersRead |-> TRUE, firstPath |-> -80, rssi |-> -75 ]

MCSamples ==
    { \* 999 mm
      MCSample(213, 1, 1, -90),
      \* 1407 mm; the first power is weak; another responder's record is first
      [MCSample(300, 1, 1, 90) EXCEPT !.firstPath = -100, !.quality = 54,
                                      !.responders = <<ResponderIndex + 1, ResponderIndex>>],
      \* 938 mm on the one clock, 1407 on the other; no powers, a better STS
      [MCSample(100, 2, 3, -60) EXCEPT !.powersRead = FALSE, !.quality = 60],
      \* 19997 mm, the farthest that is plausible; the counter of the report wraps
      [MCSample(4262, 1, 1, -90) EXCEPT !.exchange.reply1 = 20000,
                                        !.exchange.reply2 = 15000, !.stsRead = FALSE,
                                        !.stsPassed = FALSE, !.firstPath = NoPower],
      \* -300 mm, the nearest that is plausible
      [MCSample(-64, 1, 1, 90) EXCEPT !.stsPassed = FALSE, !.rssi = 0],
      \* -304 mm
      MCSample(-65, 1, 1, 90) }

=============================================================================
