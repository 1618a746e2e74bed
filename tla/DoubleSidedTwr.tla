--------------------------- MODULE DoubleSidedTwr ---------------------------
(***************************************************************************)
(* Double-sided two-way ranging: the four intervals the session makes of   *)
(* its timestamps and of the initiator's report, and the distance          *)
(* ranging::DistanceEstimator makes of them.  The module has no state.     *)
(*                                                                         *)
(* Timestamps are read from counters of D40 = 2^40 ticks, and intervals    *)
(* are reported and computed modulo D32 = 2^32.                            *)
(***************************************************************************)
EXTENDS Integers

CONSTANTS D32, D40

ASSUME TickAssumption ==
    /\ D32 \in Nat \ {0}
    /\ D40 \in Nat \ {0}
    /\ D40 % D32 = 0

\* Division of C++: the quotient is truncated toward zero.
Truncated(n, d) == IF n >= 0 THEN n \div d ELSE -((-n) \div d)

-----------------------------------------------------------------------------
(***************************************************************************)
(* The session's intervals (handleFinalDataReception).  own is its stamps  *)
(* of the Poll, the Response and the Final; report is what the initiator   *)
(* says of its own clock: from the Poll to the Response and to the Final.  *)
(***************************************************************************)

\* Slip (not used by the specification): differences are not wrapped.
IntervalsUnwrapped(own, report) ==
    [ round1 |-> report.pollToResponse,
      reply1 |-> (own.respTx - own.pollRx) % D32,
      round2 |-> (own.finalRx - own.respTx) % D32,
      reply2 |-> report.pollToFinal - report.pollToResponse ]

Intervals(own, report) ==
    [ round1 |-> report.pollToResponse,
      reply1 |-> (own.respTx - own.pollRx) % D32,
      round2 |-> (own.finalRx - own.respTx) % D32,
      reply2 |-> (report.pollToFinal - report.pollToResponse) % D32 ]

TotalInterval(ts) == ts.round1 + ts.round2 + ts.reply1 + ts.reply2

\* The cast to a signed number of 32 bits.
Int32(n) == ((n + D32 \div 2) % D32) - D32 \div 2

\* calculateSignedTofTicks for a total that is not zero, before its cast.  The
\* products have 64 bits, which intervals below D32 \div 2 do not exceed.
TofQuotient(ts) ==
    Truncated(ts.round1 * ts.round2 - ts.reply1 * ts.reply2, TotalInterval(ts))

CalculateSignedTofTicks(ts) == Int32(TofQuotient(ts))

\* 4.692 mm per tick.
CalculateDistance(ts, antennaDelayBias) ==
    Int32(Truncated(CalculateSignedTofTicks(ts) * 4692, 1000)) + antennaDelayBias

-----------------------------------------------------------------------------
(***************************************************************************)
(* An exchange as it happens, in a unit of time that both clocks count:    *)
(* the initiator's makes a ticks of a unit, the responder's b.  A frame    *)
(* flies for tof units, the responder replies after reply1, the initiator  *)
(* after reply2; start is when the Poll arrives on the responder's clock.  *)
(***************************************************************************)
OwnStamps(x, b) ==
    [ pollRx  |-> x.start % D40,
      respTx  |-> (x.start + b * x.reply1) % D40,
      finalRx |-> (x.start + b * (x.reply1 + 2 * x.tof + x.reply2)) % D40 ]

PeerReport(x, a) ==
    [ pollToResponse |-> (a * (2 * x.tof + x.reply1)) % D32,
      pollToFinal    |-> (a * (2 * x.tof + x.reply1 + x.reply2)) % D32 ]

IsInt32(n) == -(D32 \div 2) <= n /\ n < D32 \div 2

\* A frame is answered after it arrived, and no single interval is as long as a
\* counter; their sum may be.  tof below zero is a frame whose timestamps have
\* been corrected by more than its flight.  Ticks and millimetres of the flight
\* are numbers of 32 bits.
Fits(x, a, b) ==
    /\ x \in [tof : Int, reply1 : Nat, reply2 : Nat, start : Nat]
    /\ {a, b} \subseteq Nat \ {0}
    /\ 2 * x.tof + x.reply1 >= 0
    /\ 2 * x.tof + x.reply2 >= 0
    /\ a * (2 * x.tof + x.reply1) < D32
    /\ b * (2 * x.tof + x.reply2) < D32
    /\ b * x.reply1 < D32
    /\ a * x.reply2 < D32
    /\ \A ticks \in {a * x.tof, b * x.tof} :
          IsInt32(ticks) /\ IsInt32(Truncated(ticks * 4692, 1000))

=============================================================================
