----------------------- MODULE RangingExchange_proofs -----------------------
(***************************************************************************)
(* A session and its initiator, for every schedule whose legs have STS     *)
(* indices of their own, every number of exchanges and of disturbances and *)
(* whatever of the session's calls fails; and, for the schedules that are  *)
(* Orderly and a session of which nothing fails, that it recovers.         *)
(***************************************************************************)
EXTENDS RangingExchange, RangingSession_proofs

Phases == {"Gap", "PrePoll", "Poll", "Final", "FinalData"}

\* The initiator, and how far it has come.
PeerOK ==
    /\ exchange \in PeerIn(Phases)
    /\ exchange.blockNumber <= FirstBlockNumber - 1 + exchange.number

-----------------------------------------------------------------------------
(***************************************************************************)
(* The schedule: no Final has the STS index of a Poll.                     *)
(***************************************************************************)

\* The indices a Poll may have, the initiator's or one the session predicts.
PollIndices(p) ==
    {PollStsIndexFor(p, block, round) : block \in BlockIndex \cup BlockNumbers,
                                        round \in SlotIndex}

LEMMA Division ==
    ASSUME NEW n \in Int, NEW d \in Nat \ {0}
    PROVE  /\ n \div d \in Int
           /\ n % d \in 0 .. d - 1
           /\ n = d * (n \div d) + (n % d)
OBVIOUS

LEMMA OrderedProducts ==
    ASSUME NEW m \in Int, NEW n \in Int, NEW d \in Nat, m <= n
    PROVE  m * d <= n * d
OBVIOUS

LEMMA SetUps ==
    ASSUME NEW p \in PeerParamsSet
    PROVE  /\ p \in ParamsSet /\ p \in RangingSessionParameters
           /\ p.slotsPerRound \in Nat /\ p.responderCount \in Nat /\ p.slotsPerRound # 0
           /\ Node \in SessionNodeConfig /\ Node.responderIndex \in Nat
<1>1. p \in RangingSessionParameters /\ Node \in SessionNodeConfig
  BY PeerAssumption, SessionAssumption
<1>2. p.slotsPerRound \in Nat /\ p.responderCount \in Nat
  BY <1>1 DEF RangingSessionParameters
<1>3. Node.responderIndex \in Nat
  BY <1>1 DEF SessionNodeConfig
<1> QED BY <1>1, <1>2, <1>3, PeerAssumption, ScheduleAssumption

\* An index of the schedule is that of the first round plus whole rounds,
\* and the rounds do not come round.
LEMMA PollIndexIs ==
    ASSUME NEW p \in PeerParamsSet, NEW sts \in PollIndices(p)
    PROVE  \E rounds \in Nat :
             /\ sts = (p.stsIndex0 + rounds * p.slotsPerRound + 1) % U32
             /\ (rounds + 1) * p.slotsPerRound <= U32
<1> DEFINE spr == p.slotsPerRound
           rpb == RoundsPerBlock(p)
<1>1. PICK block \in BlockIndex \cup BlockNumbers, round \in SlotIndex :
          sts = PollStsIndexFor(p, block, round)
  BY DEF PollIndices
<1>2. /\ p.stsIndex0 \in Nat /\ spr \in Nat /\ rpb \in Nat
      /\ block \in Nat /\ round \in Nat /\ round + 1 <= U16 /\ U16 \in Nat /\ U32 \in Nat
  BY SetUps, RoundsPerBlockNat, WidthAssumption, PeerAssumption
     DEF RangingSessionParameters, StsIndex, BlockIndex, SlotIndex, BlockNumbers
<1>3. (block * rpb + U16) * spr <= U32
  BY ScheduleAssumption
<1> DEFINE rounds == block * rpb + round
<1>4. sts = (p.stsIndex0 + block * (rpb * spr) + round * spr + 1) % U32
  BY <1>1 DEF PollStsIndexFor, BlockStsStride
<1> HIDE DEF spr, rpb
<1>5. block * rpb \in Nat
  BY <1>2, ProductNat
<1>6. block * (rpb * spr) + round * spr = rounds * spr
  BY <1>2
<1>7. rounds \in Nat /\ rounds + 1 <= block * rpb + U16
  BY <1>2, <1>5
<1> HIDE DEF rounds
<1>8. (rounds + 1) * spr <= (block * rpb + U16) * spr
  BY <1>2, <1>5, <1>7, OrderedProducts
<1>9. (rounds + 1) * spr <= U32
  <2>1. (rounds + 1) * spr \in Nat /\ (block * rpb + U16) * spr \in Nat
    BY <1>2, <1>5, <1>7, ProductNat
  <2> QED BY <1>2, <1>3, <1>8, <2>1
<1>10. p.stsIndex0 + block * (rpb * spr) + round * spr + 1 = p.stsIndex0 + rounds * spr + 1
  <2>1. block * (rpb * spr) \in Nat /\ round * spr \in Nat /\ rounds * spr \in Nat
    BY <1>2, <1>7, ProductNat
  <2> QED BY <1>2, <1>6, <2>1
<1> QED BY <1>4, <1>7, <1>9, <1>10 DEF spr

LEMMA FinalIsNoPoll ==
    ASSUME NEW p \in PeerParamsSet, NEW poll \in PollIndices(p), NEW other \in PollIndices(p),
           NEW responderIndex \in Nat
    PROVE  LegStsIndex(p, responderIndex, poll, "poll")
               # LegStsIndex(p, responderIndex, other, "final")
<1> DEFINE spr == p.slotsPerRound
           offset == 1 + p.responderCount
           s0 == p.stsIndex0
<1>0. /\ spr \in Nat \ {0} /\ offset \in Nat /\ 1 <= offset /\ offset < spr /\ s0 \in Nat
      /\ U32 \in Nat \ {0}
  BY SetUps, ScheduleAssumption, WidthAssumption DEF RangingSessionParameters, StsIndex
<1>1. PICK m \in Nat : poll = (s0 + m * spr + 1) % U32 /\ (m + 1) * spr <= U32
  BY PollIndexIs
<1>2. PICK n \in Nat : other = (s0 + n * spr + 1) % U32 /\ (n + 1) * spr <= U32
  BY PollIndexIs
<1>3. SUFFICES ASSUME (poll + 0) % U32 = (other + offset) % U32 PROVE FALSE
  BY DEF LegStsIndex, LegOffset
<1> HIDE DEF spr, offset, s0
<1>4. m * spr \in Nat /\ n * spr \in Nat
  BY <1>0, <1>1, <1>2, ProductNat
<1> DEFINE a == s0 + m * spr + 1
           b == s0 + n * spr + 1
<1>5. a \in Nat /\ b \in Nat
  BY <1>0, <1>4
<1> DEFINE qa == a \div U32
           qb == b \div U32
           qp == (poll + 0) \div U32
           qo == (other + offset) \div U32
<1>6. /\ qa \in Int /\ qb \in Int /\ poll \in Int /\ other \in Int
      /\ a = U32 * qa + poll /\ b = U32 * qb + other
  BY <1>0, <1>1, <1>2, <1>5, Division
<1>7. /\ qp \in Int /\ qo \in Int
      /\ poll - other - offset = U32 * qp - U32 * qo
  <2>1. poll + 0 \in Int /\ other + offset \in Int
    BY <1>0, <1>6
  <2>2. /\ qp \in Int /\ qo \in Int
        /\ poll + 0 = U32 * qp + ((poll + 0) % U32)
        /\ other + offset = U32 * qo + ((other + offset) % U32)
    BY <1>0, <2>1, Division
  <2>3. (poll + 0) % U32 \in Int
    BY <1>0, <2>1, RemainderRange
  <2> HIDE DEF qp, qo
  <2>4. U32 * qp \in Int /\ U32 * qo \in Int
    BY <1>0, <2>2
  <2> QED BY <1>0, <1>3, <1>6, <2>2, <2>3, <2>4
<1> DEFINE k == qp - qo + qa - qb
<1>8. k \in Int /\ m * spr - n * spr - offset = U32 * k
  <2> HIDE DEF qa, qb, qp, qo
  <2>1. m * spr - n * spr = a - b
    BY <1>0, <1>4
  <2> HIDE DEF a, b
  <2>2. a - b - offset = U32 * qa + poll - U32 * qb - other - offset
    BY <1>0, <1>5, <1>6
  <2>3. U32 * k = U32 * qp - U32 * qo + U32 * qa - U32 * qb
    BY <1>0, <1>6, <1>7
  <2>4. U32 * qa \in Int /\ U32 * qb \in Int /\ U32 * qp \in Int /\ U32 * qo \in Int
    BY <1>0, <1>6, <1>7
  <2> QED BY <1>0, <1>4, <1>5, <1>6, <1>7, <2>1, <2>2, <2>3, <2>4
<1> HIDE DEF k, a, b, qa, qb, qp, qo
<1>9. m * spr + spr <= U32 /\ n * spr + spr <= U32
  BY <1>0, <1>1, <1>2
<1>10. k = 0
  <2>1. U32 * k < U32 /\ U32 * k > - U32
    BY <1>0, <1>4, <1>8, <1>9
  <2>2. k < 1 /\ k > -1
    BY <1>0, <1>8, <2>1
  <2> QED BY <1>8, <2>2
<1>11. (m - n) * spr = offset
  BY <1>0, <1>1, <1>2, <1>8, <1>10
<1>12. CASE m - n <= 0
  <2>1. (m - n) * spr <= 0
    BY <1>0, <1>1, <1>2, <1>12
  <2> QED BY <1>0, <1>11, <2>1
<1>13. CASE m - n >= 1
  <2>1. (m - n) * spr >= spr
    BY <1>0, <1>1, <1>2, <1>13
  <2> QED BY <1>0, <1>11, <2>1
<1> QED BY <1>1, <1>2, <1>12, <1>13

-----------------------------------------------------------------------------
(***************************************************************************)
(* The initiator's steps.                                                  *)
(***************************************************************************)

\* The same exchange as before, maybe in another phase.
SameExchange ==
    /\ exchange'.params = exchange.params /\ exchange'.number = exchange.number
    /\ exchange'.blockNumber = exchange.blockNumber /\ exchange'.round = exchange.round

\* What an event says is of the initiator's exchange x as it stands, or of
\* another session's frame, which passes no STS check.
HeardOf(x, event, sts) ==
    /\ event.kind = "RxSuccess" =>
         \/ event.frame \in ForeignFrames
         \/ x.phase = "PrePoll" /\ event.frame = PrePollFrame(x)
         \/ /\ x.phase = "FinalData" /\ event.frame.msg = "FinalData"
            /\ event.frame.stamp = x.number /\ event.frame.counter = x.number
    /\ event.stsPassed =>
         /\ event.stamp = x.number
         /\ \/ x.phase = "Poll" /\ sts = PeerLegKeys(x, "poll")
            \/ x.phase = "Final" /\ sts = PeerLegKeys(x, "final")
    /\ event.kind = "TxDone" => event.stamp = x.number

\* The phases from the Poll to the end of the exchange.
Answered == {"Poll", "Final", "FinalData"}

LEMMA SameKeys ==
    ASSUME SameExchange
    PROVE  /\ PrePollFrame(exchange') = PrePollFrame(exchange)
           /\ \A leg : PeerLegKeys(exchange', leg) = PeerLegKeys(exchange, leg)
BY DEF SameExchange, PrePollFrame, PeerLegKeys, PeerPollStsIndex

LEMMA PeerFrames ==
    ASSUME NEW x \in PeerIn(Phases)
    PROVE  PrePollFrame(x) \in Frames /\ FinalDataFrame(x) \in Frames
<1> DEFINE y == [x EXCEPT !.phase = "PrePoll"]
           z == [x EXCEPT !.phase = "Final"]
<1>1. /\ y \in PeerIn({"PrePoll"}) /\ z \in PeerIn({"Final"})
      /\ y.params = x.params /\ y.number = x.number /\ y.blockNumber = x.blockNumber
      /\ y.round = x.round
      /\ z.params = x.params /\ z.number = x.number /\ z.blockNumber = x.blockNumber
      /\ z.round = x.round /\ z.heard = x.heard
  BY DEF PeerIn
<1> HIDE DEF y, z
<1>2. PrePollFrame(y) = PrePollFrame(x) /\ FinalDataFrame(z) = FinalDataFrame(x)
  BY <1>1 DEF PrePollFrame, FinalDataFrame, PeerLegKeys, PeerPollStsIndex
<1> QED BY <1>1, <1>2, PeerAssumption

LEMMA PeerStamps == ASSUME PeerOK PROVE exchange.number \in Stamps /\ 0 \in Stamps
BY PeerAssumption DEF PeerOK, PeerIn

LEMMA NoPayloadIsForeign == NoPayload \in ForeignFrames /\ NoPayload \in Frames
BY ForeignAssumption DEF NoPayload

\* A frame, or the end of a leg without one, latches an event that says so.
FrameLatched(f, stamp, stsPassed) ==
    \E event \in Event :
        /\ LatchEvent(event)
        /\ event.kind = "RxSuccess" /\ event.frame = f
        /\ event.stamp = stamp /\ event.stsPassed = stsPassed

EndLatched(kind, stamp) ==
    \E event \in Event :
        /\ LatchEvent(event)
        /\ event.kind = kind /\ event.stamp = stamp /\ event.stsPassed = FALSE

LEMMA ReceivesEvent ==
    ASSUME NEW f \in Frames, NEW stamp \in Stamps, NEW stsPassed \in BOOLEAN,
           Receives(f, stamp, stsPassed)
    PROVE  FrameLatched(f, stamp, stsPassed)
<1> DEFINE event == [kind |-> "RxSuccess", frame |-> f, stamp |-> stamp, stsPassed |-> stsPassed]
<1>1. event \in Event
  BY DEF Event
<1> QED BY <1>1 DEF Receives, FrameLatched

LEMMA ReceivesPlain ==
    ASSUME NEW f \in Frames, NEW stamp \in Stamps, Receives(f, stamp, FALSE)
    PROVE  FrameLatched(f, stamp, FALSE)
<1> DEFINE event == [kind |-> "RxSuccess", frame |-> f, stamp |-> stamp, stsPassed |-> FALSE]
<1>1. event \in Event
  BY DEF Event
<1> QED BY <1>1 DEF Receives, FrameLatched

LEMMA EndsEvent ==
    ASSUME NEW kind \in EventKind \ {"RxSuccess"}, NEW stamp \in Stamps, Ends(kind, stamp)
    PROVE  EndLatched(kind, stamp)
<1> DEFINE event == [kind |-> kind, frame |-> NoFrame, stamp |-> stamp, stsPassed |-> FALSE]
<1>1. event \in Event
  BY DEF Event
<1> QED BY <1>1 DEF Ends, EndLatched

LEMMA AirSecuredDoes ==
    ASSUME PeerOK, NEW leg, AirSecured(leg), exchange'.number = exchange.number
    PROVE  \/ UNCHANGED vars
           \/ \E event \in Event :
                /\ LatchEvent(event)
                /\ event.kind = "RxSuccess" => event.frame \in ForeignFrames
                /\ event.stsPassed =>
                     event.stamp = exchange.number /\ radio.sts = PeerLegKeys(exchange, leg)
                /\ event.kind # "TxDone"
<1> DEFINE passed == (radio.sts = PeerLegKeys(exchange, leg))
<1>1. passed \in BOOLEAN /\ "RxError" \in EventKind \ {"RxSuccess"}
  BY DEF EventKind
<1> HIDE DEF passed
<1>2. CASE Receives(NoPayload, exchange.number, passed)
  <2>1. PICK event \in Event :
          /\ LatchEvent(event)
          /\ event.kind = "RxSuccess" /\ event.frame = NoPayload
          /\ event.stamp = exchange.number /\ event.stsPassed = passed
    <3>1. FrameLatched(NoPayload, exchange.number, passed)
      BY <1>1, <1>2, PeerStamps, NoPayloadIsForeign, ReceivesEvent
    <3> QED BY <3>1, Zenon DEF FrameLatched
  <2>2. event.stsPassed => radio.sts = PeerLegKeys(exchange, leg)
    BY <2>1, Zenon DEF passed
  <2>3. event.frame \in ForeignFrames /\ event.kind # "TxDone"
    <3>1. event.kind = "RxSuccess" /\ event.frame = NoPayload
      BY <2>1, Zenon
    <3> QED BY <3>1, NoPayloadIsForeign
  <2> QED BY <2>1, <2>2, <2>3, Zenon
<1>3. CASE Garbles
  <2>1. exchange'.number \in Stamps
    BY PeerStamps
  <2>2. PICK event \in Event : /\ LatchEvent(event)
                               /\ event.kind = "RxError" /\ event.stamp = exchange'.number
                               /\ event.stsPassed = FALSE
    <3>1. EndLatched("RxError", exchange'.number)
      BY <1>1, <1>3, <2>1, EndsEvent DEF Garbles
    <3> QED BY <3>1, Zenon DEF EndLatched
  <2> QED BY <2>2
<1>4. CASE Misses
  BY <1>4 DEF Misses
<1> QED BY <1>2, <1>3, <1>4 DEF AirSecured, passed

LEMMA AirPlainDoes ==
    ASSUME NEW f \in Frames, AirPlain(f), exchange'.number \in Stamps
    PROVE  \/ UNCHANGED vars
           \/ \E event \in Event :
                /\ LatchEvent(event)
                /\ event.kind = "RxSuccess" => event.frame = f
                /\ event.stsPassed = FALSE
                /\ event.kind # "TxDone"
<1>1. "RxError" \in EventKind \ {"RxSuccess"}
  BY DEF EventKind
<1>2. CASE Receives(f, exchange'.number, FALSE)
  <2>1. PICK event \in Event :
          /\ LatchEvent(event)
          /\ event.kind = "RxSuccess" /\ event.frame = f
          /\ event.stamp = exchange'.number /\ event.stsPassed = FALSE
    <3>1. FrameLatched(f, exchange'.number, FALSE)
      BY <1>2, ReceivesPlain
    <3> QED BY <3>1, Zenon DEF FrameLatched
  <2> QED BY <2>1
<1>3. CASE Garbles
  <2>1. Ends("RxError", exchange'.number)
    BY <1>3 DEF Garbles
  <2>2. PICK event \in Event :
          /\ LatchEvent(event)
          /\ event.kind = "RxError" /\ event.stamp = exchange'.number
          /\ event.stsPassed = FALSE
    <3>1. EndLatched("RxError", exchange'.number)
      BY <1>1, <2>1, EndsEvent
    <3> QED BY <3>1, Zenon DEF EndLatched
  <2> QED BY <2>2
<1>4. CASE Misses
  BY <1>4 DEF Misses
<1> QED BY <1>2, <1>3, <1>4 DEF AirPlain

AirStep ==
    SendPrePoll \/ SendPoll \/ ResponseSent \/ SendFinal \/ SendFinalData
    \/ EndExchange \/ WindowCloses \/ HearForeign

\* A step of the initiator or of the air, as the proofs below need it.
LEMMA AirDoes ==
    ASSUME TypeOK, PeerOK, AirStep
    PROVE  /\ PeerOK'
           /\ exchange'.params = exchange.params
           /\ \/ UNCHANGED vars
              \/ \E event \in Event : LatchEvent(event) /\ HeardOf(exchange', event, radio.sts)
           /\ Quiet \/ (SameExchange /\ exchange'.phase = exchange.phase)
           /\ SameExchange \/ exchange.phase = "Gap"
           /\ exchange.phase \in Answered =>
                exchange'.phase \in Answered \/ m_state \notin Active \ {"PrePollListening"}
<1>t. /\ exchange \in PeerIn(Phases) /\ exchange.phase \in Phases /\ exchange.number \in Nat
      /\ exchange.blockNumber <= FirstBlockNumber - 1 + exchange.number
      /\ FirstBlockNumber \in Nat \ {0} /\ MaxExchanges \in Nat
  BY PeerAssumption DEF PeerOK, PeerIn
<1>p. ASSUME NEW phase \in Phases, exchange' = [exchange EXCEPT !.phase = phase]
      PROVE  /\ PeerOK' /\ SameExchange /\ exchange'.phase = phase
  BY <1>t, <1>p DEF PeerOK, PeerIn, SameExchange
<1>1. ASSUME NEW leg \in {"poll", "final"}, AirSecured(leg), SameExchange,
             exchange'.phase = IF leg = "poll" THEN "Poll" ELSE "Final"
      PROVE  \/ UNCHANGED vars
             \/ \E event \in Event : LatchEvent(event) /\ HeardOf(exchange', event, radio.sts)
  <2>1. CASE UNCHANGED vars
    BY <2>1
  <2>2. CASE \E event \in Event :
                /\ LatchEvent(event)
                /\ event.kind = "RxSuccess" => event.frame \in ForeignFrames
                /\ event.stsPassed =>
                     event.stamp = exchange.number /\ radio.sts = PeerLegKeys(exchange, leg)
                /\ event.kind # "TxDone"
    <3>1. PICK event \in Event :
                /\ LatchEvent(event)
                /\ event.kind = "RxSuccess" => event.frame \in ForeignFrames
                /\ event.stsPassed =>
                     event.stamp = exchange.number /\ radio.sts = PeerLegKeys(exchange, leg)
                /\ event.kind # "TxDone"
      BY <2>2
    <3>2. PeerLegKeys(exchange', leg) = PeerLegKeys(exchange, leg)
      BY <1>1, SameKeys
    <3>3. HeardOf(exchange', event, radio.sts)
      BY <1>1, <3>1, <3>2 DEF HeardOf, SameExchange
    <3> QED BY <3>1, <3>3
  <2> QED BY <1>1, <2>1, <2>2, AirSecuredDoes DEF SameExchange
<1>2. ASSUME NEW f \in Frames, AirPlain(f), PeerOK',
             HeardOf(exchange', [kind |-> "RxSuccess", frame |-> f, stsPassed |-> FALSE], radio.sts)
      PROVE  \/ UNCHANGED vars
             \/ \E event \in Event : LatchEvent(event) /\ HeardOf(exchange', event, radio.sts)
  <2>1. exchange'.number \in Stamps
    BY <1>2, PeerAssumption DEF PeerOK, PeerIn
  <2>2. CASE UNCHANGED vars
    BY <2>2
  <2>3. CASE \E event \in Event :
                /\ LatchEvent(event)
                /\ event.kind = "RxSuccess" => event.frame = f
                /\ event.stsPassed = FALSE
                /\ event.kind # "TxDone"
    <3>1. PICK event \in Event :
                /\ LatchEvent(event)
                /\ event.kind = "RxSuccess" => event.frame = f
                /\ event.stsPassed = FALSE
                /\ event.kind # "TxDone"
      BY <2>3
    <3>2. HeardOf(exchange', event, radio.sts)
      BY <1>2, <3>1 DEF HeardOf
    <3> QED BY <3>1, <3>2
  <2> QED BY <1>2, <2>1, <2>2, <2>3, AirPlainDoes
<1>3. CASE SendPrePoll
  <2>1. PICK blockNumber \in exchange.blockNumber .. exchange.blockNumber + 1,
             round \in 0 .. U16 - 1 :
          exchange' = [ params |-> exchange.params, number |-> exchange.number + 1,
                        blockNumber |-> blockNumber, round |-> round,
                        phase |-> "PrePoll", heard |-> FALSE ]
    BY <1>3 DEF SendPrePoll
  <2>2. exchange.number < MaxExchanges /\ exchange.phase = "Gap" /\ Quiet
    BY <1>3 DEF SendPrePoll
  <2>3. PeerOK' /\ exchange'.phase = "PrePoll" /\ exchange'.params = exchange.params
    <3>1. exchange.blockNumber \in Nat /\ exchange.number + 1 \in 0 .. MaxExchanges
      BY <1>t, <2>2 DEF PeerIn, BlockNumbers
    <3>2. blockNumber \in BlockNumbers /\ blockNumber <= FirstBlockNumber - 1 + exchange.number + 1
      BY <1>t, <2>2, <3>1 DEF BlockNumbers
    <3>3. exchange' \in PeerIn(Phases)
      BY <1>t, <2>1, <3>1, <3>2 DEF PeerIn, Phases, SlotIndex
    <3> QED BY <1>t, <2>1, <3>2, <3>3 DEF PeerOK
  <2>4. PrePollFrame(exchange') \in Frames
    BY <2>3, PeerFrames DEF PeerOK
  <2>5. AirPlain(PrePollFrame(exchange'))
    BY <1>3 DEF SendPrePoll
  <2>6. HeardOf(exchange', [kind |-> "RxSuccess", frame |-> PrePollFrame(exchange'),
                            stsPassed |-> FALSE], radio.sts)
    BY <2>3 DEF HeardOf
  <2> QED BY <1>2, <2>2, <2>3, <2>4, <2>5, <2>6 DEF Answered
<1>4. CASE SendPoll
  <2>1. exchange.phase = "PrePoll" /\ Quiet /\ AirSecured("poll")
    BY <1>4 DEF SendPoll
  <2>2. PeerOK' /\ SameExchange /\ exchange'.phase = "Poll"
    BY <1>4, <1>p DEF SendPoll, Phases
  <2> QED BY <1>1, <2>1, <2>2 DEF SameExchange, Answered
<1>5. CASE SendFinal
  <2>1. exchange.phase = "Poll" /\ Quiet /\ AirSecured("final")
    BY <1>5 DEF SendFinal
  <2>2. PeerOK' /\ SameExchange /\ exchange'.phase = "Final"
    BY <1>5, <1>p DEF SendFinal, Phases
  <2> QED BY <1>1, <2>1, <2>2 DEF SameExchange, Answered
<1>6. CASE SendFinalData
  <2>1. exchange.phase = "Final" /\ Quiet /\ AirPlain(FinalDataFrame(exchange))
    BY <1>6 DEF SendFinalData
  <2>2. PeerOK' /\ SameExchange /\ exchange'.phase = "FinalData"
    BY <1>6, <1>p DEF SendFinalData, Phases
  <2>3. /\ FinalDataFrame(exchange) \in Frames
        /\ FinalDataFrame(exchange).msg = "FinalData"
        /\ FinalDataFrame(exchange).stamp = exchange.number
        /\ FinalDataFrame(exchange).counter = exchange.number
    BY <1>t, PeerFrames DEF FinalDataFrame, PrePollFrame
  <2>4. HeardOf(exchange', [kind |-> "RxSuccess", frame |-> FinalDataFrame(exchange),
                            stsPassed |-> FALSE], radio.sts)
    BY <2>2, <2>3 DEF HeardOf, SameExchange
  <2> QED BY <1>2, <2>1, <2>2, <2>3, <2>4 DEF SameExchange, Answered
<1>7. CASE EndExchange
  <2>1. /\ exchange.phase = "FinalData" /\ Quiet /\ UNCHANGED vars
        /\ m_state \notin Active \ {"PrePollListening"}
    BY <1>7 DEF EndExchange, vars
  <2>2. PeerOK' /\ SameExchange
    BY <1>7, <1>p DEF EndExchange, Phases
  <2> QED BY <2>1, <2>2 DEF SameExchange
<1>8. CASE ResponseSent
  <2>1. /\ exchange'.phase = exchange.phase /\ SameExchange /\ PeerOK'
    <3>1. CASE exchange' = [exchange EXCEPT !.heard = TRUE]
      BY <1>t, <3>1 DEF PeerOK, PeerIn, SameExchange
    <3>2. CASE UNCHANGED exchange
      BY <3>2 DEF PeerOK, SameExchange
    <3> QED BY <1>8, <3>1, <3>2 DEF ResponseSent
  <2>2. "TxDone" \in EventKind \ {"RxSuccess"} /\ Ends("TxDone", exchange.number)
    BY <1>8 DEF ResponseSent, EventKind
  <2>3. PICK event \in Event : /\ LatchEvent(event) /\ event.kind = "TxDone"
                               /\ event.stamp = exchange.number /\ event.stsPassed = FALSE
    <3>1. exchange.number \in Stamps
      BY PeerStamps
    <3>2. EndLatched("TxDone", exchange.number)
      BY <2>2, <3>1, EndsEvent
    <3> QED BY <3>2, Zenon DEF EndLatched
  <2>4. HeardOf(exchange', event, radio.sts)
    BY <2>1, <2>3 DEF HeardOf, SameExchange
  <2> QED BY <2>1, <2>3, <2>4 DEF SameExchange
<1>9. CASE WindowCloses
  <2>1. UNCHANGED exchange /\ "RxTimeout" \in EventKind \ {"RxSuccess"}
        /\ Ends("RxTimeout", exchange.number)
    BY <1>9 DEF WindowCloses, exchangeVars, EventKind
  <2>2. PICK event \in Event : /\ LatchEvent(event) /\ event.kind = "RxTimeout"
                               /\ event.stamp = exchange.number /\ event.stsPassed = FALSE
    <3>1. exchange.number \in Stamps
      BY PeerStamps
    <3>2. EndLatched("RxTimeout", exchange.number)
      BY <2>1, <3>1, EndsEvent
    <3> QED BY <3>2, Zenon DEF EndLatched
  <2>3. HeardOf(exchange', event, radio.sts)
    BY <2>2 DEF HeardOf
  <2> QED BY <2>1, <2>2, <2>3 DEF SameExchange, PeerOK
<1>10. CASE HearForeign
  <2>1. UNCHANGED exchange /\ \E f \in ForeignFrames : Receives(f, 0, FALSE)
    BY <1>10 DEF HearForeign
  <2>2. PICK f \in ForeignFrames : Receives(f, 0, FALSE)
    BY <2>1
  <2>3. f \in Frames /\ 0 \in Stamps
    BY ForeignAssumption, PeerStamps
  <2>4. PICK event \in Event : /\ LatchEvent(event) /\ event.kind = "RxSuccess"
                               /\ event.frame = f /\ event.stamp = 0 /\ event.stsPassed = FALSE
    <3>1. FrameLatched(f, 0, FALSE)
      BY <2>2, <2>3, ReceivesPlain
    <3> QED BY <3>1, Zenon DEF FrameLatched
  <2>5. HeardOf(exchange', event, radio.sts)
    BY <2>4 DEF HeardOf
  <2> QED BY <2>1, <2>4, <2>5 DEF SameExchange, PeerOK
<1> QED BY <1>3, <1>4, <1>5, <1>6, <1>7, <1>8, <1>9, <1>10 DEF AirStep

-----------------------------------------------------------------------------
(***************************************************************************)
(* Every step is one of the session, or the session does not notice it.    *)
(***************************************************************************)
PeerControl == Start(PeerUrsk, exchange.params, Node) \/ Stop \/ Suspend \/ Resume

LEMMA ExchangeCases ==
    ASSUME [ExchangeNext]_allVars
    PROVE  \/ AirStep
           \/ HandlerStep /\ UNCHANGED exchange
           \/ PeerControl /\ UNCHANGED exchange
           \/ UNCHANGED <<vars, exchange>>
<1>1. Handle => HandlerStep /\ UNCHANGED exchange
  BY HandlerCases DEF Handle, exchangeVars
<1>2. Control => PeerControl /\ UNCHANGED exchange
  BY DEF Control, PeerControl
<1>3. UNCHANGED allVars => UNCHANGED <<vars, exchange>>
  BY DEF allVars, exchangeVars
<1> QED BY <1>1, <1>2, <1>3 DEF ExchangeNext, AirStep

LEMMA LatchIsRadioEvent ==
    ASSUME NEW event \in Event, LatchEvent(event)
    PROVE  RadioEvent
<1>1. CASE event \in [kind : {"RxSuccess"}, frame : Frames, stamp : Stamps, stsPassed : BOOLEAN]
  <2>1. event = [kind |-> "RxSuccess", frame |-> event.frame, stamp |-> event.stamp,
                 stsPassed |-> event.stsPassed]
    BY <1>1
  <2>2. Receives(event.frame, event.stamp, event.stsPassed)
    BY <2>1 DEF Receives
  <2> QED BY <1>1, <2>2 DEF RadioEvent
<1>2. CASE event \in [kind : EventKind \ {"RxSuccess"}, frame : {NoFrame}, stamp : Stamps,
                      stsPassed : {FALSE}]
  <2>1. event = [kind |-> event.kind, frame |-> NoFrame, stamp |-> event.stamp,
                 stsPassed |-> FALSE]
    BY <1>2
  <2>2. Ends(event.kind, event.stamp)
    BY <2>1 DEF Ends
  <2> QED BY <1>2, <2>2 DEF RadioEvent
<1> QED BY <1>1, <1>2 DEF Event

LEMMA PeerStep ==
    ASSUME TypeOK, PeerOK, [ExchangeNext]_allVars
    PROVE  [Next]_vars /\ PeerOK' /\ exchange'.params = exchange.params
<1>1. CASE AirStep
  <2>1. PeerOK' /\ exchange'.params = exchange.params
    BY <1>1, AirDoes
  <2>2. UNCHANGED vars \/ RadioEvent
    BY <1>1, AirDoes, LatchIsRadioEvent
  <2> QED BY <2>1, <2>2 DEF Next
<1>2. ExchangeNext => AirStep \/ Handle \/ Control
  BY DEF ExchangeNext, AirStep
<1>3. CASE Handle
  BY <1>3 DEF Handle, exchangeVars, Next, PeerOK
<1>4. CASE Control
  <2>1. PeerUrsk \in Ursks /\ exchange.params \in ParamsSet /\ Node \in NodeConfigs
    BY PeerAssumption DEF PeerOK, PeerIn
  <2> QED BY <1>4, <2>1 DEF Control, ControlCall, Next, PeerOK
<1>5. CASE UNCHANGED allVars
  BY <1>5 DEF allVars, exchangeVars, PeerOK
<1> QED BY <1>1, <1>2, <1>3, <1>4, <1>5

-----------------------------------------------------------------------------
(***************************************************************************)
(* The session is set up as the initiator is, from its start on.           *)
(***************************************************************************)
ForPeer(s) ==
    /\ s.params = exchange.params /\ s.nodeConfig = Node
    /\ s.mupsk1 = DeriveMupsk1(PeerUrsk)
    /\ s.mursk = DeriveMursk(PeerUrsk)
    /\ s.saltedHash = DeriveSaltedHash(PeerUrsk, exchange.params)
    /\ s.addresses = PeerAddresses(exchange.params)

SetUpForPeer ==
    /\ radio.listener => setup.materialValid
    /\ setup.materialValid => ForPeer(setup)

LEMMA SetUpIs ==
    ASSUME TypeOK, NEW p \in PeerParamsSet, NEW steps, NEW s, s = SetUp(PeerUrsk, p, Node, steps)
    PROVE  /\ s.params = p /\ s.nodeConfig = Node
           /\ s.materialValid = (setup.materialValid \/ steps = 5)
           /\ s.mupsk1 = IF steps >= 1 THEN DeriveMupsk1(PeerUrsk) ELSE setup.mupsk1
           /\ s.mursk = IF steps >= 3 THEN DeriveMursk(PeerUrsk) ELSE setup.mursk
           /\ s.saltedHash = IF steps >= 4 THEN DeriveSaltedHash(PeerUrsk, p)
                             ELSE setup.saltedHash
           /\ s.addresses = IF steps >= 5 THEN PeerAddresses(p) ELSE setup.addresses
<1> DEFINE given == [setup EXCEPT !.ursk = PeerUrsk, !.params = p, !.nodeConfig = Node]
<1>1. setup \in Setup /\ PeerUrsk \in Ursk /\ p \in RangingSessionParameters
      /\ Node \in SessionNodeConfig
  BY PeerAssumption, SetUps DEF TypeOK, Ursk
<1>2. /\ given \in Setup
      /\ given.ursk = PeerUrsk /\ given.params = p /\ given.nodeConfig = Node
      /\ given.materialValid = setup.materialValid /\ given.mupsk1 = setup.mupsk1
      /\ given.mursk = setup.mursk /\ given.saltedHash = setup.saltedHash
      /\ given.addresses = setup.addresses
  BY <1>1 DEF Setup
<1>3. s = DeriveSessionMaterial(given, steps)
  BY DEF SetUp
<1> HIDE DEF given
<1>4. /\ s.params = given.params /\ s.nodeConfig = given.nodeConfig
      /\ s.mupsk1 = IF steps >= 1 THEN DeriveMupsk1(given.ursk) ELSE given.mupsk1
      /\ s.mursk = IF steps >= 3 THEN DeriveMursk(given.ursk) ELSE given.mursk
      /\ s.saltedHash = IF steps >= 4 THEN DeriveSaltedHash(given.ursk, given.params)
                        ELSE given.saltedHash
  BY <1>2, <1>3 DEF DeriveSessionMaterial, Setup
<1>5. s.materialValid = (given.materialValid \/ steps = 5)
  BY <1>2, <1>3 DEF DeriveSessionMaterial, Setup
<1>6. s.addresses = IF steps >= 5
                    THEN DeriveAddresses(DeriveMupsk2(given.ursk), given.params.stsIndex0)
                    ELSE given.addresses
  BY <1>2, <1>3 DEF DeriveSessionMaterial, Setup
<1> QED BY <1>2, <1>4, <1>5, <1>6 DEF PeerAddresses

LEMMA ArmKeeps ==
    ASSUME NEW r \in Radio, NEW s, NEW b, ArmPrePollListening(r, s, b)
    PROVE  /\ m_state' = "PrePollListening"
           /\ radio'.event = r.event /\ radio'.sts = r.sts /\ radio'.listener = r.listener
BY DEF ArmPrePollListening, StartImmediateRx, ConfigureStsMode, ForceReceiverOff, Radio

\* A leg's reception is armed with its keys.
LEMMA ArmLeg ==
    ASSUME NEW r \in Radio, NEW keys \in CycleKeys, NEW leg \in Legs,
           ReceiveLeg(WithLegKeys(r, keys, leg))
    PROVE  /\ radio'.sts = keys.leg[leg] /\ radio'.event = r.event
           /\ radio'.listener = r.listener
<1> DEFINE loaded == WithLegKeys(r, keys, leg)
<1>1. /\ loaded \in Radio /\ loaded.sts = keys.leg[leg]
      /\ loaded.listener = r.listener /\ loaded.event = r.event
  BY WithLegKeysType
<1>2. ReceiveLeg(loaded)
  OBVIOUS
<1> HIDE DEF loaded
<1>3. /\ radio'.sts = loaded.sts /\ radio'.listener = loaded.listener
      /\ radio'.event = loaded.event
  BY <1>1, <1>2, ReceiveLegType
<1> QED BY <1>1, <1>3

\* A control call does not touch the latched event nor the keys, and leaves
\* the session in no leg of an exchange, or where it was with the radio off.
LEMMA ControlDoes ==
    ASSUME TypeOK, PeerControl
    PROVE  /\ radio'.event = radio.event /\ radio'.sts = radio.sts
           /\ UNCHANGED result
           /\ \/ m_state' \in {"Idle", "Suspended", "PrePollListening"}
              \/ /\ m_state' = m_state /\ radio'.mode = "Off"
                 /\ cycle'.pollRx = cycle.pollRx /\ cycle'.respTx = cycle.respTx
                 /\ cycle'.finalRx = cycle.finalRx
                 /\ cycle'.finalStsPassed = cycle.finalStsPassed
<1>t. radio \in Radio /\ cycle \in Cycle
  BY DEF TypeOK
<1>1. CASE Stop \/ Suspend
  BY <1>1, <1>t DEF Stop, Suspend, ForceReceiverOff, SetListener, Radio
<1>2. CASE Resume
  BY <1>2, <1>t, ArmKeeps DEF Resume
<1>3. CASE StartWithoutMaterial(PeerUrsk, exchange.params, Node)
  BY <1>3, <1>t DEF StartWithoutMaterial, ForceReceiverOff, Radio
<1>4. CASE StartWithMaterial(PeerUrsk, exchange.params, Node)
  <2>1. PICK steps \in MaterialSteps, configured \in Outcomes("phy") :
          \/ ArmPrePollListening(
                 SetListener(ConfigurePhy(ForceReceiverOff(radio), configured), TRUE),
                 SetUp(PeerUrsk, exchange.params, Node, steps), ForgetPrePolls(book))
          \/ /\ radio' = ConfigurePhy(ForceReceiverOff(radio), configured)
             /\ UNCHANGED m_state
    BY <1>4 DEF StartWithMaterial
  <2>2. cycle' = [cycle EXCEPT !.keysValid = FALSE] /\ UNCHANGED result
    BY <1>4 DEF StartWithMaterial
  <2>3. /\ cycle'.pollRx = cycle.pollRx /\ cycle'.respTx = cycle.respTx
        /\ cycle'.finalRx = cycle.finalRx /\ cycle'.finalStsPassed = cycle.finalStsPassed
    BY <1>t, <2>2 DEF Cycle
  <2> DEFINE off == ConfigurePhy(ForceReceiverOff(radio), configured)
             r == SetListener(off, TRUE)
  <2>4. /\ off \in Radio /\ off.mode = "Off" /\ off.event = radio.event /\ off.sts = radio.sts
        /\ r \in Radio /\ r.event = radio.event /\ r.sts = radio.sts
    <3>1. configured \in BOOLEAN
      BY OutcomesBoolean
    <3>2. off \in Radio /\ r \in Radio
      BY <1>t, <3>1, RadioCallTypes
    <3>3. off.mode = "Off" /\ off.event = radio.event /\ off.sts = radio.sts
      BY <1>t DEF ConfigurePhy, ForceReceiverOff, Radio
    <3> HIDE DEF off
    <3>4. r.event = off.event /\ r.sts = off.sts
      BY <3>2 DEF SetListener, Radio
    <3> QED BY <3>2, <3>3, <3>4
  <2>5. CASE ArmPrePollListening(r, SetUp(PeerUrsk, exchange.params, Node, steps),
                                 ForgetPrePolls(book))
    <3> HIDE DEF r
    <3> QED BY <2>2, <2>4, <2>5, ArmKeeps
  <2>6. CASE radio' = off /\ UNCHANGED m_state
    BY <2>2, <2>3, <2>4, <2>6
  <2> QED BY <2>1, <2>5, <2>6
<1> QED BY <1>1, <1>2, <1>3, <1>4 DEF PeerControl, Start

\* A handler works for a listener and leaves no event.
LEMMA HandlerDoes ==
    ASSUME TypeOK, HandlerStep
    PROVE  /\ UNCHANGED setup
           /\ radio'.event = NoEvent
           /\ radio'.listener => radio.listener
<1>t. radio \in Radio /\ book \in Book /\ cycle \in Cycle /\ setup \in Setup
  BY DEF TypeOK
<1>k. /\ cycle.keys \in CycleKeys /\ book.warm \in CycleKeys
      /\ "poll" \in Legs /\ "response" \in Legs /\ "final" \in Legs
  BY <1>t DEF Cycle, Book, Legs
<1>r. /\ Reported(radio) \in Radio /\ Reported(radio).event = NoEvent
      /\ Reported(radio).listener = radio.listener
  BY <1>t, RadioCallTypes DEF Reported, Radio
<1>1. CASE BackToListening
  BY <1>1, BackToListeningDoes
<1>2. CASE WarmPrePoll
  <2>1. ReceiveLeg(WithLegKeys(Reported(radio), book.warm, "poll")) /\ UNCHANGED setup
    BY <1>2 DEF WarmPrePoll
  <2>2. radio'.event = NoEvent /\ radio'.listener = radio.listener
    BY <1>k, <1>r, <2>1, ArmLeg
  <2> QED BY <2>1, <2>2
<1>3. CASE BootstrapOtherParity
  BY <1>3, <1>r, ArmKeeps DEF BootstrapOtherParity
<1>4. CASE BootstrapPrePoll
  <2> DEFINE off == ForceReceiverOff(Reported(radio))
  <2>1. off \in Radio /\ off.event = NoEvent /\ off.listener = radio.listener
    BY <1>r, RadioCallTypes DEF ForceReceiverOff, Radio
  <2>2. PICK derived \in LegsDerived(setup) :
          \/ ArmPrePollListening(off, setup, NotePrePoll(book, Heard))
          \/ ReceiveLeg(WithLegKeys(off, DeriveCycleKeys(setup, Heard.sts, cycle.keys, derived),
                                    "poll"))
    BY <1>4, Zenon DEF BootstrapPrePoll
  <2>3. UNCHANGED setup
    BY <1>4 DEF BootstrapPrePoll
  <2> HIDE DEF off
  <2>4. CASE ArmPrePollListening(off, setup, NotePrePoll(book, Heard))
    BY <2>1, <2>3, <2>4, ArmKeeps
  <2>5. CASE ReceiveLeg(WithLegKeys(off, DeriveCycleKeys(setup, Heard.sts, cycle.keys, derived),
                                    "poll"))
    <3>1. Heard.sts \in StsIndex
      BY <1>4, HandledEvent, FrameTypes DEF BootstrapPrePoll, BootstrapFrame
    <3>2. DeriveCycleKeys(setup, Heard.sts, cycle.keys, derived) \in CycleKeys
      BY <1>t, <1>k, <3>1, CycleKeysType
    <3>3. radio'.event = NoEvent /\ radio'.listener = radio.listener
      BY <1>k, <2>1, <2>5, <3>2, ArmLeg
    <3> QED BY <2>3, <3>3
  <2> QED BY <2>2, <2>4, <2>5
<1>5. CASE PollReceived /\ m_state' = "TransmittingResponse"
  <2> DEFINE loaded == WithLegKeys(Reported(radio), cycle.keys, "response")
  <2>1. radio' = StartDelayedTx(loaded, TRUE) /\ UNCHANGED setup
    BY <1>5 DEF PollReceived, ArmPrePollListening
  <2>2. loaded \in Radio /\ loaded.event = NoEvent /\ loaded.listener = radio.listener
    BY <1>k, <1>r, WithLegKeysType
  <2> HIDE DEF loaded
  <2> QED BY <2>1, <2>2 DEF StartDelayedTx, Radio
<1>6. CASE OnTxComplete /\ cycle.keysValid
  <2>1. ReceiveLeg(WithLegKeys(Reported(radio), cycle.keys, "final")) /\ UNCHANGED setup
    BY <1>6 DEF OnTxComplete
  <2>2. radio'.event = NoEvent /\ radio'.listener = radio.listener
    BY <1>k, <1>r, <2>1, ArmLeg
  <2> QED BY <2>1, <2>2
<1>7. CASE OnFinal
  <2> DEFINE off == ConfigureStsMode(ForceReceiverOff(Reported(radio)), "Off")
  <2>1. ReceiveLeg(off) /\ UNCHANGED setup
    BY <1>7 DEF OnFinal
  <2>2. off \in Radio /\ off.event = NoEvent /\ off.listener = radio.listener
    <3> DEFINE idle == ForceReceiverOff(Reported(radio))
    <3>1. idle \in Radio
      BY <1>r, RadioCallTypes
    <3>2. idle.event = NoEvent /\ idle.listener = radio.listener
      BY <1>r DEF ForceReceiverOff, Radio
    <3> HIDE DEF idle
    <3>3. /\ ConfigureStsMode(idle, "Off") \in Radio
          /\ ConfigureStsMode(idle, "Off").event = idle.event
          /\ ConfigureStsMode(idle, "Off").listener = idle.listener
      <4>1. ConfigureStsMode(idle, "Off") \in Radio
        BY <3>1, RadioCallTypes
      <4> QED BY <3>1, <4>1 DEF ConfigureStsMode, Radio
    <3>4. off = ConfigureStsMode(idle, "Off")
      BY DEF idle
    <3> QED BY <3>2, <3>3, <3>4
  <2> HIDE DEF off
  <2> QED BY <2>1, <2>2, ReceiveLegType
<1>8. CASE ListenTimeout
  BY <1>8, <1>r DEF ListenTimeout, StartImmediateRx, Radio
<1>9. CASE IgnoreEvent \/ DropEvent
  BY <1>9, <1>r DEF IgnoreEvent, DropEvent
<1> QED BY <1>1, <1>2, <1>3, <1>4, <1>5, <1>6, <1>7, <1>8, <1>9 DEF HandlerStep

LEMMA SetUpStep ==
    ASSUME TypeOK, PeerOK, SetUpForPeer, [ExchangeNext]_allVars
    PROVE  SetUpForPeer'
<1>t. /\ radio \in Radio /\ setup \in Setup
      /\ exchange'.params = exchange.params /\ exchange.params \in PeerParamsSet
  BY PeerStep DEF TypeOK, PeerOK, PeerIn
<1>s. ASSUME UNCHANGED setup, radio'.listener => radio.listener PROVE SetUpForPeer'
  BY <1>s, <1>t DEF SetUpForPeer, ForPeer
<1>1. CASE AirStep
  <2>1. UNCHANGED vars \/ \E event \in Event : LatchEvent(event)
    BY <1>1, AirDoes
  <2>2. ASSUME NEW event \in Event, LatchEvent(event) PROVE SetUpForPeer'
    BY <1>s, <1>t, <2>2 DEF LatchEvent, Latch, Radio
  <2> QED BY <1>s, <2>1, <2>2 DEF vars
<1>2. CASE HandlerStep
  BY <1>2, <1>s, HandlerDoes
<1>3. CASE Stop \/ Suspend
  BY <1>3, <1>s, <1>t DEF Stop, Suspend, SetListener, ForceReceiverOff, Radio
<1>4. CASE Resume
  BY <1>4, <1>s, <1>t, ArmKeeps DEF Resume
<1>5. CASE Start(PeerUrsk, exchange.params, Node)
  <2>1. PICK steps \in MaterialSteps :
          /\ setup' = SetUp(PeerUrsk, exchange.params, Node, steps)
          /\ \/ ~ setup'.materialValid /\ radio' = ForceReceiverOff(radio)
             \/ setup'.materialValid
    BY <1>5 DEF Start, StartWithoutMaterial, StartWithMaterial
  <2>2. steps \in 0 .. 5
    BY DEF MaterialSteps
  <2>3. /\ setup'.params = exchange.params /\ setup'.nodeConfig = Node
        /\ setup'.materialValid = (setup.materialValid \/ steps = 5)
        /\ setup'.mupsk1 = IF steps >= 1 THEN DeriveMupsk1(PeerUrsk) ELSE setup.mupsk1
        /\ setup'.mursk = IF steps >= 3 THEN DeriveMursk(PeerUrsk) ELSE setup.mursk
        /\ setup'.saltedHash = IF steps >= 4 THEN DeriveSaltedHash(PeerUrsk, exchange.params)
                               ELSE setup.saltedHash
        /\ setup'.addresses = IF steps >= 5 THEN PeerAddresses(exchange.params)
                              ELSE setup.addresses
    BY <1>t, <2>1, SetUpIs
  <2>4. setup'.materialValid => setup.materialValid \/ steps = 5
    BY <2>3, Zenon
  <2>5. radio'.listener => setup'.materialValid
    <3>1. CASE setup'.materialValid
      BY <3>1
    <3>2. CASE ~ setup'.materialValid
      <4>1. radio'.listener = radio.listener
        BY <1>t, <2>1, <3>2 DEF ForceReceiverOff, Radio
      <4>2. ~ setup.materialValid
        BY <2>3, <3>2, Zenon
      <4> QED BY <4>1, <4>2 DEF SetUpForPeer, ForPeer
    <3> QED BY <3>1, <3>2
  <2> QED BY <1>t, <2>2, <2>3, <2>4, <2>5 DEF SetUpForPeer, ForPeer
<1>6. CASE UNCHANGED <<vars, exchange>>
  BY <1>6, <1>s DEF vars
<1> QED BY <1>1, <1>2, <1>3, <1>4, <1>5, <1>6, ExchangeCases DEF PeerControl

-----------------------------------------------------------------------------
(***************************************************************************)
(* The Polls the session has keys for are Polls of the schedule.           *)
(***************************************************************************)
WarmScheduled(s, b) == b.warmValid => b.warm.pollStsIndex \in PollIndices(s.params)

ScheduledKeys ==
    setup.materialValid =>
        /\ WarmScheduled(setup, book)
        /\ m_state = "AwaitingPoll" /\ cycle.keysValid =>
             cycle.pollStsIndex \in PollIndices(setup.params)

\* What the latched event says is of the initiator's exchange.
EventOfExchange == radio.event # NoEvent => HeardOf(exchange, radio.event, radio.sts)

LEMMA RefreshScheduled ==
    ASSUME NEW s \in Setup, NEW b \in Book, NEW derived \in LegsDerived(s)
    PROVE  WarmScheduled(s, RefreshWarmKeys(s, b, derived))
<1> DEFINE next == NextScheduledExchange(s.params, b.currentBlock, b.currentRound)
           after == RefreshWarmKeys(s, b, derived)
<1>1. CASE ~ Schedulable(s.params, b.currentBlock, b.currentRound)
  BY <1>1 DEF RefreshWarmKeys, WarmScheduled, Book
<1>2. CASE Schedulable(s.params, b.currentBlock, b.currentRound)
  <2>1. /\ s.params \in RangingSessionParameters /\ b.currentBlock \in BlockIndex
        /\ b.currentRound \in SlotIndex
    BY DEF Setup, Book
  <2>2. next.block \in BlockIndex /\ next.round \in SlotIndex
    BY <2>1, NextIsScheduled
  <2> HIDE DEF next
  <2>3. NextPollStsIndex(s, b) = PollStsIndexFor(s.params, next.block, next.round)
    BY DEF NextPollStsIndex, next
  <2>4. NextPollStsIndex(s, b) \in PollIndices(s.params)
    BY <2>2, <2>3 DEF PollIndices
  <2>5. after.warm = DeriveCycleKeys(s, NextPollStsIndex(s, b), b.warm, derived)
    BY <1>2 DEF RefreshWarmKeys, Book
  <2>6. after.warm.pollStsIndex = NextPollStsIndex(s, b)
    BY <2>5 DEF DeriveCycleKeys
  <2> HIDE DEF after
  <2>7. WarmScheduled(s, after)
    BY <2>4, <2>6 DEF WarmScheduled
  <2> QED BY <2>7 DEF after
<1> QED BY <1>1, <1>2

LEMMA ProcessScheduled ==
    ASSUME NEW s \in Setup, NEW b \in Book, NEW derived \in LegsDerived(s), WarmScheduled(s, b)
    PROVE  WarmScheduled(s, ProcessStashedPrePoll(s, b, derived))
<1> DEFINE f == b.stashFrame
           drained == [b EXCEPT !.stashFrame = NoFrame]
           noted == NotePrePoll(drained, f)
<1>1. f \in Frames \cup {NoFrame} /\ drained \in Book
  BY DEF Book
<1>2. CASE f = NoFrame
  BY <1>2 DEF ProcessStashedPrePoll
<1>3. CASE f # NoFrame /\ ~ AcceptsPrePoll(s, drained, f)
  <2>1. ProcessStashedPrePoll(s, b, derived) = [drained EXCEPT !.warmValid = FALSE]
    BY <1>3 DEF ProcessStashedPrePoll
  <2> HIDE DEF drained
  <2>2. ProcessStashedPrePoll(s, b, derived).warmValid = FALSE
    BY <2>1, <1>1 DEF Book
  <2> QED BY <2>2 DEF WarmScheduled
<1>4. CASE f # NoFrame /\ AcceptsPrePoll(s, drained, f)
  <2>1. ProcessStashedPrePoll(s, b, derived) =
            IF IsBlockParityEligible(s, f.block) THEN RefreshWarmKeys(s, noted, derived) ELSE noted
    BY <1>4 DEF ProcessStashedPrePoll
  <2>2. noted \in Book /\ noted.warmValid = b.warmValid /\ noted.warm = b.warm
    <3>1. drained.warmValid = b.warmValid /\ drained.warm = b.warm
      BY DEF Book
    <3> QED BY <1>1, <1>4, <3>1, NotePrePollType
  <2> HIDE DEF noted
  <2>3. CASE IsBlockParityEligible(s, f.block)
    BY <2>1, <2>2, <2>3, RefreshScheduled
  <2>4. CASE ~ IsBlockParityEligible(s, f.block)
    BY <2>1, <2>2, <2>4 DEF WarmScheduled
  <2> QED BY <2>3, <2>4
<1> QED BY <1>1, <1>2, <1>3, <1>4

\* Only the initiator's own Pre-Poll is accepted, and it names its Poll.
LEMMA AcceptedIsOwn ==
    ASSUME TypeOK, PeerOK, SetUpForPeer, EventOfExchange, BootstrapFrame,
           AcceptsPrePoll(setup, book, Heard)
    PROVE  /\ exchange.phase = "PrePoll" /\ Heard = PrePollFrame(exchange)
           /\ setup.params = exchange.params
           /\ Heard.sts \in PollIndices(setup.params)
<1>1. /\ radio.event # NoEvent /\ radio.event.kind = "RxSuccess" /\ radio.listener
  BY DEF BootstrapFrame, HandledIn, Reports
<1>2. setup.params = exchange.params /\ setup.mupsk1 = DeriveMupsk1(PeerUrsk)
  BY <1>1 DEF SetUpForPeer, ForPeer
<1>3. Heard.msg = "PrePoll" /\ Heard.key = DeriveMupsk1(PeerUrsk)
  BY <1>2 DEF AcceptsPrePoll, HeaderOk, Decrypts
<1>4. Heard \notin ForeignFrames
  BY <1>3, ForeignAssumption
<1>5. exchange.phase = "PrePoll" /\ Heard = PrePollFrame(exchange)
  BY <1>1, <1>3, <1>4 DEF EventOfExchange, HeardOf, Heard
<1>6. Heard.sts = PollStsIndexFor(exchange.params, exchange.blockNumber, exchange.round)
  BY <1>5 DEF PrePollFrame, PeerPollStsIndex
<1>7. exchange.blockNumber \in BlockNumbers /\ exchange.round \in SlotIndex
  BY DEF PeerOK, PeerIn
<1> QED BY <1>2, <1>5, <1>6, <1>7 DEF PollIndices

LEMMA ScheduledStep ==
    ASSUME TypeOK, PeerOK, SetUpForPeer, EventOfExchange, ScheduledKeys, [ExchangeNext]_allVars
    PROVE  ScheduledKeys'
<1> SUFFICES ASSUME setup'.materialValid
             PROVE  /\ WarmScheduled(setup', book')
                    /\ m_state' = "AwaitingPoll" /\ cycle'.keysValid =>
                         cycle'.pollStsIndex \in PollIndices(setup'.params)
  BY DEF ScheduledKeys
<1>t. radio \in Radio /\ setup \in Setup /\ book \in Book /\ cycle \in Cycle
  BY DEF TypeOK
<1>u. ASSUME UNCHANGED <<setup, book>>,
             UNCHANGED <<m_state, cycle>> \/ m_state' # "AwaitingPoll"
      PROVE  ScheduledKeys'
  BY <1>u DEF ScheduledKeys
<1>d. ASSUME UNCHANGED setup, Decoded(book'), m_state' # "AwaitingPoll" PROVE ScheduledKeys'
  BY <1>d, <1>t, ProcessScheduled DEF Decoded, ScheduledKeys
<1>1. CASE AirStep
  <2>1. UNCHANGED vars \/ \E event \in Event : LatchEvent(event)
    BY <1>1, AirDoes
  <2> QED BY <1>u, <2>1 DEF vars, LatchEvent, ScheduledKeys
<1>2. CASE BackToListening
  BY <1>2, <1>d, BackToListeningDoes DEF ScheduledKeys
<1>3. CASE WarmPrePoll
  <2>1. /\ UNCHANGED setup /\ book.warmValid
        /\ book' = [book EXCEPT !.stashFrame = Heard, !.warmValid = HeaderOk(setup, book, Heard)]
        /\ cycle' = [cycle EXCEPT !.keysValid = TRUE, !.keys = book.warm,
                                  !.pollStsIndex = book.warm.pollStsIndex]
    BY <1>3 DEF WarmPrePoll
  <2>2. book'.warm = book.warm /\ cycle'.pollStsIndex = book.warm.pollStsIndex
    BY <1>t, <2>1 DEF Book, Cycle
  <2> QED BY <2>1, <2>2 DEF ScheduledKeys, WarmScheduled
<1>4. CASE BootstrapOtherParity \/ BootstrapPrePoll
  <2>1. /\ BootstrapFrame /\ AcceptsPrePoll(setup, book, Heard) /\ UNCHANGED setup
        /\ book.warmValid = FALSE
    BY <1>4, <1>t DEF BootstrapOtherParity, BootstrapPrePoll, BootstrapFrame, Book
  <2>2. Heard \in Frames /\ Reported(radio) \in Radio
    BY <2>1, HandledEvent DEF BootstrapFrame
  <2>3. NotePrePoll(book, Heard) \in Book /\ NotePrePoll(book, Heard).warmValid = FALSE
    BY <1>t, <2>1, <2>2, NotePrePollType
  <2>4. WarmScheduled(setup, NotePrePoll(book, Heard))
    BY <2>3 DEF WarmScheduled
  <2>5. CASE BootstrapOtherParity
    <3>1. /\ m_state' = "PrePollListening"
          /\ \E derived \in LegsDerived(setup) :
               book' = ProcessStashedPrePoll(setup, NotePrePoll(book, Heard), derived)
      BY <1>t, <2>2, <2>3, <2>5, ArmPrePollListeningType DEF BootstrapOtherParity
    <3> QED BY <1>t, <2>1, <2>3, <2>4, <3>1, ProcessScheduled
  <2>6. CASE BootstrapPrePoll
    <3>1. \E derived \in LegsDerived(setup) :
            \/ /\ m_state' = "PrePollListening"
               /\ book' = ProcessStashedPrePoll(setup, NotePrePoll(book, Heard), derived)
            \/ /\ cycle'.pollStsIndex = Heard.sts
               /\ book' = RefreshWarmKeys(setup, NotePrePoll(book, Heard), derived)
      BY <2>6, BootstrapArms
    <3>2. Heard.sts \in PollIndices(setup.params)
      BY <2>1, AcceptedIsOwn
    <3> QED BY <1>t, <2>1, <2>3, <2>4, <3>1, <3>2, ProcessScheduled, RefreshScheduled
  <2> QED BY <1>4, <2>5, <2>6
<1>5. CASE PollReceived /\ m_state' = "TransmittingResponse" /\ UNCHANGED book
  BY <1>5, <1>u DEF PollReceived, ScheduledKeys
<1>6. CASE OnTxComplete /\ cycle.keysValid
  BY <1>6, <1>u DEF OnTxComplete, ScheduledKeys
<1>7. CASE OnFinal
  BY <1>7, <1>d DEF OnFinal, Decoded, ScheduledKeys
<1>8. CASE ListenTimeout \/ IgnoreEvent \/ DropEvent \/ UNCHANGED <<vars, exchange>>
  BY <1>8, <1>u DEF ListenTimeout, IgnoreEvent, DropEvent, vars, ScheduledKeys
<1>9. CASE Stop \/ Suspend
  BY <1>9, <1>u DEF Stop, Suspend, ScheduledKeys
<1>10. CASE Resume
  BY <1>10, <1>d, ResumeDoes DEF ScheduledKeys
<1>11. CASE Start(PeerUrsk, exchange.params, Node)
  <2>1. PeerUrsk \in Ursks /\ exchange.params \in ParamsSet /\ Node \in NodeConfigs
    BY PeerAssumption DEF PeerOK, PeerIn
  <2>2. /\ setup' \in Setup
        /\ \/ book' = ForgetPrePolls(book) /\ cycle'.keysValid = FALSE
           \/ /\ m_state' = "PrePollListening"
              /\ \E derived \in LegsDerived(setup') :
                   book' = ProcessStashedPrePoll(setup', ForgetPrePolls(book), derived)
    BY <1>11, <2>1, StartDoes
  <2>3. ForgetPrePolls(book) \in Book /\ ForgetPrePolls(book).warmValid = FALSE
    BY <1>t, ForgetPrePollsType
  <2> QED BY <2>2, <2>3, ProcessScheduled DEF WarmScheduled
<1> QED BY <1>1, <1>2, <1>3, <1>4, <1>5, <1>6, <1>7, <1>8, <1>9, <1>10, <1>11, ExchangeCases
        DEF PeerControl, HandlerStep

-----------------------------------------------------------------------------
(***************************************************************************)
(* What is heard is heard before the initiator goes on.                    *)
(***************************************************************************)
LEMMA EventStep ==
    ASSUME TypeOK, PeerOK, EventOfExchange, [ExchangeNext]_allVars
    PROVE  EventOfExchange'
<1>t. radio \in Radio
  BY DEF TypeOK
<1>1. CASE AirStep
  <2>1. CASE UNCHANGED vars
    <3>1. UNCHANGED radio
      BY <2>1 DEF vars
    <3>2. CASE Quiet
      BY <3>1, <3>2 DEF Quiet, EventOfExchange
    <3>3. CASE ~ Quiet
      <4>1. SameExchange /\ exchange'.phase = exchange.phase
        BY <1>1, <3>3, AirDoes
      <4>2. /\ PrePollFrame(exchange') = PrePollFrame(exchange)
            /\ PeerLegKeys(exchange', "poll") = PeerLegKeys(exchange, "poll")
            /\ PeerLegKeys(exchange', "final") = PeerLegKeys(exchange, "final")
        BY <4>1, SameKeys
      <4> QED BY <3>1, <4>1, <4>2 DEF EventOfExchange, HeardOf, SameExchange
    <3> QED BY <3>2, <3>3
  <2>2. ASSUME NEW event \in Event, LatchEvent(event), HeardOf(exchange', event, radio.sts)
        PROVE  EventOfExchange'
    <3>1. radio'.event = event /\ radio'.sts = radio.sts
      BY <1>t, <2>2 DEF LatchEvent, Latch, Radio
    <3>2. HeardOf(exchange', radio'.event, radio'.sts)
      BY <2>2, <3>1
    <3> QED BY <3>2 DEF EventOfExchange
  <2> QED BY <1>1, <2>1, <2>2, AirDoes
<1>2. CASE HandlerStep
  BY <1>2, HandlerDoes DEF EventOfExchange
<1>3. CASE PeerControl /\ UNCHANGED exchange
  BY <1>3, ControlDoes DEF EventOfExchange
<1>4. CASE UNCHANGED <<vars, exchange>>
  BY <1>4 DEF vars, EventOfExchange
<1> QED BY <1>1, <1>2, <1>3, <1>4, ExchangeCases

-----------------------------------------------------------------------------
(***************************************************************************)
(* The session is in the initiator's exchange from the Poll on, and all    *)
(* its timestamps are of this exchange, but for a Final with a bad STS.    *)
(***************************************************************************)
CycleOfExchange ==
    /\ m_state \in {"TransmittingResponse", "AwaitingFinal", "AwaitingFinalData"} =>
         exchange.phase \in Answered /\ cycle.pollRx = exchange.number
    /\ m_state = "TransmittingResponse" /\ radio.mode = "Tx" =>
         exchange.phase = "Poll" /\ radio.sts = PeerLegKeys(exchange, "response")
    /\ m_state \in {"AwaitingFinal", "AwaitingFinalData"} => cycle.respTx = exchange.number
    /\ m_state = "AwaitingFinalData" /\ cycle.finalStsPassed => cycle.finalRx = exchange.number

\* A Poll with a good STS is the initiator's, and the keys are for its exchange.
LEMMA PollIsOwn ==
    ASSUME TypeOK, PeerOK, SetUpForPeer, EventOfExchange, ScheduledKeys, SecuredInv,
           HandledIn("AwaitingPoll", "RxSuccess"), radio.event.stsPassed, cycle.keysValid
    PROVE  /\ exchange.phase = "Poll" /\ radio.event.stamp = exchange.number
           /\ cycle.keys.leg["response"] = PeerLegKeys(exchange, "response")
<1> DEFINE p == exchange.params
           index == Node.responderIndex
           armed == cycle.pollStsIndex
           poll == PeerPollStsIndex(exchange)
<1>1. m_state = "AwaitingPoll" /\ radio.event # NoEvent /\ radio.listener
  BY DEF HandledIn, Reports
<1>2. /\ setup.materialValid /\ setup.params = p /\ setup.nodeConfig = Node
      /\ setup.mursk = DeriveMursk(PeerUrsk) /\ setup.saltedHash = DeriveSaltedHash(PeerUrsk, p)
  BY <1>1 DEF SetUpForPeer, ForPeer
<1>3. ASSUME NEW leg, NEW sts
      PROVE  LegKeys(setup, sts, leg) = LegKeys(PeerSetup(p), sts, leg)
  BY <1>2 DEF LegKeys, PeerSetup
<1>4. radio.sts = LegKeys(PeerSetup(p), armed, "poll")
  BY <1>1, <1>2, <1>3 DEF SecuredInv, LegSecured, SecuredBy
<1>5. p \in PeerParamsSet /\ index \in Nat
  BY SetUps DEF PeerOK, PeerIn
<1>6. armed \in PollIndices(p) /\ poll \in PollIndices(p)
  <2>1. exchange.blockNumber \in BlockNumbers /\ exchange.round \in SlotIndex
    BY DEF PeerOK, PeerIn
  <2> QED BY <1>1, <1>2, <2>1 DEF ScheduledKeys, PollIndices, PeerPollStsIndex
<1>7. ASSUME NEW leg, radio.sts = PeerLegKeys(exchange, leg)
      PROVE  LegStsIndex(p, index, armed, "poll") = LegStsIndex(p, index, poll, leg)
  <2>1. LegKeys(PeerSetup(p), armed, "poll") = LegKeys(PeerSetup(p), poll, leg)
    BY <1>4, <1>7 DEF PeerLegKeys
  <2> QED BY <2>1 DEF LegKeys, DeriveSlotKeys, PeerSetup
<1>8. radio.sts # PeerLegKeys(exchange, "final")
  <2>1. LegStsIndex(p, index, armed, "poll") # LegStsIndex(p, index, poll, "final")
    <3> HIDE DEF p, index, armed, poll
    <3> QED BY <1>5, <1>6, FinalIsNoPoll
  <2> QED BY <1>7, <2>1
<1>9. /\ exchange.phase = "Poll" /\ radio.event.stamp = exchange.number
      /\ radio.sts = PeerLegKeys(exchange, "poll")
  BY <1>1, <1>8 DEF EventOfExchange, HeardOf
<1>10. armed = poll
  <2>1. armed \in StsIndex /\ poll \in StsIndex
    <3>1. p \in RangingSessionParameters
      BY <1>5, SetUps
    <3>2. cycle \in Cycle
      BY DEF TypeOK
    <3>3. poll \in StsIndex
      <4> HIDE DEF p, poll
      <4>1. PICK rounds \in Nat :
              /\ poll = (p.stsIndex0 + rounds * p.slotsPerRound + 1) % U32
              /\ (rounds + 1) * p.slotsPerRound <= U32
        BY <1>5, <1>6, PollIndexIs
      <4>2. p.slotsPerRound \in Nat /\ p.stsIndex0 \in Nat /\ U32 \in Nat \ {0}
        BY <3>1, WidthAssumption DEF RangingSessionParameters, StsIndex
      <4>3. rounds * p.slotsPerRound \in Nat
        BY <4>2, ProductNat
      <4> DEFINE n == p.stsIndex0 + rounds * p.slotsPerRound + 1
      <4>4. n \in Int
        BY <4>2, <4>3
      <4> HIDE DEF n
      <4>5. n % U32 \in 0 .. U32 - 1
        BY <4>2, <4>4, RemainderRange
      <4> QED BY <4>1, <4>5 DEF n, StsIndex
    <3> QED BY <3>2, <3>3 DEF Cycle
  <2>2. (armed + 0) % U32 = (poll + 0) % U32
    BY <1>7, <1>9 DEF LegStsIndex, LegOffset
  <2> QED BY <2>1, <2>2, WidthAssumption DEF StsIndex
<1>11. cycle.keys.leg["response"] = LegKeys(setup, armed, "response")
  BY <1>1, <1>2 DEF SecuredInv, KeysArmed, Secured, Legs
<1> QED BY <1>3, <1>9, <1>10, <1>11 DEF PeerLegKeys

LEMMA CycleStep ==
    ASSUME TypeOK, PeerOK, SetUpForPeer, EventOfExchange, ScheduledKeys, SecuredInv,
           CycleOfExchange, [ExchangeNext]_allVars
    PROVE  CycleOfExchange'
<1>t. radio \in Radio /\ book \in Book /\ cycle \in Cycle /\ setup \in Setup
  BY DEF TypeOK
<1>k. /\ cycle.keys \in CycleKeys /\ "response" \in Legs
  BY <1>t DEF Cycle, Legs
<1>b. ASSUME m_state' \notin {"TransmittingResponse", "AwaitingFinal", "AwaitingFinalData"}
      PROVE  CycleOfExchange'
  BY <1>b DEF CycleOfExchange
<1>1. CASE AirStep
  <2>1. m_state' = m_state /\ cycle' = cycle
    BY <1>1, AirDoes DEF vars, LatchEvent
  <2>2. CASE m_state \in {"TransmittingResponse", "AwaitingFinal", "AwaitingFinalData"}
    <3>1. exchange.phase \in Answered /\ m_state \in Active \ {"PrePollListening"}
      BY <2>2 DEF CycleOfExchange, Active
    <3>2. exchange'.phase \in Answered /\ SameExchange
      BY <1>1, <3>1, AirDoes DEF Answered
    <3>3. radio'.mode = "Tx" => UNCHANGED radio
      BY <1>1, <1>t, AirDoes DEF vars, LatchEvent, Latch, Radio
    <3>4. radio'.mode = "Tx" => exchange'.phase = exchange.phase
      BY <1>1, <3>3, AirDoes DEF Quiet
    <3>5. PeerLegKeys(exchange', "response") = PeerLegKeys(exchange, "response")
      BY <3>2, SameKeys
    <3> QED BY <2>1, <3>2, <3>3, <3>4, <3>5 DEF CycleOfExchange, SameExchange
  <2> QED BY <1>b, <2>1, <2>2
<1>2. CASE HandlerStep /\ UNCHANGED exchange
  <2>1. CASE BackToListening
    BY <1>b, <2>1, BackToListeningDoes
  <2>2. CASE WarmPrePoll \/ BootstrapOtherParity \/ BootstrapPrePoll
    <3>1. m_state' \in {"PrePollListening", "AwaitingPoll"}
      BY <2>2, BootstrapArms DEF WarmPrePoll, BootstrapOtherParity, ArmPrePollListening
    <3> QED BY <1>b, <3>1
  <2>3. CASE PollReceived /\ m_state' = "TransmittingResponse"
    <3> DEFINE loaded == WithLegKeys(Reported(radio), cycle.keys, "response")
    <3>1. /\ HandledIn("AwaitingPoll", "RxSuccess") /\ radio.event.stsPassed /\ cycle.keysValid
          /\ cycle' = [cycle EXCEPT !.pollRx = radio.event.stamp]
          /\ radio' = StartDelayedTx(loaded, TRUE)
      BY <2>3 DEF PollReceived, ArmPrePollListening
    <3>2. /\ exchange.phase = "Poll" /\ radio.event.stamp = exchange.number
          /\ cycle.keys.leg["response"] = PeerLegKeys(exchange, "response")
      BY <3>1, PollIsOwn
    <3>3. Reported(radio) \in Radio
      BY <1>t, RadioCallTypes
    <3>4. loaded \in Radio /\ loaded.sts = cycle.keys.leg["response"]
      BY <1>k, <3>3, WithLegKeysType
    <3> HIDE DEF loaded
    <3>5. radio'.sts = PeerLegKeys(exchange, "response")
      BY <3>1, <3>2, <3>4 DEF StartDelayedTx, Radio
    <3>6. cycle'.pollRx = exchange.number
      BY <1>t, <3>1, <3>2 DEF Cycle
    <3> QED BY <1>2, <2>3, <3>2, <3>5, <3>6 DEF CycleOfExchange, Answered
  <2>4. CASE OnTxComplete /\ cycle.keysValid
    <3>1. /\ HandledIn("TransmittingResponse", "TxDone") /\ m_state' = "AwaitingFinal"
          /\ cycle' = [cycle EXCEPT !.respTx = radio.event.stamp]
      BY <2>4 DEF OnTxComplete
    <3>2. radio.event.stamp = exchange.number /\ m_state = "TransmittingResponse"
      BY <3>1 DEF HandledIn, Reports, EventOfExchange, HeardOf
    <3>3. cycle'.respTx = exchange.number /\ cycle'.pollRx = cycle.pollRx
      BY <1>t, <3>1, <3>2 DEF Cycle
    <3> QED BY <1>2, <3>1, <3>2, <3>3 DEF CycleOfExchange
  <2>5. CASE OnFinal
    <3>1. /\ HandledIn("AwaitingFinal", "RxSuccess") /\ m_state' = "AwaitingFinalData"
          /\ cycle' = [cycle EXCEPT !.finalRx = radio.event.stamp,
                                    !.finalStsPassed = radio.event.stsPassed]
      BY <2>5 DEF OnFinal
    <3>2. /\ radio.event.stsPassed => radio.event.stamp = exchange.number
          /\ m_state = "AwaitingFinal"
      BY <3>1 DEF HandledIn, Reports, EventOfExchange, HeardOf
    <3>3. /\ cycle'.finalRx = radio.event.stamp /\ cycle'.pollRx = cycle.pollRx
          /\ cycle'.respTx = cycle.respTx
      BY <1>t, <3>1 DEF Cycle
    <3>4. cycle'.finalStsPassed = radio.event.stsPassed
      BY <1>t, <3>1 DEF Cycle
    <3>5. cycle'.finalStsPassed => cycle'.finalRx = exchange.number
      BY <3>2, <3>3, <3>4, Zenon
    <3> QED BY <1>2, <3>1, <3>2, <3>3, <3>5 DEF CycleOfExchange
  <2>6. CASE ListenTimeout
    <3>1. m_state' = "PrePollListening"
      BY <2>6 DEF ListenTimeout, HandledIn
    <3> QED BY <1>b, <3>1
  <2>7. CASE IgnoreEvent \/ DropEvent
    <3>1. UNCHANGED <<m_state, cycle>> /\ radio' = Reported(radio)
      BY <2>7 DEF IgnoreEvent, DropEvent
    <3>2. radio'.mode = radio.mode /\ radio'.sts = radio.sts
      BY <1>t, <3>1 DEF Reported, Radio
    <3> QED BY <1>2, <3>1, <3>2 DEF CycleOfExchange
  <2> QED BY <1>2, <2>1, <2>2, <2>3, <2>4, <2>5, <2>6, <2>7 DEF HandlerStep
<1>3. CASE PeerControl /\ UNCHANGED exchange
  <2>1. CASE m_state' \in {"Idle", "Suspended", "PrePollListening"}
    BY <1>b, <2>1
  <2>2. CASE /\ m_state' = m_state /\ radio'.mode = "Off"
             /\ cycle'.pollRx = cycle.pollRx /\ cycle'.respTx = cycle.respTx
             /\ cycle'.finalRx = cycle.finalRx
             /\ cycle'.finalStsPassed = cycle.finalStsPassed
    <3>1. cycle'.finalStsPassed => cycle.finalStsPassed
      BY <2>2, Zenon
    <3> QED BY <1>3, <2>2, <3>1 DEF CycleOfExchange
  <2> QED BY <1>3, <2>1, <2>2, ControlDoes
<1>4. CASE UNCHANGED <<vars, exchange>>
  BY <1>4 DEF vars, CycleOfExchange
<1> QED BY <1>1, <1>2, <1>3, <1>4, ExchangeCases

-----------------------------------------------------------------------------
(***************************************************************************)
(* The results.                                                            *)
(***************************************************************************)

\* Only a Final_Data gives a result.
LEMMA ResultKept ==
    ASSUME TypeOK, PeerOK, [ExchangeNext]_allVars, ~ FinalDataResult
    PROVE  UNCHANGED result
<1>1. AirStep => UNCHANGED result
  BY AirDoes DEF vars, LatchEvent
<1>2. PeerControl => UNCHANGED result
  BY ControlDoes
<1>3. BackToListening => UNCHANGED result
  BY DEF BackToListening, UnreadablePrePoll, BootstrapRejected, PollRejected, PollWithoutKeys,
         FinalDataRejected, FinalDataWithoutResult, LegTimeout, OnRxError, OnTxComplete,
         PollReceived
<1>4. HandlerStep => UNCHANGED result
  BY <1>3 DEF HandlerStep, WarmPrePoll, BootstrapOtherParity, BootstrapPrePoll, PollReceived,
         OnTxComplete, OnFinal, ListenTimeout, IgnoreEvent, DropEvent
<1>5. UNCHANGED <<vars, exchange>> => UNCHANGED result
  BY DEF vars
<1> QED BY <1>1, <1>2, <1>4, <1>5, ExchangeCases

\* An accepted Final_Data is the initiator's.
LEMMA FinalDataIsOwn ==
    ASSUME TypeOK, PeerOK, SetUpForPeer, EventOfExchange,
           HandledIn("AwaitingFinalData", "RxSuccess"), AcceptsFinalData(Heard)
    PROVE  /\ exchange.phase = "FinalData"
           /\ Heard.stamp = exchange.number /\ Heard.counter = exchange.number
<1>1. /\ radio.event # NoEvent /\ radio.event.kind = "RxSuccess" /\ radio.listener
  BY DEF HandledIn, Reports
<1>2. /\ setup.params = exchange.params /\ setup.mursk = DeriveMursk(PeerUrsk)
      /\ setup.saltedHash = DeriveSaltedHash(PeerUrsk, exchange.params)
  BY <1>1 DEF SetUpForPeer, ForPeer
<1>3. exchange.params \in PeerParamsSet /\ cycle.pollStsIndex \in StsIndex
  BY DEF PeerOK, PeerIn, TypeOK, Cycle
<1>4. /\ Heard.msg = "FinalData"
      /\ Heard.key = DudskKey(DeriveSlotKeys(DeriveMursk(PeerUrsk),
                                 DeriveSaltedHash(PeerUrsk, exchange.params),
                                 cycle.pollStsIndex, exchange.params))
  BY <1>2 DEF AcceptsFinalData, Decrypts, FinalDataKey
<1>5. Heard \notin ForeignFrames
  BY <1>3, <1>4, ForeignAssumption
<1>6. PrePollFrame(exchange).msg = "PrePoll"
  BY DEF PrePollFrame
<1> QED BY <1>1, <1>4, <1>5, <1>6 DEF EventOfExchange, HeardOf, Heard

LEMMA OneExchangeStep ==
    ASSUME TypeOK, PeerOK, SetUpForPeer, EventOfExchange, CycleOfExchange, OneExchange,
           [ExchangeNext]_allVars
    PROVE  OneExchange'
<1>1. CASE FinalDataResult
  <2>1. /\ HandledIn("AwaitingFinalData", "RxSuccess") /\ AcceptsFinalData(Heard)
        /\ result' = RangingResultOf(Heard)
    BY <1>1 DEF FinalDataResult
  <2>2. Heard.stamp = exchange.number /\ exchange.number \in Stamps
    BY <2>1, FinalDataIsOwn, PeerStamps
  <2>3. /\ cycle.pollRx = exchange.number /\ cycle.respTx = exchange.number
        /\ cycle.finalStsPassed => cycle.finalRx = exchange.number
    BY <2>1 DEF HandledIn, CycleOfExchange
  <2>4. result'.stsPassed = cycle.finalStsPassed
    BY <2>1 DEF RangingResultOf
  <2>5. result'.stamps = <<cycle.pollRx, cycle.respTx, cycle.finalRx, Heard.stamp>>
    BY <2>1 DEF RangingResultOf
  <2>6. result'.stsPassed =>
          result'.stamps = <<exchange.number, exchange.number, exchange.number, exchange.number>>
    BY <2>2, <2>3, <2>4, <2>5, Zenon
  <2> QED BY <2>2, <2>6 DEF OneExchange
<1>2. CASE ~ FinalDataResult
  BY <1>2, ResultKept DEF OneExchange
<1> QED BY <1>1, <1>2

-----------------------------------------------------------------------------
(***************************************************************************)
(* The theorems.                                                           *)
(***************************************************************************)
ExchangeInv ==
    /\ TypeOK /\ WarmInv /\ SecuredInv
    /\ PeerOK /\ SetUpForPeer /\ ScheduledKeys /\ EventOfExchange
    /\ CycleOfExchange /\ OneExchange

LEMMA ExchangeInvInit == ExchangeInit => ExchangeInv
<1> SUFFICES ASSUME ExchangeInit PROVE ExchangeInv
  OBVIOUS
<1>1. Init /\ TypeOK /\ WarmInv /\ SecuredInv
  BY TypeInit, WarmInit, SecuredInit DEF ExchangeInit
<1>2. PeerOK
  <2>1. FirstBlockNumber \in Nat \ {0} /\ MaxExchanges \in Nat /\ 1 \in SlotIndex
    BY PeerAssumption
  <2>2. 0 \in 0 .. MaxExchanges /\ FirstBlockNumber - 1 \in BlockNumbers
    BY <2>1 DEF BlockNumbers
  <2>3. exchange \in PeerIn(Phases) /\ exchange.number = 0
        /\ exchange.blockNumber = FirstBlockNumber - 1
    BY <2>1, <2>2 DEF ExchangeInit, PeerIn, Phases
  <2> QED BY <2>1, <2>3 DEF PeerOK
<1>3. SetUpForPeer /\ ScheduledKeys /\ EventOfExchange /\ CycleOfExchange /\ OneExchange
  BY <1>1 DEF Init, SetUpForPeer, ForPeer, ScheduledKeys, EventOfExchange, CycleOfExchange, OneExchange
<1> QED BY <1>1, <1>2, <1>3 DEF ExchangeInv

LEMMA ExchangeInvStep == ExchangeInv /\ [ExchangeNext]_allVars => ExchangeInv'
<1> SUFFICES ASSUME ExchangeInv, [ExchangeNext]_allVars PROVE ExchangeInv'
  OBVIOUS
<1>1. /\ TypeOK /\ WarmInv /\ SecuredInv
      /\ PeerOK /\ SetUpForPeer /\ ScheduledKeys /\ EventOfExchange
      /\ CycleOfExchange /\ OneExchange
  BY DEF ExchangeInv
<1>2. [Next]_vars /\ PeerOK'
  BY <1>1, PeerStep
<1>3. TypeOK' /\ WarmInv' /\ SecuredInv'
  BY <1>1, <1>2, TypeStep, WarmStep, SecuredStep
<1>4. SetUpForPeer' /\ ScheduledKeys' /\ EventOfExchange'
  BY <1>1, SetUpStep, ScheduledStep, EventStep
<1>5. CycleOfExchange' /\ OneExchange'
  BY <1>1, CycleStep, OneExchangeStep
<1> QED BY <1>2, <1>3, <1>4, <1>5 DEF ExchangeInv

LEMMA ExchangeInvariant == ExchangeSpec => []ExchangeInv
BY ExchangeInvInit, ExchangeInvStep, PTL DEF ExchangeSpec

\* A result whose Final had a good STS mixes nothing of two exchanges: its
\* timestamps and the report it was computed from are of one, whatever is
\* lost, garbled, overheard, called or fails on the way.
THEOREM ResultsOfOneExchange == ExchangeSpec => []OneExchange
<1>1. ExchangeInv => OneExchange
  BY DEF ExchangeInv
<1> QED BY <1>1, ExchangeInvariant, PTL

\* The responder transmits only to answer the Poll of the initiator's current
\* exchange, and with the STS the initiator expects in its slot.
THEOREM ResponsesAnswerThePoll == ExchangeSpec => []AnswersThePoll
<1>1. ExchangeInv => AnswersThePoll
  BY DEF ExchangeInv, CycleOfExchange, AnswersThePoll
<1> QED BY <1>1, ExchangeInvariant, PTL

-----------------------------------------------------------------------------
(***************************************************************************)
(* The recovery.  First the schedule: the exchanges come one after the     *)
(* other, and a later one has a later STS index.                           *)
(***************************************************************************)

\* The place of an exchange among the rounds of the session.
Position(x) == x.blockNumber * RoundsPerBlock(x.params) + x.round

LEMMA OrderlyRounds ==
    ASSUME Orderly, NEW p \in PeerParamsSet
    PROVE  /\ RoundsPerBlock(p) \in Nat /\ RoundsPerBlock(p) >= 1
           /\ p.slotsPerRound \in Nat /\ p.slotsPerRound >= 1 /\ p.stsIndex0 \in Nat
           /\ U32 \in Nat /\ U32 >= 1 /\ U16 \in Nat /\ U16 >= 1
           /\ FirstBlockNumber \in Nat /\ FirstBlockNumber >= 1 /\ MaxExchanges \in Nat
           /\ 2 * ((FirstBlockNumber + MaxExchanges) * (RoundsPerBlock(p) * p.slotsPerRound)) <= U32
<1>1. p \in RangingSessionParameters /\ p.slotsPerRound \in Nat /\ p.slotsPerRound # 0
  BY SetUps
<1>2. RoundsPerBlock(p) \in Nat /\ RoundsPerBlock(p) # 0
  BY <1>1, RoundsPerBlockNat DEF Orderly
<1>3. 2 * ((FirstBlockNumber + MaxExchanges) * BlockStsStride(p)) <= U32
  BY DEF Orderly
<1>4. p.stsIndex0 \in Nat
  BY <1>1, WidthAssumption DEF RangingSessionParameters, StsIndex
<1> QED BY <1>1, <1>2, <1>3, <1>4, WidthAssumption, PeerAssumption DEF BlockStsStride

\* The distance of two numbers modulo a larger one.
LEMMA DistanceModulo ==
    ASSUME NEW a \in Int, NEW b \in Int, NEW n \in Nat \ {0}, b <= a, a - b < n
    PROVE  ((a % n) - (b % n)) % n = a - b
<1> DEFINE d == (a % n) - (b % n)
           q == (a \div n) - (b \div n)
           k == q + (d \div n)
<1>1. /\ a \div n \in Int /\ a % n \in 0 .. n - 1 /\ a = n * (a \div n) + (a % n)
      /\ b \div n \in Int /\ b % n \in 0 .. n - 1 /\ b = n * (b \div n) + (b % n)
  BY Division
<1>2. d \in Int /\ q \in Int /\ d = a - b - n * q
  <2>1. n * q = n * (a \div n) - n * (b \div n)
    BY <1>1
  <2> QED BY <1>1, <2>1
<1> HIDE DEF d, q
<1>3. d \div n \in Int /\ d % n \in 0 .. n - 1 /\ d = n * (d \div n) + (d % n)
  BY <1>2, Division
<1>4. k \in Int /\ a - b - (d % n) = n * k
  <2>1. n * k = n * q + n * (d \div n)
    BY <1>2, <1>3
  <2>2. n * q \in Int /\ n * (d \div n) \in Int
    BY <1>2, <1>3
  <2> QED BY <1>2, <1>3, <2>1, <2>2
<1> HIDE DEF k
<1>5. n * k < n /\ n * k > - n
  BY <1>3, <1>4
<1>6. k = 0
  <2>1. k < 1 /\ k > -1
    BY <1>4, <1>5
  <2> QED BY <1>4, <2>1
<1> QED BY <1>3, <1>4, <1>6 DEF d

LEMMA LaterIsSerialAfter ==
    ASSUME Orderly, NEW p \in PeerParamsSet, NEW m \in Nat, NEW n \in Nat,
           m < n, n < (FirstBlockNumber + MaxExchanges) * RoundsPerBlock(p)
    PROVE  SerialAfter((p.stsIndex0 + n * p.slotsPerRound + 1) % U32,
                       (p.stsIndex0 + m * p.slotsPerRound + 1) % U32)
<1> DEFINE spr == p.slotsPerRound
           rounds == (FirstBlockNumber + MaxExchanges) * RoundsPerBlock(p)
           a == p.stsIndex0 + n * spr + 1
           b == p.stsIndex0 + m * spr + 1
<1>1. /\ spr \in Nat /\ spr >= 1 /\ rounds \in Nat /\ U32 \in Nat \ {0} /\ p.stsIndex0 \in Nat
      /\ 2 * (rounds * spr) <= U32
  <2>1. /\ RoundsPerBlock(p) \in Nat /\ FirstBlockNumber + MaxExchanges \in Nat /\ spr \in Nat
        /\ spr >= 1 /\ U32 \in Nat /\ U32 >= 1 /\ p.stsIndex0 \in Nat
        /\ 2 * ((FirstBlockNumber + MaxExchanges) * (RoundsPerBlock(p) * spr)) <= U32
    BY OrderlyRounds
  <2>2. rounds * spr = (FirstBlockNumber + MaxExchanges) * (RoundsPerBlock(p) * spr)
    BY <2>1
  <2>3. rounds \in Nat
    BY <2>1, ProductNat
  <2> HIDE DEF spr
  <2> QED BY <2>1, <2>2, <2>3
<1>2. n < rounds
  OBVIOUS
<1> HIDE DEF spr, rounds
<1>3. n * spr \in Nat /\ m * spr \in Nat /\ rounds * spr \in Nat
  BY <1>1, ProductNat
<1>4. (n - m) * spr = n * spr - m * spr /\ (n - m) * spr >= spr
  BY <1>1
<1>5. n * spr + spr <= rounds * spr
  <2>1. (n + 1) * spr <= rounds * spr
    BY <1>1, <1>2, OrderedProducts
  <2> QED BY <1>1, <1>3, <2>1
<1>6. a \in Int /\ b \in Int /\ a - b = n * spr - m * spr
  BY <1>1, <1>3
<1>7. a - b > 0 /\ 2 * (a - b) < U32
  BY <1>1, <1>3, <1>4, <1>5, <1>6
<1> HIDE DEF a, b
<1>8. ((a % U32) - (b % U32)) % U32 = a - b
  <2>1. b <= a /\ a - b < U32
    BY <1>1, <1>6, <1>7
  <2> QED BY <1>1, <1>6, <2>1, DistanceModulo
<1> QED BY <1>7, <1>8 DEF SerialAfter, a, b, spr

LEMMA PollIndexByPosition ==
    ASSUME NEW p \in PeerParamsSet, NEW block \in Nat, NEW round \in Nat
    PROVE  PollStsIndexFor(p, block, round) =
               (p.stsIndex0 + (block * RoundsPerBlock(p) + round) * p.slotsPerRound + 1) % U32
<1> DEFINE spr == p.slotsPerRound
           rpb == RoundsPerBlock(p)
<1>1. p.stsIndex0 \in Nat /\ spr \in Nat /\ rpb \in Nat
  BY SetUps, RoundsPerBlockNat, WidthAssumption DEF RangingSessionParameters, StsIndex
<1>2. PollStsIndexFor(p, block, round) =
          (p.stsIndex0 + block * (rpb * spr) + round * spr + 1) % U32
  BY DEF PollStsIndexFor, BlockStsStride
<1> HIDE DEF spr, rpb
<1>3. block * (rpb * spr) + round * spr = (block * rpb + round) * spr
  BY <1>1
<1>4. block * (rpb * spr) \in Nat /\ round * spr \in Nat /\ (block * rpb + round) * spr \in Nat
  BY <1>1, ProductNat
<1>5. p.stsIndex0 + block * (rpb * spr) + round * spr + 1
          = p.stsIndex0 + (block * rpb + round) * spr + 1
  BY <1>1, <1>3, <1>4
<1> QED BY <1>2, <1>5 DEF spr, rpb

LEMMA AnnouncedIsTrue ==
    ASSUME Orderly, NEW block \in BlockNumbers
    PROVE  block \in BlockIndex /\ AnnouncedBlock(block) = block
<1>1. block \in Nat /\ block < U16 /\ U16 \in Nat
  BY PeerAssumption, WidthAssumption DEF Orderly, BlockNumbers
<1> QED BY <1>1 DEF BlockIndex, AnnouncedBlock

\* The initiator goes on within the next block, to a later exchange, and to
\* the one the session predicts if it predicts any.
LEMMA NextExchange ==
    ASSUME Orderly, NEW x \in PeerIn(Phases), NEW blockNumber \in BlockNumbers, NEW round,
           Follows(x, blockNumber, round)
    PROVE  /\ round \in Nat /\ round < RoundsPerBlock(x.params)
           /\ x.round < RoundsPerBlock(x.params) =>
                Position(x) < blockNumber * RoundsPerBlock(x.params) + round
           /\ Schedulable(x.params, AnnouncedBlock(x.blockNumber), x.round) =>
                LET next == NextScheduledExchange(x.params, AnnouncedBlock(x.blockNumber), x.round)
                IN  next.block = blockNumber /\ next.round = round
<1> DEFINE p == x.params
           rpb == RoundsPerBlock(p)
           last == AnnouncedBlock(x.blockNumber)
           adaptive == p.hoppingMode \in {"AdaptiveAes", "AdaptiveDefault"}
<1>1. /\ p \in PeerParamsSet /\ x.blockNumber \in BlockNumbers /\ x.round \in Nat
      /\ p \in RangingSessionParameters
  BY SetUps, WidthAssumption DEF PeerIn, SlotIndex
<1>2. rpb \in Nat /\ rpb >= 1 /\ U16 \in Nat /\ U16 >= 1
  BY <1>1, OrderlyRounds
<1>3. /\ last = x.blockNumber /\ last \in Nat
      /\ blockNumber \in BlockIndex /\ AnnouncedBlock(blockNumber) = blockNumber
      /\ blockNumber \in Nat /\ blockNumber < U16
  BY <1>1, <1>2, AnnouncedIsTrue, WidthAssumption DEF BlockIndex
<1>4. Position(x) = last * rpb + x.round /\ last * rpb \in Nat /\ blockNumber * rpb \in Nat
  BY <1>1, <1>2, <1>3, ProductNat DEF Position
<1>5. CASE ~ adaptive /\ SecondRoundPending(p, last, x.round)
  <2>1. blockNumber = last /\ round = SecondRound(p, x.round)
    BY <1>3, <1>5 DEF Follows
  <2>2. x.round = ScheduledRoundFor(p, last) /\ TwoRounds(p)
    BY <1>5 DEF SecondRoundPending
  <2>3. x.round < round /\ round < rpb
    BY <1>1, <1>3, <1>5, <2>1, <2>2 DEF Orderly
  <2>4. round \in Nat
    <3>1. RoundOffset(p) \in Int
      BY <1>1 DEF RoundOffset, RangingSessionParameters
    <3>2. x.round + RoundOffset(p) \in Int
      BY <1>1, <3>1
    <3>3. round \in 0 .. U16 - 1
      BY <1>2, <2>1, <3>2, RemainderRange DEF SecondRound
    <3> QED BY <1>2, <3>3
  <2>5. NextScheduledExchange(p, last, x.round) = [block |-> last, round |-> round]
    BY <1>5, <2>1 DEF NextScheduledExchange
  <2> HIDE DEF p, rpb, last
  <2>6. Position(x) < blockNumber * rpb + round
    BY <1>1, <1>4, <2>1, <2>3, <2>4
  <2> QED BY <2>1, <2>3, <2>4, <2>5, <2>6 DEF p, rpb, last
<1>6. CASE adaptive \/ ~ SecondRoundPending(p, last, x.round)
  <2>1. blockNumber = last + 1 /\ round \in PeerRounds(p, blockNumber)
    BY <1>3, <1>6 DEF Follows
  <2>2. round \in Nat /\ round < rpb
    <3>1. CASE adaptive
      BY <1>2, <2>1, <3>1 DEF PeerRounds
    <3>2. CASE ~ adaptive
      <4>1. round = ScheduledRoundFor(p, blockNumber)
        BY <1>3, <2>1, <3>2 DEF PeerRounds
      <4>2. round \in SlotIndex /\ round < rpb
        BY <1>1, <1>2, <1>3, <4>1, ScheduledRoundIsARound
      <4> QED BY <1>2, <4>2 DEF SlotIndex
    <3> QED BY <3>1, <3>2
  <2>3. ASSUME x.round < rpb PROVE Position(x) < blockNumber * rpb + round
    <3> HIDE DEF rpb, last
    <3>1. blockNumber * rpb = last * rpb + rpb
      BY <1>2, <1>3, <2>1
    <3> QED BY <1>1, <1>2, <1>4, <2>2, <2>3, <3>1
  <2>4. ASSUME Schedulable(p, last, x.round)
        PROVE  NextScheduledExchange(p, last, x.round) = [block |-> blockNumber, round |-> round]
    <3>1. ~ adaptive
      BY <2>4 DEF Schedulable
    <3>2. round = ScheduledRoundFor(p, blockNumber)
      BY <1>3, <2>1, <3>1 DEF PeerRounds
    <3>3. (last + 1) % U16 = blockNumber
      <4> HIDE DEF last
      <4> QED BY <1>2, <1>3, <2>1
    <3> QED BY <1>6, <3>1, <3>2, <3>3 DEF NextScheduledExchange
  <2> HIDE DEF p, rpb, last
  <2>5. Schedulable(p, last, x.round) =>
          /\ NextScheduledExchange(p, last, x.round).block = blockNumber
          /\ NextScheduledExchange(p, last, x.round).round = round
    BY <2>4
  <2> QED BY <2>2, <2>3, <2>5 DEF p, rpb, last
<1> QED BY <1>5, <1>6

-----------------------------------------------------------------------------
(***************************************************************************)
(* What the session knows of the schedule.                                 *)
(***************************************************************************)

\* Of the exchanges begun when x is the current one: x itself or one before.
Earlier(y, x) ==
    /\ y.params = x.params
    /\ y.number >= 1 /\ y.round < RoundsPerBlock(y.params)
    /\ \/ y.number < x.number /\ Position(y) < Position(x)
       \/ y.number = x.number /\ y.blockNumber = x.blockNumber /\ y.round = x.round

\* The book's last Pre-Poll is that of the exchange x.
Noted(b, x) ==
    /\ b.lastPrePollCounter = x.number /\ b.lastPrePollStsIndex = PeerPollStsIndex(x)
    /\ b.currentBlock = AnnouncedBlock(x.blockNumber) /\ b.currentRound = x.round

\* The marks and the stash of the book are of exchanges begun.
BookOfPeer(b, x) ==
    /\ \/ b.lastPrePollCounter = None /\ b.lastPrePollStsIndex = None
       \/ \E y \in PeerIn(Phases) : Earlier(y, x) /\ Noted(b, y)
    /\ b.stashFrame # NoFrame /\ b.stashFrame.msg = "PrePoll" =>
         \/ b.stashFrame \in ForeignFrames
         \/ \E y \in PeerIn(Phases) : Earlier(y, x) /\ b.stashFrame = PrePollFrame(y)

\* The book has the Pre-Poll of the exchange x.
Known(b, x) == Noted(b, x) \/ b.stashFrame = PrePollFrame(x)

PeerBook ==
    /\ BookOfPeer(book, exchange)
    /\ book.stashFrame # NoFrame => setup.materialValid

PeerCounts ==
    /\ exchange.number >= 1 => exchange.round < RoundsPerBlock(exchange.params)
    /\ exchange.phase # "Gap" => exchange.number >= 1
    /\ clean \in 0 .. 2 /\ disturbed \in BOOLEAN
    /\ clean >= 1 => exchange.number >= 1

LEMMA PrePollFields ==
    ASSUME NEW x
    PROVE  /\ PrePollFrame(x).msg = "PrePoll" /\ PrePollFrame(x).counter = x.number
           /\ PrePollFrame(x).sts = PeerPollStsIndex(x) /\ PrePollFrame(x).round = x.round
           /\ PrePollFrame(x).block = AnnouncedBlock(x.blockNumber)
           /\ PrePollFrame(x).addr = PeerAddresses(x.params)
           /\ PrePollFrame(x).key = DeriveMupsk1(PeerUrsk) /\ PrePollFrame(x).intact = TRUE
           /\ PrePollFrame(x).sessionId = x.params.sessionId
BY DEF PrePollFrame

LEMMA PeerTypes ==
    ASSUME NEW x \in PeerIn(Phases)
    PROVE  /\ x.params \in PeerParamsSet /\ x.number \in Nat /\ x.number <= MaxExchanges
           /\ x.blockNumber \in Nat /\ x.blockNumber \in BlockNumbers /\ x.round \in Nat
           /\ x.blockNumber <= FirstBlockNumber - 1 + MaxExchanges
           /\ x.phase \in Phases /\ x.heard \in BOOLEAN
           /\ MaxExchanges \in Nat /\ FirstBlockNumber \in Nat /\ FirstBlockNumber >= 1
           /\ U16 \in Nat /\ U16 >= 1
BY PeerAssumption, WidthAssumption DEF PeerIn, BlockNumbers, SlotIndex

LEMMA PositionNat ==
    ASSUME NEW x \in PeerIn(Phases)
    PROVE  RoundsPerBlock(x.params) \in Nat /\ Position(x) \in Nat
<1>1. x.params \in RangingSessionParameters /\ x.blockNumber \in Nat /\ x.round \in Nat
  BY PeerTypes, SetUps
<1>2. RoundsPerBlock(x.params) \in Nat
  BY <1>1, RoundsPerBlockNat
<1>3. x.blockNumber * RoundsPerBlock(x.params) \in Nat
  BY <1>1, <1>2, ProductNat
<1> QED BY <1>1, <1>2, <1>3 DEF Position

LEMMA PrePollsGoOn ==
    ASSUME Orderly, PeerOK, SendPrePoll
    PROVE  /\ exchange' \in PeerIn(Phases)
           /\ exchange'.params = exchange.params /\ exchange'.number = exchange.number + 1
           /\ exchange'.phase = "PrePoll" /\ exchange'.heard = FALSE
           /\ exchange'.round < RoundsPerBlock(exchange.params)
           /\ exchange.round < RoundsPerBlock(exchange.params) =>
                Position(exchange) < Position(exchange')
           /\ Schedulable(exchange.params, AnnouncedBlock(exchange.blockNumber), exchange.round) =>
                LET next == NextScheduledExchange(exchange.params,
                                AnnouncedBlock(exchange.blockNumber), exchange.round)
                IN  PeerPollStsIndex(exchange') =
                        PollStsIndexFor(exchange.params, next.block, next.round)
<1>t. /\ exchange \in PeerIn(Phases) /\ exchange.number \in Nat /\ exchange.blockNumber \in Nat
      /\ exchange.blockNumber <= FirstBlockNumber - 1 + exchange.number
      /\ FirstBlockNumber \in Nat /\ MaxExchanges \in Nat
  BY PeerTypes DEF PeerOK
<1>1. PICK blockNumber \in exchange.blockNumber .. exchange.blockNumber + 1,
           round \in 0 .. U16 - 1 :
        /\ Follows(exchange, blockNumber, round)
        /\ exchange' = [ params |-> exchange.params, number |-> exchange.number + 1,
                         blockNumber |-> blockNumber, round |-> round,
                         phase |-> "PrePoll", heard |-> FALSE ]
  BY DEF SendPrePoll
<1>2. exchange.number < MaxExchanges
  BY DEF SendPrePoll
<1>3. blockNumber \in BlockNumbers
  BY <1>t, <1>2 DEF BlockNumbers
<1>4. exchange' \in PeerIn(Phases)
  <2>1. exchange.number + 1 \in 0 .. MaxExchanges /\ exchange.params \in PeerParamsSet
    BY <1>t, <1>2 DEF PeerIn
  <2> QED BY <1>1, <1>3, <2>1 DEF PeerIn, Phases, SlotIndex
<1>5. /\ round < RoundsPerBlock(exchange.params)
      /\ exchange.round < RoundsPerBlock(exchange.params) =>
           Position(exchange) < blockNumber * RoundsPerBlock(exchange.params) + round
      /\ Schedulable(exchange.params, AnnouncedBlock(exchange.blockNumber), exchange.round) =>
           LET next == NextScheduledExchange(exchange.params,
                           AnnouncedBlock(exchange.blockNumber), exchange.round)
           IN  next.block = blockNumber /\ next.round = round
  BY <1>t, <1>1, <1>3, NextExchange
<1>6. /\ exchange'.params = exchange.params /\ exchange'.number = exchange.number + 1
      /\ exchange'.blockNumber = blockNumber /\ exchange'.round = round
      /\ exchange'.phase = "PrePoll" /\ exchange'.heard = FALSE
  BY <1>1
<1>7. Position(exchange') = blockNumber * RoundsPerBlock(exchange.params) + round
  BY <1>6 DEF Position
<1>8. PeerPollStsIndex(exchange') = PollStsIndexFor(exchange.params, blockNumber, round)
  BY <1>6 DEF PeerPollStsIndex
<1> QED BY <1>4, <1>5, <1>6, <1>7, <1>8

LEMMA PeerMoves ==
    ASSUME PeerOK, AirStep, ~ SendPrePoll
    PROVE  SameExchange
<1>1. ASSUME NEW phase, exchange' = [exchange EXCEPT !.phase = phase] PROVE SameExchange
  BY <1>1 DEF PeerOK, PeerIn, SameExchange
<1>2. ASSUME exchange' = [exchange EXCEPT !.heard = TRUE] PROVE SameExchange
  BY <1>2 DEF PeerOK, PeerIn, SameExchange
<1>3. ASSUME UNCHANGED exchange PROVE SameExchange
  BY <1>3 DEF SameExchange
<1>4. SendPoll \/ SendFinal \/ SendFinalData \/ EndExchange => SameExchange
  BY <1>1 DEF SendPoll, SendFinal, SendFinalData, EndExchange
<1>5. ResponseSent => SameExchange
  BY <1>2, <1>3 DEF ResponseSent
<1>6. WindowCloses \/ HearForeign => SameExchange
  BY <1>3 DEF WindowCloses, HearForeign, exchangeVars
<1> QED BY <1>4, <1>5, <1>6 DEF AirStep

\* What was begun stays begun.
LEMMA EarlierKept ==
    ASSUME Orderly, PeerOK, PeerCounts, AirStep, NEW y \in PeerIn(Phases), Earlier(y, exchange)
    PROVE  Earlier(y, exchange')
<1>t. exchange \in PeerIn(Phases)
  BY DEF PeerOK
<1>1. CASE ~ SendPrePoll
  <2>1. SameExchange
    BY <1>1, PeerMoves
  <2>2. Position(exchange') = Position(exchange)
    BY <2>1 DEF SameExchange, Position
  <2> QED BY <2>1, <2>2 DEF SameExchange, Earlier
<1>2. CASE SendPrePoll
  <2>1. /\ y.number \in Nat /\ exchange.number \in Nat /\ y.number >= 1
        /\ y.number <= exchange.number
    BY <1>t, PeerTypes DEF Earlier
  <2>2. exchange.round < RoundsPerBlock(exchange.params)
    BY <2>1 DEF PeerCounts
  <2>3. /\ exchange' \in PeerIn(Phases) /\ exchange'.params = exchange.params
        /\ exchange'.number = exchange.number + 1 /\ Position(exchange) < Position(exchange')
    BY <1>2, <2>2, PrePollsGoOn
  <2>4. Position(y) \in Nat /\ Position(exchange) \in Nat /\ Position(exchange') \in Nat
    BY <1>t, <2>3, PositionNat
  <2>5. Position(y) <= Position(exchange)
    <3>1. CASE Position(y) < Position(exchange)
      BY <2>4, <3>1
    <3>2. CASE y.blockNumber = exchange.blockNumber /\ y.round = exchange.round
      <4>1. Position(y) = Position(exchange)
        BY <3>2 DEF Earlier, Position
      <4> QED BY <2>4, <4>1
    <3> QED BY <3>1, <3>2 DEF Earlier
  <2> QED BY <2>1, <2>3, <2>4, <2>5 DEF Earlier
<1> QED BY <1>1, <1>2

LEMMA BookKept ==
    ASSUME Orderly, PeerOK, PeerCounts, AirStep, NEW b, BookOfPeer(b, exchange)
    PROVE  BookOfPeer(b, exchange')
BY EarlierKept DEF BookOfPeer

\* The current exchange is the last one begun.
LEMMA CurrentIsEarlier ==
    ASSUME PeerOK, PeerCounts, exchange.number >= 1
    PROVE  exchange \in PeerIn(Phases) /\ Earlier(exchange, exchange)
BY DEF PeerOK, PeerCounts, Earlier

\* A book that knows of earlier exchanges only takes the current Pre-Poll.
LEMMA AcceptsOwn ==
    ASSUME Orderly, PeerOK, PeerCounts, exchange.number >= 1,
           NEW s, ForPeer(s), NEW b, BookOfPeer(b, exchange), ~ Noted(b, exchange)
    PROVE  AcceptsPrePoll(s, b, PrePollFrame(exchange))
<1> DEFINE f == PrePollFrame(exchange)
           p == exchange.params
<1>t. exchange \in PeerIn(Phases) /\ p \in PeerParamsSet
  BY PeerTypes DEF PeerOK
<1>1. /\ f.msg = "PrePoll" /\ f.counter = exchange.number /\ f.sts = PeerPollStsIndex(exchange)
      /\ f.addr = s.addresses /\ f.key = s.mupsk1 /\ f.intact = TRUE
      /\ f.sessionId = s.params.sessionId
  BY PrePollFields DEF ForPeer
<1> HIDE DEF f
<1>2. CASE b.lastPrePollCounter = None /\ b.lastPrePollStsIndex = None
  BY <1>1, <1>2 DEF AcceptsPrePoll, HeaderOk, Decrypts, f
<1>3. ASSUME NEW y \in PeerIn(Phases), Earlier(y, exchange), Noted(b, y)
      PROVE  AcceptsPrePoll(s, b, f)
  <2>1. ~ (/\ y.number = exchange.number /\ y.blockNumber = exchange.blockNumber
           /\ y.round = exchange.round)
    <3>1. y.params = exchange.params
      BY <1>3 DEF Earlier
    <3> QED BY <1>3, <3>1 DEF Noted, PeerPollStsIndex
  <2>2. y.params = p /\ y.number < exchange.number /\ Position(y) < Position(exchange)
    BY <1>3, <2>1 DEF Earlier
  <2>3. Position(y) \in Nat /\ Position(exchange) \in Nat
    BY <1>t, PositionNat
  <2>4. Position(exchange) < (FirstBlockNumber + MaxExchanges) * RoundsPerBlock(p)
    <3> DEFINE rpb == RoundsPerBlock(p)
               m == exchange.blockNumber + 1
               n == FirstBlockNumber + MaxExchanges
    <3>1. /\ rpb \in Nat /\ m \in Nat /\ n \in Nat /\ m <= n /\ exchange.round \in Nat
          /\ exchange.round < rpb
      BY <1>t, PeerTypes, PositionNat DEF PeerCounts
    <3>2. Position(exchange) = exchange.blockNumber * rpb + exchange.round
      BY DEF Position
    <3>3. exchange.blockNumber * rpb + rpb = m * rpb
      BY <1>t, <3>1, PeerTypes
    <3>4. exchange.blockNumber * rpb \in Nat
      BY <1>t, <3>1, PeerTypes, ProductNat
    <3> HIDE DEF rpb, m, n
    <3>5. m * rpb <= n * rpb
      BY <3>1, OrderedProducts
    <3>6. m * rpb \in Nat /\ n * rpb \in Nat
      BY <3>1, ProductNat
    <3>7. Position(exchange) < n * rpb
      BY <2>3, <3>1, <3>2, <3>3, <3>4, <3>5, <3>6
    <3> QED BY <3>7 DEF rpb, n
  <2>5. SerialAfter((p.stsIndex0 + Position(exchange) * p.slotsPerRound + 1) % U32,
                    (p.stsIndex0 + Position(y) * p.slotsPerRound + 1) % U32)
    BY <1>t, <2>2, <2>3, <2>4, LaterIsSerialAfter
  <2>6. /\ PeerPollStsIndex(exchange) =
             (p.stsIndex0 + Position(exchange) * p.slotsPerRound + 1) % U32
        /\ PeerPollStsIndex(y) = (p.stsIndex0 + Position(y) * p.slotsPerRound + 1) % U32
    BY <1>t, <2>2, PeerTypes, PollIndexByPosition DEF PeerPollStsIndex, Position
  <2>7. SerialAfter(f.sts, b.lastPrePollStsIndex)
    BY <1>1, <1>3, <2>5, <2>6 DEF Noted
  <2>8. f.counter > b.lastPrePollCounter
    <3>1. y.number \in Nat /\ exchange.number \in Nat
      BY <1>t, PeerTypes
    <3> QED BY <1>1, <1>3, <2>2, <3>1 DEF Noted
  <2> QED BY <1>1, <2>7, <2>8 DEF AcceptsPrePoll, HeaderOk, Decrypts
<1> QED BY <1>2, <1>3 DEF BookOfPeer, f

\* The marks of two books are the same.
SameMarks(a, b) ==
    /\ a.lastPrePollCounter = b.lastPrePollCounter
    /\ a.lastPrePollStsIndex = b.lastPrePollStsIndex
    /\ a.currentBlock = b.currentBlock /\ a.currentRound = b.currentRound

LEMMA MarksMatter ==
    ASSUME NEW a, NEW b, SameMarks(a, b)
    PROVE  /\ \A x : Noted(a, x) <=> Noted(b, x)
           /\ a.stashFrame = NoFrame /\ BookOfPeer(b, exchange) => BookOfPeer(a, exchange)
<1>1. \A x : Noted(a, x) <=> Noted(b, x)
  BY DEF SameMarks, Noted
<1> QED BY <1>1 DEF SameMarks, BookOfPeer

LEMMA RefreshKeepsMarks ==
    ASSUME NEW s, NEW b \in Book, NEW derived
    PROVE  SameMarks(RefreshWarmKeys(s, b, derived), b)
BY DEF RefreshWarmKeys, SameMarks, Book

LEMMA NotesPrePoll ==
    ASSUME NEW b \in Book, NEW x
    PROVE  Noted(NotePrePoll(b, PrePollFrame(x)), x)
BY PrePollFields DEF NotePrePoll, Noted, Book

LEMMA PrePollIsFrame ==
    ASSUME NEW x \in PeerIn(Phases)
    PROVE  PrePollFrame(x) \in Frames /\ PrePollFrame(x) # NoFrame
BY PeerFrames, FrameTypes

\* Decoding the stash leaves a book of the initiator's, and one that knows the
\* current exchange if it was known before or stashed.
LEMMA ProcessBook ==
    ASSUME Orderly, PeerOK, PeerCounts, NEW s \in Setup, ForPeer(s),
           NEW b \in Book, BookOfPeer(b, exchange), NEW derived \in LegsDerived(s)
    PROVE  /\ ProcessStashedPrePoll(s, b, derived).stashFrame = NoFrame
           /\ BookOfPeer(ProcessStashedPrePoll(s, b, derived), exchange)
           /\ exchange.number >= 1 /\ Known(b, exchange) =>
                Noted(ProcessStashedPrePoll(s, b, derived), exchange)
<1> DEFINE f == b.stashFrame
           drained == [b EXCEPT !.stashFrame = NoFrame]
           noted == NotePrePoll(drained, f)
           a == ProcessStashedPrePoll(s, b, derived)
<1>t. exchange \in PeerIn(Phases)
  BY DEF PeerOK
<1>1. /\ drained \in Book /\ drained.stashFrame = NoFrame /\ SameMarks(drained, b)
      /\ f \in Frames \cup {NoFrame}
  BY DEF Book, SameMarks
<1>2. a.stashFrame = NoFrame
  BY ProcessStashedPrePollType
<1>3. BookOfPeer(drained, exchange) /\ (Noted(drained, exchange) <=> Noted(b, exchange))
  BY <1>1, MarksMatter
<1>4. CASE f = NoFrame
  <2>1. a = b
    BY <1>4 DEF ProcessStashedPrePoll
  <2>2. Known(b, exchange) => Noted(b, exchange)
    BY <1>t, <1>4, PrePollIsFrame DEF Known
  <2> QED BY <1>2, <2>1, <2>2
<1>5. CASE f # NoFrame /\ ~ AcceptsPrePoll(s, drained, f)
  <2>1. a = [drained EXCEPT !.warmValid = FALSE]
    BY <1>5 DEF ProcessStashedPrePoll
  <2> HIDE DEF drained
  <2>2. SameMarks(a, drained)
    BY <1>1, <2>1 DEF Book, SameMarks
  <2>3. BookOfPeer(a, exchange) /\ (Noted(a, exchange) <=> Noted(drained, exchange))
    BY <1>2, <1>3, <2>2, MarksMatter
  <2>4. ASSUME exchange.number >= 1, Known(b, exchange) PROVE Noted(drained, exchange)
    <3>1. f = PrePollFrame(exchange) => Noted(drained, exchange)
      BY <1>3, <1>5, <2>4, AcceptsOwn
    <3> QED BY <1>3, <2>4, <3>1 DEF Known
  <2> QED BY <1>2, <2>3, <2>4
<1>6. CASE f # NoFrame /\ AcceptsPrePoll(s, drained, f)
  <2>1. f \in Frames /\ f.msg = "PrePoll" /\ f.key = DeriveMupsk1(PeerUrsk)
    BY <1>1, <1>6 DEF AcceptsPrePoll, HeaderOk, Decrypts, ForPeer
  <2>2. f \notin ForeignFrames
    BY <2>1, ForeignAssumption
  <2>3. PICK y \in PeerIn(Phases) : Earlier(y, exchange) /\ f = PrePollFrame(y)
    BY <1>6, <2>1, <2>2 DEF BookOfPeer
  <2>4. a = IF IsBlockParityEligible(s, f.block) THEN RefreshWarmKeys(s, noted, derived)
            ELSE noted
    BY <1>6 DEF ProcessStashedPrePoll
  <2>5. noted \in Book
    BY <1>1, <2>1, NotePrePollType
  <2>6. \A x : f = PrePollFrame(x) => Noted(noted, x)
    BY <1>1, NotesPrePoll
  <2> HIDE DEF noted, a
  <2>7. SameMarks(a, noted)
    BY <2>4, <2>5, RefreshKeepsMarks DEF SameMarks
  <2>8. \A x : f = PrePollFrame(x) => Noted(a, x)
    BY <2>6, <2>7, MarksMatter
  <2>9. BookOfPeer(a, exchange)
    BY <1>2, <2>3, <2>8 DEF BookOfPeer, a
  <2>10. ~ Noted(drained, exchange)
    <3>1. SUFFICES ASSUME Noted(drained, exchange) PROVE FALSE
      OBVIOUS
    <3>2. y.number \in Nat /\ exchange.number \in Nat /\ y.number <= exchange.number
      BY <1>t, <2>3, PeerTypes DEF Earlier
    <3>3. drained.lastPrePollCounter = exchange.number /\ f.counter = y.number
      BY <2>3, <3>1, PrePollFields DEF Noted
    <3>4. exchange.number = None \/ y.number > exchange.number
      BY <1>6, <3>3 DEF AcceptsPrePoll, HeaderOk
    <3> QED BY <3>2, <3>4 DEF None
  <2> QED BY <1>2, <1>3, <2>8, <2>9, <2>10 DEF Known, a
<1> QED BY <1>4, <1>5, <1>6

\* An empty stash leaves nothing to decode.
LEMMA NothingStashed ==
    ASSUME NEW s, NEW b, NEW derived, b.stashFrame = NoFrame
    PROVE  ProcessStashedPrePoll(s, b, derived) = b
BY DEF ProcessStashedPrePoll

\* The book after any Pre-Poll is forgotten.
LEMMA ForgottenBook ==
    ASSUME NEW b \in Book, BookOfPeer(b, exchange)
    PROVE  BookOfPeer(ForgetPrePolls(b), exchange)
BY DEF ForgetPrePolls, BookOfPeer, Book

-----------------------------------------------------------------------------
(***************************************************************************)
(* The steps of an orderly session.                                        *)
(***************************************************************************)
LEMMA OrderlyCases ==
    ASSUME [ExchangeNext]_allVars
    PROVE  \/ AirStep
           \/ HandlerStep /\ UNCHANGED exchangeVars
           \/ PeerControl /\ UNCHANGED exchange /\ clean' = 0 /\ disturbed' = TRUE
           \/ UNCHANGED <<vars, exchangeVars>>
<1>1. Handle => HandlerStep /\ UNCHANGED exchangeVars
  BY HandlerCases DEF Handle
<1>2. Control => PeerControl /\ UNCHANGED exchange /\ clean' = 0 /\ disturbed' = TRUE
  BY DEF Control, PeerControl, Disturbance
<1>3. UNCHANGED allVars => UNCHANGED <<vars, exchangeVars>>
  BY DEF allVars
<1> QED BY <1>1, <1>2, <1>3 DEF ExchangeNext, AirStep

\* The air changes nothing of the session but the latched event.
LEMMA AirKeeps ==
    ASSUME TypeOK, PeerOK, AirStep
    PROVE  /\ UNCHANGED <<m_state, setup, book, cycle, m_lastFinalDataCounter, result>>
           /\ radio'.listener = radio.listener
<1>t. radio \in Radio
  BY DEF TypeOK
<1>1. CASE UNCHANGED vars
  BY <1>1 DEF vars
<1>2. ASSUME NEW event \in Event, LatchEvent(event)
      PROVE  /\ UNCHANGED <<m_state, setup, book, cycle, m_lastFinalDataCounter, result>>
             /\ radio'.listener = radio.listener
  BY <1>2, <1>t DEF LatchEvent, Latch, Radio
<1> QED BY <1>1, <1>2, AirDoes

\* A handler is called for an event.
LEMMA HandlersHaveAnEvent ==
    ASSUME HandlerStep
    PROVE  radio.event # NoEvent
<1>1. ASSUME NEW state, NEW kind, HandledIn(state, kind) PROVE radio.event # NoEvent
  BY <1>1 DEF HandledIn, Reports
<1> QED BY <1>1
        DEF HandlerStep, BackToListening, UnreadablePrePoll, BootstrapRejected, BootstrapFrame,
            PollRejected, PollWithoutKeys, FinalDataRejected, FinalDataWithoutResult, LegTimeout,
            OnRxError, OnTxComplete, PollReceived, FinalDataResult, WarmPrePoll,
            BootstrapOtherParity, BootstrapPrePoll, OnFinal, ListenTimeout, IgnoreEvent,
            DropEvent, Drops

\* A bootstrap arms the keys of the current exchange and notes its Pre-Poll.
LEMMA OrderlyBootstrap ==
    ASSUME Orderly, TypeOK, PeerOK, SetUpForPeer, EventOfExchange,
           BootstrapOtherParity \/ BootstrapPrePoll
    PROVE  /\ exchange.phase = "PrePoll" /\ Heard = PrePollFrame(exchange)
           /\ m_state = "PrePollListening"
           /\ m_state' = "AwaitingPoll"
           /\ cycle'.keysValid = TRUE /\ cycle'.pollStsIndex = PeerPollStsIndex(exchange)
           /\ radio'.mode = "Rx"
           /\ SameMarks(book', NotePrePoll(book, Heard)) /\ book'.stashFrame = book.stashFrame
           /\ UNCHANGED <<setup, m_lastFinalDataCounter, result>>
<1>t. radio \in Radio /\ book \in Book /\ setup \in Setup /\ cycle \in Cycle
  BY DEF TypeOK
<1>1. BootstrapFrame /\ AcceptsPrePoll(setup, book, Heard)
  BY DEF BootstrapOtherParity, BootstrapPrePoll
<1>2. /\ exchange.phase = "PrePoll" /\ Heard = PrePollFrame(exchange)
      /\ setup.params = exchange.params
  BY <1>1, AcceptedIsOwn
<1>3. /\ m_state = "PrePollListening" /\ radio.listener = TRUE /\ Heard \in Frames
  BY <1>1, HandledEvent DEF BootstrapFrame
<1>4. setup.nodeConfig = Node /\ exchange.params \in PeerParamsSet
  BY <1>3 DEF SetUpForPeer, ForPeer, PeerOK, PeerIn
<1>5. BootstrapPrePoll
  BY <1>4 DEF BootstrapOtherParity, IsBlockParityEligible, Orderly
<1>6. LegsDerived(setup) = {3}
  BY <1>2, <1>4, SetUps DEF LegsDerived, Orderly
<1> DEFINE keys == DeriveCycleKeys(setup, Heard.sts, cycle.keys, 3)
<1>7. /\ cycle' = [cycle EXCEPT !.keysValid = TRUE, !.keys = keys, !.pollStsIndex = Heard.sts]
      /\ m_state' = "AwaitingPoll"
      /\ book' = RefreshWarmKeys(setup, NotePrePoll(book, Heard), 3)
      /\ UNCHANGED <<setup, m_lastFinalDataCounter, result>>
  BY <1>5, <1>6 DEF BootstrapPrePoll
<1>8. cycle'.keysValid = TRUE /\ cycle'.pollStsIndex = Heard.sts
  BY <1>t, <1>7 DEF Cycle
<1>9. Heard.sts = PeerPollStsIndex(exchange)
  BY <1>2, PrePollFields
<1>10. radio'.mode = "Rx"
  BY <1>5, BootstrapArms DEF Orderly
<1>11. NotePrePoll(book, Heard) \in Book /\ NotePrePoll(book, Heard).stashFrame = book.stashFrame
  BY <1>t, <1>3, NotePrePollType
<1>12. /\ SameMarks(book', NotePrePoll(book, Heard))
       /\ book'.stashFrame = NotePrePoll(book, Heard).stashFrame
  <2> HIDE DEF keys
  <2>1. 3 \in LegsDerived(setup)
    BY <1>6
  <2> QED BY <1>t, <1>7, <1>11, <2>1, RefreshKeepsMarks, RefreshWarmKeysType
<1> QED BY <1>2, <1>3, <1>7, <1>8, <1>9, <1>10, <1>11, <1>12

\* A start in order has all the material.
LEMMA OrderlyStart ==
    ASSUME Orderly, TypeOK, PeerOK, SetUpForPeer, Start(PeerUrsk, exchange.params, Node),
           UNCHANGED exchange
    PROVE  setup' \in Setup /\ setup'.materialValid = TRUE /\ ForPeer(setup')
<1>1. PICK steps \in MaterialSteps : setup' = SetUp(PeerUrsk, exchange.params, Node, steps)
  BY DEF Start, StartWithoutMaterial, StartWithMaterial
<1>2. steps = 5
  BY DEF MaterialSteps, Orderly
<1>3. PeerUrsk \in Ursks /\ exchange.params \in ParamsSet /\ Node \in NodeConfigs
      /\ exchange.params \in PeerParamsSet
  BY PeerAssumption DEF PeerOK, PeerIn
<1>4. setup' \in Setup
  BY <1>3, StartDoes
<1>5. setup' = SetUp(PeerUrsk, exchange.params, Node, 5)
  BY <1>1, <1>2
<1>6. /\ setup'.params = exchange.params /\ setup'.nodeConfig = Node
      /\ setup'.materialValid = (setup.materialValid \/ 5 = 5)
      /\ setup'.mupsk1 = DeriveMupsk1(PeerUrsk) /\ setup'.mursk = DeriveMursk(PeerUrsk)
      /\ setup'.saltedHash = DeriveSaltedHash(PeerUrsk, exchange.params)
      /\ setup'.addresses = PeerAddresses(exchange.params)
  BY <1>3, <1>5, SetUpIs
<1>7. setup'.materialValid = TRUE
  BY <1>6, Zenon
<1> QED BY <1>4, <1>6, <1>7 DEF ForPeer

LEMMA HandlerBook ==
    ASSUME Orderly, TypeOK, PeerOK, PeerCounts, SetUpForPeer, EventOfExchange, PeerBook,
           HandlerStep
    PROVE  BookOfPeer(book', exchange) /\ UNCHANGED setup
           /\ (book'.stashFrame # NoFrame => setup.materialValid)
<1>t. radio \in Radio /\ book \in Book /\ setup \in Setup
  BY DEF TypeOK
<1>s. UNCHANGED setup
  BY HandlerDoes
<1>b. BookOfPeer(book, exchange) /\ (book.stashFrame # NoFrame => setup.materialValid)
  BY DEF PeerBook
<1>l. ASSUME radio.listener PROVE setup.materialValid /\ ForPeer(setup)
  BY <1>l DEF SetUpForPeer
<1>d. ASSUME radio.listener, Decoded(book')
      PROVE  BookOfPeer(book', exchange) /\ book'.stashFrame = NoFrame
  BY <1>b, <1>d, <1>l, <1>t, ProcessBook DEF Decoded
<1>1. CASE BackToListening
  BY <1>1, <1>d, <1>s, BackToListeningDoes
<1>2. CASE OnFinal
  <2>1. radio.listener /\ Decoded(book')
    BY <1>2, HandledEvent DEF OnFinal, Decoded
  <2> QED BY <1>d, <1>s, <2>1
<1>3. CASE WarmPrePoll
  <2>1. /\ HandledIn("PrePollListening", "RxSuccess")
        /\ book' = [book EXCEPT !.stashFrame = Heard, !.warmValid = HeaderOk(setup, book, Heard)]
    BY <1>3 DEF WarmPrePoll
  <2>2. radio.listener /\ radio.event # NoEvent /\ radio.event.kind = "RxSuccess"
    BY <2>1 DEF HandledIn, Reports
  <2>3. book'.stashFrame = Heard /\ SameMarks(book', book)
    BY <1>t, <2>1 DEF Book, SameMarks
  <2>4. Heard.msg = "PrePoll" /\ Heard \notin ForeignFrames =>
          exchange.phase = "PrePoll" /\ Heard = PrePollFrame(exchange)
    BY <2>2 DEF EventOfExchange, HeardOf, Heard
  <2>5. exchange.phase = "PrePoll" =>
          exchange \in PeerIn(Phases) /\ Earlier(exchange, exchange)
    BY CurrentIsEarlier DEF PeerCounts
  <2>6. Heard.msg = "PrePoll" =>
          \/ Heard \in ForeignFrames
          \/ \E y \in PeerIn(Phases) : Earlier(y, exchange) /\ Heard = PrePollFrame(y)
    BY <2>4, <2>5
  <2>7. BookOfPeer(book', exchange)
    BY <1>b, <2>3, <2>6, MarksMatter DEF BookOfPeer, SameMarks
  <2> QED BY <1>l, <1>s, <2>2, <2>7
<1>4. CASE BootstrapOtherParity \/ BootstrapPrePoll
  <2>1. /\ exchange.phase = "PrePoll" /\ Heard = PrePollFrame(exchange)
        /\ SameMarks(book', NotePrePoll(book, Heard)) /\ book'.stashFrame = book.stashFrame
    BY <1>4, OrderlyBootstrap
  <2>2. Noted(book', exchange)
    BY <1>t, <2>1, NotesPrePoll, MarksMatter
  <2>3. exchange \in PeerIn(Phases) /\ Earlier(exchange, exchange)
    BY <2>1, CurrentIsEarlier DEF PeerCounts
  <2> QED BY <1>b, <1>s, <2>1, <2>2, <2>3 DEF BookOfPeer
<1>5. CASE UNCHANGED book
  BY <1>5, <1>b, <1>s
<1>6. OnTxComplete /\ cycle.keysValid => UNCHANGED book
  BY DEF OnTxComplete
<1>7. ListenTimeout \/ IgnoreEvent \/ DropEvent => UNCHANGED book
  BY DEF ListenTimeout, IgnoreEvent, DropEvent
<1> QED BY <1>1, <1>2, <1>3, <1>4, <1>5, <1>6, <1>7 DEF HandlerStep

LEMMA PeerBookStep ==
    ASSUME Orderly, TypeOK, PeerOK, PeerCounts, SetUpForPeer, EventOfExchange, PeerBook,
           [ExchangeNext]_allVars
    PROVE  PeerBook'
<1>t. book \in Book /\ setup \in Setup
  BY DEF TypeOK
<1>b. BookOfPeer(book, exchange) /\ (book.stashFrame # NoFrame => setup.materialValid)
  BY DEF PeerBook
<1>1. CASE AirStep
  BY <1>1, <1>b, AirKeeps, BookKept DEF PeerBook
<1>2. CASE HandlerStep /\ UNCHANGED exchangeVars
  BY <1>2, HandlerBook DEF PeerBook, exchangeVars
<1>3. CASE PeerControl /\ UNCHANGED exchange
  <2>1. CASE Stop \/ Suspend
    BY <1>3, <2>1, <1>b DEF Stop, Suspend, PeerBook
  <2>2. CASE Resume
    <3>1. Decoded(book') /\ UNCHANGED setup /\ book'.stashFrame = NoFrame
      BY <2>2, ResumeDoes
    <3>2. CASE book.stashFrame = NoFrame
      BY <1>3, <1>b, <3>1, <3>2, NothingStashed DEF Decoded, PeerBook
    <3>3. CASE book.stashFrame # NoFrame
      <4>1. ForPeer(setup)
        BY <1>b, <3>3 DEF SetUpForPeer
      <4> QED BY <1>3, <1>t, <1>b, <3>1, <4>1, ProcessBook DEF Decoded, PeerBook
    <3> QED BY <3>2, <3>3
  <2>3. CASE Start(PeerUrsk, exchange.params, Node)
    <3>1. setup' \in Setup /\ setup'.materialValid = TRUE /\ ForPeer(setup')
      BY <1>3, <2>3, OrderlyStart
    <3>2. PeerUrsk \in Ursks /\ exchange.params \in ParamsSet /\ Node \in NodeConfigs
      BY PeerAssumption DEF PeerOK, PeerIn
    <3>3. \/ book' = ForgetPrePolls(book)
          \/ \E derived \in LegsDerived(setup') :
               book' = ProcessStashedPrePoll(setup', ForgetPrePolls(book), derived)
      BY <2>3, <3>1, <3>2, StartDoes
    <3>4. ForgetPrePolls(book) \in Book /\ BookOfPeer(ForgetPrePolls(book), exchange)
      BY <1>t, <1>b, ForgetPrePollsType, ForgottenBook
    <3>5. BookOfPeer(book', exchange)
      BY <3>1, <3>3, <3>4, ProcessBook
    <3> QED BY <1>3, <3>1, <3>5 DEF PeerBook
  <2> QED BY <1>3, <2>1, <2>2, <2>3 DEF PeerControl
<1>4. CASE UNCHANGED <<vars, exchangeVars>>
  BY <1>4, <1>b DEF vars, exchangeVars, PeerBook
<1> QED BY <1>1, <1>2, <1>3, <1>4, OrderlyCases

LEMMA AirDisturbs ==
    ASSUME NEW leg, NEW f, AirSecured(leg) \/ AirPlain(f)
    PROVE  disturbed' \in {TRUE, disturbed}
BY DEF AirSecured, AirPlain, Disturbance, NoDisturbance

LEMMA PeerCountsStep ==
    ASSUME Orderly, PeerOK, PeerCounts, [ExchangeNext]_allVars
    PROVE  PeerCounts'
<1>t. /\ exchange \in PeerIn(Phases) /\ exchange.number \in Nat
      /\ clean \in 0 .. 2 /\ disturbed \in BOOLEAN
      /\ exchange.phase # "Gap" => exchange.number >= 1
      /\ exchange.number >= 1 => exchange.round < RoundsPerBlock(exchange.params)
      /\ clean >= 1 => exchange.number >= 1
  BY PeerTypes DEF PeerOK, PeerCounts
<1>s. ASSUME SameExchange, exchange'.phase # "Gap" => exchange.phase # "Gap",
             clean' \in 0 .. 2, disturbed' \in BOOLEAN,
             clean' >= 1 => clean >= 1 \/ exchange.phase # "Gap"
      PROVE  PeerCounts'
  BY <1>s, <1>t DEF SameExchange, PeerCounts
<1>p. ASSUME NEW phase, exchange' = [exchange EXCEPT !.phase = phase]
      PROVE  SameExchange /\ exchange'.phase = phase
  BY <1>p, <1>t DEF PeerIn, SameExchange
<1>u. UNCHANGED exchange => SameExchange /\ exchange'.phase = exchange.phase
  BY DEF SameExchange
<1>1. CASE SendPrePoll
  <2>1. /\ exchange'.params = exchange.params /\ exchange'.number = exchange.number + 1
        /\ exchange'.phase = "PrePoll" /\ exchange'.round < RoundsPerBlock(exchange.params)
    BY <1>1, PrePollsGoOn
  <2>2. clean' = clean /\ disturbed' \in BOOLEAN
    BY <1>1, <1>t, AirDisturbs DEF SendPrePoll
  <2> QED BY <1>t, <2>1, <2>2 DEF PeerCounts
<1>2. CASE SendPoll \/ SendFinal
  <2>1. /\ exchange.phase # "Gap" /\ clean' = clean
        /\ \E phase : exchange' = [exchange EXCEPT !.phase = phase]
    BY <1>2 DEF SendPoll, SendFinal
  <2>2. disturbed' \in BOOLEAN
    BY <1>2, <1>t, AirDisturbs DEF SendPoll, SendFinal
  <2> QED BY <1>s, <1>p, <1>t, <2>1, <2>2
<1>3. CASE SendFinalData
  <2>1. /\ exchange.phase # "Gap" /\ clean' = clean
        /\ exchange' = [exchange EXCEPT !.phase = "FinalData"]
    BY <1>3 DEF SendFinalData
  <2>2. disturbed' \in BOOLEAN
    BY <1>3, <1>t, AirDisturbs DEF SendFinalData
  <2> QED BY <1>s, <1>p, <1>t, <2>1, <2>2
<1>4. CASE EndExchange
  <2>1. exchange' = [exchange EXCEPT !.phase = "Gap"] /\ disturbed' = FALSE
    BY <1>4 DEF EndExchange
  <2>2. clean' \in 0 .. 2 /\ exchange.phase # "Gap"
    BY <1>4, <1>t DEF EndExchange
  <2> QED BY <1>s, <1>p, <1>t, <2>1, <2>2
<1>5. CASE ResponseSent
  <2>1. exchange' = [exchange EXCEPT !.heard = TRUE] \/ UNCHANGED exchange
    BY <1>5 DEF ResponseSent
  <2>2. SameExchange /\ exchange'.phase = exchange.phase
    BY <1>t, <2>1 DEF PeerIn, SameExchange
  <2>3. clean' = clean /\ disturbed' \in {TRUE, disturbed}
    BY <1>5 DEF ResponseSent, Disturbance, NoDisturbance
  <2> QED BY <1>s, <1>t, <2>2, <2>3
<1>6. CASE WindowCloses \/ HearForeign \/ Handle \/ Control \/ UNCHANGED allVars
  <2>1. UNCHANGED exchange /\ clean' \in {0, clean} /\ disturbed' \in {TRUE, disturbed}
    BY <1>6 DEF WindowCloses, HearForeign, Handle, Control, Disturbance, exchangeVars, allVars
  <2>2. clean' \in 0 .. 2
    BY <1>t, <2>1
  <2>3. disturbed' \in BOOLEAN
    BY <1>t, <2>1, Zenon
  <2> QED BY <1>s, <1>u, <2>1, <2>2, <2>3
<1> QED BY <1>1, <1>2, <1>3, <1>4, <1>5, <1>6 DEF ExchangeNext

-----------------------------------------------------------------------------
(***************************************************************************)
(* The counter of the last Final_Data never bars the current one.          *)
(***************************************************************************)
FinalMark ==
    \/ m_lastFinalDataCounter < exchange.number
    \/ exchange.phase \in {"FinalData", "Gap"} /\ m_lastFinalDataCounter <= exchange.number

LEMMA FinalMarkStep ==
    ASSUME Orderly, TypeOK, PeerOK, SetUpForPeer, EventOfExchange, FinalMark,
           [ExchangeNext]_allVars
    PROVE  FinalMark'
<1>t. /\ exchange \in PeerIn(Phases) /\ exchange.number \in Nat
      /\ m_lastFinalDataCounter \in Int /\ m_lastFinalDataCounter >= None
      /\ m_lastFinalDataCounter <= exchange.number
  BY PeerTypes DEF PeerOK, TypeOK, None, FinalMark
<1>u. ASSUME UNCHANGED m_lastFinalDataCounter, SameExchange,
             \/ exchange'.phase = exchange.phase
             \/ exchange.phase \notin {"FinalData", "Gap"}
             \/ exchange'.phase \in {"FinalData", "Gap"}
      PROVE  FinalMark'
  BY <1>t, <1>u DEF FinalMark, SameExchange
<1>1. CASE AirStep
  <2>0. UNCHANGED m_lastFinalDataCounter
    BY <1>1, AirKeeps
  <2>1. CASE SendPrePoll
    <3>1. exchange'.number = exchange.number + 1
      BY <2>1, PrePollsGoOn
    <3> QED BY <1>t, <2>0, <3>1 DEF FinalMark
  <2>2. CASE ~ SendPrePoll
    <3>1. SameExchange
      BY <1>1, <2>2, PeerMoves
    <3>2. \/ exchange'.phase = exchange.phase
          \/ exchange.phase \notin {"FinalData", "Gap"}
          \/ exchange'.phase \in {"FinalData", "Gap"}
      <4>1. CASE SendPoll \/ SendFinal
        BY <4>1 DEF SendPoll, SendFinal
      <4>2. CASE SendFinalData \/ EndExchange
        BY <1>t, <4>2 DEF SendFinalData, EndExchange, PeerIn
      <4>3. CASE ResponseSent \/ WindowCloses \/ HearForeign
        BY <1>t, <4>3 DEF ResponseSent, WindowCloses, HearForeign, exchangeVars, PeerIn
      <4> QED BY <1>1, <2>2, <4>1, <4>2, <4>3 DEF AirStep
    <3> QED BY <1>u, <2>0, <3>1, <3>2
  <2> QED BY <2>1, <2>2
<1>e. ASSUME UNCHANGED exchange, UNCHANGED m_lastFinalDataCounter PROVE FinalMark'
  BY <1>e DEF FinalMark
<1>2. CASE HandlerStep /\ UNCHANGED exchange
  <2>1. CASE FinalDataWithoutResult \/ FinalDataResult
    <3>1. /\ HandledIn("AwaitingFinalData", "RxSuccess") /\ AcceptsFinalData(Heard)
          /\ m_lastFinalDataCounter' = Heard.counter
      BY <2>1 DEF FinalDataWithoutResult, FinalDataResult
    <3>2. exchange.phase = "FinalData" /\ Heard.counter = exchange.number
      BY <3>1, FinalDataIsOwn
    <3> QED BY <1>2, <1>t, <3>1, <3>2 DEF FinalMark
  <2>2. CASE ~ (FinalDataWithoutResult \/ FinalDataResult)
    <3>1. BackToListening => UNCHANGED m_lastFinalDataCounter
      BY <2>2 DEF BackToListening, UnreadablePrePoll, BootstrapRejected, PollRejected,
             PollWithoutKeys, FinalDataRejected, LegTimeout, OnRxError, OnTxComplete, PollReceived
    <3>2. UNCHANGED m_lastFinalDataCounter
      BY <1>2, <3>1 DEF HandlerStep, WarmPrePoll, BootstrapOtherParity, BootstrapPrePoll,
             PollReceived, OnTxComplete, OnFinal, ListenTimeout, IgnoreEvent, DropEvent
    <3> QED BY <1>2, <1>e, <3>2
  <2> QED BY <2>1, <2>2
<1>3. CASE PeerControl /\ UNCHANGED exchange
  <2>1. m_lastFinalDataCounter' \in {None, m_lastFinalDataCounter}
    BY <1>3 DEF PeerControl, Start, StartWithoutMaterial, StartWithMaterial, Stop, Suspend, Resume
  <2>2. None < exchange.number
    BY <1>t DEF None
  <2> QED BY <1>3, <1>e, <2>1, <2>2 DEF FinalMark
<1>4. CASE UNCHANGED <<vars, exchange>>
  BY <1>4, <1>e DEF vars
<1> QED BY <1>1, <1>2, <1>3, <1>4, ExchangeCases

-----------------------------------------------------------------------------
(***************************************************************************)
(* A running session knows every Pre-Poll of an undisturbed exchange.      *)
(***************************************************************************)
Running == radio.listener /\ m_state \in Active

Received == radio.event # NoEvent /\ radio.event.kind = "RxSuccess"

\* The Pre-Poll of the current exchange is waiting for its handler.
PrePollReceived ==
    /\ m_state = "PrePollListening" /\ Received
    /\ radio.event.frame = PrePollFrame(exchange)
    /\ book.lastPrePollCounter < exchange.number

Knowing ==
    Running /\ ~ disturbed =>
        /\ exchange.phase = "Gap" =>
             m_state = "PrePollListening" /\ ~ Received /\ (clean >= 1 => Known(book, exchange))
        /\ exchange.phase = "PrePoll" => PrePollReceived \/ Known(book, exchange)
        /\ exchange.phase \in Answered => Known(book, exchange)

\* What holds of an orderly session, knowing or not.
OrderlyInv ==
    /\ ExchangeInv /\ DeafInv /\ StashDrained
    /\ PeerCounts /\ PeerBook /\ FinalMark

LEMMA OrderlyFacts ==
    ASSUME OrderlyInv
    PROVE  /\ TypeOK /\ WarmInv /\ SecuredInv /\ PeerOK /\ SetUpForPeer /\ ScheduledKeys
           /\ EventOfExchange /\ CycleOfExchange /\ OneExchange
           /\ DeafInv /\ StashDrained /\ PeerCounts /\ PeerBook /\ FinalMark
           /\ exchange \in PeerIn(Phases) /\ exchange.number \in Nat /\ exchange.number \in Stamps
BY PeerTypes, PeerStamps DEF OrderlyInv, ExchangeInv, PeerOK

LEMMA RunningBefore ==
    ASSUME TypeOK, HandlerStep, Running'
    PROVE  Running
<1>1. radio.listener
  BY HandlerDoes DEF Running
<1>2. BackToListening => m_state \in Active
  BY BackToListeningDoes
<1>3. WarmPrePoll \/ BootstrapOtherParity \/ BootstrapPrePoll => m_state = "PrePollListening"
  BY DEF WarmPrePoll, BootstrapOtherParity, BootstrapPrePoll, BootstrapFrame, HandledIn
<1>4. PollReceived => m_state = "AwaitingPoll"
  BY DEF PollReceived, HandledIn
<1>5. OnTxComplete => m_state = "TransmittingResponse"
  BY DEF OnTxComplete, HandledIn
<1>6. OnFinal => m_state = "AwaitingFinal"
  BY DEF OnFinal, HandledIn
<1>7. ListenTimeout \/ IgnoreEvent \/ DropEvent => m_state' = m_state
  BY DEF ListenTimeout, IgnoreEvent, DropEvent
<1>8. m_state \in Active
  BY <1>2, <1>3, <1>4, <1>5, <1>6, <1>7 DEF Running, Active, HandlerStep
<1> QED BY <1>1, <1>8 DEF Running

LEMMA KeysForPeer ==
    ASSUME SetUpForPeer, radio.listener
    PROVE  \A sts, leg : LegKeys(setup, sts, leg) = LegKeys(PeerSetup(exchange.params), sts, leg)
BY DEF SetUpForPeer, ForPeer, LegKeys, PeerSetup

Armed == cycle.keysValid = TRUE /\ cycle.pollStsIndex = PeerPollStsIndex(exchange)

\* A running session with nothing left to handle receives what its state needs.
LEMMA QuietReceives ==
    ASSUME OrderlyInv, Running, Quiet
    PROVE  /\ radio.mode = "Rx" /\ m_state # "TransmittingResponse"
           /\ m_state \in {"PrePollListening", "AwaitingFinalData"} => ReceiverFor("Off")
           /\ Armed /\ m_state = "AwaitingPoll" =>
                ReceiverFor("NoDataSp3") /\ radio.sts = PeerLegKeys(exchange, "poll")
           /\ Armed /\ m_state = "AwaitingFinal" =>
                ReceiverFor("NoDataSp3") /\ radio.sts = PeerLegKeys(exchange, "final")
<1>1. TypeOK /\ SecuredInv /\ SetUpForPeer /\ DeafInv
  BY OrderlyFacts
<1>2. radio.mode \in {"Off", "Rx", "Tx"} /\ radio.event = NoEvent /\ radio.mode # "Tx"
  BY <1>1 DEF TypeOK, Radio, Quiet
<1>3. radio.mode = "Rx" /\ m_state # "TransmittingResponse"
  BY <1>1, <1>2 DEF DeafInv, Running
<1>4. setup.materialValid /\ radio.listener
  BY <1>1 DEF SetUpForPeer, Running
<1>5. m_state \in {"PrePollListening", "AwaitingFinalData"} => ReceiverFor("Off")
  BY <1>1, <1>3 DEF SecuredInv, LegSecured, ReceiverFor
<1>6. ASSUME NEW leg, SecuredBy(leg), Armed
      PROVE  ReceiverFor("NoDataSp3") /\ radio.sts = PeerLegKeys(exchange, leg)
  BY <1>1, <1>3, <1>4, <1>6, KeysForPeer DEF SecuredBy, Armed, ReceiverFor, PeerLegKeys
<1>7. Armed => /\ m_state = "AwaitingPoll" => SecuredBy("poll")
               /\ m_state = "AwaitingFinal" => SecuredBy("final")
  BY <1>1, <1>4 DEF SecuredInv, LegSecured, Armed
<1> QED BY <1>3, <1>5, <1>6, <1>7

LEMMA EventIsSomething ==
    ASSUME NEW event \in Event
    PROVE  event # NoEvent
<1>1. "RxSuccess" \in EventKind /\ FALSE \in BOOLEAN
  BY DEF EventKind
<1>2. event \in [kind : EventKind, frame : Frames \cup {NoFrame}, stamp : Stamps,
                stsPassed : BOOLEAN]
  BY <1>1 DEF Event
<1> QED BY <1>2, SessionAssumption

\* An undisturbed frame gets to a receiver that is on for it.
LEMMA PlainArrives ==
    ASSUME TypeOK, NEW f \in Frames, exchange'.number \in Stamps, AirPlain(f),
           ReceiverFor("Off"), ~ disturbed'
    PROVE  Received' /\ radio'.event.frame = f /\ ~ disturbed
<1>t. radio \in Radio
  BY DEF TypeOK
<1>1. Receives(f, exchange'.number, FALSE) /\ NoDisturbance
  BY DEF AirPlain, ReceiverFor, Disturbance
<1>2. PICK event \in Event : /\ LatchEvent(event)
                             /\ event.kind = "RxSuccess" /\ event.frame = f
                             /\ event.stamp = exchange'.number /\ event.stsPassed = FALSE
  <2>1. FrameLatched(f, exchange'.number, FALSE)
    BY <1>1, ReceivesPlain
  <2> QED BY <2>1, Zenon DEF FrameLatched
<1>3. radio'.event = event
  BY <1>t, <1>2 DEF LatchEvent, Latch, Radio
<1> QED BY <1>1, <1>2, <1>3, EventIsSomething DEF Received, NoDisturbance

LEMMA SecuredArrives ==
    ASSUME TypeOK, PeerOK, NEW leg, AirSecured(leg), ReceiverFor("NoDataSp3"),
           radio.sts = PeerLegKeys(exchange, leg), ~ disturbed'
    PROVE  Received' /\ radio'.event.stsPassed = TRUE /\ ~ disturbed
<1>t. radio \in Radio
  BY DEF TypeOK
<1> DEFINE passed == (radio.sts = PeerLegKeys(exchange, leg))
<1>1. passed = TRUE
  BY Zenon
<1>2. Receives(NoPayload, exchange.number, passed) /\ NoDisturbance
  BY DEF AirSecured, ReceiverFor, Disturbance
<1> HIDE DEF passed
<1>3. Receives(NoPayload, exchange.number, TRUE)
  BY <1>1, <1>2
<1>4. NoPayload \in Frames /\ exchange.number \in Stamps
  BY NoPayloadIsForeign, PeerStamps
<1>5. PICK event \in Event : /\ LatchEvent(event)
                             /\ event.kind = "RxSuccess" /\ event.frame = NoPayload
                             /\ event.stamp = exchange.number /\ event.stsPassed = TRUE
  <2>1. FrameLatched(NoPayload, exchange.number, TRUE)
    BY <1>3, <1>4, ReceivesEvent
  <2> QED BY <2>1, Zenon DEF FrameLatched
<1>6. radio'.event = event
  BY <1>t, <1>5 DEF LatchEvent, Latch, Radio
<1> QED BY <1>2, <1>5, <1>6, EventIsSomething DEF Received, NoDisturbance

\* A handler forgets no Pre-Poll.
LEMMA HandlerKnown ==
    ASSUME Orderly, OrderlyInv, Running, HandlerStep,
           PrePollReceived \/ Known(book, exchange), exchange.number >= 1
    PROVE  Known(book', exchange)
<1>f. /\ TypeOK /\ PeerOK /\ SetUpForPeer /\ EventOfExchange /\ StashDrained /\ PeerCounts
      /\ PeerBook /\ exchange \in PeerIn(Phases) /\ exchange.number \in Nat
  BY OrderlyFacts
<1>t. radio \in Radio /\ book \in Book /\ setup \in Setup
  BY <1>f DEF TypeOK
<1>s. ForPeer(setup) /\ BookOfPeer(book, exchange)
  BY <1>f DEF Running, SetUpForPeer, PeerBook
<1>d. ASSUME Decoded(book'), Known(book, exchange) PROVE Known(book', exchange)
  BY <1>d, <1>f, <1>s, <1>t, ProcessBook DEF Decoded, Known
<1>n. m_state = "PrePollListening" /\ Known(book, exchange) => Noted(book, exchange)
  BY <1>f, PrePollIsFrame DEF Known, StashDrained
<1>u. ASSUME UNCHANGED book, ~ PrePollReceived PROVE Known(book', exchange)
  BY <1>u
<1>1. CASE BackToListening
  <2>1. Decoded(book')
    BY <1>1, <1>f, BackToListeningDoes
  <2>2. CASE Known(book, exchange)
    BY <1>d, <2>1, <2>2
  <2>3. CASE PrePollReceived /\ ~ Known(book, exchange)
    <3>1. /\ m_state = "PrePollListening" /\ radio.event.kind = "RxSuccess"
          /\ Heard = PrePollFrame(exchange)
      BY <2>3 DEF PrePollReceived, Received, Heard
    <3>2. AcceptsPrePoll(setup, book, Heard)
      BY <1>f, <1>s, <2>3, <3>1, AcceptsOwn DEF Known
    <3>3. Heard.msg # "Unreadable"
      BY <3>1, PrePollFields
    <3> QED BY <1>1, <3>1, <3>2, <3>3
            DEF BackToListening, UnreadablePrePoll, BootstrapRejected, PollRejected,
                PollWithoutKeys, FinalDataRejected, FinalDataWithoutResult, LegTimeout, OnRxError,
                OnTxComplete, PollReceived, FinalDataResult, HandledIn, Reports
  <2> QED BY <2>2, <2>3
<1>2. CASE OnFinal
  <2>1. Decoded(book') /\ m_state # "PrePollListening"
    BY <1>2 DEF OnFinal, Decoded, HandledIn
  <2> QED BY <1>d, <2>1 DEF PrePollReceived
<1>3. CASE WarmPrePoll
  <2>1. /\ book' = [book EXCEPT !.stashFrame = Heard, !.warmValid = HeaderOk(setup, book, Heard)]
        /\ m_state = "PrePollListening"
    BY <1>3 DEF WarmPrePoll, HandledIn
  <2>2. book'.stashFrame = Heard /\ SameMarks(book', book)
    BY <1>t, <2>1 DEF Book, SameMarks
  <2> QED BY <1>n, <2>1, <2>2, MarksMatter DEF Known, PrePollReceived, Heard
<1>4. CASE BootstrapOtherParity \/ BootstrapPrePoll
  <2>1. Heard = PrePollFrame(exchange) /\ SameMarks(book', NotePrePoll(book, Heard))
    BY <1>4, <1>f, OrderlyBootstrap
  <2> QED BY <1>t, <2>1, NotesPrePoll, MarksMatter DEF Known
<1>5. CASE PollReceived /\ UNCHANGED book
  BY <1>5, <1>u DEF PollReceived, HandledIn, PrePollReceived
<1>6. CASE OnTxComplete /\ cycle.keysValid
  BY <1>6, <1>u DEF OnTxComplete, HandledIn, PrePollReceived
<1>7. CASE ListenTimeout
  BY <1>7, <1>u DEF ListenTimeout, HandledIn, Reports, PrePollReceived, Received
<1>8. CASE IgnoreEvent
  <2>1. PICK kind \in EventKind : \E state \in IgnoredIn(kind) : HandledIn(state, kind)
    BY <1>8 DEF IgnoreEvent
  <2>2. m_state \in IgnoredIn(kind) /\ radio.event.kind = kind
    BY <2>1 DEF HandledIn, Reports
  <2>3. ~ PrePollReceived
    BY <2>2 DEF PrePollReceived, Received, IgnoredIn, Receiving
  <2> QED BY <1>8, <1>u, <2>3 DEF IgnoreEvent
<1>9. CASE DropEvent
  BY <1>9 DEF DropEvent, Drops, Running
<1> QED BY <1>1, <1>2, <1>3, <1>4, <1>5, <1>6, <1>7, <1>8, <1>9 DEF HandlerStep

LEMMA SameKnown ==
    ASSUME SameExchange, NEW b
    PROVE  /\ Known(b, exchange') <=> Known(b, exchange)
           /\ Noted(b, exchange') <=> Noted(b, exchange)
           /\ PeerPollStsIndex(exchange') = PeerPollStsIndex(exchange)
<1>1. PeerPollStsIndex(exchange') = PeerPollStsIndex(exchange)
  BY DEF SameExchange, PeerPollStsIndex
<1> QED BY <1>1, SameKeys DEF Known, Noted, SameExchange

\* The marks of the book lie before the next exchange.
LEMMA MarksBefore ==
    ASSUME PeerOK, PeerBook
    PROVE  book.lastPrePollCounter <= exchange.number
<1>1. exchange \in PeerIn(Phases) /\ exchange.number \in Nat
  BY PeerTypes DEF PeerOK
<1>2. CASE book.lastPrePollCounter = None
  BY <1>1, <1>2 DEF None
<1>3. ASSUME NEW y \in PeerIn(Phases), Earlier(y, exchange), Noted(book, y)
      PROVE  book.lastPrePollCounter <= exchange.number
  BY <1>1, <1>3, PeerTypes DEF Earlier, Noted
<1> QED BY <1>2, <1>3 DEF PeerBook, BookOfPeer

LEMMA PrePollArrives ==
    ASSUME Orderly, OrderlyInv, Knowing, SendPrePoll, Running, ~ disturbed'
    PROVE  PrePollReceived' /\ ~ disturbed
<1>f. /\ TypeOK /\ PeerOK /\ PeerBook /\ PeerCounts /\ exchange.number \in Nat
      /\ exchange \in PeerIn(Phases)
  BY OrderlyFacts
<1>1. exchange.phase = "Gap" /\ Quiet /\ AirPlain(PrePollFrame(exchange'))
  BY DEF SendPrePoll
<1>2. /\ exchange' \in PeerIn(Phases) /\ exchange'.number = exchange.number + 1
      /\ exchange'.number \in Stamps
  <2>1. exchange' \in PeerIn(Phases) /\ exchange'.number = exchange.number + 1
    BY <1>f, PrePollsGoOn
  <2> QED BY <2>1, PeerAssumption DEF PeerIn
<1>3. PrePollFrame(exchange') \in Frames
  BY <1>2, PrePollIsFrame
<1>4. ~ disturbed
  <2>1. disturbed' \in {TRUE, disturbed}
    BY <1>1, AirDisturbs
  <2>2. disturbed \in BOOLEAN
    BY <1>f DEF PeerCounts
  <2> QED BY <2>1, <2>2, Zenon
<1>5. m_state = "PrePollListening"
  BY <1>1, <1>4 DEF Knowing
<1>6. ReceiverFor("Off")
  BY <1>1, <1>5, QuietReceives
<1>7. Received' /\ radio'.event.frame = PrePollFrame(exchange')
  BY <1>1, <1>2, <1>3, <1>6, <1>f, PlainArrives
<1>8. UNCHANGED <<m_state, book>>
  <2>1. AirStep
    BY DEF AirStep
  <2> QED BY <1>f, <2>1, AirKeeps
<1>9. book'.lastPrePollCounter < exchange'.number
  <2>1. book.lastPrePollCounter <= exchange.number /\ book.lastPrePollCounter \in Int
    BY <1>f, MarksBefore DEF TypeOK, Book, None
  <2> QED BY <1>2, <1>8, <1>f, <2>1
<1> QED BY <1>4, <1>5, <1>7, <1>8, <1>9 DEF PrePollReceived

LEMMA KnowingAir ==
    ASSUME Orderly, OrderlyInv, Knowing, AirStep
    PROVE  Knowing'
<1> SUFFICES ASSUME Running', ~ disturbed'
             PROVE  /\ exchange'.phase = "Gap" =>
                         /\ m_state' = "PrePollListening" /\ ~ Received'
                         /\ clean' >= 1 => Known(book', exchange')
                    /\ exchange'.phase = "PrePoll" =>
                         PrePollReceived' \/ Known(book', exchange')
                    /\ exchange'.phase \in Answered => Known(book', exchange')
  BY DEF Knowing
<1>f. /\ TypeOK /\ PeerOK /\ PeerBook /\ PeerCounts /\ CycleOfExchange /\ DeafInv
      /\ exchange \in PeerIn(Phases) /\ exchange.number \in Nat
      /\ radio \in Radio /\ disturbed \in BOOLEAN /\ clean \in 0 .. 2
  BY OrderlyFacts DEF TypeOK, PeerCounts
<1>k. UNCHANGED <<m_state, book>> /\ radio'.listener = radio.listener
  BY <1>f, AirKeeps
<1>r. Running
  BY <1>k DEF Running
<1>1. CASE SendPrePoll
  <2>1. exchange'.phase = "PrePoll"
    BY <1>1, <1>f, PrePollsGoOn
  <2>2. PrePollReceived'
    BY <1>1, <1>r, PrePollArrives
  <2> QED BY <2>1, <2>2 DEF Answered
<1>2. CASE EndExchange
  <2>1. /\ exchange'.phase = "Gap" /\ exchange.phase = "FinalData" /\ Quiet /\ UNCHANGED radio
        /\ m_state \notin Active \ {"PrePollListening"} /\ SameExchange
    BY <1>2, <1>f, PeerMoves DEF EndExchange, PeerIn, vars, SendPrePoll
  <2>2. m_state' = "PrePollListening" /\ ~ Received'
    BY <1>k, <1>r, <2>1 DEF Running, Quiet, Received
  <2>3. clean' >= 1 => ~ disturbed
    BY <1>2, <1>f DEF EndExchange
  <2>4. clean' >= 1 => Known(book', exchange')
    BY <1>k, <1>r, <2>1, <2>3, SameKnown DEF Knowing, Answered
  <2> QED BY <2>1, <2>2, <2>4 DEF Answered
<1>3. CASE SendPoll \/ SendFinal \/ SendFinalData
  <2>1. /\ Quiet /\ exchange.phase \in {"PrePoll"} \cup Answered
        /\ exchange'.phase \in Answered /\ SameExchange
    BY <1>3, <1>f, PeerMoves DEF SendPoll, SendFinal, SendFinalData, PeerIn, Answered, SendPrePoll
  <2>2. ~ disturbed
    <3>1. disturbed' \in {TRUE, disturbed}
      BY <1>3, AirDisturbs DEF SendPoll, SendFinal, SendFinalData
    <3> QED BY <1>f, <3>1, Zenon
  <2>3. ~ PrePollReceived
    BY <2>1 DEF Quiet, PrePollReceived, Received
  <2>4. Known(book, exchange)
    BY <1>r, <2>1, <2>2, <2>3 DEF Knowing
  <2> QED BY <1>k, <2>1, <2>4, SameKnown DEF Answered
<1>4. CASE ResponseSent
  <2>1. SameExchange /\ CanLatch(radio, "TxDone") /\ ~ disturbed
    <3>1. disturbed' \in {TRUE, disturbed}
      BY <1>4 DEF ResponseSent, Disturbance, NoDisturbance
    <3>2. ~ disturbed
      BY <1>f, <3>1, Zenon
    <3>3. exchange' = [exchange EXCEPT !.heard = TRUE] \/ UNCHANGED exchange
      BY <1>4 DEF ResponseSent
    <3>4. SameExchange
      BY <1>f, <3>3 DEF SameExchange, PeerIn
    <3> QED BY <1>4, <3>2, <3>4 DEF ResponseSent, Ends, LatchEvent
  <2>2. m_state = "TransmittingResponse"
    BY <1>f, <1>r, <2>1 DEF CanLatch, DeafInv, Running
  <2>3. exchange.phase \in Answered /\ exchange'.phase = exchange.phase
    BY <1>4, <1>f, <2>2 DEF CycleOfExchange, ResponseSent, PeerIn
  <2>4. Known(book, exchange)
    BY <1>r, <2>1, <2>3 DEF Knowing
  <2> QED BY <1>k, <2>1, <2>3, <2>4, SameKnown DEF Answered
<1>5. CASE WindowCloses
  <2>1. UNCHANGED <<exchange, disturbed, clean>> /\ Ends("RxTimeout", exchange.number)
    BY <1>5 DEF WindowCloses, exchangeVars
  <2>2. radio.event = NoEvent /\ radio'.event.kind = "RxTimeout"
    BY <1>f, <2>1 DEF Ends, LatchEvent, CanLatch, Latch, Radio
  <2>3. ~ Received' /\ ~ PrePollReceived
    BY <2>2 DEF Received, PrePollReceived
  <2> QED BY <1>k, <1>r, <2>1, <2>3 DEF Knowing
<1>6. CASE HearForeign
  BY <1>6 DEF HearForeign, Disturbance
<1> QED BY <1>1, <1>2, <1>3, <1>4, <1>5, <1>6 DEF AirStep

LEMMA KnowingHandler ==
    ASSUME Orderly, OrderlyInv, Knowing, HandlerStep, UNCHANGED exchangeVars
    PROVE  Knowing'
<1> SUFFICES ASSUME Running', ~ disturbed'
             PROVE  /\ exchange'.phase = "Gap" =>
                         /\ m_state' = "PrePollListening" /\ ~ Received'
                         /\ clean' >= 1 => Known(book', exchange')
                    /\ exchange'.phase = "PrePoll" =>
                         PrePollReceived' \/ Known(book', exchange')
                    /\ exchange'.phase \in Answered => Known(book', exchange')
  BY DEF Knowing
<1>f. /\ TypeOK /\ PeerOK /\ PeerCounts /\ exchange \in PeerIn(Phases) /\ exchange.number \in Nat
      /\ clean \in 0 .. 2
  BY OrderlyFacts DEF PeerCounts
<1>u. UNCHANGED <<exchange, disturbed, clean>>
  BY DEF exchangeVars
<1>r. Running
  BY <1>f, RunningBefore
<1>1. Received' = FALSE
  BY <1>f, HandlerDoes DEF Received
<1>2. CASE exchange.phase = "Gap"
  <2>1. m_state = "PrePollListening" /\ ~ Received
    BY <1>2, <1>r, <1>u DEF Knowing
  <2>2. m_state' = "PrePollListening"
    <3>1. ASSUME NEW state, HandledIn(state, "RxSuccess") PROVE FALSE
      BY <2>1, <3>1 DEF HandledIn, Reports, Received
    <3>2. BackToListening => m_state' = "PrePollListening"
      BY <1>f, BackToListeningDoes
    <3>3. ~ (WarmPrePoll \/ BootstrapOtherParity \/ BootstrapPrePoll \/ PollReceived \/ OnFinal)
      BY <3>1 DEF WarmPrePoll, BootstrapOtherParity, BootstrapPrePoll, BootstrapFrame,
                  PollReceived, OnFinal
    <3>4. ~ OnTxComplete
      BY <2>1 DEF OnTxComplete, HandledIn
    <3>5. ListenTimeout \/ IgnoreEvent \/ DropEvent => m_state' = m_state
      BY DEF ListenTimeout, IgnoreEvent, DropEvent
    <3> QED BY <2>1, <3>2, <3>3, <3>4, <3>5 DEF HandlerStep
  <2>3. clean >= 1 => Known(book', exchange)
    <3>1. SUFFICES ASSUME clean >= 1 PROVE Known(book', exchange)
      OBVIOUS
    <3>2. Known(book, exchange)
      BY <1>2, <1>r, <1>u, <3>1 DEF Knowing
    <3>3. exchange.number >= 1
      BY <1>f, <3>1 DEF PeerCounts
    <3> QED BY <1>r, <3>2, <3>3, HandlerKnown
  <2> QED BY <1>1, <1>2, <1>u, <2>2, <2>3 DEF Answered
<1>3. CASE exchange.phase # "Gap"
  <2>1. exchange.phase \in {"PrePoll"} \cup Answered /\ exchange.number >= 1
    BY <1>3, <1>f DEF PeerIn, Phases, Answered, PeerCounts
  <2>2. PrePollReceived \/ Known(book, exchange)
    BY <1>r, <1>u, <2>1 DEF Knowing
  <2>3. Known(book', exchange)
    BY <1>r, <2>1, <2>2, HandlerKnown
  <2> QED BY <1>3, <1>u, <2>3
<1> QED BY <1>2, <1>3

LEMMA KnowingStep ==
    ASSUME Orderly, OrderlyInv, Knowing, [ExchangeNext]_allVars
    PROVE  Knowing'
<1>1. PeerControl /\ disturbed' = TRUE => Knowing'
  BY DEF Knowing
<1>2. UNCHANGED <<vars, exchangeVars>> => Knowing'
  BY DEF Knowing, vars, exchangeVars, Running, Received, PrePollReceived
<1> QED BY <1>1, <1>2, KnowingAir, KnowingHandler, OrderlyCases

-----------------------------------------------------------------------------
(***************************************************************************)
(* After an undisturbed exchange the session is in step with the initiator *)
(* all the way to its result.                                              *)
(***************************************************************************)
Listening == radio.event = NoEvent /\ radio.mode = "Rx"

SecuredReceived == Received /\ radio.event.stsPassed = TRUE

\* What Recovers says of the result, of the exchange the initiator is in.
ResultRight ==
    /\ result # NoResult
    /\ result.stamps = [leg \in 1 .. 4 |-> exchange.number]
    /\ result.stsPassed
    /\ result.blockIndex = AnnouncedBlock(exchange.blockNumber)
    /\ result.roundInBlock = RoundInBlock(exchange)

HasResult == m_state \in {"PrePollListening", "AwaitingPoll"} /\ ResultRight

\* Where the session is in each phase: what it waits for, or its handler does.
InPrePoll ==
    \/ /\ PrePollReceived
       /\ book.warmValid => book.warm.pollStsIndex = PeerPollStsIndex(exchange)
    \/ m_state = "AwaitingPoll" /\ Armed /\ Listening

InPoll ==
    \/ m_state = "AwaitingPoll" /\ Armed /\ SecuredReceived
    \/ m_state = "TransmittingResponse" /\ Armed /\ radio.event = NoEvent
    \/ /\ m_state = "TransmittingResponse" /\ Armed /\ exchange.heard = TRUE
       /\ radio.event # NoEvent /\ radio.event.kind = "TxDone"
    \/ m_state = "AwaitingFinal" /\ Armed /\ exchange.heard = TRUE /\ Listening

InFinal ==
    /\ Armed /\ exchange.heard = TRUE
    /\ \/ m_state = "AwaitingFinal" /\ SecuredReceived
       \/ m_state = "AwaitingFinalData" /\ cycle.finalStsPassed = TRUE /\ Listening

FinalDataReceived ==
    /\ m_state = "AwaitingFinalData" /\ Armed /\ cycle.finalStsPassed = TRUE
    /\ exchange.heard = TRUE /\ Received /\ radio.event.frame = FinalDataFrame(exchange)
    /\ m_lastFinalDataCounter < exchange.number

InStep ==
    /\ exchange.phase = "PrePoll" => InPrePoll
    /\ exchange.phase = "Poll" => InPoll
    /\ exchange.phase = "Final" => InFinal
    /\ exchange.phase = "FinalData" => FinalDataReceived \/ HasResult

Recovering == Running /\ ~ disturbed /\ clean >= 1 => InStep

Recovered == Running /\ exchange.phase = "Gap" /\ clean = 2 => HasResult

\* A result stays until the next exchange has one.
LEMMA HasResultKept ==
    ASSUME OrderlyInv, HandlerStep, UNCHANGED exchange, [ExchangeNext]_allVars,
           exchange.phase \in {"FinalData", "Gap"}, HasResult
    PROVE  HasResult'
<1>f. /\ TypeOK /\ PeerOK /\ SetUpForPeer /\ EventOfExchange /\ ScheduledKeys /\ SecuredInv
  BY OrderlyFacts
<1>m. m_state \in {"PrePollListening", "AwaitingPoll"}
  BY DEF HasResult
<1>1. UNCHANGED result
  <2>1. ~ FinalDataResult
    BY <1>m DEF FinalDataResult, HandledIn
  <2> QED BY <1>f, <2>1, ResultKept
<1>2. m_state' \in {"PrePollListening", "AwaitingPoll"}
  <2>1. BackToListening => m_state' = "PrePollListening"
    BY <1>f, BackToListeningDoes
  <2>2. WarmPrePoll \/ BootstrapOtherParity \/ BootstrapPrePoll =>
          m_state' \in {"PrePollListening", "AwaitingPoll"}
    BY <1>f, BootstrapArms DEF WarmPrePoll, BootstrapOtherParity, ArmPrePollListening
  <2>3. ~ PollReceived
    <3>1. SUFFICES ASSUME PollReceived PROVE FALSE
      OBVIOUS
    <3>2. HandledIn("AwaitingPoll", "RxSuccess") /\ radio.event.stsPassed /\ cycle.keysValid
      BY <3>1 DEF PollReceived
    <3>3. exchange.phase = "Poll"
      BY <1>f, <3>2, PollIsOwn
    <3> QED BY <3>3
  <2>4. ~ OnTxComplete /\ ~ OnFinal
    BY <1>m DEF OnTxComplete, OnFinal, HandledIn
  <2>5. ListenTimeout \/ IgnoreEvent \/ DropEvent => m_state' = m_state
    BY DEF ListenTimeout, IgnoreEvent, DropEvent
  <2> QED BY <1>m, <2>1, <2>2, <2>3, <2>4, <2>5 DEF HandlerStep
<1> QED BY <1>1, <1>2 DEF HasResult, ResultRight

\* Warm keys of a session that knows the last exchange are those of the next.
LEMMA WarmForThePoll ==
    ASSUME Orderly, OrderlyInv, Knowing, SendPrePoll, Running, ~ disturbed, clean >= 1
    PROVE  book.warmValid => book.warm.pollStsIndex = PeerPollStsIndex(exchange')
<1>f. /\ PeerOK /\ SetUpForPeer /\ WarmInv /\ StashDrained /\ exchange \in PeerIn(Phases)
  BY OrderlyFacts
<1>1. exchange.phase = "Gap"
  BY DEF SendPrePoll
<1>2. m_state = "PrePollListening" /\ Known(book, exchange)
  BY <1>1 DEF Knowing
<1>3. Noted(book, exchange)
  BY <1>2, <1>f, PrePollIsFrame DEF StashDrained, Known
<1>4. /\ setup.materialValid /\ setup.params = exchange.params
      /\ setup.nodeConfig.blockParityFilter < 0
  BY <1>f DEF Running, SetUpForPeer, ForPeer, Orderly
<1>5. SUFFICES ASSUME book.warmValid
               PROVE  book.warm.pollStsIndex = PeerPollStsIndex(exchange')
  OBVIOUS
<1>6. /\ Schedulable(setup.params, book.currentBlock, book.currentRound)
      /\ book.warm.pollStsIndex = NextPollStsIndex(setup, book)
  BY <1>4, <1>5, <1>f DEF WarmInv, WarmOk, WarmForNext
<1>7. /\ book.currentBlock = AnnouncedBlock(exchange.blockNumber)
      /\ book.currentRound = exchange.round
  BY <1>3 DEF Noted
<1> QED BY <1>4, <1>6, <1>7, <1>f, PrePollsGoOn DEF NextPollStsIndex

LEMMA RecoveringAir ==
    ASSUME Orderly, OrderlyInv, Knowing, Recovering, AirStep
    PROVE  Recovering'
<1> SUFFICES ASSUME Running', ~ disturbed', clean' >= 1 PROVE InStep'
  BY DEF Recovering
<1>f. /\ TypeOK /\ PeerOK /\ PeerCounts /\ CycleOfExchange /\ DeafInv /\ FinalMark
      /\ exchange \in PeerIn(Phases) /\ exchange.number \in Stamps
      /\ radio \in Radio /\ disturbed \in BOOLEAN /\ clean \in 0 .. 2
  BY OrderlyFacts DEF TypeOK, PeerCounts
<1>k. /\ UNCHANGED <<m_state, book, cycle, m_lastFinalDataCounter, result>>
      /\ radio'.listener = radio.listener
  BY <1>f, AirKeeps
<1>r. Running
  BY <1>k DEF Running
<1>a. ASSUME SameExchange PROVE Armed' <=> Armed
  BY <1>a, <1>k, SameKnown DEF Armed
<1>1. CASE SendPrePoll
  <2>1. exchange'.phase = "PrePoll" /\ clean' = clean
    BY <1>1, <1>f, PrePollsGoOn DEF SendPrePoll
  <2>2. PrePollReceived' /\ ~ disturbed
    BY <1>1, <1>r, PrePollArrives
  <2>3. book'.warmValid => book'.warm.pollStsIndex = PeerPollStsIndex(exchange')
    BY <1>1, <1>k, <1>r, <2>1, <2>2, WarmForThePoll
  <2> QED BY <2>1, <2>2, <2>3 DEF InStep, InPrePoll
<1>2. CASE SendPoll
  <2>1. /\ exchange.phase = "PrePoll" /\ Quiet /\ AirSecured("poll") /\ clean' = clean
        /\ exchange'.phase = "Poll" /\ SameExchange
    BY <1>2, <1>f, PeerMoves DEF SendPoll, SendPrePoll, PeerIn
  <2>2. ~ disturbed
    <3>1. disturbed' \in {TRUE, disturbed}
      BY <2>1, AirDisturbs
    <3> QED BY <1>f, <3>1, Zenon
  <2>3. m_state = "AwaitingPoll" /\ Armed
    BY <1>r, <2>1, <2>2
    DEF Recovering, InStep, InPrePoll, PrePollReceived, Received, Quiet
  <2>4. ReceiverFor("NoDataSp3") /\ radio.sts = PeerLegKeys(exchange, "poll")
    BY <1>r, <2>1, <2>3, QuietReceives
  <2>5. SecuredReceived'
    BY <1>f, <2>1, <2>4, SecuredArrives DEF SecuredReceived
  <2> QED BY <1>a, <1>k, <2>1, <2>3, <2>5 DEF InStep, InPoll
<1>3. CASE ResponseSent
  <2>1. CanLatch(radio, "TxDone") /\ radio'.event # NoEvent /\ radio'.event.kind = "TxDone"
    <3>1. "TxDone" \in EventKind \ {"RxSuccess"} /\ Ends("TxDone", exchange.number)
      BY <1>3 DEF ResponseSent, EventKind
    <3>2. PICK event \in Event : LatchEvent(event) /\ event.kind = "TxDone"
      <4>1. EndLatched("TxDone", exchange.number)
        BY <1>f, <3>1, EndsEvent
      <4> QED BY <4>1, Zenon DEF EndLatched
    <3>3. radio'.event = event
      BY <1>f, <3>2 DEF LatchEvent, Latch, Radio
    <3> QED BY <3>2, <3>3, EventIsSomething DEF LatchEvent
  <2>2. m_state = "TransmittingResponse" /\ radio.mode = "Tx"
    BY <1>f, <1>r, <2>1 DEF CanLatch, DeafInv, Running
  <2>3. exchange.phase = "Poll" /\ radio.sts = PeerLegKeys(exchange, "response")
    BY <1>f, <2>2 DEF CycleOfExchange
  <2>4. exchange' = [exchange EXCEPT !.heard = TRUE] /\ NoDisturbance /\ clean' = clean
    BY <1>3, <2>3 DEF ResponseSent, Disturbance
  <2>5. exchange'.phase = "Poll" /\ exchange'.heard = TRUE /\ SameExchange /\ ~ disturbed
    BY <1>f, <2>3, <2>4 DEF PeerIn, SameExchange, NoDisturbance
  <2>6. Armed
    BY <1>r, <2>2, <2>3, <2>4, <2>5 DEF Recovering, InStep, InPoll
  <2> QED BY <1>a, <1>k, <2>1, <2>2, <2>5, <2>6 DEF InStep, InPoll
<1>4. CASE SendFinal
  <2>1. /\ exchange.phase = "Poll" /\ Quiet /\ AirSecured("final") /\ clean' = clean
        /\ exchange'.phase = "Final" /\ SameExchange /\ exchange'.heard = exchange.heard
    BY <1>4, <1>f, PeerMoves DEF SendFinal, SendPrePoll, PeerIn
  <2>2. ~ disturbed
    <3>1. disturbed' \in {TRUE, disturbed}
      BY <2>1, AirDisturbs
    <3> QED BY <1>f, <3>1, Zenon
  <2>3. m_state # "TransmittingResponse"
    BY <1>r, <2>1, QuietReceives
  <2>4. m_state = "AwaitingFinal" /\ Armed /\ exchange.heard = TRUE
    BY <1>r, <2>1, <2>2, <2>3
    DEF Recovering, InStep, InPoll, SecuredReceived, Received, Quiet
  <2>5. ReceiverFor("NoDataSp3") /\ radio.sts = PeerLegKeys(exchange, "final")
    BY <1>r, <2>1, <2>4, QuietReceives
  <2>6. SecuredReceived'
    BY <1>f, <2>1, <2>5, SecuredArrives DEF SecuredReceived
  <2> QED BY <1>a, <1>k, <2>1, <2>4, <2>6 DEF InStep, InFinal
<1>5. CASE SendFinalData
  <2>1. /\ exchange.phase = "Final" /\ Quiet /\ AirPlain(FinalDataFrame(exchange))
        /\ clean' = clean
        /\ exchange'.phase = "FinalData" /\ SameExchange /\ exchange'.heard = exchange.heard
    BY <1>5, <1>f, PeerMoves DEF SendFinalData, SendPrePoll, PeerIn
  <2>2. ~ disturbed
    <3>1. disturbed' \in {TRUE, disturbed}
      BY <2>1, AirDisturbs
    <3> QED BY <1>f, <3>1, Zenon
  <2>3. /\ m_state = "AwaitingFinalData" /\ Armed /\ exchange.heard = TRUE
        /\ cycle.finalStsPassed = TRUE
    BY <1>r, <2>1, <2>2 DEF Recovering, InStep, InFinal, SecuredReceived, Received, Quiet
  <2>4. ReceiverFor("Off")
    BY <1>r, <2>1, <2>3, QuietReceives
  <2>5. FinalDataFrame(exchange) \in Frames /\ exchange'.number \in Stamps
    BY <1>f, <2>1, PeerFrames DEF SameExchange
  <2>6. Received' /\ radio'.event.frame = FinalDataFrame(exchange)
    BY <1>f, <2>1, <2>4, <2>5, PlainArrives
  <2>7. FinalDataFrame(exchange') = FinalDataFrame(exchange)
    BY <2>1, SameKeys DEF FinalDataFrame, SameExchange, PeerPollStsIndex
  <2>8. m_lastFinalDataCounter < exchange.number
    BY <1>f, <2>1 DEF FinalMark
  <2>9. FinalDataReceived'
    BY <1>a, <1>k, <2>1, <2>3, <2>6, <2>7, <2>8 DEF FinalDataReceived, SameExchange
  <2> QED BY <2>1, <2>9 DEF InStep
<1>6. CASE EndExchange
  <2>1. exchange'.phase = "Gap"
    BY <1>6, <1>f DEF EndExchange, PeerIn
  <2> QED BY <2>1 DEF InStep
<1>7. CASE WindowCloses
  <2>1. /\ UNCHANGED <<exchange, disturbed, clean>> /\ WindowOver
        /\ Ends("RxTimeout", exchange.number)
    BY <1>7 DEF WindowCloses, exchangeVars
  <2>2. radio.event = NoEvent /\ radio.mode = "Rx"
    BY <2>1 DEF Ends, LatchEvent, CanLatch
  <2>3. InStep
    BY <1>r, <2>1 DEF Recovering
  <2>4. exchange.phase # "PrePoll"
    BY <2>1, <2>2, <2>3 DEF InStep, InPrePoll, PrePollReceived, Received, WindowOver
  <2>5. exchange.phase # "Poll"
    <3>1. m_state # "TransmittingResponse"
      BY <1>f, <1>r, <2>2 DEF DeafInv, Running
    <3> QED BY <2>1, <2>2, <2>3, <3>1 DEF InStep, InPoll, SecuredReceived, Received, WindowOver
  <2>6. exchange.phase # "Final"
    BY <2>1, <2>2, <2>3 DEF InStep, InFinal, SecuredReceived, Received, WindowOver
  <2>7. exchange.phase = "FinalData" => HasResult
    BY <2>2, <2>3 DEF InStep, FinalDataReceived, Received
  <2>8. HasResult => HasResult'
    BY <1>k, <2>1 DEF HasResult, ResultRight
  <2> QED BY <2>1, <2>4, <2>5, <2>6, <2>7, <2>8 DEF InStep
<1>8. CASE HearForeign
  BY <1>8 DEF HearForeign, Disturbance
<1> QED BY <1>1, <1>2, <1>3, <1>4, <1>5, <1>6, <1>7, <1>8 DEF AirStep

\* What is received goes to the handler of the state it is received in.
LEMMA ReceptionHandled ==
    ASSUME HandlerStep, Running, Received
    PROVE  /\ m_state = "PrePollListening" => OnPrePoll
           /\ m_state = "AwaitingPoll" => OnPoll
           /\ m_state = "AwaitingFinal" => OnFinal
           /\ m_state = "AwaitingFinalData" => OnFinalData
<1>1. ASSUME NEW state, NEW kind, HandledIn(state, kind)
      PROVE  m_state = state /\ kind = "RxSuccess"
  BY <1>1 DEF HandledIn, Reports, Received
<1>2. /\ ~ LegTimeout /\ ~ OnRxError /\ ~ ListenTimeout
      /\ OnTxComplete => m_state = "TransmittingResponse" /\ FALSE
  BY <1>1 DEF LegTimeout, OnRxError, ListenTimeout, OnTxComplete
<1>3. IgnoreEvent => m_state \notin Receiving
  <2>1. SUFFICES ASSUME IgnoreEvent PROVE m_state \notin Receiving
    OBVIOUS
  <2>2. PICK kind \in EventKind : \E state \in IgnoredIn(kind) : HandledIn(state, kind)
    BY <2>1 DEF IgnoreEvent
  <2>3. m_state \in IgnoredIn("RxSuccess")
    BY <1>1, <2>2
  <2> QED BY <2>3 DEF IgnoredIn
<1>4. ~ DropEvent
  BY DEF DropEvent, Drops, Running
<1>5. UnreadablePrePoll \/ BootstrapFrame \/ WarmPrePoll => m_state = "PrePollListening"
  BY <1>1 DEF UnreadablePrePoll, BootstrapFrame, WarmPrePoll
<1>6. PollRejected \/ PollWithoutKeys \/ PollReceived => m_state = "AwaitingPoll"
  BY <1>1 DEF PollRejected, PollWithoutKeys, PollReceived
<1>7. OnFinal => m_state = "AwaitingFinal"
  BY <1>1 DEF OnFinal
<1>8. FinalDataRejected \/ FinalDataWithoutResult \/ FinalDataResult =>
        m_state = "AwaitingFinalData"
  BY <1>1 DEF FinalDataRejected, FinalDataWithoutResult, FinalDataResult
<1>9. BootstrapRejected \/ BootstrapOtherParity \/ BootstrapPrePoll => BootstrapFrame
  BY DEF BootstrapRejected, BootstrapOtherParity, BootstrapPrePoll
<1> QED BY <1>2, <1>3, <1>4, <1>5, <1>6, <1>7, <1>8, <1>9
        DEF HandlerStep, BackToListening, OnPrePoll, OnPoll, OnFinalData, Receiving

\* The Pre-Poll arms the keys of the current exchange, warm or not.
LEMMA HandlesPrePoll ==
    ASSUME Orderly, OrderlyInv, Running, HandlerStep, UNCHANGED exchange,
           exchange.phase = "PrePoll", InPrePoll
    PROVE  InPrePoll'
<1>f. /\ TypeOK /\ PeerOK /\ SetUpForPeer /\ EventOfExchange /\ PeerBook /\ PeerCounts
      /\ exchange.number \in Nat
  BY OrderlyFacts
<1>t. radio \in Radio /\ book \in Book /\ setup \in Setup /\ cycle \in Cycle
  BY <1>f DEF TypeOK
<1>1. /\ PrePollReceived
      /\ book.warmValid => book.warm.pollStsIndex = PeerPollStsIndex(exchange)
  BY HandlersHaveAnEvent DEF InPrePoll, Listening
<1>2. /\ m_state = "PrePollListening" /\ Received /\ Heard = PrePollFrame(exchange)
      /\ book.lastPrePollCounter < exchange.number
  BY <1>1 DEF PrePollReceived, Heard
<1>3. OnPrePoll
  BY <1>2, ReceptionHandled
<1>4. radio'.event = NoEvent
  BY <1>f, HandlerDoes
<1>5. SUFFICES /\ m_state' = "AwaitingPoll" /\ radio'.mode = "Rx" /\ cycle'.keysValid = TRUE
               /\ cycle'.pollStsIndex = PeerPollStsIndex(exchange)
  BY <1>4 DEF InPrePoll, Armed, Listening, PeerPollStsIndex
<1>6. ~ UnreadablePrePoll
  BY <1>2, PrePollFields DEF UnreadablePrePoll
<1>7. ~ BootstrapRejected
  <2>1. ForPeer(setup) /\ BookOfPeer(book, exchange) /\ exchange.number >= 1
    BY <1>f DEF Running, SetUpForPeer, PeerBook, PeerCounts
  <2>2. ~ Noted(book, exchange)
    BY <1>2, <1>f DEF Noted
  <2>3. AcceptsPrePoll(setup, book, Heard)
    BY <1>2, <1>f, <2>1, <2>2, AcceptsOwn
  <2> QED BY <2>3 DEF BootstrapRejected
<1>8. CASE WarmPrePoll
  <2>1. /\ book.warmValid /\ m_state' = "AwaitingPoll"
        /\ cycle' = [cycle EXCEPT !.keysValid = TRUE, !.keys = book.warm,
                                  !.pollStsIndex = book.warm.pollStsIndex]
        /\ ReceiveLeg(WithLegKeys(Reported(radio), book.warm, "poll"))
    BY <1>8 DEF WarmPrePoll
  <2>2. Reported(radio) \in Radio /\ book.warm \in CycleKeys /\ "poll" \in Legs
    BY <1>t, RadioCallTypes DEF Book, Legs
  <2> DEFINE loaded == WithLegKeys(Reported(radio), book.warm, "poll")
  <2>3. loaded \in Radio
    BY <2>2, WithLegKeysType
  <2>4. ReceiveLeg(loaded)
    BY <2>1
  <2> HIDE DEF loaded
  <2>5. radio'.mode = "Rx"
    BY <2>3, <2>4, ReceiveLegType DEF Orderly
  <2>6. cycle'.keysValid = TRUE /\ cycle'.pollStsIndex = book.warm.pollStsIndex
    BY <1>t, <2>1 DEF Cycle
  <2> QED BY <1>1, <2>1, <2>5, <2>6
<1>9. CASE BootstrapOtherParity \/ BootstrapPrePoll
  BY <1>9, <1>f, OrderlyBootstrap
<1> QED BY <1>3, <1>6, <1>7, <1>8, <1>9 DEF OnPrePoll

\* The Poll is answered, and after the Response the Final is waited for.
LEMMA HandlesPoll ==
    ASSUME Orderly, OrderlyInv, Running, HandlerStep, UNCHANGED exchange,
           exchange.phase = "Poll", InPoll
    PROVE  InPoll'
<1>f. TypeOK /\ SetUpForPeer
  BY OrderlyFacts
<1>t. radio \in Radio /\ cycle \in Cycle /\ cycle.keys \in CycleKeys /\ "final" \in Legs
      /\ Reported(radio) \in Radio
  BY <1>f, RadioCallTypes DEF TypeOK, Cycle, Legs
<1>e. radio.event # NoEvent
  BY HandlersHaveAnEvent
<1>4. radio'.event = NoEvent
  BY <1>f, HandlerDoes
<1>1. CASE m_state = "AwaitingPoll" /\ Armed /\ SecuredReceived
  <2>1. OnPoll
    BY <1>1, ReceptionHandled DEF SecuredReceived
  <2>2. PollReceived
    BY <1>1, <2>1 DEF OnPoll, PollRejected, PollWithoutKeys, SecuredReceived, Armed
  <2>3. /\ cycle' = [cycle EXCEPT !.pollRx = radio.event.stamp]
        /\ m_state' = "TransmittingResponse"
    BY <2>2 DEF PollReceived, Outcomes, Orderly
  <2>4. cycle'.keysValid = cycle.keysValid /\ cycle'.pollStsIndex = cycle.pollStsIndex
    BY <1>t, <2>3 DEF Cycle
  <2>5. Armed'
    BY <1>1, <2>4 DEF Armed, PeerPollStsIndex
  <2> QED BY <1>4, <2>3, <2>5 DEF InPoll
<1>2. CASE /\ m_state = "TransmittingResponse" /\ Armed /\ exchange.heard = TRUE
           /\ radio.event # NoEvent /\ radio.event.kind = "TxDone"
  <2>1. OnTxComplete /\ cycle.keysValid
    <3>1. ASSUME NEW state, NEW kind, HandledIn(state, kind)
          PROVE  state = "TransmittingResponse" /\ kind = "TxDone"
      BY <1>2, <3>1 DEF HandledIn, Reports
    <3>2. ~ BackToListening
      <4>1. cycle.keysValid
        BY <1>2 DEF Armed
      <4>2. ~ (UnreadablePrePoll \/ BootstrapRejected \/ PollRejected \/ PollWithoutKeys
               \/ PollReceived)
        BY <3>1 DEF UnreadablePrePoll, BootstrapRejected, BootstrapFrame, PollRejected,
                    PollWithoutKeys, PollReceived
      <4>3. ~ (FinalDataRejected \/ FinalDataWithoutResult \/ FinalDataResult)
        BY <3>1 DEF FinalDataRejected, FinalDataWithoutResult, FinalDataResult
      <4>4. ~ LegTimeout /\ ~ OnRxError
        BY <3>1 DEF LegTimeout, OnRxError
      <4> QED BY <4>1, <4>2, <4>3, <4>4 DEF BackToListening
    <3>3. ~ (WarmPrePoll \/ BootstrapOtherParity \/ BootstrapPrePoll \/ PollReceived \/ OnFinal
             \/ ListenTimeout)
      BY <3>1 DEF WarmPrePoll, BootstrapOtherParity, BootstrapPrePoll, BootstrapFrame,
                  PollReceived, OnFinal, ListenTimeout
    <3>4. ~ IgnoreEvent
      <4>1. SUFFICES ASSUME NEW kind \in EventKind, NEW state \in IgnoredIn(kind),
                            HandledIn(state, kind)
                     PROVE  FALSE
        BY DEF IgnoreEvent
      <4>2. state = "TransmittingResponse" /\ kind = "TxDone"
        BY <3>1, <4>1
      <4>3. state \in IgnoredIn(kind)
        BY <4>1
      <4> QED BY <4>2, <4>3 DEF IgnoredIn
    <3>5. ~ DropEvent
      BY DEF DropEvent, Drops, Running
    <3> QED BY <3>2, <3>3, <3>4, <3>5 DEF HandlerStep
  <2>2. /\ cycle' = [cycle EXCEPT !.respTx = radio.event.stamp]
        /\ ReceiveLeg(WithLegKeys(Reported(radio), cycle.keys, "final"))
        /\ m_state' = "AwaitingFinal"
    BY <2>1 DEF OnTxComplete
  <2> DEFINE loaded == WithLegKeys(Reported(radio), cycle.keys, "final")
  <2>3. loaded \in Radio
    BY <1>t, WithLegKeysType
  <2>4. ReceiveLeg(loaded)
    BY <2>2
  <2> HIDE DEF loaded
  <2>5. radio'.mode = "Rx"
    BY <2>3, <2>4, ReceiveLegType DEF Orderly
  <2>6. cycle'.keysValid = cycle.keysValid /\ cycle'.pollStsIndex = cycle.pollStsIndex
    BY <1>t, <2>2 DEF Cycle
  <2>7. Armed'
    BY <1>2, <2>6 DEF Armed, PeerPollStsIndex
  <2> QED BY <1>2, <1>4, <2>2, <2>5, <2>7 DEF InPoll, Listening
<1> QED BY <1>1, <1>2, <1>e DEF InPoll, Listening

\* The Final's STS is noted and the Final_Data waited for.
LEMMA HandlesFinal ==
    ASSUME Orderly, OrderlyInv, Running, HandlerStep, UNCHANGED exchange,
           exchange.phase = "Final", InFinal
    PROVE  InFinal'
<1>f. TypeOK
  BY OrderlyFacts
<1>t. radio \in Radio /\ cycle \in Cycle
  BY <1>f DEF TypeOK
<1>1. m_state = "AwaitingFinal" /\ SecuredReceived /\ Armed /\ exchange.heard = TRUE
  BY HandlersHaveAnEvent DEF InFinal, Listening
<1>2. OnFinal
  BY <1>1, ReceptionHandled DEF SecuredReceived
<1> DEFINE off == ConfigureStsMode(ForceReceiverOff(Reported(radio)), "Off")
<1>3. /\ cycle' = [cycle EXCEPT !.finalRx = radio.event.stamp,
                                !.finalStsPassed = radio.event.stsPassed]
      /\ ReceiveLeg(off) /\ m_state' = "AwaitingFinalData"
  BY <1>2 DEF OnFinal
<1>4. off \in Radio
  BY <1>t, RadioCallTypes
<1> HIDE DEF off
<1>5. radio'.mode = "Rx"
  BY <1>3, <1>4, ReceiveLegType DEF Orderly
<1>6. radio'.event = NoEvent
  BY <1>f, HandlerDoes
<1>7. /\ cycle'.keysValid = cycle.keysValid /\ cycle'.pollStsIndex = cycle.pollStsIndex
      /\ cycle'.finalStsPassed = radio.event.stsPassed
  BY <1>3, <1>t DEF Cycle
<1>8. Armed' /\ cycle'.finalStsPassed = TRUE
  BY <1>1, <1>7 DEF Armed, PeerPollStsIndex, SecuredReceived
<1> QED BY <1>1, <1>3, <1>5, <1>6, <1>8 DEF InFinal, Listening

\* The Final_Data of an exchange the session followed gives its result.
LEMMA HandlesFinalData ==
    ASSUME Orderly, OrderlyInv, Running, HandlerStep, UNCHANGED exchange,
           exchange.phase = "FinalData", FinalDataReceived, Known(book, exchange)
    PROVE  HasResult'
<1> DEFINE p == exchange.params
           poll == PeerPollStsIndex(exchange)
<1>f. /\ TypeOK /\ PeerOK /\ SetUpForPeer /\ EventOfExchange /\ CycleOfExchange /\ StashDrained
      /\ exchange \in PeerIn(Phases)
  BY OrderlyFacts
<1>1. /\ m_state = "AwaitingFinalData" /\ Received /\ Heard = FinalDataFrame(exchange)
      /\ cycle.pollStsIndex = poll /\ cycle.finalStsPassed = TRUE /\ exchange.heard = TRUE
      /\ m_lastFinalDataCounter < exchange.number
  BY DEF FinalDataReceived, Armed, Heard
<1>2. /\ setup.params = p /\ setup.nodeConfig = Node /\ setup.addresses = PeerAddresses(p)
      /\ setup.mursk = DeriveMursk(PeerUrsk) /\ setup.saltedHash = DeriveSaltedHash(PeerUrsk, p)
  BY <1>f DEF Running, SetUpForPeer, ForPeer
<1>3. p \in PeerParamsSet /\ p.slotsPerRound # 0 /\ exchange.number \in Nat
  BY <1>f, PeerTypes, SetUps
<1>4. /\ Heard.msg = "FinalData" /\ Heard.counter = exchange.number
      /\ Heard.intact = TRUE /\ Heard.addr = PeerAddresses(p)
      /\ Heard.key = DudskKey(PeerLegKeys(exchange, "poll"))
      /\ Heard.sessionId = p.sessionId /\ Heard.stamp = exchange.number
      /\ Heard.sts = LegStsIndex(p, Node.responderIndex, poll, "final")
      /\ Node.responderIndex \in Heard.reports
  BY <1>1 DEF FinalDataFrame, PrePollFrame
<1>5. LegStsIndex(p, Node.responderIndex, poll, "poll") = poll
  <2>1. poll \in StsIndex
    BY <1>1, <1>f DEF TypeOK, Cycle
  <2> HIDE DEF poll
  <2> QED BY <2>1, WidthAssumption DEF LegStsIndex, LegOffset, StsIndex
<1>6. PeerLegKeys(exchange, "poll") =
          DeriveSlotKeys(setup.mursk, setup.saltedHash, cycle.pollStsIndex, setup.params)
  BY <1>1, <1>2, <1>5 DEF PeerLegKeys, LegKeys, PeerSetup
<1>7. AcceptsFinalData(Heard)
  BY <1>1, <1>2, <1>3, <1>4, <1>6 DEF AcceptsFinalData, Decrypts, FinalDataKey
<1>8. ReportsExchange(Heard)
  BY <1>1, <1>2, <1>4 DEF ReportsExchange
<1>9. FinalDataResult
  <2>1. OnFinalData
    BY <1>1, ReceptionHandled
  <2> QED BY <1>7, <1>8, <2>1 DEF OnFinalData, FinalDataRejected, FinalDataWithoutResult, Orderly
<1>10. m_state' = "PrePollListening"
  BY <1>9, <1>f, BackToListeningDoes DEF BackToListening
<1>11. result' = RangingResultOf(Heard)
  BY <1>9 DEF FinalDataResult
<1>12. result' # NoResult
  <2>1. result' \in RangingResult
    BY <1>7, <1>9, <1>11, <1>f, HandledEvent, ResultType DEF FinalDataResult
  <2> QED BY <2>1, ResultAssumption
<1>13. /\ cycle.pollRx = exchange.number /\ cycle.respTx = exchange.number
       /\ cycle.finalRx = exchange.number
  BY <1>1, <1>f DEF CycleOfExchange
<1>14. result'.stamps = <<cycle.pollRx, cycle.respTx, cycle.finalRx, Heard.stamp>>
  BY <1>11 DEF RangingResultOf
<1>15. result'.stamps = [leg \in 1 .. 4 |-> exchange.number]
  BY <1>4, <1>13, <1>14
<1>16. result'.stsPassed = TRUE
  BY <1>1, <1>11 DEF RangingResultOf
<1>17. Noted(book, exchange)
  BY <1>1, <1>f, PrePollIsFrame DEF StashDrained, Known
<1>18. result'.blockIndex = AnnouncedBlock(exchange.blockNumber)
  BY <1>11, <1>17 DEF RangingResultOf, Noted
<1>19. result'.roundInBlock = RoundInBlock(exchange)
  <2>1. /\ book.currentBlock = AnnouncedBlock(exchange.blockNumber)
        /\ book.currentRound = exchange.round
    BY <1>17 DEF Noted
  <2> QED BY <1>2, <1>11, <2>1 DEF RangingResultOf, RoundInBlock
<1> QED BY <1>10, <1>12, <1>15, <1>16, <1>18, <1>19 DEF HasResult, ResultRight

LEMMA RecoveringHandler ==
    ASSUME Orderly, OrderlyInv, Knowing, Recovering, HandlerStep, UNCHANGED exchangeVars,
           [ExchangeNext]_allVars
    PROVE  Recovering'
<1> SUFFICES ASSUME Running', ~ disturbed', clean' >= 1 PROVE InStep'
  BY DEF Recovering
<1>u. UNCHANGED <<exchange, disturbed, clean>>
  BY DEF exchangeVars
<1>r. Running
  BY OrderlyFacts, RunningBefore
<1>1. InStep
  BY <1>r, <1>u DEF Recovering
<1>2. exchange.phase = "PrePoll" => InPrePoll'
  BY <1>1, <1>r, <1>u, HandlesPrePoll DEF InStep
<1>3. exchange.phase = "Poll" => InPoll'
  BY <1>1, <1>r, <1>u, HandlesPoll DEF InStep
<1>4. exchange.phase = "Final" => InFinal'
  BY <1>1, <1>r, <1>u, HandlesFinal DEF InStep
<1>5. exchange.phase = "FinalData" => HasResult'
  <2>1. SUFFICES ASSUME exchange.phase = "FinalData" PROVE HasResult'
    OBVIOUS
  <2>2. CASE HasResult
    BY <1>u, <2>1, <2>2, HasResultKept
  <2>3. CASE FinalDataReceived
    <3>1. Known(book, exchange)
      BY <1>r, <1>u, <2>1 DEF Knowing, Answered
    <3> QED BY <1>r, <1>u, <2>1, <2>3, <3>1, HandlesFinalData
  <2> QED BY <1>1, <2>1, <2>2, <2>3 DEF InStep
<1> QED BY <1>2, <1>3, <1>4, <1>5, <1>u DEF InStep

LEMMA RecoveringStep ==
    ASSUME Orderly, OrderlyInv, Knowing, Recovering, [ExchangeNext]_allVars
    PROVE  Recovering'
<1>1. PeerControl /\ disturbed' = TRUE => Recovering'
  BY DEF Recovering
<1>2. ASSUME UNCHANGED <<vars, exchangeVars>> PROVE Recovering'
  <2>1. UNCHANGED <<m_state, radio, book, cycle, m_lastFinalDataCounter, result, exchange,
                    disturbed, clean>>
    BY <1>2 DEF vars, exchangeVars
  <2>2. (Running' <=> Running) /\ (InStep' <=> InStep)
    BY <2>1 DEF Running, InStep, InPrePoll, InPoll, InFinal, FinalDataReceived, HasResult,
                ResultRight, PrePollReceived, Received, SecuredReceived, Listening, Armed,
                PeerPollStsIndex, PrePollFrame, FinalDataFrame, PeerLegKeys, RoundInBlock
  <2> QED BY <2>1, <2>2 DEF Recovering
<1> QED BY <1>1, <1>2, RecoveringAir, RecoveringHandler, OrderlyCases

LEMMA RecoveredStep ==
    ASSUME Orderly, OrderlyInv, Recovering, Recovered, [ExchangeNext]_allVars
    PROVE  Recovered'
<1> SUFFICES ASSUME Running', exchange'.phase = "Gap", clean' = 2 PROVE HasResult'
  BY DEF Recovered
<1>f. TypeOK /\ PeerOK /\ PeerCounts /\ exchange \in PeerIn(Phases)
      /\ clean \in 0 .. 2 /\ disturbed \in BOOLEAN
  BY OrderlyFacts DEF PeerCounts
<1>k. ASSUME UNCHANGED <<m_state, result>>, SameExchange, HasResult PROVE HasResult'
  BY <1>k DEF HasResult, ResultRight, SameExchange, RoundInBlock
<1>1. CASE AirStep
  <2>1. UNCHANGED <<m_state, result, cycle>> /\ Running
    BY <1>1, <1>f, AirKeeps DEF Running
  <2>2. ~ SendPrePoll
    BY <1>f, PrePollsGoOn
  <2>3. SameExchange
    BY <1>1, <1>f, <2>2, PeerMoves
  <2>4. CASE EndExchange
    <3>1. exchange.phase = "FinalData" /\ Quiet /\ ~ disturbed /\ clean >= 1
      BY <1>f, <2>4 DEF EndExchange
    <3>2. HasResult
      BY <2>1, <3>1 DEF Recovering, InStep, FinalDataReceived, Received, Quiet
    <3> QED BY <1>k, <2>1, <2>3, <3>2
  <2>5. CASE ~ EndExchange
    <3>1. ~ SendPoll /\ ~ SendFinal /\ ~ SendFinalData
      BY <1>f DEF SendPoll, SendFinal, SendFinalData, PeerIn
    <3>2. ResponseSent \/ WindowCloses \/ HearForeign
      BY <1>1, <2>2, <2>5, <3>1 DEF AirStep
    <3>3. exchange.phase = "Gap" /\ clean = 2
      BY <1>f, <3>2 DEF ResponseSent, WindowCloses, HearForeign, exchangeVars, PeerIn
    <3> QED BY <1>k, <2>1, <2>3, <3>3 DEF Recovered
  <2> QED BY <2>4, <2>5
<1>2. CASE HandlerStep /\ UNCHANGED exchangeVars
  <2>1. UNCHANGED <<exchange, clean>> /\ Running
    BY <1>2, <1>f, RunningBefore DEF exchangeVars
  <2>2. HasResult
    BY <2>1 DEF Recovered
  <2> QED BY <1>2, <2>1, <2>2, HasResultKept
<1>3. CASE UNCHANGED <<vars, exchangeVars>>
  <2>1. UNCHANGED <<m_state, radio, result, exchange, clean>>
    BY <1>3 DEF vars, exchangeVars
  <2>2. HasResult
    BY <2>1 DEF Recovered, Running
  <2> QED BY <1>k, <2>1, <2>2 DEF SameExchange
<1> QED BY <1>1, <1>2, <1>3, OrderlyCases

-----------------------------------------------------------------------------
(***************************************************************************)
(* The recovery.                                                           *)
(***************************************************************************)
RecoveryInv == OrderlyInv /\ Knowing /\ Recovering /\ Recovered

LEMMA RecoveryInit ==
    ASSUME Orderly
    PROVE  ExchangeInit => RecoveryInv
<1> SUFFICES ASSUME ExchangeInit PROVE RecoveryInv
  OBVIOUS
<1>1. Init /\ ExchangeInv /\ DeafInv
  BY ExchangeInvInit, DeafInit DEF ExchangeInit
<1>2. /\ m_state = "Uninitialized" /\ book.stashFrame = NoFrame
      /\ book.lastPrePollCounter = None /\ book.lastPrePollStsIndex = None
      /\ m_lastFinalDataCounter = None /\ radio.listener = FALSE
  BY <1>1 DEF Init
<1>3. /\ exchange.number = 0 /\ exchange.phase = "Gap"
      /\ clean = 0 /\ disturbed = FALSE
  BY DEF ExchangeInit
<1>4. StashDrained
  BY <1>2 DEF StashDrained
<1>5. PeerCounts
  <2>1. disturbed \in BOOLEAN
    BY <1>3, Zenon
  <2> QED BY <1>3, <2>1 DEF PeerCounts
<1>6. PeerBook
  BY <1>2 DEF PeerBook, BookOfPeer
<1>7. FinalMark
  BY <1>2, <1>3 DEF FinalMark, None
<1>8. Knowing /\ Recovering /\ Recovered
  BY <1>2 DEF Knowing, Recovering, Recovered, Running
<1> QED BY <1>1, <1>4, <1>5, <1>6, <1>7, <1>8 DEF RecoveryInv, OrderlyInv

LEMMA RecoveryStep ==
    ASSUME Orderly
    PROVE  RecoveryInv /\ [ExchangeNext]_allVars => RecoveryInv'
<1> SUFFICES ASSUME RecoveryInv, [ExchangeNext]_allVars PROVE RecoveryInv'
  OBVIOUS
<1>1. OrderlyInv /\ Knowing /\ Recovering /\ Recovered
  BY DEF RecoveryInv
<1>2. /\ ExchangeInv /\ TypeOK /\ PeerOK /\ SetUpForPeer /\ EventOfExchange /\ DeafInv
      /\ StashDrained /\ PeerCounts /\ PeerBook /\ FinalMark
  BY <1>1, OrderlyFacts DEF OrderlyInv
<1>3. [Next]_vars
  BY <1>2, PeerStep
<1>4. ExchangeInv'
  BY <1>2, ExchangeInvStep
<1>5. DeafInv' /\ StashDrained'
  <2>1. Faults \cap {"material", "phy", "rx"} = {}
    BY DEF Orderly
  <2> QED BY <1>2, <1>3, <2>1, DeafStep, StashStep
<1>6. PeerCounts' /\ PeerBook' /\ FinalMark'
  BY <1>2, PeerCountsStep, PeerBookStep, FinalMarkStep
<1>7. Knowing' /\ Recovering' /\ Recovered'
  BY <1>1, KnowingStep, RecoveringStep, RecoveredStep
<1> QED BY <1>4, <1>5, <1>6, <1>7 DEF RecoveryInv, OrderlyInv

\* The session recovers by itself from whatever was lost, garbled, overheard
\* or called: two undisturbed exchanges later it has the result of the second,
\* with the timestamps, the block and the round of the block of this exchange.  The hypothesis
\* says what this needs: nothing of the session's own fails, it answers every
\* block, and its schedule is in order (see Orderly).
THEOREM SessionRecovers ==
    ASSUME Orderly
    PROVE  ExchangeSpec => []Recovers
<1>1. RecoveryInv => Recovers
  <2>1. "PrePollListening" \in Active
    BY DEF Active
  <2> QED BY <2>1 DEF RecoveryInv, Recovered, Running, HasResult, ResultRight, Recovers
<1> QED BY <1>1, RecoveryInit, RecoveryStep, PTL DEF ExchangeSpec

=============================================================================
