--------------------------- MODULE RangingExchange ---------------------------
(***************************************************************************)
(* A session of RangingSession against the initiator it ranges with.  The  *)
(* initiator is not part of the repository; it is modelled from what the   *)
(* session expects of it: exchange after exchange of the schedule it sends *)
(* a Pre-Poll, a Poll, a Final and a Final_Data, the Poll and the Final    *)
(* secured by the STS of their slot.  Its block number does not wrap, the  *)
(* block it announces does.                                                *)
(*                                                                         *)
(* Timing is abstracted to order, under these assumptions: a handler ends  *)
(* before the next leg is sent, a Response before the Final is; a leg's    *)
(* window does not close before the leg was sent, and the windows of an    *)
(* exchange are closed when the next one begins.  Disturbances break the   *)
(* order of things: a leg that is lost or garbled, a frame of somebody     *)
(* else's, a control call; MaxDisturbances bounds them and MaxExchanges    *)
(* the exchanges.                                                          *)
(***************************************************************************)
EXTENDS RangingSession

CONSTANTS
    PeerUrsk, PeerParamsSet, Node,  \* what both sides may have been set up with
    FirstBlockNumber,            \* the block number of the first exchange
    ForeignFrames,               \* frames of other sessions
    MaxExchanges, MaxDisturbances

VARIABLES
    exchange,      \* the initiator: the parameters of the session, number, block
                   \* number and round of the exchange, the phase it is in, and
                   \* whether it heard the Response
    disturbances,  \* how many disturbances there were
    disturbed,     \* the current exchange was disturbed
    clean          \* how many exchanges in a row were not, up to 2

exchangeVars == <<exchange, disturbances, disturbed, clean>>
allVars == <<vars, exchangeVars>>

-----------------------------------------------------------------------------
(***************************************************************************)
(* The initiator's schedule, keys and frames.                              *)
(***************************************************************************)
PeerSetup(p) ==
    [ params |-> p, nodeConfig |-> Node, mursk |-> DeriveMursk(PeerUrsk),
      saltedHash |-> DeriveSaltedHash(PeerUrsk, p) ]

PeerAddresses(p) == DeriveAddresses(DeriveMupsk2(PeerUrsk), p.stsIndex0)

AnnouncedBlock(blockNumber) == blockNumber % U16

\* The STS index goes on where the announced block wraps.
PeerPollStsIndex(x) == PollStsIndexFor(x.params, x.blockNumber, x.round)

\* The rounds of a block that may be active: announced ones if hopping is
\* adaptive, scheduled ones otherwise.
PeerRounds(p, blockNumber) ==
    IF p.hoppingMode \in {"AdaptiveAes", "AdaptiveDefault"}
    THEN 0 .. RoundsPerBlock(p) - 1
    ELSE {ScheduledRoundFor(p, AnnouncedBlock(blockNumber))}

\* The block number and round the initiator goes on with.
Follows(x, blockNumber, round) ==
    IF /\ x.params.hoppingMode \notin {"AdaptiveAes", "AdaptiveDefault"}
       /\ SecondRoundPending(x.params, AnnouncedBlock(x.blockNumber), x.round)
    THEN blockNumber = x.blockNumber /\ round = SecondRound(x.params, x.round)
    ELSE blockNumber = x.blockNumber + 1 /\ round \in PeerRounds(x.params, blockNumber)

\* Whether it is in the scheduled round of its block, or in the second one.
\* (In the adaptive modes any round but 0 counts as the second, as it does for
\* the session.)
RoundInBlock(x) ==
    IF x.round = ScheduledRoundFor(x.params, AnnouncedBlock(x.blockNumber)) THEN 0 ELSE 1

PrePollFrame(x) ==
    [ msg |-> "PrePoll", addr |-> PeerAddresses(x.params), key |-> DeriveMupsk1(PeerUrsk),
      intact |-> TRUE, sessionId |-> x.params.sessionId, counter |-> x.number,
      sts |-> PeerPollStsIndex(x), block |-> AnnouncedBlock(x.blockNumber),
      round |-> x.round, reports |-> {}, stamp |-> x.number ]

PeerLegKeys(x, leg) == LegKeys(PeerSetup(x.params), PeerPollStsIndex(x), leg)

FinalDataFrame(x) ==
    [ PrePollFrame(x) EXCEPT
        !.msg = "FinalData",
        !.key = DudskKey(PeerLegKeys(x, "poll")),
        !.sts = LegStsIndex(x.params, Node.responderIndex, PeerPollStsIndex(x), "final"),
        !.reports = IF x.heard THEN {Node.responderIndex} ELSE {} ]

\* What the receive buffer holds after a frame without payload.
NoPayload == CHOOSE f \in ForeignFrames : f.msg = "Unreadable"

(***************************************************************************)
(* What the constants are.  The session is set up as the initiator is;     *)
(* both may be set up in any way in which a leg's STS index is of no other *)
(* leg: the Final comes before the next round's Poll, and the indices do   *)
(* not come round in the blocks of a session.                              *)
(***************************************************************************)
BlockNumbers == 0 .. FirstBlockNumber - 1 + MaxExchanges

\* The initiator in one of these phases.
PeerIn(phases) ==
    [ params : PeerParamsSet, number : 0 .. MaxExchanges, blockNumber : BlockNumbers,
      round : SlotIndex, phase : phases, heard : BOOLEAN ]

ASSUME PeerAssumption ==
    /\ PeerUrsk \in Ursks /\ PeerParamsSet \subseteq ParamsSet /\ Node \in NodeConfigs
    /\ FirstBlockNumber \in Nat \ {0} /\ MaxExchanges \in Nat /\ MaxDisturbances \in Nat
    /\ 1 \in SlotIndex
    /\ 0 .. MaxExchanges \subseteq Stamps
    /\ {PrePollFrame(x) : x \in PeerIn({"PrePoll"})} \subseteq Frames
    /\ {FinalDataFrame(x) : x \in PeerIn({"Final"})} \subseteq Frames

ASSUME ScheduleAssumption ==
    \A p \in PeerParamsSet :
        /\ p.responderCount + 1 < p.slotsPerRound
        /\ \A block \in BlockIndex \cup BlockNumbers :
             (block * RoundsPerBlock(p) + U16) * p.slotsPerRound <= U32

\* Frames of other sessions are not encrypted with the keys of this one.
ASSUME ForeignAssumption ==
    /\ ForeignFrames \subseteq Frames
    /\ \E f \in ForeignFrames : f.msg = "Unreadable"
    /\ \A f \in ForeignFrames :
         /\ f.key # DeriveMupsk1(PeerUrsk)
         /\ \A p \in PeerParamsSet, stsIndex \in StsIndex :
              f.key # DudskKey(DeriveSlotKeys(DeriveMursk(PeerUrsk),
                                  DeriveSaltedHash(PeerUrsk, p), stsIndex, p))

(***************************************************************************)
(* What the session needs to recover by itself: nothing of its own fails,  *)
(* it answers every block, a block has rounds and its second one comes     *)
(* later, the block index does not wrap, and the STS indices of a session  *)
(* take up less than half of theirs, or "later" turns around.              *)
(***************************************************************************)
Orderly ==
    /\ Faults = {} /\ Node.blockParityFilter < 0
    /\ FirstBlockNumber - 1 + MaxExchanges < U16
    /\ \A p \in PeerParamsSet :
         /\ RoundsPerBlock(p) # 0
         /\ 2 * ((FirstBlockNumber + MaxExchanges) * BlockStsStride(p)) <= U32
         /\ p.hoppingMode \notin {"AdaptiveAes", "AdaptiveDefault"} /\ TwoRounds(p) =>
              \A block \in BlockNumbers :
                LET first  == ScheduledRoundFor(p, block)
                    second == SecondRound(p, first)
                IN  first < second /\ second < RoundsPerBlock(p)

-----------------------------------------------------------------------------
(***************************************************************************)
(* The air.                                                                *)
(***************************************************************************)
Disturbance ==
    /\ disturbances < MaxDisturbances
    /\ disturbances' = disturbances + 1
    /\ disturbed' = TRUE

NoDisturbance == UNCHANGED <<disturbances, disturbed>>

ReceiverFor(stsMode) == radio.mode = "Rx" /\ radio.stsMode = stsMode

Garbles == Ends("RxError", exchange'.number)

Misses == UNCHANGED vars

\* A leg of the current exchange that carries an STS and no payload.
AirSecured(leg) ==
    \/ /\ ReceiverFor("NoDataSp3")
       /\ Receives(NoPayload, exchange.number, radio.sts = PeerLegKeys(exchange, leg))
       /\ NoDisturbance
    \/ ReceiverFor("NoDataSp3") /\ (Misses \/ Garbles) /\ Disturbance
    \/ ~ ReceiverFor("NoDataSp3") /\ Misses /\ NoDisturbance
    \/ ReceiverFor("Off") /\ Garbles /\ NoDisturbance

\* A frame with a payload and no STS.
AirPlain(f) ==
    \/ ReceiverFor("Off") /\ Receives(f, exchange'.number, FALSE) /\ NoDisturbance
    \/ ReceiverFor("Off") /\ (Misses \/ Garbles) /\ Disturbance
    \/ ~ ReceiverFor("Off") /\ Misses /\ NoDisturbance
    \/ ReceiverFor("NoDataSp3") /\ Garbles /\ NoDisturbance

\* The session has dealt with what was before.
Quiet == radio.event = NoEvent /\ radio.mode # "Tx"

-----------------------------------------------------------------------------
(***************************************************************************)
(* The initiator's steps.                                                  *)
(***************************************************************************)
SendPrePoll ==
    /\ exchange.phase = "Gap"
    /\ exchange.number < MaxExchanges
    /\ Quiet
    /\ \E blockNumber \in exchange.blockNumber .. exchange.blockNumber + 1 :
         \E round \in 0 .. U16 - 1 :
            /\ Follows(exchange, blockNumber, round)
            /\ exchange' = [ params |-> exchange.params, number |-> exchange.number + 1,
                             blockNumber |-> blockNumber, round |-> round,
                             phase |-> "PrePoll", heard |-> FALSE ]
    /\ AirPlain(PrePollFrame(exchange'))
    /\ UNCHANGED clean

SendPoll ==
    /\ exchange.phase = "PrePoll"
    /\ Quiet
    /\ exchange' = [exchange EXCEPT !.phase = "Poll"]
    /\ AirSecured("poll")
    /\ UNCHANGED clean

\* The initiator hears a Response with the STS it expects.
ResponseSent ==
    /\ LET expected == radio.sts = PeerLegKeys(exchange, "response")
       IN  \/ /\ expected
              /\ exchange' = [exchange EXCEPT !.heard = TRUE]
              /\ NoDisturbance
           \/ expected /\ UNCHANGED exchange /\ Disturbance
           \/ ~ expected /\ UNCHANGED exchange /\ NoDisturbance
    /\ Ends("TxDone", exchange.number)
    /\ UNCHANGED clean

SendFinal ==
    /\ exchange.phase = "Poll"
    /\ Quiet
    /\ exchange' = [exchange EXCEPT !.phase = "Final"]
    /\ AirSecured("final")
    /\ UNCHANGED clean

SendFinalData ==
    /\ exchange.phase = "Final"
    /\ Quiet
    /\ exchange' = [exchange EXCEPT !.phase = "FinalData"]
    /\ AirPlain(FinalDataFrame(exchange))
    /\ UNCHANGED clean

EndExchange ==
    /\ exchange.phase = "FinalData"
    /\ Quiet
    /\ m_state \notin Active \ {"PrePollListening"}
    /\ exchange' = [exchange EXCEPT !.phase = "Gap"]
    /\ clean' = CASE disturbed -> 0 [] ~ disturbed /\ clean < 2 -> clean + 1 [] OTHER -> 2
    /\ disturbed' = FALSE
    /\ UNCHANGED <<vars, disturbances>>

(***************************************************************************)
(* What else happens to the session.                                       *)
(***************************************************************************)

\* The leg the session waits for was sent, or its window is not one of this
\* exchange.
WindowOver ==
    /\ m_state = "AwaitingPoll" => exchange.phase # "PrePoll"
    /\ m_state = "AwaitingFinal" => exchange.phase # "Poll"
    /\ m_state = "AwaitingFinalData" => exchange.phase # "Final"

WindowCloses ==
    /\ WindowOver
    /\ Ends("RxTimeout", exchange.number)
    /\ UNCHANGED exchangeVars

\* A frame of another session; one with an STS has none the session knows.
HearForeign ==
    /\ \E f \in ForeignFrames : Receives(f, 0, FALSE)
    /\ Disturbance
    /\ UNCHANGED <<exchange, clean>>

Handle == HandleEvent /\ UNCHANGED exchangeVars

Control ==
    /\ \/ Start(PeerUrsk, exchange.params, Node)
       \/ Stop
       \/ Suspend
       \/ Resume
    /\ Disturbance
    /\ clean' = 0
    /\ UNCHANGED exchange

-----------------------------------------------------------------------------
\* The session is started before the first exchange.
ExchangeInit ==
    /\ Init
    /\ exchange \in [ params : PeerParamsSet, number : {0}, blockNumber : {FirstBlockNumber - 1},
                      round : {1}, phase : {"Gap"}, heard : {FALSE} ]
    /\ disturbances = 0
    /\ disturbed = FALSE
    /\ clean = 0

ExchangeNext ==
    \/ SendPrePoll \/ SendPoll \/ ResponseSent \/ SendFinal \/ SendFinalData
    \/ EndExchange \/ WindowCloses \/ HearForeign \/ Handle \/ Control

ExchangeSpec == ExchangeInit /\ [][ExchangeNext]_allVars

-----------------------------------------------------------------------------
(***************************************************************************)
(* Properties.                                                             *)
(***************************************************************************)

\* A result whose Final had a good STS was computed from timestamps and a
\* report of one and the same exchange.
OneExchange ==
    result # NoResult /\ result.stsPassed =>
        \E number \in Stamps : result.stamps = <<number, number, number, number>>

\* The responder transmits only to answer the Poll of the current exchange,
\* with the STS the initiator expects in its slot.
AnswersThePoll ==
    m_state = "TransmittingResponse" /\ radio.mode = "Tx" =>
        /\ exchange.phase = "Poll"
        /\ cycle.pollRx = exchange.number
        /\ radio.sts = PeerLegKeys(exchange, "response")

\* Two undisturbed exchanges are enough to recover from whatever was before:
\* at the end of the second the session has its result, with the timestamps,
\* the block and the round of the block of this exchange.
Recovers ==
    /\ exchange.phase = "Gap"
    /\ clean = 2
    /\ m_state = "PrePollListening"
    /\ radio.listener
    => /\ result # NoResult
       /\ result.stamps = [leg \in 1 .. 4 |-> exchange.number]
       /\ result.stsPassed
       /\ result.blockIndex = AnnouncedBlock(exchange.blockNumber)
       /\ result.roundInBlock = RoundInBlock(exchange)

\* SessionNodeConfig: "-1 = Respond every block, 0 = Even blocks, 1 = Odd
\* blocks".
AnswersOnlyItsBlocks ==
    m_state = "TransmittingResponse" =>
        IsBlockParityEligible(setup, AnnouncedBlock(exchange.blockNumber))

=============================================================================
