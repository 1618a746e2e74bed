--------------------------- MODULE RangingSession ---------------------------
(***************************************************************************)
(* The responder session (session::RangingSession): the control calls of   *)
(* the application, and the state machine that takes the radio's events    *)
(* through the legs of an exchange,                                        *)
(*                                                                         *)
(*     Pre-Poll -> Poll -> Response -> Final -> Final_Data -> result.      *)
(*                                                                         *)
(* The session is modelled in an open world: whenever the receiver is on,  *)
(* it may receive any frame of Frames, with or without a good STS, time    *)
(* out or fail.  Each control call and each handler runs to its end in one *)
(* step; between a radio event and its handler any control call may come.  *)
(*                                                                         *)
(* A timestamp is abstracted to the stamp of the exchange it was taken in. *)
(***************************************************************************)
EXTENDS CccKeyDerivationEngine, DW3000Controller

CONSTANTS
    ParamsSet,      \* the parameters sessions are started with
    NodeConfigs,    \* the node configurations they are started with
    Anchors,        \* the STS indices resumeWithAnchor is called with
    DefaultParams,  \* m_params before the first start
    Frames,         \* the frames the receiver may hear
    NoFrame,        \* the empty stash
    Stamps,         \* the stamps of timestamps
    NoStamp,        \* a timestamp never taken
    NoResult,       \* no result delivered yet
    Faults,         \* what may fail: see Outcomes
    CallbackCalls   \* what the range callback may call: "none", "stop", "suspend"

SessionState == {"Uninitialized", "Idle", "PrePollListening", "AwaitingPoll",
                 "TransmittingResponse", "AwaitingFinal", "AwaitingFinalData",
                 "Suspended"}

SessionNodeConfig == [responderIndex : 0 .. 255, blockParityFilter : -1 .. 1]

(***************************************************************************)
(* A frame, as much of it as the session looks at: what its header says    *)
(* (msg, addr, counter), the key and the integrity of its payload, and the *)
(* payload itself.  sts is the Poll's index in a Pre-Poll and the Final's  *)
(* in a Final_Data; reports are the responders a Final_Data has a record   *)
(* of, and stamp is the exchange it reports about.  "Unreadable" stands    *)
(* for a reception readReceivedData fails on or too short for a header.    *)
(***************************************************************************)
Message == {"PrePoll", "FinalData", "Other", "Unreadable"}

ASSUME SessionAssumption ==
    /\ ParamsSet \subseteq RangingSessionParameters
    /\ DefaultParams \in RangingSessionParameters
    /\ NodeConfigs \subseteq SessionNodeConfig
    /\ Anchors \subseteq StsIndex
    /\ NoFrame \notin Frames
    /\ NoEvent \notin [kind : EventKind, frame : Frames \cup {NoFrame}, stamp : Stamps,
                      stsPassed : BOOLEAN]
    /\ \A f \in Frames :
         /\ f.msg \in Message
         /\ f.counter \in Nat
         /\ f.sts \in StsIndex
         /\ f.block \in BlockIndex
         /\ f.round \in SlotIndex
         /\ f.stamp \in Stamps
    /\ Faults \subseteq {"material", "slot", "phy", "rx", "tx", "distance"}
    /\ CallbackCalls \subseteq {"none", "stop", "suspend"}

VARIABLES
    m_state,
    radio,     \* the transceiver, see DW3000Controller
    setup,     \* m_ursk, m_params, m_nodeConfig and the material derived from them
    book,      \* what the Pre-Polls taught: stash, block, replay marks, warm keys
    cycle,     \* the armed exchange: its keys and its timestamps
    m_lastFinalDataCounter,
    result,    \* the last RangingResult given to the callback
    lastCall   \* history: the last control call that reported success

vars == <<m_state, radio, setup, book, cycle, m_lastFinalDataCounter, result, lastCall>>

\* Absent counters and indices: the m_has... flag is false.
None == -1

-----------------------------------------------------------------------------
(***************************************************************************)
(* Session material.  A derivation that fails after some of its five steps *)
(* leaves what it had derived.                                             *)
(***************************************************************************)
Outcomes(fault) == IF fault \in Faults THEN BOOLEAN ELSE {TRUE}

MaterialSteps == IF "material" \in Faults THEN 0 .. 5 ELSE {5}

\* Slip (not used by the specifications): valid material is taken to be current.
DeriveMaterialOnce(s, steps) ==
    [s EXCEPT
        !.mupsk1     = IF steps >= 1 THEN DeriveMupsk1(s.ursk) ELSE @,
        !.mupsk2     = IF steps >= 2 THEN DeriveMupsk2(s.ursk) ELSE @,
        !.mursk      = IF steps >= 3 THEN DeriveMursk(s.ursk) ELSE @,
        !.saltedHash = IF steps >= 4 /\ ~ s.materialValid
                       THEN DeriveSaltedHash(s.ursk, s.params) ELSE @,
        !.addresses  = IF steps >= 5 /\ ~ s.materialValid
                       THEN DeriveAddresses(DeriveMupsk2(s.ursk), s.params.stsIndex0)
                       ELSE @,
        !.materialValid = @ \/ steps = 5]

\* deriveSessionMaterial, with the given number of derivations that succeed.
DeriveSessionMaterial(s, steps) ==
    [s EXCEPT
        !.mupsk1     = IF steps >= 1 THEN DeriveMupsk1(s.ursk) ELSE @,
        !.mupsk2     = IF steps >= 2 THEN DeriveMupsk2(s.ursk) ELSE @,
        !.mursk      = IF steps >= 3 THEN DeriveMursk(s.ursk) ELSE @,
        !.saltedHash = IF steps >= 4 THEN DeriveSaltedHash(s.ursk, s.params) ELSE @,
        !.addresses  = IF steps >= 5
                       THEN DeriveAddresses(DeriveMupsk2(s.ursk), s.params.stsIndex0)
                       ELSE @,
        !.materialValid = @ \/ steps = 5]

(***************************************************************************)
(* The keys of a whole exchange, derived leg by leg into what was there.   *)
(***************************************************************************)
CycleKeys == [pollStsIndex : StsIndex, leg : [Legs -> SlotCryptoMaterial]]

LegNumber(leg) == CASE leg = "poll" -> 1 [] leg = "response" -> 2 [] leg = "final" -> 3

LegKeys(s, pollStsIndex, leg) ==
    DeriveSlotKeys(s.mursk, s.saltedHash,
        LegStsIndex(s.params, s.nodeConfig.responderIndex, pollStsIndex, leg), s.params)

\* The legs that may be derived before deriveSlotKeys fails.
LegsDerived(s) ==
    IF s.params.slotsPerRound = 0 THEN {0}
    ELSE IF "slot" \in Faults THEN 0 .. 3 ELSE {3}

DeriveCycleKeys(s, pollStsIndex, out, derived) ==
    [ pollStsIndex |-> pollStsIndex,
      leg |-> [leg \in Legs |-> IF LegNumber(leg) <= derived
                                THEN LegKeys(s, pollStsIndex, leg)
                                ELSE out.leg[leg]] ]

-----------------------------------------------------------------------------
(***************************************************************************)
(* Pre-Polls.  Each operator maps the book before to the book after.       *)
(***************************************************************************)

\* decryptPayload: the key, the nonce's address and the MIC must match.
Decrypts(key, addresses, f) == f.intact /\ f.key = key /\ f.addr = addresses

\* The header checks of decodePrePollFrame, made alone when keys are warm.
HeaderOk(s, b, f) ==
    /\ f.msg = "PrePoll"
    /\ f.addr = s.addresses
    /\ b.lastPrePollCounter = None \/ f.counter > b.lastPrePollCounter

\* decodePrePollFrame succeeds ...
AcceptsPrePoll(s, b, f) ==
    /\ HeaderOk(s, b, f)
    /\ Decrypts(s.mupsk1, s.addresses, f)
    /\ f.sessionId = s.params.sessionId
    /\ b.lastPrePollStsIndex = None \/ SerialAfter(f.sts, b.lastPrePollStsIndex)

\* ... and what it and its callers then note of the frame.
NotePrePoll(b, f) ==
    [b EXCEPT !.lastPrePollCounter = f.counter, !.lastPrePollStsIndex = f.sts,
              !.currentBlock = f.block, !.currentRound = f.round]

IsBlockParityEligible(s, block) ==
    \/ s.nodeConfig.blockParityFilter < 0
    \/ block % 2 = s.nodeConfig.blockParityFilter

\* The Poll's index of the exchange after the current one.
NextPollStsIndex(s, b) ==
    LET next == NextScheduledExchange(s.params, b.currentBlock, b.currentRound)
    IN  PollStsIndexFor(s.params, next.block, next.round)

\* Slip: the result of deriving the warm keys is ignored.
RefreshWarmKeysUnchecked(s, b, derived) ==
    IF Schedulable(s.params, b.currentBlock, b.currentRound)
    THEN [b EXCEPT !.warm = DeriveCycleKeys(s, NextPollStsIndex(s, b), @, derived),
                   !.warmValid = TRUE]
    ELSE [b EXCEPT !.warmValid = FALSE]

RefreshWarmKeys(s, b, derived) ==
    IF Schedulable(s.params, b.currentBlock, b.currentRound)
    THEN [b EXCEPT !.warm = DeriveCycleKeys(s, NextPollStsIndex(s, b), @, derived),
                   !.warmValid = derived = 3]
    ELSE [b EXCEPT !.warmValid = FALSE]

\* Slip: the stash is processed and not emptied.
ProcessStashAndKeep(s, b, derived) ==
    LET f == b.stashFrame
    IN  CASE f = NoFrame -> b
          [] f # NoFrame /\ ~ AcceptsPrePoll(s, b, f) -> [b EXCEPT !.warmValid = FALSE]
          [] f # NoFrame /\ AcceptsPrePoll(s, b, f) ->
               IF IsBlockParityEligible(s, f.block)
               THEN RefreshWarmKeys(s, NotePrePoll(b, f), derived)
               ELSE NotePrePoll(b, f)

ProcessStashedPrePoll(s, b, derived) ==
    LET f       == b.stashFrame
        drained == [b EXCEPT !.stashFrame = NoFrame]
        noted   == NotePrePoll(drained, f)
    IN  CASE f = NoFrame                   -> b
          [] f # NoFrame /\ ~ AcceptsPrePoll(s, drained, f) ->
               [drained EXCEPT !.warmValid = FALSE]
          [] f # NoFrame /\ AcceptsPrePoll(s, drained, f) ->
               IF IsBlockParityEligible(s, f.block)
               THEN RefreshWarmKeys(s, noted, derived)
               ELSE noted

\* Slip: the warm keys survive a start.
ForgetReplayMarks(b) ==
    [b EXCEPT !.lastPrePollCounter = None, !.lastPrePollStsIndex = None]

ForgetPrePolls(b) ==
    [b EXCEPT !.lastPrePollCounter = None, !.lastPrePollStsIndex = None,
              !.warmValid = FALSE]

-----------------------------------------------------------------------------
(***************************************************************************)
(* Fragments of actions: how a handler leaves the radio.                   *)
(***************************************************************************)

\* armPrePollListening, given the radio, the setup and the book it starts from.
ArmPrePollListening(r, s, b) ==
    /\ \E ok \in Outcomes("rx") :
         radio' = StartImmediateRx(ConfigureStsMode(ForceReceiverOff(r), "Off"),
                                   "Listen", ok)
    /\ m_state' = "PrePollListening"
    /\ \E derived \in LegsDerived(s) : book' = ProcessStashedPrePoll(s, b, derived)

\* Arms the reception of a leg: at its time, or at once if it is late for that.
\* Only when both fail ("rx") is the receiver left off.
ReceiveLeg(r) == \E ok \in Outcomes("rx") : radio' = StartDelayedRx(r, ok)

\* Slip: the keys are loaded, the STS is not switched on.
LoadLegKeys(r, keys, leg) == LoadStsKeyIv(r, keys.leg[leg])

WithLegKeys(r, keys, leg) ==
    LoadStsKeyIv(ConfigureStsMode(r, "NoDataSp3"), keys.leg[leg])

-----------------------------------------------------------------------------
(***************************************************************************)
(* The radio: what the chip does by itself.                                *)
(***************************************************************************)
Event ==
    [kind : {"RxSuccess"}, frame : Frames, stamp : Stamps, stsPassed : BOOLEAN]
    \cup
    [kind : EventKind \ {"RxSuccess"}, frame : {NoFrame}, stamp : Stamps, stsPassed : {FALSE}]

LatchEvent(event) ==
    /\ CanLatch(radio, event.kind)
    /\ radio' = Latch(radio, event)
    /\ UNCHANGED <<m_state, setup, book, cycle, m_lastFinalDataCounter, result, lastCall>>

Receives(f, stamp, stsPassed) ==
    LatchEvent([kind |-> "RxSuccess", frame |-> f, stamp |-> stamp, stsPassed |-> stsPassed])

Ends(kind, stamp) ==
    LatchEvent([kind |-> kind, frame |-> NoFrame, stamp |-> stamp, stsPassed |-> FALSE])

RadioEvent ==
    \E stamp \in Stamps :
        \/ \E f \in Frames, stsPassed \in BOOLEAN : Receives(f, stamp, stsPassed)
        \/ \E kind \in EventKind \ {"RxSuccess"} : Ends(kind, stamp)

\* The driver has nobody to report the event to.
DropEvent ==
    /\ Drops(radio)
    /\ radio' = Reported(radio)
    /\ UNCHANGED <<m_state, setup, book, cycle, m_lastFinalDataCounter, result, lastCall>>

-----------------------------------------------------------------------------
(***************************************************************************)
(* Control calls.                                                          *)
(***************************************************************************)
SetUp(ursk, p, node, steps) ==
    DeriveSessionMaterial(
        [setup EXCEPT !.ursk = ursk, !.params = p, !.nodeConfig = node], steps)

\* start gives up: some session material could not be derived, and none that
\* was valid is left from before.
StartWithoutMaterial(ursk, p, node) ==
    \E steps \in MaterialSteps :
        /\ ~ SetUp(ursk, p, node, steps).materialValid
        /\ setup' = SetUp(ursk, p, node, steps)
        /\ radio' = ForceReceiverOff(radio)
        /\ UNCHANGED <<m_state, book, cycle, m_lastFinalDataCounter, result, lastCall>>

\* start succeeds, or gives up because the PHY cannot be configured.
StartWithMaterial(ursk, p, node) ==
    \E steps \in MaterialSteps :
        /\ SetUp(ursk, p, node, steps).materialValid
        /\ setup' = SetUp(ursk, p, node, steps)
        /\ cycle' = [cycle EXCEPT !.keysValid = FALSE]
        /\ m_lastFinalDataCounter' = None
        /\ \E configured \in Outcomes("phy") :
             LET configuredRadio == ConfigurePhy(ForceReceiverOff(radio), configured)
             IN  \/ /\ configured
                    /\ ArmPrePollListening(SetListener(configuredRadio, TRUE),
                                           SetUp(ursk, p, node, steps), ForgetPrePolls(book))
                    /\ lastCall' = "start"
                 \/ /\ ~ configured
                    /\ radio' = configuredRadio
                    /\ book' = ForgetPrePolls(book)
                    /\ UNCHANGED <<m_state, lastCall>>
        /\ UNCHANGED result

Start(ursk, p, node) ==
    StartWithoutMaterial(ursk, p, node) \/ StartWithMaterial(ursk, p, node)

Stop ==
    /\ radio' = ForceReceiverOff(SetListener(radio, FALSE))
    /\ m_state' = "Idle"
    /\ lastCall' = "stop"
    /\ UNCHANGED <<setup, book, cycle, m_lastFinalDataCounter, result>>

Suspend ==
    /\ radio' = ForceReceiverOff(radio)
    /\ m_state' = "Suspended"
    /\ lastCall' = "suspend"
    /\ UNCHANGED <<setup, book, cycle, m_lastFinalDataCounter, result>>

Resume ==
    /\ m_state = "Suspended"
    /\ ArmPrePollListening(radio, setup, book)
    /\ lastCall' = "resume"
    /\ UNCHANGED <<setup, cycle, m_lastFinalDataCounter, result>>

\* resumeWithAnchor: a new stsIndex0 and everything that hangs on it.
ResumeWithAnchor(stsIndex0) ==
    /\ m_state = "Suspended"
    /\ \E steps \in MaterialSteps :
         LET s == DeriveSessionMaterial(
                    [setup EXCEPT !.params.stsIndex0 = stsIndex0,
                                  !.materialValid = FALSE], steps)
         IN  /\ setup' = s
             /\ \/ /\ ~ s.materialValid
                   /\ UNCHANGED <<m_state, radio, book, cycle, m_lastFinalDataCounter, lastCall>>
                \/ /\ s.materialValid
                   /\ cycle' = [cycle EXCEPT !.keysValid = FALSE]
                   /\ m_lastFinalDataCounter' = None
                   /\ ArmPrePollListening(radio, s, ForgetPrePolls(book))
                   /\ lastCall' = "resume"
    /\ UNCHANGED result

ControlCall ==
    \/ \E ursk \in Ursks, p \in ParamsSet, node \in NodeConfigs : Start(ursk, p, node)
    \/ Stop
    \/ Suspend
    \/ Resume
    \/ \E stsIndex0 \in Anchors : ResumeWithAnchor(stsIndex0)

-----------------------------------------------------------------------------
(***************************************************************************)
(* Handlers.  HandledIn(state, kind) holds when the driver reports such an *)
(* event to the session in such a state; the radio the handler then works  *)
(* with is Reported(radio), and the frame it reads from the chip is Heard. *)
(***************************************************************************)
HandledIn(state, kind) == m_state = state /\ Reports(radio, kind)

ListenAgain == ArmPrePollListening(Reported(radio), setup, book)

(***************************************************************************)
(* A frame while listening for a Pre-Poll.                                 *)
(***************************************************************************)
Heard == radio.event.frame

UnreadablePrePoll ==
    /\ HandledIn("PrePollListening", "RxSuccess")
    /\ Heard.msg = "Unreadable"
    /\ ListenAgain
    /\ UNCHANGED <<setup, cycle, m_lastFinalDataCounter, result, lastCall>>

\* Slip: the STS index of the armed exchange stays that of the one before.
WarmPrePollKeepsIndex ==
    /\ HandledIn("PrePollListening", "RxSuccess")
    /\ Heard.msg # "Unreadable"
    /\ book.warmValid
    /\ cycle' = [cycle EXCEPT !.keysValid = TRUE, !.keys = book.warm]
    /\ ReceiveLeg(WithLegKeys(Reported(radio), book.warm, "poll"))
    /\ m_state' = "AwaitingPoll"
    /\ book' = [book EXCEPT !.stashFrame = Heard,
                            !.warmValid = HeaderOk(setup, book, Heard)]
    /\ UNCHANGED <<setup, m_lastFinalDataCounter, result, lastCall>>

\* Warm: the keys predicted for the next exchange are armed before the frame
\* is looked at.  The frame is stashed and only its header checked.
WarmPrePoll ==
    /\ HandledIn("PrePollListening", "RxSuccess")
    /\ Heard.msg # "Unreadable"
    /\ book.warmValid
    /\ cycle' = [cycle EXCEPT !.keysValid = TRUE, !.keys = book.warm,
                              !.pollStsIndex = book.warm.pollStsIndex]
    /\ ReceiveLeg(WithLegKeys(Reported(radio), book.warm, "poll"))
    /\ m_state' = "AwaitingPoll"
    /\ book' = [book EXCEPT !.stashFrame = Heard,
                            !.warmValid = HeaderOk(setup, book, Heard)]
    /\ UNCHANGED <<setup, m_lastFinalDataCounter, result, lastCall>>

\* Bootstrap: nothing was predicted, the frame is decoded first.
BootstrapFrame ==
    /\ HandledIn("PrePollListening", "RxSuccess")
    /\ Heard.msg # "Unreadable"
    /\ ~ book.warmValid

BootstrapRejected ==
    /\ BootstrapFrame
    /\ ~ AcceptsPrePoll(setup, book, Heard)
    /\ ListenAgain
    /\ UNCHANGED <<setup, cycle, m_lastFinalDataCounter, result, lastCall>>

BootstrapOtherParity ==
    /\ BootstrapFrame
    /\ AcceptsPrePoll(setup, book, Heard)
    /\ ~ IsBlockParityEligible(setup, Heard.block)
    /\ ArmPrePollListening(Reported(radio), setup, NotePrePoll(book, Heard))
    /\ UNCHANGED <<setup, cycle, m_lastFinalDataCounter, result, lastCall>>

BootstrapPrePoll ==
    /\ BootstrapFrame
    /\ AcceptsPrePoll(setup, book, Heard)
    /\ IsBlockParityEligible(setup, Heard.block)
    /\ \E derived \in LegsDerived(setup) :
         LET noted == NotePrePoll(book, Heard)
             keys  == DeriveCycleKeys(setup, Heard.sts, cycle.keys, derived)
             off   == ForceReceiverOff(Reported(radio))
         IN  \/ /\ derived < 3
                /\ cycle' = [cycle EXCEPT !.keys = keys]
                /\ ArmPrePollListening(off, setup, noted)
             \/ /\ derived = 3
                /\ cycle' = [cycle EXCEPT !.keysValid = TRUE, !.keys = keys,
                                          !.pollStsIndex = Heard.sts]
                /\ ReceiveLeg(WithLegKeys(off, keys, "poll"))
                /\ m_state' = "AwaitingPoll"
                /\ \E warmDerived \in LegsDerived(setup) :
                     book' = RefreshWarmKeys(setup, noted, warmDerived)
    /\ UNCHANGED <<setup, m_lastFinalDataCounter, result, lastCall>>

OnPrePoll ==
    UnreadablePrePoll \/ WarmPrePoll
    \/ BootstrapRejected \/ BootstrapOtherParity \/ BootstrapPrePoll

(***************************************************************************)
(* The Poll, and the Response to it.                                       *)
(***************************************************************************)
PollRejected ==
    /\ HandledIn("AwaitingPoll", "RxSuccess")
    /\ ~ radio.event.stsPassed
    /\ ListenAgain
    /\ UNCHANGED <<setup, cycle, m_lastFinalDataCounter, result, lastCall>>

PollWithoutKeys ==
    /\ HandledIn("AwaitingPoll", "RxSuccess")
    /\ radio.event.stsPassed
    /\ ~ cycle.keysValid
    /\ cycle' = [cycle EXCEPT !.pollRx = radio.event.stamp]
    /\ ListenAgain
    /\ UNCHANGED <<setup, m_lastFinalDataCounter, result, lastCall>>

\* Slip: the Poll is answered whatever its STS.
AnyPollReceived ==
    /\ HandledIn("AwaitingPoll", "RxSuccess")
    /\ cycle.keysValid
    /\ cycle' = [cycle EXCEPT !.pollRx = radio.event.stamp]
    /\ radio' = StartDelayedTx(WithLegKeys(Reported(radio), cycle.keys, "response"), TRUE)
    /\ m_state' = "TransmittingResponse"
    /\ UNCHANGED <<setup, book, m_lastFinalDataCounter, result, lastCall>>

\* Slip: the Response is secured with the keys of the Poll.
PollReceivedKeepsKeys ==
    /\ HandledIn("AwaitingPoll", "RxSuccess")
    /\ radio.event.stsPassed
    /\ cycle.keysValid
    /\ cycle' = [cycle EXCEPT !.pollRx = radio.event.stamp]
    /\ radio' = StartDelayedTx(WithLegKeys(Reported(radio), cycle.keys, "poll"), TRUE)
    /\ m_state' = "TransmittingResponse"
    /\ UNCHANGED <<setup, book, m_lastFinalDataCounter, result, lastCall>>

PollReceived ==
    /\ HandledIn("AwaitingPoll", "RxSuccess")
    /\ radio.event.stsPassed
    /\ cycle.keysValid
    /\ cycle' = [cycle EXCEPT !.pollRx = radio.event.stamp]
    /\ \E inTime \in Outcomes("tx") :
         LET loaded == WithLegKeys(Reported(radio), cycle.keys, "response")
         IN  \/ /\ inTime
                /\ radio' = StartDelayedTx(loaded, TRUE)
                /\ m_state' = "TransmittingResponse"
                /\ UNCHANGED book
             \/ /\ ~ inTime
                /\ ArmPrePollListening(StartDelayedTx(loaded, FALSE), setup, book)
    /\ UNCHANGED <<setup, m_lastFinalDataCounter, result, lastCall>>

OnPoll == PollRejected \/ PollWithoutKeys \/ PollReceived

OnTxComplete ==
    /\ HandledIn("TransmittingResponse", "TxDone")
    /\ cycle' = [cycle EXCEPT !.respTx = radio.event.stamp]
    /\ \/ /\ ~ cycle.keysValid
          /\ ListenAgain
       \/ /\ cycle.keysValid
          /\ ReceiveLeg(WithLegKeys(Reported(radio), cycle.keys, "final"))
          /\ m_state' = "AwaitingFinal"
          /\ UNCHANGED book
    /\ UNCHANGED <<setup, m_lastFinalDataCounter, result, lastCall>>

(***************************************************************************)
(* The Final: taken as it is, its STS only remembered.                     *)
(***************************************************************************)
\* Slip: the Pre-Poll stays stashed until the session listens again.
OnFinalWithoutStash ==
    /\ HandledIn("AwaitingFinal", "RxSuccess")
    /\ cycle' = [cycle EXCEPT !.finalRx = radio.event.stamp,
                              !.finalStsPassed = radio.event.stsPassed]
    /\ ReceiveLeg(ConfigureStsMode(ForceReceiverOff(Reported(radio)), "Off"))
    /\ m_state' = "AwaitingFinalData"
    /\ UNCHANGED <<setup, book, m_lastFinalDataCounter, result, lastCall>>

OnFinal ==
    /\ HandledIn("AwaitingFinal", "RxSuccess")
    /\ cycle' = [cycle EXCEPT !.finalRx = radio.event.stamp,
                              !.finalStsPassed = radio.event.stsPassed]
    /\ ReceiveLeg(ConfigureStsMode(ForceReceiverOff(Reported(radio)), "Off"))
    /\ m_state' = "AwaitingFinalData"
    /\ \E derived \in LegsDerived(setup) :
         book' = ProcessStashedPrePoll(setup, book, derived)
    /\ UNCHANGED <<setup, m_lastFinalDataCounter, result, lastCall>>

(***************************************************************************)
(* The Final_Data, and the result.                                         *)
(***************************************************************************)
\* The payload key of the armed exchange; deriveSlotKeys needs slots.
FinalDataKey ==
    DudskKey(DeriveSlotKeys(setup.mursk, setup.saltedHash, cycle.pollStsIndex, setup.params))

\* Slip: the counter of a Final_Data is not compared with the last one's.
AcceptsAnyFinalData(f) ==
    /\ f.msg = "FinalData"
    /\ setup.params.slotsPerRound # 0
    /\ Decrypts(FinalDataKey, setup.addresses, f)
    /\ f.sessionId = setup.params.sessionId

AcceptsFinalData(f) ==
    /\ f.msg = "FinalData"
    /\ m_lastFinalDataCounter = None \/ f.counter > m_lastFinalDataCounter
    /\ setup.params.slotsPerRound # 0
    /\ Decrypts(FinalDataKey, setup.addresses, f)
    /\ f.sessionId = setup.params.sessionId

\* The Final_Data is about the armed exchange and has this responder's record.
ReportsExchange(f) ==
    /\ f.sts = LegStsIndex(setup.params, setup.nodeConfig.responderIndex,
                           cycle.pollStsIndex, "final")
    /\ setup.nodeConfig.responderIndex \in f.reports

FinalDataRejected ==
    /\ HandledIn("AwaitingFinalData", "RxSuccess")
    /\ AcceptsFinalData(Heard) => "slot" \in Faults
    /\ ListenAgain
    /\ UNCHANGED <<setup, cycle, m_lastFinalDataCounter, result, lastCall>>

FinalDataWithoutResult ==
    /\ HandledIn("AwaitingFinalData", "RxSuccess")
    /\ AcceptsFinalData(Heard)
    /\ ReportsExchange(Heard) => "distance" \in Faults
    /\ m_lastFinalDataCounter' = Heard.counter
    /\ ListenAgain
    /\ UNCHANGED <<setup, cycle, result, lastCall>>

\* The RangingResult, with what the distance was computed from.
RangingResultOf(f) ==
    [ sessionId    |-> setup.params.sessionId,
      blockIndex   |-> book.currentBlock,
      roundInBlock |-> IF book.currentRound = ScheduledRoundFor(setup.params, book.currentBlock)
                       THEN 0 ELSE 1,
      stamps       |-> <<cycle.pollRx, cycle.respTx, cycle.finalRx, f.stamp>>,
      stsPassed    |-> cycle.finalStsPassed ]

\* The callback is called before the handler listens again; what it does to
\* the listener stays, what it does to the state and the receiver does not.
FinalDataResult ==
    /\ HandledIn("AwaitingFinalData", "RxSuccess")
    /\ AcceptsFinalData(Heard)
    /\ ReportsExchange(Heard)
    /\ m_lastFinalDataCounter' = Heard.counter
    /\ result' = RangingResultOf(Heard)
    /\ \E call \in CallbackCalls :
         /\ ArmPrePollListening(
                SetListener(Reported(radio), radio.listener /\ call # "stop"), setup, book)
         /\ lastCall' = IF call = "none" THEN lastCall ELSE call
    /\ UNCHANGED <<setup, cycle>>

OnFinalData == FinalDataRejected \/ FinalDataWithoutResult \/ FinalDataResult

(***************************************************************************)
(* Timeouts and errors.                                                    *)
(***************************************************************************)
\* Slip: a suspended session still handles timeouts and errors.
ActiveOrSuspended ==
    {"PrePollListening", "AwaitingPoll", "TransmittingResponse", "AwaitingFinal",
     "AwaitingFinalData", "Suspended"}

Active == {"PrePollListening", "AwaitingPoll", "TransmittingResponse", "AwaitingFinal",
           "AwaitingFinalData"}

\* Slip: the listener is not armed again.
ListenTimeoutIgnored ==
    /\ HandledIn("PrePollListening", "RxTimeout")
    /\ radio' = Reported(radio)
    /\ UNCHANGED <<m_state, setup, book, cycle, m_lastFinalDataCounter, result, lastCall>>

\* The listener timed out: receive again, nothing else.
ListenTimeout ==
    /\ HandledIn("PrePollListening", "RxTimeout")
    /\ \E ok \in Outcomes("rx") :
         radio' = StartImmediateRx(Reported(radio), "Listen", ok)
    /\ UNCHANGED <<m_state, setup, book, cycle, m_lastFinalDataCounter, result, lastCall>>

\* Slip: a leg whose window closed is waited for again.
LegTimeoutRetries ==
    /\ \E state \in Active \ {"PrePollListening"} : HandledIn(state, "RxTimeout")
    /\ ReceiveLeg(Reported(radio))
    /\ UNCHANGED <<m_state, setup, book, cycle, m_lastFinalDataCounter, result, lastCall>>

LegTimeout ==
    /\ \E state \in Active \ {"PrePollListening"} : HandledIn(state, "RxTimeout")
    /\ ListenAgain
    /\ UNCHANGED <<setup, cycle, m_lastFinalDataCounter, result, lastCall>>

OnRxTimeout == ListenTimeout \/ LegTimeout

OnRxError ==
    /\ \E state \in Active : HandledIn(state, "RxError")
    /\ ListenAgain
    /\ UNCHANGED <<setup, cycle, m_lastFinalDataCounter, result, lastCall>>

\* Events the handlers return from at once in the state they come in.
Receiving == {"PrePollListening", "AwaitingPoll", "AwaitingFinal", "AwaitingFinalData"}

IgnoredIn(kind) ==
    CASE kind = "RxSuccess" -> SessionState \ Receiving
      [] kind = "TxDone"    -> SessionState \ {"TransmittingResponse"}
      [] OTHER              -> SessionState \ Active

IgnoreEvent ==
    /\ \E kind \in EventKind : \E state \in IgnoredIn(kind) : HandledIn(state, kind)
    /\ radio' = Reported(radio)
    /\ UNCHANGED <<m_state, setup, book, cycle, m_lastFinalDataCounter, result, lastCall>>

HandleEvent ==
    OnPrePoll \/ OnPoll \/ OnTxComplete \/ OnFinal \/ OnFinalData
    \/ OnRxTimeout \/ OnRxError \/ IgnoreEvent \/ DropEvent

-----------------------------------------------------------------------------
(***************************************************************************)
(* The specification.                                                      *)
(***************************************************************************)
ZeroSlotKeys ==
    [ mursk        |-> DeriveMursk(NoUrsk),
      saltedHash   |-> DeriveSaltedHash(NoUrsk, DefaultParams),
      baseStsIndex |-> 0,
      stsIndex     |-> 0 ]

ZeroCycleKeys == [pollStsIndex |-> 0, leg |-> [leg \in Legs |-> ZeroSlotKeys]]

\* A session that was constructed and never started; what it holds of keys
\* nobody else has.
Init ==
    /\ m_state = "Uninitialized"
    /\ radio = [ listener |-> FALSE, mode |-> "Off", window |-> "Listen",
                 stsMode |-> "Off", sts |-> ZeroSlotKeys, event |-> NoEvent ]
    /\ setup = [ ursk          |-> NoUrsk,
                 params        |-> DefaultParams,
                 nodeConfig    |-> [responderIndex |-> 0, blockParityFilter |-> -1],
                 mupsk1        |-> DeriveMupsk1(NoUrsk),
                 mupsk2        |-> DeriveMupsk2(NoUrsk),
                 mursk         |-> DeriveMursk(NoUrsk),
                 saltedHash    |-> DeriveSaltedHash(NoUrsk, DefaultParams),
                 addresses     |-> DeriveAddresses(DeriveMupsk2(NoUrsk), 0),
                 materialValid |-> FALSE ]
    /\ book = [ stashFrame          |-> NoFrame,
                currentBlock        |-> 0,
                currentRound        |-> 0,
                lastPrePollCounter  |-> None,
                lastPrePollStsIndex |-> None,
                warmValid           |-> FALSE,
                warm                |-> ZeroCycleKeys ]
    /\ cycle = [ keysValid      |-> FALSE,
                 keys           |-> ZeroCycleKeys,
                 pollStsIndex   |-> 0,
                 pollRx         |-> NoStamp,
                 respTx         |-> NoStamp,
                 finalRx        |-> NoStamp,
                 finalStsPassed |-> FALSE ]
    /\ m_lastFinalDataCounter = None
    /\ result = NoResult
    /\ lastCall = "none"

Next == ControlCall \/ RadioEvent \/ HandleEvent

Spec == Init /\ [][Next]_vars

\* The chip ends what it was told to do (a window by its frame-wait timeout)
\* and the driver reports it.
FairSpec == Spec /\ WF_vars(RadioEvent) /\ WF_vars(HandleEvent)

-----------------------------------------------------------------------------
(***************************************************************************)
(* Types.                                                                  *)
(***************************************************************************)
Radio == [ listener : BOOLEAN, mode : {"Off", "Rx", "Tx"}, window : {"Listen", "Ranging", "None"},
           stsMode : {"Off", "NoDataSp3"}, sts : SlotCryptoMaterial,
           event : Event \cup {NoEvent} ]

Setup == [ ursk : Ursk, params : RangingSessionParameters, nodeConfig : SessionNodeConfig,
           mupsk1 : Mupsk1Key, mupsk2 : Mupsk2Key, mursk : MurskKey,
           saltedHash : SaltedHash, addresses : MacAddresses, materialValid : BOOLEAN ]

Book == [ stashFrame : Frames \cup {NoFrame}, currentBlock : BlockIndex,
          currentRound : SlotIndex, lastPrePollCounter : Nat \cup {None},
          lastPrePollStsIndex : StsIndex \cup {None}, warmValid : BOOLEAN,
          warm : CycleKeys ]

Stamp == Stamps \cup {NoStamp}

Cycle == [ keysValid : BOOLEAN, keys : CycleKeys, pollStsIndex : StsIndex,
           pollRx : Stamp, respTx : Stamp, finalRx : Stamp, finalStsPassed : BOOLEAN ]

RangingResult == [ sessionId : Nat, blockIndex : BlockIndex, roundInBlock : 0 .. 1,
                   stamps : Stamp \X Stamp \X Stamp \X Stamp, stsPassed : BOOLEAN ]

ASSUME ResultAssumption == NoResult \notin RangingResult

\* The type invariant.
TypeOK ==
    /\ m_state \in SessionState
    /\ radio \in Radio
    /\ setup \in Setup
    /\ book \in Book
    /\ cycle \in Cycle
    /\ m_lastFinalDataCounter \in Nat \cup {None}
    /\ result \in RangingResult \cup {NoResult}
    /\ lastCall \in {"none", "start", "stop", "suspend", "resume"}

(***************************************************************************)
(* Safety.                                                                 *)
(***************************************************************************)

\* The STS registers hold what the leg the session is in needs: a leg that is
\* secured has the STS on, with this leg's keys of the armed exchange under
\* the current session's material; the unsecured legs have it off.  The keys
\* were derived one exchange earlier, or armed before the Pre-Poll was
\* looked at, and control calls may have come in between.
SecuredBy(leg) ==
    /\ radio.stsMode = "NoDataSp3"
    /\ radio.sts = LegKeys(setup, cycle.pollStsIndex, leg)

LegSecured ==
    /\ setup.materialValid /\ cycle.keysValid =>
         /\ m_state = "AwaitingPoll" => SecuredBy("poll")
         /\ m_state = "TransmittingResponse" => SecuredBy("response")
         /\ m_state = "AwaitingFinal" => SecuredBy("final")
    /\ m_state \in {"PrePollListening", "AwaitingFinalData"} => radio.stsMode = "Off"

\* Warm keys are always the keys, under the current material, of the exchange
\* that follows the last Pre-Poll the session decoded: whatever fails or is
\* rejected on the way invalidates them.  (A node that leaves out blocks by
\* their parity does not refresh them in the blocks it leaves out.)
WarmIsNext ==
    book.warmValid /\ setup.materialValid /\ setup.nodeConfig.blockParityFilter < 0 =>
        LET sts == NextPollStsIndex(setup, book)
        IN  /\ Schedulable(setup.params, book.currentBlock, book.currentRound)
            /\ book.warm = [ pollStsIndex |-> sts,
                             leg |-> [leg \in Legs |-> LegKeys(setup, sts, leg)] ]

\* A stashed Pre-Poll is decoded before the session listens again or waits
\* for the Final_Data: the block a result is labelled with, and the keys that
\* are warm at the next Pre-Poll, never come from a stash of an earlier one.
StashDrained ==
    m_state \in {"PrePollListening", "AwaitingFinalData"} => book.stashFrame = NoFrame

\* The material that counts as valid is derived from the current URSK and
\* the current parameters, all of it.
MaterialCurrent ==
    setup.materialValid =>
        /\ setup.mupsk1 = DeriveMupsk1(setup.ursk)
        /\ setup.mupsk2 = DeriveMupsk2(setup.ursk)
        /\ setup.mursk = DeriveMursk(setup.ursk)
        /\ setup.saltedHash = DeriveSaltedHash(setup.ursk, setup.params)
        /\ setup.addresses = DeriveAddresses(setup.mupsk2, setup.params.stsIndex0)

\* stop and suspend hold until the next start or resume, also against an
\* event the chip had latched before the call: the session does not move and
\* the transceiver stays off.
ControlHolds ==
    /\ lastCall = "stop" => m_state = "Idle" /\ radio.mode = "Off" /\ ~ radio.listener
    /\ lastCall = "suspend" => m_state = "Suspended" /\ radio.mode = "Off"

\* An active session that is the radio's listener always has something under
\* way that will call it again: the transceiver is on or an event is waiting
\* to be reported.
NeverDeaf ==
    m_state \in Active /\ radio.listener => radio.mode # "Off" \/ radio.event # NoEvent

(***************************************************************************)
(* Liveness.                                                               *)
(***************************************************************************)

\* Whatever the radio reports, an exchange ends: the session listens for the
\* next Pre-Poll again, or a control call has taken it out.
ExchangesEnd ==
    m_state \in Active \ {"PrePollListening"} ~> m_state \notin Active \ {"PrePollListening"}

=============================================================================
