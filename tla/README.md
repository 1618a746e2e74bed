# A verification of the Aliro UWB ranging core in TLA+

This directory holds TLA+ models of the ranging core in `src/`, the TLC
configurations that check them on small instances, and proofs that TLAPS checks
for every value of the constants. Every definition is a translation of the C++;
what belongs to the peer or to the chip, of which there is no source here, is
modelled from how the code uses it and named as such.

## 1. The system

The library is the *responder* side of an Aliro / CCC digital-key ranging
session over a DW3000 UWB transceiver. A session lives in *ranging blocks*,
a block holds a number of *rounds*, a round a number of *slots*. In the active
round of a block the initiator (the phone) and the responder (the reader)
exchange five frames:

    slot 0      Pre-Poll    initiator -> responder   payload, no STS
    slot 1      Poll        initiator -> responder   STS, no payload
    slot 2+i    Response    responder i -> initiator STS, no payload
    slot 2+n    Final       initiator -> responder   STS, no payload
    after it    Final_Data  initiator -> responder   payload, no STS

The Pre-Poll announces the exchange (block, round, STS index of the Poll). The
Final_Data reports the initiator's timestamps; with its own three the responder
computes a distance. The STS of a frame is generated from a key that changes
with the round and an IV that changes with the slot, so both sides have to agree
on the 32-bit *STS index* of every leg.

A slot takes about 2 ms and the Poll comes one slot after the Pre-Poll, too
soon to decode the Pre-Poll and derive keys in between. So the session keeps
*warm* keys, predicted for the next exchange; arms them as soon as a Pre-Poll
is received, before it looks at it; *stashes* the Pre-Poll and decodes it after
the Final. Without warm keys (the first exchange, or after something went
wrong) it *bootstraps*: it decodes first and then arms. This reordering is
where the design is delicate, and what most of the properties are about.

### Components

| Component | State | Operations | What makes it correct | Modelled |
|---|---|---|---|---|
| `session/RangingSession` | state, URSK, parameters and derived material; stash, block, round, replay marks, warm keys; armed keys and timestamps; last Final_Data counter | `start`, `stop`, `suspend`, `resume`, `resumeWithAnchor`; the listener's `onRxSuccess`, `onRxTimeout`, `onRxError`, `onTxComplete` | each leg is secured by its own keys; warm keys are those of the next exchange; control calls hold; it never goes deaf; an exchange ends; a result is of one exchange | `RangingSession`, `RangingReports`, `RangingExchange`; its results in `RangingResults` |
| STS schedule (in `RangingSession.cpp`) and `ranging/HoppingCalculator` | none | rounds per block, the Poll's STS index, the scheduled round, the next exchange | a round is in its block, an index within its width, and both sides compute the same | `StsSchedule` |
| `crypto/CccKeyDerivationEngine` | none | session keys, salted hash, addresses, slot keys, STS IV | keys differ exactly when an input does | `CccKeyDerivationEngine` (terms) |
| `transceiver/DW3000Controller` | listener, transceiver mode, STS mode, STS key cache, PDoA switch; two globals | `configurePhy`, `configureStsMode`, `loadStsKeyIv`, `startDelayedRx/Tx`, `startImmediateRx`, `forceReceiverOff`, the event callbacks | the globals do not dangle; a cached key is the chip's; every reception has a timeout; the PDoA flag tells the truth | `DW3000Controller`, as the session sees it; `TransceiverDriver`, from the inside |
| `ranging/RangeConsensusFilter` | two streaks, last distance, lowest quality, trust | `reset`, `ingest` | trusts after K agreeing readings and only then | `RangeConsensusFilter`, fed in `RangingResults` |
| `crypto/Sp0SecurityEngine` | none | AES-CCM* of payloads | the wrong key, address or a changed frame fails | one operator, `Decrypts` |
| `protocol/FrameCodec` | none | encoders and decoders of the frames | decoding inverts encoding | a frame is a record |
| `protocol/SetupMessageCodec` | the parameters being negotiated, the caller's anchor | M1 to M4, resume, TLV | what is written is what both sides can do, M3 announces what is used, an anchor is of one response | `SetupNegotiation`, with the caller external |
| `ranging/NlosDetector`, `AoaStabilityDetector` | warm-up and hold counters | `evaluate`, `reset` | the gate opens and closes after the counts it says; what was not read is no evidence | `AoaStabilityDetector`; the verdict in `RangingResults` |
| `ranging/DistanceEstimator` | none | DS-TWR quotient, scaling | the distance is the flight's, whatever wraps | `DoubleSidedTwr` |
| `ranging/AoAEstimator` | none | `asin` of a phase difference | numeric | no (floating point); a sample brings its angle |
| `crypto/MbedTlsCryptoProvider` | none | wrapper of Mbed TLS | passes failures on | its failures only |
| `hal/*`, `core/*`, `deca_port.c` | none | interfaces, strong types, stubs | - | widths only |

### How they interact

The application calls the session and polls the driver. The driver
(`dwt_isr`) calls the controller's C callbacks, which find the controller
through a global and call the session as its `ITransceiverListener`. The
session's handlers call back into the controller (configure, load keys, start
the next reception or transmission), use the key engine, the codec and the CCM*
engine as pure functions, and at the end call the distance estimator, the
detectors, the filter and the application's range callback, synchronously, from
within the handler. There is no lock anywhere: `deca_port.c` stubs the driver's
mutex. Before all that the application negotiates the parameters with the peer
through `SetupMessageCodec`, over a link of its own, and hands them to `start`;
`resumeWithAnchor` gets the anchor of a later message.

### What is hard

* Between the moment the chip has latched an event and the moment its handler
  runs, a control call may have changed everything.
* Keys are used an exchange after they were derived, and a frame is decoded
  after keys were armed because of it.
* A leg may be lost, garbled, or somebody else's, at any point.
* A derivation, a PHY configuration, a late reception or transmission may
  fail in the middle of a handler, after part of the state was written.
* The range callback runs inside a handler that goes on after it.
* Block numbers have 16 bits, STS indices 32, timestamps 40 and the differences
  taken of them 32, and all wrap.
* Counters of readings, of blocks to hold and of readings to warm up decide
  whether a distance or an angle is believed; failed starts come in between.
* A setup message that is refused has written part of the parameters already.
* The driver keeps a cache of what it last wrote to the chip in globals that
  controllers, resets and failing configurations share.

`PROJECT.json` lists the hazards at their lines, with the properties that cover
each.

## 2. The modules

    StsSchedule <- CccKeyDerivationEngine <-+
                           DW3000Controller <-+- RangingSession <-+- RangingReports <- MCRangingReports
                                                                  +- MCRangingSession
                                                                  +- RangingExchange <- MCRangingExchange
    StsSchedule <- SetupNegotiation <- MCSetupNegotiation
    RangeConsensusFilter <-+
    AoaStabilityDetector <-+- RangingResults <- MCRangingResults
    DoubleSidedTwr       <-+

    RangingService   is the abstract specification RangingReports implements (INSTANCE)
    DW3000Controller is the abstract radio TransceiverDriver implements (INSTANCE)

(an arrow points to what a module extends; `X_proofs` extends `X`;
`MCRangingReports` also takes the instance of `MCRangingSession`).

**StsSchedule.** Pure operators: `RoundsPerBlock`, `PollStsIndexFor`,
`ScheduledRoundFor`, `CalculateRoundIndex`, `NextScheduledExchange`,
`BaseStsIndex`, the leg offsets and the serial comparison of STS indices. The
widths are the constants `U16` and `U32`, and the prime of the hopping hash is
`HoppingModulus`; in the code they are 2^16, 2^32 and 65521. Every `% U32` is
where unsigned arithmetic wraps. `Schedulable` is the Boolean that
`nextScheduledExchange` returns.

**CccKeyDerivationEngine.** A key is the term of what it is derived from
(`<<"MUPSK1", ursk>>`), so equality of keys is equality of inputs. The bytes of
the salted hash are cut to the precision they have in the code. A slot's keys
record the round's first STS index (key) and the slot's (IV).

**DW3000Controller.** The radio as a record (`listener`, `mode`, `window`,
`stsMode`, `sts`, `event`) and one operator per call. A reception or
transmission ends by *latching* an event with the transceiver off;
`forceReceiverOff` does not take a latched event back, because the driver
reports it from the status it has already seen. When `dwt_configure` fails, or
a delayed start is late, the state it leaves is that of the code.

**RangingSession.** The heart. The variables group the class's members:

| Variable | Members |
|---|---|
| `m_state` | `m_state` |
| `radio` | the controller and the chip |
| `setup` | `m_ursk`, `m_params`, `m_nodeConfig`, `m_mupsk1`, `m_mupsk2`, `m_mursk`, `m_saltedHash`, the addresses, `m_materialValid` |
| `book` | `m_stash...`, `m_currentBlock`, `m_currentRound`, the two Pre-Poll replay marks, `m_warm`, `m_warmKeysValid` |
| `cycle` | `m_armed`, `m_armedKeysValid`, the Poll's STS index, the timestamps, the Final's STS verdict |
| `m_lastFinalDataCounter` | itself and its flag (`None`) |
| `result` | what the range callback was last given |
| `lastCall` | history: the last control call that succeeded |

One action is one control call or one handler with everything it does, split by
outcome (`BootstrapRejected`, `BootstrapOtherParity`, `BootstrapPrePoll`, ...).
`ArmPrePollListening` is the tail most of them share, including the decoding of
a stash. The constant `Faults` says what may fail: `"material"` (the session's
keys: after any number of the five steps), `"slot"` (a leg's keys: after any
number of legs), `"phy"`, `"rx"`, `"tx"` (too late, or refused), `"distance"`.
A timestamp is the *stamp* of the exchange it was taken in. The environment is
open: whenever the receiver is on, any frame of `Frames` may come, with or
without a good STS.

**RangingExchange.** The session against an initiator and the air, to say what
an open world cannot: that an answer is to the current Poll, that a result is
of one exchange, that the session recovers. The initiator is external. It is
the session's mirror image, built from the same schedule and key operators,
except that its block number does not wrap (only the announced one does). The
STS of a leg is good exactly when the radio's keys are the initiator's. Time is
abstracted to order: a handler ends before the next leg is sent, and a window
does not close before its leg was sent. Anything that breaks this order (a lost
or garbled leg, a foreign frame, a control call) is a *disturbance*, and
`MaxDisturbances` bounds them. In the adaptive hopping modes the initiator may
choose any round. The assumptions say what the two sides share; `Orderly` is
what the recovery needs besides, and holds in `exchange`.

**RangingService.** What a responder session promises its application: a phase
(off, suspended, listening, open, answered) and a *ledger* of how often each
exchange was reported since the session was set up. An exchange is reported
only once its Poll was answered, and once only; only control calls leave the
cycle. It knows no keys, frames, stashes or warm paths.

**RangingReports.** The session with that ledger as a history variable, and the
refinement: `phase <- PhaseOf(m_state)`, the ledger is itself. An exchange is
identified by what its Final_Data is bound to, the payload's key and the STS
index of the Final. The ledger begins anew when `m_lastFinalDataCounter` is
forgotten, that is with a start or a resumption whose material was derived. It
assumes that the initiator sends the Final_Data of an exchange once
(`OneFinalDataPerExchange`); the air may repeat the frame.

**RangeConsensusFilter**, **AoaStabilityDetector.** `reset` and `ingest` of
each, with a history of what they were told, so that their counters can be
compared with it.

**DoubleSidedTwr.** `DistanceEstimator` and the session's intervals: the
differences of 40-bit timestamps cut to 32 bits, the initiator's 32-bit report,
the quotient that truncates toward zero, the casts to `int32_t`, and the
scaling to millimetres. `OwnStamps` and `PeerReport` say what the two sides
note of an exchange that takes `tof`, `reply1` and `reply2` when the clocks run
at rates `b` and `a`; `Fits` is when that is within the counters.

**RangingResults.** The end of `handleFinalDataReception`, from the decoded
Final_Data on, composing the four: the own record among those of the
responders, the distance, the first-path verdict (`EvaluateNlos`), the angle
and its gate, the filter, and the result;
starts, failing starts and resumptions reset what the code resets. A *sample*
is everything an exchange leaves to be judged.

**SetupNegotiation.** `parseM2`, `parseM4`, `parseResumeResponse` and `buildM3`.
A message is a sequence of elements; an element has a tag, a size that is right
or wrong, and a value. Parsing goes through the elements and writes as it goes,
so a refused message leaves what came before the refusal. The peer may send
anything; the caller is external and goes through the stages in their order,
going on when a message was accepted and starting over whenever it likes, over
the parameters it has. Fresh parameters have the default MAC mode and number of
responders, or those of the capabilities; `preset` is a history of which, and
`told` one of what the peer said, by tag.

**TransceiverDriver.** Controller objects, the globals `s_activeController`,
`s_activeSpi` and the STS key cache, the PDoA flag, and the chip's registers:
which key it holds, whether the frame-wait timeout is enabled and what it is
set to. Controllers are constructed, destroyed, reset and called in any order,
on one chip. A `dwt_configure` that fails has done any part of its work. A
controller is *ready* when it is the active one and the last to have configured
the chip. It needs no MC module: its constants are sets of model values.

**Slips.** Definitions with a comment that starts with "Slip" are not used by
the specifications. Each is a plausible mistake in one definition (a dropped
guard, a missing reset, an index left behind); `PROJECT.json` pairs each
property with one that breaks it.

## 3. The runs

Deadlock is checked except in the exchange runs, which set `CHECK_DEADLOCK
FALSE`: they bound exchanges and disturbances and really stop. "States" are
distinct states.

| Run | Question | Instance | States |
|---|---|---|---|
| `session_calls` | Are the session's invariants safe from control calls at any time, and does it implement the service? | continuous hopping, two exchanges, two anchors, late transmissions, failing distances | 195,336 |
| `session_faults` | ... from failures of every kind? | plain schedule, every fault, one exchange | 171,397 |
| `session_schedules` | ... under the other schedules and filters, with a callback that may call back? | two-round, adaptive, and invalid (zero slots) parameters; two parity filters | 435,495 |
| `session_progress` | Does every exchange end? | plain schedule, faults that end an exchange early | 67,934 |
| `exchange` | Is every answer and result of the right exchange, and does the session recover? | hopping with two rounds per block, or adaptive; 5 exchanges, 4 disturbances | 923,319 |
| `results` | Are the distance, the trust, the angle's gate and the verdict those of what was measured? | 6 samples, up to 5 readings between resets, K = 3 | 361,348 |
| `setup` | Is what is written shared by both sides and what M3 announces, and the anchor of one response? | two devices, counts preset or left at the default, 36 messages | 55,142 |
| `driver` | Do the globals, the key cache and the timeouts survive every order of calls? | 2 controllers, 2 keys, 1 IV | 1,051,297 |

The properties:

* `LegSecured`: in each secured leg the radio has the STS on and holds *that*
  leg's keys, of the armed exchange, under the current material; in the others
  the STS is off.
* `WarmIsNext`: valid warm keys are those of the exchange after the last
  decoded Pre-Poll. (Stated for nodes that respond in every block: a node with a
  parity filter does not refresh them in the blocks it leaves out.)
* `StashDrained`: a stash never outlives its exchange.
* `MaterialCurrent`: material that counts as valid is all of the current URSK
  and parameters (without failing derivations; see the findings).
* `ControlHolds`: `stop` and `suspend` hold, also against an event latched
  before (when the callback makes no control call; see the findings).
* `NeverDeaf`: an active session that is the listener has a reception, a
  transmission or an event under way (if arming does not fail: nothing retries
  a reception that could not be started, so with `"rx"` failures this is
  false, and the code promises nothing there).
* `ExchangesEnd`: a leg's wait always ends.
* `OneExchange`: a result whose Final had a good STS has all four stamps of one
  exchange.
* `AnswersThePoll`: the responder transmits only to answer the current Poll,
  under the keys the initiator expects.
* `Recovers`: at the end of the second undisturbed exchange in a row the
  session has that exchange's result, with its timestamps, its block and the
  round of the block, whatever was before.
  One is not enough: the session may spend it decoding what it had stashed.
* `ImplementsService`: the session implements `RangingService`; in particular no
  exchange is reported twice, although Pre-Polls and Final_Data are repeated
  and warm keys arm an exchange before its Pre-Poll is looked at. (Also when
  derivations and the radio fail: by the proof, and by TLC in the instance of
  `session_faults` with `ReportsSpec` for its specification.)
* `TrustIsConsensus`, `StsStreakCounts`: the filter's answers in terms of its
  history, with the lowest quality of the readings the STS streak stands for.
* `GateIsHistory`: the angle's gate is closed exactly for the warm-up and for
  the hold after each jump, as the history has them, across resets and starts
  that fail.
* `SteadyAngleOpens`: an angle that is steady for long enough opens the gate.
* `DistanceIsTrue`: a result's distance is between those of its flight on the
  two clocks, and exact when they agree.
* `UnreadableIsNoEvidence`: powers the driver could not compute, or that make
  no sense, are not valid evidence; a result that is non-line-of-sight without
  them is so by the angle's gate.
* `NegotiatedIsShared`, `HoppingIsShared`: whatever was written, also by a
  message that was refused, is what both sides can do; the hopping bits, which
  the two sides number differently, mean one mode.
* `ScheduleAsAnnounced`: from M3 on, a peer that goes by M3 has the device's
  durations, slots, rounds and hopping mode, and hashes the same bytes for them;
  the divisions and the casts to a byte lose nothing. The MAC mode (a second
  round per block) and the number of responders (the slot of the Final, and a
  hashed byte) are announced from the capabilities and used from the
  parameters: of these the same is claimed *if* the caller gave its parameters
  those of the capabilities when it started on fresh ones, and nothing if it
  did not (see the observations).
* `BlockHoldsARound`: a negotiated block holds a round, and a number of rounds
  16 bits can count, so neither fallback of the session's schedule is reached.
* `AnchorIsWhole`: a session is resumed on the index and the time of one
  response, which was accepted, although refused ones have written either.
* `NewestIsActive`: the global never points to a destroyed controller, and the
  one constructed last has the chip.
* `KeysAsAsked`: the chip holds the STS key and IV last asked for, although a
  key that is cached is not written.
* `ReceptionsEnd`: every reception has a frame-wait timeout, enabled and not
  zero, also after a transmission zeroed it.
* `PdoaAsConfigured`: the flag that makes a PDoA valid says how the chip is
  configured.
* `SeenAsRadio`: every step of a controller in use is one of the operators of
  `DW3000Controller`, or none: the radio of the session's model is what the
  driver implements.

The last four are claimed of a controller that is ready. Two controllers that
take turns on one chip without configuring it again do see each other's
registers; nothing in the code says that they may.

### Bounds, and why they are enough

* `U16 = 16` and `HoppingModulus = 13` (the largest prime below, as 65521 is of
  2^16). `U16` has to exceed the 8 rounds of a block or the schedule counts as
  invalid and does not hop. `U32` is 4096 in most runs; in `session_calls` it
  is 683, in `session_faults` 108 and in `session_schedules` 300, each chosen
  such that an STS index of the frames in use wraps *within* a round.
  `session_calls` starts in block 14 and hops on to block 15.
* Blocks are 96 ms, the unit the code divides durations by, with slots of 2 ms:
  8 rounds of 6 slots (2 rounds of 24 in the adaptive exchange instance).
* One or two exchanges' frames in the session runs: handlers look at most at
  the armed exchange and the one predicted, and a frame may be heard any number
  of times, so the runs have no bound on steps. In the exchange runs 4 or 5
  exchanges let two disturbed ones precede the two clean ones `Recovers` needs.
  4 disturbances include a start, so three further ones in any position.
* Results: 5 readings are two more than K = 3 and the warm-up of 3, so a streak
  can break and be rebuilt, a hold of 2 run out and the gate open again. The
  samples lie on both limits of a plausible distance, beyond them, and within
  and beyond the spread of each other. `D40 = 163840` and `D32 = 40960` keep the
  ratio of the widths small: the exchanges start 3840 ticks before the 40-bit
  counter wraps, and the one of 20 m outlasts the 32-bit counter of the
  initiator's report. `Swings = <<180, 90, 45>>`: an angle of the samples is at
  most 180 from the reference, every reading of a steady angle halves that, and
  45 is below `JumpThreshold = 50`, so such an angle jumps for at most
  `Settling = 2` readings. The theorems cover all other lengths and limits.
* Setup: two devices and messages that are mostly of one or two elements, with
  both ends of each range, the wrong size, an unknown tag, nothing in common and
  a repeated tag. Longer messages do what several short ones do: a setup over
  the parameters of an earlier one, or a message after a refused one, is in the
  instance. The widths are the code's.
* Driver: two controllers are enough for one to take the chip from the other and
  die before or after it; two keys for a cached one to be the wrong one.

### Fairness

`FairSpec` adds weak fairness of `RadioEvent` and `HandleEvent`: what the chip
was told to do ends (every reception is started with a frame-wait timeout,
every transmission ends by itself), and the driver's event is reported. Nothing
is assumed of the peer, or of control calls. The exclusion of `"rx"` failures
in `session_progress` is real: a reception that cannot be started leaves a
session waiting for nothing.

### Findings

Four runs show where the code does other than its documentation says; each
ends in a counterexample.

| Run | The code | The documentation |
|---|---|---|
| `session_callback` | `stop` or `suspend` called by the range callback is undone: the handler goes on to listen (`RangingSession.cpp:897`) | they "control the session" |
| `session_material` | a second `start` whose derivation fails part-way goes on with a mix of two URSKs' keys, `m_materialValid` is never cleared (`RangingSession.cpp:95`) | "false on failure" |
| `exchange_parity` | the warm path does not test the parity: a node for even blocks answers odd ones (`RangingSession.cpp:408`) | "0 = Even blocks, 1 = Odd blocks" |
| `results_pdoa` | `m_finalPdoaValid` is never read: the angle of a Final whose STS could not be read is reported as valid (`RangingSession.cpp:853`) | the PDoA is "garbage unless the STS CIR locked" |

Observations without a run of their own:

* At the wrap of the announced 16-bit block `pollStsIndexFor`
  (`RangingSession.cpp:603`) multiplies the small number again, and the predicted
  STS index falls back to that of block 0. If the initiator's index goes on,
  every later prediction is wrong: `Recovers` fails in `exchange` with
  `MCSchedules = {"plain"}` and `FirstBlockNumber = 14` (which `MCOrderly` rules
  out). What the initiator does
  there is not in this repository, so no run says that this is an error.
* In the adaptive modes an announced round other than 0 is labelled as the
  second round (`:885`), where `RangingSession.hpp:52` speaks of two-round mode.
* `DW3000Controller.cpp:216` says that a frame-wait timeout of 0 disables it, and
  `:409` that it fires at once; the code enables the timeout and writes it before
  every reception, so it does not matter which is right (`ReceptionsEnd`).
* `SetupMessageCodec.cpp:9` numbers the hopping bits differently from the
  constants below it, and `:260` says that hopping is not implemented by the
  session, which implements it. `HoppingIsShared` holds of the constants.
* M3 announces `macMode` and `responderCount` of the capabilities
  (`SetupMessageCodec.cpp:298`, `:302`), the session goes by those of the
  parameters (`RangingSession.cpp:121`, `:380`, `:649`), and no parser writes
  them; the caller has to. If it does not, a device whose capabilities differ
  from the defaults hashes another `rcfg[12]` than a peer that reads M3, expects
  the Final in another slot and no second round: without its hypothesis
  `preset = PresetOf(localCaps)`, the second half of `ScheduleAsAnnounced` fails
  in `setup`. No caller is in the repository. ConfigId, pulse shape
  and sync code index are taken unchecked. An M2 that is accepted need not have
  any element: the duration is then 0, and the session has no schedule
  (`session_schedules` runs such parameters).

## 4. The proofs

The proof modules hold theorems for every value of the constants: any schedule,
any widths, any set of frames, parameters and anchors, and any faults not
excluded by a hypothesis. The constants' assumptions (`WidthAssumption`,
`NoUrskAssumption`, `SessionAssumption`, `OneFinalDataPerExchange`,
`FilterAssumption`, `StabilityAssumption`, `TickAssumption`,
`ResultsAssumption`, `SwingAssumption`, `ResultAssumption`, `PeerAssumption`,
`ScheduleAssumption`, `ForeignAssumption`, `CapabilitiesAssumption`,
`MessagesAssumption`, `DriverAssumption`) are evaluated by TLC in every run of a
module that extends theirs.

**StsSchedule_proofs.** `HopIsARound`: the hopping formula stays within the
block for every block, key and number of rounds, because the hash is below
`HoppingModulus <= U16` and is scaled by `rounds / U16`. `NextIsScheduled`: the
predicted exchange has indices within their width, and is a round of its block
whenever the schedule is predictable. The lemmas on the ranges of STS indices
are those the session's type invariant rests on. The solver has no theory of
products of two variables, so a few lemmas (`ProductNat`, `RemainderRange`,
`QuotientNat`) state what is needed of them.

**RangingSession_proofs.** The handlers fall into few kinds: `StepCases` splits
`Next` into control calls, steps back to listening (`BackToListening`), the
steps along an exchange and the rest, and each proof goes through these.

| Theorem | Invariant | Strengthening | Assumes |
|---|---|---|---|
| `TypeCorrect` | `TypeOK` | inductive as it is | - |
| `StashAlwaysDrained` | `StashDrained` | inductive with `TypeOK` | - |
| `WarmKeysAreNext` | `WarmIsNext` | `WarmInv`: valid warm keys are in any case a whole exchange's keys for their own Poll index, besides being the next one's. A node with a parity filter needs the first half, on which the proof of `LegSecured` rests | - |
| `LegsAlwaysSecured` | `LegSecured` | `SecuredInv` and `WarmInv`: `KeysArmed` adds that in the secured legs the armed keys are those of all three legs, which is what the next leg is loaded from; `WarmInv` is where they come from | - |
| `ControlCallsHold` | `ControlHolds` | inductive with `TypeOK` | `CallbackCalls = {"none"}` |
| `SessionNeverDeaf` | `NeverDeaf` | `DeafInv`: the transmitter is on only in TransmittingResponse, the receiver never is there, and a pending event is one the state does not ignore | no `"material"`, `"phy"`, `"rx"` failure |
| `MaterialAlwaysCurrent` | `MaterialCurrent` | inductive with `TypeOK` | no `"material"` failure |

The hypotheses are those under which the property holds: without the first
and the last the findings are counterexamples, without the second a session can
be left with its receiver off.

**RangeConsensusFilter_proofs.** `FilterInv` relates each counter to the history:
the streak `n` is the *longest* run (the last `n` readings agree, and if
`n < K` the last `n + 1` do not), and the stored distance is the last reading's
if that was plausible. `FilterTypeCorrect`, `TrustCorrect` and
`StsStreakCorrect` follow for every K and all limits; the lemmas on histories
say how the last readings of a history change when one is added.

**RangingReports_proofs.** `SessionImplementsService`: every step of the session
is a step of `RangingService` or a stutter, for all frames, parameters and
faults. Most of it goes action by action through `PhaseOf`; what needs an
invariant is that an exchange is not reported twice. `LedgerInv` is `TypeOK`
with `LedgerMarked`: a reported exchange has its counter at or below
`m_lastFinalDataCounter`. A Final_Data that gets as far as a result has a
counter above the mark, and by `OneFinalDataPerExchange` any other frame of its
exchange has the same counter; so its exchange was not reported.

**RangingResults_proofs.** Every step of the composition is a step of the
filter alone or leaves it be (`ResultsStepIsFilterStep`), so `FilterInv` and
with it `ResultsFilterCorrect` carry over. `GateCorrect` rests on `AoaInv`,
which ties the two counters of the detector to the history (`WarmupIsHistory`:
the readings still to come; `HoldIsHistory`: how long ago the last jump was).
`DistanceCorrect` is the arithmetic below, applied to the samples that fit.
`SteadyCorrect` rests on `SteadyInv`: an angle that has been the same for `n`
readings is within `Swings[n + 1]` of the reference, because each reading halves
the distance, so none of them jumps from the `Settling + 1`-th on; the hold then
runs out, which `GateIsHistory` turns into an open gate.
`UnreadableCorrect` needs no more than the actions.

`IntervalsAreCounted`: wherever the two counters stand, the four intervals
computed are the ticks that passed, with the own ones cut from 40 to 32 bits.
`FlightBetweenClocks`: with rates `a` and `b` the numerator is `2ab * tof * S`
and the sum of the intervals `(a + b) * S` for one `S = 2 tof + reply1 +
reply2`, so the quotient is a mean of the flight on the two clocks, truncated
towards one of them; under `Fits` the casts to 32 bits are the identity.

**RangingExchange_proofs: safety.** `ResultsOfOneExchange` and
`ResponsesAnswerThePoll` hold for every schedule within `ScheduleAssumption`, any
number of exchanges and disturbances, every fault and every filter. Their
invariant is `ExchangeInv`: `TypeOK`, `WarmInv` and `SecuredInv` of the session, and

| Part | What it says | Why it is needed |
|---|---|---|
| `PeerOK` | the initiator's type, and that it is at most a block further per exchange | the frames it sends are in `Frames` |
| `SetUpForPeer` | valid material is that of the initiator's URSK and parameters, also when a later derivation failed part-way | a key the session derives is one of the schedule both share |
| `ScheduledKeys` | warm keys, and armed ones while it waits for the Poll, are for an index some Poll can have | with `FinalIsNoPoll`: a late Final is never taken for a Poll |
| `EventOfExchange` | a latched event is of the exchange under way: its frame, its stamp, and which leg a good STS was of | the handler runs later than the radio |
| `CycleOfExchange` | from TransmittingResponse on the initiator is past its Poll and the stamps taken are of its exchange; the transmitter has the STS it expects | both theorems follow from it |

That a Poll with a good STS is the current one (`PollIsOwn`) takes the injectivity
of the key terms and `FinalIsNoPoll`: an index of a Poll is the first one's plus
whole rounds, the Final's lies strictly inside a round, and the indices do not
come round. This is what `ScheduleAssumption` says: the Final's slot is in the
round (`responderCount + 1 < slotsPerRound`) and `U32` exceeds the slots of a
session. In the code's units a block has at most 255 * 96 ms / 1 ms = 24480
slots, and 65536 blocks of them are fewer than 2^32.

**RangingExchange_proofs: recovery.** `SessionRecovers` has a hypothesis,
`Orderly`: nothing of the session's own fails and it answers every block; a block
has rounds, and in two-round mode the second round lies after the first and in the
block; the block index does not wrap; and the STS indices of a session take up at
most half of theirs, so that the serial comparison orders them (65536 blocks of
24480 slots do). The hypothesis is not only the proof's: with `"rx"` failures,
a parity filter or a wrapping block index (see the observations above) the
property is false. TLC evaluates `Orderly` in `exchange` (`MCOrderly`). The
invariant `RecoveryInv` has three layers:

* `OrderlyInv`: `ExchangeInv`, the session's `DeafInv` and `StashDrained`, and that
  the initiator has begun an exchange outside its gaps (`PeerCounts`), that the
  replay marks and the stash are of exchanges begun (`PeerBook`, with `Earlier`),
  and that the last Final_Data's counter never bars the current one
  (`FinalMark`). Hence a current Pre-Poll is never refused as a replay.
* `Knowing`: while an exchange is undisturbed, a running session has the current
  Pre-Poll received, noted or stashed, and is listening when the exchange ends.
  This is the first of the two exchanges: whatever state the session was left in,
  a window that closes, a stash or a Pre-Poll brings it there.
* `Recovering`: after one clean exchange the session is in step with the initiator
  in each phase (`InStep`: what it waits for, or the event its handler is about to
  see), because its keys are for the next exchange (`WarmForThePoll`).
  `Recovered`: after the second it has the result, which is `Recovers`.

**SetupNegotiation_proofs.** `SetupInv` ties each parameter to what was last
told of it, element by element, which is why a refused message does no harm;
`StageInv` adds what holds at each stage (what M3 says, whose anchor it is).
`ScheduleAlwaysAnnounced` needs of the first that the mode is the one of the
bits and that the counts are still those the caller gave (`PresetOf(params) =
preset`); `SameSchedule` says that a schedule is a function of what M3 announces.
`BlockAlwaysHoldsARound` assumes `U16 > 2040`, the rounds of the longest block
with the shortest slots (in the code `U16` is 65536).

**TransceiverDriver_proofs.** `DriverInv` is the type invariant, `AliveInv` (the
active and the configuring controller exist) and `ReadyInv`: on the chip of a
ready controller a valid cache says what the chip holds, and the registers are
what was asked for, except for what a transmission zeroes, which the next
reception writes. `DriverSeenAsRadio` then goes call by call.

**Only model-checked:** `ExchangesEnd`, which is liveness under fairness. Every
other property of a passing run has its theorem. TLAPS here has no liveness under
fairness, no `ENABLED`, and no induction over data; so what a recursive
definition computes stays with TLC too (only the instances in
`MCRangingSession` have one).

## 5. What is not modelled, and why

* *Unsynchronized threads.* Each call and each handler is one step, as an
  integrator has to make it. A control call on another thread in the middle of
  a handler is a data race, and undefined.
* *The bytes.* KDF, CMAC and CCM* are terms; frame and TLV layouts are records
  and sequences of elements, so the encoders, `buildRangingNotification` (a
  constant message) and a message cut off in the middle of an element (refused
  like one of the wrong size) have no model of their own. A stash is the whole
  frame; the code's buffer holds 128 bytes, more than a Pre-Poll has, and what
  is cut off a longer frame is not looked at.
* *Numbers.* `AoAEstimator` is floating point. In `DistanceEstimator` the sum
  with the antenna delay and the 64-bit products overflow only for intervals no
  exchange of a block can have; `Fits` excludes them. Which numbers
  `configurePhy` writes to the PHY registers is left out.
* *The link.* A transfer on the SPI bus does not fail. That Mbed TLS fails is
  the fault `"material"` or `"slot"`; its wrapper keeps no state.
* *The setup's caller.* Only the order of its calls; that slot bits above 6 are
  not offered and that the device asks for at least one block are assumptions
  on its capabilities (`CapabilitiesAssumption`): the code checks neither.
* *Time.* Only order, as said above; that a handler meets its slot is a matter
  of hardware.
* *A lost interrupt.* TransmittingResponse has no timeout of its own.

## 6. The plan

Done: the schedule, the keys, the session and the service it implements, the
exchange, the results, the setup and the driver; every safety property of the
passing runs and both refinements proved, for every value of the constants.

Next, in this order:

1. Two contexts: the handlers of `RangingSession` cut at their calls into the
   driver, with a control call in between, for integrations that serialize the
   calls into the driver but not those into the session.
2. The bytes of the frames and of the TLV elements, as far as a length can be
   wrong in more ways than one.
