-------------------------- MODULE TransceiverDriver --------------------------
(***************************************************************************)
(* transceiver::DW3000Controller from the inside: controller objects that  *)
(* come and go, the globals they share (the active controller with its     *)
(* SPI device, and the cache of the STS key), and the registers of the one *)
(* chip they drive.                                                        *)
(*                                                                         *)
(* The chip and the vendor's driver are external.  They are modelled from  *)
(* how the controller uses them: a hardware reset clears every register;   *)
(* dwt_configure rewrites SYS_CFG, and one that fails has done any part of *)
(* that; a write without an active SPI device is lost; a reception or a    *)
(* transmission ends with a latched event; dwt_isr reports a latched event *)
(* through the callbacks.  A transfer that fails on the wire is left out.  *)
(*                                                                         *)
(* Any controller that is alive may be called at any time, except that a   *)
(* reception or a transmission is started only when the transceiver is     *)
(* off, as the session does.                                               *)
(***************************************************************************)
EXTENDS Naturals

CONSTANTS
    Controllers, NoController,
    Keys, NoKey,      \* STS keys; NoKey is what a reset leaves in STS_KEY
    Ivs, NoIv,
    NoEvent

ASSUME DriverAssumption ==
    /\ NoController \notin Controllers
    /\ NoKey \notin Keys
    /\ NoIv \notin Ivs

VARIABLES
    active,    \* s_activeController; s_activeSpi is its device
    keyCache,  \* s_stsKeyValid and s_lastStsKey
    object,    \* the controllers: whether they exist, and their members
    chip,      \* the registers and the transceiver's state
    newest,    \* history: the controller constructed last
    user,      \* history: the controller that configured the chip, until undone
    asked      \* history: the STS key and IV asked for since then

driverVars == <<active, keyCache, object, chip, newest, user, asked>>

\* Mode1 and Mode3 differ in nothing that follows.
PdoaMode == {"Off", "Mode3"}

\* What the radio looks like to the session.
Seen == INSTANCE DW3000Controller

-----------------------------------------------------------------------------
\* What a reception has brought matters to the session, not here.
Event == [kind : Seen!EventKind]

Object == [alive : BOOLEAN, initialized : BOOLEAN, pdoaEnabled : BOOLEAN, listener : BOOLEAN]

NoObject == [alive |-> FALSE, initialized |-> FALSE, pdoaEnabled |-> FALSE, listener |-> FALSE]

ResetChip == [stsMode |-> "Off", key |-> NoKey, iv |-> NoIv, rxwtoe |-> FALSE,
              fwto |-> "None", pdoa |-> "Off", mode |-> "Off", event |-> NoEvent]

\* The calls below are made on a controller that is alive.
Alive(c) == object[c].alive

\* What a write through the active SPI device makes of the chip.
Written(new) == IF active = NoController THEN chip ELSE new

\* A controller drives the chip as it has configured it.
Ready(c) == active = c /\ user = c

-----------------------------------------------------------------------------
(***************************************************************************)
(* Life and death of controllers.                                          *)
(***************************************************************************)
Construct(c) ==
    /\ ~ Alive(c)
    /\ object' = [object EXCEPT ![c] = [NoObject EXCEPT !.alive = TRUE]]
    /\ active' = c
    /\ newest' = c
    /\ UNCHANGED <<keyCache, chip, user, asked>>

\* Slip (not used by the specification): the destructor clears the globals
\* of whichever controller is active.
DestroyAny(c) ==
    /\ Alive(c)
    /\ object' = [object EXCEPT ![c] = NoObject]
    /\ active' = NoController
    /\ user' = IF user = c THEN NoController ELSE user
    /\ UNCHANGED <<keyCache, chip, newest, asked>>

Destroy(c) ==
    /\ Alive(c)
    /\ object' = [object EXCEPT ![c] = NoObject]
    /\ active' = IF active = c THEN NoController ELSE active
    /\ user' = IF user = c THEN NoController ELSE user
    /\ UNCHANGED <<keyCache, chip, newest, asked>>

\* initialize: the reset pin works without SPI, the probe does not.
Initialize(c) ==
    /\ Alive(c)
    /\ chip' = ResetChip
    /\ \E probed \in BOOLEAN :
         /\ probed => active # NoController
         /\ object' = [object EXCEPT ![c].initialized = @ \/ probed]
    /\ user' = NoController
    /\ UNCHANGED <<active, keyCache, newest, asked>>

-----------------------------------------------------------------------------
(***************************************************************************)
(* configurePhy.                                                           *)
(***************************************************************************)
ConfigurePhyFails(c, pdoa) ==
    /\ Alive(c) /\ object[c].initialized
    /\ object' = [object EXCEPT ![c].pdoaEnabled = pdoa # "Off"]
    /\ \E rxwtoe \in {chip.rxwtoe, FALSE}, pdoaMode \in {chip.pdoa, pdoa},
          stsMode \in {chip.stsMode, "Off"} :
         chip' = Written([chip EXCEPT !.mode = "Off", !.rxwtoe = rxwtoe,
                                      !.pdoa = pdoaMode, !.stsMode = stsMode])
    /\ user' = NoController
    /\ UNCHANGED <<active, keyCache, newest, asked>>

\* Slip: the cache is not invalidated.
ConfigurePhyKeepsCache(c, pdoa) ==
    /\ Alive(c) /\ object[c].initialized
    /\ active # NoController
    /\ object' = [object EXCEPT ![c].pdoaEnabled = pdoa # "Off"]
    /\ chip' = [chip EXCEPT !.mode = "Off", !.rxwtoe = TRUE, !.pdoa = pdoa, !.stsMode = "Off"]
    /\ user' = c
    /\ asked' = [key |-> NoKey, iv |-> NoIv]
    /\ UNCHANGED <<active, keyCache, newest>>

\* Slip: once on, the PDoA switch is never off again.
ConfigurePhyKeepsPdoa(c, pdoa) ==
    /\ Alive(c) /\ object[c].initialized
    /\ active # NoController
    /\ object' = [object EXCEPT ![c].pdoaEnabled = @ \/ pdoa # "Off"]
    /\ keyCache' = [keyCache EXCEPT !.valid = FALSE]
    /\ chip' = [chip EXCEPT !.mode = "Off", !.rxwtoe = TRUE, !.pdoa = pdoa, !.stsMode = "Off"]
    /\ user' = c
    /\ asked' = [key |-> NoKey, iv |-> NoIv]
    /\ UNCHANGED <<active, newest>>

\* dwt_configure rewrites SYS_CFG with the frame-wait timeout disabled; the
\* read-modify-write after it enables it for good.
ConfigurePhy(c, pdoa) ==
    /\ Alive(c) /\ object[c].initialized
    /\ active # NoController
    /\ object' = [object EXCEPT ![c].pdoaEnabled = pdoa # "Off"]
    /\ keyCache' = [keyCache EXCEPT !.valid = FALSE]
    /\ chip' = [chip EXCEPT !.mode = "Off", !.rxwtoe = TRUE, !.pdoa = pdoa, !.stsMode = "Off"]
    /\ user' = c
    /\ asked' = [key |-> NoKey, iv |-> NoIv]
    /\ UNCHANGED <<active, newest>>

-----------------------------------------------------------------------------
(***************************************************************************)
(* The STS.                                                                *)
(***************************************************************************)
Cached(k) == keyCache.valid /\ keyCache.key = k

\* Slip: the cache is marked valid, the key not copied.
LoadStsKeyWithoutCopy(c, k) ==
    /\ Alive(c)
    /\ chip' = IF Cached(k) THEN chip ELSE Written([chip EXCEPT !.key = k])
    /\ keyCache' = [keyCache EXCEPT !.valid = TRUE]
    /\ asked' = [asked EXCEPT !.key = k]
    /\ UNCHANGED <<active, object, newest, user>>

\* A key the cache knows is not written again.
LoadStsKey(c, k) ==
    /\ Alive(c)
    /\ chip' = IF Cached(k) THEN chip ELSE Written([chip EXCEPT !.key = k])
    /\ keyCache' = [valid |-> TRUE, key |-> k]
    /\ asked' = [asked EXCEPT !.key = k]
    /\ UNCHANGED <<active, object, newest, user>>

LoadStsIv(c, v) ==
    /\ Alive(c)
    /\ chip' = Written([chip EXCEPT !.iv = v])
    /\ asked' = [asked EXCEPT !.iv = v]
    /\ UNCHANGED <<active, keyCache, object, newest, user>>

\* Always written, and the cache follows.
LoadStsKeyIv(c, k, v) ==
    /\ Alive(c)
    /\ chip' = Written([chip EXCEPT !.key = k, !.iv = v])
    /\ keyCache' = [valid |-> TRUE, key |-> k]
    /\ asked' = [key |-> k, iv |-> v]
    /\ UNCHANGED <<active, object, newest, user>>

ConfigureStsMode(c, stsMode) ==
    /\ Alive(c)
    /\ chip' = Written([chip EXCEPT !.stsMode = stsMode])
    /\ UNCHANGED <<active, keyCache, object, newest, user, asked>>

-----------------------------------------------------------------------------
(***************************************************************************)
(* The transceiver.                                                        *)
(***************************************************************************)
Starts(c, new) ==
    /\ Alive(c)
    /\ chip.mode = "Off"
    /\ chip' = Written(new)
    /\ UNCHANGED <<active, keyCache, object, newest, user, asked>>

\* Slip: only the start time is written.
StartDelayedTxKeepsWindow(c, inTime) ==
    Starts(c, [chip EXCEPT !.mode = IF inTime THEN "Tx" ELSE "Off"])

\* The block written to DX_TIME sets RX_FWTO to zero.
StartDelayedTx(c, inTime) ==
    Starts(c, [chip EXCEPT !.fwto = "None", !.mode = IF inTime THEN "Tx" ELSE "Off"])

StartDelayedRx(c, inTime) ==
    Starts(c, [chip EXCEPT !.fwto = "Ranging", !.mode = IF inTime THEN "Rx" ELSE "Off"])

\* Slip: without a timeout RX_FWTO is left as it is.
StartImmediateRxKeepsWindow(c, timeout, ok) ==
    Starts(c, [chip EXCEPT !.fwto = IF timeout = 0 THEN @ ELSE "Ranging",
                           !.mode = IF ok THEN "Rx" ELSE "Off"])

\* Zero asks for the longest window there is.
StartImmediateRx(c, timeout, ok) ==
    Starts(c, [chip EXCEPT !.fwto = IF timeout = 0 THEN "Listen" ELSE "Ranging",
                           !.mode = IF ok THEN "Rx" ELSE "Off"])

ForceReceiverOff(c) ==
    /\ Alive(c)
    /\ chip' = Written([chip EXCEPT !.mode = "Off"])
    /\ UNCHANGED <<active, keyCache, object, newest, user, asked>>

SetListener(c, listening) ==
    /\ Alive(c)
    /\ object' = [object EXCEPT ![c].listener = listening]
    /\ UNCHANGED <<active, keyCache, chip, newest, user, asked>>

-----------------------------------------------------------------------------
(***************************************************************************)
(* The chip, and what the driver reports of it.                            *)
(***************************************************************************)
ChipLatches(event) ==
    /\ chip.event = NoEvent
    /\ chip.mode = IF event.kind = "TxDone" THEN "Tx" ELSE "Rx"
    /\ event.kind = "RxTimeout" => chip.rxwtoe
    /\ chip' = [chip EXCEPT !.mode = "Off", !.event = event]
    /\ UNCHANGED <<active, keyCache, object, newest, user, asked>>

\* dwt_isr: the callbacks go to the active controller, and from there to its
\* listener; without either the event is lost.
Dispatch ==
    /\ chip.event # NoEvent
    /\ active # NoController
    /\ chip' = [chip EXCEPT !.event = NoEvent]
    /\ UNCHANGED <<active, keyCache, object, newest, user, asked>>

-----------------------------------------------------------------------------
DriverInit ==
    /\ active = NoController
    /\ keyCache = [valid |-> FALSE, key |-> NoKey]
    /\ object = [c \in Controllers |-> NoObject]
    /\ chip = ResetChip
    /\ newest = NoController
    /\ user = NoController
    /\ asked = [key |-> NoKey, iv |-> NoIv]

Call(c) ==
    \/ Construct(c) \/ Destroy(c) \/ Initialize(c)
    \/ \E pdoa \in PdoaMode : ConfigurePhy(c, pdoa) \/ ConfigurePhyFails(c, pdoa)
    \/ \E k \in Keys : LoadStsKey(c, k)
    \/ \E v \in Ivs : LoadStsIv(c, v)
    \/ \E k \in Keys, v \in Ivs : LoadStsKeyIv(c, k, v)
    \/ \E stsMode \in {"Off", "NoDataSp3"} : ConfigureStsMode(c, stsMode)
    \/ \E ok \in BOOLEAN : StartDelayedTx(c, ok) \/ StartDelayedRx(c, ok)
    \/ \E timeout \in 0 .. 1, ok \in BOOLEAN : StartImmediateRx(c, timeout, ok)
    \/ ForceReceiverOff(c)
    \/ \E listening \in BOOLEAN : SetListener(c, listening)

DriverNext ==
    \/ \E c \in Controllers : Call(c)
    \/ \E event \in Event : ChipLatches(event)
    \/ Dispatch

DriverSpec == DriverInit /\ [][DriverNext]_driverVars

-----------------------------------------------------------------------------
(***************************************************************************)
(* Properties.                                                             *)
(***************************************************************************)
Chip == [stsMode : {"Off", "NoDataSp3"}, key : Keys \cup {NoKey}, iv : Ivs \cup {NoIv},
         rxwtoe : BOOLEAN, fwto : {"None", "Listen", "Ranging"}, pdoa : PdoaMode,
         mode : {"Off", "Rx", "Tx"}, event : Event \cup {NoEvent}]

\* The type invariant.
DriverTypeOK ==
    /\ {active, newest, user} \subseteq Controllers \cup {NoController}
    /\ keyCache \in [valid : BOOLEAN, key : Keys \cup {NoKey}]
    /\ keyCache.valid => keyCache.key # NoKey
    /\ object \in [Controllers -> Object]
    /\ chip \in Chip
    /\ asked \in [key : Keys \cup {NoKey}, iv : Ivs \cup {NoIv}]

\* The globals never dangle, and a controller that replaces another one keeps
\* the chip when the other one is destroyed after it was constructed.
NewestIsActive ==
    /\ active # NoController => Alive(active)
    /\ newest # NoController /\ Alive(newest) => active = newest

\* The chip holds the key and the IV that were last asked for, although a key
\* that is cached is not written: no reset, other controller, or failed
\* configuration makes the cache say what the chip does not hold, once a
\* controller has configured it.
KeysAsAsked ==
    \A c \in Controllers : Ready(c) =>
        /\ asked.key # NoKey => chip.key = asked.key
        /\ asked.iv # NoIv => chip.iv = asked.iv

\* On a configured chip no reception is for ever: the frame-wait timeout is
\* enabled and its count not zero, also after a transmission zeroed it.
ReceptionsEnd ==
    \A c \in Controllers : Ready(c) /\ chip.mode = "Rx" =>
        chip.rxwtoe /\ chip.fwto # "None"

\* "Only valid when the transceiver was configured with a PdoaMode other than
\* Off": the flag that makes a reception's PDoA valid says what the chip is
\* configured for, though the flag is the controller's and the chip is shared.
PdoaAsConfigured ==
    \A c \in Controllers : Ready(c) => (object[c].pdoaEnabled <=> chip.pdoa # "Off")

(***************************************************************************)
(* What the session sees of a controller that is ready.                    *)
(***************************************************************************)
RadioOf(c) ==
    [ listener |-> object[c].listener, mode |-> chip.mode, window |-> chip.fwto,
      stsMode |-> chip.stsMode, sts |-> [key |-> chip.key, iv |-> chip.iv],
      event |-> chip.event ]

\* A step of the radio as DW3000Controller describes it.
RadioStep(r, s) ==
    \/ s = Seen!ForceReceiverOff(r)
    \/ s = Seen!ConfigurePhy(Seen!ForceReceiverOff(r), TRUE)
    \/ s = Seen!Reported(r)
    \/ \E listening \in BOOLEAN : s = Seen!SetListener(r, listening)
    \/ \E stsMode \in {"Off", "NoDataSp3"} : s = Seen!ConfigureStsMode(r, stsMode)
    \/ \E k \in Keys \cup {NoKey}, v \in Ivs \cup {NoIv} :
          s = Seen!LoadStsKeyIv(r, [key |-> k, iv |-> v])
    \/ \E ok \in BOOLEAN :
          \/ s = Seen!StartDelayedTx(r, ok)
          \/ s = Seen!StartDelayedRx(r, ok)
          \/ \E window \in {"Listen", "Ranging"} : s = Seen!StartImmediateRx(r, window, ok)
    \/ \E event \in Event : Seen!CanLatch(r, event.kind) /\ s = Seen!Latch(r, event)

\* The controller implements the radio the session is modelled with: as long
\* as it is ready, every step changes what the session sees of it the way
\* one of the operators of DW3000Controller does, or not at all.
SeenAsRadio ==
    [][\A c \in Controllers :
          Ready(c) /\ Ready(c)' => \/ RadioOf(c)' = RadioOf(c)
                                   \/ RadioStep(RadioOf(c), RadioOf(c)')]_driverVars

=============================================================================
