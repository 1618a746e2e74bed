----------------------- MODULE TransceiverDriver_proofs -----------------------
(***************************************************************************)
(* Theorems about the transceiver's driver, for every set of controllers,  *)
(* keys and IVs.                                                           *)
(***************************************************************************)
EXTENDS TransceiverDriver, TLAPS

-----------------------------------------------------------------------------
(***************************************************************************)
(* What the calls do, as the proofs below need it.                         *)
(***************************************************************************)

\* The calls and events that touch nothing but the chip, and of the chip
\* neither its configuration nor the keys.
Transceives ==
    \/ \E c \in Controllers :
         \/ \E stsMode \in {"Off", "NoDataSp3"} : ConfigureStsMode(c, stsMode)
         \/ \E ok \in BOOLEAN : StartDelayedTx(c, ok) \/ StartDelayedRx(c, ok)
         \/ \E timeout \in 0 .. 1, ok \in BOOLEAN : StartImmediateRx(c, timeout, ok)
         \/ ForceReceiverOff(c)
    \/ \E event \in Event : ChipLatches(event)
    \/ Dispatch

\* A reception is one that was under way, or has a window that closes.
WindowKept == chip'.mode = "Rx" => \/ chip'.fwto # "None"
                                   \/ chip.mode = "Rx" /\ chip'.fwto = chip.fwto

LEMMA TransceivesDoes ==
    ASSUME DriverTypeOK, Transceives
    PROVE  /\ UNCHANGED <<active, keyCache, object, newest, user, asked>>
           /\ chip' \in Chip
           /\ chip'.key = chip.key /\ chip'.iv = chip.iv
           /\ chip'.rxwtoe = chip.rxwtoe /\ chip'.pdoa = chip.pdoa
           /\ WindowKept
<1>t. chip \in Chip
  BY DEF DriverTypeOK
<1>1. ASSUME NEW c \in Controllers, NEW stsMode \in {"Off", "NoDataSp3"},
             ConfigureStsMode(c, stsMode)
      PROVE  /\ UNCHANGED <<active, keyCache, object, newest, user, asked>>
             /\ chip' \in {chip, [chip EXCEPT !.stsMode = stsMode]}
  BY <1>1 DEF ConfigureStsMode, Written
<1>s. ASSUME NEW fwto \in {"None", "Listen", "Ranging"}, NEW mode \in {"Off", "Rx", "Tx"},
             mode = "Rx" => fwto # "None",
             chip' = chip \/ chip' = [chip EXCEPT !.fwto = fwto, !.mode = mode]
      PROVE  /\ chip' \in Chip
             /\ chip'.key = chip.key /\ chip'.iv = chip.iv
             /\ chip'.rxwtoe = chip.rxwtoe /\ chip'.pdoa = chip.pdoa
             /\ WindowKept
  <2>1. CASE chip' = chip
    BY <2>1, <1>t DEF WindowKept
  <2>2. CASE chip' = [chip EXCEPT !.fwto = fwto, !.mode = mode]
    BY <2>2, <1>s, <1>t DEF Chip, WindowKept
  <2> QED BY <1>s, <2>1, <2>2
<1>2. ASSUME NEW c \in Controllers, NEW ok \in BOOLEAN, StartDelayedTx(c, ok)
      PROVE  /\ UNCHANGED <<active, keyCache, object, newest, user, asked>>
             /\ \E mode \in {"Tx", "Off"} :
                  chip' = chip \/ chip' = [chip EXCEPT !.fwto = "None", !.mode = mode]
  BY <1>2 DEF StartDelayedTx, Starts, Written
<1>3. ASSUME NEW c \in Controllers, NEW ok \in BOOLEAN, StartDelayedRx(c, ok)
      PROVE  /\ UNCHANGED <<active, keyCache, object, newest, user, asked>>
             /\ \E mode \in {"Rx", "Off"} :
                  chip' = chip \/ chip' = [chip EXCEPT !.fwto = "Ranging", !.mode = mode]
  BY <1>3 DEF StartDelayedRx, Starts, Written
<1>4. ASSUME NEW c \in Controllers, NEW timeout \in 0 .. 1, NEW ok \in BOOLEAN,
             StartImmediateRx(c, timeout, ok)
      PROVE  /\ UNCHANGED <<active, keyCache, object, newest, user, asked>>
             /\ \E fwto \in {"Listen", "Ranging"}, mode \in {"Rx", "Off"} :
                  chip' = chip \/ chip' = [chip EXCEPT !.fwto = fwto, !.mode = mode]
  <2> DEFINE fwto == IF timeout = 0 THEN "Listen" ELSE "Ranging"
             mode == IF ok THEN "Rx" ELSE "Off"
  <2>1. fwto \in {"Listen", "Ranging"} /\ mode \in {"Rx", "Off"}
    OBVIOUS
  <2>2. chip' = chip \/ chip' = [chip EXCEPT !.fwto = fwto, !.mode = mode]
    BY <1>4 DEF StartImmediateRx, Starts, Written
  <2>3. UNCHANGED <<active, keyCache, object, newest, user, asked>>
    BY <1>4 DEF StartImmediateRx, Starts
  <2> HIDE DEF fwto, mode
  <2> QED BY <2>1, <2>2, <2>3
<1>5. ASSUME NEW c \in Controllers, ForceReceiverOff(c)
      PROVE  /\ UNCHANGED <<active, keyCache, object, newest, user, asked>>
             /\ chip' \in {chip, [chip EXCEPT !.mode = "Off"]}
  BY <1>5 DEF ForceReceiverOff, Written
<1>6. ASSUME NEW event \in Event, ChipLatches(event)
      PROVE  /\ UNCHANGED <<active, keyCache, object, newest, user, asked>>
             /\ chip' = [chip EXCEPT !.mode = "Off", !.event = event]
  BY <1>6 DEF ChipLatches
<1>7. CASE Dispatch
  BY <1>7, <1>t DEF Dispatch, Chip, WindowKept
<1>8. CASE \E c \in Controllers, stsMode \in {"Off", "NoDataSp3"} : ConfigureStsMode(c, stsMode)
  BY <1>8, <1>1, <1>t DEF Chip, WindowKept
<1>9. CASE \E c \in Controllers, ok \in BOOLEAN : StartDelayedTx(c, ok)
  BY <1>9, <1>2, <1>s
<1>10. CASE \E c \in Controllers, ok \in BOOLEAN : StartDelayedRx(c, ok)
  BY <1>10, <1>3, <1>s
<1>11. CASE \E c \in Controllers, timeout \in 0 .. 1, ok \in BOOLEAN :
              StartImmediateRx(c, timeout, ok)
  BY <1>11, <1>4, <1>s
<1>12. CASE \E c \in Controllers : ForceReceiverOff(c)
  BY <1>12, <1>5, <1>t DEF Chip, WindowKept
<1>13. CASE \E event \in Event : ChipLatches(event)
  <2>1. PICK event \in Event : ChipLatches(event)
    BY <1>13
  <2>2. /\ UNCHANGED <<active, keyCache, object, newest, user, asked>>
        /\ chip' = [chip EXCEPT !.mode = "Off", !.event = event]
    BY <2>1, <1>6
  <2>3. /\ chip' \in Chip /\ chip'.mode = "Off"
        /\ \A field \in DOMAIN chip \ {"mode", "event"} : chip'[field] = chip[field]
    BY <2>2, <1>t DEF Chip
  <2> QED BY <2>2, <1>t DEF Chip, WindowKept
<1> QED BY <1>7, <1>8, <1>9, <1>10, <1>11, <1>12, <1>13 DEF Transceives

\* Every step.
LEMMA DriverCases ==
    ASSUME [DriverNext]_driverVars
    PROVE  \/ \E c \in Controllers :
                \/ Construct(c) \/ Destroy(c) \/ Initialize(c)
                \/ \E pdoa \in PdoaMode : ConfigurePhy(c, pdoa) \/ ConfigurePhyFails(c, pdoa)
                \/ \E k \in Keys : LoadStsKey(c, k)
                \/ \E v \in Ivs : LoadStsIv(c, v)
                \/ \E k \in Keys, v \in Ivs : LoadStsKeyIv(c, k, v)
                \/ \E listening \in BOOLEAN : SetListener(c, listening)
           \/ Transceives
           \/ UNCHANGED driverVars
BY DEF DriverNext, Call, Transceives

-----------------------------------------------------------------------------
(***************************************************************************)
(* Types.                                                                  *)
(***************************************************************************)
LEMMA DriverTypeInit == DriverInit => DriverTypeOK
<1> SUFFICES ASSUME DriverInit PROVE DriverTypeOK
  OBVIOUS
<1>1. chip \in Chip
  BY DEF DriverInit, ResetChip, Chip, PdoaMode
<1>2. object \in [Controllers -> Object]
  BY DEF DriverInit, NoObject, Object
<1> QED BY <1>1, <1>2 DEF DriverInit, DriverTypeOK

LEMMA DriverTypeStep == DriverTypeOK /\ [DriverNext]_driverVars => DriverTypeOK'
<1> SUFFICES ASSUME DriverTypeOK, [DriverNext]_driverVars PROVE DriverTypeOK'
  OBVIOUS
<1>t. chip \in Chip /\ object \in [Controllers -> Object]
  BY DEF DriverTypeOK
<1>1. ASSUME NEW c \in Controllers, Construct(c) PROVE DriverTypeOK'
  <2>1. object' \in [Controllers -> Object]
    BY <1>1, <1>t DEF Construct, NoObject, Object
  <2> QED BY <1>1, <2>1 DEF Construct, DriverTypeOK
<1>2. ASSUME NEW c \in Controllers, Destroy(c) PROVE DriverTypeOK'
  <2>1. object' \in [Controllers -> Object]
    BY <1>2, <1>t DEF Destroy, NoObject, Object
  <2> QED BY <1>2, <2>1 DEF Destroy, DriverTypeOK
<1>3. ASSUME NEW c \in Controllers, Initialize(c) PROVE DriverTypeOK'
  <2>1. PICK probed \in BOOLEAN : object' = [object EXCEPT ![c].initialized = @ \/ probed]
    BY <1>3 DEF Initialize
  <2>2. (object[c].initialized \/ probed) \in BOOLEAN
    BY Zenon
  <2>3. object' \in [Controllers -> Object]
    BY <2>1, <2>2, <1>t DEF Object
  <2>4. chip' \in Chip
    BY <1>3 DEF Initialize, ResetChip, Chip, PdoaMode
  <2> QED BY <1>3, <2>3, <2>4 DEF Initialize, DriverTypeOK
<1>4. ASSUME NEW c \in Controllers, NEW pdoa \in PdoaMode, ConfigurePhyFails(c, pdoa)
      PROVE  DriverTypeOK'
  <2>1. (pdoa # "Off") \in BOOLEAN
    BY Zenon
  <2>2. object' \in [Controllers -> Object]
    BY <1>4, <2>1, <1>t DEF ConfigurePhyFails, Object
  <2>3. chip' \in Chip
    <3>1. PICK rxwtoe \in {chip.rxwtoe, FALSE}, pdoaMode \in {chip.pdoa, pdoa},
               stsMode \in {chip.stsMode, "Off"} :
            chip' = Written([chip EXCEPT !.mode = "Off", !.rxwtoe = rxwtoe,
                                         !.pdoa = pdoaMode, !.stsMode = stsMode])
      BY <1>4 DEF ConfigurePhyFails
    <3>2. rxwtoe \in BOOLEAN /\ pdoaMode \in PdoaMode /\ stsMode \in {"Off", "NoDataSp3"}
      BY <1>t DEF Chip
    <3>3. [chip EXCEPT !.mode = "Off", !.rxwtoe = rxwtoe, !.pdoa = pdoaMode,
                       !.stsMode = stsMode] \in Chip
      BY <3>2, <1>t DEF Chip
    <3> QED BY <3>1, <3>3, <1>t DEF Written
  <2> QED BY <1>4, <2>2, <2>3 DEF ConfigurePhyFails, DriverTypeOK
<1>5. ASSUME NEW c \in Controllers, NEW pdoa \in PdoaMode, ConfigurePhy(c, pdoa)
      PROVE  DriverTypeOK'
  <2>1. (pdoa # "Off") \in BOOLEAN
    BY Zenon
  <2>2. object' \in [Controllers -> Object]
    BY <1>5, <2>1, <1>t DEF ConfigurePhy, Object
  <2>3. chip' \in Chip
    BY <1>5, <1>t DEF ConfigurePhy, Chip
  <2> QED BY <1>5, <2>2, <2>3 DEF ConfigurePhy, DriverTypeOK
<1>6. ASSUME NEW c \in Controllers, NEW k \in Keys, LoadStsKey(c, k) PROVE DriverTypeOK'
  <2>1. chip' \in Chip
    BY <1>6, <1>t DEF LoadStsKey, Written, Chip
  <2> QED BY <1>6, <2>1, DriverAssumption DEF LoadStsKey, DriverTypeOK
<1>7. ASSUME NEW c \in Controllers, NEW v \in Ivs, LoadStsIv(c, v) PROVE DriverTypeOK'
  <2>1. chip' \in Chip
    BY <1>7, <1>t DEF LoadStsIv, Written, Chip
  <2> QED BY <1>7, <2>1 DEF LoadStsIv, DriverTypeOK
<1>8. ASSUME NEW c \in Controllers, NEW k \in Keys, NEW v \in Ivs, LoadStsKeyIv(c, k, v)
      PROVE  DriverTypeOK'
  <2>1. chip' \in Chip
    BY <1>8, <1>t DEF LoadStsKeyIv, Written, Chip
  <2> QED BY <1>8, <2>1, DriverAssumption DEF LoadStsKeyIv, DriverTypeOK
<1>9. ASSUME NEW c \in Controllers, NEW listening \in BOOLEAN, SetListener(c, listening)
      PROVE  DriverTypeOK'
  <2>1. object' \in [Controllers -> Object]
    BY <1>9, <1>t DEF SetListener, Object
  <2> QED BY <1>9, <2>1 DEF SetListener, DriverTypeOK
<1>10. CASE Transceives
  BY <1>10, TransceivesDoes DEF DriverTypeOK
<1>11. CASE UNCHANGED driverVars
  BY <1>11 DEF driverVars, DriverTypeOK
<1> QED BY <1>1, <1>2, <1>3, <1>4, <1>5, <1>6, <1>7, <1>8, <1>9, <1>10, <1>11, DriverCases

\* The type invariant of the driver.
THEOREM DriverTypeCorrect == DriverSpec => []DriverTypeOK
BY DriverTypeInit, DriverTypeStep, PTL DEF DriverSpec

-----------------------------------------------------------------------------
(***************************************************************************)
(* The globals and the lives of the controllers.                           *)
(***************************************************************************)
AliveInv == NewestIsActive /\ (user # NoController => Alive(user))

\* Only construction and destruction change who is active and who is alive.
LEMMA LivesUnchanged ==
    ASSUME DriverTypeOK, [DriverNext]_driverVars
    PROVE  \/ \E c \in Controllers : Construct(c) \/ Destroy(c)
           \/ /\ UNCHANGED <<active, newest>>
              /\ \A c \in Controllers : object'[c].alive = object[c].alive
              /\ \/ user' \in {user, NoController}
                 \/ user' \in Controllers /\ Alive(user')
<1>t. object \in [Controllers -> Object]
  BY DEF DriverTypeOK
<1>1. ASSUME NEW c \in Controllers, Initialize(c)
      PROVE  /\ UNCHANGED <<active, newest>> /\ user' = NoController
             /\ \A d \in Controllers : object'[d].alive = object[d].alive
  BY <1>1, <1>t DEF Initialize, Object
<1>2. ASSUME NEW c \in Controllers, NEW pdoa \in PdoaMode,
             ConfigurePhy(c, pdoa) \/ ConfigurePhyFails(c, pdoa)
      PROVE  /\ UNCHANGED <<active, newest>>
             /\ user' = NoController \/ (user' = c /\ Alive(c))
             /\ \A d \in Controllers : object'[d].alive = object[d].alive
  BY <1>2, <1>t DEF ConfigurePhy, ConfigurePhyFails, Object
<1>3. ASSUME NEW c \in Controllers, NEW listening \in BOOLEAN, SetListener(c, listening)
      PROVE  /\ UNCHANGED <<active, newest, user>>
             /\ \A d \in Controllers : object'[d].alive = object[d].alive
  BY <1>3, <1>t DEF SetListener, Object
<1>4. CASE \E c \in Controllers :
             \/ \E k \in Keys : LoadStsKey(c, k)
             \/ \E v \in Ivs : LoadStsIv(c, v)
             \/ \E k \in Keys, v \in Ivs : LoadStsKeyIv(c, k, v)
  BY <1>4 DEF LoadStsKey, LoadStsIv, LoadStsKeyIv
<1>5. CASE Transceives
  BY <1>5, TransceivesDoes
<1>6. CASE UNCHANGED driverVars
  BY <1>6 DEF driverVars
<1> QED BY <1>1, <1>2, <1>3, <1>4, <1>5, <1>6, DriverCases

LEMMA AliveInit == DriverInit => AliveInv
BY DEF DriverInit, AliveInv, NewestIsActive

LEMMA AliveStep == DriverTypeOK /\ AliveInv /\ [DriverNext]_driverVars => AliveInv'
<1> SUFFICES ASSUME DriverTypeOK, AliveInv, [DriverNext]_driverVars PROVE AliveInv'
  OBVIOUS
<1>t. /\ object \in [Controllers -> Object]
      /\ active \in Controllers \cup {NoController}
      /\ newest \in Controllers \cup {NoController}
      /\ user \in Controllers \cup {NoController}
  BY DEF DriverTypeOK
<1>1. ASSUME NEW c \in Controllers, Construct(c) PROVE AliveInv'
  <2>1. /\ object'[c].alive = TRUE
        /\ \A d \in Controllers \ {c} : object'[d] = object[d]
    BY <1>1, <1>t DEF Construct, NoObject
  <2>2. active' = c /\ newest' = c /\ user' = user
    BY <1>1 DEF Construct
  <2> QED BY <2>1, <2>2, <1>t DEF AliveInv, NewestIsActive, Alive
<1>2. ASSUME NEW c \in Controllers, Destroy(c) PROVE AliveInv'
  <2>1. /\ object'[c].alive = FALSE
        /\ \A d \in Controllers \ {c} : object'[d] = object[d]
    BY <1>2, <1>t DEF Destroy, NoObject
  <2>2. /\ active' = IF active = c THEN NoController ELSE active
        /\ user' = IF user = c THEN NoController ELSE user
        /\ newest' = newest
    BY <1>2 DEF Destroy
  <2> QED BY <2>1, <2>2, <1>t, DriverAssumption DEF AliveInv, NewestIsActive, Alive
<1>3. CASE /\ UNCHANGED <<active, newest>>
           /\ \A c \in Controllers : object'[c].alive = object[c].alive
           /\ \/ user' \in {user, NoController}
              \/ user' \in Controllers /\ Alive(user')
  BY <1>3, <1>t, DriverAssumption DEF AliveInv, NewestIsActive, Alive
<1> QED BY <1>1, <1>2, <1>3, LivesUnchanged

\* Whatever order controllers are constructed and destroyed in, the active
\* one exists, and it is the one that was constructed last if that exists.
THEOREM NewestAlwaysActive == DriverSpec => []NewestIsActive
BY DriverTypeInit, DriverTypeStep, AliveInit, AliveStep, PTL DEF DriverSpec, AliveInv

-----------------------------------------------------------------------------
(***************************************************************************)
(* A controller that is ready.  The cache, when it is valid, knows what    *)
(* the chip holds: that is why a cached key need not be written.           *)
(***************************************************************************)
ChipAsAsked ==
    /\ keyCache.valid => keyCache.key = chip.key
    /\ asked.key # NoKey => chip.key = asked.key
    /\ asked.iv # NoIv => chip.iv = asked.iv
    /\ chip.rxwtoe
    /\ chip.mode = "Rx" => chip.fwto # "None"

ReadyInv ==
    \A c \in Controllers : Ready(c) =>
        /\ ChipAsAsked
        /\ object[c].pdoaEnabled <=> chip.pdoa # "Off"

DriverInv == DriverTypeOK /\ AliveInv /\ ReadyInv

\* No controller becomes ready but by configuring the chip.
LEMMA ReadyBefore ==
    ASSUME DriverInv, [DriverNext]_driverVars, NEW c \in Controllers, Ready(c)'
    PROVE  Ready(c) \/ \E pdoa \in PdoaMode : ConfigurePhy(c, pdoa)
<1>t. /\ object \in [Controllers -> Object] /\ user \in Controllers \cup {NoController}
      /\ c # NoController
  BY DriverAssumption DEF DriverInv, DriverTypeOK
<1>1. CASE \E d \in Controllers : Construct(d)
  <2>1. PICK d \in Controllers : Construct(d)
    BY <1>1
  <2>2. user = c /\ d = c /\ ~ Alive(c)
    BY <2>1 DEF Construct, Ready
  <2> QED BY <2>2, <1>t DEF DriverInv, AliveInv
<1>2. CASE \E d \in Controllers : Destroy(d)
  BY <1>2, <1>t DEF Destroy, Ready
<1>3. CASE \E d \in Controllers :
             \/ Initialize(d)
             \/ \E pdoa \in PdoaMode : ConfigurePhy(d, pdoa) \/ ConfigurePhyFails(d, pdoa)
  BY <1>3, <1>t DEF Initialize, ConfigurePhy, ConfigurePhyFails, Ready
<1>4. CASE \E d \in Controllers :
             \/ \E k \in Keys : LoadStsKey(d, k)
             \/ \E v \in Ivs : LoadStsIv(d, v)
             \/ \E k \in Keys, v \in Ivs : LoadStsKeyIv(d, k, v)
             \/ \E listening \in BOOLEAN : SetListener(d, listening)
  BY <1>4 DEF LoadStsKey, LoadStsIv, LoadStsKeyIv, SetListener, Ready
<1>5. CASE Transceives
  BY <1>5, TransceivesDoes DEF DriverInv, Ready
<1>6. CASE UNCHANGED driverVars
  BY <1>6 DEF driverVars, Ready
<1> QED BY <1>1, <1>2, <1>3, <1>4, <1>5, <1>6, DriverCases

LEMMA ReadyStep == DriverInv /\ [DriverNext]_driverVars => ReadyInv'
<1> SUFFICES ASSUME DriverInv, [DriverNext]_driverVars, NEW c \in Controllers, Ready(c)'
             PROVE  ChipAsAsked' /\ (object[c].pdoaEnabled <=> chip.pdoa # "Off")'
  BY DEF ReadyInv
<1>t. /\ chip \in Chip /\ object \in [Controllers -> Object] /\ c # NoController
      /\ keyCache \in [valid : BOOLEAN, key : Keys \cup {NoKey}]
      /\ asked \in [key : Keys \cup {NoKey}, iv : Ivs \cup {NoIv}]
  BY DriverAssumption DEF DriverInv, DriverTypeOK
<1>1. ASSUME NEW pdoa \in PdoaMode, ConfigurePhy(c, pdoa)
      PROVE  ChipAsAsked' /\ (object[c].pdoaEnabled <=> chip.pdoa # "Off")'
  <2>1. /\ chip' = [chip EXCEPT !.mode = "Off", !.rxwtoe = TRUE, !.pdoa = pdoa, !.stsMode = "Off"]
        /\ keyCache' = [keyCache EXCEPT !.valid = FALSE]
        /\ asked' = [key |-> NoKey, iv |-> NoIv]
        /\ object' = [object EXCEPT ![c].pdoaEnabled = pdoa # "Off"]
    BY <1>1 DEF ConfigurePhy
  <2>2. ChipAsAsked'
    BY <2>1, <1>t DEF ChipAsAsked, Chip
  <2>3. chip'.pdoa = pdoa /\ object'[c].pdoaEnabled = (pdoa # "Off")
    BY <2>1, <1>t DEF Chip, Object
  <2> QED BY <2>2, <2>3
<1>2. CASE Ready(c)
  <2>r. /\ active = c /\ ChipAsAsked /\ (object[c].pdoaEnabled <=> chip.pdoa # "Off")
        /\ \A new : Written(new) = new
    BY <1>2, <1>t DEF DriverInv, ReadyInv, Ready, Written
  <2>1. ASSUME NEW d \in Controllers, Construct(d) \/ Destroy(d)
        PROVE  /\ UNCHANGED <<keyCache, chip, asked>>
               /\ object'[c] = object[c]
    <3>1. c # d
      BY <2>1, <1>2, <1>t DEF Construct, Destroy, DriverInv, AliveInv, NewestIsActive, Ready
    <3> QED BY <2>1, <3>1, <1>t DEF Construct, Destroy
  <2>2. ASSUME NEW d \in Controllers,
               \/ Initialize(d)
               \/ \E pdoa \in PdoaMode : ConfigurePhy(d, pdoa) \/ ConfigurePhyFails(d, pdoa)
        PROVE  \E pdoa \in PdoaMode : ConfigurePhy(c, pdoa)
    BY <2>2, <1>t DEF Initialize, ConfigurePhy, ConfigurePhyFails, Ready
  <2>3. ASSUME NEW d \in Controllers, NEW k \in Keys, LoadStsKey(d, k)
        PROVE  ChipAsAsked' /\ UNCHANGED object /\ chip'.pdoa = chip.pdoa
    <3>1. /\ keyCache' = [valid |-> TRUE, key |-> k] /\ asked' = [asked EXCEPT !.key = k]
          /\ chip' = IF Cached(k) THEN chip ELSE [chip EXCEPT !.key = k]
      BY <2>3, <2>r DEF LoadStsKey
    <3>2. Cached(k) => chip.key = k
      BY <2>r DEF Cached, ChipAsAsked
    <3>3. /\ chip'.key = k /\ chip'.iv = chip.iv /\ chip'.rxwtoe = chip.rxwtoe
          /\ chip'.mode = chip.mode /\ chip'.fwto = chip.fwto /\ chip'.pdoa = chip.pdoa
      BY <3>1, <3>2, <1>t DEF Chip
    <3>4. asked'.key = k /\ asked'.iv = asked.iv /\ keyCache'.key = k
      BY <3>1, <1>t
    <3>5. UNCHANGED object
      BY <2>3 DEF LoadStsKey
    <3> QED BY <3>3, <3>4, <3>5, <2>r DEF ChipAsAsked
  <2>4. ASSUME NEW d \in Controllers, NEW v \in Ivs, LoadStsIv(d, v)
        PROVE  ChipAsAsked' /\ UNCHANGED object /\ chip'.pdoa = chip.pdoa
    BY <2>4, <2>r, <1>t DEF LoadStsIv, ChipAsAsked, Chip
  <2>5. ASSUME NEW d \in Controllers, NEW k \in Keys, NEW v \in Ivs, LoadStsKeyIv(d, k, v)
        PROVE  ChipAsAsked' /\ UNCHANGED object /\ chip'.pdoa = chip.pdoa
    <3>1. /\ keyCache' = [valid |-> TRUE, key |-> k] /\ asked' = [key |-> k, iv |-> v]
          /\ chip' = [chip EXCEPT !.key = k, !.iv = v] /\ UNCHANGED object
      BY <2>5, <2>r DEF LoadStsKeyIv
    <3>2. /\ chip'.key = k /\ chip'.iv = v /\ chip'.rxwtoe = chip.rxwtoe
          /\ chip'.mode = chip.mode /\ chip'.fwto = chip.fwto /\ chip'.pdoa = chip.pdoa
      BY <3>1, <1>t DEF Chip
    <3>3. asked'.key = k /\ asked'.iv = v /\ keyCache'.key = k
      BY <3>1
    <3> QED BY <3>1, <3>2, <3>3, <2>r DEF ChipAsAsked
  <2>6. ASSUME NEW d \in Controllers, NEW listening \in BOOLEAN, SetListener(d, listening)
        PROVE  /\ UNCHANGED <<keyCache, chip, asked>>
               /\ object'[c].pdoaEnabled = object[c].pdoaEnabled
    BY <2>6, <1>t DEF SetListener, Object
  <2>7. CASE Transceives
    BY <2>7, <2>r, TransceivesDoes DEF DriverInv, ChipAsAsked, WindowKept
  <2>8. CASE UNCHANGED driverVars
    BY <2>8, <2>r DEF driverVars, ChipAsAsked
  <2> QED BY <1>1, <2>r, <2>1, <2>2, <2>3, <2>4, <2>5, <2>6, <2>7, <2>8, DriverCases
      DEF ChipAsAsked
<1> QED BY <1>1, <1>2, ReadyBefore

LEMMA DriverInvInit == DriverInit => DriverInv
<1>1. DriverInit => ReadyInv
  BY DriverAssumption DEF DriverInit, ReadyInv, Ready
<1> QED BY <1>1, DriverTypeInit, AliveInit DEF DriverInv

LEMMA DriverInvStep == DriverInv /\ [DriverNext]_driverVars => DriverInv'
BY DriverTypeStep, AliveStep, ReadyStep DEF DriverInv

\* The chip holds the keys that were last asked for, although a key that is
\* cached is not written again.
THEOREM KeysAlwaysAsAsked == DriverSpec => []KeysAsAsked
<1>1. DriverInv => KeysAsAsked
  BY DEF DriverInv, ReadyInv, ChipAsAsked, KeysAsAsked
<1> QED BY <1>1, DriverInvInit, DriverInvStep, PTL DEF DriverSpec

\* No reception of a configured chip is for ever, whatever transmissions
\* zeroed the frame-wait timeout before.
THEOREM ReceptionsAlwaysEnd == DriverSpec => []ReceptionsEnd
<1>1. DriverInv => ReceptionsEnd
  BY DEF DriverInv, ReadyInv, ChipAsAsked, ReceptionsEnd
<1> QED BY <1>1, DriverInvInit, DriverInvStep, PTL DEF DriverSpec

\* The flag that makes a PDoA valid agrees with the chip, also after a
\* configuration that failed half-way and one of another controller.
THEOREM PdoaAlwaysAsConfigured == DriverSpec => []PdoaAsConfigured
<1>1. DriverInv => PdoaAsConfigured
  BY DEF DriverInv, ReadyInv, PdoaAsConfigured
<1> QED BY <1>1, DriverInvInit, DriverInvStep, PTL DEF DriverSpec

-----------------------------------------------------------------------------
(***************************************************************************)
(* What the session sees.                                                  *)
(***************************************************************************)

View == [ listener : BOOLEAN, mode : {"Off", "Rx", "Tx"}, window : {"None", "Listen", "Ranging"},
          stsMode : {"Off", "NoDataSp3"}, sts : [key : Keys \cup {NoKey}, iv : Ivs \cup {NoIv}],
          event : Event \cup {NoEvent} ]

\* The operators of DW3000Controller, field by field.
SeenAs(r, listener, mode, window, stsMode, sts, event) ==
    /\ r \in View
    /\ r.listener = listener /\ r.mode = mode /\ r.window = window
    /\ r.stsMode = stsMode /\ r.sts = sts /\ r.event = event

LEMMA SameView ==
    ASSUME NEW r, NEW s, NEW listener, NEW mode, NEW window, NEW stsMode, NEW sts, NEW event,
           SeenAs(r, listener, mode, window, stsMode, sts, event),
           SeenAs(s, listener, mode, window, stsMode, sts, event)
    PROVE  r = s
BY DEF SeenAs, View

LEMMA SeenOperators ==
    ASSUME NEW r \in View
    PROVE  /\ SeenAs(Seen!ForceReceiverOff(r), r.listener, "Off", r.window, r.stsMode, r.sts, r.event)
           /\ SeenAs(Seen!ConfigurePhy(r, TRUE), r.listener, "Off", r.window, "Off", r.sts, r.event)
           /\ SeenAs(Seen!Reported(r), r.listener, r.mode, r.window, r.stsMode, r.sts, NoEvent)
           /\ \A stsMode \in {"Off", "NoDataSp3"} :
                SeenAs(Seen!ConfigureStsMode(r, stsMode), r.listener, r.mode, r.window, stsMode,
                       r.sts, r.event)
           /\ \A sts \in [key : Keys \cup {NoKey}, iv : Ivs \cup {NoIv}] :
                SeenAs(Seen!LoadStsKeyIv(r, sts), r.listener, r.mode, r.window, r.stsMode, sts, r.event)
           /\ \A event \in Event :
                SeenAs(Seen!Latch(r, event), r.listener, "Off", r.window, r.stsMode, r.sts, event)
           /\ \A listening \in BOOLEAN :
                SeenAs(Seen!SetListener(r, listening), listening, r.mode, r.window, r.stsMode,
                       r.sts, r.event)
<1>1. SeenAs(Seen!ForceReceiverOff(r), r.listener, "Off", r.window, r.stsMode, r.sts, r.event)
  BY DEF SeenAs, View, Seen!ForceReceiverOff
<1>2. SeenAs(Seen!ConfigurePhy(r, TRUE), r.listener, "Off", r.window, "Off", r.sts, r.event)
  BY DEF SeenAs, View, Seen!ConfigurePhy
<1>3. SeenAs(Seen!Reported(r), r.listener, r.mode, r.window, r.stsMode, r.sts, NoEvent)
  BY DEF SeenAs, View, Seen!Reported
<1>4. ASSUME NEW stsMode \in {"Off", "NoDataSp3"}
      PROVE  SeenAs(Seen!ConfigureStsMode(r, stsMode), r.listener, r.mode, r.window, stsMode,
                    r.sts, r.event)
  BY DEF SeenAs, View, Seen!ConfigureStsMode
<1>5. ASSUME NEW sts \in [key : Keys \cup {NoKey}, iv : Ivs \cup {NoIv}]
      PROVE  SeenAs(Seen!LoadStsKeyIv(r, sts), r.listener, r.mode, r.window, r.stsMode, sts, r.event)
  BY DEF SeenAs, View, Seen!LoadStsKeyIv
<1>6. ASSUME NEW event \in Event
      PROVE  SeenAs(Seen!Latch(r, event), r.listener, "Off", r.window, r.stsMode, r.sts, event)
  BY DEF SeenAs, View, Seen!Latch
<1>7. ASSUME NEW listening \in BOOLEAN
      PROVE  SeenAs(Seen!SetListener(r, listening), listening, r.mode, r.window, r.stsMode,
                    r.sts, r.event)
  BY DEF SeenAs, View, Seen!SetListener
<1> QED BY <1>1, <1>2, <1>3, <1>4, <1>5, <1>6, <1>7

LEMMA SeenStarts ==
    ASSUME NEW r \in View, r.mode = "Off", NEW ok \in BOOLEAN
    PROVE  /\ SeenAs(Seen!StartDelayedTx(r, ok), r.listener, IF ok THEN "Tx" ELSE "Off", "None",
                     r.stsMode, r.sts, r.event)
           /\ SeenAs(Seen!StartDelayedRx(r, ok), r.listener, IF ok THEN "Rx" ELSE "Off", "Ranging",
                     r.stsMode, r.sts, r.event)
           /\ \A window \in {"Listen", "Ranging"} :
                SeenAs(Seen!StartImmediateRx(r, window, ok), r.listener,
                       IF ok THEN "Rx" ELSE "Off", window, r.stsMode, r.sts, r.event)
<1>1. SeenAs(Seen!StartDelayedTx(r, ok), r.listener, IF ok THEN "Tx" ELSE "Off", "None",
             r.stsMode, r.sts, r.event)
  BY DEF SeenAs, View, Seen!StartDelayedTx
<1>2. SeenAs(Seen!StartDelayedRx(r, ok), r.listener, IF ok THEN "Rx" ELSE "Off", "Ranging",
             r.stsMode, r.sts, r.event)
  BY DEF SeenAs, View, Seen!StartDelayedRx
<1>3. ASSUME NEW window \in {"Listen", "Ranging"}
      PROVE  SeenAs(Seen!StartImmediateRx(r, window, ok), r.listener,
                    IF ok THEN "Rx" ELSE "Off", window, r.stsMode, r.sts, r.event)
  BY DEF SeenAs, View, Seen!StartImmediateRx
<1> QED BY <1>1, <1>2, <1>3

\* Every step, seen through a controller that is ready before and after it.
LEMMA SeenStep ==
    ASSUME DriverInv, [DriverNext]_driverVars, NEW c \in Controllers, Ready(c), Ready(c)'
    PROVE  RadioOf(c)' = RadioOf(c) \/ RadioStep(RadioOf(c), RadioOf(c)')
<1>t. /\ chip \in Chip /\ object \in [Controllers -> Object] /\ c # NoController
      /\ active = c /\ active' = c /\ user' = c /\ Alive(c)
      /\ \A new : Written(new) = new
  BY DriverAssumption DEF DriverInv, DriverTypeOK, AliveInv, NewestIsActive, Ready, Written
<1> DEFINE r == RadioOf(c)
           s == RadioOf(c)'
<1>r. SeenAs(r, object[c].listener, chip.mode, chip.fwto, chip.stsMode,
             [key |-> chip.key, iv |-> chip.iv], chip.event)
  <2>1. object[c].listener \in BOOLEAN
    BY <1>t DEF Object
  <2> QED BY <2>1, <1>t DEF SeenAs, View, RadioOf, Chip
<1>s. SeenAs(s, object'[c].listener, chip'.mode, chip'.fwto, chip'.stsMode,
             [key |-> chip'.key, iv |-> chip'.iv], chip'.event)
  <2>1. DriverTypeOK'
    BY DriverTypeStep DEF DriverInv
  <2>2. object'[c].listener \in BOOLEAN
    BY <2>1 DEF DriverTypeOK, Object
  <2> QED BY <2>1, <2>2 DEF SeenAs, View, RadioOf, Chip, DriverTypeOK
<1>v. /\ r \in View /\ r.listener = object[c].listener /\ r.mode = chip.mode
      /\ r.window = chip.fwto /\ r.stsMode = chip.stsMode
      /\ r.sts = [key |-> chip.key, iv |-> chip.iv] /\ r.event = chip.event
  BY <1>r DEF SeenAs
<1> HIDE DEF r, s
<1>o. /\ SeenAs(Seen!ForceReceiverOff(r), r.listener, "Off", r.window, r.stsMode, r.sts, r.event)
      /\ SeenAs(Seen!Reported(r), r.listener, r.mode, r.window, r.stsMode, r.sts, NoEvent)
      /\ \A stsMode \in {"Off", "NoDataSp3"} :
           SeenAs(Seen!ConfigureStsMode(r, stsMode), r.listener, r.mode, r.window, stsMode,
                  r.sts, r.event)
      /\ \A sts \in [key : Keys \cup {NoKey}, iv : Ivs \cup {NoIv}] :
           SeenAs(Seen!LoadStsKeyIv(r, sts), r.listener, r.mode, r.window, r.stsMode, sts, r.event)
      /\ \A event \in Event :
           SeenAs(Seen!Latch(r, event), r.listener, "Off", r.window, r.stsMode, r.sts, event)
      /\ \A listening \in BOOLEAN :
           SeenAs(Seen!SetListener(r, listening), listening, r.mode, r.window, r.stsMode,
                  r.sts, r.event)
  BY <1>v, SeenOperators
<1>1. ASSUME NEW d \in Controllers, Construct(d) \/ Destroy(d) PROVE s = r
  <2>1. c # d /\ UNCHANGED chip
    BY <1>1, <1>t DEF Construct, Destroy
  <2>2. object'[c] = object[c]
    BY <1>1, <2>1, <1>t DEF Construct, Destroy
  <2> QED BY <2>1, <2>2, <1>r, <1>s, SameView
<1>2. ASSUME NEW d \in Controllers,
             \/ Initialize(d)
             \/ \E pdoa \in PdoaMode : ConfigurePhy(d, pdoa) \/ ConfigurePhyFails(d, pdoa)
      PROVE  s = Seen!ConfigurePhy(Seen!ForceReceiverOff(r), TRUE)
  <2>1. PICK pdoa \in PdoaMode : ConfigurePhy(c, pdoa)
    BY <1>2, <1>t DEF Initialize, ConfigurePhy, ConfigurePhyFails
  <2>2. /\ chip' = [chip EXCEPT !.mode = "Off", !.rxwtoe = TRUE, !.pdoa = pdoa, !.stsMode = "Off"]
        /\ object'[c].listener = object[c].listener
    BY <2>1, <1>t DEF ConfigurePhy, Object
  <2>3. SeenAs(s, r.listener, "Off", r.window, "Off", r.sts, r.event)
    BY <2>2, <1>s, <1>v, <1>t DEF Chip
  <2> DEFINE off == Seen!ForceReceiverOff(r)
  <2>4. /\ off \in View /\ off.listener = r.listener /\ off.window = r.window
        /\ off.sts = r.sts /\ off.event = r.event
    BY <1>v, SeenOperators DEF SeenAs
  <2> HIDE DEF off
  <2>5. SeenAs(Seen!ConfigurePhy(off, TRUE), r.listener, "Off", r.window, "Off", r.sts, r.event)
    BY <2>4, SeenOperators
  <2> QED BY <2>3, <2>5, SameView DEF off
<1>3. ASSUME NEW d \in Controllers, NEW k \in Keys, LoadStsKey(d, k)
      PROVE  s = r \/ s = Seen!LoadStsKeyIv(r, [key |-> k, iv |-> chip.iv])
  <2>1. UNCHANGED object /\ (chip' = chip \/ chip' = [chip EXCEPT !.key = k])
    BY <1>3, <1>t DEF LoadStsKey
  <2>2. CASE chip' = chip
    BY <2>1, <2>2, <1>r, <1>s, SameView
  <2>3. CASE chip' = [chip EXCEPT !.key = k]
    <3>1. SeenAs(s, r.listener, r.mode, r.window, r.stsMode, [key |-> k, iv |-> chip.iv], r.event)
      BY <2>1, <2>3, <1>s, <1>v, <1>t DEF Chip
    <3>2. [key |-> k, iv |-> chip.iv] \in [key : Keys \cup {NoKey}, iv : Ivs \cup {NoIv}]
      BY <1>t DEF Chip
    <3>3. SeenAs(Seen!LoadStsKeyIv(r, [key |-> k, iv |-> chip.iv]),
                 r.listener, r.mode, r.window, r.stsMode, [key |-> k, iv |-> chip.iv], r.event)
      BY <3>2, <1>o
    <3> QED BY <3>1, <3>3, SameView
  <2> QED BY <2>1, <2>2, <2>3
<1>4. ASSUME NEW d \in Controllers, NEW v \in Ivs, LoadStsIv(d, v)
      PROVE  s = Seen!LoadStsKeyIv(r, [key |-> chip.key, iv |-> v])
  <2>1. UNCHANGED object /\ chip' = [chip EXCEPT !.iv = v]
    BY <1>4, <1>t DEF LoadStsIv
  <2>2. SeenAs(s, r.listener, r.mode, r.window, r.stsMode, [key |-> chip.key, iv |-> v], r.event)
    BY <2>1, <1>s, <1>v, <1>t DEF Chip
  <2>3. [key |-> chip.key, iv |-> v] \in [key : Keys \cup {NoKey}, iv : Ivs \cup {NoIv}]
    BY <1>t DEF Chip
  <2>4. SeenAs(Seen!LoadStsKeyIv(r, [key |-> chip.key, iv |-> v]),
               r.listener, r.mode, r.window, r.stsMode, [key |-> chip.key, iv |-> v], r.event)
    BY <2>3, <1>o
  <2> QED BY <2>2, <2>4, SameView
<1>5. ASSUME NEW d \in Controllers, NEW k \in Keys, NEW v \in Ivs, LoadStsKeyIv(d, k, v)
      PROVE  s = Seen!LoadStsKeyIv(r, [key |-> k, iv |-> v])
  <2>1. UNCHANGED object /\ chip' = [chip EXCEPT !.key = k, !.iv = v]
    BY <1>5, <1>t DEF LoadStsKeyIv
  <2>2. SeenAs(s, r.listener, r.mode, r.window, r.stsMode, [key |-> k, iv |-> v], r.event)
    BY <2>1, <1>s, <1>v, <1>t DEF Chip
  <2>3. [key |-> k, iv |-> v] \in [key : Keys \cup {NoKey}, iv : Ivs \cup {NoIv}]
    OBVIOUS
  <2>4. SeenAs(Seen!LoadStsKeyIv(r, [key |-> k, iv |-> v]),
               r.listener, r.mode, r.window, r.stsMode, [key |-> k, iv |-> v], r.event)
    BY <2>3, <1>o
  <2> QED BY <2>2, <2>4, SameView
<1>6. ASSUME NEW d \in Controllers, NEW listening \in BOOLEAN, SetListener(d, listening)
      PROVE  s = r \/ s = Seen!SetListener(r, listening)
  <2>1. UNCHANGED chip
    BY <1>6 DEF SetListener
  <2>2. CASE object'[c].listener = object[c].listener
    BY <2>1, <2>2, <1>r, <1>s, SameView
  <2>3. CASE object'[c].listener = listening
    <3>1. SeenAs(s, listening, r.mode, r.window, r.stsMode, r.sts, r.event)
      BY <2>1, <2>3, <1>s, <1>v
    <3> QED BY <3>1, <1>o, SameView
  <2>4. object'[c].listener \in {object[c].listener, listening}
    BY <1>6, <1>t DEF SetListener, Object
  <2> QED BY <2>2, <2>3, <2>4
<1>7. ASSUME NEW d \in Controllers, NEW stsMode \in {"Off", "NoDataSp3"},
             ConfigureStsMode(d, stsMode)
      PROVE  s = Seen!ConfigureStsMode(r, stsMode)
  <2>1. UNCHANGED object /\ chip' = [chip EXCEPT !.stsMode = stsMode]
    BY <1>7, <1>t DEF ConfigureStsMode
  <2>2. SeenAs(s, r.listener, r.mode, r.window, stsMode, r.sts, r.event)
    BY <2>1, <1>s, <1>v, <1>t DEF Chip
  <2> QED BY <2>2, <1>o, SameView
<1>c. ASSUME NEW window \in {"None", "Listen", "Ranging"}, NEW mode \in {"Off", "Rx", "Tx"},
             chip' = [chip EXCEPT !.fwto = window, !.mode = mode], UNCHANGED object
      PROVE  SeenAs(s, r.listener, mode, window, r.stsMode, r.sts, r.event)
  BY <1>c, <1>s, <1>v, <1>t DEF Chip
<1>8. ASSUME NEW d \in Controllers, NEW ok \in BOOLEAN, StartDelayedTx(d, ok)
      PROVE  s = Seen!StartDelayedTx(r, ok)
  <2> DEFINE mode == IF ok THEN "Tx" ELSE "Off"
  <2>1. /\ chip.mode = "Off" /\ UNCHANGED object /\ mode \in {"Off", "Rx", "Tx"}
        /\ chip' = [chip EXCEPT !.fwto = "None", !.mode = mode]
    BY <1>8, <1>t DEF StartDelayedTx, Starts
  <2>2. SeenAs(Seen!StartDelayedTx(r, ok), r.listener, mode, "None", r.stsMode, r.sts, r.event)
    BY <2>1, <1>v, SeenStarts
  <2> HIDE DEF mode
  <2>3. SeenAs(s, r.listener, mode, "None", r.stsMode, r.sts, r.event)
    BY <2>1, <1>c
  <2> QED BY <2>2, <2>3, SameView
<1>9. ASSUME NEW d \in Controllers, NEW ok \in BOOLEAN, StartDelayedRx(d, ok)
      PROVE  s = Seen!StartDelayedRx(r, ok)
  <2> DEFINE mode == IF ok THEN "Rx" ELSE "Off"
  <2>1. /\ chip.mode = "Off" /\ UNCHANGED object /\ mode \in {"Off", "Rx", "Tx"}
        /\ chip' = [chip EXCEPT !.fwto = "Ranging", !.mode = mode]
    BY <1>9, <1>t DEF StartDelayedRx, Starts
  <2>2. SeenAs(Seen!StartDelayedRx(r, ok), r.listener, mode, "Ranging", r.stsMode, r.sts, r.event)
    BY <2>1, <1>v, SeenStarts
  <2> HIDE DEF mode
  <2>3. SeenAs(s, r.listener, mode, "Ranging", r.stsMode, r.sts, r.event)
    BY <2>1, <1>c
  <2> QED BY <2>2, <2>3, SameView
<1>10. ASSUME NEW d \in Controllers, NEW timeout \in 0 .. 1, NEW ok \in BOOLEAN,
              StartImmediateRx(d, timeout, ok)
       PROVE  \E window \in {"Listen", "Ranging"} : s = Seen!StartImmediateRx(r, window, ok)
  <2> DEFINE window == IF timeout = 0 THEN "Listen" ELSE "Ranging"
             mode == IF ok THEN "Rx" ELSE "Off"
  <2>1. /\ chip.mode = "Off" /\ UNCHANGED object /\ mode \in {"Off", "Rx", "Tx"}
        /\ window \in {"Listen", "Ranging"}
        /\ chip' = [chip EXCEPT !.fwto = window, !.mode = mode]
    BY <1>10, <1>t DEF StartImmediateRx, Starts
  <2> HIDE DEF window
  <2>2. SeenAs(Seen!StartImmediateRx(r, window, ok), r.listener, mode, window, r.stsMode, r.sts,
               r.event)
    BY <2>1, <1>v, SeenStarts
  <2> HIDE DEF mode
  <2>3. SeenAs(s, r.listener, mode, window, r.stsMode, r.sts, r.event)
    BY <2>1, <1>c
  <2> QED BY <2>1, <2>2, <2>3, SameView
<1>11. ASSUME NEW d \in Controllers, ForceReceiverOff(d)
       PROVE  s = Seen!ForceReceiverOff(r)
  <2>1. UNCHANGED object /\ chip' = [chip EXCEPT !.mode = "Off"]
    BY <1>11, <1>t DEF ForceReceiverOff
  <2>2. SeenAs(s, r.listener, "Off", r.window, r.stsMode, r.sts, r.event)
    BY <2>1, <1>s, <1>v, <1>t DEF Chip
  <2> QED BY <2>2, <1>o, SameView
<1>12. ASSUME NEW event \in Event, ChipLatches(event)
       PROVE  Seen!CanLatch(r, event.kind) /\ s = Seen!Latch(r, event)
  <2>1. UNCHANGED object /\ chip' = [chip EXCEPT !.mode = "Off", !.event = event]
    BY <1>12 DEF ChipLatches
  <2>2. Seen!CanLatch(r, event.kind)
    BY <1>12, <1>v DEF ChipLatches, Seen!CanLatch
  <2>3. SeenAs(s, r.listener, "Off", r.window, r.stsMode, r.sts, event)
    BY <2>1, <1>s, <1>v, <1>t DEF Chip
  <2> QED BY <2>2, <2>3, <1>o, SameView
<1>13. ASSUME Dispatch PROVE s = Seen!Reported(r)
  <2>1. UNCHANGED object /\ chip' = [chip EXCEPT !.event = NoEvent]
    BY <1>13 DEF Dispatch
  <2>2. SeenAs(s, r.listener, r.mode, r.window, r.stsMode, r.sts, NoEvent)
    BY <2>1, <1>s, <1>v, <1>t DEF Chip
  <2> QED BY <2>2, <1>o, SameView
<1>14. ASSUME UNCHANGED driverVars PROVE s = r
  BY <1>14, <1>r, <1>s, SameView DEF driverVars
<1>15. chip.key \in Keys \cup {NoKey} /\ chip.iv \in Ivs \cup {NoIv}
  BY <1>t DEF Chip
<1>16. ASSUME NEW d \in Controllers, Call(d) PROVE s = r \/ RadioStep(r, s)
  <2>1. CASE \/ Construct(d) \/ Destroy(d) \/ Initialize(d)
             \/ \E pdoa \in PdoaMode : ConfigurePhy(d, pdoa) \/ ConfigurePhyFails(d, pdoa)
    BY <2>1, <1>1, <1>2 DEF RadioStep
  <2>l. ASSUME NEW k \in Keys \cup {NoKey}, NEW v \in Ivs \cup {NoIv},
               s = Seen!LoadStsKeyIv(r, [key |-> k, iv |-> v])
        PROVE  RadioStep(r, s)
    BY <2>l DEF RadioStep
  <2>2. CASE \/ \E k \in Keys : LoadStsKey(d, k)
             \/ \E v \in Ivs : LoadStsIv(d, v)
             \/ \E k \in Keys, v \in Ivs : LoadStsKeyIv(d, k, v)
    <3>1. ASSUME NEW k \in Keys, LoadStsKey(d, k) PROVE s = r \/ RadioStep(r, s)
      BY <3>1, <2>l, <1>3, <1>15
    <3>2. ASSUME NEW v \in Ivs, LoadStsIv(d, v) PROVE RadioStep(r, s)
      BY <3>2, <2>l, <1>4, <1>15
    <3>3. ASSUME NEW k \in Keys, NEW v \in Ivs, LoadStsKeyIv(d, k, v) PROVE RadioStep(r, s)
      BY <3>3, <2>l, <1>5
    <3> QED BY <2>2, <3>1, <3>2, <3>3
  <2>3. CASE \/ \E stsMode \in {"Off", "NoDataSp3"} : ConfigureStsMode(d, stsMode)
             \/ ForceReceiverOff(d)
             \/ \E listening \in BOOLEAN : SetListener(d, listening)
    BY <2>3, <1>6, <1>7, <1>11 DEF RadioStep
  <2>4. CASE \/ \E ok \in BOOLEAN : StartDelayedTx(d, ok) \/ StartDelayedRx(d, ok)
             \/ \E timeout \in 0 .. 1, ok \in BOOLEAN : StartImmediateRx(d, timeout, ok)
    BY <2>4, <1>8, <1>9, <1>10 DEF RadioStep
  <2> QED BY <1>16, <2>1, <2>2, <2>3, <2>4 DEF Call
<1>17. ASSUME NEW event \in Event, ChipLatches(event) PROVE RadioStep(r, s)
  BY <1>17, <1>12 DEF RadioStep
<1>18. ASSUME Dispatch PROVE RadioStep(r, s)
  BY <1>18, <1>13 DEF RadioStep
<1>19. s = r \/ RadioStep(r, s)
  BY <1>14, <1>16, <1>17, <1>18 DEF DriverNext
<1> QED BY <1>19 DEF r, s

\* The driver implements the radio the session is modelled with.
THEOREM DriverSeenAsRadio == DriverSpec => SeenAsRadio
<1>1. DriverInv /\ [DriverNext]_driverVars =>
        [\A c \in Controllers :
            Ready(c) /\ Ready(c)' => \/ RadioOf(c)' = RadioOf(c)
                                     \/ RadioStep(RadioOf(c), RadioOf(c)')]_driverVars
  BY SeenStep
<1> QED BY <1>1, DriverInvInit, DriverInvStep, PTL DEF DriverSpec, SeenAsRadio

=============================================================================
