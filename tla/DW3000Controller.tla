-------------------------- MODULE DW3000Controller --------------------------
(***************************************************************************)
(* The radio as the session sees it through transceiver::DW3000Controller: *)
(* one record, and one operator per call that maps the record before the   *)
(* call to the record after it.  A call that can fail takes ok, whether it *)
(* succeeds.                                                               *)
(*                                                                         *)
(*   listener  setListener was given this session (else it is nullptr)     *)
(*   mode      what the transceiver does: "Off", "Rx" or "Tx"              *)
(*   window    the frame-wait timeout in RX_FWTO: "Listen" (0xFFFF, about  *)
(*             a minute), "Ranging" (a leg's window) or "None" (zero)      *)
(*   stsMode   "Off" or "NoDataSp3"                                        *)
(*   sts       the slot keys in STS_KEY and STS_IV                         *)
(*   event     the event the chip has latched and the driver not yet       *)
(*             reported, NoEvent if there is none                          *)
(*                                                                         *)
(* A reception or a transmission ends with an event, and the transceiver   *)
(* is off until it is started again.  forceReceiverOff does not take back  *)
(* an event that is already latched.                                       *)
(***************************************************************************)
CONSTANT NoEvent

EventKind == {"RxSuccess", "RxTimeout", "RxError", "TxDone"}

SetListener(r, listening) == [r EXCEPT !.listener = listening]

ForceReceiverOff(r) == [r EXCEPT !.mode = "Off"]

ConfigureStsMode(r, stsMode) == [r EXCEPT !.stsMode = stsMode]

LoadStsKeyIv(r, slotKeys) == [r EXCEPT !.sts = slotKeys]

\* dwt_configure switches the STS off; a failure comes before it took effect.
ConfigurePhy(r, ok) ==
    [r EXCEPT !.mode = "Off", !.stsMode = IF ok THEN "Off" ELSE @]

\* The timeout register is written before the receiver is enabled, hence
\* also when enabling it fails.
StartImmediateRx(r, window, ok) ==
    [r EXCEPT !.window = window, !.mode = IF ok THEN "Rx" ELSE @]

StartDelayedRx(r, ok) ==
    [r EXCEPT !.window = "Ranging", !.mode = IF ok THEN "Rx" ELSE @]

\* DX_TIME is written as part of a block that sets RX_FWTO to zero.
StartDelayedTx(r, ok) == [r EXCEPT !.window = "None", !.mode = IF ok THEN "Tx" ELSE @]

\* The chip finishes what it was doing and latches the event.
CanLatch(r, kind) ==
    /\ r.event = NoEvent
    /\ r.mode = IF kind = "TxDone" THEN "Tx" ELSE "Rx"

Latch(r, event) == [r EXCEPT !.mode = "Off", !.event = event]

\* The driver reports the latched event, to the listener if there is one.
Reports(r, kind) == r.event # NoEvent /\ r.event.kind = kind /\ r.listener
Drops(r)         == r.event # NoEvent /\ ~ r.listener
Reported(r)      == [r EXCEPT !.event = NoEvent]

=============================================================================
