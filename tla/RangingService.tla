--------------------------- MODULE RangingService ---------------------------
(***************************************************************************)
(* What a responder session promises to its application, whatever is on    *)
(* the air: while it is off or suspended nothing happens; an exchange      *)
(* begins when the session listens, is reported only after its Poll was    *)
(* answered, and ends with the session listening again or taken out by a   *)
(* control call.  The ledger counts how often each exchange was reported    *)
(* since the session was last set up: never more than once.                *)
(*                                                                         *)
(* This is the abstract specification of RangingSession; RangingReports    *)
(* states that the session implements it.                                  *)
(***************************************************************************)
EXTENDS Naturals

CONSTANT Exchange  \* what identifies an exchange

VARIABLES
    phase,   \* what the session is doing
    ledger   \* how often it has reported each exchange since it was set up

serviceVars == <<phase, ledger>>

\* "Open": a Pre-Poll has begun an exchange; "Answered": the Response to its
\* Poll was handed to the transmitter.
Phase == {"Off", "Suspended", "Listening", "Open", "Answered"}

Running == {"Open", "Answered"}

NothingReported == [x \in Exchange |-> 0]

ServiceInit == phase = "Off" /\ ledger = NothingReported

-----------------------------------------------------------------------------
\* The control calls.  A set-up that fails half-way changes no phase, but the
\* ledger may be a new one.
SetUpSession ==
    /\ phase' \in {phase, "Listening"}
    /\ ledger' = NothingReported

TurnOff == phase' = "Off" /\ UNCHANGED ledger

PutToSleep == phase' = "Suspended" /\ UNCHANGED ledger

WakeUp ==
    /\ phase = "Suspended"
    /\ phase' = "Listening"
    /\ UNCHANGED ledger

\* An exchange.
Open ==
    /\ phase = "Listening"
    /\ phase' = "Open"
    /\ UNCHANGED ledger

Answer ==
    /\ phase = "Open"
    /\ phase' = "Answered"
    /\ UNCHANGED ledger

Abandon ==
    /\ phase \in Running
    /\ phase' = "Listening"
    /\ UNCHANGED ledger

Report ==
    /\ phase = "Answered"
    /\ phase' = "Listening"
    /\ \E x \in Exchange :
         /\ ledger[x] = 0
         /\ ledger' = [ledger EXCEPT ![x] = 1]

ServiceNext ==
    \/ SetUpSession \/ TurnOff \/ PutToSleep \/ WakeUp
    \/ Open \/ Answer \/ Abandon \/ Report

ServiceSpec == ServiceInit /\ [][ServiceNext]_serviceVars

=============================================================================
