--------------------------- MODULE RangingReports ---------------------------
(***************************************************************************)
(* The responder session with a ledger of how often it has reported each   *)
(* exchange to the range callback, and the statement that it implements    *)
(* RangingService by this refinement mapping: the session's states give    *)
(* the phase, the ledger is itself.                                        *)
(*                                                                         *)
(* An exchange is identified by what its Final_Data is bound to: the key   *)
(* of its payload and the Final's STS index.  The ledger is renewed with   *)
(* the session's counters, that is, whenever m_lastFinalDataCounter is     *)
(* forgotten: the initiator counts from the beginning again.               *)
(***************************************************************************)
EXTENDS RangingSession

\* The initiator sends the Final_Data of an exchange once.  The air may
\* repeat that frame, but there is no other one with another counter.
ASSUME OneFinalDataPerExchange ==
    \A f, g \in Frames :
        f.msg = "FinalData" /\ g.msg = "FinalData" /\ f.key = g.key /\ f.sts = g.sts
            => f.counter = g.counter

VARIABLE ledger  \* history: the reports of each exchange, see RangingService

reportsVars == <<vars, ledger>>

ExchangeOf(f) == [key |-> f.key, sts |-> f.sts]

Exchange == {ExchangeOf(f) : f \in Frames}

-----------------------------------------------------------------------------
NothingReported == [x \in Exchange |-> 0]

ReportsInit == Init /\ ledger = NothingReported

\* A result goes to the callback.
ReportsResult ==
    /\ FinalDataResult
    /\ ledger' = [ledger EXCEPT ![ExchangeOf(Heard)] = @ + 1]

\* The session's counters begin anew.
RenewsCounters ==
    /\ \/ \E ursk \in Ursks, p \in ParamsSet, node \in NodeConfigs :
             StartWithMaterial(ursk, p, node)
       \/ /\ \E stsIndex0 \in Anchors : ResumeWithAnchor(stsIndex0)
          /\ setup'.materialValid
    /\ ledger' = NothingReported

\* They do not, if no material could be derived.
FailsToRenew ==
    \/ \E ursk \in Ursks, p \in ParamsSet, node \in NodeConfigs :
          StartWithoutMaterial(ursk, p, node)
    \/ /\ \E stsIndex0 \in Anchors : ResumeWithAnchor(stsIndex0)
       /\ ~ setup'.materialValid

OtherStep ==
    /\ \/ Stop \/ Suspend \/ Resume \/ FailsToRenew
       \/ RadioEvent
       \/ OnPrePoll \/ OnPoll \/ OnTxComplete \/ OnFinal
       \/ FinalDataRejected \/ FinalDataWithoutResult
       \/ OnRxTimeout \/ OnRxError \/ IgnoreEvent \/ DropEvent
    /\ UNCHANGED ledger

ReportsNext == ReportsResult \/ RenewsCounters \/ OtherStep

ReportsSpec == ReportsInit /\ [][ReportsNext]_reportsVars

-----------------------------------------------------------------------------
(***************************************************************************)
(* The refinement.                                                         *)
(***************************************************************************)
PhaseOf(state) ==
    CASE state \in {"Uninitialized", "Idle"} -> "Off"
      [] state = "Suspended"                 -> "Suspended"
      [] state = "PrePollListening"          -> "Listening"
      [] state = "AwaitingPoll"              -> "Open"
      [] OTHER                               -> "Answered"

Service == INSTANCE RangingService WITH phase <- PhaseOf(m_state)

\* The session implements the service: an exchange is reported only after the
\* session answered its Poll, none is reported twice (whatever Pre-Polls and
\* Final_Data are repeated, and although warm keys arm an exchange before the
\* Pre-Poll is looked at), and only a control call leaves the cycle.
ImplementsService == Service!ServiceSpec

\* Every reported exchange is one whose Final_Data is no longer accepted: the
\* frame's counter is not above the mark.  This is why none is reported twice.
LedgerMarked ==
    \A x \in Exchange : ledger[x] # 0 =>
        \E f \in Frames :
            /\ f.msg = "FinalData"
            /\ ExchangeOf(f) = x
            /\ m_lastFinalDataCounter # None
            /\ f.counter <= m_lastFinalDataCounter

=============================================================================
