------------------------ MODULE RangingReports_proofs ------------------------
(***************************************************************************)
(* The responder session implements RangingService, for every set of       *)
(* parameters, frames, faults and callback calls.                          *)
(***************************************************************************)
EXTENDS RangingReports, RangingSession_proofs

-----------------------------------------------------------------------------
(***************************************************************************)
(* The ledger follows the session and takes nothing from it.               *)
(***************************************************************************)
LEMMA LedgerStepIsSessionStep == [ReportsNext]_reportsVars => [Next]_vars
<1>1. ReportsResult => Next
  BY DEF ReportsResult, OnFinalData, HandleEvent, Next
<1>2. RenewsCounters => Next
  BY DEF RenewsCounters, Start, ControlCall, Next
<1>3. FailsToRenew => Next
  BY DEF FailsToRenew, Start, ControlCall, Next
<1>4. OtherStep => Next
  BY <1>3 DEF OtherStep, OnFinalData, ControlCall, HandleEvent, Next
<1>5. UNCHANGED reportsVars => UNCHANGED vars
  BY DEF reportsVars
<1> QED BY <1>1, <1>2, <1>4, <1>5 DEF ReportsNext

LedgerOK == ledger \in [Exchange -> Nat]

\* What a step does to the ledger and to the mark of the last Final_Data.
LEMMA LedgerCases ==
    ASSUME TypeOK, [ReportsNext]_reportsVars
    PROVE  \/ ReportsResult
           \/ ledger' = NothingReported
           \/ /\ UNCHANGED ledger
              /\ \/ UNCHANGED m_lastFinalDataCounter
                 \/ FinalDataWithoutResult
<1>1. CASE RenewsCounters
  BY <1>1 DEF RenewsCounters
<1>2. FailsToRenew => UNCHANGED m_lastFinalDataCounter
  <2>1. ASSUME NEW ursk \in Ursks, NEW p \in ParamsSet, NEW node \in NodeConfigs,
               StartWithoutMaterial(ursk, p, node)
        PROVE  UNCHANGED m_lastFinalDataCounter
    BY <2>1 DEF StartWithoutMaterial
  <2>2. ASSUME NEW stsIndex0 \in Anchors, ResumeWithAnchor(stsIndex0), ~ setup'.materialValid
        PROVE  UNCHANGED m_lastFinalDataCounter
    BY <2>2 DEF ResumeWithAnchor
  <2> QED BY <2>1, <2>2 DEF FailsToRenew
<1>3. CASE OtherStep
  <2>1. Stop \/ Suspend \/ Resume => UNCHANGED m_lastFinalDataCounter
    BY DEF Stop, Suspend, Resume
  <2>2. RadioEvent => UNCHANGED m_lastFinalDataCounter
    BY RadioEventLatches DEF LatchEvent
  <2>3. OnPrePoll \/ OnPoll \/ OnTxComplete \/ OnFinal => UNCHANGED m_lastFinalDataCounter
    BY DEF OnPrePoll, UnreadablePrePoll, WarmPrePoll, BootstrapRejected, BootstrapOtherParity,
           BootstrapPrePoll, OnPoll, PollRejected, PollWithoutKeys, PollReceived, OnTxComplete,
           OnFinal
  <2>4. FinalDataRejected \/ OnRxTimeout \/ OnRxError \/ IgnoreEvent \/ DropEvent
           => UNCHANGED m_lastFinalDataCounter
    BY DEF FinalDataRejected, OnRxTimeout, ListenTimeout, LegTimeout, OnRxError, IgnoreEvent,
           DropEvent
  <2> QED BY <1>2, <1>3, <2>1, <2>2, <2>3, <2>4 DEF OtherStep
<1>4. CASE UNCHANGED reportsVars
  BY <1>4 DEF reportsVars, vars
<1> QED BY <1>1, <1>3, <1>4 DEF ReportsNext

LEMMA LedgerTypeStep == TypeOK /\ LedgerOK /\ [ReportsNext]_reportsVars => LedgerOK'
<1> SUFFICES ASSUME TypeOK, LedgerOK, [ReportsNext]_reportsVars PROVE LedgerOK'
  OBVIOUS
<1>1. CASE ReportsResult
  <2> DEFINE x == ExchangeOf(Heard)
  <2>1. ledger' = [ledger EXCEPT ![x] = ledger[x] + 1]
    BY <1>1 DEF ReportsResult
  <2>2. HandledIn("AwaitingFinalData", "RxSuccess")
    BY <1>1 DEF ReportsResult, FinalDataResult
  <2>3. x \in Exchange
    BY <2>2, HandledEvent DEF Exchange
  <2> HIDE DEF x
  <2>4. ledger[x] + 1 \in Nat
    BY <2>3 DEF LedgerOK
  <2> QED BY <2>1, <2>3, <2>4 DEF LedgerOK
<1>2. CASE ledger' = NothingReported
  BY <1>2 DEF NothingReported, LedgerOK
<1>3. CASE UNCHANGED ledger
  BY <1>3 DEF LedgerOK
<1> QED BY <1>1, <1>2, <1>3, LedgerCases

-----------------------------------------------------------------------------
(***************************************************************************)
(* Every reported exchange is behind the mark.                             *)
(***************************************************************************)

\* An accepted Final_Data moves the mark up to its own counter.
LEMMA MarkRises ==
    ASSUME TypeOK, FinalDataWithoutResult \/ FinalDataResult
    PROVE  /\ Heard \in Frames /\ Heard.msg = "FinalData" /\ Heard.counter \in Nat
           /\ m_lastFinalDataCounter' = Heard.counter /\ Heard.counter # None
           /\ m_lastFinalDataCounter \in Nat \cup {None}
           /\ m_lastFinalDataCounter # None => Heard.counter > m_lastFinalDataCounter
<1>1. HandledIn("AwaitingFinalData", "RxSuccess") /\ AcceptsFinalData(Heard)
  BY DEF FinalDataWithoutResult, FinalDataResult
<1>2. Heard \in Frames /\ Heard.counter \in Nat
  BY <1>1, HandledEvent, FrameTypes
<1>3. /\ Heard.msg = "FinalData"
      /\ m_lastFinalDataCounter # None => Heard.counter > m_lastFinalDataCounter
  BY <1>1 DEF AcceptsFinalData
<1>4. m_lastFinalDataCounter' = Heard.counter
  BY DEF FinalDataWithoutResult, FinalDataResult
<1>5. Heard.counter # None
  BY <1>2 DEF None
<1> QED BY <1>2, <1>3, <1>4, <1>5 DEF TypeOK

Marked(x, mark) ==
    \E f \in Frames : /\ f.msg = "FinalData"
                      /\ ExchangeOf(f) = x
                      /\ mark # None
                      /\ f.counter <= mark

LEMMA MarkedStaysMarked ==
    ASSUME TypeOK, FinalDataWithoutResult \/ FinalDataResult,
           NEW x \in Exchange, Marked(x, m_lastFinalDataCounter)
    PROVE  Marked(x, m_lastFinalDataCounter')
<1>1. PICK f \in Frames : /\ f.msg = "FinalData" /\ ExchangeOf(f) = x
                          /\ m_lastFinalDataCounter # None
                          /\ f.counter <= m_lastFinalDataCounter
  BY DEF Marked
<1>2. f.counter \in Nat
  BY FrameTypes
<1>3. f.counter <= m_lastFinalDataCounter'
  BY <1>1, <1>2, MarkRises
<1> QED BY <1>1, <1>3, MarkRises DEF Marked

LEMMA MarkedStep ==
    TypeOK /\ LedgerOK /\ LedgerMarked /\ [ReportsNext]_reportsVars => LedgerMarked'
<1> SUFFICES ASSUME TypeOK, LedgerOK, LedgerMarked, [ReportsNext]_reportsVars,
                    NEW x \in Exchange, ledger'[x] # 0
             PROVE  Marked(x, m_lastFinalDataCounter')
  BY DEF LedgerMarked, Marked
<1>m. ledger[x] # 0 => Marked(x, m_lastFinalDataCounter)
  BY DEF LedgerMarked, Marked
<1>1. CASE ReportsResult
  <2>1. FinalDataResult
    BY <1>1 DEF ReportsResult
  <2>2. CASE x = ExchangeOf(Heard)
    <3>1. Heard.counter <= m_lastFinalDataCounter'
      BY <2>1, MarkRises
    <3> QED BY <2>1, <2>2, <3>1, MarkRises DEF Marked
  <2>3. CASE x # ExchangeOf(Heard)
    <3>1. ledger'[x] = ledger[x]
      BY <1>1, <2>3 DEF ReportsResult, LedgerOK
    <3> QED BY <1>m, <2>1, <3>1, MarkedStaysMarked
  <2> QED BY <2>2, <2>3
<1>2. CASE ledger' = NothingReported
  BY <1>2 DEF NothingReported
<1>3. CASE UNCHANGED ledger /\ UNCHANGED m_lastFinalDataCounter
  BY <1>3, <1>m
<1>4. CASE UNCHANGED ledger /\ FinalDataWithoutResult
  BY <1>4, <1>m, MarkedStaysMarked
<1> QED BY <1>1, <1>2, <1>3, <1>4, LedgerCases

LedgerInv == TypeOK /\ LedgerOK /\ LedgerMarked

LEMMA LedgerInit == ReportsInit => LedgerInv
<1> SUFFICES ASSUME ReportsInit PROVE LedgerInv
  OBVIOUS
<1>1. TypeOK
  BY TypeInit DEF ReportsInit
<1>2. LedgerOK /\ LedgerMarked
  BY DEF ReportsInit, NothingReported, LedgerOK, LedgerMarked
<1> QED BY <1>1, <1>2 DEF LedgerInv

LEMMA LedgerStep == LedgerInv /\ [ReportsNext]_reportsVars => LedgerInv'
BY LedgerStepIsSessionStep, TypeStep, LedgerTypeStep, MarkedStep DEF LedgerInv

\* Every exchange that was reported has a Final_Data whose counter is not
\* above m_lastFinalDataCounter, across rejected and repeated Final_Data,
\* control calls that fail half-way and callbacks that call back.
THEOREM ReportedIsMarked == ReportsSpec => []LedgerMarked
BY LedgerInit, LedgerStep, PTL DEF ReportsSpec, LedgerInv

-----------------------------------------------------------------------------
(***************************************************************************)
(* The refinement, step by step.                                           *)
(***************************************************************************)
LEMMA NotYetReported ==
    ASSUME LedgerInv, FinalDataResult
    PROVE  ExchangeOf(Heard) \in Exchange /\ ledger[ExchangeOf(Heard)] = 0
<1>1. /\ Heard \in Frames /\ Heard.msg = "FinalData" /\ Heard.counter \in Nat
      /\ m_lastFinalDataCounter \in Nat \cup {None}
      /\ m_lastFinalDataCounter # None => Heard.counter > m_lastFinalDataCounter
  BY MarkRises DEF LedgerInv
<1>2. ExchangeOf(Heard) \in Exchange
  BY <1>1 DEF Exchange
<1>3. ASSUME ledger[ExchangeOf(Heard)] # 0 PROVE FALSE
  <2>1. PICK f \in Frames : /\ f.msg = "FinalData" /\ ExchangeOf(f) = ExchangeOf(Heard)
                            /\ m_lastFinalDataCounter # None
                            /\ f.counter <= m_lastFinalDataCounter
    BY <1>2, <1>3 DEF LedgerInv, LedgerMarked
  <2>2. f.key = Heard.key /\ f.sts = Heard.sts
    BY <2>1 DEF ExchangeOf
  <2>3. f.counter = Heard.counter
    BY <1>1, <2>1, <2>2, OneFinalDataPerExchange
  <2> QED BY <1>1, <2>1, <2>3
<1> QED BY <1>2, <1>3

LEMMA ResultIsReport ==
    ASSUME LedgerInv, ReportsResult
    PROVE  Service!Report
<1>1. HandledIn("AwaitingFinalData", "RxSuccess") /\ FinalDataResult
  BY DEF ReportsResult, FinalDataResult
<1>2. m_state = "AwaitingFinalData"
  BY <1>1 DEF HandledIn
<1>3. m_state' = "PrePollListening"
  BY <1>1, BackToListeningDoes DEF BackToListening, LedgerInv
<1>4. PhaseOf(m_state) = "Answered" /\ PhaseOf(m_state') = "Listening"
  BY <1>2, <1>3 DEF PhaseOf
<1> DEFINE x == ExchangeOf(Heard)
<1>5. x \in Exchange /\ ledger[x] = 0
  BY <1>1, NotYetReported
<1>6. ledger' = [ledger EXCEPT ![x] = 1]
  <2>1. ledger' = [ledger EXCEPT ![x] = ledger[x] + 1]
    BY <1>5 DEF ReportsResult, LedgerInv, LedgerOK
  <2> QED BY <1>5, <2>1
<1> HIDE DEF x
<1> QED BY <1>4, <1>5, <1>6 DEF Service!Report

LEMMA RenewalIsSetUp ==
    ASSUME LedgerInv, RenewsCounters
    PROVE  Service!SetUpSession
<1>1. m_state' = m_state \/ m_state' = "PrePollListening"
  <2>1. ASSUME NEW ursk \in Ursks, NEW p \in ParamsSet, NEW node \in NodeConfigs,
               StartWithMaterial(ursk, p, node)
        PROVE  m_state' = m_state \/ m_state' = "PrePollListening"
    BY <2>1, StartDoes DEF Start, LedgerInv
  <2>2. ASSUME NEW stsIndex0 \in Anchors, ResumeWithAnchor(stsIndex0)
        PROVE  m_state' = m_state \/ m_state' = "PrePollListening"
    BY <2>2, ResumeWithAnchorDoes DEF LedgerInv
  <2> QED BY <2>1, <2>2 DEF RenewsCounters
<1>2. PhaseOf(m_state') \in {PhaseOf(m_state), "Listening"}
  BY <1>1 DEF PhaseOf
<1>3. ledger' = [x \in Exchange |-> 0]
  BY DEF RenewsCounters, NothingReported
<1> QED BY <1>2, <1>3 DEF Service!SetUpSession, Service!NothingReported

LEMMA FailureKeepsState ==
    ASSUME FailsToRenew
    PROVE  UNCHANGED m_state
<1>1. ASSUME NEW ursk \in Ursks, NEW p \in ParamsSet, NEW node \in NodeConfigs,
             StartWithoutMaterial(ursk, p, node)
      PROVE  UNCHANGED m_state
  BY <1>1 DEF StartWithoutMaterial
<1>2. ASSUME NEW stsIndex0 \in Anchors, ResumeWithAnchor(stsIndex0), ~ setup'.materialValid
      PROVE  UNCHANGED m_state
  BY <1>2 DEF ResumeWithAnchor
<1> QED BY <1>1, <1>2 DEF FailsToRenew

\* An active state is one of the phases of an exchange.
LEMMA PhasesOfActive ==
    ASSUME m_state \in Active
    PROVE  \/ m_state = "PrePollListening" /\ PhaseOf(m_state) = "Listening"
           \/ PhaseOf(m_state) \in {"Open", "Answered"}
BY DEF Active, PhaseOf

LEMMA OtherStepImplements ==
    ASSUME LedgerInv, OtherStep
    PROVE  Service!ServiceNext \/ UNCHANGED <<PhaseOf(m_state), ledger>>
<1>u. UNCHANGED ledger
  BY DEF OtherStep
<1>s. ASSUME UNCHANGED m_state PROVE UNCHANGED <<PhaseOf(m_state), ledger>>
  BY <1>s, <1>u DEF PhaseOf
<1>n. [Next]_vars /\ TypeOK
  BY LedgerStepIsSessionStep DEF ReportsNext, LedgerInv
<1>1. CASE Stop
  <2>1. PhaseOf(m_state') = "Off"
    BY <1>1 DEF Stop, PhaseOf
  <2> QED BY <1>u, <2>1 DEF Service!TurnOff, Service!ServiceNext
<1>2. CASE Suspend
  <2>1. PhaseOf(m_state') = "Suspended"
    BY <1>2 DEF Suspend, PhaseOf
  <2> QED BY <1>u, <2>1 DEF Service!PutToSleep, Service!ServiceNext
<1>3. CASE Resume
  <2>1. m_state = "Suspended" /\ m_state' = "PrePollListening"
    BY <1>3, <1>n, ResumeDoes
  <2>2. PhaseOf(m_state) = "Suspended" /\ PhaseOf(m_state') = "Listening"
    BY <2>1 DEF PhaseOf
  <2> QED BY <1>u, <2>2 DEF Service!WakeUp, Service!ServiceNext
<1>4. CASE BackToListening
  <2>1. m_state \in Active /\ m_state' = "PrePollListening"
    BY <1>4, <1>n, BackToListeningDoes
  <2>2. PhaseOf(m_state') = "Listening"
    BY <2>1 DEF PhaseOf
  <2>3. CASE m_state = "PrePollListening"
    BY <1>s, <2>1, <2>3
  <2>4. CASE PhaseOf(m_state) \in {"Open", "Answered"}
    BY <1>u, <2>2, <2>4 DEF Service!Abandon, Service!Running, Service!ServiceNext
  <2> QED BY <2>1, <2>3, <2>4, PhasesOfActive
<1>5. CASE WarmPrePoll \/ BootstrapPrePoll \/ BootstrapOtherParity
  <2>1. m_state = "PrePollListening"
    BY <1>5 DEF WarmPrePoll, BootstrapPrePoll, BootstrapOtherParity, BootstrapFrame, HandledIn
  <2>2. m_state' = "PrePollListening" \/ m_state' = "AwaitingPoll"
    BY <1>5 DEF WarmPrePoll, BootstrapPrePoll, BootstrapOtherParity, ArmPrePollListening
  <2>3. PhaseOf(m_state) = "Listening"
    BY <2>1 DEF PhaseOf
  <2>4. CASE m_state' = "PrePollListening"
    BY <1>s, <2>1, <2>4
  <2>5. CASE m_state' = "AwaitingPoll"
    <3>1. PhaseOf(m_state') = "Open"
      BY <2>5 DEF PhaseOf
    <3> QED BY <1>u, <2>3, <3>1 DEF Service!Open, Service!ServiceNext
  <2> QED BY <2>2, <2>4, <2>5
<1>6. CASE PollReceived /\ m_state' = "TransmittingResponse"
  <2>1. m_state = "AwaitingPoll"
    BY <1>6 DEF PollReceived, HandledIn
  <2>2. PhaseOf(m_state) = "Open" /\ PhaseOf(m_state') = "Answered"
    BY <1>6, <2>1 DEF PhaseOf
  <2> QED BY <1>u, <2>2 DEF Service!Answer, Service!ServiceNext
<1>7. CASE OnTxComplete /\ cycle.keysValid
  <2>1. m_state = "TransmittingResponse" /\ m_state' = "AwaitingFinal"
    BY <1>7 DEF OnTxComplete, HandledIn
  <2>2. PhaseOf(m_state) = "Answered" /\ PhaseOf(m_state') = "Answered"
    BY <2>1 DEF PhaseOf
  <2> QED BY <1>u, <2>2
<1>8. CASE OnFinal
  <2>1. m_state = "AwaitingFinal" /\ m_state' = "AwaitingFinalData"
    BY <1>8 DEF OnFinal, HandledIn
  <2>2. PhaseOf(m_state) = "Answered" /\ PhaseOf(m_state') = "Answered"
    BY <2>1 DEF PhaseOf
  <2> QED BY <1>u, <2>2
<1>9. CASE ListenTimeout \/ IgnoreEvent \/ DropEvent \/ RadioEvent
  <2>1. UNCHANGED m_state
    BY <1>9, RadioEventLatches DEF ListenTimeout, IgnoreEvent, DropEvent, LatchEvent
  <2> QED BY <1>s, <2>1
<1>10. CASE FailsToRenew
  BY <1>s, <1>10, FailureKeepsState
<1>11. OtherStep =>
         \/ Stop \/ Suspend \/ Resume \/ FailsToRenew \/ BackToListening
         \/ WarmPrePoll \/ BootstrapPrePoll \/ BootstrapOtherParity
         \/ PollReceived /\ m_state' = "TransmittingResponse"
         \/ OnTxComplete /\ cycle.keysValid
         \/ OnFinal \/ ListenTimeout \/ IgnoreEvent \/ DropEvent \/ RadioEvent
  <2>1. PollReceived => m_state' = "TransmittingResponse" \/ m_state' = "PrePollListening"
    BY DEF PollReceived, ArmPrePollListening
  <2> QED BY <2>1 DEF OtherStep, OnPrePoll, OnPoll, OnRxTimeout, BackToListening
<1> QED BY <1>1, <1>2, <1>3, <1>4, <1>5, <1>6, <1>7, <1>8, <1>9, <1>10, <1>11

LEMMA StepImplements ==
    LedgerInv /\ [ReportsNext]_reportsVars => [Service!ServiceNext]_<<PhaseOf(m_state), ledger>>
<1> SUFFICES ASSUME LedgerInv, [ReportsNext]_reportsVars
             PROVE  Service!ServiceNext \/ UNCHANGED <<PhaseOf(m_state), ledger>>
  OBVIOUS
<1>1. CASE ReportsResult
  BY <1>1, ResultIsReport DEF Service!ServiceNext
<1>2. CASE RenewsCounters
  BY <1>2, RenewalIsSetUp DEF Service!ServiceNext
<1>3. CASE OtherStep
  BY <1>3, OtherStepImplements
<1>4. CASE UNCHANGED reportsVars
  BY <1>4 DEF reportsVars, vars, PhaseOf
<1> QED BY <1>1, <1>2, <1>3, <1>4 DEF ReportsNext

\* The session implements the service it promises, for every schedule, every
\* set of frames (repeated, reordered, forged or lost), every fault of the
\* model and every call the range callback may make: in particular no
\* exchange is reported twice, and none whose Poll was not answered.
THEOREM SessionImplementsService == ReportsSpec => ImplementsService
<1>1. ReportsInit => Service!ServiceInit
  BY DEF ReportsInit, Init, PhaseOf, NothingReported, Service!ServiceInit,
         Service!NothingReported
<1>2. LedgerInv /\ [ReportsNext]_reportsVars => [Service!ServiceNext]_(Service!serviceVars)
  BY StepImplements DEF Service!serviceVars
<1> QED BY <1>1, <1>2, LedgerInit, LedgerStep, PTL
    DEF ReportsSpec, ImplementsService, Service!ServiceSpec

=============================================================================
