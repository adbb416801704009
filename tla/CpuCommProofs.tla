---------------------------- MODULE CpuCommProofs ----------------------------
(***************************************************************************)
(* TLAPS: what a tool on the board can rely on when it asks the firmware   *)
(* for addresses, for every sequence of requests and any number of         *)
(* interruptions.                                                          *)
(***************************************************************************)
EXTENDS CpuComm, TLAPS

\* How far the initialisation has come, and what it has left behind.
Initialised ==
    /\ maps \in Nat
    /\ init = "ok" => maps = 2 /\ fd = "open"
    /\ pc \in {"start", "open", "info", "map", "exit"} => calls = <<>> /\ init = "none"
    /\ pc \in {"start", "open"} => fd = "none"
    /\ pc \in {"info", "map"} => fd = "open"
    /\ pc = "ready" /\ fd = "open" => init = "ok"
    /\ pc \in {"send", "receive", "done"} => init = "ok"
    /\ calls # <<>> => init = "ok"

\* Which call is in progress, and for what.
InProgress ==
    /\ got \in Seq(Indices)
    /\ calls \in Seq(Indices)
    /\ pc # "done" => Len(got) < Len(Requests)
    /\ pc = "receive" => session \in DOMAIN calls /\ calls[session] = Current

\* What the driver holds: every answer is for what its session asked.
AnswersFit ==
    \A s \in DOMAIN answers : s \in DOMAIN calls /\ answers[s] \in {calls[s], NoAddress}

CommInv == Initialised /\ InProgress /\ AnswersFit /\ AddressOfItsIndex

-----------------------------------------------------------------------------
LEMMA CommInit == Init => CommInv
<1> SUFFICES ASSUME Init PROVE CommInv
  OBVIOUS
<1>1. Initialised
  BY DEF Init, Initialised
<1>2. InProgress
  <2>1. got = <<>> /\ calls = <<>> /\ pc = "start"
    BY DEF Init
  <2>2. Len(Requests) > 0 /\ Len(got) = 0
    BY <2>1, CpuCommAssumption
  <2> QED
    BY <2>1, <2>2 DEF InProgress
<1>3. AnswersFit
  <2>1. DOMAIN answers = {}
    BY DEF Init
  <2> QED
    BY <2>1 DEF AnswersFit
<1>4. AddressOfItsIndex
  <2>1. got \in Seq(Indices) /\ Len(got) = 0
    <3>1. got = <<>>
      BY DEF Init
    <3> QED
      BY <3>1
  <2>2. DOMAIN got = {}
    BY <2>1
  <2> QED
    BY <2>2 DEF AddressOfItsIndex
<1> QED
  BY <1>1, <1>2, <1>3, <1>4 DEF CommInv

\* The initialisation does not touch the calls.
LEMMA InitialisedStep ==
    ASSUME CommInv, [Next]_vars
    PROVE  Initialised'
<1> USE DEF CommInv, Initialised
<1>1. CASE Start \/ StartFails \/ Open \/ OpenFails
  BY <1>1 DEF Start, StartFails, Open, OpenFails, firmware
<1>2. CASE MapShared
  BY <1>2 DEF MapShared, firmware
<1>3. CASE InitFails
  BY <1>3 DEF InitFails, firmware
<1>4. CASE IsReady
  BY <1>4 DEF IsReady, firmware
<1>5. CASE SendCall
  BY <1>5 DEF SendCall
<1>6. CASE CallInterrupted \/ Receive
  BY <1>6 DEF CallInterrupted, Receive, Take, firmware
<1>7. CASE ComesUp \/ Learns \/ AnswersNothing \/ (\E s \in DOMAIN calls : Answers(s))
  BY <1>7 DEF ComesUp, Learns, AnswersNothing, Answers, tool
<1>8. CASE UNCHANGED vars
  BY <1>8 DEF vars, tool, firmware
<1>9. CASE GetInfo
  BY <1>9 DEF GetInfo, firmware
<1> QED
  BY <1>1, <1>2, <1>3, <1>4, <1>5, <1>6, <1>7, <1>8, <1>9 DEF Next, Tool

\* A step that leaves got, calls and answers alone, and enters no call.
LEMMA QuietStep ==
    ASSUME CommInv, UNCHANGED <<got, calls, answers, session>>,
           pc' = "receive" => pc = "receive", pc' # "done" => pc # "done"
    PROVE  InProgress' /\ AnswersFit' /\ AddressOfItsIndex'
BY DEF CommInv, InProgress, AnswersFit, AddressOfItsIndex, Current

\* A new session asks for the current index; the answers of the others stay.
LEMMA SendStep ==
    ASSUME CommInv, SendCall
    PROVE  InProgress' /\ AnswersFit' /\ AddressOfItsIndex'
<1>1. Len(got) + 1 \in DOMAIN Requests /\ Current \in Indices
  BY CpuCommAssumption DEF SendCall, CommInv, InProgress, Current, Indices
<1>2. /\ calls' \in Seq(Indices)
      /\ session' \in DOMAIN calls' /\ calls'[session'] = Current
      /\ \A s \in DOMAIN calls : s \in DOMAIN calls' /\ calls'[s] = calls[s]
  BY <1>1 DEF SendCall, CommInv, InProgress
<1>3. UNCHANGED <<got, answers>> /\ Current' = Current /\ pc = "send"
  BY DEF SendCall, Current
<1> QED
  BY <1>2, <1>3 DEF CommInv, InProgress, AnswersFit, AddressOfItsIndex

\* The answer taken is the one to the session of the call, so it is the
\* address of the current index or none.
LEMMA ReceiveStep ==
    ASSUME CommInv, Receive
    PROVE  InProgress' /\ AnswersFit' /\ AddressOfItsIndex'
<1>1. answers[session] \in {Current, NoAddress} /\ UNCHANGED <<calls, answers, session>>
  BY DEF Receive, CommInv, InProgress, AnswersFit, firmware
<1>2. Len(got) < Len(Requests) /\ got \in Seq(Indices) /\ Current = Requests[Len(got) + 1]
  BY DEF Receive, CommInv, InProgress, Current
<1>3. CASE answers[session] = NoAddress
  BY <1>1, <1>2, <1>3, CpuCommAssumption
     DEF Receive, Take, CommInv, InProgress, AnswersFit, AddressOfItsIndex
<1>4. CASE answers[session] # NoAddress
  <2>1. got' = Append(got, Requests[Len(got) + 1])
    BY <1>1, <1>2, <1>4 DEF Receive, Take
  <2>2. Requests[Len(got) + 1] \in Indices
    BY <1>2, CpuCommAssumption DEF Indices
  <2>3. got' \in Seq(Indices) /\ Len(got') = Len(got) + 1
    BY <1>2, <2>1, <2>2
  <2>4. AddressOfItsIndex'
    BY <1>2, <2>1, <2>2 DEF CommInv, AddressOfItsIndex
  <2>5. pc' # "done" => Len(got') < Len(Requests)
    <3>1. Len(got) \in Nat /\ Len(Requests) \in Nat
      BY <1>2, CpuCommAssumption
    <3>2. pc' # "done" => Len(got') # Len(Requests)
      BY DEF Receive, Take
    <3> QED
      BY <1>2, <2>3, <3>1, <3>2
  <2>6. pc' # "receive"
    BY DEF Receive, Take
  <2> QED
    BY <1>1, <2>3, <2>4, <2>5, <2>6 DEF CommInv, InProgress, AnswersFit
<1> QED
  BY <1>3, <1>4

\* The firmware answers a session with its index's address or with none.
LEMMA AnswerStep ==
    ASSUME CommInv, AnswersNothing \/ (\E s \in DOMAIN calls : Answers(s))
    PROVE  InProgress' /\ AnswersFit' /\ AddressOfItsIndex'
<1>1. UNCHANGED <<tool, calls>>
  BY DEF AnswersNothing, Answers
<1>2. PICK s \in DOMAIN calls : \E a \in {calls[s], NoAddress} : Answered(s, a)
  BY DEF AnswersNothing, Answers, Unanswered
<1>3. AnswersFit'
  BY <1>1, <1>2 DEF CommInv, AnswersFit, Answered
<1> QED
  BY <1>1, <1>3 DEF CommInv, InProgress, AddressOfItsIndex, Current, tool

LEMMA CommStep == CommInv /\ [Next]_vars => CommInv'
<1> SUFFICES ASSUME CommInv, [Next]_vars PROVE CommInv'
  OBVIOUS
<1>1. Initialised'
  BY InitialisedStep
<1>2. InProgress' /\ AnswersFit' /\ AddressOfItsIndex'
  <2>1. CASE Start \/ StartFails \/ Open \/ OpenFails \/ GetInfo \/ MapShared \/ InitFails
    BY <2>1, QuietStep
       DEF Start, StartFails, Open, OpenFails, GetInfo, MapShared, InitFails, firmware
  <2>2. CASE IsReady \/ CallInterrupted
    BY <2>2, QuietStep DEF IsReady, CallInterrupted, firmware
  <2>3. CASE SendCall
    BY <2>3, SendStep
  <2>4. CASE Receive
    BY <2>4, ReceiveStep
  <2>5. CASE ComesUp \/ Learns
    BY <2>5, QuietStep DEF ComesUp, Learns, tool
  <2>6. CASE AnswersNothing \/ (\E s \in DOMAIN calls : Answers(s))
    BY <2>6, AnswerStep
  <2>7. CASE UNCHANGED vars
    BY <2>7, QuietStep DEF vars, tool, firmware
  <2> QED
    BY <2>1, <2>2, <2>3, <2>4, <2>5, <2>6, <2>7 DEF Next, Tool
<1> QED
  BY <1>1, <1>2 DEF CommInv

\* In every reachable state the calls and their answers fit together.
THEOREM CommInvariant == Spec => []CommInv
<1>1. Init => CommInv
  BY CommInit
<1>2. CommInv /\ [Next]_vars => CommInv'
  BY CommStep
<1> QED
  BY <1>1, <1>2, PTL DEF Spec

\* comm_get_addr returns the address of the index it was called with.
THEOREM AddressIsOfItsIndex == Spec => []AddressOfItsIndex
<1>1. CommInv => AddressOfItsIndex
  BY DEF CommInv
<1> QED
  BY <1>1, CommInvariant, PTL

\* Nothing is sent to the firmware unless the initialisation succeeded.
THEOREM SendsOnlyMapped == Spec => []SendsOnlyWhenMapped
<1>1. CommInv => SendsOnlyWhenMapped
  BY DEF CommInv, Initialised, SendsOnlyWhenMapped
<1> QED
  BY <1>1, CommInvariant, PTL
-----------------------------------------------------------------------------
\* How many entries and areas there are, for each place of Init.
Counts ==
    /\ infos \in 0..2 /\ maps \in 0..2
    /\ pc \in {"start", "open"} => infos = 0 /\ maps = 0
    /\ pc = "info" => infos < 2 /\ maps = 0
    /\ pc = "map" => maps < 2

\* The kinds of the variables that CommInv leaves out.
Rest ==
    /\ pc \in {"start", "open", "info", "map", "ready", "send", "receive", "done", "exit"}
    /\ fd \in {"none", "open", "closed"} /\ init \in {"none", "failed", "ok"}
    /\ session \in 0..Len(calls) /\ Len(got) <= Len(Requests)
    /\ state \in {"not ready", "ready"} /\ known \subseteq Indices
    /\ answers \in [DOMAIN answers -> Indices \cup {NoAddress}]
    /\ trouble \in 0..MaxTrouble

LEMMA CountsStep ==
    ASSUME Counts, [Next]_vars
    PROVE  Counts'
<1> USE DEF Counts
<1>1. CASE GetInfo
  <2>1. infos' = infos + 1 /\ pc = "info" /\ maps' = maps /\ infos' \in 0..2
    BY <1>1 DEF GetInfo
  <2>2. IF infos' = 2 THEN pc' = "map" ELSE pc' = "info"
    BY <1>1 DEF GetInfo
  <2> QED
    BY <2>1, <2>2
<1>2. CASE MapShared
  <2>1. maps' = maps + 1 /\ pc = "map" /\ infos' = infos /\ maps' \in 0..2
    BY <1>2 DEF MapShared
  <2>2. IF maps' = 2 THEN pc' = "ready" ELSE pc' = "map"
    BY <1>2 DEF MapShared
  <2> QED
    BY <2>1, <2>2
<1>3. CASE Start \/ StartFails \/ Open \/ OpenFails \/ InitFails
  BY <1>3 DEF Start, StartFails, Open, OpenFails, InitFails
<1>4. CASE IsReady \/ SendCall \/ CallInterrupted \/ Receive
  BY <1>4 DEF IsReady, SendCall, CallInterrupted, Receive, Take
<1>5. CASE \/ ComesUp \/ Learns \/ AnswersNothing \/ (\E s \in DOMAIN calls : Answers(s))
           \/ UNCHANGED vars
  BY <1>5 DEF ComesUp, Learns, AnswersNothing, Answers, vars, tool
<1> QED
  BY <1>1, <1>2, <1>3, <1>4, <1>5 DEF Next, Tool

LEMMA RestStep ==
    ASSUME CommInv, Rest, [Next]_vars
    PROVE  Rest'
<1>1. /\ got \in Seq(Indices) /\ calls \in Seq(Indices)
      /\ pc # "done" => Len(got) < Len(Requests)
  BY DEF CommInv, InProgress
<1>2. Len(calls) \in Nat /\ Len(got) \in Nat /\ DOMAIN calls = 1..Len(calls)
  BY <1>1
<1>3. Len(Requests) \in Nat /\ MaxTrouble \in Nat
  BY CpuCommAssumption
<1>4. Interrupted /\ trouble \in 0..MaxTrouble => trouble' \in 0..MaxTrouble
  BY <1>3 DEF Interrupted
<1>5. CASE Start \/ StartFails \/ Open \/ OpenFails \/ GetInfo \/ MapShared \/ InitFails
  BY <1>5 DEF Rest, Start, StartFails, Open, OpenFails, GetInfo, MapShared, InitFails, firmware
<1>6. CASE IsReady
  BY <1>6 DEF Rest, IsReady, firmware
<1>7. CASE SendCall
  <2>1. calls' = Append(calls, Current) /\ session' = Len(calls')
    BY <1>7 DEF SendCall
  <2>2. Len(calls') = Len(calls) + 1
    BY <1>1, <2>1
  <2>3. session' \in 0..Len(calls')
    BY <1>2, <2>1, <2>2
  <2>4. UNCHANGED <<fd, init, got, state, known, answers, trouble>> /\ pc' = "receive"
    BY <1>7 DEF SendCall
  <2> QED
    BY <2>3, <2>4 DEF Rest
<1>8. CASE CallInterrupted
  BY <1>4, <1>8 DEF Rest, CallInterrupted, firmware
<1>9. CASE Receive
  <2>1. got' = got \/ got' = Append(got, answers[session])
    BY <1>9 DEF Receive, Take
  <2>2. Len(got) < Len(Requests)
    BY <1>1, <1>9 DEF Receive
  <2>3. Len(got') = Len(got) \/ Len(got') = Len(got) + 1
    BY <1>1, <2>1
  <2>4. Len(got') <= Len(Requests)
    BY <1>2, <1>3, <2>2, <2>3
  <2>5. pc' \in {"done", "ready"} /\ UNCHANGED <<fd, init, session, firmware, trouble>>
    BY <1>9 DEF Receive, Take
  <2> QED
    BY <2>4, <2>5 DEF Rest, firmware
<1>10. CASE ComesUp \/ Learns
  BY <1>10 DEF Rest, ComesUp, Learns, tool
<1>11. CASE AnswersNothing \/ (\E s \in DOMAIN calls : Answers(s))
  <2>1. UNCHANGED <<tool, state, known, calls>> /\ (Interrupted \/ trouble' = trouble)
    BY <1>11 DEF AnswersNothing, Answers
  <2>2. PICK s \in DOMAIN calls : \E a \in {calls[s], NoAddress} : Answered(s, a)
    BY <1>11 DEF AnswersNothing, Answers, Unanswered
  <2>3. calls[s] \in Indices
    BY <1>1
  <2>4. answers' \in [DOMAIN answers' -> Indices \cup {NoAddress}]
    BY <2>2, <2>3 DEF Answered, Rest
  <2> QED
    BY <1>4, <2>1, <2>4 DEF Rest, tool
<1>12. CASE UNCHANGED vars
  BY <1>12 DEF Rest, vars, tool, firmware
<1> QED
  BY <1>5, <1>6, <1>7, <1>8, <1>9, <1>10, <1>11, <1>12 DEF Next, Tool

\* Trid_Util_CPUComm_Init and comm_get_addr: every variable holds a value of its
\* kind; two entries and two areas at most, no more addresses than requests, and
\* no answer but to a session.
THEOREM TypesKept == Spec => []TypeOK
<1>1. Init => Counts
  <2>1. Init => pc = "start" /\ infos = 0 /\ maps = 0
    BY DEF Init
  <2> QED
    BY <2>1 DEF Counts
<1>2. Init => Rest
  <2> SUFFICES ASSUME Init PROVE Rest
    OBVIOUS
  <2>1. calls = <<>> /\ got = <<>>
    BY DEF Init
  <2>2. Len(calls) = 0 /\ Len(got) = 0
    BY <2>1
  <2>3. Len(Requests) \in Nat /\ MaxTrouble \in Nat
    BY CpuCommAssumption
  <2>4. session \in 0..Len(calls) /\ Len(got) <= Len(Requests) /\ trouble \in 0..MaxTrouble
    <3>1. session = 0 /\ trouble = 0
      BY DEF Init
    <3> QED
      BY <2>2, <2>3, <3>1
  <2>5. answers \in [DOMAIN answers -> Indices \cup {NoAddress}]
    BY DEF Init
  <2>6. known \subseteq Indices /\ state \in {"not ready", "ready"}
    BY DEF Init
  <2>7. pc = "start" /\ fd = "none" /\ init = "none"
    BY DEF Init
  <2> QED
    BY <2>4, <2>5, <2>6, <2>7 DEF Rest
<1>3. CommInv /\ Counts /\ Rest /\ [Next]_vars => (Counts /\ Rest)'
  BY CountsStep, RestStep
<1>4. CommInv /\ Counts /\ Rest => TypeOK
  <2> SUFFICES ASSUME CommInv, Counts, Rest PROVE TypeOK
    OBVIOUS
  <2>1. got \in Seq(Indices) /\ calls \in Seq(Indices)
    BY DEF CommInv, InProgress
  <2>2. DOMAIN calls = 1..Len(calls)
    BY <2>1
  <2>3. DOMAIN answers \subseteq 1..Len(calls)
    BY <2>2 DEF CommInv, AnswersFit
  <2> QED
    BY <2>1, <2>3 DEF Counts, Rest, TypeOK
<1> QED
  BY <1>1, <1>2, <1>3, <1>4, CommInvariant, PTL DEF Spec
=============================================================================
