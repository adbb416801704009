------------------------------- MODULE CpuComm -------------------------------
(***************************************************************************)
(* How a tool on the board asks the video firmware for an address:         *)
(* main of ARM_Linux/app/main.c up to its comm_get_addr calls,             *)
(* Trid_Util_CPUComm_Init, Trid_Util_CPUComm_Call, cpu_comm_is_ready and   *)
(* comm_get_addr of ARM_Linux/library, and ioctl_b of include/ioctl.h.     *)
(*                                                                         *)
(* ioctl_b repeats an ioctl until it succeeds, or returns -1 when errno is *)
(* ERESTARTSYS; so on a closed descriptor it never returns.  The loops     *)
(* that change nothing (ioctl_b on an error, "cpu comm not ready") are     *)
(* waiting here.  The driver and the firmware are external: a call gets a  *)
(* session of its own, and the answer is fetched by the session's number.  *)
(***************************************************************************)
EXTENDS Integers, Sequences

CONSTANTS
    Requests,   \* the indices main asks for, in its order
    NoAddress,  \* the 0 in Param[1]: the firmware does not know the address
    MaxTrouble  \* bound: interrupted ioctls and answers without an address

ASSUME CpuCommAssumption ==
    /\ NoAddress \notin {Requests[k] : k \in DOMAIN Requests}
    /\ Len(Requests) \in Nat \ {0} /\ DOMAIN Requests = 1..Len(Requests)
    /\ MaxTrouble \in Nat

VARIABLES
    \* the tool
    pc,         \* where it is
    fd,         \* g_comm_fd: -1, open, or closed with its number kept
    infos,      \* entries of ShMemMap that are filled
    maps,       \* areas that are mapped
    init,       \* what Trid_Util_CPUComm_Init returned, which main ignores
    session,    \* callparam.SessionID
    got,        \* what comm_get_addr returned, call by call
    \* the driver and the firmware
    state,      \* CPU_STATE_READY or not
    known,      \* indices whose address the firmware knows
    calls,      \* the index each session asks for
    answers,    \* the answers that have come, by session
    trouble

tool     == <<pc, fd, infos, maps, init, session, got>>
firmware == <<state, known, calls, answers>>
vars     == <<tool, firmware, trouble>>

-----------------------------------------------------------------------------
Indices == {Requests[k] : k \in DOMAIN Requests}

\* The index that comm_get_addr is called with now.
Current == Requests[Len(got) + 1]

Init ==
    /\ pc = "start" /\ fd = "none"
    /\ infos = 0 /\ maps = 0 /\ init = "none"
    /\ session = 0 /\ got = <<>>
    /\ state \in {"not ready", "ready"}
    /\ known \in SUBSET Indices
    /\ calls = <<>> /\ answers = [s \in {} |-> NoAddress]
    /\ trouble = 0

Interrupted == trouble < MaxTrouble /\ trouble' = trouble + 1

-----------------------------------------------------------------------------
\* mem_map_init, the chip id, pman_disable.
Start ==
    /\ pc = "start"
    /\ pc' = "open"
    /\ UNCHANGED <<fd, infos, maps, init, session, got, firmware, trouble>>

\* No device, or another chip: main returns.
StartFails ==
    /\ pc = "start"
    /\ pc' = "exit"
    /\ UNCHANGED <<fd, infos, maps, init, session, got, firmware, trouble>>

\* Trid_Util_CPUComm_Init opens the driver ...
Open ==
    /\ pc = "open"
    /\ fd' = "open"
    /\ pc' = "info"
    /\ UNCHANGED <<infos, maps, init, session, got, firmware, trouble>>

\* ... or cannot; main goes on all the same, to the first comm_get_addr.
OpenFails ==
    /\ pc = "open"
    /\ init' = "failed"
    /\ pc' = "ready"
    /\ UNCHANGED <<fd, infos, maps, session, got, firmware, trouble>>

\* It asks twice for the shared area; the index it asks with stays 0, so
\* both entries are the same area.
GetInfo ==
    /\ pc = "info"
    /\ infos' = infos + 1
    /\ pc' = IF infos' = 2 THEN "map" ELSE "info"
    /\ UNCHANGED <<fd, maps, init, session, got, firmware, trouble>>

\* It maps the area at its fixed address, for writing and then for reading.
MapShared ==
    /\ pc = "map"
    /\ maps' = maps + 1
    /\ IF maps' = 2 THEN pc' = "ready" /\ init' = "ok" ELSE UNCHANGED <<pc, init>>
    /\ UNCHANGED <<fd, infos, session, got, firmware, trouble>>

\* Mutant: the descriptor stays open.
InitFailsOpen ==
    /\ pc \in {"info", "map"}
    /\ init' = "failed"
    /\ pc' = "ready"
    /\ UNCHANGED <<fd, infos, maps, session, got, firmware, trouble>>

\* IOERROR: an ioctl is interrupted, an area is at 0, mmap goes elsewhere.
\* The descriptor is closed, but g_comm_fd keeps its number.
InitFails ==
    /\ pc \in {"info", "map"}
    /\ fd' = "closed"
    /\ init' = "failed"
    /\ pc' = "ready"
    /\ UNCHANGED <<infos, maps, session, got, firmware, trouble>>

-----------------------------------------------------------------------------
\* cpu_comm_is_ready returns 1.  On -1 it never does, on a closed descriptor
\* it does not return at all.
IsReady ==
    /\ pc = "ready" /\ fd = "open" /\ state = "ready"
    /\ pc' = "send"
    /\ UNCHANGED <<fd, infos, maps, init, session, got, firmware, trouble>>

\* CPU_COMM_SEND_MASTER_CALL: the driver opens a session.
SendCall ==
    /\ pc = "send"
    /\ calls' = Append(calls, Current)
    /\ session' = Len(calls')
    /\ pc' = "receive"
    /\ UNCHANGED <<fd, infos, maps, init, got, state, known, answers, trouble>>

\* An interrupted ioctl of Call: comm_get_addr sleeps and calls again.  The
\* session of the first call stays behind in the driver.
CallInterrupted ==
    /\ pc \in {"send", "receive"}
    /\ Interrupted
    /\ pc' = "ready"
    /\ UNCHANGED <<fd, infos, maps, init, session, got, firmware>>

\* What comm_get_addr makes of an answer: it returns an address, and calls
\* again when there is none.
Take(answer) ==
    /\ got' = IF answer = NoAddress THEN got ELSE Append(got, answer)
    /\ pc' = IF Len(got') = Len(Requests) THEN "done" ELSE "ready"

\* Mutant: the session is not handed over, any answer will do ...
ReceiveAny ==
    /\ pc = "receive"
    /\ \E s \in DOMAIN answers : Take(answers[s])
    /\ UNCHANGED <<fd, infos, maps, init, session, firmware, trouble>>

\* ... or the call is not repeated when its answer is empty.
ReceiveAddress ==
    /\ pc = "receive"
    /\ session \in DOMAIN answers /\ answers[session] # NoAddress
    /\ Take(answers[session])
    /\ UNCHANGED <<fd, infos, maps, init, session, firmware, trouble>>

\* CPU_COMM_GET_SLAVE_RESP with the session of the call; it waits for ever.
Receive ==
    /\ pc = "receive"
    /\ session \in DOMAIN answers
    /\ Take(answers[session])
    /\ UNCHANGED <<fd, infos, maps, init, session, firmware, trouble>>

-----------------------------------------------------------------------------
ComesUp ==
    /\ state = "not ready"
    /\ state' = "ready"
    /\ UNCHANGED <<tool, known, calls, answers, trouble>>

\* A channel is opened, and its descriptor has an address.
Learns ==
    /\ \E index \in Indices \ known : known' = known \cup {index}
    /\ UNCHANGED <<tool, state, calls, answers, trouble>>

Unanswered == DOMAIN calls \ DOMAIN answers
Answered(s, answer) == answers' = [r \in DOMAIN answers \cup {s} |->
                                     IF r = s THEN answer ELSE answers[r]]

Answers(s) ==
    /\ s \in Unanswered /\ calls[s] \in known
    /\ Answered(s, calls[s])
    /\ UNCHANGED <<tool, state, known, calls, trouble>>

AnswersNothing ==
    /\ Interrupted
    /\ \E s \in Unanswered : calls[s] \notin known /\ Answered(s, NoAddress)
    /\ UNCHANGED <<tool, state, known, calls>>

-----------------------------------------------------------------------------
Tool ==
    \/ Start \/ StartFails
    \/ Open \/ OpenFails \/ GetInfo \/ MapShared \/ InitFails
    \/ IsReady \/ SendCall \/ CallInterrupted \/ Receive

Next ==
    \/ Tool
    \/ ComesUp \/ Learns \/ AnswersNothing
    \/ \E s \in DOMAIN calls : Answers(s)

\* The tool is scheduled.  Of the firmware it is assumed that it comes up,
\* learns of every channel and answers the latest call: comm_get_addr waits
\* for this without a limit.
Fairness ==
    /\ WF_vars(Tool)
    /\ WF_vars(ComesUp) /\ WF_vars(Learns) /\ WF_vars(Answers(Len(calls)))

Spec == Init /\ [][Next]_vars /\ Fairness

-----------------------------------------------------------------------------
(***************************************************************************)
(* Properties                                                              *)
(***************************************************************************)

\* Every variable holds a value of its kind; Init fills two entries of ShMemMap
\* and maps two areas, never a third, and never is more got than was requested.
TypeOK ==
    /\ pc \in {"start", "open", "info", "map", "ready", "send", "receive", "done", "exit"}
    /\ fd \in {"none", "open", "closed"} /\ init \in {"none", "failed", "ok"}
    /\ infos \in 0..2 /\ maps \in 0..2
    /\ session \in 0..Len(calls) /\ got \in Seq(Indices) /\ Len(got) <= Len(Requests)
    /\ state \in {"not ready", "ready"} /\ known \subseteq Indices
    /\ calls \in Seq(Indices) /\ DOMAIN answers \subseteq 1..Len(calls)
    /\ answers \in [DOMAIN answers -> Indices \cup {NoAddress}]
    /\ trouble \in 0..MaxTrouble

\* Every comm_get_addr that returns has returned the address of the index it
\* was called with, never an answer left behind by an earlier call that was
\* interrupted or got no address: a recorder maps the ring it asked for.
AddressOfItsIndex == \A k \in DOMAIN got : got[k] = Requests[k]

\* Although main ignores what Trid_Util_CPUComm_Init returns, nothing is ever
\* sent to the firmware unless both areas are mapped and the driver is open:
\* a failed initialisation leaves a descriptor with which nothing succeeds.
SendsOnlyWhenMapped ==
    calls # <<>> => maps = 2 /\ fd = "open" /\ init = "ok"

\* After a successful initialisation main gets all its addresses, whatever
\* is interrupted on the way and however often the answer is 0.
AddressesFound == (init = "ok") ~> (pc = "done")
=============================================================================
