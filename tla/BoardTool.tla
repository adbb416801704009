------------------------------ MODULE BoardTool ------------------------------
(***************************************************************************)
(* Tools on the board that work on what they share with the firmware       *)
(* without a lock (ARM_Linux): a viewer (app/esdesc.c, app/frameq.c,       *)
(* app/format.c, app/test/avsync.c), the program app/pman_disable, which   *)
(* may run at the same time, and app/word.c.                               *)
(*                                                                         *)
(* Both first open the windows of the power manager: pman_disable reads a  *)
(* register, adds what it needs and writes it back, register by register.  *)
(* A viewer then maps the page of its descriptor and shows it for ever,    *)
(* field by field, while the firmware goes on.                             *)
(*                                                                         *)
(* A register is the set of its flags; the empty set is the 0 of a window  *)
(* that is not in use.  The firmware's counters are `written' and `taken': *)
(* bytes through the ES ring, entries through the frame queue, or versions *)
(* of a format or of the shared information (`written' alone).  What lies  *)
(* in the shared memory is less: pointers that come round at the end of    *)
(* the ring, indices that do so at the size of the queue, and a time stamp *)
(* in two words, of which the low one holds one bit here.                  *)
(***************************************************************************)
EXTENDS Integers, Sequences, FiniteSets

CONSTANTS
    Windows,        \* PMAN_GROUP_NUM of both UMACs
    Page,           \* 0x10000: mem_map's granularity
    Top,            \* bound: addresses of descriptors
    RingSize,       \* size of the ES ring
    QueueSize,      \* sz: entries of the frame queue
    MaxWrites,      \* bound: register writes by the firmware and by word
    MaxCount        \* bound: the counters

ASSUME BoardToolAssumption ==
    /\ Windows \in Nat \ {0} /\ Page \in Nat \ {0} /\ RingSize \in Nat \ {0}
    /\ QueueSize \in Nat \ {0}
    /\ Top \in Nat /\ MaxWrites \in Nat /\ MaxCount \in Nat

VARIABLES
    \* the tools
    pc, at, held,       \* by tool: place, register dealt with, reg_val
    kind,               \* which viewer; "" until that matters
    addr, window,       \* the viewer's descriptor and the page it has mapped
    ptsMapped,          \* whether the page of the PTS descriptor is mapped
    sample,             \* fields read in this round (with the counters, as history)
    \* the registers and the firmware
    reg, writes,
    demux,              \* whether the descriptor is the demux's
    written, taken,
    \* history
    fw,                 \* what was last put into a register by other hands
    dirty,              \* by tool: registers written by them since it read them
    raced,              \* registers they wrote while a tool held their value
    undone              \* whether the malone flag came with an older value

toolVars == <<pc, at, held, kind, addr, window, ptsMapped, sample>>
vars == <<toolVars, reg, writes, demux, written, taken, fw, dirty, raced, undone>>

-----------------------------------------------------------------------------
Tools == {"viewer", "switch"}
Kinds == {"esdesc", "frameq", "format", "avsync"}

\* Registers in the order of pman_disable: of each window SETTING, then CTRL.
Registers  == 1..2 * Windows
Setting(r) == r % 2 = 1
Need(r)    == IF Setting(r) THEN {"arm read"} ELSE {"read write"}

\* 0xF50051E8, where app/pman_disable adds 0x20, is the SETTING of a window.
Malone == 1

\* What the firmware puts into a register: among others values that
\* pman_disable leaves alone.
Values(r) == {{}, {"own"}, IF Setting(r) THEN {"own"} \cup Need(r) ELSE Need(r)}

\* Whether pman_disable changes a register with this value: SETTING is
\* masked, CTRL is compared as a whole.
Lacks(r, value) ==
    value # {} /\ IF Setting(r) THEN ~(Need(r) \subseteq value) ELSE value # Need(r)

NoWindow == [base |-> 0, size |-> 0]

Init ==
    /\ pc = [t \in Tools |-> "start"] /\ at = [t \in Tools |-> 1] /\ held = [t \in Tools |-> {}]
    /\ kind = "" /\ addr = 0 /\ window = NoWindow /\ ptsMapped = FALSE
    /\ sample = <<>>
    /\ reg \in [Registers -> UNION {Values(r) : r \in Registers}]
    /\ \A r \in Registers : reg[r] \in Values(r)
    /\ writes = 0 /\ demux = FALSE /\ written = 0 /\ taken = 0
    /\ fw = reg /\ dirty = [t \in Tools |-> {}] /\ raced = {} /\ undone = FALSE

-----------------------------------------------------------------------------
(***************************************************************************)
(* pman_disable                                                            *)
(***************************************************************************)
Goes(t, place) == pc' = [pc EXCEPT ![t] = place]

Rest == <<kind, addr, window, ptsMapped, sample, demux, written, taken>>

\* mem_map_init and the mapping of the registers.  Without the device a
\* viewer returns; app/pman_disable does not look, and like after a failed
\* mmap the first register is read through NULL.
Start(t) ==
    /\ pc[t] = "start"
    /\ Goes(t, "read") \/ Goes(t, "crashed") \/ (t = "viewer" /\ Goes(t, "exit"))
    /\ UNCHANGED <<at, held, reg, writes, fw, dirty, raced, undone, Rest>>

\* The register after the one dealt with, or what comes after the last:
\* the viewer's call for its address, or app/pman_disable's malone flag.
Advance(t) ==
    IF at[t] < 2 * Windows
    THEN at' = [at EXCEPT ![t] = at[t] + 1] /\ Goes(t, "read")
    ELSE at' = [at EXCEPT ![t] = Malone]
         /\ Goes(t, IF t = "viewer" THEN "address" ELSE "read malone")

\* Mutant: reg_val is read once, for the first register.
ReadRegOnce(t) ==
    /\ pc[t] = "read"
    /\ held' = IF at[t] = 1 THEN [held EXCEPT ![t] = reg[at[t]]] ELSE held
    /\ dirty' = [dirty EXCEPT ![t] = dirty[t] \ {at[t]}]
    /\ IF Lacks(at[t], held'[t]) THEN Goes(t, "write") /\ UNCHANGED at ELSE Advance(t)
    /\ UNCHANGED <<reg, writes, fw, raced, undone, Rest>>

ReadReg(t) ==
    /\ pc[t] = "read"
    /\ held' = [held EXCEPT ![t] = reg[at[t]]]
    /\ dirty' = [dirty EXCEPT ![t] = dirty[t] \ {at[t]}]
    /\ IF Lacks(at[t], held'[t]) THEN Goes(t, "write") /\ UNCHANGED at ELSE Advance(t)
    /\ UNCHANGED <<reg, writes, fw, raced, undone, Rest>>

\* Mutant: only the needed flags are written.
WriteRegAlone(t) ==
    /\ pc[t] = "write"
    /\ reg' = [reg EXCEPT ![at[t]] = Need(at[t])]
    /\ Advance(t)
    /\ UNCHANGED <<held, writes, fw, dirty, raced, undone, Rest>>

WriteReg(t) ==
    /\ pc[t] = "write"
    /\ reg' = [reg EXCEPT ![at[t]] = held[t] \cup Need(at[t])]
    /\ Advance(t)
    /\ UNCHANGED <<held, writes, fw, dirty, raced, undone, Rest>>

\* The last lines of app/pman_disable: whatever the register holds.
ReadMalone(t) ==
    /\ pc[t] = "read malone"
    /\ held' = [held EXCEPT ![t] = reg[Malone]]
    /\ Goes(t, "write malone")
    /\ UNCHANGED <<at, reg, writes, fw, dirty, raced, undone, Rest>>

WriteMalone(t) ==
    /\ pc[t] = "write malone"
    /\ reg' = [reg EXCEPT ![Malone] = held[t] \cup {"malone"}]
    /\ undone' = (undone \/ held[t] # reg[Malone])
    /\ Goes(t, "exit")
    /\ UNCHANGED <<at, held, writes, fw, dirty, raced, Rest>>

\* The firmware, or word with an address and a value, puts a value into a
\* register.
Holds(t, r) == pc[t] \in {"write", "write malone"} /\ at[t] = r

WriteWord(r, value) ==
    /\ writes < MaxWrites
    /\ writes' = writes + 1
    /\ reg' = [reg EXCEPT ![r] = value]
    /\ fw' = [fw EXCEPT ![r] = value]
    /\ dirty' = [t \in Tools |-> dirty[t] \cup {r}]
    /\ raced' = IF \E t \in Tools : Holds(t, r) THEN raced \cup {r} ELSE raced \ {r}
    /\ UNCHANGED <<pc, at, held, undone, Rest>>

-----------------------------------------------------------------------------
(***************************************************************************)
(* The viewer                                                              *)
(***************************************************************************)
Pman == <<at, held, reg, writes, fw, dirty, raced, undone>>

\* The structures of the descriptors, as far as the viewers read them.
avmips_desc == <<"start", "end", "wp", "rp">>
demux_desc == <<"wp", "rp", "start", "end">>
FrameQ_t == <<"q", "sz", "wrIdx", "rdIdx">>
MpegFormat_t == <<"wHsize", "wVsize">>
triVideoSharedInfo_t == <<"PtsLow", "PtsHigh", "VideoStandard">>

\* The mains of the viewers: which fields they read and in which orders, how
\* these lie in the structure that the firmware names (of the demux or not),
\* whether they tell the demux by the address, whether they map a page for the
\* PTS descriptor too.  esdesc reads that one, and shows nothing of it; no
\* pointer is volatile, so the compiler may read wp and rp either way round;
\* frameq's fields are operands of one expression; a time stamp's 64 bits are two
\* words.
esdesc ==
    [orders |-> {<<"start", "end", "wp", "rp", "pts">>, <<"start", "end", "rp", "wp", "pts">>},
     layout |-> [d \in BOOLEAN |-> IF d THEN demux_desc ELSE avmips_desc],
     demux  |-> BOOLEAN, pts |-> BOOLEAN]
frameq ==
    [orders |-> {<<"wrIdx", "rdIdx">>, <<"rdIdx", "wrIdx">>},
     layout |-> [d \in BOOLEAN |-> FrameQ_t],
     demux  |-> BOOLEAN, pts |-> BOOLEAN]
format ==
    [orders |-> {<<"wHsize", "wVsize", "wHsize", "wVsize">>},
     layout |-> [d \in BOOLEAN |-> MpegFormat_t],
     demux  |-> {FALSE}, pts |-> {FALSE}]
avsync ==
    [orders |-> {<<"VideoStandard", "PtsLow", "PtsHigh">>,
                 <<"VideoStandard", "PtsHigh", "PtsLow">>},
     layout |-> [d \in BOOLEAN |-> triVideoSharedInfo_t],
     demux  |-> {FALSE}, pts |-> {FALSE}]
MainOf(k) == CASE k = "esdesc" -> esdesc [] k = "frameq" -> frameq
               [] k = "format" -> format [] k = "avsync" -> avsync

Layout == MainOf(kind).layout[demux]
Offset(field) == (CHOOSE k \in DOMAIN Layout : Layout[k] = field) - 1

\* Trid_Util_CPUComm_Init and comm_get_addr (get_addr in frameq.c), which
\* are CpuComm's; a channel other than 0 and 1 ends the viewer.  From the
\* address esdesc and frameq conclude (g_dtv_flag) whose descriptor it is.
GetAddress ==
    /\ pc["viewer"] = "address"
    /\ \/ /\ addr' \in 0..Top /\ kind' \in Kinds
          /\ demux' \in MainOf(kind').demux
          /\ Goes("viewer", "map")
       \/ Goes("viewer", "exit") /\ UNCHANGED <<addr, kind, demux>>
    /\ UNCHANGED <<Pman, window, ptsMapped, sample, written, taken>>

\* mem_map(address, size): whole pages from the page of the address on; what it
\* returns is the byte asked for.
mem_map(address, size) ==
    LET inPage == address % Page
    IN  [base |-> address - inPage, size |-> IF inPage + size < Page THEN Page ELSE inPage + size]

\* Mutant: the mask is turned round.
MapOffset ==
    /\ pc["viewer"] = "map"
    /\ window' \in {mem_map(addr % Page, Page), NoWindow}
    /\ ptsMapped' \in MainOf(kind).pts
    /\ Goes("viewer", "show")
    /\ UNCHANGED <<Pman, kind, addr, sample, demux, written, taken>>

\* The viewers map the page of the address, and that page alone; esdesc and
\* frameq another one for the PTS descriptor.
Map ==
    /\ pc["viewer"] = "map"
    /\ window' \in {mem_map(addr - (addr % Page), Page), NoWindow}
    /\ ptsMapped' \in MainOf(kind).pts
    /\ Goes("viewer", "show")
    /\ UNCHANGED <<Pman, kind, addr, sample, demux, written, taken>>

\* Mutant: the last byte of an avmips ring is taken for the one behind it.
ValueOfEnd(field) ==
    CASE field = "start" -> RingSize
      [] field = "end"   -> 2 * RingSize - 1
      [] field = "wp"    -> RingSize + (written % RingSize)
      [] field = "rp"    -> RingSize + (taken % RingSize)
      [] field = "wrIdx" -> written % QueueSize
      [] field = "rdIdx" -> taken % QueueSize
      [] field = "pts"   -> 0
      [] field = "PtsLow"  -> written % 2
      [] field = "PtsHigh" -> written \div 2
      [] OTHER           -> written

\* What a field holds; for the ring, what descriptor_get makes of it: the
\* end of the avmips layout is its last byte, the demux's pointers carry
\* other bits, which are masked out.  The firmware's indices go on modulo sz.
Value(field) ==
    CASE field = "start" -> RingSize
      [] field = "end"   -> IF demux THEN 2 * RingSize ELSE (2 * RingSize - 1) + 1
      [] field = "wp"    -> RingSize + (written % RingSize)
      [] field = "rp"    -> RingSize + (taken % RingSize)
      [] field = "wrIdx" -> written % QueueSize
      [] field = "rdIdx" -> taken % QueueSize
      [] field = "pts"   -> 0
      [] field = "PtsLow"  -> written % 2
      [] field = "PtsHigh" -> written \div 2
      [] OTHER           -> written

Mapped(field) ==
    IF field = "pts" THEN ptsMapped
    ELSE /\ window # NoWindow
         /\ addr + Offset(field) \in window.base..window.base + window.size - 1

Begins(order, s) == \A k \in 1..Len(s) : s[k].name = order[k]
Complete ==
    Len(sample) > 0 /\ \E order \in MainOf(kind).orders :
                          Len(sample) = Len(order) /\ Begins(order, sample)

\* One field is read.  A round that is complete has been shown, and the
\* next one starts.
Read ==
    LET done  == IF Complete THEN <<>> ELSE sample
        k     == Len(done) + 1
    IN
    /\ pc["viewer"] = "show"
    /\ \E order \in MainOf(kind).orders :
          /\ Begins(order, done)
          /\ IF Mapped(order[k])
             THEN /\ sample' = Append(done, [name |-> order[k], value |-> Value(order[k]),
                                             written |-> written, taken |-> taken])
                  /\ UNCHANGED pc
             ELSE Goes("viewer", "crashed") /\ UNCHANGED sample
    /\ UNCHANGED <<Pman, kind, addr, window, ptsMapped, demux, written, taken>>

\* What is shown of a complete round.
ReadOf(name) == sample[CHOOSE k \in DOMAIN sample : sample[k].name = name]
Field(name)  == ReadOf(name).value

used ==
    IF Field("wp") >= Field("rp") THEN Field("wp") - Field("rp")
    ELSE Field("end") - Field("rp") + Field("wp") - Field("start")

\* A plain difference, printed as a signed number; sz is not looked at.
queued == Field("wrIdx") - Field("rdIdx")

VideoPTS == 2 * Field("PtsHigh") + Field("PtsLow")

\* The firmware writes and takes; before the viewer looks this does not matter.
Produce ==
    /\ pc["viewer"] = "show" /\ written < MaxCount
    /\ kind = "esdesc" => written - taken < RingSize
    /\ kind = "frameq" => written - taken < QueueSize - 1   \* equal indices: empty
    /\ written' = written + 1
    /\ UNCHANGED <<toolVars, reg, writes, demux, taken, fw, dirty, raced, undone>>

Consume ==
    /\ pc["viewer"] = "show" /\ taken < written
    /\ taken' = taken + 1
    /\ UNCHANGED <<toolVars, reg, writes, demux, written, fw, dirty, raced, undone>>

-----------------------------------------------------------------------------
Next ==
    \/ \E t \in Tools :
          Start(t) \/ ReadReg(t) \/ WriteReg(t) \/ ReadMalone(t) \/ WriteMalone(t)
    \/ \E r \in Registers : \E value \in Values(r) : WriteWord(r, value)
    \/ GetAddress \/ Map \/ Read
    \/ Produce \/ Consume

Spec == Init /\ [][Next]_vars

-----------------------------------------------------------------------------
(***************************************************************************)
(* Properties                                                              *)
(***************************************************************************)

\* Every variable holds a value of its kind.
TypeOK ==
    /\ pc \in [Tools -> {"start", "read", "write", "read malone", "write malone", "address",
                         "map", "show", "exit", "crashed"}]
    /\ at \in [Tools -> Registers]
    /\ held \in [Tools -> SUBSET {"own", "arm read", "read write", "malone"}]
    /\ reg \in [Registers -> SUBSET {"own", "arm read", "read write", "malone"}]
    /\ fw \in [Registers -> SUBSET {"own", "arm read", "read write"}]
    /\ dirty \in [Tools -> SUBSET Registers] /\ raced \subseteq Registers /\ undone \in BOOLEAN
    /\ writes \in Nat /\ written \in Nat /\ taken \in Nat
    /\ kind \in Kinds \cup {""} /\ demux \in BOOLEAN /\ addr \in Nat

\* A tool that adds flags without a lock loses a setting of the firmware only
\* if that was made between the tool's read and its write; apart from such a
\* race a register holds the firmware's flags and no others than the tools
\* add, and what is 0 stays 0.  (Not so the malone register: app/pman_disable puts
\* its flag into a window that is not in use, and the next tool opens it.)
Adds(r) == Need(r) \cup IF r = Malone THEN {"malone"} ELSE {}
SettingsKept ==
    \A r \in Registers \ raced :
        /\ fw[r] \subseteq reg[r] /\ reg[r] \subseteq fw[r] \cup Adds(r)
        /\ fw[r] = {} /\ r # Malone => reg[r] = {}

\* A window that a tool has opened stays open until the firmware writes its
\* register again, whatever another tool does at the same time; the one
\* exception is app/pman_disable putting an older value back with its malone
\* flag.
Passed(t, r) ==
    \/ pc[t] \in {"read", "write"} /\ r < at[t]
    \/ pc[t] \in {"address", "map", "show", "read malone", "write malone"}
OpenedStaysOpen ==
    \A t \in Tools, r \in Registers :
        Passed(t, r) /\ r \notin dirty[t] /\ (r = Malone => ~undone) =>
            reg[r] \subseteq {"malone"} \/ Need(r) \subseteq reg[r]

\* What a viewer shows is what there was while it read, but for wraps that
\* the code does not undo: every field of a format is of a version in between;
\* the used bytes are a number there was, modulo the ring; the frames in the
\* queue are one less QueueSize for each wrap that the writer's index is ahead;
\* a time stamp is one less the carries of its low word that the high word did
\* not show.  So three figures are wrong, on a board that does nothing wrong: a
\* full ring is shown empty, and one whose reader has overtaken the write
\* pointer just read almost full (esdesc); after each wrap of the writer's index
\* and until the reader's follows, the queue is shown with a negative number of
\* frames (frameq); a stamp that carries between the reads of its words is one
\* the firmware never had (avsync).
ShownButForWraps ==
    Complete =>
        LET from   == sample[1]
            stored == from.written - taken..written - from.taken
        IN  CASE kind = "esdesc" -> \E bytes \in stored : used = bytes % RingSize
              [] kind = "frameq" ->
                   LET ahead == (ReadOf("wrIdx").written \div QueueSize)
                                    - (ReadOf("rdIdx").taken \div QueueSize)
                   IN  queued + QueueSize * ahead \in stored
              [] kind = "format" ->
                   \A k \in DOMAIN sample : sample[k].value \in from.written..written
              [] kind = "avsync" ->
                   LET carries == (ReadOf("PtsLow").written \div 2)
                                      - (ReadOf("PtsHigh").written \div 2)
                   IN  VideoPTS + 2 * carries \in from.written..written

\* A viewer that reads outside of what it has mapped has a mapping that
\* failed, or its descriptor goes beyond the page that it maps.
CrashesWithReason ==
    pc["viewer"] = "crashed" =>
        \/ window = NoWindow \/ (kind = "esdesc" /\ ~ptsMapped)
        \/ (addr % Page) + Len(Layout) > Page
=============================================================================
