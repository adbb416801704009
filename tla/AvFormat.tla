------------------------------- MODULE AvFormat -------------------------------
(***************************************************************************)
(* avformat (x86_Windows_Linux/app/avformat/main.cpp): a remote tool that  *)
(* finds the descriptor of the frame on display, prints what it says, once *)
(* or over and over, and may dump the frame to a file.  Its calls are      *)
(* those DebugCalls promises, here one step that is Answered or Refused.   *)
(* A third outcome is the flaw of DebugLink: the server answers Short, the *)
(* call returns 0 all the same, a read32 leaves its variable as it was and *)
(* a read8 the zeros of its memset.                                        *)
(*                                                                         *)
(* Pictures are numbered, from 1.  A slot is a frame buffer of the board:  *)
(* a descriptor, a luma and a chroma plane, each at an address of its own. *)
(* What a request brings is memory of a plane, <<picture, plane>>, or      *)
(* Other: some other memory, or a cleared buffer.  avformat is built for   *)
(* Windows, where a file opened as text gets two bytes for each newline    *)
(* byte.                                                                   *)
(***************************************************************************)
EXTENDS Integers, Sequences

CONSTANTS
    Slots,          \* frame buffers of the board
    NoSlot,         \* an address that is not a frame's
    Unset,          \* what an address variable holds before it is read
    ChipIds,        \* values of the chip id register, and of stack garbage
    SX7, SX8,       \* those that chip_id takes for an SX7A or B, an SX8A or B
    TenBit,         \* the pictures with ten bits
    MaxPictures,    \* bound: pictures decoded
    MaxShort        \* bound: short answers

ASSUME AvFormatAssumption ==
    /\ NoSlot \notin Slots /\ Unset \notin Slots \cup {NoSlot}
    /\ ChipIds \subseteq Nat /\ SX7 \cup SX8 \subseteq ChipIds /\ SX7 \cap SX8 = {}
    /\ MaxPictures \in Nat /\ MaxShort \in Nat

VARIABLES
    \* main and its locals
    pc, opts,           \* where it is, and which of -l, -s, -d are given
    link,               \* as in DebugCalls
    id, addr,           \* id, cur_frame_info_addr
    info, prev, shown,  \* pictures in frame_info, frame_info_prev, on the screen
    plane, addrs, data, \* the plane dealt with, cur_luma/chroma_addr, *_data
    file,               \* parts of the dump file, perhaps of an older dump
    \* the board
    chip, decoded, pic, current,   \* chip id, pictures so far, in each slot, slot displayed
    \* history
    short, stray,       \* short answers; whether an unset address was asked for
    since, moved,       \* the picture on display when addr was read; whether the board
                        \* has moved on since
    spoilt              \* whether the disk refused

locals  == <<id, addr, info, prev, shown, plane, addrs, data>>
board   == <<chip, decoded, pic, current>>
vars    == <<pc, opts, link, locals, file, board, short, stray, since, moved, spoilt>>

-----------------------------------------------------------------------------
Planes == {"luma", "chroma"}

\* What main makes of the chip id.
Supported(value) == value \in SX7 \cup SX8

\* The register with the address of the descriptor of the frame on display.
FrameRegister(value) == IF value \in SX7 THEN "FRMINFO_SX7" ELSE "FRMINFO_SX8"

\* The picture in a frame buffer, none elsewhere.
Picture(slot) == IF slot \in Slots THEN pic[slot] ELSE 0

\* Memory that belongs to no plane.
Other == <<0, "other">>

\* cur_luma_size and cur_chroma_size, in requests: the chroma of an 8-bit
\* picture is taken to be as long as its luma, that of a 10-bit one half.
Size(p) ==
    IF info = 0 THEN 0 ELSE IF p = "chroma" /\ info \in TenBit THEN 1 ELSE 2

\* On the board a chroma plane is half a luma plane.
PlaneSize(p) == IF p = "chroma" THEN 1 ELSE 2

\* What is at the k-th request from the address of a plane: the plane, and
\* other memory after its end, which may come earlier if the picture is not of
\* the depth the size was calculated for.
At(address, k) ==
    LET picture == Picture(address.slot)
        inside  == address.slot \in Slots /\ k < PlaneSize(address.plane)
        fits    == picture \in TenBit <=> info \in TenBit
    IN  IF ~inside THEN {Other}
        ELSE IF k = 0 \/ fits THEN {<<picture, address.plane>>}
        ELSE {<<picture, address.plane>>, Other}

Older  == [plane |-> "older", from |-> {}, bytes |-> "same"]
NoData == [got |-> 0, from |-> {}]

Init ==
    /\ pc = "start" /\ opts \in SUBSET {"loop", "simple", "dump"} /\ link = "none"
    /\ id = 0 /\ addr = Unset
    /\ info = 0 /\ prev = 0 /\ shown = 0
    /\ plane = "luma" /\ addrs = [p \in Planes |-> [slot |-> Unset, plane |-> p]]
    /\ data = NoData
    /\ file \in {<<>>, <<Older>>}
    /\ chip \in ChipIds /\ decoded = 0 /\ pic = [s \in Slots |-> 0] /\ current = NoSlot
    /\ short = 0 /\ stray = FALSE /\ since = 0 /\ moved = FALSE /\ spoilt = FALSE

-----------------------------------------------------------------------------
\* Mutant: a refused call leaves the link usable.
RefusedOnce == UNCHANGED <<link, short>>

\* The three outcomes of a call.
Answered == link = "up" /\ UNCHANGED <<link, short>>
Refused  == link' = "closed" /\ UNCHANGED short
Short    == link = "up" /\ short < MaxShort /\ short' = short + 1 /\ UNCHANGED link

\* The board was asked for what is at an address.
Asked(a) == stray' = (stray \/ a = Unset)

\* dbg_init.  main's log mask leaves out its errors, so they do not end it.
Connect ==
    /\ pc = "start"
    /\ \/ link' = "up" /\ pc' = "chip"
       \/ link' = "closed" /\ pc' = "end"
    /\ UNCHANGED <<opts, locals, file, board, short, stray, since, moved, spoilt>>

\* The chip id; whether it was read is not looked at when it is used.
ReadChip ==
    /\ pc = "chip"
    /\ \/ Answered /\ id' = chip
       \/ (Short \/ Refused) /\ id' \in ChipIds
    /\ pc' = IF Supported(id') THEN "wait" ELSE "end"
    /\ UNCHANGED <<opts, addr, info, prev, shown, plane, addrs, data, file, board,
                   stray, since, moved, spoilt>>

\* The wait for a decoding channel goes on until the call is not refused.
ReadRegister ==
    /\ pc = "wait"
    /\ \/ /\ Answered
          /\ addr' = IF Supported(chip) /\ FrameRegister(id) = FrameRegister(chip)
                     THEN current ELSE NoSlot
          /\ pc' = "poll" /\ since' = Picture(current) /\ moved' = FALSE
       \/ Short /\ pc' = "poll" /\ UNCHANGED <<addr, since, moved>>
       \/ Refused /\ UNCHANGED <<pc, addr, since, moved>>
    /\ UNCHANGED <<opts, id, info, prev, shown, plane, addrs, data, file, board,
                   stray, spoilt>>

\* Mutant: -s is taken to loop.
AfterPollSimple ==
    IF opts \cap {"loop", "simple"} # {} THEN "poll"
    ELSE IF "dump" \in opts THEN "address" ELSE "end"

\* After one poll: again with -l, else the dump or the end.
AfterPoll ==
    IF "loop" \in opts THEN "poll" ELSE IF "dump" \in opts THEN "address" ELSE "end"

\* Mutant: -s goes on with the loop whether the picture is new or not.
LookTwice ==
    /\ prev' = info'
    /\ UNCHANGED <<shown, pc>>

\* frame_info is printed; with -s only when it differs from the one before,
\* else the loop goes round at once, with -l or without.
Look ==
    IF "simple" \in opts /\ info' = prev
    THEN UNCHANGED <<prev, shown, pc>>
    ELSE /\ prev' = IF "simple" \in opts THEN info' ELSE prev
         /\ shown' = info'
         /\ pc' = AfterPoll

\* read8 of the descriptor.
Poll ==
    /\ pc = "poll"
    /\ \/ Answered /\ Asked(addr) /\ info' = Picture(addr) /\ Look
       \/ Short /\ Asked(addr) /\ info' = 0 /\ Look
       \/ Refused /\ info' = 0 /\ pc' = AfterPoll /\ UNCHANGED <<prev, shown, stray>>
    /\ UNCHANGED <<opts, id, addr, plane, addrs, data, file, board, since, moved, spoilt>>

\* Mutant: both addresses are read from the luma register.
ReadLumaAddress ==
    /\ pc = "address"
    /\ \/ Answered /\ addrs' = [addrs EXCEPT ![plane] = [slot |-> current, plane |-> "luma"]]
       \/ (Short \/ Refused) /\ UNCHANGED addrs
    /\ IF plane = "luma"
       THEN plane' = "chroma" /\ UNCHANGED pc
       ELSE plane' = "luma" /\ pc' = "malloc"
    /\ UNCHANGED <<opts, id, addr, info, prev, shown, data, file, board,
                   stray, since, moved, spoilt>>

\* The addresses of luma, then of chroma, each from its own register.
ReadAddress ==
    /\ pc = "address"
    /\ \/ Answered /\ addrs' = [addrs EXCEPT ![plane] = [slot |-> current, plane |-> plane]]
       \/ (Short \/ Refused) /\ UNCHANGED addrs
    /\ IF plane = "luma"
       THEN plane' = "chroma" /\ UNCHANGED pc
       ELSE plane' = "luma" /\ pc' = "malloc"
    /\ UNCHANGED <<opts, id, addr, info, prev, shown, data, file, board,
                   stray, since, moved, spoilt>>

\* A buffer for the plane, or the end.
Malloc ==
    /\ pc = "malloc"
    /\ data' = NoData
    /\ pc' \in {IF Size(plane) = 0 THEN "write" ELSE "read", "end"}
    /\ UNCHANGED <<opts, link, id, addr, info, prev, shown, plane, addrs, file, board,
                   short, stray, since, moved, spoilt>>

\* The requests of read8 of a plane, which stops at a refused one; what it
\* returns is not looked at.
Read ==
    LET a == addrs[plane]
        more(place) == [got |-> data.got + 1, from |-> data.from \cup {place}]
    IN
    /\ pc = "read"
    /\ \/ Answered /\ Asked(a.slot) /\ \E place \in At(a, data.got) : data' = more(place)
       \/ Short /\ Asked(a.slot) /\ data' = more(Other)
       \/ Refused /\ data' = [more(Other) EXCEPT !.got = Size(plane)] /\ UNCHANGED stray
    /\ pc' = IF data'.got < Size(plane) THEN "read" ELSE "write"
    /\ UNCHANGED <<opts, id, addr, info, prev, shown, plane, addrs, file, board,
                   since, moved, spoilt>>

\* What fwrite makes of a file that is opened with "w" or "a": as text, so
\* that it may hold more bytes than were written.
file_save(part)   == file' = <<part>>
file_append(part) == file' = Append(file, part)

\* Mutant: a dump is always added to the end of the file.
WriteAtEnd ==
    /\ pc = "write"
    /\ file' = Append(file, [plane |-> plane, from |-> data.from, bytes |-> "same"])
    /\ plane' = "chroma"
    /\ pc' = IF plane = "luma" THEN "malloc" ELSE "end"
    /\ UNCHANGED <<opts, link, id, addr, info, prev, shown, addrs, data, board,
                   short, stray, since, moved, spoilt>>

\* file_save of luma, file_append of chroma; neither result is looked at.
\* Without a length nothing is opened; the write may come back short.
Write ==
    /\ pc = "write"
    /\ \/ Size(plane) = 0 /\ UNCHANGED <<file, spoilt>>
       \/ Size(plane) > 0 /\ spoilt' = TRUE /\ UNCHANGED file
       \/ /\ Size(plane) > 0
          /\ \E bytes \in {"same", "more", "cut"} :
                LET part == [plane |-> plane, from |-> data.from, bytes |-> bytes]
                IN  /\ IF plane = "luma" THEN file_save(part) ELSE file_append(part)
                    /\ spoilt' = (spoilt \/ bytes = "cut")
    /\ plane' = "chroma"
    /\ pc' = IF plane = "luma" THEN "malloc" ELSE "end"
    /\ UNCHANGED <<opts, link, id, addr, info, prev, shown, addrs, data, board,
                   short, stray, since, moved>>

\* dbg_deinit at END.
Deinit ==
    /\ pc = "end"
    /\ pc' = "ended"
    /\ link' = "closed"
    /\ UNCHANGED <<opts, locals, file, board, short, stray, since, moved, spoilt>>

-----------------------------------------------------------------------------
\* The decoder fills a slot that is not on display; the display moves on.
Decode(s) ==
    /\ s # current /\ decoded < MaxPictures
    /\ decoded' = decoded + 1
    /\ pic' = [pic EXCEPT ![s] = decoded']
    /\ moved' = TRUE
    /\ UNCHANGED <<pc, opts, link, locals, file, chip, current, short, stray, since, spoilt>>

Display(s) ==
    /\ pic[s] > Picture(current)
    /\ current' = s
    /\ moved' = TRUE
    /\ UNCHANGED <<pc, opts, link, locals, file, chip, decoded, pic, short, stray, since,
                   spoilt>>

-----------------------------------------------------------------------------
Tool ==
    \/ Connect \/ ReadChip \/ ReadRegister \/ Poll
    \/ ReadAddress \/ Malloc \/ Read \/ Write
    \/ Deinit

Next == Tool \/ \E s \in Slots : Decode(s) \/ Display(s)

\* The tool goes on: a call of the debug link returns.  That the link fails is
\* never assumed.
LinkFails == link = "up" /\ link' = "closed" /\ pc # "end"

Spec == Init /\ [][Next]_vars /\ WF_vars(Tool /\ ~LinkFails)

-----------------------------------------------------------------------------
(***************************************************************************)
(* Properties                                                              *)
(***************************************************************************)

Memory == (Nat \X Planes) \cup {Other}

\* Every variable holds a value of its kind.
TypeOK ==
    /\ pc \in {"start", "chip", "wait", "poll", "address", "malloc", "read", "write",
               "end", "ended"}
    /\ opts \subseteq {"loop", "simple", "dump"} /\ link \in {"none", "up", "closed"}
    /\ id \in Nat /\ addr \in Slots \cup {NoSlot, Unset}
    /\ info \in Nat /\ prev \in Nat /\ shown \in Nat
    /\ plane \in Planes
    /\ addrs \in [Planes -> [slot : Slots \cup {NoSlot, Unset}, plane : Planes]]
    /\ data \in [got : Nat, from : SUBSET Memory]
    /\ file \in Seq([plane : Planes \cup {"older"}, from : SUBSET Memory,
                     bytes : {"same", "more", "cut"}])
    /\ chip \in Nat /\ decoded \in Nat /\ pic \in [Slots -> Nat]
    /\ current \in Slots \cup {NoSlot}
    /\ short \in Nat /\ stray \in BOOLEAN /\ since \in Nat
    /\ moved \in BOOLEAN /\ spoilt \in BOOLEAN

\* main uses its chip id and its addresses whether or not the calls that
\* should have set them succeeded.  What makes this harmless is that the
\* link stays closed after a failure: the board is never asked for an address
\* that was not read, nor polled by another chip's register, unless the server
\* has answered short.
UsesWhatItRead ==
    short = 0 =>
        /\ ~stray
        /\ pc \in {"poll", "address", "malloc", "read", "write"} => id = chip

\* What a dump leaves in the file: luma first, then chroma, an older dump
\* gone, each plane read from its own address and none cut short.  While the
\* board stands still both are of the picture whose descriptor was read, and
\* with 8 bits the chroma is followed by as much memory that is not its own.
\* When decoder and display have gone on in the meantime, the planes may be of
\* several pictures, but of none that is older than the one displayed when the
\* descriptor's address was read.  This much is in the file, not byte by byte:
\* it is opened as text, and each newline byte becomes two.  (A dump during
\* which a call failed or was answered short, or the disk refused, is not
\* spoken of: main looks at no result there.)
DumpHoldsItsPlanes ==
    pc = "end" /\ link = "up" /\ short = 0 /\ ~spoilt =>
        \/ file \in {<<>>, <<Older>>}
        \/ \A k \in 1..Len(file) :
               LET part == file[k]
                   own  == (since..decoded) \X {part.plane}
                   rest == IF Size(part.plane) > PlaneSize(part.plane) THEN {Other} ELSE {}
               IN  /\ part.plane = <<"luma", "chroma">>[k]
                   /\ part.bytes # "cut"
                   /\ ~moved => part.from = {<<info, part.plane>>} \cup rest
                   /\ part.from \cap own # {} /\ part.from \subseteq own \cup {Other}

\* A descriptor that could not be read leaves no trace in the file: its zeros
\* give a length of zero, which file_save and file_append refuse.
NoDumpOfNothing ==
    info = 0 => file \in {<<>>, <<Older>>}

\* Without -l the tool ends, with two exceptions: waiting for a decoding channel
\* on a link that has failed, and, with -s, polling a blank descriptor.
Ends ==
    (pc = "start" /\ "loop" \notin opts) ~>
        \/ pc = "ended"
        \/ pc = "wait" /\ link = "closed"
        \/ pc = "poll" /\ "simple" \in opts /\ Picture(addr) = 0

\* With -l, what is on the screen follows the slot whose address was read at
\* the start (not the display, which may have moved to another slot).
FollowsItsSlot ==
    <>[](pc = "poll" /\ link = "up" /\ "loop" \in opts => shown = Picture(addr))
=============================================================================
