--------------------------- MODULE AvFormatProofs ---------------------------
(***************************************************************************)
(* TLAPS: what avformat may rely on although main looks at few of the      *)
(* results of its calls, and what its dump holds, for every set of frame   *)
(* buffers and chips, any number of pictures and of short answers.         *)
(***************************************************************************)
EXTENDS AvFormat, TLAPS

\* The places after the address of the descriptor was read, and the dump's.
Polled  == {"poll", "address", "malloc", "read", "write"}
Dumping == {"malloc", "read", "write"}
Before  == {"start", "chip", "wait", "poll", "address"}
AnOlderFile == {<<>>, <<Older>>}

Types ==
    /\ pc \in Before \cup Dumping \cup {"end", "ended"}
    /\ link \in {"none", "up", "closed"} /\ short \in Nat
    /\ info \in Nat /\ plane \in Planes /\ data.got \in Nat
    /\ addrs \in [Planes -> [slot : Slots \cup {NoSlot, Unset}, plane : Planes]]
    /\ pic \in [Slots -> Nat] /\ current \in Slots \cup {NoSlot} /\ decoded \in Nat
    /\ stray \in BOOLEAN /\ since \in Nat /\ moved \in BOOLEAN /\ spoilt \in BOOLEAN

\* Without a short answer, a place that is reached with the link up has what
\* its calls have read.
HasRead ==
    /\ pc \in Before \ {"address"} => plane = "luma"
    /\ pc \in {"wait"} \cup Polled => Supported(id)
    /\ pc \in Before => file \in AnOlderFile
    /\ short = 0 =>
          /\ pc = "wait" /\ link = "up" => id = chip
          /\ pc \in Polled /\ link = "up" => addr # Unset
          /\ pc = "address" /\ plane = "chroma" /\ link = "up" => addrs["luma"].slot # Unset
          /\ pc \in Dumping /\ link = "up" => \A p \in Planes : addrs[p].slot # Unset

ReadInv == Types /\ HasRead /\ UsesWhatItRead /\ NoDumpOfNothing

-----------------------------------------------------------------------------
LEMMA ReadInit == Init => ReadInv
<1> SUFFICES ASSUME Init PROVE ReadInv
  OBVIOUS
<1>1. Types
  BY DEF Init, Types, Before, Dumping, Planes, NoData
<1>2. HasRead
  BY DEF Init, HasRead, Before, Polled, Dumping, AnOlderFile
<1>3. UsesWhatItRead /\ NoDumpOfNothing
  BY DEF Init, UsesWhatItRead, NoDumpOfNothing
<1> QED
  BY <1>1, <1>2, <1>3 DEF ReadInv

\* The calls: an answer needs the link, a short one is counted.
LEMMA CallFacts ==
    ASSUME Types
    PROVE  /\ Answered => link = "up" /\ link' = link /\ short' = short
           /\ Refused => link' = "closed" /\ short' = short
           /\ Short => link' = link /\ short' \in Nat /\ short' # 0
BY DEF Types, Answered, Refused, Short

LEMMA PictureFacts ==
    ASSUME Types, NEW slot
    PROVE  Picture(slot) \in Nat
BY DEF Types, Picture

\* Asking for an address that was read leaves stray as it was.
LEMMA AskedFacts ==
    ASSUME Types, NEW a, Asked(a)
    PROVE  stray' \in BOOLEAN /\ (a # Unset /\ ~stray => ~stray')
<1>1. stray' \in BOOLEAN
  BY Zenon DEF Asked
<1>2. a # Unset /\ ~stray => ~stray'
  BY Zenon DEF Asked
<1> QED
  BY <1>1, <1>2

LEMMA ReadStep ==
    ASSUME ReadInv, [Next]_vars
    PROVE  ReadInv'
<1> USE DEF ReadInv, Before, Polled, Dumping, Planes
<1>1. CASE UNCHANGED vars
  BY <1>1 DEF vars, locals, board, Types, HasRead, UsesWhatItRead, NoDumpOfNothing, AnOlderFile
<1>2. CASE Connect
  <2>1. Types'
    BY <1>2 DEF Connect, locals, board, Types
  <2>2. HasRead' /\ UsesWhatItRead' /\ NoDumpOfNothing'
    BY <1>2 DEF Connect, locals, board, HasRead, UsesWhatItRead, NoDumpOfNothing, AnOlderFile
  <2> QED
    BY <2>1, <2>2
<1>3. CASE ReadChip
  <2>1. /\ pc = "chip" /\ pc' = IF Supported(id') THEN "wait" ELSE "end"
        /\ UNCHANGED <<opts, addr, info, prev, shown, plane, addrs, data, file, board,
                       stray, since, moved, spoilt>>
        /\ (Answered /\ id' = chip) \/ Short \/ Refused
    BY <1>3 DEF ReadChip
  <2>2. Types'
    BY <2>1, CallFacts DEF Types, board
  <2>3. HasRead'
    BY <2>1, CallFacts DEF HasRead, board, Types
  <2>4. UsesWhatItRead' /\ NoDumpOfNothing'
    BY <2>1, CallFacts DEF UsesWhatItRead, NoDumpOfNothing, Types
  <2> QED
    BY <2>2, <2>3, <2>4
<1>4. CASE ReadRegister
  <2>1. /\ pc = "wait"
        /\ UNCHANGED <<opts, id, info, prev, shown, plane, addrs, data, file, chip, decoded,
                       pic, current, stray, spoilt>>
        /\ \/ Answered /\ addr' \in {current, NoSlot} /\ pc' = "poll" /\ moved' = FALSE
           \/ Short /\ pc' = "poll" /\ UNCHANGED <<addr, moved>>
           \/ Refused /\ UNCHANGED <<pc, addr, moved>>
        /\ since' \in {since, Picture(current)}
    BY <1>4 DEF ReadRegister, board
  <2>2. Types'
    BY <2>1, CallFacts, PictureFacts DEF Types
  <2>3. HasRead'
    BY <2>1, CallFacts, AvFormatAssumption DEF HasRead, Types
  <2>4. UsesWhatItRead' /\ NoDumpOfNothing'
    BY <2>1, CallFacts DEF UsesWhatItRead, NoDumpOfNothing, HasRead, Types
  <2> QED
    BY <2>2, <2>3, <2>4
<1>5. CASE Poll
  <2>1. /\ pc = "poll" /\ pc' \in {"poll", "address", "end"}
        /\ UNCHANGED <<opts, id, addr, plane, addrs, data, file, chip, decoded, pic, current,
                       since, moved, spoilt>>
        /\ \/ Answered /\ Asked(addr) /\ info' = Picture(addr)
           \/ Short /\ Asked(addr) /\ info' = 0
           \/ Refused /\ info' = 0 /\ UNCHANGED stray
    BY <1>5 DEF Poll, Look, AfterPoll, board
  <2>2. info' \in Nat
    BY <2>1, PictureFacts
  <2>3. stray' \in BOOLEAN /\ (short' = 0 => ~stray')
    <3>1. CASE Answered /\ Asked(addr)
      <4>1. short' = 0 => addr # Unset /\ ~stray
        BY <2>1, <3>1, CallFacts DEF HasRead, UsesWhatItRead
      <4> QED
        BY <3>1, <4>1, AskedFacts, Zenon
    <3>2. CASE Short /\ Asked(addr)
      BY <3>2, AskedFacts, CallFacts, Zenon
    <3>3. CASE Refused /\ UNCHANGED stray
      BY <3>3, CallFacts DEF Types, UsesWhatItRead
    <3> QED
      BY <2>1, <3>1, <3>2, <3>3
  <2>4. Types'
    BY <2>1, <2>2, <2>3, CallFacts DEF Types
  <2>5. HasRead'
    BY <2>1, CallFacts DEF HasRead, Types
  <2>6. UsesWhatItRead'
    BY <2>1, <2>3, CallFacts DEF UsesWhatItRead, Types
  <2>7. NoDumpOfNothing'
    BY <2>1 DEF NoDumpOfNothing, HasRead, AnOlderFile
  <2> QED
    BY <2>4, <2>5, <2>6, <2>7
<1>6. CASE ReadAddress
  <2>1. /\ pc = "address"
        /\ UNCHANGED <<opts, id, addr, info, prev, shown, data, file, chip, decoded, pic,
                       current, stray, since, moved, spoilt>>
        /\ \/ Answered /\ addrs' = [addrs EXCEPT ![plane] = [slot |-> current, plane |-> plane]]
           \/ (Short \/ Refused) /\ UNCHANGED addrs
        /\ \/ plane = "luma" /\ plane' = "chroma" /\ UNCHANGED pc
           \/ plane = "chroma" /\ plane' = "luma" /\ pc' = "malloc"
    BY <1>6 DEF ReadAddress, board, Types
  <2>2. Types'
    BY <2>1, CallFacts DEF Types
  <2>3. HasRead'
    BY <2>1, CallFacts, AvFormatAssumption DEF HasRead, Types
  <2>4. UsesWhatItRead' /\ NoDumpOfNothing'
    BY <2>1, CallFacts DEF UsesWhatItRead, NoDumpOfNothing, Types
  <2> QED
    BY <2>2, <2>3, <2>4
<1>7. CASE Malloc
  <2>1. /\ pc = "malloc" /\ pc' \in {"read", "write", "end"} /\ data' = NoData
        /\ UNCHANGED <<opts, link, id, addr, info, prev, shown, plane, addrs, file, chip, decoded,
                       pic, current, short, stray, since, moved, spoilt>>
    BY <1>7 DEF Malloc, board
  <2>2. Types'
    BY <2>1 DEF Types, NoData
  <2>3. HasRead' /\ UsesWhatItRead' /\ NoDumpOfNothing'
    BY <2>1 DEF HasRead, UsesWhatItRead, NoDumpOfNothing
  <2> QED
    BY <2>2, <2>3
<1>8. CASE Read
  <2>1. /\ pc = "read" /\ pc' \in {"read", "write"}
        /\ UNCHANGED <<opts, id, addr, info, prev, shown, plane, addrs, file, chip, decoded,
                       pic, current, since, moved, spoilt>>
        /\ \/ (Answered \/ Short) /\ Asked(addrs[plane].slot) /\ data'.got = data.got + 1
           \/ Refused /\ data'.got = Size(plane) /\ UNCHANGED stray
    BY <1>8 DEF Read, board
  <2>2. stray' \in BOOLEAN /\ (short' = 0 => ~stray')
    <3>1. CASE Answered /\ Asked(addrs[plane].slot)
      <4>1. short' = 0 => addrs[plane].slot # Unset /\ ~stray
        BY <2>1, <3>1, CallFacts DEF HasRead, UsesWhatItRead, Types
      <4> QED
        BY <3>1, <4>1, AskedFacts, Zenon
    <3>2. CASE Short /\ Asked(addrs[plane].slot)
      BY <3>2, AskedFacts, CallFacts, Zenon
    <3>3. CASE Refused /\ UNCHANGED stray
      BY <3>3, CallFacts DEF Types, UsesWhatItRead
    <3> QED
      BY <2>1, <3>1, <3>2, <3>3
  <2>3. data'.got \in Nat
    BY <2>1 DEF Types, Size
  <2>4. Types'
    BY <2>1, <2>2, <2>3, CallFacts DEF Types
  <2>5. HasRead' /\ UsesWhatItRead' /\ NoDumpOfNothing'
    BY <2>1, <2>2, CallFacts DEF HasRead, UsesWhatItRead, NoDumpOfNothing, Types
  <2> QED
    BY <2>4, <2>5
<1>9. CASE Write
  <2>1. /\ pc = "write" /\ pc' \in {"malloc", "end"} /\ plane' = "chroma"
        /\ Size(plane) = 0 => UNCHANGED file
        /\ UNCHANGED <<opts, link, id, addr, info, prev, shown, addrs, data, chip, decoded,
                       pic, current, short, stray, since, moved>>
    BY <1>9 DEF Write, board
  <2>2. spoilt' \in BOOLEAN
    BY <1>9, Zenon DEF Write, Types
  <2>3. Types'
    BY <2>1, <2>2 DEF Types
  <2>4. HasRead' /\ UsesWhatItRead'
    BY <2>1 DEF HasRead, UsesWhatItRead
  <2>5. NoDumpOfNothing'
    BY <2>1 DEF NoDumpOfNothing, Size
  <2> QED
    BY <2>3, <2>4, <2>5
<1>10. CASE Deinit
  BY <1>10 DEF Deinit, locals, board, Types, HasRead, UsesWhatItRead, NoDumpOfNothing
<1>11. ASSUME NEW s \in Slots, Decode(s) \/ Display(s)
       PROVE  ReadInv'
  <2>1. /\ UNCHANGED <<pc, opts, link, locals, file, chip, short, stray, since, spoilt>>
        /\ moved' = TRUE
    BY <1>11 DEF Decode, Display
  <2>2. Types'
    <3>1. pic' \in [Slots -> Nat] /\ current' \in Slots \cup {NoSlot} /\ decoded' \in Nat
      BY <1>11 DEF Decode, Display, Types
    <3> QED
      BY <2>1, <3>1 DEF Types, locals
  <2>3. HasRead' /\ UsesWhatItRead' /\ NoDumpOfNothing'
    BY <2>1 DEF HasRead, UsesWhatItRead, NoDumpOfNothing, locals, AnOlderFile
  <2> QED
    BY <2>2, <2>3
<1> QED
  BY <1>1, <1>2, <1>3, <1>4, <1>5, <1>6, <1>7, <1>8, <1>9, <1>10, <1>11 DEF Next, Tool

-----------------------------------------------------------------------------
\* The invariant, in every reachable state.
THEOREM ReadInvariant == Spec => []ReadInv
<1> QED
  BY ReadInit, ReadStep, PTL DEF Spec

\* avformat's main: without a short answer the board is never asked for an
\* address that was not read, nor for another chip's register.
THEOREM UsesOnlyWhatItRead == Spec => []UsesWhatItRead
<1>1. ReadInv => UsesWhatItRead
  BY DEF ReadInv
<1> QED
  BY <1>1, ReadInvariant, PTL

\* avformat's main, file_save and file_append: a descriptor that could not be
\* read leaves no trace in the file.
THEOREM NothingIsNotDumped == Spec => []NoDumpOfNothing
<1>1. ReadInv => NoDumpOfNothing
  BY DEF ReadInv
<1> QED
  BY <1>1, ReadInvariant, PTL

-----------------------------------------------------------------------------
(***************************************************************************)
(* What a dump leaves in the file.                                         *)
(***************************************************************************)

\* No picture of the board is newer than the decoder's last.
Numbered == \A s \in Slots : pic[s] <= decoded

Calm == link = "up" /\ short = 0 /\ ~spoilt

\* Memory of plane p, of the pictures a dump may be of.
Own(p) == (since..decoded) \X {p}
Aged(from, p) == from \cap Own(p) # {} /\ from \subseteq Own(p) \cup {Other}

\* All of a plane of a board that stands still, and the first got requests.
Rest(p)  == IF Size(p) > PlaneSize(p) THEN {Other} ELSE {}
Whole(p) == {<<info, p>>} \cup Rest(p)
Gathered(p, got) ==
    IF got = 0 THEN {} ELSE IF got <= PlaneSize(p) THEN {<<info, p>>} ELSE {<<info, p>>, Other}

\* The address of plane p is that of a frame no older than the display was.
Good(p) ==
    /\ addrs[p].plane = p /\ since <= Picture(addrs[p].slot)
    /\ info # 0 => addrs[p].slot \in Slots
    /\ ~moved => addrs[p].slot = current

\* Descriptor and planes, against the slot on display.
Found ==
    /\ pc \in Polled => /\ since <= Picture(current)
                        /\ addr \in Slots => current \in Slots
                        /\ ~moved => addr = current
    /\ pc \in {"address"} \cup Dumping => /\ info = 0 \/ addr \in Slots
                                          /\ ~moved => info = Picture(current)
    /\ pc = "address" /\ plane = "chroma" => Good("luma")
    /\ pc \in Dumping => \A p \in Planes : Good(p)

\* The buffer holds what was asked for so far.
InBuffer ==
    /\ pc = "read" => /\ data.got < Size(plane)
                      /\ IF data.got = 0 THEN data.from = {} ELSE Aged(data.from, plane)
                      /\ ~moved => data.from = Gathered(plane, data.got)
    /\ pc = "write" /\ Size(plane) > 0 => /\ Aged(data.from, plane)
                                          /\ ~moved => data.from = Whole(plane)

\* A part of the file as the property wants it.
Sound(part, p) ==
    /\ part.plane = p /\ part.bytes # "cut"
    /\ Aged(part.from, p) /\ (~moved => part.from = Whole(p))

InOrder ==
    \/ \E luma : file = <<luma>> /\ Sound(luma, "luma")
    \/ \E luma, chroma : /\ file = Append(<<luma>>, chroma)
                         /\ Sound(luma, "luma") /\ Sound(chroma, "chroma")

InFile ==
    /\ pc \in Dumping /\ (plane = "luma" \/ info = 0) => file \in AnOlderFile
    /\ pc \in Dumping /\ plane = "chroma" /\ info # 0 =>
          \E part : file = <<part>> /\ Sound(part, "luma")
    /\ pc = "end" => file \in AnOlderFile \/ InOrder

DumpInv == Numbered /\ (Calm => Found /\ InBuffer /\ InFile)

\* The sizes of main: a request at least for each plane of a picture.
LEMMA SizeFacts ==
    ASSUME NEW p \in Planes
    PROVE  /\ Size(p) \in {0, 1, 2} /\ PlaneSize(p) \in {1, 2}
           /\ info = 0 <=> Size(p) = 0
           /\ info # 0 => PlaneSize(p) <= Size(p)
BY DEF Size, PlaneSize, Planes

\* The memory of a plane's address: its own first.
LEMMA AtFacts ==
    ASSUME Types, NEW p \in Planes, NEW k
    PROVE  At(addrs[p], k) \subseteq Memory /\ Other \in Memory
<1>1. addrs[p].plane \in Planes /\ Picture(addrs[p].slot) \in Nat
  BY PictureFacts DEF Types
<1> QED
  BY <1>1 DEF At, Memory

LEMMA AppendToOne ==
    ASSUME NEW first, NEW last
    PROVE  LET two == Append(<<first>>, last)
           IN  Len(two) = 2 /\ two[1] = first /\ two[2] = last
OBVIOUS

LEMMA SoundIsHeld ==
    ASSUME NEW part, NEW p \in Planes, Sound(part, p)
    PROVE  LET own  == (since..decoded) \X {part.plane}
               rest == IF Size(part.plane) > PlaneSize(part.plane) THEN {Other} ELSE {}
           IN  /\ part.plane = p
               /\ part.bytes # "cut"
               /\ ~moved => part.from = {<<info, part.plane>>} \cup rest
               /\ part.from \cap own # {} /\ part.from \subseteq own \cup {Other}
BY DEF Sound, Aged, Own, Whole, Rest

LEMMA DumpFollows ==
    ASSUME DumpInv
    PROVE  DumpHoldsItsPlanes
<1> SUFFICES ASSUME pc = "end", Calm, InOrder
             PROVE  DumpHoldsItsPlanes
  BY DEF DumpInv, InFile, DumpHoldsItsPlanes, Calm, AnOlderFile
<1>1. \A k \in 1..Len(file) :
          (k = 1 /\ Sound(file[k], "luma")) \/ (k = 2 /\ Sound(file[k], "chroma"))
  <2>1. ASSUME NEW luma, file = <<luma>>, Sound(luma, "luma")
        PROVE  \A k \in 1..Len(file) : k = 1 /\ Sound(file[k], "luma")
    <3>1. Len(file) = 1 /\ file[1] = luma
      BY <2>1
    <3> QED
      BY <2>1, <3>1
  <2>2. ASSUME NEW luma, NEW chroma, file = Append(<<luma>>, chroma),
               Sound(luma, "luma"), Sound(chroma, "chroma")
        PROVE  \A k \in 1..Len(file) :
                  (k = 1 /\ Sound(file[k], "luma")) \/ (k = 2 /\ Sound(file[k], "chroma"))
    <3>1. Len(file) = 2 /\ file[1] = luma /\ file[2] = chroma
      BY <2>2, AppendToOne
    <3> QED
      BY <2>2, <3>1
  <2> QED
    BY <2>1, <2>2 DEF InOrder
<1>2. ASSUME NEW k \in 1..Len(file)
      PROVE  LET part == file[k]
                 own  == (since..decoded) \X {part.plane}
                 rest == IF Size(part.plane) > PlaneSize(part.plane) THEN {Other} ELSE {}
             IN  /\ part.plane = <<"luma", "chroma">>[k]
                 /\ part.bytes # "cut"
                 /\ ~moved => part.from = {<<info, part.plane>>} \cup rest
                 /\ part.from \cap own # {} /\ part.from \subseteq own \cup {Other}
  <2>1. "luma" \in Planes /\ "chroma" \in Planes
    BY DEF Planes
  <2>2. CASE k = 1 /\ Sound(file[k], "luma")
    <3>1. <<"luma", "chroma">>[k] = "luma"
      BY <2>2
    <3> QED
      BY <2>1, <2>2, <3>1, SoundIsHeld
  <2>3. CASE k = 2 /\ Sound(file[k], "chroma")
    <3>1. <<"luma", "chroma">>[k] = "chroma"
      BY <2>3
    <3> QED
      BY <2>1, <2>3, <3>1, SoundIsHeld
  <2> QED
    BY <1>1, <2>2, <2>3
<1> QED
  BY <1>2 DEF DumpHoldsItsPlanes

LEMMA DumpInit == Init => DumpInv
BY DEF Init, DumpInv, Numbered, Calm, Found, InBuffer, InFile, Polled, Dumping

\* What a part is worth depends on these variables only, and grows with the
\* decoder's count once the board has moved on.
LEMMA SoundKept ==
    ASSUME UNCHANGED <<since, decoded, info, moved>>
    PROVE  /\ \A from, p : Aged(from, p)' <=> Aged(from, p)
           /\ \A part, p : Sound(part, p)' <=> Sound(part, p)
           /\ \A p : Whole(p)' = Whole(p) /\ Size(p)' = Size(p)
           /\ \A p, got : Gathered(p, got)' = Gathered(p, got)
<1>1. \A p : Own(p)' = Own(p) /\ Whole(p)' = Whole(p) /\ Size(p)' = Size(p)
  BY DEF Own, Whole, Rest, Size, PlaneSize
<1>2. \A p, got : Gathered(p, got)' = Gathered(p, got)
  BY DEF Gathered, PlaneSize
<1> QED
  BY <1>1, <1>2 DEF Aged, Sound

LEMMA SoundGrows ==
    ASSUME Types, since' = since, decoded' \in {decoded, decoded + 1}, moved' = TRUE
    PROVE  /\ \A from, p : Aged(from, p) => Aged(from, p)'
           /\ \A part, p : Sound(part, p) => Sound(part, p)'
<1>1. \A p : Own(p) \subseteq Own(p)'
  BY DEF Own, Types
<1> QED
  BY <1>1 DEF Aged, Sound

\* The board's steps, at whatever place the tool is.
LEMMA DumpBoard ==
    ASSUME ReadInv, DumpInv, NEW s \in Slots, Decode(s) \/ Display(s)
    PROVE  DumpInv'
<1> USE DEF Polled, Dumping, Planes
<1>1. /\ UNCHANGED <<pc, link, short, since, spoilt, info, plane, addrs, addr, data, file>>
      /\ moved' = TRUE /\ decoded' \in {decoded, decoded + 1}
      /\ pic' = pic \/ pic' = [pic EXCEPT ![s] = decoded + 1]
      /\ Types
  BY DEF Decode, Display, locals, ReadInv
<1>2. \A slot : Picture(slot) <= Picture(slot)' /\ Picture(slot) \in Nat /\ Picture(slot)' \in Nat
  BY <1>1 DEF Picture, Types, DumpInv, Numbered
<1>3. Numbered'
  <2>1. CASE Decode(s)
    BY <1>1, <2>1 DEF Decode, DumpInv, Numbered, Types
  <2>2. CASE Display(s)
    BY <2>2 DEF Display, DumpInv, Numbered
  <2> QED
    BY <2>1, <2>2
<1>4. Picture(current) <= Picture(current)' /\ (current \in Slots => current' \in Slots)
  <2>1. CASE Decode(s)
    BY <1>2, <2>1 DEF Decode, Picture
  <2>2. CASE Display(s)
    BY <2>2, <1>1 DEF Display, Picture, Types
  <2> QED
    BY <2>1, <2>2
<1>5. SUFFICES ASSUME Calm' PROVE Found' /\ InBuffer' /\ InFile'
  BY <1>3 DEF DumpInv
<1>6. Found /\ InBuffer /\ InFile
  BY <1>1, <1>5 DEF DumpInv, Calm
<1>7. Picture(current) \in Nat /\ Picture(current)' \in Nat /\ since \in Nat
  BY <1>1, <1>2 DEF Types, Picture, Decode, Display
<1>8. \A p \in Planes : Good(p) => Good(p)'
  BY <1>1, <1>2, <1>7 DEF Good, Types
<1>9. Found'
  BY <1>1, <1>4, <1>6, <1>7, <1>8 DEF Found
<1>10. InBuffer'
  <2>1. Size(plane)' = Size(plane)
    BY <1>1 DEF Size
  <2> QED
    BY <1>1, <1>6, <2>1, SoundGrows DEF InBuffer
<1>11. InFile'
  <2>1. AnOlderFile' = AnOlderFile
    BY DEF AnOlderFile, Older
  <2>2. InOrder => InOrder'
    BY <1>1, SoundGrows DEF InOrder
  <2> QED
    BY <1>1, <1>6, <2>1, <2>2, SoundGrows DEF InFile
<1> QED
  BY <1>9, <1>10, <1>11

\* The requests of a plane.
LEMMA DumpRead ==
    ASSUME ReadInv, DumpInv, Read
    PROVE  DumpInv'
<1> USE DEF Polled, Dumping, Planes
<1>1. /\ pc = "read" /\ pc' = IF data'.got < Size(plane) THEN "read" ELSE "write"
      /\ UNCHANGED <<addr, info, plane, addrs, file, decoded, pic, current, since, moved, spoilt>>
      /\ \/ Answered /\ \E place \in At(addrs[plane], data.got) :
                data' = [got |-> data.got + 1, from |-> data.from \cup {place}]
         \/ Short \/ Refused
      /\ Types
  BY DEF Read, board, ReadInv
<1>2. SUFFICES ASSUME Calm' PROVE Found' /\ InBuffer' /\ InFile'
  BY <1>1 DEF DumpInv, Numbered
<1>3. Calm /\ ~Short /\ ~Refused
  BY <1>1, <1>2, CallFacts DEF Calm, Types
<1>4. Found /\ InBuffer /\ InFile
  BY <1>3 DEF DumpInv
<1>5. Picture(current)' = Picture(current)
  BY <1>1 DEF Picture
<1>6. \A p \in Planes : Good(p)' <=> Good(p)
  BY <1>1 DEF Good, Picture
<1>7. Found'
  BY <1>1, <1>4, <1>5, <1>6 DEF Found
<1>8. InFile'
  <2>1. UNCHANGED <<since, decoded, info, moved>>
    BY <1>1
  <2> QED
    BY <1>1, <1>4, <2>1, SoundKept DEF InFile, AnOlderFile, Older
<1>9. PICK place \in At(addrs[plane], data.got) :
          data' = [got |-> data.got + 1, from |-> data.from \cup {place}]
  BY <1>1, <1>3
<1>10. /\ Size(plane) \in {1, 2} /\ PlaneSize(plane) \in {1, 2} /\ PlaneSize(plane) <= Size(plane)
       /\ data.got \in Nat /\ data.got < Size(plane) /\ info # 0
  BY <1>1, <1>4, SizeFacts DEF InBuffer, Types
<1>11. Good(plane) /\ addrs[plane].slot \in Slots /\ addrs[plane].plane = plane
  BY <1>1, <1>4, <1>10 DEF Found, Good, Types
<1>12. Picture(addrs[plane].slot) \in since..decoded
  BY <1>1, <1>11 DEF Good, Picture, Types, DumpInv, Numbered
<1>13. /\ place \in Own(plane) \cup {Other}
       /\ data.got = 0 => place \in Own(plane)
       /\ ~moved => place = IF data.got < PlaneSize(plane) THEN <<info, plane>> ELSE Other
  <2>1. place \in {<<Picture(addrs[plane].slot), plane>>, Other}
    BY <1>9, <1>11 DEF At
  <2>2. <<Picture(addrs[plane].slot), plane>> \in Own(plane)
    BY <1>12 DEF Own
  <2>3. data.got = 0 => place = <<Picture(addrs[plane].slot), plane>>
    BY <1>9, <1>10, <1>11 DEF At
  <2>4. ~moved => Picture(addrs[plane].slot) = info
    BY <1>1, <1>4, <1>11 DEF Found, Good
  <2>5. ~moved => place = IF data.got < PlaneSize(plane) THEN <<info, plane>> ELSE Other
    BY <1>9, <1>11, <2>4 DEF At
  <2> QED
    BY <2>1, <2>2, <2>3, <2>5
<1>14. Aged(data'.from, plane)
  <2>1. data'.from = data.from \cup {place}
    BY <1>9
  <2>2. IF data.got = 0 THEN data.from = {} ELSE Aged(data.from, plane)
    BY <1>1, <1>4 DEF InBuffer
  <2> QED
    BY <1>13, <2>1, <2>2 DEF Aged
<1>15. ~moved => data'.from = Gathered(plane, data'.got)
  <2>1. SUFFICES ASSUME ~moved PROVE data'.from = Gathered(plane, data'.got)
    OBVIOUS
  <2>2. /\ data'.got = data.got + 1
        /\ data'.from = Gathered(plane, data.got)
                          \cup {IF data.got < PlaneSize(plane) THEN <<info, plane>> ELSE Other}
    BY <1>1, <1>4, <1>9, <1>13, <2>1 DEF InBuffer
  <2>3. CASE data.got = 0
    BY <1>10, <2>2, <2>3 DEF Gathered
  <2>4. CASE data.got = 1
    BY <1>10, <2>2, <2>4 DEF Gathered
  <2> QED
    BY <1>10, <2>3, <2>4
<1>16. data'.got = Size(plane) => Gathered(plane, data'.got) = Whole(plane)
  <2>1. CASE Size(plane) = PlaneSize(plane)
    BY <1>10, <2>1 DEF Gathered, Whole, Rest
  <2>2. CASE Size(plane) = 2 /\ PlaneSize(plane) = 1
    BY <1>10, <2>2 DEF Gathered, Whole, Rest
  <2> QED
    BY <1>10, <2>1, <2>2
<1>17. InBuffer'
  <2>1. /\ Size(plane)' = Size(plane) /\ Whole(plane)' = Whole(plane)
        /\ Aged(data.from, plane)' /\ data'.got \in Nat /\ data'.got > 0
        /\ Gathered(plane, data.got)' = Gathered(plane, data'.got)
    <3>1. \A p : Own(p)' = Own(p) /\ Whole(p)' = Whole(p) /\ Size(p)' = Size(p)
      BY <1>1 DEF Own, Whole, Rest, Size, PlaneSize
    <3>2. Gathered(plane, data.got)' = Gathered(plane, data'.got)
      BY <1>1 DEF Gathered, PlaneSize
    <3>3. Aged(data.from, plane)'
      BY <1>1, <1>14, <3>1 DEF Aged
    <3> QED
      BY <1>1, <1>9, <1>10, <3>1, <3>2, <3>3
  <2>2. pc' = "write" => data'.got = Size(plane)
    BY <1>1, <1>9, <1>10
  <2> QED
    BY <1>1, <1>10, <1>15, <1>16, <2>1, <2>2 DEF InBuffer
<1> QED
  BY <1>7, <1>8, <1>17

\* file_save of luma, file_append of chroma.
LEMMA DumpWrite ==
    ASSUME ReadInv, DumpInv, Write
    PROVE  DumpInv'
<1> USE DEF Polled, Dumping, Planes
<1>1. /\ pc = "write" /\ pc' = (IF plane = "luma" THEN "malloc" ELSE "end")
      /\ plane' = "chroma"
      /\ UNCHANGED <<link, addr, info, addrs, data, decoded, pic, current, short, since, moved>>
      /\ \/ Size(plane) = 0 /\ UNCHANGED <<file, spoilt>>
         \/ Size(plane) > 0 /\ spoilt' = TRUE
         \/ /\ Size(plane) > 0
            /\ \E bytes \in {"same", "more", "cut"} :
                  LET part == [plane |-> plane, from |-> data.from, bytes |-> bytes]
                  IN  /\ file' = IF plane = "luma" THEN <<part>> ELSE Append(file, part)
                      /\ spoilt' = (spoilt \/ bytes = "cut")
      /\ Types
  BY DEF Write, board, file_save, file_append, ReadInv
<1>2. SUFFICES ASSUME Calm' PROVE Found' /\ InBuffer' /\ InFile'
  BY <1>1 DEF DumpInv, Numbered
<1>3. Calm
  <2>1. spoilt' = FALSE => spoilt = FALSE
    BY <1>1, Zenon DEF Types
  <2>2. spoilt' = FALSE
    <3>1. spoilt' \in BOOLEAN
      BY <1>1, Zenon DEF Types
    <3> QED
      BY <1>2, <3>1 DEF Calm
  <2> QED
    BY <1>1, <1>2, <2>1, <2>2 DEF Calm
<1>4. Found /\ InBuffer /\ InFile
  BY <1>3 DEF DumpInv
<1>5. \A p \in Planes : Good(p)' <=> Good(p)
  BY <1>1 DEF Good, Picture
<1>6. Found' /\ InBuffer'
  <2>1. Picture(current)' = Picture(current)
    BY <1>1 DEF Picture
  <2> QED
    BY <1>1, <1>4, <1>5, <2>1 DEF Found, InBuffer
<1>7. UNCHANGED <<since, decoded, info, moved>>
  BY <1>1
<1>8. CASE info = 0
  <2>1. file' = file /\ file \in AnOlderFile /\ AnOlderFile' = AnOlderFile
    BY <1>1, <1>4, <1>8 DEF InFile, Size, AnOlderFile, Older
  <2> QED
    BY <1>1, <1>6, <1>8, <2>1 DEF InFile
<1>9. CASE info # 0
  <2>1. Size(plane) > 0
    BY <1>1, <1>9, SizeFacts DEF Types
  <2>2. PICK bytes \in {"same", "more", "cut"} :
          LET part == [plane |-> plane, from |-> data.from, bytes |-> bytes]
          IN  /\ file' = IF plane = "luma" THEN <<part>> ELSE Append(file, part)
              /\ spoilt' = (spoilt \/ bytes = "cut")
    BY <1>1, <1>2, <2>1 DEF Calm
  <2>3. bytes # "cut"
    BY <1>2, <2>2, Zenon DEF Calm
  <2>4. Sound([plane |-> plane, from |-> data.from, bytes |-> bytes], plane)
    BY <1>1, <1>4, <2>1, <2>3 DEF Sound, InBuffer
  <2>5. PICK part : /\ file' = IF plane = "luma" THEN <<part>> ELSE Append(file, part)
                    /\ Sound(part, plane)
    BY <2>2, <2>4
  <2>6. \A old, p : Sound(old, p)' <=> Sound(old, p)
    BY <1>7, SoundKept
  <2>7. CASE plane = "luma"
    <3>1. file' = <<part>> /\ Sound(part, "luma")'
      BY <2>5, <2>6, <2>7
    <3> QED
      BY <1>1, <1>6, <1>9, <2>7, <3>1 DEF InFile
  <2>8. CASE plane = "chroma"
    <3>1. PICK luma : file = <<luma>> /\ Sound(luma, "luma")
      BY <1>1, <1>4, <1>9, <2>8 DEF InFile
    <3>2. /\ file' = Append(<<luma>>, part)
          /\ Sound(luma, "luma")' /\ Sound(part, "chroma")'
      BY <2>5, <2>6, <2>8, <3>1
    <3>3. InOrder'
      BY <3>2 DEF InOrder
    <3> QED
      BY <1>1, <1>6, <2>8, <3>3 DEF InFile
  <2> QED
    BY <1>1, <2>7, <2>8 DEF Types
<1> QED
  BY <1>8, <1>9

\* The address of the descriptor: the dump may be of pictures from this on.
LEMMA DumpRegister ==
    ASSUME ReadInv, DumpInv, ReadRegister
    PROVE  DumpInv'
<1> USE DEF Polled, Dumping, Planes
<1>1. /\ pc = "wait" /\ pc' \in {"wait", "poll"}
      /\ UNCHANGED <<id, chip, pic, current, decoded>>
      /\ \/ /\ Answered /\ since' = Picture(current)
            /\ addr' = IF Supported(chip) /\ FrameRegister(id) = FrameRegister(chip)
                       THEN current ELSE NoSlot
         \/ Short
         \/ Refused
      /\ Types /\ HasRead
  BY DEF ReadRegister, board, locals, ReadInv
<1>2. SUFFICES ASSUME Calm' PROVE Found' /\ InBuffer' /\ InFile'
  BY <1>1 DEF DumpInv, Numbered
<1>3. Answered /\ link = "up" /\ short = 0
  BY <1>1, <1>2, CallFacts DEF Calm, Types
<1>4. since' = Picture(current) /\ addr' = current
  BY <1>1, <1>3, CallFacts DEF HasRead, Calm, Types, Short, Refused
<1>5. Picture(current)' = Picture(current) /\ Picture(current) \in Nat
  BY <1>1, PictureFacts DEF Picture
<1> QED
  BY <1>1, <1>4, <1>5 DEF Found, InBuffer, InFile

\* The descriptor.
LEMMA DumpPoll ==
    ASSUME ReadInv, DumpInv, Poll
    PROVE  DumpInv'
<1> USE DEF Polled, Dumping, Planes
<1>1. /\ pc = "poll" /\ pc' \in {"poll", "address", "end"}
      /\ UNCHANGED <<addr, plane, addrs, file, pic, current, decoded, since, moved, spoilt>>
      /\ \/ Answered /\ info' = Picture(addr)
         \/ Short
         \/ Refused
      /\ Types /\ HasRead
  BY DEF Poll, Look, AfterPoll, board, ReadInv
<1>2. SUFFICES ASSUME Calm' PROVE Found' /\ InBuffer' /\ InFile'
  BY <1>1 DEF DumpInv, Numbered
<1>3. Calm /\ info' = Picture(addr)
  BY <1>1, <1>2, CallFacts DEF Calm, Types
<1>4. Found /\ plane' = "luma" /\ file' \in AnOlderFile'
  BY <1>1, <1>3 DEF DumpInv, HasRead, Before, AnOlderFile
<1>5. Picture(current)' = Picture(current)
  BY <1>1 DEF Picture
<1>6. Found'
  BY <1>1, <1>3, <1>4, <1>5 DEF Found, Picture
<1> QED
  BY <1>1, <1>4, <1>6 DEF InBuffer, InFile

\* The addresses of the planes, each from its own register.
LEMMA DumpAddress ==
    ASSUME ReadInv, DumpInv, ReadAddress
    PROVE  DumpInv'
<1> USE DEF Polled, Dumping, Planes
<1>1. /\ pc = "address"
      /\ UNCHANGED <<addr, info, file, pic, current, decoded, since, moved, spoilt>>
      /\ \/ Answered /\ addrs' = [addrs EXCEPT ![plane] = [slot |-> current, plane |-> plane]]
         \/ Short \/ Refused
      /\ \/ plane = "luma" /\ plane' = "chroma" /\ UNCHANGED pc
         \/ plane = "chroma" /\ plane' = "luma" /\ pc' = "malloc"
      /\ Types /\ HasRead
  BY DEF ReadAddress, board, ReadInv, Types
<1>2. SUFFICES ASSUME Calm' PROVE Found' /\ InBuffer' /\ InFile'
  BY <1>1 DEF DumpInv, Numbered
<1>3. Calm /\ addrs' = [addrs EXCEPT ![plane] = [slot |-> current, plane |-> plane]]
  BY <1>1, <1>2, CallFacts DEF Calm, Types
<1>4. Found /\ file' \in AnOlderFile'
  BY <1>1, <1>3 DEF DumpInv, HasRead, Before, AnOlderFile
<1>5. Picture(current)' = Picture(current)
  BY <1>1 DEF Picture
<1>6. ASSUME NEW p \in Planes, p = plane
      PROVE  Good(p)'
  <2>1. addrs'[p] = [slot |-> current, plane |-> p]
    BY <1>1, <1>3, <1>6 DEF Types
  <2>2. since <= Picture(current) /\ (info # 0 => current \in Slots)
    BY <1>1, <1>4 DEF Found
  <2> QED
    BY <1>1, <2>1, <2>2 DEF Good, Picture
<1>7. Found'
  <2>1. CASE plane = "luma"
    BY <1>1, <1>4, <1>5, <1>6, <2>1 DEF Found
  <2>2. CASE plane = "chroma"
    <3>1. Good("luma")'
      BY <1>1, <1>3, <1>4, <2>2 DEF Found, Good, Picture, Types
    <3>2. Good("chroma")'
      BY <1>6, <2>2
    <3> QED
      BY <1>1, <1>4, <1>5, <2>2, <3>1, <3>2 DEF Found
  <2> QED
    BY <1>1, <2>1, <2>2
<1> QED
  BY <1>1, <1>4, <1>7 DEF InBuffer, InFile

\* The buffer of a plane.
LEMMA DumpMalloc ==
    ASSUME ReadInv, DumpInv, Malloc
    PROVE  DumpInv'
<1> USE DEF Polled, Dumping, Planes
<1>1. /\ pc = "malloc" /\ data' = NoData
      /\ pc' \in {IF Size(plane) = 0 THEN "write" ELSE "read", "end"}
      /\ UNCHANGED <<link, addr, info, plane, addrs, file, pic, current, decoded,
                     short, since, moved, spoilt>>
      /\ Types
  BY DEF Malloc, board, ReadInv
<1>2. SUFFICES ASSUME Calm' PROVE Found' /\ InBuffer' /\ InFile'
  BY <1>1 DEF DumpInv, Numbered
<1>3. Found /\ InFile
  BY <1>1, <1>2 DEF DumpInv, Calm
<1>4. /\ \A slot : Picture(slot)' = Picture(slot)
      /\ \A p : Size(p)' = Size(p)
      /\ \A part, p : Sound(part, p)' <=> Sound(part, p)
  BY <1>1, SoundKept DEF Picture
<1>5. Found'
  BY <1>1, <1>3, <1>4 DEF Found, Good
<1>6. InFile'
  BY <1>1, <1>3, <1>4 DEF InFile, InOrder, AnOlderFile, Older, Types
<1>7. InBuffer'
  <2>1. Size(plane)' = Size(plane) /\ Size(plane) \in {0, 1, 2}
    BY <1>1, <1>4, SizeFacts DEF Types
  <2>2. data'.got = 0 /\ data'.from = {}
    BY <1>1 DEF NoData
  <2> QED
    BY <1>1, <2>1, <2>2 DEF InBuffer, Gathered
<1> QED
  BY <1>5, <1>6, <1>7

LEMMA DumpStep ==
    ASSUME ReadInv, DumpInv, [Next]_vars
    PROVE  DumpInv'
<1>1. CASE UNCHANGED vars
  <2>1. UNCHANGED <<pc, link, short, since, moved, spoilt, info, plane, addrs, addr, data,
                    file, pic, current, decoded>>
    BY <1>1 DEF vars, locals, board
  <2>2. /\ \A slot : Picture(slot)' = Picture(slot)
        /\ \A p : Size(p)' = Size(p) /\ Whole(p)' = Whole(p)
        /\ \A from, p : Aged(from, p)' <=> Aged(from, p)
        /\ \A part, p : Sound(part, p)' <=> Sound(part, p)
        /\ \A p, got : Gathered(p, got)' = Gathered(p, got)
    BY <2>1, SoundKept DEF Picture
  <2>3. Numbered' /\ (Calm' <=> Calm)
    BY <2>1 DEF DumpInv, Numbered, Calm
  <2>4. Found => Found'
    BY <2>1, <2>2 DEF Found, Good
  <2>5. InBuffer => InBuffer'
    BY <2>1, <2>2 DEF InBuffer
  <2>6. InFile => InFile'
    BY <2>1, <2>2 DEF InFile, InOrder, AnOlderFile, Older
  <2> QED
    BY <2>3, <2>4, <2>5, <2>6 DEF DumpInv
<1>2. CASE Connect \/ ReadChip
  <2>1. /\ pc \in Before /\ pc' \in {"chip", "wait", "end"}
        /\ UNCHANGED <<file, pic, decoded>>
    BY <1>2 DEF Connect, ReadChip, Before, board
  <2>2. file' \in AnOlderFile'
    BY <2>1 DEF ReadInv, HasRead, AnOlderFile
  <2> QED
    BY <2>1, <2>2 DEF DumpInv, Numbered, Found, InBuffer, InFile, Polled, Dumping
<1>3. CASE Deinit
  BY <1>3 DEF Deinit, board, DumpInv, Numbered, Calm
<1> QED
  BY <1>1, <1>2, <1>3, DumpRegister, DumpPoll, DumpAddress, DumpMalloc, DumpRead, DumpWrite,
     DumpBoard DEF Next, Tool

\* avformat's main with file_save and file_append: a dump during which no call
\* fails holds the planes, in their order and each from its own address, of
\* pictures no older than the one displayed when the descriptor's address was
\* read; of that one alone, and with what is read past its end, if the board
\* stood still; and nothing of an older dump.
THEOREM DumpIsWhole == Spec => []DumpHoldsItsPlanes
<1> QED
  BY ReadInvariant, DumpInit, DumpStep, DumpFollows, PTL DEF Spec

-----------------------------------------------------------------------------
(***************************************************************************)
(* The kinds of the variables that Types leaves out.                       *)
(***************************************************************************)
Part == [plane : Planes \cup {"older"}, from : SUBSET Memory,
         bytes : {"same", "more", "cut"}]

RestTypes ==
    /\ opts \subseteq {"loop", "simple", "dump"}
    /\ id \in Nat /\ chip \in ChipIds /\ addr \in Slots \cup {NoSlot, Unset}
    /\ prev \in Nat /\ shown \in Nat
    /\ data \in [got : Nat, from : SUBSET Memory] /\ file \in Seq(Part)

LEMMA RestStep ==
    ASSUME Types, RestTypes, [Next]_vars
    PROVE  RestTypes'
<1> USE DEF RestTypes
<1>1. CASE Connect \/ Deinit \/ UNCHANGED vars \/ \E s \in Slots : Decode(s) \/ Display(s)
  BY <1>1 DEF Connect, Deinit, Decode, Display, vars, locals, board
<1>2. CASE ReadChip
  <2>1. id' \in Nat
    BY <1>2, AvFormatAssumption DEF ReadChip
  <2> QED
    BY <1>2, <2>1 DEF ReadChip, board
<1>3. CASE ReadRegister
  <2>1. addr' \in {addr, current, NoSlot}
    BY <1>3 DEF ReadRegister
  <2>2. addr' \in Slots \cup {NoSlot, Unset}
    BY <2>1 DEF Types
  <2> QED
    BY <1>3, <2>2 DEF ReadRegister, board
<1>4. CASE Poll
  <2>1. info' \in Nat
    BY <1>4, PictureFacts DEF Poll
  <2>2. prev' \in {prev, info'} /\ shown' \in {shown, info'}
    BY <1>4 DEF Poll, Look
  <2> QED
    BY <1>4, <2>1, <2>2 DEF Poll, board
<1>5. CASE ReadAddress
  BY <1>5 DEF ReadAddress, board
<1>6. CASE Malloc
  BY <1>6 DEF Malloc, board, NoData
<1>7. CASE Read
  <2> DEFINE more(place) == [got |-> data.got + 1, from |-> data.from \cup {place}]
  <2>1. PICK place \in Memory :
          data' = more(place) \/ data' = [more(place) EXCEPT !.got = Size(plane)]
    <3>1. Types /\ plane \in Planes
      BY DEF ReadInv, Types
    <3>2. Other \in Memory /\ At(addrs[plane], data.got) \subseteq Memory
      BY <3>1, AtFacts
    <3> QED
      BY <1>7, <3>2 DEF Read
  <2>2. Size(plane) \in Nat
    BY DEF Size
  <2>3. data' \in [got : Nat, from : SUBSET Memory]
    BY <2>1, <2>2
  <2> QED
    BY <1>7, <2>3 DEF Read, board
<1>8. CASE Write
  <2>1. \/ file' = file
        \/ \E bytes \in {"same", "more", "cut"} :
              LET part == [plane |-> plane, from |-> data.from, bytes |-> bytes]
              IN  file' = <<part>> \/ file' = Append(file, part)
    BY <1>8 DEF Write, file_save, file_append
  <2>2. ASSUME NEW bytes \in {"same", "more", "cut"}
        PROVE  [plane |-> plane, from |-> data.from, bytes |-> bytes] \in Part
    BY DEF Part, Types, Planes
  <2>3. \A part \in Part : <<part>> \in Seq(Part) /\ Append(file, part) \in Seq(Part)
    OBVIOUS
  <2>4. file' \in Seq(Part)
    BY <2>1, <2>2, <2>3
  <2> QED
    BY <1>8, <2>4 DEF Write, board
<1> QED
  BY <1>1, <1>2, <1>3, <1>4, <1>5, <1>6, <1>7, <1>8 DEF Next, Tool

\* avformat's main, file_save and file_append: every variable holds a value of its
\* kind, whatever is answered short or refused.
THEOREM TypesKept == Spec => []TypeOK
<1>1. Init => RestTypes
  <2> SUFFICES ASSUME Init PROVE RestTypes
    OBVIOUS
  <2>1. Older \in Part
    BY DEF Older, Part
  <2>2. <<>> \in Seq(Part) /\ <<Older>> \in Seq(Part)
    BY <2>1
  <2> QED
    BY <2>2 DEF Init, RestTypes, NoData
<1>2. ReadInv /\ RestTypes /\ [Next]_vars => RestTypes'
  BY RestStep DEF ReadInv
<1>3. ReadInv /\ RestTypes => TypeOK
  BY AvFormatAssumption
     DEF ReadInv, Types, RestTypes, TypeOK, Part, Before, Dumping, Planes
<1> QED
  BY <1>1, <1>2, <1>3, ReadInvariant, PTL DEF Spec
=============================================================================
