# VSTools: a verification project

VSTools (this repository) is a set of debug tools for the Trident SX7B/SX8B TV
chips.  The chip runs Linux on an ARM core and a video firmware ("AVMIPS") on
another one; both see the same DDR memory and registers.  The tools look at
the firmware from outside: `ARM_Linux/` holds tools that run on the board and
map the firmware's memory, `x86_Windows_Linux/` holds tools that run on a PC
and reach that memory through a DebugServer over TCP, `AVMIPS/` holds patches
for the firmware itself, which is not in the repository.

What is hard in such tools is always the same: a writer that never waits (the
firmware), a reader that samples its indices from time to time, rings that
wrap, and almost no synchronisation.  The project states what the tools can
promise under these conditions, checks it with TLC on small instances, and
proves the parts that matter most with TLAPS.

## 1. Inventory

| Part | Source | State | Operations | What is hard, and what must hold |
|---|---|---|---|---|
| ES recorder (`vs_tools --vesdump`) | `ARM_Linux/library/func_vesdump.c`, called from `ARM_Linux/app/main.c` | file statics (layout flag, descriptor, buffer, semaphore, directory), locals of one thread per channel, files | `func_vesdump`, `es_dump_thread`, `take_record`, `descriptor_get` | threads share statics; the firmware runs on between samples; ring wrap; full disk.  The file must be the stream. |
| PTS recorder (`--ptsdump`) | `ARM_Linux/library/func_ptsdump.c` | the same | the same | a copy that lacks the original's pointer mask and its turn of the demux's addresses; until one of these matters it must behave like the original |
| Remote log (`avlog`) | `x86_Windows_Linux/app/avlog/main.cpp` | rd, wr, i; the log file | start-up calls, poll, fetch, print | messages overwritten before or while they are fetched; 32-bit index.  Every message one line, loss marked. |
| Local log printer (`printmsg`) | `ARM_Linux/app/printmsg.c` (= `library/func_log.c`) | rd_idx, wr_idx | poll, print | masked indices; laps are invisible |
| Malone log recorder | `ARM_Linux/app/malone_log/main.c` | byte ring with `rd` written back, stop flag | copy, reset rd, stop on SIGINT | wr is read four times per round; full ring; signal |
| Debug link | `x86_Windows_Linux/lib/tcp_client.cpp`, `lib/dbg_client.cpp` | one socket in a static | connect, disconnect, transfer, read32, read8, write8 | TCP cuts and breaks; no timeouts; lengths unchecked |
| Stream format monitor (`avformat`) | `x86_Windows_Linux/app/avformat/main.cpp`, `lib/chip_id.cpp`, `lib/file_save.cpp`, `lib/file_append.cpp` | chip id, addresses, two frame descriptors, the dump file | wait for a channel, poll, compare, dump | results that nobody looks at; a retry loop on a dead connection; decoder and display go on during a dump.  Nothing unread is used; a dump holds its planes. |
| CPU comm | `ARM_Linux/library/Trid_Util_CPUComm_*.c`, `cpu_comm_is_ready.c`, `comm_get_addr.c`, `include/ioctl.h` | g_comm_fd, ShMemMap, single info | Init, Call, InstallRoutine, retried ioctl | a failed Init leaves the descriptor set; ioctl is retried for ever |
| Memory mapping | `ARM_Linux/library/mem_map.c` | the device descriptor | mem_map_init, mem_map, WriteWord | page arithmetic; NULL on failure |
| Pman | `ARM_Linux/library/pman.c`, `app/pman_disable/main.c` | shared registers | open all windows; the malone flag | read-modify-write without a lock, by two programs and the firmware |
| Frame queue monitor, ES descriptor, format and sync viewers | `ARM_Linux/app/frameq.c`, `esdesc.c`, `format.c`, `app/test/avsync.c` | one page mapped; fields read one after the other | open, map, sample, print | fields of different moments; indices modulo the queue's size; 64 bits in two words; a descriptor across a page |
| Simple decoder | `ARM_Linux/app/simpledec/simpledec.c` | resources taken in order | start, stop | cleanup order of its gotos |
| Mutex experiments | `ARM_Linux/app/test/test_mmap_*.c`, `avmips_event.c` | a mutex in a shared mapping | lock, unlock | |
| Firmware patches | `AVMIPS/*.patch` | metadata queue, ES usage | push, pop, monitor | code around them is not in the repository |
| Options, hexdump | `option_process.c`, `func_watch.c`, `func_uart_enable.c`, ... | none | | straight-line |
| UDP server | `ARM_Linux/library/udpsvr.c` | a socket | receive | no tool calls it |
| Image converters, getopt, build files | `app/png`, `malone_jpeg_luma_to_bmp`, `3rdparty/` | none | | pure I/O, third-party |

How they interact:

- `main.c` of the board tool maps memory, switches pman off, initialises CPU
  comm and then starts a recorder thread per `--vesdump`/`--ptsdump` channel.
  The recorders get descriptor addresses from `comm_get_addr` (a CPU comm call)
  and map them with `mem_map`.  The threads of one kind share the statics of
  their source file; recorders of different kind share the disk only.
- `avlog` and `avformat` use the debug link for everything; a failed call ends
  `avlog`, `avformat` goes on.  `avlog` and `printmsg` follow the same ring in the
  firmware's memory.
- Every board tool opens the windows of the power manager before it looks at
  memory, and `app/pman_disable` is a program that does only this; nothing keeps
  two of them, or `word`, from doing so at once.
- The firmware never waits for any of them.

## 2. Modules

| Module | Models | Builds on |
|---|---|---|
| `EsRecorder` | func_vesdump, its threads, the firmware's ES ring | |
| `MCEsRecorder` | constants for TLC | EsRecorder |
| `PtsRecorder` | func_ptsdump; refinement mapping to EsRecorder | EsRecorder (EXTENDS, and INSTANCE as the specification it implements) |
| `MCPtsRecorder` | constants for TLC | PtsRecorder |
| `RecorderProofs` | theorems of both recorders: for one channel, of the handshake for both, and the implementation | PtsRecorder, TLAPS |
| `LogRing` | the firmware's log ring (external) | |
| `FollowedLog` | abstract: what a log follower promises | |
| `AvLog`, `AvLogProofs` | avlog, over LogRing; implements FollowedLog; theorems | LogRing, FollowedLog |
| `PrintMsg`, `PrintMsgProofs` | printmsg, over LogRing; implements FollowedLog; theorems | LogRing, FollowedLog |
| `DebugCalls` | abstract: what a call of the debug link promises | |
| `DebugLink`, `DebugLinkProofs` | net_* and dbg_*, TCP and the DebugServer (external); implements DebugCalls; theorems | DebugCalls |
| `AvFormat`, `MCAvFormat`, `AvFormatProofs` | avformat, its calls as DebugCalls promises them; constants; theorems | |
| `BoardTool`, `MCBoardTool`, `BoardToolProofs` | pman_disable in both versions, the viewers, mem_map, word; constants; theorems | |
| `CpuComm` | main up to its comm_get_addr calls, CPU comm's Init and Call, ioctl_b; the driver and the firmware (external) | |
| `MCCpuComm`, `CpuCommProofs` | constants; theorems | CpuComm |
| `MaloneLog`, `MaloneLogProofs` | the malone log recorder; the firmware's byte ring (external); theorems | |

Operators that stand before a definition with the comment "Mutant" are wrong
variants of it; no specification uses them.  PROJECT.json names for each
property the variant that breaks it.

### EsRecorder

State.  `wp`, `ring`, `sent` are the firmware's; `dtv`, `esDesc`, `esBuffer`,
`sem` are `g_dtv_flag`, `g_es_descriptor`, `g_es_buffer`, `sem_es`; `mpc`,
`chan` say where the main thread is in `func_vesdump`; `pc`, `fp`, `filecnt`,
`prev`, `cur`, `piece`, `pos` are each thread's place, its locals, the fwrites
that remain and the file's offset; `files`, `free` are the disk.  `overrun` is a
history variable: the recorder was a whole ring behind.

Actions. One per step that another party can see: `GetAddr` ... `CreateThread` are the
lines of `func_vesdump`, each a read or write of the statics; `TakePost`/`TimeOut` are
the two results of `sem_timedwait`; `Open`, `Setup`, `Sample`, `TakeRecord`,
`WriteUnit`, `SecondPiece`, `Recorded` walk through `es_dump_thread` and
`take_record`. `g_es_buffer` is set in two steps as in func_vesdump.c:208-213:
`RawBuffer` stores the ring's address, which maps nothing, `MapBuffer` what mem_map
makes of it; with two channels the thread of the first may read it in between.
`fwrite` moves one unit per step because the firmware goes on writing under it.
Failures are actions of their own: `MapDescriptorFails`, the NULL buffer of
`MapBuffer`, `OpenFails`, `ShortWrite`, and `WriteOutside`/`Crash` for a read outside
the mapping.

Abstractions.  A unit is a byte or any block of them, named by its channel and
its number.  Addresses keep their wrap (`AddrSpace`): the code subtracts
unsigned.  The top bits that the code masks out of the demux's pointer, the read
pointer (printed only), progress printing and the result of `fflush` are left
out; a descriptor is read in one step, which is exact for one channel because
only `wp` changes while a tool runs.

### PtsRecorder

func_ptsdump.c began as a copy of func_vesdump.c. The semaphore, the thread's loop and
take_record are the same text, and EsRecorder's actions stand for them (`Copied`).
Four things differ and have actions of their own:

- there is one descriptor layout, the demux's, and no flag (`PtsGetAddr`);
- the write pointer keeps bits 31 and 30, which func_vesdump.c:54 masks off
  (`PtsDescriptors`, used by `PtsSetup` and `PtsSample`): `Marks` are the values the
  two bits may have, `Quarter` is their weight;
- the page of the answered address is mapped as it is (func_ptsdump.c:181), where
  func_vesdump.c:196-199 first turns an address of the demux's window into one of its
  own: for a channel in `Window` the copy reads some other page, which shows one of the
  descriptors in `Elsewhere`;
- the buffer pointer is set once (`PtsMapBuffer`).

`misread` is history: a value of the descriptor was used that is not the ring's own.
`Es` instantiates EsRecorder with the flag replaced by `AddressKnown`, true from the
first `comm_get_addr` on, and `ImplementsEsRecorder` says that every step that leaves
`misread` FALSE is one of the original (its two assignments to the buffer pointer
taken at once, `MapFrom("buffer")`). With `Window` empty and `Marks` {0}, `misread`
never comes about. What the copy does after a misread is modelled, but nothing is
claimed of it. `OneLayout` names the board of which all this is said: the demux owns
every descriptor. It is the hypothesis of the theorems that relate the two, and
MCPtsRecorder assumes it.

### LogRing, FollowedLog, AvLog, PrintMsg

The firmware rewrites a slot and then advances its index (`StartMessage`,
`FinishMessage`): a reader can meet a slot in between, which shows as `Torn`.
A slot is named by the number of its message.  `avlog` samples the index, then
fetches the slots one by one (`Poll`, `FetchFirst`, `FetchSecond`, `EndBatch`);
`printmsg` samples before every message and compares masked indices (`Poll`,
`PrintFirst`, `PrintSecond`).  The history variables say which message number an
index stands for; the code has only the index.

FollowedLog is the promise of both: lines in order, none twice, each showing
its own message, a later one of the same slot, or a torn one.

Assumptions.  Total divides 2^32 (512 in the code; printmsg's mask needs a
power of two).  Between two samples of avlog the index advances by less than
2^32.  The firmware's order (message first, index after) is not in the
repository; it is what both readers rely on.

### DebugLink, DebugCalls

A call (`Call`) is cut into requests (`ChunkMax`); `Send`, `RecvLength`,
`RecvData`, `Done` are the parts of `net_transfer` and of the loops of
`dbg_host_read8`/`write8`; `Fail` is its FAILED label.  `Server`, `Break`,
`Change` are external: a server that serves in order, TCP that delivers pieces
and may break, and a firmware that changes its memory at any time.  Memory cells
hold versions, so a property can tell stale, mixed-up and missing data apart.
Two things go wrong beyond a break: the server answers with less than was asked
(`ShortReplies`), which the code takes for success, and TCP delivers the two
bytes of a length apart (`SplitLengths`).  `flaws` remembers which has happened,
and the properties say what still holds after each.

DebugCalls is the link as its callers see it: `link` is none, up or closed for
good, a call begins and then succeeds or fails, and it succeeds only while the
link is up.  DebugLink implements it with the descriptor as `link`, even with
short answers and split lengths; `avlog` and `avformat` are modelled on it.

Abstractions.  `send` takes a request whole (at most 4 KB and a header on a
blocking socket).  A request that fails in `dbg_init` after the connect is the
same as `ConnectFails`.  read32's alignment check and the four address spaces
are left out.

### AvFormat

`Connect` ... `Deinit` are main from its dbg_init to END, one step per call of
the debug link, with the outcomes `Answered`, `Refused` (as in DebugCalls) and
`Short` (the flaw of DebugLink: 0 is returned, a read32 has set nothing, a read8
has left zeros).  What is on the stack before it is set is any value: `id'` after
a refused read is any chip id.  `Poll` is the read of the frame's descriptor with
the print that follows (`Look`); `ReadAddress`, `Malloc`, `Read`, `Write` are the
dump: its two address registers, and for each plane the buffer, the requests of
one read8 and file_save or file_append.  `Decode` and `Display` are the board.

Abstractions. A frame buffer holds the number of its picture, 0 is anything that is no
frame. Its luma and its chroma plane have an address each (`[slot, plane]`), and what
a request brings is a pair of picture and plane, so that a plane read from the other
one's address shows; `Other` is memory that belongs to no plane. A plane is one or two
requests long, and a dump may read beyond its end. Of the chip id only its family
matters (`SX7`, `SX8`, neither). The file is a sequence of parts, each with the planes
its bytes came from and whether text mode or a full disk changed its length; what
newline doubling does to the bytes is not followed further, and no property compares
the file byte by byte. `since` is the picture on display when the descriptor's address
was read, `moved` that the board has gone on after that. Option parsing, the printed
text and the names of MPEG formats are left out.

### BoardTool

`Start` to `WriteMalone` are pman_disable as every board tool links it (the `viewer`)
and as the program app/pman_disable has it (the `switch`): one action per register
access, so that the other tool, the firmware and `word` (all `WriteWord`) come between
a read and the write that goes with it. A register is a set of flags. `GetAddress`,
`Map`, `Read` are the viewers' mains: `esdesc`, `frameq`, `format`, `avsync` are
records of what each reads, in which order and of which structure (`avmips_desc`,
`demux_desc`, `FrameQ_t`, `MpegFormat_t`, `triVideoSharedInfo_t`: the fields in memory
order), `mem_map` is the page arithmetic, and `Read` is one field of a round. The
pointers are not volatile, and C leaves the order of a difference's operands open, so
fields that move are read in either order (`wp` and `rp`, `wrIdx` and `rdIdx`, the two
words of a stamp); where a field that does not move is read among them makes no
difference, and the two fields of a format move together. `Produce` and `Consume` move
the firmware's counters, bytes or entries since the start. The memory shows less of
them (`Value`): the ring's pointers come round at its end and the queue's indices at
`QueueSize`, its field `sz` (frameq.c:45-50). That the firmware advances an index
modulo `sz`, and takes equal indices for an empty queue, is how
AVMIPS/metz_metadata.patch walks a queue with the same fields; one entry therefore
stays free. frameq.c:395 prints the plain difference of the two indices and does not
look at `sz`: after each wrap of the writer's index, until the reader's follows, it
prints a negative number.

Abstractions.  Of the format's many fields two stand for all, since they are
copied one by one.  A time stamp has one bit in its low word.  frameq's loop of a
recorder behind the endless one cannot be reached and is left out.

### CpuComm

`Start` to `InitFails` are `main` and `Trid_Util_CPUComm_Init`: `fd`, `infos`,
`maps` are its three kinds of resources, `init` the result that `main` ignores.
`IsReady`, `SendCall`, `Receive`, `CallInterrupted` are `Trid_Util_CPUComm_Call`
inside comm_get_addr's loop; `got` are the addresses that came back.  On the
other side, `calls` and `answers` are the driver's sessions.  An ioctl that fails
is repeated by `ioctl_b`, so here it is waiting, unless it was interrupted
(ERESTARTSYS): then the call is made again and its session stays behind.

`fd = "closed"` is the state a failed `Init` leaves: the number is kept and every
later ioctl fails for ever.  With `fd = "none"` cpu_comm_is_ready returns 0 for
ever.  Either way main hangs in its first comm_get_addr, after having printed
"cpu comm inited"; what does hold is that nothing is sent.

### MaloneLog

`sent` and `taken` are `db->wr` and `db->rd` without their wrap; `wr` and `rd`
are what the fields show.  `Compare`, `WriteFirst`/`WriteSecond` or `WritePlain`,
`Reset`, `Check` are the round of main's loop, one action per read of `db->wr`.
`Write` is write2file: it may come back short or find no file, and nobody
notices.  One `fwrite` is one step: the firmware does not write between rd and wr
(it counts `ignored` when the ring is full), so what fwrite reads does not change
under it.  `raced`, `brim` and `refused` are history: the three ways to lose a
byte.

Assumption: the firmware drops bytes when wr is a ring ahead of rd.  It is not in
the repository; the `ignored` counter and the read pointer that the tool writes
back show it.

## 3. Runs

| Run | Instance | Question |
|---|---|---|
| EsRecorderSingle | one channel, ring of 4, 10 units, disk of 9 | Is the file the stream?  Does the recorder stay in its buffer, warn with reason, have a file, keep up? |
| EsRecorderBoth | two channels, rings of 2, one unit sent after start, disk of 2 | What survives of the semaphore handshake when the second call re-initialises it? |
| EsRecorderOwnChannel (violation) | two channels of the same layout | Does a recorder record its own channel? |
| PtsRecorder | two channels, rings of 2, disk of 2, one channel in the window, pointers with and without a mark (24 addresses, a quarter of 6) | Is the copy the original until it misreads a descriptor? |
| AvLog | ring of 2, index mod 8, 8 messages | Which lines does avlog print, what do they show, what does the `!` mean, is it a log follower? |
| PrintMsg | ring of 4, 10 messages | The same for printmsg with masked indices |
| DebugLink | 3 cells, chunks of 2, 2 calls, short answers and split lengths | Do reads return memory, are writes done before reads, do calls return, is it what DebugCalls promises, and what is left of this after each flaw? |
| DebugLinkSplitLength (violation) | 1 call | Does a read that returned 0 have its data when the length bytes arrive apart? |
| AvFormat | 2 frame buffers, 3 chips, 3 pictures, 1 short answer, all options | Is anything used that was not read, does a dump hold its planes, does the tool end, does the screen follow? |
| BoardTool | 1 window (2 registers), page of 5, addresses to 6, ring of 2, queue of 3, 2 register writes, counters to 4 | What do unlocked read-modify-writes lose, is what a viewer shows true but for wraps, when does it crash? |
| CpuComm | two requests, 3 interruptions or empty answers | Is every address of its index, is nothing sent after a failed start, are all addresses found? |
| MaloneLog | ring of 4, pointers mod 8, 10 bytes | Is the file in order, when is it the whole log, does SIGINT end it? |

Why the bounds are enough. A recorder's step depends on two samples and the ring size:
with a ring of 4 and 10 units the stream wraps twice, every pair of samples (with and
without a wrap, empty, exactly full) occurs, lapping occurs, and the disk fills in the
first and in the second piece. For one channel the theorems below remove the bounds.
In the runs with two channels the question is the handshake and the statics, which do
not depend on the data. In PtsRecorder one channel is read right or with a mark and
the other from a foreign page that shows one of two other rings, so each of the two
causes of a misread strikes, for both recorders and before and after the buffer is
mapped. avlog's index wraps once and laps the reader by more than one ring, and 8
messages leave room for a second marked batch after a first one. printmsg is lapped
twice. A read of 3 cells in chunks of 2 has a full chunk and a remainder; two calls
are what the ordering of a write and a read, and use after a close, need. Of CpuComm,
two requests and three mishaps let an answer to an old session of the first index be
there while the second is asked for; the theorems remove this bound. In MaloneLog 10
bytes wrap the ring twice and the pointers once. AvFormat needs two frame buffers for
a display that moves on, three pictures to come round to the first buffer again and to
have both sizes, and one short answer: the safety properties say nothing after it, but
the control does go on (`MaxShort` also means that `Ends` is not asked whether short
answers without end keep an `-s` waiting: they do). In BoardTool one window has both
kinds of registers, the other windows are more of the same; two writes let the
firmware race with each of two tools; a page of 5 holds the structure of 4 at some
addresses and not at others; a ring of 2 and a queue of 3 with counters to 4 are
empty, full and wrapped, the ring twice. There a viewer that shows and the registers
have no variable in common that either reads, so the run's constraint (`OneAtATime`)
follows the viewer only where the registers are at rest: it drops products of the two,
not behaviours of either. In the same way `OneDescriptor` lets the counters move only
for a descriptor at address 0, whose fields are all mapped: where a descriptor lies
does not depend on the counters.

Deadlock is not checked: the tools end, the firmware reaches its bound, and a
recorder without fairness may stop; all of this is meant.

What the violations show:

- **EsRecorderOwnChannel**: the options offer a recorder per channel, but
  func_vesdump.c keeps everything in statics.  The second call overwrites them
  under the first thread: its file gets units of the other channel.
- **DebugLinkSplitLength**: `recv` of the two length bytes accepts one.

That a response's length is not compared with the request is a TODO of the code
(tcp_client.cpp:141), so it is no finding; `ReadsFailByTwoFlaws` covers it: a read
that got less than it asked for returns 0.

What the passing runs show beyond the table: with two channels each file is still
opened for a post of its own, the last post is never lost (the thread that takes it
need not be the one it was meant for), and the semaphore never counts two. In every
batch that avlog marks with `!`, the first message of that very batch was overwritten,
and a wrong line without a mark was overwritten after the sample. The time-stamp
recorder is the elementary-stream recorder until it uses a pointer with a mark or a
page that is not the descriptor's. The batch in which the 32-bit index wraps is not
printed at all, but order and numbering survive. A malone log may lose bytes in three
ways that its END line does not tell (a byte that comes between the last length and
the new read pointer, a ring that is exactly full, a refused write), but never its
order, and in no other way. avformat looks at few of its results, and what saves it is
that a failed link stays closed: it then asks the board for nothing. It does not end
if the link fails while it waits for a decoding channel, nor with `-s` on a blank
descriptor. A dump during which nothing failed has luma first, then chroma, each from
its own plane (and on into other memory where the plane is shorter than the tool takes
it to be), and of no picture older than the one on display when the descriptor was
found; only on a board that stands still are both of the one picture that was printed.
A viewer shows an almost empty ring as almost full when the reader has overtaken the
write pointer it has just read, a full ring as empty, a queue as holding a negative
number of frames from each wrap of the writer's index until the reader's, and a time
stamp a whole low word off when it carries between two reads; in no other case is it
wrong (`ShownButForWraps` says by how much each figure is off). The unlocked power
manager loses a setting only in the window between a read and its write;
app/pman_disable's malone flag can also undo another tool's opening, and puts a flag
into a window that was not in use.

## 4. Fairness

Weak fairness of the main thread and of each recorder thread: they are threads
of one process, each blocked only in calls with a bound (`sem_timedwait`, 1 s)
or in I/O that ends.  Which of the results of an enabled step comes is never
assumed.  In the log followers, weak fairness of the tool: it is a loop of calls
that return; for avlog that is DebugLink's `CallsReturn`.  In DebugLink, of the
transfer and of the server: no timeout exists on either side (`net_connect`'s
`msec` is unused, `SO_RCVTIMEO` is commented out), so without an answering
server a read waits for ever, and nothing weaker would do.  In CpuComm, of the tool
and of three steps of the firmware: it comes up, it learns of the channels, it
answers the latest call.  comm_get_addr waits for exactly these, with no limit.
In AvFormat, of the tool's steps other than a failure of the link: calls return, but
that one fails is never assumed, so a liveness property cannot hold by an assumed
break.  In MaloneLog, of the recorder only.
BoardTool needs none: its viewers never end.  Elsewhere the firmware has no fairness, and
neither has a break of the connection, an interruption or SIGINT.

## 5. Proofs

`RecorderProofs` proves, for every ring size, base address, address space,
bound and disk, and for either single channel (`Selected = {c}`):

- `SingleInvariant`: the inductive invariant `SingleInv`;
- `SingleRecordsFaithfully`, `SingleStaysInBuffer`, `SingleWarnsWithReason`,
  `SingleNeverWithoutFile`: the safety properties of EsRecorderSingle.

The only assumption is `EsRecorderAssumption`.  `FaithfulRecording` is not
inductive: whether the next unit is the right one depends on where the samples
are.  `SingleInv` adds, besides the kinds of values and the place of each
party: what every cell of the ring holds in terms of `sent` and `wp`
(`RingContents`), how far the file's end is behind the firmware in terms of
the previous and the current sample (`Lag`, with a clause for each place of the
thread), and that what is left to write ends at the current sample (`Piece`).
As long as the lag is below the ring size, the cell to be written next holds the
unit that comes next.  The arithmetic of the ring is in lemmas
(`AfterInRing`, `AroundInRing`, `HeldAfter`, ...); there is one lemma for the
firmware's step, one for the main thread and one per group of the recorder's
actions, and under each one step per conjunct it can disturb.

Its second part proves `OneFilePerPost`, `PostNotStranded` and
`TypeOK` for every choice of channels.  `OneFilePerPost` becomes inductive by
counting (`Count`): files opened, files about to be opened and the semaphore never
exceed the posts made, and by what main and threads can be doing when the second
call resets the semaphore (`Order`).  `TypeOK` needs nothing of the ring: it holds
although a thread may read a descriptor with the other layout's flag.

Its third part proves `PtsImplementsEs` under `OneLayout`, for every choice of
channels, window, foreign pages and marks: until it misreads, the time-stamp recorder
takes the steps of the elementary-stream recorder. The invariant (`LayoutInv`) says
that nothing reads a descriptor before there is one; a descriptor whose values are the
ring's own is the original's (`RingIsDescriptor`), an action of the copy's own that
used such a one is the original's action (`PtsStepIsStep`), and the shared actions are
the original's leaf by leaf (`SameNext`). What is proved of the original is then
carried over: `PtsRecordsFaithfully` has the four safety properties of one channel as
long as `misread` is FALSE, again under `OneLayout`; `PtsHandshake` has
`OneFilePerPost`, `PostNotStranded` and `TypeOK` for any channels, misread or not and
whatever the layout. No run checks these of the time-stamp recorder.

`CpuCommProofs` proves `AddressIsOfItsIndex` and `SendsOnlyMapped` from
`CpuCommAssumption`, for every sequence of requests and any number of
interruptions.  The invariant `CommInv` has three parts: how far the initialisation
has come for each place of main (`Initialised`), that the session in progress asks
for the current index (`InProgress`), and that the driver holds for each session
only its own index's address or none (`AnswersFit`).  The last is what makes a late
answer harmless.

`AvLogProofs` proves, from `LogRingAssumption` and `AvLogAssumption` (the index wraps
at a multiple of the ring's size), the four properties of avlog's lines and
`ImplementsFollowedLog`, for every ring, index width and number of messages.  The
invariant `FollowInv` says that the ring holds the last Total messages (`Holds`), which
messages rd and wr stand for and that the firmware is less than a lap of its index
ahead (`Sampled`, `Batch`), what the first half of a fetch may have seen (`HalfSeen`,
stable while the firmware writes: `ShowsLater`), and how many lines there must be
(`Book`).  The rest is arithmetic of remainders, proved at the top of the module:
equal remainders less than n apart are equal (`Near`), and the slot found by the
wrapped index is the one of the message number (`Nested`, `Shifted`).

`PrintMsgProofs` proves, from `LogRingAssumption` alone, all the safety properties of
printmsg, which has less to go by than avlog: only masked indices, so that it cannot
tell a full lap from none.  `PrintInv` says of which message `rd_idx` is the slot: of
the one that is expected next, or, once a sample came too late, of a later one in the
same slot (`Following`).  Its heart is `SampleFinds`: a comparison of masked indices
that differ finds a message that is written and not older than the expected one, and
exactly that one while the firmware is less than a ring ahead.  The rest is as for
avlog (`Holds`, `HalfSeen`, `Book`).

`MaloneLogProofs` proves `InOrder` and `WholeLog` for every ring and pointer width.
The invariant `LogInv` keeps what the comparison found while the firmware goes on:
in the branch of two pieces the firmware has passed the start of the ring
(`Around <= sent`), in the other it has not, unless a race or a full ring is on
record (`Compared`).  From this, `BytesOfThisLap` and `BytesOfNextLap` say that a copy
takes the bytes that come next and nothing of another lap.

`DebugLinkProofs` proves the refinement (`LinkImplementsCalls`), which needs only an
invariant of the descriptor, and then `InSync`, `WritesBeforeRead` and
`ReadsFailByTwoFlaws` for every memory, request size and number of calls.  The
invariant says what is on the connection in each place of net_transfer (one
request, or the rest of one response) and counts the writes sent and done; the last
theorem adds that the units of a response are versions the cells had during the call.

`AvFormatProofs` proves `UsesWhatItRead`, `NoDumpOfNothing` and `DumpHoldsItsPlanes`.
For the first two the invariant says what has been read at each place when the link is
still up and no answer was short (`ReadInv`). For the third (`DumpInv`) it says, as
long as nothing failed: each address read is the plane's own and of a frame no older
than the display was (`Good`), the buffer and each part of the file hold that plane of
such pictures (`Aged`), and all of the one picture's plane while the board stands
still (`Whole`).

`BoardToolProofs` proves `SettingsKept`, `OpenedStaysOpen` and `CrashesWithReason` for
every number of windows, page size and address. What a tool holds of a register
between its read and its write is the firmware's flags and what tools add, unless the
register is in `raced`; the registers a tool has passed are open unless written since.
`ShownIsTrueButForWraps` proves `ShownButForWraps` for every size of ring and queue
and every course of the counters. Its invariant relates the reads of a round to each
other: every field holds what the counters were at its own read (`TrueThen`), and the
counters of the reads follow one another up to those of now (`ReadsOK`, `CountersOK`).
Each viewer's formula is then a lemma of its own: the used bytes are the difference of
the counters modulo the ring, whatever the counters (`RingUsed`, `RingShown`); the
difference of the indices lacks the queue's size once for each wrap by which the
writer's is ahead (`QueueShown`); two words make a stamp but for the carries between
them (`StampShown`).

`TypesKept` states `TypeOK` in every module of proofs; `PtsHandshake` has it for
PtsRecorder.  In CpuCommProofs it says that Init fills two entries and maps two areas,
never a third, and that main never gets more addresses than it asks for: the two
counters need to know for each place of Init how far they are (`Counts`).

Every invariant and every refinement that a passing run checks is thus proved for all
constants; two things are model-checked only.  The liveness properties (`KeepsUp`,
`LastPostTaken`, `EveryMessageFollowed`, `CallsReturn`, `Ends`, `FollowsItsSlot`,
`AddressesFound`, `StopEnds`) need fairness and ENABLED, which the prover does not handle.
The two violations are counterexamples and need no proof.  The prover cannot do
induction over data with the library's theorems either, and modules with theorems use no
RECURSIVE operator; none of the modules needs one.

## 6. Not modelled

Left out for good: formatting, hexdump and usage text, option parsing, image
conversion, vendored getopt, the UDP helper that nothing calls.

- Simple decoder: one thread through calls of the THAL libraries, which are not
  in the repository.  Its one flaw is visible by reading: AVStream is examined at the
  label before it is set when an initialisation fails (simpledec.c:177).
- Firmware patches: diffs against code that is not in the repository.
- Mutex experiments: they lock and unlock one mutex and print its bytes.
- CPU comm's InstallRoutine, shared infos, and the CRC of a function's name.
- Two recorders of different kind (`--vesdump` with `--ptsdump`) share only the
  disk's free space, which is a bound here in any case.

Hazards of the code that no property covers, because the model would only repeat
the line: the result of fflush is ignored, and fwrite has counted buffered bytes
(func_vesdump.c:95); a failed mem_map of the descriptor is read through
(func_vesdump.c:201; the buffer's is modelled); avlog writes its setting without the
terminating NUL, so the tail of an older one stays (avlog/main.cpp:146); send may take
a part of a request (tcp_client.cpp:125); main prints that CPU comm is initialised when
it is not, and waits for ever (main.c:39; see CpuComm).

Where the code's own flaw is the exception in a property, the property does not catch
it but says that there is no other: a buffer that mem_map could not map
(`StaysInBuffer`, `WarnsWithReason`), the window between a register's read and its
write (`SettingsKept`; `OpenedStaysOpen` with the malone flag), a descriptor across a
page (`CrashesWithReason`), a display that moves on during a dump
(`DumpHoldsItsPlanes`) or to a buffer whose address was not read again
(`FollowsItsSlot`), wraps that a viewer does not undo (`ShownButForWraps`), the two
flaws of a transfer (`ReadsFailByTwoFlaws` and the properties beside it) and a misread
descriptor (`ImplementsEsRecorder`).

## 7. What is left

InstallRoutine and the shared infos of CPU comm.
