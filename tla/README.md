# A formal model of kukuruku

kukuruku is a client/server software-defined-radio receiver. The server reads
a stream of complex samples from a device process, computes a waterfall and a
histogram of it, runs any number of frequency-translating filters ("xlaters",
channels) over it, records it to disk, and streams all of this to TCP clients:
a GTK GUI, a command line example and a scanner.

This directory holds TLA+ modules that model four parts of it -- the server's
streaming core, the channels as server and clients see them, the settings of
the radio, and the scanner --, TLC configurations that check small instances,
and TLAPS proofs that hold for every value of the constants (ring sizes,
numbers of channels and clients, lengths of pipes). `PROJECT.json` maps every
definition to the lines it models.

    tlc -workers 2 -config recording.cfg MCServer      (any run of the table)
    tlapm ServerProofs.tla                             (and the other *Proofs)

Source paths below are relative to `src/`.

## 1. Inventory

### The server process (`server/`)

| component | state | operations | interacts with |
|---|---|---|---|
| SDR reader and recorder (`sdr_read_thr`, server.c:95-202) | ring `sdr_inbuf` of `BUFSIZE` packets, `sdr_cptr`, `rec_cptr`, `rec_stop`, its local `_rec_cptr` | one turn: write a batch to disk with the mutex released, wait for room, `fread` a packet, stamp and publish it | shares the ring with the workers and the writer; wakes them through `datacond`; is steered by RECORD_START and RECORD_STOP |
| xlater workers (xlate_worker.c) | list `worker_head`, `widx`, and per worker `enabled`, `last_written`, `send_cptr`, `outbuf`, `mypos`, `newtaps`, `newtapslen`, `rotate` | create, wait for data and space, filter one packet, commit, exit; modify taps; destroy | reads the ring; the writer drains `outbuf`; requests flip `enabled` and change taps |
| socket writer (`socket_write_thr`, server.c:205-384) | local snapshots of the cursors; `send_cptr` | lock `llmutex`, walk the workers, send, reap the dead, then send the metadata of the new packets | takes both mutexes, writes to every subscribed socket, wakes reader and workers |
| request handling (`parse_client_req`, client_parser.c) | `client_head`, subscriptions per client, `req_frames_head` | CREATE, LIST, ENABLE, DISABLE, MODIFY, DESTROY xlater; RECORD_START and STOP; SET_GAIN, RETUNE, SET_PPM; ENABLE and DISABLE of spectrum and histogram | everything above, under `llmutex`, some of it under `datamutex` as well |
| TCP listener and sessions (socket.c) | the client list, one thread per client | accept, read requests, disconnect | calls `parse_client_req`; the writer walks the list |
| radio control (client_parser.c:340-420, osmosdr-input.py) | frequency, ppm, gain, the command FIFO | write a setting to the FIFO, broadcast INFO | the device process reads the FIFO |
| metadata DSP (metadata.c), start-up (`main`), helpers (util.c, bits.c) | none shared | FFT, histogram, option parsing, `readn`/`writen` | called by the reader and the writer |

### The clients (`client/`, `scanner/`)

| component | state | operations | interacts with |
|---|---|---|---|
| client library (libclient.py) | `xlaters` dictionary under `xlaters_lock`, request queue, feeder threads and pipes, squelch and AFC state | send requests, dispatch messages to callbacks, attach xlaters to the server's RUNNING_XLATER, feed demodulators | the control protocol |
| GUI (kukuruku-gui.py) | waterfall, histogram, the displayed xlaters | tune, create at a line of the waterfall, record, dump, stop | the library's callbacks and its lock |
| CLI (cli.py), configuration (ConfReader.py, libutil.py), colormap, modes | small | example of use; ini files; number formats; a table; flowgraphs | the library |
| scanner (KukurukuScanner.py, util.py, framespec.py, scanner.py, xlater.c, sorter.py) | scan plan, blacklist intervals, recordings in progress | scan loop, peak search, gain control, cron matching, interval arithmetic | its own radio front end, independent of the server |

### What is hard here

* Three kinds of threads share two rings. `fread`, `memcpy` and the socket
  writes happen **outside** `datamutex`: only the cursors keep a slot from
  being read while it is written.
* Cursors are snapshotted, used after the unlock, and stored back.
* One condition variable serves "room for the reader", "data for a worker" and
  "space for a worker".
* Workers are created by one thread, run by a second, unlinked and freed by a
  third in the middle of a list walk, and disabled by a fourth.
* A recording request arrives while the recorder is writing a batch from a
  local copy of the cursor it changes.
* IDs are off by one in three places on purpose (`frameno` is the ID less one,
  a channel starts at `last_written + 1`, a worker waits for `sdr_cptr` to be
  *past* its position) and by accident in others (the clamps to
  `sdr_cptr - BUFSIZE`).
* Requests are answered and broadcast in separate critical sections; sessions
  come and go while the writer walks the client list.
* A client's list of channels is what it makes of the messages it has seen,
  which are on their way while it creates, edits and destroys; its lock is
  shared by a receiver thread and GUI handlers, and both may leave it taken.
* A setting is kept in five places: text box, GUI global, server global,
  command FIFO, device.
* The scanner reads samples that were taken before it tuned and before it set
  the gain they are to correct.

What makes each part correct: the reader never overwrites what is still
needed; metadata and every channel leave in order, once, without a gap; a
channel plays from where it was asked to; a recording is what was asked for
and a stop is a stop; no freed memory is read; nobody sleeps for ever; a
destroyed channel goes away. Every client shows the channels there are, hears
those it has a program for and no others; a created channel is answered; the
radio is set to what everybody is shown; a spectrum is that of the frame it is
taken for, what is blacklisted is not recorded, and recordings end. The
complete list, at its lines, is under `hazards` in `PROJECT.json`.

## 2. The modules

| module | what it is |
|---|---|
| `ServerState` | the shared memory: constants and their assumptions, all variables, the initial state, `datacond` |
| `SdrReader` | `sdr_read_thr` and the two recording requests |
| `XlateWorker` | `create_xlate_worker`, `xlate_worker_thr`, the destroy request |
| `SocketWriter` | `socket_write_thr` |
| `Server` | the composition: `Next`, fairness, the properties and the three refinement mappings |
| `FrameStream` | the abstract promise of a ring: a bounded FIFO of consecutive frames |
| `WorkerLife` | the abstract promise of the list of workers: each ID is created once, in order, then destroyed, then freed |
| `ServerInv` | the inductive invariants `IInv` and `LineInv`, in named parts |
| `ServerProofs` | the theorems that follow from `IInv` |
| `LineProofs` | `PlaysFromAskedLine`, from `LineInv` |
| `StreamProofs` | the rings implement `FrameStream`, the list of workers `WorkerLife` |
| `MCServer` | instances for TLC; refuses constants too small to wrap the ring |
| `ServerClaims` | four statements of the comments and of `c2s.proto` that the code does not keep |
| `Wire` | a client's connection: two FIFOs of whole messages |
| `Sessions` | the server as clients see it: sessions, every request on channels, subscriptions, the samples sent |
| `LibClient` | the channels in `libclient.py`: receiver thread, dictionary, pending queue, lock, feeders, operations |
| `Gui`, `Cli` | the two applications on top of `LibClient` |
| `Clients` | the composition of `Sessions`, `LibClient`, `Gui` and `Cli`, and its properties |
| `ClientsInv` | the inductive invariant `ClientsIInv`, in named parts |
| `ClientsProofs` | the theorems on `Clients` |
| `RadioControl` | the settings of the radio from text box to device and back, with their properties |
| `Sorting` | lists in order: the elements of a set as a list, the part of a list at given positions |
| `Intervals` | the blacklist: reading, union, lookup |
| `Spectrum` | the scanner's computations: frame planning, peaks, activity, cron strings |
| `Scanner` | the scanner's work thread, its device and pipe, the sorter; properties |
| `ScannerInv` | the inductive invariant `ScannerIInv`, in named parts |
| `RadioProofs`, `ScannerProofs` | the theorems on `RadioControl` and `Scanner` |
| `ScanFunctionProofs` | what the functions of `Intervals` and `Spectrum` compute, for every input |
| `OrderFacts` | lemmas for all of them: least elements, induction and recursion up to a number, what `Sorting` makes |
| `MCClients`, `MCRadio`, `MCScanner` | instances for TLC |

Operators whose comment starts with "Bug:" are plausible mistakes in the
definition that follows them. They are used by no specification; they are
there to see that a property would notice (the `mutants` of `PROJECT.json`).

### How the state corresponds to the code

Variables have the names of the source. Where a source name is a struct field
the variable is a function from workers (`last_written`, `enabled`,
`outbuf`); the worker's `send_cptr` is `w_send_cptr` to tell it from the
global. Program counters:

* reader `rpc`: `top` (about to lock, or asleep in the overflow wait),
  `after` (a batch is on disk, about to lock again), `fread`;
* worker `wpc`: `none`, `check` (about to test the wait condition, or asleep),
  `copy`, `commit`, `exited`;
* writer `spc`: `idle`, `visit` (at `s_w` in the list, or at its end), `send`,
  `meta`.

The variable `waiting` is the set of threads asleep on `datacond`; a
broadcast empties it, `SpuriousWake` takes one thread out. After any wake-up a thread
tests its condition again; the reader's turn starts again from its top, since
the `goto`/`continue` of server.c:174-181 goes there.

**Atomicity.** `datamutex` is only ever held over straight-line code, so each
critical section is one step. `llmutex` is held across many steps, over
sockets and over nested `datamutex` sections, and is a variable with its
holder. Work outside locks is a step of its own between the critical sections:

* `fread`: the slot turns `Torn` when the critical section that decided to
  read ends, and gets its content when the packet is published. Whoever looks
  in between sees `Torn`.
* A worker's `memcpy` and filter are one step (`WorkerFilters`). A copy that
  overlaps an `fread` may take the old packet, the new one or a mixture; the
  three outcomes are those of the step falling before, after or inside the
  `fread`.
* The writer's sending is one step per packet.
* A batch written to disk is one step: only the writing thread itself changes
  the ring and `sdr_cptr`, so nothing it reads can change under it. Requests
  that change `rec_cptr` fall before or after.

**The list of workers** is the set `worker_head`. Workers are inserted at the
head with rising `wid` under `llmutex`, so following the list is visiting the set
by falling wid (`Follows`).

**Data.** The samples of a packet are its frame ID, that is the value
`sdr_cptr` gets when it is published. `Packet.frameno` is what the code stamps
on it, one less. `OutPacket` keeps the position the worker filtered for and
what it found in the slot. Left out: timestamps, frequencies, file names,
taps, subscriptions (a client subscribed to everything is assumed, and `meta`
and `sent` are what it received last), and the end of the process on a short
read or write. The wrap of the `int32_t` cursors is left out: at the rates the
packets come it is years away. `create_xlate_worker` reads `sdr_cptr` without
`datamutex`; the read of an aligned `int` is taken to be atomic.

**Bounds**, all in `ServerState` and marked `\* bound` at the guard:
`MaxFrame` (the SDR delivers frames 0 to `MaxFrame` and then blocks),
`MaxWorkers`, `MaxRequests` (recording requests), `MaxWakeups` (spurious
wake-ups).

**`KillReportsExit`.** The writer finds a worker whose thread has ended by
`pthread_kill(thr, 0) != 0`. That reports an exited, unjoined thread with some C
libraries only (newer glibc returns 0, and then destroyed workers are never
freed). The constant says which; all runs take it to be TRUE, the case the
code was written for. The theorems hold for both values.

### The clients' side

`Wire` is used by `RadioControl` and by `Sessions`, one instance each: INFO
and the requests on channels have no state in common but the order in which
they travel, so the two are checked apart. `Sessions` abstracts the inside of
a channel, which is what `Server` is about: a worker is `running`, `dying`
(disabled) or `freed`, and a packet of it is a message. That both tell the same
story is `WorkerLife`, which either implements: `Server` with the life it
reads off `widx`, the list and `enabled` (`Life`), `Sessions` with `wstate`.

* **Server.** One action is one critical section of `llmutex`. Requests with
  two sections (SET_*, MODIFY, DESTROY) are two actions, with the session's
  `second` or `announce` in between. The reply to MODIFY_XLATER has no lock and
  reads a worker that may be freed: its ID is then what it was, or `Stray`.
  `subs` counts a client's subscriptions for a worker; the walk that removes
  them while it frees them may skip the rest, end, or end the server.
  `Write` to a client that has left is lost or kills the server by SIGPIPE.
* **libclient.** `xlaters` holds of each channel its reference, the state of
  its feeder thread and AFC. The lock is held within an action; `lost` says that
  somebody returned or raised with it, and then nobody else ever gets it.
  The request queue and the socket are one FIFO, and what a client had queued when it
  disconnects is lost from any point on.
* **GUI.** `rows` is the list view; new rows come in the order of a dictionary,
  so in any. A handler that holds the lock throughout
  is one action. An edited cell is two, since the row is fixed before the lock is waited for.
  `showerror` closes its box, or raises because the name of its icon is gone
  from the toolkit. In `RadioControl`, where handlers and the receiver thread
  share globals without a lock, a step is one Python statement.
* **CLI.** `cli.at` is the statement the script is at. The callback fills in
  `wid` between any two.
* **History variables**: `creator`, `revived`, `refused` record who did what;
  nothing reads them but properties.

### The scanner's side

Samples are blocks that carry the frequency and gain of the device when they
were taken; `PipeBlocks` is what the pipe and the buffers before it can hold.
`need` is what the blocking read still waits for, so that samples, settings
and the sorter interleave with it block by block. A flush and the reads of a
recording take `bufsize` (`BufBlocks`); what a scan reads lasts until the next
multiple of `interval`, which depends on the clock, so it is anything up to
`rate * interval` (`IntervalBlocks`), whatever `bufsize` is. `messgain` is chosen
at the start from `MessGains`: `DeviceGain` is what `set_gain` makes of a gain
(with 0 a gain mode), and with -1 `set_gain` raises and the work thread is `dead`
(`Raises`, `Dies`). A spectrum is abstracted to
whether each bin is above, on or below the threshold; the signals there are
come from a small set (`Spectra`), as do lines of `blacklist.conf` and times.
Two clocks tell all about time: what is left until `stoptime`, and how long ago
`lastact` is. `Sort` appends to `blacklist.conf` what the sorter would, and the
scanner reads it when it is started again, or raises (then it does not start).
The integer divisions are those of Python 2, under which the scanner runs.
Frequencies are multiples of a few hertz, so that all is exact; the default
`filtermargin` of 1.5 is built in.

**Bounds**: `MaxChanges` (settings changed), `MaxOps` (things a GUI's user
does), `MaxQueued` (requests of any client on the way when a user acts or the
script goes on), `MaxInFlight` (messages to any client on the way then, and when
a packet is sent), `Workers` and `MayCreate` (channels created), `MaxLines` (of
`blacklist.conf`). The user of a GUI stops when the server is gone, and a
program ends only when there are samples it could be noticed by.

## 3. What is checked

| run | constants | states | question |
|---|---|---|---|
| `recording` | ring 3, no channel, frames 0-5, 2 requests, 1 spurious wake-up | 436 k | `MetaStream`: seen through the metadata, the ring refines `FrameStream` with capacity `BUFSIZE`. `RecorderNotLapped`: a recording inside the ring stays there. `RecordedAsAsked`: it writes its frames, and little else. `GuiStopHolds`: the GUI's stop stops, also when it races a batch |
| `channel` | ring 3, 1 channel, frames 0-5, fair | 177 k | `MetadataIntact`, `OutbufIntact`: nothing unsent is overwritten, in either ring. `PlaysFromAskedLine`: a channel started at a line of the waterfall plays from that packet. `IInv`, `LineInv`, `TypeOK`. `StreamDrains`: no wake-up is lost, the stream is read to the end. `ChannelDelivers`: a live channel delivers. `DestroyedReaped`: a destroyed one that can move is freed |
| `channels` | ring 3, 2 channels, frames 0-3 | 2.9 M | `ChannelStreams`: every channel refines `FrameStream` with capacity `BUFSIZE - 1`. `NoReadAfterFree`: the writer never reads a freed `outbuf`, whatever creates, destroys and reaps race with its walk. `WorkersLive`: the list of workers refines `WorkerLife` |
| `clients` | a GUI with 2 operations, a CLI, 2 workers | 645 k | `ClientsIInv`, of which the rest are parts or consequences. What server and clients know of the channels: `PendingIsUnderway`, `KnowsAllChannels`, `DestroyedDisappear`, `RowsMatch`; which of them the script takes for its own: `ScriptTakesItsOwn`; what could end a receiver thread: `EnabledHasFeeder`, `ScriptNotStuck`; `ClientsTypeOK`. `SessionsLive`: whatever requests come late, the workers refine `WorkerLife` |
| `radio` | 2 GUIs, 2 changes, fair | 210 k | `DeviceInStep`, `DeviceFollows`: commands of several sessions reach the device whole and in the order of the announced values. `FftwUnset`: the GUI's wait is not overtaken. `Settles`: in the end everything shows and is set to the same. `RadioTypeOK` |
| `scanner` | 6 bins, 1 random frame, 1 scheduled, pipe and buffer of 2 blocks, an interval of 3, `messgain` -1, 0 or 1, fair | 281 k | `ScannerIInv`, of which the safety properties of states are consequences. `SpectrumIsOfItsFrame`, `GainFollowsSamples`: no stale samples. `BlacklistSound`, `LastIsIgnored`: what the blacklist is and does. `PeaksAreRuns`, `RangesAreCovered`: functions against references. `RecordingEnds`. `ScannerTypeOK` |
| `claim_blacklist` | as `scanner` | | `ListedAreIgnored` is violated |
| `claim_script` | a GUI with 2 operations, a CLI, 2 workers | | `ScriptHasItsOwn` is violated |
| `claim_stopframe` | ring 3, 1 request | | `RecordingEndsAtStopframe` is violated |
| `claim_recording` | ring 3, 1 request | | `RecordingHoldsItsFrames` is violated |
| `claim_ready` | ring 2, 1 channel | | `ReadyPacketsAreTheirFrames` is violated |
| `claim_exit` | ring 2, 1 channel, fair | | `DisabledWorkerExits` is violated |

**Why the bounds are enough.** A ring of three slots is the least in which a
worker can be filtering one packet while another is ready to be sent (the
outbuf holds at most `BUFSIZE - 1`), so that destroying it, letting it exit and
sending what it has ready can happen in every order; in a ring of two,
`NoReadAfterFree` and `DestroyedReaped` would hold for want of a case. Three
is also the least in which a start position can be inside, at the edge of and
outside the ring, with a batch (`WRITE_FRAMES_SYNC = 2`) shorter than the
ring. Two slots are enough for two of the claims to be violated. `MaxFrame`
makes the reader come round to the first slot again in every run, and fill the
whole ring twice in `recording` and `channel`, so that the clamps to
`sdr_cptr - BUFSIZE` bite (`claim_recording` and `claim_ready` show that they
do). Two workers are the least that let one be unlinked while another is
before or behind it in the list; what two workers say of each other does not
depend on how far the ring has turned, so `channels` gets by with fewer
frames. Spurious wake-ups are bounded because a recorder woken on a full ring
writes another batch at every one and its cursor would run ahead for ever; one
is enough to make every wait return without its condition. `recording` has it;
for a channel's threads it is the step after any broadcast that finds the
condition still false, which `channel` and `channels` have anyhow. Two recording requests let a second one arrive
while the first is being served.

In `clients` two channels are the least with which a client can take one for the
other, and with which the list is walked past a dying entry; a GUI and a script
are the least in which one lists, modifies and destroys what the other created
(the script never lists, so that a second script would add no kind of step). Two
operations let the GUI's user list or resize, and then edit, kill or leave; what
takes a third one (to leave after both) differs by nothing but messages to
somebody gone. A user, or the script, acts while at most `MaxInFlight` messages
to each client and fewer than `MaxQueued` requests of each are on the way:
acting on what is no longer so, and answers that cross requests, need no more,
and a request sent sooner is one the server takes up later, one at a time. What
receivers and the server send is not held back, and the proofs of section 4 are
for every value of these bounds. In `radio` two changes are the least that can
be announced out of order, by one GUI or two. In `scanner` the pipe is as long
as the buffer, its longest by `FlushAssumption`, and a scan reads less than the
buffer, as much or more, as with the shipped configuration; `messgain` stands for
no gain, a gain mode and a gain; a gain of three values meets both of its limits; the spectra hold a signal to blacklist, one to sort, a bin
on the floor and one inside a channel; the scheduled channel lies at the edge,
where `check_activity` leaves the list of bins; four lines of `blacklist.conf`
are two more than written, so that the sorter's join them by overlapping and by
touching. Three runs (and `claim_blacklist` and `claim_script`) say CHECK_DEADLOCK FALSE because
the system really may stop: in `clients` the script ends and users stop, in
`radio` users stop, and in `scanner` the scanner may refuse its configuration.

**Fairness** of the server: weak fairness of the reader, the writer and each worker: each is
a thread, every wait is on a broadcast, and the mutexes are held for bounded
code. It contains three assumptions about the surroundings: the device
delivers its packets, the disk accepts writes, and clients read from their
sockets. The last is a real restriction: `writen` blocks with `llmutex` held,
so one client that stops reading stops the server. Of the clients' steps only
`PublishXlater` is fair, which finishes a request already begun; no client
need ever ask for anything. The strong form of fairness is not needed for
`WriterLocks`: the writer is one action and the only other holder of `llmutex`
is a request, of which there are finitely many.

`RadioControl`: weak fairness of the device process, of each session, each
receiver thread and the main thread of each GUI, whose waits are all for
messages; users need not act, and when they have stopped everything settles.
`Scanner`: the device delivers samples, the work thread goes on, time passes;
whoever presses Enter need not. `Clients` has safety properties only and no
fairness: a client whose lock is lost stops for good, and the server with it
once the socket is full, so that there is little it could promise.

### Findings

1. **A recording ends late** (`claim_stopframe`). `rec_stop` is compared once
   per batch, so up to `WRITE_FRAMES_SYNC - 1` frames past the "last frame ID
   if the recording" (c2s.proto:56) are written. `RecordedAsAsked` proves that
   there are no more.
2. **A dump starts with the wrong frame** (`claim_recording`). A start too far
   back is clamped to `sdr_cptr - BUFSIZE`, whose slot is that of `sdr_cptr`:
   the first packet written as the oldest frame is the newest one. The clamp
   should be one later. The GUI's dump button asks for `cur - bufsize`, where
   `cur` is a stamped `frameno`, one less than the ID of its frame: once the ring
   has filled it always meets the clamp. `RecordedAsAsked` states what is left,
   and is proved: a recording that starts inside the ring holds its frames.
   (That a recording starts at the asked frame at all it does not say: a request
   that comes while a batch is being written is overwritten by the recorder's own
   cursor, server.c:167, with a start as with a stop.)
3. **A slow channel gets other frames than it says** (`claim_ready`). The
   reader waits for the metadata, not for the workers. A worker that is
   lapped, or that starts at the clamp of xlate_worker.c:77, filters what it
   finds and commits it as its frame, against worker.h:30. `PlaysFromAskedLine`
   states what is left: it is then torn or a frame a multiple of the ring
   later, never a neighbour.
4. **A full channel cannot be destroyed** (`claim_exit`). Its worker waits for
   space, and the writer moves the cursors of enabled workers only. The
   thread, its buffers and the list entry stay, against worker.h:20.
   `DestroyedReaped` states what is left: with data and space it goes away.
5. **Only the last interval of the blacklist works** (`claim_blacklist`).
   `bisect` returns the position *after* the interval that starts before the
   key, and only that entry is looked at: a key inside any other interval is
   not found, and its signal is recorded, against KukurukuScanner.py:165 and
   :184. `FindsOnlyLast` proves that this is what the function computes for every
   list and key; `LastIsIgnored` states what is left, and is proved: nothing inside
   the last interval is recorded, unless as a channel of the frame (a channel
   that the configuration names is recorded whatever the blacklist says).

6. **The script takes another's channel for its own** (`claim_script`).
   `xlater_cb` looks for "our xlater" (cli.py:20) by comparing references while
   `rid` is still None, and the channels of other clients, announced without a
   reference, have None as well. A channel that somebody creates while the
   script is between connecting and storing its reference (cli.py:40) is put to
   `wid`; unless the answer to its own request comes before its ten seconds are
   over, the script retunes that channel, and may destroy it.
   `ScriptTakesItsOwn` states what is left, and is proved: once it has its
   reference, whatever it takes is its own.

Met while modelling and in the models, against a comment or a document of the
repository, but without a run of its own:

* `read_sorted_list` is to "sort and union intervals" (util.py:178). A line that
  overlaps the last interval is dropped, and what it covers beyond that one is
  lost; one that touches it raises a TypeError (`Union`). `BlacklistSound` holds
  for the code and for a real union alike: nothing is ignored that is not
  listed. That everything listed is ignored is refuted by `claim_blacklist`
  already for lists without overlaps.
* `messgain=-1` is documented as "autogain disabled" (main.conf:48) and accepted
  (util.py:57), but `set_gain` raises for it (scanner.py:51), and the work thread
  ends: before its first scan or, if a scheduled recording comes first, after the
  first buffer of that. `RecordingEnds` names the case. The same action with
  another `messgain` is what `GainFollowsSamples` is about; with 0 the device
  has only a gain mode, and with a scheduled recording the gain of the frame is
  not set before it starts (record_long), so both are left out of it.

Against no statement of the repository: a channel may be announced as running
after it was destroyed (LIST_XLATERS, the reply to MODIFY_XLATER), which
`DestroyedDisappear` excepts by `revived`; LIST_XLATERS tells references of other
clients, so that a GUI that lists may take another's channel for the one it
waits for; samples of a program that on_demod refuses after it has enabled it
end the receiver thread, which `EnabledHasFeeder` excepts by `refused`;
`xlater_edit` keeps the lock on a bad value; AFC raises with the lock held; the
script raises when its channel is destroyed by somebody else or has no answer
within its ten seconds; `find_peaks` measures a peak from an earlier start when
a bin is on the floor or bin 0 above it (`PeaksAreRuns` leaves such spectra out);
a range narrower than a step gets no frame, and one whose rounding does not fit
into the overlap loses its upper end (`RangesAreCovered` leaves these out).

## 4. What is proved

### The server

`ServerProofs`, and `LineProofs` and `StreamProofs` which extend it, prove, for
every `BUFSIZE >= 1`, `WRITE_FRAMES_SYNC >= 1`, either `KillReportsExit` and all bounds (the four named assumptions of
`ServerState`):

| theorem | statement |
|---|---|
| `TypeCorrect` | `Spec => []TypeOK` |
| `Invariance` | `Spec => []IInv` |
| `MetadataSafe` | `Spec => []MetadataIntact` |
| `OutbufSafe` | `Spec => []OutbufIntact` |
| `NoUseAfterFree` | `Spec => []NoReadAfterFree` |
| `RecorderSafe` | `Spec => RecorderNotLapped` |
| `RecordingExact` | `Spec => RecordedAsAsked` |
| `GuiStopSafe` | `Spec => GuiStopHolds` |
| `LineInvariance` (`LineProofs`) | `Spec => []LineInv` |
| `PlaysFromLine` (`LineProofs`) | `Spec => []PlaysFromAskedLine` |
| `MetaStreamImplemented` (`StreamProofs`) | `Spec => MetaStream` |
| `ChannelStreamsImplemented` (`StreamProofs`) | `Spec => ChannelStreams` |
| `ListImplementsWorkerLife` (`StreamProofs`) | `Spec => WorkersLive` |

The argument. None of the safety properties is inductive, so `ServerInv`
strengthens them to `IInv`, part by part:

* `RingCursors`: the writer's cursor, snapshot and position lie between
  `send_cptr` and `sdr_cptr`, which are at most `BUFSIZE` apart, and less
  while the reader fills a slot. That is what the overflow check buys.
* `RingContent`: the last `BUFSIZE` frames are whole in their slots, except
  the one being overwritten. With `RingCursors` it gives `MetadataIntact`;
  without it nothing ties a slot to a frame.
* `ChannelCursors` and `ChannelContent`: the same for each `outbuf`, where the
  worker may be at most `BUFSIZE - 1` packets ahead. They give `OutbufIntact`.
* `LockInv` and `ListInv`: who holds `llmutex`, and that the writer is at a
  worker of the list that stays enabled for as long as it is sending. With the
  conjunct that a thread that exits *before* it is enabled has nothing ready,
  they give `NoReadAfterFree`. (Such a worker exists: the thread is started
  before `enabled` is set.)
* `RecorderCursors`: recording cursors are never negative, so a negative
  `rec_stop` always stops. It gives `GuiStopHolds`.

Two lemmas about the ring address, `SlotInRange` and `SlotsDistinct` (frames
less than `BUFSIZE` apart have distinct slots), carry the content parts. Each
part of `IInv` is one lemma with one step per action; `RecorderNotLapped` is an
action property proved from `IInv` and the length of a batch (at least one
frame per turn in which the reader overwrites one). `RecordedAsAsked` says what
such a recording then has on disk, which is what is left of the claims of
findings 1 and 2: by `RingContent` the slot of every frame of a batch holds that
frame, and that of a position past `sdr_cptr` the newest frame of the slot
(`LastOfSlotExists`, `BatchIsWhole`).

`PlaysFromAskedLine` needs more than `IInv`, for a worker that the reader has
lapped finds other frames than those it looks for. `LineInv` says what it may
find. `RingNumbers`: the number in a slot is of that slot and at most a ring
old, so for a position behind the current frame it cannot be too early
(`SlotNotEarlier`). `ChannelNumbers` carries that to what the worker has
committed. `ChannelStart`: a wid is given out once, and until its first packet is
sent the writer's cursor is where the channel started. The run `channel` checks
`LineInv` on a small instance.

The refinements: by `IInv` the queue in the mapping of either ring is always
the run of consecutive numbers from what was taken to what was put
(`MetaHolds`, `OutHolds`), and three lemmas about such runs (`RunLength`,
`RunGrows`, `RunShrinks`) turn the steps of the reader, a worker and the writer
into `Put`, `Deliver` and `Open` of `FrameStream`; every other step stutters.
`PositionInv` is what a channel's `Open` needs: no position before it is created,
and none before frame 0 after. For `WorkerLife` three steps count, one lemma
each (`PublishLives`, `DestroyLives`, `ReapLives`); that they are `Create`,
`Destroy` and `Free` is `LockInv` and `ListInv`: only what has an ID below
`widx` is in the list, and the writer frees what it found in the list.

### The radio

`RadioProofs` proves, for any set of clients, typed values and number of
changes, `Spec => []` of `RadioInv` (`RadioInvariance`), `RadioTypeOK`
(`RadioTypeSafe`), `FftwUnset`, `DeviceInStep` and `DeviceFollows` (`...Safe`).
`RadioInv` adds to the types, which include those of every message on its way,
two facts about the FIFO. `Framed`: what is left of it is the rest of the
command whose type byte the device process has read, and then whole commands;
without it nothing says that a read of `Reads[ptype]` words ends at a type
byte. `Follows`: for each kind, the last command or else the device has the
announced value; it is stated with a greatest position, which `OrderFacts`
provides, instead of the CHOOSE of `LastSent`.

### The clients

`ClientsProofs` proves, for any finite sets of GUIs, scripts and workers, any
number of operations and any bound on the messages on their way:

| theorem | statement |
|---|---|
| `ClientsInvariance` | `ClientsSpec => []ClientsIInv` |
| `TypesKept` | `ClientsSpec => []ClientsTypeOK` |
| `NoRequestForgotten` | `ClientsSpec => []PendingIsUnderway` |
| `NoChannelMissed` | `ClientsSpec => []KnowsAllChannels` |
| `NoGhostChannel` | `ClientsSpec => []DestroyedDisappear` |
| `SamplesAreTaken` | `ClientsSpec => []EnabledHasFeeder` |
| `ScriptKeepsToItsOwn` | `ClientsSpec => ScriptTakesItsOwn` |
| `RowsAreChannels` | `ClientsSpec => []RowsMatch` |
| `ScriptLives` | `ClientsSpec => []ScriptNotStuck` |
| `SessionsKeepWorkerLife` | `ClientsSpec => SessionsLive` |

The assumptions are that the sets are finite, that no client is GUI and script
at once, and that `Stray` is no worker's ID. The argument. What a
client shows is what it makes of the messages it has had, so none of the
properties is inductive: `ClientInv` says of each client what is on its way.

* `IdsMade`: whatever anybody says of a channel, in a request, a message, a
  row or a variable of the script, is said after it was created. Without it a new
  channel could meet messages of its own ID, and every other part would break.
* `SessionInv`: only a listed, connected client has messages on their way,
  known channels and references to be answered.
* `ChannelRefs` and `RequestRefs`: a reference belongs to one request or to
  one channel, so that there are never more channels than references and
  `CREATE_XLATER` finds a free worker. With it `SessionsLive` is proved: the
  ID that is given out is the lowest free one.
* `QueueInv`: each pending reference has its request, or the first message on
  that channel, on the way (`Answers`). It gives `PendingIsUnderway`; that it must
  be the *first* message is what a list of rows in between would spoil.
* `ScriptRefs`, `OwnRefs`: a reference that another client chose can reach the
  script only in the reply to its own MODIFY_XLATER of a channel it has taken
  by mistake, and then behind the answer to the request it waits for, so that
  libclient does not match it. Hence an entry of its dictionary that has a
  reference is of a channel the script created. They give `ScriptTakesItsOwn`:
  the callback finds what has the script's reference (`ScriptFinds`).
* `DeadInv`, `VanishInv`: DESTROYED_XLATER is sent only of channels that are
  destroyed, and behind every message that announces them, but for those that
  revive them. They give `DestroyedDisappear`.
* `KnowsInv`, `RowsInv`, `FeedInv`, `SamplesInv`, `ScriptInv`: the other
  properties, each with what is on its way.

There is one lemma for each group of actions, and below it one per part. The
lemmas at the start say what sending to all, taking the first message and
putting a request at the end do to "something is on its way before something else".

### The scanner

`ScannerProofs` proves, for all frames, gain ranges and values of `messgain`, spectra,
blacklists, intervals, and buffers with `PipeBlocks <= BufBlocks`:

| theorem | statement |
|---|---|
| `ScannerInvariance` | `ScannerSpec => []ScannerIInv` |
| `ScannerTyped` | `ScannerSpec => []ScannerTypeOK` |
| `SpectrumSafe` | `ScannerSpec => []SpectrumIsOfItsFrame` |
| `GainSafe` | `ScannerSpec => []GainFollowsSamples` |
| `BlacklistIsSound` | `ScannerSpec => []BlacklistSound` |
| `LastIntervalIgnored` | `ScannerSpec => []LastIsIgnored` |
| `PeaksFound` | `ScannerSpec => []PeaksAreRuns` |
| `RangesCovered` | `ScannerSpec => []RangesAreCovered` |

`ScannerIInv` is `FlushInv` -- while flushing, the stale blocks at the front
of the pipe are not more than what is still to be read and dropped; while
measuring and recording there are none, but for those with the gain before the
last correction -- and with it `Sizes` (what is read and what is still to be
read are `bufsize`, or up to the interval while a scan measures), `Files` (what the sorter can append to
`blacklist.conf` is a line that the next start can read) and, of the interval
list, `ByStart`: without it nothing says what `bisect` finds. The assumption on
`PipeBlocks` is what `sdrflush` states ("to flush buffers in osmosdr") and no
code enforces; of a frame it is assumed that its numbers are whole.

What the functions compute is proved in `ScanFunctionProofs`:

* `FindsOnlyLast`: in every list sorted by its starts, `find_in_interval_list`
  says whether the key is inside the *last* interval.
* `ReadSound`: `read_sorted_list` returns intervals of lines with the tag, by
  their starts and without touching, whatever the lines.
* `NoGaps`: the frames planned for a range reach each of its frequencies, for
  every start, every width of at least a step, every rate and overlap, when the
  rounding of their distance fits into the overlap (`RoundingFits`, which is the
  code's arithmetic and not always so). `RangesAreCovered` is a part of it.
* `SpansAreRuns`: in a spectrum without a bin on the floor and with bin 0 below
  it, `find_peaks` makes exactly the runs of bins above the floor that are wide
  enough, not too wide, and end before the last bin.
* `PeaksTyped`, `RateOfFile`, `RecordedAs`: what a peak, the name of a file and
  a peak taken for a channel are.

**Recursion.** The provers cannot do induction with a predicate as a
parameter. Where a function is defined by recursion (`ReadSortedList`,
`AsChannel`) or a walk has to be followed (`Runs`), `OrderFacts` replaces it: a
set of numbers has a least element (`NatHasLeast`, from the library's
well-foundedness of the naturals), so a set with 0 and with the successor of
each of its members below n contains 0..n (`InductionTo`), and so a function
that repeats a step up to n exists (`RecursionExists`) and is what CHOOSE gives.
`Sorting` defines a list in order by the position of each element, and not step
by step, for the same reason: `InOrderLists` then proves it by counting.

### Only model-checked

* Liveness: `StreamDrains`, `ChannelDelivers`, `DestroyedReaped`, `Settles`,
  `RecordingEnds`. Fairness and ENABLED are out of the prover's reach.
* The six violated claims, each by a counterexample.

Every invariant and every action property that a run checks is also proved. No
module uses a RECURSIVE operator.

## 5. What is not modelled

* The hand-over of taps and rotation to a running worker (MODIFY_XLATER writes
  them under `llmutex`, the worker reads them under `datamutex`): the models
  have no taps for a mixture to be seen by.
* The parts of a message on the socket, which are written by several calls and
  after MODIFY_XLATER without the lock; a client that does not read; the
  moment in which a new client's fields are not set yet.
* Squelch, the spectrum and histogram callbacks, enabling them: they touch no
  state the properties are about.
* Spectrum, histogram and filter arithmetic (floating point without shared
  state), drawing, ini files and number formats, packaging, demodulator
  flowgraphs: `components` in `PROJECT.json` has the reason for each.
* The `int32_t` wrap of the frame counters, and short reads and writes, which
  end the process.

## 6. What is left

1. A model of the bytes on one socket: who writes them, with and without
   `llmutex`, and a client that stops reading.
2. The taps of a channel: their hand-over to a running worker by MODIFY_XLATER.
