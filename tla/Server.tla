------------------------------- MODULE Server -------------------------------
(***************************************************************************)
(* kukuruku-server's streaming core: the SDR reader, the xlater threads,   *)
(* the socket writer and the clients' requests, interleaved.               *)
(***************************************************************************)
EXTENDS SdrReader, XlateWorker, SocketWriter

Init == StateInit

Next ==
    \/ ReaderNext
    \/ RecordNext
    \/ ClientNext
    \/ \E w \in Workers : WorkerNext(w)
    \/ WriterNext
    \/ \E t \in Threads : SpuriousWake(t)

Spec == Init /\ [][Next]_vars

(* Every thread of the server keeps being scheduled; the SDR delivers its  *)
(* MaxFrame + 1 packets, the disk accepts writes and the clients read from *)
(* their sockets.  A client need never send a request, but the handler of  *)
(* one that holds llmutex runs on.                                         *)
Fairness ==
    /\ WF_vars(ReaderNext)
    /\ WF_vars(WriterNext)
    /\ WF_vars(PublishXlater)
    /\ \A w \in Workers : WF_vars(WorkerNext(w))

FairSpec == Spec /\ Fairness

-----------------------------------------------------------------------------
(* Every variable has its type. *)
TypeOK ==
    /\ sdr_inbuf \in [Slots -> Packet]
    /\ sdr_cptr \in Cursor /\ send_cptr \in Cursor
    /\ rec_cptr \in Cursor /\ rec_stop \in Cursor
    /\ waiting \subseteq Threads /\ wakeups \in 0..MaxWakeups
    /\ rpc \in {"top", "after", "fread"} /\ r_rec \in Cursor
    /\ disk \in Seq(OutPacket) /\ requests \in Nat
    /\ llmutex \in {"free", "client", "writer"}
    /\ widx \in (IF llmutex = "client" THEN Workers ELSE 0..MaxWorkers)
    /\ worker_head \subseteq Workers
    /\ enabled \in [Workers -> BOOLEAN]
    /\ last_written \in [Workers -> Cursor]
    /\ w_send_cptr \in [Workers -> Cursor]
    /\ outbuf \in [Workers -> [Slots -> OutPacket]]
    /\ wpc \in [Workers -> {"none", "check", "copy", "commit", "exited"}]
    /\ mypos \in [Workers -> Cursor]
    /\ asked \in [Workers -> Cursor]
    /\ spc \in {"idle", "visit", "send", "meta"}
    /\ s_w \in (IF spc = "send" THEN Workers ELSE Workers \cup {None})
    /\ s_last \in Cursor /\ s_send \in Cursor
    /\ meta \in OutPacket
    /\ sent \in [Workers -> OutPacket]
    /\ first \in [Workers -> Cursor]

(* A packet whose metadata the writer still has to send is in its slot,    *)
(* whole, with the number of the frame before it: the overflow check of    *)
(* sdr_read_thr never lets the reader's fread reach such a slot.           *)
Genuine(f) == [data |-> f, frameno |-> f - 1]
MetadataIntact ==
    \A f \in (send_cptr + 1)..sdr_cptr : sdr_inbuf[Slot(f)] = Genuine(f)

(* Every ready packet of a channel ("between send_cptr+1 and last_written",*)
(* worker.h) is in its slot of outbuf: the worker waits for free space     *)
(* before it filters over a packet the writer has not sent yet.            *)
OutbufIntact ==
    \A w \in Workers :
        Created(w) => \A f \in (w_send_cptr[w] + 1)..last_written[w] :
                          outbuf[w][Slot(f)].pos = f

(* The writer never reads the outbuf of a worker that has freed it: an     *)
(* exit needs enabled = false, which only a holder of llmutex sets, or a   *)
(* thread that ran before it was set to true and has nothing ready.        *)
NoReadAfterFree ==
    spc = "send" /\ s_last > s_send => Running(s_w)

(* A channel started at a line of the waterfall plays from that line: the  *)
(* first packet a client gets is the packet whose metadata carried that    *)
(* frameno, or one a multiple of BUFSIZE later or torn when the reader has *)
(* lapped the worker; never an earlier or a neighbouring one.              *)
PlaysFromAskedLine ==
    \A w \in Workers :
        \/ first[w] \in {None, Torn}
        \/ first[w] >= asked[w] /\ (first[w] - asked[w]) % BUFSIZE = 0

-----------------------------------------------------------------------------
(* The ring of SDR packets, seen through the metadata, is a FIFO of at     *)
(* most BUFSIZE frames: every frame's metadata is sent once, in order.     *)
MetaTaken == IF spc = "meta" THEN s_send ELSE send_cptr
MetaRing ==
    INSTANCE FrameStream WITH
        Cap <- BUFSIZE, Closed <- None,
        queue <- [i \in 1..(sdr_cptr - MetaTaken) |->
                    sdr_inbuf[Slot(MetaTaken + i)].data],
        next <- sdr_cptr + 1,
        out <- meta.data
MetaStream == MetaRing!Spec

(* Each channel's outbuf is a FIFO of at most BUFSIZE - 1 packets: every   *)
(* packet the worker commits reaches the sockets once, in order.           *)
OutTaken(w) == IF spc = "send" /\ s_w = w THEN s_send ELSE w_send_cptr[w]
OutRing(w) ==
    INSTANCE FrameStream WITH
        Cap <- BUFSIZE - 1, Closed <- None,
        queue <- [i \in 1..(last_written[w] - OutTaken(w)) |->
                    outbuf[w][Slot(OutTaken(w) + i)].pos],
        next <- IF Created(w) THEN last_written[w] + 1 ELSE None,
        out <- sent[w].pos
ChannelStreams ==
    /\ \A w \in Workers : OutRing(w)!Init
    /\ [][\A w \in Workers : [OutRing(w)!Next]_(OutRing(w)!streamVars)]_vars

-----------------------------------------------------------------------------
(* The list of workers implements WorkerLife, which is all that the model  *)
(* of the sessions (Sessions) keeps of it: whatever create_xlate_worker,   *)
(* the requests and the writer's walk do in between, a worker is freed     *)
(* only after it was destroyed, and never comes back.                      *)
Life(w) ==
    IF w >= widx THEN "none"
    ELSE IF w \notin worker_head THEN "freed"
    ELSE IF enabled[w] THEN "running" ELSE "dying"
ListedWorkers == INSTANCE WorkerLife WITH
    Ids <- Workers, life <- [w \in Workers |-> Life(w)]
WorkersLive == ListedWorkers!Spec

-----------------------------------------------------------------------------
(* The position the recorder goes on from, and the oldest frame that will  *)
(* still be in the ring at its next turn.                                  *)
RecorderPosition == IF rpc = "after" THEN r_rec ELSE rec_cptr
OldestAtNextTurn ==
    IF rpc = "top" THEN sdr_cptr - BUFSIZE + 1 ELSE sdr_cptr - BUFSIZE + 2
RecorderInRing ==
    /\ rec_cptr # INT32_MIN /\ RecorderPosition <= rec_stop
    /\ RecorderPosition >= OldestAtNextTurn

(* A recording that is within the ring stays within it: as long as no      *)
(* request moves it, the reader never overwrites a frame it has yet to     *)
(* write to disk.                                                          *)
RecorderNotLapped ==
    [][RecorderInRing /\ requests' = requests
        => RecorderInRing' \/ (RecorderPosition > rec_stop)']_vars

(* What a recording within the ring writes is what it was asked for: every *)
(* frame up to the current one under its own ID and with the number its    *)
(* metadata announced.  What it writes besides is bounded: less than a     *)
(* batch past rec_stop; and past sdr_cptr, which the loop compares only    *)
(* when it has written, one packet a turn, the newest one of its slot.     *)
Written(p, d) == [pos |-> p, data |-> d, frameno |-> d - 1]
LastOfSlot(p) ==
    {f \in (sdr_cptr - BUFSIZE + 1)..sdr_cptr : Slot(f) = Slot(p)}
RecordedAsAsked ==
    [][rpc = "top" /\ rpc' = "after" /\ RecorderInRing =>
        \A i \in DOMAIN disk' :
            LET p == disk'[i].pos
            IN  /\ p - WRITE_FRAMES_SYNC < rec_stop
                /\ p <= sdr_cptr => disk'[i] = Written(p, p)
                /\ p > sdr_cptr => i = 1
                /\ p > sdr_cptr /\ sdr_cptr + 1 >= BUFSIZE =>
                        \E f \in LastOfSlot(p) : disk'[i] = Written(p, f)]_vars

(* The GUI's stop (both fields negative: "to stop recording just set both  *)
(* to negative values", c2s.proto) stops for good, even when it arrives    *)
(* while a batch is being written and loses its rec_cptr to AfterDisk.     *)
GuiStopHolds ==
    [][rec_stop = GuiStop /\ requests' = requests => disk' = disk]_vars

-----------------------------------------------------------------------------
(* No wakeup is lost around a full ring: the SDR is read to the end and    *)
(* the metadata of every frame is sent.                                    *)
StreamDrains == <>(send_cptr = MaxFrame)

(* A live channel delivers: while it is enabled, every frame below the     *)
(* current one from its position on is sent to the clients.                *)
ChannelDelivers ==
    \A w \in Workers, f \in Frames :
        (enabled[w] /\ Running(w) /\ mypos[w] <= f /\ f < sdr_cptr)
            ~> (w_send_cptr[w] >= f \/ ~enabled[w])

(* A destroyed channel that has data and space is unlinked and freed. *)
DestroyedReaped ==
    \A w \in Workers :
        (w \in worker_head /\ ~enabled[w] /\ ~NoData(w) /\ ~NoSpace(w))
            ~> (w \notin worker_head)
=============================================================================
