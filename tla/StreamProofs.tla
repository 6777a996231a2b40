---------------------------- MODULE StreamProofs ----------------------------
(***************************************************************************)
(* The rings implement FrameStream: the one of SDR packets, seen through   *)
(* the metadata, and the outbuf of every channel, for every BUFSIZE.       *)
(***************************************************************************)
EXTENDS LineProofs

USE BufsizeAssumption

-----------------------------------------------------------------------------
(* What both rings hold is an interval of consecutive numbers, a+1 .. b.   *)
Run(a, b) == [i \in 1..(b - a) |-> a + i]

LEMMA RunLength ==
    ASSUME NEW a \in Int, NEW b \in Int, a <= b
    PROVE  Run(a, b) \in Seq(Int) /\ Len(Run(a, b)) = b - a
BY DEF Run

LEMMA RunGrows ==
    ASSUME NEW a \in Int, NEW b \in Int, a <= b
    PROVE  Run(a, b + 1) = Append(Run(a, b), b + 1)
<1> DEFINE r == Run(a, b)
           s == Run(a, b + 1)
           t == Append(r, b + 1)
<1>1. r \in Seq(Int) /\ Len(r) = b - a /\ s \in Seq(Int) /\ Len(s) = b - a + 1
    <2>1. r \in Seq(Int) /\ Len(r) = b - a
        BY RunLength
    <2>2. b + 1 \in Int /\ a <= b + 1
        OBVIOUS
    <2>3. s \in Seq(Int) /\ Len(s) = (b + 1) - a
        BY <2>2, RunLength
    <2> HIDE DEF r, s
    <2> QED
        BY <2>1, <2>3
<1>2. t \in Seq(Int) /\ Len(t) = b - a + 1
    BY <1>1
<1>3. ASSUME NEW i \in 1..(b - a + 1) PROVE s[i] = t[i]
    <2>1. s[i] = a + i
        BY DEF Run
    <2>2. i # b - a + 1 => r[i] = a + i
        BY DEF Run
    <2> HIDE DEF r, s
    <2> QED
        BY <1>1, <2>1, <2>2
<1> HIDE DEF r, s, t
<1> QED
    BY <1>1, <1>2, <1>3 DEF r, s, t

LEMMA RunShrinks ==
    ASSUME NEW a \in Int, NEW b \in Int, a < b
    PROVE  /\ Run(a, b) # <<>> /\ Head(Run(a, b)) = a + 1
           /\ Tail(Run(a, b)) = Run(a + 1, b)
<1> DEFINE r == Run(a, b)
           s == Run(a + 1, b)
           t == Tail(r)
<1>1. /\ r \in Seq(Int) /\ Len(r) = b - a
      /\ s \in Seq(Int) /\ Len(s) = b - a - 1
    <2>1. r \in Seq(Int) /\ Len(r) = b - a
        BY RunLength
    <2>2. a + 1 \in Int /\ a + 1 <= b
        OBVIOUS
    <2>3. s \in Seq(Int) /\ Len(s) = b - (a + 1)
        BY <2>2, RunLength
    <2> HIDE DEF r, s
    <2> QED
        BY <2>1, <2>3
<1>2. r # <<>> /\ Head(r) = r[1] /\ r[1] = a + 1
    <2>1. r[1] = a + 1
        BY DEF Run
    <2> HIDE DEF r
    <2> QED
        BY <1>1, <2>1
<1>3. t \in Seq(Int) /\ Len(t) = b - a - 1
    <2> HIDE DEF r
    <2> QED
        BY <1>1, <1>2
<1>4. ASSUME NEW i \in 1..(b - a - 1) PROVE s[i] = t[i]
    <2>1. s[i] = a + i + 1 /\ r[i + 1] = a + i + 1
        BY DEF Run
    <2> HIDE DEF r, s
    <2> QED
        BY <1>1, <1>2, <2>1
<1>5. s = t
    <2> HIDE DEF r, s, t
    <2> QED
        BY <1>1, <1>3, <1>4
<1> QED
    BY <1>2, <1>5

-----------------------------------------------------------------------------
MetaQueue ==
    [i \in 1..(sdr_cptr - MetaTaken) |-> sdr_inbuf[Slot(MetaTaken + i)].data]

(* What waits in the ring of SDR packets are the frames up to sdr_cptr.    *)
MetaInRing ==
    /\ MetaTaken \in Int /\ sdr_cptr \in Int
    /\ -1 <= MetaTaken /\ MetaTaken <= sdr_cptr
    /\ MetaQueue = Run(MetaTaken, sdr_cptr)

LEMMA MetaHolds == IInv => MetaInRing
<1> SUFFICES ASSUME IInv PROVE MetaInRing
    OBVIOUS
<1>1. /\ MetaTaken \in Int /\ sdr_cptr \in Int /\ send_cptr \in Int
      /\ -1 <= send_cptr /\ send_cptr <= MetaTaken /\ MetaTaken <= sdr_cptr
    BY DEF IInv, TypeOK, Cursor, RingCursors, MetaTaken
<1>2. ASSUME NEW i \in 1..(sdr_cptr - MetaTaken)
      PROVE  sdr_inbuf[Slot(MetaTaken + i)].data = MetaTaken + i
    <2> DEFINE f == MetaTaken + i
    <2>1. f \in 0..sdr_cptr /\ f >= send_cptr + 1
        BY <1>1
    <2>2. f >= OldestFrame
        BY <1>1, <2>1 DEF IInv, RingCursors, OldestFrame
    <2>3. sdr_inbuf[Slot(f)] = Genuine(f)
        BY <2>1, <2>2 DEF IInv, RingContent
    <2> QED
        BY <2>3 DEF Genuine
<1> QED
    BY <1>1, <1>2 DEF MetaInRing, MetaQueue, Run

LEMMA MetaInit == Init => MetaRing!Init
BY DEF Init, StateInit, MetaRing!Init, MetaTaken, NoPacket

LEMMA MetaHoldsNext == IInv' => MetaInRing'
BY MetaHolds, PTL

LEMMA MetaUnchanged ==
    ASSUME MetaInRing, MetaInRing', UNCHANGED <<sdr_cptr, meta, MetaTaken>>
    PROVE  UNCHANGED MetaRing!streamVars
<1>1. MetaQueue' = MetaQueue
    BY DEF MetaInRing, Run
<1> QED
    BY <1>1 DEF MetaRing!streamVars, MetaQueue

LEMMA MetaNext == IInv /\ IInv' /\ [Next]_vars => [MetaRing!Next]_(MetaRing!streamVars)
<1> SUFFICES ASSUME IInv, IInv', [Next]_vars
             PROVE  [MetaRing!Next]_(MetaRing!streamVars)
    OBVIOUS
<1> USE DEF ringVars, Asleep, recordVars, readerVars, listVars, workerVars,
            writerVars, sentVars
<1>p. MetaInRing /\ MetaInRing'
    BY MetaHolds, MetaHoldsNext
<1>q. /\ MetaQueue = Run(MetaTaken, sdr_cptr)
      /\ MetaQueue' = Run(MetaTaken', sdr_cptr')
      /\ MetaTaken \in Int /\ sdr_cptr \in Int
      /\ -1 <= MetaTaken /\ MetaTaken <= sdr_cptr
    BY <1>p DEF MetaInRing
<1>1. CASE UNCHANGED <<sdr_cptr, meta, MetaTaken>>
    BY <1>1, <1>p, MetaUnchanged
<1>2. CASE PublishFrame
    <2>1. /\ sdr_cptr' = sdr_cptr + 1
          /\ UNCHANGED <<meta, MetaTaken>>
        BY <1>2 DEF PublishFrame, MetaTaken
    <2>2. MetaQueue' = Append(MetaQueue, sdr_cptr + 1)
        BY <1>q, <2>1, RunGrows
    <2>3. sdr_cptr < MetaTaken + BUFSIZE
        BY <1>2, <1>q DEF PublishFrame, IInv, RingCursors, TypeOK, Cursor, MetaTaken
    <2>4. Len(MetaQueue) < BUFSIZE /\ sdr_cptr + 1 # None
        <3>1. Len(MetaQueue) = sdr_cptr - MetaTaken
            BY <1>q, RunLength
        <3> QED
            BY <1>q, <2>3, <3>1 DEF None
    <2>5. MetaRing!Put
        BY <1>q, <2>1, <2>2, <2>4 DEF MetaRing!Put, MetaQueue
    <2> QED
        BY <2>5 DEF MetaRing!Next
<1>3. CASE SendMeta
    <2>1. /\ MetaTaken = s_send /\ MetaTaken' = s_send + 1
          /\ sdr_cptr' = sdr_cptr /\ s_send < sdr_cptr
          /\ meta'.data = sdr_inbuf[Slot(s_send + 1)].data
        BY <1>3 DEF SendMeta, IInv, RingCursors, TypeOK, Cursor, MetaTaken
    <2>2. /\ MetaQueue # <<>> /\ Head(MetaQueue) = s_send + 1
          /\ MetaQueue' = Tail(MetaQueue)
        BY <1>q, <2>1, RunShrinks
    <2>3. MetaQueue[1] = meta'.data
        BY <1>q, <2>1 DEF MetaQueue
    <2>4. MetaQueue[1] = s_send + 1
        BY <1>q, <2>1 DEF Run
    <2>5. MetaRing!Deliver
        BY <2>1, <2>2, <2>3, <2>4 DEF MetaRing!Deliver, MetaQueue
    <2> QED
        BY <2>5 DEF MetaRing!Next
<1>4. CASE ReaderNext /\ ~PublishFrame
    BY <1>1, <1>4 DEF ReaderNext, WriteBatch, AfterDisk, TurnIdle, Admit, MetaTaken
<1>5. CASE RecordNext \/ ClientNext
    BY <1>1, <1>5
    DEF RecordNext, RecordStart, RecordStop, ClientNext, SpawnXlater,
        PublishXlater, DestroyXlater, MetaTaken
<1>6. ASSUME NEW w \in Workers, WorkerNext(w)
      PROVE  UNCHANGED MetaRing!streamVars
    <2>1. UNCHANGED <<sdr_cptr, meta, MetaTaken>>
        BY <1>6
        DEF WorkerNext, WorkerSleeps, WorkerProceeds, WorkerFilters,
            WorkerCommits, WorkerExits, MetaTaken
    <2> QED
        BY <1>p, <2>1, MetaUnchanged
<1>7. CASE WriterNext /\ ~SendMeta
    BY <1>1, <1>7
    DEF WriterNext, WriterLocks, SnapshotWorker, SendFrame, CommitWorker,
        SkipDying, Reap, SnapshotRing, CommitRing, MetaTaken
<1>8. ASSUME NEW t \in Threads, SpuriousWake(t)
      PROVE  UNCHANGED MetaRing!streamVars
    <2>1. UNCHANGED <<sdr_cptr, meta, MetaTaken>>
        BY <1>8 DEF SpuriousWake, MetaTaken
    <2> QED
        BY <1>p, <2>1, MetaUnchanged
<1>9. CASE UNCHANGED vars
    BY <1>1, <1>9 DEF vars, MetaTaken
<1> QED
    BY <1>2, <1>3, <1>4, <1>5, <1>6, <1>7, <1>8, <1>9 DEF Next

(* The ring of SDR packets implements a FIFO of at most BUFSIZE frames:    *)
(* every frame's metadata is sent once, in order, for every ring size.     *)
THEOREM MetaStreamImplemented == Spec => MetaStream
<1> QED
    BY MetaInit, MetaNext, Invariance, PTL DEF Spec, MetaStream, MetaRing!Spec

-----------------------------------------------------------------------------
(* A channel's positions start at a frame, and it has none before it is    *)
(* created.  Inductive together with IInv and LineInv.                     *)
Positions(w) ==
    /\ Created(w) => w_send_cptr[w] >= -1
    /\ ~Created(w) => last_written[w] = w_send_cptr[w]
PositionInv == \A w \in Workers : Positions(w)

LEMMA PositionInit == Init => PositionInv
BY DEF Init, StateInit, PositionInv, Positions, Created

LEMMA PositionNext ==
    IInv /\ LineInv /\ PositionInv /\ [Next]_vars => PositionInv'
<1> SUFFICES ASSUME IInv, LineInv, PositionInv, [Next]_vars, NEW v \in Workers
             PROVE  Positions(v)'
    BY DEF PositionInv
<1> USE DEF ringVars, Asleep, recordVars, readerVars, listVars, workerVars,
            writerVars, sentVars
<1>0. /\ last_written \in [Workers -> Int] /\ w_send_cptr \in [Workers -> Int]
      /\ wpc \in [Workers -> {"none", "check", "copy", "commit", "exited"}]
      /\ sdr_cptr \in Int /\ s_send \in Int /\ Positions(v)
    BY DEF IInv, TypeOK, Cursor, PositionInv
<1>1. CASE UNCHANGED <<wpc, last_written, w_send_cptr>>
    BY <1>0, <1>1 DEF Positions, Created
<1>2. CASE ReaderNext \/ RecordNext \/ PublishXlater
    BY <1>1, <1>2
    DEF ReaderNext, WriteBatch, AfterDisk, TurnIdle, PublishFrame, RecordNext,
        RecordStart, RecordStop, PublishXlater
<1>3. ASSUME NEW history \in Histories, SpawnXlater(history)
      PROVE  Positions(v)'
    <2>1. StartPosition(history) >= -1
        BY BufsizeAssumption
        DEF IInv, RingCursors, Histories, StartPosition, TypeOK, OutPacket, Cursor
    <2>2. CASE v = widx
        BY <1>0, <1>3, <2>1, <2>2 DEF SpawnXlater, Positions, Created
    <2>3. CASE v # widx
        BY <1>0, <1>3, <2>3 DEF SpawnXlater, Positions, Created
    <2> QED
        BY <2>2, <2>3
<1>4. ASSUME NEW w \in Workers, DestroyXlater(w) PROVE Positions(v)'
    BY <1>1, <1>4 DEF DestroyXlater
<1>5. ASSUME NEW w \in Workers, WorkerNext(w) PROVE Positions(v)'
    BY <1>0, <1>5
    DEF WorkerNext, WorkerSleeps, WorkerProceeds, WorkerFilters,
        WorkerCommits, WorkerExits, Positions, Created
<1>6. CASE WriterNext
    <2>1. CASE CommitWorker
        <3>1. /\ w_send_cptr' = [w_send_cptr EXCEPT ![s_w] = s_send]
              /\ UNCHANGED <<wpc, last_written>> /\ spc = "send"
            BY <2>1 DEF CommitWorker
        <3>2. s_w = v => Created(v) /\ w_send_cptr[v] <= s_send
            BY <3>1 DEF IInv, LockInv, ListInv, ChannelInv, ChannelCursors
        <3> QED
            BY <1>0, <3>1, <3>2 DEF Positions, Created
    <2>2. CASE ~CommitWorker
        BY <1>1, <1>6, <2>2
        DEF WriterNext, WriterLocks, SnapshotWorker, SendFrame, SkipDying,
            Reap, SnapshotRing, SendMeta, CommitRing
    <2> QED
        BY <2>1, <2>2
<1>7. ASSUME NEW t \in Threads, SpuriousWake(t) PROVE Positions(v)'
    BY <1>1, <1>7 DEF SpuriousWake
<1> QED
    BY <1>1, <1>2, <1>3, <1>4, <1>5, <1>6, <1>7 DEF Next, ClientNext, vars

-----------------------------------------------------------------------------
OutQueue(w) ==
    [i \in 1..(last_written[w] - OutTaken(w)) |-> outbuf[w][Slot(OutTaken(w) + i)].pos]

(* What waits in an outbuf are the positions up to last_written. *)
OutInRing ==
    \A w \in Workers :
        /\ OutTaken(w) \in Int /\ last_written[w] \in Int
        /\ OutTaken(w) <= last_written[w]
        /\ Created(w) => w_send_cptr[w] <= OutTaken(w) /\ last_written[w] >= -1
        /\ ~Created(w) => OutTaken(w) = last_written[w]
        /\ OutQueue(w) = Run(OutTaken(w), last_written[w])

LEMMA OutHolds == IInv /\ PositionInv => OutInRing
<1> SUFFICES ASSUME IInv, PositionInv, NEW w \in Workers
             PROVE  /\ OutTaken(w) \in Int /\ last_written[w] \in Int
                    /\ OutTaken(w) <= last_written[w]
                    /\ Created(w) => w_send_cptr[w] <= OutTaken(w) /\ last_written[w] >= -1
                    /\ ~Created(w) => OutTaken(w) = last_written[w]
                    /\ OutQueue(w) = Run(OutTaken(w), last_written[w])
    BY DEF OutInRing
<1>1. /\ OutTaken(w) \in Int /\ last_written[w] \in Int
      /\ w_send_cptr[w] \in Int /\ s_send \in Int /\ s_last \in Int
    BY DEF IInv, TypeOK, Cursor, OutTaken
<1>2. CASE Created(w)
    <2>1. /\ w_send_cptr[w] <= OutTaken(w) /\ OutTaken(w) <= last_written[w]
          /\ w_send_cptr[w] >= -1
        BY <1>1, <1>2
        DEF IInv, ChannelInv, ChannelCursors, OutTaken, PositionInv, Positions
    <2>2. ASSUME NEW i \in 1..(last_written[w] - OutTaken(w))
          PROVE  outbuf[w][Slot(OutTaken(w) + i)].pos = OutTaken(w) + i
        <3>1. OutTaken(w) + i \in (w_send_cptr[w] + 1)..last_written[w]
            BY <1>1, <2>1
        <3> QED
            BY <1>2, <3>1 DEF IInv, ChannelInv, ChannelContent
    <2> QED
        BY <1>1, <1>2, <2>1, <2>2 DEF OutQueue, Run
<1>3. CASE ~Created(w)
    <2>1. OutTaken(w) = last_written[w]
        BY <1>3 DEF IInv, LockInv, ListInv, OutTaken, PositionInv, Positions
    <2> QED
        BY <1>1, <1>3, <2>1 DEF OutQueue, Run
<1> QED
    BY <1>2, <1>3

LEMMA OutHoldsNext == IInv' /\ PositionInv' => OutInRing'
BY OutHolds, PTL

LEMMA OutInit == Init => \A w \in Workers : OutRing(w)!Init
BY DEF Init, StateInit, OutRing!Init, OutTaken, NoPacket, Created, None

LEMMA OutUnchanged ==
    ASSUME OutInRing, OutInRing', NEW w \in Workers,
           last_written'[w] = last_written[w], OutTaken(w)' = OutTaken(w),
           Created(w)' <=> Created(w), sent'[w] = sent[w]
    PROVE  UNCHANGED OutRing(w)!streamVars
<1>1. OutQueue(w)' = OutQueue(w)
    BY DEF OutInRing, Run
<1> QED
    BY <1>1 DEF OutRing!streamVars, OutQueue

LEMMA OutNext ==
    ASSUME IInv, LineInv, PositionInv, IInv', PositionInv', [Next]_vars,
           NEW v \in Workers
    PROVE  [OutRing(v)!Next]_(OutRing(v)!streamVars)
<1> USE DEF ringVars, Asleep, recordVars, readerVars, listVars, workerVars,
            writerVars, sentVars
<1>p. OutInRing /\ OutInRing'
    BY OutHolds, OutHoldsNext
<1>q. /\ OutQueue(v) = Run(OutTaken(v), last_written[v])
      /\ OutQueue(v)' = Run(OutTaken(v)', last_written'[v])
      /\ OutTaken(v) \in Int /\ last_written[v] \in Int
      /\ OutTaken(v) <= last_written[v]
      /\ Created(v) => w_send_cptr[v] <= OutTaken(v) /\ last_written[v] >= -1
      /\ ~Created(v) => OutTaken(v) = last_written[v]
    BY <1>p DEF OutInRing
<1>0. /\ last_written \in [Workers -> Int] /\ w_send_cptr \in [Workers -> Int]
      /\ wpc \in [Workers -> {"none", "check", "copy", "commit", "exited"}]
      /\ s_send \in Int /\ sent \in [Workers -> OutPacket]
      /\ mypos \in [Workers -> Int]
    BY DEF IInv, TypeOK, Cursor
<1>1. ASSUME last_written'[v] = last_written[v], OutTaken(v)' = OutTaken(v),
             Created(v)' <=> Created(v), sent'[v] = sent[v]
      PROVE  UNCHANGED OutRing(v)!streamVars
    BY <1>1, <1>p, OutUnchanged
<1>2. CASE UNCHANGED <<wpc, last_written, w_send_cptr, sent, spc, s_w, s_send>>
    BY <1>1, <1>2 DEF OutTaken, Created
<1>3. CASE ReaderNext \/ RecordNext \/ PublishXlater
    BY <1>2, <1>3
    DEF ReaderNext, WriteBatch, AfterDisk, TurnIdle, PublishFrame, RecordNext,
        RecordStart, RecordStop, PublishXlater
<1>4. ASSUME NEW history \in Histories, SpawnXlater(history)
      PROVE  [OutRing(v)!Next]_(OutRing(v)!streamVars)
    <2>1. llmutex = "free" /\ spc = "idle" /\ UNCHANGED <<spc, s_w, s_send, sent>>
        BY <1>4 DEF SpawnXlater, IInv, LockInv
    <2>2. CASE v = widx
        <3>1. ~Created(v)
            BY <2>1, <2>2 DEF LineInv, ChannelStart, Workers
        <3>2. /\ last_written'[v] = StartPosition(history)
              /\ OutTaken(v)' = StartPosition(history)
              /\ Created(v)'
            BY <1>0, <1>4, <2>1, <2>2 DEF SpawnXlater, OutTaken, Created
        <3>3. last_written'[v] \in Int /\ last_written'[v] >= -1
            BY <1>p, <3>2 DEF OutInRing
        <3>4. OutQueue(v) = <<>> /\ OutQueue(v)' = <<>>
            BY <1>q, <3>1, <3>2, <3>3 DEF Run
        <3>5. last_written'[v] + 1 \in Int /\ last_written'[v] + 1 # None
            BY <3>3 DEF None
        <3>6. OutRing(v)!Open
            BY <2>1, <3>1, <3>2, <3>4, <3>5 DEF OutRing!Open, OutQueue
        <3> QED
            BY <3>6 DEF OutRing!Next
    <2>3. CASE v # widx
        BY <1>0, <1>1, <1>4, <2>1, <2>3 DEF SpawnXlater, OutTaken, Created
    <2> QED
        BY <2>2, <2>3
<1>5. ASSUME NEW w \in Workers, DestroyXlater(w)
      PROVE  UNCHANGED OutRing(v)!streamVars
    <2>1. UNCHANGED <<wpc, last_written, w_send_cptr, sent, spc, s_w, s_send>>
        BY <1>5 DEF DestroyXlater
    <2> QED
        BY <1>1, <2>1 DEF OutTaken, Created
<1>6. ASSUME NEW w \in Workers, WorkerNext(w)
      PROVE  [OutRing(v)!Next]_(OutRing(v)!streamVars)
    <2>1. CASE WorkerCommits(w) /\ v = w
        <3>1. /\ wpc[v] = "commit" /\ wpc'[v] = "check"
              /\ last_written'[v] = mypos[v]
              /\ UNCHANGED <<w_send_cptr, spc, s_w, s_send, sent>>
            BY <1>0, <2>1 DEF WorkerCommits
        <3>2. Created(v) /\ Created(v)' /\ OutTaken(v)' = OutTaken(v)
            BY <3>1 DEF Created, OutTaken
        <3>3. /\ mypos[v] = last_written[v] + 1
              /\ mypos[v] < w_send_cptr[v] + BUFSIZE
            BY <3>1, <3>2 DEF IInv, ChannelInv, ChannelCursors, Running
        <3>4. OutQueue(v)' = Append(OutQueue(v), last_written[v] + 1)
            BY <1>q, <3>1, <3>2, <3>3, RunGrows
        <3>5. Len(OutQueue(v)) < BUFSIZE - 1 /\ last_written[v] + 1 # None
            <4>1. Len(OutQueue(v)) = last_written[v] - OutTaken(v)
                BY <1>q, RunLength
            <4> QED
                BY <1>0, <1>q, <3>2, <3>3, <4>1 DEF None
        <3>6. OutRing(v)!Put
            BY <3>1, <3>2, <3>3, <3>4, <3>5 DEF OutRing!Put, OutQueue
        <3> QED
            BY <3>6 DEF OutRing!Next
    <2>2. CASE ~(WorkerCommits(w) /\ v = w)
        <3>1. /\ last_written'[v] = last_written[v]
              /\ Created(v)' <=> Created(v)
              /\ UNCHANGED <<w_send_cptr, spc, s_w, s_send, sent>>
            BY <1>0, <1>6, <2>2
            DEF WorkerNext, WorkerSleeps, WorkerProceeds, WorkerFilters,
                WorkerCommits, WorkerExits, Created
        <3> QED
            BY <1>1, <3>1 DEF OutTaken
    <2> QED
        BY <2>1, <2>2
<1>7. CASE WriterNext
    <2>1. CASE SendFrame /\ v = s_w
        <3>1. /\ OutTaken(v) = s_send /\ OutTaken(v)' = s_send + 1
              /\ sent'[v] = outbuf[v][Slot(s_send + 1)]
              /\ UNCHANGED <<wpc, last_written>>
              /\ s_last > s_send /\ spc = "send"
            BY <1>0, <2>1 DEF SendFrame, OutTaken
        <3>2. Created(v) /\ s_last <= last_written[v] /\ s_last \in Int
            BY <2>1, <3>1
            DEF IInv, TypeOK, Cursor, LockInv, ListInv, ChannelInv, ChannelCursors
        <3>3. /\ OutQueue(v) # <<>> /\ Head(OutQueue(v)) = s_send + 1
              /\ OutQueue(v)' = Tail(OutQueue(v))
            <4>1. s_send < last_written[v] /\ last_written'[v] = last_written[v]
                BY <1>0, <1>q, <3>1, <3>2
            <4>2. /\ OutQueue(v) = Run(s_send, last_written[v])
                  /\ OutQueue(v)' = Run(s_send + 1, last_written[v])
                BY <1>q, <3>1, <4>1
            <4> QED
                BY <1>0, <1>q, <4>1, <4>2, RunShrinks, ZenonT(40)
        <3>4. sent'[v].pos = s_send + 1
            <4>1. OutQueue(v)[1] = sent'[v].pos
                BY <1>0, <1>q, <3>1, <3>2 DEF OutQueue
            <4>2. OutQueue(v)[1] = s_send + 1
                BY <1>0, <1>q, <3>1, <3>2 DEF Run
            <4> QED
                BY <4>1, <4>2
        <3>5. OutRing(v)!Deliver
            BY <3>1, <3>3, <3>4 DEF OutRing!Deliver, OutQueue, Created
        <3> QED
            BY <3>5 DEF OutRing!Next
    <2>2. CASE ~(SendFrame /\ v = s_w)
        <3>1. /\ UNCHANGED <<wpc, last_written>> /\ sent'[v] = sent[v]
              /\ OutTaken(v)' = OutTaken(v)
            <4>1. CASE SendFrame
                BY <1>0, <2>2, <4>1 DEF SendFrame, OutTaken
            <4>2. CASE SnapshotWorker
                BY <4>2 DEF SnapshotWorker, OutTaken
            <4>3. CASE CommitWorker
                BY <1>0, <4>3 DEF CommitWorker, OutTaken
            <4>4. CASE WriterLocks \/ SkipDying \/ Reap
                BY <4>4 DEF WriterLocks, SkipDying, Reap, OutTaken
            <4>5. CASE SnapshotRing \/ SendMeta \/ CommitRing
                BY <4>5 DEF SnapshotRing, SendMeta, CommitRing, OutTaken
            <4> QED
                BY <1>7, <4>1, <4>2, <4>3, <4>4, <4>5 DEF WriterNext
        <3> QED
            BY <1>1, <3>1 DEF Created
    <2> QED
        BY <2>1, <2>2
<1>8. ASSUME NEW t \in Threads, SpuriousWake(t)
      PROVE  UNCHANGED OutRing(v)!streamVars
    <2>1. UNCHANGED <<wpc, last_written, w_send_cptr, sent, spc, s_w, s_send>>
        BY <1>8 DEF SpuriousWake
    <2> QED
        BY <1>1, <2>1 DEF OutTaken, Created
<1>9. CASE UNCHANGED vars
    BY <1>2, <1>9 DEF vars
<1> QED
    BY <1>3, <1>4, <1>5, <1>6, <1>7, <1>8, <1>9 DEF Next, ClientNext

LEMMA OutNextAll ==
    IInv /\ LineInv /\ PositionInv /\ IInv' /\ PositionInv' /\ [Next]_vars
        => [\A w \in Workers : [OutRing(w)!Next]_(OutRing(w)!streamVars)]_vars
BY OutNext

(* Every outbuf implements a FIFO of at most BUFSIZE - 1 packets: what a   *)
(* worker commits reaches the sockets once, in order, for every ring size  *)
(* and any number of channels.                                             *)
THEOREM ChannelStreamsImplemented == Spec => ChannelStreams
<1> QED
    BY OutInit, OutNextAll, Invariance, LineInit, LineNext, PositionInit,
       PositionNext, PTL
    DEF Spec, ChannelStreams

-----------------------------------------------------------------------------
(* A step that takes one worker from one stage of its life to another.     *)
LifeStep(w, from, to) ==
    /\ Life(w) = from /\ Life(w)' = to
    /\ \A v \in Workers : v # w => Life(v)' = Life(v)

LEMMA LifeInit == Init => ListedWorkers!Init
<1> SUFFICES ASSUME Init PROVE \A w \in Workers : Life(w) = "none"
    BY DEF ListedWorkers!Init
<1> QED
    BY BoundsAssumption DEF Init, StateInit, Life, Workers

(* What a request or the writer does to one worker.                        *)
LEMMA PublishLives ==
    ASSUME IInv, PublishXlater, NEW w \in Workers, w = widx
    PROVE  /\ LifeStep(w, "none", "running")
           /\ \A v \in Workers : v < w => Life(v) # "none"
<1>1. /\ \A v \in worker_head : v < w
      /\ enabled' = [enabled EXCEPT ![w] = TRUE] /\ enabled \in [Workers -> BOOLEAN]
      /\ worker_head' = worker_head \cup {w} /\ widx' = w + 1
    BY DEF PublishXlater, IInv, TypeOK, ListInv
<1>2. \A v \in Workers : v \in Int
    BY BoundsAssumption DEF Workers
<1>3. Life(w) = "none" /\ Life(w)' = "running"
    BY <1>1, <1>2 DEF Life
<1>4. ASSUME NEW v \in Workers, v # w PROVE Life(v)' = Life(v)
    <2>1. v >= w + 1 <=> v >= w
        BY <1>2, <1>4
    <2>2. enabled'[v] = enabled[v] /\ (v \in worker_head' <=> v \in worker_head)
        BY <1>1, <1>4
    <2> QED
        BY <1>1, <2>1, <2>2 DEF Life
<1>5. \A v \in Workers : v < w => Life(v) # "none"
    BY <1>2 DEF Life
<1> QED
    BY <1>3, <1>4, <1>5 DEF LifeStep

LEMMA DestroyLives ==
    ASSUME IInv, NEW w \in Workers, DestroyXlater(w)
    PROVE  LifeStep(w, "running", "dying")
<1>1. /\ w < widx /\ w \in worker_head /\ enabled[w] /\ ~enabled'[w]
      /\ \A v \in Workers : v # w => enabled'[v] = enabled[v]
      /\ UNCHANGED <<widx, worker_head>> /\ widx \in Int /\ w \in Int
    BY BoundsAssumption DEF DestroyXlater, IInv, TypeOK, ListInv, Workers
<1>2. Life(w) = "running" /\ Life(w)' = "dying"
    BY <1>1 DEF Life
<1>3. ASSUME NEW v \in Workers, v # w PROVE Life(v)' = Life(v)
    BY <1>1, <1>3 DEF Life
<1> QED
    BY <1>2, <1>3 DEF LifeStep

LEMMA ReapLives ==
    ASSUME IInv, Reap, NEW w \in Workers, w = s_w
    PROVE  LifeStep(w, "dying", "freed")
<1>1. /\ w \in worker_head /\ w < widx /\ ~enabled[w] /\ widx \in Int /\ w \in Int
      /\ worker_head' = worker_head \ {w} /\ UNCHANGED <<widx, enabled>>
    BY BoundsAssumption DEF Reap, listVars, IInv, TypeOK, LockInv, ListInv, Workers
<1>2. Life(w) = "dying" /\ Life(w)' = "freed"
    BY <1>1 DEF Life
<1>3. ASSUME NEW v \in Workers, v # w PROVE Life(v)' = Life(v)
    BY <1>1, <1>3 DEF Life
<1> QED
    BY <1>2, <1>3 DEF LifeStep

LEMMA LifeNext == IInv /\ [Next]_vars =>
    [ListedWorkers!Next]_[w \in Workers |-> Life(w)]
<1> SUFFICES ASSUME IInv, [Next]_vars
             PROVE  [ListedWorkers!Next]_[w \in Workers |-> Life(w)]
    OBVIOUS
<1> DEFINE life == [w \in Workers |-> Life(w)]
<1> USE DEF ringVars, Asleep, recordVars, readerVars, listVars, workerVars,
            writerVars, sentVars
<1>1. ASSUME NEW w \in Workers, NEW from, NEW to, LifeStep(w, from, to)
      PROVE  life[w] = from /\ life' = [life EXCEPT ![w] = to]
    BY <1>1 DEF LifeStep
<1>2. CASE UNCHANGED <<widx, worker_head, enabled>>
    BY <1>2 DEF Life
<1>3. CASE PublishXlater
    <2>1. PICK w \in Workers : w = widx
        BY <1>3 DEF PublishXlater, IInv, TypeOK
    <2>2. ListedWorkers!Create(w)
        BY <1>1, <1>3, <2>1, PublishLives DEF ListedWorkers!Create
    <2> QED
        BY <2>2 DEF ListedWorkers!Next
<1>4. ASSUME NEW w \in Workers, DestroyXlater(w) PROVE ListedWorkers!Next
    <2>1. ListedWorkers!Destroy(w)
        BY <1>1, <1>4, DestroyLives DEF ListedWorkers!Destroy
    <2> QED
        BY <2>1 DEF ListedWorkers!Next
<1>5. CASE Reap
    <2>1. PICK w \in Workers : w = s_w
        BY <1>5 DEF Reap, IInv, TypeOK, LockInv
    <2>2. ListedWorkers!Free(w)
        BY <1>1, <1>5, <2>1, ReapLives DEF ListedWorkers!Free
    <2> QED
        BY <2>2 DEF ListedWorkers!Next
<1>6. CASE ReaderNext \/ RecordNext
    BY <1>2, <1>6 DEF ReaderNext, WriteBatch, AfterDisk, TurnIdle, PublishFrame,
                      RecordNext, RecordStart, RecordStop
<1>7. ASSUME NEW history \in Histories, SpawnXlater(history)
      PROVE  UNCHANGED <<widx, worker_head, enabled>>
    BY <1>7 DEF SpawnXlater
<1>8. ASSUME NEW w \in Workers, WorkerNext(w)
      PROVE  UNCHANGED <<widx, worker_head, enabled>>
    BY <1>8 DEF WorkerNext, WorkerSleeps, WorkerProceeds, WorkerFilters,
                WorkerCommits, WorkerExits
<1>9. CASE WriterNext
    BY <1>2, <1>5, <1>9
    DEF WriterNext, WriterLocks, SnapshotWorker, SendFrame, CommitWorker,
        SkipDying, SnapshotRing, SendMeta, CommitRing
<1>10. ASSUME NEW t \in Threads, SpuriousWake(t)
       PROVE  UNCHANGED <<widx, worker_head, enabled>>
    BY <1>10 DEF SpuriousWake
<1>11. CASE UNCHANGED vars
    BY <1>2, <1>11 DEF vars
<1> QED
    BY <1>2, <1>3, <1>4, <1>6, <1>7, <1>8, <1>9, <1>10, <1>11 DEF Next, ClientNext

(* The list of workers implements WorkerLife: widx hands each ID out once  *)
(* (create_xlate_worker), only DESTROY_XLATER ends a channel, and the      *)
(* writer frees none that was not destroyed, for any number of workers.    *)
THEOREM ListImplementsWorkerLife == Spec => WorkersLive
<1> QED
    BY LifeInit, LifeNext, Invariance, PTL DEF Spec, WorkersLive, ListedWorkers!Spec
=============================================================================
