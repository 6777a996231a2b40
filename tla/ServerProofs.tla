---------------------------- MODULE ServerProofs ----------------------------
(***************************************************************************)
(* Proofs about the streaming core for every BUFSIZE, WRITE_FRAMES_SYNC    *)
(* and every value of the bounds.                                          *)
(***************************************************************************)
EXTENDS ServerInv, TLAPS

USE BufsizeAssumption

-----------------------------------------------------------------------------
(* The addressing of the rings: a slot number is in range, and two frames  *)
(* less than BUFSIZE apart never share a slot.                             *)
LEMMA SlotInRange == ASSUME NEW f \in Int PROVE Slot(f) \in Slots
BY DEF Slot, Slots

LEMMA SlotsDistinct ==
    ASSUME NEW a \in Int, NEW b \in Int, a < b, b - a < BUFSIZE
    PROVE  Slot(a) # Slot(b)
<1> SUFFICES ASSUME Slot(a) = Slot(b) PROVE FALSE
    OBVIOUS
<1> DEFINE qa == a \div BUFSIZE
           qb == b \div BUFSIZE
<1>1. qa \in Int /\ qb \in Int
    OBVIOUS
<1>2. /\ a = BUFSIZE * qa + (a % BUFSIZE)
      /\ b = BUFSIZE * qb + (b % BUFSIZE)
    OBVIOUS
<1>3. a % BUFSIZE = b % BUFSIZE
    BY DEF Slot
<1> HIDE DEF qa, qb
<1>4. b - a = BUFSIZE * (qb - qa)
    BY <1>1, <1>2, <1>3
<1>5. qb - qa >= 1
    BY <1>1, <1>4
<1> QED
    BY <1>1, <1>4, <1>5

(* A turn of the recorder writes at least one frame. *)
LEMMA BatchLengthPositive ==
    ASSUME TypeOK PROVE BatchLength \in Nat /\ BatchLength >= 1
BY SyncAssumption DEF TypeOK, BatchLength, Cursor

-----------------------------------------------------------------------------
LEMMA PacketTypes ==
    /\ TornPacket \in Packet
    /\ NoPacket \in OutPacket
BY DEF TornPacket, Packet, NoPacket, OutPacket, Cursor, Torn, None

(* Reading a packet out of a ring yields a packet. *)
LEMMA ReadTypes ==
    ASSUME TypeOK, NEW f \in Int
    PROVE  /\ sdr_inbuf[Slot(f)] \in Packet
           /\ \A w \in Workers : outbuf[w][Slot(f)] \in OutPacket
BY SlotInRange DEF TypeOK

LEMMA TypeInit == Init => TypeOK
BY BoundsAssumption, PacketTypes
DEF Init, StateInit, TypeOK, INT32_MIN, None, Cursor, Workers

LEMMA TypeReader == TypeOK /\ ReaderNext => TypeOK'
<1> SUFFICES ASSUME TypeOK, ReaderNext PROVE TypeOK'
    OBVIOUS
<1> USE DEF Cursor, Threads, Reader
<1>a. ASSUME Admit
      PROVE  /\ sdr_inbuf' \in [Slots -> Packet]
             /\ sdr_cptr' \in Cursor
             /\ rpc' \in {"top", "after", "fread"}
             /\ waiting' \subseteq Threads /\ wakeups' \in 0..MaxWakeups
    BY <1>a, PacketTypes
    DEF Admit, TypeOK, ringVars, Sleep, Asleep
<1>1. CASE WriteBatch
    <2>1. Batch \in Seq(OutPacket)
        <3>1. ASSUME NEW i \in 1..BatchLength
              PROVE  rec_cptr + i - 1 \in Int
            BY BatchLengthPositive DEF TypeOK
        <3>2. ASSUME NEW i \in 1..BatchLength
              PROVE  Batch[i] \in OutPacket
            BY <3>1, <3>2, ReadTypes DEF Batch, OutPacket, Packet
        <3>3. Batch = [i \in 1..BatchLength |-> Batch[i]]
            BY DEF Batch
        <3> HIDE DEF Batch
        <3> QED
            BY <3>2, <3>3, BatchLengthPositive
    <2>2. r_rec' \in Int
        BY <1>1, BatchLengthPositive DEF WriteBatch, TypeOK
    <2> QED
        BY <1>1, <2>1, <2>2
        DEF WriteBatch, TypeOK, vars, ringVars, Asleep, recordVars, listVars,
            workerVars, writerVars, sentVars
<1>2. CASE AfterDisk
    BY <1>2, <1>a
    DEF AfterDisk, TypeOK, listVars, workerVars, writerVars, sentVars, INT32_MIN
<1>3. CASE TurnIdle
    BY <1>3, <1>a
    DEF TurnIdle, TypeOK, recordVars, listVars, workerVars, writerVars, sentVars
<1>4. CASE PublishFrame
    <2> DEFINE packet == [data |-> sdr_cptr + 1, frameno |-> sdr_cptr]
    <2>a. packet \in Packet
        BY DEF TypeOK, Packet
    <2>b. sdr_inbuf' = [sdr_inbuf EXCEPT ![Slot(sdr_cptr + 1)] = packet]
        BY <1>4 DEF PublishFrame
    <2> HIDE DEF packet
    <2>c. sdr_inbuf \in [Slots -> Packet] /\ sdr_cptr' \in Int
        BY <1>4 DEF PublishFrame, TypeOK
    <2>1. sdr_inbuf' \in [Slots -> Packet]
        BY <2>a, <2>b, <2>c
    <2> QED
        BY <1>4, <2>1, <2>c
        DEF PublishFrame, TypeOK, Broadcast, recordVars, listVars,
            workerVars, writerVars, sentVars
<1> QED
    BY <1>1, <1>2, <1>3, <1>4 DEF ReaderNext

LEMMA TypeRecord == TypeOK /\ RecordNext => TypeOK'
<1> SUFFICES ASSUME TypeOK, RecordNext PROVE TypeOK'
    OBVIOUS
<1> USE DEF Cursor, INT32_MIN
<1>1. CASE RecordStop
    BY <1>1
    DEF RecordStop, TypeOK, ringVars, Asleep, readerVars, listVars,
        workerVars, writerVars, sentVars
<1>2. ASSUME NEW start \in StartFrames, NEW stop \in StopFrames,
             RecordStart(start, stop)
      PROVE  TypeOK'
    <2>1. start \in Int /\ stop \in Int
        BY BoundsAssumption
        DEF StartFrames, DumpFrames, StopFrames, INT32_MAX, GuiStop, TypeOK,
            OutPacket
    <2>2. FirstRecorded(start) \in Int
        BY <2>1 DEF FirstRecorded, TypeOK
    <2> HIDE DEF INT32_MIN
    <2> QED
        BY <1>2, <2>1, <2>2
        DEF RecordStart, TypeOK, ringVars, Asleep, readerVars, listVars,
            workerVars, writerVars, sentVars
<1> QED
    BY <1>1, <1>2 DEF RecordNext

LEMMA TypeClient == TypeOK /\ ClientNext => TypeOK'
<1> SUFFICES ASSUME TypeOK, ClientNext PROVE TypeOK'
    OBVIOUS
<1> USE DEF Cursor
<1>1. ASSUME NEW history \in Histories, SpawnXlater(history) PROVE TypeOK'
    <2>1. StartPosition(history) \in Int
        BY DEF Histories, StartPosition, TypeOK, OutPacket
    <2>2. widx \in Workers
        BY <1>1, BoundsAssumption DEF SpawnXlater, TypeOK, Workers
    <2> QED
        BY <1>1, <2>1, <2>2
        DEF SpawnXlater, TypeOK, ringVars, Asleep, recordVars, readerVars,
            writerVars, sentVars
<1>2. CASE PublishXlater
    <2>1. widx \in Workers /\ widx + 1 \in 0..MaxWorkers
        BY <1>2, BoundsAssumption DEF PublishXlater, TypeOK, Workers
    <2> QED
        BY <1>2, <2>1
        DEF PublishXlater, TypeOK, ringVars, Asleep, recordVars, readerVars,
            workerVars, writerVars, sentVars
<1>3. ASSUME NEW w \in Workers, DestroyXlater(w) PROVE TypeOK'
    BY <1>3
    DEF DestroyXlater, TypeOK, ringVars, Asleep, recordVars, readerVars,
        workerVars, writerVars, sentVars
<1> QED
    BY <1>1, <1>2, <1>3 DEF ClientNext

LEMMA TypeWorker ==
    ASSUME TypeOK, NEW w \in Workers, WorkerNext(w) PROVE TypeOK'
<1> USE DEF Cursor, Threads
<1> USE DEF TypeOK, ringVars, Asleep, recordVars, readerVars, listVars,
            workerVars, writerVars, sentVars
<1>1. CASE WorkerSleeps(w)
    BY <1>1 DEF WorkerSleeps, Sleep
<1>2. CASE WorkerProceeds(w)
    BY <1>2 DEF WorkerProceeds
<1>3. CASE WorkerFilters(w)
    <2> DEFINE packet == [pos |-> mypos[w],
                          data |-> sdr_inbuf[Slot(mypos[w])].data,
                          frameno |-> sdr_inbuf[Slot(mypos[w])].frameno]
    <2>1. packet \in OutPacket
        BY ReadTypes DEF OutPacket, Packet
    <2>2. outbuf' = [outbuf EXCEPT ![w][Slot(mypos[w])] = packet]
        BY <1>3 DEF WorkerFilters
    <2> HIDE DEF packet
    <2>3. outbuf' \in [Workers -> [Slots -> OutPacket]]
        BY <2>1, <2>2
    <2> QED
        BY <1>3, <2>3 DEF WorkerFilters
<1>4. CASE WorkerCommits(w)
    BY <1>4 DEF WorkerCommits, Broadcast
<1>5. CASE WorkerExits(w)
    BY <1>5 DEF WorkerExits
<1> QED
    BY <1>1, <1>2, <1>3, <1>4, <1>5 DEF WorkerNext

LEMMA TypeWriter == TypeOK /\ WriterNext => TypeOK'
<1> SUFFICES ASSUME TypeOK, WriterNext PROVE TypeOK'
    OBVIOUS
<1> USE DEF Cursor, None
<1> USE DEF TypeOK, ringVars, Asleep, recordVars, readerVars, listVars,
            workerVars, writerVars, sentVars
<1>1. CASE WriterLocks
    BY <1>1 DEF WriterLocks
<1>2. CASE SnapshotWorker
    BY <1>2 DEF SnapshotWorker
<1>3. CASE SendFrame
    <2> DEFINE packet == outbuf[s_w][Slot(s_send + 1)]
    <2>a. s_w \in Workers /\ s_send + 1 \in Int
        BY <1>3 DEF SendFrame
    <2>b. packet \in OutPacket
        BY <2>a, ReadTypes
    <2>1. packet \in OutPacket /\ packet.frameno \in Int
        BY <2>b DEF OutPacket
    <2>2. /\ sent' = [sent EXCEPT ![s_w] = packet]
          /\ first' = [first EXCEPT ![s_w] =
                          IF sent[s_w] = NoPacket THEN packet.frameno ELSE @]
        BY <1>3 DEF SendFrame
    <2> HIDE DEF packet
    <2>3. sent' \in [Workers -> OutPacket] /\ first' \in [Workers -> Int]
        BY <2>1, <2>2
    <2> QED
        BY <1>3, <2>3 DEF SendFrame
<1>4. CASE CommitWorker
    BY <1>4 DEF CommitWorker, Broadcast
<1>5. CASE SkipDying
    BY <1>5 DEF SkipDying
<1>6. CASE Reap
    BY <1>6, BoundsAssumption DEF Reap, Workers
<1>7. CASE SnapshotRing
    BY <1>7 DEF SnapshotRing
<1>8. CASE SendMeta
    <2>1. sdr_inbuf[Slot(s_send + 1)] \in Packet
        BY <1>8, ReadTypes DEF SendMeta
    <2>2. meta' \in OutPacket
        BY <1>8, <2>1 DEF SendMeta, OutPacket, Packet
    <2> QED
        BY <1>8, <2>2, SMTT(30) DEF SendMeta
<1>9. CASE CommitRing
    BY <1>9, BoundsAssumption DEF CommitRing, Broadcast, Workers
<1> QED
    BY <1>1, <1>2, <1>3, <1>4, <1>5, <1>6, <1>7, <1>8, <1>9 DEF WriterNext

LEMMA TypeNext == TypeOK /\ [Next]_vars => TypeOK'
<1> SUFFICES ASSUME TypeOK, [Next]_vars PROVE TypeOK'
    OBVIOUS
<1> USE DEF ringVars, Asleep, recordVars, readerVars, listVars, workerVars,
            writerVars, sentVars
<1>1. ASSUME NEW t \in Threads, SpuriousWake(t) PROVE TypeOK'
    BY <1>1, BoundsAssumption DEF SpuriousWake, TypeOK
<1>2. CASE UNCHANGED vars
    BY <1>2 DEF vars, TypeOK
<1> QED
    BY <1>1, <1>2, TypeReader, TypeRecord, TypeClient, TypeWorker, TypeWriter
    DEF Next

(* Every variable of the running server has its type. *)
THEOREM TypeCorrect == Spec => []TypeOK
<1> QED
    BY TypeInit, TypeNext, PTL DEF Spec

-----------------------------------------------------------------------------
LEMMA InvInit == Init => IInv
<1> SUFFICES ASSUME Init PROVE IInv
    OBVIOUS
<1>1. TypeOK
    BY TypeInit
<1>2. LockInv
    BY DEF Init, StateInit, LockInv
<1>3. RingCursors
    BY DEF Init, StateInit, RingCursors
<1>4. RingContent
    BY DEF Init, StateInit, RingContent
<1>5. RecorderCursors /\ ListInv
    BY DEF Init, StateInit, RecorderCursors, ListInv, Workers
<1>6. ChannelInv
    BY DEF Init, StateInit, ChannelInv, Created
<1> QED
    BY <1>1, <1>2, <1>3, <1>4, <1>5, <1>6 DEF IInv

LEMMA LockStep ==
    ASSUME TypeOK, LockInv, [Next]_vars PROVE LockInv'
<1> USE DEF LockInv
<1> USE DEF ringVars, Asleep, recordVars, readerVars, listVars, workerVars,
            writerVars, sentVars
<1>1. CASE UNCHANGED <<llmutex, worker_head, enabled, spc, s_w>>
    BY <1>1
<1>2. CASE ReaderNext
    BY <1>1, <1>2 DEF ReaderNext, WriteBatch, AfterDisk, TurnIdle, PublishFrame
<1>3. CASE RecordNext
    BY <1>1, <1>3 DEF RecordNext, RecordStart, RecordStop
<1>4. ASSUME NEW history \in Histories, SpawnXlater(history) PROVE LockInv'
    BY <1>4 DEF SpawnXlater
<1>5. CASE PublishXlater
    BY <1>5 DEF PublishXlater
<1>6. ASSUME NEW w \in Workers, DestroyXlater(w) PROVE LockInv'
    BY <1>6 DEF DestroyXlater
<1>7. ASSUME NEW w \in Workers, WorkerNext(w) PROVE LockInv'
    BY <1>1, <1>7
    DEF WorkerNext, WorkerSleeps, WorkerProceeds, WorkerFilters,
        WorkerCommits, WorkerExits
<1>8. CASE WriterNext
    <2>1. CASE WriterLocks
        BY <2>1 DEF WriterLocks, Follows
    <2>2. CASE SnapshotWorker
        BY <2>2 DEF SnapshotWorker
    <2>3. CASE SendFrame \/ SendMeta
        BY <2>3 DEF SendFrame, SendMeta
    <2>4. CASE CommitWorker \/ SkipDying
        BY <2>4 DEF CommitWorker, SkipDying, Follows
    <2>5. CASE Reap \/ CommitRing
        BY <2>5 DEF Reap, CommitRing
    <2>6. CASE SnapshotRing
        BY <2>6 DEF SnapshotRing
    <2> QED
        BY <1>8, <2>1, <2>2, <2>3, <2>4, <2>5, <2>6 DEF WriterNext
<1>9. ASSUME NEW t \in Threads, SpuriousWake(t) PROVE LockInv'
    BY <1>1, <1>9 DEF SpuriousWake
<1> QED
    BY <1>1, <1>2, <1>3, <1>4, <1>5, <1>6, <1>7, <1>8, <1>9
    DEF Next, ClientNext, vars

LEMMA RingCursorsStep ==
    ASSUME TypeOK, LockInv, RingCursors, [Next]_vars PROVE RingCursors'
<1> USE DEF RingCursors, TypeOK, Cursor
<1> USE DEF ringVars, Asleep, recordVars, readerVars, listVars, workerVars,
            writerVars, sentVars
<1>1. CASE UNCHANGED <<sdr_cptr, send_cptr, rpc, spc, s_last, s_send>>
    BY <1>1
<1>2. CASE ReaderNext
    <2>1. ASSUME Admit,
                 UNCHANGED <<send_cptr, spc, s_last, s_send>>
          PROVE  RingCursors'
        BY <2>1 DEF Admit, RingFull
    <2>2. CASE WriteBatch
        BY <2>2 DEF WriteBatch
    <2>3. CASE AfterDisk
        BY <2>1, <2>3 DEF AfterDisk
    <2>4. CASE TurnIdle
        BY <2>1, <2>4 DEF TurnIdle
    <2>5. CASE PublishFrame
        BY <2>5 DEF PublishFrame
    <2> QED
        BY <1>2, <2>2, <2>3, <2>4, <2>5 DEF ReaderNext
<1>3. CASE RecordNext
    BY <1>1, <1>3 DEF RecordNext, RecordStart, RecordStop
<1>4. CASE ClientNext
    BY <1>1, <1>4 DEF ClientNext, SpawnXlater, PublishXlater, DestroyXlater
<1>5. ASSUME NEW w \in Workers, WorkerNext(w) PROVE RingCursors'
    BY <1>1, <1>5
    DEF WorkerNext, WorkerSleeps, WorkerProceeds, WorkerFilters,
        WorkerCommits, WorkerExits
<1>6. CASE WriterNext
    <2>1. CASE WriterLocks \/ SkipDying \/ Reap
        BY <2>1 DEF WriterLocks, SkipDying, Reap
    <2>2. CASE SnapshotWorker \/ SendFrame \/ CommitWorker
        BY <2>2 DEF SnapshotWorker, SendFrame, CommitWorker
    <2>3. CASE SnapshotRing
        BY <2>3 DEF SnapshotRing
    <2>4. CASE SendMeta
        BY <2>4 DEF SendMeta
    <2>5. CASE CommitRing
        BY <2>5 DEF CommitRing
    <2> QED
        BY <1>6, <2>1, <2>2, <2>3, <2>4, <2>5 DEF WriterNext
<1>7. ASSUME NEW t \in Threads, SpuriousWake(t) PROVE RingCursors'
    BY <1>1, <1>7 DEF SpuriousWake
<1> QED
    BY <1>1, <1>2, <1>3, <1>4, <1>5, <1>6, <1>7 DEF Next, vars

(* Only the reader touches sdr_inbuf: it tears the slot that is a ring     *)
(* behind the frame it reads, and no frame after that one shares the slot. *)
LEMMA RingContentStep ==
    ASSUME TypeOK, RingContent, [Next]_vars PROVE RingContent'
<1> USE DEF ringVars, Asleep, recordVars, readerVars, listVars, workerVars,
            writerVars, sentVars
<1>0. sdr_cptr \in Int /\ sdr_inbuf \in [Slots -> Packet]
    BY DEF TypeOK, Cursor
<1>1. CASE UNCHANGED <<sdr_inbuf, sdr_cptr, rpc>>
    BY <1>1 DEF RingContent, OldestFrame
<1>2. CASE ReaderNext
    <2>1. ASSUME Admit, rpc # "fread" PROVE RingContent'
        <3>1. CASE UNCHANGED ringVars /\ rpc' = "top"
            BY <2>1, <3>1 DEF RingContent, OldestFrame
        <3>2. CASE /\ rpc' = "fread" /\ sdr_cptr' = sdr_cptr
                   /\ sdr_inbuf' = [sdr_inbuf EXCEPT
                                       ![Slot(sdr_cptr + 1)] = TornPacket]
            <4> SUFFICES ASSUME NEW f \in 0..sdr_cptr,
                                f >= sdr_cptr - BUFSIZE + 2
                         PROVE  sdr_inbuf'[Slot(f)] = Genuine(f)
                BY <3>2 DEF RingContent, OldestFrame
            <4>1. Slot(f) # Slot(sdr_cptr + 1)
                BY <1>0, SlotsDistinct
            <4>2. sdr_inbuf[Slot(f)] = Genuine(f)
                BY <1>0, <2>1 DEF RingContent, OldestFrame
            <4> QED
                BY <1>0, <3>2, <4>1, <4>2, SlotInRange
        <3> QED
            BY <2>1, <3>1, <3>2 DEF Admit
    <2>2. CASE WriteBatch
        BY <2>2 DEF WriteBatch, RingContent, OldestFrame
    <2>3. CASE AfterDisk
        BY <2>1, <2>3 DEF AfterDisk
    <2>4. CASE TurnIdle
        BY <2>1, <2>4 DEF TurnIdle
    <2>5. CASE PublishFrame
        <3>1. /\ rpc = "fread" /\ rpc' = "top"
              /\ sdr_cptr' = sdr_cptr + 1
              /\ sdr_inbuf' = [sdr_inbuf EXCEPT
                                  ![Slot(sdr_cptr + 1)] = Genuine(sdr_cptr + 1)]
            BY <1>0, <2>5 DEF PublishFrame, Genuine
        <3> SUFFICES ASSUME NEW f \in 0..(sdr_cptr + 1),
                            f >= sdr_cptr - BUFSIZE + 2
                     PROVE  sdr_inbuf'[Slot(f)] = Genuine(f)
            BY <1>0, <3>1 DEF RingContent, OldestFrame
        <3>2. CASE f = sdr_cptr + 1
            BY <1>0, <3>1, <3>2, SlotInRange
        <3>3. CASE f # sdr_cptr + 1
            <4>1. Slot(f) # Slot(sdr_cptr + 1)
                BY <1>0, <3>3, SlotsDistinct
            <4>2. sdr_inbuf[Slot(f)] = Genuine(f)
                BY <1>0, <3>1, <3>3 DEF RingContent, OldestFrame
            <4> QED
                BY <1>0, <3>1, <4>1, <4>2, SlotInRange
        <3> QED
            BY <3>2, <3>3
    <2> QED
        BY <1>2, <2>2, <2>3, <2>4, <2>5 DEF ReaderNext
<1>3. CASE RecordNext
    BY <1>1, <1>3 DEF RecordNext, RecordStart, RecordStop
<1>4. CASE ClientNext
    BY <1>1, <1>4 DEF ClientNext, SpawnXlater, PublishXlater, DestroyXlater
<1>5. ASSUME NEW w \in Workers, WorkerNext(w) PROVE RingContent'
    BY <1>1, <1>5
    DEF WorkerNext, WorkerSleeps, WorkerProceeds, WorkerFilters,
        WorkerCommits, WorkerExits
<1>6. CASE WriterNext
    BY <1>1, <1>6
    DEF WriterNext, WriterLocks, SnapshotWorker, SendFrame, CommitWorker,
        SkipDying, Reap, SnapshotRing, SendMeta, CommitRing
<1>7. ASSUME NEW t \in Threads, SpuriousWake(t) PROVE RingContent'
    BY <1>1, <1>7 DEF SpuriousWake
<1> QED
    BY <1>1, <1>2, <1>3, <1>4, <1>5, <1>6, <1>7 DEF Next, vars

LEMMA ListStep ==
    ASSUME TypeOK, LockInv, ListInv, [Next]_vars PROVE ListInv'
<1> USE DEF ListInv, Created
<1> USE DEF ringVars, Asleep, recordVars, readerVars, listVars, workerVars,
            writerVars, sentVars
<1>1. CASE UNCHANGED <<llmutex, widx, worker_head, enabled, last_written,
                       w_send_cptr, wpc>>
    BY <1>1
<1>2. CASE ReaderNext
    BY <1>1, <1>2 DEF ReaderNext, WriteBatch, AfterDisk, TurnIdle, PublishFrame
<1>3. CASE RecordNext
    BY <1>1, <1>3 DEF RecordNext, RecordStart, RecordStop
<1>4. ASSUME NEW history \in Histories, SpawnXlater(history) PROVE ListInv'
    <2>1. widx \in Workers
        BY <1>4, BoundsAssumption DEF SpawnXlater, TypeOK, Workers
    <2> QED
        BY <1>4, <2>1 DEF SpawnXlater, TypeOK, Workers
<1>5. CASE PublishXlater
    BY <1>5, BoundsAssumption DEF PublishXlater, TypeOK, Workers
<1>6. ASSUME NEW w \in Workers, DestroyXlater(w) PROVE ListInv'
    BY <1>6 DEF DestroyXlater, TypeOK
<1>7. ASSUME NEW w \in Workers, WorkerNext(w) PROVE ListInv'
    <2>1. CASE WorkerSleeps(w)
        BY <1>1, <2>1 DEF WorkerSleeps
    <2>2. CASE WorkerProceeds(w) \/ WorkerFilters(w) \/ WorkerExits(w)
        BY <2>2 DEF WorkerProceeds, WorkerFilters, WorkerExits, TypeOK
    <2>3. CASE WorkerCommits(w)
        <3>1. llmutex = "client" => w # widx
            BY <2>3 DEF WorkerCommits, TypeOK, Workers
        <3> QED
            BY <2>3, <3>1 DEF WorkerCommits, TypeOK
    <2> QED
        BY <1>7, <2>1, <2>2, <2>3 DEF WorkerNext
<1>8. CASE WriterNext
    <2>1. CASE CommitWorker
        BY <2>1 DEF CommitWorker, LockInv
    <2>2. CASE Reap
        BY <2>2 DEF Reap
    <2>3. CASE WriterLocks \/ CommitRing
        BY <2>3 DEF WriterLocks, CommitRing
    <2>4. CASE \/ SnapshotWorker \/ SendFrame \/ SkipDying
               \/ SnapshotRing \/ SendMeta
        BY <1>1, <2>4
        DEF SnapshotWorker, SendFrame, SkipDying, SnapshotRing, SendMeta
    <2> QED
        BY <1>8, <2>1, <2>2, <2>3, <2>4 DEF WriterNext
<1>9. ASSUME NEW t \in Threads, SpuriousWake(t) PROVE ListInv'
    BY <1>1, <1>9 DEF SpuriousWake
<1> QED
    BY <1>1, <1>2, <1>3, <1>4, <1>5, <1>6, <1>7, <1>8, <1>9
    DEF Next, ClientNext, vars

LEMMA RecorderCursorsStep ==
    ASSUME TypeOK, RecorderCursors, [Next]_vars PROVE RecorderCursors'
<1> USE DEF RecorderCursors
<1> USE DEF ringVars, Asleep, recordVars, readerVars, listVars, workerVars,
            writerVars, sentVars
<1>1. CASE UNCHANGED <<rec_cptr, rpc, r_rec>>
    BY <1>1
<1>2. CASE ReaderNext
    <2>1. CASE WriteBatch
        <3>1. rec_cptr \in Int /\ rec_cptr >= 0
            BY <2>1 DEF WriteBatch, Recording, TypeOK, Cursor
        <3>2. rec_cptr + BatchLength >= 0
            BY <3>1, BatchLengthPositive
        <3> QED
            BY <2>1, <3>2 DEF WriteBatch
    <2>2. CASE AfterDisk
        BY <2>2 DEF AfterDisk, Admit
    <2>3. CASE TurnIdle
        BY <2>3 DEF TurnIdle, Admit
    <2>4. CASE PublishFrame
        BY <2>4 DEF PublishFrame
    <2> QED
        BY <1>2, <2>1, <2>2, <2>3, <2>4 DEF ReaderNext
<1>3. CASE RecordStop
    BY <1>3 DEF RecordStop
<1>4. ASSUME NEW start \in StartFrames, NEW stop \in StopFrames,
             RecordStart(start, stop)
      PROVE  RecorderCursors'
    <2>1. start \in Int /\ sdr_cptr \in Int
        BY DEF StartFrames, DumpFrames, TypeOK, OutPacket, Cursor
    <2>2. FirstRecorded(start) >= 0
        BY <2>1 DEF FirstRecorded
    <2> QED
        BY <1>4, <2>2 DEF RecordStart
<1>5. CASE ClientNext
    BY <1>1, <1>5 DEF ClientNext, SpawnXlater, PublishXlater, DestroyXlater
<1>6. ASSUME NEW w \in Workers, WorkerNext(w) PROVE RecorderCursors'
    BY <1>1, <1>6
    DEF WorkerNext, WorkerSleeps, WorkerProceeds, WorkerFilters,
        WorkerCommits, WorkerExits
<1>7. CASE WriterNext
    BY <1>1, <1>7
    DEF WriterNext, WriterLocks, SnapshotWorker, SendFrame, CommitWorker,
        SkipDying, Reap, SnapshotRing, SendMeta, CommitRing
<1>8. ASSUME NEW t \in Threads, SpuriousWake(t) PROVE RecorderCursors'
    BY <1>1, <1>8 DEF SpuriousWake
<1> QED
    BY <1>1, <1>2, <1>3, <1>4, <1>5, <1>6, <1>7, <1>8
    DEF Next, RecordNext, vars

(* The two ends of a channel: the worker fills slots up to BUFSIZE - 1     *)
(* past the writer's cursor and never one with an unsent packet; the       *)
(* writer's snapshot stays valid because only it moves that cursor.        *)
LEMMA ChannelStep ==
    ASSUME TypeOK, LockInv, ListInv, ChannelInv, [Next]_vars
    PROVE  ChannelInv'
<1> USE DEF ringVars, Asleep, recordVars, readerVars, listVars, workerVars,
            writerVars, sentVars
<1> SUFFICES ASSUME NEW v \in Workers, Created(v)'
             PROVE  ChannelCursors(v)' /\ ChannelContent(v)'
    BY DEF ChannelInv
<1>0. /\ last_written[v] \in Int /\ w_send_cptr[v] \in Int
      /\ mypos[v] \in Int /\ s_send \in Int /\ s_last \in Int
      /\ enabled \in [Workers -> BOOLEAN]
      /\ last_written \in [Workers -> Int] /\ w_send_cptr \in [Workers -> Int]
      /\ mypos \in [Workers -> Int]
      /\ wpc \in [Workers -> {"none", "check", "copy", "commit", "exited"}]
      /\ outbuf \in [Workers -> [Slots -> OutPacket]]
    BY DEF TypeOK, Cursor
<1>i. Created(v) => ChannelCursors(v) /\ ChannelContent(v)
    BY DEF ChannelInv
<1>1. CASE UNCHANGED <<enabled, last_written, w_send_cptr, outbuf, wpc, mypos,
                       spc, s_w, s_last, s_send>>
    BY <1>1, <1>i DEF Created, ChannelCursors, ChannelContent, Running
<1>2. CASE ReaderNext
    BY <1>1, <1>2 DEF ReaderNext, WriteBatch, AfterDisk, TurnIdle, PublishFrame
<1>3. CASE RecordNext
    BY <1>1, <1>3 DEF RecordNext, RecordStart, RecordStop
<1>4. ASSUME NEW history \in Histories, SpawnXlater(history)
      PROVE  ChannelCursors(v)' /\ ChannelContent(v)'
    <2>1. StartPosition(history) \in Int
        BY DEF Histories, StartPosition, TypeOK, OutPacket, Cursor
    <2>2. CASE v = widx
        <3>1. ~enabled[v] /\ spc' = "idle"
            BY <1>4, <2>2, <1>0 DEF SpawnXlater, ListInv, LockInv, TypeOK, Workers
        <3>2. /\ last_written'[v] = StartPosition(history)
              /\ w_send_cptr'[v] = StartPosition(history)
              /\ mypos'[v] = StartPosition(history) + 1
              /\ wpc'[v] = "check"
              /\ enabled' = enabled
            BY <1>0, <1>4, <2>2 DEF SpawnXlater
        <3> QED
            BY <2>1, <3>1, <3>2 DEF ChannelCursors, ChannelContent, Running
    <2>3. CASE v # widx
        <3>1. /\ last_written'[v] = last_written[v]
              /\ w_send_cptr'[v] = w_send_cptr[v]
              /\ mypos'[v] = mypos[v]
              /\ wpc'[v] = wpc[v]
              /\ UNCHANGED <<enabled, outbuf, spc, s_w, s_last, s_send>>
            BY <1>0, <1>4, <2>3 DEF SpawnXlater
        <3> QED
            BY <1>i, <3>1 DEF Created, ChannelCursors, ChannelContent, Running
    <2> QED
        BY <2>2, <2>3
<1>5. CASE PublishXlater
    BY <1>0, <1>5, <1>i
    DEF PublishXlater, ListInv, Created, ChannelCursors, ChannelContent, Running
<1>6. ASSUME NEW w \in Workers, DestroyXlater(w)
      PROVE  ChannelCursors(v)' /\ ChannelContent(v)'
    BY <1>0, <1>6, <1>i
    DEF DestroyXlater, Created, ChannelCursors, ChannelContent, Running
<1>7. ASSUME NEW w \in Workers, WorkerNext(w)
      PROVE  ChannelCursors(v)' /\ ChannelContent(v)'
    <2>1. CASE WorkerSleeps(w)
        BY <1>1, <2>1 DEF WorkerSleeps
    <2>2. CASE WorkerProceeds(w)
        BY <1>0, <1>i, <2>2
        DEF WorkerProceeds, NoSpace, Created, ChannelCursors, ChannelContent,
            Running
    <2>3. CASE WorkerFilters(w)
        <3>1. CASE v # w
            <4>1. /\ outbuf'[v] = outbuf[v] /\ wpc'[v] = wpc[v]
                  /\ UNCHANGED <<enabled, last_written, w_send_cptr, mypos,
                                 spc, s_w, s_last, s_send>>
                BY <1>0, <2>3, <3>1 DEF WorkerFilters
            <4> QED
                BY <1>i, <4>1
                DEF Created, ChannelCursors, ChannelContent, Running
        <3>2. CASE v = w
            <4> DEFINE packet == [pos |-> mypos[v],
                                  data |-> sdr_inbuf[Slot(mypos[v])].data,
                                  frameno |-> sdr_inbuf[Slot(mypos[v])].frameno]
            <4>1. /\ outbuf'[v] = [outbuf[v] EXCEPT ![Slot(mypos[v])] = packet]
                  /\ wpc[v] = "copy" /\ wpc'[v] = "commit"
                  /\ UNCHANGED <<enabled, last_written, w_send_cptr, mypos,
                                 spc, s_w, s_last, s_send>>
                BY <1>0, <2>3, <3>2 DEF WorkerFilters
            <4>2. ChannelCursors(v)'
                BY <1>i, <4>1 DEF Created, ChannelCursors, Running
            <4>3. outbuf'[v][Slot(mypos[v])].pos = mypos[v]
                BY <1>0, <4>1, SlotInRange
            <4>4. ASSUME NEW f \in (w_send_cptr[v] + 1)..last_written[v]
                  PROVE  outbuf'[v][Slot(f)].pos = f
                <5>1. f < mypos[v] /\ mypos[v] - f < BUFSIZE
                    BY <1>0, <1>i, <4>1 DEF Created, ChannelCursors, Running
                <5>2. Slot(f) # Slot(mypos[v])
                    BY <1>0, <5>1, SlotsDistinct
                <5>3. outbuf[v][Slot(f)].pos = f
                    BY <1>i, <4>1 DEF Created, ChannelContent
                <5> HIDE DEF packet
                <5> QED
                    BY <1>0, <4>1, <5>2, <5>3, SlotInRange
            <4> QED
                BY <4>1, <4>2, <4>3, <4>4 DEF ChannelContent
        <3> QED
            BY <3>1, <3>2
    <2>4. CASE WorkerCommits(w)
        <3>1. CASE v # w
            BY <1>0, <1>i, <2>4, <3>1
            DEF WorkerCommits, Created, ChannelCursors, ChannelContent, Running
        <3>2. CASE v = w
            <4>1. /\ last_written'[v] = mypos[v] /\ mypos'[v] = mypos[v] + 1
                  /\ wpc[v] = "commit" /\ wpc'[v] = "check"
                  /\ UNCHANGED <<enabled, outbuf, w_send_cptr, spc, s_w,
                                 s_last, s_send>>
                BY <1>0, <2>4, <3>2 DEF WorkerCommits
            <4>2. mypos[v] = last_written[v] + 1
                BY <1>i, <4>1 DEF Created, ChannelCursors, Running
            <4>3. ChannelCursors(v)'
                BY <1>0, <1>i, <4>1, <4>2 DEF Created, ChannelCursors, Running
            <4>4. ASSUME NEW f \in (w_send_cptr[v] + 1)..mypos[v]
                  PROVE  outbuf[v][Slot(f)].pos = f
                <5>a. w_send_cptr[v] \in Int /\ last_written[v] \in Int
                    BY <1>0
                <5>1. f = mypos[v] \/ f \in (w_send_cptr[v] + 1)..last_written[v]
                    BY <4>2, <5>a
                <5> QED
                    BY <1>i, <4>1, <5>1 DEF Created, ChannelContent
            <4>5. ChannelContent(v)'
                BY <4>1, <4>4 DEF ChannelContent
            <4> QED
                BY <4>3, <4>5
        <3> QED
            BY <3>1, <3>2
    <2>5. CASE WorkerExits(w)
        BY <1>0, <1>i, <2>5
        DEF WorkerExits, Created, ChannelCursors, ChannelContent, Running
    <2> QED
        BY <1>7, <2>1, <2>2, <2>3, <2>4, <2>5 DEF WorkerNext
<1>8. CASE WriterNext
    <2> USE DEF Created, ChannelCursors, ChannelContent, Running
    <2>1. CASE WriterLocks \/ SkipDying \/ Reap
        BY <1>0, <1>i, <2>1 DEF WriterLocks, SkipDying, Reap
    <2>2. CASE SnapshotWorker
        BY <1>0, <1>i, <2>2 DEF SnapshotWorker
    <2>3. CASE SendFrame
        BY <1>0, <1>i, <2>3 DEF SendFrame
    <2>4. CASE CommitWorker
        BY <1>0, <1>i, <2>4 DEF CommitWorker
    <2>5. CASE SnapshotRing \/ SendMeta \/ CommitRing
        BY <1>0, <1>i, <2>5 DEF SnapshotRing, SendMeta, CommitRing
    <2> QED
        BY <1>8, <2>1, <2>2, <2>3, <2>4, <2>5 DEF WriterNext
<1>9. ASSUME NEW t \in Threads, SpuriousWake(t)
      PROVE  ChannelCursors(v)' /\ ChannelContent(v)'
    BY <1>1, <1>9 DEF SpuriousWake
<1> QED
    BY <1>1, <1>2, <1>3, <1>4, <1>5, <1>6, <1>7, <1>8, <1>9
    DEF Next, ClientNext, vars

-----------------------------------------------------------------------------
LEMMA InvNext == IInv /\ [Next]_vars => IInv'
BY TypeNext, LockStep, RingCursorsStep, RingContentStep, RecorderCursorsStep,
   ListStep, ChannelStep
DEF IInv

(* The inductive invariant holds in every reachable state. *)
THEOREM Invariance == Spec => []IInv
<1> QED
    BY InvInit, InvNext, PTL DEF Spec

(* The reader never overwrites a packet whose metadata is still to be      *)
(* sent, for every ring size: it is at most a ring ahead of the writer     *)
(* (RingCursors), and the last ring of frames is intact (RingContent).     *)
THEOREM MetadataSafe == Spec => []MetadataIntact
<1>1. IInv => MetadataIntact
    <2> SUFFICES ASSUME IInv, NEW f \in (send_cptr + 1)..sdr_cptr
                 PROVE  sdr_inbuf[Slot(f)] = Genuine(f)
        BY DEF MetadataIntact
    <2>1. f \in 0..sdr_cptr /\ f >= OldestFrame
        BY DEF IInv, TypeOK, Cursor, RingCursors, OldestFrame
    <2> QED
        BY <2>1 DEF IInv, RingContent
<1> QED
    BY <1>1, Invariance, PTL

(* A worker never overwrites a packet of its channel that is still to be   *)
(* sent, for every ring size and any number of workers.                    *)
THEOREM OutbufSafe == Spec => []OutbufIntact
<1>1. IInv => OutbufIntact
    BY DEF IInv, ChannelInv, ChannelContent, OutbufIntact
<1> QED
    BY <1>1, Invariance, PTL

(* The writer never reads the packets of a worker that has freed them.     *)
THEOREM NoUseAfterFree == Spec => []NoReadAfterFree
<1>1. IInv => NoReadAfterFree
    <2> SUFFICES ASSUME IInv, spc = "send", s_last > s_send
                 PROVE  Running(s_w)
        BY DEF NoReadAfterFree
    <2>1. s_w \in Workers /\ enabled[s_w] /\ Created(s_w)
        BY DEF IInv, TypeOK, LockInv, ListInv
    <2>2. wpc[s_w] # "exited"
        BY <2>1 DEF IInv, TypeOK, Cursor, ChannelInv, ChannelCursors
    <2> QED
        BY <2>1, <2>2 DEF IInv, TypeOK, Created, Running
<1> QED
    BY <1>1, Invariance, PTL

-----------------------------------------------------------------------------
LEMMA RecorderStep ==
    ASSUME TypeOK, RecorderCursors, [Next]_vars,
           RecorderInRing, requests' = requests
    PROVE  RecorderInRing' \/ (RecorderPosition > rec_stop)'
<1> USE DEF RecorderInRing, RecorderPosition, OldestAtNextTurn
<1> USE DEF ringVars, Asleep, recordVars, readerVars, listVars, workerVars,
            writerVars, sentVars
<1>0. /\ sdr_cptr \in Int /\ rec_cptr \in Int /\ rec_stop \in Int
      /\ r_rec \in Int /\ requests \in Nat
      /\ rpc \in {"top", "after", "fread"}
    BY DEF TypeOK, Cursor
<1>1. CASE UNCHANGED <<rec_cptr, rec_stop, rpc, r_rec, sdr_cptr>>
    BY <1>1
<1>2. CASE ReaderNext
    <2>1. CASE WriteBatch
        BY <1>0, <2>1, BatchLengthPositive DEF WriteBatch
    <2>2. CASE AfterDisk
        <3>1. r_rec >= sdr_cptr - BUFSIZE + 2 /\ r_rec <= rec_stop
            BY <2>2 DEF AfterDisk
        <3>2. /\ rec_cptr' = r_rec
              /\ UNCHANGED <<rec_stop, sdr_cptr>>
              /\ rpc' \in {"top", "fread"}
            BY <2>2 DEF AfterDisk, Admit
        <3>3. rec_cptr' # INT32_MIN
            BY <2>2, <3>2 DEF AfterDisk, RecorderCursors, INT32_MIN
        <3> QED
            BY <1>0, <3>1, <3>2, <3>3
    <2>3. CASE TurnIdle
        BY <1>0, <2>3 DEF TurnIdle, Recording
    <2>4. CASE PublishFrame
        BY <1>0, <2>4 DEF PublishFrame
    <2> QED
        BY <1>2, <2>1, <2>2, <2>3, <2>4 DEF ReaderNext
<1>3. CASE RecordNext
    BY <1>0, <1>3 DEF RecordNext, RecordStart, RecordStop
<1>4. CASE ClientNext
    BY <1>1, <1>4 DEF ClientNext, SpawnXlater, PublishXlater, DestroyXlater
<1>5. ASSUME NEW w \in Workers, WorkerNext(w)
      PROVE  RecorderInRing'
    BY <1>1, <1>5
    DEF WorkerNext, WorkerSleeps, WorkerProceeds, WorkerFilters,
        WorkerCommits, WorkerExits
<1>6. CASE WriterNext
    BY <1>1, <1>6
    DEF WriterNext, WriterLocks, SnapshotWorker, SendFrame, CommitWorker,
        SkipDying, Reap, SnapshotRing, SendMeta, CommitRing
<1>7. ASSUME NEW t \in Threads, SpuriousWake(t) PROVE RecorderInRing'
    BY <1>1, <1>7 DEF SpuriousWake
<1> QED
    BY <1>1, <1>2, <1>3, <1>4, <1>5, <1>6, <1>7 DEF Next, vars

(* A recording within the ring is never lapped, for every ring size and    *)
(* every WRITE_FRAMES_SYNC: a turn of the reader records at least one      *)
(* frame before it overwrites at most one.                                 *)
THEOREM RecorderSafe == Spec => RecorderNotLapped
<1>1. IInv /\ [Next]_vars
        => [RecorderInRing /\ requests' = requests
             => RecorderInRing' \/ (RecorderPosition > rec_stop)']_vars
    BY RecorderStep DEF IInv
<1> QED
    BY <1>1, Invariance, PTL DEF Spec, RecorderNotLapped

(* Every slot is that of one of the last BUFSIZE frames. *)
LEMMA LastOfSlotExists ==
    ASSUME NEW p \in Int, sdr_cptr \in Int PROVE \E f \in LastOfSlot(p) : TRUE
<1> DEFINE n == sdr_cptr
           r == (n - p) % BUFSIZE
           q == (n - p) \div BUFSIZE
           f == n - r
           rf == f % BUFSIZE
           qf == f \div BUFSIZE
           rp == p % BUFSIZE
           qp == p \div BUFSIZE
<1>1. /\ r \in 0..(BUFSIZE - 1) /\ q \in Int /\ n - p = BUFSIZE * q + r
      /\ n \in Int
    OBVIOUS
<1>2. rp \in 0..(BUFSIZE - 1) /\ qp \in Int /\ p = BUFSIZE * qp + rp
    OBVIOUS
<1> HIDE DEF n, r, q
<1>3. f \in (n - BUFSIZE + 1)..n
    BY <1>1
<1>4. rf \in 0..(BUFSIZE - 1) /\ qf \in Int /\ f = BUFSIZE * qf + rf
    BY <1>3
<1>5. f - p = BUFSIZE * q
    BY <1>1
<1> HIDE DEF f, rf, qf, rp, qp
<1>6. rp - rf = BUFSIZE * (qf - qp - q)
    BY <1>1, <1>2, <1>3, <1>4, <1>5
<1>7. qf - qp - q = 0
    <2> DEFINE k == qf - qp - q
    <2>1. k \in Int /\ rp - rf = BUFSIZE * k
        BY <1>1, <1>2, <1>4, <1>6
    <2> HIDE DEF k
    <2>2. k < 1 /\ k > -1
        BY <1>2, <1>4, <2>1
    <2> QED
        BY <2>1, <2>2 DEF k
<1>8. rp = rf
    BY <1>2, <1>4, <1>6, <1>7
<1> QED
    BY <1>3, <1>8 DEF LastOfSlot, Slot, f, n, rf, rp

(* Before a batch the ring holds the last BUFSIZE frames whole, so that    *)
(* each packet written is the newest one of its slot.                      *)
LEMMA BatchIsWhole ==
    ASSUME IInv, rpc = "top", WriteBatch, RecorderInRing, NEW i \in DOMAIN disk'
    PROVE  LET p == disk'[i].pos
           IN  /\ p - WRITE_FRAMES_SYNC < rec_stop
               /\ p <= sdr_cptr => disk'[i] = Written(p, p)
               /\ p > sdr_cptr => i = 1
               /\ p > sdr_cptr /\ sdr_cptr + 1 >= BUFSIZE =>
                        \E f \in LastOfSlot(p) : disk'[i] = Written(p, f)
<1> DEFINE p == rec_cptr + i - 1
           held == sdr_inbuf[Slot(p)]
<1>0. /\ sdr_cptr \in Int /\ rec_cptr \in Int /\ rec_stop \in Int
      /\ BatchLength \in Nat /\ WRITE_FRAMES_SYNC \in Nat \ {0}
    BY SyncAssumption, BatchLengthPositive DEF IInv, TypeOK, Cursor
<1>1. /\ rec_cptr >= 0 /\ rec_cptr <= rec_stop
      /\ rec_cptr >= sdr_cptr - BUFSIZE + 1
    BY <1>0 DEF RecorderInRing, RecorderPosition, OldestAtNextTurn, IInv,
                RecorderCursors
<1>2. /\ i \in 1..BatchLength
      /\ disk'[i] = [pos |-> p, data |-> held.data, frameno |-> held.frameno]
    BY <1>0 DEF WriteBatch, Batch
<1> HIDE DEF held
<1>3. i \in Int /\ p \in Int /\ p >= rec_cptr /\ disk'[i].pos = p
    BY <1>0, <1>2
<1>4. p - WRITE_FRAMES_SYNC < rec_stop
    <2>1. BatchLength <= WRITE_FRAMES_SYNC
        BY <1>0 DEF BatchLength
    <2> QED
        BY <1>0, <1>1, <1>2, <1>3, <2>1
<1>5. p > sdr_cptr => i = 1
    BY <1>0, <1>2, <1>3 DEF BatchLength
<1> HIDE DEF p
<1>6. ASSUME NEW f \in 0..sdr_cptr, f >= sdr_cptr - BUFSIZE + 1, Slot(f) = Slot(p)
      PROVE  disk'[i] = Written(p, f)
    <2>1. sdr_inbuf[Slot(f)] = Genuine(f)
        BY <1>6 DEF IInv, RingContent, OldestFrame
    <2> QED
        BY <1>2, <1>6, <2>1 DEF Written, Genuine, held
<1>7. p <= sdr_cptr => disk'[i] = Written(p, p)
    BY <1>0, <1>1, <1>3, <1>6
<1>8. ASSUME p > sdr_cptr, sdr_cptr + 1 >= BUFSIZE
      PROVE  \E f \in LastOfSlot(p) : disk'[i] = Written(p, f)
    <2>1. PICK f \in LastOfSlot(p) : TRUE
        BY <1>0, <1>3, LastOfSlotExists
    <2>2. f \in 0..sdr_cptr /\ f >= sdr_cptr - BUFSIZE + 1 /\ Slot(f) = Slot(p)
        BY <1>0, <1>8, <2>1 DEF LastOfSlot
    <2> QED
        BY <1>6, <2>1, <2>2
<1> QED
    BY <1>3, <1>4, <1>5, <1>7, <1>8

(* What a recording within the ring writes is its frames under their own   *)
(* IDs, for every ring size and batch: the ring holds the last BUFSIZE     *)
(* frames (RingContent), and the batch starts at none older.               *)
THEOREM RecordingExact == Spec => RecordedAsAsked
<1> DEFINE Exact(i) ==
        LET p == disk'[i].pos
        IN  /\ p - WRITE_FRAMES_SYNC < rec_stop
            /\ p <= sdr_cptr => disk'[i] = Written(p, p)
            /\ p > sdr_cptr => i = 1
            /\ p > sdr_cptr /\ sdr_cptr + 1 >= BUFSIZE =>
                    \E f \in LastOfSlot(p) : disk'[i] = Written(p, f)
<1>1. ASSUME [Next]_vars, rpc = "top", rpc' = "after" PROVE WriteBatch
    <2> USE DEF ringVars, Asleep, recordVars, readerVars, listVars,
                workerVars, writerVars, sentVars
    <2>1. CASE ReaderNext
        BY <1>1, <2>1 DEF ReaderNext, AfterDisk, TurnIdle, PublishFrame, Admit
    <2>2. CASE rpc' = rpc
        BY <1>1, <2>2
    <2>3. CASE RecordNext
        BY <2>2, <2>3 DEF RecordNext, RecordStart, RecordStop
    <2>4. CASE ClientNext
        BY <2>2, <2>4 DEF ClientNext, SpawnXlater, PublishXlater, DestroyXlater
    <2>5. ASSUME NEW w \in Workers, WorkerNext(w) PROVE rpc' = rpc
        BY <2>5
        DEF WorkerNext, WorkerSleeps, WorkerProceeds, WorkerFilters,
            WorkerCommits, WorkerExits
    <2>6. CASE WriterNext
        BY <2>2, <2>6
        DEF WriterNext, WriterLocks, SnapshotWorker, SendFrame, CommitWorker,
            SkipDying, Reap, SnapshotRing, SendMeta, CommitRing
    <2>7. ASSUME NEW t \in Threads, SpuriousWake(t) PROVE rpc' = rpc
        BY <2>7 DEF SpuriousWake
    <2> QED
        BY <1>1, <2>1, <2>2, <2>3, <2>4, <2>5, <2>6, <2>7 DEF Next, vars
<1>2. ASSUME IInv, [Next]_vars, rpc = "top", rpc' = "after", RecorderInRing
      PROVE  \A i \in DOMAIN disk' : Exact(i)
    <2>1. WriteBatch
        BY <1>1, <1>2
    <2> QED
        BY <1>2, <2>1, BatchIsWhole
<1>3. IInv /\ [Next]_vars
        => [rpc = "top" /\ rpc' = "after" /\ RecorderInRing
             => \A i \in DOMAIN disk' : Exact(i)]_vars
    BY <1>2
<1> QED
    BY <1>3, Invariance, PTL DEF Spec, RecordedAsAsked

(* After the GUI's stop nothing is written until the next request, however *)
(* the stop races with a batch: rec_stop is negative and every cursor the  *)
(* recorder can store is not.                                              *)
THEOREM GuiStopSafe == Spec => GuiStopHolds
<1>1. ASSUME IInv, [Next]_vars, rec_stop = GuiStop
      PROVE  disk' = disk
    <2> USE DEF ringVars, Asleep, recordVars, readerVars, listVars,
                workerVars, writerVars, sentVars
    <2>1. ~WriteBatch
        BY <1>1
        DEF WriteBatch, Recording, GuiStop, IInv, RecorderCursors, TypeOK, Cursor
    <2>2. CASE ReaderNext
        BY <2>1, <2>2 DEF ReaderNext, AfterDisk, TurnIdle, PublishFrame
    <2>3. CASE RecordNext
        BY <2>3 DEF RecordNext, RecordStart, RecordStop
    <2>4. CASE ClientNext
        BY <2>4 DEF ClientNext, SpawnXlater, PublishXlater, DestroyXlater
    <2>5. ASSUME NEW w \in Workers, WorkerNext(w) PROVE disk' = disk
        BY <2>5
        DEF WorkerNext, WorkerSleeps, WorkerProceeds, WorkerFilters,
            WorkerCommits, WorkerExits
    <2>6. CASE WriterNext
        BY <2>6
        DEF WriterNext, WriterLocks, SnapshotWorker, SendFrame, CommitWorker,
            SkipDying, Reap, SnapshotRing, SendMeta, CommitRing
    <2>7. ASSUME NEW t \in Threads, SpuriousWake(t) PROVE disk' = disk
        BY <2>7 DEF SpuriousWake
    <2> QED
        BY <1>1, <2>2, <2>3, <2>4, <2>5, <2>6, <2>7 DEF Next, vars
<1>2. IInv /\ [Next]_vars
        => [rec_stop = GuiStop /\ requests' = requests => disk' = disk]_vars
    BY <1>1
<1> QED
    BY <1>2, Invariance, PTL DEF Spec, GuiStopHolds
=============================================================================
