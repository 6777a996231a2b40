----------------------------- MODULE LineProofs -----------------------------
(***************************************************************************)
(* A channel plays from the line of the waterfall it was asked for, for    *)
(* every BUFSIZE, every number of workers and every interleaving.          *)
(***************************************************************************)
EXTENDS ServerProofs

USE BufsizeAssumption

-----------------------------------------------------------------------------
(* A frame and the frame a ring earlier share a slot, a whole number of    *)
(* rings lies between two frames of one slot, and a frame of a slot that   *)
(* is less than a ring behind another one is not behind it.                *)
LEMMA SmallMultiple ==
    ASSUME NEW k \in Int, -BUFSIZE < BUFSIZE * k, BUFSIZE * k < BUFSIZE
    PROVE  BUFSIZE * k = 0
<1>1. ~(k >= 1)
    OBVIOUS
<1>2. ~(k <= -1)
    OBVIOUS
<1> QED
    BY <1>1, <1>2

LEMMA SlotPeriod ==
    ASSUME NEW a \in Int PROVE Slot(a - BUFSIZE) = Slot(a)
<1> DEFINE q == a \div BUFSIZE
           r == a % BUFSIZE
           p == (a - BUFSIZE) \div BUFSIZE
           s == (a - BUFSIZE) % BUFSIZE
<1>1. /\ q \in Int /\ r \in 0..(BUFSIZE - 1) /\ a = BUFSIZE * q + r
      /\ p \in Int /\ s \in 0..(BUFSIZE - 1) /\ a - BUFSIZE = BUFSIZE * p + s
    OBVIOUS
<1>2. r = s
    <2> HIDE DEF q, r, p, s
    <2>1. BUFSIZE * (p - q + 1) = r - s
        BY <1>1
    <2>2. p - q + 1 \in Int /\ -BUFSIZE < r - s /\ r - s < BUFSIZE
        BY <1>1
    <2>3. BUFSIZE * (p - q + 1) = 0
        BY <2>1, <2>2, SmallMultiple
    <2> QED
        BY <1>1, <2>1, <2>3
<1> QED
    BY <1>2 DEF Slot

LEMMA SlotMultiple ==
    ASSUME NEW a \in Int, NEW b \in Int, Slot(a) = Slot(b)
    PROVE  (a - b) % BUFSIZE = 0
<1> DEFINE qa == a \div BUFSIZE
           qb == b \div BUFSIZE
           qd == (a - b) \div BUFSIZE
           r  == (a - b) % BUFSIZE
<1>1. /\ qa \in Int /\ qb \in Int
      /\ a = BUFSIZE * qa + (a % BUFSIZE)
      /\ b = BUFSIZE * qb + (b % BUFSIZE)
    OBVIOUS
<1>2. qd \in Int /\ r \in 0..(BUFSIZE - 1) /\ a - b = BUFSIZE * qd + r
    OBVIOUS
<1>3. a % BUFSIZE = b % BUFSIZE
    BY DEF Slot
<1>4. r = 0
    <2> HIDE DEF qa, qb, qd, r
    <2>1. BUFSIZE * (qa - qb - qd) = r
        BY <1>1, <1>2, <1>3
    <2>2. qa - qb - qd \in Int /\ -BUFSIZE < r /\ r < BUFSIZE
        BY <1>1, <1>2
    <2>3. BUFSIZE * (qa - qb - qd) = 0
        BY <2>1, <2>2, SmallMultiple
    <2> QED
        BY <2>1, <2>3
<1> QED
    BY <1>4

LEMMA SlotNotEarlier ==
    ASSUME NEW a \in Int, NEW b \in Int, Slot(a) = Slot(b), a > b - BUFSIZE
    PROVE  a >= b
BY SlotsDistinct

-----------------------------------------------------------------------------
LEMMA LineInit == Init => LineInv
<1> SUFFICES ASSUME Init PROVE LineInv
    OBVIOUS
<1> USE DEF Init, StateInit
<1>1. RingNumbers
    BY DEF RingNumbers, TornPacket
<1>2. \A w \in Workers : ~Created(w) /\ ChannelStart(w)
    BY DEF Created, ChannelStart
<1>3. PlaysFromAskedLine
    BY DEF PlaysFromAskedLine
<1> QED
    BY <1>1, <1>2, <1>3 DEF LineInv

(* Publishing a frame turns the oldest number that may be in the ring into *)
(* one too old, but that number is of the very slot being published.       *)
LEMMA RingNumbersStep ==
    ASSUME TypeOK, RingNumbers, [Next]_vars PROVE RingNumbers'
<1> USE DEF ringVars, Asleep, recordVars, readerVars, listVars, workerVars,
            writerVars, sentVars
<1>0. /\ sdr_cptr \in Int /\ sdr_inbuf \in [Slots -> Packet]
      /\ \A i \in Slots : sdr_inbuf[i].frameno \in Int
    BY DEF TypeOK, Cursor, Packet
<1>1. CASE UNCHANGED ringVars
    BY <1>1 DEF RingNumbers
<1>2. CASE ReaderNext
    <2>1. CASE Admit
        BY <1>0, <2>1 DEF Admit, RingNumbers, TornPacket
    <2>2. CASE WriteBatch
        BY <1>1, <2>2 DEF WriteBatch
    <2>3. CASE AfterDisk \/ TurnIdle
        BY <2>1, <2>3 DEF AfterDisk, TurnIdle
    <2>4. CASE PublishFrame
        <3> DEFINE f == sdr_cptr + 1
        <3>1. /\ sdr_inbuf' = [sdr_inbuf EXCEPT ![Slot(f)] = Genuine(f)]
              /\ sdr_cptr' = f
            BY <1>0, <2>4 DEF PublishFrame, Genuine
        <3>2. SUFFICES ASSUME NEW i \in Slots,
                              sdr_inbuf'[i].frameno # Torn
                       PROVE  LET n == sdr_inbuf'[i].frameno
                              IN  /\ n >= -1 /\ n >= f - BUFSIZE
                                  /\ n < f /\ Slot(n + 1) = i
            BY <1>0, <3>1 DEF RingNumbers
        <3>3. CASE i = Slot(f)
            <4>1. sdr_inbuf'[i].frameno = f - 1
                BY <1>0, <3>1, <3>3 DEF Genuine
            <4> QED
                BY <1>0, <3>3, <4>1 DEF RingNumbers
        <3>4. CASE i # Slot(f)
            <4> DEFINE n == sdr_inbuf[i].frameno
            <4>1. sdr_inbuf'[i] = sdr_inbuf[i]
                BY <1>0, <3>1, <3>4
            <4>2. /\ n \in Int /\ n >= -1 /\ n >= sdr_cptr - BUFSIZE
                  /\ n < sdr_cptr /\ Slot(n + 1) = i
                BY <1>0, <3>2, <4>1 DEF RingNumbers
            <4> HIDE DEF n
            <4>3. n # sdr_cptr - BUFSIZE
                <5> SUFFICES ASSUME n + 1 = f - BUFSIZE PROVE FALSE
                    BY <1>0, <4>2
                <5> QED
                    BY <1>0, <3>4, <4>2, SlotPeriod
            <4> QED
                BY <1>0, <4>1, <4>2, <4>3 DEF n
        <3> QED
            BY <3>3, <3>4
    <2> QED
        BY <1>2, <2>2, <2>3, <2>4 DEF ReaderNext
<1>3. CASE RecordNext \/ ClientNext
    BY <1>1, <1>3
    DEF RecordNext, RecordStart, RecordStop, ClientNext, SpawnXlater,
        PublishXlater, DestroyXlater
<1>4. ASSUME NEW w \in Workers, WorkerNext(w) PROVE RingNumbers'
    BY <1>1, <1>4
    DEF WorkerNext, WorkerSleeps, WorkerProceeds, WorkerFilters,
        WorkerCommits, WorkerExits
<1>5. CASE WriterNext
    BY <1>1, <1>5
    DEF WriterNext, WriterLocks, SnapshotWorker, SendFrame, CommitWorker,
        SkipDying, Reap, SnapshotRing, SendMeta, CommitRing
<1>6. ASSUME NEW t \in Threads, SpuriousWake(t) PROVE RingNumbers'
    BY <1>1, <1>6 DEF SpuriousWake
<1> QED
    BY <1>1, <1>2, <1>3, <1>4, <1>5, <1>6 DEF Next, vars

(* What a worker finds for a position behind the current frame is torn, or *)
(* a frame of that slot which is no older.                                 *)
LEMMA FoundOnLine ==
    ASSUME TypeOK, RingNumbers, NEW p \in Int, p < sdr_cptr
    PROVE  OnLine(sdr_inbuf[Slot(p)].frameno, p)
<1> DEFINE n == sdr_inbuf[Slot(p)].frameno
<1>1. n \in Int /\ sdr_cptr \in Int /\ Slot(p) \in Slots
    BY SlotInRange DEF TypeOK, Packet, Cursor
<1> SUFFICES ASSUME n # Torn PROVE OnLine(n, p)
    BY DEF OnLine
<1>2. n >= -1 /\ n >= sdr_cptr - BUFSIZE /\ Slot(n + 1) = Slot(p)
    BY <1>1 DEF RingNumbers
<1> HIDE DEF n
<1>3. n + 1 >= p
    BY <1>1, <1>2, SlotNotEarlier
<1> QED
    BY <1>1, <1>2, <1>3 DEF OnLine

(* Only its own worker writes into an outbuf, at the next position, which  *)
(* shares no slot with a packet that is still to be sent.                  *)
LEMMA ChannelNumbersStep ==
    ASSUME IInv, [Next]_vars, RingNumbers, NEW v \in Workers, Created(v)',
           Created(v) => ChannelNumbers(v)
    PROVE  ChannelNumbers(v)'
<1> USE DEF ringVars, Asleep, recordVars, readerVars, listVars, workerVars,
            writerVars, sentVars
<1>0. /\ sdr_cptr \in Int
      /\ last_written \in [Workers -> Int] /\ w_send_cptr \in [Workers -> Int]
      /\ mypos \in [Workers -> Int]
      /\ wpc \in [Workers -> {"none", "check", "copy", "commit", "exited"}]
      /\ outbuf \in [Workers -> [Slots -> OutPacket]]
    BY DEF IInv, TypeOK, Cursor
<1>i. Created(v) => ChannelCursors(v)
    BY DEF IInv, ChannelInv
<1>1. CASE UNCHANGED <<sdr_cptr, last_written, w_send_cptr, outbuf, wpc, mypos>>
    BY <1>1 DEF Created, ChannelNumbers
<1>2. CASE ReaderNext
    <2>1. CASE WriteBatch \/ AfterDisk \/ TurnIdle
        BY <1>1, <2>1 DEF WriteBatch, AfterDisk, TurnIdle, Admit
    <2>2. CASE PublishFrame
        BY <1>0, <2>2 DEF PublishFrame, Created, ChannelNumbers
    <2> QED
        BY <1>2, <2>1, <2>2 DEF ReaderNext
<1>3. CASE RecordNext
    BY <1>1, <1>3 DEF RecordNext, RecordStart, RecordStop
<1>4. ASSUME NEW history \in Histories, SpawnXlater(history)
      PROVE  ChannelNumbers(v)'
    <2>1. StartPosition(history) \in Int
        BY DEF IInv, Histories, StartPosition, TypeOK, OutPacket, Cursor
    <2>2. CASE v = widx
        <3>1. /\ last_written'[v] = StartPosition(history)
              /\ w_send_cptr'[v] = StartPosition(history)
              /\ wpc'[v] = "check"
            BY <1>0, <1>4, <2>2 DEF SpawnXlater
        <3> QED
            BY <2>1, <3>1 DEF ChannelNumbers
    <2>3. CASE v # widx
        BY <1>0, <1>4, <2>3 DEF SpawnXlater, Created, ChannelNumbers
    <2> QED
        BY <2>2, <2>3
<1>5. CASE PublishXlater
    BY <1>1, <1>5 DEF PublishXlater
<1>6. ASSUME NEW w \in Workers, DestroyXlater(w) PROVE ChannelNumbers(v)'
    BY <1>1, <1>6 DEF DestroyXlater
<1>7. ASSUME NEW w \in Workers, WorkerNext(w) PROVE ChannelNumbers(v)'
    <2>1. CASE WorkerSleeps(w)
        BY <1>1, <2>1 DEF WorkerSleeps
    <2>2. CASE WorkerProceeds(w)
        BY <1>0, <2>2 DEF WorkerProceeds, NoData, Created, ChannelNumbers
    <2>3. CASE WorkerFilters(w)
        <3>1. CASE v # w
            <4>1. /\ outbuf'[v] = outbuf[v] /\ wpc'[v] = wpc[v]
                  /\ UNCHANGED <<sdr_cptr, last_written, w_send_cptr, mypos>>
                BY <1>0, <2>3, <3>1 DEF WorkerFilters
            <4> QED
                BY <4>1 DEF Created, ChannelNumbers
        <3>2. CASE v = w
            <4> DEFINE p == mypos[v]
                       packet == [pos |-> p, data |-> sdr_inbuf[Slot(p)].data,
                                  frameno |-> sdr_inbuf[Slot(p)].frameno]
            <4>1. /\ outbuf'[v] = [outbuf[v] EXCEPT ![Slot(p)] = packet]
                  /\ wpc[v] = "copy" /\ wpc'[v] = "commit"
                  /\ UNCHANGED <<sdr_cptr, last_written, w_send_cptr, mypos>>
                BY <1>0, <2>3, <3>2 DEF WorkerFilters
            <4>2. p \in Int /\ p < sdr_cptr
                BY <1>0, <4>1 DEF Created, ChannelNumbers
            <4>3. OnLine(packet.frameno, p)
                BY <4>2, FoundOnLine DEF IInv
            <4>4. OnLine(outbuf'[v][Slot(p)].frameno, p)
                BY <1>0, <4>1, <4>2, <4>3, SlotInRange
            <4>5. ASSUME NEW f \in (w_send_cptr[v] + 1)..last_written[v]
                  PROVE  OnLine(outbuf'[v][Slot(f)].frameno, f)
                <5>1. f < p /\ p - f < BUFSIZE
                    BY <1>0, <1>i, <4>1 DEF Created, ChannelCursors, Running
                <5>2. Slot(f) # Slot(p)
                    BY <1>0, <5>1, SlotsDistinct
                <5>3. OnLine(outbuf[v][Slot(f)].frameno, f)
                    BY <4>1 DEF Created, ChannelNumbers
                <5>4. outbuf'[v][Slot(f)] = outbuf[v][Slot(f)]
                    <6> HIDE DEF packet
                    <6> QED
                        BY <1>0, <4>1, <5>2, SlotInRange
                <5> QED
                    BY <5>3, <5>4
            <4> QED
                BY <4>1, <4>4, <4>5 DEF ChannelNumbers
        <3> QED
            BY <3>1, <3>2
    <2>4. CASE WorkerCommits(w)
        <3>1. CASE v # w
            BY <1>0, <2>4, <3>1 DEF WorkerCommits, Created, ChannelNumbers
        <3>2. CASE v = w
            <4>1. /\ last_written'[v] = mypos[v] /\ wpc'[v] = "check"
                  /\ wpc[v] = "commit"
                  /\ UNCHANGED <<outbuf, w_send_cptr>>
                BY <1>0, <2>4, <3>2 DEF WorkerCommits
            <4>2. mypos[v] = last_written[v] + 1
                BY <1>i, <4>1 DEF Created, ChannelCursors, Running
            <4>3. ASSUME NEW f \in (w_send_cptr[v] + 1)..mypos[v]
                  PROVE  OnLine(outbuf[v][Slot(f)].frameno, f)
                <5>1. f = mypos[v] \/ f \in (w_send_cptr[v] + 1)..last_written[v]
                    BY <1>0, <4>2
                <5> QED
                    BY <4>1, <5>1 DEF Created, ChannelNumbers
            <4> QED
                BY <4>1, <4>3 DEF ChannelNumbers
        <3> QED
            BY <3>1, <3>2
    <2>5. CASE WorkerExits(w)
        BY <1>0, <2>5 DEF WorkerExits, Created, ChannelNumbers
    <2> QED
        BY <1>7, <2>1, <2>2, <2>3, <2>4, <2>5 DEF WorkerNext
<1>8. CASE WriterNext
    <2>1. CASE CommitWorker
        <3>1. /\ w_send_cptr' = [w_send_cptr EXCEPT ![s_w] = s_send]
              /\ UNCHANGED <<sdr_cptr, last_written, outbuf, wpc, mypos>>
            BY <2>1 DEF CommitWorker
        <3>2. s_send \in Int /\ (s_w = v => w_send_cptr[v] <= s_send)
            BY <1>i, <2>1, <3>1
            DEF CommitWorker, IInv, TypeOK, Cursor, Created, ChannelCursors
        <3> QED
            BY <1>0, <3>1, <3>2 DEF Created, ChannelNumbers
    <2>2. CASE ~CommitWorker
        BY <1>1, <1>8, <2>2
        DEF WriterNext, WriterLocks, SnapshotWorker, SendFrame, SkipDying,
            Reap, SnapshotRing, SendMeta, CommitRing
    <2> QED
        BY <2>1, <2>2
<1>9. ASSUME NEW t \in Threads, SpuriousWake(t) PROVE ChannelNumbers(v)'
    BY <1>1, <1>9 DEF SpuriousWake
<1> QED
    BY <1>1, <1>2, <1>3, <1>4, <1>5, <1>6, <1>7, <1>8, <1>9
    DEF Next, ClientNext, vars

(* The first packet sent is the one after the start position: it is on the *)
(* line asked for.  A wid is new when its channel starts.                  *)
LEMMA ChannelStartStep ==
    ASSUME IInv, [Next]_vars, LineInv, NEW v \in Workers
    PROVE  ChannelStart(v)' /\ (\/ first[v] \in {None, Torn}
                                \/ /\ first[v] >= asked[v]
                                   /\ (first[v] - asked[v]) % BUFSIZE = 0)'
<1> DEFINE Plays == \/ first[v] \in {None, Torn}
                    \/ /\ first[v] >= asked[v]
                       /\ (first[v] - asked[v]) % BUFSIZE = 0
<1> SUFFICES ChannelStart(v)' /\ Plays'
    OBVIOUS
<1> USE DEF ringVars, Asleep, recordVars, readerVars, listVars, workerVars,
            writerVars, sentVars
<1>0. /\ v \in Int /\ widx \in Int /\ s_send \in Int /\ s_last \in Int
      /\ w_send_cptr \in [Workers -> Int] /\ asked \in [Workers -> Int]
      /\ last_written \in [Workers -> Int]
      /\ first \in [Workers -> Int] /\ sent \in [Workers -> OutPacket]
      /\ wpc \in [Workers -> {"none", "check", "copy", "commit", "exited"}]
    BY BoundsAssumption DEF IInv, TypeOK, Cursor, Workers
<1>i. ChannelStart(v) /\ Plays
    BY DEF LineInv, PlaysFromAskedLine
<1> HIDE DEF Plays
<1>1. CASE UNCHANGED <<wpc, widx, llmutex, sent, first, w_send_cptr, asked,
                       spc, s_w, s_send>>
    BY <1>1, <1>i DEF ChannelStart, Created, Plays
<1>2. CASE ReaderNext
    BY <1>1, <1>2 DEF ReaderNext, WriteBatch, AfterDisk, TurnIdle, PublishFrame
<1>3. CASE RecordNext
    BY <1>1, <1>3 DEF RecordNext, RecordStart, RecordStop
<1>4. ASSUME NEW history \in Histories, SpawnXlater(history)
      PROVE  ChannelStart(v)' /\ Plays'
    <2>1. /\ llmutex = "free" /\ llmutex' = "client" /\ spc = "idle"
          /\ UNCHANGED <<widx, sent, first, spc, s_w, s_send>>
        BY <1>4 DEF SpawnXlater, IInv, LockInv
    <2>2. CASE v = widx
        <3>1. /\ ~Created(v) /\ sent[v] = NoPacket /\ first[v] = None
            BY <1>0, <1>i, <2>1, <2>2 DEF ChannelStart
        <3>2. w_send_cptr'[v] = StartPosition(history)
              /\ asked'[v] = StartPosition(history)
            BY <1>0, <1>4, <2>2 DEF SpawnXlater
        <3> QED
            BY <2>1, <2>2, <3>1, <3>2 DEF ChannelStart, Plays, Created
    <2>3. CASE v # widx
        <3>1. /\ wpc'[v] = wpc[v] /\ asked'[v] = asked[v]
              /\ w_send_cptr'[v] = w_send_cptr[v]
            BY <1>0, <1>4, <2>3 DEF SpawnXlater
        <3> QED
            BY <1>i, <2>1, <3>1 DEF ChannelStart, Created, Plays
    <2> QED
        BY <2>2, <2>3
<1>5. CASE PublishXlater
    BY <1>0, <1>5, <1>i DEF PublishXlater, ChannelStart, Created, Plays
<1>6. ASSUME NEW w \in Workers, DestroyXlater(w)
      PROVE  ChannelStart(v)' /\ Plays'
    BY <1>1, <1>6 DEF DestroyXlater
<1>7. ASSUME NEW w \in Workers, WorkerNext(w)
      PROVE  ChannelStart(v)' /\ Plays'
    <2>1. /\ Created(v)' <=> Created(v)
          /\ UNCHANGED <<widx, llmutex, sent, first, w_send_cptr, asked, spc,
                         s_w, s_send>>
        BY <1>0, <1>7
        DEF WorkerNext, WorkerSleeps, WorkerProceeds, WorkerFilters,
            WorkerCommits, WorkerExits, Created
    <2> QED
        BY <1>i, <2>1 DEF ChannelStart, Plays
<1>8. CASE WriterNext
    <2>c. Created(v)' <=> Created(v)
        BY <1>8
        DEF WriterNext, WriterLocks, SnapshotWorker, SendFrame, CommitWorker,
            SkipDying, Reap, SnapshotRing, SendMeta, CommitRing, Created
    <2>l. spc # "idle" => llmutex = "writer"
        BY DEF IInv, LockInv
    <2>1. CASE WriterLocks
        BY <1>i, <2>c, <2>1 DEF WriterLocks, ChannelStart, Plays
    <2>2. CASE SnapshotWorker
        BY <1>i, <2>c, <2>2 DEF SnapshotWorker, ChannelStart, Plays
    <2>3. CASE SendFrame
        <3> DEFINE packet == outbuf[s_w][Slot(s_send + 1)]
                   n == packet.frameno
        <3>1. /\ sent' = [sent EXCEPT ![s_w] = packet]
              /\ first' = [first EXCEPT ![s_w] =
                              IF sent[s_w] = NoPacket THEN n ELSE @]
              /\ s_send' = s_send + 1 /\ spc = "send" /\ s_last > s_send
              /\ UNCHANGED <<widx, llmutex, w_send_cptr, asked, spc, s_w>>
            BY <2>3 DEF SendFrame
        <3>2. CASE v # s_w
            <4>1. sent'[v] = sent[v] /\ first'[v] = first[v]
                BY <1>0, <3>1, <3>2
            <4> QED
                BY <1>i, <2>c, <3>1, <3>2, <4>1 DEF ChannelStart, Plays
        <3>3. CASE v = s_w
            <4>1. Created(v) /\ ChannelCursors(v) /\ ChannelNumbers(v)
                BY <3>1, <3>3
                DEF IInv, LockInv, ListInv, ChannelInv, LineInv
            <4>2. s_send + 1 \in (w_send_cptr[v] + 1)..last_written[v]
                BY <1>0, <3>1, <3>3, <4>1 DEF ChannelCursors
            <4>3. OnLine(n, s_send + 1)
                BY <3>3, <4>1, <4>2 DEF ChannelNumbers
            <4>4. packet \in OutPacket /\ n \in Int
                BY <1>0, <3>3, ReadTypes DEF IInv, OutPacket, Cursor
            <4>5. packet # NoPacket
                BY <4>3, <4>4 DEF OnLine, NoPacket, None, Torn
            <4>6. sent'[v] = packet
                BY <1>0, <3>1, <3>3
            <4>7. CASE sent[v] = NoPacket
                <5>1. s_send = asked[v]
                    BY <1>i, <3>1, <3>3, <4>1, <4>7 DEF ChannelStart
                <5>2. first'[v] = n /\ asked'[v] = asked[v]
                    BY <1>0, <3>1, <3>3, <4>7
                <5>3. n # Torn => n >= asked[v] /\ Slot(n + 1) = Slot(asked[v] + 1)
                    BY <1>0, <4>3, <4>4, <5>1 DEF OnLine
                <5> HIDE DEF n, packet
                <5>4. n # Torn => (n - asked[v]) % BUFSIZE = 0
                    <6>1. asked[v] \in Int /\ n \in Int
                        BY <1>0, <4>4
                    <6>2. (n + 1) - (asked[v] + 1) = n - asked[v]
                        BY <6>1
                    <6>3. n # Torn => ((n + 1) - (asked[v] + 1)) % BUFSIZE = 0
                        BY <5>3, <6>1, SlotMultiple
                    <6> QED
                        BY <6>2, <6>3
                <5>5. Plays'
                    BY <5>2, <5>3, <5>4 DEF Plays
                <5> QED
                    BY <1>i, <2>c, <3>1, <4>1, <4>5, <4>6, <5>5 DEF ChannelStart
            <4>8. CASE sent[v] # NoPacket
                <5>1. first'[v] = first[v]
                    BY <1>0, <3>1, <3>3, <4>8
                <5> QED
                    BY <1>i, <2>c, <3>1, <4>1, <4>5, <4>6, <5>1
                    DEF ChannelStart, Plays
            <4> QED
                BY <4>7, <4>8
        <3> QED
            BY <3>2, <3>3
    <2>4. CASE CommitWorker
        <3>1. /\ w_send_cptr'[v] = IF v = s_w THEN s_send ELSE w_send_cptr[v]
              /\ spc = "send" /\ spc' = "visit"
              /\ UNCHANGED <<widx, llmutex, sent, first, asked>>
            BY <1>0, <2>4 DEF CommitWorker
        <3> QED
            BY <1>i, <2>c, <3>1 DEF ChannelStart, Plays
    <2>5. CASE SkipDying \/ Reap
        BY <1>i, <2>c, <2>l, <2>5 DEF SkipDying, Reap, ChannelStart, Plays
    <2>6. CASE SnapshotRing \/ SendMeta \/ CommitRing
        BY <1>i, <2>c, <2>l, <2>6
        DEF SnapshotRing, SendMeta, CommitRing, ChannelStart, Plays
    <2> QED
        BY <1>8, <2>1, <2>2, <2>3, <2>4, <2>5, <2>6 DEF WriterNext
<1>9. ASSUME NEW t \in Threads, SpuriousWake(t)
      PROVE  ChannelStart(v)' /\ Plays'
    BY <1>1, <1>9 DEF SpuriousWake
<1> QED
    BY <1>1, <1>2, <1>3, <1>4, <1>5, <1>6, <1>7, <1>8, <1>9
    DEF Next, ClientNext, vars

-----------------------------------------------------------------------------
LEMMA LineNext == IInv /\ LineInv /\ [Next]_vars => LineInv'
<1> SUFFICES ASSUME IInv, LineInv, [Next]_vars PROVE LineInv'
    OBVIOUS
<1>1. RingNumbers'
    BY RingNumbersStep DEF IInv, LineInv
<1>2. ASSUME NEW w \in Workers, Created(w)' PROVE ChannelNumbers(w)'
    BY <1>2, ChannelNumbersStep DEF LineInv
<1>3. (\A w \in Workers : ChannelStart(w))' /\ PlaysFromAskedLine'
    BY ChannelStartStep DEF PlaysFromAskedLine
<1> QED
    BY <1>1, <1>2, <1>3 DEF LineInv

(* In every state the slots of the ring carry frame numbers of their own,  *)
(* torn or at most a ring old, every packet of an outbuf has one that its  *)
(* position can have found there, and a channel that has sent nothing      *)
(* stands where its request put it (sdr_read_thr, xlate_worker_thr and     *)
(* create_xlate_worker).                                                   *)
THEOREM LineInvariance == Spec => []LineInv
BY Invariance, LineInit, LineNext, PTL DEF Spec

(* A channel plays from the line it was asked for: the first packet sent   *)
(* is the one whose metadata carried that frameno, or it is torn, or whole *)
(* rings later, however the reader, the worker and the writer interleave.  *)
THEOREM PlaysFromLine == Spec => []PlaysFromAskedLine
<1>1. LineInv => PlaysFromAskedLine
    BY DEF LineInv
<1> QED
    BY <1>1, LineInvariance, PTL
=============================================================================
