---------------------------- MODULE ServerState ----------------------------
(***************************************************************************)
(* The shared memory of kukuruku-server: the globals of server/server.c,   *)
(* the list of struct worker (server/worker.h) and the control state of    *)
(* its threads.  The actions are in SdrReader, XlateWorker and             *)
(* SocketWriter; Server composes them.                                     *)
(*                                                                         *)
(* A frame is one SDR packet.  Its samples are abstracted to its ID: the   *)
(* frame with ID f is the one the reader counts as sdr_cptr = f, and a     *)
(* slot holding anything else holds the number of another frame, or Torn   *)
(* while the reader's fread is filling it.                                 *)
(*                                                                         *)
(* datamutex is only held over straight-line code, so a critical section   *)
(* under it is one atomic step.  llmutex is held over many steps and is a  *)
(* variable.                                                               *)
(***************************************************************************)
EXTENDS Integers

CONSTANTS
    BUFSIZE,            \* slots of sdr_inbuf and of every outbuf
    WRITE_FRAMES_SYNC,  \* frames the recorder writes per turn of the reader
    KillReportsExit,    \* pthread_kill(thr, 0) is ESRCH for an exited thread
    MaxWorkers,         \* bound: xlaters created in a behaviour
    MaxFrame,           \* bound: the ID of the last frame the SDR delivers
    MaxRequests,        \* bound: recording requests in a behaviour
    MaxWakeups          \* bound: spurious wakeups in a behaviour

ASSUME BufsizeAssumption == BUFSIZE \in Nat \ {0}
ASSUME SyncAssumption == WRITE_FRAMES_SYNC \in Nat \ {0}
ASSUME KillAssumption == KillReportsExit \in BOOLEAN
ASSUME BoundsAssumption ==
    /\ MaxWorkers \in Nat /\ MaxFrame \in Nat
    /\ MaxRequests \in Nat /\ MaxWakeups \in Nat

INT32_MIN == -2147483647 - 1
INT32_MAX == 2147483647

Torn == -2      \* content of a slot whose fread is in progress
None == -3      \* no frame, no worker

Workers == 0..(MaxWorkers - 1)  \* wids, handed out in order by widx
Frames == 0..MaxFrame
Cursor == Int

\* Threads that can sleep on datacond.  A worker is its wid.
Reader == -1
Threads == Workers \cup {Reader}

VARIABLES
    \* ring of SDR packets and the cursors into it (datamutex)
    sdr_inbuf, sdr_cptr, send_cptr, rec_cptr, rec_stop, waiting, wakeups,
    \* sdr_read_thr: program counter, _rec_cptr, the last batch put on disk
    rpc, r_rec, disk, requests,
    \* list of workers (llmutex) and the fields of each struct worker
    llmutex, widx, worker_head, enabled, last_written, w_send_cptr, outbuf,
    \* xlate_worker_thr: program counter and mypos
    wpc, mypos,
    \* socket_write_thr: program counter, w, _last_written or _sdr_cptr,
    \* _send_cptr
    spc, s_w, s_last, s_send,
    \* history: what went to the sockets, and where each channel started
    meta, sent, first, asked

ringVars == <<sdr_inbuf, sdr_cptr>>
recordVars == <<rec_cptr, rec_stop, requests>>
readerVars == <<rpc, r_rec, disk>>
listVars == <<llmutex, widx, worker_head, enabled>>
workerVars == <<last_written, outbuf, wpc, mypos, asked>>
writerVars == <<spc, s_w, s_last, s_send>>
sentVars == <<meta, sent, first>>
vars == <<ringVars, send_cptr, waiting, wakeups, recordVars, readerVars, listVars,
          workerVars, w_send_cptr, writerVars, sentVars>>

-----------------------------------------------------------------------------
(* Both rings are addressed modulo BUFSIZE. *)
Slots == 0..(BUFSIZE - 1)
Slot(f) == f % BUFSIZE

(* What a slot of sdr_inbuf holds: the frame read into it and the number   *)
(* the reader stamped on it, sdr_packet.frameno.                           *)
Packet == [data : Cursor, frameno : Cursor]
TornPacket == [data |-> Torn, frameno |-> Torn]

(* What a slot of an outbuf holds: the position the worker filtered it for *)
(* and the packet it actually found there.                                 *)
OutPacket == [pos : Cursor, data : Cursor, frameno : Cursor]
NoPacket == [pos |-> None, data |-> None, frameno |-> None]

(* pthread_cond_broadcast(&datacond) and pthread_cond_wait *)
Broadcast == waiting' = {} /\ UNCHANGED wakeups
Sleep(t) == waiting' = waiting \cup {t} /\ UNCHANGED wakeups
Asleep == <<waiting, wakeups>>

(* A worker that has been created, and one whose thread still runs *)
Created(w) == wpc[w] # "none"
Running(w) == wpc[w] \in {"check", "copy", "commit"}

-----------------------------------------------------------------------------
(* Static initialisers of server.c, and main before it starts the threads. *)
StateInit ==
    /\ sdr_inbuf = [i \in Slots |-> TornPacket]
    /\ sdr_cptr = -1
    /\ send_cptr = -1
    /\ rec_cptr = INT32_MIN
    /\ rec_stop = 0
    /\ waiting = {} /\ wakeups = 0
    /\ requests = 0
    /\ rpc = "top" /\ r_rec = INT32_MIN /\ disk = <<>>
    /\ llmutex = "free" /\ widx = 0 /\ worker_head = {}
    /\ enabled = [w \in Workers |-> FALSE]
    /\ last_written = [w \in Workers |-> None]
    /\ w_send_cptr = [w \in Workers |-> None]
    /\ outbuf = [w \in Workers |-> [i \in Slots |-> NoPacket]]
    /\ wpc = [w \in Workers |-> "none"]
    /\ mypos = [w \in Workers |-> None]
    /\ asked = [w \in Workers |-> None]
    /\ spc = "idle" /\ s_w = None /\ s_last = None /\ s_send = None
    /\ meta = NoPacket
    /\ sent = [w \in Workers |-> NoPacket]
    /\ first = [w \in Workers |-> None]

(* pthread_cond_wait may return without a broadcast. *)
SpuriousWake(t) ==
    /\ t \in waiting
    /\ wakeups < MaxWakeups     \* bound
    /\ wakeups' = wakeups + 1
    /\ waiting' = waiting \ {t}
    /\ UNCHANGED <<ringVars, send_cptr, recordVars, readerVars, listVars,
                   workerVars, w_send_cptr, writerVars, sentVars>>
=============================================================================
