---------------------------- MODULE XlateWorker -----------------------------
(***************************************************************************)
(* The xlater threads (server/xlate_worker.c): creation by a client's      *)
(* CREATE_XLATER, xlate_worker_thr, and the request that destroys one.     *)
(*                                                                         *)
(*   none --- created ---> check <--- no data or no space: sleep           *)
(*   check ---> copy (filter a packet) ---> commit ---> check or exited    *)
(*                                                                         *)
(* Filtering keeps the packet's identity: the output packet at position p  *)
(* is stamped with p and with what the worker found in sdr_inbuf.  Taps    *)
(* are not modelled here.                                                  *)
(***************************************************************************)
EXTENDS ServerState

(* The start position of a new channel: after the current frame, or after  *)
(* the frame the client asked for, at most BUFSIZE back.                   *)
StartPosition(history) ==
    IF history = -1 THEN sdr_cptr
    ELSE IF history < sdr_cptr - BUFSIZE THEN sdr_cptr - BUFSIZE
    ELSE history

(* create_xlate_worker up to pthread_create.  The thread runs from here    *)
(* on, although its worker is neither enabled nor in the list yet.         *)
SpawnXlater(history) ==
    /\ llmutex = "free"
    /\ widx < MaxWorkers        \* bound
    /\ llmutex' = "client"
    /\ LET start == StartPosition(history)
       IN  /\ last_written' = [last_written EXCEPT ![widx] = start]
           /\ w_send_cptr' = [w_send_cptr EXCEPT ![widx] = start]
           /\ mypos' = [mypos EXCEPT ![widx] = start + 1]
           /\ asked' = [asked EXCEPT ![widx] = start]
    /\ wpc' = [wpc EXCEPT ![widx] = "check"]
    /\ UNCHANGED <<ringVars, send_cptr, Asleep, recordVars, readerVars,
                   widx, worker_head, enabled, outbuf, writerVars, sentVars>>

(* Bug: widx is incremented before the worker is inserted under it. *)
PublishXlaterSwapped ==
    /\ llmutex = "client"
    /\ enabled' = [enabled EXCEPT ![widx] = TRUE]
    /\ widx' = widx + 1
    /\ worker_head' = worker_head \cup {widx + 1}
    /\ llmutex' = "free"
    /\ UNCHANGED <<ringVars, send_cptr, Asleep, recordVars, readerVars,
                   workerVars, w_send_cptr, writerVars, sentVars>>

(* The rest of create_xlate_worker, and the end of the critical section.   *)
(* The list is kept as a set: workers are inserted at its head with rising *)
(* wids, so walking it is visiting the set by falling wid.                 *)
PublishXlater ==
    /\ llmutex = "client"
    /\ enabled' = [enabled EXCEPT ![widx] = TRUE]
    /\ worker_head' = worker_head \cup {widx}
    /\ widx' = widx + 1
    /\ llmutex' = "free"
    /\ UNCHANGED <<ringVars, send_cptr, Asleep, recordVars, readerVars,
                   workerVars, w_send_cptr, writerVars, sentVars>>

(* Bug: a request disables the worker without taking llmutex. *)
DestroyXlaterUnlocked(w) ==
    /\ w \in worker_head
    /\ enabled[w]
    /\ enabled' = [enabled EXCEPT ![w] = FALSE]
    /\ UNCHANGED <<ringVars, send_cptr, Asleep, recordVars, readerVars,
                   llmutex, widx, worker_head, workerVars, w_send_cptr,
                   writerVars, sentVars>>

(* DESTROY_XLATER; unsubscribing is in the control protocol, not here *)
DestroyXlater(w) ==
    /\ llmutex = "free"
    /\ w \in worker_head
    /\ enabled[w]
    /\ enabled' = [enabled EXCEPT ![w] = FALSE]
    /\ UNCHANGED <<ringVars, send_cptr, Asleep, recordVars, readerVars,
                   llmutex, widx, worker_head, workerVars, w_send_cptr,
                   writerVars, sentVars>>

(* Channels start live, or at a line of the waterfall: a frameno that some *)
(* client has received with the metadata.                                  *)
Histories == {-1} \cup 0..meta.frameno

ClientNext ==
    \/ \E history \in Histories : SpawnXlater(history)
    \/ PublishXlater
    \/ \E w \in Workers : DestroyXlater(w)

-----------------------------------------------------------------------------
(* Bugs: one frame too many is held back; free space is not looked at, or  *)
(* counted one slot too generously.                                        *)
NoDataEarly(w) == sdr_cptr <= mypos[w] + 1
NoSpaceIgnored(w) == w \in {}
NoSpaceOffByOne(w) == w_send_cptr[w] < mypos[w] - BUFSIZE

NoData(w) == sdr_cptr <= mypos[w]
NoSpace(w) == w_send_cptr[w] <= mypos[w] - BUFSIZE

WorkerSleeps(w) ==
    /\ wpc[w] = "check" /\ w \notin waiting
    /\ NoData(w) \/ NoSpace(w)
    /\ Sleep(w)
    /\ UNCHANGED <<ringVars, send_cptr, recordVars, readerVars, listVars,
                   workerVars, w_send_cptr, writerVars, sentVars>>

WorkerProceeds(w) ==
    /\ wpc[w] = "check" /\ w \notin waiting
    /\ ~NoData(w) /\ ~NoSpace(w)
    /\ wpc' = [wpc EXCEPT ![w] = "copy"]
    /\ UNCHANGED <<ringVars, send_cptr, Asleep, recordVars, readerVars,
                   listVars, last_written, outbuf, mypos, asked, w_send_cptr,
                   writerVars, sentVars>>

(* Outside the mutex: memcpy from sdr_inbuf, filter into outbuf.  A copy   *)
(* that overlaps an fread of the same slot takes Torn, the old or the new  *)
(* packet, as this step falls inside, before or after the fread.           *)
WorkerFilters(w) ==
    /\ wpc[w] = "copy"
    /\ outbuf' = [outbuf EXCEPT ![w][Slot(mypos[w])] =
                    [pos |-> mypos[w],
                     data |-> sdr_inbuf[Slot(mypos[w])].data,
                     frameno |-> sdr_inbuf[Slot(mypos[w])].frameno]]
    /\ wpc' = [wpc EXCEPT ![w] = "commit"]
    /\ UNCHANGED <<ringVars, send_cptr, Asleep, recordVars, readerVars,
                   listVars, last_written, mypos, asked, w_send_cptr,
                   writerVars, sentVars>>

WorkerCommits(w) ==
    /\ wpc[w] = "commit"
    /\ enabled[w]
    /\ last_written' = [last_written EXCEPT ![w] = mypos[w]]
    /\ mypos' = [mypos EXCEPT ![w] = mypos[w] + 1]
    /\ Broadcast
    /\ wpc' = [wpc EXCEPT ![w] = "check"]
    /\ UNCHANGED <<ringVars, send_cptr, recordVars, readerVars, listVars,
                   outbuf, asked, w_send_cptr, writerVars, sentVars>>

(* The thread function frees outbuf and returns. *)
WorkerExits(w) ==
    /\ wpc[w] = "commit"
    /\ ~enabled[w]
    /\ wpc' = [wpc EXCEPT ![w] = "exited"]
    /\ UNCHANGED <<ringVars, send_cptr, Asleep, recordVars, readerVars,
                   listVars, last_written, outbuf, mypos, asked, w_send_cptr,
                   writerVars, sentVars>>

WorkerNext(w) ==
    \/ WorkerSleeps(w)
    \/ WorkerProceeds(w)
    \/ WorkerFilters(w)
    \/ WorkerCommits(w)
    \/ WorkerExits(w)
=============================================================================
