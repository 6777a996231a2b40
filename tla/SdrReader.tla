----------------------------- MODULE SdrReader ------------------------------
(***************************************************************************)
(* sdr_read_thr (server/server.c): the one thread that fills sdr_inbuf and *)
(* records the baseband to disk, and the two requests that steer the       *)
(* recording (server/client_parser.c).                                     *)
(*                                                                         *)
(*   top  --- recording: write a batch with datamutex released ---> after  *)
(*   top or after --- no room: sleep on datacond ---> top                  *)
(*   top or after --- room: fread into the slot of sdr_cptr+1 ---> fread   *)
(*   fread --- sdr_cptr++, broadcast ---> top                              *)
(***************************************************************************)
EXTENDS ServerState, Sequences

(* Bug: the comparison is one frame late. *)
RingFullLate == send_cptr < sdr_cptr - BUFSIZE

(* The slot the reader is filling is the one of frame sdr_cptr+1; it has   *)
(* no room while metadata of the slot's present frame is still to be sent. *)
RingFull == send_cptr < sdr_cptr + 1 - BUFSIZE

(* The end of the turn, still inside the critical section: go to sleep on  *)
(* a full ring, or start overwriting the oldest slot.                      *)
Admit ==
    \/ /\ RingFull
       /\ Sleep(Reader)
       /\ rpc' = "top"
       /\ UNCHANGED ringVars
    \/ /\ ~RingFull
       /\ rpc' = "fread"
       /\ sdr_inbuf' = [sdr_inbuf EXCEPT ![Slot(sdr_cptr + 1)] = TornPacket]
       /\ UNCHANGED <<sdr_cptr, Asleep>>

(* Bug: stopping only at the very frame rec_stop. *)
RecordingUntilEqual == rec_cptr # INT32_MIN /\ rec_cptr # rec_stop

Recording == rec_cptr # INT32_MIN /\ rec_cptr <= rec_stop

(* Bug: the write loop does not look at sdr_cptr. *)
BatchLengthFull == WRITE_FRAMES_SYNC

(* The write loop leaves as soon as its cursor has passed sdr_cptr, but    *)
(* only after it has written: a turn always writes at least one frame.     *)
BatchLength ==
    IF rec_cptr > sdr_cptr THEN 1
    ELSE IF sdr_cptr - rec_cptr + 1 < WRITE_FRAMES_SYNC
         THEN sdr_cptr - rec_cptr + 1
         ELSE WRITE_FRAMES_SYNC

Batch ==
    [i \in 1..BatchLength |->
        LET p == rec_cptr + i - 1
        IN  [pos |-> p, data |-> sdr_inbuf[Slot(p)].data,
             frameno |-> sdr_inbuf[Slot(p)].frameno]]

(* Copy rec_cptr to the local _rec_cptr, release datamutex, write.  Only   *)
(* this thread changes sdr_inbuf and sdr_cptr, so the writes are one step. *)
WriteBatch ==
    /\ rpc = "top" /\ Reader \notin waiting
    /\ Recording
    /\ disk' = Batch
    /\ r_rec' = rec_cptr + BatchLength
    /\ rpc' = "after"
    /\ UNCHANGED <<ringVars, send_cptr, Asleep, recordVars, listVars,
                   workerVars, w_send_cptr, writerVars, sentVars>>

(* Bug: the local cursor is not written back, every batch is the same. *)
AfterDiskForgets ==
    /\ rpc = "after"
    /\ r_rec' = INT32_MIN
    /\ Admit
    /\ UNCHANGED <<send_cptr, recordVars, disk, listVars, workerVars,
                   w_send_cptr, writerVars, sentVars>>

(* Take datamutex again and store the local cursor over whatever a request *)
(* has put into rec_cptr meanwhile.                                        *)
AfterDisk ==
    /\ rpc = "after"
    /\ rec_cptr' = r_rec
    /\ r_rec' = INT32_MIN
    /\ Admit
    /\ UNCHANGED <<send_cptr, rec_stop, requests, disk, listVars, workerVars,
                   w_send_cptr, writerVars, sentVars>>

(* A turn with nothing to record keeps datamutex all along. *)
TurnIdle ==
    /\ rpc = "top" /\ Reader \notin waiting
    /\ ~Recording
    /\ Admit
    /\ UNCHANGED <<send_cptr, recordVars, r_rec, disk, listVars, workerVars,
                   w_send_cptr, writerVars, sentVars>>

(* Bug: the packet is stamped with its own ID, as the comments suggest. *)
PublishFrameOwnId ==
    /\ rpc = "fread"
    /\ sdr_cptr < MaxFrame
    /\ sdr_inbuf' = [sdr_inbuf EXCEPT ![Slot(sdr_cptr + 1)] =
                        [data |-> sdr_cptr + 1, frameno |-> sdr_cptr + 1]]
    /\ sdr_cptr' = sdr_cptr + 1
    /\ Broadcast
    /\ rpc' = "top"
    /\ UNCHANGED <<send_cptr, recordVars, r_rec, disk, listVars, workerVars,
                   w_send_cptr, writerVars, sentVars>>

(* fread has returned a whole packet; stamp it and publish it. *)
PublishFrame ==
    /\ rpc = "fread"
    /\ sdr_cptr < MaxFrame      \* bound
    /\ sdr_inbuf' = [sdr_inbuf EXCEPT ![Slot(sdr_cptr + 1)] =
                        [data |-> sdr_cptr + 1, frameno |-> sdr_cptr]]
    /\ sdr_cptr' = sdr_cptr + 1
    /\ Broadcast
    /\ rpc' = "top"
    /\ UNCHANGED <<send_cptr, recordVars, r_rec, disk, listVars, workerVars,
                   w_send_cptr, writerVars, sentVars>>

ReaderNext == WriteBatch \/ AfterDisk \/ TurnIdle \/ PublishFrame

-----------------------------------------------------------------------------
(* RECORD_START: "-1 for current", at most BUFSIZE back, never negative *)
FirstRecorded(start) ==
    LET wanted == IF start = -1 THEN sdr_cptr ELSE start
        inRing == IF wanted < sdr_cptr - BUFSIZE
                  THEN sdr_cptr - BUFSIZE ELSE wanted
    IN  IF inRing < 0 THEN 0 ELSE inRing

RecordStart(start, stop) ==
    /\ requests < MaxRequests   \* bound
    /\ requests' = requests + 1
    /\ rec_cptr' = FirstRecorded(start)
    /\ rec_stop' = stop
    /\ UNCHANGED <<ringVars, send_cptr, Asleep, readerVars, listVars,
                   workerVars, w_send_cptr, writerVars, sentVars>>

(* RECORD_STOP *)
RecordStop ==
    /\ requests < MaxRequests   \* bound
    /\ requests' = requests + 1
    /\ rec_cptr' = INT32_MIN
    /\ UNCHANGED <<ringVars, send_cptr, Asleep, rec_stop, readerVars,
                   listVars, workerVars, w_send_cptr, writerVars, sentVars>>

(* What clients send: the GUI's record button (-1), its dump button (the   *)
(* newest frameno it has seen less bufsize), or a frame; up to INT_MAX,    *)
(* the GUI's stop value -10, or a frame.                                   *)
GuiStop == -10
DumpFrames == IF meta = NoPacket THEN {} ELSE {meta.frameno - BUFSIZE}
StartFrames == {-1} \cup DumpFrames \cup 0..sdr_cptr
StopFrames == {INT32_MAX, GuiStop} \cup 0..MaxFrame

RecordNext ==
    \/ RecordStop
    \/ \E start \in StartFrames, stop \in StopFrames : RecordStart(start, stop)
=============================================================================
