---------------------------- MODULE SocketWriter ----------------------------
(***************************************************************************)
(* socket_write_thr (server/server.c): under llmutex it visits every       *)
(* worker, sends the packets that are ready and joins the workers that     *)
(* have exited, then sends the metadata of every new SDR packet.           *)
(*                                                                         *)
(*   idle ---> visit s_w ---> send ---> visit the next worker ...          *)
(*   visit None (end of list) ---> meta ---> idle                          *)
(*   visit an exited worker ---> idle                                      *)
(*                                                                         *)
(* Subscriptions are not modelled here: sent and meta are what a client    *)
(* subscribed to everything receives last.                                 *)
(***************************************************************************)
EXTENDS ServerState

(* v is where SLIST_FOREACH goes after w: the next lower wid in the list,  *)
(* or None at its end.                                                     *)
Follows(w, v) ==
    /\ v \in worker_head \cup {None}
    /\ v < w
    /\ ~\E u \in worker_head : v < u /\ u < w

WriterLocks ==
    /\ spc = "idle"
    /\ llmutex = "free"
    /\ llmutex' = "writer"
    /\ spc' = "visit"
    /\ s_w' \in {v \in Workers \cup {None} : Follows(widx, v)}
    /\ UNCHANGED <<ringVars, send_cptr, Asleep, recordVars, readerVars,
                   widx, worker_head, enabled, workerVars, w_send_cptr,
                   s_last, s_send, sentVars>>

-----------------------------------------------------------------------------
(* An enabled worker: snapshot its cursors under datamutex. *)
SnapshotWorker ==
    /\ spc = "visit" /\ s_w # None
    /\ enabled[s_w]
    /\ s_last' = last_written[s_w]
    /\ s_send' = w_send_cptr[s_w]
    /\ spc' = "send"
    /\ UNCHANGED <<ringVars, send_cptr, Asleep, recordVars, readerVars,
                   listVars, workerVars, w_send_cptr, s_w, sentVars>>

(* Write one packet to the sockets of its subscribers. *)
SendFrame ==
    /\ spc = "send"
    /\ s_last > s_send
    /\ LET packet == outbuf[s_w][Slot(s_send + 1)]
       IN  /\ sent' = [sent EXCEPT ![s_w] = packet]
           /\ first' = [first EXCEPT ![s_w] =
                          IF sent[s_w] = NoPacket THEN packet.frameno ELSE @]
    /\ s_send' = s_send + 1
    /\ UNCHANGED <<ringVars, send_cptr, Asleep, recordVars, readerVars,
                   listVars, workerVars, w_send_cptr, spc, s_w, s_last, meta>>

(* Bug: the cursor moves to the live last_written, not to the snapshot. *)
CommitWorkerLive ==
    /\ spc = "send"
    /\ s_last <= s_send
    /\ w_send_cptr' = [w_send_cptr EXCEPT ![s_w] = last_written[s_w]]
    /\ Broadcast
    /\ spc' = "visit"
    /\ s_w' \in {v \in Workers \cup {None} : Follows(s_w, v)}
    /\ s_last' = None /\ s_send' = None
    /\ UNCHANGED <<ringVars, send_cptr, recordVars, readerVars, listVars,
                   workerVars, sentVars>>

(* Give the slots back and go on to the next worker. *)
CommitWorker ==
    /\ spc = "send"
    /\ s_last <= s_send
    /\ w_send_cptr' = [w_send_cptr EXCEPT ![s_w] = s_send]
    /\ Broadcast
    /\ spc' = "visit"
    /\ s_w' \in {v \in Workers \cup {None} : Follows(s_w, v)}
    /\ s_last' = None /\ s_send' = None
    /\ UNCHANGED <<ringVars, send_cptr, recordVars, readerVars, listVars,
                   workerVars, sentVars>>

(* Bug: a worker is only joined once all it had ready has been sent. *)
GoneAndSent(w) ==
    /\ KillReportsExit /\ wpc[w] = "exited"
    /\ w_send_cptr[w] = last_written[w]

(* A worker awaiting destruction: pthread_kill tells whether it has gone. *)
Gone(w) == KillReportsExit /\ wpc[w] = "exited"

SkipDying ==
    /\ spc = "visit" /\ s_w # None
    /\ ~enabled[s_w]
    /\ ~Gone(s_w)
    /\ s_w' \in {v \in Workers \cup {None} : Follows(s_w, v)}
    /\ UNCHANGED <<ringVars, send_cptr, Asleep, recordVars, readerVars,
                   listVars, workerVars, w_send_cptr, spc, s_last, s_send,
                   sentVars>>

(* Join it, unlink and free it, and start over without the metadata. *)
Reap ==
    /\ spc = "visit" /\ s_w # None
    /\ ~enabled[s_w]
    /\ Gone(s_w)
    /\ worker_head' = worker_head \ {s_w}
    /\ llmutex' = "free"
    /\ spc' = "idle"
    /\ s_w' = None
    /\ UNCHANGED <<ringVars, send_cptr, Asleep, recordVars, readerVars,
                   widx, enabled, workerVars, w_send_cptr, s_last, s_send,
                   sentVars>>

-----------------------------------------------------------------------------
SnapshotRing ==
    /\ spc = "visit" /\ s_w = None
    /\ s_last' = sdr_cptr
    /\ s_send' = send_cptr
    /\ spc' = "meta"
    /\ UNCHANGED <<ringVars, send_cptr, Asleep, recordVars, readerVars,
                   listVars, workerVars, w_send_cptr, s_w, sentVars>>

(* Write the spectrum and the histogram of one packet to the sockets. *)
SendMeta ==
    /\ spc = "meta"
    /\ s_last > s_send
    /\ LET packet == sdr_inbuf[Slot(s_send + 1)]
       IN  meta' = [pos |-> s_send + 1, data |-> packet.data,
                    frameno |-> packet.frameno]
    /\ s_send' = s_send + 1
    /\ UNCHANGED <<ringVars, send_cptr, Asleep, recordVars, readerVars,
                   listVars, workerVars, w_send_cptr, spc, s_w, s_last, sent,
                   first>>

(* Bugs: the cursor moves to the live sdr_cptr; nobody is woken. *)
CommitRingLive ==
    /\ spc = "meta"
    /\ s_last <= s_send
    /\ send_cptr' = sdr_cptr
    /\ Broadcast
    /\ llmutex' = "free"
    /\ spc' = "idle"
    /\ s_last' = None /\ s_send' = None
    /\ UNCHANGED <<ringVars, recordVars, readerVars, widx, worker_head,
                   enabled, workerVars, w_send_cptr, s_w, sentVars>>
CommitRingSilent ==
    /\ spc = "meta"
    /\ s_last <= s_send
    /\ send_cptr' = s_send
    /\ llmutex' = "free"
    /\ spc' = "idle"
    /\ s_last' = None /\ s_send' = None
    /\ UNCHANGED <<ringVars, Asleep, recordVars, readerVars, widx,
                   worker_head, enabled, workerVars, w_send_cptr, s_w,
                   sentVars>>

CommitRing ==
    /\ spc = "meta"
    /\ s_last <= s_send
    /\ send_cptr' = s_send
    /\ Broadcast
    /\ llmutex' = "free"
    /\ spc' = "idle"
    /\ s_last' = None /\ s_send' = None
    /\ UNCHANGED <<ringVars, recordVars, readerVars, widx, worker_head,
                   enabled, workerVars, w_send_cptr, s_w, sentVars>>

WriterNext ==
    \/ WriterLocks
    \/ SnapshotWorker \/ SendFrame \/ CommitWorker
    \/ SkipDying \/ Reap
    \/ SnapshotRing \/ SendMeta \/ CommitRing
=============================================================================
