---------------------------- MODULE ServerClaims ----------------------------
(***************************************************************************)
(* What comments and the protocol description say of the streaming core    *)
(* and the code does not do.  Each is checked alone and found violated.    *)
(***************************************************************************)
EXTENDS MCServer

(* c2s.proto: startframe is the "first frame ID of the recording" and      *)
(* stopframe the "last frame ID if the recording": no frame past the last  *)
(* one is written.  The code compares with rec_stop once a batch, and      *)
(* writes WRITE_FRAMES_SYNC frames without comparing again.                *)
RecordingEndsAtStopframe ==
    [][disk' # disk => disk'[Len(disk')].pos <= rec_stop]_vars

(* c2s.proto: a recording consists of frames, from the first frame ID on:  *)
(* what is written for a frame ID is that frame.  The code clamps a start  *)
(* too far back to a slot that already holds another frame.  (Positions    *)
(* past sdr_cptr, which a turn of a full ring writes too, are left aside.) *)
RecordingHoldsItsFrames ==
    rpc = "after" =>
        \A i \in DOMAIN disk :
            disk[i].pos <= sdr_cptr => disk[i].data = disk[i].pos

(* worker.h: last_written is the "ID of the last frame the worker has      *)
(* processed", and the packets up to it are ready to be sent: the packet   *)
(* at position f was made from frame f.  The reader waits for the          *)
(* metadata only, never for the workers, and laps a slow one.              *)
ReadyPacketsAreTheirFrames ==
    \A w \in Workers :
        Created(w) => \A f \in (w_send_cptr[w] + 1)..last_written[w] :
                          outbuf[w][Slot(f)].data = f

(* worker.h: "set to false to make the worker gracefully exit".  A worker  *)
(* without free space waits for the writer to send, and the writer no      *)
(* longer sends what a disabled worker has ready.                          *)
DisabledWorkerExits ==
    \A w \in Workers :
        (w \in worker_head /\ ~enabled[w] /\ ~NoData(w))
            ~> (wpc[w] = "exited")
=============================================================================
