----------------------------- MODULE ServerInv ------------------------------
(***************************************************************************)
(* The inductive invariant from which the safety of Server follows, as a   *)
(* conjunction of named parts.  TLC checks it on small instances; it is    *)
(* proved inductive in ServerProofs.                                       *)
(***************************************************************************)
EXTENDS Server

(* A thread holds llmutex exactly while it is in its critical section, and *)
(* the writer is then at a worker of the list, or at its end.              *)
LockInv ==
    /\ spc # "idle" <=> llmutex = "writer"
    /\ spc = "visit" => s_w \in worker_head \cup {None}
    /\ spc = "send" => s_w \in worker_head /\ enabled[s_w]
    /\ spc = "meta" => s_w = None

(* The writer never overtakes the reader, and is at most a ring behind it; *)
(* while the reader is filling a slot, at most a ring less that slot.      *)
RingCursors ==
    /\ -1 <= send_cptr /\ send_cptr <= sdr_cptr
    /\ sdr_cptr <= send_cptr + BUFSIZE
    /\ rpc = "fread" => sdr_cptr < send_cptr + BUFSIZE
    /\ spc = "meta" =>
        send_cptr <= s_send /\ s_send <= s_last /\ s_last <= sdr_cptr

(* The last BUFSIZE frames are in the ring, whoever still needs them; the  *)
(* oldest is given up when the reader starts to fill its slot.             *)
OldestFrame ==
    IF rpc = "fread" THEN sdr_cptr - BUFSIZE + 2 ELSE sdr_cptr - BUFSIZE + 1
RingContent ==
    \A f \in 0..sdr_cptr :
        f >= OldestFrame => sdr_inbuf[Slot(f)] = Genuine(f)

(* A recording starts at no negative frame and only moves forward, so its  *)
(* cursor is never the mark of no recording nor below a negative rec_stop. *)
RecorderCursors ==
    /\ rec_cptr # INT32_MIN => rec_cptr >= 0
    /\ rpc = "after" => r_rec >= 0

(* Only a worker that has been created is enabled or in the list, and one  *)
(* that is being created has had nothing to send.                          *)
ListInv ==
    /\ \A w \in worker_head : w < widx /\ Created(w)
    /\ \A w \in Workers : enabled[w] => w < widx /\ Created(w)
    /\ \A w \in Workers : w < widx => Created(w)
    /\ llmutex = "client" =>
        Created(widx) /\ last_written[widx] = w_send_cptr[widx]

(* The cursors of a channel, and how far the worker may be ahead of the    *)
(* writer.  A thread that exits before it is enabled has nothing ready.    *)
ChannelCursors(w) ==
    /\ w_send_cptr[w] <= last_written[w]
    /\ last_written[w] < w_send_cptr[w] + BUFSIZE
    /\ Running(w) => mypos[w] = last_written[w] + 1
    /\ wpc[w] \in {"copy", "commit"} => mypos[w] < w_send_cptr[w] + BUFSIZE
    /\ enabled[w] /\ wpc[w] = "exited" => last_written[w] = w_send_cptr[w]
    /\ spc = "send" /\ s_w = w =>
        /\ w_send_cptr[w] <= s_send
        /\ s_send <= s_last
        /\ s_last <= last_written[w]

ChannelContent(w) ==
    /\ \A f \in (w_send_cptr[w] + 1)..last_written[w] :
            outbuf[w][Slot(f)].pos = f
    /\ wpc[w] = "commit" => outbuf[w][Slot(mypos[w])].pos = mypos[w]

ChannelInv ==
    \A w \in Workers :
        Created(w) => ChannelCursors(w) /\ ChannelContent(w)

(* The inductive invariant: MetadataIntact follows from RingCursors and    *)
(* RingContent, OutbufIntact and NoReadAfterFree from LockInv, ListInv and *)
(* ChannelInv, RecorderNotLapped and GuiStopHolds from RecorderCursors.    *)
IInv ==
    /\ TypeOK
    /\ LockInv
    /\ RingCursors
    /\ RingContent
    /\ RecorderCursors
    /\ ListInv
    /\ ChannelInv

-----------------------------------------------------------------------------
(* What makes a channel start at the line it was asked for.  A packet kept *)
(* for position p is torn, or numbered p-1 or a whole number of rings more.*)
OnLine(n, p) ==
    n = Torn \/ (n >= -1 /\ n >= p - 1 /\ Slot(n + 1) = Slot(p))

(* The number in a slot of sdr_inbuf is of that slot, and of the last ring.*)
RingNumbers ==
    /\ sdr_cptr >= -1
    /\ \A i \in Slots :
        LET n == sdr_inbuf[i].frameno
        IN  \/ n = Torn
            \/ /\ n >= -1 /\ n >= sdr_cptr - BUFSIZE
               /\ n < sdr_cptr /\ Slot(n + 1) = i

(* A worker only filters a position behind the current frame, so what it   *)
(* finds in the slot cannot be a ring too old.                             *)
ChannelNumbers(w) ==
    /\ wpc[w] = "copy" => mypos[w] < sdr_cptr
    /\ wpc[w] = "commit" => OnLine(outbuf[w][Slot(mypos[w])].frameno, mypos[w])
    /\ \A f \in (w_send_cptr[w] + 1)..last_written[w] :
            OnLine(outbuf[w][Slot(f)].frameno, f)

(* wids are handed out once, and until its first packet is sent the        *)
(* writer's cursor of a channel is where the channel started.              *)
ChannelStart(w) ==
    /\ Created(w) => w < widx \/ (llmutex = "client" /\ w = widx)
    /\ ~Created(w) => sent[w] = NoPacket
    /\ sent[w] = NoPacket =>
        /\ first[w] = None
        /\ Created(w) => w_send_cptr[w] = asked[w]
        /\ Created(w) /\ spc = "send" /\ s_w = w => s_send = asked[w]

(* PlaysFromAskedLine is inductive together with these and IInv: what the  *)
(* writer sends first (server.c) was filtered from the line asked for.     *)
LineInv ==
    /\ RingNumbers
    /\ \A w \in Workers : Created(w) => ChannelNumbers(w)
    /\ \A w \in Workers : ChannelStart(w)
    /\ PlaysFromAskedLine
=============================================================================
