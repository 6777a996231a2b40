-------------------------------- MODULE Gui --------------------------------
(***************************************************************************)
(* What the user of the GUI (client/kukuruku-gui.py) does with channels.   *)
(* The handlers run one after another in the main thread; all but the AFC  *)
(* and squelch boxes hold xlaters_lock, so one handler is one action.  The *)
(* handler of an edited cell is two: the row was fixed before it waited    *)
(* for the lock, and the receiver thread may have changed the rows since.  *)
(***************************************************************************)
EXTENDS LibClient

GuiConnect(c) ==
    /\ connect(c)
    /\ UNCHANGED <<wireVars, sessionVars, clientVars>>

(* da_configure: the window is shown when INFO has come, or is resized. *)
da_configure(c) ==
    /\ conn[c] = "up" /\ c \in Listed /\ gui[c].editing = 0
    /\ gui[c].ops < MaxOps /\ Uncrowded
    /\ callback' = [callback EXCEPT ![c] = TRUE]
    /\ gui' = [gui EXCEPT ![c].ops = IF callback[c] THEN @ + 1 ELSE @]
    /\ q_msg(c, Ask("LIST_XLATERS"))
    /\ UNCHANGED <<toclient, sessionVars, conn, xlaters, xlater_q, xln, lock,
                   receiver, rows, cli, refused>>

(* The main thread takes up an event.  *)
Event(c) ==
    /\ conn[c] = "up" /\ callback[c] /\ gui[c].editing = 0
    /\ gui[c].ops < MaxOps
    /\ server = "up"        \* bound: the user stops when the server is gone
    /\ gui' = [gui EXCEPT ![c].ops = @ + 1]

Locked(c) == Event(c) /\ Uncrowded /\ lock[c] = "free"

(* showerror: the box is closed and the handler releases the lock, or the  *)
(* handler ends there, as the name Gtk.MESSAGE_ERROR is not in every       *)
(* version of the toolkit.                                                 *)
showerror(c) == \E l \in {"free", "lost"} : lock' = [lock EXCEPT ![c] = l]

(* on_demod at a free frequency; refused if the rates do not divide *)
DemodNew(c) ==
    /\ Locked(c)
    /\ MayCreate
    /\ create_xlater(c)
    /\ UNCHANGED <<toclient, sessionVars, conn, xlaters, lock, receiver, callback,
                   rows, cli, refused>>

DemodNewRefused(c) ==
    /\ Locked(c)
    /\ showerror(c)
    /\ UNCHANGED <<wireVars, sessionVars, conn, xlaters, xlater_q, xln, receiver,
                   callback, rows, cli, refused>>

(* on_demod on a running channel enables it before it asks whether it can  *)
(* subscribe a program.                                                    *)
DemodRunning(c, w) ==
    /\ Locked(c) /\ w \in Known(c)
    /\ q_msg(c, For("ENABLE_XLATER", w))
    /\ xlaters' = [xlaters EXCEPT ![c][w].feeder = "alive"]
    /\ UNCHANGED <<toclient, sessionVars, conn, xlater_q, xln, lock, receiver,
                   callback, rows, cli, refused>>

DemodRunningRefused(c, w) ==
    /\ Locked(c) /\ w \in Known(c)
    /\ q_msg(c, For("ENABLE_XLATER", w))
    /\ showerror(c)
    /\ refused' = IF xlaters[c][w].feeder = "none" THEN refused \cup {<<c, w>>} ELSE refused
    /\ UNCHANGED <<toclient, sessionVars, conn, xlaters, xlater_q, xln, receiver,
                   callback, rows, cli>>

(* da_press and da_scroll: a channel is moved or its filter resized. *)
DragOrScroll(c, w) ==
    /\ Locked(c) /\ w \in Known(c) \cap Pending(rows[c])
    /\ modify_xlater(c, w)
    /\ UNCHANGED <<toclient, sessionVars, conn, libVars, refused>>

(* xlater_edit, up to the lock *)
EditRow(c, i) ==
    /\ conn[c] = "up" /\ callback[c] /\ gui[c].editing = 0
    /\ gui[c].ops < MaxOps /\ i \in DOMAIN rows[c]
    /\ gui' = [gui EXCEPT ![c].ops = @ + 1, ![c].editing = i]
    /\ UNCHANGED <<wireVars, sessionVars, conn, libVars, rows, cli, refused>>

CommitRow(c) ==
    /\ conn[c] = "up" /\ gui[c].editing \in DOMAIN rows[c] /\ lock[c] = "free"
    /\ gui' = [gui EXCEPT ![c].editing = 0]
    /\ modify_xlater(c, rows[c][gui[c].editing])
    /\ UNCHANGED <<toclient, sessionVars, conn, libVars, refused>>

(* "Value was not understood": the handler returns with the lock, as it    *)
(* does when the row is not there any more.                                *)
EditFails(c) ==
    /\ conn[c] = "up" /\ gui[c].editing # 0 /\ lock[c] = "free"
    /\ gui' = [gui EXCEPT ![c].editing = 0]
    /\ lock' = [lock EXCEPT ![c] = "lost"]
    /\ UNCHANGED <<wireVars, sessionVars, conn, xlaters, xlater_q, xln, receiver,
                   callback, rows, cli, refused>>

kill_toggle_cb(c, i) ==
    /\ Locked(c) /\ i \in DOMAIN rows[c]
    /\ q_msg(c, For("DESTROY_XLATER", rows[c][i]))
    /\ UNCHANGED <<toclient, sessionVars, conn, libVars, rows, cli, refused>>

(* The row of a channel that has just left the dictionary raises. *)
afc_toggle_cb(c, i) ==
    /\ Event(c) /\ i \in DOMAIN rows[c] /\ rows[c][i] \in Known(c)
    /\ xlaters' = [xlaters EXCEPT ![c][rows[c][i]].afc = ~@]
    /\ UNCHANGED <<wireVars, sessionVars, conn, xlater_q, xln, lock, receiver,
                   callback, rows, cli, refused>>

exit(c) ==
    /\ Event(c)
    /\ disconnect(c)
    /\ rows' = [rows EXCEPT ![c] = <<>>]
    /\ UNCHANGED <<sessionVars, xln, cli, refused>>

GuiStep(c) ==
    \/ GuiConnect(c) \/ da_configure(c) \/ DemodNew(c) \/ DemodNewRefused(c)
    \/ \E w \in Wids :
        DemodRunning(c, w) \/ DemodRunningRefused(c, w) \/ DragOrScroll(c, w)
    \/ \E i \in 1..Cardinality(Wids) :
        EditRow(c, i) \/ kill_toggle_cb(c, i) \/ afc_toggle_cb(c, i)
    \/ CommitRow(c) \/ EditFails(c) \/ exit(c)
=============================================================================
