-------------------------------- MODULE Cli --------------------------------
(***************************************************************************)
(* The command line example client (client/cli.py): a script that creates  *)
(* one channel, retunes it after ten seconds, and destroys it after ten    *)
(* more.  The receiver thread fills in wid between any two steps.          *)
(***************************************************************************)
EXTENDS LibClient

At(c, place) == cli[c].at = place /\ Uncrowded
GoTo(c, place) == cli' = [cli EXCEPT ![c].at = place]
othersKept == <<lock, receiver, callback, rows, gui, refused>>

CliConnect(c) ==
    /\ At(c, "connect") /\ connect(c) /\ GoTo(c, "create")
    /\ UNCHANGED <<wireVars, sessionVars, xlaters, xlater_q, xln, othersKept>>

CliCreate(c) ==
    /\ At(c, "create") /\ MayCreate
    /\ create_xlater(c) /\ GoTo(c, "created")
    /\ UNCHANGED <<toclient, sessionVars, conn, xlaters, othersKept>>

(* create_xlater returns: the answer may have come before. *)
KeepRid(c) ==
    /\ At(c, "created")
    /\ cli' = [cli EXCEPT ![c].at = "slept", ![c].rid = xln[c] - 1]
    /\ UNCHANGED <<wireVars, sessionVars, conn, xlaters, xlater_q, xln, othersKept>>

(* Without a wid the script does not retune. *)
NoRetune(c) ==
    /\ At(c, "slept") /\ cli[c].wid = None
    /\ GoTo(c, "disable")
    /\ UNCHANGED <<wireVars, sessionVars, conn, xlaters, xlater_q, xln, othersKept>>

Retune(c) ==
    /\ At(c, "slept") /\ cli[c].wid \in Known(c)
    /\ q_msg(c, For("MODIFY_XLATER", cli[c].wid))
    /\ LET found == Found(c, xlaters[c])
       IN  \E w \in IF found = {} THEN {cli[c].wid} ELSE found :
            cli' = [cli EXCEPT ![c].at = "disable", ![c].wid = w]
    /\ UNCHANGED <<toclient, sessionVars, conn, xlaters, xlater_q, xln, othersKept>>

CliDisable(c) ==
    /\ At(c, "disable") /\ cli[c].wid # None
    /\ q_msg(c, For("DISABLE_XLATER", cli[c].wid)) /\ GoTo(c, "destroy")
    /\ UNCHANGED <<toclient, sessionVars, conn, xlaters, xlater_q, xln, othersKept>>

CliDestroy(c) ==
    /\ At(c, "destroy") /\ lock[c] = "free"
    /\ q_msg(c, For("DESTROY_XLATER", cli[c].wid)) /\ GoTo(c, "disconnect")
    /\ UNCHANGED <<toclient, sessionVars, conn, xlaters, xlater_q, xln, othersKept>>

(* modify_xlater of a channel that has been destroyed, or disable_xlater   *)
(* without a wid, raises; an exception ends the script.                    *)
CliRaises(c) ==
    /\ conn[c] = "up"
    /\ \/ cli[c].at = "slept" /\ cli[c].wid \notin Known(c) \cup {None}
       \/ cli[c].at = "disable" /\ cli[c].wid = None
    /\ disconnect(c) /\ GoTo(c, "raised")
    /\ UNCHANGED <<sessionVars, xln, rows, gui, refused>>

CliDisconnect(c) ==
    /\ cli[c].at = "disconnect"
    /\ disconnect(c) /\ GoTo(c, "done")
    /\ UNCHANGED <<sessionVars, xln, rows, gui, refused>>

CliStep(c) ==
    \/ CliConnect(c) \/ CliCreate(c) \/ KeepRid(c) \/ NoRetune(c) \/ Retune(c)
    \/ CliDisable(c) \/ CliDestroy(c) \/ CliRaises(c) \/ CliDisconnect(c)
=============================================================================
