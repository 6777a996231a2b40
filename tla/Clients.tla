------------------------------ MODULE Clients ------------------------------
(***************************************************************************)
(* GUIs and command line clients that create, watch, hear and destroy      *)
(* channels of one server: Gui, Cli, LibClient and Sessions together.      *)
(***************************************************************************)
EXTENDS Gui, Cli

ClientsInit == WireInit /\ SessionsInit /\ LibInit

ServerStep(c) == SessionStep(c) /\ UNCHANGED <<conn, clientVars>>

ClientsNext ==
    \/ WriterStep /\ UNCHANGED <<conn, clientVars>>
    \/ \E c \in Clients :
        \/ ServerStep(c) \/ ReceiverStep(c)
        \/ \E w \in Wids : FeederEnds(c, w)
    \/ \E c \in Guis : GuiStep(c)
    \/ \E c \in Clis : CliStep(c)

ClientsSpec == ClientsInit /\ [][ClientsNext]_clientsVars

-----------------------------------------------------------------------------
Messages ==
    [type : {"RUNNING_XLATER"}, id : Wids, remoteid : Nat \cup {NoRid}]
    \cup [type : {"DESTROYED_XLATER", "PAYLOAD"}, id : Wids]
Requests == [type : {"LIST_XLATERS"}]
    \cup [type : {"CREATE_XLATER"}, remoteid : Nat]
    \cup [type : {"ENABLE_XLATER", "DISABLE_XLATER", "MODIFY_XLATER",
                  "DESTROY_XLATER"}, id : Wids]

(* Every request has an id the server may compare: the clients send no     *)
(* DISABLE or DESTROY before they know one; messages are those of c2s.     *)
ClientsTypeOK ==
    /\ \A c \in Clients :
        /\ Pending(toserver[c]) \subseteq Requests
        /\ Pending(toclient[c]) \subseteq Messages
        /\ \A w \in Known(c) : /\ w \in Wids
                               /\ xlaters[c][w].feeder \in {"none", "alive", "ended"}
        /\ xlater_q[c] \subseteq 0..xln[c] - 1
    /\ wstate \in [Workers -> {"none", "running", "dying", "freed"}]
    /\ \A c \in Clients, w \in Workers : subs[c][w] \in Nat

Serves(c) == server = "up" /\ conn[c] = "up" /\ served[c] # "ended"
OnItsWay(c, m) == m \in Pending(toclient[c])

(* A channel that waits in xlater_q for its answer does get one: its       *)
(* request is on its way to the server (create_xlater, parse_client_req)   *)
(* or its RUNNING_XLATER with the reference is on its way back.  Otherwise *)
(* the program spawned for it would wait for samples for ever.             *)
PendingIsUnderway == \A c \in Clients : Serves(c) =>
    \A r \in xlater_q[c] :
        \/ Create(r) \in Pending(toserver[c])
        \/ \E w \in Wids : OnItsWay(c, Running(w, r))

(* A GUI that has asked for the list (da_configure) misses no channel,     *)
(* whoever creates it and in whatever order it is created, listed and      *)
(* announced: a running channel is in its dictionary, or on its way there. *)
KnowsAllChannels == \A c \in Guis : Serves(c) /\ callback[c] =>
    \A w \in Workers : wstate[w] = "running" =>
        \/ w \in Known(c)
        \/ \E m \in Pending(toclient[c]) : m.type = "RUNNING_XLATER" /\ m.id = w
        \/ Ask("LIST_XLATERS") \in Pending(toserver[c])

(* A destroyed channel leaves the dictionary of every client, not only of  *)
(* the one that asked (msg_destroyed_xlater): DESTROYED_XLATER is on its   *)
(* way, or the session that destroyed it is about to send it.  Excepted    *)
(* are channels announced as running after their end (LIST_XLATERS and the *)
(* reply to MODIFY_XLATER do that).                                        *)
DestroyedDisappear == \A c \in Clients : Serves(c) =>
    \A w \in (Known(c) \cap Workers) \ revived :
        wstate[w] \in {"dying", "freed"} =>
            \/ OnItsWay(c, Destroyed(w))
            \/ \E d \in Clients : second[d] = [do |-> "destroyed", worker |-> w]

(* No samples come for a channel that has no feeder thread to take them,   *)
(* which would end the receiver thread in process_payload with the lock    *)
(* taken -- but for channels whose program on_demod refused after it had   *)
(* enabled them.                                                           *)
EnabledHasFeeder == \A c \in Clients : Serves(c) =>
    \A w \in Known(c) \cap Workers :
        /\ wstate[w] = "running"
        /\ subs[c][w] > 0 \/ For("ENABLE_XLATER", w) \in Pending(toserver[c])
        => xlaters[c][w].feeder # "none" \/ <<c, w>> \in refused

(* Once the script has its reference, whatever channel it takes for its    *)
(* own (xlater_cb puts it to wid) is the one it has created: the others'   *)
(* channels are announced to it without their references, and the answer   *)
(* to a MODIFY_XLATER of another's channel, which has the reference of     *)
(* whoever created it, does not overtake the answer to CREATE_XLATER.      *)
(* Before the script has its reference this fails: ScriptHasItsOwn.        *)
ScriptTakesItsOwn ==
    [][\A c \in Clis :
        cli[c].rid # None /\ cli'[c].wid # cli[c].wid =>
            cli'[c].wid \in Workers /\ c \in creator'[cli'[c].wid]]_clientsVars

(* cli.py: xlater_cb is to "look for our xlater" and to "put the           *)
(* server-assigned ID to wid"; "if we have the server-assigned ID, retune  *)
(* to some other frequency".  But xlater_cb compares references while the  *)
(* script has none, and the channels of others have none either.           *)
ScriptHasItsOwn == \A c \in Clis :
    cli[c].at = "slept" /\ cli[c].wid \in Workers => c \in creator[cli[c].wid]

(* The rows of the list view are the channels of the dictionary, each      *)
(* once, whatever messages and handlers come in between: what the user     *)
(* edits, drags or kills is a channel modify_xlater can find.              *)
RowsMatch == \A c \in Guis : callback[c] =>
    /\ Pending(rows[c]) \subseteq Known(c)
    /\ Len(rows[c]) = Cardinality(Pending(rows[c]))

(* No message and no sequence of them ends the receiver thread of a        *)
(* command line client while the server lives, or leaves xlaters_lock      *)
(* taken, on which its destroy_xlater would wait for ever.                 *)
ScriptNotStuck == \A c \in Clis : conn[c] = "up" =>
    lock[c] = "free" /\ (receiver[c] = "dead" => server = "killed")

(* The sessions and the applications see of a worker what the list of      *)
(* workers promises (WorkerLife): no request on a channel that is gone,    *)
(* however late, brings it back or ends another's.                         *)
SessionWorkers == INSTANCE WorkerLife WITH Ids <- Workers, life <- wstate
SessionsLive == SessionWorkers!Spec
=============================================================================
