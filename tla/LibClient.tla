----------------------------- MODULE LibClient -----------------------------
(***************************************************************************)
(* The channels in the library of the clients (client/libclient.py): the   *)
(* dictionary of running xlaters and the queue of those not yet answered,  *)
(* what the receiver thread does with each message, and the operations the *)
(* applications call.  The applications (Gui, Cli) keep state of their own *)
(* in the callback the library calls when the dictionary has changed.      *)
(*                                                                         *)
(* xlaters_lock is held within one action only.  It stays taken ("lost")   *)
(* when an exception leaves the code that holds it.                        *)
(***************************************************************************)
EXTENDS Sessions

CONSTANTS
    Guis, Clis,     \* which clients run which application
    MaxQueued,      \* bound: requests of a client on the way when a user acts
    MaxOps          \* bound: operations of the user of each GUI

ASSUME ClientsAssumption ==
    /\ Clients = Guis \cup Clis /\ Guis \cap Clis = {}
    /\ IsFiniteSet(Clients)
    /\ MaxOps \in Nat /\ MaxQueued \in Nat

VARIABLES
    xlaters,    \* the dictionary: wid -> [rid, feeder, afc]
    xlater_q,   \* references of created xlaters without an answer
    xln,        \* the next reference
    lock,       \* xlaters_lock: free, lost
    receiver,   \* tcp_receive_thr: up, dead
    callback,   \* xlater_callback is set
    rows,       \* GUI: the wids in the list view
    gui,        \* GUI: [editing: row of a finished edit or 0, ops]
    cli,        \* command line client: [at, rid, wid]
    refused     \* history: channels enabled without a program

libVars == <<xlaters, xlater_q, xln, lock, receiver, callback>>
appVars == <<rows, gui, cli>>
clientVars == <<libVars, appVars, refused>>
clientsVars == <<wireVars, sessionVars, conn, clientVars>>

None == -2      \* of a reference or a wid that is not there (yet)
Wids == Workers \cup {Stray}
Xlater(rid, feeder) == [rid |-> rid, feeder |-> feeder, afc |-> FALSE]
Known(c) == DOMAIN xlaters[c]
Deleted(c, w) == [v \in Known(c) \ {w} |-> xlaters[c][v]]
With(c, w, xl) == [v \in Known(c) \cup {w} |-> IF v = w THEN xl ELSE xlaters[c][v]]

LibInit ==
    /\ xlaters = [c \in Clients |-> <<>>]
    /\ xlater_q = [c \in Clients |-> {}] /\ xln = [c \in Clients |-> 0]
    /\ lock = [c \in Clients |-> "free"]
    /\ receiver = [c \in Clients |-> "up"]
    /\ callback = [c \in Clients |-> c \in Clis]
    /\ rows = [c \in Guis |-> <<>>]
    /\ gui = [c \in Guis |-> [editing |-> 0, ops |-> 0]]
    /\ cli = [c \in Clis |-> [at |-> "connect", rid |-> None, wid |-> None]]
    /\ refused = {}

Create(r) == [type |-> "CREATE_XLATER", remoteid |-> r]
For(type, w) == [type |-> type, id |-> w]
Ask(type) == [type |-> type]

-----------------------------------------------------------------------------
(* The callbacks, called after the dictionary has become dict *)

Keep(list, S) == Sublist(list, {i \in DOMAIN list : list[i] \in S})
Orders(S) == {f \in [1..Cardinality(S) -> S] :
    \A i, j \in 1..Cardinality(S) : f[i] = f[j] => i = j}

(* xlater_cb of the GUI: rows of absent channels go, and new ones are      *)
(* added in the order the dictionary happens to have.                      *)
Rows(c, dict) ==
    LET kept == Keep(rows[c], DOMAIN dict)
    IN  {kept \o new : new \in Orders(DOMAIN dict \ Pending(kept))}

(* xlater_cb of the command line client: the entries with our reference,   *)
(* which are those without one as long as we have none.                    *)
Found(c, dict) == {w \in DOMAIN dict : dict[w].rid = cli[c].rid}

XlaterCb(c, dict) ==
    IF ~callback[c] THEN UNCHANGED <<rows, cli>>
    ELSE IF c \in Guis
    THEN /\ \E list \in Rows(c, dict) : rows' = [rows EXCEPT ![c] = list]
         /\ UNCHANGED cli
    ELSE /\ UNCHANGED rows
         /\ IF Found(c, dict) = {} THEN UNCHANGED cli
            ELSE \E w \in Found(c, dict) : cli' = [cli EXCEPT ![c].wid = w]

-----------------------------------------------------------------------------
(* tcp_receive_thr: one message *)

Receive(c, type) ==
    /\ conn[c] = "up" /\ receiver[c] = "up"
    /\ TakeMessage(c)
    /\ Message(c).type = type

(* Bug: a channel that was not created here is enabled like one that was. *)
AutoEnabledAlways(c, m) == m.id \notin Known(c)

(* auto_enable_xlater is set in both applications. *)
AutoEnabled(c, m) == m.id \notin Known(c) /\ m.remoteid \in xlater_q[c]

srv_running_xlater(c) ==
    /\ Receive(c, "RUNNING_XLATER") /\ lock[c] = "free"
    /\ LET m == Message(c)
           queued == m.id \notin Known(c) /\ m.remoteid \in xlater_q[c]
           xl == IF m.id \in Known(c) THEN xlaters[c][m.id]
                 ELSE IF queued THEN Xlater(m.remoteid, "alive")
                 ELSE Xlater(None, "none")
       IN  /\ xlaters' = [xlaters EXCEPT ![c] = With(c, m.id, xl)]
           /\ xlater_q' = [xlater_q EXCEPT ![c] = IF queued THEN @ \ {m.remoteid} ELSE @]
           /\ IF AutoEnabled(c, m) THEN q_msg(c, For("ENABLE_XLATER", m.id))
              ELSE UNCHANGED toserver
           /\ XlaterCb(c, xlaters'[c])
    /\ UNCHANGED <<sessionVars, conn, xln, lock, receiver, callback, gui, refused>>

(* Bug: the list view is not told. *)
srv_destroyed_silently(c) ==
    /\ Receive(c, "DESTROYED_XLATER") /\ lock[c] = "free"
    /\ xlaters' = [xlaters EXCEPT ![c] = Deleted(c, Message(c).id)]
    /\ UNCHANGED <<rows, cli>>
    /\ UNCHANGED <<toserver, sessionVars, conn, xlater_q, xln, lock, receiver,
                   callback, gui, refused>>

srv_destroyed_xlater(c) ==
    /\ Receive(c, "DESTROYED_XLATER") /\ lock[c] = "free"
    /\ xlaters' = [xlaters EXCEPT ![c] = Deleted(c, Message(c).id)]
    /\ XlaterCb(c, xlaters'[c])
    /\ UNCHANGED <<toserver, sessionVars, conn, xlater_q, xln, lock, receiver,
                   callback, gui, refused>>

(* Bug: the branch for a finished program returns with the lock taken. *)
StopSamplesKeepsLock(c, w) ==
    /\ q_msg(c, For("DISABLE_XLATER", w))
    /\ XlaterCb(c, xlaters[c])
    /\ lock' = [lock EXCEPT ![c] = "lost"]
    /\ UNCHANGED receiver

(* The program at the end of the pipe has exited: no more samples. *)
StopSamples(c, w) ==
    /\ q_msg(c, For("DISABLE_XLATER", w))
    /\ XlaterCb(c, xlaters[c])
    /\ UNCHANGED <<lock, receiver>>

(* The receiver thread ends with the lock taken: there is no feeder thread *)
(* to ask, or AFC slices an array with a float (every afcdecim-th frame).  *)
Raise(c) ==
    /\ lock' = [lock EXCEPT ![c] = "lost"]
    /\ receiver' = [receiver EXCEPT ![c] = "dead"]
    /\ UNCHANGED <<toserver, rows, cli>>

process_payload(c) ==
    /\ Receive(c, "PAYLOAD") /\ lock[c] = "free"
    /\ LET w == Message(c).id
           feeder == xlaters[c][w].feeder
           Ignore == UNCHANGED <<toserver, lock, receiver, rows, cli>>
       IN  IF w \notin Known(c) THEN Ignore
           ELSE \/ feeder = "ended" /\ StopSamples(c, w)
                \/ feeder = "alive" /\ Ignore
                \/ feeder = "none" /\ Raise(c)
                \/ feeder = "alive" /\ xlaters[c][w].afc /\ Raise(c)
    /\ UNCHANGED <<sessionVars, conn, xlaters, xlater_q, xln, callback, gui, refused>>

(* A short read, when the server is gone, ends the thread. *)
ConnectionLost(c) ==
    /\ conn[c] = "up" /\ receiver[c] = "up"
    /\ server = "killed" /\ toclient[c] = <<>>
    /\ receiver' = [receiver EXCEPT ![c] = "dead"]
    /\ UNCHANGED <<wireVars, sessionVars, conn, xlaters, xlater_q, xln, lock,
                   callback, appVars, refused>>

(* feeder_thr: the program has ended, its input cannot be written.  Nobody *)
(* can tell when it did before samples have come for it.                   *)
FeederEnds(c, w) ==
    /\ conn[c] = "up" /\ w \in Known(c) /\ xlaters[c][w].feeder = "alive"
    /\ Payload(w) \in Pending(toclient[c])
    /\ xlaters' = [xlaters EXCEPT ![c][w].feeder = "ended"]
    /\ UNCHANGED <<wireVars, sessionVars, conn, xlater_q, xln, lock, receiver,
                   callback, appVars, refused>>

-----------------------------------------------------------------------------
(* The operations called by the applications *)

(* GET_INFO and its answer are the business of RadioControl. *)
connect(c) ==
    /\ conn[c] = "off"
    /\ conn' = [conn EXCEPT ![c] = "up"]

(* The socket is closed and the process ends, and with it all it had: what *)
(* the sender thread has not written is lost.                              *)
disconnect(c) ==
    /\ conn' = [conn EXCEPT ![c] = "closed"]
    /\ \E n \in 0..Len(toserver[c]) :
        toserver' = [toserver EXCEPT ![c] = SubSeq(@, 1, n)]
    /\ toclient' = [toclient EXCEPT ![c] = <<>>]
    /\ xlaters' = [xlaters EXCEPT ![c] = <<>>]
    /\ xlater_q' = [xlater_q EXCEPT ![c] = {}]
    /\ lock' = [lock EXCEPT ![c] = "free"]
    /\ receiver' = [receiver EXCEPT ![c] = "dead"]
    /\ callback' = [callback EXCEPT ![c] = FALSE]

(* Bug: the next reference is the same. *)
create_xlater_again(c) ==
    /\ xlater_q' = [xlater_q EXCEPT ![c] = @ \cup {xln[c]}]
    /\ UNCHANGED xln
    /\ q_msg(c, Create(xln[c]))

create_xlater(c) ==
    /\ xlater_q' = [xlater_q EXCEPT ![c] = @ \cup {xln[c]}]
    /\ xln' = [xln EXCEPT ![c] = @ + 1]
    /\ q_msg(c, Create(xln[c]))

(* bound: what is on the way to and from the clients when a user acts *)
Uncrowded == server = "up" => \A c \in Clients :
    Len(toserver[c]) < MaxQueued /\ Len(toclient[c]) <= MaxInFlight

(* bound: no more channels than workers *)
MayCreate ==
    Cardinality({cr \in Clients \X (0..Cardinality(Workers)) : cr[2] < xln[cr[1]]})
        < Cardinality(Workers)

modify_xlater(c, w) ==
    /\ q_msg(c, For("MODIFY_XLATER", w))
    /\ XlaterCb(c, xlaters[c])

ReceiverStep(c) ==
    \/ srv_running_xlater(c) \/ srv_destroyed_xlater(c)
    \/ process_payload(c) \/ ConnectionLost(c)
=============================================================================
