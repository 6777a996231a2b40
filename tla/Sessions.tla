------------------------------ MODULE Sessions ------------------------------
(***************************************************************************)
(* The server as its clients see it: the sessions (server/socket.c,        *)
(* client_read_thr), what parse_client_req (server/client_parser.c) does   *)
(* to channels and subscriptions and answers, and the sending of samples   *)
(* (server/server.c, socket_write_thr).  One action is one critical        *)
(* section of llmutex.  The channels' insides are the business of Server.  *)
(***************************************************************************)
EXTENDS Wire, Sorting

CONSTANTS
    Workers,        \* the numbers worker IDs are taken from
    Stray,          \* what a freed worker may hold in place of its ID
    MaxInFlight     \* bound: messages on the way when samples are sent or a user acts

ASSUME WorkersAssumption ==
    /\ Workers \subseteq Nat /\ IsFiniteSet(Workers)
    /\ Stray \notin Workers

VARIABLES
    server,     \* the process: up, killed
    wstate,     \* of each worker: none, running, dying (not enabled), freed
    remoteid,   \* the reference its creator knows it by
    creator,    \* history: who created it
    subs,       \* req_frames: the entries of a client for a worker
    served,     \* of each client: none, listed (in tcp_cli_head), ended
    second,     \* what a session does after it has left its first section
    revived,    \* history: workers announced as running after their end
    conn        \* of each client: off, up, closed

workerVars == <<wstate, remoteid, creator>>
sessionVars == <<server, workerVars, subs, served, second, revived>>

NoRid == -1
Idle == [do |-> "none"]
NoSubs == [w \in Workers |-> 0]

SessionsInit ==
    /\ server = "up"
    /\ wstate = [w \in Workers |-> "none"]
    /\ remoteid = [w \in Workers |-> NoRid]
    /\ creator = [w \in Workers |-> {}]
    /\ subs = [c \in Clients |-> NoSubs]
    /\ served = [c \in Clients |-> "none"]
    /\ second = [c \in Clients |-> Idle]
    /\ revived = {}
    /\ conn = [c \in Clients |-> "off"]

Listed == {c \in Clients : served[c] = "listed"}
Gone == {c \in Listed : conn[c] = "closed"}
Free == {w \in Workers : wstate[w] = "none"}
(* Bug: a worker that is freed is not unlinked. *)
EverInWorkerList == {w \in Workers : wstate[w] # "none"}

InWorkerList == {w \in Workers : wstate[w] \in {"running", "dying"}}

Running(w, r) == [type |-> "RUNNING_XLATER", id |-> w, remoteid |-> r]
Destroyed(w) == [type |-> "DESTROYED_XLATER", id |-> w]
Payload(w) == [type |-> "PAYLOAD", id |-> w]

(* writen: what goes to a client that has left is lost, or the write raises *)
(* SIGPIPE, which nobody handles, and ends the server.                      *)
Write(sent) ==
    \/ /\ WriteAll([d \in Clients |-> IF d \in Listed \ Gone THEN sent[d] ELSE <<>>])
       /\ UNCHANGED server
    \/ /\ \E d \in Gone : sent[d] # <<>>
       /\ server' = "killed"
       /\ UNCHANGED toclient

(* Bug: the other clients are told the creator's reference as well. *)
AnnouncedToAll(me, d, w, r) == Running(w, r)

(* msg_running_xlater: the reference for me, -1 for the other clients *)
Announced(me, d, w, r) == Running(w, IF d = me THEN r ELSE NoRid)

-----------------------------------------------------------------------------
(* network_listener, and the end of client_read_thr *)

Accept(c) ==
    /\ server = "up" /\ conn[c] # "off" /\ served[c] = "none"
    /\ served' = [served EXCEPT ![c] = "listed"]
    /\ UNCHANGED <<wireVars, server, workerVars, subs, second, revived>>

EndSession(c) ==
    /\ server = "up" /\ c \in Gone /\ second[c] = Idle
    /\ toserver[c] = <<>>
    /\ served' = [served EXCEPT ![c] = "ended"]
    /\ subs' = [subs EXCEPT ![c] = NoSubs]
    /\ UNCHANGED <<wireVars, server, workerVars, second, revived>>

-----------------------------------------------------------------------------
(* parse_client_req *)

Serve(c, type) ==
    /\ server = "up" /\ c \in Listed /\ second[c] = Idle
    /\ TakeRequest(c)
    /\ Request(c).type = type

NewWorker == CHOOSE w \in Free : \A v \in Free : w <= v

(* Bug: the creator alone hears of the new channel. *)
ServeCreateQuietly(c) ==
    /\ Serve(c, "CREATE_XLATER")
    /\ wstate' = [wstate EXCEPT ![NewWorker] = "running"]
    /\ remoteid' = [remoteid EXCEPT ![NewWorker] = Request(c).remoteid]
    /\ creator' = [creator EXCEPT ![NewWorker] = {c}]
    /\ Write([d \in Clients |->
        IF d = c THEN <<Announced(c, d, NewWorker, Request(c).remoteid)>> ELSE <<>>])
    /\ UNCHANGED <<subs, served, second, revived>>

(* Bug: remoteid is filled in after the announcement. *)
ServeCreateUnnamed(c) ==
    /\ Serve(c, "CREATE_XLATER")
    /\ wstate' = [wstate EXCEPT ![NewWorker] = "running"]
    /\ remoteid' = [remoteid EXCEPT ![NewWorker] = Request(c).remoteid]
    /\ creator' = [creator EXCEPT ![NewWorker] = {c}]
    /\ Write([d \in Clients |-> <<Announced(c, d, NewWorker, remoteid[NewWorker])>>])
    /\ UNCHANGED <<subs, served, second, revived>>

ServeCreate(c) ==
    /\ Serve(c, "CREATE_XLATER")
    /\ wstate' = [wstate EXCEPT ![NewWorker] = "running"]
    /\ remoteid' = [remoteid EXCEPT ![NewWorker] = Request(c).remoteid]
    /\ creator' = [creator EXCEPT ![NewWorker] = {c}]
    /\ Write([d \in Clients |-> <<Announced(c, d, NewWorker, Request(c).remoteid)>>])
    /\ UNCHANGED <<subs, served, second, revived>>

(* Every request adds an entry, also for a worker that is gone. *)
ServeEnable(c) ==
    /\ Serve(c, "ENABLE_XLATER")
    /\ subs' = [subs EXCEPT ![c] =
        [w \in Workers |-> IF w = Request(c).id THEN @[w] + 1 ELSE @[w]]]
    /\ UNCHANGED <<toclient, server, workerVars, served, second, revived>>

(* The entries for w of all clients are removed.  The walk goes on from an *)
(* entry it has freed: it is led on, ends there, or ends the server.       *)
Unsubscribe(w) ==
    \/ /\ \E cut \in SUBSET {c \in Clients : subs[c][w] > 1} :
            subs' = [c \in Clients |-> [subs[c] EXCEPT ![w] =
                        IF c \in cut THEN @ - 1 ELSE 0]]
       /\ UNCHANGED server
    \/ /\ \E c \in Listed : subs[c][w] > 0
       /\ server' = "killed"
       /\ UNCHANGED subs

ServeDisable(c) ==
    /\ Serve(c, "DISABLE_XLATER")
    /\ IF Request(c).id \in InWorkerList
       THEN Unsubscribe(Request(c).id) ELSE UNCHANGED <<server, subs>>
    /\ UNCHANGED <<toclient, workerVars, served, second, revived>>

(* The first section changes the worker; the reply waits. *)
ServeModify(c) ==
    /\ Serve(c, "MODIFY_XLATER")
    /\ second' = IF Request(c).id \in InWorkerList
                 THEN [second EXCEPT ![c] = [do |-> "modified", worker |-> Request(c).id]]
                 ELSE second
    /\ UNCHANGED <<toclient, server, workerVars, subs, served, revived>>

(* The reply is sent without llmutex, from a worker that may be freed. *)
ReplyModify(c) ==
    /\ server = "up" /\ second[c].do = "modified"
    /\ LET w == second[c].worker
       IN  /\ \E id \in IF wstate[w] = "freed" THEN {w, Stray} ELSE {w} :
                Write([d \in Clients |-> <<Announced(c, d, id, remoteid[w])>>])
           /\ revived' = IF wstate[w] = "running" THEN revived ELSE revived \cup {w}
    /\ second' = [second EXCEPT ![c] = Idle]
    /\ UNCHANGED <<toserver, workerVars, subs, served>>

(* SLIST_INSERT_HEAD: the worker list begins with the newest. *)
NewestFirst(W) ==
    [i \in 1..Cardinality(W) |-> Ascending(W)[Cardinality(W) + 1 - i]]

(* LIST_XLATERS announces every worker in the list to all clients, and to *)
(* the one that asked with the reference of whoever created it.           *)
ServeList(c) ==
    /\ Serve(c, "LIST_XLATERS")
    /\ Write([d \in Clients |-> [i \in 1..Cardinality(InWorkerList) |->
        LET w == NewestFirst(InWorkerList)[i]
        IN  Announced(c, d, w, remoteid[w])]])
    /\ revived' = revived \cup {w \in InWorkerList : wstate[w] = "dying"}
    /\ UNCHANGED <<workerVars, subs, served, second>>

ServeDestroy(c) ==
    /\ Serve(c, "DESTROY_XLATER")
    /\ LET w == Request(c).id
       IN  /\ IF w \in InWorkerList
              THEN /\ wstate' = [wstate EXCEPT ![w] = "dying"]
                   /\ Unsubscribe(w)
              ELSE UNCHANGED <<wstate, server, subs>>
           /\ second' = [second EXCEPT ![c] = [do |-> "destroyed", worker |-> w]]
    /\ UNCHANGED <<toclient, remoteid, creator, served, revived>>

(* Bug: only the client that asked is told. *)
TellDestroyer(c) ==
    /\ server = "up" /\ second[c].do = "destroyed"
    /\ Write([d \in Clients |-> IF d = c THEN <<Destroyed(second[c].worker)>> ELSE <<>>])
    /\ second' = [second EXCEPT ![c] = Idle]
    /\ UNCHANGED <<toserver, workerVars, subs, served, revived>>

(* msg_destroyed_xlater *)
TellDestroyed(c) ==
    /\ server = "up" /\ second[c].do = "destroyed"
    /\ Write([d \in Clients |-> <<Destroyed(second[c].worker)>>])
    /\ second' = [second EXCEPT ![c] = Idle]
    /\ UNCHANGED <<toserver, workerVars, subs, served, revived>>

-----------------------------------------------------------------------------
(* socket_write_thr: a packet of a running channel goes to each client     *)
(* once for every entry; a destroyed channel is reaped.                    *)

SendPayload(w) ==
    /\ server = "up" /\ wstate[w] = "running"
    /\ \E c \in Listed : subs[c][w] > 0
    /\ \A c \in Clients :      \* bound
        Len(toclient[c]) < MaxInFlight /\ Len(toserver[c]) < MaxInFlight
    /\ Write([d \in Clients |-> [i \in 1..subs[d][w] |-> Payload(w)]])
    /\ UNCHANGED <<toserver, workerVars, subs, served, second, revived>>

Reap(w) ==
    /\ server = "up" /\ wstate[w] = "dying"
    /\ wstate' = [wstate EXCEPT ![w] = "freed"]
    /\ UNCHANGED <<wireVars, server, remoteid, creator, subs, served, second, revived>>

SessionStep(c) ==
    \/ Accept(c) \/ EndSession(c) \/ ServeCreate(c) \/ ServeEnable(c)
    \/ ServeDisable(c) \/ ServeModify(c) \/ ReplyModify(c)
    \/ ServeList(c) \/ ServeDestroy(c) \/ TellDestroyed(c)
WriterStep == \E w \in Workers : SendPayload(w) \/ Reap(w)
=============================================================================
