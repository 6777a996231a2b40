-------------------------------- MODULE Wire --------------------------------
(***************************************************************************)
(* The TCP connection of each client, as the programs at its ends use it:  *)
(* a FIFO of whole messages in either direction.                           *)
(*                                                                         *)
(* libclient queues its requests in msgq, and tcp_send_thr writes them to  *)
(* the socket one by one; client_read_thr reads them in that order.  Two   *)
(* FIFOs in a row are one, and what msgq still holds when the socket is    *)
(* closed is a tail of toserver that is lost (see Disconnect).             *)
(* In the other direction tcp_receive_thr takes one message after another. *)
(***************************************************************************)
EXTENDS Integers, Sequences

CONSTANT Clients

VARIABLES
    toserver,   \* requests in msgq and on the way, by client
    toclient    \* messages of the server on the way, by client

wireVars == <<toserver, toclient>>

(* q_msg: a request joins the queue, and never waits. *)
q_msg(c, request) == toserver' = [toserver EXCEPT ![c] = Append(@, request)]

(* client_read_thr takes a request; tcp_receive_thr takes a message. *)
Request(c) == Head(toserver[c])
TakeRequest(c) ==
    /\ toserver[c] # <<>>
    /\ toserver' = [toserver EXCEPT ![c] = Tail(@)]
Message(c) == Head(toclient[c])
TakeMessage(c) ==
    /\ toclient[c] # <<>>
    /\ toclient' = [toclient EXCEPT ![c] = Tail(@)]

(* A critical section of the server writes to each client some messages. *)
WriteAll(sent) ==
    toclient' = [c \in Clients |-> toclient[c] \o sent[c]]

(* What is queued or on the way *)
Pending(queue) == {queue[i] : i \in DOMAIN queue}

WireInit ==
    /\ toserver = [c \in Clients |-> <<>>]
    /\ toclient = [c \in Clients |-> <<>>]
=============================================================================
