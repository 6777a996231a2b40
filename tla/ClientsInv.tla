----------------------------- MODULE ClientsInv -----------------------------
(***************************************************************************)
(* The inductive invariant from which the safety of Clients follows, as a  *)
(* conjunction of named parts, most of them about one client.  TLC checks  *)
(* it on small instances; it is proved inductive in ClientsProofs.         *)
(***************************************************************************)
EXTENDS Clients

Channels == [rid : Nat \cup {None}, feeder : {"none", "alive", "ended"},
             afc : BOOLEAN]
IsDictionary(d) == DOMAIN d \subseteq Wids /\ d \in [DOMAIN d -> Channels]
Places == {"connect", "create", "created", "slept", "disable", "destroy",
           "disconnect", "raised", "done"}

Typed ==
    /\ toserver \in [Clients -> Seq(Requests)]
    /\ toclient \in [Clients -> Seq(Messages)]
    /\ server \in {"up", "killed"}
    /\ wstate \in [Workers -> {"none", "running", "dying", "freed"}]
    /\ remoteid \in [Workers -> Nat \cup {NoRid}]
    /\ creator \in [Workers -> SUBSET Clients]
    /\ subs \in [Clients -> [Workers -> Nat]]
    /\ served \in [Clients -> {"none", "listed", "ended"}]
    /\ second \in [Clients -> {Idle} \cup [do : {"modified"}, worker : Workers]
                                     \cup [do : {"destroyed"}, worker : Wids]]
    /\ conn \in [Clients -> {"off", "up", "closed"}]
    /\ xlaters = [c \in Clients |-> xlaters[c]]
    /\ \A c \in Clients : IsDictionary(xlaters[c])
    /\ xlater_q \in [Clients -> SUBSET Nat] /\ xln \in [Clients -> Nat]
    /\ lock \in [Clients -> {"free", "lost"}]
    /\ receiver \in [Clients -> {"up", "dead"}]
    /\ callback \in [Clients -> BOOLEAN]
    /\ rows \in [Guis -> Seq(Wids)]
    /\ gui \in [Guis -> [editing : Nat, ops : Nat]]
    /\ cli \in [Clis -> [at : Places, rid : Nat \cup {NoRid, None},
                         wid : Wids \cup {None}]]

-----------------------------------------------------------------------------
(* Nobody has heard of a channel before it is created, so no two channels  *)
(* are taken for one, and no request of a client is for one yet to come.   *)
Made == {w \in Workers : wstate[w] # "none"} \cup {Stray}

IdsMade(c) ==
    /\ \A i \in DOMAIN toserver[c] :
        \/ toserver[c][i].type \in {"LIST_XLATERS", "CREATE_XLATER"}
        \/ toserver[c][i].id \in Made
    /\ \A i \in DOMAIN toclient[c] : toclient[c][i].id \in Made
    /\ Known(c) \subseteq Made
    /\ \A w \in Workers : subs[c][w] > 0 => w \in Made
    /\ second[c] # Idle => second[c].worker \in Made
    /\ c \in Guis => \A i \in DOMAIN rows[c] : rows[c][i] \in Made
    /\ c \in Clis => /\ cli[c].wid \in Made \cup {None}
                     /\ cli[c].at = "destroy" => cli[c].wid \in Made

(* Only a connected client that is listed is sent messages and knows       *)
(* channels, and has references or a callback to be told.                  *)
SessionInv(c) ==
    /\ conn[c] = "off" => /\ served[c] = "none" /\ toserver[c] = <<>>
                         /\ lock[c] = "free" /\ receiver[c] = "up"
    /\ served[c] = "none" => subs[c] = NoSubs
    /\ served[c] = "ended" => conn[c] = "closed"
    /\ served[c] = "none" \/ conn[c] # "up" => toclient[c] = <<>> /\ Known(c) = {}
    /\ conn[c] # "up" => xlater_q[c] = {}
    /\ c \in Guis /\ callback[c] => conn[c] = "up" /\ served[c] # "none"
    /\ c \in Clis => /\ cli[c].at = "connect" <=> conn[c] = "off"
                     /\ cli[c].at \in {"raised", "done"} <=> conn[c] = "closed"

-----------------------------------------------------------------------------
(* A reference is given to one request, and its request makes one channel: *)
(* there are never more channels than references, for which MayCreate      *)
(* leaves enough workers.                                                  *)
References == {cr \in Clients \X (0..Cardinality(Workers)) : cr[2] < xln[cr[1]]}

ChannelRefs ==
    /\ \A w \in Workers \cap Made : \E c \in Clients :
        creator[w] = {c} /\ remoteid[w] \in Nat /\ remoteid[w] < xln[c]
    /\ \A v, w \in Workers \cap Made :
        creator[v] = creator[w] /\ remoteid[v] = remoteid[w] => v = w
    /\ Cardinality(References) <= Cardinality(Workers)

RequestRefs(c) ==
    /\ \A r \in xlater_q[c] : r < xln[c]
    /\ \A i \in DOMAIN toserver[c] : toserver[c][i].type = "CREATE_XLATER" =>
        /\ toserver[c][i].remoteid < xln[c]
        /\ \A w \in Workers \cap Made :
            creator[w] = {c} => remoteid[w] # toserver[c][i].remoteid
        /\ \A j \in DOMAIN toserver[c] :
            toserver[c][j] = toserver[c][i] => j = i

(* The i-th message on the way to c answers its request r: it is the first *)
(* that c hears of that channel.                                           *)
Answers(c, i, r) ==
    /\ i \in DOMAIN toclient[c]
    /\ toclient[c][i].type = "RUNNING_XLATER" /\ toclient[c][i].remoteid = r
    /\ toclient[c][i].id \in Workers \ Known(c)
    /\ \A j \in 1..(i - 1) : toclient[c][j].type = "RUNNING_XLATER" =>
        toclient[c][j].id # toclient[c][i].id
Answered(c, r) == \E i \in DOMAIN toclient[c] : Answers(c, i, r)

QueueInv(c) == server = "up" /\ conn[c] = "up" =>
    \A r \in xlater_q[c] :
        (\E i \in DOMAIN toserver[c] : toserver[c][i] = Create(r)) \/ Answered(c, r)

(* Another's reference reaches the command line client only in the reply   *)
(* to its own MODIFY_XLATER, for a channel of another that it has taken    *)
(* for its own before it knew its reference.  It has asked for that after  *)
(* its channel, and is told of its channel before.                         *)
Foreign(c, m) ==
    /\ m.type = "RUNNING_XLATER" /\ m.remoteid # NoRid
    /\ m.id \in Workers => c \notin creator[m.id]

ScriptRefs(c) ==
    /\ \A i \in DOMAIN toserver[c] : toserver[c][i].type # "LIST_XLATERS"
    /\ cli[c].at \in {"connect", "create"} =>
        /\ \A i \in DOMAIN toserver[c] : toserver[c][i].type # "MODIFY_XLATER"
        /\ second[c].do # "modified" /\ xlater_q[c] = {}
        /\ \A i \in DOMAIN toclient[c] : ~Foreign(c, toclient[c][i])
    /\ server = "up" => \A r \in xlater_q[c] :
        /\ \A j \in DOMAIN toserver[c] : toserver[c][j].type = "MODIFY_XLATER" =>
            (\E i \in 1..(j - 1) : toserver[c][i] = Create(r)) \/ Answered(c, r)
        /\ second[c].do = "modified" => Answered(c, r)
    /\ \A r \in xlater_q[c], j \in DOMAIN toclient[c] :
        Foreign(c, toclient[c][j]) => \E i \in 1..(j - 1) : Answers(c, i, r)

-----------------------------------------------------------------------------
(* DESTROYED_XLATER is sent for a channel that has been destroyed.         *)
Dead == {w \in Workers : wstate[w] \in {"dying", "freed"}}
DeadInv(c) ==
    /\ \A i \in DOMAIN toclient[c] : toclient[c][i].type = "DESTROYED_XLATER" =>
        toclient[c][i].id \in Dead \cup {Stray}
    /\ second[c].do = "destroyed" => second[c].worker \in Dead \cup {Stray}

(* It comes after every message that announces the channel as running, but *)
(* for those that revive it, and after the last samples.                   *)
AboutToTell(w) ==
    \E d \in Clients : second[d] = [do |-> "destroyed", worker |-> w]
VanishInv(c) == server = "up" /\ conn[c] = "up" =>
    \A w \in Dead \ revived : ~AboutToTell(w) =>
        /\ w \in Known(c) =>
            \E i \in DOMAIN toclient[c] : toclient[c][i] = Destroyed(w)
        /\ \A i \in DOMAIN toclient[c] :
            toclient[c][i].type = "RUNNING_XLATER" /\ toclient[c][i].id = w =>
                \E j \in DOMAIN toclient[c] : j > i /\ toclient[c][j] = Destroyed(w)

KnowsInv(c) == server = "up" /\ conn[c] = "up" /\ callback[c] =>
    \A w \in Workers : wstate[w] = "running" =>
        \/ w \in Known(c)
        \/ \E i \in DOMAIN toclient[c] :
            toclient[c][i].type = "RUNNING_XLATER" /\ toclient[c][i].id = w
        \/ \E i \in DOMAIN toserver[c] : toserver[c][i].type = "LIST_XLATERS"

(* A client enables a channel it knows, which it has a feeder for, and     *)
(* forgets it with the last samples.                                       *)
HasFeeder(c, w) ==
    w \in Known(c) /\ (xlaters[c][w].feeder # "none" \/ <<c, w>> \in refused)
FeedInv(c) == conn[c] = "up" => \A w \in Workers :
    /\ wstate[w] = "running"
    /\ \/ subs[c][w] > 0
       \/ \E i \in DOMAIN toserver[c] : toserver[c][i] = For("ENABLE_XLATER", w)
    => HasFeeder(c, w)
SamplesInv(c) == \A i \in DOMAIN toclient[c] :
    toclient[c][i].type = "PAYLOAD" =>
        /\ HasFeeder(c, toclient[c][i].id)
        /\ \A j \in 1..(i - 1) : toclient[c][j] # Destroyed(toclient[c][i].id)

RowsInv(c) ==
    /\ callback[c] => \A i \in DOMAIN rows[c] : rows[c][i] \in Known(c)
    /\ \A i, j \in DOMAIN rows[c] : rows[c][i] = rows[c][j] => i = j
    /\ ~callback[c] => rows[c] = <<>>

ScriptInv(c) ==
    /\ conn[c] = "up" => lock[c] = "free" /\ (receiver[c] = "dead" => server = "killed")
    /\ \A w \in Known(c) : ~xlaters[c][w].afc

(* An entry of its dictionary has a reference only if it is of its channel.*)
OwnRefs(c) == \A w \in Known(c) :
    xlaters[c][w].rid # None => w \in Workers /\ c \in creator[w]

-----------------------------------------------------------------------------
ClientInv(c) ==
    /\ IdsMade(c) /\ SessionInv(c) /\ RequestRefs(c) /\ QueueInv(c)
    /\ DeadInv(c) /\ VanishInv(c) /\ FeedInv(c) /\ SamplesInv(c)
    /\ c \in Guis => KnowsInv(c) /\ RowsInv(c)
    /\ c \in Clis => ScriptRefs(c) /\ ScriptInv(c) /\ OwnRefs(c)

(* The inductive invariant of the clients and their server: each of the    *)
(* safety properties of Clients is one of its parts, or follows from one.  *)
ClientsIInv ==
    /\ Typed
    /\ ChannelRefs
    /\ \A c \in Clients : ClientInv(c)
    /\ refused \subseteq Guis \X Wids
=============================================================================
