---------------------------- MODULE ClientsProofs ----------------------------
(***************************************************************************)
(* The invariants of Clients, for any number of GUIs, command line clients *)
(* and workers, for every bound and every interleaving.                    *)
(*                                                                         *)
(* What the steps of a client do to its queues and its dictionary is first *)
(* reduced to six kinds of change; what the server does to a queue of      *)
(* messages, to what is appended to it.                                    *)
(***************************************************************************)
EXTENDS ClientsInv, OrderFacts, SequenceTheorems, TLAPS

USE WorkersAssumption, ClientsAssumption

-----------------------------------------------------------------------------
(* Queues, element by element *)

LEMMA HeadTailAt ==
    ASSUME NEW S, NEW s \in Seq(S), s # <<>>
    PROVE  /\ Tail(s) \in Seq(S) /\ Head(s) = s[1] /\ 1 \in DOMAIN s
           /\ Len(Tail(s)) = Len(s) - 1
           /\ \A i \in DOMAIN Tail(s) : i + 1 \in DOMAIN s /\ Tail(s)[i] = s[i + 1]
           /\ \A i \in DOMAIN s : i # 1 => i - 1 \in DOMAIN Tail(s)
<1>1. Tail(s) \in Seq(S) /\ Len(Tail(s)) = Len(s) - 1 /\ Head(s) = s[1]
    BY HeadTailProperties
<1>2. DOMAIN s = 1..Len(s) /\ DOMAIN Tail(s) = 1..Len(Tail(s)) /\ Len(s) \in Nat \ {0}
    BY <1>1, EmptySeq
<1> QED
    BY <1>1, <1>2, HeadTailProperties

LEMMA AppendAt ==
    ASSUME NEW S, NEW s \in Seq(S), NEW e \in S
    PROVE  /\ Append(s, e) \in Seq(S)
           /\ DOMAIN s = 1..Len(s) /\ DOMAIN Append(s, e) = 1..(Len(s) + 1)
           /\ Len(s) \in Nat
           /\ \A i \in DOMAIN s : Append(s, e)[i] = s[i]
           /\ Append(s, e)[Len(s) + 1] = e
OBVIOUS

LEMMA ConcatAt ==
    ASSUME NEW S, NEW s \in Seq(S), NEW t \in Seq(S)
    PROVE  /\ s \o t \in Seq(S) /\ DOMAIN s = 1..Len(s) /\ Len(s) \in Nat
           /\ DOMAIN t = 1..Len(t) /\ Len(t) \in Nat
           /\ DOMAIN (s \o t) = 1..(Len(s) + Len(t))
           /\ \A i \in DOMAIN s : i \in DOMAIN (s \o t) /\ (s \o t)[i] = s[i]
           /\ \A i \in DOMAIN t : /\ Len(s) + i \in DOMAIN (s \o t)
                                  /\ (s \o t)[Len(s) + i] = t[i]
           /\ \A i \in DOMAIN (s \o t) : i \notin DOMAIN s =>
                i - Len(s) \in DOMAIN t /\ (s \o t)[i] = t[i - Len(s)]
<1> DEFINE cat == s \o t
<1>1. /\ cat \in Seq(S) /\ DOMAIN s = 1..Len(s) /\ Len(s) \in Nat
      /\ DOMAIN t = 1..Len(t) /\ Len(t) \in Nat
      /\ DOMAIN cat = 1..(Len(s) + Len(t))
    BY ConcatProperties
<1>2. \A i \in 1..Len(s) + Len(t) :
        cat[i] = IF i <= Len(s) THEN s[i] ELSE t[i - Len(s)]
    BY ConcatProperties
<1> SUFFICES
      /\ \A i \in DOMAIN s : i \in DOMAIN cat /\ cat[i] = s[i]
      /\ \A i \in DOMAIN t : Len(s) + i \in DOMAIN cat /\ cat[Len(s) + i] = t[i]
      /\ \A i \in DOMAIN cat : i \notin DOMAIN s =>
            i - Len(s) \in DOMAIN t /\ cat[i] = t[i - Len(s)]
    BY <1>1
<1> HIDE DEF cat
<1> QED
    BY <1>1, <1>2

-----------------------------------------------------------------------------
LEMMA NewestFirstLists ==
    ASSUME NEW W, W \subseteq Workers
    PROVE  /\ Cardinality(W) \in Nat
           /\ \A i \in 1..Cardinality(W) : NewestFirst(W)[i] \in W
           /\ \A w \in W : \E i \in 1..Cardinality(W) : NewestFirst(W)[i] = w
<1>1. W \subseteq Nat /\ IsFiniteSet(W)
    BY FS_Subset
<1>2. /\ Cardinality(W) \in Nat
      /\ \A k \in 1..Cardinality(W) : Ascending(W)[k] \in W
      /\ \A w \in W : \E k \in 1..Cardinality(W) : Ascending(W)[k] = w
    BY <1>1, AscendingLists
<1>3. ASSUME NEW i \in 1..Cardinality(W)
      PROVE  /\ Cardinality(W) + 1 - i \in 1..Cardinality(W)
             /\ NewestFirst(W)[i] = Ascending(W)[Cardinality(W) + 1 - i]
    BY <1>2 DEF NewestFirst
<1>4. ASSUME NEW w \in W PROVE \E i \in 1..Cardinality(W) : NewestFirst(W)[i] = w
    <2>1. PICK k \in 1..Cardinality(W) : Ascending(W)[k] = w
        BY <1>2
    <2>2. /\ Cardinality(W) + 1 - k \in 1..Cardinality(W)
          /\ Cardinality(W) + 1 - (Cardinality(W) + 1 - k) = k
        BY <1>2
    <2> QED
        BY <1>3, <2>1, <2>2
<1> QED
    BY <1>2, <1>3, <1>4

(* What xlater_cb makes of rows that are different is rows that are        *)
(* different, of channels of the dictionary.                               *)
Different(s) == \A i, j \in DOMAIN s : s[i] = s[j] => i = j

LEMMA KeepFilters ==
    ASSUME NEW S, NEW T, NEW s \in Seq(T), Different(s)
    PROVE  /\ Keep(s, S) \in Seq(T) /\ Different(Keep(s, S))
           /\ \A k \in DOMAIN Keep(s, S) : Keep(s, S)[k] \in S
<1> DEFINE I == {i \in DOMAIN s : s[i] \in S}
           n == Cardinality(I)
           A == Ascending(I)
<1>1. I \subseteq DOMAIN s
    OBVIOUS
<1>2. /\ IsFiniteSet(I) /\ I \subseteq Nat
      /\ Keep(s, S) \in Seq(T) /\ DOMAIN Keep(s, S) = 1..n
      /\ \A k \in 1..n : A[k] \in I /\ Keep(s, S)[k] = s[A[k]]
  <2> HIDE DEF I
  <2> QED
      BY <1>1, SublistLists DEF Keep, I
<1>3. \A k, l \in 1..n : A[k] = A[l] => k = l
    BY <1>2, AscendingLists
<1> HIDE DEF n, A, Keep
<1> QED
    BY <1>2, <1>3 DEF Different

LEMMA RowsMatchDictionary ==
    ASSUME NEW c \in Guis, rows[c] \in Seq(Wids), Different(rows[c]),
           NEW dict, DOMAIN dict \subseteq Wids, NEW list \in Rows(c, dict)
    PROVE  /\ list \in Seq(Wids) /\ Different(list)
           /\ \A i \in DOMAIN list : list[i] \in DOMAIN dict
<1> DEFINE kept == Keep(rows[c], DOMAIN dict)
           N == DOMAIN dict \ Pending(kept)
<1>1. /\ kept \in Seq(Wids) /\ Different(kept)
      /\ \A k \in DOMAIN kept : kept[k] \in DOMAIN dict
    BY KeepFilters
<1>2. PICK new \in Orders(N) : list = kept \o new
    BY DEF Rows
<1>3. IsFiniteSet(N) /\ Cardinality(N) \in Nat
    <2>1. IsFiniteSet(Wids)
        BY FS_AddElement DEF Wids
    <2>2. IsFiniteSet(N)
        BY <2>1, FS_Subset
    <2> QED
        BY <2>2, FS_CardinalityType
<1>4. /\ new \in Seq(Wids) /\ Different(new)
      /\ \A i \in DOMAIN new : new[i] \in N
    <2>1. new \in [1..Cardinality(N) -> N] /\ Different(new)
        BY <1>2, <1>3 DEF Orders, Different
    <2>2. N \subseteq Wids
        OBVIOUS
    <2> HIDE DEF N
    <2> QED
        BY <1>3, <2>1, <2>2
<1>5. \A i \in DOMAIN new, k \in DOMAIN kept : new[i] # kept[k]
    BY <1>4 DEF Pending
<1>6. \A i \in DOMAIN new : new[i] \in DOMAIN dict
    BY <1>4
<1> HIDE DEF kept, N
<1>7. /\ list \in Seq(Wids) /\ DOMAIN kept = 1..Len(kept) /\ Len(kept) \in Nat
      /\ DOMAIN new = 1..Len(new) /\ Len(new) \in Nat
      /\ DOMAIN list = 1..(Len(kept) + Len(new))
      /\ \A i \in DOMAIN kept : list[i] = kept[i]
      /\ \A i \in DOMAIN list : i \notin DOMAIN kept =>
            i - Len(kept) \in DOMAIN new /\ list[i] = new[i - Len(kept)]
    BY <1>1, <1>2, <1>4, ConcatAt
<1>8. ASSUME NEW i \in DOMAIN list PROVE list[i] \in DOMAIN dict
    <2>1. CASE i \in DOMAIN kept
        BY <2>1, <1>1, <1>7
    <2>2. CASE i \notin DOMAIN kept
        BY <2>2, <1>6, <1>7
    <2> QED
        BY <2>1, <2>2
<1>9. ASSUME NEW i \in DOMAIN list, NEW j \in DOMAIN list, list[i] = list[j]
      PROVE  i = j
    <2>1. CASE i \in DOMAIN kept /\ j \in DOMAIN kept
        BY <2>1, <1>1, <1>7, <1>9 DEF Different
    <2>2. CASE i \in DOMAIN kept /\ j \notin DOMAIN kept
        BY <2>2, <1>5, <1>7, <1>9
    <2>3. CASE i \notin DOMAIN kept /\ j \in DOMAIN kept
        BY <2>3, <1>5, <1>7, <1>9
    <2>4. CASE i \notin DOMAIN kept /\ j \notin DOMAIN kept
        <3>1. i - Len(kept) = j - Len(kept)
            BY <2>4, <1>4, <1>7, <1>9 DEF Different
        <3> QED
            BY <3>1, <1>7
    <2> QED
        BY <2>1, <2>2, <2>3, <2>4
<1> QED
    BY <1>7, <1>8, <1>9 DEF Different

LEMMA DifferentCardinality ==
    ASSUME NEW T, NEW s \in Seq(T), Different(s)
    PROVE  Len(s) = Cardinality(Pending(s))
<1>1. /\ DOMAIN s = 1..Len(s) /\ Len(s) \in Nat /\ IsFiniteSet(1..Len(s))
      /\ Cardinality(1..Len(s)) = Len(s)
    <2>1. DOMAIN s = 1..Len(s) /\ Len(s) \in Nat
        BY LenProperties
    <2>2. /\ IsFiniteSet(1..Len(s))
          /\ Cardinality(1..Len(s)) = IF 1 > Len(s) THEN 0 ELSE Len(s) - 1 + 1
        BY <2>1, FS_Interval
    <2> QED
        BY <2>1, <2>2
<1>2. s \in [1..Len(s) -> Pending(s)]
    BY LenProperties DEF Pending
<1>3. s \in Surjection(1..Len(s), Pending(s))
    BY <1>1, <1>2 DEF Surjection, Pending
<1>4. s \in Injection(1..Len(s), Pending(s))
    BY <1>1, <1>2 DEF Injection, IsInjective, Different
<1> QED
    BY <1>1, <1>3, <1>4, FS_Surjection

-----------------------------------------------------------------------------
LEMMA ClientsStart == ClientsInit => ClientsIInv
<1> SUFFICES ASSUME ClientsInit PROVE ClientsIInv
    OBVIOUS
<1> USE DEF ClientsInit, WireInit, SessionsInit, LibInit
<1>1. Typed
    BY DEF Typed, Idle, NoSubs, NoRid, None, Places, IsDictionary, Known
<1>2. ChannelRefs
    <2>1. References = {}
        BY DEF References
    <2>2. Cardinality(References) = 0 /\ Cardinality(Workers) \in Nat
        BY <2>1, FS_EmptySet, FS_CardinalityType
    <2> QED
        BY <2>2 DEF ChannelRefs, Made
<1>3. ASSUME NEW c \in Clients PROVE ClientInv(c)
    <2>1. /\ toserver[c] = <<>> /\ toclient[c] = <<>> /\ Known(c) = {}
          /\ xlater_q[c] = {} /\ second[c] = Idle /\ conn[c] = "off"
          /\ DOMAIN toserver[c] = {} /\ DOMAIN toclient[c] = {}
          /\ served[c] = "none"
        BY DEF Known
    <2>2. IdsMade(c)
        BY <2>1 DEF IdsMade, NoSubs, Made
    <2>3. SessionInv(c)
        BY <2>1 DEF SessionInv
    <2>4. RequestRefs(c) /\ QueueInv(c)
        BY <2>1 DEF RequestRefs, QueueInv
    <2>5. DeadInv(c) /\ VanishInv(c)
        BY <2>1 DEF DeadInv, VanishInv, Idle
    <2>6. FeedInv(c) /\ SamplesInv(c)
        BY <2>1 DEF FeedInv, SamplesInv
    <2>7. c \in Guis => KnowsInv(c) /\ RowsInv(c)
        BY <2>1 DEF KnowsInv, RowsInv
    <2>8. c \in Clis => ScriptRefs(c) /\ ScriptInv(c) /\ OwnRefs(c)
        BY <2>1 DEF ScriptRefs, ScriptInv, OwnRefs, Idle
    <2> QED
        BY <2>2, <2>3, <2>4, <2>5, <2>6, <2>7, <2>8 DEF ClientInv
<1> QED
    BY <1>1, <1>2, <1>3 DEF ClientsIInv

-----------------------------------------------------------------------------
(* A step of the client c changes nothing of another client. *)
Alone(c) ==
    /\ UNCHANGED sessionVars
    /\ toserver' = [toserver EXCEPT ![c] = toserver'[c]]
    /\ toclient' = [toclient EXCEPT ![c] = toclient'[c]]
    /\ conn' = [conn EXCEPT ![c] = conn'[c]]
    /\ xlaters' = [xlaters EXCEPT ![c] = xlaters'[c]]
    /\ xlater_q' = [xlater_q EXCEPT ![c] = xlater_q'[c]]
    /\ xln' = [xln EXCEPT ![c] = xln'[c]]
    /\ lock' = [lock EXCEPT ![c] = lock'[c]]
    /\ receiver' = [receiver EXCEPT ![c] = receiver'[c]]
    /\ callback' = [callback EXCEPT ![c] = callback'[c]]
    /\ rows' = [rows EXCEPT ![c] = rows'[c]]
    /\ gui' = [gui EXCEPT ![c] = gui'[c]]
    /\ cli' = [cli EXCEPT ![c] = cli'[c]]
    /\ refused \subseteq refused' /\ refused' \subseteq refused \cup ({c} \X Wids)
    /\ refused' # refused => c \in Guis

OwnTyped(c) ==
    /\ toserver[c] \in Seq(Requests) /\ toclient[c] \in Seq(Messages)
    /\ conn[c] \in {"off", "up", "closed"}
    /\ IsDictionary(xlaters[c])
    /\ xlater_q[c] \subseteq Nat /\ xln[c] \in Nat
    /\ lock[c] \in {"free", "lost"} /\ receiver[c] \in {"up", "dead"}
    /\ callback[c] \in BOOLEAN
    /\ c \in Guis => rows[c] \in Seq(Wids) /\ gui[c] \in [editing : Nat, ops : Nat]
    /\ c \in Clis => cli[c] \in [at : Places, rid : Nat \cup {NoRid, None},
                                 wid : Wids \cup {None}]

LEMMA TypedOwn == ASSUME Typed, NEW c \in Clients PROVE OwnTyped(c)
BY DEF Typed, OwnTyped

LEMMA SameExcept ==
    ASSUME Typed, NEW c \in Clients
    PROVE  /\ toserver = [toserver EXCEPT ![c] = toserver[c]]
           /\ toclient = [toclient EXCEPT ![c] = toclient[c]]
           /\ conn = [conn EXCEPT ![c] = conn[c]]
           /\ xlaters = [xlaters EXCEPT ![c] = xlaters[c]]
           /\ xlater_q = [xlater_q EXCEPT ![c] = xlater_q[c]]
           /\ xln = [xln EXCEPT ![c] = xln[c]]
           /\ lock = [lock EXCEPT ![c] = lock[c]]
           /\ receiver = [receiver EXCEPT ![c] = receiver[c]]
           /\ callback = [callback EXCEPT ![c] = callback[c]]
           /\ rows = [rows EXCEPT ![c] = rows[c]]
           /\ gui = [gui EXCEPT ![c] = gui[c]]
           /\ cli = [cli EXCEPT ![c] = cli[c]]
<1>1. /\ toserver = [toserver EXCEPT ![c] = toserver[c]]
      /\ toclient = [toclient EXCEPT ![c] = toclient[c]]
      /\ conn = [conn EXCEPT ![c] = conn[c]]
    BY DEF Typed
<1>2. /\ xlaters = [xlaters EXCEPT ![c] = xlaters[c]]
      /\ xlater_q = [xlater_q EXCEPT ![c] = xlater_q[c]]
      /\ xln = [xln EXCEPT ![c] = xln[c]]
    BY DEF Typed
<1>3. /\ lock = [lock EXCEPT ![c] = lock[c]]
      /\ receiver = [receiver EXCEPT ![c] = receiver[c]]
      /\ callback = [callback EXCEPT ![c] = callback[c]]
    BY DEF Typed
<1>4. /\ rows = [rows EXCEPT ![c] = rows[c]]
      /\ gui = [gui EXCEPT ![c] = gui[c]]
      /\ cli = [cli EXCEPT ![c] = cli[c]]
    BY DEF Typed
<1> QED
    BY <1>1, <1>2, <1>3, <1>4

LEMMA AloneTyped ==
    ASSUME Typed, NEW c \in Clients, Alone(c), OwnTyped(c)' PROVE Typed'
<1> USE DEF Typed, Alone, OwnTyped, sessionVars, workerVars
<1>1. /\ toserver' \in [Clients -> Seq(Requests)]
      /\ toclient' \in [Clients -> Seq(Messages)]
    BY ZenonT(40)
<1>2. /\ server' \in {"up", "killed"}
      /\ wstate' \in [Workers -> {"none", "running", "dying", "freed"}]
      /\ remoteid' \in [Workers -> Nat \cup {NoRid}]
      /\ creator' \in [Workers -> SUBSET Clients]
      /\ subs' \in [Clients -> [Workers -> Nat]]
      /\ served' \in [Clients -> {"none", "listed", "ended"}]
      /\ second' \in [Clients -> {Idle} \cup [do : {"modified"}, worker : Workers]
                                     \cup [do : {"destroyed"}, worker : Wids]]
    OBVIOUS
<1>3. conn' \in [Clients -> {"off", "up", "closed"}]
    OBVIOUS
<1>4. xlater_q' \in [Clients -> SUBSET Nat]
    OBVIOUS
<1>5. xln' \in [Clients -> Nat]
    OBVIOUS
<1>6. lock' \in [Clients -> {"free", "lost"}]
    OBVIOUS
<1>7. receiver' \in [Clients -> {"up", "dead"}]
    OBVIOUS
<1>8. callback' \in [Clients -> BOOLEAN]
    OBVIOUS
<1>9. /\ xlaters' = [d \in Clients |-> xlaters'[d]]
      /\ \A d \in Clients : IsDictionary(xlaters'[d])
    BY ZenonT(40)
<1>10. rows' \in [Guis -> Seq(Wids)]
    <2>1. rows' = [rows EXCEPT ![c] = rows'[c]] /\ rows \in [Guis -> Seq(Wids)]
        OBVIOUS
    <2>2. c \in Guis => rows'[c] \in Seq(Wids)
        OBVIOUS
    <2> QED
        BY ONLY <2>1, <2>2
<1>11. gui' \in [Guis -> [editing : Nat, ops : Nat]]
    <2>1. /\ gui' = [gui EXCEPT ![c] = gui'[c]]
          /\ gui \in [Guis -> [editing : Nat, ops : Nat]]
        OBVIOUS
    <2>2. c \in Guis => gui'[c] \in [editing : Nat, ops : Nat]
        OBVIOUS
    <2> QED
        BY ONLY <2>1, <2>2
<1>12. cli' \in [Clis -> [at : Places, rid : Nat \cup {NoRid, None},
                         wid : Wids \cup {None}]]
    <2> DEFINE T == [at : Places, rid : Nat \cup {NoRid, None}, wid : Wids \cup {None}]
    <2>1. cli' = [cli EXCEPT ![c] = cli'[c]] /\ cli \in [Clis -> T]
        OBVIOUS
    <2>2. c \in Clis => cli'[c] \in T
        OBVIOUS
    <2> SUFFICES cli' \in [Clis -> T]
        OBVIOUS
    <2> HIDE DEF T
    <2> QED
        BY ONLY <2>1, <2>2
<1> QED
    BY <1>1, <1>2, <1>3, <1>4, <1>5, <1>6, <1>7, <1>8, <1>9, <1>10, <1>11, <1>12

-----------------------------------------------------------------------------
(* What the callback of an application does, called with a dictionary *)
LEMMA CallbackEffect ==
    ASSUME Typed, NEW c \in Clients, c \in Guis => Different(rows[c]),
           NEW dict, DOMAIN dict \subseteq Wids, XlaterCb(c, dict)
    PROVE  /\ rows' = [rows EXCEPT ![c] = rows'[c]]
           /\ cli' = [cli EXCEPT ![c] = cli'[c]]
           /\ c \in Guis =>
                /\ cli' = cli
                /\ rows'[c] \in Seq(Wids) /\ Different(rows'[c])
                /\ callback[c] =>
                    \A i \in DOMAIN rows'[c] : rows'[c][i] \in DOMAIN dict
                /\ ~callback[c] => rows'[c] = rows[c]
           /\ c \in Clis =>
                /\ rows' = rows
                /\ cli'[c].at = cli[c].at
                /\ cli'[c].wid \in {cli[c].wid} \cup DOMAIN dict
                /\ cli'[c] \in [at : Places, rid : Nat \cup {NoRid, None},
                                wid : Wids \cup {None}]
<1>1. /\ rows \in [Guis -> Seq(Wids)] /\ callback[c] \in BOOLEAN
      /\ cli \in [Clis -> [at : Places, rid : Nat \cup {NoRid, None},
                           wid : Wids \cup {None}]]
    BY DEF Typed
<1>2. CASE UNCHANGED <<rows, cli>> /\ (c \in Guis => ~callback[c])
    BY <1>1, <1>2
<1>3. CASE c \in Guis /\ callback[c]
    <2>1. c \notin Clis /\ cli' = cli
        BY <1>3 DEF XlaterCb
    <2>2. PICK list \in Rows(c, dict) : rows' = [rows EXCEPT ![c] = list]
        BY <1>3 DEF XlaterCb
    <2>3. rows'[c] = list
        BY <1>1, <1>3, <2>2
    <2>4. /\ list \in Seq(Wids) /\ Different(list)
          /\ \A i \in DOMAIN list : list[i] \in DOMAIN dict
        BY <1>1, <1>3, RowsMatchDictionary
    <2>5. cli' = [cli EXCEPT ![c] = cli'[c]]
        BY <1>1, <2>1
    <2> QED
        BY <1>3, <2>1, <2>2, <2>3, <2>4, <2>5
<1>4. CASE c \in Clis /\ callback[c] /\ Found(c, dict) # {}
    <2>1. c \notin Guis /\ rows' = rows
        BY <1>4 DEF XlaterCb
    <2>2. PICK w \in Found(c, dict) : cli' = [cli EXCEPT ![c].wid = w]
        BY <1>4 DEF XlaterCb
    <2>3. w \in DOMAIN dict /\ cli'[c] = [cli[c] EXCEPT !.wid = w]
        BY <1>1, <1>4, <2>2 DEF Found
    <2>4. /\ cli[c] \in [at : Places, rid : Nat \cup {NoRid, None}, wid : Wids \cup {None}]
          /\ w \in Wids
        BY <1>1, <1>4, <2>3
    <2>5. /\ cli'[c].at = cli[c].at /\ cli'[c].wid = w
          /\ cli'[c] \in [at : Places, rid : Nat \cup {NoRid, None}, wid : Wids \cup {None}]
        BY <2>3, <2>4
    <2>6. cli' = [cli EXCEPT ![c] = cli'[c]] /\ rows' = [rows EXCEPT ![c] = rows'[c]]
        BY <1>1, <2>1, <2>2, <2>3
    <2> QED
        BY <2>1, <2>3, <2>5, <2>6
<1> QED
    BY <1>1, <1>2, <1>3, <1>4 DEF XlaterCb

(* The part of the invariant that is about the applications' own state *)
AppInv(c) ==
    /\ c \in Guis => RowsInv(c) /\ \A i \in DOMAIN rows[c] : rows[c][i] \in Made
    /\ c \in Clis => /\ cli[c].wid \in Made \cup {None}
                     /\ cli[c].at = "destroy" => cli[c].wid \in Made
                     /\ ScriptInv(c)

(* A small change: what is sent does not create, what is taken is samples, *)
(* and the dictionary keeps its channels and their programs.               *)
Sound(c, q) ==
    /\ q.type # "CREATE_XLATER"
    /\ IF q.type = "LIST_XLATERS" THEN c \in Guis ELSE q.id \in Made
    /\ q.type = "ENABLE_XLATER" => HasFeeder(c, q.id)'
    /\ q.type = "MODIFY_XLATER" /\ c \in Clis => cli[c].at = "slept"

UnderWay == {"created", "slept", "disable", "destroy", "disconnect"}

Small(c) ==
    /\ conn[c] = "up"
    /\ UNCHANGED <<conn, xlater_q, xln>>
    /\ Known(c)' = Known(c)
    /\ \A w \in Known(c) :
        xlaters[c][w].feeder # "none" => xlaters'[c][w].feeder # "none"
    /\ c \in Clis => \A w \in Known(c) : xlaters'[c][w].rid = xlaters[c][w].rid
    /\ \/ UNCHANGED toclient
       \/ /\ toclient[c] # <<>> /\ Head(toclient[c]).type = "PAYLOAD"
          /\ toclient'[c] = Tail(toclient[c])
    /\ \/ UNCHANGED <<toserver, callback>>
       \/ \E q \in Requests :
            /\ toserver'[c] = Append(toserver[c], q) /\ Sound(c, q)
            /\ \/ UNCHANGED callback
               \/ /\ q.type = "LIST_XLATERS"
                  /\ conn[c] = "up" /\ c \in Listed
    /\ c \in Clis => \/ cli'[c].at = cli[c].at
                     \/ cli[c].at \in UnderWay /\ cli'[c].at \in UnderWay

-----------------------------------------------------------------------------
(* The small steps of the receiver thread and of the feeders *)
LEMMA OwnParts ==
    ASSUME ClientsIInv, NEW c \in Clients
    PROVE  /\ Typed /\ OwnTyped(c) /\ ClientInv(c) /\ AppInv(c)
           /\ Known(c) \subseteq Wids /\ (c \in Guis => Different(rows[c]))
           /\ (c \in Guis \/ c \in Clis) /\ (c \in Clis => c \notin Guis)
BY TypedOwn DEF ClientsIInv, ClientInv, IdsMade, AppInv, RowsInv, Different,
                OwnTyped, IsDictionary, Known

LEMMA ConnectionLostIsSmall ==
    ASSUME ClientsIInv, NEW c \in Clients, ConnectionLost(c)
    PROVE  Alone(c) /\ OwnTyped(c)' /\ Small(c) /\ AppInv(c)'
<1>0. Typed /\ OwnTyped(c) /\ AppInv(c)
    BY OwnParts
<1> USE DEF ConnectionLost, wireVars, appVars, sessionVars, workerVars
<1>1. Alone(c)
    BY <1>0 DEF Alone, Typed
<1>2. OwnTyped(c)'
    BY <1>0 DEF OwnTyped, Typed
<1>3. Small(c)
    BY <1>0 DEF Small, Known
<1>4. AppInv(c)'
    BY <1>0 DEF AppInv, RowsInv, ScriptInv, Known, Typed, Made
<1> QED
    BY <1>1, <1>2, <1>3, <1>4

LEMMA FeederEndsIsSmall ==
    ASSUME ClientsIInv, NEW c \in Clients, NEW w \in Wids, FeederEnds(c, w)
    PROVE  Alone(c) /\ OwnTyped(c)' /\ Small(c) /\ AppInv(c)'
<1>0. Typed /\ OwnTyped(c) /\ AppInv(c)
    BY OwnParts
<1> USE DEF FeederEnds, wireVars, appVars, sessionVars, workerVars
<1>1. /\ xlaters'[c] = [xlaters[c] EXCEPT ![w] = [xlaters[c][w] EXCEPT !.feeder = "ended"]]
      /\ xlaters' = [xlaters EXCEPT ![c] = xlaters'[c]]
    BY <1>0 DEF Typed
<1>2. /\ Known(c)' = Known(c) /\ w \in Known(c)
      /\ \A v \in Known(c) : v # w => xlaters'[c][v] = xlaters[c][v]
      /\ xlaters'[c][w] = [xlaters[c][w] EXCEPT !.feeder = "ended"]
      /\ xlaters[c] \in [Known(c) -> Channels] /\ Known(c) \subseteq Wids
    BY <1>0, <1>1 DEF Known, OwnTyped, IsDictionary
<1>3. IsDictionary(xlaters'[c])
    BY <1>1, <1>2 DEF IsDictionary, Known, Channels
<1>4. Alone(c)
    BY <1>0, <1>1 DEF Alone, Typed
<1>5. OwnTyped(c)'
    BY <1>0, <1>3 DEF OwnTyped
<1>6. Small(c)
    BY <1>0, <1>2 DEF Small, Channels
<1>7. AppInv(c)'
    <2>1. \A v \in Known(c) : xlaters'[c][v].afc = xlaters[c][v].afc
        BY <1>2 DEF Channels
    <2> QED
        BY <1>0, <1>2, <2>1 DEF AppInv, RowsInv, ScriptInv, Made
<1> QED
    BY <1>4, <1>5, <1>6, <1>7

LEMMA PayloadIsSmall ==
    ASSUME ClientsIInv, NEW c \in Clients, process_payload(c)
    PROVE  Alone(c) /\ OwnTyped(c)' /\ Small(c) /\ AppInv(c)'
<1> DEFINE m == Message(c)
           w == m.id
<1>0. /\ Typed /\ OwnTyped(c) /\ AppInv(c) /\ Known(c) \subseteq Wids
      /\ c \in Guis => Different(rows[c])
      /\ (c \in Guis \/ c \in Clis) /\ (c \in Clis => c \notin Guis)
    BY OwnParts
<1> USE DEF process_payload, Receive, TakeMessage, sessionVars, workerVars
<1>1. /\ toclient[c] # <<>> /\ m = toclient[c][1] /\ m.type = "PAYLOAD"
      /\ Head(toclient[c]) = m /\ 1 \in DOMAIN toclient[c]
      /\ toclient' = [toclient EXCEPT ![c] = Tail(toclient[c])]
      /\ toclient'[c] = Tail(toclient[c]) /\ Tail(toclient[c]) \in Seq(Messages)
    BY <1>0, HeadTailAt DEF Message, OwnTyped, Typed
<1>2. /\ w \in Known(c) /\ w \in Made
      /\ xlaters[c][w].feeder # "none" \/ <<c, w>> \in refused
    BY <1>1 DEF ClientsIInv, ClientInv, SamplesInv, HasFeeder, IdsMade
<1>3. /\ UNCHANGED <<xlaters, xlater_q, xln, conn, callback, gui, refused>>
      /\ UNCHANGED sessionVars /\ Known(c)' = Known(c) /\ Made' = Made
    BY DEF Known, Made
<1>4. ASSUME StopSamples(c, w)
      PROVE  Alone(c) /\ OwnTyped(c)' /\ Small(c) /\ AppInv(c)'
    <2> DEFINE q == For("DISABLE_XLATER", w)
    <2>1. q \in Requests /\ q.type = "DISABLE_XLATER" /\ q.id = w
        BY <1>0, <1>2 DEF For, Requests
    <2>2. /\ toserver' = [toserver EXCEPT ![c] = Append(toserver[c], q)]
          /\ toserver'[c] = Append(toserver[c], q)
          /\ Append(toserver[c], q) \in Seq(Requests)
          /\ UNCHANGED <<lock, receiver>>
        BY <1>0, <1>4, <2>1 DEF StopSamples, q_msg, Typed
    <2> HIDE DEF q
    <2>3. /\ rows' = [rows EXCEPT ![c] = rows'[c]]
          /\ cli' = [cli EXCEPT ![c] = cli'[c]]
          /\ c \in Guis =>
                /\ cli' = cli
                /\ rows'[c] \in Seq(Wids) /\ Different(rows'[c])
                /\ callback[c] =>
                    \A i \in DOMAIN rows'[c] : rows'[c][i] \in Known(c)
                /\ ~callback[c] => rows'[c] = rows[c]
          /\ c \in Clis =>
                /\ rows' = rows
                /\ cli'[c].at = cli[c].at
                /\ cli'[c].wid \in {cli[c].wid} \cup Known(c)
                /\ cli'[c] \in [at : Places, rid : Nat \cup {NoRid, None},
                                wid : Wids \cup {None}]
        BY <1>0, <1>4, CallbackEffect DEF StopSamples, Known
    <2>4. Alone(c)
        <3>1. /\ toserver' = [toserver EXCEPT ![c] = toserver'[c]]
              /\ toclient' = [toclient EXCEPT ![c] = toclient'[c]]
            BY <1>1, <2>2
        <3> QED
            BY <1>0, <1>3, <2>2, <2>3, <3>1, SameExcept DEF Alone
    <2>5. OwnTyped(c)'
        BY <1>0, <1>1, <1>3, <2>2, <2>3 DEF OwnTyped
    <2>6. Small(c)
        <3>1. Sound(c, q)
            BY <1>2, <2>1 DEF Sound
        <3> QED
            BY <1>1, <1>3, <2>1, <2>2, <2>3, <3>1 DEF Small
    <2>7. AppInv(c)'
        <3>1. Known(c) \subseteq Made
            BY DEF ClientsIInv, ClientInv, IdsMade
        <3>2. c \in Guis => RowsInv(c)' /\ \A i \in DOMAIN rows'[c] : rows'[c][i] \in Made
            BY <1>0, <1>3, <2>3, <3>1 DEF AppInv, RowsInv, Different
        <3>3. c \in Clis => ScriptInv(c)'
            BY <1>0, <1>3, <2>2 DEF AppInv, ScriptInv
        <3> QED
            BY <1>0, <1>3, <2>3, <3>1, <3>2, <3>3 DEF AppInv
    <2> QED
        BY <2>4, <2>5, <2>6, <2>7
<1>5. ASSUME toserver' = toserver /\ rows' = rows /\ cli' = cli,
             (lock' = lock /\ receiver' = receiver) \/ (Raise(c) /\ c \in Guis)
      PROVE  Alone(c) /\ OwnTyped(c)' /\ Small(c) /\ AppInv(c)'
    <2>1. Alone(c)
        <3>1. /\ toclient' = [toclient EXCEPT ![c] = toclient'[c]]
              /\ lock' = [lock EXCEPT ![c] = lock'[c]]
              /\ receiver' = [receiver EXCEPT ![c] = receiver'[c]]
            <4>1. CASE Raise(c)
                BY <1>0, <1>1, <4>1 DEF Raise, Typed
            <4>2. CASE lock' = lock /\ receiver' = receiver
                BY <1>0, <1>1, <4>2, SameExcept
            <4> QED
                BY <1>5, <4>1, <4>2
        <3> QED
            BY <1>0, <1>3, <1>5, <3>1, SameExcept DEF Alone
    <2>2. OwnTyped(c)'
        <3>1. lock'[c] \in {"free", "lost"} /\ receiver'[c] \in {"up", "dead"}
            <4>1. CASE Raise(c)
                BY <1>0, <4>1 DEF Raise, Typed
            <4>2. CASE lock' = lock /\ receiver' = receiver
                BY <1>0, <4>2 DEF OwnTyped
            <4> QED
                BY <1>5, <4>1, <4>2
        <3> QED
            BY <1>0, <1>1, <1>3, <1>5, <3>1 DEF OwnTyped
    <2>3. Small(c)
        BY <1>1, <1>3, <1>5 DEF Small
    <2>4. AppInv(c)'
        BY <1>0, <1>3, <1>5 DEF AppInv, RowsInv, ScriptInv
    <2> QED
        BY <2>1, <2>2, <2>3, <2>4
<1>6. ASSUME Raise(c), xlaters[c][w].feeder = "none" \/ xlaters[c][w].afc
      PROVE  c \in Guis
    <2>1. refused \subseteq Guis \X Wids
        BY DEF ClientsIInv
    <2>2. c \in Clis => ~xlaters[c][w].afc
        BY <1>0, <1>2 DEF AppInv, ScriptInv
    <2> QED
        BY <1>0, <1>2, <1>6, <2>1, <2>2
<1>7. \/ StopSamples(c, w)
      \/ UNCHANGED <<toserver, lock, receiver, rows, cli>>
      \/ Raise(c) /\ (xlaters[c][w].feeder = "none" \/ xlaters[c][w].afc)
    BY <1>2
<1>8. CASE StopSamples(c, w)
    BY <1>4, <1>8
<1>9. CASE UNCHANGED <<toserver, lock, receiver, rows, cli>>
    BY <1>5, <1>9
<1>10. CASE Raise(c) /\ (xlaters[c][w].feeder = "none" \/ xlaters[c][w].afc)
    <2>1. toserver' = toserver /\ rows' = rows /\ cli' = cli
        BY <1>10 DEF Raise
    <2> QED
        BY <1>5, <1>6, <1>10, <2>1
<1> QED
    BY <1>7, <1>8, <1>9, <1>10

-----------------------------------------------------------------------------
(* The small steps of a GUI *)
GuiCalm(c) ==
    /\ conn[c] = "up"
    /\ UNCHANGED <<toclient, sessionVars, conn, xlater_q, xln, receiver, cli>>
    /\ lock' = [lock EXCEPT ![c] = lock'[c]] /\ lock'[c] \in {"free", "lost"}
    /\ gui' = [gui EXCEPT ![c] = gui'[c]] /\ gui'[c] \in [editing : Nat, ops : Nat]
    /\ refused \subseteq refused' /\ refused' \subseteq refused \cup ({c} \X Wids)

GuiRows(c) ==
    /\ rows' = [rows EXCEPT ![c] = rows'[c]]
    /\ rows'[c] \in Seq(Wids) /\ Different(rows'[c])
    /\ callback[c] => \A i \in DOMAIN rows'[c] : rows'[c][i] \in Known(c)
    /\ ~callback[c] => rows'[c] = <<>>

GuiChannels(c) ==
    /\ xlaters' = [xlaters EXCEPT ![c] = xlaters'[c]]
    /\ xlaters'[c] \in [Known(c) -> Channels]
    /\ \A w \in Known(c) :
        xlaters[c][w].feeder # "none" => xlaters'[c][w].feeder # "none"

GuiAsks(c) ==
    \/ UNCHANGED <<toserver, callback>>
    \/ \E q \in Requests :
        /\ q_msg(c, q) /\ Sound(c, q)
        /\ \/ UNCHANGED callback
           \/ /\ q.type = "LIST_XLATERS" /\ conn[c] = "up" /\ c \in Listed
              /\ callback' = [callback EXCEPT ![c] = TRUE]

LEMMA GuiIsSmall ==
    ASSUME ClientsIInv, NEW c \in Guis,
           GuiCalm(c), GuiRows(c), GuiChannels(c), GuiAsks(c)
    PROVE  Alone(c) /\ OwnTyped(c)' /\ Small(c) /\ AppInv(c)'
<1>0. /\ c \in Clients /\ c \notin Clis /\ Typed /\ OwnTyped(c) /\ AppInv(c)
      /\ Known(c) \subseteq Wids
    BY OwnParts
<1>1. /\ UNCHANGED <<toclient, conn, xlater_q, xln, receiver, cli>>
      /\ UNCHANGED sessionVars /\ Made' = Made
    BY DEF GuiCalm, Made, sessionVars, workerVars
<1>2. /\ Known(c)' = Known(c) /\ IsDictionary(xlaters'[c])
      /\ DOMAIN xlaters'[c] = Known(c)
    BY <1>0 DEF GuiChannels, IsDictionary, Known
<1> DEFINE Asks == \E q \in Requests :
            /\ toserver'[c] = Append(toserver[c], q) /\ Sound(c, q)
            /\ \/ UNCHANGED callback
               \/ q.type = "LIST_XLATERS" /\ conn[c] = "up" /\ c \in Listed
           Result ==
            /\ toserver' = [toserver EXCEPT ![c] = toserver'[c]]
            /\ callback' = [callback EXCEPT ![c] = callback'[c]]
            /\ toserver'[c] \in Seq(Requests) /\ callback'[c] \in BOOLEAN
            /\ callback[c] => callback'[c]
            /\ UNCHANGED <<toserver, callback>> \/ Asks
<1>3. Result
    <2>1. CASE UNCHANGED <<toserver, callback>>
        BY <1>0, <2>1, SameExcept DEF OwnTyped
    <2>2. ASSUME NEW q \in Requests, q_msg(c, q), Sound(c, q),
                 \/ UNCHANGED callback
                 \/ /\ q.type = "LIST_XLATERS" /\ conn[c] = "up" /\ c \in Listed
                    /\ callback' = [callback EXCEPT ![c] = TRUE]
          PROVE  Result
        <3>1. /\ toserver' = [toserver EXCEPT ![c] = toserver'[c]]
              /\ toserver'[c] = Append(toserver[c], q)
              /\ toserver'[c] \in Seq(Requests)
            BY <1>0, <2>2 DEF q_msg, Typed
        <3>2. /\ callback' = [callback EXCEPT ![c] = callback'[c]]
              /\ callback'[c] = callback[c] \/ callback'[c] = TRUE
            BY <1>0, <2>2, SameExcept DEF Typed
        <3>3. Asks
            BY <2>2, <3>1
        <3> HIDE DEF Asks
        <3> QED
            BY <1>0, <3>1, <3>2, <3>3 DEF OwnTyped
    <2> HIDE DEF Result
    <2> QED
        BY <2>1, <2>2 DEF GuiAsks
<1>4. Alone(c)
    BY <1>0, <1>1, <1>3, SameExcept DEF Alone, GuiCalm, GuiRows, GuiChannels
<1>5. OwnTyped(c)'
    BY <1>0, <1>1, <1>2, <1>3 DEF OwnTyped, GuiCalm, GuiRows
<1>6. Small(c)
    <2>1. conn[c] = "up"
        BY DEF GuiCalm
    <2> QED
        BY <1>0, <1>1, <1>2, <1>3, <2>1 DEF Small, GuiChannels
<1>7. AppInv(c)'
    <2>1. Known(c) \subseteq Made
        BY <1>0 DEF ClientsIInv, ClientInv, IdsMade
    <2>2. ~callback[c] => rows'[c] = <<>>
        BY DEF GuiRows
    <2>3. RowsInv(c)'
        BY <1>2, <1>3, <2>2 DEF RowsInv, GuiRows, Different
    <2>4. \A i \in DOMAIN rows'[c] : rows'[c][i] \in Made
        BY <1>0, <2>1 DEF GuiRows, OwnTyped
    <2> QED
        BY <1>0, <1>1, <2>3, <2>4 DEF AppInv
<1> QED
    BY <1>4, <1>5, <1>6, <1>7

(* What the GUI's handlers leave alone *)
LEMMA GuiParts ==
    ASSUME ClientsIInv, NEW c \in Guis
    PROVE  /\ c \in Clients /\ Typed /\ OwnTyped(c) /\ Known(c) \subseteq Wids
           /\ Known(c) \subseteq Made /\ Different(rows[c])
           /\ callback[c] => \A i \in DOMAIN rows[c] : rows[c][i] \in Known(c)
           /\ ~callback[c] => rows[c] = <<>>
           /\ \A i \in DOMAIN rows[c] : rows[c][i] \in Made
           /\ xlaters[c] \in [Known(c) -> Channels] /\ gui[c].ops \in Nat
           /\ gui[c] \in [editing : Nat, ops : Nat]
           /\ gui \in [Guis -> [editing : Nat, ops : Nat]]
           /\ lock \in [Clients -> {"free", "lost"}]
           /\ rows[c] \in Seq(Wids)
<1>1. c \in Clients
    OBVIOUS
<1> QED
    BY <1>1, OwnParts DEF AppInv, RowsInv, OwnTyped, IsDictionary, Known, Typed,
                          ClientsIInv, ClientInv, IdsMade

LEMMA SameRows ==
    ASSUME ClientsIInv, NEW c \in Guis, UNCHANGED rows PROVE GuiRows(c)
BY GuiParts, SameExcept DEF GuiRows

LEMMA SameChannels ==
    ASSUME ClientsIInv, NEW c \in Guis, UNCHANGED xlaters PROVE GuiChannels(c)
BY GuiParts, SameExcept DEF GuiChannels, Known

LEMMA AsksFor ==
    ASSUME ClientsIInv, NEW c \in Guis, NEW w \in Wids \cap Made,
           NEW type \in {"DISABLE_XLATER", "MODIFY_XLATER", "DESTROY_XLATER"},
           q_msg(c, For(type, w)), UNCHANGED callback
    PROVE  GuiAsks(c)
<1>1. For(type, w) \in Requests /\ Sound(c, For(type, w))
    BY DEF For, Requests, Sound
<1> QED
    BY <1>1 DEF GuiAsks

LEMMA AsksEnable ==
    ASSUME ClientsIInv, NEW c \in Guis, NEW w \in Known(c),
           q_msg(c, For("ENABLE_XLATER", w)), UNCHANGED callback,
           HasFeeder(c, w)'
    PROVE  GuiAsks(c)
<1>1. w \in Wids /\ w \in Made
    BY GuiParts
<1>2. For("ENABLE_XLATER", w) \in Requests /\ Sound(c, For("ENABLE_XLATER", w))
    BY <1>1 DEF For, Requests, Sound
<1> QED
    BY <1>2 DEF GuiAsks

LEMMA EventParts ==
    ASSUME ClientsIInv, NEW c \in Guis, Event(c)
    PROVE  /\ callback[c] /\ conn[c] = "up"
           /\ gui' = [gui EXCEPT ![c] = gui'[c]]
           /\ gui'[c] \in [editing : Nat, ops : Nat]
<1>1. gui'[c] = [gui[c] EXCEPT !.ops = gui[c].ops + 1]
    BY GuiParts DEF Event
<1>2. gui'[c] \in [editing : Nat, ops : Nat]
    BY <1>1, GuiParts
<1>3. gui' = [gui EXCEPT ![c] = gui'[c]]
    BY <1>1, GuiParts DEF Event
<1> QED
    BY <1>2, <1>3 DEF Event

LEMMA LockKept ==
    ASSUME ClientsIInv, NEW c \in Guis, UNCHANGED lock \/ showerror(c)
    PROVE  lock' = [lock EXCEPT ![c] = lock'[c]] /\ lock'[c] \in {"free", "lost"}
<1>1. CASE UNCHANGED lock
    BY <1>1, GuiParts
<1>2. CASE showerror(c)
    BY <1>2, GuiParts DEF showerror
<1> QED
    BY <1>1, <1>2

LEMMA GuiSmallSteps ==
    ASSUME ClientsIInv, NEW c \in Guis, NEW w \in Wids, NEW i \in Nat,
           \/ da_configure(c) \/ DemodNewRefused(c) \/ DemodRunning(c, w)
           \/ DemodRunningRefused(c, w) \/ DragOrScroll(c, w) \/ EditRow(c, i)
           \/ kill_toggle_cb(c, i) \/ afc_toggle_cb(c, i) \/ CommitRow(c)
           \/ EditFails(c)
    PROVE  GuiCalm(c) /\ GuiRows(c) /\ GuiChannels(c) /\ GuiAsks(c)
<1> USE DEF wireVars, sessionVars, workerVars, libVars
<1>1. CASE da_configure(c)
    <2>1. Ask("LIST_XLATERS") \in Requests /\ Sound(c, Ask("LIST_XLATERS"))
        BY DEF Ask, Requests, Sound
    <2>2. GuiAsks(c)
        BY <1>1, <2>1 DEF da_configure, GuiAsks, Ask
    <2>3. GuiCalm(c)
        <3>1. gui'[c] = [gui[c] EXCEPT !.ops = IF callback[c] THEN gui[c].ops + 1
                                              ELSE gui[c].ops]
            BY <1>1, GuiParts DEF da_configure
        <3>2. gui'[c] \in [editing : Nat, ops : Nat]
            BY <3>1, GuiParts
        <3>3. gui' = [gui EXCEPT ![c] = gui'[c]]
            BY <1>1, <3>1, GuiParts DEF da_configure
        <3> QED
            BY <1>1, <3>2, <3>3, LockKept DEF da_configure, GuiCalm
    <2> QED
        BY <1>1, <2>2, <2>3, SameRows, SameChannels DEF da_configure
<1>2. CASE DemodNewRefused(c)
    <2>1. GuiCalm(c)
        BY <1>2, LockKept, EventParts DEF DemodNewRefused, Locked, GuiCalm
    <2> QED
        BY <1>2, <2>1, SameRows, SameChannels DEF DemodNewRefused, GuiAsks
<1>3. CASE DemodRunning(c, w)
    <2>1. GuiCalm(c)
        BY <1>3, LockKept, EventParts DEF DemodRunning, Locked, GuiCalm
    <2>2. /\ xlaters' = [xlaters EXCEPT ![c] = xlaters'[c]]
          /\ xlaters'[c] = [xlaters[c] EXCEPT ![w] = [xlaters[c][w] EXCEPT !.feeder = "alive"]]
        BY <1>3, GuiParts DEF DemodRunning, Typed
    <2>3. /\ w \in Known(c) /\ xlaters[c] \in [Known(c) -> Channels]
        BY <1>3, GuiParts DEF DemodRunning
    <2>4. /\ xlaters'[c] \in [Known(c) -> Channels] /\ Known(c)' = Known(c)
          /\ \A v \in Known(c) : xlaters'[c][v].feeder =
                IF v = w THEN "alive" ELSE xlaters[c][v].feeder
        BY <2>2, <2>3 DEF Channels, Known
    <2>5. GuiChannels(c) /\ HasFeeder(c, w)'
        BY <2>2, <2>3, <2>4 DEF GuiChannels, HasFeeder
    <2> QED
        BY <1>3, <2>1, <2>3, <2>5, SameRows, AsksEnable DEF DemodRunning
<1>4. CASE DemodRunningRefused(c, w)
    <2>1. GuiCalm(c)
        BY <1>4, LockKept, EventParts DEF DemodRunningRefused, Locked, GuiCalm
    <2>2. w \in Known(c) /\ Known(c)' = Known(c) /\ HasFeeder(c, w)'
        BY <1>4 DEF DemodRunningRefused, HasFeeder, Known
    <2> QED
        BY <1>4, <2>1, <2>2, SameRows, SameChannels, AsksEnable DEF DemodRunningRefused
<1>5. CASE DragOrScroll(c, w)
    <2>1. GuiCalm(c)
        BY <1>5, LockKept, EventParts, GuiParts, CallbackEffect
        DEF DragOrScroll, Locked, GuiCalm, modify_xlater, Known
    <2>2. GuiRows(c)
        BY <1>5, GuiParts, CallbackEffect
        DEF DragOrScroll, GuiRows, modify_xlater, Known
    <2>3. w \in Wids \cap Made /\ q_msg(c, For("MODIFY_XLATER", w)) /\ UNCHANGED callback
        BY <1>5, GuiParts DEF DragOrScroll, modify_xlater
    <2> QED
        BY <1>5, <2>1, <2>2, <2>3, SameChannels, AsksFor DEF DragOrScroll
<1>6. CASE EditRow(c, i)
    <2>1. gui'[c] = [gui[c] EXCEPT !.ops = gui[c].ops + 1, !.editing = i]
        BY <1>6, GuiParts DEF EditRow
    <2>2. GuiCalm(c)
        BY <1>6, <2>1, GuiParts, LockKept DEF EditRow, GuiCalm
    <2> QED
        BY <1>6, <2>2, SameRows, SameChannels DEF EditRow, GuiAsks
<1>7. CASE kill_toggle_cb(c, i)
    <2>1. GuiCalm(c)
        BY <1>7, LockKept, EventParts DEF kill_toggle_cb, Locked, GuiCalm
    <2>2. rows[c][i] \in Wids \cap Made
        BY <1>7, GuiParts DEF kill_toggle_cb
    <2> QED
        BY <1>7, <2>1, <2>2, SameRows, SameChannels, AsksFor DEF kill_toggle_cb
<1>8. CASE afc_toggle_cb(c, i)
    <2>1. GuiCalm(c)
        BY <1>8, LockKept, EventParts DEF afc_toggle_cb, GuiCalm
    <2> DEFINE v == rows[c][i]
    <2>2. /\ xlaters' = [xlaters EXCEPT ![c] = xlaters'[c]]
          /\ xlaters'[c] = [xlaters[c] EXCEPT ![v] =
                [xlaters[c][v] EXCEPT !.afc = ~xlaters[c][v].afc]]
        BY <1>8, GuiParts DEF afc_toggle_cb, Typed
    <2>3. v \in Known(c) /\ xlaters[c] \in [Known(c) -> Channels]
        BY <1>8, GuiParts DEF afc_toggle_cb
    <2>4. /\ xlaters'[c] \in [Known(c) -> Channels]
          /\ \A u \in Known(c) : xlaters'[c][u].feeder = xlaters[c][u].feeder
        <3> DEFINE b == ~xlaters[c][v].afc
        <3>1. b \in BOOLEAN
            OBVIOUS
        <3>2. xlaters'[c] = [xlaters[c] EXCEPT ![v] = [xlaters[c][v] EXCEPT !.afc = b]]
            BY <2>2
        <3> HIDE DEF v, b
        <3> QED
            BY <2>3, <3>1, <3>2 DEF Channels
    <2>5. GuiChannels(c)
        BY <2>2, <2>4 DEF GuiChannels
    <2> QED
        BY <1>8, <2>1, <2>5, SameRows DEF afc_toggle_cb, GuiAsks
<1>9. CASE CommitRow(c)
    <2> DEFINE v == rows[c][gui[c].editing]
    <2>1. gui'[c] = [gui[c] EXCEPT !.editing = 0] /\ v \in Wids \cap Made
        BY <1>9, GuiParts DEF CommitRow
    <2>2. GuiCalm(c)
        <3>1. XlaterCb(c, xlaters[c])
            BY <1>9 DEF CommitRow, modify_xlater
        <3>2. UNCHANGED cli
            BY <3>1, GuiParts, CallbackEffect DEF Known
        <3>3. gui'[c] \in [editing : Nat, ops : Nat]
            BY <2>1, GuiParts
        <3>4. gui' = [gui EXCEPT ![c] = gui'[c]]
            BY <1>9, <2>1, GuiParts DEF CommitRow
        <3> QED
            BY <1>9, <3>2, <3>3, <3>4, LockKept DEF CommitRow, GuiCalm
    <2>3. GuiRows(c)
        BY <1>9, GuiParts, CallbackEffect DEF CommitRow, GuiRows, modify_xlater, Known
    <2>4. q_msg(c, For("MODIFY_XLATER", v)) /\ UNCHANGED callback
        BY <1>9 DEF CommitRow, modify_xlater
    <2> QED
        BY <1>9, <2>1, <2>2, <2>3, <2>4, SameChannels, AsksFor DEF CommitRow
<1>10. CASE EditFails(c)
    <2>1. gui'[c] = [gui[c] EXCEPT !.editing = 0]
        BY <1>10, GuiParts DEF EditFails
    <2>2. GuiCalm(c)
        BY <1>10, <2>1, GuiParts DEF EditFails, GuiCalm
    <2> QED
        BY <1>10, <2>2, SameRows, SameChannels DEF EditFails, GuiAsks
<1> QED
    BY <1>1, <1>2, <1>3, <1>4, <1>5, <1>6, <1>7, <1>8, <1>9, <1>10

-----------------------------------------------------------------------------
(* The small steps of the script *)
CliTypes == [at : Places, rid : Nat \cup {NoRid, None}, wid : Wids \cup {None}]

LEMMA CliIsSmall ==
    ASSUME ClientsIInv, NEW c \in Clis,
           UNCHANGED <<toclient, sessionVars, conn, xlaters, xlater_q, xln, othersKept>>,
           cli' = [cli EXCEPT ![c] = cli'[c]], cli'[c] \in CliTypes,
           cli'[c].wid \in Made \cup {None},
           cli'[c].at = "destroy" => cli'[c].wid \in Made,
           cli[c].at \in UnderWay /\ cli'[c].at \in UnderWay,
           \/ UNCHANGED toserver
           \/ \E q \in Requests : q_msg(c, q) /\ Sound(c, q)
    PROVE  Alone(c) /\ OwnTyped(c)' /\ Small(c) /\ AppInv(c)'
<1>0. /\ c \in Clients /\ c \notin Guis /\ Typed /\ OwnTyped(c) /\ AppInv(c)
    BY OwnParts
<1>1. /\ UNCHANGED <<toclient, conn, xlaters, xlater_q, xln, refused>>
      /\ UNCHANGED <<lock, receiver, callback, rows, gui>> /\ Known(c)' = Known(c)
      /\ UNCHANGED sessionVars /\ Made' = Made /\ server' = server
    BY DEF Made, sessionVars, workerVars, othersKept, Known
<1>2. /\ toserver' = [toserver EXCEPT ![c] = toserver'[c]]
      /\ toserver'[c] \in Seq(Requests)
      /\ \/ UNCHANGED toserver
         \/ \E q \in Requests : toserver'[c] = Append(toserver[c], q) /\ Sound(c, q)
    <2>1. CASE UNCHANGED toserver
        BY <1>0, <2>1, SameExcept DEF OwnTyped
    <2>2. CASE \E q \in Requests : q_msg(c, q) /\ Sound(c, q)
        <3>1. PICK q \in Requests : q_msg(c, q) /\ Sound(c, q)
            BY <2>2
        <3>2. /\ toserver' = [toserver EXCEPT ![c] = toserver'[c]]
              /\ toserver'[c] = Append(toserver[c], q)
              /\ toserver'[c] \in Seq(Requests)
            BY <1>0, <3>1 DEF q_msg, Typed
        <3> QED
            BY <3>1, <3>2
    <2> QED
        BY <2>1, <2>2
<1>3. Alone(c)
    BY <1>0, <1>1, <1>2, SameExcept DEF Alone
<1>4. OwnTyped(c)'
    BY <1>0, <1>1, <1>2 DEF OwnTyped, CliTypes
<1>5. Small(c)
    <2>1. conn[c] = "up"
        BY <1>0 DEF ClientsIInv, ClientInv, SessionInv, OwnTyped, UnderWay
    <2> QED
        BY <1>0, <1>1, <1>2, <2>1 DEF Small
<1>6. AppInv(c)'
    BY <1>0, <1>1 DEF AppInv, ScriptInv
<1> QED
    BY <1>3, <1>4, <1>5, <1>6

LEMMA CliParts ==
    ASSUME ClientsIInv, NEW c \in Clis
    PROVE  /\ c \in Clients /\ Typed /\ OwnTyped(c) /\ Known(c) \subseteq Wids
           /\ Known(c) \subseteq Made /\ cli \in [Clis -> CliTypes]
           /\ cli[c] \in CliTypes
           /\ cli[c].wid \in Made \cup {None}
           /\ cli[c].at = "destroy" => cli[c].wid \in Made
           /\ xln[c] \in Nat
<1>1. c \in Clients
    OBVIOUS
<1> QED
    BY <1>1, OwnParts DEF AppInv, OwnTyped, Typed, CliTypes,
                          ClientsIInv, ClientInv, IdsMade

LEMMA GoToTyped ==
    ASSUME ClientsIInv, NEW c \in Clis, NEW place \in Places, GoTo(c, place)
    PROVE  /\ cli' = [cli EXCEPT ![c] = cli'[c]] /\ cli'[c] \in CliTypes
           /\ cli'[c].at = place /\ cli'[c].wid = cli[c].wid
<1>1. cli'[c] = [cli[c] EXCEPT !.at = place]
    BY CliParts DEF GoTo
<1>2. cli' = [cli EXCEPT ![c] = cli'[c]]
    BY <1>1, CliParts DEF GoTo
<1> QED
    BY <1>1, <1>2, CliParts DEF CliTypes

LEMMA CliSmallSteps ==
    ASSUME ClientsIInv, NEW c \in Clis,
           \/ KeepRid(c) \/ NoRetune(c) \/ Retune(c) \/ CliDisable(c) \/ CliDestroy(c)
    PROVE  Alone(c) /\ OwnTyped(c)' /\ Small(c) /\ AppInv(c)'
<1> USE DEF At, wireVars, Places, UnderWay
<1>0. ASSUME NEW type \in {"DISABLE_XLATER", "MODIFY_XLATER", "DESTROY_XLATER"},
             NEW w \in Made, type = "MODIFY_XLATER" => cli[c].at = "slept",
             q_msg(c, For(type, w))
      PROVE  \E q \in Requests : q_msg(c, q) /\ Sound(c, q)
    <2>1. For(type, w) \in Requests /\ Sound(c, For(type, w))
        BY <1>0 DEF For, Requests, Sound, Made, Wids
    <2> QED
        BY <1>0, <2>1
<1>1. CASE KeepRid(c)
    <2>1. cli'[c] = [cli[c] EXCEPT !.at = "slept", !.rid = xln[c] - 1]
        BY <1>1, CliParts DEF KeepRid
    <2>2. xln[c] - 1 \in Nat \cup {NoRid}
        BY CliParts DEF NoRid
    <2>3. /\ cli'[c] \in CliTypes /\ cli'[c].at = "slept" /\ cli'[c].wid = cli[c].wid
        BY <2>1, <2>2, CliParts DEF CliTypes
    <2>4. cli' = [cli EXCEPT ![c] = cli'[c]]
        BY <1>1, <2>1, CliParts DEF KeepRid
    <2> QED
        BY <1>1, <2>3, <2>4, CliParts, CliIsSmall DEF KeepRid
<1>2. CASE NoRetune(c)
    BY <1>2, CliParts, GoToTyped, CliIsSmall DEF NoRetune
<1>3. CASE Retune(c)
    <2>1. PICK w \in Found(c, xlaters[c]) \cup {cli[c].wid} :
            cli' = [cli EXCEPT ![c].at = "disable", ![c].wid = w]
        BY <1>3 DEF Retune
    <2>2. w \in Known(c) /\ cli[c].wid \in Known(c) /\ Known(c) \subseteq Wids
        BY <1>3, CliParts DEF Retune, Found, Known
    <2>3. cli'[c] = [cli[c] EXCEPT !.at = "disable", !.wid = w]
        BY <2>1, CliParts
    <2>4. cli'[c] \in CliTypes /\ cli'[c].at = "disable" /\ cli'[c].wid = w
        BY <2>2, <2>3, CliParts DEF CliTypes
    <2>5. cli' = [cli EXCEPT ![c] = cli'[c]]
        BY <2>1, <2>3, CliParts
    <2>6. \E q \in Requests : q_msg(c, q) /\ Sound(c, q)
        BY <1>0, <1>3, <2>2, CliParts DEF Retune
    <2>7. w \in Made
        BY <2>2, CliParts
    <2> QED
        BY <1>3, <2>4, <2>5, <2>6, <2>7, CliIsSmall DEF Retune
<1>4. CASE CliDisable(c)
    <2>1. cli[c].wid \in Made
        BY <1>4, CliParts DEF CliDisable
    <2>2. \E q \in Requests : q_msg(c, q) /\ Sound(c, q)
        BY <1>0, <1>4, <2>1 DEF CliDisable
    <2> QED
        BY <1>4, <2>1, <2>2, GoToTyped, CliIsSmall DEF CliDisable
<1>5. CASE CliDestroy(c)
    <2>1. cli[c].wid \in Made
        BY <1>5, CliParts DEF CliDestroy
    <2>2. \E q \in Requests : q_msg(c, q) /\ Sound(c, q)
        BY <1>0, <1>5, <2>1 DEF CliDestroy
    <2> QED
        BY <1>5, <2>1, <2>2, GoToTyped, CliIsSmall DEF CliDestroy
<1> QED
    BY <1>1, <1>2, <1>3, <1>4, <1>5

-----------------------------------------------------------------------------
(* The invariant of a client survives a small change of its state. *)
LEMMA SmallKeeps ==
    ASSUME ClientsIInv, NEW c \in Clients,
           Alone(c), OwnTyped(c)', Small(c), AppInv(c)'
    PROVE  ClientInv(c)'
<1> DEFINE ts == toserver[c]
           us == toserver'[c]
           tc == toclient[c]
           uc == toclient'[c]
<1>0. /\ Typed /\ OwnTyped(c) /\ ClientInv(c)
      /\ (c \in Guis \/ c \in Clis) /\ (c \in Clis => c \notin Guis)
    BY OwnParts
<1>1. /\ UNCHANGED <<server, wstate, remoteid, creator, subs, served, second, revived>>
      /\ UNCHANGED <<conn, xlater_q, xln>> /\ Made' = Made /\ Dead' = Dead
      /\ Known(c)' = Known(c) /\ Listed' = Listed
    BY DEF Alone, Small, sessionVars, workerVars, Made, Dead, Listed
<1>2. /\ \A i \in DOMAIN ts : i \in DOMAIN us /\ us[i] = ts[i]
      /\ \A i \in DOMAIN us : i \notin DOMAIN ts =>
            i = Len(ts) + 1 /\ \E q \in Requests : us[i] = q /\ Sound(c, q)
      /\ DOMAIN ts = 1..Len(ts) /\ Len(ts) \in Nat
    <2>1. CASE UNCHANGED toserver
        BY <1>0, <2>1 DEF OwnTyped
    <2>2. CASE \E q \in Requests : us = Append(ts, q) /\ Sound(c, q)
        <3>1. PICK q \in Requests : us = Append(ts, q) /\ Sound(c, q)
            BY <2>2
        <3>2. /\ DOMAIN ts = 1..Len(ts) /\ DOMAIN us = 1..(Len(ts) + 1)
              /\ Len(ts) \in Nat /\ \A i \in DOMAIN ts : us[i] = ts[i]
              /\ us[Len(ts) + 1] = q
            BY <1>0, <3>1, AppendAt DEF OwnTyped
        <3> HIDE DEF ts, us
        <3> QED
            BY <3>1, <3>2
    <2> QED
        BY <2>1, <2>2 DEF Small
<1>3. PICK k \in {0, 1} :
        /\ \A i \in DOMAIN uc : i + k \in DOMAIN tc /\ uc[i] = tc[i + k]
        /\ \A i \in DOMAIN tc : tc[i].type # "PAYLOAD" => i - k \in DOMAIN uc
        /\ DOMAIN tc \subseteq Nat \ {0} /\ DOMAIN uc \subseteq Nat \ {0}
        /\ tc = <<>> => uc = tc
        /\ \A i \in DOMAIN tc : \A j \in 1..(i - 1) : j \in DOMAIN tc
        /\ \A i \in DOMAIN uc : \A j \in 1..(i - 1) : j \in DOMAIN uc
    <2>1. CASE UNCHANGED toclient
        <3>1. tc \in Seq(Messages) /\ uc = tc
            BY <1>0, <2>1 DEF OwnTyped
        <3>2. DOMAIN tc = 1..Len(tc) /\ Len(tc) \in Nat
            BY <3>1
        <3> WITNESS 0 \in {0, 1}
        <3> QED
            BY <3>1, <3>2
    <2>2. CASE /\ tc # <<>> /\ Head(tc).type = "PAYLOAD" /\ uc = Tail(tc)
        <3>1. tc \in Seq(Messages) /\ uc \in Seq(Messages)
            BY <1>0, <2>2, HeadTailAt DEF OwnTyped
        <3>2. /\ DOMAIN tc = 1..Len(tc) /\ Len(tc) \in Nat
              /\ DOMAIN uc = 1..Len(uc) /\ Len(uc) \in Nat
            BY <3>1
        <3>3. /\ Head(tc) = tc[1]
              /\ \A i \in DOMAIN uc : i + 1 \in DOMAIN tc /\ uc[i] = tc[i + 1]
              /\ \A i \in DOMAIN tc : i # 1 => i - 1 \in DOMAIN uc
            BY <2>2, <3>1, HeadTailAt
        <3>4. tc # <<>> /\ \A i \in DOMAIN tc : tc[i].type # "PAYLOAD" => i # 1
            BY <2>2, <3>3
        <3> HIDE DEF tc, uc
        <3> WITNESS 1 \in {0, 1}
        <3>5. \A i \in DOMAIN tc : \A j \in 1..(i - 1) : j \in DOMAIN tc
            BY <3>2
        <3>6. \A i \in DOMAIN uc : \A j \in 1..(i - 1) : j \in DOMAIN uc
            BY <3>2
        <3> QED
            BY <3>2, <3>3, <3>4, <3>5, <3>6
    <2> QED
        BY <2>1, <2>2 DEF Small
<1> HIDE DEF ts, us, tc, uc
<1>4. IdsMade(c)'
    <2>1. IdsMade(c)
        BY <1>0 DEF ClientInv
    <2>2. \A i \in DOMAIN us :
            us[i].type \in {"LIST_XLATERS", "CREATE_XLATER"} \/ us[i].id \in Made
        BY <1>2, <2>1 DEF IdsMade, Sound, ts
    <2>3. \A i \in DOMAIN uc : uc[i].id \in Made
        BY <1>3, <2>1 DEF IdsMade, tc
    <2> QED
        BY <1>1, <2>1, <2>2, <2>3 DEF IdsMade, AppInv, us, uc
<1>5. SessionInv(c)'
    <2>1. SessionInv(c) /\ (c \in Guis => callback[c] \in BOOLEAN)
        BY <1>0 DEF ClientInv, OwnTyped
    <2>2. tc = <<>> => uc = <<>>
        BY <1>3
    <2>3. c \in Guis /\ callback'[c] => conn[c] = "up" /\ served[c] # "none"
        BY <2>1 DEF Small, SessionInv, Listed
    <2> QED
        BY <1>1, <2>1, <2>2, <2>3 DEF SessionInv, Small, UnderWay, tc, uc
<1>6. RequestRefs(c)'
    <2>1. RequestRefs(c)
        BY <1>0 DEF ClientInv
    <2>2. \A i \in DOMAIN us : us[i].type = "CREATE_XLATER" => i \in DOMAIN ts
        BY <1>2 DEF Sound
    <2>3. \A i \in DOMAIN us, j \in DOMAIN us : us[i].type = "CREATE_XLATER" =>
            (us[j] = us[i] => j = i)
        BY <1>2, <2>1, <2>2 DEF RequestRefs, ts
    <2>4. \A i \in DOMAIN us : us[i].type = "CREATE_XLATER" =>
            /\ us[i].remoteid < xln[c]
            /\ \A w \in Workers \cap Made :
                creator[w] = {c} => remoteid[w] # us[i].remoteid
        BY <1>2, <2>1, <2>2 DEF RequestRefs, ts
    <2> QED
        BY <1>1, <2>1, <2>3, <2>4 DEF RequestRefs, us
<1>7. ASSUME NEW r, NEW i, Answers(c, i, r)
      PROVE  Answers(c, i - k, r)' /\ i - k \in DOMAIN uc
    <2>1. /\ i \in DOMAIN tc /\ tc[i].type = "RUNNING_XLATER" /\ tc[i].remoteid = r
          /\ tc[i].id \in Workers \ Known(c)
          /\ \A j \in 1..(i - 1) : tc[j].type = "RUNNING_XLATER" => tc[j].id # tc[i].id
        BY <1>7 DEF Answers, tc
    <2>2. i - k \in DOMAIN uc /\ uc[i - k] = tc[i] /\ i \in Nat
        BY <1>3, <2>1
    <2>3. ASSUME NEW j \in 1..(i - k - 1), uc[j].type = "RUNNING_XLATER"
          PROVE  uc[j].id # tc[i].id
        <3>1. j + k \in 1..(i - 1) /\ uc[j] = tc[j + k]
            BY <1>3, <2>2
        <3> QED
            BY <2>1, <2>3, <3>1
    <2> QED
        BY <1>1, <2>1, <2>2, <2>3 DEF Answers, uc
<1>8. ASSUME NEW r, Answered(c, r) PROVE Answered(c, r)'
    BY <1>7, <1>8 DEF Answered, uc
<1>9. QueueInv(c)'
    <2>1. QueueInv(c)
        BY <1>0 DEF ClientInv
    <2> QED
        BY <1>1, <1>2, <1>8, <2>1 DEF QueueInv, ts, us
<1>10. DeadInv(c)'
    <2>1. DeadInv(c)
        BY <1>0 DEF ClientInv
    <2> QED
        BY <1>1, <1>3, <2>1 DEF DeadInv, tc, uc
<1>11. VanishInv(c)'
    <2>1. VanishInv(c)
        BY <1>0 DEF ClientInv
    <2>2. SUFFICES ASSUME server = "up", conn[c] = "up", NEW w \in Dead \ revived,
                          ~AboutToTell(w)
                   PROVE  /\ w \in Known(c) =>
                             \E i \in DOMAIN uc : uc[i] = Destroyed(w)
                          /\ \A i \in DOMAIN uc :
                             uc[i].type = "RUNNING_XLATER" /\ uc[i].id = w =>
                                \E j \in DOMAIN uc : j > i /\ uc[j] = Destroyed(w)
        BY <1>1 DEF VanishInv, AboutToTell, uc
    <2>3. /\ w \in Known(c) => \E i \in DOMAIN tc : tc[i] = Destroyed(w)
          /\ \A i \in DOMAIN tc :
                tc[i].type = "RUNNING_XLATER" /\ tc[i].id = w =>
                    \E j \in DOMAIN tc : j > i /\ tc[j] = Destroyed(w)
        BY <2>1, <2>2 DEF VanishInv, tc
    <2>4. ASSUME NEW j \in DOMAIN tc, tc[j] = Destroyed(w)
          PROVE  j - k \in DOMAIN uc /\ uc[j - k] = Destroyed(w)
        BY <1>3, <2>4 DEF Destroyed
    <2>5. w \in Known(c) => \E i \in DOMAIN uc : uc[i] = Destroyed(w)
        BY <2>3, <2>4
    <2>6. ASSUME NEW i \in DOMAIN uc, uc[i].type = "RUNNING_XLATER", uc[i].id = w
          PROVE  \E j \in DOMAIN uc : j > i /\ uc[j] = Destroyed(w)
        <3>1. i + k \in DOMAIN tc /\ uc[i] = tc[i + k]
            BY <1>3
        <3>2. PICK j \in DOMAIN tc : j > i + k /\ tc[j] = Destroyed(w)
            BY <2>3, <2>6, <3>1
        <3> QED
            BY <1>3, <2>4, <3>2, SMTT(30)
    <2> QED
        BY <2>5, <2>6
<1>12. ASSUME NEW w, HasFeeder(c, w) PROVE HasFeeder(c, w)'
    BY <1>12 DEF HasFeeder, Small, Alone
<1>13. FeedInv(c)'
    <2>1. FeedInv(c)
        BY <1>0 DEF ClientInv
    <2>2. ASSUME NEW w, NEW i \in DOMAIN us, us[i] = For("ENABLE_XLATER", w),
                 i \notin DOMAIN ts
          PROVE  HasFeeder(c, w)'
        <3>1. PICK q \in Requests : us[i] = q /\ Sound(c, q)
            BY <1>2, <2>2
        <3>2. q.type = "ENABLE_XLATER" /\ q.id = w
            BY <2>2, <3>1 DEF For
        <3> QED
            BY <3>1, <3>2 DEF Sound
    <2> QED
        BY <1>1, <1>2, <1>12, <2>1, <2>2 DEF FeedInv, ts, us
<1>14. SamplesInv(c)'
    <2>1. SamplesInv(c)
        BY <1>0 DEF ClientInv
    <2>2. SUFFICES ASSUME NEW i \in DOMAIN uc, NEW w,
                          uc[i].type = "PAYLOAD", uc[i].id = w
                   PROVE  /\ HasFeeder(c, w)'
                          /\ \A j \in 1..(i - 1) : uc[j] # Destroyed(w)
        BY DEF SamplesInv, uc
    <2>3. PICK n \in DOMAIN tc : n = i + k /\ uc[i] = tc[n]
        BY <1>3
    <2>4. HasFeeder(c, w) /\ \A j \in 1..(n - 1) : tc[j] # Destroyed(w)
        BY <2>1, <2>2, <2>3 DEF SamplesInv, tc
    <2>5. ASSUME NEW j \in 1..(i - 1) PROVE uc[j] # Destroyed(w)
        BY <1>3, <2>3, <2>4
    <2> QED
        BY <1>12, <2>4, <2>5
<1>15. ASSUME c \in Guis PROVE KnowsInv(c)' /\ RowsInv(c)'
    <2>1. KnowsInv(c)
        BY <1>0, <1>15 DEF ClientInv
    <2>2. ASSUME callback'[c] # callback[c]
          PROVE  \E i \in DOMAIN us : us[i].type = "LIST_XLATERS"
        <3>1. PICK q \in Requests : us = Append(ts, q) /\ q.type = "LIST_XLATERS"
            BY <2>2 DEF Small, us, ts
        <3>2. ts \in Seq(Requests)
            BY <1>0 DEF OwnTyped, ts
        <3> QED
            BY <3>1, <3>2, AppendAt
    <2>3. ASSUME NEW w, NEW i \in DOMAIN tc,
                 tc[i].type = "RUNNING_XLATER" /\ tc[i].id = w
          PROVE  \E j \in DOMAIN uc : uc[j].type = "RUNNING_XLATER" /\ uc[j].id = w
        <3>1. i - k \in DOMAIN uc /\ uc[i - k] = tc[i]
            BY <1>3, <2>3
        <3> QED
            BY <2>3, <3>1
    <2>4. KnowsInv(c)'
        BY <1>1, <1>2, <2>1, <2>2, <2>3 DEF KnowsInv, ts, us, tc, uc
    <2> QED
        BY <1>15, <2>4 DEF AppInv
<1>16. ASSUME c \in Clis PROVE ScriptRefs(c)' /\ ScriptInv(c)' /\ OwnRefs(c)'
    <2>1. ScriptRefs(c) /\ SessionInv(c) /\ QueueInv(c) /\ OwnRefs(c)
        BY <1>0, <1>16 DEF ClientInv
    <2>2. /\ \A i \in DOMAIN us : us[i].type # "LIST_XLATERS"
        BY <1>0, <1>2, <1>16, <2>1 DEF ScriptRefs, Sound, ts
    <2>3. ASSUME cli'[c].at \in {"connect", "create"}
          PROVE  /\ cli[c].at \in {"connect", "create"}
                 /\ \A i \in DOMAIN us : us[i].type # "MODIFY_XLATER"
        <3>1. cli[c].at \in {"connect", "create"}
            BY <1>16, <2>3 DEF Small, UnderWay
        <3> QED
            BY <1>2, <1>16, <2>1, <3>1 DEF Sound, ScriptRefs, ts
    <2>4. \A m : Foreign(c, m)' = Foreign(c, m)
        BY <1>1 DEF Foreign
    <2>5. ASSUME server = "up", NEW r \in xlater_q[c], NEW j \in DOMAIN us,
                 us[j].type = "MODIFY_XLATER"
          PROVE  (\E i \in 1..(j - 1) : us[i] = Create(r)) \/ Answered(c, r)'
        <3>1. CASE j \in DOMAIN ts
            <4>1. (\E i \in 1..(j - 1) : ts[i] = Create(r)) \/ Answered(c, r)
                BY <1>2, <2>1, <2>5, <3>1 DEF ScriptRefs, ts
            <4>2. \A i \in 1..(j - 1) : us[i] = ts[i]
                BY <1>2, <3>1
            <4> QED
                BY <1>8, <4>1, <4>2
        <3>2. CASE j \notin DOMAIN ts
            <4>1. conn[c] = "up"
                BY <2>1, <2>5 DEF SessionInv
            <4>2. (\E i \in DOMAIN ts : ts[i] = Create(r)) \/ Answered(c, r)
                BY <2>1, <2>5, <4>1 DEF QueueInv, ts
            <4>3. \A i \in DOMAIN ts : i \in 1..(j - 1) /\ us[i] = ts[i]
                BY <1>2, <2>5, <3>2
            <4> QED
                BY <1>8, <4>2, <4>3
        <3> QED
            BY <3>1, <3>2
    <2>6. ASSUME NEW r \in xlater_q[c], NEW j \in DOMAIN uc, Foreign(c, uc[j])
          PROVE  \E i \in 1..(j - 1) : Answers(c, i, r)'
        <3>1. PICK n \in DOMAIN tc : n = j + k /\ uc[j] = tc[n]
            BY <1>3
        <3>2. PICK i \in 1..(n - 1) : Answers(c, i, r)
            BY <2>1, <2>6, <3>1 DEF ScriptRefs, tc
        <3>3. Answers(c, i - k, r)' /\ i - k \in DOMAIN uc
            BY <1>7, <3>2
        <3>4. i - k \in 1..(j - 1)
            BY <1>3, <3>1, <3>2, <3>3
        <3> QED
            BY <3>3, <3>4
    <2>7. \A i \in DOMAIN uc : Foreign(c, uc[i]) =>
            \E j \in DOMAIN tc : Foreign(c, tc[j])
        BY <1>3
    <2>8. ScriptRefs(c)'
        BY <1>1, <1>8, <2>1, <2>2, <2>3, <2>4, <2>5, <2>6, <2>7
        DEF ScriptRefs, us, uc, tc
    <2>9. OwnRefs(c)'
        BY <1>1, <1>16, <2>1 DEF OwnRefs, Small
    <2> QED
        BY <1>16, <2>8, <2>9 DEF AppInv
<1> QED
    BY <1>4, <1>5, <1>6, <1>9, <1>10, <1>11, <1>13, <1>14, <1>15, <1>16 DEF ClientInv

(* What a client does concerns no other client. *)
LEMMA OthersKeep ==
    ASSUME ClientsIInv, NEW c \in Clients, NEW d \in Clients, d # c, Alone(c)
    PROVE  ClientInv(d)'
<1>0. Typed /\ ClientInv(d) /\ (d \in Clis => d \notin Guis)
    BY OwnParts
<1>1. /\ UNCHANGED <<server, wstate, remoteid, creator, subs, served, second, revived>>
      /\ Made' = Made /\ Dead' = Dead
    BY DEF Alone, sessionVars, workerVars, Made, Dead
<1>2. /\ toserver'[d] = toserver[d] /\ toclient'[d] = toclient[d]
      /\ conn'[d] = conn[d] /\ xlaters'[d] = xlaters[d] /\ Known(d)' = Known(d)
      /\ xlater_q'[d] = xlater_q[d] /\ xln'[d] = xln[d] /\ lock'[d] = lock[d]
      /\ receiver'[d] = receiver[d] /\ callback'[d] = callback[d]
    <2>1. /\ toserver'[d] = toserver[d] /\ toclient'[d] = toclient[d]
          /\ conn'[d] = conn[d] /\ xlaters'[d] = xlaters[d]
        BY <1>0 DEF Alone, Typed
    <2>2. /\ xlater_q'[d] = xlater_q[d] /\ xln'[d] = xln[d] /\ lock'[d] = lock[d]
          /\ receiver'[d] = receiver[d] /\ callback'[d] = callback[d]
        BY <1>0 DEF Alone, Typed
    <2> QED
        BY <2>1, <2>2 DEF Known
<1>3. /\ d \in Guis => rows'[d] = rows[d]
      /\ d \in Clis => cli'[d] = cli[d]
    BY <1>0 DEF Alone, Typed
<1>4. \A w : HasFeeder(d, w)' = HasFeeder(d, w)
    <2>1. \A w : <<d, w>> \in refused' <=> <<d, w>> \in refused
        BY DEF Alone
    <2> QED
        BY <1>2, <2>1 DEF HasFeeder
<1>5. IdsMade(d)' /\ SessionInv(d)'
    BY <1>0, <1>1, <1>2, <1>3 DEF ClientInv, IdsMade, SessionInv
<1>6. RequestRefs(d)'
    <2>1. RequestRefs(d)
        BY <1>0 DEF ClientInv
    <2> QED
        BY <1>1, <1>2, <2>1, SMTT(30) DEF RequestRefs
<1>7. /\ \A i, r : Answers(d, i, r)' = Answers(d, i, r)
      /\ \A r : Answered(d, r)' = Answered(d, r)
    BY <1>2 DEF Answers, Answered
<1>8. QueueInv(d)'
    BY <1>0, <1>1, <1>2, <1>7 DEF ClientInv, QueueInv
<1>9. DeadInv(d)' /\ VanishInv(d)'
    BY <1>0, <1>1, <1>2 DEF ClientInv, DeadInv, VanishInv, AboutToTell
<1>10. FeedInv(d)'
    BY <1>0, <1>1, <1>2, <1>4 DEF ClientInv, FeedInv
<1>11. SamplesInv(d)'
    <2>1. \A w : HasFeeder(d, w) => HasFeeder(d, w)'
        BY <1>4
    <2>2. SUFFICES ASSUME NEW i \in DOMAIN toclient[d], NEW w,
                          toclient[d][i].type = "PAYLOAD", toclient[d][i].id = w
                   PROVE  /\ HasFeeder(d, w)'
                          /\ \A j \in 1..(i - 1) : toclient[d][j] # Destroyed(w)
        BY <1>2 DEF SamplesInv
    <2> QED
        BY <1>0, <2>1, <2>2 DEF ClientInv, SamplesInv
<1>12. d \in Guis => KnowsInv(d)' /\ RowsInv(d)'
    BY <1>0, <1>1, <1>2, <1>3 DEF ClientInv, KnowsInv, RowsInv
<1>13. d \in Clis => ScriptRefs(d)' /\ ScriptInv(d)' /\ OwnRefs(d)'
    <2>1. \A m : Foreign(d, m)' = Foreign(d, m)
        BY <1>1 DEF Foreign
    <2>2. SUFFICES ASSUME d \in Clis
                   PROVE  ScriptRefs(d)' /\ ScriptInv(d)' /\ OwnRefs(d)'
        OBVIOUS
    <2>3. ScriptInv(d)' /\ OwnRefs(d)'
        BY <1>0, <1>1, <1>2, <2>2 DEF ClientInv, ScriptInv, OwnRefs
    <2>4. ScriptRefs(d)'
        BY <1>0, <1>1, <1>2, <1>3, <1>7, <2>1, <2>2 DEF ClientInv, ScriptRefs
    <2> QED
        BY <2>3, <2>4
<1> QED
    BY <1>5, <1>6, <1>8, <1>9, <1>10, <1>11, <1>12, <1>13 DEF ClientInv

(* Once the client's own part is shown, so is the whole invariant. *)
LEMMA AloneKeepsAll ==
    ASSUME ClientsIInv, NEW c \in Clients, Alone(c), OwnTyped(c)',
           ChannelRefs', ClientInv(c)'
    PROVE  ClientsIInv'
<1>1. Typed'
    BY AloneTyped DEF ClientsIInv
<1>2. \A d \in Clients : ClientInv(d)'
    BY OthersKeep
<1>3. refused' \subseteq Guis \X Wids
    BY DEF ClientsIInv, Alone
<1> QED
    BY <1>1, <1>2, <1>3 DEF ClientsIInv

(* Unless a reference was given, nothing changes about those. *)
LEMMA AloneKeeps ==
    ASSUME ClientsIInv, NEW c \in Clients, Alone(c), OwnTyped(c)',
           UNCHANGED xln, ClientInv(c)'
    PROVE  ClientsIInv'
<1>1. ChannelRefs'
    BY DEF ClientsIInv, ChannelRefs, References, Made, Alone, sessionVars, workerVars
<1> QED
    BY <1>1, AloneKeepsAll

-----------------------------------------------------------------------------
(* A message taken, and a channel's message in general *)
LEMMA TakenAt ==
    ASSUME Typed, NEW c \in Clients, TakeMessage(c)
    PROVE  /\ toclient' = [toclient EXCEPT ![c] = toclient'[c]]
           /\ toclient'[c] \in Seq(Messages)
           /\ 1 \in DOMAIN toclient[c] /\ Message(c) = toclient[c][1]
           /\ Message(c) \in Messages
           /\ DOMAIN toclient[c] \subseteq Nat \ {0}
           /\ DOMAIN toclient'[c] \subseteq Nat \ {0}
           /\ \A i \in DOMAIN toclient'[c] :
                i + 1 \in DOMAIN toclient[c] /\ toclient'[c][i] = toclient[c][i + 1]
           /\ \A i \in DOMAIN toclient[c] : i # 1 =>
                i - 1 \in DOMAIN toclient'[c] /\ toclient'[c][i - 1] = toclient[c][i]
           /\ \A i \in DOMAIN toclient[c] : \A j \in 1..(i - 1) : j \in DOMAIN toclient[c]
<1> DEFINE tc == toclient[c]
           uc == toclient'[c]
<1>1. tc \in Seq(Messages) /\ tc # <<>> /\ uc = Tail(tc)
      /\ toclient' = [toclient EXCEPT ![c] = uc]
    BY DEF TakeMessage, Typed
<1>2. /\ uc \in Seq(Messages) /\ Message(c) = tc[1] /\ 1 \in DOMAIN tc
      /\ \A i \in DOMAIN uc : i + 1 \in DOMAIN tc /\ uc[i] = tc[i + 1]
      /\ \A i \in DOMAIN tc : i # 1 => i - 1 \in DOMAIN uc
    BY <1>1, HeadTailAt DEF Message
<1>3. /\ DOMAIN tc = 1..Len(tc) /\ Len(tc) \in Nat
      /\ DOMAIN uc = 1..Len(uc) /\ Len(uc) \in Nat /\ tc[1] \in Messages
    BY <1>1, <1>2
<1> HIDE DEF tc, uc
<1>4. \A i \in DOMAIN tc : i # 1 => i - 1 \in DOMAIN uc /\ uc[i - 1] = tc[i]
    <2> SUFFICES ASSUME NEW i \in DOMAIN tc, i # 1
                 PROVE  i - 1 \in DOMAIN uc /\ uc[i - 1] = tc[i]
        OBVIOUS
    <2>1. i - 1 \in DOMAIN uc /\ i - 1 + 1 = i
        BY <1>2, <1>3
    <2> QED
        BY <1>2, <2>1
<1>5. \A i \in DOMAIN tc : \A j \in 1..(i - 1) : j \in DOMAIN tc
    BY <1>3
<1>6. DOMAIN tc \subseteq Nat \ {0} /\ DOMAIN uc \subseteq Nat \ {0}
    BY <1>3
<1> QED
    BY <1>1, <1>2, <1>3, <1>4, <1>5, <1>6 DEF tc, uc

LEMMA AppendedAt ==
    ASSUME Typed, NEW c \in Clients, NEW q \in Requests, q_msg(c, q)
    PROVE  /\ toserver' = [toserver EXCEPT ![c] = toserver'[c]]
           /\ toserver'[c] \in Seq(Requests)
           /\ DOMAIN toserver[c] = 1..Len(toserver[c]) /\ Len(toserver[c]) \in Nat
           /\ \A i \in DOMAIN toserver[c] :
                i \in DOMAIN toserver'[c] /\ toserver'[c][i] = toserver[c][i]
           /\ \A i \in DOMAIN toserver'[c] : i \notin DOMAIN toserver[c] =>
                i = Len(toserver[c]) + 1 /\ toserver'[c][i] = q
           /\ Len(toserver[c]) + 1 \in DOMAIN toserver'[c]
           /\ toserver'[c][Len(toserver[c]) + 1] = q
<1> DEFINE ts == toserver[c]
           us == toserver'[c]
<1>1. ts \in Seq(Requests) /\ us = Append(ts, q) /\ toserver' = [toserver EXCEPT ![c] = us]
    BY DEF q_msg, Typed
<1>2. /\ us \in Seq(Requests) /\ DOMAIN ts = 1..Len(ts) /\ DOMAIN us = 1..(Len(ts) + 1)
      /\ Len(ts) \in Nat /\ \A i \in DOMAIN ts : us[i] = ts[i]
      /\ us[Len(ts) + 1] = q
    BY <1>1, AppendAt
<1> HIDE DEF ts, us
<1> QED
    BY <1>1, <1>2 DEF ts, us

(* RUNNING_XLATER: the channel joins the dictionary, as ours when its      *)
(* reference is one we wait for.                                           *)
LEMMA HearsKeeps ==
    ASSUME ClientsIInv, NEW c \in Clients, srv_running_xlater(c)
    PROVE  ClientsIInv'
<1> DEFINE tc == toclient[c]
           uc == toclient'[c]
           ts == toserver[c]
           us == toserver'[c]
           m == Message(c)
           w == m.id
           r0 == m.remoteid
           queued == w \notin Known(c) /\ r0 \in xlater_q[c]
           xl == IF w \in Known(c) THEN xlaters[c][w]
                 ELSE IF queued THEN Xlater(r0, "alive") ELSE Xlater(None, "none")
           enable == For("ENABLE_XLATER", w)
<1>0. /\ Typed /\ OwnTyped(c) /\ ClientInv(c) /\ AppInv(c) /\ Known(c) \subseteq Wids
      /\ c \in Guis => Different(rows[c])
      /\ (c \in Guis \/ c \in Clis) /\ (c \in Clis => c \notin Guis)
    BY OwnParts
<1>1. /\ UNCHANGED <<server, wstate, remoteid, creator, subs, served, second, revived>>
      /\ UNCHANGED <<conn, xln, lock, receiver, callback, gui, refused>>
      /\ UNCHANGED sessionVars /\ Made' = Made /\ Dead' = Dead
      /\ conn[c] = "up" /\ TakeMessage(c) /\ m.type = "RUNNING_XLATER"
      /\ toserver' = toserver \/ (queued /\ q_msg(c, enable))
      /\ xlater_q' = [xlater_q EXCEPT ![c] = IF queued THEN xlater_q[c] \ {r0}
                                            ELSE xlater_q[c]]
      /\ xlaters' = [xlaters EXCEPT ![c] = With(c, w, xl)]
      /\ XlaterCb(c, xlaters'[c])
    <2>1. /\ UNCHANGED sessionVars /\ conn[c] = "up" /\ TakeMessage(c)
          /\ UNCHANGED <<conn, xln, lock, receiver, callback, gui, refused>>
          /\ m.type = "RUNNING_XLATER" /\ XlaterCb(c, xlaters'[c])
        BY DEF srv_running_xlater, Receive
    <2>2. /\ UNCHANGED <<server, wstate, remoteid, creator, subs, served, second, revived>>
          /\ Made' = Made /\ Dead' = Dead
        BY <2>1 DEF sessionVars, workerVars, Made, Dead
    <2>3. toserver' = toserver \/ (queued /\ q_msg(c, enable))
        <3>1. IF AutoEnabled(c, m) THEN q_msg(c, enable) ELSE UNCHANGED toserver
            BY DEF srv_running_xlater
        <3>2. AutoEnabled(c, m) => queued
            BY DEF AutoEnabled
        <3> HIDE DEF m, queued, enable
        <3>3. CASE AutoEnabled(c, m)
            BY <3>1, <3>2, <3>3
        <3>4. CASE ~AutoEnabled(c, m)
            BY <3>1, <3>4
        <3> QED
            BY <3>3, <3>4
    <2>4. xlater_q' = [xlater_q EXCEPT ![c] = IF queued THEN xlater_q[c] \ {r0}
                                             ELSE xlater_q[c]]
        BY DEF srv_running_xlater
    <2>5. xlaters' = [xlaters EXCEPT ![c] = With(c, w, xl)]
        BY DEF srv_running_xlater
    <2> HIDE DEF m, w, r0, queued, xl, enable
    <2> QED
        BY <2>1, <2>2, <2>3, <2>4, <2>5
<1>2. /\ m = tc[1] /\ 1 \in DOMAIN tc /\ m \in Messages /\ w \in Wids
      /\ r0 \in Nat \cup {NoRid} /\ w \in Made
      /\ tc[1].type = "RUNNING_XLATER" /\ tc[1].id = w /\ tc[1].remoteid = r0
    <2>1. m = tc[1] /\ 1 \in DOMAIN tc /\ m \in Messages
        BY <1>0, <1>1, TakenAt
    <2> QED
        BY <1>0, <1>1, <2>1 DEF Messages, ClientInv, IdsMade
<1>3. /\ toclient' = [toclient EXCEPT ![c] = uc] /\ uc \in Seq(Messages)
      /\ DOMAIN tc \subseteq Nat \ {0} /\ DOMAIN uc \subseteq Nat \ {0}
      /\ \A i \in DOMAIN uc : i + 1 \in DOMAIN tc /\ uc[i] = tc[i + 1]
      /\ \A i \in DOMAIN tc : i # 1 => i - 1 \in DOMAIN uc /\ uc[i - 1] = tc[i]
      /\ \A i \in DOMAIN tc : \A j \in 1..(i - 1) : j \in DOMAIN tc
    BY <1>0, <1>1, TakenAt
<1>4. xl \in Channels
    BY <1>0, <1>2 DEF Xlater, Channels, OwnTyped, IsDictionary, Known
<1> DEFINE ys == xlaters'[c]
<1>5. /\ xlaters' = [xlaters EXCEPT ![c] = ys] /\ ys = With(c, w, xl)
      /\ DOMAIN ys = Known(c) \cup {w} /\ Known(c)' = Known(c) \cup {w}
      /\ ys[w] = xl /\ \A v \in Known(c) : ys[v] = xlaters[c][v]
    BY <1>0, <1>1 DEF With, Typed, Known
<1>6. IsDictionary(ys)
    BY <1>0, <1>2, <1>4, <1>5, SMTT(30) DEF IsDictionary, With, OwnTyped, Known
<1>7. /\ toserver' = [toserver EXCEPT ![c] = us] /\ us \in Seq(Requests)
      /\ \A i \in DOMAIN ts : i \in DOMAIN us /\ us[i] = ts[i]
      /\ \A i \in DOMAIN us : i \notin DOMAIN ts => queued /\ us[i] = enable
      /\ \A i \in DOMAIN ts : \A j \in 1..(i - 1) : j \in DOMAIN ts
    <2>1. ts \in Seq(Requests) /\ DOMAIN ts = 1..Len(ts) /\ Len(ts) \in Nat
        BY <1>0 DEF OwnTyped
    <2>2. enable \in Requests
        BY <1>2 DEF For, Requests
    <2>3. \A i \in DOMAIN ts : \A j \in 1..(i - 1) : j \in DOMAIN ts
        BY <2>1
    <2>4. CASE toserver' = toserver
        BY <1>0, <2>1, <2>3, <2>4, SameExcept
    <2>5. CASE queued /\ q_msg(c, enable)
        <3> HIDE DEF enable
        <3> QED
            BY <1>0, <2>2, <2>3, <2>5, AppendedAt
    <2> QED
        BY <1>1, <2>4, <2>5
<1>8. /\ xlater_q' = [xlater_q EXCEPT ![c] = xlater_q'[c]]
      /\ xlater_q'[c] = IF queued THEN xlater_q[c] \ {r0} ELSE xlater_q[c]
      /\ xlater_q'[c] \subseteq xlater_q[c]
    BY <1>0, <1>1 DEF Typed
<1>9. /\ rows' = [rows EXCEPT ![c] = rows'[c]]
      /\ cli' = [cli EXCEPT ![c] = cli'[c]]
      /\ c \in Guis =>
            /\ cli' = cli
            /\ rows'[c] \in Seq(Wids) /\ Different(rows'[c])
            /\ callback[c] => \A i \in DOMAIN rows'[c] : rows'[c][i] \in DOMAIN ys
            /\ ~callback[c] => rows'[c] = rows[c]
      /\ c \in Clis =>
            /\ rows' = rows
            /\ cli'[c].at = cli[c].at
            /\ cli'[c].wid \in {cli[c].wid} \cup DOMAIN ys
            /\ cli'[c] \in [at : Places, rid : Nat \cup {NoRid, None},
                            wid : Wids \cup {None}]
    <2>1. DOMAIN ys \subseteq Wids
        BY <1>6 DEF IsDictionary
    <2>2. XlaterCb(c, ys)
        BY <1>1
    <2> HIDE DEF ys
    <2> QED
        BY <1>0, <2>1, <2>2, CallbackEffect
<1> HIDE DEF ys, xl, enable
<1>10. Alone(c)
    <2> HIDE DEF tc, uc, ts, us, m, w, r0, queued
    <2> QED
        BY <1>0, <1>1, <1>3, <1>5, <1>7, <1>8, <1>9, SameExcept
        DEF Alone, ys, uc, us
<1>11. OwnTyped(c)'
    BY <1>0, <1>1, <1>3, <1>6, <1>7, <1>8, <1>9 DEF OwnTyped, ys
<1>12. /\ enable.type = "ENABLE_XLATER" /\ enable.id = w
       /\ queued => ys[w].feeder # "none"
       /\ ~xl.afc \/ w \in Known(c)
       /\ queued \/ w \in Known(c) \/ xl.rid = None
    <2> HIDE DEF m, w, r0
    <2>1. enable.type = "ENABLE_XLATER" /\ enable.id = w
        BY DEF enable, For
    <2>2. queued => xl.feeder # "none"
        BY DEF xl, Xlater
    <2>3. ~xl.afc \/ w \in Known(c)
        BY DEF xl, Xlater
    <2>4. queued \/ w \in Known(c) \/ xl.rid = None
        BY DEF xl, Xlater
    <2> QED
        BY <1>5, <2>1, <2>2, <2>3, <2>4
<1> HIDE DEF tc, uc, ts, us, m, w, r0
<1>13. IdsMade(c)'
    <2>1. IdsMade(c) /\ callback[c] \in BOOLEAN
        BY <1>0 DEF ClientInv, OwnTyped
    <2>2. \A i \in DOMAIN us :
            us[i].type \in {"LIST_XLATERS", "CREATE_XLATER"} \/ us[i].id \in Made
        BY <1>2, <1>7, <1>12, <2>1 DEF IdsMade, ts
    <2>3. \A i \in DOMAIN uc : uc[i].id \in Made
        BY <1>3, <2>1 DEF IdsMade, tc
    <2>4. DOMAIN ys \subseteq Made
        BY <1>2, <1>5, <2>1 DEF IdsMade
    <2>5. c \in Guis => \A i \in DOMAIN rows'[c] : rows'[c][i] \in Made
        BY <1>9, <2>1, <2>4 DEF IdsMade
    <2>6. c \in Clis => /\ cli'[c].wid \in Made \cup {None}
                        /\ cli'[c].at = "destroy" => cli'[c].wid \in Made
        BY <1>9, <2>1, <2>4 DEF IdsMade
    <2> QED
        BY <1>1, <1>5, <2>1, <2>2, <2>3, <2>4, <2>5, <2>6 DEF IdsMade, us, uc
<1>14. SessionInv(c)'
    <2>1. SessionInv(c)
        BY <1>0 DEF ClientInv
    <2>2. served[c] # "none"
        BY <1>2, <2>1 DEF SessionInv, tc
    <2> QED
        BY <1>0, <1>1, <1>9, <2>1, <2>2 DEF SessionInv
<1>15. RequestRefs(c)'
    <2>1. RequestRefs(c)
        BY <1>0 DEF ClientInv
    <2>2. \A i \in DOMAIN us : us[i].type = "CREATE_XLATER" => i \in DOMAIN ts
        BY <1>7, <1>12
    <2>3. \A i \in DOMAIN us, j \in DOMAIN us : us[i].type = "CREATE_XLATER" =>
            (us[j] = us[i] => j = i)
        BY <1>7, <2>1, <2>2 DEF RequestRefs, ts
    <2>4. \A i \in DOMAIN us : us[i].type = "CREATE_XLATER" =>
            /\ us[i].remoteid < xln[c]
            /\ \A v \in Workers \cap Made :
                creator[v] = {c} => remoteid[v] # us[i].remoteid
        BY <1>7, <2>1, <2>2 DEF RequestRefs, ts
    <2> QED
        BY <1>1, <1>8, <2>1, <2>3, <2>4 DEF RequestRefs, us
<1>16. ASSUME NEW r \in xlater_q'[c], NEW i, Answers(c, i, r)
       PROVE  i # 1 /\ i - 1 \in DOMAIN uc /\ Answers(c, i - 1, r)'
    <2>1. /\ i \in DOMAIN tc /\ tc[i].type = "RUNNING_XLATER" /\ tc[i].remoteid = r
          /\ tc[i].id \in Workers \ Known(c)
          /\ \A j \in 1..(i - 1) : tc[j].type = "RUNNING_XLATER" => tc[j].id # tc[i].id
        BY <1>16 DEF Answers, tc
    <2>2. i # 1
        BY <1>2, <1>8, <1>16, <2>1
    <2>3. i - 1 \in DOMAIN uc /\ uc[i - 1] = tc[i] /\ i \in Nat \ {0, 1}
        BY <1>3, <2>1, <2>2
    <2>4. tc[i].id # w
        BY <1>2, <2>1, <2>3
    <2>5. ASSUME NEW j \in 1..(i - 1 - 1), uc[j].type = "RUNNING_XLATER"
          PROVE  uc[j].id # tc[i].id
        <3>1. j \in DOMAIN uc
            <4>1. j + 1 \in 1..(i - 1) /\ j + 1 # 1 /\ j + 1 - 1 = j
                BY <2>3
            <4>2. j + 1 \in DOMAIN tc
                BY <1>3, <2>1, <4>1
            <4>3. j + 1 - 1 \in DOMAIN uc
                BY <1>3, <4>1, <4>2
            <4> QED
                BY <4>1, <4>3
        <3>2. j + 1 \in 1..(i - 1) /\ uc[j] = tc[j + 1]
            BY <1>3, <2>3, <3>1
        <3> QED
            BY <2>1, <2>5, <3>2
    <2> QED
        BY <1>5, <2>1, <2>2, <2>3, <2>4, <2>5 DEF Answers, uc
<1>17. ASSUME NEW r \in xlater_q'[c], Answered(c, r) PROVE Answered(c, r)'
    BY <1>16, <1>17 DEF Answered, uc
<1>18. QueueInv(c)'
    <2>1. QueueInv(c)
        BY <1>0 DEF ClientInv
    <2> QED
        BY <1>1, <1>7, <1>8, <1>17, <2>1 DEF QueueInv, ts, us
<1>19. DeadInv(c)'
    <2>1. DeadInv(c)
        BY <1>0 DEF ClientInv
    <2> QED
        BY <1>1, <1>3, <2>1 DEF DeadInv, tc, uc
<1>20. VanishInv(c)'
    <2>1. VanishInv(c)
        BY <1>0 DEF ClientInv
    <2>2. SUFFICES ASSUME server = "up", conn[c] = "up", NEW v \in Dead \ revived,
                          ~AboutToTell(v)
                   PROVE  /\ v \in Known(c) \cup {w} =>
                             \E i \in DOMAIN uc : uc[i] = Destroyed(v)
                          /\ \A i \in DOMAIN uc :
                             uc[i].type = "RUNNING_XLATER" /\ uc[i].id = v =>
                                \E j \in DOMAIN uc : j > i /\ uc[j] = Destroyed(v)
        BY <1>1, <1>5 DEF VanishInv, AboutToTell, uc
    <2>3. /\ v \in Known(c) => \E i \in DOMAIN tc : tc[i] = Destroyed(v)
          /\ \A i \in DOMAIN tc :
                tc[i].type = "RUNNING_XLATER" /\ tc[i].id = v =>
                    \E j \in DOMAIN tc : j > i /\ tc[j] = Destroyed(v)
        BY <2>1, <2>2 DEF VanishInv, tc
    <2>4. ASSUME NEW j \in DOMAIN tc, tc[j] = Destroyed(v)
          PROVE  j - 1 \in DOMAIN uc /\ uc[j - 1] = Destroyed(v)
        BY <1>2, <1>3, <2>4 DEF Destroyed
    <2>5. v \in Known(c) \cup {w} => \E i \in DOMAIN uc : uc[i] = Destroyed(v)
        BY <1>2, <2>3, <2>4
    <2>6. ASSUME NEW i \in DOMAIN uc, uc[i].type = "RUNNING_XLATER", uc[i].id = v
          PROVE  \E j \in DOMAIN uc : j > i /\ uc[j] = Destroyed(v)
        <3>1. i + 1 \in DOMAIN tc /\ uc[i] = tc[i + 1]
            BY <1>3
        <3>2. PICK j \in DOMAIN tc : j > i + 1 /\ tc[j] = Destroyed(v)
            BY <2>3, <2>6, <3>1
        <3> QED
            BY <1>3, <2>4, <3>2
    <2> QED
        BY <2>5, <2>6
<1>21. ASSUME NEW v, HasFeeder(c, v) PROVE HasFeeder(c, v)'
    BY <1>1, <1>5, <1>21 DEF HasFeeder, ys
<1>22. FeedInv(c)'
    <2>1. FeedInv(c)
        BY <1>0 DEF ClientInv
    <2>2. ASSUME NEW v, NEW i \in DOMAIN us, us[i] = For("ENABLE_XLATER", v),
                 i \notin DOMAIN ts
          PROVE  HasFeeder(c, v)'
        <3>1. v = w /\ queued
            BY <1>7, <1>12, <2>2 DEF For
        <3> QED
            BY <1>5, <1>12, <3>1 DEF HasFeeder, ys
    <2> QED
        BY <1>1, <1>7, <1>21, <2>1, <2>2, ZenonT(40) DEF FeedInv, ts, us
<1>23. SamplesInv(c)'
    <2>1. SamplesInv(c)
        BY <1>0 DEF ClientInv
    <2>2. SUFFICES ASSUME NEW i \in DOMAIN uc, NEW v,
                          uc[i].type = "PAYLOAD", uc[i].id = v
                   PROVE  /\ HasFeeder(c, v)'
                          /\ \A j \in 1..(i - 1) : uc[j] # Destroyed(v)
        BY DEF SamplesInv, uc
    <2>3. PICK n \in DOMAIN tc : n = i + 1 /\ uc[i] = tc[n]
        BY <1>3
    <2>4. HasFeeder(c, v) /\ \A j \in 1..(n - 1) : tc[j] # Destroyed(v)
        BY <2>1, <2>2, <2>3 DEF SamplesInv, tc
    <2>5. ASSUME NEW j \in 1..(i - 1) PROVE uc[j] # Destroyed(v)
        <3>1. PICK l : l = j + 1 /\ l \in 1..(n - 1) /\ l # 1 /\ l - 1 = j
            BY <1>3, <2>3
        <3>2. uc[j] = tc[l]
            BY <1>3, <3>1
        <3> QED
            BY <2>4, <3>1, <3>2
    <2> QED
        BY <1>21, <2>4, <2>5
<1>24. ASSUME c \in Guis PROVE KnowsInv(c)' /\ RowsInv(c)'
    <2>1. KnowsInv(c) /\ RowsInv(c) /\ callback[c] \in BOOLEAN
        BY <1>0, <1>24 DEF ClientInv, OwnTyped
    <2>2. ASSUME NEW v, NEW i \in DOMAIN tc,
                 tc[i].type = "RUNNING_XLATER" /\ tc[i].id = v, v \notin Known(c)'
          PROVE  \E j \in DOMAIN uc : uc[j].type = "RUNNING_XLATER" /\ uc[j].id = v
        <3>1. i # 1
            BY <1>2, <1>5, <2>2
        <3> QED
            BY <1>3, <2>2, <3>1
    <2>3. Known(c) \subseteq Known(c)'
        BY <1>5
    <2>4. KnowsInv(c)'
        <3>1. SUFFICES ASSUME server = "up", conn[c] = "up", callback[c],
                              NEW v \in Workers, wstate[v] = "running",
                              v \notin Known(c)'
                       PROVE  \/ \E i \in DOMAIN uc :
                                    uc[i].type = "RUNNING_XLATER" /\ uc[i].id = v
                              \/ \E i \in DOMAIN us : us[i].type = "LIST_XLATERS"
            BY <1>1 DEF KnowsInv, uc, us
        <3>2. \/ \E i \in DOMAIN tc : tc[i].type = "RUNNING_XLATER" /\ tc[i].id = v
              \/ \E i \in DOMAIN ts : ts[i].type = "LIST_XLATERS"
            BY <2>1, <2>3, <3>1 DEF KnowsInv, tc, ts
        <3> QED
            BY <1>7, <2>2, <3>1, <3>2
    <2>5. RowsInv(c)'
        BY <1>1, <1>5, <1>9, <1>24, <2>1 DEF RowsInv, Different
    <2> QED
        BY <2>4, <2>5
<1>25. ASSUME c \in Clis PROVE ScriptInv(c)'
    <2>1. ScriptInv(c)
        BY <1>0, <1>25 DEF ClientInv
    <2>2. \A v \in DOMAIN ys : ~ys[v].afc
        BY <1>5, <1>12, <2>1 DEF ScriptInv
    <2> QED
        BY <1>1, <1>5, <2>1, <2>2 DEF ScriptInv, ys
<1>26. ASSUME c \in Clis PROVE ScriptRefs(c)'
    <2>1. ScriptRefs(c)
        BY <1>0, <1>26 DEF ClientInv
    <2>2. \A i \in DOMAIN us : us[i].type # "LIST_XLATERS"
        BY <1>7, <1>12, <2>1 DEF ScriptRefs, ts
    <2>3. ASSUME cli'[c].at \in {"connect", "create"}
          PROVE  /\ \A i \in DOMAIN us : us[i].type # "MODIFY_XLATER"
                 /\ second[c].do # "modified" /\ xlater_q'[c] = {}
                 /\ \A i \in DOMAIN uc : ~Foreign(c, uc[i])
        <3>1. /\ \A i \in DOMAIN ts : ts[i].type # "MODIFY_XLATER"
              /\ second[c].do # "modified" /\ xlater_q[c] = {}
              /\ \A i \in DOMAIN tc : ~Foreign(c, tc[i])
            BY <1>9, <1>26, <2>1, <2>3 DEF ScriptRefs, ts, tc
        <3>2. \A i \in DOMAIN us : us[i].type # "MODIFY_XLATER"
            BY <1>7, <1>12, <3>1
        <3>3. \A i \in DOMAIN uc : ~Foreign(c, uc[i])
            BY <1>3, <3>1
        <3> QED
            BY <1>8, <3>1, <3>2, <3>3
    <2>4. ASSUME server = "up", NEW r \in xlater_q'[c]
          PROVE  /\ \A j \in DOMAIN us : us[j].type = "MODIFY_XLATER" =>
                    (\E i \in 1..(j - 1) : us[i] = Create(r)) \/ Answered(c, r)'
                 /\ second[c].do = "modified" => Answered(c, r)'
        <3>1. /\ \A j \in DOMAIN ts : ts[j].type = "MODIFY_XLATER" =>
                    (\E i \in 1..(j - 1) : ts[i] = Create(r)) \/ Answered(c, r)
              /\ second[c].do = "modified" => Answered(c, r)
            BY <1>8, <2>1, <2>4 DEF ScriptRefs, ts
        <3>2. ASSUME NEW j \in DOMAIN us, us[j].type = "MODIFY_XLATER"
              PROVE  (\E i \in 1..(j - 1) : us[i] = Create(r)) \/ Answered(c, r)'
            <4>1. j \in DOMAIN ts /\ ts[j] = us[j]
                BY <1>7, <1>12, <3>2
            <4>2. \A i \in 1..(j - 1) : us[i] = ts[i]
                BY <1>7, <4>1
            <4> QED
                BY <1>17, <3>1, <3>2, <4>1, <4>2
        <3> QED
            BY <1>17, <3>1, <3>2
    <2>5. \A q : Foreign(c, q)' = Foreign(c, q)
        BY <1>1 DEF Foreign
    <2>6. ASSUME NEW r \in xlater_q'[c], NEW j \in DOMAIN uc, Foreign(c, uc[j])
          PROVE  \E i \in 1..(j - 1) : Answers(c, i, r)'
        <3>1. PICK n \in DOMAIN tc : n = j + 1 /\ uc[j] = tc[n]
            BY <1>3
        <3>2. PICK i \in 1..(n - 1) : Answers(c, i, r)
            BY <1>8, <2>1, <2>6, <3>1 DEF ScriptRefs, tc
        <3>3. i # 1 /\ i - 1 \in DOMAIN uc /\ Answers(c, i - 1, r)'
            BY <1>16, <3>2
        <3>4. i - 1 \in 1..(j - 1)
            BY <1>3, <3>1, <3>2, <3>3
        <3> QED
            BY <3>3, <3>4
    <2> QED
        BY <1>1, <2>2, <2>3, <2>4, <2>5, <2>6 DEF ScriptRefs, us, uc
<1>27. ASSUME c \in Clis PROVE OwnRefs(c)'
    <2>1. ScriptRefs(c) /\ OwnRefs(c)
        BY <1>0, <1>27 DEF ClientInv
    <2>2. ASSUME queued PROVE w \in Workers /\ c \in creator[w]
        <3>1. r0 # NoRid
            BY <1>0, <2>2 DEF OwnTyped, NoRid
        <3>2. SUFFICES ASSUME w \in Workers => c \notin creator[w] PROVE FALSE
            OBVIOUS
        <3>3. Foreign(c, tc[1])
            BY <1>2, <3>1, <3>2 DEF Foreign
        <3> QED
            BY <1>2, <2>1, <2>2, <3>3 DEF ScriptRefs, tc
    <2>3. ASSUME NEW v \in DOMAIN ys, ys[v].rid # None
          PROVE  v \in Workers /\ c \in creator[v]
        <3>1. CASE v \in Known(c)
            BY <1>5, <2>1, <2>3, <3>1 DEF OwnRefs
        <3>2. CASE v \notin Known(c)
            <4>1. v = w /\ ys[v] = xl
                BY <1>5, <3>2
            <4> QED
                BY <1>12, <2>2, <2>3, <3>2, <4>1
        <3> QED
            BY <3>1, <3>2
    <2> QED
        BY <1>1, <1>5, <2>3 DEF OwnRefs, ys
<1>28. ClientInv(c)'
    BY <1>13, <1>14, <1>15, <1>18, <1>19, <1>20, <1>22, <1>23, <1>24, <1>25, <1>26,
       <1>27
    DEF ClientInv
<1> QED
    BY <1>1, <1>10, <1>11, <1>28, AloneKeeps

(* DESTROYED_XLATER: the channel leaves the dictionary.  It is dead, so    *)
(* nobody waits for it, and no samples follow.                             *)
LEMMA ForgetsKeeps ==
    ASSUME ClientsIInv, NEW c \in Clients, srv_destroyed_xlater(c)
    PROVE  ClientsIInv'
<1> DEFINE tc == toclient[c]
           uc == toclient'[c]
           m == Message(c)
           w == m.id
           ys == xlaters'[c]
<1>0. /\ Typed /\ OwnTyped(c) /\ ClientInv(c) /\ AppInv(c) /\ Known(c) \subseteq Wids
      /\ c \in Guis => Different(rows[c])
      /\ (c \in Guis \/ c \in Clis) /\ (c \in Clis => c \notin Guis)
    BY OwnParts
<1>1. /\ UNCHANGED <<server, wstate, remoteid, creator, subs, served, second, revived>>
      /\ UNCHANGED <<conn, toserver, xlater_q, xln, lock, receiver, callback, gui>>
      /\ UNCHANGED <<refused>>
      /\ UNCHANGED sessionVars /\ Made' = Made /\ Dead' = Dead
      /\ conn[c] = "up" /\ TakeMessage(c) /\ m.type = "DESTROYED_XLATER"
      /\ xlaters' = [xlaters EXCEPT ![c] = Deleted(c, w)]
      /\ XlaterCb(c, ys)
    BY DEF srv_destroyed_xlater, Receive, sessionVars, workerVars, Made, Dead
<1>2. /\ 1 \in DOMAIN tc /\ tc[1] = Destroyed(w) /\ w \in Dead \cup {Stray}
      /\ tc[1].type = "DESTROYED_XLATER"
    <2>1. m = tc[1] /\ 1 \in DOMAIN tc /\ m \in Messages
        BY <1>0, <1>1, TakenAt
    <2>2. m = Destroyed(w)
        <3>1. m \in [type : {"DESTROYED_XLATER", "PAYLOAD"}, id : Wids]
            BY <1>1, <2>1 DEF Messages
        <3> HIDE DEF m
        <3> QED
            BY <1>1, <3>1 DEF Destroyed, m
    <2> QED
        BY <1>0, <1>1, <2>1, <2>2 DEF ClientInv, DeadInv
<1>3. /\ toclient' = [toclient EXCEPT ![c] = uc] /\ uc \in Seq(Messages)
      /\ DOMAIN tc \subseteq Nat \ {0} /\ DOMAIN uc \subseteq Nat \ {0}
      /\ \A i \in DOMAIN uc : i + 1 \in DOMAIN tc /\ uc[i] = tc[i + 1]
      /\ \A i \in DOMAIN tc : i # 1 => i - 1 \in DOMAIN uc /\ uc[i - 1] = tc[i]
      /\ \A i \in DOMAIN tc : \A j \in 1..(i - 1) : j \in DOMAIN tc
    BY <1>0, <1>1, TakenAt
<1>4. /\ xlaters' = [xlaters EXCEPT ![c] = ys] /\ ys = Deleted(c, w)
      /\ DOMAIN ys = Known(c) \ {w} /\ Known(c)' = Known(c) \ {w}
      /\ \A v \in Known(c) \ {w} : ys[v] = xlaters[c][v]
    BY <1>0, <1>1 DEF Deleted, Typed, Known
<1>5. IsDictionary(ys)
    BY <1>0, <1>4 DEF IsDictionary, Deleted, OwnTyped, Known
<1>6. /\ rows' = [rows EXCEPT ![c] = rows'[c]]
      /\ cli' = [cli EXCEPT ![c] = cli'[c]]
      /\ c \in Guis =>
            /\ cli' = cli
            /\ rows'[c] \in Seq(Wids) /\ Different(rows'[c])
            /\ callback[c] => \A i \in DOMAIN rows'[c] : rows'[c][i] \in DOMAIN ys
            /\ ~callback[c] => rows'[c] = rows[c]
      /\ c \in Clis =>
            /\ rows' = rows
            /\ cli'[c].at = cli[c].at
            /\ cli'[c].wid \in {cli[c].wid} \cup DOMAIN ys
            /\ cli'[c] \in [at : Places, rid : Nat \cup {NoRid, None},
                            wid : Wids \cup {None}]
    <2>1. DOMAIN ys \subseteq Wids
        BY <1>5 DEF IsDictionary
    <2> HIDE DEF ys
    <2> QED
        BY <1>0, <1>1, <2>1, CallbackEffect
<1> HIDE DEF tc, uc, m, w, ys
<1>7. Alone(c)
    BY <1>0, <1>1, <1>3, <1>4, <1>6, SameExcept DEF Alone, ys, uc
<1>8. OwnTyped(c)'
    BY <1>0, <1>1, <1>3, <1>5, <1>6 DEF OwnTyped, ys, uc
<1>9. IdsMade(c)'
    <2>1. IdsMade(c) /\ callback[c] \in BOOLEAN
        BY <1>0 DEF ClientInv, OwnTyped
    <2>2. \A i \in DOMAIN uc : uc[i].id \in Made
        BY <1>3, <2>1 DEF IdsMade, tc
    <2>3. DOMAIN ys \subseteq Made
        BY <1>4, <2>1 DEF IdsMade
    <2>4. c \in Guis => \A i \in DOMAIN rows'[c] : rows'[c][i] \in Made
        BY <1>6, <2>1, <2>3 DEF IdsMade
    <2>5. c \in Clis => /\ cli'[c].wid \in Made \cup {None}
                        /\ cli'[c].at = "destroy" => cli'[c].wid \in Made
        BY <1>6, <2>1, <2>3 DEF IdsMade
    <2> QED
        BY <1>1, <1>4, <2>1, <2>2, <2>3, <2>4, <2>5 DEF IdsMade, uc
<1>10. SessionInv(c)' /\ RequestRefs(c)'
    <2>1. SessionInv(c) /\ RequestRefs(c)
        BY <1>0 DEF ClientInv
    <2>2. served[c] # "none"
        BY <1>2, <2>1 DEF SessionInv, tc
    <2>3. SessionInv(c)'
        BY <1>0, <1>1, <1>6, <2>1, <2>2 DEF SessionInv
    <2> QED
        BY <1>1, <2>1, <2>3 DEF RequestRefs
<1>11. ASSUME NEW r, NEW i, Answers(c, i, r)
       PROVE  i # 1 /\ i - 1 \in DOMAIN uc /\ Answers(c, i - 1, r)'
    <2>1. /\ i \in DOMAIN tc /\ tc[i].type = "RUNNING_XLATER" /\ tc[i].remoteid = r
          /\ tc[i].id \in Workers \ Known(c)
          /\ \A j \in 1..(i - 1) : tc[j].type = "RUNNING_XLATER" => tc[j].id # tc[i].id
        BY <1>11 DEF Answers, tc
    <2>2. i # 1
        BY <1>2, <2>1
    <2>3. i - 1 \in DOMAIN uc /\ uc[i - 1] = tc[i] /\ i \in Nat \ {0, 1}
        BY <1>3, <2>1, <2>2
    <2>4. ASSUME NEW j \in 1..(i - 1 - 1), uc[j].type = "RUNNING_XLATER"
          PROVE  uc[j].id # tc[i].id
        <3>1. j \in DOMAIN uc
            <4>1. j + 1 \in 1..(i - 1) /\ j + 1 # 1 /\ j + 1 - 1 = j
                BY <2>3
            <4> QED
                BY <1>3, <2>1, <4>1
        <3>2. j + 1 \in 1..(i - 1) /\ uc[j] = tc[j + 1]
            BY <1>3, <2>3, <3>1
        <3> QED
            BY <2>1, <2>4, <3>2
    <2> QED
        BY <1>4, <2>1, <2>2, <2>3, <2>4 DEF Answers, uc
<1>12. ASSUME NEW r, Answered(c, r) PROVE Answered(c, r)'
    BY <1>11, <1>12 DEF Answered, uc
<1>13. QueueInv(c)'
    <2>1. QueueInv(c)
        BY <1>0 DEF ClientInv
    <2> QED
        BY <1>1, <1>12, <2>1 DEF QueueInv
<1>14. DeadInv(c)'
    <2>1. DeadInv(c)
        BY <1>0 DEF ClientInv
    <2> QED
        BY <1>1, <1>3, <2>1 DEF DeadInv, tc, uc
<1>15. VanishInv(c)'
    <2>1. VanishInv(c)
        BY <1>0 DEF ClientInv
    <2>2. SUFFICES ASSUME server = "up", conn[c] = "up", NEW v \in Dead \ revived,
                          ~AboutToTell(v)
                   PROVE  /\ v \in Known(c) \ {w} =>
                             \E i \in DOMAIN uc : uc[i] = Destroyed(v)
                          /\ \A i \in DOMAIN uc :
                             uc[i].type = "RUNNING_XLATER" /\ uc[i].id = v =>
                                \E j \in DOMAIN uc : j > i /\ uc[j] = Destroyed(v)
        BY <1>1, <1>4 DEF VanishInv, AboutToTell, uc
    <2>3. /\ v \in Known(c) => \E i \in DOMAIN tc : tc[i] = Destroyed(v)
          /\ \A i \in DOMAIN tc :
                tc[i].type = "RUNNING_XLATER" /\ tc[i].id = v =>
                    \E j \in DOMAIN tc : j > i /\ tc[j] = Destroyed(v)
        BY <2>1, <2>2 DEF VanishInv, tc
    <2>4. ASSUME NEW j \in DOMAIN tc, tc[j] = Destroyed(v), j # 1
          PROVE  j - 1 \in DOMAIN uc /\ uc[j - 1] = Destroyed(v)
        BY <1>3, <2>4
    <2>5. v \in Known(c) \ {w} => \E i \in DOMAIN uc : uc[i] = Destroyed(v)
        BY <1>2, <2>3, <2>4 DEF Destroyed
    <2>6. ASSUME NEW i \in DOMAIN uc, uc[i].type = "RUNNING_XLATER", uc[i].id = v
          PROVE  \E j \in DOMAIN uc : j > i /\ uc[j] = Destroyed(v)
        <3>1. i + 1 \in DOMAIN tc /\ uc[i] = tc[i + 1]
            BY <1>3
        <3>2. PICK j \in DOMAIN tc : j > i + 1 /\ tc[j] = Destroyed(v)
            BY <2>3, <2>6, <3>1
        <3> QED
            BY <1>3, <2>4, <3>2
    <2> QED
        BY <2>5, <2>6
<1>16. ASSUME NEW v, HasFeeder(c, v), v # w PROVE HasFeeder(c, v)'
    BY <1>1, <1>4, <1>16 DEF HasFeeder, ys
<1>17. ASSUME NEW v \in Workers, wstate[v] = "running" PROVE v # w
    BY <1>2, <1>17 DEF Dead
<1>18. FeedInv(c)'
    <2>1. FeedInv(c)
        BY <1>0 DEF ClientInv
    <2> QED
        BY <1>1, <1>16, <1>17, <2>1 DEF FeedInv
<1>19. SamplesInv(c)'
    <2>1. SamplesInv(c)
        BY <1>0 DEF ClientInv
    <2>2. SUFFICES ASSUME NEW i \in DOMAIN uc, NEW v,
                          uc[i].type = "PAYLOAD", uc[i].id = v
                   PROVE  /\ HasFeeder(c, v)'
                          /\ \A j \in 1..(i - 1) : uc[j] # Destroyed(v)
        BY DEF SamplesInv, uc
    <2>3. PICK n \in DOMAIN tc : n = i + 1 /\ uc[i] = tc[n]
        BY <1>3
    <2>4. HasFeeder(c, v) /\ \A j \in 1..(n - 1) : tc[j] # Destroyed(v)
        BY <2>1, <2>2, <2>3 DEF SamplesInv, tc
    <2>5. v # w
        <3>1. 1 \in 1..(n - 1)
            BY <1>3, <2>3
        <3> QED
            BY <1>2, <2>4, <3>1
    <2>6. ASSUME NEW j \in 1..(i - 1) PROVE uc[j] # Destroyed(v)
        <3>1. PICK l : l = j + 1 /\ l \in 1..(n - 1) /\ l # 1 /\ l - 1 = j
            BY <1>3, <2>3
        <3>2. uc[j] = tc[l]
            BY <1>3, <3>1
        <3> QED
            BY <2>4, <3>1, <3>2
    <2> QED
        BY <1>16, <2>4, <2>5, <2>6
<1>20. ASSUME c \in Guis PROVE KnowsInv(c)' /\ RowsInv(c)'
    <2>1. KnowsInv(c) /\ RowsInv(c) /\ callback[c] \in BOOLEAN
        BY <1>0, <1>20 DEF ClientInv, OwnTyped
    <2>2. ASSUME NEW v, NEW i \in DOMAIN tc,
                 tc[i].type = "RUNNING_XLATER" /\ tc[i].id = v
          PROVE  \E j \in DOMAIN uc : uc[j].type = "RUNNING_XLATER" /\ uc[j].id = v
        <3>1. i # 1
            BY <1>2, <2>2
        <3> QED
            BY <1>3, <2>2, <3>1
    <2>3. KnowsInv(c)'
        <3>1. SUFFICES ASSUME server = "up", conn[c] = "up", callback[c],
                              NEW v \in Workers, wstate[v] = "running",
                              v \notin Known(c)
                       PROVE  \/ \E i \in DOMAIN uc :
                                    uc[i].type = "RUNNING_XLATER" /\ uc[i].id = v
                              \/ \E i \in DOMAIN toserver[c] :
                                    toserver[c][i].type = "LIST_XLATERS"
            BY <1>1, <1>4, <1>17 DEF KnowsInv, uc
        <3>2. \/ \E i \in DOMAIN tc : tc[i].type = "RUNNING_XLATER" /\ tc[i].id = v
              \/ \E i \in DOMAIN toserver[c] : toserver[c][i].type = "LIST_XLATERS"
            BY <2>1, <3>1 DEF KnowsInv, tc
        <3> QED
            BY <2>2, <3>2
    <2>4. RowsInv(c)'
        BY <1>1, <1>4, <1>6, <1>20, <2>1 DEF RowsInv, Different
    <2> QED
        BY <2>3, <2>4
<1>21. ASSUME c \in Clis PROVE ScriptInv(c)' /\ OwnRefs(c)'
    <2>1. ScriptInv(c) /\ OwnRefs(c)
        BY <1>0, <1>21 DEF ClientInv
    <2> QED
        BY <1>1, <1>4, <2>1 DEF ScriptInv, OwnRefs, ys
<1>22. ASSUME c \in Clis PROVE ScriptRefs(c)'
    <2>1. ScriptRefs(c)
        BY <1>0, <1>22 DEF ClientInv
    <2>2. \A q : Foreign(c, q)' = Foreign(c, q)
        BY <1>1 DEF Foreign
    <2>3. ASSUME NEW r \in xlater_q[c], NEW j \in DOMAIN uc, Foreign(c, uc[j])
          PROVE  \E i \in 1..(j - 1) : Answers(c, i, r)'
        <3>1. PICK n \in DOMAIN tc : n = j + 1 /\ uc[j] = tc[n]
            BY <1>3
        <3>2. PICK i \in 1..(n - 1) : Answers(c, i, r)
            BY <2>1, <2>3, <3>1 DEF ScriptRefs, tc
        <3>3. i # 1 /\ i - 1 \in DOMAIN uc /\ Answers(c, i - 1, r)'
            BY <1>11, <3>2
        <3>4. i - 1 \in 1..(j - 1)
            BY <1>3, <3>1, <3>2, <3>3
        <3> QED
            BY <3>3, <3>4
    <2>4. \A i \in DOMAIN uc : Foreign(c, uc[i]) =>
            \E j \in DOMAIN tc : Foreign(c, tc[j])
        BY <1>3
    <2> QED
        BY <1>1, <1>6, <1>12, <1>22, <2>1, <2>2, <2>3, <2>4 DEF ScriptRefs, uc, tc
<1>23. ClientInv(c)'
    BY <1>9, <1>10, <1>13, <1>14, <1>15, <1>18, <1>19, <1>20, <1>21, <1>22
    DEF ClientInv
<1> QED
    BY <1>1, <1>7, <1>8, <1>23, AloneKeeps

-----------------------------------------------------------------------------
(* The beginning and the end of a connection *)
LEMMA ConnectsKeeps ==
    ASSUME ClientsIInv, NEW c \in Clients,
           (c \in Guis /\ GuiConnect(c)) \/ (c \in Clis /\ CliConnect(c))
    PROVE  ClientsIInv'
<1>0. /\ Typed /\ OwnTyped(c) /\ ClientInv(c) /\ AppInv(c) /\ SessionInv(c)
      /\ (c \in Guis \/ c \in Clis) /\ (c \in Clis => c \notin Guis)
    BY OwnParts DEF ClientInv
<1>1. /\ UNCHANGED <<server, wstate, remoteid, creator, subs, served, second, revived>>
      /\ UNCHANGED <<toserver, toclient, xlaters, xlater_q, xln, lock, receiver>>
      /\ UNCHANGED <<callback, rows, gui, refused>> /\ UNCHANGED sessionVars
      /\ Made' = Made /\ Dead' = Dead /\ Known(c)' = Known(c)
      /\ conn[c] = "off" /\ conn' = [conn EXCEPT ![c] = "up"]
    BY DEF GuiConnect, CliConnect, connect, wireVars, sessionVars, workerVars,
           clientVars, libVars, appVars, othersKept, Made, Dead, Known
<1>2. /\ c \in Guis => cli' = cli
      /\ c \in Clis => /\ cli' = [cli EXCEPT ![c] = cli'[c]] /\ cli'[c] \in CliTypes
                       /\ cli'[c].at = "create" /\ cli'[c].wid = cli[c].wid
                       /\ cli[c].at = "connect"
    <2>1. c \in Guis => cli' = cli
        BY <1>0 DEF GuiConnect, clientVars, appVars
    <2>2. c \in Clis => GoTo(c, "create") /\ cli[c].at = "connect"
        BY <1>0 DEF CliConnect, At
    <2> QED
        BY <2>1, <2>2, GoToTyped DEF Places
<1>3. /\ conn' = [conn EXCEPT ![c] = conn'[c]] /\ conn'[c] = "up"
    BY <1>0, <1>1 DEF Typed
<1>4. Alone(c)
    BY <1>0, <1>1, <1>2, <1>3, SameExcept DEF Alone
<1>5. OwnTyped(c)'
    BY <1>0, <1>1, <1>2, <1>3 DEF OwnTyped, CliTypes
<1>6. /\ toserver[c] = <<>> /\ toclient[c] = <<>> /\ Known(c) = {}
      /\ xlater_q[c] = {} /\ served[c] = "none" /\ subs[c] = NoSubs
      /\ lock[c] = "free" /\ receiver[c] = "up" /\ DOMAIN toserver[c] = {}
      /\ DOMAIN toclient[c] = {} /\ (c \in Guis => ~callback[c])
    BY <1>0, <1>1 DEF SessionInv
<1>7. IdsMade(c)'
    BY <1>0, <1>1, <1>2 DEF ClientInv, IdsMade
<1>8. SessionInv(c)'
    BY <1>0, <1>1, <1>2, <1>3, <1>6 DEF SessionInv
<1>9. RequestRefs(c)' /\ QueueInv(c)'
    BY <1>1, <1>6 DEF RequestRefs, QueueInv
<1>10. DeadInv(c)' /\ VanishInv(c)'
    <2>1. DeadInv(c)
        BY <1>0 DEF ClientInv
    <2> QED
        BY <1>1, <1>6, <2>1 DEF DeadInv, VanishInv
<1>11. FeedInv(c)' /\ SamplesInv(c)'
    BY <1>1, <1>6 DEF FeedInv, SamplesInv, NoSubs
<1>12. c \in Guis => KnowsInv(c)' /\ RowsInv(c)'
    BY <1>0, <1>1, <1>6 DEF ClientInv, KnowsInv, RowsInv
<1>13. c \in Clis => ScriptRefs(c)' /\ ScriptInv(c)' /\ OwnRefs(c)'
    BY <1>0, <1>1, <1>2, <1>6 DEF ClientInv, ScriptRefs, ScriptInv, OwnRefs
<1>14. ClientInv(c)'
    BY <1>7, <1>8, <1>9, <1>10, <1>11, <1>12, <1>13 DEF ClientInv
<1> QED
    BY <1>1, <1>4, <1>5, <1>14, AloneKeeps

LEMMA LeavesKeeps ==
    ASSUME ClientsIInv, NEW c \in Clients,
           \/ c \in Guis /\ exit(c)
           \/ c \in Clis /\ (CliRaises(c) \/ CliDisconnect(c))
    PROVE  ClientsIInv'
<1> DEFINE ts == toserver[c]
           us == toserver'[c]
<1>0. /\ Typed /\ OwnTyped(c) /\ ClientInv(c) /\ AppInv(c) /\ SessionInv(c)
      /\ (c \in Guis \/ c \in Clis) /\ (c \in Clis => c \notin Guis)
    BY OwnParts DEF ClientInv
<1>1. /\ UNCHANGED <<server, wstate, remoteid, creator, subs, served, second, revived>>
      /\ UNCHANGED <<xln, refused>> /\ UNCHANGED sessionVars
      /\ Made' = Made /\ Dead' = Dead /\ disconnect(c)
    BY DEF exit, CliRaises, CliDisconnect, sessionVars, workerVars, Made, Dead
<1>2. /\ conn' = [conn EXCEPT ![c] = "closed"]
      /\ toclient' = [toclient EXCEPT ![c] = <<>>]
      /\ xlaters' = [xlaters EXCEPT ![c] = <<>>]
      /\ xlater_q' = [xlater_q EXCEPT ![c] = {}]
      /\ lock' = [lock EXCEPT ![c] = "free"]
      /\ receiver' = [receiver EXCEPT ![c] = "dead"]
      /\ callback' = [callback EXCEPT ![c] = FALSE]
    BY <1>1 DEF disconnect
<1>3. PICK n \in 0..Len(ts) : toserver' = [toserver EXCEPT ![c] = SubSeq(ts, 1, n)]
    BY <1>1 DEF disconnect
<1>4. /\ toserver' = [toserver EXCEPT ![c] = us] /\ us \in Seq(Requests)
      /\ DOMAIN us = 1..n /\ n \in Nat
      /\ \A i \in DOMAIN us : i \in DOMAIN ts /\ us[i] = ts[i]
    <2>1. ts \in Seq(Requests) /\ us = SubSeq(ts, 1, n) /\ toserver' = [toserver EXCEPT ![c] = us]
        BY <1>0, <1>3 DEF Typed
    <2>2. DOMAIN ts = 1..Len(ts) /\ Len(ts) \in Nat
        BY <2>1
    <2>3. n \in 0..Len(ts)
        OBVIOUS
    <2> HIDE DEF ts, us
    <2> QED
        BY <2>1, <2>2, <2>3
<1> HIDE DEF ts, us
<1>5. /\ conn'[c] = "closed" /\ toclient'[c] = <<>> /\ xlaters'[c] = <<>>
      /\ xlater_q'[c] = {} /\ lock'[c] = "free" /\ receiver'[c] = "dead"
      /\ ~callback'[c] /\ callback'[c] \in BOOLEAN /\ Known(c)' = {}
      /\ DOMAIN toclient'[c] = {}
    <2>1. /\ conn'[c] = "closed" /\ toclient'[c] = <<>> /\ xlaters'[c] = <<>>
          /\ xlater_q'[c] = {} /\ lock'[c] = "free" /\ receiver'[c] = "dead"
          /\ callback'[c] = FALSE
        BY <1>0, <1>2 DEF Typed
    <2>2. DOMAIN xlaters'[c] = {} /\ DOMAIN toclient'[c] = {}
        BY ONLY <2>1
    <2> QED
        BY <2>1, <2>2 DEF Known
<1>6. /\ conn' = [conn EXCEPT ![c] = conn'[c]]
      /\ toclient' = [toclient EXCEPT ![c] = toclient'[c]]
      /\ xlaters' = [xlaters EXCEPT ![c] = xlaters'[c]]
      /\ xlater_q' = [xlater_q EXCEPT ![c] = xlater_q'[c]]
      /\ lock' = [lock EXCEPT ![c] = lock'[c]]
      /\ receiver' = [receiver EXCEPT ![c] = receiver'[c]]
      /\ callback' = [callback EXCEPT ![c] = callback'[c]]
    BY <1>2, <1>5
<1>7. /\ rows' = [rows EXCEPT ![c] = rows'[c]] /\ (c \in Guis => rows'[c] = <<>>)
      /\ gui' = [gui EXCEPT ![c] = gui'[c]]
      /\ c \in Guis => gui'[c] \in [editing : Nat, ops : Nat]
    <2>1. CASE c \in Guis
        <3>1. exit(c)
            BY <1>0, <2>1
        <3>2. rows' = [rows EXCEPT ![c] = <<>>]
            BY <3>1 DEF exit
        <3> QED
            BY <1>0, <2>1, <3>1, <3>2, EventParts DEF exit, Typed
    <2>2. CASE c \notin Guis
        <3>1. UNCHANGED <<rows, gui>>
            BY <2>2 DEF CliRaises, CliDisconnect
        <3> QED
            BY <1>0, <2>2, <3>1, SameExcept
    <2> QED
        BY <2>1, <2>2
<1>8. /\ c \in Guis => cli' = cli
      /\ c \in Clis => /\ cli' = [cli EXCEPT ![c] = cli'[c]] /\ cli'[c] \in CliTypes
                       /\ cli'[c].at \in {"raised", "done"} /\ cli'[c].wid = cli[c].wid
    <2>1. c \in Guis => cli' = cli
        BY <1>0 DEF exit
    <2>2. c \in Clis => GoTo(c, "raised") \/ GoTo(c, "done")
        BY <1>0 DEF CliRaises, CliDisconnect
    <2> QED
        BY <2>1, <2>2, GoToTyped DEF Places
<1>9. Alone(c)
    BY <1>0, <1>1, <1>4, <1>6, <1>7, <1>8, SameExcept DEF Alone, us
<1>10. OwnTyped(c)'
    <2>1. IsDictionary(xlaters'[c])
        BY <1>5 DEF IsDictionary
    <2>2. toclient'[c] \in Seq(Messages) /\ conn'[c] \in {"off", "up", "closed"}
        BY <1>5
    <2>3. xlater_q'[c] \subseteq Nat /\ xln'[c] \in Nat
        BY <1>0, <1>1, <1>5 DEF OwnTyped
    <2>4. c \in Guis => rows'[c] \in Seq(Wids)
        <3>1. c \in Guis => rows'[c] = <<>>
            BY <1>7
        <3> QED
            BY <3>1, EmptySeq
    <2>5. c \in Clis => cli'[c] \in CliTypes
        BY <1>8
    <2> QED
        BY <1>4, <1>5, <1>7, <2>1, <2>2, <2>3, <2>4, <2>5 DEF OwnTyped, CliTypes, us
<1>11. IdsMade(c)'
    <2>1. IdsMade(c)
        BY <1>0 DEF ClientInv
    <2>2. \A i \in DOMAIN us :
            us[i].type \in {"LIST_XLATERS", "CREATE_XLATER"} \/ us[i].id \in Made
        BY <1>4, <2>1 DEF IdsMade, ts
    <2> QED
        BY <1>1, <1>5, <1>7, <1>8, <2>1, <2>2 DEF IdsMade, us
<1>12. SessionInv(c)'
    BY <1>0, <1>1, <1>5, <1>8 DEF SessionInv
<1>13. RequestRefs(c)'
    <2>1. RequestRefs(c)
        BY <1>0 DEF ClientInv
    <2> QED
        BY <1>1, <1>4, <1>5, <2>1 DEF RequestRefs, us, ts
<1>14. DeadInv(c)'
    BY <1>0, <1>1, <1>5 DEF ClientInv, DeadInv
<1>15. /\ QueueInv(c)' /\ VanishInv(c)' /\ FeedInv(c)' /\ SamplesInv(c)'
    BY <1>5 DEF QueueInv, VanishInv, FeedInv, SamplesInv
<1>16. c \in Guis => KnowsInv(c)' /\ RowsInv(c)'
    BY <1>5, <1>7 DEF KnowsInv, RowsInv
<1>17. c \in Clis => ScriptRefs(c)' /\ ScriptInv(c)' /\ OwnRefs(c)'
    <2>1. c \in Clis => \A i \in DOMAIN us : us[i].type # "LIST_XLATERS"
        BY <1>0, <1>4 DEF ClientInv, ScriptRefs, ts
    <2> QED
        BY <1>5, <1>8, <2>1 DEF ScriptRefs, ScriptInv, OwnRefs, us
<1>18. ClientInv(c)'
    BY <1>11, <1>12, <1>13, <1>14, <1>15, <1>16, <1>17 DEF ClientInv
<1> QED
    BY <1>1, <1>9, <1>10, <1>18, AloneKeeps

-----------------------------------------------------------------------------
(* A new channel is asked for: its reference is new, and there is a worker *)
(* left for it.                                                            *)
LEMMA ReferenceTaken ==
    ASSUME ClientsIInv, NEW c \in Clients, MayCreate, create_xlater(c),
           UNCHANGED <<wstate, remoteid, creator>>
    PROVE  ChannelRefs'
<1>0. Typed /\ ChannelRefs
    BY DEF ClientsIInv
<1> DEFINE n == xln[c]
<1>1. n \in Nat /\ xln' = [xln EXCEPT ![c] = n + 1]
    BY <1>0 DEF create_xlater, Typed
<1>2. \A d \in Clients : xln[d] \in Nat /\ xln'[d] \in Nat /\ xln[d] <= xln'[d]
    BY <1>0, <1>1 DEF Typed
<1>3. \A d \in Clients : d # c => xln'[d] = xln[d]
    BY <1>0, <1>1 DEF Typed
<1>4. xln'[c] = n + 1
    BY <1>0, <1>1 DEF Typed
<1> DEFINE K == Cardinality(Workers)
           All == Clients \X (0..K)
<1>5. K \in Nat
    BY FS_CardinalityType
<1>6. References' \subseteq References \cup {<<c, n>>}
    <2>1. SUFFICES ASSUME NEW cr \in All, cr[2] < xln'[cr[1]], cr # <<c, n>>
                   PROVE  cr[2] < xln[cr[1]]
        BY DEF References
    <2>2. cr[1] \in Clients /\ cr[2] \in Nat /\ cr = <<cr[1], cr[2]>>
        BY <1>5
    <2>3. CASE cr[1] = c
        <3>1. cr[2] # n /\ cr[2] < n + 1
            BY <1>4, <2>1, <2>2, <2>3
        <3> QED
            BY <1>1, <2>2, <2>3, <3>1
    <2>4. CASE cr[1] # c
        BY <1>3, <2>1, <2>2, <2>4
    <2> QED
        BY <2>3, <2>4
<1>7. IsFiniteSet(References)
    <2>1. IsFiniteSet(0..K)
        BY <1>5, FS_Interval
    <2>2. IsFiniteSet(All)
        BY <2>1, FS_Product
    <2>3. References \in SUBSET All
        BY DEF References
    <2> QED
        BY <2>2, <2>3, FS_Subset
<1>8. Cardinality(References) < K /\ Cardinality(References) \in Nat
    BY <1>7, FS_CardinalityType DEF MayCreate, References
<1>9. /\ IsFiniteSet(References \cup {<<c, n>>})
      /\ Cardinality(References \cup {<<c, n>>}) \in Nat
      /\ Cardinality(References \cup {<<c, n>>}) <= K
    <2> DEFINE new == <<c, n>>
    <2> HIDE DEF n, new
    <2>1. /\ IsFiniteSet(References \cup {new})
          /\ \/ Cardinality(References \cup {new}) = Cardinality(References)
             \/ Cardinality(References \cup {new}) = Cardinality(References) + 1
        BY <1>7, FS_AddElement
    <2> QED
        BY <1>5, <1>8, <2>1 DEF new
<1>10. Cardinality(References') <= K
    <2>1. References' \in SUBSET (References \cup {<<c, n>>})
        BY <1>6
    <2>2. IsFiniteSet(References') /\ Cardinality(References') <= Cardinality(References \cup {<<c, n>>})
        BY <1>9, <2>1, FS_Subset
    <2>3. Cardinality(References') \in Nat
        BY <2>2, FS_CardinalityType
    <2> QED
        BY <1>5, <1>9, <2>2, <2>3
<1>11. Made' = Made
    BY DEF Made
<1>12. \A v \in Workers \cap Made : \E d \in Clients :
        creator[v] = {d} /\ remoteid[v] \in Nat /\ remoteid[v] < xln'[d]
    <2> SUFFICES ASSUME NEW v \in Workers \cap Made
                 PROVE  \E d \in Clients :
                        creator[v] = {d} /\ remoteid[v] \in Nat /\ remoteid[v] < xln'[d]
        OBVIOUS
    <2>1. PICK d \in Clients :
            creator[v] = {d} /\ remoteid[v] \in Nat /\ remoteid[v] < xln[d]
        BY <1>0 DEF ChannelRefs
    <2> QED
        BY <1>2, <2>1
<1> QED
    BY <1>0, <1>10, <1>11, <1>12 DEF ChannelRefs

LEMMA CreatesKeeps ==
    ASSUME ClientsIInv, NEW c \in Clients,
           \/ c \in Guis /\ DemodNew(c)
           \/ c \in Clis /\ CliCreate(c)
    PROVE  ClientsIInv'
<1> DEFINE ts == toserver[c]
           us == toserver'[c]
           n == xln[c]
           q == Create(n)
<1>0. /\ Typed /\ OwnTyped(c) /\ ClientInv(c) /\ AppInv(c) /\ SessionInv(c)
      /\ (c \in Guis \/ c \in Clis) /\ (c \in Clis => c \notin Guis)
    BY OwnParts DEF ClientInv
<1>1. /\ UNCHANGED <<server, wstate, remoteid, creator, subs, served, second, revived>>
      /\ UNCHANGED <<toclient, conn, xlaters, lock, receiver, callback, rows>>
      /\ UNCHANGED <<refused>> /\ UNCHANGED sessionVars
      /\ Made' = Made /\ Dead' = Dead /\ Known(c)' = Known(c)
      /\ create_xlater(c) /\ MayCreate
    BY DEF DemodNew, CliCreate, sessionVars, workerVars, othersKept, Made, Dead, Known
<1>2. /\ c \in Guis => /\ cli' = cli /\ conn[c] = "up"
                       /\ gui' = [gui EXCEPT ![c] = gui'[c]]
                       /\ gui'[c] \in [editing : Nat, ops : Nat]
      /\ c \in Clis => /\ cli' = [cli EXCEPT ![c] = cli'[c]] /\ cli'[c] \in CliTypes
                       /\ cli'[c].at = "created" /\ cli'[c].wid = cli[c].wid
                       /\ cli[c].at = "create" /\ gui' = gui
    <2>1. c \in Guis => Event(c) /\ cli' = cli
        BY <1>0 DEF DemodNew, Locked
    <2>2. c \in Clis => GoTo(c, "created") /\ cli[c].at = "create" /\ gui' = gui
        BY <1>0 DEF CliCreate, At, othersKept
    <2> QED
        BY <2>1, <2>2, EventParts, GoToTyped DEF Places
<1>3. /\ n \in Nat
      /\ xln' = [xln EXCEPT ![c] = xln'[c]] /\ xln'[c] = n + 1
      /\ xlater_q' = [xlater_q EXCEPT ![c] = xlater_q'[c]]
      /\ xlater_q'[c] = xlater_q[c] \cup {n}
    BY <1>0, <1>1 DEF create_xlater, Typed
<1>4. q \in Requests /\ q.type = "CREATE_XLATER" /\ q.remoteid = n
    BY <1>3 DEF Create, Requests
<1> HIDE DEF q
<1>5. /\ toserver' = [toserver EXCEPT ![c] = us] /\ us \in Seq(Requests)
      /\ DOMAIN ts = 1..Len(ts) /\ Len(ts) \in Nat
      /\ \A i \in DOMAIN ts : i \in DOMAIN us /\ us[i] = ts[i]
      /\ \A i \in DOMAIN us : i \notin DOMAIN ts => i = Len(ts) + 1 /\ us[i] = q
      /\ Len(ts) + 1 \in DOMAIN us /\ us[Len(ts) + 1] = q
    <2>1. q_msg(c, q)
        BY <1>1 DEF create_xlater, q
    <2> QED
        BY <1>0, <1>4, <2>1, AppendedAt
<1> HIDE DEF ts, us, n
<1>6. conn[c] = "up"
    BY <1>0, <1>2 DEF SessionInv, OwnTyped
<1>7. Alone(c)
    <2>1. c \in Guis \/ gui' = gui
        BY <1>0, <1>2
    <2> QED
        BY <1>0, <1>1, <1>2, <1>3, <1>5, SameExcept DEF Alone, us
<1>8. OwnTyped(c)'
    BY <1>0, <1>1, <1>2, <1>3, <1>5, SMTT(30) DEF OwnTyped, CliTypes, us
<1>9. IdsMade(c)'
    <2>1. IdsMade(c)
        BY <1>0 DEF ClientInv
    <2>2. \A i \in DOMAIN us :
            us[i].type \in {"LIST_XLATERS", "CREATE_XLATER"} \/ us[i].id \in Made
        BY <1>4, <1>5, <2>1 DEF IdsMade, ts
    <2> QED
        BY <1>1, <1>2, <2>1, <2>2 DEF IdsMade, us
<1>10. SessionInv(c)'
    BY <1>0, <1>1, <1>2, <1>3, <1>6 DEF SessionInv
<1>11. RequestRefs(c)'
    <2>1. RequestRefs(c)
        BY <1>0 DEF ClientInv
    <2>2. \A r \in xlater_q'[c] : r < n + 1
        <3>1. \A r \in xlater_q[c] : r < n /\ r \in Nat
            BY <1>0, <2>1 DEF RequestRefs, OwnTyped, n
        <3> QED
            BY <1>3, <3>1
    <2>3. ASSUME NEW i \in DOMAIN us, us[i].type = "CREATE_XLATER"
          PROVE  /\ us[i].remoteid < n + 1
                 /\ \A v \in Workers \cap Made :
                        creator[v] = {c} => remoteid[v] # us[i].remoteid
                 /\ \A j \in DOMAIN us : us[j] = us[i] => j = i
        <3>1. CASE i \in DOMAIN ts
            <4>1. /\ ts[i].remoteid < n /\ us[i] = ts[i] /\ ts[i].remoteid \in Int
                  /\ \A v \in Workers \cap Made :
                        creator[v] = {c} => remoteid[v] # ts[i].remoteid
                  /\ \A j \in DOMAIN ts : ts[j] = ts[i] => j = i
                <5>1. us[i] = ts[i] /\ ts[i] \in Requests
                    BY <1>0, <1>5, <3>1 DEF OwnTyped, ts
                <5>2. ts[i].remoteid \in Nat
                    BY <2>3, <5>1 DEF Requests
                <5> QED
                    BY <2>1, <2>3, <3>1, <5>1, <5>2 DEF RequestRefs, ts, n
            <4>2. us[i] # q
                BY <1>3, <1>4, <4>1
            <4> QED
                BY <1>3, <1>5, <4>1, <4>2, SMTT(30)
        <3>2. CASE i \notin DOMAIN ts
            <4>1. us[i] = q /\ i = Len(ts) + 1
                BY <1>5, <3>2
            <4>2. ASSUME NEW v \in Workers \cap Made, creator[v] = {c}
                  PROVE  remoteid[v] # n
                <5>1. remoteid[v] \in Nat /\ remoteid[v] < n
                    BY <4>2 DEF ClientsIInv, ChannelRefs, n
                <5> QED
                    BY <1>3, <5>1
            <4>3. ASSUME NEW j \in DOMAIN us, us[j] = q PROVE j = i
                <5>1. CASE j \in DOMAIN ts
                    <6>1. ts[j] = q
                        BY <1>5, <4>3, <5>1
                    <6>2. n < n
                        BY <1>4, <2>1, <5>1, <6>1 DEF RequestRefs, ts, n
                    <6> QED
                        BY <1>3, <6>2
                <5>2. CASE j \notin DOMAIN ts
                    BY <1>5, <4>1, <4>3, <5>2
                <5> QED
                    BY <5>1, <5>2
            <4> QED
                BY <1>3, <1>4, <4>1, <4>2, <4>3
        <3> QED
            BY <3>1, <3>2
    <2> QED
        BY <1>1, <1>3, <2>2, <2>3 DEF RequestRefs, us
<1>12. \A r : Answered(c, r)' = Answered(c, r)
    BY <1>1 DEF Answered, Answers
<1>13. QueueInv(c)'
    <2>1. QueueInv(c)
        BY <1>0 DEF ClientInv
    <2>2. \E i \in DOMAIN us : us[i] = Create(n)
        BY <1>5 DEF q
    <2> QED
        BY <1>1, <1>3, <1>5, <1>12, <2>1, <2>2 DEF QueueInv, us, ts
<1>14. DeadInv(c)' /\ VanishInv(c)'
    <2>1. DeadInv(c) /\ VanishInv(c)
        BY <1>0 DEF ClientInv
    <2> QED
        BY <1>1, <2>1 DEF DeadInv, VanishInv, AboutToTell
<1>15. \A w : HasFeeder(c, w)' = HasFeeder(c, w)
    BY <1>1 DEF HasFeeder
<1>16. FeedInv(c)'
    <2>1. FeedInv(c)
        BY <1>0 DEF ClientInv
    <2>2. \A i \in DOMAIN us : \A w : us[i] = For("ENABLE_XLATER", w) =>
            i \in DOMAIN ts /\ ts[i] = us[i]
        BY <1>4, <1>5 DEF For
    <2> QED
        BY <1>1, <1>15, <2>1, <2>2 DEF FeedInv, us, ts
<1>17. SamplesInv(c)'
    <2>1. SamplesInv(c)
        BY <1>0 DEF ClientInv
    <2>2. SUFFICES ASSUME NEW i \in DOMAIN toclient[c], NEW w,
                          toclient[c][i].type = "PAYLOAD", toclient[c][i].id = w
                   PROVE  /\ HasFeeder(c, w)'
                          /\ \A j \in 1..(i - 1) : toclient[c][j] # Destroyed(w)
        BY <1>1 DEF SamplesInv
    <2> QED
        BY <1>15, <2>1, <2>2 DEF SamplesInv
<1>18. c \in Guis => KnowsInv(c)' /\ RowsInv(c)'
    <2>1. c \in Guis => KnowsInv(c) /\ RowsInv(c)
        BY <1>0 DEF ClientInv
    <2> QED
        BY <1>1, <1>5, <2>1 DEF KnowsInv, RowsInv, ts, us
<1>19. c \in Clis => ScriptInv(c)' /\ OwnRefs(c)'
    <2>1. c \in Clis => ScriptInv(c) /\ OwnRefs(c)
        BY <1>0 DEF ClientInv
    <2> QED
        BY <1>1, <2>1 DEF ScriptInv, OwnRefs
<1>20. c \in Clis => ScriptRefs(c)'
    <2>1. SUFFICES ASSUME c \in Clis PROVE ScriptRefs(c)'
        OBVIOUS
    <2>2. /\ \A i \in DOMAIN ts : ts[i].type \notin {"LIST_XLATERS", "MODIFY_XLATER"}
          /\ second[c].do # "modified"
          /\ \A i \in DOMAIN toclient[c] : ~Foreign(c, toclient[c][i])
        BY <1>0, <1>2, <2>1 DEF ClientInv, ScriptRefs, ts
    <2>3. \A i \in DOMAIN us : us[i].type \notin {"LIST_XLATERS", "MODIFY_XLATER"}
        BY <1>4, <1>5, <2>2
    <2>4. \A m : Foreign(c, m)' = Foreign(c, m)
        BY <1>1 DEF Foreign
    <2> QED
        BY <1>1, <1>2, <2>1, <2>2, <2>3, <2>4 DEF ScriptRefs, us
<1>21. ClientInv(c)'
    BY <1>9, <1>10, <1>11, <1>13, <1>14, <1>16, <1>17, <1>18, <1>19, <1>20 DEF ClientInv
<1>22. ChannelRefs'
    BY <1>1, ReferenceTaken
<1> QED
    BY <1>7, <1>8, <1>21, <1>22, AloneKeepsAll

-----------------------------------------------------------------------------
(* Every step of a client *)
LEMMA SmallStepKeeps ==
    ASSUME ClientsIInv, NEW c \in Clients,
           Alone(c), OwnTyped(c)', Small(c), AppInv(c)'
    PROVE  ClientsIInv'
<1>1. ClientInv(c)'
    BY SmallKeeps
<1>2. UNCHANGED xln
    BY DEF Small
<1> QED
    BY <1>1, <1>2, AloneKeeps

LEMMA ClientStepsKeep ==
    ASSUME ClientsIInv, NEW c \in Clients,
           \/ ReceiverStep(c)
           \/ \E w \in Wids : FeederEnds(c, w)
           \/ c \in Guis /\ GuiStep(c)
           \/ c \in Clis /\ CliStep(c)
    PROVE  ClientsIInv'
<1>1. CASE ReceiverStep(c)
    <2>1. CASE srv_running_xlater(c)
        BY <2>1, HearsKeeps
    <2>2. CASE srv_destroyed_xlater(c)
        BY <2>2, ForgetsKeeps
    <2>3. CASE process_payload(c)
        BY <2>3, PayloadIsSmall, SmallStepKeeps
    <2>4. CASE ConnectionLost(c)
        BY <2>4, ConnectionLostIsSmall, SmallStepKeeps
    <2> QED
        BY <1>1, <2>1, <2>2, <2>3, <2>4 DEF ReceiverStep
<1>2. ASSUME NEW w \in Wids, FeederEnds(c, w) PROVE ClientsIInv'
    BY <1>2, FeederEndsIsSmall, SmallStepKeeps
<1>3. CASE c \in Guis /\ GuiStep(c)
    <2>1. CASE GuiConnect(c)
        BY <1>3, <2>1, ConnectsKeeps
    <2>2. CASE DemodNew(c)
        BY <1>3, <2>2, CreatesKeeps
    <2>3. CASE exit(c)
        BY <1>3, <2>3, LeavesKeeps
    <2>4. ASSUME NEW w \in Wids, NEW i \in Nat,
                 \/ da_configure(c) \/ DemodNewRefused(c) \/ DemodRunning(c, w)
                 \/ DemodRunningRefused(c, w) \/ DragOrScroll(c, w) \/ EditRow(c, i)
                 \/ kill_toggle_cb(c, i) \/ afc_toggle_cb(c, i) \/ CommitRow(c)
                 \/ EditFails(c)
          PROVE  ClientsIInv'
        <3>1. GuiCalm(c) /\ GuiRows(c) /\ GuiChannels(c) /\ GuiAsks(c)
            BY <1>3, <2>4, GuiSmallSteps
        <3>2. Alone(c) /\ OwnTyped(c)' /\ Small(c) /\ AppInv(c)'
            BY <1>3, <3>1, GuiIsSmall
        <3> QED
            BY <3>2, SmallStepKeeps
    <2>5. Stray \in Wids /\ 0 \in Nat /\ Cardinality(Wids) \in Nat
        <3>1. IsFiniteSet(Wids)
            BY FS_AddElement DEF Wids
        <3> QED
            BY <3>1, FS_CardinalityType DEF Wids
    <2>6. 1..Cardinality(Wids) \subseteq Nat
        BY <2>5
    <2>7. CASE \/ da_configure(c) \/ DemodNewRefused(c) \/ CommitRow(c) \/ EditFails(c)
        BY <2>4, <2>5, <2>7
    <2>8. ASSUME NEW w \in Wids,
                 DemodRunning(c, w) \/ DemodRunningRefused(c, w) \/ DragOrScroll(c, w)
          PROVE  ClientsIInv'
        BY <2>4, <2>5, <2>8
    <2>9. ASSUME NEW i \in 1..Cardinality(Wids),
                 EditRow(c, i) \/ kill_toggle_cb(c, i) \/ afc_toggle_cb(c, i)
          PROVE  ClientsIInv'
        BY <2>4, <2>5, <2>6, <2>9
    <2> QED
        BY <1>3, <2>1, <2>2, <2>3, <2>7, <2>8, <2>9 DEF GuiStep
<1>4. CASE c \in Clis /\ CliStep(c)
    <2>1. CASE CliConnect(c)
        BY <1>4, <2>1, ConnectsKeeps
    <2>2. CASE CliCreate(c)
        BY <1>4, <2>2, CreatesKeeps
    <2>3. CASE CliRaises(c) \/ CliDisconnect(c)
        BY <1>4, <2>3, LeavesKeeps
    <2>4. CASE KeepRid(c) \/ NoRetune(c) \/ Retune(c) \/ CliDisable(c) \/ CliDestroy(c)
        BY <1>4, <2>4, CliSmallSteps, SmallStepKeeps
    <2> QED
        BY <1>4, <2>1, <2>2, <2>3, <2>4 DEF CliStep
<1> QED
    BY <1>1, <1>2, <1>3, <1>4

-----------------------------------------------------------------------------
(* A step of the server: a request of d is taken (k = 1) or not, and what  *)
(* is sent to d is appended.  The clients' own state does not change, and  *)
(* channels come and die but do not return.                                *)
ServerFrame ==
    /\ UNCHANGED <<conn, clientVars>>
    /\ server' \in {server, "killed"}
    /\ Made \subseteq Made' /\ Dead \subseteq Dead'
    /\ \A w \in Workers \cap Made :
        creator'[w] = creator[w] /\ remoteid'[w] = remoteid[w]
    /\ \A w \in Workers :
        wstate'[w] = "running" => wstate[w] = "running" \/ w \notin Made

Taken(d, k) ==
    /\ k = 1 => 1 \in DOMAIN toserver[d]
    /\ DOMAIN toserver[d] \subseteq Nat \ {0}
    /\ DOMAIN toserver'[d] \subseteq Nat \ {0}
    /\ \A i \in DOMAIN toserver'[d] :
        i + k \in DOMAIN toserver[d] /\ toserver'[d][i] = toserver[d][i + k]
    /\ \A i \in DOMAIN toserver[d] : i > k =>
        i - k \in DOMAIN toserver'[d] /\ toserver'[d][i - k] = toserver[d][i]

(* The session of d, its subscriptions and what it has yet to do *)
SessionKept(d, k) ==
    /\ served'[d] = "none" => served[d] = "none" /\ subs'[d] = NoSubs
    /\ served'[d] = "ended" => conn[d] = "closed"
    /\ conn[d] = "off" => served'[d] = "none" /\ toserver'[d] = <<>>
    /\ \A w \in Workers : subs'[d][w] > 0 =>
        \/ subs[d][w] > 0
        \/ k = 1 /\ toserver[d][1] = For("ENABLE_XLATER", w)
    /\ second'[d] # Idle => second'[d].worker \in Made'
    /\ second'[d].do = "destroyed" => second'[d].worker \in Dead' \cup {Stray}
    /\ second'[d].do = "modified" =>
        second[d].do = "modified" \/ (k = 1 /\ toserver[d][1].type = "MODIFY_XLATER")
    /\ \A w \in Workers \cap Made' : w \notin Made /\ creator'[w] = {d} =>
        k = 1 /\ toserver[d][1] = Create(remoteid'[w])

(* What may be sent to d at all *)
Sends(d, new) ==
    /\ new \in Seq(Messages) /\ toclient'[d] = toclient[d] \o new
    /\ new # <<>> => conn[d] = "up" /\ served'[d] # "none"
    /\ \A i \in DOMAIN new :
        /\ new[i].id \in Made'
        /\ new[i].type = "DESTROYED_XLATER" => new[i].id \in Dead' \cup {Stray}
        /\ new[i].type = "PAYLOAD" =>
            /\ HasFeeder(d, new[i].id) /\ new[i].id \in Workers \ Dead'
            /\ \A j \in DOMAIN new : new[j].type = "PAYLOAD"
        /\ d \in Clis /\ Foreign(d, new[i])' =>
            second[d].do = "modified" /\ server = "up"

(* What has to be sent to d *)
Tells(d, k, new) == server' = "up" /\ conn[d] = "up" =>
    /\ \A r \in xlater_q[d] : k = 1 /\ toserver[d][1] = Create(r) => Answered(d, r)'
    /\ \A w \in Dead' \ revived' : ~AboutToTell(w)' =>
        \/ /\ w \in Dead \ revived /\ ~AboutToTell(w)
           /\ \A i \in DOMAIN new : new[i].type = "RUNNING_XLATER" => new[i].id # w
        \/ /\ \E j \in DOMAIN new : new[j] = Destroyed(w)
           /\ \A i \in DOMAIN new : new[i].type # "RUNNING_XLATER"
        \/ served[d] = "none" /\ new = <<>>
    /\ \A w \in Workers :
        /\ wstate'[w] = "running" /\ served[d] # "none"
        /\ w \notin Made \/ (k = 1 /\ toserver[d][1].type = "LIST_XLATERS")
        => \E i \in DOMAIN new : new[i].type = "RUNNING_XLATER" /\ new[i].id = w

LEMMA ServerKeeps ==
    ASSUME ClientsIInv, ServerFrame, NEW d \in Clients, NEW k \in {0, 1}, NEW new,
           Taken(d, k), SessionKept(d, k), Sends(d, new), Tells(d, k, new)
    PROVE  ClientInv(d)'
<1> DEFINE ts == toserver[d]
           us == toserver'[d]
           tc == toclient[d]
           uc == toclient'[d]
<1>0. /\ Typed /\ OwnTyped(d) /\ ClientInv(d) /\ SessionInv(d) /\ IdsMade(d)
      /\ (d \in Guis \/ d \in Clis) /\ (d \in Clis => d \notin Guis)
      /\ server \in {"up", "killed"}
    BY OwnParts DEF ClientInv, Typed
<1>1. /\ UNCHANGED <<conn, xlaters, xlater_q, xln, lock, receiver, callback>>
      /\ UNCHANGED <<rows, gui, cli, refused>> /\ Known(d)' = Known(d)
      /\ server' = "up" => server = "up"
      /\ Made \subseteq Made' /\ Dead \subseteq Dead'
    BY <1>0 DEF ServerFrame, clientVars, libVars, appVars, Known
<1>2. /\ k = 1 => 1 \in DOMAIN ts
      /\ DOMAIN ts \subseteq Nat \ {0} /\ DOMAIN us \subseteq Nat \ {0}
      /\ \A i \in DOMAIN us : i + k \in DOMAIN ts /\ us[i] = ts[i + k]
      /\ \A i \in DOMAIN ts : i > k => i - k \in DOMAIN us /\ us[i - k] = ts[i]
      /\ \A i \in DOMAIN ts : i > k \/ (i = 1 /\ k = 1)
    BY DEF Taken
<1> DEFINE Alien(m) == /\ m.type = "RUNNING_XLATER" /\ m.remoteid # NoRid
                       /\ m.id \in Workers => d \notin creator'[m.id]
<1>3. /\ new \in Seq(Messages) /\ tc \in Seq(Messages) /\ uc = tc \o new
    BY <1>0 DEF Sends, OwnTyped
<1>4. /\ DOMAIN tc = 1..Len(tc) /\ Len(tc) \in Nat
      /\ DOMAIN new = 1..Len(new) /\ Len(new) \in Nat
      /\ DOMAIN uc = 1..(Len(tc) + Len(new))
      /\ \A i \in DOMAIN tc : i \in DOMAIN uc /\ uc[i] = tc[i]
      /\ \A i \in DOMAIN new : Len(tc) + i \in DOMAIN uc /\ uc[Len(tc) + i] = new[i]
      /\ \A i \in DOMAIN uc : i \notin DOMAIN tc =>
            i - Len(tc) \in DOMAIN new /\ uc[i] = new[i - Len(tc)]
    BY <1>3, ConcatAt, SMTT(30)
<1> HIDE DEF ts, us, tc, uc, Alien
<1>5. \A i \in DOMAIN uc :
        \/ i \in DOMAIN tc /\ uc[i] = tc[i]
        \/ i \notin DOMAIN tc /\ \E n \in DOMAIN new : n = i - Len(tc) /\ uc[i] = new[n]
    BY <1>4
<1>6. IdsMade(d)'
    <2>1. \A i \in DOMAIN us :
            us[i].type \in {"LIST_XLATERS", "CREATE_XLATER"} \/ us[i].id \in Made
        BY <1>0, <1>2 DEF IdsMade, ts
    <2>2. \A i \in DOMAIN uc : uc[i].id \in Made'
        <3>1. \A i \in DOMAIN tc : tc[i].id \in Made
            BY <1>0 DEF IdsMade, tc
        <3>2. \A i \in DOMAIN new : new[i].id \in Made'
            BY DEF Sends
        <3> QED
            BY <1>1, <1>5, <3>1, <3>2
    <2>3. \A w \in Workers : subs'[d][w] > 0 => w \in Made
        <3> SUFFICES ASSUME NEW w \in Workers, subs'[d][w] > 0 PROVE w \in Made
            OBVIOUS
        <3>1. CASE subs[d][w] > 0
            BY <1>0, <3>1 DEF IdsMade
        <3>2. CASE k = 1 /\ ts[1] = For("ENABLE_XLATER", w)
            BY <1>0, <1>2, <3>2 DEF IdsMade, For, ts
        <3> QED
            BY <3>1, <3>2 DEF SessionKept, ts
    <2>4. second'[d] # Idle => second'[d].worker \in Made'
        BY DEF SessionKept
    <2>5. /\ Known(d) \subseteq Made
          /\ d \in Guis => \A i \in DOMAIN rows[d] : rows[d][i] \in Made
          /\ d \in Clis => /\ cli[d].wid \in Made \cup {None}
                           /\ cli[d].at = "destroy" => cli[d].wid \in Made
        BY <1>0 DEF IdsMade
    <2> QED
        BY <1>1, <2>1, <2>2, <2>3, <2>4, <2>5 DEF IdsMade, us, uc
<1>7. SessionInv(d)'
    <2>1. served'[d] = "none" \/ conn[d] # "up" => uc = <<>>
        <3>1. ASSUME served'[d] = "none" \/ conn[d] # "up" PROVE tc = <<>> /\ new = <<>>
            BY <1>0, <3>1 DEF Sends, SessionKept, SessionInv, tc
        <3> QED
            BY <1>3, <1>4, <3>1
    <2>2. served'[d] = "none" => served[d] = "none" /\ subs'[d] = NoSubs
        BY DEF SessionKept
    <2>3. served'[d] = "ended" => conn[d] = "closed"
        BY DEF SessionKept
    <2>4. conn[d] = "off" => served'[d] = "none" /\ us = <<>>
        BY DEF SessionKept, us
    <2> QED
        BY <1>0, <1>1, <2>1, <2>2, <2>3, <2>4 DEF SessionInv, us, uc
<1>8. RequestRefs(d)'
    <2>1. RequestRefs(d)
        BY <1>0 DEF ClientInv
    <2>2. ASSUME NEW i \in DOMAIN us, us[i].type = "CREATE_XLATER"
          PROVE  /\ us[i].remoteid < xln[d]
                 /\ \A j \in DOMAIN us : us[j] = us[i] => j = i
        <3>1. /\ i + k \in DOMAIN ts /\ us[i] = ts[i + k]
            BY <1>2
        <3>2. /\ ts[i + k].remoteid < xln[d]
              /\ \A j \in DOMAIN ts : ts[j] = ts[i + k] => j = i + k
            BY <2>1, <2>2, <3>1 DEF RequestRefs, ts
        <3>3. ASSUME NEW j \in DOMAIN us, us[j] = us[i] PROVE j = i
            <4>1. j + k = i + k
                BY <1>2, <3>1, <3>2, <3>3
            <4> QED
                BY <1>2, <4>1
        <3> QED
            BY <3>1, <3>2, <3>3
    <2>3. ASSUME NEW i \in DOMAIN us, us[i].type = "CREATE_XLATER",
                 NEW w \in Workers \cap Made', creator'[w] = {d}
          PROVE  remoteid'[w] # us[i].remoteid
        <3>1. i + k \in DOMAIN ts /\ us[i] = ts[i + k]
            BY <1>2
        <3>2. CASE w \in Made
            <4>1. creator[w] = {d} /\ remoteid'[w] = remoteid[w]
                BY <2>3, <3>2 DEF ServerFrame
            <4> QED
                BY <2>1, <2>3, <3>1, <3>2, <4>1 DEF RequestRefs, ts
        <3>3. CASE w \notin Made
            <4>1. k = 1 /\ ts[1] = Create(remoteid'[w])
                BY <2>3, <3>3 DEF SessionKept, ts
            <4>2. ts[1].type = "CREATE_XLATER" /\ ts[1].remoteid = remoteid'[w]
                BY <4>1 DEF Create
            <4>3. ts[1] # ts[i + k]
                BY <1>2, <2>1, <2>3, <3>1, <4>1, <4>2 DEF RequestRefs, ts
            <4>4. us[i] \in Requests /\ ts[1] \in Requests
                BY <1>0, <1>2, <3>1, <4>1 DEF OwnTyped, ts
            <4>5. us[i] = Create(us[i].remoteid)
                BY <2>3, <4>4 DEF Requests, Create
            <4> QED
                BY <3>1, <4>1, <4>2, <4>3, <4>5
        <3> QED
            BY <3>2, <3>3
    <2>4. \A r \in xlater_q[d] : r < xln[d]
        BY <2>1 DEF RequestRefs
    <2> QED
        BY <1>1, <2>2, <2>3, <2>4 DEF RequestRefs, us
<1>9. ASSUME NEW r, NEW i, Answers(d, i, r) PROVE Answers(d, i, r)'
    <2>1. /\ i \in DOMAIN tc /\ tc[i].type = "RUNNING_XLATER" /\ tc[i].remoteid = r
          /\ tc[i].id \in Workers \ Known(d)
          /\ \A j \in 1..(i - 1) : tc[j].type = "RUNNING_XLATER" => tc[j].id # tc[i].id
        BY <1>9 DEF Answers, tc
    <2>2. \A j \in 1..(i - 1) : uc[j] = tc[j]
        BY <1>4, <2>1
    <2>3. i \in DOMAIN uc /\ uc[i] = tc[i]
        BY <1>4, <2>1
    <2> QED
        BY <1>1, <2>1, <2>2, <2>3 DEF Answers, uc
<1>10. ASSUME NEW r, Answered(d, r) PROVE Answered(d, r)'
    BY <1>4, <1>9, <1>10 DEF Answered, tc, uc
<1>11. ASSUME server' = "up", conn[d] = "up", NEW r \in xlater_q[d],
              NEW i \in DOMAIN ts, ts[i] = Create(r)
       PROVE  Answered(d, r)' \/ (i > k /\ i - k \in DOMAIN us /\ us[i - k] = Create(r))
    <2>1. CASE i > k
        BY <1>2, <1>11, <2>1
    <2>2. CASE i = 1 /\ k = 1
        BY <1>11, <2>2 DEF Tells, ts
    <2> QED
        BY <1>2, <2>1, <2>2
<1>12. QueueInv(d)'
    <2>1. QueueInv(d)
        BY <1>0 DEF ClientInv
    <2>2. SUFFICES ASSUME server' = "up", conn[d] = "up", NEW r \in xlater_q[d]
                   PROVE  (\E i \in DOMAIN us : us[i] = Create(r)) \/ Answered(d, r)'
        BY <1>1 DEF QueueInv, us
    <2>3. (\E i \in DOMAIN ts : ts[i] = Create(r)) \/ Answered(d, r)
        BY <1>1, <2>1, <2>2 DEF QueueInv, ts
    <2> QED
        BY <1>10, <1>11, <2>2, <2>3
<1>13. DeadInv(d)'
    <2>1. \A i \in DOMAIN tc : tc[i].type = "DESTROYED_XLATER" => tc[i].id \in Dead \cup {Stray}
        BY <1>0 DEF ClientInv, DeadInv, tc
    <2>2. \A i \in DOMAIN new :
            new[i].type = "DESTROYED_XLATER" => new[i].id \in Dead' \cup {Stray}
        BY DEF Sends
    <2>3. \A i \in DOMAIN uc :
            uc[i].type = "DESTROYED_XLATER" => uc[i].id \in Dead' \cup {Stray}
        BY <1>1, <1>5, <2>1, <2>2
    <2>4. second'[d].do = "destroyed" => second'[d].worker \in Dead' \cup {Stray}
        BY DEF SessionKept
    <2> QED
        BY <2>3, <2>4 DEF DeadInv, uc
<1>14. VanishInv(d)'
    <2>1. VanishInv(d)
        BY <1>0 DEF ClientInv
    <2>2. SUFFICES ASSUME server' = "up", conn[d] = "up", NEW v \in Dead' \ revived',
                          ~AboutToTell(v)'
                   PROVE  /\ v \in Known(d) =>
                             \E i \in DOMAIN uc : uc[i] = Destroyed(v)
                          /\ \A i \in DOMAIN uc :
                             uc[i].type = "RUNNING_XLATER" /\ uc[i].id = v =>
                                \E j \in DOMAIN uc : j > i /\ uc[j] = Destroyed(v)
        BY <1>1 DEF VanishInv, uc
    <2>3. CASE /\ v \in Dead \ revived /\ ~AboutToTell(v)
               /\ \A i \in DOMAIN new : new[i].type = "RUNNING_XLATER" => new[i].id # v
        <3>1. /\ v \in Known(d) => \E i \in DOMAIN tc : tc[i] = Destroyed(v)
              /\ \A i \in DOMAIN tc :
                    tc[i].type = "RUNNING_XLATER" /\ tc[i].id = v =>
                        \E j \in DOMAIN tc : j > i /\ tc[j] = Destroyed(v)
            BY <1>1, <2>1, <2>2, <2>3 DEF VanishInv, tc
        <3>2. v \in Known(d) => \E i \in DOMAIN uc : uc[i] = Destroyed(v)
            BY <1>4, <3>1
        <3>3. ASSUME NEW i \in DOMAIN uc, uc[i].type = "RUNNING_XLATER", uc[i].id = v
              PROVE  \E j \in DOMAIN uc : j > i /\ uc[j] = Destroyed(v)
            <4>1. i \in DOMAIN tc /\ uc[i] = tc[i]
                BY <1>5, <2>3, <3>3
            <4>2. PICK j \in DOMAIN tc : j > i /\ tc[j] = Destroyed(v)
                BY <3>1, <3>3, <4>1
            <4> QED
                BY <1>4, <4>2
        <3> QED
            BY <3>2, <3>3
    <2>4. CASE /\ \E j \in DOMAIN new : new[j] = Destroyed(v)
               /\ \A i \in DOMAIN new : new[i].type # "RUNNING_XLATER"
        <3>1. PICK j \in DOMAIN new : new[j] = Destroyed(v)
            BY <2>4
        <3>2. Len(tc) + j \in DOMAIN uc /\ uc[Len(tc) + j] = Destroyed(v)
            BY <1>4, <3>1
        <3>3. ASSUME NEW i \in DOMAIN uc, uc[i].type = "RUNNING_XLATER"
              PROVE  Len(tc) + j > i
            <4>1. i \in DOMAIN tc
                BY <1>5, <2>4, <3>3
            <4> QED
                BY <1>4, <4>1
        <3> QED
            BY <3>2, <3>3
    <2>5. CASE served[d] = "none" /\ new = <<>>
        <3>1. Known(d) = {} /\ DOMAIN tc = {} /\ DOMAIN new = {}
            BY <1>0, <2>5 DEF SessionInv, tc
        <3> QED
            BY <1>5, <3>1
    <2> QED
        BY <2>2, <2>3, <2>4, <2>5 DEF Tells
<1>15. \A w : HasFeeder(d, w)' <=> HasFeeder(d, w)
    BY <1>1 DEF HasFeeder
<1>16. FeedInv(d)'
    <2>1. FeedInv(d)
        BY <1>0 DEF ClientInv
    <2>2. SUFFICES ASSUME conn[d] = "up", NEW w \in Workers, wstate'[w] = "running",
                          \/ subs'[d][w] > 0
                          \/ \E i \in DOMAIN us : us[i] = For("ENABLE_XLATER", w)
                   PROVE  HasFeeder(d, w)
        BY <1>1, <1>15 DEF FeedInv, us
    <2>3. \/ subs[d][w] > 0
          \/ \E i \in DOMAIN ts : ts[i] = For("ENABLE_XLATER", w)
        BY <1>2, <2>2 DEF SessionKept, ts
    <2>4. w \in Made
        <3>1. CASE subs[d][w] > 0
            BY <1>0, <3>1 DEF IdsMade
        <3>2. ASSUME NEW i \in DOMAIN ts, ts[i] = For("ENABLE_XLATER", w) PROVE w \in Made
            <4>1. ts[i].type = "ENABLE_XLATER" /\ ts[i].id = w
                BY <3>2 DEF For
            <4> QED
                BY <1>0, <4>1 DEF IdsMade, ts
        <3> QED
            BY <2>3, <3>1, <3>2
    <2>5. wstate[w] = "running"
        BY <2>2, <2>4 DEF ServerFrame
    <2> QED
        BY <2>1, <2>2, <2>3, <2>5 DEF FeedInv, ts
<1>17. SamplesInv(d)'
    <2>1. SamplesInv(d) /\ DeadInv(d)
        BY <1>0 DEF ClientInv
    <2>2. SUFFICES ASSUME NEW i \in DOMAIN uc, NEW v,
                          uc[i].type = "PAYLOAD", uc[i].id = v
                   PROVE  /\ HasFeeder(d, v)'
                          /\ \A j \in 1..(i - 1) : uc[j] # Destroyed(v)
        BY DEF SamplesInv, uc
    <2>3. CASE i \in DOMAIN tc
        <3>1. uc[i] = tc[i] /\ \A j \in 1..(i - 1) : uc[j] = tc[j]
            BY <1>4, <2>3
        <3> QED
            BY <1>15, <2>1, <2>2, <2>3, <3>1 DEF SamplesInv, tc
    <2>4. CASE i \notin DOMAIN tc
        <3>1. PICK n \in DOMAIN new : uc[i] = new[n]
            BY <1>5, <2>4
        <3>2. /\ HasFeeder(d, v) /\ v \in Workers \ Dead'
              /\ \A j \in DOMAIN new : new[j].type = "PAYLOAD"
            BY <2>2, <3>1 DEF Sends
        <3>3. ASSUME NEW j \in DOMAIN tc PROVE tc[j] # Destroyed(v)
            BY <1>1, <2>1, <3>2 DEF DeadInv, Destroyed, tc
        <3>4. ASSUME NEW j \in 1..(i - 1) PROVE uc[j] # Destroyed(v)
            <4>1. j \in DOMAIN uc
                BY <1>4
            <4> QED
                BY <1>5, <3>2, <3>3, <4>1 DEF Destroyed
        <3> QED
            BY <1>15, <3>2, <3>4
    <2> QED
        BY <2>3, <2>4
<1>18. d \in Guis => KnowsInv(d)' /\ RowsInv(d)'
    <2>1. SUFFICES ASSUME d \in Guis PROVE KnowsInv(d)' /\ RowsInv(d)'
        OBVIOUS
    <2>2. KnowsInv(d) /\ RowsInv(d)
        BY <1>0, <2>1 DEF ClientInv
    <2>3. SUFFICES ASSUME server' = "up", conn[d] = "up", callback[d],
                          NEW w \in Workers, wstate'[w] = "running"
                   PROVE  \/ w \in Known(d)
                          \/ \E i \in DOMAIN uc :
                                uc[i].type = "RUNNING_XLATER" /\ uc[i].id = w
                          \/ \E i \in DOMAIN us : us[i].type = "LIST_XLATERS"
        BY <1>1, <2>2 DEF KnowsInv, RowsInv, us, uc
    <2>4. served[d] # "none"
        BY <1>0, <2>1, <2>3 DEF SessionInv
    <2>5. CASE w \notin Made \/ (k = 1 /\ ts[1].type = "LIST_XLATERS")
        <3>1. \E i \in DOMAIN new : new[i].type = "RUNNING_XLATER" /\ new[i].id = w
            BY <2>3, <2>4, <2>5 DEF Tells, ts
        <3> QED
            BY <1>4, <3>1
    <2>6. CASE w \in Made /\ ~(k = 1 /\ ts[1].type = "LIST_XLATERS")
        <3>1. wstate[w] = "running"
            BY <2>3, <2>6 DEF ServerFrame
        <3>2. \/ w \in Known(d)
              \/ \E i \in DOMAIN tc : tc[i].type = "RUNNING_XLATER" /\ tc[i].id = w
              \/ \E i \in DOMAIN ts : ts[i].type = "LIST_XLATERS"
            BY <1>1, <2>2, <2>3, <3>1 DEF KnowsInv, tc, ts
        <3> QED
            BY <1>2, <1>4, <2>6, <3>2
    <2> QED
        BY <2>5, <2>6
<1>19. d \in Clis => ScriptInv(d)' /\ OwnRefs(d)'
    <2>1. d \in Clis => ScriptInv(d) /\ OwnRefs(d)
        BY <1>0 DEF ClientInv
    <2>2. server = "killed" => server' = "killed"
        BY DEF ServerFrame
    <2>3. \A w \in Known(d) \cap Workers : creator'[w] = creator[w]
        BY <1>0 DEF IdsMade, ServerFrame
    <2> QED
        BY <1>1, <2>1, <2>2, <2>3 DEF ScriptInv, OwnRefs
<1>20. d \in Clis => ScriptRefs(d)'
    <2>1. SUFFICES ASSUME d \in Clis PROVE ScriptRefs(d)'
        OBVIOUS
    <2>2. ScriptRefs(d)
        BY <1>0, <2>1 DEF ClientInv
    <2>3. \A i \in DOMAIN us : us[i].type # "LIST_XLATERS"
        BY <1>2, <2>2 DEF ScriptRefs, ts
    <2>4. ASSUME NEW i \in DOMAIN tc, Alien(tc[i]) PROVE Foreign(d, tc[i])
        <3>1. /\ tc[i].type = "RUNNING_XLATER" /\ tc[i].remoteid # NoRid
              /\ tc[i].id \in Workers => d \notin creator'[tc[i].id]
            BY <2>4 DEF Alien
        <3>2. tc[i].id \in Made
            BY <1>0 DEF IdsMade, tc
        <3>3. tc[i].id \in Workers => creator'[tc[i].id] = creator[tc[i].id]
            BY <3>2 DEF ServerFrame
        <3> QED
            BY <3>1, <3>3 DEF Foreign
    <2>5. ASSUME NEW i \in DOMAIN uc, Alien(uc[i])
          PROVE  \/ i \in DOMAIN tc /\ Foreign(d, tc[i])
                 \/ i \notin DOMAIN tc /\ second[d].do = "modified" /\ server = "up"
        <3>1. CASE i \in DOMAIN tc /\ uc[i] = tc[i]
            BY <2>4, <2>5, <3>1
        <3>2. ASSUME NEW n \in DOMAIN new, uc[i] = new[n], i \notin DOMAIN tc
              PROVE  second[d].do = "modified" /\ server = "up"
            BY <2>1, <2>5, <3>2 DEF Sends, Alien, Foreign
        <3> QED
            BY <1>5, <3>1, <3>2
    <2>6. ASSUME cli[d].at \in {"connect", "create"}
          PROVE  /\ \A i \in DOMAIN us : us[i].type # "MODIFY_XLATER"
                 /\ second'[d].do # "modified" /\ xlater_q[d] = {}
                 /\ \A i \in DOMAIN uc : ~Alien(uc[i])
        <3>1. /\ \A i \in DOMAIN ts : ts[i].type # "MODIFY_XLATER"
              /\ second[d].do # "modified" /\ xlater_q[d] = {}
              /\ \A i \in DOMAIN tc : ~Foreign(d, tc[i])
            BY <2>2, <2>6 DEF ScriptRefs, ts, tc
        <3>2. second'[d].do # "modified"
            BY <1>2, <3>1 DEF SessionKept, ts
        <3> QED
            BY <1>2, <2>5, <3>1, <3>2
    <2>7. ASSUME server' = "up", NEW r \in xlater_q[d]
          PROVE  /\ \A j \in DOMAIN us : us[j].type = "MODIFY_XLATER" =>
                    (\E i \in 1..(j - 1) : us[i] = Create(r)) \/ Answered(d, r)'
                 /\ second'[d].do = "modified" => Answered(d, r)'
        <3>1. server = "up" /\ conn[d] = "up"
            BY <1>0, <1>1, <2>7 DEF SessionInv
        <3>2. ASSUME NEW j \in DOMAIN ts, ts[j].type = "MODIFY_XLATER"
              PROVE  (\E i \in 1..(j - 1) : ts[i] = Create(r)) \/ Answered(d, r)
            BY <2>2, <3>1, <3>2 DEF ScriptRefs, ts
        <3>3. ASSUME NEW j \in DOMAIN us, us[j].type = "MODIFY_XLATER"
              PROVE  (\E i \in 1..(j - 1) : us[i] = Create(r)) \/ Answered(d, r)'
            <4>1. PICK n \in DOMAIN ts : n = j + k /\ us[j] = ts[n]
                BY <1>2
            <4>2. CASE Answered(d, r)
                BY <1>10, <4>2
            <4>3. ASSUME NEW i \in 1..(n - 1), ts[i] = Create(r)
                  PROVE  (\E l \in 1..(j - 1) : us[l] = Create(r)) \/ Answered(d, r)'
                <5>1. i \in DOMAIN ts
                    <6>1. ts \in Seq(Requests)
                        BY <1>0 DEF OwnTyped, ts
                    <6>2. DOMAIN ts = 1..Len(ts) /\ Len(ts) \in Nat
                        BY <6>1
                    <6> QED
                        BY <4>1, <6>2
                <5>2. CASE i > k /\ i - k \in DOMAIN us /\ us[i - k] = Create(r)
                    <6>1. i - k \in 1..(j - 1)
                        BY <1>2, <4>1, <5>2
                    <6> QED
                        BY <5>2, <6>1
                <5> QED
                    BY <1>11, <2>7, <3>1, <4>3, <5>1, <5>2
            <4> QED
                BY <3>2, <3>3, <4>1, <4>2, <4>3
        <3>4. ASSUME second'[d].do = "modified" PROVE Answered(d, r)'
            <4>1. CASE second[d].do = "modified"
                BY <1>10, <2>2, <3>1, <4>1 DEF ScriptRefs
            <4>2. CASE k = 1 /\ ts[1].type = "MODIFY_XLATER"
                <5>1. Answered(d, r)
                    BY <1>2, <3>2, <4>2
                <5> QED
                    BY <1>10, <5>1
            <4> QED
                BY <3>4, <4>1, <4>2 DEF SessionKept, ts
        <3> QED
            BY <3>3, <3>4
    <2>8. ASSUME NEW r \in xlater_q[d], NEW j \in DOMAIN uc, Alien(uc[j])
          PROVE  \E i \in 1..(j - 1) : Answers(d, i, r)'
        <3>1. CASE j \in DOMAIN tc /\ Foreign(d, tc[j])
            <4>1. PICK i \in 1..(j - 1) : Answers(d, i, r)
                BY <2>2, <3>1 DEF ScriptRefs, tc
            <4> QED
                BY <1>9, <4>1
        <3>2. CASE j \notin DOMAIN tc /\ second[d].do = "modified" /\ server = "up"
            <4>1. PICK i \in DOMAIN tc : Answers(d, i, r)
                BY <2>2, <3>2 DEF ScriptRefs, Answered, tc
            <4>2. i \in 1..(j - 1)
                BY <1>4, <3>2, <4>1
            <4> QED
                BY <1>9, <4>1, <4>2
        <3> QED
            BY <2>5, <2>8, <3>1, <3>2
    <2> QED
        BY <1>1, <2>3, <2>6, <2>7, <2>8 DEF ScriptRefs, Alien, Foreign, us, uc
<1> QED
    BY <1>6, <1>7, <1>8, <1>12, <1>13, <1>14, <1>16, <1>17, <1>18, <1>19, <1>20
    DEF ClientInv

-----------------------------------------------------------------------------
(* The steps of the server, from what each client sees of them *)
ServerTyped ==
    /\ toserver \in [Clients -> Seq(Requests)]
    /\ toclient \in [Clients -> Seq(Messages)]
    /\ wstate \in [Workers -> {"none", "running", "dying", "freed"}]
    /\ remoteid \in [Workers -> Nat \cup {NoRid}]
    /\ creator \in [Workers -> SUBSET Clients]
    /\ subs \in [Clients -> [Workers -> Nat]]
    /\ served \in [Clients -> {"none", "listed", "ended"}]
    /\ second \in [Clients -> {Idle} \cup [do : {"modified"}, worker : Workers]
                                     \cup [do : {"destroyed"}, worker : Wids]]

Treated(d) == \E k \in {0, 1}, new \in Seq(Messages) :
    Taken(d, k) /\ SessionKept(d, k) /\ Sends(d, new) /\ Tells(d, k, new)

LEMMA ServerStepKeeps ==
    ASSUME ClientsIInv, ServerFrame, ServerTyped', ChannelRefs',
           \A d \in Clients : Treated(d)
    PROVE  ClientsIInv'
<1>1. Typed /\ UNCHANGED <<conn, clientVars>> /\ server' \in {server, "killed"}
    BY DEF ClientsIInv, ServerFrame
<1>2. Typed'
    <2>1. /\ UNCHANGED <<conn, xlaters, xlater_q, xln, lock, receiver, callback>>
          /\ UNCHANGED <<rows, gui, cli>> /\ server' \in {"up", "killed"}
        BY <1>1 DEF clientVars, libVars, appVars, Typed
    <2> QED
        BY <1>1, <2>1 DEF Typed, ServerTyped
<1>3. ASSUME NEW d \in Clients PROVE ClientInv(d)'
    <2>1. PICK k \in {0, 1}, new \in Seq(Messages) :
            Taken(d, k) /\ SessionKept(d, k) /\ Sends(d, new) /\ Tells(d, k, new)
        BY DEF Treated
    <2> QED
        BY <2>1, ServerKeeps
<1>4. refused' \subseteq Guis \X Wids
    BY <1>1 DEF ClientsIInv, clientVars
<1> QED
    BY <1>2, <1>3, <1>4 DEF ClientsIInv

LEMMA RequestTaken ==
    ASSUME ClientsIInv, NEW c \in Clients, NEW type, Serve(c, type)
    PROVE  /\ server = "up" /\ served[c] = "listed" /\ second[c] = Idle
           /\ toserver' \in [Clients -> Seq(Requests)]
           /\ 1 \in DOMAIN toserver[c] /\ Request(c) = toserver[c][1]
           /\ Request(c) \in Requests /\ Request(c).type = type
           /\ \A d \in Clients : /\ Taken(d, IF d = c THEN 1 ELSE 0)
                                 /\ conn[d] = "off" => toserver'[d] = <<>>
<1> DEFINE ts == toserver[c]
           us == toserver'[c]
<1>0. Typed /\ \A d \in Clients : SessionInv(d)
    BY DEF ClientsIInv, ClientInv
<1>1. /\ server = "up" /\ served[c] = "listed" /\ second[c] = Idle
      /\ ts # <<>> /\ Request(c).type = type /\ Request(c) = Head(ts)
      /\ toserver' = [toserver EXCEPT ![c] = Tail(ts)]
    BY DEF Serve, TakeRequest, Listed, Request
<1>2. ts \in Seq(Requests) /\ us = Tail(ts)
    BY <1>0, <1>1 DEF Typed
<1>3. /\ us \in Seq(Requests) /\ Head(ts) = ts[1] /\ 1 \in DOMAIN ts
      /\ \A i \in DOMAIN us : i + 1 \in DOMAIN ts /\ us[i] = ts[i + 1]
      /\ \A i \in DOMAIN ts : i # 1 => i - 1 \in DOMAIN us
    BY <1>1, <1>2, HeadTailAt, ZenonT(40)
<1>4. toserver' \in [Clients -> Seq(Requests)]
    <2>1. Tail(ts) \in Seq(Requests)
        BY <1>2, <1>3
    <2> QED
        BY <1>0, <1>1, <2>1 DEF Typed
<1>5. /\ DOMAIN ts = 1..Len(ts) /\ Len(ts) \in Nat
      /\ DOMAIN us = 1..Len(us) /\ Len(us) \in Nat /\ ts[1] \in Requests
    BY <1>2, <1>3
<1>6. Taken(c, 1)
    <2> HIDE DEF ts, us
    <2>1. DOMAIN ts \subseteq Nat \ {0} /\ DOMAIN us \subseteq Nat \ {0}
        BY <1>5
    <2>2. ASSUME NEW i \in DOMAIN ts, i > 1
          PROVE  i - 1 \in DOMAIN us /\ us[i - 1] = ts[i]
        <3>1. i - 1 \in DOMAIN us /\ i - 1 + 1 = i
            BY <1>3, <2>1, <2>2
        <3> QED
            BY <1>3, <3>1
    <2> QED
        BY <1>3, <2>1, <2>2 DEF Taken, ts, us
<1>7. ASSUME NEW d \in Clients, d # c PROVE Taken(d, 0) /\ toserver'[d] = toserver[d]
    <2>1. toserver'[d] = toserver[d]
        BY <1>0, <1>1, <1>7 DEF Typed
    <2>2. toserver[d] \in Seq(Requests)
        BY <1>0 DEF Typed
    <2>3. DOMAIN toserver[d] = 1..Len(toserver[d]) /\ Len(toserver[d]) \in Nat
        BY <2>2
    <2> QED
        BY <2>1, <2>3 DEF Taken
<1>8. ASSUME NEW d \in Clients
      PROVE  /\ Taken(d, IF d = c THEN 1 ELSE 0)
             /\ conn[d] = "off" => toserver'[d] = <<>>
    <2>1. CASE d = c
        BY <1>0, <1>1, <1>6, <2>1 DEF SessionInv
    <2>2. CASE d # c
        BY <1>0, <1>7, <2>2 DEF SessionInv
    <2> QED
        BY <2>1, <2>2
<1> QED
    BY <1>1, <1>3, <1>4, <1>5, <1>8

LEMMA NothingTaken ==
    ASSUME ClientsIInv, NEW d \in Clients, UNCHANGED toserver
    PROVE  Taken(d, 0) /\ (conn[d] = "off" => toserver'[d] = <<>>)
<1>1. toserver[d] \in Seq(Requests) /\ SessionInv(d)
    BY DEF ClientsIInv, ClientInv, Typed
<1>2. DOMAIN toserver[d] = 1..Len(toserver[d]) /\ Len(toserver[d]) \in Nat
    BY <1>1
<1> QED
    BY <1>1, <1>2 DEF Taken, SessionInv

(* Most steps leave the channels alone, *)
LEMMA SameWorkers ==
    ASSUME ClientsIInv, UNCHANGED <<conn, clientVars, wstate, remoteid, creator>>,
           server' \in {server, "killed"}
    PROVE  ServerFrame /\ ChannelRefs' /\ Made' = Made /\ Dead' = Dead
<1>1. Made' = Made /\ Dead' = Dead
    BY DEF Made, Dead
<1>2. ServerFrame
    BY <1>1 DEF ServerFrame
<1>3. xln' = xln
    BY DEF clientVars, libVars
<1> QED
    BY <1>1, <1>2, <1>3 DEF ClientsIInv, ChannelRefs, References

(* and the sessions of all clients but one, *)
LEMMA SessionKeeps ==
    ASSUME ClientsIInv, NEW d \in Clients, NEW k \in {0, 1},
           served'[d] = served[d], k = 1 => served[d] = "listed",
           conn[d] = "off" => toserver'[d] = <<>>,
           Made \subseteq Made', Dead \subseteq Dead',
           subs' \in [Clients -> [Workers -> Nat]],
           \A w \in Workers : subs'[d][w] > 0 =>
               \/ subs[d][w] > 0
               \/ k = 1 /\ toserver[d][1] = For("ENABLE_XLATER", w),
           \/ second'[d] = second[d] \/ second'[d] = Idle
           \/ /\ second'[d].worker \in Made'
              /\ second'[d].do = "destroyed" => second'[d].worker \in Dead' \cup {Stray}
              /\ second'[d].do = "modified" => k = 1 /\ toserver[d][1].type = "MODIFY_XLATER",
           \A w \in Workers \cap Made' : w \notin Made /\ creator'[w] = {d} =>
                k = 1 /\ toserver[d][1] = Create(remoteid'[w])
    PROVE  SessionKept(d, k)
<1>1. SessionInv(d) /\ IdsMade(d) /\ DeadInv(d) /\ Typed
    BY DEF ClientsIInv, ClientInv
<1>2. ASSUME served[d] = "none" PROVE subs'[d] = NoSubs
    <2>1. subs[d] = NoSubs /\ k = 0
        BY <1>1, <1>2 DEF SessionInv
    <2>2. \A w \in Workers : subs'[d][w] = 0
        BY <2>1 DEF NoSubs
    <2>3. subs'[d] = [w \in Workers |-> subs'[d][w]]
        OBVIOUS
    <2> QED
        BY <2>2, <2>3 DEF NoSubs
<1>3. /\ second'[d] # Idle => second'[d].worker \in Made'
      /\ second'[d].do = "destroyed" => second'[d].worker \in Dead' \cup {Stray}
      /\ second'[d].do = "modified" =>
            second[d].do = "modified" \/ (k = 1 /\ toserver[d][1].type = "MODIFY_XLATER")
    <2>1. /\ second[d] # Idle => second[d].worker \in Made
          /\ second[d].do = "destroyed" => second[d].worker \in Dead \cup {Stray}
        BY <1>1 DEF IdsMade, DeadInv
    <2>2. CASE second'[d] = second[d]
        BY <2>1, <2>2
    <2>3. CASE second'[d] = Idle
        BY <2>3 DEF Idle
    <2> QED
        BY <2>2, <2>3
<1>4. conn[d] = "off" => served'[d] = "none"
    BY <1>1 DEF SessionInv
<1>5. served'[d] = "ended" => conn[d] = "closed"
    BY <1>1 DEF SessionInv
<1> QED
    BY <1>2, <1>3, <1>4, <1>5 DEF SessionKept

(* and say nothing. *)
LEMMA Silent ==
    ASSUME ClientsIInv, NEW d \in Clients, NEW k \in {0, 1},
           UNCHANGED <<toclient, revived>>, Made' = Made,
           k = 1 => toserver[d][1].type \notin {"CREATE_XLATER", "LIST_XLATERS"},
           server' = "up" => \A w \in Dead' \ revived : ~AboutToTell(w)' =>
                w \in Dead /\ ~AboutToTell(w)
    PROVE  <<>> \in Seq(Messages) /\ Sends(d, <<>>) /\ Tells(d, k, <<>>)
<1> DEFINE new == <<>>
<1>1. toclient[d] \in Seq(Messages)
    BY DEF ClientsIInv, Typed
<1>2. new \in Seq(Messages) /\ DOMAIN new = {} /\ toclient'[d] = toclient[d] \o new
    BY <1>1, EmptySeq, ConcatEmptySeq
<1>3. new = <<>>
    OBVIOUS
<1> HIDE DEF new
<1>4. Sends(d, new)
    BY <1>2, <1>3 DEF Sends
<1>5. \A r : k = 1 => toserver[d][1] # Create(r)
    BY DEF Create
<1>6. \A w \in Workers : wstate'[w] = "running" => w \in Made
    BY DEF Made
<1>7. Tells(d, k, new)
    BY <1>2, <1>5, <1>6 DEF Tells
<1> QED
    BY <1>2, <1>3, <1>4, <1>7

-----------------------------------------------------------------------------
(* The silent steps of the server *)
LEMMA UnsubscribeTypes ==
    ASSUME ClientsIInv, NEW w \in Workers, Unsubscribe(w)
    PROVE  /\ server' \in {server, "killed"}
           /\ subs' \in [Clients -> [Workers -> Nat]]
           /\ \A d \in Clients, v \in Workers : subs'[d][v] > 0 => subs[d][v] > 0
<1>0. subs \in [Clients -> [Workers -> Nat]]
    BY DEF ClientsIInv, Typed
<1>1. CASE server' = "killed" /\ subs' = subs
    BY <1>0, <1>1
<1>2. ASSUME NEW cut \in SUBSET {c \in Clients : subs[c][w] > 1},
             subs' = [c \in Clients |-> [subs[c] EXCEPT ![w] =
                        IF c \in cut THEN subs[c][w] - 1 ELSE 0]]
      PROVE  /\ subs' \in [Clients -> [Workers -> Nat]]
             /\ \A d \in Clients, v \in Workers : subs'[d][v] > 0 => subs[d][v] > 0
    <2>1. ASSUME NEW d \in Clients
          PROVE  /\ subs'[d] \in [Workers -> Nat]
                 /\ \A v \in Workers : subs'[d][v] > 0 => subs[d][v] > 0
        <3> DEFINE n == IF d \in cut THEN subs[d][w] - 1 ELSE 0
        <3>1. subs[d] \in [Workers -> Nat] /\ subs[d][w] \in Nat
            BY <1>0
        <3>2. n \in Nat /\ (n > 0 => subs[d][w] > 0)
            BY <1>2, <3>1
        <3>3. subs'[d] = [subs[d] EXCEPT ![w] = n]
            BY <1>2
        <3> HIDE DEF n
        <3> QED
            BY <3>1, <3>2, <3>3
    <2>2. subs' = [d \in Clients |-> subs'[d]]
        BY <1>2
    <2> QED
        BY <2>1, <2>2
<1> QED
    BY <1>1, <1>2 DEF Unsubscribe

LEMMA AcceptKeeps ==
    ASSUME ClientsIInv, NEW c \in Clients, Accept(c), UNCHANGED <<conn, clientVars>>
    PROVE  ClientsIInv'
<1>0. /\ Typed /\ server \in {"up", "killed"}
      /\ \A d \in Clients : SessionInv(d) /\ IdsMade(d) /\ DeadInv(d)
    BY DEF ClientsIInv, ClientInv, Typed
<1>1. /\ UNCHANGED <<toserver, toclient, server, wstate, remoteid, creator>>
      /\ UNCHANGED <<subs, second, revived>>
      /\ conn[c] # "off" /\ served[c] = "none"
      /\ served' = [served EXCEPT ![c] = "listed"]
    BY DEF Accept, wireVars, workerVars
<1>2. ServerFrame /\ ChannelRefs' /\ Made' = Made /\ Dead' = Dead
    BY <1>0, <1>1, SameWorkers
<1>3. ServerTyped'
    BY <1>0, <1>1 DEF Typed, ServerTyped
<1>4. ASSUME NEW d \in Clients PROVE Treated(d)
    <2>1. served'[d] = IF d = c THEN "listed" ELSE served[d]
        BY <1>0, <1>1 DEF Typed
    <2>2. /\ served'[d] = "none" => served[d] = "none" /\ subs'[d] = NoSubs
          /\ served'[d] = "ended" => conn[d] = "closed"
          /\ conn[d] = "off" => served'[d] = "none"
        BY <1>0, <1>1, <2>1 DEF SessionInv
    <2>3. Taken(d, 0) /\ (conn[d] = "off" => toserver'[d] = <<>>)
        BY <1>1, NothingTaken
    <2>4. /\ second'[d] # Idle => second'[d].worker \in Made'
          /\ second'[d].do = "destroyed" => second'[d].worker \in Dead' \cup {Stray}
        BY <1>0, <1>1, <1>2 DEF IdsMade, DeadInv
    <2>5. SessionKept(d, 0)
        BY <1>1, <1>2, <2>2, <2>3, <2>4 DEF SessionKept
    <2>6. \A w : AboutToTell(w)' <=> AboutToTell(w)
        BY <1>1 DEF AboutToTell
    <2>7. <<>> \in Seq(Messages) /\ Sends(d, <<>>) /\ Tells(d, 0, <<>>)
        BY <1>1, <1>2, <2>6, Silent
    <2> QED
        BY <2>3, <2>5, <2>7 DEF Treated
<1> QED
    BY <1>2, <1>3, <1>4, ServerStepKeeps

LEMMA EndSessionKeeps ==
    ASSUME ClientsIInv, NEW c \in Clients, EndSession(c), UNCHANGED <<conn, clientVars>>
    PROVE  ClientsIInv'
<1>0. /\ Typed /\ server \in {"up", "killed"}
      /\ \A d \in Clients : SessionInv(d) /\ IdsMade(d) /\ DeadInv(d)
    BY DEF ClientsIInv, ClientInv, Typed
<1>1. /\ UNCHANGED <<toserver, toclient, server, wstate, remoteid, creator>>
      /\ UNCHANGED <<second, revived>> /\ conn[c] = "closed"
      /\ served' = [served EXCEPT ![c] = "ended"]
      /\ subs' = [subs EXCEPT ![c] = NoSubs]
    BY DEF EndSession, Gone, wireVars, workerVars
<1>2. ServerFrame /\ ChannelRefs' /\ Made' = Made /\ Dead' = Dead
    BY <1>0, <1>1, SameWorkers
<1>3. /\ subs' \in [Clients -> [Workers -> Nat]]
      /\ \A d \in Clients : \A w \in Workers : subs'[d][w] > 0 => subs[d][w] > 0
      /\ \A d \in Clients : subs[d] = NoSubs => subs'[d] = NoSubs
    BY <1>0, <1>1 DEF Typed, NoSubs
<1>4. ServerTyped'
    BY <1>0, <1>1, <1>3 DEF Typed, ServerTyped
<1>5. ASSUME NEW d \in Clients PROVE Treated(d)
    <2>1. served'[d] = IF d = c THEN "ended" ELSE served[d]
        BY <1>0, <1>1 DEF Typed
    <2>2. /\ served'[d] = "none" => served[d] = "none" /\ subs'[d] = NoSubs
          /\ served'[d] = "ended" => conn[d] = "closed"
          /\ conn[d] = "off" => served'[d] = "none"
        BY <1>0, <1>1, <1>3, <2>1 DEF SessionInv
    <2>3. Taken(d, 0) /\ (conn[d] = "off" => toserver'[d] = <<>>)
        BY <1>1, NothingTaken
    <2>4. /\ second'[d] # Idle => second'[d].worker \in Made'
          /\ second'[d].do = "destroyed" => second'[d].worker \in Dead' \cup {Stray}
        BY <1>0, <1>1, <1>2 DEF IdsMade, DeadInv
    <2>5. SessionKept(d, 0)
        BY <1>1, <1>2, <1>3, <2>2, <2>3, <2>4 DEF SessionKept
    <2>6. \A w : AboutToTell(w)' <=> AboutToTell(w)
        BY <1>1 DEF AboutToTell
    <2>7. <<>> \in Seq(Messages) /\ Sends(d, <<>>) /\ Tells(d, 0, <<>>)
        BY <1>1, <1>2, <2>6, Silent
    <2> QED
        BY <2>3, <2>5, <2>7 DEF Treated
<1> QED
    BY <1>2, <1>4, <1>5, ServerStepKeeps

LEMMA ServeEnableKeeps ==
    ASSUME ClientsIInv, NEW c \in Clients, ServeEnable(c), UNCHANGED <<conn, clientVars>>
    PROVE  ClientsIInv'
<1> DEFINE q == Request(c)
<1>0. Typed /\ server \in {"up", "killed"}
    BY DEF ClientsIInv, Typed
<1>1. /\ UNCHANGED <<toclient, server, wstate, remoteid, creator, served, second, revived>>
      /\ Serve(c, "ENABLE_XLATER")
      /\ subs' = [subs EXCEPT ![c] =
            [w \in Workers |-> IF w = q.id THEN subs[c][w] + 1 ELSE subs[c][w]]]
    BY DEF ServeEnable, workerVars
<1>2. /\ served[c] = "listed" /\ toserver' \in [Clients -> Seq(Requests)]
      /\ q = toserver[c][1] /\ q \in Requests /\ q.type = "ENABLE_XLATER"
      /\ \A d \in Clients : /\ Taken(d, IF d = c THEN 1 ELSE 0)
                            /\ conn[d] = "off" => toserver'[d] = <<>>
    BY <1>1, RequestTaken
<1>3. q = For("ENABLE_XLATER", q.id)
    BY <1>2 DEF Requests, For
<1> HIDE DEF q
<1>4. ServerFrame /\ ChannelRefs' /\ Made' = Made /\ Dead' = Dead
    BY <1>0, <1>1, SameWorkers
<1>5. /\ subs' \in [Clients -> [Workers -> Nat]]
      /\ \A d \in Clients : \A w \in Workers : subs'[d][w] > 0 =>
            subs[d][w] > 0 \/ (d = c /\ w = q.id)
    BY <1>0, <1>1 DEF Typed
<1>6. ServerTyped'
    BY <1>0, <1>1, <1>2, <1>5 DEF Typed, ServerTyped
<1>7. ASSUME NEW d \in Clients PROVE Treated(d)
    <2> DEFINE k == IF d = c THEN 1 ELSE 0
    <2>1. Taken(d, k) /\ k \in {0, 1}
        BY <1>2
    <2>2. k = 1 => d = c
        OBVIOUS
    <2>3. d = c => k = 1
        OBVIOUS
    <2> HIDE DEF k
    <2>4. SessionKept(d, k)
        BY <1>0, <1>1, <1>2, <1>3, <1>4, <1>5, <2>1, <2>2, <2>3, SessionKeeps, ZenonT(40)
    <2>5. \A w : AboutToTell(w)' <=> AboutToTell(w)
        BY <1>1 DEF AboutToTell
    <2>6. <<>> \in Seq(Messages) /\ Sends(d, <<>>) /\ Tells(d, k, <<>>)
        BY <1>1, <1>2, <1>4, <2>1, <2>2, <2>5, Silent
    <2> QED
        BY <2>1, <2>4, <2>6 DEF Treated
<1> QED
    BY <1>4, <1>6, <1>7, ServerStepKeeps

LEMMA ServeDisableKeeps ==
    ASSUME ClientsIInv, NEW c \in Clients, ServeDisable(c), UNCHANGED <<conn, clientVars>>
    PROVE  ClientsIInv'
<1> DEFINE q == Request(c)
<1>0. Typed /\ server \in {"up", "killed"}
    BY DEF ClientsIInv, Typed
<1>1. /\ UNCHANGED <<toclient, wstate, remoteid, creator, served, second, revived>>
      /\ Serve(c, "DISABLE_XLATER")
      /\ IF q.id \in InWorkerList THEN Unsubscribe(q.id) ELSE UNCHANGED <<server, subs>>
    BY DEF ServeDisable, workerVars
<1>2. /\ served[c] = "listed" /\ toserver' \in [Clients -> Seq(Requests)]
      /\ q = toserver[c][1] /\ q \in Requests /\ q.type = "DISABLE_XLATER"
      /\ \A d \in Clients : /\ Taken(d, IF d = c THEN 1 ELSE 0)
                            /\ conn[d] = "off" => toserver'[d] = <<>>
    BY <1>1, RequestTaken
<1> HIDE DEF q
<1>3. /\ server' \in {server, "killed"}
      /\ subs' \in [Clients -> [Workers -> Nat]]
      /\ \A d \in Clients, v \in Workers : subs'[d][v] > 0 => subs[d][v] > 0
    <2>1. CASE q.id \in InWorkerList
        <3>1. q.id \in Workers
            BY <2>1 DEF InWorkerList
        <3> QED
            BY <1>1, <2>1, <3>1, UnsubscribeTypes
    <2>2. CASE q.id \notin InWorkerList
        BY <1>0, <1>1, <2>2 DEF Typed
    <2> QED
        BY <2>1, <2>2
<1>4. ServerFrame /\ ChannelRefs' /\ Made' = Made /\ Dead' = Dead
    BY <1>1, <1>3, SameWorkers
<1>5. ServerTyped'
    BY <1>0, <1>1, <1>2, <1>3 DEF Typed, ServerTyped
<1>6. ASSUME NEW d \in Clients PROVE Treated(d)
    <2> DEFINE k == IF d = c THEN 1 ELSE 0
    <2>1. Taken(d, k) /\ k \in {0, 1} /\ (k = 1 => d = c)
        BY <1>2
    <2> HIDE DEF k
    <2>2. SessionKept(d, k)
        BY <1>1, <1>2, <1>3, <1>4, <2>1, SessionKeeps
    <2>3. \A w : AboutToTell(w)' <=> AboutToTell(w)
        BY <1>1 DEF AboutToTell
    <2>4. <<>> \in Seq(Messages) /\ Sends(d, <<>>) /\ Tells(d, k, <<>>)
        BY <1>1, <1>2, <1>4, <2>1, <2>3, Silent
    <2> QED
        BY <2>1, <2>2, <2>4 DEF Treated
<1> QED
    BY <1>4, <1>5, <1>6, ServerStepKeeps

LEMMA ServeModifyKeeps ==
    ASSUME ClientsIInv, NEW c \in Clients, ServeModify(c), UNCHANGED <<conn, clientVars>>
    PROVE  ClientsIInv'
<1> DEFINE q == Request(c)
<1>0. Typed /\ server \in {"up", "killed"}
    BY DEF ClientsIInv, Typed
<1>1. /\ UNCHANGED <<toclient, server, wstate, remoteid, creator, subs, served, revived>>
      /\ Serve(c, "MODIFY_XLATER")
      /\ second' = IF q.id \in InWorkerList
                   THEN [second EXCEPT ![c] = [do |-> "modified", worker |-> q.id]]
                   ELSE second
    BY DEF ServeModify, workerVars
<1>2. /\ served[c] = "listed" /\ second[c] = Idle
      /\ toserver' \in [Clients -> Seq(Requests)]
      /\ q = toserver[c][1] /\ q \in Requests /\ q.type = "MODIFY_XLATER"
      /\ \A d \in Clients : /\ Taken(d, IF d = c THEN 1 ELSE 0)
                            /\ conn[d] = "off" => toserver'[d] = <<>>
    BY <1>1, RequestTaken
<1> HIDE DEF q
<1>3. ServerFrame /\ ChannelRefs' /\ Made' = Made /\ Dead' = Dead
    BY <1>0, <1>1, SameWorkers
<1>4. /\ q.id \in InWorkerList => q.id \in Workers \cap Made
      /\ \A d \in Clients : d # c => second'[d] = second[d]
      /\ \/ second'[c] = second[c]
         \/ q.id \in InWorkerList /\ second'[c] = [do |-> "modified", worker |-> q.id]
    BY <1>0, <1>1 DEF Typed, InWorkerList, Made
<1>5. ServerTyped'
    <2> DEFINE T == {Idle} \cup [do : {"modified"}, worker : Workers]
                           \cup [do : {"destroyed"}, worker : Wids]
               m == [do |-> "modified", worker |-> q.id]
    <2>1. second \in [Clients -> T]
        BY <1>0 DEF Typed
    <2>2. q.id \in InWorkerList => m \in T
        BY <1>4
    <2>3. second' = IF q.id \in InWorkerList THEN [second EXCEPT ![c] = m] ELSE second
        BY <1>1
    <2>4. second' \in [Clients -> T]
        <3> HIDE DEF T, m
        <3> QED
            BY <2>1, <2>2, <2>3
    <2> QED
        BY <1>0, <1>1, <1>2, <2>4 DEF Typed, ServerTyped
<1>6. ASSUME NEW d \in Clients PROVE Treated(d)
    <2> DEFINE k == IF d = c THEN 1 ELSE 0
    <2>1. Taken(d, k) /\ k \in {0, 1} /\ (k = 1 <=> d = c)
        BY <1>2
    <2> HIDE DEF k
    <2>2. subs' \in [Clients -> [Workers -> Nat]] /\ subs' = subs
        BY <1>0, <1>1 DEF Typed
    <2>3. \/ second'[d] = second[d]
          \/ /\ second'[d].worker \in Made' /\ second'[d].do = "modified"
             /\ k = 1 /\ toserver[d][1].type = "MODIFY_XLATER"
        <3>1. CASE d = c /\ second'[c] = [do |-> "modified", worker |-> q.id]
                   /\ q.id \in Made
            BY <1>2, <1>3, <2>1, <3>1
        <3> QED
            BY <1>4, <3>1
    <2>4. SessionKept(d, k)
        BY <1>1, <1>2, <1>3, <2>1, <2>2, <2>3, SessionKeeps
    <2>5. \A w : AboutToTell(w) => AboutToTell(w)'
        <3>1. ASSUME NEW w, NEW e \in Clients, second[e] = [do |-> "destroyed", worker |-> w]
              PROVE  second'[e] = [do |-> "destroyed", worker |-> w]
            BY <1>2, <1>4, <3>1 DEF Idle
        <3> QED
            BY <3>1 DEF AboutToTell
    <2>6. <<>> \in Seq(Messages) /\ Sends(d, <<>>) /\ Tells(d, k, <<>>)
        BY <1>1, <1>2, <1>3, <2>1, <2>5, Silent
    <2> QED
        BY <2>1, <2>4, <2>6 DEF Treated
<1> QED
    BY <1>3, <1>5, <1>6, ServerStepKeeps

LEMMA ServeDestroyKeeps ==
    ASSUME ClientsIInv, NEW c \in Clients, ServeDestroy(c), UNCHANGED <<conn, clientVars>>
    PROVE  ClientsIInv'
<1> DEFINE q == Request(c)
           m == [do |-> "destroyed", worker |-> q.id]
<1>0. Typed /\ server \in {"up", "killed"}
    BY DEF ClientsIInv, Typed
<1>1. /\ UNCHANGED <<toclient, remoteid, creator, served, revived>>
      /\ Serve(c, "DESTROY_XLATER")
      /\ IF q.id \in InWorkerList
         THEN wstate' = [wstate EXCEPT ![q.id] = "dying"] /\ Unsubscribe(q.id)
         ELSE UNCHANGED <<wstate, server, subs>>
      /\ second' = [second EXCEPT ![c] = m]
    BY DEF ServeDestroy
<1>2. /\ served[c] = "listed" /\ second[c] = Idle
      /\ toserver' \in [Clients -> Seq(Requests)] /\ 1 \in DOMAIN toserver[c]
      /\ q = toserver[c][1] /\ q \in Requests /\ q.type = "DESTROY_XLATER"
      /\ \A d \in Clients : /\ Taken(d, IF d = c THEN 1 ELSE 0)
                            /\ conn[d] = "off" => toserver'[d] = <<>>
    BY <1>1, RequestTaken
<1>3. q.id \in Wids /\ q.id \in Made /\ m.do = "destroyed" /\ m.worker = q.id
    <2>1. IdsMade(c)
        BY DEF ClientsIInv, ClientInv
    <2>2. q.id \in Wids
        BY <1>2 DEF Requests
    <2> QED
        BY <1>2, <2>1, <2>2 DEF IdsMade
<1> HIDE DEF q
<1>4. /\ server' \in {server, "killed"}
      /\ subs' \in [Clients -> [Workers -> Nat]]
      /\ \A d \in Clients, v \in Workers : subs'[d][v] > 0 => subs[d][v] > 0
      /\ wstate' \in [Workers -> {"none", "running", "dying", "freed"}]
      /\ \A v \in Workers : /\ v # q.id => wstate'[v] = wstate[v]
                            /\ wstate'[v] = "running" => wstate[v] = "running"
                            /\ wstate'[v] = "none" <=> wstate[v] = "none"
      /\ q.id \in Dead' \cup {Stray} /\ Dead \subseteq Dead'
    <2>1. CASE q.id \in InWorkerList
        <3>1. q.id \in Workers /\ wstate[q.id] \in {"running", "dying"}
            BY <2>1 DEF InWorkerList
        <3>2. wstate' = [wstate EXCEPT ![q.id] = "dying"]
            BY <1>1, <2>1
        <3>3. /\ wstate' \in [Workers -> {"none", "running", "dying", "freed"}]
              /\ \A v \in Workers : /\ v # q.id => wstate'[v] = wstate[v]
                                    /\ wstate'[q.id] = "dying"
            BY <1>0, <3>1, <3>2 DEF Typed
        <3>4. q.id \in Dead' /\ Dead \subseteq Dead'
            BY <3>1, <3>3 DEF Dead
        <3> QED
            BY <1>1, <2>1, <3>1, <3>3, <3>4, UnsubscribeTypes
    <2>2. CASE q.id \notin InWorkerList
        <3>1. UNCHANGED <<wstate, server, subs>>
            BY <1>1, <2>2
        <3>2. q.id \in Dead \cup {Stray}
            BY <1>0, <1>3, <2>2 DEF Made, Dead, InWorkerList, Typed
        <3> QED
            BY <1>0, <3>1, <3>2 DEF Typed, Dead
    <2> QED
        BY <2>1, <2>2
<1>5. Made' = Made
    BY <1>4 DEF Made
<1>6. ServerFrame
    BY <1>1, <1>4, <1>5 DEF ServerFrame
<1>7. ChannelRefs'
    <2>1. xln' = xln
        BY DEF clientVars, libVars
    <2> QED
        BY <1>1, <1>5, <2>1 DEF ClientsIInv, ChannelRefs, References
<1>8. /\ \A d \in Clients : d # c => second'[d] = second[d]
      /\ second'[c] = m
      /\ second' \in [Clients -> {Idle} \cup [do : {"modified"}, worker : Workers]
                                        \cup [do : {"destroyed"}, worker : Wids]]
    <2> DEFINE T == {Idle} \cup [do : {"modified"}, worker : Workers]
                           \cup [do : {"destroyed"}, worker : Wids]
    <2>1. second \in [Clients -> T]
        BY <1>0 DEF Typed
    <2>2. m \in T
        BY <1>3
    <2>3. second' = [second EXCEPT ![c] = m]
        BY <1>1
    <2> HIDE DEF T, m
    <2>4. /\ \A d \in Clients : d # c => second'[d] = second[d]
          /\ second'[c] = m /\ second' \in [Clients -> T]
        BY <2>1, <2>2, <2>3
    <2> QED
        BY <2>4 DEF T
<1>9. ServerTyped'
    BY <1>0, <1>1, <1>2, <1>4, <1>8 DEF Typed, ServerTyped
<1>10. ASSUME NEW v \in Dead', ~AboutToTell(v)' PROVE v \in Dead /\ ~AboutToTell(v)
    <2>1. v # q.id
        BY <1>8, <1>10 DEF AboutToTell
    <2>2. v \in Dead
        BY <1>4, <1>10, <2>1 DEF Dead
    <2>3. ASSUME NEW e \in Clients, second[e] = [do |-> "destroyed", worker |-> v]
          PROVE  FALSE
        <3>1. e # c
            BY <1>2, <2>3 DEF Idle
        <3>2. second'[e] = [do |-> "destroyed", worker |-> v]
            BY <1>8, <2>3, <3>1
        <3> QED
            BY <1>10, <3>2 DEF AboutToTell
    <2> QED
        BY <2>2, <2>3 DEF AboutToTell
<1>11. ASSUME NEW d \in Clients PROVE Treated(d)
    <2> DEFINE k == IF d = c THEN 1 ELSE 0
    <2>1. Taken(d, k) /\ k \in {0, 1} /\ (k = 1 <=> d = c)
        BY <1>2
    <2> HIDE DEF k
    <2>2. \/ second'[d] = second[d]
          \/ /\ second'[d].worker \in Made' /\ second'[d].do = "destroyed"
             /\ second'[d].worker \in Dead' \cup {Stray}
        BY <1>3, <1>4, <1>5, <1>8
    <2>3. SessionKept(d, k)
        BY <1>1, <1>2, <1>4, <1>5, <2>1, <2>2, SessionKeeps
    <2>4. k = 1 => toserver[d][1].type \notin {"CREATE_XLATER", "LIST_XLATERS"}
        BY <1>2, <2>1
    <2>5. <<>> \in Seq(Messages) /\ Sends(d, <<>>) /\ Tells(d, k, <<>>)
        BY <1>1, <1>5, <1>10, <2>1, <2>4, Silent
    <2> QED
        BY <2>1, <2>3, <2>5 DEF Treated
<1> QED
    BY <1>6, <1>7, <1>9, <1>11, ServerStepKeeps

LEMMA ReapKeeps ==
    ASSUME ClientsIInv, NEW w \in Workers, Reap(w), UNCHANGED <<conn, clientVars>>
    PROVE  ClientsIInv'
<1>0. Typed /\ server \in {"up", "killed"}
    BY DEF ClientsIInv, Typed
<1>1. /\ UNCHANGED <<toserver, toclient, server, remoteid, creator, subs, served>>
      /\ UNCHANGED <<second, revived>>
      /\ wstate[w] = "dying" /\ wstate' = [wstate EXCEPT ![w] = "freed"]
    BY DEF Reap, wireVars
<1>2. /\ wstate' \in [Workers -> {"none", "running", "dying", "freed"}]
      /\ \A v \in Workers : v # w => wstate'[v] = wstate[v]
      /\ wstate'[w] = "freed"
    BY <1>0, <1>1 DEF Typed
<1>3. Made' = Made /\ Dead' = Dead
    BY <1>1, <1>2 DEF Made, Dead
<1>4. ServerFrame
    BY <1>1, <1>2, <1>3 DEF ServerFrame
<1>5. ChannelRefs'
    <2>1. xln' = xln
        BY DEF clientVars, libVars
    <2> QED
        BY <1>1, <1>3, <2>1 DEF ClientsIInv, ChannelRefs, References
<1>6. ServerTyped'
    BY <1>0, <1>1, <1>2 DEF Typed, ServerTyped
<1>7. ASSUME NEW d \in Clients PROVE Treated(d)
    <2>1. Taken(d, 0) /\ (conn[d] = "off" => toserver'[d] = <<>>)
        BY <1>1, NothingTaken
    <2>2. subs' \in [Clients -> [Workers -> Nat]]
        BY <1>6 DEF ServerTyped
    <2>3. SessionKept(d, 0)
        BY <1>1, <1>3, <2>1, <2>2, SessionKeeps
    <2>4. \A v : AboutToTell(v)' <=> AboutToTell(v)
        BY <1>1 DEF AboutToTell
    <2>5. <<>> \in Seq(Messages) /\ Sends(d, <<>>) /\ Tells(d, 0, <<>>)
        BY <1>1, <1>3, <2>4, Silent
    <2> QED
        BY <2>1, <2>3, <2>5 DEF Treated
<1> QED
    BY <1>4, <1>5, <1>6, <1>7, ServerStepKeeps

-----------------------------------------------------------------------------
(* What is written reaches every client that is served, or the server ends. *)
LEMMA Delivered ==
    ASSUME ClientsIInv, NEW sent, \A d \in Clients : sent[d] \in Seq(Messages),
           Write(sent)
    PROVE  /\ server' \in {server, "killed"}
           /\ toclient' \in [Clients -> Seq(Messages)]
           /\ \A d \in Clients : \E new \in Seq(Messages) :
                /\ toclient'[d] = toclient[d] \o new
                /\ new # <<>> => conn[d] = "up" /\ served[d] = "listed"
                /\ (new = <<>> /\ DOMAIN new = {}) \/ new = sent[d]
                /\ server' = "up" /\ conn[d] = "up" /\ served[d] # "none" =>
                    new = sent[d]
<1>0. Typed /\ \A d \in Clients : SessionInv(d)
    BY DEF ClientsIInv, ClientInv
<1>1. ASSUME NEW d \in Clients
      PROVE  /\ toclient[d] \in Seq(Messages) /\ toclient[d] = toclient[d] \o <<>>
             /\ <<>> \in Seq(Messages) /\ DOMAIN <<>> = {}
             /\ d \in Listed \ Gone <=> conn[d] = "up" /\ served[d] = "listed"
             /\ conn[d] = "up" /\ served[d] # "none" => served[d] = "listed"
    <2>1. toclient[d] \in Seq(Messages)
        BY <1>0 DEF Typed
    <2>2. d \in Listed \ Gone <=> conn[d] = "up" /\ served[d] = "listed"
        BY <1>0 DEF Listed, Gone, SessionInv, Typed
    <2>3. conn[d] = "up" /\ served[d] # "none" => served[d] = "listed"
        BY <1>0 DEF SessionInv, Typed
    <2> QED
        BY <2>1, <2>2, <2>3, EmptySeq, ConcatEmptySeq
<1>2. CASE /\ WriteAll([d \in Clients |-> IF d \in Listed \ Gone THEN sent[d] ELSE <<>>])
           /\ UNCHANGED server
    <2>1. toclient' = [d \in Clients |->
            toclient[d] \o (IF d \in Listed \ Gone THEN sent[d] ELSE <<>>)]
        BY <1>2 DEF WriteAll
    <2>2. ASSUME NEW d \in Clients
          PROVE  \E new \in Seq(Messages) :
                    /\ toclient'[d] \in Seq(Messages)
                    /\ toclient'[d] = toclient[d] \o new
                    /\ new # <<>> => conn[d] = "up" /\ served[d] = "listed"
                    /\ (new = <<>> /\ DOMAIN new = {}) \/ new = sent[d]
                    /\ conn[d] = "up" /\ served[d] # "none" => new = sent[d]
        <3>1. CASE d \in Listed \ Gone
            <4>1. toclient'[d] = toclient[d] \o sent[d]
                BY <2>1, <3>1
            <4>2. toclient'[d] \in Seq(Messages)
                BY <1>1, <4>1, ConcatAt
            <4> QED
                BY <1>1, <3>1, <4>1, <4>2
        <3>2. CASE d \notin Listed \ Gone
            <4>1. toclient'[d] = toclient[d] \o <<>>
                BY <2>1, <3>2
            <4> QED
                BY <1>1, <3>2, <4>1
        <3> QED
            BY <3>1, <3>2
    <2>3. toclient' \in [Clients -> Seq(Messages)]
        BY <2>1, <2>2
    <2> QED
        BY <1>2, <2>2, <2>3
<1>3. CASE server' = "killed" /\ UNCHANGED toclient
    <2>1. toclient' \in [Clients -> Seq(Messages)]
        BY <1>0, <1>3 DEF Typed
    <2>2. ASSUME NEW d \in Clients
          PROVE  /\ toclient'[d] = toclient[d] \o <<>> /\ <<>> \in Seq(Messages)
                 /\ DOMAIN <<>> = {}
        BY <1>1, <1>3
    <2>3. server' # "up"
        BY <1>3
    <2> QED
        BY <1>3, <2>1, <2>2, <2>3
<1> QED
    BY <1>2, <1>3 DEF Write

(* The steps in which the server speaks of its own accord, or replies: no  *)
(* channel, no subscription and no request changes.                        *)
MaySay(d, m) ==
    /\ m.id \in Made
    /\ m.type = "DESTROYED_XLATER" => m.id \in Dead \cup {Stray}
    /\ m.type = "PAYLOAD" => HasFeeder(d, m.id) /\ m.id \in Workers \ Dead
    /\ d \in Clis /\ Foreign(d, m) => second[d].do = "modified"
SaysWell(d, s) ==
    /\ s \in Seq(Messages)
    /\ \A i \in DOMAIN s :
        /\ conn[d] = "up" /\ served[d] = "listed" => MaySay(d, s[i])
        /\ \A j \in DOMAIN s : s[i].type = "PAYLOAD" => s[j].type = "PAYLOAD"
LetsVanish(s) == \A w \in Dead \ revived' : ~AboutToTell(w)' =>
    \/ /\ ~AboutToTell(w)
       /\ \A i \in DOMAIN s : s[i].type = "RUNNING_XLATER" => s[i].id # w
    \/ /\ \E j \in DOMAIN s : s[j] = Destroyed(w)
       /\ \A i \in DOMAIN s : s[i].type # "RUNNING_XLATER"

LEMMA SpeaksKeeps ==
    ASSUME ClientsIInv, server = "up",
           UNCHANGED <<conn, clientVars, toserver, workerVars, subs, served>>,
           second' \in [Clients -> {Idle} \cup [do : {"modified"}, worker : Workers]
                                         \cup [do : {"destroyed"}, worker : Wids]],
           \A d \in Clients : second'[d] = second[d] \/ second'[d] = Idle,
           NEW sent, Write(sent), revived \subseteq revived',
           \A d \in Clients : SaysWell(d, sent[d]) /\ LetsVanish(sent[d])
    PROVE  ClientsIInv'
<1>0. Typed
    BY DEF ClientsIInv
<1>1. /\ server' \in {server, "killed"}
      /\ toclient' \in [Clients -> Seq(Messages)]
      /\ \A d \in Clients : \E new \in Seq(Messages) :
           /\ toclient'[d] = toclient[d] \o new
           /\ new # <<>> => conn[d] = "up" /\ served[d] = "listed"
           /\ (new = <<>> /\ DOMAIN new = {}) \/ new = sent[d]
           /\ server' = "up" /\ conn[d] = "up" /\ served[d] # "none" => new = sent[d]
    <2>1. \A d \in Clients : sent[d] \in Seq(Messages)
        BY DEF SaysWell
    <2> QED
        BY <2>1, Delivered
<1>2. UNCHANGED <<wstate, remoteid, creator>>
    BY DEF workerVars
<1>3. ServerFrame /\ ChannelRefs' /\ Made' = Made /\ Dead' = Dead
    BY <1>1, <1>2, SameWorkers
<1>4. ServerTyped'
    BY <1>0, <1>1, <1>2 DEF Typed, ServerTyped
<1>5. ASSUME NEW d \in Clients PROVE Treated(d)
    <2>1. Taken(d, 0) /\ (conn[d] = "off" => toserver'[d] = <<>>)
        BY NothingTaken
    <2>2. SessionKept(d, 0)
        <3>1. /\ subs' \in [Clients -> [Workers -> Nat]] /\ served'[d] = served[d]
              /\ \A w \in Workers : subs'[d][w] > 0 => subs[d][w] > 0
            BY <1>4 DEF ServerTyped
        <3>2. second'[d] = second[d] \/ second'[d] = Idle
            OBVIOUS
        <3>3. \A w \in Workers \cap Made' : w \in Made
            BY <1>3
        <3> DEFINE k == 0
        <3>4. k \in {0, 1} /\ k # 1
            OBVIOUS
        <3> HIDE DEF k
        <3>5. SessionKept(d, k)
            BY <1>3, <2>1, <3>1, <3>2, <3>3, <3>4, SessionKeeps
        <3> QED
            BY <3>5 DEF k
    <2>3. PICK new \in Seq(Messages) :
            /\ toclient'[d] = toclient[d] \o new
            /\ new # <<>> => conn[d] = "up" /\ served[d] = "listed"
            /\ (new = <<>> /\ DOMAIN new = {}) \/ new = sent[d]
            /\ server' = "up" /\ conn[d] = "up" /\ served[d] # "none" => new = sent[d]
        BY <1>1
    <2>4. Sends(d, new)
        <3>1. ASSUME NEW i \in DOMAIN new
              PROVE  /\ i \in DOMAIN sent[d] /\ new = sent[d] /\ MaySay(d, new[i])
                     /\ \A j \in DOMAIN new : new[i].type = "PAYLOAD" =>
                            new[j].type = "PAYLOAD"
            <4>1. new # <<>> /\ new = sent[d]
                BY <2>3, <3>1
            <4> QED
                BY <2>3, <3>1, <4>1 DEF SaysWell
        <3>2. ASSUME NEW i \in DOMAIN new, Foreign(d, new[i])'
              PROVE  Foreign(d, new[i])
            BY <1>2, <3>2 DEF Foreign
        <3> QED
            BY <1>3, <2>3, <3>1, <3>2 DEF Sends, MaySay
    <2>5. Tells(d, 0, new)
        <3>1. SUFFICES ASSUME server' = "up", conn[d] = "up" PROVE Tells(d, 0, new)
            BY DEF Tells
        <3>2. ASSUME NEW w \in Dead \ revived', ~AboutToTell(w)'
              PROVE  \/ /\ w \in Dead \ revived /\ ~AboutToTell(w)
                        /\ \A i \in DOMAIN new :
                            new[i].type = "RUNNING_XLATER" => new[i].id # w
                     \/ /\ \E j \in DOMAIN new : new[j] = Destroyed(w)
                        /\ \A i \in DOMAIN new : new[i].type # "RUNNING_XLATER"
                     \/ served[d] = "none" /\ new = <<>>
            <4>1. CASE served[d] = "none"
                BY <2>3, <4>1
            <4>2. CASE new = sent[d]
                BY <3>2, <4>2 DEF LetsVanish
            <4> QED
                BY <2>3, <3>1, <4>1, <4>2
        <3>3. \A w \in Workers : wstate'[w] = "running" => w \in Made
            BY <1>2 DEF Made
        <3> QED
            BY <1>3, <3>2, <3>3 DEF Tells
    <2> QED
        BY <2>1, <2>2, <2>3, <2>4, <2>5 DEF Treated
<1> QED
    BY <1>3, <1>4, <1>5, ServerStepKeeps

(* The second section of a session is over. *)
LEMMA SecondEnds ==
    ASSUME Typed, NEW c \in Clients, second' = [second EXCEPT ![c] = Idle]
    PROVE  /\ second' \in [Clients -> {Idle} \cup [do : {"modified"}, worker : Workers]
                                             \cup [do : {"destroyed"}, worker : Wids]]
           /\ second'[c] = Idle
           /\ \A d \in Clients : d # c => second'[d] = second[d]
           /\ \A d \in Clients : second'[d] = second[d] \/ second'[d] = Idle
           /\ second[c].do = "modified" => second[c].worker \in Workers
           /\ second[c].do = "destroyed" => second[c].worker \in Wids
<1> DEFINE M == [do : {"modified"}, worker : Workers]
           D == [do : {"destroyed"}, worker : Wids]
           T == {Idle} \cup M \cup D
<1>1. second \in [Clients -> T]
    BY DEF Typed
<1>2. Idle \in T
    OBVIOUS
<1>3. second[c] \in T
    BY <1>1
<1>4. /\ second[c].do = "modified" => second[c].worker \in Workers
      /\ second[c].do = "destroyed" => second[c].worker \in Wids
    BY <1>3 DEF Idle
<1> HIDE DEF M, D
<1>5. /\ second' \in [Clients -> T] /\ second'[c] = Idle
      /\ \A d \in Clients : d # c => second'[d] = second[d]
    <2> HIDE DEF T
    <2> QED
        BY <1>1, <1>2
<1>6. \A d \in Clients : second'[d] = second[d] \/ second'[d] = Idle
    BY <1>5
<1> QED
    BY <1>4, <1>5, <1>6 DEF M, D

LEMMA TellDestroyedKeeps ==
    ASSUME ClientsIInv, NEW c \in Clients, TellDestroyed(c), UNCHANGED <<conn, clientVars>>
    PROVE  ClientsIInv'
<1>1. PICK w : w = second[c].worker
    OBVIOUS
<1>2. PICK sent : sent = [d \in Clients |-> <<Destroyed(w)>>] /\ Write(sent)
    BY <1>1 DEF TellDestroyed
<1>3. /\ server = "up" /\ second[c].do = "destroyed"
      /\ UNCHANGED <<toserver, workerVars, subs, served, revived>>
      /\ second' = [second EXCEPT ![c] = Idle]
    BY DEF TellDestroyed
<1>4. Typed /\ IdsMade(c) /\ DeadInv(c)
    BY DEF ClientsIInv, ClientInv
<1>5. /\ second'[c] = Idle /\ w \in Wids
      /\ \A d \in Clients : d # c => second'[d] = second[d]
    BY <1>1, <1>3, <1>4, SecondEnds
<1>6. w \in Made /\ w \in Dead \cup {Stray}
    BY <1>1, <1>3, <1>4 DEF IdsMade, DeadInv, Idle
<1>7. ASSUME NEW d \in Clients
      PROVE  /\ sent[d] \in Seq(Messages) /\ DOMAIN sent[d] = {1}
             /\ sent[d][1] = Destroyed(w) /\ sent[d][1].type = "DESTROYED_XLATER"
             /\ sent[d][1].id = w
    <2>1. Destroyed(w) \in Messages
        BY <1>5 DEF Destroyed, Messages
    <2>2. sent[d] = <<Destroyed(w)>>
        BY <1>2
    <2> QED
        BY <2>1, <2>2 DEF Destroyed
<1>8. \A d \in Clients : \A i \in DOMAIN sent[d] :
        /\ MaySay(d, sent[d][i]) /\ sent[d][i].type # "PAYLOAD"
        /\ sent[d][i].type # "RUNNING_XLATER"
    <2> SUFFICES ASSUME NEW d \in Clients
                 PROVE  /\ MaySay(d, sent[d][1]) /\ sent[d][1].type # "PAYLOAD"
                        /\ sent[d][1].type # "RUNNING_XLATER"
        BY <1>7
    <2> QED
        BY <1>6, <1>7 DEF MaySay, Foreign
<1>9. ASSUME NEW d \in Clients, NEW v, ~AboutToTell(v)'
      PROVE  ~AboutToTell(v) \/ \E j \in DOMAIN sent[d] : sent[d][j] = Destroyed(v)
    <2>1. CASE v = w
        BY <1>7, <2>1
    <2>2. CASE v # w
        <3>1. ASSUME NEW e \in Clients, second[e] = [do |-> "destroyed", worker |-> v]
              PROVE  FALSE
            <4>1. e # c
                BY <1>1, <2>2, <3>1
            <4>2. second'[e] = [do |-> "destroyed", worker |-> v]
                BY <1>5, <3>1, <4>1
            <4> QED
                BY <1>9, <4>2 DEF AboutToTell
        <3> QED
            BY <3>1 DEF AboutToTell
    <2> QED
        BY <2>1, <2>2
<1>10. /\ second' \in [Clients -> {Idle} \cup [do : {"modified"}, worker : Workers]
                                         \cup [do : {"destroyed"}, worker : Wids]]
       /\ \A d \in Clients : second'[d] = second[d] \/ second'[d] = Idle
    BY <1>3, <1>4, SecondEnds
<1>11. ASSUME NEW d \in Clients PROVE SaysWell(d, sent[d]) /\ LetsVanish(sent[d])
    BY <1>7, <1>8, <1>9 DEF SaysWell, LetsVanish
<1>12. revived \subseteq revived'
    BY <1>3
<1> QED
    BY <1>2, <1>3, <1>10, <1>11, <1>12, SpeaksKeeps

LEMMA SendPayloadKeeps ==
    ASSUME ClientsIInv, NEW w \in Workers, SendPayload(w), UNCHANGED <<conn, clientVars>>
    PROVE  ClientsIInv'
<1>1. PICK sent : /\ sent = [d \in Clients |-> [i \in 1..subs[d][w] |-> Payload(w)]]
                  /\ Write(sent)
    BY DEF SendPayload
<1>2. /\ server = "up" /\ wstate[w] = "running"
      /\ UNCHANGED <<toserver, workerVars, subs, served, second, revived>>
    BY DEF SendPayload
<1>3. Typed /\ \A d \in Clients : FeedInv(d)
    BY DEF ClientsIInv, ClientInv
<1>4. w \in Made /\ w \in Workers \ Dead
    BY <1>2 DEF Made, Dead
<1>5. ASSUME NEW d \in Clients
      PROVE  /\ sent[d] \in Seq(Messages)
             /\ \A i \in DOMAIN sent[d] : /\ sent[d][i] = Payload(w)
                                          /\ subs[d][w] > 0
    <2> DEFINE n == subs[d][w]
    <2>1. n \in Nat
        BY <1>3 DEF Typed
    <2>2. Payload(w) \in Messages
        BY DEF Payload, Messages, Wids
    <2>3. sent[d] = [i \in 1..n |-> Payload(w)]
        BY <1>1
    <2>4. n > 0 <=> subs[d][w] > 0
        OBVIOUS
    <2> HIDE DEF n
    <2>5. sent[d] \in Seq(Messages)
        BY <2>1, <2>2, <2>3
    <2>6. \A i \in DOMAIN sent[d] : sent[d][i] = Payload(w) /\ n > 0
        BY <2>1, <2>3
    <2> QED
        BY <2>4, <2>5, <2>6
<1>6. ASSUME NEW d \in Clients, NEW i \in DOMAIN sent[d]
      PROVE  /\ conn[d] = "up" => MaySay(d, sent[d][i])
             /\ sent[d][i].type = "PAYLOAD"
    <2>1. sent[d][i].type = "PAYLOAD" /\ sent[d][i].id = w
        BY <1>5, <1>6 DEF Payload
    <2>2. conn[d] = "up" => HasFeeder(d, w)
        BY <1>2, <1>3, <1>5, <1>6 DEF FeedInv
    <2> QED
        BY <1>4, <2>1, <2>2 DEF MaySay, Foreign
<1>7. \A v : AboutToTell(v)' <=> AboutToTell(v)
    BY <1>2 DEF AboutToTell
<1>8. /\ second' \in [Clients -> {Idle} \cup [do : {"modified"}, worker : Workers]
                                        \cup [do : {"destroyed"}, worker : Wids]]
      /\ \A d \in Clients : second'[d] = second[d] \/ second'[d] = Idle
      /\ revived \subseteq revived'
    BY <1>2, <1>3 DEF Typed
<1>9. ASSUME NEW d \in Clients PROVE SaysWell(d, sent[d]) /\ LetsVanish(sent[d])
    BY <1>5, <1>6, <1>7 DEF SaysWell, LetsVanish
<1> QED
    BY <1>1, <1>2, <1>8, <1>9, SpeaksKeeps

LEMMA ReplyModifyKeeps ==
    ASSUME ClientsIInv, NEW c \in Clients, ReplyModify(c), UNCHANGED <<conn, clientVars>>
    PROVE  ClientsIInv'
<1>1. PICK w : w = second[c].worker
    OBVIOUS
<1>2. PICK id \in {w, Stray} :
        Write([d \in Clients |-> <<Announced(c, d, id, remoteid[w])>>])
    BY <1>1 DEF ReplyModify
<1>3. PICK sent : /\ sent = [d \in Clients |-> <<Announced(c, d, id, remoteid[w])>>]
                  /\ Write(sent)
    BY <1>2
<1>4. /\ server = "up" /\ second[c].do = "modified"
      /\ UNCHANGED <<toserver, workerVars, subs, served>>
      /\ revived' = IF wstate[w] = "running" THEN revived ELSE revived \cup {w}
      /\ second' = [second EXCEPT ![c] = Idle]
    BY <1>1 DEF ReplyModify
<1>5. Typed /\ IdsMade(c)
    BY DEF ClientsIInv, ClientInv
<1>6. /\ second'[c] = Idle /\ w \in Workers
      /\ \A d \in Clients : d # c => second'[d] = second[d]
    BY <1>1, <1>4, <1>5, SecondEnds
<1>7. id \in Made /\ id \in Wids
    BY <1>1, <1>4, <1>5, <1>6 DEF IdsMade, Idle, Made, Wids
<1>8. ASSUME NEW d \in Clients
      PROVE  /\ sent[d] \in Seq(Messages) /\ DOMAIN sent[d] = {1}
             /\ sent[d][1].type = "RUNNING_XLATER" /\ sent[d][1].id = id
             /\ d # c => sent[d][1].remoteid = NoRid
    <2> DEFINE r == IF d = c THEN remoteid[w] ELSE NoRid
    <2>1. r \in Nat \cup {NoRid} /\ (d # c => r = NoRid)
        BY <1>5, <1>6 DEF Typed
    <2>2. sent[d] = <<Running(id, r)>>
        BY <1>3 DEF Announced
    <2> HIDE DEF r
    <2>3. Running(id, r) \in Messages
        BY <1>7, <2>1 DEF Running, Messages
    <2>4. /\ Running(id, r).type = "RUNNING_XLATER" /\ Running(id, r).id = id
          /\ Running(id, r).remoteid = r
        BY DEF Running
    <2> QED
        BY <2>1, <2>2, <2>3, <2>4
<1>9. \A d \in Clients : \A i \in DOMAIN sent[d] :
        MaySay(d, sent[d][i]) /\ sent[d][i].type # "PAYLOAD"
    <2> SUFFICES ASSUME NEW d \in Clients
                 PROVE  MaySay(d, sent[d][1]) /\ sent[d][1].type # "PAYLOAD"
        BY <1>8
    <2> QED
        BY <1>4, <1>7, <1>8 DEF MaySay, Foreign
<1>10. ASSUME NEW v \in Dead \ revived', ~AboutToTell(v)'
       PROVE  ~AboutToTell(v) /\ v # id
    <2>1. v # w /\ v # Stray
        BY <1>4, <1>6, WorkersAssumption DEF Dead
    <2>2. ASSUME NEW e \in Clients, second[e] = [do |-> "destroyed", worker |-> v]
          PROVE  FALSE
        <3>1. e # c
            BY <1>4, <2>2
        <3>2. second'[e] = [do |-> "destroyed", worker |-> v]
            BY <1>6, <2>2, <3>1
        <3> QED
            BY <1>10, <3>2 DEF AboutToTell
    <2> QED
        BY <2>1, <2>2 DEF AboutToTell
<1>11. /\ second' \in [Clients -> {Idle} \cup [do : {"modified"}, worker : Workers]
                                         \cup [do : {"destroyed"}, worker : Wids]]
       /\ \A d \in Clients : second'[d] = second[d] \/ second'[d] = Idle
       /\ revived \subseteq revived'
    BY <1>4, <1>5, SecondEnds
<1>12. ASSUME NEW d \in Clients PROVE SaysWell(d, sent[d]) /\ LetsVanish(sent[d])
    BY <1>8, <1>9, <1>10 DEF SaysWell, LetsVanish
<1> QED
    BY <1>3, <1>4, <1>11, <1>12, SpeaksKeeps

LEMMA ServeListKeeps ==
    ASSUME ClientsIInv, NEW c \in Clients, ServeList(c), UNCHANGED <<conn, clientVars>>
    PROVE  ClientsIInv'
<1> DEFINE N == Cardinality(InWorkerList)
           L == NewestFirst(InWorkerList)
           q == Request(c)
<1>0. Typed
    BY DEF ClientsIInv
<1>1. PICK sent : /\ sent = [d \in Clients |-> [i \in 1..N |->
                        Announced(c, d, L[i], remoteid[L[i]])]]
                  /\ Write(sent)
    BY DEF ServeList
<1>2. /\ UNCHANGED <<wstate, remoteid, creator, subs, served, second>>
      /\ Serve(c, "LIST_XLATERS")
      /\ revived' = revived \cup {w \in InWorkerList : wstate[w] = "dying"}
    BY DEF ServeList, workerVars
<1>3. /\ served[c] = "listed"
      /\ toserver' \in [Clients -> Seq(Requests)] /\ 1 \in DOMAIN toserver[c]
      /\ q = toserver[c][1] /\ q.type = "LIST_XLATERS"
      /\ \A d \in Clients : /\ Taken(d, IF d = c THEN 1 ELSE 0)
                            /\ conn[d] = "off" => toserver'[d] = <<>>
    BY <1>2, RequestTaken
<1>4. c \notin Clis
    <2>1. c \in Clis => ScriptRefs(c)
        BY DEF ClientsIInv, ClientInv
    <2> QED
        BY <1>3, <2>1 DEF ScriptRefs
<1>5. /\ N \in Nat /\ \A i \in 1..N : L[i] \in InWorkerList
      /\ \A w \in InWorkerList : \E i \in 1..N : L[i] = w
      /\ InWorkerList \subseteq Workers \cap Made
    <2>1. InWorkerList \subseteq Workers \cap Made
        BY DEF InWorkerList, Made
    <2> QED
        BY <2>1, NewestFirstLists, ZenonT(40)
<1> HIDE DEF N, L, q
<1>6. ASSUME NEW d \in Clients
      PROVE  /\ sent[d] \in Seq(Messages) /\ DOMAIN sent[d] = 1..N
             /\ \A i \in 1..N : /\ sent[d][i].type = "RUNNING_XLATER"
                                /\ sent[d][i].id = L[i]
                                /\ d # c => sent[d][i].remoteid = NoRid
    <2> DEFINE r(w) == IF d = c THEN remoteid[w] ELSE NoRid
    <2>1. sent[d] = [i \in 1..N |-> Running(L[i], r(L[i]))]
        BY <1>1 DEF Announced
    <2>2. \A w \in Workers : r(w) \in Nat \cup {NoRid}
        BY <1>0 DEF Typed
    <2>3. d # c => \A w \in Workers : r(w) = NoRid
        OBVIOUS
    <2> HIDE DEF r
    <2>4. ASSUME NEW w \in Workers
          PROVE  /\ Running(w, r(w)) \in Messages
                 /\ Running(w, r(w)).type = "RUNNING_XLATER"
                 /\ Running(w, r(w)).id = w /\ Running(w, r(w)).remoteid = r(w)
        BY <2>2 DEF Running, Messages, Wids
    <2>5. \A i \in 1..N : L[i] \in Workers
        BY <1>5
    <2> DEFINE m(i) == Running(L[i], r(L[i]))
    <2>6. \A i \in 1..N : /\ m(i) \in Messages /\ m(i).type = "RUNNING_XLATER"
                          /\ m(i).id = L[i] /\ m(i).remoteid = r(L[i])
        BY <2>4, <2>5
    <2>7. sent[d] = [i \in 1..N |-> m(i)]
        BY <2>1
    <2> HIDE DEF m
    <2>8. sent[d] \in Seq(Messages)
        BY <1>5, <2>6, <2>7
    <2> QED
        BY <2>3, <2>5, <2>6, <2>7, <2>8
<1>7. /\ server' \in {server, "killed"}
      /\ toclient' \in [Clients -> Seq(Messages)]
      /\ \A d \in Clients : \E new \in Seq(Messages) :
           /\ toclient'[d] = toclient[d] \o new
           /\ new # <<>> => conn[d] = "up" /\ served[d] = "listed"
           /\ (new = <<>> /\ DOMAIN new = {}) \/ new = sent[d]
           /\ server' = "up" /\ conn[d] = "up" /\ served[d] # "none" => new = sent[d]
    <2>1. \A d \in Clients : sent[d] \in Seq(Messages)
        BY <1>6
    <2>2. Write(sent)
        BY <1>1
    <2> QED
        BY <2>1, <2>2, Delivered
<1>8. ServerFrame /\ ChannelRefs' /\ Made' = Made /\ Dead' = Dead
    BY <1>2, <1>7, SameWorkers
<1>9. ServerTyped'
    BY <1>0, <1>2, <1>3, <1>7 DEF Typed, ServerTyped
<1>10. ASSUME NEW d \in Clients PROVE Treated(d)
    <2> DEFINE k == IF d = c THEN 1 ELSE 0
    <2>1. /\ Taken(d, k) /\ k \in {0, 1} /\ (k = 1 <=> d = c)
          /\ conn[d] = "off" => toserver'[d] = <<>>
        BY <1>3
    <2> HIDE DEF k
    <2>2. /\ subs' \in [Clients -> [Workers -> Nat]] /\ subs' = subs
          /\ second'[d] = second[d] /\ served'[d] = served[d]
          /\ k = 1 => served[d] = "listed"
        BY <1>0, <1>2, <1>3, <2>1 DEF Typed
    <2>3. SessionKept(d, k)
        BY <1>8, <2>1, <2>2, SessionKeeps
    <2>4. PICK new \in Seq(Messages) :
            /\ toclient'[d] = toclient[d] \o new
            /\ new # <<>> => conn[d] = "up" /\ served[d] = "listed"
            /\ (new = <<>> /\ DOMAIN new = {}) \/ new = sent[d]
            /\ server' = "up" /\ conn[d] = "up" /\ served[d] # "none" => new = sent[d]
        BY <1>7
    <2>5. ASSUME NEW i \in DOMAIN new
          PROVE  /\ new[i].type = "RUNNING_XLATER" /\ new[i].id \in InWorkerList
                 /\ d # c => new[i].remoteid = NoRid /\ new # <<>>
        <3>1. new = sent[d] /\ i \in 1..N
            BY <1>6, <2>4, <2>5
        <3> QED
            BY <1>5, <1>6, <3>1, <2>5, <2>4
    <2>6. Sends(d, new)
        <3>1. ASSUME NEW i \in DOMAIN new PROVE ~(d \in Clis /\ Foreign(d, new[i])')
            BY <1>4, <2>5, <3>1 DEF Foreign
        <3>2. new # <<>> => conn[d] = "up" /\ served'[d] # "none"
            BY <2>2, <2>4
        <3> QED
            BY <1>5, <1>8, <2>4, <2>5, <3>1, <3>2 DEF Sends
    <2>7. Tells(d, k, new)
        <3>1. SUFFICES ASSUME server' = "up", conn[d] = "up" PROVE Tells(d, k, new)
            BY DEF Tells
        <3>2. \A r : k = 1 => toserver[d][1] # Create(r)
            BY <1>3, <2>1 DEF Create
        <3>3. ASSUME NEW v \in Dead \ revived', ~AboutToTell(v)'
              PROVE  /\ v \in Dead \ revived /\ ~AboutToTell(v)
                     /\ \A i \in DOMAIN new :
                            new[i].type = "RUNNING_XLATER" => new[i].id # v
            <4>1. v \notin InWorkerList /\ v \notin revived
                BY <1>2, <3>3 DEF Dead, InWorkerList
            <4>2. ~AboutToTell(v)
                BY <1>2, <3>3 DEF AboutToTell
            <4> QED
                BY <2>5, <3>3, <4>1, <4>2
        <3>4. ASSUME NEW w \in Workers, wstate'[w] = "running", served[d] # "none"
              PROVE  \E i \in DOMAIN new : new[i].type = "RUNNING_XLATER" /\ new[i].id = w
            <4>1. w \in InWorkerList
                BY <1>2, <3>4 DEF InWorkerList
            <4>2. new = sent[d]
                BY <2>4, <3>1, <3>4
            <4> QED
                BY <1>5, <1>6, <4>1, <4>2
        <3> QED
            BY <1>8, <3>2, <3>3, <3>4 DEF Tells
    <2> QED
        BY <2>1, <2>3, <2>4, <2>6, <2>7 DEF Treated
<1> QED
    BY <1>8, <1>9, <1>10, ServerStepKeeps

-----------------------------------------------------------------------------
(* As long as a request for a channel is on its way there are fewer        *)
(* channels than references: the server finds a worker.                    *)
LEMMA ReferencesAreFew ==
    ASSUME ClientsIInv, NEW c \in Clients
    PROVE  /\ IsFiniteSet(References) /\ Cardinality(References) \in Nat
           /\ Cardinality(References) <= Cardinality(Workers)
           /\ Cardinality(Workers) \in Nat
           /\ \A n \in 0..(xln[c] - 1) : <<c, n>> \in References
<1> DEFINE K == Cardinality(Workers)
           All == Clients \X (0..K)
<1>1. K \in Nat /\ xln[c] \in Nat
    BY FS_CardinalityType, WorkersAssumption DEF ClientsIInv, Typed
<1>2. IsFiniteSet(0..K) /\ Cardinality(0..K) = K + 1
    BY <1>1, FS_Interval
<1>3. IsFiniteSet(References) /\ Cardinality(References) \in Nat
    <2>1. IsFiniteSet(All)
        BY <1>2, FS_Product, ClientsAssumption
    <2>2. References \in SUBSET All
        BY DEF References
    <2> QED
        BY <2>1, <2>2, FS_Subset, FS_CardinalityType
<1>4. Cardinality(References) <= K
    BY DEF ClientsIInv, ChannelRefs
<1>5. xln[c] <= K
    <2>1. SUFFICES ASSUME xln[c] > K PROVE FALSE
        BY <1>1
    <2> DEFINE f == [n \in 0..K |-> <<c, n>>]
    <2>2. \A n \in 0..K : <<c, n>> \in References
        BY <1>1, <2>1 DEF References
    <2>3. f \in Injection(0..K, References)
        BY <2>2 DEF Injection, IsInjective
    <2>4. K + 1 <= Cardinality(References)
        BY <1>2, <1>3, <2>3, FS_Injection
    <2> QED
        BY <1>1, <1>3, <1>4, <2>4
<1>6. \A n \in 0..(xln[c] - 1) : <<c, n>> \in References
    <2>1. \A n \in 0..(xln[c] - 1) : n \in 0..K /\ n < xln[c]
        BY <1>1, <1>5
    <2> QED
        BY <2>1 DEF References
<1> QED
    BY <1>1, <1>3, <1>4, <1>6

LEMMA WorkerFree ==
    ASSUME ClientsIInv, NEW c \in Clients, NEW r \in Nat, r < xln[c],
           \A w \in Workers \cap Made : creator[w] = {c} => remoteid[w] # r
    PROVE  /\ NewWorker \in Workers /\ wstate[NewWorker] = "none"
           /\ \A v \in Workers : v < NewWorker => wstate[v] # "none"
<1> DEFINE K == Cardinality(Workers)
           Left == References \ {<<c, r>>}
<1>1. /\ IsFiniteSet(References) /\ Cardinality(References) \in Nat
      /\ Cardinality(References) <= K /\ K \in Nat
      /\ \A d \in Clients : xln[d] \in Nat
      /\ \A d \in Clients : \A n \in 0..(xln[d] - 1) : <<d, n>> \in References
    BY ReferencesAreFew DEF ClientsIInv, Typed
<1>2. IsFiniteSet(Left) /\ Cardinality(Left) = Cardinality(References) - 1
    <2>1. <<c, r>> \in References
        BY <1>1
    <2> QED
        BY <1>1, <2>1, FS_RemoveElement
<1>3. Free # {}
    <2>1. SUFFICES ASSUME Free = {} PROVE FALSE
        OBVIOUS
    <2> DEFINE owner(w) == CHOOSE d \in Clients : creator[w] = {d}
               f == [w \in Workers |-> <<owner(w), remoteid[w]>>]
    <2>2. Workers \subseteq Made
        BY <2>1 DEF Free, Made
    <2>3. ASSUME NEW w \in Workers
          PROVE  /\ owner(w) \in Clients /\ creator[w] = {owner(w)}
                 /\ remoteid[w] \in 0..(xln[owner(w)] - 1)
        <3>1. \E d \in Clients :
                creator[w] = {d} /\ remoteid[w] \in Nat /\ remoteid[w] < xln[d]
            BY <2>2 DEF ClientsIInv, ChannelRefs
        <3>2. owner(w) \in Clients /\ creator[w] = {owner(w)}
            BY <3>1
        <3>3. remoteid[w] \in Nat /\ remoteid[w] < xln[owner(w)]
            BY <3>1, <3>2
        <3> QED
            BY <1>1, <3>2, <3>3
    <2>4. \A v, w \in Workers :
            creator[v] = creator[w] /\ remoteid[v] = remoteid[w] => v = w
        BY <2>2 DEF ClientsIInv, ChannelRefs
    <2> HIDE DEF owner
    <2>5. \A w \in Workers : f[w] \in Left
        BY <1>1, <2>2, <2>3
    <2>6. \A v, w \in Workers : f[v] = f[w] => v = w
        BY <2>3, <2>4
    <2>7. f \in Injection(Workers, Left)
        BY <2>5, <2>6 DEF Injection, IsInjective
    <2>8. K <= Cardinality(Left)
        BY <1>2, <2>7, FS_Injection
    <2> QED
        BY <1>1, <1>2, <2>8
<1>4. Free \subseteq Nat
    BY WorkersAssumption DEF Free
<1>5. \E w \in Free : \A v \in Free : w <= v
    <2>1. PICK w \in Free : \A v \in Free : ~(v < w)
        BY <1>3, <1>4, NatHasLeast
    <2> QED
        BY <1>4, <2>1
<1>6. NewWorker \in Free /\ \A v \in Free : NewWorker <= v
    BY <1>5 DEF NewWorker
<1>7. ASSUME NEW v \in Workers, v < NewWorker PROVE v \notin Free
    BY <1>4, <1>6, <1>7
<1> QED
    BY <1>6, <1>7 DEF Free

LEMMA ServeCreateKeeps ==
    ASSUME ClientsIInv, NEW c \in Clients, ServeCreate(c), UNCHANGED <<conn, clientVars>>
    PROVE  ClientsIInv'
<1>0. Typed /\ server \in {"up", "killed"} /\ RequestRefs(c) /\ ChannelRefs
    BY DEF ClientsIInv, ClientInv, Typed
<1>1. PICK n : n = NewWorker
    OBVIOUS
<1>2. PICK r : r = Request(c).remoteid
    OBVIOUS
<1>3. PICK sent : sent = [d \in Clients |-> <<Announced(c, d, n, r)>>] /\ Write(sent)
    BY <1>1, <1>2 DEF ServeCreate
<1>4. /\ UNCHANGED <<subs, served, second, revived>> /\ Serve(c, "CREATE_XLATER")
      /\ wstate' = [wstate EXCEPT ![n] = "running"]
      /\ remoteid' = [remoteid EXCEPT ![n] = r]
      /\ creator' = [creator EXCEPT ![n] = {c}]
    BY <1>1, <1>2 DEF ServeCreate
<1>5. /\ served[c] = "listed" /\ toserver' \in [Clients -> Seq(Requests)]
      /\ 1 \in DOMAIN toserver[c] /\ Request(c) = toserver[c][1]
      /\ Request(c) \in Requests /\ Request(c).type = "CREATE_XLATER"
      /\ \A d \in Clients : /\ Taken(d, IF d = c THEN 1 ELSE 0)
                            /\ conn[d] = "off" => toserver'[d] = <<>>
    BY <1>4, RequestTaken
<1>6. r \in Nat /\ toserver[c][1] = Create(r)
    <2>1. Request(c) \in [type : {"CREATE_XLATER"}, remoteid : Nat]
        BY <1>5 DEF Requests
    <2> QED
        BY <1>2, <1>5, <2>1 DEF Create
<1>7. r < xln[c] /\ \A w \in Workers \cap Made : creator[w] = {c} => remoteid[w] # r
    <2>1. toserver[c][1].type = "CREATE_XLATER" /\ toserver[c][1].remoteid = r
        BY <1>6 DEF Create
    <2> QED
        BY <1>0, <1>5, <2>1 DEF RequestRefs
<1>8. n \in Workers /\ wstate[n] = "none" /\ n \notin Made
    <2>1. n \in Workers /\ wstate[n] = "none"
        BY <1>1, <1>6, <1>7, WorkerFree
    <2> QED
        BY <2>1, WorkersAssumption DEF Made
<1>9. /\ wstate' \in [Workers -> {"none", "running", "dying", "freed"}]
      /\ remoteid' \in [Workers -> Nat \cup {NoRid}]
      /\ creator' \in [Workers -> SUBSET Clients]
      /\ wstate'[n] = "running" /\ remoteid'[n] = r /\ creator'[n] = {c}
      /\ \A w \in Workers : w # n => /\ wstate'[w] = wstate[w]
                                     /\ remoteid'[w] = remoteid[w]
                                     /\ creator'[w] = creator[w]
    <2>1. {c} \in SUBSET Clients
        OBVIOUS
    <2> QED
        BY <1>0, <1>4, <1>6, <1>8, <2>1 DEF Typed
<1>10. Made' = Made \cup {n} /\ Dead' = Dead
    BY <1>8, <1>9 DEF Made, Dead
<1>11. ChannelRefs'
    <2>1. xln' = xln
        BY DEF clientVars, libVars
    <2>2. ASSUME NEW w \in Workers \cap Made'
          PROVE  \E d \in Clients :
                    creator'[w] = {d} /\ remoteid'[w] \in Nat /\ remoteid'[w] < xln[d]
        BY <1>0, <1>6, <1>7, <1>9, <1>10, <2>2 DEF ChannelRefs
    <2>3. ASSUME NEW v \in Workers \cap Made', NEW w \in Workers \cap Made',
                 creator'[v] = creator'[w] /\ remoteid'[v] = remoteid'[w]
          PROVE  v = w
        BY <1>0, <1>7, <1>9, <1>10, <2>3 DEF ChannelRefs
    <2>4. References' = References
        BY <2>1 DEF References
    <2> QED
        BY <1>0, <2>1, <2>2, <2>3, <2>4 DEF ChannelRefs
<1>12. ASSUME NEW d \in Clients
       PROVE  /\ sent[d] \in Seq(Messages) /\ DOMAIN sent[d] = {1}
              /\ sent[d][1].type = "RUNNING_XLATER" /\ sent[d][1].id = n
              /\ d # c => sent[d][1].remoteid = NoRid
              /\ d = c => sent[d][1].remoteid = r
    <2> DEFINE m == Running(n, IF d = c THEN r ELSE NoRid)
    <2>1. m \in Messages /\ m.type = "RUNNING_XLATER" /\ m.id = n
        BY <1>6, <1>8 DEF Running, Messages, Wids
    <2>2. (d # c => m.remoteid = NoRid) /\ (d = c => m.remoteid = r)
        BY DEF Running
    <2>3. sent[d] = <<m>>
        BY <1>3 DEF Announced
    <2> HIDE DEF m
    <2> QED
        BY <2>1, <2>2, <2>3
<1>13. /\ server' \in {server, "killed"}
       /\ toclient' \in [Clients -> Seq(Messages)]
       /\ \A d \in Clients : \E new \in Seq(Messages) :
            /\ toclient'[d] = toclient[d] \o new
            /\ new # <<>> => conn[d] = "up" /\ served[d] = "listed"
            /\ (new = <<>> /\ DOMAIN new = {}) \/ new = sent[d]
            /\ server' = "up" /\ conn[d] = "up" /\ served[d] # "none" => new = sent[d]
    <2>1. \A d \in Clients : sent[d] \in Seq(Messages)
        BY <1>12
    <2>2. Write(sent)
        BY <1>3
    <2> QED
        BY <2>1, <2>2, Delivered
<1>14. ServerFrame
    BY <1>8, <1>9, <1>10, <1>13 DEF ServerFrame
<1>15. ServerTyped'
    BY <1>0, <1>4, <1>5, <1>9, <1>13 DEF Typed, ServerTyped
<1>16. ASSUME NEW d \in Clients PROVE Treated(d)
    <2> DEFINE k == IF d = c THEN 1 ELSE 0
    <2>1. /\ Taken(d, k) /\ k \in {0, 1} /\ (k = 1 <=> d = c)
          /\ conn[d] = "off" => toserver'[d] = <<>>
        BY <1>5
    <2> HIDE DEF k
    <2>2. /\ subs' \in [Clients -> [Workers -> Nat]] /\ subs' = subs
          /\ second'[d] = second[d] /\ served'[d] = served[d]
          /\ k = 1 => served[d] = "listed"
        BY <1>0, <1>4, <1>5, <2>1 DEF Typed
    <2>3. \A w \in Workers \cap Made' : w \notin Made /\ creator'[w] = {d} =>
            k = 1 /\ toserver[d][1] = Create(remoteid'[w])
        BY <1>6, <1>9, <1>10, <2>1
    <2>4. SessionKept(d, k)
        BY <1>10, <2>1, <2>2, <2>3, SessionKeeps
    <2>5. PICK new \in Seq(Messages) :
            /\ toclient'[d] = toclient[d] \o new
            /\ new # <<>> => conn[d] = "up" /\ served[d] = "listed"
            /\ (new = <<>> /\ DOMAIN new = {}) \/ new = sent[d]
            /\ server' = "up" /\ conn[d] = "up" /\ served[d] # "none" => new = sent[d]
        BY <1>13
    <2>6. ASSUME NEW i \in DOMAIN new
          PROVE  /\ new[i].type = "RUNNING_XLATER" /\ new[i].id = n
                 /\ d # c => new[i].remoteid = NoRid /\ new # <<>>
        <3>1. new = sent[d] /\ i = 1
            BY <1>12, <2>5, <2>6
        <3> QED
            BY <1>12, <3>1, <2>5, <2>6
    <2>7. Sends(d, new)
        <3>1. ASSUME NEW i \in DOMAIN new PROVE ~(d \in Clis /\ Foreign(d, new[i])')
            <4>1. new[i].id \in Workers /\ creator'[new[i].id] = {c}
                BY <1>8, <1>9, <2>6
            <4> QED
                BY <2>6, <4>1 DEF Foreign
        <3>2. new # <<>> => conn[d] = "up" /\ served'[d] # "none"
            BY <2>2, <2>5
        <3> QED
            BY <1>10, <2>5, <2>6, <3>1, <3>2 DEF Sends
    <2>8. Tells(d, k, new)
        <3>1. SUFFICES ASSUME server' = "up", conn[d] = "up" PROVE Tells(d, k, new)
            BY DEF Tells
        <3>2. ASSUME NEW s, k = 1, toserver[d][1] = Create(s) PROVE Answered(d, s)'
            <4>1. s = r /\ d = c /\ new = sent[d] /\ DOMAIN new = {1}
                <5>1. d = c /\ conn[d] = "up" /\ served[d] # "none"
                    BY <1>5, <2>1, <3>1, <3>2
                <5>2. Create(s) = Create(r)
                    BY <1>6, <3>2, <5>1
                <5>3. s = r
                    BY <5>2 DEF Create
                <5>4. new = sent[d]
                    BY <2>5, <3>1, <5>1
                <5> QED
                    BY <1>12, <5>1, <5>3, <5>4
            <4> DEFINE tc == toclient[d]
                       uc == toclient'[d]
            <4>2. tc \in Seq(Messages) /\ uc = tc \o new /\ IdsMade(d)
                BY <1>0, <2>5 DEF Typed, ClientsIInv, ClientInv
            <4>3. /\ DOMAIN tc = 1..Len(tc) /\ Len(tc) \in Nat
                  /\ Len(tc) + 1 \in DOMAIN uc /\ uc[Len(tc) + 1] = new[1]
                  /\ \A i \in DOMAIN tc : uc[i] = tc[i]
                <5>1. 1 \in DOMAIN new
                    BY <4>1
                <5> HIDE DEF tc, uc
                <5>2. /\ DOMAIN tc = 1..Len(tc) /\ Len(tc) \in Nat
                      /\ \A i \in DOMAIN new : /\ Len(tc) + i \in DOMAIN (tc \o new)
                                              /\ (tc \o new)[Len(tc) + i] = new[i]
                      /\ \A i \in DOMAIN tc : (tc \o new)[i] = tc[i]
                    BY <4>2, ConcatAt
                <5> QED
                    BY <4>2, <5>1, <5>2
            <4>4. \A i \in DOMAIN tc : tc[i].id # n
                BY <1>8, <4>2 DEF IdsMade
            <4>5. n \in Workers \ Known(d)' /\ Known(d)' = Known(d)
                BY <1>8, <4>2 DEF IdsMade, Known, clientVars, libVars
            <4>6. /\ new[1].type = "RUNNING_XLATER" /\ new[1].id = n
                  /\ new[1].remoteid = s
                BY <1>12, <4>1
            <4> HIDE DEF tc, uc
            <4>7. \A j \in 1..(Len(tc) + 1 - 1) : uc[j].id # n
                BY <4>3, <4>4
            <4>8. \E i \in DOMAIN uc :
                    /\ uc[i].type = "RUNNING_XLATER" /\ uc[i].remoteid = s
                    /\ uc[i].id \in Workers \ Known(d)'
                    /\ \A j \in 1..(i - 1) : uc[j].type = "RUNNING_XLATER" =>
                            uc[j].id # uc[i].id
                BY <4>3, <4>5, <4>6, <4>7
            <4> QED
                BY <4>8 DEF Answered, Answers, uc
        <3>3. ASSUME NEW v \in Dead \ revived', ~AboutToTell(v)'
              PROVE  /\ v \in Dead \ revived /\ ~AboutToTell(v)
                     /\ \A i \in DOMAIN new :
                            new[i].type = "RUNNING_XLATER" => new[i].id # v
            <4>1. v # n
                BY <1>8, <3>3 DEF Dead
            <4>2. ~AboutToTell(v) /\ v \notin revived
                BY <1>4, <3>3 DEF AboutToTell
            <4> QED
                BY <2>6, <3>3, <4>1, <4>2
        <3>4. k = 1 => toserver[d][1].type # "LIST_XLATERS"
            BY <1>5, <2>1
        <3>5. ASSUME NEW w \in Workers, wstate'[w] = "running", served[d] # "none",
                     w \notin Made
              PROVE  \E i \in DOMAIN new : new[i].type = "RUNNING_XLATER" /\ new[i].id = w
            <4>1. w = n
                <5>1. w \in Made'
                    BY <3>5 DEF Made
                <5> QED
                    BY <1>10, <3>5, <5>1
            <4>2. new = sent[d]
                BY <2>5, <3>1, <3>5
            <4> QED
                BY <1>12, <4>1, <4>2
        <3> QED
            BY <1>10, <3>2, <3>3, <3>4, <3>5 DEF Tells
    <2> QED
        BY <2>1, <2>4, <2>5, <2>7, <2>8 DEF Treated
<1> QED
    BY <1>11, <1>14, <1>15, <1>16, ServerStepKeeps

-----------------------------------------------------------------------------
LEMMA ClientsNextKeeps ==
    ASSUME ClientsIInv, [ClientsNext]_clientsVars PROVE ClientsIInv'
<1>1. CASE UNCHANGED clientsVars
    <2>1. /\ UNCHANGED <<toserver, toclient, server, wstate, remoteid, creator>>
          /\ UNCHANGED <<subs, served, second, revived, conn>>
          /\ UNCHANGED <<xlaters, xlater_q, xln, lock, receiver, callback>>
          /\ UNCHANGED <<rows, gui, cli, refused>>
        BY <1>1 DEF clientsVars, wireVars, sessionVars, workerVars, clientVars,
                    libVars, appVars
    <2>2. Made' = Made /\ Dead' = Dead /\ Typed'
        BY <2>1 DEF Made, Dead, ClientsIInv, Typed
    <2>3. ChannelRefs'
        BY <2>1, <2>2 DEF ClientsIInv, ChannelRefs, References
    <2>4. ASSUME NEW c \in Clients PROVE ClientInv(c)'
        <3>1. /\ ClientInv(c) /\ Known(c)' = Known(c)
              /\ \A w : AboutToTell(w)' <=> AboutToTell(w)
              /\ \A w : HasFeeder(c, w)' <=> HasFeeder(c, w)
              /\ \A i, r : Answers(c, i, r)' <=> Answers(c, i, r)
            BY <2>1 DEF ClientsIInv, Known, AboutToTell, HasFeeder, Answers
        <3>2. \A r : Answered(c, r)' <=> Answered(c, r)
            BY <2>1, <3>1 DEF Answered
        <3>3. IdsMade(c)' /\ SessionInv(c)' /\ RequestRefs(c)' /\ QueueInv(c)'
            BY <2>1, <2>2, <3>1, <3>2
            DEF ClientInv, IdsMade, SessionInv, RequestRefs, QueueInv
        <3>4. DeadInv(c)' /\ FeedInv(c)' /\ SamplesInv(c)'
            BY <2>1, <2>2, <3>1 DEF ClientInv, DeadInv, FeedInv, SamplesInv
        <3>5. VanishInv(c)'
            BY <2>1, <2>2, <3>1 DEF ClientInv, VanishInv
        <3>6. c \in Guis => KnowsInv(c)' /\ RowsInv(c)'
            BY <2>1, <3>1 DEF ClientInv, KnowsInv, RowsInv
        <3>7. c \in Clis => ScriptRefs(c)' /\ ScriptInv(c)' /\ OwnRefs(c)'
            BY <2>1, <3>1, <3>2 DEF ClientInv, ScriptRefs, ScriptInv, OwnRefs, Foreign
        <3> QED
            BY <3>3, <3>4, <3>5, <3>6, <3>7 DEF ClientInv
    <2>5. refused' \subseteq Guis \X Wids
        BY <2>1 DEF ClientsIInv
    <2> QED
        BY <2>2, <2>3, <2>4, <2>5 DEF ClientsIInv
<1>2. CASE WriterStep /\ UNCHANGED <<conn, clientVars>>
    BY <1>2, SendPayloadKeeps, ReapKeeps DEF WriterStep
<1>3. ASSUME NEW c \in Clients, ServerStep(c) PROVE ClientsIInv'
    <2>1. SessionStep(c) /\ UNCHANGED <<conn, clientVars>>
        BY <1>3 DEF ServerStep
    <2> QED
        BY <2>1, AcceptKeeps, EndSessionKeeps, ServeCreateKeeps, ServeEnableKeeps,
           ServeDisableKeeps, ServeModifyKeeps, ReplyModifyKeeps, ServeListKeeps,
           ServeDestroyKeeps, TellDestroyedKeeps DEF SessionStep
<1>4. ASSUME NEW c \in Clients,
             ReceiverStep(c) \/ \E w \in Wids : FeederEnds(c, w)
      PROVE  ClientsIInv'
    BY <1>4, ClientStepsKeep
<1>5. ASSUME NEW c \in Guis, GuiStep(c) PROVE ClientsIInv'
    BY <1>5, ClientStepsKeep, ClientsAssumption
<1>6. ASSUME NEW c \in Clis, CliStep(c) PROVE ClientsIInv'
    BY <1>6, ClientStepsKeep, ClientsAssumption
<1> QED
    BY <1>1, <1>2, <1>3, <1>4, <1>5, <1>6 DEF ClientsNext

(* In every state the clients and their server reach, each part of         *)
(* ClientsIInv holds: what the requests, messages, sessions and channels   *)
(* of all the programs (client_parser.c, libclient.py, kukuruku-gui.py,    *)
(* cli.py) have to do with one another.                                    *)
THEOREM ClientsInvariance == ClientsSpec => []ClientsIInv
<1>1. ClientsInit => ClientsIInv
    BY ClientsStart
<1>2. ClientsIInv /\ [ClientsNext]_clientsVars => ClientsIInv'
    BY ClientsNextKeeps
<1> QED
    BY <1>1, <1>2, PTL DEF ClientsSpec

(* Requests and messages are those parse_client_req and libclient know, a  *)
(* program has only channels with a worker ID, and xlater_q holds only     *)
(* references already given out.                                           *)
THEOREM TypesKept == ClientsSpec => []ClientsTypeOK
<1>1. ASSUME ClientsIInv PROVE ClientsTypeOK
    <2>1. Typed /\ \A c \in Clients : RequestRefs(c)
        BY <1>1 DEF ClientsIInv, ClientInv
    <2>2. ASSUME NEW c \in Clients
          PROVE  /\ Pending(toserver[c]) \subseteq Requests
                 /\ Pending(toclient[c]) \subseteq Messages
                 /\ \A w \in Known(c) : /\ w \in Wids
                                        /\ xlaters[c][w].feeder \in {"none", "alive", "ended"}
                 /\ xlater_q[c] \subseteq 0..xln[c] - 1
        <3>1. toserver[c] \in Seq(Requests) /\ toclient[c] \in Seq(Messages)
            BY <2>1 DEF Typed
        <3>2. Pending(toserver[c]) \subseteq Requests /\ Pending(toclient[c]) \subseteq Messages
            BY <3>1 DEF Pending
        <3>3. IsDictionary(xlaters[c])
            BY <2>1 DEF Typed
        <3>4. \A w \in Known(c) : /\ w \in Wids
                                  /\ xlaters[c][w].feeder \in {"none", "alive", "ended"}
            BY <3>3 DEF IsDictionary, Known, Channels
        <3>5. xlater_q[c] \in SUBSET Nat /\ xln[c] \in Nat
            BY <2>1 DEF Typed
        <3>6. xlater_q[c] \subseteq 0..xln[c] - 1
            BY <2>1, <3>5 DEF RequestRefs
        <3> QED
            BY <3>2, <3>4, <3>6
    <2>3. /\ wstate \in [Workers -> {"none", "running", "dying", "freed"}]
          /\ \A c \in Clients, w \in Workers : subs[c][w] \in Nat
        BY <2>1 DEF Typed
    <2> QED
        BY <2>2, <2>3 DEF ClientsTypeOK
<1> QED
    BY <1>1, ClientsInvariance, PTL

(* Every reference in xlater_q gets its RUNNING_XLATER as long as client   *)
(* and server stay connected (create_xlater, srv_running_xlater): no       *)
(* program spawned for a channel waits for it in vain.                     *)
THEOREM NoRequestForgotten == ClientsSpec => []PendingIsUnderway
<1>1. ASSUME ClientsIInv PROVE PendingIsUnderway
    <2>1. SUFFICES ASSUME NEW c \in Clients, Serves(c), NEW r \in xlater_q[c]
                   PROVE  \/ Create(r) \in Pending(toserver[c])
                          \/ \E w \in Wids : OnItsWay(c, Running(w, r))
        BY DEF PendingIsUnderway
    <2>2. Typed /\ QueueInv(c)
        BY <1>1 DEF ClientsIInv, ClientInv
    <2>3. (\E i \in DOMAIN toserver[c] : toserver[c][i] = Create(r)) \/ Answered(c, r)
        BY <2>1, <2>2 DEF QueueInv, Serves
    <2>4. CASE \E i \in DOMAIN toserver[c] : toserver[c][i] = Create(r)
        BY <2>4 DEF Pending
    <2>5. CASE Answered(c, r)
        <3>1. PICK i \in DOMAIN toclient[c] : Answers(c, i, r)
            BY <2>5 DEF Answered
        <3> DEFINE m == toclient[c][i]
        <3>2. m.type = "RUNNING_XLATER" /\ m.remoteid = r /\ m.id \in Wids
            BY <3>1 DEF Answers, Wids
        <3>3. m \in Messages
            <4>1. toclient[c] \in Seq(Messages)
                BY <2>2 DEF Typed
            <4> QED
                BY <4>1
        <3>4. m = Running(m.id, r)
            <4> HIDE DEF m
            <4> QED
                BY <3>2, <3>3 DEF Messages, Running
        <3> QED
            BY <3>2, <3>4 DEF OnItsWay, Pending
    <2> QED
        BY <2>3, <2>4, <2>5
<1> QED
    BY <1>1, ClientsInvariance, PTL

(* After da_configure a GUI is told of every running channel, whoever      *)
(* creates it and whenever (LIST_XLATERS, msg_running_xlater).             *)
THEOREM NoChannelMissed == ClientsSpec => []KnowsAllChannels
<1>1. ASSUME ClientsIInv PROVE KnowsAllChannels
    <2>1. SUFFICES ASSUME NEW c \in Guis, Serves(c), callback[c],
                          NEW w \in Workers, wstate[w] = "running"
                   PROVE  \/ w \in Known(c)
                          \/ \E m \in Pending(toclient[c]) :
                                m.type = "RUNNING_XLATER" /\ m.id = w
                          \/ Ask("LIST_XLATERS") \in Pending(toserver[c])
        BY DEF KnowsAllChannels
    <2>2. Typed /\ c \in Clients /\ KnowsInv(c)
        BY <1>1, ClientsAssumption DEF ClientsIInv, ClientInv
    <2>3. \/ w \in Known(c)
          \/ \E i \in DOMAIN toclient[c] :
                toclient[c][i].type = "RUNNING_XLATER" /\ toclient[c][i].id = w
          \/ \E i \in DOMAIN toserver[c] : toserver[c][i].type = "LIST_XLATERS"
        BY <2>1, <2>2 DEF KnowsInv, Serves
    <2>4. ASSUME NEW i \in DOMAIN toserver[c], toserver[c][i].type = "LIST_XLATERS"
          PROVE  Ask("LIST_XLATERS") \in Pending(toserver[c])
        <3>1. toserver[c] \in Seq(Requests)
            BY <2>2 DEF Typed
        <3>2. toserver[c][i] \in Requests
            BY <2>4, <3>1
        <3>3. toserver[c][i] = Ask("LIST_XLATERS")
            BY <2>4, <3>2 DEF Requests, Ask
        <3> QED
            BY <2>4, <3>3 DEF Pending
    <2> QED
        BY <2>3, <2>4 DEF Pending
<1> QED
    BY <1>1, ClientsInvariance, PTL

(* DESTROYED_XLATER reaches every client that knows the channel, after     *)
(* every message that would bring it back, but for those of LIST_XLATERS   *)
(* and MODIFY_XLATER (client_parser.c: msg_destroyed_xlater).              *)
THEOREM NoGhostChannel == ClientsSpec => []DestroyedDisappear
<1>1. ASSUME ClientsIInv PROVE DestroyedDisappear
    <2>1. SUFFICES ASSUME NEW c \in Clients, Serves(c),
                          NEW w \in (Known(c) \cap Workers) \ revived,
                          wstate[w] \in {"dying", "freed"}
                   PROVE  OnItsWay(c, Destroyed(w)) \/ AboutToTell(w)
        BY DEF DestroyedDisappear, AboutToTell
    <2>2. VanishInv(c) /\ w \in Dead \ revived
        BY <1>1, <2>1 DEF ClientsIInv, ClientInv, Dead
    <2>3. \/ AboutToTell(w)
          \/ \E i \in DOMAIN toclient[c] : toclient[c][i] = Destroyed(w)
        BY <2>1, <2>2 DEF VanishInv, Serves
    <2> QED
        BY <2>3 DEF OnItsWay, Pending
<1> QED
    BY <1>1, ClientsInvariance, PTL

(* Samples are asked for only by clients with a feeder to take them: the   *)
(* receiver thread does not raise in process_payload (libclient.py), but   *)
(* for channels whose program on_demod refused.                            *)
THEOREM SamplesAreTaken == ClientsSpec => []EnabledHasFeeder
<1>1. ASSUME ClientsIInv PROVE EnabledHasFeeder
    <2>1. SUFFICES ASSUME NEW c \in Clients, Serves(c), NEW w \in Known(c) \cap Workers,
                          wstate[w] = "running",
                          \/ subs[c][w] > 0
                          \/ For("ENABLE_XLATER", w) \in Pending(toserver[c])
                   PROVE  HasFeeder(c, w)
        BY DEF EnabledHasFeeder, HasFeeder
    <2>2. FeedInv(c)
        BY <1>1 DEF ClientsIInv, ClientInv
    <2> QED
        BY <2>1, <2>2 DEF FeedInv, Serves, Pending
<1> QED
    BY <1>1, ClientsInvariance, PTL

(* A callback that tells the script of its channels changes only its wid,  *)
(* to a channel of the dictionary with the reference it has.               *)
LEMMA ScriptFinds ==
    ASSUME Typed, NEW c \in Clients, NEW dict, XlaterCb(c, dict),
           NEW d \in Clis, cli'[d].wid # cli[d].wid
    PROVE  d = c /\ cli'[d].wid \in Found(c, dict)
<1>1. cli \in [Clis -> [at : Places, rid : Nat \cup {NoRid, None},
                       wid : Wids \cup {None}]]
    BY DEF Typed
<1>2. PICK w \in Found(c, dict) : cli' = [cli EXCEPT ![c].wid = w]
    BY DEF XlaterCb
<1>3. d # c => cli'[d] = cli[d]
    BY <1>1, <1>2
<1>4. d = c => cli'[d] = [cli[c] EXCEPT !.wid = w]
    BY <1>1, <1>2
<1> QED
    BY <1>1, <1>2, <1>3, <1>4

(* So does every step that changes wid: it is told by the receiver thread, *)
(* or retunes.                                                             *)
LEMMA ScriptTakes ==
    ASSUME ClientsIInv, ClientsNext, NEW d \in Clis, cli'[d].wid # cli[d].wid
    PROVE  cli'[d].wid \in Known(d)' /\ xlaters'[d][cli'[d].wid].rid = cli[d].rid
<1>0. Typed /\ cli \in [Clis -> CliTypes] /\ d \in Clients
    BY CliParts
<1>1. ASSUME NEW c \in Clients, XlaterCb(c, xlaters'[c])
      PROVE  cli'[d].wid \in Known(d)' /\ xlaters'[d][cli'[d].wid].rid = cli[d].rid
    <2>1. d = c /\ cli'[d].wid \in Found(c, xlaters'[c])
        BY <1>0, <1>1, ScriptFinds
    <2> QED
        BY <2>1 DEF Found, Known
<1>2. ASSUME NEW c \in Clients, ReceiverStep(c) PROVE XlaterCb(c, xlaters'[c])
    <2>1. cli' # cli
        OBVIOUS
    <2>2. CASE srv_running_xlater(c) \/ srv_destroyed_xlater(c)
        BY <2>2 DEF srv_running_xlater, srv_destroyed_xlater
    <2>3. CASE process_payload(c)
        <3>1. UNCHANGED xlaters
            BY <2>3 DEF process_payload
        <3>2. UNCHANGED cli \/ XlaterCb(c, xlaters[c])
            BY <2>3 DEF process_payload, StopSamples, Raise
        <3> QED
            BY <2>1, <3>1, <3>2
    <2>4. CASE ConnectionLost(c)
        BY <2>1, <2>4 DEF ConnectionLost, appVars
    <2> QED
        BY <1>2, <2>2, <2>3, <2>4 DEF ReceiverStep
<1>3. ASSUME NEW c \in Guis, GuiStep(c) PROVE FALSE
    <2>1. XlaterCb(c, xlaters[c]) => UNCHANGED cli
        BY DEF XlaterCb
    <2>2. UNCHANGED cli
        BY <1>3, <2>1
        DEF GuiStep, GuiConnect, da_configure, DemodNew, DemodNewRefused, DemodRunning,
            DemodRunningRefused, DragOrScroll, EditRow, kill_toggle_cb, afc_toggle_cb,
            CommitRow, EditFails, exit, modify_xlater, clientVars, appVars
    <2> QED
        BY <2>2
<1>4. ASSUME NEW c \in Clis, CliStep(c) PROVE c = d /\ Retune(c)
    <2>1. ASSUME NEW at, cli' = [cli EXCEPT ![c].at = at] PROVE FALSE
        <3>1. /\ cli'[c] = [cli[c] EXCEPT !.at = at]
              /\ \A e \in Clis : e # c => cli'[e] = cli[e]
            BY <1>0, <2>1
        <3> QED
            BY <1>0, <3>1 DEF CliTypes
    <2>2. ~KeepRid(c)
        <3> SUFFICES ASSUME KeepRid(c) PROVE FALSE
            OBVIOUS
        <3>1. /\ cli'[c] = [cli[c] EXCEPT !.at = "slept", !.rid = xln[c] - 1]
              /\ \A e \in Clis : e # c => cli'[e] = cli[e]
            BY <1>0 DEF KeepRid
        <3> QED
            BY <1>0, <3>1 DEF CliTypes
    <2>3. ASSUME Retune(c) PROVE c = d
        BY <1>0, <2>3 DEF Retune
    <2>4. KeepRid(c) \/ Retune(c) \/ \E at : cli' = [cli EXCEPT ![c].at = at]
        BY <1>4 DEF CliStep, CliConnect, CliCreate, NoRetune, CliDisable, CliDestroy,
                    CliRaises, CliDisconnect, GoTo
    <2> QED
        BY <2>1, <2>2, <2>3, <2>4
<1>5. ASSUME Retune(d)
      PROVE  cli'[d].wid \in Known(d)' /\ xlaters'[d][cli'[d].wid].rid = cli[d].rid
    <2>1. PICK w \in (IF Found(d, xlaters[d]) = {} THEN {cli[d].wid}
                      ELSE Found(d, xlaters[d])) :
            cli' = [cli EXCEPT ![d].at = "disable", ![d].wid = w]
        BY <1>5 DEF Retune
    <2>2. cli'[d] = [cli[d] EXCEPT !.at = "disable", !.wid = w]
        BY <1>0, <2>1
    <2>3. cli'[d].wid = w
        BY <1>0, <2>2 DEF CliTypes
    <2>4. w \in Found(d, xlaters[d]) /\ UNCHANGED xlaters
        BY <1>5, <2>1, <2>3 DEF Retune
    <2> QED
        BY <2>3, <2>4 DEF Found, Known
<1>6. ASSUME UNCHANGED clientVars PROVE FALSE
    BY <1>6 DEF clientVars, appVars
<1>7. ASSUME NEW c \in Clients, NEW w \in Wids, FeederEnds(c, w) PROVE FALSE
    BY <1>7 DEF FeederEnds, appVars
<1> QED
    BY <1>1, <1>2, <1>3, <1>4, <1>5, <1>6, <1>7 DEF ClientsNext, ServerStep

(* A command line client that has its reference takes no channel for its   *)
(* own but the one it created (cli.py: xlater_cb), though it too gets the  *)
(* others' references, in the replies to MODIFY_XLATER.                    *)
THEOREM ScriptKeepsToItsOwn == ClientsSpec => ScriptTakesItsOwn
<1>1. ASSUME ClientsIInv, ClientsIInv', [ClientsNext]_clientsVars
      PROVE  [\A c \in Clis :
                cli[c].rid # None /\ cli'[c].wid # cli[c].wid =>
                    cli'[c].wid \in Workers /\ c \in creator'[cli'[c].wid]]_clientsVars
    <2>1. SUFFICES ASSUME NEW c \in Clis, ClientsNext,
                          cli[c].rid # None, cli'[c].wid # cli[c].wid
                   PROVE  cli'[c].wid \in Workers /\ c \in creator'[cli'[c].wid]
        BY <1>1
    <2>2. OwnRefs(c)'
        BY <1>1, ClientsAssumption DEF ClientsIInv, ClientInv
    <2> QED
        BY <1>1, <2>1, <2>2, ScriptTakes DEF OwnRefs
<1> QED
    BY <1>1, ClientsInvariance, PTL DEF ClientsSpec, ScriptTakesItsOwn

(* A row of the list view names a channel of the dictionary, and no two    *)
(* the same (kukuruku-gui.py: xlater_cb and the handlers of the rows).     *)
THEOREM RowsAreChannels == ClientsSpec => []RowsMatch
<1>1. ASSUME ClientsIInv PROVE RowsMatch
    <2>1. SUFFICES ASSUME NEW c \in Guis, callback[c]
                   PROVE  /\ Pending(rows[c]) \subseteq Known(c)
                          /\ Len(rows[c]) = Cardinality(Pending(rows[c]))
        BY DEF RowsMatch
    <2>2. Typed /\ RowsInv(c)
        BY <1>1, ClientsAssumption DEF ClientsIInv, ClientInv
    <2>3. Pending(rows[c]) \subseteq Known(c)
        BY <2>1, <2>2 DEF RowsInv, Pending
    <2>4. rows[c] \in Seq(Wids) /\ Different(rows[c])
        BY <2>2 DEF Typed, RowsInv, Different
    <2>5. Len(rows[c]) = Cardinality(Pending(rows[c]))
        BY <2>4, DifferentCardinality
    <2> QED
        BY <2>3, <2>5
<1> QED
    BY <1>1, ClientsInvariance, PTL

(* The receiver thread of a command line client lives, and xlaters_lock is *)
(* free, as long as the server lives (libclient.py, cli.py).               *)
THEOREM ScriptLives == ClientsSpec => []ScriptNotStuck
<1>1. ASSUME ClientsIInv PROVE ScriptNotStuck
    <2>1. \A c \in Clis : ScriptInv(c)
        BY <1>1, ClientsAssumption DEF ClientsIInv, ClientInv
    <2> QED
        BY <2>1 DEF ScriptNotStuck, ScriptInv
<1> QED
    BY <1>1, ClientsInvariance, PTL

-----------------------------------------------------------------------------
(* What the requests and the writer do to one worker is a step of its life *)
LEMMA CreateLives ==
    ASSUME ClientsIInv, NEW c \in Clients, ServeCreate(c)
    PROVE  \E w \in Workers : SessionWorkers!Create(w)
<1>1. PICK n : n = NewWorker
    OBVIOUS
<1>2. /\ 1 \in DOMAIN toserver[c] /\ toserver[c][1] \in Requests
      /\ toserver[c][1].type = "CREATE_XLATER"
    <2>1. Serve(c, "CREATE_XLATER")
        BY DEF ServeCreate
    <2> QED
        BY <2>1, RequestTaken
<1>3. PICK r : r = toserver[c][1].remoteid
    OBVIOUS
<1>4. r \in Nat
    <2>1. toserver[c][1] \in [type : {"CREATE_XLATER"}, remoteid : Nat]
        BY <1>2 DEF Requests
    <2> QED
        BY <1>3, <2>1
<1>5. r < xln[c] /\ \A w \in Workers \cap Made : creator[w] = {c} => remoteid[w] # r
    BY <1>2, <1>3 DEF ClientsIInv, ClientInv, RequestRefs
<1>6. /\ n \in Workers /\ wstate[n] = "none"
      /\ \A v \in Workers : v < n => wstate[v] # "none"
    <2>1. /\ NewWorker \in Workers /\ wstate[NewWorker] = "none"
          /\ \A v \in Workers : v < NewWorker => wstate[v] # "none"
        BY <1>4, <1>5, WorkerFree
    <2> QED
        BY <1>1, <2>1
<1>7. wstate' = [wstate EXCEPT ![n] = "running"]
    BY <1>1 DEF ServeCreate
<1> QED
    BY <1>6, <1>7 DEF SessionWorkers!Create

LEMMA DestroyLives ==
    ASSUME ClientsIInv, NEW c \in Clients, ServeDestroy(c)
    PROVE  (\E w \in Workers : SessionWorkers!Destroy(w)) \/ UNCHANGED wstate
<1>1. PICK w : w = Request(c).id
    OBVIOUS
<1>2. CASE w \in InWorkerList
    <2>1. /\ w \in Workers /\ wstate[w] \in {"running", "dying"}
          /\ wstate' = [wstate EXCEPT ![w] = "dying"]
        BY <1>1, <1>2 DEF ServeDestroy, InWorkerList
    <2>2. CASE wstate[w] = "running"
        BY <2>1, <2>2 DEF SessionWorkers!Destroy
    <2>3. CASE wstate[w] = "dying"
        BY <2>1, <2>3 DEF ClientsIInv, Typed
    <2> QED
        BY <2>1, <2>2, <2>3
<1>3. CASE w \notin InWorkerList
    BY <1>1, <1>3 DEF ServeDestroy
<1> QED
    BY <1>2, <1>3

(* and nothing else touches a worker: no message, no reply, no program.    *)
LEMMA ProgramsLeaveWorkers ==
    ASSUME NEW c,
           \/ ReceiverStep(c) \/ \E w \in Wids : FeederEnds(c, w)
           \/ GuiStep(c) \/ CliStep(c)
    PROVE  UNCHANGED wstate
<1> USE DEF sessionVars, workerVars
<1>1. CASE ReceiverStep(c)
    BY <1>1 DEF ReceiverStep, srv_running_xlater, srv_destroyed_xlater,
                process_payload, ConnectionLost
<1>2. CASE \E w \in Wids : FeederEnds(c, w)
    BY <1>2 DEF FeederEnds
<1>3. CASE GuiStep(c)
    BY <1>3
    DEF GuiStep, GuiConnect, da_configure, DemodNew, DemodNewRefused, DemodRunning,
        DemodRunningRefused, DragOrScroll, EditRow, kill_toggle_cb, afc_toggle_cb,
        CommitRow, EditFails, exit
<1>4. CASE CliStep(c)
    BY <1>4
    DEF CliStep, CliConnect, CliCreate, KeepRid, NoRetune, Retune, CliDisable,
        CliDestroy, CliRaises, CliDisconnect
<1> QED
    BY <1>1, <1>2, <1>3, <1>4

LEMMA LifeNext ==
    ClientsIInv /\ [ClientsNext]_clientsVars => [SessionWorkers!Next]_wstate
<1> SUFFICES ASSUME ClientsIInv, [ClientsNext]_clientsVars
             PROVE  [SessionWorkers!Next]_wstate
    OBVIOUS
<1>1. CASE UNCHANGED clientsVars
    BY <1>1 DEF clientsVars, sessionVars, workerVars
<1>2. ASSUME NEW w \in Workers, SendPayload(w) \/ Reap(w)
      PROVE  [SessionWorkers!Next]_wstate
    <2>1. CASE SendPayload(w)
        BY <2>1 DEF SendPayload, workerVars
    <2>2. CASE Reap(w)
        BY <2>2 DEF Reap, SessionWorkers!Next, SessionWorkers!Free
    <2> QED
        BY <1>2, <2>1, <2>2
<1>3. ASSUME NEW c \in Clients, SessionStep(c) PROVE [SessionWorkers!Next]_wstate
    <2>1. CASE ServeCreate(c)
        BY <2>1, CreateLives DEF SessionWorkers!Next
    <2>2. CASE ServeDestroy(c)
        BY <2>2, DestroyLives DEF SessionWorkers!Next
    <2>3. CASE \/ Accept(c) \/ EndSession(c) \/ ServeEnable(c) \/ ServeDisable(c)
               \/ ServeModify(c) \/ ReplyModify(c) \/ ServeList(c) \/ TellDestroyed(c)
        BY <2>3 DEF Accept, EndSession, ServeEnable, ServeDisable, ServeModify,
                    ReplyModify, ServeList, TellDestroyed, workerVars
    <2> QED
        BY <1>3, <2>1, <2>2, <2>3 DEF SessionStep
<1> QED
    BY <1>1, <1>2, <1>3, ProgramsLeaveWorkers
    DEF ClientsNext, WriterStep, ServerStep

(* However many programs create, retune and destroy channels, in whatever  *)
(* order and however late their requests arrive (parse_client_req), the    *)
(* workers they share live as the list of workers has them live.           *)
THEOREM SessionsKeepWorkerLife == ClientsSpec => SessionsLive
<1>1. ClientsInit => SessionWorkers!Init
    BY DEF ClientsInit, SessionsInit, SessionWorkers!Init
<1> QED
    BY <1>1, LifeNext, ClientsInvariance, PTL
    DEF ClientsSpec, SessionsLive, SessionWorkers!Spec
=============================================================================
