---------------------------- MODULE RadioProofs -----------------------------
(***************************************************************************)
(* Proofs about the settings of the radio for every number of clients and  *)
(* every value typed: types, the start of the GUI, and the command FIFO.   *)
(***************************************************************************)
EXTENDS RadioControl, OrderFacts, SequenceTheorems, TLAPS

-----------------------------------------------------------------------------
(* Types, those of the two FIFOs of each connection included *)

Settable ==
    [type : {"TUNE", "PPM"}, value : Int] \cup [type : {"GAIN"}, value : Gains]
Requests == [type : {"GET_INFO"}] \cup Settable
Infos == [type : {"INFO"}, value : Setting]
Values(k) == IF k = "GAIN" THEN Gains ELSE Int
Word == [tag : {"type"}, kind : Kinds]
            \cup [tag : {"data"}, kind : {"TUNE", "PPM"}, value : Int]
            \cup [tag : {"data"}, kind : {"GAIN"}, value : Gains]
Statement ==
    {Idle} \cup [next : {"assign"}, freq : Int]
           \cup [next : {"retune", "show", "ppm", "set_ppm"}]

WireTypes ==
    /\ toserver \in [Clients -> Seq(Requests)]
    /\ toclient \in [Clients -> Seq(Infos)]
ServerTypes ==
    /\ setting \in Setting
    /\ session \in [Clients -> {"none", "idle", "announce"}]
DeviceTypes ==
    /\ device \in Setting /\ ptype \in Kinds \cup {Nothing}
    /\ sdr_cmd \in Seq(Word)
GuiTypes ==
    /\ main \in [Clients -> {"starting", "waiting", "notified", "running"}]
    /\ known \in [Clients -> BOOLEAN]
    /\ frequency \in [Clients -> Int] /\ ppm \in [Clients -> Int]
    /\ tb_freq \in [Clients -> Int] /\ tb_ppm \in [Clients -> Int]
    /\ tb_gain \in [Clients -> Seq(Int)]
    /\ gtk \in [Clients -> Statement]
    /\ changes \in 0..MaxChanges
RadioTypes == WireTypes /\ ServerTypes /\ DeviceTypes /\ GuiTypes

-----------------------------------------------------------------------------
(* The command FIFO.  Behind position i are the fields of a command of the *)
(* kind k, all of them with its value, and then a type byte or the end.    *)

FieldsAt(q, i, k) ==
    /\ i + Words[k] <= Len(q)
    /\ \A j \in (i + 1)..(i + Words[k]) :
        q[j] = [tag |-> "data", kind |-> k, value |-> q[i + 1].value]
    /\ i + Words[k] + 1 <= Len(q) => q[i + Words[k] + 1].tag = "type"

Framed(q, p) ==
    /\ p # Nothing => FieldsAt(q, 0, p)
    /\ p = Nothing /\ q # <<>> => q[1].tag = "type"
    /\ \A i \in 1..Len(q) : q[i].tag = "type" => FieldsAt(q, i, q[i].kind)

(* What was sent last of each kind is the setting; with nothing of a kind  *)
(* on its way, the device is set to it.                                    *)

Sent(q, k) == {i \in 1..Len(q) : q[i].tag = "data" /\ q[i].kind = k}
IsLast(q, k, i) == i \in Sent(q, k) /\ \A j \in Sent(q, k) : j <= i

Follows(q, dev, set, k) ==
    /\ Sent(q, k) = {} => dev[k] = Tuned(k, set[k])
    /\ \A i \in Sent(q, k) : IsLast(q, k, i) => Tuned(k, q[i].value) = Tuned(k, set[k])

RadioInv ==
    /\ RadioTypes
    /\ Framed(sdr_cmd, ptype)
    /\ \A k \in Kinds : Follows(sdr_cmd, device, setting, k)
    /\ FftwUnset

-----------------------------------------------------------------------------
LEMMA GainsAreSeqs == Gains \subseteq Seq(Int)
BY SeqDef DEF Gains

LEMMA ExtendedTypes == \A g \in TypedGains : Extended(g) \in Gains /\ g \in Seq(Int)
BY TypedAssumption DEF Extended, Gains

LEMMA RequestTypes ==
    ASSUME NEW r \in Requests, r.type \in Kinds
    PROVE  r.value \in Values(r.type)
<1>1. r \notin [type : {"GET_INFO"}]
    BY DEF Kinds
<1> QED
    BY <1>1 DEF Requests, Settable, Kinds, Values

LEMMA TunedTypes ==
    ASSUME NEW k, NEW v \in Values(k)
    PROVE  Tuned(k, v) \in Values(k)
<1>1. CASE k = "GAIN"
    BY <1>1 DEF Tuned, Values, Gains
<1>2. CASE k # "GAIN"
    BY <1>2 DEF Tuned, Values
<1> QED
    BY <1>1, <1>2

(* A command is its type byte and the words of its fields. *)
LEMMA CommandShape ==
    ASSUME NEW k \in Kinds, NEW v \in Values(k)
    PROVE  /\ Command(k, v) \in Seq(Word) /\ Words[k] \in 1..4
           /\ Len(Command(k, v)) = Words[k] + 1
           /\ Command(k, v)[1] = [tag |-> "type", kind |-> k]
           /\ \A i \in 2..(Words[k] + 1) :
                Command(k, v)[i] = [tag |-> "data", kind |-> k, value |-> v]
<1> DEFINE type == [tag |-> "type", kind |-> k]
           data == [tag |-> "data", kind |-> k, value |-> v]
           fields == [i \in 1..Words[k] |-> data]
<1>1. type \in Word /\ data \in Word
    BY DEF Word, Values, Kinds
<1>2. Words[k] \in 1..4
    BY DEF Words, Kinds
<1>3. fields \in Seq(Word) /\ Len(fields) = Words[k]
      /\ \A i \in 1..Words[k] : fields[i] = data
    BY <1>1, <1>2
<1>4. <<type>> \in Seq(Word) /\ Len(<<type>>) = 1 /\ <<type>>[1] = type
    BY <1>1
<1>5. Command(k, v) = <<type>> \o fields
    BY DEF Command
<1> HIDE DEF fields, type, data
<1>6. /\ Command(k, v) \in Seq(Word) /\ Len(Command(k, v)) = Words[k] + 1
      /\ \A i \in 1..(Words[k] + 1) :
            Command(k, v)[i] = IF i = 1 THEN type ELSE fields[i - 1]
    BY <1>2, <1>3, <1>4, <1>5, ConcatProperties
<1>7. Command(k, v)[1] = type
    BY <1>2, <1>6
<1>8. \A i \in 2..(Words[k] + 1) : Command(k, v)[i] = data
  <2> SUFFICES ASSUME NEW i \in 2..(Words[k] + 1) PROVE Command(k, v)[i] = data
      OBVIOUS
  <2>1. i \in 1..(Words[k] + 1) /\ i # 1 /\ i - 1 \in 1..Words[k]
      BY <1>2
  <2> QED
      BY <1>3, <1>6, <2>1
<1> QED
    BY <1>2, <1>6, <1>7, <1>8 DEF type, data

LEMMA TypesInit == RadioInit => RadioTypes
<1> Start \in Setting
    BY DEF Start, Setting, Gains
<1> QED
    BY ChangesAssumption
    DEF RadioInit, WireInit, RadioTypes, WireTypes, ServerTypes, DeviceTypes, GuiTypes, Statement

(* A message to every client is written in one critical section. *)
LEMMA AnnouncedTypes ==
    ASSUME RadioTypes
    PROVE  /\ Info \in Infos
           /\ \A c, d \in Clients : ToOne(c, d) \in Seq(Infos) /\ ToAll(d) \in Seq(Infos)
<1>1. Info \in Infos
    BY DEF Info, Infos, RadioTypes, ServerTypes
<1> QED
    BY <1>1 DEF ToOne, ToAll

LEMMA StartTypes ==
    ASSUME RadioTypes, NEW c \in Clients, StartSteps(c)
    PROVE  RadioTypes'
<1>1. CASE Connect(c)
    BY <1>1 DEF Connect, q_msg, serverVars, deviceVars, guiVars, RadioTypes, WireTypes,
        ServerTypes, DeviceTypes, GuiTypes, Requests
<1>2. CASE WaitForInfo(c) \/ EnterMainLoop(c)
    BY <1>2 DEF WaitForInfo, EnterMainLoop, wireVars, serverVars, deviceVars, RadioTypes,
        WireTypes, ServerTypes, DeviceTypes, GuiTypes
<1> QED
    BY <1>1, <1>2 DEF StartSteps

LEMMA SessionTypes ==
    ASSUME RadioTypes, NEW c \in Clients, SessionSteps(c)
    PROVE  RadioTypes'
<1> USE DEF RadioTypes, WireTypes, serverVars, deviceVars, guiVars
<1>1. CASE Accept(c)
    BY <1>1 DEF Accept, wireVars, ServerTypes, DeviceTypes, GuiTypes
<1>2. CASE GetInfo(c)
  <2>1. toclient' \in [Clients -> Seq(Infos)]
      BY <1>2, AnnouncedTypes DEF GetInfo, WriteAll
  <2>2. toserver' \in [Clients -> Seq(Requests)]
      BY <1>2 DEF GetInfo, TakeRequest
  <2> QED
      BY <1>2, <2>1, <2>2 DEF GetInfo, ServerTypes, DeviceTypes, GuiTypes
<1>3. CASE ApplySetting(c)
  <2> DEFINE r == Request(c)
  <2>1. r \in Requests /\ r.type \in Kinds
      BY <1>3 DEF ApplySetting, TakeRequest, Request
  <2>2. r.value \in Values(r.type)
      BY <2>1, RequestTypes
  <2>3. sdr_cmd' = sdr_cmd \o Command(r.type, r.value)
        /\ setting' = [setting EXCEPT ![r.type] = r.value]
        /\ session' = [session EXCEPT ![c] = "announce"]
        /\ UNCHANGED <<toclient, deviceVars, guiVars, changes>>
      BY <1>3 DEF ApplySetting
  <2>4. toserver' \in [Clients -> Seq(Requests)]
      BY <1>3 DEF ApplySetting, TakeRequest
  <2> HIDE DEF r
  <2>5. sdr_cmd' \in Seq(Word)
    <3>1. Command(r.type, r.value) \in Seq(Word)
        BY <2>1, <2>2, CommandShape
    <3> QED
        BY <2>3, <3>1 DEF DeviceTypes
  <2>6. setting' \in Setting
      BY <2>1, <2>2, <2>3 DEF ServerTypes, Setting, Kinds, Values
  <2> QED
      BY <2>3, <2>4, <2>5, <2>6 DEF ServerTypes, DeviceTypes, GuiTypes
<1>4. CASE Announce(c)
  <2>1. toclient' \in [Clients -> Seq(Infos)]
      BY <1>4, AnnouncedTypes DEF Announce, WriteAll
  <2> QED
      BY <1>4, <2>1 DEF Announce, ServerTypes, DeviceTypes, GuiTypes
<1> QED
    BY <1>1, <1>2, <1>3, <1>4 DEF SessionSteps

LEMMA DeviceStepTypes ==
    ASSUME RadioTypes, Framed(sdr_cmd, ptype), ReadType \/ ReadData
    PROVE  RadioTypes'
<1> USE DEF RadioTypes, wireVars, serverVars, guiVars, WireTypes, ServerTypes, GuiTypes
<1>1. CASE ReadType
  <2>1. Head(sdr_cmd) \in Word /\ Head(sdr_cmd).kind \in Kinds
      BY <1>1 DEF ReadType, DeviceTypes, Word
  <2> QED
      BY <1>1, <2>1 DEF ReadType, DeviceTypes
<1>2. CASE ReadData
  <2>1. ptype \in Kinds /\ Words[ptype] \in 1..4 /\ Reads = Words
      BY <1>2 DEF ReadData, DeviceTypes, Words, Reads, Kinds
  <2>2. 1 \in 1..Len(sdr_cmd) /\ Head(sdr_cmd) = sdr_cmd[1] /\ sdr_cmd[1] \in Word
      BY <1>2, <2>1 DEF ReadData, DeviceTypes
  <2>3. sdr_cmd[1] = [tag |-> "data", kind |-> ptype, value |-> sdr_cmd[1].value]
      BY <1>2, <2>1 DEF ReadData, Framed, FieldsAt
  <2>4. Head(sdr_cmd).value \in Values(ptype)
      BY <2>2, <2>3 DEF Word, Values
  <2>5. Tuned(ptype, Head(sdr_cmd).value) \in Values(ptype)
      BY <2>4, TunedTypes
  <2>6. device' \in Setting
      BY <1>2, <2>1, <2>5 DEF ReadData, DeviceTypes, Setting, Kinds, Values
  <2>7. sdr_cmd' \in Seq(Word)
      BY <1>2, <2>1 DEF ReadData, DeviceTypes
  <2> QED
      BY <1>2, <2>6, <2>7 DEF ReadData, DeviceTypes
<1> QED
    BY <1>1, <1>2

LEMMA InfoTypes ==
    ASSUME RadioTypes, NEW c \in Clients, InfoCb(c)
    PROVE  RadioTypes'
<1> USE DEF RadioTypes, serverVars, deviceVars
<1>1. /\ Message(c) \in Infos /\ toclient[c] # <<>>
      /\ toclient' = [toclient EXCEPT ![c] = Tail(@)]
    BY DEF InfoCb, TakeMessage, Message, WireTypes
<1>2. /\ Message(c).value.TUNE \in Int /\ Message(c).value.PPM \in Int
      /\ Message(c).value.GAIN \in Seq(Int)
    BY <1>1, GainsAreSeqs DEF Infos, Setting
<1>3. WireTypes'
    BY <1>1 DEF InfoCb, WireTypes
<1>4. main' = [main EXCEPT ![c] = IF @ = "waiting" THEN "notified" ELSE @]
    BY DEF InfoCb
<1>5. GuiTypes'
    BY <1>2, <1>4 DEF InfoCb, GuiTypes
<1> QED
    BY <1>3, <1>5 DEF InfoCb, ServerTypes, DeviceTypes

LEMMA GtkTypes ==
    ASSUME RadioTypes, NEW c \in Clients, GtkSteps(c)
    PROVE  RadioTypes'
<1> USE DEF RadioTypes, GuiRest, serverVars, ServerTypes, deviceVars, DeviceTypes
<1>1. CASE AssignFreq(c)
  <2>1. gtk[c] \in Statement /\ gtk[c].next = "assign"
      BY <1>1 DEF AssignFreq, GuiTypes
  <2>2. gtk[c].freq \in Int
      BY <2>1 DEF Statement, Idle
  <2> QED
      BY <1>1, <2>2 DEF AssignFreq, WireTypes, GuiTypes, Statement
<1>2. CASE SendFreq(c)
    BY <1>2 DEF SendFreq, q_msg, WireTypes, GuiTypes, Statement, Requests, Settable
<1>3. CASE ShowFreq(c)
    BY <1>3 DEF ShowFreq, WireTypes, GuiTypes, Statement
<1>4. CASE ShowPpm(c)
    BY <1>4 DEF ShowPpm, WireTypes, GuiTypes, Statement
<1>5. CASE SendPpm(c)
    BY <1>5 DEF SendPpm, q_msg, WireTypes, GuiTypes, Statement, Requests, Settable
<1> QED
    BY <1>1, <1>2, <1>3, <1>4, <1>5 DEF GtkSteps

LEMMA UserTypes ==
    ASSUME RadioTypes, NEW c \in Clients, UserSteps(c)
    PROVE  RadioTypes'
<1> USE TypedAssumption, ChangesAssumption
    DEF RadioTypes, User, GuiRest, serverVars, ServerTypes, deviceVars, DeviceTypes
<1>1. CASE TypeFreq(c)
    BY <1>1 DEF TypeFreq, q_msg, WireTypes, GuiTypes, Statement, Requests, Settable
<1>2. CASE StepFreq(c)
    BY <1>2 DEF StepFreq, WireTypes, GuiTypes, Statement
<1>3. CASE TypePpm(c)
    BY <1>3 DEF TypePpm, WireTypes, GuiTypes, Statement
<1>4. CASE TypeGain(c)
    BY <1>4, ExtendedTypes, SMTT(30) DEF TypeGain, q_msg, WireTypes, GuiTypes, Requests, Settable
<1> QED
    BY <1>1, <1>2, <1>3, <1>4 DEF UserSteps

LEMMA TypesStep ==
    ASSUME RadioTypes, Framed(sdr_cmd, ptype), [RadioNext]_radioVars
    PROVE  RadioTypes'
<1>1. CASE UNCHANGED radioVars
    BY <1>1 DEF radioVars, wireVars, serverVars, deviceVars, guiVars, RadioTypes,
        WireTypes, ServerTypes, DeviceTypes, GuiTypes
<1>2. CASE RadioNext
    BY <1>2, DeviceStepTypes, StartTypes, SessionTypes, InfoTypes, GtkTypes, UserTypes
    DEF RadioNext
<1> QED
    BY <1>1, <1>2

-----------------------------------------------------------------------------
(* What the server appends and what the device takes away *)

LEMMA FieldsStay ==
    ASSUME NEW q \in Seq(Word), NEW cmd \in Seq(Word), cmd # <<>>, cmd[1].tag = "type",
           NEW i \in Nat, NEW k \in Kinds, FieldsAt(q, i, k)
    PROVE  FieldsAt(q \o cmd, i, k)
<1> DEFINE r == q \o cmd
<1>1. /\ Len(q) \in Nat /\ Len(cmd) \in Nat /\ Len(cmd) > 0 /\ Words[k] \in 1..4
      /\ Len(r) = Len(q) + Len(cmd)
      /\ \A j \in 1..Len(q) : r[j] = q[j]
      /\ r[Len(q) + 1] = cmd[1]
    BY DEF Words, Kinds
<1>2. \A j \in (i + 1)..(i + Words[k]) : j \in 1..Len(q)
    BY <1>1 DEF FieldsAt
<1>3. i + 1 \in 1..Len(q)
    BY <1>1 DEF FieldsAt
<1> HIDE DEF r
<1>4. i + Words[k] + 1 <= Len(q) => r[i + Words[k] + 1].tag = "type"
    BY <1>1, SMTT(30) DEF FieldsAt
<1>5. i + Words[k] = Len(q) => r[i + Words[k] + 1].tag = "type"
    BY <1>1
<1>6. FieldsAt(r, i, k)
    BY <1>1, <1>2, <1>3, <1>4, <1>5, SMTT(30) DEF FieldsAt
<1> QED
    BY <1>6 DEF r

LEMMA FieldsShift ==
    ASSUME NEW q \in Seq(Word), NEW r \in Seq(Word), NEW n \in Nat, NEW i \in Nat,
           Len(r) = Len(q) - n, \A j \in 1..Len(r) : r[j] = q[j + n],
           NEW k \in Kinds, FieldsAt(q, i + n, k)
    PROVE  FieldsAt(r, i, k)
<1>1. PICK w \in 1..4 : w = Words[k]
    BY DEF Words, Kinds
<1>2. Len(q) \in Nat /\ Len(r) \in Nat
    OBVIOUS
<1>3. /\ i + n + w <= Len(q)
      /\ \A j \in (i + n + 1)..(i + n + w) :
            q[j] = [tag |-> "data", kind |-> k, value |-> q[i + n + 1].value]
      /\ i + n + w + 1 <= Len(q) => q[i + n + w + 1].tag = "type"
    BY <1>1 DEF FieldsAt
<1>4. i + w <= Len(r)
    BY <1>1, <1>2, <1>3
<1>5. r[i + 1] = q[i + n + 1]
  <2>1. i + 1 \in 1..Len(r) /\ i + 1 + n = i + n + 1
      BY <1>1, <1>2, <1>4
  <2> QED
      BY <2>1
<1>6. ASSUME NEW j \in (i + 1)..(i + w)
      PROVE  r[j] = [tag |-> "data", kind |-> k, value |-> r[i + 1].value]
  <2>1. j \in 1..Len(r) /\ j + n \in (i + n + 1)..(i + n + w)
      BY <1>1, <1>2, <1>4
  <2> QED
      BY <1>3, <1>5, <2>1
<1>7. ASSUME i + w + 1 <= Len(r) PROVE r[i + w + 1].tag = "type"
  <2>1. i + w + 1 \in 1..Len(r)
      BY <1>2, <1>7
  <2>2. i + w + 1 + n = i + n + w + 1
      OBVIOUS
  <2>3. i + n + w + 1 <= Len(q)
      BY <1>2, <1>7
  <2> QED
      BY <1>3, <2>1, <2>2, <2>3
<1> QED
    BY <1>1, <1>4, <1>6, <1>7 DEF FieldsAt

LEMMA SentShift ==
    ASSUME NEW q \in Seq(Word), NEW r \in Seq(Word), NEW n \in Nat, NEW k,
           Len(r) = Len(q) - n, \A j \in 1..Len(r) : r[j] = q[j + n]
    PROVE  /\ \A i \in Sent(r, k) : i + n \in Sent(q, k)
           /\ \A i \in Sent(q, k) : i > n => i - n \in Sent(r, k)
           /\ \A i \in Sent(r, k) : IsLast(r, k, i) => IsLast(q, k, i + n)
<1>1. Len(q) \in Nat /\ Len(r) \in Nat
    OBVIOUS
<1>2. ASSUME NEW i \in Sent(r, k) PROVE i + n \in Sent(q, k)
  <2>1. i \in 1..Len(r) /\ i + n \in 1..Len(q) /\ r[i] = q[i + n]
      BY <1>1 DEF Sent
  <2> QED
      BY <2>1 DEF Sent
<1>3. ASSUME NEW i \in Sent(q, k), i > n PROVE i - n \in Sent(r, k)
  <2>1. i \in 1..Len(q) /\ i - n \in 1..Len(r) /\ i - n + n = i
      BY <1>1, <1>3 DEF Sent
  <2>2. r[i - n] = q[i]
      BY <2>1
  <2> QED
      BY <2>1, <2>2 DEF Sent
<1>4. ASSUME NEW i \in Sent(r, k), IsLast(r, k, i) PROVE IsLast(q, k, i + n)
  <2>1. i \in 1..Len(r)
      BY DEF Sent
  <2>2. ASSUME NEW j \in Sent(q, k) PROVE j <= i + n
    <3>1. j \in 1..Len(q)
        BY DEF Sent
    <3>2. CASE j > n
      <4>1. j - n <= i
          BY <1>3, <1>4, <3>2 DEF IsLast
      <4> QED
          BY <2>1, <3>1, <4>1
    <3>3. CASE ~(j > n)
        BY <2>1, <3>1, <3>3
    <3> QED
        BY <3>2, <3>3
  <2> QED
      BY <1>2, <2>2 DEF IsLast
<1> QED
    BY <1>2, <1>3, <1>4

LEMMA TailShift ==
    ASSUME NEW q \in Seq(Word), q # <<>>
    PROVE  /\ Tail(q) \in Seq(Word) /\ Len(Tail(q)) = Len(q) - 1
           /\ \A j \in 1..Len(Tail(q)) : Tail(q)[j] = q[j + 1]
OBVIOUS

LEMMA SubSeqShift ==
    ASSUME NEW q \in Seq(Word), NEW n \in Nat, n <= Len(q)
    PROVE  LET r == SubSeq(q, n + 1, Len(q))
           IN  /\ r \in Seq(Word) /\ Len(r) = Len(q) - n
               /\ \A j \in 1..Len(r) : r[j] = q[j + n]
OBVIOUS

-----------------------------------------------------------------------------
(* The invariant is kept: a session appends a command ... *)

LEMMA ApplyFramed ==
    ASSUME NEW q \in Seq(Word), NEW p \in Kinds \cup {Nothing}, Framed(q, p),
           NEW k \in Kinds, NEW v \in Values(k)
    PROVE  Framed(q \o Command(k, v), p)
<1> DEFINE cmd == Command(k, v)
           r == q \o cmd
<1>1. /\ cmd \in Seq(Word) /\ Words[k] \in 1..4 /\ Len(cmd) = Words[k] + 1
      /\ cmd[1] = [tag |-> "type", kind |-> k]
      /\ \A i \in 2..(Words[k] + 1) : cmd[i] = [tag |-> "data", kind |-> k, value |-> v]
    BY CommandShape
<1>2. cmd # <<>> /\ cmd[1].tag = "type" /\ cmd[1].kind = k
    BY <1>1
<1> HIDE DEF cmd
<1>3. /\ r \in Seq(Word) /\ Len(q) \in Nat /\ Len(r) = Len(q) + Words[k] + 1
      /\ \A i \in 1..Len(q) : r[i] = q[i]
      /\ \A i \in 1..(Words[k] + 1) : r[Len(q) + i] = cmd[i]
    BY <1>1
<1>4. p # Nothing => FieldsAt(r, 0, p)
  <2> SUFFICES ASSUME p # Nothing PROVE FieldsAt(r, 0, p)
      OBVIOUS
  <2> QED
      BY <1>1, <1>2, FieldsStay DEF Framed
<1>5. p = Nothing => r[1].tag = "type"
  <2>1. CASE q = <<>>
      BY <1>1, <1>2, <1>3, <2>1
  <2>2. CASE q # <<>>
      BY <1>3, <2>2 DEF Framed
  <2> QED
      BY <2>1, <2>2
<1>6. ASSUME NEW i \in 1..Len(r), r[i].tag = "type" PROVE FieldsAt(r, i, r[i].kind)
  <2>1. CASE i \in 1..Len(q)
    <3>1. q[i] = r[i] /\ q[i] \in Word
        BY <1>3, <2>1
    <3>2. q[i].kind \in Kinds
        BY <3>1 DEF Word, Kinds
    <3> QED
        BY <1>1, <1>2, <1>6, <2>1, <3>1, <3>2, FieldsStay DEF Framed
  <2>2. CASE i \notin 1..Len(q)
    <3>1. i - Len(q) \in 1..(Words[k] + 1) /\ Len(q) + (i - Len(q)) = i
        BY <1>1, <1>3, <2>2
    <3>2. i = Len(q) + 1
      <4>1. r[i] = cmd[i - Len(q)]
          BY <1>3, <3>1
      <4>2. i - Len(q) \notin 2..(Words[k] + 1)
          BY <1>1, <1>6, <4>1
      <4> QED
          BY <1>1, <1>3, <3>1, <4>2
    <3>3. r[i].kind = k
        BY <1>1, <1>2, <1>3, <3>2
    <3>4. \A j \in (i + 1)..(i + Words[k]) :
              r[j] = [tag |-> "data", kind |-> k, value |-> v]
      <4> SUFFICES ASSUME NEW j \in (i + 1)..(i + Words[k])
                   PROVE  r[j] = [tag |-> "data", kind |-> k, value |-> v]
          OBVIOUS
      <4>1. j - Len(q) \in 2..(Words[k] + 1) /\ j - Len(q) \in 1..(Words[k] + 1)
            /\ Len(q) + (j - Len(q)) = j
          BY <1>1, <1>3, <3>2
      <4> QED
          BY <1>1, <1>3, <4>1
    <3>5. r[i + 1].value = v
        BY <1>1, <1>3, <3>2, <3>4
    <3>6. i + Words[k] = Len(r) /\ ~(i + Words[k] + 1 <= Len(r))
        BY <1>1, <1>3, <3>2
    <3>7. FieldsAt(r, i, k)
        BY <3>4, <3>5, <3>6 DEF FieldsAt
    <3> QED
        BY <3>3, <3>7
  <2> QED
      BY <2>1, <2>2
<1> QED
    BY <1>4, <1>5, <1>6 DEF Framed, cmd

LEMMA ApplyFollows ==
    ASSUME NEW q \in Seq(Word), NEW dev \in Setting, NEW set \in Setting,
           NEW k \in Kinds, NEW v \in Values(k),
           \A m \in Kinds : Follows(q, dev, set, m)
    PROVE  \A m \in Kinds : Follows(q \o Command(k, v), dev, [set EXCEPT ![k] = v], m)
<1> DEFINE cmd == Command(k, v)
           r == q \o cmd
           new == [set EXCEPT ![k] = v]
<1>1. /\ cmd \in Seq(Word) /\ Words[k] \in 1..4 /\ Len(cmd) = Words[k] + 1
      /\ cmd[1].tag = "type"
      /\ \A i \in 2..(Words[k] + 1) :
            cmd[i].tag = "data" /\ cmd[i].kind = k /\ cmd[i].value = v
  <2>1. /\ cmd \in Seq(Word) /\ Words[k] \in 1..4 /\ Len(cmd) = Words[k] + 1
        /\ cmd[1] = [tag |-> "type", kind |-> k]
        /\ \A i \in 2..(Words[k] + 1) : cmd[i] = [tag |-> "data", kind |-> k, value |-> v]
      BY CommandShape
  <2> HIDE DEF cmd
  <2> QED
      BY <2>1
<1> HIDE DEF cmd
<1>2. /\ Len(q) \in Nat /\ Len(r) = Len(q) + Words[k] + 1
      /\ \A i \in 1..Len(q) : r[i] = q[i]
      /\ \A i \in 1..(Words[k] + 1) : r[Len(q) + i] = cmd[i]
    BY <1>1
<1>3. \A i \in 1..Len(r) : i \notin 1..Len(q) =>
        /\ i = Len(q) + 1 => r[i].tag = "type"
        /\ i # Len(q) + 1 => r[i].tag = "data" /\ r[i].kind = k /\ r[i].value = v
  <2> SUFFICES ASSUME NEW i \in 1..Len(r), i \notin 1..Len(q)
               PROVE  /\ i = Len(q) + 1 => r[i].tag = "type"
                      /\ i # Len(q) + 1 =>
                            r[i].tag = "data" /\ r[i].kind = k /\ r[i].value = v
      OBVIOUS
  <2>1. i - Len(q) \in 1..(Words[k] + 1) /\ Len(q) + (i - Len(q)) = i
      BY <1>1, <1>2
  <2>2. r[i] = cmd[i - Len(q)]
      BY <1>2, <2>1
  <2>3. CASE i = Len(q) + 1
      BY <1>1, <1>2, <2>2, <2>3
  <2>4. CASE i # Len(q) + 1
    <3>1. i - Len(q) \in 2..(Words[k] + 1)
        BY <1>1, <1>2, <2>1, <2>4
    <3> QED
        BY <1>1, <2>2, <2>4, <3>1
  <2> QED
      BY <2>3, <2>4
<1>4. new[k] = v /\ \A m \in Kinds : m # k => new[m] = set[m]
    BY DEF Setting, Kinds
<1> HIDE DEF r, new
<1>5. Follows(r, dev, new, k)
  <2>1. Len(q) + 2 \in Sent(r, k)
    <3>1. Len(q) + 2 \in 1..Len(r) /\ Len(q) + 2 \notin 1..Len(q)
          /\ Len(q) + 2 # Len(q) + 1
        BY <1>1, <1>2
    <3> QED
        BY <1>3, <3>1 DEF Sent
  <2>2. ASSUME NEW i \in Sent(r, k), IsLast(r, k, i) PROVE r[i].value = v
    <3>1. i \in 1..Len(r) /\ i >= Len(q) + 2
        BY <2>1, <2>2 DEF IsLast, Sent
    <3> QED
        BY <1>2, <1>3, <3>1
  <2> QED
      BY <1>4, <2>1, <2>2 DEF Follows
<1>6. ASSUME NEW m \in Kinds, m # k PROVE Follows(r, dev, new, m)
  <2>1. Sent(r, m) = Sent(q, m)
      BY <1>2, <1>3, <1>6, <1>1 DEF Sent
  <2>2. \A i \in Sent(q, m) : r[i] = q[i]
      BY <1>2 DEF Sent
  <2> QED
      BY <1>4, <1>6, <2>1, <2>2 DEF Follows, IsLast
<1> QED
    BY <1>5, <1>6 DEF r, new, cmd

(* ... and the device process takes its type byte, and then its fields. *)
LEMMA ReadTypeKeeps ==
    ASSUME RadioInv, ReadType
    PROVE  /\ Framed(sdr_cmd', ptype')
           /\ \A k \in Kinds : Follows(sdr_cmd', device', setting', k)
<1> DEFINE q == sdr_cmd
           r == Tail(sdr_cmd)
<1>1. /\ q \in Seq(Word) /\ q # <<>> /\ q[1].tag = "type" /\ Head(q) = q[1]
      /\ sdr_cmd' = r /\ ptype' = q[1].kind /\ UNCHANGED <<device, setting>>
    BY DEF ReadType, serverVars, RadioInv, RadioTypes, DeviceTypes
<1>2. r \in Seq(Word) /\ Len(r) = Len(q) - 1 /\ \A j \in 1..Len(r) : r[j] = q[j + 1]
    BY <1>1, TailShift
<1>3. 1 \in 1..Len(q) /\ q[1] \in Word /\ q[1].kind \in Kinds /\ q[1].kind # Nothing
    BY <1>1 DEF Word, Kinds, Nothing
<1>4. \A i \in 1..Len(q) : q[i].tag = "type" => FieldsAt(q, i, q[i].kind)
    BY DEF RadioInv, Framed
<1>5. \A k \in Kinds : Follows(q, device, setting, k)
    BY DEF RadioInv
<1> HIDE DEF q, r
<1>6. FieldsAt(r, 0, q[1].kind)
  <2>1. FieldsAt(q, 0 + 1, q[1].kind)
      BY <1>1, <1>3, <1>4
  <2> QED
      BY <1>1, <1>2, <1>3, <2>1, FieldsShift
<1>7. ASSUME NEW i \in 1..Len(r), r[i].tag = "type" PROVE FieldsAt(r, i, r[i].kind)
  <2>1. i + 1 \in 1..Len(q) /\ i \in Nat /\ r[i] = q[i + 1]
      BY <1>1, <1>2
  <2>2. q[i + 1] \in Word
      BY <1>1, <2>1
  <2>3. r[i].kind \in Kinds
      BY <2>1, <2>2 DEF Word, Kinds
  <2>4. FieldsAt(q, i + 1, r[i].kind)
      BY <1>4, <1>7, <2>1
  <2> QED
      BY <1>1, <1>2, <2>1, <2>3, <2>4, FieldsShift
<1>8. ASSUME NEW k \in Kinds PROVE Follows(r, device, setting, k)
  <2>1. /\ \A i \in Sent(r, k) : i + 1 \in Sent(q, k)
        /\ \A i \in Sent(q, k) : i > 1 => i - 1 \in Sent(r, k)
        /\ \A i \in Sent(r, k) : IsLast(r, k, i) => IsLast(q, k, i + 1)
      BY <1>1, <1>2, SentShift
  <2>2. \A i \in Sent(q, k) : i > 1
      BY <1>1 DEF Sent
  <2>3. \A i \in Sent(r, k) : r[i] = q[i + 1]
      BY <1>2 DEF Sent
  <2>4. Sent(r, k) = {} => Sent(q, k) = {}
      BY <2>1, <2>2
  <2> QED
      BY <1>5, <2>1, <2>3, <2>4 DEF Follows
<1> QED
    BY <1>1, <1>3, <1>6, <1>7, <1>8 DEF Framed

LEMMA ReadDataKeeps ==
    ASSUME RadioInv, ReadData
    PROVE  /\ Framed(sdr_cmd', ptype')
           /\ \A k \in Kinds : Follows(sdr_cmd', device', setting', k)
<1> DEFINE q == sdr_cmd
           n == Words[ptype]
           r == SubSeq(q, n + 1, Len(q))
<1>1. ptype \in Kinds /\ n \in 1..4 /\ Reads = Words /\ ptype # Nothing
    BY DEF ReadData, RadioInv, RadioTypes, DeviceTypes, Words, Reads, Kinds, Nothing
<1>2. /\ q \in Seq(Word) /\ n <= Len(q) /\ FieldsAt(q, 0, ptype)
      /\ sdr_cmd' = r /\ ptype' = Nothing /\ UNCHANGED setting
      /\ device' = [device EXCEPT ![ptype] = Tuned(ptype, Head(q).value)]
    BY <1>1 DEF ReadData, serverVars, RadioInv, RadioTypes, DeviceTypes, Framed
<1>3. Head(q) = q[1]
    BY <1>1, <1>2
<1>4. \A i \in 1..Len(q) : q[i].tag = "type" => FieldsAt(q, i, q[i].kind)
    BY DEF RadioInv, Framed
<1>5. \A k \in Kinds : Follows(q, device, setting, k)
    BY DEF RadioInv
<1>6. device \in Setting
    BY DEF RadioInv, RadioTypes, DeviceTypes
<1>7. /\ \A j \in 1..n : q[j].tag = "data" /\ q[j].kind = ptype /\ q[j].value = q[1].value
      /\ n + 1 <= Len(q) => q[n + 1].tag = "type"
    BY <1>1, <1>2 DEF FieldsAt
<1> HIDE DEF q, n
<1>8. r \in Seq(Word) /\ Len(r) = Len(q) - n /\ \A j \in 1..Len(r) : r[j] = q[j + n]
    BY <1>1, <1>2, SubSeqShift
<1> HIDE DEF r
<1>9. r # <<>> => r[1].tag = "type"
  <2> SUFFICES ASSUME r # <<>> PROVE r[1].tag = "type"
      OBVIOUS
  <2>1. 1 \in 1..Len(r) /\ n + 1 <= Len(q) /\ 1 + n = n + 1
      BY <1>1, <1>2, <1>8
  <2> QED
      BY <1>7, <1>8, <2>1
<1>10. ASSUME NEW i \in 1..Len(r), r[i].tag = "type" PROVE FieldsAt(r, i, r[i].kind)
  <2>1. i + n \in 1..Len(q) /\ i \in Nat /\ n \in Nat /\ r[i] = q[i + n]
      BY <1>1, <1>2, <1>8
  <2>2. q[i + n] \in Word
      BY <1>2, <2>1
  <2>3. r[i].kind \in Kinds
      BY <2>1, <2>2 DEF Word, Kinds
  <2>4. FieldsAt(q, i + n, r[i].kind)
      BY <1>4, <1>10, <2>1
  <2> QED
      BY <1>2, <1>8, <2>1, <2>3, <2>4, FieldsShift
<1>11. ASSUME NEW k \in Kinds PROVE Follows(r, device', setting, k)
  <2>1. /\ \A i \in Sent(r, k) : i + n \in Sent(q, k)
        /\ \A i \in Sent(q, k) : i > n => i - n \in Sent(r, k)
        /\ \A i \in Sent(r, k) : IsLast(r, k, i) => IsLast(q, k, i + n)
    <3>1. n \in Nat
        BY <1>1
    <3> QED
        BY <1>2, <1>8, <3>1, SentShift
  <2>2. \A i \in Sent(r, k) : r[i] = q[i + n]
      BY <1>8 DEF Sent
  <2>3. \A i \in Sent(r, k) : IsLast(r, k, i) =>
            Tuned(k, r[i].value) = Tuned(k, setting[k])
      BY <1>5, <2>1, <2>2 DEF Follows
  <2>4. ASSUME Sent(r, k) = {} PROVE device'[k] = Tuned(k, setting[k])
    <3>1. \A i \in Sent(q, k) : i \in 1..n
        BY <1>1, <1>2, <2>1, <2>4 DEF Sent
    <3>2. CASE k = ptype
      <4>1. n \in Sent(q, k) /\ IsLast(q, k, n)
        <5>1. n \in 1..n /\ n \in 1..Len(q)
            BY <1>1, <1>2
        <5>2. n \in Sent(q, k)
            BY <1>7, <3>2, <5>1 DEF Sent
        <5>3. \A i \in Sent(q, k) : i <= n
            BY <3>1
        <5> QED
            BY <5>2, <5>3 DEF IsLast
      <4>2. Tuned(k, q[n].value) = Tuned(k, setting[k]) /\ q[n].value = q[1].value
          BY <1>1, <1>5, <1>7, <4>1 DEF Follows
      <4> QED
          BY <1>1, <1>2, <1>3, <1>6, <3>2, <4>2 DEF Setting, Kinds
    <3>3. CASE k # ptype
      <4>1. Sent(q, k) = {}
          BY <1>7, <3>1, <3>3 DEF Sent
      <4>2. device'[k] = device[k]
          BY <1>2, <1>6, <3>3 DEF Setting, Kinds
      <4> QED
          BY <1>5, <4>1, <4>2 DEF Follows
    <3> QED
        BY <3>2, <3>3
  <2> QED
      BY <2>3, <2>4 DEF Follows
<1> QED
    BY <1>2, <1>9, <1>10, <1>11 DEF Framed

LEMMA RadioInvInit == RadioInit => RadioInv
<1> SUFFICES ASSUME RadioInit PROVE RadioInv
    OBVIOUS
<1>1. Framed(sdr_cmd, ptype)
    BY DEF RadioInit, Framed
<1>2. \A k \in Kinds : Follows(sdr_cmd, device, setting, k)
  <2>1. \A k \in Kinds : Start[k] = Tuned(k, Start[k])
      BY DEF Start, Tuned, Kinds
  <2> QED
      BY <2>1 DEF RadioInit, Follows, Sent
<1>3. FftwUnset
    BY DEF RadioInit, FftwUnset
<1> QED
    BY <1>1, <1>2, <1>3, TypesInit DEF RadioInv

LEMMA RadioInvStep == RadioInv /\ [RadioNext]_radioVars => RadioInv'
<1> SUFFICES ASSUME RadioInv, [RadioNext]_radioVars PROVE RadioInv'
    OBVIOUS
<1>1. RadioTypes'
    BY TypesStep DEF RadioInv
<1> DEFINE Quiet == UNCHANGED <<sdr_cmd, ptype, device, setting>>
<1>2. Framed(sdr_cmd, ptype)' /\ \A k \in Kinds : Follows(sdr_cmd, device, setting, k)'
  <2>1. CASE ReadType
      BY <2>1, ReadTypeKeeps
  <2>2. CASE ReadData
      BY <2>2, ReadDataKeeps
  <2>3. ASSUME NEW c \in Clients, ApplySetting(c)
        PROVE  /\ Framed(sdr_cmd', ptype')
               /\ \A k \in Kinds : Follows(sdr_cmd', device', setting', k)
    <3> DEFINE k == Request(c).type
               v == Request(c).value
    <3>1. Request(c) \in Requests /\ k \in Kinds
        BY <2>3 DEF ApplySetting, TakeRequest, Request, RadioInv, RadioTypes, WireTypes
    <3>2. v \in Values(k)
        BY <3>1, RequestTypes
    <3>3. /\ sdr_cmd' = sdr_cmd \o Command(k, v) /\ setting' = [setting EXCEPT ![k] = v]
          /\ UNCHANGED <<device, ptype>>
        BY <2>3 DEF ApplySetting, deviceVars
    <3>4. /\ sdr_cmd \in Seq(Word) /\ ptype \in Kinds \cup {Nothing}
          /\ device \in Setting /\ setting \in Setting
        BY DEF RadioInv, RadioTypes, DeviceTypes, ServerTypes
    <3> HIDE DEF k, v
    <3>5. Framed(sdr_cmd', ptype')
        BY <3>1, <3>2, <3>3, <3>4, ApplyFramed DEF RadioInv
    <3>6. \A m \in Kinds : Follows(sdr_cmd \o Command(k, v), device, [setting EXCEPT ![k] = v], m)
        BY <3>1, <3>2, <3>4, ApplyFollows DEF RadioInv
    <3> QED
        BY <3>3, <3>5, <3>6
  <2>4. Quiet => Framed(sdr_cmd, ptype)' /\ \A k \in Kinds : Follows(sdr_cmd, device, setting, k)'
      BY DEF RadioInv
  <2>5. CASE UNCHANGED radioVars
      BY <2>4, <2>5 DEF radioVars, serverVars, deviceVars
  <2>6. ASSUME NEW c \in Clients, StartSteps(c) \/ Accept(c) \/ GetInfo(c) \/ Announce(c)
        PROVE  Quiet
      BY <2>6 DEF StartSteps, Connect, WaitForInfo, EnterMainLoop, Accept, GetInfo, Announce,
          serverVars, deviceVars
  <2>7. ASSUME NEW c \in Clients, InfoCb(c) \/ GtkSteps(c) \/ UserSteps(c)
        PROVE  Quiet
      BY <2>7 DEF InfoCb, GtkSteps, AssignFreq, SendFreq, ShowFreq, ShowPpm, SendPpm,
          UserSteps, TypeFreq, StepFreq, TypePpm, TypeGain, GuiRest, serverVars, deviceVars
  <2>8. CASE RadioNext
    <3>1. \/ ReadType \/ ReadData
          \/ \E c \in Clients :
                \/ ApplySetting(c)
                \/ StartSteps(c) \/ Accept(c) \/ GetInfo(c) \/ Announce(c)
                \/ InfoCb(c) \/ GtkSteps(c) \/ UserSteps(c)
        BY <2>8 DEF RadioNext, SessionSteps
    <3> HIDE DEF Quiet
    <3> QED
        BY <3>1, <2>1, <2>2, <2>3, <2>4, <2>6, <2>7
  <2> QED
      BY <2>5, <2>8
<1>3. FftwUnset'
  <2>1. ASSUME NEW c \in Clients, main'[c] = "starting"
        PROVE  main[c] = "starting" /\ known'[c] = known[c]
      BY <2>1, ZenonT(40) DEF RadioInv, RadioTypes, GuiTypes, RadioNext, radioVars, guiVars, ReadType, ReadData,
          StartSteps, Connect, WaitForInfo, EnterMainLoop,
          SessionSteps, Accept, GetInfo, ApplySetting, Announce, InfoCb,
          GtkSteps, AssignFreq, SendFreq, ShowFreq, ShowPpm, SendPpm,
          UserSteps, TypeFreq, StepFreq, TypePpm, TypeGain, GuiRest
  <2> QED
      BY <2>1 DEF RadioInv, FftwUnset
<1> QED
    BY <1>1, <1>2, <1>3 DEF RadioInv

(* The invariant holds in every reachable state. *)
THEOREM RadioInvariance == RadioSpec => []RadioInv
<1> QED
    BY RadioInvInit, RadioInvStep, PTL DEF RadioSpec

(* Every variable holds what the programs can store in it. *)
THEOREM RadioTypeSafe == RadioSpec => []RadioTypeOK
<1>1. RadioInv => RadioTypeOK
  <2>1. sdr_cmd \in Seq(Word) => \A i \in DOMAIN sdr_cmd :
            sdr_cmd[i].tag \in {"type", "data"} /\ sdr_cmd[i].kind \in Kinds
      BY DEF Word, Kinds
  <2> QED
      BY <2>1 DEF RadioInv, RadioTypes, ServerTypes, DeviceTypes, GuiTypes, RadioTypeOK
<1> QED
    BY <1>1, RadioInvariance, PTL

(* No GUI has its conf.fftw set before its main thread waits for the INFO  *)
(* (kukuruku-gui.py, the lock wait_for_info).                              *)
THEOREM FftwUnsetSafe == RadioSpec => []FftwUnset
<1>1. RadioInv => FftwUnset
    BY DEF RadioInv
<1> QED
    BY <1>1, RadioInvariance, PTL

(* The device process reads the commands in the units the server has       *)
(* written them in (set_param_thr, client_parser.c).                       *)
THEOREM DeviceInStepSafe == RadioSpec => []DeviceInStep
<1>1. RadioInv => DeviceInStep
  <2> SUFFICES ASSUME RadioInv, ptype = Nothing, sdr_cmd # <<>>
               PROVE  Head(sdr_cmd).tag = "type"
      BY DEF DeviceInStep
  <2>1. Head(sdr_cmd) = sdr_cmd[1]
      BY DEF RadioInv, RadioTypes, DeviceTypes
  <2> QED
      BY <2>1 DEF RadioInv, Framed
<1> QED
    BY <1>1, RadioInvariance, PTL

LEMMA SomethingIsLast ==
    ASSUME NEW q \in Seq(Word), NEW k, Sent(q, k) # {}
    PROVE  \E i \in Sent(q, k) : IsLast(q, k, i)
<1> DEFINE Behind == {Len(q) - i : i \in Sent(q, k)}
<1>1. Len(q) \in Nat /\ Sent(q, k) \subseteq 1..Len(q)
    BY DEF Sent
<1>2. Behind \subseteq Nat /\ Behind # {}
    BY <1>1
<1>3. PICK m \in Behind : \A n \in Behind : ~(n < m)
  <2> HIDE DEF Behind
  <2> QED
      BY <1>2, NatHasLeast
<1>4. PICK i \in Sent(q, k) : m = Len(q) - i
    BY <1>3
<1>5. ASSUME NEW j \in Sent(q, k) PROVE j <= i
  <2>1. Len(q) - j \in Behind /\ ~(Len(q) - j < Len(q) - i)
      BY <1>3, <1>4
  <2> QED
      BY <1>1, <2>1
<1> QED
    BY <1>5 DEF IsLast

(* Whichever sessions wrote the commands and however far the device is     *)
(* behind, the last of each kind carries the value the server announces    *)
(* (RETUNE, SET_PPM and SET_GAIN in client_parser.c).                      *)
THEOREM DeviceFollowsSafe == RadioSpec => []DeviceFollows
<1>1. RadioInv => DeviceFollows
  <2> SUFFICES ASSUME RadioInv, NEW k \in Kinds
               PROVE  LastSent(k) = Tuned(k, setting[k])
      BY DEF DeviceFollows
  <2> DEFINE sent == {i \in DOMAIN sdr_cmd : sdr_cmd[i].tag = "data" /\ sdr_cmd[i].kind = k}
             last == CHOOSE i \in sent : \A j \in sent : j <= i
  <2>1. sdr_cmd \in Seq(Word) /\ Follows(sdr_cmd, device, setting, k)
      BY DEF RadioInv, RadioTypes, DeviceTypes
  <2>2. sent = Sent(sdr_cmd, k)
      BY <2>1 DEF Sent
  <2>3. LastSent(k) = IF sent = {} THEN device[k] ELSE Tuned(k, sdr_cmd[last].value)
      BY DEF LastSent
  <2>4. ASSUME sent # {} PROVE last \in sent /\ \A j \in sent : j <= last
    <3>1. \E i \in sent : \A j \in sent : j <= i
        BY <2>1, <2>2, <2>4, SomethingIsLast DEF IsLast
    <3> HIDE DEF sent
    <3> QED
        BY <3>1
  <2> HIDE DEF sent, last
  <2> QED
      BY <2>1, <2>2, <2>3, <2>4 DEF Follows, IsLast
<1> QED
    BY <1>1, RadioInvariance, PTL
=============================================================================
