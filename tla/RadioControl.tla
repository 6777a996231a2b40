---------------------------- MODULE RadioControl ----------------------------
(***************************************************************************)
(* The settings of the radio -- frequency, clock correction and gain -- on *)
(* their way from a text box of one GUI (client/kukuruku-gui.py) through   *)
(* libclient and the server (server/client_parser.c) to the device process *)
(* (server/osmosdr-input.py), and back to the text boxes of every GUI.     *)
(*                                                                         *)
(* GUI: starting ---> waiting --- INFO ---> notified ---> running          *)
(* server, per session: write the command, keep the value; then, in a      *)
(*   second critical section of llmutex, broadcast INFO                    *)
(*                                                                         *)
(* A step of the GTK thread is one Python statement: the receiver thread   *)
(* may run between any two.                                                *)
(***************************************************************************)
EXTENDS Wire

CONSTANTS
    FreqStep,       \* samplerate * 0.8
    TypedFreqs,     \* what users type into the boxes
    TypedPpms,
    TypedGains,     \* sequences of one to four integers
    MaxChanges      \* bound: settings changed by users in a behaviour

ASSUME TypedAssumption ==
    /\ FreqStep \in Int /\ TypedPpms \subseteq Int
    /\ TypedFreqs \subseteq Int \ {0}      \* on_freq_change ignores a zero
    /\ \A g \in TypedGains : g \in Seq(Int) /\ Len(g) \in 1..4
ASSUME ChangesAssumption == MaxChanges \in Nat

VARIABLES
    setting,    \* frequency, ppm and gain of server.c
    session,    \* client_read_thr
    sdr_cmd,    \* the command FIFO, in words of 4 bytes and type bytes
    device,     \* what the osmosdr source is set to
    ptype,      \* set_param_thr: the type byte it has read
    main,       \* the GUI's main thread until it enters Gtk.main
    known,      \* conf.fftw is not None
    frequency, ppm,             \* globals of the GUI
    tb_freq, tb_ppm, tb_gain,   \* its text boxes
    gtk,        \* the next statement of the GTK thread
    changes

serverVars == <<setting, session>>
deviceVars == <<device, ptype>>
guiVars == <<main, known, frequency, ppm, tb_freq, tb_ppm, tb_gain, gtk>>
radioVars == <<wireVars, serverVars, sdr_cmd, deviceVars, guiVars, changes>>

Kinds == {"TUNE", "PPM", "GAIN"}
Gains == [1..4 -> Int]
Setting == [TUNE : Int, PPM : Int, GAIN : Gains]
Nothing == "nothing"
Idle == [next |-> "none"]

(* The server and the device process start with the same command line. *)
Start == [TUNE |-> 0, PPM |-> 0, GAIN |-> <<1, 0, 0, 0>>]

RadioInit ==
    /\ WireInit
    /\ setting = Start /\ session = [c \in Clients |-> "none"]
    /\ sdr_cmd = <<>> /\ device = Start /\ ptype = Nothing
    /\ main = [c \in Clients |-> "starting"]
    /\ known = [c \in Clients |-> FALSE]
    /\ frequency = [c \in Clients |-> 0] /\ ppm = [c \in Clients |-> 0]
    /\ tb_freq = [c \in Clients |-> 0] /\ tb_ppm = [c \in Clients |-> 0]
    /\ tb_gain = [c \in Clients |-> <<0>>]
    /\ gtk = [c \in Clients |-> Idle]
    /\ changes = 0

-----------------------------------------------------------------------------
(* The server *)

Info == [type |-> "INFO", value |-> setting]
ToOne(c, d) == IF d = c THEN <<Info>> ELSE <<>>
ToAll(d) == IF session[d] # "none" THEN <<Info>> ELSE <<>>

(* connect has queued GET_INFO; accept, and the client joins the list. *)
Accept(c) ==
    /\ session[c] = "none"
    /\ toserver[c] # <<>>
    /\ session' = [session EXCEPT ![c] = "idle"]
    /\ UNCHANGED <<wireVars, setting, sdr_cmd, deviceVars, guiVars, changes>>

(* GET_INFO *)
GetInfo(c) ==
    /\ session[c] = "idle"
    /\ TakeRequest(c)
    /\ Request(c).type = "GET_INFO"
    /\ WriteAll([d \in Clients |-> ToOne(c, d)])
    /\ UNCHANGED <<serverVars, sdr_cmd, deviceVars, guiVars, changes>>

(* Bug: the correction is sent with the width of a frequency. *)
WordsWide == [TUNE |-> 2, PPM |-> 2, GAIN |-> 4]

(* A command: its type byte, then its fields.  fflush writes it in one     *)
(* piece, which a FIFO keeps together.                                     *)
Words == [TUNE |-> 2, PPM |-> 1, GAIN |-> 4]
Command(k, v) ==
    <<[tag |-> "type", kind |-> k]>>
        \o [i \in 1..Words[k] |-> [tag |-> "data", kind |-> k, value |-> v]]

(* Bug: SET_PPM does not keep the value it has sent to the device. *)
ApplyNotKept(c) ==
    /\ session[c] = "idle"
    /\ TakeRequest(c)
    /\ Request(c).type \in Kinds
    /\ LET k == Request(c).type
           v == Request(c).value
       IN  /\ sdr_cmd' = sdr_cmd \o Command(k, v)
           /\ setting' = IF k = "PPM" THEN setting ELSE [setting EXCEPT ![k] = v]
    /\ session' = [session EXCEPT ![c] = "announce"]
    /\ UNCHANGED <<toclient, deviceVars, guiVars, changes>>

(* RETUNE, SET_PPM and SET_GAIN: the command and the global, under llmutex *)
ApplySetting(c) ==
    /\ session[c] = "idle"
    /\ TakeRequest(c)
    /\ Request(c).type \in Kinds
    /\ LET k == Request(c).type
           v == Request(c).value
       IN  /\ sdr_cmd' = sdr_cmd \o Command(k, v)
           /\ setting' = [setting EXCEPT ![k] = v]
    /\ session' = [session EXCEPT ![c] = "announce"]
    /\ UNCHANGED <<toclient, deviceVars, guiVars, changes>>

(* Bug: only the client that made the change hears of it. *)
AnnounceToMe(c) ==
    /\ session[c] = "announce"
    /\ WriteAll([d \in Clients |-> ToOne(c, d)])
    /\ session' = [session EXCEPT ![c] = "idle"]
    /\ UNCHANGED <<toserver, setting, sdr_cmd, deviceVars, guiVars, changes>>

(* msg_server_info to all, in a critical section of its own: it sends the  *)
(* globals as they are by then.                                            *)
Announce(c) ==
    /\ session[c] = "announce"
    /\ WriteAll([d \in Clients |-> ToAll(d)])
    /\ session' = [session EXCEPT ![c] = "idle"]
    /\ UNCHANGED <<toserver, setting, sdr_cmd, deviceVars, guiVars, changes>>

-----------------------------------------------------------------------------
(* The device process *)

Reads == [TUNE |-> 2, PPM |-> 1, GAIN |-> 4]

ReadType ==
    /\ ptype = Nothing /\ sdr_cmd # <<>>
    /\ Head(sdr_cmd).tag = "type"
    /\ ptype' = Head(sdr_cmd).kind
    /\ sdr_cmd' = Tail(sdr_cmd)
    /\ UNCHANGED <<wireVars, serverVars, device, guiVars, changes>>

(* set_gain_mode takes a boolean, the other gains are passed on. *)
Tuned(k, v) ==
    IF k = "GAIN" THEN [v EXCEPT ![1] = IF @ = 0 THEN 0 ELSE 1] ELSE v

ReadData ==
    /\ ptype # Nothing
    /\ Len(sdr_cmd) >= Reads[ptype]
    /\ device' = [device EXCEPT ![ptype] = Tuned(ptype, Head(sdr_cmd).value)]
    /\ sdr_cmd' = SubSeq(sdr_cmd, Reads[ptype] + 1, Len(sdr_cmd))
    /\ ptype' = Nothing
    /\ UNCHANGED <<wireVars, serverVars, guiVars, changes>>

-----------------------------------------------------------------------------
(* The GUI's start: wait_for_info is taken before connect, so that info_cb *)
(* cannot notify before the main thread waits.                             *)

Connect(c) ==
    /\ main[c] = "starting" /\ session[c] = "none" /\ toserver[c] = <<>>
    /\ q_msg(c, [type |-> "GET_INFO"])
    /\ UNCHANGED <<toclient, serverVars, sdr_cmd, deviceVars, guiVars, changes>>

WaitForInfo(c) ==
    /\ main[c] = "starting"
    /\ toserver[c] # <<>> \/ session[c] # "none"
    /\ main' = [main EXCEPT ![c] = "waiting"]
    /\ UNCHANGED <<wireVars, serverVars, sdr_cmd, deviceVars, known, frequency,
                   ppm, tb_freq, tb_ppm, tb_gain, gtk, changes>>

EnterMainLoop(c) ==
    /\ main[c] = "notified"
    /\ main' = [main EXCEPT ![c] = "running"]
    /\ UNCHANGED <<wireVars, serverVars, sdr_cmd, deviceVars, known, frequency,
                   ppm, tb_freq, tb_ppm, tb_gain, gtk, changes>>

(* Bug: info_cb does not take wait_for_info. *)
InfoCbUnlocked(c) ==
    /\ TakeMessage(c)
    /\ LET msg == Message(c).value
       IN  /\ frequency' = [frequency EXCEPT ![c] = msg.TUNE]
           /\ ppm' = [ppm EXCEPT ![c] = msg.PPM]
           /\ tb_freq' = [tb_freq EXCEPT ![c] = msg.TUNE]
           /\ tb_ppm' = [tb_ppm EXCEPT ![c] = msg.PPM]
           /\ tb_gain' = [tb_gain EXCEPT ![c] = msg.GAIN]
    /\ known' = [known EXCEPT ![c] = TRUE]
    /\ main' = [main EXCEPT ![c] = IF @ = "waiting" THEN "notified" ELSE @]
    /\ UNCHANGED <<toserver, serverVars, sdr_cmd, deviceVars, gtk, changes>>

(* process_info and info_cb, in the receiver thread *)
InfoCb(c) ==
    /\ TakeMessage(c)
    /\ main[c] # "starting"     \* which holds wait_for_info
    /\ LET msg == Message(c).value
       IN  /\ frequency' = [frequency EXCEPT ![c] = msg.TUNE]
           /\ ppm' = [ppm EXCEPT ![c] = msg.PPM]
           /\ tb_freq' = [tb_freq EXCEPT ![c] = msg.TUNE]
           /\ tb_ppm' = [tb_ppm EXCEPT ![c] = msg.PPM]
           /\ tb_gain' = [tb_gain EXCEPT ![c] = msg.GAIN]
    /\ known' = [known EXCEPT ![c] = TRUE]
    /\ main' = [main EXCEPT ![c] = IF @ = "waiting" THEN "notified" ELSE @]
    /\ UNCHANGED <<toserver, serverVars, sdr_cmd, deviceVars, gtk, changes>>

-----------------------------------------------------------------------------
(* The GUI's text boxes and buttons *)

User(c) ==
    /\ main[c] = "running" /\ gtk[c] = Idle
    /\ changes < MaxChanges     \* bound
    /\ changes' = changes + 1
GuiRest == <<toclient, serverVars, sdr_cmd, deviceVars, main, known>>

(* on_freq_change: the request, and only then the global *)
TypeFreq(c) ==
    /\ User(c)
    /\ \E f \in TypedFreqs :
        /\ tb_freq' = [tb_freq EXCEPT ![c] = f]
        /\ q_msg(c, [type |-> "TUNE", value |-> f])
        /\ gtk' = [gtk EXCEPT ![c] = [next |-> "assign", freq |-> f]]
    /\ UNCHANGED <<GuiRest, frequency, ppm, tb_ppm, tb_gain>>
AssignFreq(c) ==
    /\ gtk[c].next = "assign"
    /\ frequency' = [frequency EXCEPT ![c] = gtk[c].freq]
    /\ gtk' = [gtk EXCEPT ![c] = Idle]
    /\ UNCHANGED <<GuiRest, toserver, ppm, tb_freq, tb_ppm, tb_gain, changes>>

(* on_freq_plus and on_freq_minus: the global, the request, the box *)
StepFreq(c) ==
    /\ User(c)
    /\ \E delta \in {FreqStep, -FreqStep} :
        frequency' = [frequency EXCEPT ![c] = @ + delta]
    /\ gtk' = [gtk EXCEPT ![c] = [next |-> "retune"]]
    /\ UNCHANGED <<GuiRest, toserver, ppm, tb_freq, tb_ppm, tb_gain>>
SendFreq(c) ==
    /\ gtk[c].next = "retune"
    /\ q_msg(c, [type |-> "TUNE", value |-> frequency[c]])
    /\ gtk' = [gtk EXCEPT ![c] = [next |-> "show"]]
    /\ UNCHANGED <<GuiRest, frequency, ppm, tb_freq, tb_ppm, tb_gain, changes>>
ShowFreq(c) ==
    /\ gtk[c].next = "show"
    /\ tb_freq' = [tb_freq EXCEPT ![c] = frequency[c]]
    /\ gtk' = [gtk EXCEPT ![c] = Idle]
    /\ UNCHANGED <<GuiRest, toserver, frequency, ppm, tb_ppm, tb_gain, changes>>

(* on_ppm_change: the global, the box, the request *)
TypePpm(c) ==
    /\ User(c)
    /\ \E p \in TypedPpms :
        /\ tb_ppm' = [tb_ppm EXCEPT ![c] = p]
        /\ ppm' = [ppm EXCEPT ![c] = p]
    /\ gtk' = [gtk EXCEPT ![c] = [next |-> "ppm"]]
    /\ UNCHANGED <<GuiRest, toserver, frequency, tb_freq, tb_gain>>
ShowPpm(c) ==
    /\ gtk[c].next = "ppm"
    /\ tb_ppm' = [tb_ppm EXCEPT ![c] = ppm[c]]
    /\ gtk' = [gtk EXCEPT ![c] = [next |-> "set_ppm"]]
    /\ UNCHANGED <<GuiRest, toserver, frequency, ppm, tb_freq, tb_gain, changes>>
SendPpm(c) ==
    /\ gtk[c].next = "set_ppm"
    /\ q_msg(c, [type |-> "PPM", value |-> ppm[c]])
    /\ gtk' = [gtk EXCEPT ![c] = Idle]
    /\ UNCHANGED <<GuiRest, frequency, ppm, tb_freq, tb_ppm, tb_gain, changes>>

(* Bug: only the elements typed are sent. *)
Unextended(g) == g

(* set_gain: the last element typed stands for the missing ones. *)
Extended(g) == [i \in 1..4 |-> g[IF i <= Len(g) THEN i ELSE Len(g)]]

(* on_gain_change *)
TypeGain(c) ==
    /\ User(c)
    /\ \E g \in TypedGains :
        /\ tb_gain' = [tb_gain EXCEPT ![c] = g]
        /\ q_msg(c, [type |-> "GAIN", value |-> Extended(g)])
    /\ UNCHANGED <<GuiRest, frequency, ppm, tb_freq, tb_ppm, gtk>>

-----------------------------------------------------------------------------
GtkSteps(c) ==
    \/ AssignFreq(c) \/ SendFreq(c) \/ ShowFreq(c) \/ ShowPpm(c) \/ SendPpm(c)
StartSteps(c) == Connect(c) \/ WaitForInfo(c) \/ EnterMainLoop(c)
SessionSteps(c) == Accept(c) \/ GetInfo(c) \/ ApplySetting(c) \/ Announce(c)
UserSteps(c) == TypeFreq(c) \/ StepFreq(c) \/ TypePpm(c) \/ TypeGain(c)

RadioNext ==
    \/ ReadType \/ ReadData
    \/ \E c \in Clients :
        StartSteps(c) \/ SessionSteps(c) \/ InfoCb(c) \/ GtkSteps(c) \/ UserSteps(c)

RadioSpec == RadioInit /\ [][RadioNext]_radioVars

(* Every thread of the three programs keeps running; users need not act. *)
RadioFairness ==
    /\ WF_radioVars(ReadType \/ ReadData)
    /\ \A c \in Clients :
        /\ WF_radioVars(StartSteps(c)) /\ WF_radioVars(SessionSteps(c))
        /\ WF_radioVars(InfoCb(c)) /\ WF_radioVars(GtkSteps(c))

RadioFairSpec == RadioSpec /\ RadioFairness

-----------------------------------------------------------------------------
(* Every variable holds what the programs can store in it. *)
RadioTypeOK ==
    /\ setting \in Setting /\ device \in Setting
    /\ session \in [Clients -> {"none", "idle", "announce"}]
    /\ ptype \in Kinds \cup {Nothing}
    /\ \A i \in DOMAIN sdr_cmd :
        sdr_cmd[i].tag \in {"type", "data"} /\ sdr_cmd[i].kind \in Kinds
    /\ main \in [Clients -> {"starting", "waiting", "notified", "running"}]
    /\ known \in [Clients -> BOOLEAN]
    /\ frequency \in [Clients -> Int] /\ ppm \in [Clients -> Int]
    /\ tb_freq \in [Clients -> Int] /\ tb_ppm \in [Clients -> Int]
    /\ tb_gain \in [Clients -> Seq(Int)]
    /\ changes \in 0..MaxChanges

(* The main thread gets to its wait before any INFO has set conf.fftw      *)
(* (kukuruku-gui.py raises "fftw set before we wanted to wait for it???"). *)
FftwUnset == \A c \in Clients : main[c] = "starting" => ~known[c]

(* The device process never takes a field of one command for the type byte *)
(* of another: writer and reader agree on the length of every command.     *)
DeviceInStep ==
    ptype = Nothing /\ sdr_cmd # <<>> => Head(sdr_cmd).tag = "type"

(* The last command of each kind carries the value the server announces,   *)
(* whichever sessions wrote them and however far the device is behind.     *)
LastSent(k) ==
    LET sent == {i \in DOMAIN sdr_cmd : sdr_cmd[i].tag = "data" /\ sdr_cmd[i].kind = k}
    IN  IF sent = {} THEN device[k]
        ELSE Tuned(k, sdr_cmd[CHOOSE i \in sent : \A j \in sent : j <= i].value)
DeviceFollows == \A k \in Kinds : LastSent(k) = Tuned(k, setting[k])

(* When users stop, every GUI that was started runs, the text boxes of all *)
(* of them show the same settings, and the device is set to them.          *)
Settled ==
    /\ device = [k \in Kinds |-> Tuned(k, setting[k])]
    /\ \A c \in Clients :
        /\ main[c] = "running"
        /\ tb_freq[c] = setting["TUNE"]
        /\ tb_ppm[c] = setting["PPM"]
        /\ tb_gain[c] = setting["GAIN"]
Settles == <>[]Settled
=============================================================================
