------------------------------ MODULE Scanner ------------------------------
(***************************************************************************)
(* The scanner (scanner/scanner.py, scanner/KukurukuScanner.py), the SDR   *)
(* that fills its pipe, and the sorter of its recordings                   *)
(* (scanner/sorter.py), which edits the scanner's blacklist.conf.          *)
(*                                                                         *)
(*            cron  +-----> flush ----------+                              *)
(*   off -> work ---+                       v                              *)
(*            scan  +-> gain -> flush -> measure -> xlate <-> read -> work *)
(*                                          |        recording             *)
(*                                          +-> work (nothing found)       *)
(*                                                                         *)
(* Samples are blocks that carry the frequency and the gain the device had *)
(* when it took them.  Time is what two clocks of a recording tell: left   *)
(* until stoptime, and passed since lastact.                               *)
(***************************************************************************)
EXTENDS Intervals, Spectrum

CONSTANTS
    ScanFrames,     \* frames that are picked at random
    CronFrames,     \* frames with a cron string, in the order of the files
    NoFrame,
    Times,          \* minute, hour, day, month and weekday of some days
    MessGains,      \* values of messgain, which gain the scanner adjusts
    Gainpcs,        \* the gains the device is given at the start
    MinGain, MaxGain,
    PipeBlocks,     \* blocks the pipe and the buffers before it can hold
    BufBlocks,      \* bufsize
    IntervalBlocks, \* rate * interval, the longest read of a scan
    Spectra,        \* what can be measured, compared to the floor
    Blacklists,     \* what users have written to blacklist.conf
    MaxLines        \* bound: lines of blacklist.conf, with the sorter's

AllFrames == ScanFrames \cup {CronFrames[i] : i \in DOMAIN CronFrames}
ASSUME FramesAssumption ==
    /\ NoFrame \notin AllFrames
    /\ CronFrames \in Seq(AllFrames)
    /\ ScanFrames \cap {CronFrames[i] : i \in DOMAIN CronFrames} = {}
    /\ \A i \in DOMAIN CronFrames : CronFrames[i].channels # <<>>
    /\ \A f \in AllFrames :
        /\ f.freq \in Int /\ f.stick \in Nat /\ f.silencegap \in Nat
        /\ f.channels \in Seq([freq : Int, bw : Int, pipe : STRING])
ASSUME GainAssumption ==    \* of the configuration; ConfReader checks messgain
    /\ MessGains \subseteq -1..3 /\ MessGains # {}
    /\ MinGain \in Int /\ MaxGain \in Int
    /\ Gainpcs \in [0..3 -> Int]
    /\ \A i \in 1..3 : Gainpcs[i] \in MinGain..MaxGain
(* sdrflush is to read "bufsize samples to flush buffers in osmosdr" *)
ASSUME FlushAssumption ==
    PipeBlocks \in Nat /\ BufBlocks \in Nat \ {0} /\ PipeBlocks <= BufBlocks
ASSUME IntervalAssumption == IntervalBlocks \in Nat \ {0}
ASSUME SpectraAssumption == Spectra \subseteq [Bins -> {-1, 0, 1}]

ASSUME BlacklistsAssumption == Blacklists \subseteq Seq(Line)

VARIABLES
    messgain,               \* of main.conf, which nobody edits meanwhile
    blacklistconf,          \* the lines of blacklist.conf
    files,                  \* the recordings in the working directory
    blacklist, archivelist, \* as read at the start
    gain,                   \* of each frame
    sdr,                    \* frequency of the device, and what messgain sets
    pipe,                   \* samples on their way
    work,                   \* where the work thread is
    frame,                  \* the frame it works on
    need,                   \* blocks that pipefile.read still waits for
    buf,                    \* blocks it has read
    peaks,                  \* what is recorded
    left, quiet             \* time until stoptime and since lastact

confVars == <<messgain, blacklistconf, blacklist, archivelist>>
recVars == <<peaks, left, quiet>>
scannerVars == <<messgain, blacklistconf, files, blacklist, archivelist, gain,
                 sdr, pipe, work, frame, need, buf, peaks, left, quiet>>

Recording == {"xlate", "read"}
Block == [freq : Int, gain : Int]

(* gainpcs[messgain]: -1 is the last one. *)
DefaultGain == Gainpcs[IF messgain = -1 THEN 3 ELSE messgain]

(* What set_gain makes of a gain: 0 stands for the gain mode of the device, *)
(* 1, 2 and 3 for its RF, IF and BB gain.  (-1 stands for nothing: the     *)
(* device keeps what it was given at the start.)                           *)
DeviceGain(g) == IF messgain = 0 THEN IF g # 0 THEN 1 ELSE 0 ELSE g

ScannerInit ==
    /\ messgain \in MessGains
    /\ blacklistconf \in Blacklists /\ files = {}
    /\ blacklist = <<>> /\ archivelist = <<>>
    /\ gain = [f \in AllFrames |-> DefaultGain]
    /\ sdr = [freq |-> 0, gain |-> DeviceGain(DefaultGain)] /\ pipe = <<>>
    /\ work = "off" /\ frame = NoFrame /\ need = 0 /\ buf = <<>>
    /\ peaks = <<>> /\ left = 0 /\ quiet = 0

-----------------------------------------------------------------------------
(* The main thread: the configuration is read once, at the start. *)

StartScanner ==
    /\ work = "off"
    /\ LET h == ReadSortedList("h", blacklistconf)
           i == ReadSortedList("i", blacklistconf)
       IN  /\ h.ok /\ i.ok     \* else ConfReader has raised
           /\ blacklist' = h.list /\ archivelist' = i.list
    /\ work' = "work"
    /\ UNCHANGED <<messgain, blacklistconf, files, gain, sdr, pipe, frame, need,
                   buf, recVars>>

(* Enter: the work thread is a daemon and ends wherever it is. *)
Quit ==
    /\ work # "off"
    /\ blacklist' = <<>> /\ archivelist' = <<>>
    /\ gain' = [f \in AllFrames |-> DefaultGain]
    /\ sdr' = [freq |-> 0, gain |-> DeviceGain(DefaultGain)] /\ pipe' = <<>>
    /\ work' = "off" /\ frame' = NoFrame /\ need' = 0 /\ buf' = <<>>
    /\ peaks' = <<>> /\ left' = 0 /\ quiet' = 0
    /\ UNCHANGED <<messgain, blacklistconf, files>>

(* The flowgraph: samples that find the buffers full are lost. *)
Capture ==
    /\ work # "off"
    /\ Len(pipe) < PipeBlocks
    /\ pipe' = Append(pipe, sdr)
    /\ UNCHANGED <<confVars, files, gain, sdr, work, frame, need, buf, recVars>>

-----------------------------------------------------------------------------
(* The work thread *)

(* The first frame whose cron string matches, if any does *)
FindCronjob(now) ==
    {i \in DOMAIN CronFrames :
        /\ Crontest(CronFrames[i].cron, now)
        /\ \A j \in 1..(i - 1) : ~Crontest(CronFrames[j].cron, now)}

(* record_long: the gain stays as it is. *)
PickCron ==
    /\ work = "work"
    /\ \E now \in Times : \E i \in FindCronjob(now) : frame' = CronFrames[i]
    /\ sdr' = [sdr EXCEPT !.freq = frame'.freq]
    /\ work' = "flush" /\ need' = BufBlocks /\ buf' = <<>>
    /\ UNCHANGED <<confVars, files, gain, pipe, recVars>>

(* scan *)
PickScan ==
    /\ work = "work"
    /\ \E now \in Times : FindCronjob(now) = {}
    /\ \E f \in ScanFrames : frame' = f     \* the hash of the time picks one
    /\ sdr' = [sdr EXCEPT !.freq = frame'.freq]
    /\ work' = "gain"
    /\ UNCHANGED <<confVars, files, gain, pipe, need, buf, recVars>>

(* set_gain(messgain, g) raises for -1, and the thread is gone. *)
Raises == messgain = -1
Dies == work' = "dead" /\ UNCHANGED <<frame, need, buf, recVars>>
SetGain(g) ==
    sdr' = IF Raises THEN sdr ELSE [sdr EXCEPT !.gain = DeviceGain(g)]

(* Bug: the measurement does not wait for the buffers to run dry. *)
SetScanGainUnflushed ==
    /\ work = "gain"
    /\ SetGain(gain[frame])
    /\ IF Raises THEN Dies
       ELSE /\ work' = "flush" /\ need' = 0 /\ buf' = <<>>
            /\ UNCHANGED <<frame, recVars>>
    /\ UNCHANGED <<confVars, files, gain, pipe>>

SetScanGain ==
    /\ work = "gain"
    /\ SetGain(gain[frame])
    /\ IF Raises THEN Dies
       ELSE /\ work' = "flush" /\ need' = BufBlocks /\ buf' = <<>>
            /\ UNCHANGED <<frame, recVars>>
    /\ UNCHANGED <<confVars, files, gain, pipe>>

(* pipefile.read, a block at a time; what sdrflush reads is dropped. *)
Read ==
    /\ need > 0 /\ pipe # <<>>
    /\ need' = need - 1
    /\ pipe' = Tail(pipe)
    /\ buf' = IF work = "flush" THEN <<>> ELSE Append(buf, Head(pipe))
    /\ UNCHANGED <<confVars, files, gain, sdr, work, frame, recVars>>

(* A scan reads up to the next multiple of the interval. *)
FlushedScan ==
    /\ work = "flush" /\ need = 0 /\ frame \in ScanFrames
    /\ work' = "measure" /\ need' \in 1..IntervalBlocks
    /\ UNCHANGED <<confVars, files, gain, sdr, pipe, frame, buf, recVars>>

-----------------------------------------------------------------------------
(* Gain *)

(* Bug: only the lower bound of the gain is enforced. *)
ClippedBelow(g) == IF g < MinGain THEN MinGain ELSE g

Clipped(g) == IF g < MinGain THEN MinGain ELSE IF g > MaxGain THEN MaxGain ELSE g

(* Bug: the correction is counted twice. *)
UpdateAndSetGainTwice ==
    \E diff \in {-1, 0, 1} :
        /\ gain' = [gain EXCEPT ![frame] = Clipped(@ + 2 * diff)]
        /\ SetGain(gain'[frame])

(* The histogram has samples near full scale, none in its upper half, or   *)
(* neither.                                                                *)
UpdateAndSetGain ==
    \E diff \in {-1, 0, 1} :
        /\ gain' = [gain EXCEPT ![frame] = Clipped(@ + diff)]
        /\ SetGain(gain'[frame])

-----------------------------------------------------------------------------
(* Recording *)

(* do_record or scan returns. *)
BackToWork ==
    /\ work' = "work" /\ frame' = NoFrame /\ buf' = <<>> /\ UNCHANGED need
    /\ peaks' = <<>> /\ left' = 0 /\ quiet' = 0

FilterBlacklist(found) ==
    LET kept == Sublist(found, {i \in DOMAIN found :
                    ~FindInIntervalList(blacklist, found[i].freq + frame.freq)})
    IN  [i \in DOMAIN kept |->
            [kept[i] EXCEPT !.archive =
                FindInIntervalList(archivelist, kept[i].freq + frame.freq)]]

(* The file name holds the frequency and the rate of the channel. *)
FileOf(p) == [freq |-> p.freq + frame.freq, bw |-> Rate \div CeilDiv(Rate, p.bw)]

(* do_record opens a pipe or a file for each peak. *)
DoRecord(what) ==
    /\ peaks' = what
    /\ files' = files \cup {FileOf(what[i]) : i \in
                    {j \in DOMAIN what : what[j].pipe = NoPipe /\ ~what[j].archive}}
    /\ left' = frame.stick /\ quiet' = 0

FlushedCron ==
    /\ work = "flush" /\ need = 0 /\ frame \notin ScanFrames
    /\ DoRecord([i \in DOMAIN frame.channels |->
            Peak(frame.channels[i].freq - frame.freq, frame.channels[i].bw,
                 frame.channels[i].pipe, TRUE)])
    /\ work' = "read" /\ need' = BufBlocks
    /\ UNCHANGED <<confVars, gain, sdr, pipe, frame, buf>>

(* A read shorter than one FFT gives a spectrum of NaN, which has no peak. *)
Nothing(found) ==
    /\ FilterBlacklist(found) = <<>>
    /\ UpdateAndSetGain
    /\ IF Raises THEN Dies ELSE BackToWork
    /\ UNCHANGED files
Something(found) ==
    LET kept == FilterBlacklist(found)
    IN  /\ kept # <<>>
        /\ DoRecord([i \in DOMAIN kept |-> AsChannel(kept[i], frame)])
        /\ work' = "xlate"
        /\ UNCHANGED <<gain, sdr, frame, need, buf>>
Measure ==
    /\ work = "measure" /\ need = 0
    /\ \E acc \in Spectra :
        \/ Nothing(FindPeaks(acc))
        \/ Something(FindPeaks(acc))
    /\ UNCHANGED <<confVars, pipe>>

(* Bug: stoptime is not looked at. *)
ExpiredSilent == frame.stickactivity /\ quiet > frame.silencegap

Expired ==
    IF frame.stickactivity THEN quiet > frame.silencegap ELSE left < 0

(* The buffer goes to the channels; then stop, or set the gain and go on. *)
XlateStop ==
    /\ work = "xlate" /\ Expired
    /\ BackToWork
    /\ UNCHANGED <<confVars, files, gain, sdr, pipe>>
XlateOn ==
    /\ work = "xlate" /\ ~Expired
    /\ UpdateAndSetGain
    /\ IF Raises THEN Dies
       ELSE /\ work' = "read" /\ buf' = <<>> /\ need' = BufBlocks
            /\ UNCHANGED <<frame, recVars>>
    /\ UNCHANGED <<confVars, files, pipe>>

(* The next buffer; check_activity may raise, and the thread is gone. *)
ReadFixed ==
    /\ work = "read" /\ need = 0 /\ ~frame.stickactivity
    /\ work' = "xlate"
    /\ UNCHANGED <<confVars, files, gain, sdr, pipe, frame, need, buf, recVars>>
ReadActivity ==
    /\ work = "read" /\ need = 0 /\ frame.stickactivity
    /\ \E above \in SUBSET Bins :
        LET Seen(what) == \E i \in DOMAIN peaks : CheckActivity(above, peaks[i]) = what
        IN  /\ work' = IF Seen("IndexError") THEN "dead" ELSE "xlate"
            /\ quiet' = IF Seen("active") THEN 0 ELSE quiet
    /\ UNCHANGED <<confVars, files, gain, sdr, pipe, frame, need, buf, peaks, left>>

(* time.time(): a tick beyond what the checks tell apart is no step. *)
Tick ==
    /\ work \in Recording
    /\ left' = IF left >= 0 THEN left - 1 ELSE left
    /\ quiet' = IF quiet <= frame.silencegap THEN quiet + 1 ELSE quiet
    /\ UNCHANGED <<confVars, files, gain, sdr, pipe, work, frame, need, buf, peaks>>

-----------------------------------------------------------------------------
(* The sorter: a verdict on a recording may add a line to blacklist.conf,  *)
(* and delete or archive the recording.                                    *)
Sort ==
    /\ \E file \in files :
        /\ \/ UNCHANGED blacklistconf
           \/ /\ Len(blacklistconf) < MaxLines      \* bound
              /\ \E tag \in {"h", "i"} :
                    blacklistconf' = Append(blacklistconf,
                        [tag |-> tag, freq |-> file.freq, bw |-> file.bw])
        /\ files' \in {files, files \ {file}}
    /\ UNCHANGED <<messgain, blacklist, archivelist, gain, sdr, pipe, work, frame,
                   need, buf, recVars>>

-----------------------------------------------------------------------------
WorkSteps ==
    \/ PickCron \/ PickScan \/ SetScanGain \/ Read \/ FlushedScan \/ FlushedCron
    \/ Measure \/ XlateStop \/ XlateOn \/ ReadFixed \/ ReadActivity
ScannerNext == StartScanner \/ Quit \/ Capture \/ WorkSteps \/ Tick \/ Sort
ScannerSpec == ScannerInit /\ [][ScannerNext]_scannerVars

(* The device, the work thread and time go on; the user need not act. *)
ScannerFairSpec ==
    /\ ScannerSpec
    /\ WF_scannerVars(Capture) /\ WF_scannerVars(WorkSteps) /\ WF_scannerVars(Tick)

-----------------------------------------------------------------------------
(* Every variable holds what the programs can store in it: the gains are   *)
(* in range once they have been corrected, and a buffer holds bufsize, or  *)
(* up to the whole interval in what a scan has read.                       *)
ScannerTypeOK ==
    /\ blacklistconf \in Seq(Line)
    /\ \A file \in files : file.freq \in Int /\ file.bw \in 0..Rate
    /\ messgain \in MessGains
    /\ gain \in [AllFrames -> (MinGain..MaxGain) \cup {DefaultGain}]
    /\ sdr \in Block
    /\ pipe \in Seq(Block) /\ Len(pipe) <= PipeBlocks
    /\ work \in {"off", "work", "gain", "flush", "measure", "dead"} \cup Recording
    /\ frame \in AllFrames \cup {NoFrame}
    /\ need \in Nat /\ buf \in Seq(Block)
    /\ work \in {"flush", "read"} => Len(buf) + need <= BufBlocks
    /\ work = "measure" => Len(buf) + need <= IntervalBlocks
    /\ left \in Int /\ left >= -1
    /\ quiet \in Nat

(* Whatever the pipe held when a frame was tuned, the spectrum of the frame *)
(* is computed from samples of its own frequency and of what set_gain makes *)
(* of its own gain only, however long the scan reads.                      *)
SpectrumIsOfItsFrame ==
    work = "measure" => \A i \in DOMAIN buf :
        buf[i] = [freq |-> frame.freq, gain |-> DeviceGain(gain[frame])]

(* While a scanned frame is recorded, its gain is corrected by samples that *)
(* are at most one correction old, so that it does not run away while the  *)
(* pipe is behind.  Scheduled recordings are left aside: record_long does  *)
(* not give the device the gain of their frame, so the first correction    *)
(* judges samples of whatever gain the device had.  So is messgain 0, with *)
(* which the device never gets the gain.                                   *)
GainFollowsSamples ==
    work = "xlate" /\ frame \in ScanFrames /\ messgain \in 1..3 =>
        gain[frame] - Head(buf).gain \in {-1, 0, 1}

(* What the scanner ignores has been listed: each interval it uses begins  *)
(* where an "h" line of blacklist.conf does and ends where one does, has   *)
(* nothing in it that none of them covers, and does not touch another,     *)
(* however the lines overlap and whatever the sorter adds to them since.   *)
(* That all they cover is ignored is not claimed: see Union.               *)
HLines == {IntervalOf(blacklistconf[k]) :
              k \in {i \in DOMAIN blacklistconf : blacklistconf[i].tag = "h"}}
Covers(interval, f) == Start(interval) <= f /\ f <= End(interval)
BlacklistSound ==
    /\ \A i \in DOMAIN blacklist :
        /\ \E h \in HLines : Start(h) = Start(blacklist[i])
        /\ \E h \in HLines : End(h) = End(blacklist[i])
        /\ \A f \in Start(blacklist[i])..End(blacklist[i]) :
            \E h \in HLines : Covers(h, f)
    /\ FollowEachOther(blacklist)

(* A signal inside the last interval of the list is never recorded, unless *)
(* as a channel of the frame.                                              *)
LastIsIgnored ==
    work \in Recording /\ frame \in ScanFrames /\ blacklist # <<>> =>
        \A i \in DOMAIN peaks :
            Inside(peaks[i].freq + frame.freq, blacklist[Len(blacklist)]) =>
                \E k \in DOMAIN frame.channels :
                    peaks[i].freq = frame.channels[k].freq - frame.freq

(* find_in_interval_list: "return True if key is in some interval";        *)
(* filter_blacklist: "remove peaks that have center frequency with "h"     *)
(* flag in blacklist".                                                     *)
ListedAreIgnored ==
    work \in Recording /\ frame \in ScanFrames =>
        \A i \in DOMAIN peaks, k \in DOMAIN blacklist :
            peaks[i].pipe = NoPipe => ~Inside(peaks[i].freq + frame.freq, blacklist[k])

(* Two facts about functions, looked at while the scanner is off.          *)
(* In a spectrum without a bin on the floor and with bin 0 below it,       *)
(* find_peaks finds the runs of bins above the floor that end before the   *)
(* last bin, each from its rising to its falling edge.  What it makes of a *)
(* bin on the floor, or of a signal in bin 0, is not claimed here: there   *)
(* First is left from an earlier run, as the definition shows.             *)
PeaksAreRuns ==
    work = "off" => \A acc \in CleanSpectra :
        {Spans(acc)[k] : k \in DOMAIN Spans(acc)} = Runs(acc)
(* The frames planned for a range leave no gap in it, if the range is at   *)
(* least a step wide (a narrower one gets no frame) and what is lost in    *)
(* rounding the distance of the frames fits into their overlap (otherwise  *)
(* the upper end of the range is left out).                                *)
RangesAreCovered ==
    work = "off" => \A freqstart \in {1, Step}, width \in Step..(4 * Step) :
        RoundingFits(width) =>
            \A f \in freqstart..(freqstart + width) :
                Covered(f, freqstart, freqstart + width)

(* The recording of a frame with a fixed length ends, and the scanner      *)
(* turns to the next frame, unless it is quit.  With messgain -1           *)
(* ("autogain disabled", main.conf) the thread may end with the recording. *)
RecordingEnds ==
    work \in Recording /\ ~frame.stickactivity
        ~> work \in {"work", "off"} \/ (Raises /\ work = "dead")
=============================================================================
