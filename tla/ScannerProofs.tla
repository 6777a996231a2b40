--------------------------- MODULE ScannerProofs ----------------------------
(***************************************************************************)
(* Proofs about the scanner for every size of the buffers, every gain      *)
(* range, every set of frames and spectra and every blacklist: what a      *)
(* spectrum and a gain correction are computed from, which intervals are   *)
(* ignored, and what is recorded nevertheless.                             *)
(***************************************************************************)
EXTENDS ScannerInv, ScanFunctionProofs, TLAPS

flushVars == <<messgain, frame, gain, sdr, pipe, buf, need, work>>

-----------------------------------------------------------------------------
LEMMA FrameTypes == \A f \in AllFrames : f.freq \in Int
BY FramesAssumption

LEMMA ScanFramesAreFrames == ScanFrames \subseteq AllFrames /\ NoFrame \notin ScanFrames
BY FramesAssumption DEF AllFrames

(* A correction changes the gain by at most one and leaves it in range. *)
LEMMA ClippedNear ==
    ASSUME NEW g \in MinGain..MaxGain, NEW diff \in {-1, 0, 1}
    PROVE  Clipped(g + diff) \in MinGain..MaxGain /\ Clipped(g + diff) - g \in {-1, 0, 1}
BY GainAssumption DEF Clipped

(* The gains of the configuration, and what set_gain makes of a gain *)
LEMMA Gains ==
    ASSUME messgain \in MessGains
    PROVE  /\ DefaultGain \in Int
           /\ messgain # 0 => DefaultGain \in MinGain..MaxGain
           /\ \A g \in Int : DeviceGain(g) \in Int /\ (messgain # 0 => DeviceGain(g) = g)
BY GainAssumption DEF DefaultGain, DeviceGain

LEMMA GainsKept ==
    ASSUME messgain' = messgain
    PROVE  DefaultGain' = DefaultGain /\ \A g : DeviceGain(g)' = DeviceGain(g)
BY DEF DefaultGain, DeviceGain

LEMMA FlushInit == ScannerInit => FlushInv
<1> SUFFICES ASSUME ScannerInit PROVE FlushInv
    OBVIOUS
<1>1. DefaultGain \in Int /\ DeviceGain(DefaultGain) \in Int
    BY Gains DEF ScannerInit
<1> QED
    BY <1>1, GainAssumption, FlushAssumption
    DEF ScannerInit, FlushInv, FlushTypes, Phases, Tuned, PipeRunsDry, MeasuredBlocks,
        RecordedBlocks, Recording, Block

LEMMA GainRange ==
    ASSUME FlushInv, frame \in AllFrames
    PROVE  /\ messgain \in MessGains /\ gain[frame] \in Int
           /\ messgain # 0 => gain[frame] \in MinGain..MaxGain
           /\ messgain # 0 => DeviceGain(gain[frame]) = gain[frame]
<1>1. messgain \in MessGains /\ gain[frame] \in (MinGain..MaxGain) \cup {DefaultGain}
    BY DEF FlushInv, FlushTypes
<1>2. /\ DefaultGain \in Int
      /\ messgain # 0 => DefaultGain \in MinGain..MaxGain
    BY <1>1, Gains
<1>3. gain[frame] \in Int /\ (messgain # 0 => gain[frame] \in MinGain..MaxGain)
    BY <1>1, <1>2, GainAssumption
<1> QED
    BY <1>1, <1>3, Gains

LEMMA FlushStutters == FlushInv /\ UNCHANGED flushVars => FlushInv'
BY GainsKept DEF flushVars, FlushInv, FlushTypes, Phases, Tuned, PipeRunsDry, MeasuredBlocks,
       RecordedBlocks, Recording, NearGain, Block

(* The invariant is kept by each action. *)
LEMMA StepAway == FlushInv /\ (StartScanner \/ Quit) => FlushInv'
<1> USE GainAssumption, FlushAssumption
    DEF FlushInv, FlushTypes, Phases, Tuned, PipeRunsDry, MeasuredBlocks,
        RecordedBlocks, Recording, NearGain, Block
<1>1. ASSUME FlushInv, StartScanner PROVE FlushInv'
    BY <1>1, GainsKept DEF StartScanner
<1>2. ASSUME FlushInv, Quit PROVE FlushInv'
  <2>1. DefaultGain \in Int /\ DeviceGain(DefaultGain) \in Int
      BY <1>2, Gains
  <2>2. messgain' = messgain /\ DefaultGain' = DefaultGain
      BY <1>2, GainsKept DEF Quit
  <2> QED
      BY <1>2, <2>1, <2>2 DEF Quit
<1> QED
    BY <1>1, <1>2

LEMMA StepCapture == FlushInv /\ Capture => FlushInv'
<1> SUFFICES ASSUME FlushInv, Capture PROVE FlushInv'
    OBVIOUS
<1>1. /\ pipe' \in Seq(Block) /\ Len(pipe') = Len(pipe) + 1
      /\ \A i \in DOMAIN pipe' : pipe'[i] = IF i <= Len(pipe) THEN pipe[i] ELSE sdr
    BY DEF Capture, FlushInv, FlushTypes
<1> UNCHANGED messgain
    BY DEF Capture, confVars
<1>2. FlushTypes' /\ Phases'
    BY <1>1, GainsKept, FlushAssumption DEF Capture, FlushInv, FlushTypes, Phases, Tuned
<1>3. PipeRunsDry' /\ MeasuredBlocks'
    BY <1>1, GainsKept, FlushAssumption DEF Capture, FlushInv, FlushTypes, PipeRunsDry, MeasuredBlocks, Tuned
<1>4. RecordedBlocks'
  <2> SUFFICES ASSUME work \in Recording, frame \in ScanFrames, messgain \in 1..3
               PROVE  RecordedBlocks'
      BY DEF Capture, RecordedBlocks
  <2>1. sdr.gain = gain[frame] /\ gain[frame] \in Int
      BY Gains, ScanFramesAreFrames, GainAssumption
      DEF FlushInv, FlushTypes, PipeRunsDry, Tuned, Recording
  <2>2. NearGain(sdr) /\ \A i \in DOMAIN pipe : NearGain(pipe[i])
      BY <2>1 DEF FlushInv, RecordedBlocks, NearGain
  <2>3. \A i \in DOMAIN buf : NearGain(buf[i])
      BY DEF FlushInv, RecordedBlocks
  <2>4. \A i \in DOMAIN pipe' : pipe'[i] = sdr \/ (i \in DOMAIN pipe /\ pipe'[i] = pipe[i])
    <3>1. \A i \in DOMAIN pipe' : i <= Len(pipe) => i \in DOMAIN pipe
        BY <1>1 DEF FlushInv, FlushTypes
    <3> QED
        BY <1>1, <3>1
  <2>5. \A i \in DOMAIN pipe' : NearGain(pipe'[i])
      BY <2>2, <2>4
  <2> QED
      BY <2>3, <2>5 DEF Capture, RecordedBlocks, NearGain
<1> QED
    BY <1>2, <1>3, <1>4 DEF FlushInv

LEMMA StepRead == FlushInv /\ Read => FlushInv'
<1> SUFFICES ASSUME FlushInv, Read PROVE FlushInv'
    OBVIOUS
<1>1. /\ pipe' \in Seq(Block) /\ Len(pipe') = Len(pipe) - 1
      /\ \A i \in DOMAIN pipe' : i + 1 \in DOMAIN pipe /\ pipe'[i] = pipe[i + 1]
      /\ 1 \in DOMAIN pipe /\ Head(pipe) = pipe[1] /\ pipe[1] \in Block
    BY DEF Read, FlushInv, FlushTypes
<1>2. need' \in Nat /\ need' = need - 1 /\ messgain' = messgain
    BY DEF Read, FlushInv, FlushTypes, confVars
<1> USE GainsKept
<1>3. CASE work = "flush"
    BY <1>1, <1>2, <1>3, FlushAssumption
    DEF Read, FlushInv, FlushTypes, Phases, Tuned, PipeRunsDry, MeasuredBlocks,
        RecordedBlocks, Recording
<1>4. CASE work # "flush"
  <2>1. /\ buf' \in Seq(Block) /\ buf' # <<>>
        /\ \A i \in DOMAIN buf' : (i \in DOMAIN buf /\ buf'[i] = buf[i]) \/ buf'[i] = pipe[1]
    <3>1. buf' = Append(buf, pipe[1]) /\ buf \in Seq(Block) /\ pipe[1] \in Block
        BY <1>1, <1>4 DEF Read, FlushInv, FlushTypes
    <3> QED
        BY <3>1
  <2>2. FlushTypes' /\ Phases'
      BY <1>1, <1>2, <1>4, <2>1, FlushAssumption DEF Read, FlushInv, FlushTypes, Phases, Tuned
  <2>3. PipeRunsDry'
      BY <1>1, <1>2 DEF Read, FlushInv, FlushTypes, PipeRunsDry, Tuned
  <2>4. MeasuredBlocks'
      BY <1>1, <2>1 DEF Read, FlushInv, MeasuredBlocks
  <2>5. RecordedBlocks'
    <3>1. UNCHANGED <<messgain, work, frame, gain>>
        BY <1>2 DEF Read
    <3>2. RecordedBlocks
        BY DEF FlushInv
    <3> QED
        BY <1>1, <2>1, <3>1, <3>2 DEF RecordedBlocks, NearGain
  <2> QED
      BY <2>2, <2>3, <2>4, <2>5 DEF FlushInv
<1> QED
    BY <1>3, <1>4

LEMMA StepTune == FlushInv /\ (PickCron \/ PickScan \/ SetScanGain) => FlushInv'
<1> USE FlushAssumption, FrameTypes, ScanFramesAreFrames
<1>1. ASSUME FlushInv, PickScan PROVE FlushInv'
    BY <1>1, GainsKept DEF PickScan, confVars, FlushInv, FlushTypes, Phases, Tuned, PipeRunsDry,
        MeasuredBlocks, RecordedBlocks, Recording, Block
<1>2. ASSUME FlushInv, SetScanGain PROVE FlushInv'
  <2>1. /\ frame \in ScanFrames /\ frame \in AllFrames /\ messgain \in MessGains
        /\ gain[frame] \in Int /\ DeviceGain(gain[frame]) \in Int
    <3>1. frame \in AllFrames /\ frame \in ScanFrames /\ messgain \in MessGains
        BY <1>2 DEF SetScanGain, FlushInv, FlushTypes, Phases
    <3>2. gain[frame] \in Int
        BY <1>2, <3>1, Gains, GainAssumption DEF FlushInv, FlushTypes
    <3> QED
        BY <3>1, <3>2, Gains
  <2>2. UNCHANGED <<messgain, gain, pipe, frame>> /\ DefaultGain' = DefaultGain
      BY <1>2, GainsKept DEF SetScanGain, Dies, confVars
  <2>3. CASE Raises
    <3>1. work' = "dead" /\ UNCHANGED <<sdr, need, buf>>
        BY <1>2, <2>3 DEF SetScanGain, SetGain, Dies
    <3> QED
        BY <1>2, <2>1, <2>2, <3>1 DEF FlushInv, FlushTypes, Phases, Tuned, PipeRunsDry,
            MeasuredBlocks, RecordedBlocks, Recording
  <2>4. CASE ~Raises
    <3>1. /\ sdr' = [freq |-> frame.freq, gain |-> DeviceGain(gain[frame])]
          /\ work' = "flush" /\ buf' = <<>> /\ need' = BufBlocks
        BY <1>2, <2>1, <2>4 DEF SetScanGain, SetGain, FlushInv, FlushTypes, Phases, Block
    <3>2. \A i \in DOMAIN pipe : ~ i > need'
        BY <1>2, <3>1 DEF FlushInv, FlushTypes
    <3>3. sdr' \in Block
        BY <2>1, <3>1 DEF Block
    <3>4. need' \in Nat /\ work' \in Tuned /\ work' \notin Recording
        BY <3>1 DEF Tuned, Recording
    <3>5. FlushTypes'
        BY <1>2, <2>1, <2>2, <3>1, <3>3, <3>4 DEF FlushInv, FlushTypes
    <3>6. Phases'
        BY <2>1, <2>2, <3>1 DEF Phases, Tuned
    <3>7. PipeRunsDry'
        BY <2>2, <3>1, <3>2, GainsKept DEF PipeRunsDry
    <3>8. MeasuredBlocks' /\ RecordedBlocks'
        BY <3>1, <3>4 DEF MeasuredBlocks, RecordedBlocks
    <3> QED
        BY <3>5, <3>6, <3>7, <3>8 DEF FlushInv
  <2> QED
      BY <2>3, <2>4
<1>3. ASSUME FlushInv, PickCron PROVE FlushInv'
  <2> PICK now \in Times : \E i \in FindCronjob(now) : frame' = CronFrames[i]
      BY <1>3 DEF PickCron
  <2>1. PICK i \in FindCronjob(now) : frame' = CronFrames[i]
      OBVIOUS
  <2>2. i \in DOMAIN CronFrames
      BY <2>1 DEF FindCronjob
  <2>3. frame' \in AllFrames /\ frame' \notin ScanFrames
      BY <2>1, <2>2, FramesAssumption DEF AllFrames
  <2>4. sdr' = [freq |-> frame'.freq, gain |-> sdr.gain] /\ sdr' \in Block
      BY <1>3, <2>3 DEF PickCron, FlushInv, FlushTypes, Block
  <2>5. frame' # NoFrame
      BY <2>3, FramesAssumption
  <2> QED
      BY <1>3, <2>3, <2>4, <2>5, GainsKept DEF PickCron, confVars, FlushInv, FlushTypes, Phases, Tuned, PipeRunsDry,
          MeasuredBlocks, RecordedBlocks, Recording
<1> QED
    BY <1>1, <1>2, <1>3

LEMMA StepFlushed == FlushInv /\ (FlushedScan \/ FlushedCron) => FlushInv'
<1> USE FlushAssumption, IntervalAssumption, ScanFramesAreFrames, GainsKept
    DEF confVars, FlushInv, FlushTypes, Phases, Tuned, PipeRunsDry, MeasuredBlocks,
        RecordedBlocks, Recording
<1>1. ASSUME FlushInv, FlushedScan PROVE FlushInv'
  <2>1. \A i \in DOMAIN pipe : i > need
      BY <1>1 DEF FlushedScan
  <2> QED
      BY <1>1, <2>1 DEF FlushedScan
<1>2. ASSUME FlushInv, FlushedCron PROVE FlushInv'
    BY <1>2 DEF FlushedCron
<1> QED
    BY <1>1, <1>2

LEMMA StepGain ==
    ASSUME FlushInv, UpdateAndSetGain, frame \in AllFrames, messgain' = messgain
    PROVE  /\ gain' \in [AllFrames -> (MinGain..MaxGain) \cup {DefaultGain}]
           /\ sdr' \in Block /\ DefaultGain' = DefaultGain
           /\ Raises => sdr' = sdr
           /\ ~Raises => sdr' = [freq |-> sdr.freq, gain |-> DeviceGain(gain'[frame])]
           /\ messgain \in 1..3 => gain'[frame] - gain[frame] \in {-1, 0, 1}
<1>1. PICK diff \in {-1, 0, 1} :
        /\ gain' = [gain EXCEPT ![frame] = Clipped(gain[frame] + diff)]
        /\ SetGain(gain'[frame])
    BY DEF UpdateAndSetGain
<1>2. /\ messgain \in MessGains /\ gain[frame] \in Int
      /\ messgain # 0 => gain[frame] \in MinGain..MaxGain
    BY GainRange
<1>3. /\ gain'[frame] = Clipped(gain[frame] + diff)
      /\ gain'[frame] \in MinGain..MaxGain /\ gain'[frame] \in Int
      /\ gain' \in [AllFrames -> (MinGain..MaxGain) \cup {DefaultGain}]
  <2>1. Clipped(gain[frame] + diff) \in MinGain..MaxGain
      BY <1>2, GainAssumption DEF Clipped
  <2>2. gain'[frame] = Clipped(gain[frame] + diff)
      BY <1>1 DEF FlushInv, FlushTypes
  <2>3. gain' \in [AllFrames -> (MinGain..MaxGain) \cup {DefaultGain}]
      BY <1>1, <2>1 DEF FlushInv, FlushTypes
  <2> QED
      BY <2>1, <2>2, <2>3, GainAssumption
<1>4. DeviceGain(gain'[frame]) \in Int
    BY <1>2, <1>3, Gains
<1>5. /\ Raises => sdr' = sdr
      /\ ~Raises => sdr' = [freq |-> sdr.freq, gain |-> DeviceGain(gain'[frame])]
      /\ sdr' \in Block
    BY <1>1, <1>4 DEF SetGain, FlushInv, FlushTypes, Block
<1>6. messgain \in 1..3 => gain'[frame] - gain[frame] \in {-1, 0, 1}
    BY <1>2, <1>3, ClippedNear
<1> QED
    BY <1>3, <1>5, <1>6, GainsKept

LEMMA StepMeasure == FlushInv /\ Measure => FlushInv'
<1> SUFFICES ASSUME FlushInv, Measure PROVE FlushInv'
    OBVIOUS
<1> PICK acc \in Spectra : Nothing(FindPeaks(acc)) \/ Something(FindPeaks(acc))
    BY DEF Measure
<1> work = "measure" /\ need = 0 /\ frame \in AllFrames /\ frame \in ScanFrames
    BY ScanFramesAreFrames DEF Measure, FlushInv, Phases
<1> UNCHANGED <<messgain, pipe>>
    BY DEF Measure, confVars
<1>1. CASE Nothing(FindPeaks(acc))
  <2>1. UpdateAndSetGain /\ (Dies \/ BackToWork)
      BY <1>1 DEF Nothing
  <2>2. /\ buf' \in Seq(Block) /\ need' = need
        /\ work' \in {"work", "dead"} /\ frame' \in {frame, NoFrame}
    <3>1. CASE Dies
        BY <3>1 DEF Dies, FlushInv, FlushTypes
    <3>2. CASE BackToWork
        BY <3>2 DEF BackToWork
    <3> QED
        BY <2>1, <3>1, <3>2
  <2> QED
      BY <2>1, <2>2, StepGain DEF FlushInv, FlushTypes, Phases, Tuned, PipeRunsDry,
          MeasuredBlocks, RecordedBlocks, Recording
<1>2. CASE Something(FindPeaks(acc))
  <2>1. work' = "xlate" /\ UNCHANGED <<gain, sdr, frame, buf, pipe, need>>
      BY <1>2 DEF Something
  <2>2. \A i \in DOMAIN pipe : pipe[i].gain = DeviceGain(gain[frame])
      BY DEF FlushInv, PipeRunsDry, MeasuredBlocks, Tuned
  <2>3. \A i \in DOMAIN buf : buf[i].gain = DeviceGain(gain[frame])
      BY DEF FlushInv, PipeRunsDry, MeasuredBlocks, Tuned
  <2>4. gain[frame] \in Int /\ (messgain # 0 => DeviceGain(gain[frame]) = gain[frame])
      BY GainRange
  <2>5. RecordedBlocks'
      BY <2>1, <2>2, <2>3, <2>4 DEF RecordedBlocks, NearGain
  <2> QED
      BY <2>1, <2>5, ScanFramesAreFrames, GainsKept
      DEF FlushInv, FlushTypes, Phases, Tuned, PipeRunsDry, MeasuredBlocks
<1> QED
    BY <1>1, <1>2

LEMMA StepRecord ==
    FlushInv /\ (XlateStop \/ XlateOn \/ ReadFixed \/ ReadActivity) => FlushInv'
<1>1. ASSUME FlushInv, XlateStop PROVE FlushInv'
    BY <1>1, GainsKept DEF XlateStop, BackToWork, confVars, FlushInv, FlushTypes, Phases,
        Tuned, PipeRunsDry, MeasuredBlocks, RecordedBlocks, Recording
<1>2. ASSUME FlushInv, XlateOn PROVE FlushInv'
  <2> USE <1>2
  <2>1. /\ frame \in AllFrames /\ need = 0 /\ work = "xlate" /\ UpdateAndSetGain
        /\ UNCHANGED <<messgain, pipe, frame>>
      BY DEF XlateOn, Dies, confVars, FlushInv, FlushTypes, Phases, Tuned
  <2>2. CASE Raises
    <3>1. work' = "dead" /\ UNCHANGED <<need, buf>>
        BY <2>2 DEF XlateOn, Dies
    <3> QED
        BY <2>1, <3>1, StepGain DEF FlushInv, FlushTypes, Phases, Tuned, PipeRunsDry,
            MeasuredBlocks, RecordedBlocks, Recording
  <2>3. CASE ~Raises
    <3> USE <2>3
    <3>1. work' = "read" /\ buf' = <<>> /\ need' = BufBlocks
        BY DEF XlateOn
    <3>2. FlushTypes' /\ Phases'
        BY <2>1, <3>1, StepGain, FlushAssumption DEF FlushInv, FlushTypes, Phases, Tuned
    <3>3. PipeRunsDry' /\ MeasuredBlocks'
      <4>1. \A i \in DOMAIN pipe : ~ i > BufBlocks
          BY FlushAssumption DEF FlushInv, FlushTypes
      <4> QED
          BY <2>1, <3>1, <4>1, StepGain, GainsKept
          DEF FlushInv, PipeRunsDry, MeasuredBlocks, Tuned
    <3>4. RecordedBlocks'
      <4> SUFFICES ASSUME frame \in ScanFrames, messgain \in 1..3, NEW i \in DOMAIN pipe
                   PROVE  NearGain(pipe[i])'
          BY <2>1, <3>1 DEF RecordedBlocks
      <4>1. i > need
          BY <2>1 DEF FlushInv, FlushTypes
      <4>2. pipe[i].gain = DeviceGain(gain[frame])
          BY <2>1, <4>1 DEF FlushInv, PipeRunsDry, Tuned
      <4>3. pipe[i].gain = gain[frame]
          BY <2>1, <4>2, GainRange
      <4> QED
          BY <2>1, <4>3, StepGain DEF NearGain
    <3> QED
        BY <3>2, <3>3, <3>4 DEF FlushInv
  <2> QED
      BY <2>2, <2>3
<1>3. ASSUME FlushInv, ReadFixed \/ ReadActivity PROVE FlushInv'
  <2>1. /\ work = "read" /\ need = 0 /\ work' \in {"xlate", "dead"}
        /\ UNCHANGED <<messgain, frame, gain, sdr, pipe, buf, need>>
      BY <1>3 DEF ReadFixed, ReadActivity, confVars
  <2> QED
      BY <1>3, <2>1, GainsKept DEF FlushInv, FlushTypes, Phases, Tuned, PipeRunsDry,
          MeasuredBlocks, RecordedBlocks, Recording, NearGain
<1> QED
    BY <1>1, <1>2, <1>3

LEMMA FlushStep == FlushInv /\ [ScannerNext]_scannerVars => FlushInv'
<1> SUFFICES ASSUME FlushInv, [ScannerNext]_scannerVars PROVE FlushInv'
    OBVIOUS
<1>1. CASE Tick \/ Sort \/ UNCHANGED scannerVars
    BY <1>1, FlushStutters DEF Tick, Sort, scannerVars, confVars, flushVars
<1>2. CASE StartScanner \/ Quit
    BY <1>2, StepAway
<1>3. CASE Capture
    BY <1>3, StepCapture
<1>4. CASE WorkSteps
    BY <1>4, StepRead, StepTune, StepFlushed, StepMeasure, StepRecord DEF WorkSteps
<1> QED
    BY <1>1, <1>2, <1>3, <1>4 DEF ScannerNext

-----------------------------------------------------------------------------
(* filter_blacklist: the peaks that are left are signals outside the last  *)
(* interval of the list.                                                   *)
LEMMA FilterKeeps ==
    ASSUME NEW acc \in Spectra, ByStart(blacklist), frame.freq \in Int,
           NEW kept, kept = FilterBlacklist(FindPeaks(acc))
    PROVE  \A i \in DOMAIN kept :
              /\ IsSignal(kept[i])
              /\ blacklist # <<>> =>
                    ~Inside(kept[i].freq + frame.freq, blacklist[Len(blacklist)])
<1> DEFINE found == FindPeaks(acc)
           I == {i \in DOMAIN found : ~FindInIntervalList(blacklist, found[i].freq + frame.freq)}
           sub == Sublist(found, I)
           Peaks == [freq : Int, bw : Nat, pipe : {NoPipe}, archive : BOOLEAN]
<1>1. found \in Seq(Peaks) /\ \A i \in DOMAIN found : IsSignal(found[i])
    BY SpectraAssumption, PeaksTyped
<1>2. kept = [i \in DOMAIN sub |-> [sub[i] EXCEPT !.archive =
                FindInIntervalList(archivelist, sub[i].freq + frame.freq)]]
    BY Zenon DEF FilterBlacklist
<1>3. \A i \in I : i \in DOMAIN found /\ ~FindInIntervalList(blacklist, found[i].freq + frame.freq)
    OBVIOUS
<1>4. I \subseteq DOMAIN found
    OBVIOUS
<1> HIDE DEF found, I, Peaks
<1>5. /\ sub \in Seq(Peaks)
      /\ \A k \in DOMAIN sub : Ascending(I)[k] \in I /\ sub[k] = found[Ascending(I)[k]]
    BY <1>1, <1>4, SublistLists
<1> HIDE DEF sub
<1> SUFFICES ASSUME NEW i \in DOMAIN kept
             PROVE  /\ IsSignal(kept[i])
                    /\ blacklist # <<>> =>
                          ~Inside(kept[i].freq + frame.freq, blacklist[Len(blacklist)])
    OBVIOUS
<1>6. i \in DOMAIN sub
    BY <1>2
<1>7. PICK j \in I : sub[i] = found[j]
    BY <1>5, <1>6
<1>8. IsSignal(sub[i]) /\ ~FindInIntervalList(blacklist, sub[i].freq + frame.freq)
    BY <1>1, <1>3, <1>7
<1>9. sub[i] \in Peaks
    BY <1>5, <1>6
<1>10. kept[i].freq = sub[i].freq /\ kept[i].bw = sub[i].bw /\ kept[i].pipe = sub[i].pipe
  <2>1. kept[i] = [sub[i] EXCEPT !.archive =
                FindInIntervalList(archivelist, sub[i].freq + frame.freq)]
      BY <1>2, <1>6
  <2> QED
      BY <1>9, <2>1 DEF Peaks
<1>11. kept[i].freq + frame.freq \in Int
    BY <1>8, <1>10 DEF IsSignal
<1> QED
    BY <1>8, <1>10, <1>11, FindsOnlyLast DEF IsSignal

(* What do_record opens for a signal: a file that holds its frequency and  *)
(* a rate, unless it belongs to a channel of the frame.                    *)
LEMMA RecordedSignal ==
    ASSUME NEW p, IsSignal(p), frame \in AllFrames, NEW r, r = AsChannel(p, frame)
    PROVE  /\ r.pipe = NoPipe /\ ~r.archive =>
                FileOf(r).freq \in Int /\ FileOf(r).bw \in 0..Rate
           /\ \/ r.freq = p.freq
              \/ \E k \in DOMAIN frame.channels : r.freq = frame.channels[k].freq - frame.freq
<1>1. frame.freq \in Int /\ frame.channels \in Seq([freq : Int, bw : Int, pipe : STRING])
    BY FramesAssumption
<1>2. \/ r = p
      \/ \E k \in DOMAIN frame.channels :
            r = Peak(frame.channels[k].freq - frame.freq,
                     frame.channels[k].bw, frame.channels[k].pipe, TRUE)
    BY <1>1, RecordedAs
<1>3. CASE r = p
    BY <1>1, <1>3, RateOfFile DEF IsSignal, FileOf
<1>4. ASSUME NEW k \in DOMAIN frame.channels,
             r = Peak(frame.channels[k].freq - frame.freq,
                      frame.channels[k].bw, frame.channels[k].pipe, TRUE)
      PROVE  r.archive /\ r.freq = frame.channels[k].freq - frame.freq
    BY <1>4 DEF Peak
<1> QED
    BY <1>2, <1>3, <1>4

-----------------------------------------------------------------------------
(* The sizes *)
LEMMA SizesStep ==
    ASSUME FlushInv, Sizes, [ScannerNext]_scannerVars
    PROVE  Sizes'
<1> USE FlushAssumption DEF Sizes
<1>1. /\ need \in Nat /\ buf \in Seq(Block) /\ Len(buf) \in Nat /\ BufBlocks \in Nat \ {0}
      /\ Len(<<>>) = 0 /\ IntervalBlocks \in Nat \ {0}
    BY IntervalAssumption DEF FlushInv, FlushTypes
<1>2. CASE StartScanner \/ Capture \/ Sort \/ UNCHANGED scannerVars
    BY <1>2 DEF StartScanner, Capture, Sort, recVars, scannerVars
<1>3. CASE Quit
    BY <1>1, <1>3 DEF Quit
<1>4. CASE PickCron \/ PickScan \/ SetScanGain
    BY <1>1, <1>4 DEF PickCron, PickScan, SetScanGain, Dies, recVars
<1>5. CASE Read
  <2>1. need' = need - 1 /\ need > 0 /\ pipe # <<>>
        /\ UNCHANGED <<work, left, quiet>>
      BY <1>5 DEF Read, recVars
  <2>2. Len(buf') <= Len(buf) + 1 /\ Len(buf') \in Nat
    <3>1. Head(pipe) \in Block
        BY <2>1 DEF FlushInv, FlushTypes
    <3>2. Len(Append(buf, Head(pipe))) = Len(buf) + 1
        BY <1>1, <3>1
    <3> QED
        BY <1>1, <1>5, <3>2 DEF Read
  <2> QED
      BY <1>1, <2>1, <2>2
<1>6. CASE FlushedScan
  <2>1. buf' = <<>> /\ need' \in 1..IntervalBlocks /\ work' = "measure"
        /\ UNCHANGED <<left, quiet>>
      BY <1>6 DEF FlushedScan, FlushInv, Phases, recVars
  <2>2. \A m \in 1..IntervalBlocks : 0 + m <= IntervalBlocks
      BY <1>1
  <2>3. Len(buf') + need' <= IntervalBlocks
      BY <1>1, <2>1, <2>2, Zenon
  <2> QED
      BY <2>1, <2>3
<1>7. CASE FlushedCron
  <2>1. buf' = <<>> /\ frame \in AllFrames
      BY <1>7 DEF FlushedCron, FlushInv, FlushTypes, Phases, Tuned
  <2>2. left' = frame.stick /\ frame.stick \in Nat /\ quiet' = 0
      BY <1>7, <2>1, FramesAssumption DEF FlushedCron, DoRecord
  <2> QED
      BY <1>1, <1>7, <2>1, <2>2 DEF FlushedCron, Recording
<1>8. CASE Measure
  <2> PICK acc \in Spectra : Nothing(FindPeaks(acc)) \/ Something(FindPeaks(acc))
      BY <1>8 DEF Measure
  <2>1. need = 0 /\ frame \in AllFrames
      BY <1>8, ScanFramesAreFrames DEF Measure, FlushInv, Phases
  <2>2. CASE Nothing(FindPeaks(acc))
      BY <1>1, <2>1, <2>2 DEF Nothing, BackToWork, Dies, recVars
  <2>3. CASE Something(FindPeaks(acc))
    <3>1. left' = frame.stick /\ frame.stick \in Nat /\ quiet' = 0 /\ buf' = buf /\ work' = "xlate"
        BY <2>1, <2>3, FramesAssumption DEF Something, DoRecord
    <3> QED
        BY <1>1, <2>1, <3>1 DEF Recording
  <2> QED
      BY <2>2, <2>3
<1>9. CASE XlateStop \/ XlateOn
    BY <1>1, <1>9 DEF XlateStop, XlateOn, BackToWork, Dies, recVars, Recording
<1>10. CASE ReadFixed
    BY <1>10 DEF ReadFixed, recVars, Recording
<1>11. CASE ReadActivity
    BY <1>11 DEF ReadActivity, Recording
<1>12. CASE Tick
    BY <1>12 DEF Tick
<1> QED
    BY <1>2, <1>3, <1>4, <1>5, <1>6, <1>7, <1>8, <1>9, <1>10, <1>11, <1>12
    DEF ScannerNext, WorkSteps

(* The lists of intervals *)
LEMMA ListsStep ==
    ASSUME Files, ByStart(blacklist), BlacklistSound, [ScannerNext]_scannerVars,
           blacklistconf' \in Seq(Line)
    PROVE  ByStart(blacklist)' /\ BlacklistSound'
<1>1. CASE StartScanner
  <2> DEFINE h == ReadSortedList("h", blacklistconf)
  <2>1. blacklist' = h.list /\ blacklistconf' = blacklistconf
      BY <1>1 DEF StartScanner
  <2>2. /\ ByStart(h.list) /\ FollowEachOther(h.list)
        /\ \A i \in 1..Len(h.list) : \E k \in DOMAIN blacklistconf :
             blacklistconf[k].tag = "h" /\ h.list[i] = IntervalOf(blacklistconf[k])
      BY ReadSound DEF Files
  <2> HIDE DEF h
  <2>3. DOMAIN h.list = 1..Len(h.list)
      BY <2>2 DEF ByStart
  <2>4. \A i \in DOMAIN h.list : h.list[i] \in HLines
      BY <2>2, <2>3 DEF HLines
  <2>5. HLines' = HLines
      BY <2>1 DEF HLines
  <2>6. \A i \in DOMAIN h.list : \A f \in Start(h.list[i])..End(h.list[i]) :
            Covers(h.list[i], f)
      BY <2>2, <2>3 DEF ByStart, Covers, Start, End
  <2> QED
      BY <2>1, <2>2, <2>4, <2>5, <2>6 DEF BlacklistSound
<1>2. CASE Quit
  <2>1. blacklist' = <<>> /\ blacklistconf' = blacklistconf
      BY <1>2 DEF Quit
  <2>2. <<>> \in Seq(Int \X Int) /\ Len(<<>>) = 0 /\ DOMAIN <<>> = {} /\ 1..0 = {}
      OBVIOUS
  <2> QED
      BY <2>1, <2>2 DEF BlacklistSound, ByStart, FollowEachOther
<1>3. CASE Sort
  <2>1. blacklist' = blacklist
      BY <1>3 DEF Sort
  <2>2. \A k \in DOMAIN blacklistconf :
            k \in DOMAIN blacklistconf' /\ blacklistconf'[k] = blacklistconf[k]
    <3>1. \/ blacklistconf' = blacklistconf
          \/ \E line : blacklistconf' = Append(blacklistconf, line)
        BY <1>3 DEF Sort
    <3> QED
        BY <3>1 DEF Files
  <2>3. HLines \subseteq HLines'
      BY <2>2 DEF HLines
  <2> QED
      BY <2>1, <2>3 DEF BlacklistSound
<1>4. CASE Capture \/ WorkSteps \/ Tick \/ UNCHANGED scannerVars
  <2>1. UNCHANGED confVars
      BY <1>4 DEF Capture, WorkSteps, Tick, scannerVars, confVars, PickCron, PickScan,
          SetScanGain, Read, FlushedScan, FlushedCron, Measure, XlateStop, XlateOn,
          ReadFixed, ReadActivity
  <2> QED
      BY <2>1 DEF confVars, BlacklistSound, HLines
<1> QED
    BY <1>1, <1>2, <1>3, <1>4 DEF ScannerNext

(* The recordings, and the lines the sorter adds *)
LEMMA FilesStep ==
    ASSUME FlushInv, Files, ByStart(blacklist), [ScannerNext]_scannerVars
    PROVE  Files'
<1>1. CASE Sort
  <2> PICK file \in files :
        /\ \/ UNCHANGED blacklistconf
           \/ /\ Len(blacklistconf) < MaxLines
              /\ \E tag \in {"h", "i"} :
                    blacklistconf' = Append(blacklistconf,
                        [tag |-> tag, freq |-> file.freq, bw |-> file.bw])
        /\ files' \in {files, files \ {file}}
      BY <1>1 DEF Sort
  <2>1. files' \subseteq files
      OBVIOUS
  <2>2. file.freq \in Int /\ file.bw \in Int
    <3>1. Rate \in Nat
        BY HalfStep
    <3> QED
        BY <3>1 DEF Files
  <2>3. \A tag \in {"h", "i"} : [tag |-> tag, freq |-> file.freq, bw |-> file.bw] \in Line
      BY <2>2 DEF Line
  <2>4. blacklistconf' \in Seq(Line)
      BY <2>3, SMTT(30) DEF Files
  <2> QED
      BY <2>1, <2>4 DEF Files
<1>2. CASE FlushedCron
  <2> DEFINE what == [i \in DOMAIN frame.channels |->
                Peak(frame.channels[i].freq - frame.freq, frame.channels[i].bw,
                     frame.channels[i].pipe, TRUE)]
  <2>1. blacklistconf' = blacklistconf /\ DoRecord(what)
      BY <1>2 DEF FlushedCron, confVars
  <2>2. \A i \in DOMAIN what : what[i].archive
      BY DEF Peak
  <2> HIDE DEF what
  <2>3. files' = files
      BY <2>1, <2>2 DEF DoRecord
  <2> QED
      BY <2>1, <2>3 DEF Files
<1>3. CASE Measure
  <2> PICK acc \in Spectra : Nothing(FindPeaks(acc)) \/ Something(FindPeaks(acc))
      BY <1>3 DEF Measure
  <2>1. frame \in AllFrames /\ blacklistconf' = blacklistconf
      BY <1>3, ScanFramesAreFrames DEF Measure, FlushInv, Phases, confVars
  <2>2. CASE Nothing(FindPeaks(acc))
      BY <2>1, <2>2 DEF Nothing, Files
  <2>3. CASE Something(FindPeaks(acc))
    <3> DEFINE kept == FilterBlacklist(FindPeaks(acc))
               what == [i \in DOMAIN kept |-> AsChannel(kept[i], frame)]
    <3>1. DoRecord(what)
        BY <2>3 DEF Something
    <3>2. \A i \in DOMAIN kept : IsSignal(kept[i])
        BY <2>1, FrameTypes, FilterKeeps
    <3> HIDE DEF kept
    <3>3. \A i \in DOMAIN what : what[i].pipe = NoPipe /\ ~what[i].archive =>
                FileOf(what[i]).freq \in Int /\ FileOf(what[i]).bw \in 0..Rate
        BY <2>1, <3>2, RecordedSignal
    <3> HIDE DEF what
    <3>4. \A file \in files' : file \in files \/ (file.freq \in Int /\ file.bw \in 0..Rate)
        BY <3>1, <3>3 DEF DoRecord
    <3> QED
        BY <2>1, <3>4 DEF Files
  <2> QED
      BY <2>2, <2>3
<1>4. CASE \/ StartScanner \/ Quit \/ Capture \/ PickCron \/ PickScan \/ SetScanGain \/ Read
           \/ FlushedScan \/ XlateStop \/ XlateOn \/ ReadFixed \/ ReadActivity \/ Tick
           \/ UNCHANGED scannerVars
  <2>1. UNCHANGED <<blacklistconf, files>>
      BY <1>4 DEF StartScanner, Quit, Capture, PickCron, PickScan, SetScanGain, Read,
          FlushedScan, XlateStop, XlateOn, ReadFixed, ReadActivity, Tick, confVars, scannerVars
  <2> QED
      BY <2>1 DEF Files
<1> QED
    BY <1>1, <1>2, <1>3, <1>4 DEF ScannerNext, WorkSteps

(* The peaks that are recorded *)
LEMMA IgnoredStep ==
    ASSUME FlushInv, ByStart(blacklist), LastIsIgnored, [ScannerNext]_scannerVars
    PROVE  LastIsIgnored'
<1>1. CASE Measure
  <2> PICK acc \in Spectra : Nothing(FindPeaks(acc)) \/ Something(FindPeaks(acc))
      BY <1>1 DEF Measure
  <2>1. frame \in AllFrames /\ blacklist' = blacklist
      BY <1>1, ScanFramesAreFrames DEF Measure, FlushInv, Phases, confVars
  <2>2. CASE Nothing(FindPeaks(acc))
      BY <2>2 DEF Nothing, BackToWork, Dies, LastIsIgnored, Recording
  <2>3. CASE Something(FindPeaks(acc))
    <3> DEFINE kept == FilterBlacklist(FindPeaks(acc))
               what == [i \in DOMAIN kept |-> AsChannel(kept[i], frame)]
    <3>1. peaks' = what /\ frame' = frame
        BY <2>3 DEF Something, DoRecord
    <3>2. \A i \in DOMAIN kept : IsSignal(kept[i]) /\
            (blacklist # <<>> => ~Inside(kept[i].freq + frame.freq, blacklist[Len(blacklist)]))
        BY <2>1, FrameTypes, FilterKeeps
    <3> HIDE DEF kept
    <3>3. ASSUME NEW i \in DOMAIN what, blacklist # <<>>,
                 Inside(what[i].freq + frame.freq, blacklist[Len(blacklist)])
          PROVE  \E k \in DOMAIN frame.channels :
                    what[i].freq = frame.channels[k].freq - frame.freq
      <4>1. i \in DOMAIN kept /\ what[i] = AsChannel(kept[i], frame)
          OBVIOUS
      <4> HIDE DEF what
      <4> QED
          BY <2>1, <3>2, <3>3, <4>1, RecordedSignal
    <3> HIDE DEF what
    <3> QED
        BY <2>1, <3>1, <3>3 DEF LastIsIgnored
  <2> QED
      BY <2>2, <2>3
<1>2. CASE FlushedCron
    BY <1>2 DEF FlushedCron, LastIsIgnored
<1>3. CASE StartScanner \/ Quit \/ PickCron \/ PickScan \/ SetScanGain \/ FlushedScan \/ XlateStop
    BY <1>3 DEF StartScanner, Quit, PickCron, PickScan, SetScanGain, FlushedScan, XlateStop,
        BackToWork, Dies, LastIsIgnored, Recording
<1>4. CASE \/ Capture \/ Read \/ XlateOn \/ ReadFixed \/ ReadActivity \/ Tick \/ Sort
           \/ UNCHANGED scannerVars
  <2>1. UNCHANGED <<blacklist, frame, peaks>> /\ (work' \in Recording => work \in Recording)
      BY <1>4 DEF Capture, Read, XlateOn, Dies, ReadFixed, ReadActivity, Tick, Sort,
          confVars, recVars, scannerVars, Recording
  <2> QED
      BY <2>1 DEF LastIsIgnored
<1> QED
    BY <1>1, <1>2, <1>3, <1>4 DEF ScannerNext, WorkSteps

-----------------------------------------------------------------------------
(* The inductive invariant holds in every reachable state of the scanner. *)
THEOREM ScannerInvariance == ScannerSpec => []ScannerIInv
<1>1. ScannerInit => ScannerIInv
  <2> SUFFICES ASSUME ScannerInit PROVE ScannerIInv
      OBVIOUS
  <2>1. <<>> \in Seq(Int \X Int) /\ Len(<<>>) = 0 /\ DOMAIN <<>> = {} /\ 1..0 = {}
      OBVIOUS
  <2>2. Sizes
      BY FlushAssumption, <2>1 DEF ScannerInit, Sizes
  <2>3. Files
      BY BlacklistsAssumption DEF ScannerInit, Files
  <2>4. ByStart(blacklist) /\ BlacklistSound /\ LastIsIgnored
      BY <2>1 DEF ScannerInit, ByStart, BlacklistSound, FollowEachOther, LastIsIgnored
  <2> QED
      BY <2>2, <2>3, <2>4, FlushInit DEF ScannerIInv
<1>2. ScannerIInv /\ [ScannerNext]_scannerVars => ScannerIInv'
  <2> SUFFICES ASSUME ScannerIInv, [ScannerNext]_scannerVars PROVE ScannerIInv'
      OBVIOUS
  <2>1. FlushInv' /\ Sizes' /\ Files' /\ LastIsIgnored'
      BY FlushStep, SizesStep, FilesStep, IgnoredStep DEF ScannerIInv
  <2>2. ByStart(blacklist)' /\ BlacklistSound'
    <3>1. blacklistconf' \in Seq(Line)
        BY <2>1 DEF Files
    <3> QED
        BY <3>1, ListsStep DEF ScannerIInv
  <2> QED
      BY <2>1, <2>2 DEF ScannerIInv
<1> QED
    BY <1>1, <1>2, PTL DEF ScannerSpec

(* The spectrum of a frame is computed from samples that were captured     *)
(* with its frequency and what set_gain makes of its gain (tune, sdrflush, *)
(* scan).                                                                  *)
THEOREM SpectrumSafe == ScannerSpec => []SpectrumIsOfItsFrame
<1>1. ScannerIInv => SpectrumIsOfItsFrame
    BY DEF ScannerIInv, FlushInv, Phases, PipeRunsDry, MeasuredBlocks, Tuned, SpectrumIsOfItsFrame
<1> QED
    BY <1>1, ScannerInvariance, PTL

(* The recording of a scanned frame is judged, for the next correction of  *)
(* an RF, IF or BB gain, by samples that are at most one correction old    *)
(* (do_record, update_and_set_gain).                                       *)
THEOREM GainSafe == ScannerSpec => []GainFollowsSamples
<1>1. ScannerIInv => GainFollowsSamples
  <2> SUFFICES ASSUME ScannerIInv, work = "xlate", frame \in ScanFrames, messgain \in 1..3
               PROVE  gain[frame] - Head(buf).gain \in {-1, 0, 1}
      BY DEF GainFollowsSamples
  <2>1. 1 \in DOMAIN buf /\ Head(buf) = buf[1]
      BY DEF ScannerIInv, FlushInv, FlushTypes, Phases
  <2> QED
      BY <2>1 DEF ScannerIInv, FlushInv, RecordedBlocks, NearGain, Recording
<1> QED
    BY <1>1, ScannerInvariance, PTL

(* Every variable of the scanner and its sorter holds what the programs    *)
(* can store in it: a gain is the first one or in range, and pipe and      *)
(* buffer hold what they may, a scan's buffer up to a whole interval.      *)
THEOREM ScannerTyped == ScannerSpec => []ScannerTypeOK
<1>1. ScannerIInv => ScannerTypeOK
  <2> SUFFICES ASSUME ScannerIInv PROVE ScannerTypeOK
      OBVIOUS
  <2> QED
      BY DEF ScannerIInv, FlushInv, FlushTypes, Sizes, Files, ScannerTypeOK
<1> QED
    BY <1>1, ScannerInvariance, PTL

(* Whatever blacklist.conf held at the start and the sorter adds to it     *)
(* since, the intervals the scanner uses begin and end where "h" lines do, *)
(* hold nothing that none of them covers, and do not touch each other      *)
(* (read_sorted_list).                                                     *)
THEOREM BlacklistIsSound == ScannerSpec => []BlacklistSound
<1>1. ScannerIInv => BlacklistSound
    BY DEF ScannerIInv
<1> QED
    BY <1>1, ScannerInvariance, PTL

(* What find_in_interval_list does achieve: nothing inside the last        *)
(* interval is recorded, unless as a channel of the frame.                 *)
THEOREM LastIntervalIgnored == ScannerSpec => []LastIsIgnored
<1>1. ScannerIInv => LastIsIgnored
    BY DEF ScannerIInv
<1> QED
    BY <1>1, ScannerInvariance, PTL

(* find_peaks finds the runs of bins above the floor that end before the   *)
(* last bin, in every spectrum without a bin on the floor and with bin 0   *)
(* below it.                                                               *)
THEOREM PeaksFound == ScannerSpec => []PeaksAreRuns
<1>1. PeaksAreRuns
    BY SpansAreRuns DEF PeaksAreRuns
<1> QED
    BY <1>1, PTL

(* The frames that ConfReader plans for a range cover it, for every rate   *)
(* and overlap, if the range is one to four steps wide and what is lost in *)
(* rounding the distance of its frames fits into their overlap.            *)
THEOREM RangesCovered == ScannerSpec => []RangesAreCovered
<1>1. RangesAreCovered
  <2> SUFFICES ASSUME NEW freqstart \in {1, Step}, NEW width \in Step..(4 * Step),
                      RoundingFits(width), NEW f \in freqstart..(freqstart + width)
               PROVE  Covered(f, freqstart, freqstart + width)
      BY DEF RangesAreCovered
  <2>1. freqstart \in Nat \ {0} /\ width \in Nat /\ width >= Step
      BY StepAssumption
  <2> QED
      BY <2>1, NoGaps
<1> QED
    BY <1>1, PTL
=============================================================================
