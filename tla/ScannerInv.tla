----------------------------- MODULE ScannerInv -----------------------------
(***************************************************************************)
(* The inductive invariant from which the safety of Scanner follows, as a  *)
(* conjunction of named parts.  TLC checks it on a small instance; it is   *)
(* proved inductive in ScannerProofs.                                      *)
(***************************************************************************)
EXTENDS Scanner

(* A flush reads as many blocks as the pipe can hold, so what is left      *)
(* beyond the blocks still to be read was captured with the frequency and  *)
(* the gain of now.                                                        *)

FlushTypes ==
    /\ frame \in AllFrames \cup {NoFrame}
    /\ messgain \in MessGains
    /\ gain \in [AllFrames -> (MinGain..MaxGain) \cup {DefaultGain}] /\ sdr \in Block
    /\ pipe \in Seq(Block) /\ Len(pipe) <= PipeBlocks
    /\ buf \in Seq(Block) /\ need \in Nat

Tuned == {"flush", "measure", "xlate", "read"}
Phases ==
    /\ work \in {"gain", "measure"} => frame \in ScanFrames
    /\ work \in Tuned => frame # NoFrame
    /\ work = "gain" => sdr.freq = frame.freq
    /\ work = "flush" => buf = <<>>
    /\ work \in {"measure", "read"} => need > 0 \/ buf # <<>>
    /\ work = "xlate" => need = 0 /\ (frame \in ScanFrames => buf # <<>>)

PipeRunsDry ==
    work \in Tuned /\ frame \in ScanFrames =>
        /\ sdr = [freq |-> frame.freq, gain |-> DeviceGain(gain[frame])]
        /\ \A i \in DOMAIN pipe : i > need => pipe[i] = sdr

MeasuredBlocks ==
    work = "measure" => /\ \A i \in DOMAIN pipe : pipe[i] = sdr
                        /\ \A i \in DOMAIN buf : buf[i] = sdr

NearGain(block) == gain[frame] - block.gain \in {-1, 0, 1}
RecordedBlocks ==
    work \in Recording /\ frame \in ScanFrames /\ messgain \in 1..3 =>
        /\ \A i \in DOMAIN pipe : NearGain(pipe[i])
        /\ \A i \in DOMAIN buf : NearGain(buf[i])

FlushInv == FlushTypes /\ Phases /\ PipeRunsDry /\ MeasuredBlocks /\ RecordedBlocks

-----------------------------------------------------------------------------
(* What is read and what is still to be read is a buffer, or what a scan   *)
(* reads up to the next multiple of the interval.                          *)
Sizes ==
    /\ work \in {"flush", "read"} => Len(buf) + need <= BufBlocks
    /\ work = "measure" => Len(buf) + need <= IntervalBlocks
    /\ left \in Int /\ left >= -1 /\ quiet \in Nat
    /\ work \in {"off", "work", "gain", "flush", "measure", "dead"} \cup Recording

(* The sorter only adds lines of the recordings the scanner has made. *)
Files ==
    /\ blacklistconf \in Seq(Line)
    /\ \A file \in files : file.freq \in Int /\ file.bw \in 0..Rate

ScannerIInv ==
    /\ FlushInv /\ Sizes /\ Files
    /\ ByStart(blacklist) /\ BlacklistSound /\ LastIsIgnored
=============================================================================
