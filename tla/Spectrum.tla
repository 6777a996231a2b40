------------------------------ MODULE Spectrum ------------------------------
(***************************************************************************)
(* What the scanner computes from its configuration and from a spectrum,   *)
(* as functions: the centre frequencies of a scanned range (scanner/util.py*)
(* ConfReader), the peaks of a spectrum, the activity of a peak, the match *)
(* of a cron string (scanner/KukurukuScanner.py).                          *)
(* A spectrum is abstracted to the side of the threshold each bin is on.   *)
(***************************************************************************)
EXTENDS Sorting

CONSTANTS
    Fftw,       \* bins of a spectrum
    BinHz,      \* rate / fftw
    MinSpan,    \* minw / binhz and maxw / binhz
    MaxSpan,
    Step        \* rate * (1 - overlap)

ASSUME BinAssumption == Fftw \in Nat \ {0} /\ Fftw % 2 = 0 /\ BinHz \in Nat \ {0}
ASSUME SpanAssumption == MinSpan \in Nat /\ MaxSpan \in Nat
ASSUME StepAssumption == Step \in Nat \ {0} /\ Step % 2 = 0 /\ Step <= Fftw * BinHz

Bins == 0..(Fftw - 1)
Rate == Fftw * BinHz
CeilDiv(a, b) == -((-a) \div b)
(* int() of a quotient, b > 0 *)
Truncated(a, b) == IF a >= 0 THEN a \div b ELSE -((-a) \div b)

-----------------------------------------------------------------------------
(* The centre frequencies of [freqstart, freqstop] *)

(* Bug: the number of frames is rounded down. *)
CentersSpread(freqstart, freqstop) ==
    LET first == freqstart + Step \div 2
        last == freqstop - Step \div 2
        numf == (last - first) \div Step
        delta == IF numf = 0 THEN last ELSE (last - first) \div numf
    IN  {cf \in first..last : (cf - first) % delta = 0}

(* A range narrower than a step has none: its last centre is below its     *)
(* first one.                                                              *)
Centers(freqstart, freqstop) ==
    LET first == freqstart + Step \div 2
        last == freqstop - Step \div 2
        numf == CeilDiv(last - first, Step)
        delta == IF numf = 0 THEN last ELSE (last - first) \div numf
    IN  {cf \in first..last : (cf - first) % delta = 0}

-----------------------------------------------------------------------------
(* find_peaks: the pairs (first, i), with acc[i] compared to the floor     *)

Falls(acc, i) == acc[i] < 0 /\ acc[i - 1] > 0
Latest(I) == IF I = {} THEN -1 ELSE CHOOSE i \in I : \A j \in I : j <= i

(* Bug: every bin above the floor is taken for a rising edge. *)
FirstRestarted(acc, i) == Latest({j \in 1..i : acc[j] > 0})

(* first is not reset: a run whose rising edge has a bin equal to the      *)
(* floor, or that starts with bin 0, is measured from an earlier first.    *)
First(acc, i) == Latest({j \in 1..i : acc[j] > 0 /\ acc[j - 1] < 0})

Spans(acc) ==
    LET ends == {i \in 1..(Fftw - 1) :
                    Falls(acc, i) /\ i - First(acc, i) \in MinSpan..MaxSpan}
    IN  [k \in 1..Cardinality(ends) |->
            <<First(acc, Ascending(ends)[k]), Ascending(ends)[k]>>]

NoPipe == "no pipe"
Peak(freq, bw, pipe, archive) ==
    [freq |-> freq, bw |-> bw, pipe |-> pipe, archive |-> archive]

(* filtermargin is 1.5, its default; / of integers rounds down. *)
FindPeaks(acc) ==
    LET spans == Spans(acc)
        PeakOf(span) ==
            Peak(BinHz * ((span[1] + span[2]) \div 2 - Fftw \div 2),
                 (3 * BinHz * (span[2] - span[1])) \div 2, NoPipe, FALSE)
    IN  [i \in DOMAIN spans |-> PeakOf(spans[i])]

(* scan: a peak inside a channel of the frame is recorded as that channel. *)
AsChannel(peak, frame) ==
    LET Match(p, channel) ==
            IF /\ channel.freq - frame.freq - channel.bw \div 2 < p.freq
               /\ channel.freq - frame.freq + channel.bw \div 2 > p.freq
            THEN Peak(channel.freq - frame.freq, channel.bw, channel.pipe, TRUE)
            ELSE p
        match[k \in 0..Len(frame.channels)] ==
            IF k = 0 THEN peak ELSE Match(match[k - 1], frame.channels[k])
    IN  match[Len(frame.channels)]

(* check_activity: an index below 0 counts from the end of the list, one   *)
(* past the end raises an IndexError, unless an active bin comes before.   *)
CheckActivity(above, peak) ==
    LET startbin == Truncated(2 * peak.freq - peak.bw, 2 * BinHz) + Fftw \div 2
        stopbin == Truncated(2 * peak.freq + peak.bw, 2 * BinHz) + Fftw \div 2
        Raises(i) == i \notin -Fftw..(Fftw - 1)
        events == {i \in startbin..(stopbin - 1) : Raises(i) \/ (i % Fftw) \in above}
    IN  IF events = {} THEN "silent"
        ELSE IF Raises(CHOOSE i \in events : \A j \in events : i <= j)
             THEN "IndexError" ELSE "active"

-----------------------------------------------------------------------------
(* croncmp and crontest: a field is any, a step or a number. *)
Croncmp(i, frag) ==
    \/ frag.is = "any"
    \/ frag.is = "step" /\ frag.num # 0 /\ i % frag.num = 0
    \/ frag.is = "number" /\ frag.num = i
Crontest(cron, now) ==
    Len(cron) = 5 /\ \A k \in 1..5 : Croncmp(now[k], cron[k])

-----------------------------------------------------------------------------
(* The spectra whose bins are all off the floor, the first one below it *)
CleanSpectra == {acc \in [Bins -> {-1, 1}] : acc[0] = -1}

(* The maximal runs of bins above the floor that are wide enough and not   *)
(* too wide, but for one that reaches the last bin                         *)
Runs(acc) ==
    {run \in (1..(Fftw - 1)) \X (1..(Fftw - 1)) :
        /\ run[2] - run[1] \in MinSpan..MaxSpan /\ run[1] < run[2]
        /\ acc[run[1] - 1] < 0 /\ acc[run[2]] < 0
        /\ \A k \in run[1]..(run[2] - 1) : acc[k] > 0}

(* Whether a frequency of a range is in the spectrum of one of its frames  *)
Covered(f, freqstart, freqstop) ==
    \E cf \in Centers(freqstart, freqstop) : f - cf \in -(Rate \div 2)..(Rate \div 2)
(* Rounding the distance of the frames down shortens the range at its      *)
(* upper end; in these ranges that fits into the overlap.                  *)
RoundingFits(width) == (width - Step) \div Step <= (Rate - Step) \div 2
=============================================================================
