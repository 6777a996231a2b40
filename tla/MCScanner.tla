----------------------------- MODULE MCScanner -----------------------------
(* A scanned frame and a scheduled recording on a spectrum of six bins. *)
EXTENDS ScannerInv

Frame(freq, stickactivity, channels, cron) ==
    [freq |-> freq, stickactivity |-> stickactivity, stick |-> 0, silencegap |-> 0,
     channels |-> channels, cron |-> cron]
Channel(freq, bw, program) == [freq |-> freq, bw |-> bw, pipe |-> program]

Any == [is |-> "any"]
Every(num) == [is |-> "step", num |-> num]
At(num) == [is |-> "number", num |-> num]

(* The scanned frame sticks for a fixed time; a channel of it is piped.    *)
(* The scheduled frame sticks to the activity of a channel at its edge.    *)
MCScanFrames == {Frame(20, FALSE, <<Channel(24, 6, "decoder")>>, <<>>)}
MCCronFrames == <<
    Frame(80, TRUE, <<Channel(84, 8, NoPipe)>>, <<Every(5), Any, Any, Any, At(1)>>)>>
(* As in the shipped configuration, where 0 is out of the range of gains *)
MCGainpcs == [i \in 0..3 |-> IF i = 0 THEN 0 ELSE 2]
MCMessGains == {-1, 0, 1}
MCTimes == {<<10, 3, 1, 1, 1>>, <<11, 3, 1, 1, 1>>}

Of(b0, b1, b2, b3, b4, b5) ==
    [i \in Bins |-> CASE i = 0 -> b0 [] i = 1 -> b1 [] i = 2 -> b2
                      [] i = 3 -> b3 [] i = 4 -> b4 [] i = 5 -> b5]
MCSpectra == {
    Of(-1, -1, -1, -1, -1, -1),     \* nothing
    Of(-1, 1, -1, 1, -1, -1),       \* two signals
    Of(-1, 0, 1, -1, 1, -1)}        \* a bin equal to the floor, and the channel

(* Two lists that overlap, out of order; a line that touches a recording.  *)
Written(tag, freq, bw) == [tag |-> tag, freq |-> freq, bw |-> bw]
MCBlacklists == {
    <<Written("h", 24, 12), Written("h", 20, 2)>>,
    <<Written("i", 24, 14), Written("h", 24, 14)>>}
=============================================================================
