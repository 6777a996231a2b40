----------------------------- MODULE Intervals -----------------------------
(***************************************************************************)
(* The lists of ignored and of archived frequencies of the scanner:        *)
(* read_sorted_list (scanner/util.py) makes them from blacklist.conf, and  *)
(* find_in_interval_list (scanner/KukurukuScanner.py) looks a frequency up.*)
(* The scanner runs under Python 2: / of integers rounds down, and None is *)
(* less than a number.                                                     *)
(***************************************************************************)
EXTENDS Sorting

(* An interval is a tuple of its ends. *)
Start(interval) == interval[1]
End(interval) == interval[2]
Inside(key, interval) == key > Start(interval) /\ key < End(interval)

(* A line of blacklist.conf: whether the frequencies are ignored (h) or    *)
(* archived (i), their centre and their width                              *)
Line == [tag : {"h", "i"}, freq : Int, bw : Int]
IntervalOf(line) ==
    <<line.freq - (line.bw \div 2), line.freq + (line.bw \div 2)>>

(* The lines with the tag, sorted by their starts; the sort is stable. *)
Sorted(tag, lines) ==
    LET tagged == {i \in DOMAIN lines : lines[i].tag = tag}
        starts == [i \in tagged |-> Start(IntervalOf(lines[i]))]
        order == InOrder(tagged, {p \in tagged \X tagged :
                    \/ starts[p[1]] < starts[p[2]]
                    \/ starts[p[1]] = starts[p[2]] /\ p[1] < p[2]})
    IN  [k \in DOMAIN order |-> IntervalOf(lines[order[k]])]

(* Bug: intervals are compared by their starts. *)
UnionByStart(unioned, interval) ==
    LET l == unioned.list
    IN  IF l = <<>> \/ Start(l[Len(l)]) <= Start(interval)
        THEN [unioned EXCEPT !.list = Append(@, interval)] ELSE unioned

(* "sort and union intervals", says the program.  But an interval that     *)
(* overlaps the last one is dropped, and what it covers beyond that one is *)
(* lost; one that touches it makes the program assign to an element of a   *)
(* tuple, a TypeError.                                                     *)
Union(unioned, interval) ==
    LET l == unioned.list
    IN  IF ~unioned.ok THEN unioned
        ELSE IF l = <<>> \/ End(l[Len(l)]) < Start(interval)
        THEN [unioned EXCEPT !.list = Append(@, interval)]
        ELSE [unioned EXCEPT !.ok = End(l[Len(l)]) # Start(interval)]

(* The list, and whether reading it raised nothing *)
ReadSortedList(tag, lines) ==
    LET l == Sorted(tag, lines)
        unioned[k \in 0..Len(l)] ==
            IF k = 0 THEN [ok |-> TRUE, list |-> <<>>]
            ELSE Union(unioned[k - 1], l[k])
    IN  unioned[Len(l)]

(* bisect.bisect(l, (key, None)): (key, None) is less than an interval     *)
(* that starts at key.                                                     *)
Bisect(l, key) ==
    CHOOSE pos \in 0..Len(l) :
        /\ \A i \in 1..pos : Start(l[i]) < key
        /\ \A i \in (pos + 1)..Len(l) : Start(l[i]) >= key

(* Bug: a position behind the last interval is taken for not found. *)
FindBeforeEnd(l, key) ==
    /\ l # <<>> /\ Bisect(l, key) < Len(l)
    /\ Inside(key, l[Bisect(l, key) + 1])

FindInIntervalList(l, key) ==
    /\ l # <<>>
    /\ LET pos == Bisect(l, key)
       IN  Inside(key, l[IF pos >= Len(l) THEN Len(l) ELSE pos + 1])

-----------------------------------------------------------------------------
(* Lists of intervals by their starts, and that do not even touch *)
ByStart(l) ==
    /\ l \in Seq(Int \X Int)
    /\ \A i, j \in 1..Len(l) : i <= j => Start(l[i]) <= Start(l[j])
FollowEachOther(l) == \A i, j \in 1..Len(l) : i < j => End(l[i]) < Start(l[j])
=============================================================================
