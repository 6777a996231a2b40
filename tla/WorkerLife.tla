----------------------------- MODULE WorkerLife -----------------------------
(***************************************************************************)
(* What the list of workers promises to everybody who deals with channels: *)
(* IDs are given out in their order, each once; a channel runs until it is *)
(* destroyed, and only then it is freed, for good.                         *)
(***************************************************************************)
EXTENDS Integers

CONSTANT Ids

VARIABLE life       \* of each ID: none, running, dying, freed

Init == life = [w \in Ids |-> "none"]

Create(w) ==
    /\ life[w] = "none"
    /\ \A v \in Ids : v < w => life[v] # "none"
    /\ life' = [life EXCEPT ![w] = "running"]

Destroy(w) ==
    /\ life[w] = "running"
    /\ life' = [life EXCEPT ![w] = "dying"]

Free(w) ==
    /\ life[w] = "dying"
    /\ life' = [life EXCEPT ![w] = "freed"]

Next == \E w \in Ids : Create(w) \/ Destroy(w) \/ Free(w)

Spec == Init /\ [][Next]_life
=============================================================================
