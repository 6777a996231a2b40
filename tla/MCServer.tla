------------------------------ MODULE MCServer ------------------------------
(***************************************************************************)
(* Small instances of Server for TLC.  The .cfg files give the constants;  *)
(* the assumptions below refuse an instance too small to be interesting.   *)
(***************************************************************************)
EXTENDS ServerInv

(* The reader fills every slot and comes round to the first one again. *)
ASSUME RingWraps == MaxFrame >= BUFSIZE

(* Two frames are the least that tells a full ring from an empty one. *)
ASSUME RingHoldsFrames == BUFSIZE >= 2
=============================================================================
