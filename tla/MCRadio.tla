------------------------------ MODULE MCRadio ------------------------------
(* Two GUIs that step and type the settings of one radio. *)
EXTENDS RadioControl

MCTypedFreqs == {7}
MCTypedPpms == {3}
MCTypedGains == {<<0>>, <<2, 9>>}
=============================================================================
