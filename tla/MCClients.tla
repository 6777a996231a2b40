----------------------------- MODULE MCClients -----------------------------
(* One GUI, whose user does two things, and one run of the script *)
EXTENDS ClientsInv
=============================================================================
