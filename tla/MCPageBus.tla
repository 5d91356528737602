----------------------------- MODULE MCPageBus ------------------------------
(***************************************************************************)
(* Texts of one or two characters, some of them with two bytes.            *)
(***************************************************************************)
EXTENDS PageBus

MCIdOf == [p \in {"webclient", "nc"} |-> IF p = "nc" THEN <<110, 99>> ELSE <<119>>]
MCOtherNames == {<<233, 49>>}
MCUids == <<"a0", "f1", "72">>
MCMaster == <<109>>
=============================================================================
