------------------------- MODULE MCCheatRepository -------------------------
(* Small instances of CheatRepository for TLC. *)
EXTENDS CheatRepository

TwoFormats == <<"json", "shn">>
=============================================================================
