----------------------------- MODULE MCMediaTile -----------------------------
(* MediaTile for TLC: two builds; two changes and three faults leave room for a *)
(* failure, a loss of power during the repair, and a failed registration.       *)
EXTENDS MediaTile
=============================================================================
