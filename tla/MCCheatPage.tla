------------------------------ MODULE MCCheatPage ------------------------------
(* Small instances of CheatPage for TLC. Requests are of one or two pieces, the *)
(* limit is three.                                                              *)
EXTENDS CheatPage

MCSlots == PageSlots \cup OtherSlots
TwoFiles == {{}, {1, 2}}
LongFiles == {{1}, {1, 2, 3}}
\* what reaches the server from other clients: a toggle without the marker, one whose
\* body is not a toggle, a proper one, one that is too long, and the static routes
Unmarked == [Put(1, TRUE) EXCEPT !.trusted = FALSE]
Malformed == [Put(1, TRUE) EXCEPT !.valid = FALSE]
Huge == [Put(2, TRUE) EXCEPT !.body = 3]
LongHead == [Get("health") EXCEPT !.head = 4]
Foreign == {Unmarked, Malformed, Put(2, TRUE), Huge, LongHead, Get("health"), Get("nowhere"),
            [Get("health") EXCEPT !.method = "garbled"], [Get("health") EXCEPT !.method = "POST"]}
=============================================================================
