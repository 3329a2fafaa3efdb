------------------------------ MODULE MCPinBox ------------------------------
(* Three threads that get and put Pins, or two that allocate and share.    *)
EXTENDS PinBox

May(g, a, p, c, u) == [get |-> g, alloc |-> a, protect |-> p, copy |-> c, unlink |-> u]
PinsOnly == <<May(1, 0, 0, 0, 0), May(2, 0, 0, 0, 0), May(2, 0, 0, 0, 0)>>
Reader == <<May(1, 2, 0, 0, 1), May(1, 1, 2, 1, 1), May(0, 0, 0, 0, 0)>>
Poppers == <<May(1, 3, 0, 0, 2), May(1, 1, 0, 0, 0), May(0, 0, 0, 0, 0)>>
Mixed == {PinsOnly, Reader, Poppers}
===============================================================================
