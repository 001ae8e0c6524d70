--------------------------- MODULE MCAccessSpecs ---------------------------
(* Two identifiers; a supported operation for each without and with a stop  *)
(* count, one with a negative count and one that is not supported.          *)
EXTENDS AccessSpecs

MCIds == {1, 2}
MCSupported == {"read", "write"}
MCAccesses ==
    {[id |-> 1, op |-> "read", stop |-> 0],
     [id |-> 1, op |-> "write", stop |-> 1],
     [id |-> 2, op |-> "read", stop |-> -1],
     [id |-> 2, op |-> "write", stop |-> 1],
     [id |-> 1, op |-> "kill", stop |-> 0]}
=============================================================================
