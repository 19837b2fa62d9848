---------------------------- MODULE MCCommandPath ----------------------------
(* CommandPath in a workspace whose positions 2 and 3 are inside, 1 and 4    *)
(* outside.  Of the speeds, 300.5 needs a second byte and a fraction, and     *)
(* 65556 mm/s does not fit 16 bits.                                           *)
EXTENDS CommandPath

MCOffsets == {2}
MCSpeeds == {601, 131112}
MCZoneNumber == [FINE |-> 0, Z1 |-> 1, Z5 |-> 2, Z10 |-> 3, Z15 |-> 4, Z20 |-> 5, Z30 |-> 6]
=============================================================================
