---------------------------- MODULE MCPrimario ----------------------------
(* Small instances of Primario: a turn of 16 azimuths (one per sector) and *)
(* a few words.  12301 = 0x3000 + 13, the first range that is not          *)
(* inhibited; 12305, 12310 and 12312 are 4, 9 and 11 counts further: a     *)
(* pair at the edge of the gate, one at the edge of the tolerance, one     *)
(* beyond it, and a chain of neighbours.  12290 is inhibited.              *)
EXTENDS Primario

MCAzimuts == {AZ, AZ + 1, AZ + 9, AZ + 14, AZ + 15}
MCRangos  == {12290, 12301, 12305, 12310, 12312}
MCLecturas == MCAzimuts \cup MCRangos \cup {ALT + 5}
=============================================================================
