------------------------- MODULE MCRadioEventTable -------------------------
(* Small instances of RadioEventTable.  The first two bands are one        *)
(* transmission seen at slightly different places, the last is narrow.     *)
EXTENDS RadioEventTable

Band(start, end) == [start |-> start, end |-> end]

SomeBands == {Band(100, 120), Band(101, 121), Band(140, 160), Band(180, 185)}

=============================================================================
