-------------------------- MODULE MCStationBranches --------------------------
EXTENDS StationBranches

CONSTANTS u1, u2, u3, hot

At1(u) == IF u = u3 THEN 2 ELSE 1
MCStationOf == [u \in Unit |-> At1(u)]
AllClash == {{x, y} : x, y \in Item}
HotAtTwo == {{u3, hot}}
First == {1}
NoGate == {}
=============================================================================
