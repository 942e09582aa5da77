------------------------------ MODULE MCIdUtil ------------------------------
EXTENDS IdUtil

CONSTANTS t1, t2

MCHashOf == [t \in IdThreads |-> IF t = t1 THEN 7 ELSE 8]
MCHostHash == -3
MCCustomIds == {<<1, 40>>, <<33, -1>>}
=============================================================================
