------------------------- MODULE MCRequestTracking -------------------------
\* Model values for the runs of RequestTracking.
EXTENDS RequestTracking

CONSTANTS r1, r2

TwoRequests == {r1, r2}
=============================================================================
