--------------------------- MODULE MCFairTaskQueue ---------------------------
EXTENDS FairTaskQueue

CONSTANTS u1, u2, u3, t1, t2

MCOwners == {u1, u2, u3}
MCItems == {t1, t2}
=============================================================================
