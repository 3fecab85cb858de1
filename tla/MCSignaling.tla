---------------------------- MODULE MCSignaling ----------------------------
EXTENDS WebRTCSignaling

CONSTANTS p1, p2, w1, w2, veh, alien

\* Every token is good for every vehicle.
AccessAll == [c \in Conn |-> Vehicle]

\* p1 and w1 belong to one vehicle; p2 may use another as well.
AccessBoth == [c \in Conn |-> IF c = p2 THEN Vehicle ELSE {veh}]
============================================================================
