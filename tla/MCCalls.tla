------------------------------ MODULE MCCalls ------------------------------
EXTENDS Calls, TLC

CONSTANTS m1, m2, w, s, r1, r2, p1, p2, b1, b2

MCLinkOf  == [m \in Meeting |-> "link"]
MCOwnerOf == [m \in Meeting |-> IF m = m1 THEN p1 ELSE p2]
MCEarlier == {<<m1, m2>>} \intersect (Meeting \X Meeting)

\* m1 after a first assistant that failed, as a refresh recorded it
FailedOnce ==
    /\ side = "end" /\ crossed = {} /\ LeaveInit /\ SchedInit({})
    /\ meet = [m \in Meeting |-> [NoMeeting EXCEPT !.st = "failed", !.cap = b1]]
    /\ leave = [m \in Meeting |-> [NO_STATE EXCEPT !.end = "vexa", !.at = 0]]
    /\ bot = [b \in Bot |-> [m |-> m1, st |-> IF b = b1 THEN "failed" ELSE "none", words |-> 0]]
    /\ text = [m \in Meeting |-> 0] /\ flow = [a \in Actor |-> Idle] /\ ops = 0 /\ faults = 0

=============================================================================
