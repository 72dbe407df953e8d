---------------------------- MODULE MCEventStream ---------------------------
(* Instances of EventStream for TLC: text without a pause, and a pause     *)
(* before the text.                                                        *)
EXTENDS EventStream

MCBounds == {[deltas |-> 3, events |-> 0, pauses |-> 0],
             [deltas |-> 1, events |-> 1, pauses |-> 1]}

MCStaleBounds == {[deltas |-> 0, events |-> 1, pauses |-> 1]}
=============================================================================
