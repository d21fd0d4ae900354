----------------------------- MODULE MCIngestion -----------------------------
(* Instances of Ingestion small enough for TLC.                              *)
EXTENDS Ingestion, TLC

CONSTANTS d1, t1, t2, r1, m1, a1

OneDevice == {d1}
TwoStamps == {t1, t2}
OneRequest == {r1}
OneMqttList == {m1}
OneApiList == {a1}
FiveKeys == 1..5

Reading(t, b, s) == [dev |-> d1, stamp |-> t, controllable |-> b, schedules |-> s]

\* Readings of one device with and without schedules, which the broker may
\* deliver again, one in a message with an event that is rejected, and an
\* event whose rejection fails.
SomeMessages ==
    {<<Reading(t1, TRUE, Absent)>>,
     <<[reason |-> "short"], Reading(t2, FALSE, m1)>>,
     <<[reason |-> "long"]>>}
=============================================================================
