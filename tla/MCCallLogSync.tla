---------------------------- MODULE MCCallLogSync ----------------------------
(* Instances of CallLogSyncProps for TLC. *)
EXTENDS CallLogSyncProps, TLC

CONSTANTS s1, s2

OneSync == {s1}
TwoSyncs == {s1, s2}

Digits == <<1, 2, 3>>

Early   == [id |-> 1, at |-> 1, num |-> Digits, kind |-> "call"]
Blocked == [id |-> 2, at |-> 2, num |-> Digits, kind |-> "other"]
Late    == [id |-> 3, at |-> 3, num |-> Digits, kind |-> "call"]

\* Two calls with one customer, and between them a row that is not reported.
ThreeRows == {Early, Blocked, Late}
TwoCalls == {Early, Late}

\* A recording that could be of either call.
Between == [file |-> "between", at |-> 2, num |-> Digits]

NoFiles == {}
OneFile == {Between}
=============================================================================
