---------------------------- MODULE MCSfuRoom ------------------------------
(* SfuRoom on small instances: one meeting, three connections.             *)
EXTENDS SfuRoom, TLC

CONSTANTS s1, s2, s3, u1, u2, u3, m1

MCSessions == {s1, s2, s3}
MCUsers    == {u1, u2, u3}
MCMeets    == {m1}
MCMeetOf   == [s \in Sessions |-> m1]

\* Every connection is another user's.
DistinctUsers == s1 :> u1 @@ s2 :> u2 @@ s3 :> u3

\* s2 and s3 are two tabs of one user.
TwoTabsUsers == {u1, u2}
TwoTabs == s1 :> u1 @@ s2 :> u2 @@ s3 :> u2

=============================================================================
