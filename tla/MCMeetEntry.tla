---------------------------- MODULE MCMeetEntry ----------------------------
(* MeetEntry on a small instance: a group that s1 created and that a user  *)
(* with two tabs is asked to, and somebody with the link of a 1-to-1       *)
(* meeting.                                                                *)
EXTENDS MeetEntry, TLC

CONSTANTS s1, s2, s3, s4, u1, u2, u4, m1, m2

MCSessions == {s1, s2, s3, s4}
MCUsers    == {u1, u2, u4}
MCMeets    == {m1, m2}
TwoTabs    == s1 :> u1 @@ s2 :> u2 @@ s3 :> u2 @@ s4 :> u4
MCMeetOf   == s1 :> m1 @@ s2 :> m1 @@ s3 :> m1 @@ s4 :> m2
MCTypes    == {"group", "1to1"}
MCTypeOf   == m1 :> "group" @@ m2 :> "1to1"
MCCreators == {s1}
=============================================================================
