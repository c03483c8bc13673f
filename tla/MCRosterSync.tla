---------------------------- MODULE MCRosterSync ----------------------------
(* RosterSync on small instances. *)
EXTENDS RosterSync, TLC

CONSTANTS s1, s2, s3, u1, u2

\* Two users who come, mute and go.
TwoUsers   == {u1, u2}
Pair       == {s1, s2}
OwnUser    == s1 :> u1 @@ s2 :> u2
EachMutes  == s1 :> 1 @@ s2 :> 1

\* One of them comes a second time, in another tab or after leaving.
Three      == {s1, s2, s3}
TwiceUser  == s1 :> u1 @@ s2 :> u2 @@ s3 :> u2
SecondMutes == s1 :> 0 @@ s2 :> 1 @@ s3 :> 0
Second     == {s2}
=============================================================================
