-------------------------- MODULE MCTrackFanout ----------------------------
(* TrackFanout on a small instance: a publisher, and a user who reloads    *)
(* the page or opens it twice; one kind.                                   *)
EXTENDS TrackFanout, TLC

CONSTANTS s1, s2, s3, u1, u2, video

MCSessions == {s1, s2, s3}
MCUsers    == {u1, u2}
OneKind    == {video}

\* s2 and s3 are one user's.
Reload == s1 :> u1 @@ s2 :> u2 @@ s3 :> u2

\* s1 publishes.
OneTrack == {<<s1, video>>}
=============================================================================
