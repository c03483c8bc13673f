--------------------------- MODULE MCRenegotiation --------------------------
(* Renegotiation on a small instance: the tracks of two other peers.       *)
EXTENDS Renegotiation, TLC

CONSTANTS t1, t2

MCTracks == {t1, t2}
=============================================================================
