---------------------------- MODULE MCScoreCache ----------------------------
(* Two servers, each with one reader and one writer.                       *)
EXTENDS ScoreCache, TLC

CONSTANTS s1, s2, r1, r2, w1, w2

MCHome == (r1 :> s1) @@ (r2 :> s2) @@ (w1 :> s1) @@ (w2 :> s2)
=============================================================================
