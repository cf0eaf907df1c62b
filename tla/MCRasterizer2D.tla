----------------------------- MODULE MCRasterizer2D -----------------------------
(****************************************************************************)
(* Finite instance of Rasterizer2D: lines from the origin in every direction, *)
(* outlines of triangles, and filled polygons with up to four vertices, all  *)
(* shapes included: points, segments, concave and crossing ones.  Doubles    *)
(* have 17 bits instead of 53, 12 fewer three times: thirds, fifths, sixths, *)
(* sevenths and ninths, whose digits repeat after divisors of 12, round as   *)
(* they do with 53.  The tall triangles have an edge that reaches a point    *)
(* only nearly: six times - 2/3, added up, is more than - 4.                 *)
(****************************************************************************)
EXTENDS Rasterizer2D

P(px, py) == [x |-> px, y |-> py]
Grid(w, h) == {P(px, py) : px \in 0..w, py \in 0..h}

MCCalls ==
  {[what |-> "line", vertices |-> <<P(0, 0), p>>] :
     p \in {P(px, py) : px \in -8..8, py \in -8..8}}
  \cup {[what |-> "outline", vertices |-> <<p, q, P(1, 1)>>] :
          p \in Grid(3, 2), q \in Grid(3, 2)}
  \cup {[what |-> "outline", vertices |-> <<P(0, 0), p>>] : p \in Grid(3, 2)}
  \cup {[what |-> "outline", vertices |-> <<P(0, 0)>>]}
  \cup {[what |-> "fill", vertices |-> <<p, q, r>>] :
          p \in Grid(2, 4), q \in Grid(4, 4), r \in Grid(4, 4)}
  \cup {[what |-> "fill", vertices |-> <<p, q, r, P(1, 1)>>] :
          p \in Grid(3, 3), q \in Grid(3, 3), r \in Grid(3, 3)}
  \cup {[what |-> "fill", vertices |-> <<P(0, 0), P(-6, 9), p>>] :
          p \in {P(px, py) : px \in -6..6, py \in {0, 4, 9}}}
==============================================================================
