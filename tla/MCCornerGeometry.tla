-------------------------- MODULE MCCornerGeometry --------------------------
(* CornerGeometry with the twelve integer directions of length 5: the axes *)
(* and the 3-4-5 directions, so that right, acute, obtuse, reversing and   *)
(* parallel corners all occur, on both sides and at two corner points.     *)
EXTENDS CornerGeometry

MCLen == 5

MCDirs ==
    {[x |-> a, y |-> b] : <<a, b>> \in
        {<<5, 0>>, <<0, 5>>, <<-5, 0>>, <<0, -5>>,
         <<3, 4>>, <<4, 3>>, <<-3, 4>>, <<-4, 3>>,
         <<3, -4>>, <<4, -3>>, <<-3, -4>>, <<-4, -3>>}}

MCRadii == {1, 2}

MCCorners == {[x |-> 0, y |-> 0], [x |-> 2, y |-> -1]}
=============================================================================
