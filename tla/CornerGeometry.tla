--------------------------- MODULE CornerGeometry ---------------------------
(***************************************************************************)
(* calculate_corner_intersection evaluated exactly.  The code normalises   *)
(* both directions before the call; for integer directions of one common  *)
(* length Len (3-4-5 triangles and the axes when Len = 5) the normalised   *)
(* vectors are d / Len exactly, and every quantity of the code is a        *)
(* rational number.  The intersection point is kept as an integer vector  *)
(* num and an integer den with point = num / den.                          *)
(*                                                                         *)
(* Init is one parallel pair; every step chooses new inputs, so that TLC  *)
(* checks every pair of directions, both sides, every radius and corner   *)
(* point of the instance.                                                  *)
(***************************************************************************)
EXTENDS Integers, CompGeometry

CONSTANTS Len, Dirs, Radii, Corners

ASSUME LenAssumption == Len \in Nat \ {0}
ASSUME DirsAssumption ==
    Dirs \subseteq Vec /\ \A d \in Dirs : Dot(d, d) = Len * Len
ASSUME RadiiAssumption == Radii \subseteq Nat \ {0}
ASSUME CornersAssumption == Corners \subseteq Vec
ASSUME InputsAssumption == Dirs # {} /\ Radii # {} /\ Corners # {}

VARIABLES dir1, dir2, is_left, radius, corner

vars == <<dir1, dir2, is_left, radius, corner>>

Init ==
    /\ dir1 = CHOOSE d \in Dirs : TRUE
    /\ dir2 = dir1
    /\ is_left = TRUE
    /\ radius = CHOOSE r \in Radii : TRUE
    /\ corner = CHOOSE c \in Corners : TRUE

Choose ==
    /\ dir1' \in Dirs
    /\ dir2' \in Dirs
    /\ is_left' \in BOOLEAN
    /\ radius' \in Radii
    /\ corner' \in Corners

Next == Choose

Spec == Init /\ [][Next]_vars

\* The code's calculate_corner_intersection with u = d / Len:
\*   n1, n2      = the normals of u1, u2 (Normal(d) / Len)
\*   p1, p2      = corner + n1 * r, corner + n2 * r
\*   det         = u1x * u2y - u1y * u2x        = X / Len^2
\*   dx, dy      = p2 - p1                      = r * (N2 - N1) / Len
\*   t1          = (dx * u2y - dy * u2x) / det  = r * cross(N2 - N1, d2) / X
\*   output      = p1 + t1 * u1
\* with X = cross(d1, d2), N = Normal(d).  Scaled by Len * X:
\*   num = Len * X * corner + r * X * N1 + r * cross(N2 - N1, d2) * d1.
CornerIntersectionExact(c, d1, d2, r, left) ==
    LET X  == cross_product_2d(d1, d2)
        N1 == Normal(d1, left)
        N2 == Normal(d2, left)
        T  == r * cross_product_2d(Sub(N2, N1), d2)
    IN  [ok  |-> X # 0,
         t1num |-> T,
         t1den |-> X,
         num |-> [x |-> Len * X * c.x + r * X * N1.x + T * d1.x,
                  y |-> Len * X * c.y + r * X * N1.y + T * d1.y],
         den |-> Len * X]

Result == CornerIntersectionExact(corner, dir1, dir2, radius, is_left)

\* Signed distance of the point num / den from the line through the corner
\* along d, times Len * den: positive on the left of travel.
SignedDistanceScaled(d) ==
    cross_product_2d(d, [x |-> Result.num.x - Result.den * corner.x,
                         y |-> Result.num.y - Result.den * corner.y])

Side == IF is_left THEN 1 ELSE -1

(***************************************************************************)
(* Properties.                                                             *)
(***************************************************************************)

\* The corner the code computes lies on both offset lines: at distance
\* radius from each programmed segment, on the G41/G42 side of travel of
\* each (spec 8: "returns a point equidistant (radius) from both
\* programmed segments").  Checked for every non-parallel pair.
CornerOnBothOffsetLines ==
    Result.ok =>
        /\ SignedDistanceScaled(dir1) = Side * radius * Len * Result.den
        /\ SignedDistanceScaled(dir2) = Side * radius * Len * Result.den

\* is_inside_corner classifies a corner as inside exactly when the offset
\* path converges there (glossary: "inside: the offset path converges"),
\* i.e. when the intersection lies before the corner along the incoming
\* offset line (t1 < 0) and the incoming offset segment is shortened.
InsideCornerShortensOffset ==
    Result.ok =>
        (is_inside_corner(dir1, dir2, is_left) <=>
            Result.t1num * Result.t1den < 0)
=============================================================================
