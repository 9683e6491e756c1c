---------------------------- MODULE CompGeometry ----------------------------
(***************************************************************************)
(* The geometry kernel of CompensationPreprocessor: the pure helpers       *)
(* cross_product_2d, calculate_perpendicular_offset,                       *)
(* calculate_corner_intersection, is_inside_corner and                     *)
(* compensate_arc_endpoint, on the XY plane.                               *)
(*                                                                         *)
(* Coordinates are integers.  The code normalises every direction vector   *)
(* (divides it by its length when the length exceeds 1e-5) before it      *)
(* calls the kernel.  Normalising is a positive scaling, so it changes no  *)
(* sign, no zero test and no direction, and on an integer grid a vector    *)
(* has length 0 or at least 1.  The kernel's results are therefore kept   *)
(* as exact symbolic points: a programmed point "at" plus an Offset whose  *)
(* fields are the unnormalised integer vectors the code's formula is      *)
(* applied to:                                                             *)
(*   "none"    no offset;                                                  *)
(*   "perp"    r * dir / |dir|          (dir = the rotated direction);     *)
(*   "tangent" r * dir / |dir|          (dir = signed tangent, u1 = radial)*)
(*   "corner"  r * dir / |dir| + t1 * u1 / |u1|, with                      *)
(*             t1 = (dx*u2y - dy*u2x) / det as in the code;                *)
(* a zero dir stands for a zero offset, as in the code.                    *)
(***************************************************************************)
EXTENDS Integers

Vec == [x : Int, y : Int]

Zero == [x |-> 0, y |-> 0]

Sub(a, b) == [x |-> a.x - b.x, y |-> a.y - b.y]

Add(a, b) == [x |-> a.x + b.x, y |-> a.y + b.y]

Neg(a) == [x |-> -a.x, y |-> -a.y]

Dot(a, b) == a.x * b.x + a.y * b.y

\* cross_product_2d: v1[0] * v2[1] - v1[1] * v2[0]
cross_product_2d(v1, v2) == v1.x * v2.y - v1.y * v2.x

\* a is a positive multiple of b (both zero counts too): the same direction
\* once normalised.
SameDirection(a, b) ==
    \/ a = Zero /\ b = Zero
    \/ cross_product_2d(a, b) = 0 /\ Dot(a, b) > 0

\* Mutant: the two rotations exchanged (G41 and G42 swapped).
Normal_sides_swapped(u, is_left) ==
    IF is_left THEN [x |-> u.y, y |-> -u.x] ELSE [x |-> -u.y, y |-> u.x]

\* The normal of a travel direction: rotated 90 degrees CCW for G41
\* (left), 90 degrees CW for G42 (right).
Normal(u, is_left) ==
    IF is_left THEN [x |-> -u.y, y |-> u.x] ELSE [x |-> u.y, y |-> -u.x]

OffsetKinds == {"none", "perp", "corner", "tangent"}

Offset == [kind : OffsetKinds, dir : Vec, u1 : Vec, u2 : Vec,
           r : Int, left : BOOLEAN]

NoOffset == [kind |-> "none", dir |-> Zero, u1 |-> Zero, u2 |-> Zero,
             r |-> 0, left |-> FALSE]

\* An offset that moves nothing: none, a zero radius, or a zero direction
\* (a corner always has a non-zero dir, as its directions are not parallel).
IsZeroOffset(o) == o.kind = "none" \/ o.r = 0 \/ o.dir = Zero

\* A point of the emitted path: a grid point plus a symbolic offset.
SymPoint == [at : Vec, off : Offset]

Plain(p) == [at |-> p, off |-> NoOffset]

\* calculate_perpendicular_offset: endpoint + normal(direction) * radius.
calculate_perpendicular_offset(endpoint, direction, radius, is_left) ==
    [at |-> endpoint,
     off |-> [kind |-> "perp", dir |-> Normal(direction, is_left),
              u1 |-> direction, u2 |-> Zero, r |-> radius, left |-> is_left]]

\* calculate_corner_intersection: fails when the determinant of the two
\* directions is below 1e-5 (parallel or degenerate directions); otherwise
\* the intersection of the two offset lines through the corner.
calculate_corner_intersection(corner, dir1, dir2, radius, is_left) ==
    [ok |-> cross_product_2d(dir1, dir2) # 0,
     pt |-> [at |-> corner,
             off |-> [kind |-> "corner", dir |-> Normal(dir1, is_left),
                      u1 |-> dir1, u2 |-> dir2, r |-> radius,
                      left |-> is_left]]]

\* is_inside_corner: G41 calls a negative cross product inside, G42 a
\* positive one.
is_inside_corner(dir1, dir2, is_left) ==
    IF is_left THEN cross_product_2d(dir1, dir2) < 0
               ELSE cross_product_2d(dir1, dir2) > 0

\* An arc's I/J as the pair (absolute centre, reference point): I/J is
\* centre - from.
ArcIJ == [centre : Vec, from : SymPoint]

\* compensate_arc_endpoint: the centre is the uncompensated start plus I/J;
\* a radius below 1e-5 fails and changes nothing; otherwise the endpoint
\* moves along the tangent at the endpoint (outward for G41+CCW and
\* G42+CW, inward otherwise) and I/J is re-expressed from the compensated
\* start.  ijk carries the centre computed from the uncompensated start.
compensate_arc_endpoint(comp_start, endpoint, ijk, radius, is_left, is_cw) ==
    LET to_end   == Sub(endpoint, ijk.centre)
        tangent  == IF is_cw THEN [x |-> -to_end.y, y |-> to_end.x]
                             ELSE [x |-> to_end.y, y |-> -to_end.x]
        outward  == (is_left /\ ~is_cw) \/ (~is_left /\ is_cw)
    IN  IF to_end = Zero
          THEN [ok |-> FALSE, endpoint |-> Plain(endpoint), ijk |-> ijk]
          ELSE [ok |-> TRUE,
                endpoint |-> [at |-> endpoint,
                              off |-> [kind |-> "tangent",
                                       dir |-> IF outward THEN tangent
                                                          ELSE Neg(tangent),
                                       u1 |-> to_end, u2 |-> Zero,
                                       r |-> radius, left |-> is_left]],
                ijk |-> [centre |-> ijk.centre, from |-> comp_start]]
=============================================================================
