------------------------ MODULE CornerGeometryProofs ------------------------
(***************************************************************************)
(* calculate_corner_intersection puts the corner on both offset lines, for *)
(* every common length of the directions, every radius and every corner.  *)
(* The TLC run checks it for the 3-4-5 directions; the proof is algebra:   *)
(* with D = cross(d1, d2) and N1, N2 the normals, the point minus the      *)
(* corner is r*D*N1 + T*d1 (scaled by Len*D), and                         *)
(*   cross(d1, N1) = cross(d2, N2) = Side * Len^2,  cross(d1, d1) = 0,     *)
(*   T = r * (cross(N2, d2) - cross(N1, d2)).                              *)
(***************************************************************************)
EXTENDS CornerGeometry, TLAPS

\* The normal is at a right angle to the left (G41) or right (G42) of d,
\* with the length of d.
LEMMA NormalCross ==
    ASSUME NEW d \in Vec, NEW left \in BOOLEAN
    PROVE  cross_product_2d(d, Normal(d, left)) =
              (IF left THEN 1 ELSE -1) * Dot(d, d)
BY DEF cross_product_2d, Normal, Dot, Vec

\* Every variable keeps to its constant set.
Inv ==
    /\ dir1 \in Dirs
    /\ dir2 \in Dirs
    /\ is_left \in BOOLEAN
    /\ radius \in Radii
    /\ corner \in Corners

LEMMA InvInit == Init => Inv
BY InputsAssumption DEF Init, Inv

LEMMA InvNext == Inv /\ [Next]_vars => Inv'
BY DEF Inv, Next, Choose, vars
\* cross_product_2d is linear in its second argument, antisymmetric, and
\* zero on parallel (equal) vectors.
LEMMA CrossLinear ==
    ASSUME NEW a \in Vec, NEW u \in Vec, NEW v \in Vec,
           NEW k \in Int, NEW m \in Int
    PROVE  cross_product_2d(a, [x |-> k * u.x + m * v.x,
                                y |-> k * u.y + m * v.y]) =
             k * cross_product_2d(a, u) + m * cross_product_2d(a, v)
BY DEF cross_product_2d, Vec

LEMMA CrossAnti ==
    ASSUME NEW a \in Vec, NEW b \in Vec
    PROVE  /\ cross_product_2d(a, b) = - cross_product_2d(b, a)
           /\ cross_product_2d(a, a) = 0
           /\ cross_product_2d(a, b) \in Int
BY DEF cross_product_2d, Vec

LEMMA CrossSub ==
    ASSUME NEW a \in Vec, NEW b \in Vec, NEW d \in Vec
    PROVE  cross_product_2d(Sub(a, b), d) =
             cross_product_2d(a, d) - cross_product_2d(b, d)
BY DEF cross_product_2d, Sub, Vec

\* The point calculate_corner_intersection returns, minus the corner, is
\* at signed distance Side * radius from the line of each direction.
LEMMA CornerOnLines ==
    ASSUME NEW c \in Vec, NEW d1 \in Vec, NEW d2 \in Vec, NEW r \in Int,
           NEW left \in BOOLEAN,
           Dot(d1, d1) = Len * Len, Dot(d2, d2) = Len * Len
    PROVE  LET R == CornerIntersectionExact(c, d1, d2, r, left)
               P == [x |-> R.num.x - R.den * c.x, y |-> R.num.y - R.den * c.y]
               S == IF left THEN 1 ELSE -1
           IN  /\ cross_product_2d(d1, P) = S * r * Len * R.den
               /\ cross_product_2d(d2, P) = S * r * Len * R.den
<1> DEFINE X  == cross_product_2d(d1, d2)
           N1 == Normal(d1, left)
           N2 == Normal(d2, left)
           T  == r * cross_product_2d(Sub(N2, N1), d2)
           S  == IF left THEN 1 ELSE -1
           P  == [x |-> (r * X) * N1.x + T * d1.x,
                  y |-> (r * X) * N1.y + T * d1.y]
<1>1. /\ N1 \in Vec /\ N2 \in Vec /\ X \in Int /\ T \in Int /\ S \in Int
      /\ Len \in Int
    BY LenAssumption DEF Normal, Vec, cross_product_2d, Sub
<1>2. LET R == CornerIntersectionExact(c, d1, d2, r, left)
      IN  /\ R.den = Len * X
          /\ [x |-> R.num.x - R.den * c.x, y |-> R.num.y - R.den * c.y] = P
    BY <1>1 DEF CornerIntersectionExact, Vec
<1>3. cross_product_2d(d1, P) = (r * X) * cross_product_2d(d1, N1)
                                + T * cross_product_2d(d1, d1)
    BY <1>1, CrossLinear
<1>4. cross_product_2d(d1, P) = S * r * Len * (Len * X)
    BY <1>1, <1>3, CrossAnti, NormalCross
<1>5. cross_product_2d(d2, P) = (r * X) * cross_product_2d(d2, N1)
                                + T * cross_product_2d(d2, d1)
    BY <1>1, CrossLinear
<1>6. T = r * (- (S * (Len * Len)) + cross_product_2d(d2, N1))
    <2>1. cross_product_2d(Sub(N2, N1), d2) =
            - cross_product_2d(d2, N2) + cross_product_2d(d2, N1)
        BY <1>1, CrossSub, CrossAnti
    <2>2. cross_product_2d(d2, N2) = S * (Len * Len)
        BY NormalCross
    <2> QED
        BY <1>1, <2>1, <2>2
<1>7. cross_product_2d(d2, P) = S * r * Len * (Len * X)
    <2>1. cross_product_2d(d2, d1) = - X /\ cross_product_2d(d2, N1) \in Int
        BY <1>1, CrossAnti
    <2>2. cross_product_2d(d2, P) = (r * X) * cross_product_2d(d2, N1)
                                    + T * (- X)
        BY <1>5, <2>1
    <2>3. cross_product_2d(d2, P) \in Int
        BY <1>1 DEF cross_product_2d, Vec
    <2>4. PICK C \in Int : C = cross_product_2d(d2, N1)
        BY <2>1
    <2>5. PICK Q \in Int : Q = cross_product_2d(d2, P)
        BY <2>3
    <2>6. PICK Xv \in Int : Xv = X
        BY <1>1
    <2>7. PICK Tv \in Int : Tv = T
        BY <1>1
    <2>8. PICK Sv \in Int : Sv = S
        BY <1>1
    <2>9. /\ Tv = r * (- (Sv * (Len * Len)) + C)
          /\ Q = (r * Xv) * C + Tv * (- Xv)
        BY <1>6, <2>2, <2>4, <2>5, <2>6, <2>7, <2>8
    <2>10. Q = Sv * r * Len * (Len * Xv)
        BY <1>1, <2>9
    <2> QED
        BY <2>5, <2>6, <2>8, <2>10
<1> QED
    BY <1>2, <1>4, <1>7
\* Every corner calculate_corner_intersection computes for non-parallel
\* moves lies on both offset lines, on the G41/G42 side, at the radius: for
\* every Len, every set of directions of length Len, every radius and
\* every corner point (the property CornerOnBothOffsetLines the run checks).
THEOREM CornerEquidistant == Spec => []CornerOnBothOffsetLines
<1>1. Inv => CornerOnBothOffsetLines
    <2> SUFFICES ASSUME Inv PROVE CornerOnBothOffsetLines
        OBVIOUS
    <2>1. /\ dir1 \in Vec /\ Dot(dir1, dir1) = Len * Len
          /\ dir2 \in Vec /\ Dot(dir2, dir2) = Len * Len
          /\ radius \in Int /\ corner \in Vec /\ is_left \in BOOLEAN
        BY DirsAssumption, RadiiAssumption, CornersAssumption DEF Inv
    <2> QED
        BY <2>1, CornerOnLines
        DEF CornerOnBothOffsetLines, SignedDistanceScaled, Result, Side
<1> QED
    BY <1>1, InvInit, InvNext, PTL DEF Spec
=============================================================================
