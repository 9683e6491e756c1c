----------------------- MODULE MCCompensationCaller -----------------------
(***************************************************************************)
(* Three programs for the caller on a 4-slot buffer.  Between them: a     *)
(* corner, an arc and an M-code under G41, a side and radius change with   *)
(* two moves buffered, a G40 drain, five commands in Off mode (the buffer  *)
(* fills and buffer_gcode refuses), and a program that ends with G41 on.   *)
(***************************************************************************)
EXTENDS CompensationCaller

MCBufferSize == 4

MCMaxIngest == 7

Pt(a, b) == [x |-> a, y |-> b]

Cmd(hg, g, a, b, i, j, w) ==
    [has_g |-> hg, g |-> g, x |-> a, y |-> b, i |-> i, j |-> j, words |-> w]

\* G1 X1 Y0 F, G1 Y1, G1 X0 Y0, G2 X1 Y1 I1 J0, and an M-code.
A == Cmd(TRUE, 1, 1, 0, 0, 0, {"F"})
B == Cmd(TRUE, 1, NoWord, 1, 0, 0, {})
O == Cmd(TRUE, 1, 0, 0, 0, 0, {})
C == Cmd(TRUE, 2, 1, 1, 1, 0, {})
M == Cmd(FALSE, 0, NoWord, NoWord, 0, 0, {"Aux"})

MCCommands == {A, B, O, C, M}

Do(c) == [op |-> "cmd", c |-> c]
G(t, r) == [op |-> "mode", t |-> t, r |-> r]

MCPrograms ==
    { << G("LEFT", 1), Do(A), Do(B), Do(O), Do(C), Do(M), Do(A),
         G("NONE", 0) >>,
      << G("RIGHT", 2), Do(A), Do(B), G("LEFT", 1), Do(O), Do(A), Do(B),
         G("NONE", 0) >>,
      << Do(A), Do(B), Do(O), Do(A), Do(B), G("LEFT", 2), Do(O), Do(A) >> }

MCRadii == {0, 1, 2}

MCPositions == {Pt(0, 0)}
=============================================================================
