--------------------- MODULE MCCompensationPreprocessor ---------------------
(***************************************************************************)
(* A small instance of CompensationPreprocessor for TLC: a 4-slot buffer   *)
(* (enough for the 3-move lookahead, a full buffer and wrap-around of the  *)
(* indices), a 2x2 grid of programmed points, one radius.                  *)
(***************************************************************************)
EXTENDS CompensationPreprocessor

MCBufferSize == 4

MCMaxIngest == 6

Pt(a, b) == [x |-> a, y |-> b]

\* G<g> X<x> Y<y> I<i> J<j> with the extra words w.
Cmd(hg, g, a, b, i, j, w) ==
    [has_g |-> hg, g |-> g, x |-> a, y |-> b, i |-> i, j |-> j, words |-> w]

\* A G1 with a feed rate, a G1 with only a Y word, a clockwise arc about the point one unit along X from its
\* start, and an M-code (no G word).
MCCommands ==
    { Cmd(TRUE, 1, 1, 0, 0, 0, {"F"}),
      Cmd(TRUE, 1, NoWord, 1, 0, 0, {}),
      Cmd(TRUE, 2, 1, 1, 1, 0, {}),
      Cmd(FALSE, 0, NoWord, NoWord, 0, 0, {"Aux"}) }

\* For the checks of returned commands: a G1 with a feed rate, a G1 with
\* only a Y word, a rapid, a clockwise arc, an arc whose endpoint is its
\* centre when it starts at the origin, and an M-code.
MCReturnCommands ==
    { Cmd(TRUE, 1, 1, 0, 0, 0, {"F"}),
      Cmd(TRUE, 1, NoWord, 1, 0, 0, {}),
      Cmd(TRUE, 0, 0, 1, 0, 0, {}),
      Cmd(TRUE, 2, 1, 1, 1, 0, {}),
      Cmd(TRUE, 2, 1, 0, 1, 0, {}),
      Cmd(FALSE, 0, NoWord, NoWord, 0, 0, {"Aux"}) }

\* Two values an uninitialised float pair may hold.
MCTwoPositions == {Pt(0, 0), Pt(1, 1)}

MCRadii == {1}

MCPositions == {Pt(0, 0)}

\* The control state: which clone each slot owns and what kind of command
\* it is, the indices, counters, mode, radius and flushing flag.  No guard
\* of the class reads a coordinate (geometry only chooses the values
\* written into endpoint and ijk), so two states with the same control
\* state have the same successors up to coordinates, and the buffer and
\* queue properties read no coordinate: TLC identifies such states.
MCControlView ==
    <<[i \in Slots |-> <<buffer[i].gcode, buffer[i].src, buffer[i].is_move,
                         buffer[i].has_ijk, buffer[i].is_cw>>],
      buffer_head, buffer_tail, buffer_count, compensation_type,
      compensation_radius, is_flushing, ingested, returned, last_id>>
=============================================================================
