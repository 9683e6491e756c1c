----------------------- MODULE CompensationPreprocessor -----------------------
(***************************************************************************)
(* The cutter-compensation preprocessor (CompensationPreprocessor.h/.cpp): *)
(* a 10-slot circular buffer of cloned G-codes, the G40/G41/G42 state,     *)
(* the resolution of the oldest buffered move with two moves of lookahead, *)
(* and the reconstruction of the emitted command.                          *)
(*                                                                         *)
(* The caller is left free: any public method may be called at any time,   *)
(* in any order, as the class itself does not restrict it.                 *)
(*                                                                         *)
(* Data abstraction: positions are integer XY points (Z is carried         *)
(* unchanged by every path of the code and is left out); emitted          *)
(* coordinates are the exact symbolic points of CompGeometry; a command    *)
(* is a record of the words the class reads; the Gcode clone owned by a   *)
(* slot is its sequence number (gcode) and its words (src).                *)
(***************************************************************************)
EXTENDS Integers, Sequences, CompGeometry

CONSTANTS
    BUFFER_SIZE,  \* capacity of the circular buffer (10 in the code)
    MaxIngest,    \* bound on the number of commands buffered in a run
    Commands,     \* the commands the caller may offer to buffer_gcode
    Radii,        \* the radii (D words) the caller may pass to set_compensation
    Positions,    \* positions for set_initial_position and uninitialised floats
    Null,         \* nullptr
    NoWord        \* an absent X or Y word

Point == Vec

\* The parsed command as the class sees it: has_g and g, the X/Y words
\* (NoWord when absent), I/J (0 when absent, as the code reads them), and
\* the other words present ("F" is the feed rate, "Aux" any other word).
Command == [has_g : BOOLEAN, g : 0..4, x : Int \cup {NoWord},
            y : Int \cup {NoWord}, i : Int, j : Int,
            words : SUBSET {"F", "Aux"}]

Modes == {"NONE", "LEFT", "RIGHT"}

ASSUME BufferSizeAssumption == BUFFER_SIZE \in Nat \ {0}
ASSUME MaxIngestAssumption == MaxIngest \in Nat
ASSUME CommandsAssumption == Commands \subseteq Command
ASSUME RadiiAssumption == Radii \subseteq Int
ASSUME PositionsAssumption == Positions \subseteq Point /\ Positions # {}
ASSUME NullAssumption == Null \notin Nat

Origin == [x |-> 0, y |-> 0]

\* The contents of a slot that never held a clone (never read).
NoCommand == [has_g |-> FALSE, g |-> 0, x |-> NoWord, y |-> NoWord,
              i |-> 0, j |-> 0, words |-> {}]

Ids == 1..MaxIngest

Slots == 0..(BUFFER_SIZE - 1)

\* struct BufferedGcode (the unused direction field is left out).
BufferedGcode == [gcode : Ids \cup {Null}, src : Command, is_move : BOOLEAN,
                  has_ijk : BOOLEAN, is_cw : BOOLEAN, endpoint : SymPoint,
                  ijk : ArcIJ, uncomp_start : Point]

VARIABLES
    buffer, buffer_head, buffer_tail, buffer_count,
    compensation_type, compensation_radius,
    uncompensated_position, compensated_position,
    is_flushing,
    ingested,  \* number of commands buffered so far (the clones' ids)
    returned,  \* number of commands get_compensated_gcode returned
    last_id    \* the id of the command it returned last (0 before the first)

vars == <<buffer, buffer_head, buffer_tail, buffer_count, compensation_type,
          compensation_radius, uncompensated_position, compensated_position,
          is_flushing, ingested, returned, last_id>>

-----------------------------------------------------------------------------
\* Buffer helpers.

\* Mutant: the room test admits one command too many.
buffer_has_space_off_by_one == buffer_count <= BUFFER_SIZE

buffer_has_space == buffer_count < BUFFER_SIZE

\* Mutant: the index is advanced without wrapping round.
buffer_next_index_no_wrap(index) == index + 1

buffer_next_index(index) == (index + 1) % BUFFER_SIZE

\* A slot as the constructor leaves it: gcode, is_move and has_ijk are set;
\* endpoint is never initialised and holds whatever the memory held.  The
\* other fields are written before they are read and get a fixed value.
InitialSlot(p) ==
    [gcode |-> Null, src |-> NoCommand, is_move |-> FALSE, has_ijk |-> FALSE, is_cw |-> FALSE,
     endpoint |-> Plain(p), ijk |-> [centre |-> Origin, from |-> Plain(Origin)],
     uncomp_start |-> Origin]

Init ==
    /\ buffer \in [Slots -> {InitialSlot(p) : p \in Positions}]
    /\ buffer_head = 0
    /\ buffer_tail = 0
    /\ buffer_count = 0
    /\ compensation_type = "NONE"
    /\ compensation_radius = 0
    /\ uncompensated_position = Origin
    /\ compensated_position = Plain(Origin)
    \* is_flushing is not initialised by the constructor.
    /\ is_flushing \in BOOLEAN
    /\ ingested = 0
    /\ returned = 0
    /\ last_id = 0

-----------------------------------------------------------------------------
\* clone_and_extract: the slot written for command c with clone id, and
\* the programmed endpoint (a missing X or Y keeps the current value).

IsMove(c) == c.has_g /\ c.g \in 0..3

Word(w, current) == IF w = NoWord THEN current ELSE w

Target(c) == [x |-> Word(c.x, uncompensated_position.x),
              y |-> Word(c.y, uncompensated_position.y)]

clone_and_extract(c, id, slot) ==
    IF ~IsMove(c)
    THEN [slot EXCEPT !.gcode = id, !.src = c, !.is_move = FALSE,
                      !.has_ijk = FALSE]
    ELSE LET arc == c.g \in {2, 3} IN
         [slot EXCEPT
            !.gcode = id, !.src = c, !.is_move = TRUE,
            !.uncomp_start = uncompensated_position,
            !.endpoint = Plain(Target(c)),
            !.has_ijk = arc,
            !.is_cw = IF arc THEN c.g = 2 ELSE @,
            !.ijk = IF arc
                      THEN [centre |-> Add(uncompensated_position,
                                           [x |-> c.i, y |-> c.j]),
                            from |-> Plain(uncompensated_position)]
                      ELSE @]

\* buffer_gcode: refused (returns false, nothing changes) when full.
buffer_gcode(c) ==
    /\ buffer_has_space
    /\ ingested < MaxIngest
    /\ buffer' = [buffer EXCEPT ![buffer_head] =
                    clone_and_extract(c, ingested + 1, @)]
    /\ uncompensated_position' =
          IF IsMove(c) THEN Target(c) ELSE uncompensated_position
    /\ buffer_head' = buffer_next_index(buffer_head)
    /\ buffer_count' = buffer_count + 1
    /\ ingested' = ingested + 1
    /\ UNCHANGED <<buffer_tail, compensation_type, compensation_radius,
                   compensated_position, is_flushing, returned, last_id>>

-----------------------------------------------------------------------------
\* apply_compensation on the tail slot (the only index it is called with).

IsLeft == compensation_type = "LEFT"

\* A straight move: a corner with the next move when that is a straight
\* move too, the perpendicular offset otherwise.  The code takes the
\* incoming direction from uncompensated_position, the endpoint of the
\* newest buffered move: dir1 = E - (uncompensated_position - E) in the
\* corner case, E - uncompensated_position in the two others.
ResolveLine(E) ==
    LET nxt_index == buffer_next_index(buffer_tail)
        nxt == buffer[nxt_index]
        perp == calculate_perpendicular_offset(
                    E, Sub(E, uncompensated_position),
                    compensation_radius, IsLeft)
    IN  IF buffer_count > 1 /\ nxt_index # buffer_head
          THEN IF nxt.is_move /\ ~nxt.has_ijk
                 THEN LET dir1 == Sub(E, Sub(uncompensated_position, E))
                          dir2 == Sub(nxt.endpoint.at, E)
                          ci == calculate_corner_intersection(
                                    E, dir1, dir2, compensation_radius, IsLeft)
                      IN  IF ci.ok THEN ci.pt
                          ELSE calculate_perpendicular_offset(
                                   E, dir1, compensation_radius, IsLeft)
                 ELSE perp
          ELSE perp

\* The slot after apply_compensation; modify_gcode_coordinates builds a
\* string and discards it, so it changes nothing.  The result of
\* compensate_arc_endpoint is ignored: a failed arc keeps its values.
apply_compensation(current) ==
    IF ~current.is_move THEN current
    ELSE IF current.has_ijk
         THEN LET a == compensate_arc_endpoint(
                           compensated_position, current.endpoint.at,
                           current.ijk, compensation_radius, IsLeft,
                           current.is_cw)
              IN  [current EXCEPT !.endpoint = a.endpoint, !.ijk = a.ijk]
         ELSE [current EXCEPT !.endpoint = ResolveLine(current.endpoint.at)]

\* The tail slot as get_compensated_gcode returns it: resolved only when 3
\* moves are buffered or a flush is in progress.
ReturnedSlot ==
    IF buffer_count >= 3 \/ is_flushing
      THEN apply_compensation(buffer[buffer_tail])
      ELSE buffer[buffer_tail]

\* Mutant: the clone is deleted but the slot keeps its pointer.
Released_keeps_pointer(slot) == slot

\* delete slot.gcode; slot.gcode = nullptr;
Released(slot) == [slot EXCEPT !.gcode = Null]

\* The words the rebuilt command keeps besides G, X/Y/Z and I/J/K: F only.
ReturnedWords(slot) == slot.src.words \cap {"F"}

\* get_compensated_gcode: nullptr (no step) when the buffer is empty, or
\* when compensation is on, fewer than 3 moves are buffered and no flush
\* is in progress.  Otherwise the tail is resolved, the compensated
\* position is updated, the command is rebuilt from G, X/Y, I/J and F (the
\* returned command is ReturnedSlot), and the slot is freed.
get_compensated_gcode ==
    /\ buffer_count # 0
    /\ ~(buffer_count < 3 /\ compensation_type # "NONE" /\ ~is_flushing)
    /\ compensated_position' = ReturnedSlot.endpoint
    /\ last_id' = ReturnedSlot.gcode
    /\ buffer' = [buffer EXCEPT ![buffer_tail] = Released(ReturnedSlot)]
    /\ buffer_tail' = buffer_next_index(buffer_tail)
    /\ buffer_count' = buffer_count - 1
    /\ returned' = returned + 1
    /\ UNCHANGED <<buffer_head, compensation_type, compensation_radius,
                   uncompensated_position, is_flushing, ingested>>

-----------------------------------------------------------------------------
\* Control operations.

\* clear: delete every clone, reset the indices and the flushing flag.
ClearedBuffer == [i \in Slots |-> [buffer[i] EXCEPT !.gcode = Null]]

clear ==
    /\ buffer' = ClearedBuffer
    /\ buffer_head' = 0
    /\ buffer_tail' = 0
    /\ buffer_count' = 0
    /\ is_flushing' = FALSE
    /\ UNCHANGED <<compensation_type, compensation_radius,
                   uncompensated_position, compensated_position, ingested,
                   returned, last_id>>

\* Mutant: flush() forgets to set the flag.
flush_sets_nothing ==
    UNCHANGED <<buffer, buffer_head, buffer_tail, buffer_count,
                compensation_type, compensation_radius,
                uncompensated_position, compensated_position, is_flushing,
                ingested, returned, last_id>>

\* flush: only sets the flag that lifts the lookahead requirement.
flush ==
    /\ is_flushing' = TRUE
    /\ UNCHANGED <<buffer, buffer_head, buffer_tail, buffer_count,
                   compensation_type, compensation_radius,
                   uncompensated_position, compensated_position, ingested,
                   returned, last_id>>

\* set_compensation: G41/G42 set the mode and radius; G40 also calls
\* flush() and then clear(), whose reset of is_flushing wins.
set_compensation(type, radius) ==
    /\ compensation_type' = type
    /\ compensation_radius' = radius
    /\ IF type = "NONE"
         THEN /\ buffer' = ClearedBuffer
              /\ buffer_head' = 0
              /\ buffer_tail' = 0
              /\ buffer_count' = 0
              /\ is_flushing' = FALSE
         ELSE UNCHANGED <<buffer, buffer_head, buffer_tail, buffer_count,
                          is_flushing>>
    /\ UNCHANGED <<uncompensated_position, compensated_position, ingested,
                   returned, last_id>>

set_initial_position(p) ==
    /\ uncompensated_position' = p
    /\ compensated_position' = Plain(p)
    /\ UNCHANGED <<buffer, buffer_head, buffer_tail, buffer_count,
                   compensation_type, compensation_radius, is_flushing,
                   ingested, returned, last_id>>

-----------------------------------------------------------------------------
Next ==
    \/ \E c \in Commands : buffer_gcode(c)
    \/ get_compensated_gcode
    \/ \E t \in Modes, r \in Radii : set_compensation(t, r)
    \/ flush
    \/ clear
    \/ \E p \in Positions : set_initial_position(p)

Spec == Init /\ [][Next]_vars

-----------------------------------------------------------------------------
(***************************************************************************)
(* Properties.                                                             *)
(***************************************************************************)

TypeOK ==
    /\ buffer \in [Slots -> BufferedGcode]
    /\ buffer_head \in Slots
    /\ buffer_tail \in Slots
    /\ buffer_count \in 0..BUFFER_SIZE
    /\ compensation_type \in Modes
    /\ compensation_radius \in Radii \cup {0}
    /\ uncompensated_position \in Point
    /\ compensated_position \in SymPoint
    /\ is_flushing \in BOOLEAN
    /\ ingested \in 0..MaxIngest
    /\ returned \in 0..ingested
    /\ last_id \in 0..MaxIngest

\* The circular buffer holds exactly the clones that are still owed to the
\* caller: head is count slots past tail, the k-th slot from the tail owns
\* the clone of the (ingested - count + 1 + k)-th command for k < count, and
\* every other slot is nullptr.  A slot left pointing at a clone that was
\* already returned would be deleted twice by clear(); a live slot at
\* nullptr would be a lost command.
BufferWellFormed ==
    /\ buffer_head = (buffer_tail + buffer_count) % BUFFER_SIZE
    /\ \A k \in 0..(BUFFER_SIZE - 1) :
          buffer[(buffer_tail + k) % BUFFER_SIZE].gcode =
             IF k < buffer_count THEN ingested - buffer_count + 1 + k
                                 ELSE Null

\* The buffer is a bounded FIFO queue of clones (LookaheadQueue): commands
\* come out in the order they went in, none twice, and at most
\* BUFFER_SIZE are held.
Queue == INSTANCE LookaheadQueue
    WITH Capacity <- BUFFER_SIZE, Items <- Ids,
         queue <- [k \in 1..buffer_count |->
                     buffer[(buffer_tail + k - 1) % BUFFER_SIZE].gcode],
         last <- last_id

QueueSpec == Queue!Spec

-----------------------------------------------------------------------------
(***************************************************************************)
(* What the spec says of the returned commands, checked against the code. *)
(***************************************************************************)

\* Turning compensation off loses no buffered move: disable() must drain
\* the buffer (spec 4.3, 8 scenario 3), so a step from G41/G42 to G40
\* keeps every buffered command either buffered or returned.  In the code
\* set_compensation(NONE) calls flush() and then clear() in the same call.
DisableKeepsBufferedMoves ==
    [][(compensation_type # "NONE" /\ compensation_type' = "NONE")
         => returned' + buffer_count' = returned + buffer_count]_vars

\* A straight move is offset against its own direction, from its
\* uncompensated start to its endpoint (spec 4.3 steps 4 and 5): the
\* direction apply_compensation hands to calculate_perpendicular_offset or
\* calculate_corner_intersection as the incoming one (a zero radius offsets
\* nothing and is left out).
LineOffsetAlongOwnDirection ==
    [][get_compensated_gcode =>
         LET s == ReturnedSlot IN
         (/\ s.is_move /\ ~s.has_ijk
          /\ s.endpoint.off.kind \in {"perp", "corner"}
          /\ s.endpoint.off.r # 0)
            => SameDirection(s.endpoint.off.u1,
                             Sub(s.endpoint.at, s.uncomp_start))]_vars

\* A command that is not a motion (no G0-G3) passes through unchanged
\* (spec 4.3 step 1, 4.4): the X/Y that get_compensated_gcode writes into
\* it must be where the tool already is, so that it does not move, and
\* every other word it carried is kept.
NonMotionPassThrough ==
    [][get_compensated_gcode =>
         LET s == ReturnedSlot IN
         ~s.is_move => /\ s.endpoint = compensated_position
                       /\ ReturnedWords(s) = s.src.words]_vars

\* A rapid (G0) is not a geometric move and is returned with its
\* programmed endpoint (spec 3, 4.3 step 1); the code counts G0 as a move
\* in clone_and_extract and offsets it like a G1.
RapidPassThrough ==
    [][get_compensated_gcode =>
         LET s == ReturnedSlot IN
         (s.is_move /\ s.src.g = 0) => IsZeroOffset(s.endpoint.off)]_vars

\* Under G41/G42 an arc of zero radius (its endpoint on its centre) is
\* rejected and no motion is emitted for it (spec 7, DegenerateArc).  With
\* compensation on, the gate lets a move out only through
\* apply_compensation, whose compensate_arc_endpoint returns false for
\* such an arc; apply_compensation ignores the result and the arc leaves.
DegenerateArcRejected ==
    [][(get_compensated_gcode /\ compensation_type # "NONE") =>
         LET s == ReturnedSlot IN
         s.has_ijk => s.endpoint.at # s.ijk.centre]_vars
\* With compensation off every move passes through with its programmed
\* endpoint (spec 8, "idempotence of Off state"; spec 3: the radius is
\* meaningful only when the mode is not Off).  get_compensated_gcode calls
\* apply_compensation whatever the mode, with the radius that the last
\* set_compensation stored, G40 included.
OffModePassThrough ==
    [][(get_compensated_gcode /\ compensation_type = "NONE") =>
         LET s == ReturnedSlot IN
         s.is_move => IsZeroOffset(s.endpoint.off)]_vars

\* Draining ends with the buffer: once the last buffered command has been
\* returned the flag that waives the lookahead is off again (spec 4.3:
\* "until the buffer is empty, after which draining resets to false").
\* The code resets is_flushing only in clear(), so after a public flush()
\* every later G41/G42 move is resolved without its two moves of lookahead.
DrainEndsWhenEmpty ==
    [][(get_compensated_gcode /\ buffer_count' = 0) => ~is_flushing']_vars
=============================================================================
