-------------------------- MODULE CompensationCaller --------------------------
(***************************************************************************)
(* The preprocessor driven by a caller that keeps the protocol spec 4.3, 6 *)
(* and 9 put on it (the caller, the robot's command path, is not part of  *)
(* this repository's sources and is modelled from the spec):              *)
(*   - it sets the start position once, then runs a program: a sequence    *)
(*     of G-code commands and G40/G41/G42 mode changes;                    *)
(*   - it offers each command to buffer_gcode and, when that is refused    *)
(*     (buffer full), pumps get_compensated_gcode instead (back-pressure); *)
(*   - before a mode change, and at the end of the program, it drains:     *)
(*     flush(), pump until the buffer is empty, clear() (spec 4.3:         *)
(*     "repeatedly resolve-and-emit until the buffer is empty, after which *)
(*     draining resets to false and the buffer is cleared");               *)
(*   - it changes mode only with the buffer empty ("callers must flush     *)
(*     before switching radius"), and gives G40 a zero radius (disable()  *)
(*     has none).                                                          *)
(* Every caller step is one call of the class, i.e. one step of its Next.  *)
(***************************************************************************)
EXTENDS CompensationPreprocessor

CONSTANTS
    Programs,      \* the programs the caller may run
    StartPositions \* the machine positions the engine may start from

\* One entry of a program: a command for buffer_gcode, or a mode change;
\* G40 (disable()) carries no radius and is passed 0.
Instruction ==
    [op : {"cmd"}, c : Commands]
      \cup [op : {"mode"}, t : {"LEFT", "RIGHT"}, r : Radii]
      \cup [op : {"mode"}, t : {"NONE"}, r : {0}]

CmdCount(p) == Len(SelectSeq(p, LAMBDA i : i.op = "cmd"))

ASSUME ProgramsAssumption ==
    /\ Programs \subseteq Seq(Instruction)
    /\ \A p \in Programs : CmdCount(p) <= MaxIngest
ASSUME StartPositionsAssumption == StartPositions \subseteq Positions
\* The radii passed to set_compensation include G40's 0.
ASSUME ZeroRadiusAssumption == 0 \in Radii
\* The lookahead needs three slots (BUFFER_SIZE is 10 in the code).
ASSUME LookaheadRoomAssumption == BUFFER_SIZE >= 3

Phases == {"start", "run", "drain"}

VARIABLES
    todo,      \* the rest of the program
    phase,     \* before set_initial_position, running, or draining
    emitted,   \* the ids of the commands returned to the caller, in order
    fed_mode   \* the mode and radius in effect when command i was buffered

cvars == <<vars, todo, phase, emitted, fed_mode>>

CInit ==
    /\ Init
    /\ todo \in Programs
    /\ phase = "start"
    /\ emitted = <<>>
    /\ fed_mode = [i \in Ids |-> [t |-> "NONE", r |-> 0]]

\* The engine is started at the machine's position.
Start(p) ==
    /\ phase = "start"
    /\ set_initial_position(p)
    /\ phase' = "run"
    /\ UNCHANGED <<todo, emitted, fed_mode>>

\* The next command is offered to buffer_gcode and accepted.
Feed ==
    /\ phase = "run"
    /\ todo # <<>>
    /\ Head(todo).op = "cmd"
    /\ buffer_gcode(Head(todo).c)
    /\ todo' = Tail(todo)
    /\ fed_mode' = [fed_mode EXCEPT ![ingested + 1] =
                      [t |-> compensation_type, r |-> compensation_radius]]
    /\ UNCHANGED <<phase, emitted>>

\* get_compensated_gcode returns a command, which the caller consumes.
Pump ==
    /\ phase \in {"run", "drain"}
    /\ get_compensated_gcode
    /\ emitted' = Append(emitted, ReturnedSlot.gcode)
    /\ UNCHANGED <<todo, phase, fed_mode>>

\* A mode change or the end of the program with moves still buffered.
BeginDrain ==
    /\ phase = "run"
    /\ IF todo = <<>> THEN TRUE ELSE Head(todo).op = "mode"
    /\ buffer_count # 0
    /\ flush
    /\ phase' = "drain"
    /\ UNCHANGED <<todo, emitted, fed_mode>>

EndDrain ==
    /\ phase = "drain"
    /\ buffer_count = 0
    /\ clear
    /\ phase' = "run"
    /\ UNCHANGED <<todo, emitted, fed_mode>>

\* Mutant: the caller switches mode without draining first.
SetMode_without_drain ==
    /\ phase = "run"
    /\ todo # <<>>
    /\ Head(todo).op = "mode"
    /\ set_compensation(Head(todo).t, Head(todo).r)
    /\ todo' = Tail(todo)
    /\ UNCHANGED <<phase, emitted, fed_mode>>

\* G40/G41/G42 with the buffer empty.
SetMode ==
    /\ phase = "run"
    /\ todo # <<>>
    /\ Head(todo).op = "mode"
    /\ buffer_count = 0
    /\ set_compensation(Head(todo).t, Head(todo).r)
    /\ todo' = Tail(todo)
    /\ UNCHANGED <<phase, emitted, fed_mode>>

CNext ==
    \/ \E p \in StartPositions : Start(p)
    \/ Feed
    \/ Pump
    \/ BeginDrain
    \/ EndDrain
    \/ SetMode

\* The caller's command loop keeps calling while it has work: each of its
\* steps is taken once it stays possible.
CFairness ==
    /\ \A p \in StartPositions : WF_cvars(Start(p))
    /\ WF_cvars(Feed)
    /\ WF_cvars(Pump)
    /\ WF_cvars(BeginDrain)
    /\ WF_cvars(EndDrain)
    /\ WF_cvars(SetMode)

CSpec == CInit /\ [][CNext]_cvars /\ CFairness

-----------------------------------------------------------------------------
(***************************************************************************)
(* Properties.                                                             *)
(***************************************************************************)

\* No command is lost, duplicated or reordered end to end: the caller has
\* received exactly the first Len(emitted) commands it fed, in order, and
\* every other command it fed is still buffered.  A clear() or a G40 with
\* moves buffered, or an accepted command overwriting a slot, breaks it.
NoCommandLost ==
    /\ emitted = [i \in 1..Len(emitted) |-> i]
    /\ Len(emitted) + buffer_count = ingested

\* Every move is resolved with the mode and radius in effect when it was
\* buffered (spec 4.3: the engine resolves with the current context, so the
\* caller drains before a change): an offset move has that radius and that
\* side, and a move buffered with compensation off is not moved.
ResolvedWithModeOfBuffering ==
    [][Pump =>
         LET s == ReturnedSlot
             m == fed_mode[s.gcode]
         IN  s.is_move =>
               /\ m.t = "NONE" => IsZeroOffset(s.endpoint.off)
               /\ (m.t # "NONE" /\ s.endpoint.off.kind # "none") =>
                     /\ s.endpoint.off.r = m.r
                     /\ s.endpoint.off.left = (m.t = "LEFT")]_cvars

\* The program runs to its end: every command is fed, every buffered move
\* is drained out and returned, and the caller is back to running, even
\* with G41/G42 still on at the end with fewer than three moves buffered.
ProgramCompletes ==
    <>(/\ todo = <<>>
       /\ buffer_count = 0
       /\ phase = "run"
       /\ Len(emitted) = ingested)

\* Under G41/G42 a move is resolved with fewer than three moves buffered
\* only while the caller drains (spec 4.3 step 2 and 8 scenario 2: "returns
\* nothing until a third move (or disable) arrives").  The constructor
\* never initialises is_flushing, which waives the lookahead.
LookaheadHeldUntilDrain ==
    [][(Pump /\ compensation_type # "NONE" /\ buffer_count < 3)
         => phase = "drain"]_cvars
=============================================================================
