----------------------- MODULE CompensationCallerProofs -----------------------
(***************************************************************************)
(* The caller protocol loses no command, for every buffer size and every  *)
(* program.  Every caller step is a step of the class's Next, so the      *)
(* class's inductive invariant IInv carries over; with it, the tail slot  *)
(* of a non-empty buffer owns the (ingested - buffer_count + 1)-th clone,  *)
(* which is the next id the caller expects, and the caller clears and     *)
(* sends G40 only with the buffer empty.                                   *)
(***************************************************************************)
EXTENDS CompensationCaller, CompensationPreprocessorProofs, TLAPS

CInv ==
    /\ IInv
    /\ todo \in Seq(Instruction)
    /\ emitted \in Seq(Int)
    /\ NoCommandLost

LEMMA CInvInit == CInit => CInv
<1> SUFFICES ASSUME CInit PROVE CInv
  OBVIOUS
<1>1. IInv
  BY IInvInit DEF CInit
<1>2. todo \in Seq(Instruction)
  BY ProgramsAssumption DEF CInit
<1>3. emitted \in Seq(Int) /\ NoCommandLost
  BY DEF CInit, Init, NoCommandLost
<1> QED
  BY <1>1, <1>2, <1>3 DEF CInv

\* A caller step is a call of one public method of the class.
LEMMA CallerStepIsClassStep ==
    ASSUME CInv, [CNext]_cvars
    PROVE  [Next]_vars
<1>1. CASE \E p \in StartPositions : Start(p)
  BY <1>1, StartPositionsAssumption DEF Start, Next
<1>2. CASE Feed
  <2>1. Head(todo) \in Instruction /\ Head(todo).op = "cmd"
    BY <1>2 DEF Feed, CInv
  <2>2. Head(todo).c \in Commands
    BY <2>1 DEF Instruction
  <2> QED
    BY <1>2, <2>2 DEF Feed, Next
<1>3. CASE Pump
  BY <1>3 DEF Pump, Next
<1>4. CASE BeginDrain
  BY <1>4 DEF BeginDrain, Next
<1>5. CASE EndDrain
  BY <1>5 DEF EndDrain, Next
<1>6. CASE SetMode
  <2>1. Head(todo) \in Instruction /\ Head(todo).op = "mode"
    BY <1>6 DEF SetMode, CInv
  <2>2. Head(todo).t \in Modes /\ Head(todo).r \in Radii
    BY <2>1, ZeroRadiusAssumption DEF Instruction, Modes
  <2> QED
    BY <1>6, <2>2 DEF SetMode, Next
<1>7. CASE UNCHANGED cvars
  BY <1>7 DEF cvars, vars
<1> QED
  BY <1>1, <1>2, <1>3, <1>4, <1>5, <1>6, <1>7 DEF CNext

\* The clone at the tail of a non-empty buffer is the next one owed.
LEMMA TailIsNext ==
    ASSUME IInv, buffer_count # 0
    PROVE  ReturnedSlot.gcode = ingested - buffer_count + 1
<1>1. TypeOK /\ BufferWellFormed
  BY DEF IInv
<1>2. buffer[(buffer_tail + 0) % BUFFER_SIZE].gcode = ingested - buffer_count + 1
  BY <1>1, BufferSizeAssumption DEF BufferWellFormed, TypeOK
<1>3. (buffer_tail + 0) % BUFFER_SIZE = buffer_tail
  BY <1>1, ModZero DEF TypeOK, N
<1> QED
  BY <1>1, <1>2, <1>3, ReturnedSlotType

LEMMA CInvNext == CInv /\ [CNext]_cvars => CInv'
<1> SUFFICES ASSUME CInv, [CNext]_cvars PROVE CInv'
  OBVIOUS
<1>1. IInv'
  BY CallerStepIsClassStep, IInvNext DEF CInv
<1>. USE DEF CInv
<1>0. buffer_count \in Nat /\ ingested \in Nat
  BY DEF IInv, TypeOK
<1>2. CASE \E p \in StartPositions : Start(p)
  BY <1>1, <1>2 DEF Start, set_initial_position, NoCommandLost
<1>3. CASE Feed
  <2>1. todo' \in Seq(Instruction)
    BY <1>3 DEF Feed
  <2>2. /\ ingested' = ingested + 1 /\ buffer_count' = buffer_count + 1
        /\ emitted' = emitted
    BY <1>3 DEF Feed, buffer_gcode
  <2> QED
    BY <1>0, <1>1, <2>1, <2>2 DEF NoCommandLost
<1>4. CASE Pump
  <2>1. buffer_count # 0 /\ ReturnedSlot.gcode = ingested - buffer_count + 1
    BY <1>4, TailIsNext DEF Pump, get_compensated_gcode
  <2>2. /\ buffer_count' = buffer_count - 1 /\ ingested' = ingested
        /\ emitted' = Append(emitted, ReturnedSlot.gcode)
        /\ todo' = todo
    BY <1>4 DEF Pump, get_compensated_gcode
  <2>3. ReturnedSlot.gcode = Len(emitted) + 1
    BY <1>0, <2>1 DEF NoCommandLost
  <2>4. emitted' = [i \in 1..Len(emitted') |-> i]
    BY <2>2, <2>3 DEF NoCommandLost
  <2>5. emitted' \in Seq(Int) /\ Len(emitted') = Len(emitted) + 1
    BY <2>2, <2>3
  <2>6. NoCommandLost'
    BY <1>0, <2>2, <2>4, <2>5 DEF NoCommandLost
  <2> QED
    BY <1>1, <2>2, <2>5, <2>6
<1>5. CASE BeginDrain
  BY <1>1, <1>5 DEF BeginDrain, flush, NoCommandLost
<1>6. CASE EndDrain
  BY <1>1, <1>6 DEF EndDrain, clear, NoCommandLost
<1>7. CASE SetMode
  <2>1. todo' \in Seq(Instruction)
    BY <1>7 DEF SetMode
  <2>2. /\ buffer_count = 0 /\ buffer_count' = 0
        /\ ingested' = ingested /\ emitted' = emitted
    BY <1>7 DEF SetMode, set_compensation
  <2> QED
    BY <1>1, <2>1, <2>2 DEF NoCommandLost
<1>8. CASE UNCHANGED cvars
  BY <1>1, <1>8 DEF cvars, vars, NoCommandLost
<1> QED
  BY <1>2, <1>3, <1>4, <1>5, <1>6, <1>7, <1>8 DEF CNext

\* A caller that feeds with back-pressure, drains before every mode change
\* and at the end, and clears only an empty buffer, receives every command
\* it fed exactly once and in order (NoCommandLost), for every buffer size
\* and program: the composition of buffer_gcode, get_compensated_gcode,
\* flush, clear and set_compensation loses nothing under this protocol.
THEOREM CallerLosesNoCommand == CSpec => []NoCommandLost
<1>1. CInv => NoCommandLost
  BY DEF CInv
<1> QED
  BY <1>1, CInvInit, CInvNext, PTL DEF CSpec
-----------------------------------------------------------------------------
(***************************************************************************)
(* Moves are resolved with the mode they were buffered under.  The caller *)
(* changes mode only with the buffer empty, so every buffered command was *)
(* fed under the current mode (FedModeCurrent); G40 carries radius 0      *)
(* (OffRadiusZero); and a live slot is unresolved until it is returned    *)
(* (SlotsUnresolved).  The last one matters when the gate returns the     *)
(* tail raw (compensation off, fewer than three moves, no flush).         *)
(***************************************************************************)
FedModeType == fed_mode \in [Ids -> [t : Modes, r : Radii]]

FedModeCurrent ==
    \A i \in (ingested - buffer_count + 1)..ingested :
        fed_mode[i] = [t |-> compensation_type, r |-> compensation_radius]

OffRadiusZero == compensation_type = "NONE" => compensation_radius = 0

MInv ==
    /\ CInv
    /\ FedModeType
    /\ FedModeCurrent
    /\ OffRadiusZero
    /\ SlotsUnresolved

LEMMA MInvInit == CInit => MInv
<1> SUFFICES ASSUME CInit PROVE MInv
  OBVIOUS
<1>1. CInv
  BY CInvInit
<1>2. FedModeType
  BY ZeroRadiusAssumption DEF CInit, FedModeType, Modes
<1>3. FedModeCurrent /\ OffRadiusZero
  BY DEF CInit, Init, FedModeCurrent, OffRadiusZero
<1>4. SlotsUnresolved
  BY SlotsUnresolvedInit DEF CInit
<1> QED
  BY <1>1, <1>2, <1>3, <1>4 DEF MInv

LEMMA MInvNext == MInv /\ [CNext]_cvars => MInv'
<1> SUFFICES ASSUME MInv, [CNext]_cvars PROVE MInv'
  OBVIOUS
<1>1. CInv' /\ SlotsUnresolved'
  BY CInvNext, CallerStepIsClassStep, SlotsUnresolvedNext DEF MInv, CInv
<1>0. buffer_count \in Nat /\ ingested \in Nat
  BY DEF MInv, CInv, IInv, TypeOK
<1>. USE DEF MInv
<1>2. CASE \E p \in StartPositions : Start(p)
  BY <1>1, <1>2 DEF Start, set_initial_position, FedModeType,
     FedModeCurrent, OffRadiusZero
<1>3. CASE Feed
  <2>1. /\ ingested' = ingested + 1 /\ buffer_count' = buffer_count + 1
        /\ ingested + 1 \in Ids
        /\ UNCHANGED <<compensation_type, compensation_radius>>
    BY <1>3, MaxIngestAssumption DEF Feed, buffer_gcode, Ids, CInv, IInv, TypeOK
  <2>2. [t |-> compensation_type, r |-> compensation_radius]
          \in [t : Modes, r : Radii]
    BY ZeroRadiusAssumption DEF CInv, IInv, TypeOK
  <2>3. FedModeType'
    BY <1>3, <2>1, <2>2 DEF Feed, FedModeType
  <2>4. FedModeCurrent'
    BY <1>0, <1>3, <2>1 DEF Feed, FedModeCurrent, FedModeType
  <2> QED
    BY <1>1, <2>1, <2>3, <2>4 DEF OffRadiusZero
<1>4. CASE Pump
  <2>1. /\ ingested' = ingested /\ buffer_count' = buffer_count - 1
        /\ UNCHANGED <<compensation_type, compensation_radius, fed_mode>>
    BY <1>4 DEF Pump, get_compensated_gcode
  <2> QED
    BY <1>0, <1>1, <2>1 DEF FedModeType, FedModeCurrent, OffRadiusZero
<1>5. CASE BeginDrain
  BY <1>1, <1>5 DEF BeginDrain, flush, FedModeType, FedModeCurrent,
     OffRadiusZero
<1>6. CASE EndDrain
  <2>1. /\ ingested' = ingested /\ buffer_count' = 0
        /\ UNCHANGED <<compensation_type, compensation_radius, fed_mode>>
    BY <1>6 DEF EndDrain, clear
  <2> QED
    BY <1>0, <1>1, <2>1 DEF FedModeType, FedModeCurrent, OffRadiusZero
<1>7. CASE SetMode
  <2>1. Head(todo) \in Instruction /\ Head(todo).op = "mode"
    BY <1>7 DEF SetMode, CInv
  <2>2. Head(todo).t = "NONE" => Head(todo).r = 0
    BY <2>1 DEF Instruction
  <2>3. /\ ingested' = ingested /\ buffer_count' = 0
        /\ compensation_type' = Head(todo).t
        /\ compensation_radius' = Head(todo).r
        /\ fed_mode' = fed_mode
    BY <1>7 DEF SetMode, set_compensation
  <2> QED
    BY <1>0, <1>1, <2>2, <2>3 DEF FedModeType, FedModeCurrent, OffRadiusZero
<1>8. CASE UNCHANGED cvars
  BY <1>1, <1>8 DEF cvars, vars, FedModeType, FedModeCurrent, OffRadiusZero
<1> QED
  BY <1>2, <1>3, <1>4, <1>5, <1>6, <1>7, <1>8 DEF CNext

\* The command a Pump returns is resolved with the mode it was fed under.
LEMMA PumpResolvesWithFedMode ==
    ASSUME MInv, Pump
    PROVE  LET s == ReturnedSlot
               m == fed_mode[s.gcode]
           IN  s.is_move =>
                 /\ m.t = "NONE" => IsZeroOffset(s.endpoint.off)
                 /\ (m.t # "NONE" /\ s.endpoint.off.kind # "none") =>
                       /\ s.endpoint.off.r = m.r
                       /\ s.endpoint.off.left = (m.t = "LEFT")
<1> DEFINE s == ReturnedSlot
           m == fed_mode[s.gcode]
           cur == buffer[buffer_tail]
<1>0. /\ IInv /\ TypeOK
      /\ buffer_count \in Nat /\ ingested \in Nat
      /\ buffer_tail \in Slots /\ cur \in BufferedGcode
      /\ buffer_count <= ingested
  BY DEF MInv, CInv, IInv, TypeOK, NoCommandLost
<1>1. /\ buffer_count # 0
      /\ ~(buffer_count < 3 /\ compensation_type # "NONE" /\ ~is_flushing)
  BY DEF Pump, get_compensated_gcode
<1>2. s.gcode = ingested - buffer_count + 1
  BY <1>0, <1>1, TailIsNext
<1>3. m = [t |-> compensation_type, r |-> compensation_radius]
  BY <1>0, <1>1, <1>2 DEF MInv, FedModeCurrent
<1>4. CASE buffer_count >= 3 \/ is_flushing
  <2>1. s = apply_compensation(cur)
    BY <1>4 DEF ReturnedSlot
  <2>2. s.is_move => ResolvedBy(s.endpoint.off)
    BY <1>0, <2>1, ApplyOffset
  <2> QED
    BY <1>3, <2>2 DEF ResolvedBy, IsZeroOffset, IsLeft, MInv, OffRadiusZero
<1>5. CASE ~(buffer_count >= 3 \/ is_flushing)
  <2>1. s = cur /\ compensation_type = "NONE"
    BY <1>0, <1>1, <1>5 DEF ReturnedSlot
  <2>2. cur.gcode # Null
    BY <1>0, <1>2, <2>1, NullAssumption
  <2>3. cur.is_move => cur.endpoint.off.kind = "none"
    BY <1>0, <2>2 DEF MInv, SlotsUnresolved
  <2> QED
    BY <1>3, <2>1, <2>3 DEF IsZeroOffset
<1> QED
  BY <1>4, <1>5

\* Every move get_compensated_gcode returns to the protocol-keeping caller
\* is resolved with the mode and radius in effect when buffer_gcode took
\* it (ResolvedWithModeOfBuffering), for every buffer size, radius set and
\* program: a move fed under G40 comes back unmoved, and a move fed under
\* G41/G42 that is offset has that radius and that side.
THEOREM ModeOfBuffering == CSpec => ResolvedWithModeOfBuffering
<1>1. MInv => [Pump =>
         LET s == ReturnedSlot
             m == fed_mode[s.gcode]
         IN  s.is_move =>
               /\ m.t = "NONE" => IsZeroOffset(s.endpoint.off)
               /\ (m.t # "NONE" /\ s.endpoint.off.kind # "none") =>
                     /\ s.endpoint.off.r = m.r
                     /\ s.endpoint.off.left = (m.t = "LEFT")]_cvars
  BY PumpResolvesWithFedMode
<1>2. CSpec => []MInv
  BY MInvInit, MInvNext, PTL DEF CSpec
<1> QED
  BY <1>1, <1>2, PTL DEF ResolvedWithModeOfBuffering

-----------------------------------------------------------------------------
(***************************************************************************)
(* The lookahead is waived only by the caller's drain, once is_flushing   *)
(* starts false.  The constructor leaves the flag uninitialised, and TLC  *)
(* shows LookaheadHeldUntilDrain violated from a true flag; here is the   *)
(* converse: flush() is called only by BeginDrain, and the flag is reset  *)
(* by clear() in EndDrain (or by G40) before the caller runs again, so a  *)
(* set flag means the caller is draining.                                  *)
(***************************************************************************)
FlushingOnlyWhileDraining == is_flushing => phase = "drain"

LEMMA FlushingInit == CInit /\ ~is_flushing => FlushingOnlyWhileDraining
BY DEF FlushingOnlyWhileDraining

LEMMA FlushingNext ==
    FlushingOnlyWhileDraining /\ [CNext]_cvars => FlushingOnlyWhileDraining'
<1> SUFFICES ASSUME FlushingOnlyWhileDraining, [CNext]_cvars
             PROVE  FlushingOnlyWhileDraining'
  OBVIOUS
<1>. USE DEF FlushingOnlyWhileDraining
<1>1. CASE \E p \in StartPositions : Start(p)
  BY <1>1 DEF Start, set_initial_position
<1>2. CASE Feed
  BY <1>2 DEF Feed, buffer_gcode
<1>3. CASE Pump
  BY <1>3 DEF Pump, get_compensated_gcode
<1>4. CASE BeginDrain
  BY <1>4 DEF BeginDrain, flush
<1>5. CASE EndDrain
  BY <1>5 DEF EndDrain, clear
<1>6. CASE SetMode
  BY <1>6 DEF SetMode, set_compensation
<1>7. CASE UNCHANGED cvars
  BY <1>7 DEF cvars, vars
<1> QED
  BY <1>1, <1>2, <1>3, <1>4, <1>5, <1>6, <1>7 DEF CNext

\* With is_flushing initialised to false (the constructor fix), under
\* G41/G42 get_compensated_gcode returns a move with fewer than three
\* buffered only while the caller drains (LookaheadHeldUntilDrain), for
\* every buffer size and program: the violation TLC finds comes from the
\* constructor alone.
THEOREM InitialisedFlagHoldsLookahead ==
    (CInit /\ ~is_flushing /\ [][CNext]_cvars) => LookaheadHeldUntilDrain
<1>1. FlushingOnlyWhileDraining
        => [(Pump /\ compensation_type # "NONE" /\ buffer_count < 3)
              => phase = "drain"]_cvars
  BY DEF FlushingOnlyWhileDraining, Pump, get_compensated_gcode
<1> QED
  BY <1>1, FlushingInit, FlushingNext, PTL DEF LookaheadHeldUntilDrain
=============================================================================
