------------------- MODULE CompensationPreprocessorProofs -------------------
(***************************************************************************)
(* Proofs about the lookahead buffer of CompensationPreprocessor, for every *)
(* BUFFER_SIZE, MaxIngest, set of commands, radii and positions.           *)
(***************************************************************************)
EXTENDS CompensationPreprocessor, TLAPS

N == BUFFER_SIZE

-----------------------------------------------------------------------------
(***************************************************************************)
(* Index arithmetic of the circular buffer (buffer_next_index and the     *)
(* k-th slot from the tail).                                               *)
(***************************************************************************)

\* The remainder is the one r in 0..N-1 with a = q * N + r.
LEMMA ModUnique ==
    ASSUME NEW a \in Int, NEW q \in Int, NEW r \in Slots, a = q * N + r
    PROVE  a % N = r
BY BufferSizeAssumption, SMTT(30) DEF N, Slots

\* Below 2N the remainder is the number itself or the number minus N:
\* every slot index of the buffer is the sum of two numbers below N.
LEMMA ModSmall ==
    ASSUME NEW a \in 0..(2 * N - 1)
    PROVE  a % N = IF a < N THEN a ELSE a - N
<1>1. CASE a < N
  BY <1>1, ModUnique, BufferSizeAssumption DEF N, Slots
<1>2. CASE a >= N
  <2>1. a = 1 * N + (a - N) /\ a - N \in Slots
    BY <1>2, BufferSizeAssumption DEF N, Slots
  <2>. QED  BY <1>2, <2>1, ModUnique, BufferSizeAssumption DEF N
<1>. QED  BY <1>1, <1>2, BufferSizeAssumption DEF N

\* The k-th slot from slot t, for k in 0..N.
LEMMA ModInSlots ==
    ASSUME NEW t \in Slots, NEW k \in 0..N
    PROVE  (t + k) % N \in Slots
BY ModSmall, BufferSizeAssumption DEF N, Slots

\* Two offsets below N from the same slot name different slots.
LEMMA ModInjective ==
    ASSUME NEW t \in Slots, NEW j \in Slots, NEW k \in Slots,
           (t + j) % N = (t + k) % N
    PROVE  j = k
<1>1. (t + j) % N = IF t + j < N THEN t + j ELSE t + j - N
  BY ModSmall, BufferSizeAssumption DEF N, Slots
<1>2. (t + k) % N = IF t + k < N THEN t + k ELSE t + k - N
  BY ModSmall, BufferSizeAssumption DEF N, Slots
<1>. QED  BY <1>1, <1>2, BufferSizeAssumption DEF N, Slots

\* Advancing the tail by one and then counting k is counting k + 1.
LEMMA ModShift ==
    ASSUME NEW t \in Slots, NEW k \in Slots
    PROVE  (((t + 1) % N) + k) % N = (t + (k + 1)) % N
<1>1. (t + 1) % N = IF t + 1 < N THEN t + 1 ELSE 0
  BY ModSmall, BufferSizeAssumption DEF N, Slots
<1>2. (((t + 1) % N) + k) \in 0..(2 * N - 1)
  BY <1>1, BufferSizeAssumption DEF N, Slots
<1>3. (t + (k + 1)) \in 0..(2 * N - 1)
  BY BufferSizeAssumption DEF N, Slots
<1>. QED  BY <1>1, <1>2, <1>3, ModSmall, BufferSizeAssumption DEF N, Slots

\* Advancing the k-th slot from t by one is the (k + 1)-th slot from t.
LEMMA ModStep ==
    ASSUME NEW t \in Slots, NEW k \in Slots
    PROVE  (((t + k) % N) + 1) % N = (t + (k + 1)) % N
<1>1. (t + k) % N = IF t + k < N THEN t + k ELSE t + k - N
  BY ModSmall, BufferSizeAssumption DEF N, Slots
<1>2. (((t + k) % N) + 1) \in 0..(2 * N - 1)
  BY <1>1, BufferSizeAssumption DEF N, Slots
<1>3. (t + (k + 1)) \in 0..(2 * N - 1)
  BY BufferSizeAssumption DEF N, Slots
<1>. QED  BY <1>1, <1>2, <1>3, ModSmall, BufferSizeAssumption DEF N, Slots

\* The 0-th slot from t is t.
LEMMA ModZero ==
    ASSUME NEW t \in Slots
    PROVE  (t + 0) % N = t
BY ModSmall, BufferSizeAssumption DEF N, Slots

\* N slots past a slot is the slot itself.
LEMMA ModFullTurn ==
    ASSUME NEW t \in Slots
    PROVE  (t + N) % N = t
BY ModSmall, BufferSizeAssumption DEF N, Slots

-----------------------------------------------------------------------------
(***************************************************************************)
(* Types of the slot-building operators.                                   *)
(***************************************************************************)

LEMMA PlainType ==
    ASSUME NEW p \in Vec
    PROVE  Plain(p) \in SymPoint
BY DEF Plain, SymPoint, NoOffset, Offset, OffsetKinds, Zero, Vec

\* A slot as the constructor leaves it is a BufferedGcode.
LEMMA InitialSlotType ==
    ASSUME NEW p \in Point
    PROVE  InitialSlot(p) \in BufferedGcode
<1>1. NoCommand \in Command
  BY DEF NoCommand, Command
<1>2. Plain(p) \in SymPoint /\ Plain(Origin) \in SymPoint
  BY PlainType DEF Point, Origin, Vec
<1>3. Origin \in Vec
  BY DEF Origin, Vec
<1>. QED  BY <1>1, <1>2, <1>3
          DEF InitialSlot, BufferedGcode, ArcIJ, Point

\* The slot clone_and_extract writes is a BufferedGcode.
LEMMA CloneType ==
    ASSUME NEW c \in Command, NEW id \in Ids, NEW slot \in BufferedGcode,
           uncompensated_position \in Point
    PROVE  clone_and_extract(c, id, slot) \in BufferedGcode
<1>1. Target(c) \in Vec
  BY DEF Target, Word, Command, Point, Vec
<1>2. Plain(Target(c)) \in SymPoint /\ Plain(uncompensated_position) \in SymPoint
  BY <1>1, PlainType DEF Point
<1>3. Add(uncompensated_position, [x |-> c.i, y |-> c.j]) \in Vec
  BY DEF Add, Command, Point, Vec
<1>4. CASE ~IsMove(c)
  BY <1>4 DEF clone_and_extract, BufferedGcode
<1>5. CASE IsMove(c)
  <2>1. [centre |-> Add(uncompensated_position, [x |-> c.i, y |-> c.j]),
         from |-> Plain(uncompensated_position)] \in ArcIJ
    BY <1>2, <1>3 DEF ArcIJ
  <2>2. uncompensated_position \in Vec
    BY DEF Point
  <2>3. slot.is_cw \in BOOLEAN /\ slot.ijk \in ArcIJ
    BY DEF BufferedGcode
  <2>4. (IF c.g \in {2, 3} THEN c.g = 2 ELSE slot.is_cw) \in BOOLEAN
    BY <2>3
  <2>5. (IF c.g \in {2, 3}
          THEN [centre |-> Add(uncompensated_position, [x |-> c.i, y |-> c.j]),
                from |-> Plain(uncompensated_position)]
          ELSE slot.ijk) \in ArcIJ
    BY <2>1, <2>3
  <2>6. clone_and_extract(c, id, slot) =
           [gcode |-> id, src |-> c, is_move |-> TRUE,
            has_ijk |-> c.g \in {2, 3},
            is_cw |-> IF c.g \in {2, 3} THEN c.g = 2 ELSE slot.is_cw,
            endpoint |-> Plain(Target(c)),
            ijk |-> IF c.g \in {2, 3}
                      THEN [centre |-> Add(uncompensated_position,
                                           [x |-> c.i, y |-> c.j]),
                            from |-> Plain(uncompensated_position)]
                      ELSE slot.ijk,
            uncomp_start |-> uncompensated_position]
    BY <1>5 DEF clone_and_extract, BufferedGcode
  <2>. QED  BY <1>2, <2>2, <2>4, <2>5, <2>6 DEF BufferedGcode, Ids
<1>. QED  BY <1>4, <1>5

\* The perpendicular and corner offsets are points of the emitted path.
LEMMA OffsetType ==
    ASSUME NEW e \in Vec, NEW d1 \in Vec, NEW d2 \in Vec, NEW r \in Int,
           NEW left \in BOOLEAN
    PROVE  /\ calculate_perpendicular_offset(e, d1, r, left) \in SymPoint
           /\ calculate_corner_intersection(e, d1, d2, r, left).pt \in SymPoint
<1>1. Normal(d1, left) \in Vec
  BY DEF Normal, Vec
<1>. QED  BY <1>1 DEF calculate_perpendicular_offset,
                     calculate_corner_intersection, SymPoint, Offset,
                     OffsetKinds, Zero, Vec

\* compensate_arc_endpoint returns a point and an I/J pair.
LEMMA ArcType ==
    ASSUME NEW cs \in SymPoint, NEW e \in Vec, NEW ijk \in ArcIJ,
           NEW r \in Int, NEW left \in BOOLEAN, NEW cw \in BOOLEAN
    PROVE  /\ compensate_arc_endpoint(cs, e, ijk, r, left, cw).endpoint
                 \in SymPoint
           /\ compensate_arc_endpoint(cs, e, ijk, r, left, cw).ijk \in ArcIJ
<1>1. Sub(e, ijk.centre) \in Vec
  BY DEF Sub, ArcIJ, Vec
<1>2. Plain(e) \in SymPoint
  BY PlainType
<1>. QED  BY <1>1, <1>2 DEF compensate_arc_endpoint, Neg, SymPoint, Offset,
                          OffsetKinds, Zero, Vec, ArcIJ

\* The radius is an integer whatever set_compensation was given.
LEMMA RadiusInt ==
    ASSUME TypeOK
    PROVE  compensation_radius \in Int
BY RadiiAssumption DEF TypeOK

\* The point ResolveLine gives a straight move.
LEMMA ResolveLineType ==
    ASSUME TypeOK, NEW E \in Vec
    PROVE  ResolveLine(E) \in SymPoint
<1>. DEFINE nxt == buffer[buffer_next_index(buffer_tail)]
<1>1. buffer_next_index(buffer_tail) \in Slots
  BY ModInSlots, BufferSizeAssumption DEF TypeOK, buffer_next_index, N, Slots
<1>2. nxt.endpoint.at \in Vec
  BY <1>1 DEF TypeOK, BufferedGcode, SymPoint
<1>3. compensation_radius \in Int /\ uncompensated_position \in Vec
  BY RadiusInt DEF TypeOK, Point
<1>4. Sub(E, uncompensated_position) \in Vec
      /\ Sub(E, Sub(uncompensated_position, E)) \in Vec
      /\ Sub(nxt.endpoint.at, E) \in Vec
  BY <1>2, <1>3 DEF Sub, Vec
<1>5. IsLeft \in BOOLEAN
  BY DEF IsLeft
<1>. QED  BY <1>3, <1>4, <1>5, OffsetType DEF ResolveLine

\* apply_compensation keeps the slot a BufferedGcode that owns the same
\* clone.
LEMMA ApplyType ==
    ASSUME TypeOK, NEW cur \in BufferedGcode
    PROVE  /\ apply_compensation(cur) \in BufferedGcode
           /\ apply_compensation(cur).gcode = cur.gcode
<1>1. CASE ~cur.is_move
  BY <1>1 DEF apply_compensation
<1>2. CASE cur.is_move /\ cur.has_ijk
  <2>. DEFINE a == compensate_arc_endpoint(
                      compensated_position, cur.endpoint.at, cur.ijk,
                      compensation_radius, IsLeft, cur.is_cw)
  <2>1. a.endpoint \in SymPoint /\ a.ijk \in ArcIJ
    BY RadiusInt, ArcType DEF TypeOK, BufferedGcode, SymPoint, IsLeft
  <2>. QED  BY <1>2, <2>1 DEF apply_compensation, BufferedGcode
<1>3. CASE cur.is_move /\ ~cur.has_ijk
  <2>1. ResolveLine(cur.endpoint.at) \in SymPoint
    BY ResolveLineType DEF BufferedGcode, SymPoint
  <2>. QED  BY <1>3, <2>1 DEF apply_compensation, BufferedGcode
<1>. QED  BY <1>1, <1>2, <1>3

\* The slot get_compensated_gcode returns is the tail slot, resolved or not.
LEMMA ReturnedSlotType ==
    ASSUME TypeOK
    PROVE  /\ ReturnedSlot \in BufferedGcode
           /\ ReturnedSlot.gcode = buffer[buffer_tail].gcode
<1>1. buffer[buffer_tail] \in BufferedGcode
  BY DEF TypeOK
<1>. QED  BY <1>1, ApplyType DEF ReturnedSlot

\* An offset produced with the current mode: either none (nothing was
\* applied, or an arc failed) or made with the current radius and side.
ResolvedBy(o) ==
    o.kind = "none" \/ (o.r = compensation_radius /\ o.left = IsLeft)

\* Every branch of ResolveLine (corner, corner fallback, perpendicular)
\* offsets with compensation_radius on the IsLeft side.
LEMMA ResolveLineOffset ==
    ASSUME NEW E \in Vec
    PROVE  ResolvedBy(ResolveLine(E).off)
BY DEF ResolveLine, calculate_perpendicular_offset,
       calculate_corner_intersection, ResolvedBy

\* apply_compensation keeps the kind of command and resolves a move with
\* the current radius and side.
LEMMA ApplyOffset ==
    ASSUME TypeOK, NEW cur \in BufferedGcode
    PROVE  /\ apply_compensation(cur).is_move = cur.is_move
           /\ cur.is_move => ResolvedBy(apply_compensation(cur).endpoint.off)
<1>1. CASE ~cur.is_move
  BY <1>1 DEF apply_compensation
<1>2. CASE cur.is_move /\ cur.has_ijk
  <2>. DEFINE a == compensate_arc_endpoint(
                      compensated_position, cur.endpoint.at, cur.ijk,
                      compensation_radius, IsLeft, cur.is_cw)
  <2>1. ResolvedBy(a.endpoint.off)
    BY DEF compensate_arc_endpoint, Plain, NoOffset, ResolvedBy
  <2>. QED  BY <1>2, <2>1 DEF apply_compensation, BufferedGcode
<1>3. CASE cur.is_move /\ ~cur.has_ijk
  <2>1. ResolvedBy(ResolveLine(cur.endpoint.at).off)
    BY ResolveLineOffset DEF BufferedGcode, SymPoint
  <2>. QED  BY <1>3, <2>1 DEF apply_compensation, BufferedGcode
<1>. QED  BY <1>1, <1>2, <1>3

-----------------------------------------------------------------------------
(***************************************************************************)
(* The inductive invariant: the type invariant, the buffer layout, and    *)
(* the count of commands returned or held against those buffered.  The     *)
(* last conjunct is what makes the type of last_id inductive: the clone at *)
(* the tail is the (ingested - buffer_count + 1)-th command, an id only    *)
(* when buffer_count <= ingested.                                          *)
(***************************************************************************)
IInv ==
    /\ TypeOK
    /\ BufferWellFormed
    /\ returned + buffer_count <= ingested

LEMMA IInvInit == Init => IInv
<1> SUFFICES ASSUME Init PROVE IInv
  OBVIOUS
<1>1. \A i \in Slots : buffer[i] \in BufferedGcode /\ buffer[i].gcode = Null
  BY InitialSlotType, PositionsAssumption DEF Init, InitialSlot
<1>2. TypeOK
  <2>1. buffer \in [Slots -> BufferedGcode]
    BY <1>1 DEF Init
  <2>2. compensated_position \in SymPoint /\ uncompensated_position \in Point
    BY PlainType DEF Init, Origin, Point, Vec
  <2>3. 0 \in Slots
    BY BufferSizeAssumption DEF Slots
  <2>. QED  BY <2>1, <2>2, <2>3, MaxIngestAssumption, BufferSizeAssumption
            DEF Init, TypeOK, Modes
<1>3. BufferWellFormed
  <2>1. \A k \in Slots : (0 + k) % N \in Slots
    BY ModInSlots, BufferSizeAssumption DEF N, Slots
  <2>2. 0 = (0 + 0) % N
    BY ModZero, BufferSizeAssumption DEF N, Slots
  <2>. QED  BY <1>1, <2>1, <2>2 DEF Init, BufferWellFormed, N, Slots
<1>. QED  BY <1>2, <1>3 DEF Init, IInv

\* flush only raises the flag.
LEMMA IInvFlush == IInv /\ flush => IInv'
BY DEF IInv, flush, TypeOK, BufferWellFormed

\* set_initial_position moves both positions to a programmed point.
LEMMA IInvSetInitial ==
    ASSUME IInv, NEW p \in Positions, set_initial_position(p)
    PROVE  IInv'
<1>1. Plain(p) \in SymPoint /\ p \in Point
  BY PlainType, PositionsAssumption DEF Point
<1>. QED  BY <1>1 DEF IInv, set_initial_position, TypeOK, BufferWellFormed

\* The buffer as clear() leaves it: every slot released, the indices at 0.
LEMMA ClearedLayout ==
    ASSUME TypeOK, returned + buffer_count <= ingested,
           buffer' = ClearedBuffer, buffer_head' = 0, buffer_tail' = 0,
           buffer_count' = 0,
           UNCHANGED <<ingested, returned, last_id>>
    PROVE  /\ buffer' \in [Slots -> BufferedGcode]
           /\ buffer_head' \in Slots /\ buffer_tail' \in Slots
           /\ buffer_count' \in 0..BUFFER_SIZE
           /\ returned' \in 0..ingested'
           /\ BufferWellFormed'
           /\ returned' + buffer_count' <= ingested'
<1>1. buffer' \in [Slots -> BufferedGcode]
      /\ \A i \in Slots : buffer'[i].gcode = Null
  BY DEF ClearedBuffer, TypeOK, BufferedGcode
<1>2. 0 \in Slots /\ 0 = (0 + 0) % N
  BY ModZero, BufferSizeAssumption DEF N, Slots
<1>3. \A k \in Slots : (0 + k) % N \in Slots
  BY ModInSlots, BufferSizeAssumption DEF N, Slots
<1>4. BufferWellFormed'
  BY <1>1, <1>2, <1>3 DEF BufferWellFormed, N, Slots
<1>. QED  BY <1>1, <1>2, <1>4, BufferSizeAssumption DEF TypeOK

LEMMA IInvClear == IInv /\ clear => IInv'
<1> SUFFICES ASSUME IInv, clear PROVE IInv'
  OBVIOUS
<1>1. /\ buffer' \in [Slots -> BufferedGcode]
      /\ buffer_head' \in Slots /\ buffer_tail' \in Slots
      /\ buffer_count' \in 0..BUFFER_SIZE
      /\ returned' \in 0..ingested'
      /\ BufferWellFormed'
      /\ returned' + buffer_count' <= ingested'
  BY ClearedLayout DEF IInv, clear
<1>. QED  BY <1>1 DEF IInv, clear, TypeOK

\* set_compensation: G40 clears the buffer, G41/G42 leave it alone.
LEMMA IInvSetCompensation ==
    ASSUME IInv, NEW t \in Modes, NEW r \in Radii, set_compensation(t, r)
    PROVE  IInv'
<1>1. CASE t = "NONE"
  <2>1. /\ buffer' \in [Slots -> BufferedGcode]
        /\ buffer_head' \in Slots /\ buffer_tail' \in Slots
        /\ buffer_count' \in 0..BUFFER_SIZE
        /\ returned' \in 0..ingested'
        /\ BufferWellFormed'
        /\ returned' + buffer_count' <= ingested'
    BY <1>1, ClearedLayout DEF IInv, set_compensation
  <2>. QED  BY <1>1, <2>1 DEF IInv, set_compensation, TypeOK
<1>2. CASE t # "NONE"
  BY <1>2 DEF IInv, set_compensation, TypeOK, BufferWellFormed
<1>. QED  BY <1>1, <1>2

\* buffer_gcode writes the next clone at the head, which is the slot
\* buffer_count past the tail, and advances the head.
LEMMA IInvBufferGcode ==
    ASSUME IInv, NEW c \in Commands, buffer_gcode(c)
    PROVE  IInv'
<1>. USE BufferSizeAssumption DEF N, Slots
<1>0. TypeOK
  BY DEF IInv
<1>1. c \in Command /\ ingested + 1 \in Ids
  <2>1. c \in Command
    BY CommandsAssumption
  <2>2. ingested \in 0..MaxIngest /\ ingested < MaxIngest
    BY <1>0 DEF TypeOK, buffer_gcode
  <2>. QED  BY <2>1, <2>2, MaxIngestAssumption DEF Ids
<1>2. buffer_count \in Slots /\ buffer_tail \in Slots /\ buffer_head \in Slots
  BY DEF IInv, TypeOK, buffer_gcode, buffer_has_space
<1>3. TypeOK'
  <2>1. clone_and_extract(c, ingested + 1, buffer[buffer_head]) \in BufferedGcode
    BY <1>1, <1>2, CloneType DEF IInv, TypeOK
  <2>2. buffer' \in [Slots -> BufferedGcode]
    BY <1>2, <2>1 DEF IInv, TypeOK, buffer_gcode
  <2>3. buffer_head' \in Slots
    BY <1>2, ModInSlots DEF buffer_gcode, buffer_next_index
  <2>4. uncompensated_position' \in Point
    BY <1>1 DEF IInv, TypeOK, buffer_gcode, Target, Word, Command, Point, Vec
  <2>5. buffer_count' \in 0..BUFFER_SIZE /\ ingested' \in 0..MaxIngest
        /\ returned' \in 0..ingested'
    BY <1>0, <1>1 DEF TypeOK, buffer_gcode, buffer_has_space, Ids
  <2>. QED  BY <1>0, <2>2, <2>3, <2>4, <2>5 DEF TypeOK, buffer_gcode
<1>4. buffer_head' = (buffer_tail' + buffer_count') % N
  <2>1. buffer_head = (buffer_tail + buffer_count) % N
    BY DEF IInv, BufferWellFormed
  <2>2. (buffer_head + 1) % N = (buffer_tail + (buffer_count + 1)) % N
    BY <1>2, <2>1, ModStep
  <2>. QED  BY <2>2 DEF buffer_gcode, buffer_next_index
<1>5. ASSUME NEW k \in Slots
      PROVE  buffer'[(buffer_tail' + k) % N].gcode =
                IF k < buffer_count' THEN ingested' - buffer_count' + 1 + k
                                     ELSE Null
  <2>. DEFINE i == (buffer_tail + k) % N
  <2>1. i \in Slots /\ buffer_head = (buffer_tail + buffer_count) % N
    BY <1>2, ModInSlots DEF IInv, BufferWellFormed
  <2>2. CASE k = buffer_count
    <3>1. i = buffer_head
      BY <2>1, <2>2
    <3>2. buffer'[i].gcode = ingested + 1
      <4>1. buffer[buffer_head] \in BufferedGcode
        BY <1>0, <1>2 DEF TypeOK
      <4>. QED  BY <1>0, <1>2, <3>1, <4>1
                DEF TypeOK, buffer_gcode, clone_and_extract, BufferedGcode
    <3>. QED  BY <2>2, <3>2 DEF buffer_gcode
  <2>3. CASE k # buffer_count
    <3>1. i # buffer_head
      BY <1>2, <2>1, <2>3, ModInjective
    <3>2. buffer'[i] = buffer[i]
      BY <2>1, <3>1 DEF buffer_gcode
    <3>3. buffer[i].gcode = IF k < buffer_count
                              THEN ingested - buffer_count + 1 + k ELSE Null
      BY DEF IInv, BufferWellFormed
    <3>. QED  BY <1>0, <1>2, <2>3, <3>2, <3>3 DEF TypeOK, buffer_gcode
  <2>. QED  BY <2>2, <2>3
<1>6. returned' + buffer_count' <= ingested'
  BY <1>0 DEF IInv, TypeOK, buffer_gcode
<1>. QED  BY <1>3, <1>4, <1>5, <1>6 DEF IInv, BufferWellFormed

\* get_compensated_gcode returns the clone at the tail, releases that
\* slot and advances the tail: the k-th slot from the new tail is the
\* (k + 1)-th from the old one, and the last of them is the released slot.
LEMMA IInvGet == IInv /\ get_compensated_gcode => IInv'
<1> SUFFICES ASSUME IInv, get_compensated_gcode PROVE IInv'
  OBVIOUS
<1>. USE BufferSizeAssumption DEF N, Slots
<1>0. TypeOK
  BY DEF IInv
<1>1. buffer_count \in 1..BUFFER_SIZE /\ buffer_tail \in Slots
      /\ buffer_head \in Slots /\ returned + buffer_count <= ingested
  BY <1>0 DEF IInv, TypeOK, get_compensated_gcode
<1>2. ReturnedSlot \in BufferedGcode
      /\ ReturnedSlot.gcode = ingested - buffer_count + 1
  <2>1. buffer[(buffer_tail + 0) % N].gcode = ingested - buffer_count + 1
    <3>1. \A k \in 0..(BUFFER_SIZE - 1) :
             buffer[(buffer_tail + k) % BUFFER_SIZE].gcode =
                IF k < buffer_count THEN ingested - buffer_count + 1 + k
                                    ELSE Null
      BY DEF IInv, BufferWellFormed
    <3>2. 0 \in 0..(BUFFER_SIZE - 1) /\ 0 < buffer_count
      BY <1>1
    <3>3. buffer[(buffer_tail + 0) % BUFFER_SIZE].gcode =
             ingested - buffer_count + 1 + 0
      BY <3>1, <3>2
    <3>. QED  BY <1>0, <3>3 DEF TypeOK
  <2>2. (buffer_tail + 0) % N = buffer_tail
    BY <1>1, ModZero
  <2>. QED  BY <1>0, <2>1, <2>2, ReturnedSlotType
<1>3. Released(ReturnedSlot) \in BufferedGcode
      /\ Released(ReturnedSlot).gcode = Null
  BY <1>2 DEF Released, BufferedGcode
<1>4. TypeOK'
  <2>1. buffer' \in [Slots -> BufferedGcode]
    BY <1>0, <1>1, <1>3 DEF TypeOK, get_compensated_gcode
  <2>2. buffer_tail' \in Slots
    BY <1>1, ModInSlots DEF get_compensated_gcode, buffer_next_index
  <2>3. compensated_position' \in SymPoint
    BY <1>2 DEF get_compensated_gcode, BufferedGcode
  <2>4. last_id' \in 0..MaxIngest
    <3>1. last_id' = ingested - buffer_count + 1
      BY <1>2 DEF get_compensated_gcode
    <3>. QED  BY <1>0, <1>1, <3>1, MaxIngestAssumption DEF TypeOK
  <2>5. buffer_count' \in 0..BUFFER_SIZE /\ returned' \in 0..ingested'
    BY <1>0, <1>1 DEF TypeOK, get_compensated_gcode
  <2>. QED  BY <1>0, <2>1, <2>2, <2>3, <2>4, <2>5
            DEF TypeOK, get_compensated_gcode
<1>5. buffer_head' = (buffer_tail' + buffer_count') % N
  <2>1. buffer_head = (buffer_tail + buffer_count) % N
    BY DEF IInv, BufferWellFormed
  <2>2. (((buffer_tail + 1) % N) + (buffer_count - 1)) % N
           = (buffer_tail + ((buffer_count - 1) + 1)) % N
    BY <1>1, ModShift
  <2>. QED  BY <1>1, <2>1, <2>2 DEF get_compensated_gcode, buffer_next_index
<1>6. ASSUME NEW k \in Slots
      PROVE  buffer'[(buffer_tail' + k) % N].gcode =
                IF k < buffer_count' THEN ingested' - buffer_count' + 1 + k
                                     ELSE Null
  <2>1. (buffer_tail' + k) % N = (buffer_tail + (k + 1)) % N
    BY <1>1, ModShift DEF get_compensated_gcode, buffer_next_index
  <2>2. CASE k + 1 < N
    <3>. DEFINE i == (buffer_tail + (k + 1)) % N
    <3>1. i \in Slots /\ i # buffer_tail
      <4>1. (buffer_tail + 0) % N = buffer_tail
        BY <1>1, ModZero
      <4>2. i # (buffer_tail + 0) % N
        BY <1>1, <2>2, ModInjective
      <4>3. k + 1 \in 0..N
        BY <2>2
      <4>. QED  BY <1>1, <4>1, <4>2, <4>3, ModInSlots
    <3>2. buffer'[i] = buffer[i]
      BY <1>0, <3>1 DEF TypeOK, get_compensated_gcode
    <3>3. buffer[i].gcode = IF k + 1 < buffer_count
                              THEN ingested - buffer_count + 1 + (k + 1)
                              ELSE Null
      BY <2>2 DEF IInv, BufferWellFormed
    <3>. QED  BY <1>0, <1>1, <2>1, <3>2, <3>3
              DEF TypeOK, get_compensated_gcode
  <2>3. CASE k + 1 = N
    <3>1. (buffer_tail + (k + 1)) % N = buffer_tail
      BY <1>1, <2>3, ModFullTurn
    <3>2. buffer'[buffer_tail].gcode = Null
      BY <1>0, <1>1, <1>3 DEF TypeOK, get_compensated_gcode
    <3>. QED  BY <1>1, <2>1, <2>3, <3>1, <3>2 DEF get_compensated_gcode
  <2>. QED  BY <2>2, <2>3
<1>7. returned' + buffer_count' <= ingested'
  BY <1>0, <1>1 DEF TypeOK, get_compensated_gcode
<1>. QED  BY <1>4, <1>5, <1>6, <1>7 DEF IInv, BufferWellFormed

\* Every step of the class, whatever public method the caller invokes,
\* keeps the inductive invariant.
LEMMA IInvNext == IInv /\ [Next]_vars => IInv'
<1> SUFFICES ASSUME IInv, [Next]_vars PROVE IInv'
  OBVIOUS
<1>1. ASSUME NEW c \in Commands, buffer_gcode(c) PROVE IInv'
  BY <1>1, IInvBufferGcode
<1>2. CASE get_compensated_gcode
  BY <1>2, IInvGet
<1>3. ASSUME NEW t \in Modes, NEW r \in Radii, set_compensation(t, r)
      PROVE IInv'
  BY <1>3, IInvSetCompensation
<1>4. CASE flush
  BY <1>4, IInvFlush
<1>5. CASE clear
  BY <1>5, IInvClear
<1>6. ASSUME NEW p \in Positions, set_initial_position(p) PROVE IInv'
  BY <1>6, IInvSetInitial
<1>7. CASE UNCHANGED vars
  BY <1>7 DEF IInv, vars, TypeOK, BufferWellFormed
<1>. QED  BY <1>1, <1>2, <1>3, <1>4, <1>5, <1>6, <1>7 DEF Next

(***************************************************************************)
(* A buffered move is still unresolved: every slot that owns a clone of a *)
(* move holds the endpoint clone_and_extract wrote, with no offset.  Only *)
(* get_compensated_gcode resolves a slot, and it releases that slot in the *)
(* same call.                                                              *)
(***************************************************************************)
SlotsUnresolved ==
    \A i \in Slots : (buffer[i].gcode # Null /\ buffer[i].is_move)
                        => buffer[i].endpoint.off.kind = "none"

LEMMA SlotsUnresolvedInit == Init => SlotsUnresolved
BY DEF Init, InitialSlot, SlotsUnresolved

\* The slot clone_and_extract writes is unresolved.
LEMMA CloneUnresolved ==
    ASSUME NEW c \in Command, NEW id \in Ids, NEW slot \in BufferedGcode
    PROVE  clone_and_extract(c, id, slot).is_move
              => clone_and_extract(c, id, slot).endpoint.off.kind = "none"
BY DEF clone_and_extract, Plain, NoOffset, BufferedGcode

LEMMA SlotsUnresolvedNext ==
    IInv /\ SlotsUnresolved /\ [Next]_vars => SlotsUnresolved'
<1> SUFFICES ASSUME IInv, SlotsUnresolved, [Next]_vars
             PROVE  SlotsUnresolved'
  OBVIOUS
<1>0. buffer \in [Slots -> BufferedGcode] /\ buffer_head \in Slots
      /\ buffer_tail \in Slots /\ ingested \in 0..MaxIngest
  BY DEF IInv, TypeOK
<1>1. ASSUME NEW c \in Commands, buffer_gcode(c) PROVE SlotsUnresolved'
  <2>1. ingested + 1 \in Ids
    BY <1>1, <1>0, MaxIngestAssumption DEF buffer_gcode, Ids
  <2>2. clone_and_extract(c, ingested + 1, buffer[buffer_head]).is_move
          => clone_and_extract(c, ingested + 1, buffer[buffer_head])
               .endpoint.off.kind = "none"
    BY <1>0, <2>1, CloneUnresolved, CommandsAssumption
  <2> QED
    BY <1>0, <1>1, <2>2 DEF buffer_gcode, SlotsUnresolved
<1>2. CASE get_compensated_gcode
  BY <1>0, <1>2 DEF get_compensated_gcode, Released, SlotsUnresolved
<1>9. \A i \in Slots : ClearedBuffer[i].gcode = Null
  BY <1>0 DEF ClearedBuffer, BufferedGcode
<1>3. ASSUME NEW t \in Modes, NEW r \in Radii, set_compensation(t, r)
      PROVE SlotsUnresolved'
  <2>1. CASE t = "NONE"
    BY <1>3, <1>9, <2>1 DEF set_compensation, SlotsUnresolved
  <2>2. CASE t # "NONE"
    BY <1>3, <2>2 DEF set_compensation, SlotsUnresolved
  <2> QED
    BY <2>1, <2>2
<1>4. CASE flush \/ \E p \in Positions : set_initial_position(p)
  BY <1>4 DEF flush, set_initial_position, SlotsUnresolved
<1>5. CASE clear
  BY <1>5, <1>9 DEF clear, SlotsUnresolved
<1>6. CASE UNCHANGED vars
  BY <1>6 DEF vars, SlotsUnresolved
<1>. QED  BY <1>1, <1>2, <1>3, <1>4, <1>5, <1>6 DEF Next

-----------------------------------------------------------------------------
(***************************************************************************)
(* Theorems.                                                               *)
(***************************************************************************)

\* The type invariant of the class holds in every reachable state, for
\* every buffer size: the head and tail indices stay inside the array,
\* the count never exceeds BUFFER_SIZE, and last_id names a buffered
\* command (buffer_gcode, get_compensated_gcode, clear, set_compensation).
THEOREM TypeCorrect == Spec => []TypeOK
<1>1. Init => IInv
  BY IInvInit
<1>2. IInv /\ [Next]_vars => IInv'
  BY IInvNext
<1>3. IInv => TypeOK
  BY DEF IInv
<1>. QED  BY <1>1, <1>2, <1>3, PTL DEF Spec

\* The circular buffer holds exactly the clones still owed to the caller,
\* oldest at the tail and every other slot at nullptr, in every reachable
\* state and for every buffer size: get_compensated_gcode releases the
\* slot it returns and clear() releases all of them, so no clone is
\* returned twice, deleted twice or lost.
THEOREM BufferWellFormedInvariant == Spec => []BufferWellFormed
<1>1. Init => IInv
  BY IInvInit
<1>2. IInv /\ [Next]_vars => IInv'
  BY IInvNext
<1>3. IInv => BufferWellFormed
  BY DEF IInv
<1>. QED  BY <1>1, <1>2, <1>3, PTL DEF Spec

\* Every buffered move keeps the programmed endpoint clone_and_extract
\* wrote until get_compensated_gcode returns it, for every buffer size:
\* apply_compensation is called only on the slot being returned, which is
\* released in the same call, so no move is offset twice and none is
\* returned with an offset computed before later moves were buffered.
THEOREM BufferedMovesStayUnresolved == Spec => []SlotsUnresolved
<1>1. Init => IInv /\ SlotsUnresolved
  BY IInvInit, SlotsUnresolvedInit
<1>2. (IInv /\ SlotsUnresolved) /\ [Next]_vars => (IInv /\ SlotsUnresolved)'
  BY IInvNext, SlotsUnresolvedNext
<1>. QED  BY <1>1, <1>2, PTL DEF Spec

-----------------------------------------------------------------------------
(***************************************************************************)
(* Refinement of LookaheadQueue.  Under the invariant the queue the        *)
(* buffer stands for is the run of ids ingested - buffer_count + 1 ..      *)
(* ingested, so buffer_gcode appends the next id, get_compensated_gcode    *)
(* hands out and drops the first, clear and G40 empty it, and the other    *)
(* operations leave it alone.                                              *)
(***************************************************************************)
\* The queue a buffer stands for, given its slots b, tail t and count cnt.
QueueOf(b, t, cnt) == [k \in 1..cnt |-> b[(t + k - 1) % BUFFER_SIZE].gcode]

QMap == QueueOf(buffer, buffer_tail, buffer_count)

\* Under the invariant, the queue of the current state.
LEMMA QMapIsRange ==
    ASSUME IInv
    PROVE  QMap = [k \in 1..buffer_count |-> ingested - buffer_count + k]
<1>1. buffer_tail \in Slots /\ buffer_count \in 0..BUFFER_SIZE
      /\ ingested \in Int
  BY MaxIngestAssumption DEF IInv, TypeOK
<1>2. \A j \in 0..(BUFFER_SIZE - 1) :
         buffer[(buffer_tail + j) % BUFFER_SIZE].gcode =
            IF j < buffer_count THEN ingested - buffer_count + 1 + j ELSE Null
  BY DEF IInv, BufferWellFormed
<1>3. ASSUME NEW k \in 1..buffer_count
      PROVE  QMap[k] = ingested - buffer_count + k
  <2>. DEFINE j == k - 1
  <2>1. j \in 0..(BUFFER_SIZE - 1) /\ j < buffer_count
        /\ buffer_tail + k - 1 = buffer_tail + j
    BY <1>1, BufferSizeAssumption DEF Slots
  <2>2. buffer[(buffer_tail + j) % BUFFER_SIZE].gcode
          = ingested - buffer_count + 1 + j
    BY <1>2, <2>1
  <2>. QED  BY <1>1, <2>1, <2>2 DEF QMap, QueueOf
<1>. QED  BY <1>3 DEF QMap, QueueOf

\* Under the invariant of the next state, the queue of the next state.
LEMMA QMapIsRangePrimed ==
    ASSUME IInv'
    PROVE  QMap' = [k \in 1..buffer_count' |-> ingested' - buffer_count' + k]
<1>1. buffer_tail' \in Slots /\ buffer_count' \in 0..BUFFER_SIZE
      /\ ingested' \in Int
  BY MaxIngestAssumption DEF IInv, TypeOK
<1>2. \A j \in 0..(BUFFER_SIZE - 1) :
         buffer'[(buffer_tail' + j) % BUFFER_SIZE].gcode =
            IF j < buffer_count' THEN ingested' - buffer_count' + 1 + j
                                 ELSE Null
  BY DEF IInv, BufferWellFormed
<1>3. ASSUME NEW k \in 1..buffer_count'
      PROVE  QMap'[k] = ingested' - buffer_count' + k
  <2>. DEFINE j == k - 1
  <2>1. j \in 0..(BUFFER_SIZE - 1) /\ j < buffer_count'
        /\ buffer_tail' + k - 1 = buffer_tail' + j
    BY <1>1, BufferSizeAssumption DEF Slots
  <2>2. buffer'[(buffer_tail' + j) % BUFFER_SIZE].gcode
          = ingested' - buffer_count' + 1 + j
    BY <1>2, <2>1
  <2>. QED  BY <1>1, <2>1, <2>2 DEF QMap, QueueOf
<1>. QED  BY <1>3 DEF QMap, QueueOf

\* One step of the class is a step of the abstract queue or leaves the
\* queue and the last returned id alone.
LEMMA QueueStep ==
    IInv /\ IInv' /\ [Next]_vars => [Queue!Next]_<<QMap, last_id>>
<1> SUFFICES ASSUME IInv, IInv', [Next]_vars
             PROVE  [Queue!Next]_<<QMap, last_id>>
  OBVIOUS
<1>0. /\ QMap = [k \in 1..buffer_count |-> ingested - buffer_count + k]
      /\ QMap' = [k \in 1..buffer_count' |-> ingested' - buffer_count' + k]
      /\ buffer_count \in 0..BUFFER_SIZE /\ ingested \in Nat
  <2>1. QMap = [k \in 1..buffer_count |-> ingested - buffer_count + k]
    BY QMapIsRange
  <2>2. QMap' = [k \in 1..buffer_count' |-> ingested' - buffer_count' + k]
    BY QMapIsRangePrimed
  <2>3. buffer_count \in 0..BUFFER_SIZE /\ ingested \in Nat
    BY MaxIngestAssumption DEF IInv, TypeOK
  <2>. QED  BY <2>1, <2>2, <2>3
<1>1. ASSUME NEW c \in Commands, buffer_gcode(c)
      PROVE  [Queue!Next]_<<QMap, last_id>>
  <2>1. ingested + 1 \in Ids
    BY <1>1, MaxIngestAssumption DEF buffer_gcode, IInv, TypeOK, Ids
  <2>2. Len(QMap) < BUFFER_SIZE
    BY <1>0, <1>1 DEF buffer_gcode, buffer_has_space
  <2>3. QMap' = Append(QMap, ingested + 1)
    BY <1>0, <1>1 DEF buffer_gcode
  <2>4. UNCHANGED last_id
    BY <1>1 DEF buffer_gcode
  <2>. QED  BY <2>1, <2>2, <2>3, <2>4
            DEF Queue!Next, Queue!Insert, QMap, QueueOf
<1>2. CASE get_compensated_gcode
  <2>1. buffer_count \in 1..BUFFER_SIZE
    BY <1>0, <1>2 DEF get_compensated_gcode
  <2>2. last_id' = ingested - buffer_count + 1
    <3>1. buffer[(buffer_tail + 0) % N].gcode = ingested - buffer_count + 1
      <4>1. \A j \in 0..(BUFFER_SIZE - 1) :
               buffer[(buffer_tail + j) % BUFFER_SIZE].gcode =
                  IF j < buffer_count THEN ingested - buffer_count + 1 + j
                                      ELSE Null
        BY DEF IInv, BufferWellFormed
      <4>2. 0 \in 0..(BUFFER_SIZE - 1) /\ 0 < buffer_count
        BY <2>1, BufferSizeAssumption
      <4>3. buffer[(buffer_tail + 0) % BUFFER_SIZE].gcode =
               ingested - buffer_count + 1 + 0
        BY <4>1, <4>2
      <4>. QED  BY <1>0, <4>3 DEF N
    <3>2. (buffer_tail + 0) % N = buffer_tail
      BY ModZero DEF IInv, TypeOK
    <3>. QED  BY <1>2, <3>1, <3>2, ReturnedSlotType
              DEF get_compensated_gcode, IInv
  <2>3. buffer_count' = buffer_count - 1 /\ ingested' = ingested
    BY <1>2 DEF get_compensated_gcode
  <2>4. QMap # << >> /\ Head(QMap) = ingested - buffer_count + 1
    BY <1>0, <2>1
  <2>5. Tail(QMap) = [k \in 1..(buffer_count - 1) |-> ingested - buffer_count + (k + 1)]
    BY <1>0, <2>1
  <2>6. QMap' = Tail(QMap)
    BY <1>0, <2>1, <2>3, <2>5
  <2>. QED  BY <2>2, <2>4, <2>6 DEF Queue!Next, Queue!Remove, QMap, QueueOf
<1>3. ASSUME NEW t \in Modes, NEW r \in Radii, set_compensation(t, r)
      PROVE  [Queue!Next]_<<QMap, last_id>>
  <2>1. CASE t = "NONE"
    <3>1. QMap' = << >> /\ UNCHANGED last_id
      BY <1>0, <1>3, <2>1 DEF set_compensation
    <3>. QED  BY <3>1 DEF Queue!Next, Queue!Discard, QMap, QueueOf
  <2>2. CASE t # "NONE"
    BY <1>3, <2>2 DEF set_compensation, QMap, QueueOf
  <2>. QED  BY <2>1, <2>2
<1>4. CASE flush
  BY <1>4 DEF flush, QMap, QueueOf
<1>5. CASE clear
  <2>1. QMap' = << >> /\ UNCHANGED last_id
    BY <1>0, <1>5 DEF clear
  <2>. QED  BY <2>1 DEF Queue!Next, Queue!Discard, QMap, QueueOf
<1>6. ASSUME NEW p \in Positions, set_initial_position(p)
      PROVE  [Queue!Next]_<<QMap, last_id>>
  BY <1>6 DEF set_initial_position, QMap, QueueOf
<1>7. CASE UNCHANGED vars
  BY <1>7 DEF vars, QMap, QueueOf
<1>. QED  BY <1>1, <1>2, <1>3, <1>4, <1>5, <1>6, <1>7 DEF Next

\* The lookahead buffer implements the abstract bounded FIFO queue
\* (LookaheadQueue) for every buffer size: buffer_gcode appends when
\* buffer_has_space, get_compensated_gcode hands out the oldest buffered
\* command and no other, and clear/G40 discard the whole queue; no
\* interleaving of the public methods reorders, repeats or loses a
\* command except by discarding all of them.
THEOREM ImplementsLookaheadQueue == Spec => QueueSpec
<1>1. Init => Queue!Init
  <2> SUFFICES ASSUME Init PROVE Queue!Init
    OBVIOUS
  <2>1. QMap = << >>
    BY DEF Init, QMap, QueueOf
  <2>. QED  BY <2>1 DEF Init, Queue!Init, QMap
<1>2. IInv /\ IInv' /\ [Next]_vars => [Queue!Next]_<<QMap, last_id>>
  BY QueueStep
<1>3. Init => IInv
  BY IInvInit
<1>4. IInv /\ [Next]_vars => IInv'
  BY IInvNext
<1>. QED  BY <1>1, <1>2, <1>3, <1>4, PTL
          DEF Spec, QueueSpec, Queue!Spec, Queue!vars, QMap, QueueOf
=============================================================================
