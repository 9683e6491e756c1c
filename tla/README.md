# Verification of the cutter-compensation preprocessor

This directory holds TLA+ models of `CompensationPreprocessor`. That class
implements G40/G41/G42 cutter radius compensation in the firmware
(`src/src/modules/robot/CompensationPreprocessor.h`, which holds both the
header and the implementation, and `CompensationTypes.h`). The directory also
holds the TLC configurations that check the models on small instances, and
TLAPS proofs of the buffer's main properties, of the corner formula and of
the caller protocol, for every value of the constants.

## The system

The spec (`spec.md`) splits the engine into four parts. The code implements
all of them in one class:

| Part | Code | State |
|---|---|---|
| Lookahead Buffer | `buffer[BUFFER_SIZE]`, `buffer_head/tail/count`, `buffer_has_space`, `buffer_next_index`, `buffer_gcode`, `clone_and_extract`, `clear` | 10 slots of `BufferedGcode`, each owning a `new Gcode` clone |
| Geometry Kernel | `cross_product_2d`, `normalize_vector`, `calculate_perpendicular_offset`, `calculate_corner_intersection`, `is_inside_corner`, `compensate_arc_endpoint` | none (pure) |
| Compensation State Machine | `set_compensation`, `flush`, `set_initial_position`, the gate of `get_compensated_gcode`, `apply_compensation` | `compensation_type`, `compensation_radius`, `is_flushing`, `uncompensated_position`, `compensated_position` |
| Command Reconstructor | string rebuild in `get_compensated_gcode`; `modify_gcode_coordinates` | none |

How the parts interact:
1. The caller offers commands one at a time to `buffer_gcode`, which clones
   each into the head slot. When the command is a move, it also advances
   `uncompensated_position`.
2. `get_compensated_gcode` returns nothing while G41/G42 is active, fewer than
   three commands are buffered and no flush is in progress.
3. Otherwise it resolves the tail slot with `apply_compensation`, which
   chooses one of three paths:
   - an arc goes through `compensate_arc_endpoint`;
   - a line followed by a line goes through `calculate_corner_intersection`;
   - any other line goes through `calculate_perpendicular_offset`.
4. It then moves `compensated_position` to the result, rebuilds the command
   from G, X/Y/Z, I/J/K and F, deletes the clone and advances the tail.
5. `set_compensation(NONE, r)` calls `flush()` and then `clear()`.

The code runs on one thread and has no callbacks. The hard behaviours are
therefore the orders in which a caller may invoke the public methods, and
what the state is when it does:
- the buffer at its bounds and across index wrap-around;
- the resolution of a move from state that later buffering has already
  overwritten;
- uninitialised members (`is_flushing`, the slot endpoints);
- the G40 drain.

The class as given does not compile. The header declares neither
`is_flushing`, `compensated_position`, `BufferedGcode::uncomp_start` nor
`set_initial_position`, and its declaration of `compensate_arc_endpoint`
does not match the definition. The models follow what the `.cpp` part does
with these members.

## Modules

- **`CompGeometry`** holds the geometry kernel as operators.
  - Coordinates are integers. The code normalises every direction before the
    kernel uses it, and normalising a vector is a positive scaling: it changes
    no sign, no zero test and no direction.
  - An emitted point is therefore kept exactly as a `SymPoint`: a grid point
    plus an `Offset` record that names the formula the code applied (`perp`,
    `corner`, `tangent`) and the unnormalised vectors it applied it to.
  - On the integer grid a non-zero vector has length at least 1, and two
    non-parallel directions give `|det| >= 1/(|d1||d2|)`, far above `1e-5`.
    The code's epsilon tests are therefore the exact zero tests, for the
    magnitudes the instances use.
- **`CornerGeometry`** evaluates `calculate_corner_intersection` line by line
  in exact rational arithmetic.
  - The directions are integer vectors of one common length `Len`. With
    `Len = 5` these are the axes and the 3-4-5 directions, whose normalised
    forms `d/5` are exact.
  - The intersection is kept as an integer numerator vector over an integer
    denominator.
  - The module's state is the input (`dir1`, `dir2`, `is_left`, `radius`,
    `corner`). `Init` is one input and `Choose` picks any input, so TLC
    evaluates every combination.
- **`CompensationPreprocessor`** models the class. Its variables are the
  members:
  - `buffer` is a function from slots to `BufferedGcode` records. A slot's
    `gcode` is the clone's sequence number, or `Null`; its `src` is the
    cloned command's words.
  - The ghost counters `ingested`, `returned` and `last_id` number the clones.
  - A `Command` is the words the class reads: `has_g`, `g`, X/Y (absent or an
    integer), I/J, and the set of other words (`F` and one auxiliary word).
    The Gcode class is not in `src/`, so this record is built from the spec's
    interface (spec_modelled in the map).
  - Z is carried through unchanged by every path and is left out.

  There is one action per public method, each modelling the whole method
  with every call it makes:
  - `buffer_gcode(c)` includes `clone_and_extract`;
  - `get_compensated_gcode` includes `apply_compensation`, the string rebuild
    and the release of the slot;
  - `set_compensation(t, r)`, where G40 also performs `flush(); clear();`;
  - `flush`, `clear` and `set_initial_position(p)`.

  The constructor's `Init` lets `is_flushing` and every slot's `endpoint`
  take any value of the instance, since the code never initialises them.
  `modify_gcode_coordinates` builds a string and discards it, so it changes
  nothing. `apply_compensation` ignores the result of
  `compensate_arc_endpoint`, exactly as the code does.
- **`LookaheadQueue`** is the abstract specification of the buffer (spec
  4.1): a bounded FIFO of item ids, with `Insert`, `Remove` (hands out the
  head and records it in `last`) and `Discard`.
  `CompensationPreprocessor!Queue` instantiates it with the refinement
  mapping `queue <- the ids in slots tail .. tail+count-1`,
  `last <- last_id`.
- **`CompensationCaller`** composes the class with a caller that keeps the
  protocol spec 4.3, 6 and 9 (and the comment in `flush()`) put on it. The
  caller (the robot's G40/G41/G42 handler and command loop) is not in
  `src/`, so its actions are spec_modelled; every one of them is one call of
  a public method, i.e. one step of the class's `Next`:
  - `Start(p)`: `set_initial_position` once;
  - `Feed`: the next command of the program to `buffer_gcode`, taken only
    when accepted; while the buffer is full the caller pumps instead
    (back-pressure);
  - `Pump`: `get_compensated_gcode` returns a command, which is appended to
    `emitted`;
  - `BeginDrain` / `EndDrain`: before a mode change and at the end of the
    program, `flush()`, pump until the buffer is empty, `clear()`;
  - `SetMode`: `set_compensation` with the buffer empty, G40 with radius 0.

  `fed_mode` is a ghost record of the mode and radius in effect when each
  command was buffered.
- **`MCCompensationPreprocessor`**, **`MCCompensationCaller`** and
  **`MCCornerGeometry`** give the constants for TLC.
- **`CompensationPreprocessorProofs`**, **`CompensationCallerProofs`** and
  **`CornerGeometryProofs`** hold the TLAPS proofs.

In `CompensationPreprocessor` the caller is free: `Next` lets any public
method run at any time, as the class itself enforces no calling order. That
model has no fairness: nothing in the class runs by itself. Liveness is
stated in `CompensationCaller`, under weak fairness of each caller action
(`CFairness`). This is what the code justifies: the caller is a command loop
that keeps calling while it has work, and each of its steps, once possible,
stays possible until it is taken. Weak fairness suffices: while the
program is not done some caller step stays possible until it is taken
(when `buffer_gcode` would refuse, the buffer holds at least three commands
and `Pump` is possible), so no step needs to be taken infinitely often
when only intermittently possible.

## Runs

| Run | Config | Expect | What it shows |
|---|---|---|---|
| `buffer_core` | `MCCompensationPreprocessor.cfg` | pass | `TypeOK`, `BufferWellFormed` and `QueueSpec` (the class refines `LookaheadQueue`) under every order of public calls |
| `corner_equidistant` | `MCCornerGeometry.cfg` | pass | `CornerOnBothOffsetLines`: the corner the code computes lies at distance `radius` from both programmed lines, on the G41/G42 side (spec 8, second property) |
| `g40_drops_buffered_moves` | `..._DisableKeepsBufferedMoves.cfg` | violation | G40 deletes buffered moves instead of draining them |
| `line_offset_direction` | `..._LineOffsetAlongOwnDirection.cfg` | violation | the incoming direction of a line is taken from the newest buffered endpoint |
| `nonmotion_passthrough` | `..._NonMotionPassThrough.cfg` | violation | a non-motion command gets stale X/Y and loses its non-F words |
| `rapid_passthrough` | `..._RapidPassThrough.cfg` | violation | G0 is compensated |
| `degenerate_arc` | `..._DegenerateArcRejected.cfg` | violation | under G41/G42 a zero-radius arc goes through `apply_compensation` and is emitted |
| `caller_protocol` | `MCCompensationCaller.cfg` | pass | `NoCommandLost`, `ResolvedWithModeOfBuffering`, `ProgramCompletes`: under the drain-before-change protocol nothing is lost or reordered, every move keeps the mode and radius of its buffering, and every program ends with the buffer drained |
| `uninitialised_flushing` | `MCCompensationCaller_LookaheadHeldUntilDrain.cfg` | violation | the uninitialised `is_flushing` waives the three-move lookahead for the first G41/G42 moves |
| `offmode_passthrough` | `..._OffModePassThrough.cfg` | violation | with compensation off, moves are still offset by the radius G40 was given |
| `drain_flag_persists` | `..._DrainEndsWhenEmpty.cfg` | violation | `is_flushing` outlives the drain; only `clear()` resets it |
| `inside_corner_classification` | `MCCornerGeometry_InsideCornerShortensOffset.cfg` | violation | `is_inside_corner` (and spec 4.2's convention) disagrees with the glossary's definition of an inside corner |

PROJECT.json's `findings` explain each violation. The short traces of some
violations start with the uninitialised `is_flushing` at TRUE, but each
violation except `uninitialised_flushing` was also reproduced with the flag
initialised to FALSE; `uninitialised_flushing` passes with the flag FALSE,
which is what makes it a finding about the constructor.

### Bounds

- **`buffer_core`**: `BUFFER_SIZE = 4`, at most 6 commands buffered
  (`MaxIngest`), 4 commands (a G1 with F, a G1 with only Y, a G2, an M-code),
  radius 1, one initial position. These bounds cover:
  - a full buffer and a refused insert;
  - the three-move lookahead gate;
  - a wrap-around of the head and of the tail (6 commands through 4 slots);
  - every branch of `apply_compensation`;
  - G40 with moves buffered.

  The cfg uses `VIEW MCControlView`, which keeps the slots' ids, command kinds
  and the control members and drops the coordinates. This is sound for this
  run for two reasons:
  - no guard in the class reads a coordinate, so states with the same view
    have the same enabled steps and the same successor views;
  - none of the three properties reads a coordinate.

  The run ends after about 880,000 distinct views, to depth 21, in about 90 s.
- **Violation runs**: they use two more commands (a G0 and an arc that ends
  on its centre) and two possible values for uninitialised floats, with no
  view.
- **`caller_protocol`**: `BUFFER_SIZE = 4`, at most 7 commands, radii 0, 1
  and 2, three programs. Between them they reach a corner, an arc and an
  M-code under G41; a side and radius change (G42 r2 to G41 r1) with two
  moves buffered; a G40 drain; five commands in Off mode, so the buffer
  fills and `buffer_gcode` refuses; and a program that ends with G41 still
  on and two moves held back. 730 distinct states; every caller action
  fires. `CHECK_DEADLOCK FALSE`: the caller stops when its program is done,
  and `ProgramCompletes` is what says it gets there.
- **`corner_equidistant`**: all 12 directions of length 5 in both slots,
  giving right, acute, obtuse, reversing and parallel corners. It also covers
  both sides, radii 1 and 2, and two corner points: 1152 inputs, all checked.

### Mutants

Each passing property is shown to be broken by a plausible bug:
- `TypeOK` by `buffer_next_index` without `% BUFFER_SIZE`;
- `BufferWellFormed` by a slot that keeps its pointer after
  `delete slot.gcode`;
- `QueueSpec` by `buffer_has_space` with `<=`;
- `CornerOnBothOffsetLines` by the two normal rotations exchanged;
- `NoCommandLost` by `buffer_has_space` with `<=` (a fifth command
  overwrites the oldest);
- `ResolvedWithModeOfBuffering` by a caller that changes mode without
  draining;
- `ProgramCompletes` by a `flush()` that does not set `is_flushing`, which
  leaves the last two G41 moves held forever.

## Proofs

`CompensationPreprocessorProofs` proves four theorems with TLAPS, for every
`BUFFER_SIZE > 0`, every `MaxIngest`, and every set of commands, radii and
positions. The only assumptions are the `ASSUME`s of
`CompensationPreprocessor`.

- **`TypeCorrect`**: `Spec => []TypeOK`.
- **`BufferWellFormedInvariant`**: `Spec => []BufferWellFormed`.
- **`ImplementsLookaheadQueue`**: `Spec => QueueSpec`, the refinement of the
  FIFO.
- **`BufferedMovesStayUnresolved`**: `Spec => []SlotsUnresolved` (see below).

The argument runs as follows:
- Neither invariant is inductive alone. The inductive invariant `IInv` is
  `TypeOK /\ BufferWellFormed /\ returned + buffer_count <= ingested`:
  - the last conjunct bounds the id at the tail (`ingested - count + 1`),
    which keeps `last_id` in range;
  - `BufferWellFormed` is what makes the tail slot hold a clone rather than
    `Null`.
- `IInvInit` and `IInvNext` prove it, with one lemma per action:
  - `buffer_gcode` writes the slot `count` past the tail. `ModInjective`
    shows that no other live slot is that one.
  - `get_compensated_gcode` shifts every offset by one (`ModShift`) and frees
    the slot a full turn away (`ModFullTurn`).
  - `clear` and G40 reset everything (`ClearedLayout`).
- The index lemmas rest on `ModSmall`: below `2N`, `a % N` is `a` or
  `a - N`. The SMT backend cannot derive `a = (a \div N) * N + a % N` for a
  symbolic `N`. It can derive the uniqueness of the remainder
  (`ModUnique`), and every slot index is the sum of two numbers below `N`.
- For the refinement, `QMapIsRange` shows that under `IInv` the mapped queue
  is the run of ids `ingested - count + 1 .. ingested`. Each action is then a
  step of the queue:
  - `buffer_gcode` is `Insert(ingested + 1)`;
  - `get_compensated_gcode` is `Remove`;
  - `clear` and G40 are `Discard`;
  - every other action is a stutter.
- The typing lemmas (`CloneType`, `ApplyType`, `ResolveLineType`,
  `ArcType`, `ReturnedSlotType`) show that the resolved slot is well typed
  and keeps its clone.

`CornerGeometryProofs` proves **`CornerEquidistant`**:
`Spec => []CornerOnBothOffsetLines`, for every `Len`, every set of
directions of length `Len`, every radius and corner. The invariant `Inv`
only says the inputs stay in their sets; the content is the lemma
`CornerOnLines`, an identity of polynomials. With `D = cross(d1, d2)` and
`N1, N2` the normals, the computed point minus the corner is
`r*D*N1 + T*d1` (scaled by `Len*D`); `cross(d, Normal(d)) = Side*|d|^2`
(`NormalCross`), `cross(d1, d1) = 0`, and linearity of the cross product
(`CrossLinear`, `CrossSub`) reduce both distances to `Side*r*Len*(Len*D)`.
The last ring step names the opaque terms with `PICK` so that Z3 sees
integer constants.

`CompensationCallerProofs` proves **`CallerLosesNoCommand`**:
`CSpec => []NoCommandLost`, for every buffer size and program (programs
use the commands, radii and positions of the class's constants; the
assumption `BUFFER_SIZE >= 3` is needed only for liveness, not here). The
inductive invariant `CInv` is `IInv` of the class, the types of `todo` and
`emitted`, and `NoCommandLost` itself. `CallerStepIsClassStep` shows that
every caller step is a step of the class's `Next`, so `IInvNext` carries
`IInv`; `TailIsNext` uses `BufferWellFormed` to show that the clone
returned next is the `(ingested - count + 1)`-th, i.e. `Len(emitted) + 1`;
the drain and `SetMode` run `clear()` and G40 only on an empty buffer.

It also proves **`ModeOfBuffering`**: `CSpec => ResolvedWithModeOfBuffering`,
for every buffer size, radius set and program. The action property is not
a consequence of `CInv`. It needs the strengthening `MInv`, which is
`CInv` plus four conjuncts:
- `FedModeType`: `fed_mode` maps ids to modes and radii;
- `FedModeCurrent`: every command still buffered was fed under the current
  mode and radius, because `SetMode` runs only with the buffer empty;
- `OffRadiusZero`: in Off mode the radius is 0, because G40 is passed 0
  (the `Instruction` set and the assumption `0 \in Radii`);
- `SlotsUnresolved`: a live slot holding a move has no offset yet.

TLC checked `MInv` as an invariant of the `caller_protocol` instance before
the proof. `PumpResolvesWithFedMode` then splits on the gate at line 343:
- When compensation is applied, the operator lemma `ApplyOffset` shows that
  every offset `apply_compensation` produces has the current radius and
  side, or none at all. `ResolveLineOffset` covers lines and
  `compensate_arc_endpoint` covers arcs.
- When it is not applied, the gate at line 337 allows that only in Off
  mode. The raw tail slot then has no offset, by `SlotsUnresolved`.

The proof shows that the Off-mode offsetting `offmode_passthrough` exhibits
needs a nonzero radius in Off mode. A caller that passes 0 with G40 never
meets it.

Two more theorems come with these proofs:
- **`BufferedMovesStayUnresolved`** (in `CompensationPreprocessorProofs`):
  `Spec => []SlotsUnresolved` for the free client. `apply_compensation`
  touches only the slot being returned, which is released in the same
  call, so no buffered move is offset early or twice. Its step lemma
  `SlotsUnresolvedNext` is the one `MInv` uses.
- **`InitialisedFlagHoldsLookahead`**:
  `CInit /\ ~is_flushing /\ [][CNext]_cvars => LookaheadHeldUntilDrain`.
  This is the converse of the `uninitialised_flushing` violation. With the
  flag initialised to false, `is_flushing => phase = "drain"` is inductive:
  - only `BeginDrain` calls `flush()`;
  - `clear()` in `EndDrain` resets the flag.

  So the lookahead is waived only while draining. The violation TLC finds
  comes from the constructor alone.

What stays with TLC:
- `ProgramCompletes`, a liveness property under fairness, which TLAPS
  cannot prove here.

## Not modelled

- The Gcode class and the snprintf/parse round trip. The rebuilt command is
  modelled by the values it carries.
- Z.
- Float rounding. The instances use exactly representable geometry, so the
  model shows the formulas, not their rounding.
- The robot's actual caller, which is not in `src/`. `CompensationCaller`
  models one caller that keeps the spec's protocol (status `partly`); the
  free-client model covers every other order of calls.
- Heap allocation (`new Gcode` at lines 268 and 379): allocation failure and
  latency belong to the firmware's allocator.
- `src/unnamed/part_000`, a prose document.

## Plan for later work

1. **Spec 8, scenario 4, against `compensate_arc_endpoint`.** The model
   fixes the centre when the command is buffered, so "centre unchanged"
   holds by construction and is not worth a property. The open question is
   the direction of the shift. The scenario calls CW/Left "outward". The spec's
   `compensate_arc` contract and line 671 make CW/Left inward.
2. **An end-to-end check of spec 8's scenarios 1-4.** This needs the
   symbolic points evaluated on exact directions, as `CornerGeometry` does.
3. **The liveness `ProgramCompletes`** stays with TLC. TLAPS here has no
   support for `ENABLED`, which the weak-fairness argument needs.
