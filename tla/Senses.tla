------------------------------- MODULE Senses -------------------------------
(***************************************************************************)
(* What the Thief smells, hears and believes: the pheromone field it       *)
(* leaves (domain/scent.py), the reading of a hint (language/hints.py) and *)
(* the belief about the Police's cell (domain/belief.py), with the order   *)
(* in which a message of the Police is folded into it                      *)
(* (peer/turn_handler.py).                                                 *)
(*                                                                         *)
(* Intensities are thousandths, as the field rounds them.  Of the belief,  *)
(* the set of cells that carry mass is kept: an update of the code scales  *)
(* masses, spreads them or sets them to zero, and what can go wrong is     *)
(* that no mass, or none at the right cell, is left.                       *)
(***************************************************************************)
EXTENDS Board

CONSTANTS
  Decay,     \* decay_per_step, in thousandths
  Half,      \* smell_grid_size \div 2
  Kernel,    \* emission_kernel by the two distances: round(intensity * exp(...), 3)
  Leaks      \* belief.leak is positive

ASSUME SensesAssumption ==
  /\ Decay \in 0 .. 1000 /\ Half \in Nat /\ Leaks \in BOOLEAN
  /\ Kernel \in [0 .. Half -> [0 .. Half -> 0 .. 1000]]
  /\ \A r, c \in 0 .. Half : Kernel[r][c] <= Kernel[0][0]

Emit == Kernel[0][0]   \* emit_intensity
TraceFloor == 10       \* _TRACE_FLOOR

Fields == [Cells -> 0 .. 1000]   \* 0: no trace

-----------------------------------------------------------------------------
(* The field. *)

Apart(a, b) == IF a >= b THEN a - b ELSE b - a

(* round(value * (1 - decay), 3): the nearest thousandth, either one of two   *)
(* that are equally near, since the product is a float.                       *)
Faded(v) ==
  {w \in 0 .. v : LET d == 1000 * w - v * (1000 - Decay) IN d <= 500 /\ -d <= 500}

(* decay_all: what has faded below the floor is gone. *)
DecayAll(old, new) ==
  \A c \in Cells : \E w \in Faded(old[c]) : new[c] = IF w >= TraceFloor THEN w ELSE 0

(* _radial: the window around the centre, cut at the edges of the board. *)
Radial(center, c) ==
  IF Apart(c[1], center[1]) <= Half /\ Apart(c[2], center[2]) <= Half
    THEN Kernel[Apart(c[1], center[1])][Apart(c[2], center[2])] ELSE 0

(* deposit: the strongest value of a cell is retained. *)
Deposit(field, center) ==
  [c \in Cells |-> IF field[c] >= Radial(center, c) THEN field[c] ELSE Radial(center, c)]

(* emit. *)
Emission(old, center, new) ==
  \E faded \in Fields : DecayAll(old, faded) /\ new = Deposit(faded, center)

-----------------------------------------------------------------------------
(* A hint: the first zone it names, or none, and how likely that makes a      *)
(* cell, in units of 1 / (2 * (BoardSize - 1)).                               *)

HintZones == {"north", "south", "east", "west", "center"}

Likelihood(zone, c) ==
  LET last == BoardSize - 1
  IN CASE zone = "north"  -> 2 * (last + last - c[1])
       [] zone = "south"  -> 2 * (last + c[1])
       [] zone = "east"   -> 2 * (last + c[2])
       [] zone = "west"   -> 2 * (last + last - c[2])
       [] zone = "center" -> 4 * last - Apart(2 * c[1], last) - Apart(2 * c[2], last)

-----------------------------------------------------------------------------
(* The belief. *)

Beliefs == (SUBSET Cells) \ {{}}

(* _normalize: no mass at all is taken for no knowledge at all. *)
Normalized(likely) == IF likely = {} THEN Cells ELSE likely

(* diffuse: the Police stays or moves one step, over barriers too; a cell     *)
(* whose mass is below epsilon is dropped.                                    *)
Near(c) == {d \in Cells : Apart(c[1], d[1]) + Apart(c[2], d[2]) <= 1}

Diffuse(likely, faint) == Normalized({d \in Cells : \E c \in likely \ faint : d \in Near(c)})

(* observe_smell: boosts are at least one, and the leak gives every cell some *)
(* mass, whatever was smelled.                                                *)
ObserveSmell(likely) == IF Leaks THEN Cells ELSE Normalized(likely)

(* observe_likelihoods. *)
ObserveLikelihoods(likely, zone) ==
  Normalized(IF zone \in HintZones THEN {c \in likely : Likelihood(zone, c) > 0} ELSE likely)

(* exclude, of a set of none or one cell: what it may come to.  Where nothing *)
(* leaks, what remains may be below epsilon in all, and is taken for nothing. *)
Exclude(likely, cells) ==
  IF cells = {} THEN {likely}
  ELSE {Normalized(likely \ cells)} \cup IF Leaks THEN {} ELSE {Cells}

(* process: predict, smell, listen; then a barrier is ruled out, and so is    *)
(* the own cell unless the message decides the game.                          *)
Sensed(likely, faint, zone) ==
  ObserveLikelihoods(ObserveSmell(Diffuse(likely, faint)), zone)

Process(likely, faint, zone, barrier, own, decided) ==
  UNION {IF decided THEN {told} ELSE Exclude(told, {own}) :
           told \in Exclude(Sensed(likely, faint, zone), barrier)}

(* The cells of vanishing mass: none where a share of the board leaks in that *)
(* is not vanishing itself, and never all.                                    *)
Faints(likely) == IF Leaks THEN {{}} ELSE {f \in SUBSET likely : f # likely}

=============================================================================
