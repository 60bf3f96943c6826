------------------------------- MODULE Board -------------------------------
(***************************************************************************)
(* The pure geometry of the N x N board (domain/board.py) and the          *)
(* end-of-game tests that are made of it (domain/rules.py).  The Board     *)
(* keeps no position and no barrier: each operator takes them as           *)
(* parameters, as the methods of the class do.                             *)
(***************************************************************************)
EXTENDS Integers

CONSTANT BoardSize   \* board.size of the signed terms

(* Board.__init__ accepts 1, and a 1x1 board has no step at all: a Thief   *)
(* on it is confined before the first turn.  The signed terms demand 7 or  *)
(* more (shared/agreement.py); 2 is the least size with a legal step.      *)
ASSUME BoardSizeAssumption == BoardSize \in Nat /\ BoardSize >= 2

Coordinates == 0 .. BoardSize - 1

(* The cells for which Board.in_bounds holds. *)
Cells == Coordinates \X Coordinates

Directions == {"N", "S", "E", "W"}

Delta(direction) ==
  CASE direction = "N" -> <<-1, 0>>
    [] direction = "S" -> <<1, 0>>
    [] direction = "E" -> <<0, 1>>
    [] OTHER           -> <<0, -1>>

(* The cell one step away, on the board or not. *)
Neighbor(origin, direction) ==
  <<origin[1] + Delta(direction)[1], origin[2] + Delta(direction)[2]>>

(* Board.step answers a cell exactly when its target is one of these. *)
LegalMoves(origin, barriers) ==
  {Neighbor(origin, d) : d \in Directions} \cap (Cells \ barriers)

(* OwnGameState.is_confined and GameRules.confinement_capture. *)
IsConfined(position, barriers) == LegalMoves(position, barriers) = {}

(* A faulty variant: confinement is forgotten. *)
Covered(position, barrier, known) == position \in barrier

(* GameRules.barrier_captures on a new barrier, or no step left beside all   *)
(* the barriers known by then.                                               *)
Trapped(position, barrier, known) ==
  position \in barrier \/ IsConfined(position, known)

=============================================================================
