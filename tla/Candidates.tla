----------------------------- MODULE Candidates -----------------------------
(***************************************************************************)
(* What the Thief may choose from, and how it is ranked: the steps of the  *)
(* shipped brain (domain/brains.py), of the example brain                  *)
(* (strategy/team_strategy.py) and of the shortlist shown to a model       *)
(* (strategy/action_candidates.py), and the claims a hint may make         *)
(* (strategy/hint_candidates.py).                                          *)
(*                                                                         *)
(* A step is written as its target cell: from one cell, direction and      *)
(* target determine each other.  A belief is a weight for every cell, in   *)
(* hundredths; the code's weights are floats.  Scores are scaled to        *)
(* integers.                                                               *)
(***************************************************************************)
EXTENDS Board, FiniteSets

Abs(i) == IF i < 0 THEN -i ELSE i

(* Board.distance. *)
Distance(a, b) == Abs(a[1] - b[1]) + Abs(a[2] - b[2])

(* BeliefGrid.most_likely: the first cell, row by row, of the greatest weight. *)
Before(a, b) == a[1] < b[1] \/ (a[1] = b[1] /\ a[2] < b[2])

MostLikely(belief) ==
  CHOOSE c \in Cells : \A d \in Cells \ {c} :
    belief[d] < belief[c] \/ (belief[d] = belief[c] /\ Before(c, d))

(* _reachable_area: cells within so many steps; no path without a repeated   *)
(* cell is longer than the board has cells.                                  *)
Within[n \in Nat, start \in Cells, barriers \in SUBSET Cells] ==
  IF n = 0 THEN {start}
  ELSE LET near == Within[n - 1, start, barriers]
       IN near \cup UNION {LegalMoves(c, barriers) : c \in near}

ReachableArea(start, barriers) ==
  Cardinality(Within[BoardSize * BoardSize, start, barriers])

Unvisited(c, visited) == IF c \in visited THEN 0 ELSE 1

-----------------------------------------------------------------------------
(* The best of a set of targets under keys compared place by place; the      *)
(* first in the order of Direction wins a tie, as max() has it.              *)
DirectionRank(position, target) ==
  CASE target = Neighbor(position, "N") -> 1
    [] target = Neighbor(position, "S") -> 2
    [] target = Neighbor(position, "E") -> 3
    [] OTHER                            -> 4

Above(key, other) ==
  \E i \in DOMAIN key : key[i] > other[i] /\ \A j \in 1 .. i - 1 : key[j] = other[j]

Best(position, targets, key) ==
  CHOOSE c \in targets : \A d \in targets \ {c} :
    \/ Above(key[c], key[d])
    \/ key[c] = key[d] /\ DirectionRank(position, c) < DirectionRank(position, d)

(* ThiefBrain._pick_move and MobilityThiefBrain._pick_move. *)
ThiefPick(position, barriers, visited, belief) ==
  LET steps == LegalMoves(position, barriers) IN
  Best(position, steps,
       [c \in steps |-> <<Distance(c, MostLikely(belief)), Unvisited(c, visited)>>])

MobilityPick(position, barriers, visited, belief) ==
  LET steps == LegalMoves(position, barriers) IN
  Best(position, steps,
       [c \in steps |-> <<Distance(c, MostLikely(belief)), -belief[c],
                         ReachableArea(c, barriers), Unvisited(c, visited), -c[1], -c[2]>>])

(* BrainBase._decide_move: to hold is to stay where one is. *)
Heuristic(position, barriers, visited, belief) ==
  IF IsConfined(position, barriers) THEN position
  ELSE ThiefPick(position, barriers, visited, belief)

-----------------------------------------------------------------------------
(* _thief_candidate: hundredths of the utility. *)
Utility(c, barriers, visited, belief) ==
  400 * Distance(c, MostLikely(belief)) + 15 * ReachableArea(c, barriers)
    + 150 * Unvisited(c, visited) - 20 * belief[c]

(* A faulty variant: the neighbours are offered with no look at the barriers. *)
OfferedPastBarriers(position, barriers) ==
  {Neighbor(position, d) : d \in Directions} \cap Cells

(* What ranked_candidates ranks: every legal step, or to hold. *)
Offered(position, barriers) ==
  IF IsConfined(position, barriers) THEN {position} ELSE LegalMoves(position, barriers)

(* By falling utility, then by the letter of the direction: E, N, S, W.      *)
Letter(position, target) ==
  CASE target = Neighbor(position, "E") -> 1
    [] target = Neighbor(position, "N") -> 2
    [] target = Neighbor(position, "S") -> 3
    [] OTHER                            -> 4

(* The index of an action_id: how many candidates are ranked before it. *)
ActionIndex(c, position, barriers, visited, belief) ==
  LET worth(d) == Utility(d, barriers, visited, belief) IN
  Cardinality({d \in Offered(position, barriers) :
    worth(d) > worth(c) \/ (worth(d) = worth(c) /\ Letter(position, d) < Letter(position, c))})

(* LlmTactics.choose keeps the best few; the size is clamped to 1 .. 4. *)
Shortlist(size, position, barriers, visited, belief) ==
  {c \in Offered(position, barriers) :
     ActionIndex(c, position, barriers, visited, belief) < size}

-----------------------------------------------------------------------------
Zones == {"north", "south", "east", "west", "center"}

(* _zone_of, over twice the distance from the midpoint. *)
ZoneOf(c) ==
  LET down == 2 * c[1] - (BoardSize - 1)
      right == 2 * c[2] - (BoardSize - 1)
  IN CASE Abs(down) < 2 /\ Abs(right) < 2 -> "center"
       [] ~(Abs(down) < 2 /\ Abs(right) < 2) /\ Abs(down) >= Abs(right) ->
            IF down > 0 THEN "south" ELSE "north"
       [] OTHER -> IF right > 0 THEN "east" ELSE "west"

(* _zone_cell: the cell a claim points at. *)
ZoneCell(zone) ==
  LET edge == BoardSize - 1
      middle == (BoardSize - 1) \div 2
  IN CASE zone = "north" -> <<0, middle>>
       [] zone = "south" -> <<edge, middle>>
       [] zone = "east"  -> <<middle, edge>>
       [] zone = "west"  -> <<middle, 0>>
       [] OTHER          -> <<middle, middle>>

(* ranked_hint_candidates: the label of a claim is decided from the private  *)
(* position.                                                                 *)
Verdict(zone, position) == IF zone = ZoneOf(position) THEN "truth" ELSE "lie"

(* _thief_score in quarters: how far the claim lures the Police away. *)
ClaimScore(zone, position, belief) ==
  20 * Distance(position, ZoneCell(zone)) - Distance(MostLikely(belief), ZoneCell(zone))
    + (IF Verdict(zone, position) = "lie" THEN 8 ELSE 0)

ZoneOrder(zone) ==
  CASE zone = "center" -> 1 [] zone = "east" -> 2 [] zone = "north" -> 3
    [] zone = "south" -> 4 [] OTHER -> 5

(* The claim ranked first, which the deterministic fallback makes. *)
BestClaim(position, belief) ==
  LET worth(z) == ClaimScore(z, position, belief) IN
  CHOOSE z \in Zones : \A y \in Zones \ {z} :
    worth(z) > worth(y) \/ (worth(z) = worth(y) /\ ZoneOrder(z) < ZoneOrder(y))

=============================================================================
