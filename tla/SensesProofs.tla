---------------------------- MODULE SensesProofs ----------------------------
(***************************************************************************)
(* The pheromone field and the belief, for every board, decay, kernel and  *)
(* hint.                                                                   *)
(***************************************************************************)
EXTENDS Senses, TLAPS

LEMMA KernelBound ==
  ASSUME NEW r \in 0 .. Half, NEW k \in 0 .. Half
  PROVE  Kernel[r][k] \in 0 .. 1000 /\ Kernel[r][k] <= Emit /\ Emit \in 0 .. 1000 /\ 0 \in 0 .. Half
<1>1. Half \in Nat /\ 0 \in 0 .. Half
  BY SensesAssumption
<1> DEFINE D == 0 .. Half  V == 0 .. 1000
<1>c. Kernel \in [D -> [D -> V]]
  BY SensesAssumption
<1>d. r \in D /\ k \in D /\ 0 \in D
  BY <1>1
<1> HIDE DEF D, V
<1>2. Kernel \in [D -> [D -> V]] /\ r \in D /\ k \in D /\ 0 \in D
  BY <1>c, <1>d
<1>a. Kernel[r] \in [D -> V] /\ Kernel[0] \in [D -> V]
  BY <1>2
<1>b. Kernel[r][k] \in V /\ Kernel[0][0] \in V
  BY <1>2, <1>a
<1>3. Kernel[r][k] \in 0 .. 1000 /\ Kernel[0][0] \in 0 .. 1000
  BY <1>b DEF V
<1>4. Kernel[r][k] <= Kernel[0][0]
  BY SensesAssumption
<1>5. Emit = Kernel[0][0]
  BY DEF Emit
<1> HIDE DEF Emit
<1> QED
  BY ONLY <1>1, <1>3, <1>4, <1>5

LEMMA EmitBound == Emit \in 0 .. 1000 /\ 0 \in 0 .. Half
<1>1. 0 \in 0 .. Half
  BY SensesAssumption
<1> QED
  BY <1>1, KernelBound

(* The factor of a decay keeps a product of integers. *)
LEMMA DecayRange == Decay \in 0 .. 1000 /\ Half \in Nat /\ 0 \in 0 .. Half
BY SensesAssumption

(* "The current cell is always at the agreed centre intensity" (scent.py): if *)
(* no trace was stronger than an emission, none is after the next one, and    *)
(* the one at the centre is exactly as strong.                                *)
THEOREM FreshestIsHere ==
  ASSUME NEW old \in Fields, \A c \in Cells : old[c] <= Emit,
         NEW center \in Cells, NEW new, Emission(old, center, new)
  PROVE  new \in Fields /\ new[center] = Emit /\ \A c \in Cells : new[c] <= Emit
<1>1. PICK faded \in Fields : DecayAll(old, faded) /\ new = Deposit(faded, center)
  BY DEF Emission
<1>2. Emit \in 0 .. 1000 /\ 0 \in 0 .. Half
  BY EmitBound
<1>3. \A c \in Cells : old[c] \in 0 .. 1000 /\ faded[c] \in 0 .. 1000
  BY DEF Fields
<1>4. \A c \in Cells : faded[c] <= Emit
  <2> SUFFICES ASSUME NEW c \in Cells PROVE faded[c] <= Emit
    OBVIOUS
  <2>1. PICK w \in Faded(old[c]) : faded[c] = IF w >= TraceFloor THEN w ELSE 0
    BY <1>1 DEF DecayAll
  <2>2. w \in 0 .. old[c]
    BY <2>1 DEF Faded
  <2> DEFINE v == old[c]  x == faded[c]
  <2>3. v \in 0 .. 1000 /\ v <= Emit
    BY <1>3
  <2>4. w \in 0 .. v /\ x = IF w >= TraceFloor THEN w ELSE 0
    BY <2>1, <2>2
  <2> HIDE DEF v, x
  <2>5. x <= Emit
    BY <1>2, <2>3, <2>4
  <2> QED
    BY <2>5 DEF x
<1>5. \A c \in Cells : c[1] \in Nat /\ c[2] \in Nat
  BY BoardSizeAssumption DEF Cells, Coordinates
<1>6. \A c \in Cells : Radial(center, c) \in 0 .. 1000 /\ Radial(center, c) <= Emit
  <2> SUFFICES ASSUME NEW c \in Cells PROVE Radial(center, c) \in 0 .. 1000 /\ Radial(center, c) <= Emit
    OBVIOUS
  <2> DEFINE r == Apart(c[1], center[1])  k == Apart(c[2], center[2])  v == Radial(center, c)
  <2>1. r \in Nat /\ k \in Nat
    BY <1>5 DEF Apart
  <2>2. v = IF r <= Half /\ k <= Half THEN Kernel[r][k] ELSE 0
    BY DEF Radial
  <2> HIDE DEF r, k, v
  <2>3. CASE r <= Half /\ k <= Half
    <3>1. r \in 0 .. Half /\ k \in 0 .. Half
      BY <2>1, <2>3, DecayRange
    <3>2. Kernel[r][k] \in 0 .. 1000 /\ Kernel[r][k] <= Emit
      BY <3>1, KernelBound
    <3>3. v = Kernel[r][k]
      BY <2>2, <2>3
    <3> QED
      BY <3>2, <3>3 DEF v
  <2>4. CASE ~(r <= Half /\ k <= Half)
    <3>1. v = 0
      BY <2>2, <2>4
    <3>2. v \in 0 .. 1000 /\ v <= Emit
      BY <1>2, <3>1
    <3> QED
      BY <3>2 DEF v
  <2> QED
    BY <2>3, <2>4
<1>7. Radial(center, center) = Emit
  BY <1>5, SensesAssumption DEF Radial, Apart, Emit
<1>8. \A c \in Cells : new[c] = IF faded[c] >= Radial(center, c) THEN faded[c] ELSE Radial(center, c)
  BY <1>1 DEF Deposit
<1>9. new[center] = Emit
  <2> DEFINE x == faded[center]
  <2>1. x <= Emit /\ x \in 0 .. 1000 /\ new[center] = IF x >= Emit THEN x ELSE Emit
    BY <1>3, <1>4, <1>7, <1>8
  <2> HIDE DEF x
  <2> QED
    BY <1>2, <2>1
<1>10. \A c \in Cells : new[c] \in 0 .. 1000 /\ new[c] <= Emit
  BY <1>3, <1>4, <1>6, <1>8
<1>11. new \in Fields
  BY <1>1, <1>3, <1>6 DEF Fields, Deposit
<1> QED
  BY <1>9, <1>10, <1>11

(* Every trace grows fainter each turn if the decay is more than half a       *)
(* thousandth of the faintest one, five in a hundred (scent.py, decay_all).   *)
THEOREM TrailFades ==
  ASSUME NEW old \in Fields, NEW new, DecayAll(old, new), NEW c \in Cells, old[c] > 0, Decay > 50
  PROVE  new[c] < old[c]
<1>1. PICK w \in Faded(old[c]) : new[c] = IF w >= TraceFloor THEN w ELSE 0
  BY DEF DecayAll
<1> DEFINE v == old[c]
<1>2. v \in 0 .. 1000 /\ w \in 0 .. v /\ 1000 * w - v * (1000 - Decay) <= 500 /\ Decay \in 0 .. 1000
  <2>1. v \in 0 .. 1000
    BY DEF Fields
  <2>2. w \in 0 .. v /\ 1000 * w - v * (1000 - Decay) <= 500
    BY <1>1 DEF Faded
  <2> QED
    BY <2>1, <2>2, DecayRange
<1> HIDE DEF v
<1>3. CASE w < v
  BY <1>1, <1>2, <1>3 DEF v
<1>4. CASE w = v /\ v >= TraceFloor
  <2>1. v * Decay >= 10 * 51
    BY <1>2, <1>4 DEF TraceFloor
  <2>2. 1000 * v - v * (1000 - Decay) = v * Decay
    BY <1>2
  <2> QED
    BY <1>2, <1>4, <2>1, <2>2
<1>5. CASE w = v /\ v < TraceFloor
  BY <1>1, <1>2, <1>5 DEF v, TraceFloor
<1> QED
  BY <1>2, <1>3, <1>4, <1>5 DEF TraceFloor

(* With a weaker decay a trace stays for ever where it is, although it is     *)
(* faint: rounding gives back what it loses (scent.py, decay_all: "remove     *)
(* imperceptible dust").                                                      *)
THEOREM FaintTrailStays ==
  ASSUME NEW old \in Fields, NEW new, DecayAll(old, new), NEW c \in Cells,
         old[c] >= TraceFloor, old[c] * Decay < 500
  PROVE  new[c] = old[c]
<1>1. PICK w \in Faded(old[c]) : new[c] = IF w >= TraceFloor THEN w ELSE 0
  BY DEF DecayAll
<1> DEFINE v == old[c]
<1>2. /\ v \in 0 .. 1000 /\ w \in 0 .. v /\ v * (1000 - Decay) - 1000 * w <= 500 /\ Decay \in 0 .. 1000
      /\ v >= TraceFloor /\ v * Decay < 500
  <2>1. v \in 0 .. 1000 /\ v >= TraceFloor /\ v * Decay < 500
    BY DEF Fields
  <2>2. w \in 0 .. v /\ -(1000 * w - v * (1000 - Decay)) <= 500
    BY <1>1 DEF Faded
  <2> HIDE DEF v
  <2>3. v * (1000 - Decay) \in Int /\ 1000 * w \in Int /\ Decay \in 0 .. 1000
    BY <2>1, <2>2, DecayRange
  <2>4. v * (1000 - Decay) - 1000 * w <= 500
    <3> DEFINE m == v * (1000 - Decay)
    <3>1. m \in Int /\ -(1000 * w - m) <= 500
      BY <2>2, <2>3
    <3> HIDE DEF m
    <3>2. m - 1000 * w <= 500
      BY <2>3, <3>1
    <3> QED
      BY <3>2 DEF m
  <2> QED
    BY <2>1, <2>2, <2>3, <2>4
<1> HIDE DEF v
<1>3. v * (1000 - Decay) = 1000 * v - v * Decay /\ v * Decay \in Int
  BY <1>2
<1>4. 1000 * (v - w) < 1000
  BY <1>2, <1>3
<1>5. w = v
  BY <1>2, <1>4
<1> QED
  BY <1>1, <1>2, <1>5 DEF v

-----------------------------------------------------------------------------
(* A hint makes no cell more than twice as likely as another, and none        *)
(* impossible (hints.py, whose bound of a quarter is never needed).           *)
THEOREM HintsAreSoft ==
  ASSUME NEW zone \in HintZones, NEW c \in Cells
  PROVE  Likelihood(zone, c) \in 2 * (BoardSize - 1) .. 4 * (BoardSize - 1) /\ Likelihood(zone, c) > 0
<1> DEFINE last == BoardSize - 1
<1>1. last \in Nat /\ last >= 1 /\ c[1] \in 0 .. last /\ c[2] \in 0 .. last
  BY BoardSizeAssumption DEF Cells, Coordinates
<1> HIDE DEF last
<1>2. Apart(2 * c[1], last) \in 0 .. last /\ Apart(2 * c[2], last) \in 0 .. last
  BY <1>1 DEF Apart
<1>3. Likelihood(zone, c) = CASE zone = "north"  -> 2 * (last + last - c[1])
       [] zone = "south"  -> 2 * (last + c[1])
       [] zone = "east"   -> 2 * (last + c[2])
       [] zone = "west"   -> 2 * (last + last - c[2])
       [] zone = "center" -> 4 * last - Apart(2 * c[1], last) - Apart(2 * c[2], last)
  BY DEF Likelihood, last
<1>4. Likelihood(zone, c) \in 2 * last .. 4 * last
  BY <1>1, <1>2, <1>3 DEF HintZones
<1> QED
  BY <1>1, <1>4 DEF last

LEMMA CellsShape ==
  ASSUME NEW c \in Cells
  PROVE  /\ c = <<c[1], c[2]>> /\ c[1] \in 0 .. BoardSize - 1 /\ c[2] \in 0 .. BoardSize - 1
         /\ BoardSize \in Nat /\ BoardSize >= 2
BY BoardSizeAssumption DEF Cells, Coordinates

(* There are always two other cells near a cell. *)
LEMMA ThreeAreNear ==
  ASSUME NEW c \in Cells
  PROVE  \E d, e \in Near(c) : d # e /\ d # c /\ e # c /\ c \in Near(c)
<1> DEFINE d == IF c[1] > 0 THEN <<c[1] - 1, c[2]>> ELSE <<c[1] + 1, c[2]>>
           e == IF c[2] > 0 THEN <<c[1], c[2] - 1>> ELSE <<c[1], c[2] + 1>>
<1>1. c = <<c[1], c[2]>> /\ c[1] \in 0 .. BoardSize - 1 /\ c[2] \in 0 .. BoardSize - 1 /\ BoardSize \in Nat /\ BoardSize >= 2
  BY CellsShape
<1>2. d \in Cells /\ e \in Cells
  BY <1>1 DEF Cells, Coordinates
<1>3. /\ Apart(c[1], d[1]) + Apart(c[2], d[2]) = 1 /\ Apart(c[1], e[1]) + Apart(c[2], e[2]) = 1
      /\ Apart(c[1], c[1]) + Apart(c[2], c[2]) = 0
  BY <1>1 DEF Apart
<1>4. d # c /\ e # c /\ d # e
  <2>1. d[1] # c[1] /\ e[1] = c[1] /\ e[2] # c[2]
    BY <1>1
  <2> HIDE DEF d, e
  <2> QED
    BY <2>1
<1> HIDE DEF d, e
<1>5. d \in Near(c) /\ e \in Near(c) /\ c \in Near(c)
  BY <1>2, <1>3 DEF Near
<1> QED
  BY <1>4, <1>5

(* What a message leaves likely before anything is ruled out. *)
LEMMA SensedIs ==
  ASSUME NEW likely \in Beliefs, NEW faint \in Faints(likely), NEW zone
  PROVE  /\ Leaks => Sensed(likely, faint, zone) = Cells
         /\ \A c \in likely \ faint : Near(c) \subseteq Sensed(likely, faint, zone)
         /\ likely \ faint # {}
<1>1. likely \ faint # {} /\ likely \subseteq Cells
  <2>1. likely # {} /\ likely \subseteq Cells
    BY DEF Beliefs
  <2>2. faint \subseteq likely /\ faint # likely
    BY <2>1 DEF Faints
  <2> QED
    BY <2>1, <2>2
<1>2. <<0, 0>> \in Cells
  BY BoardSizeAssumption DEF Cells, Coordinates
<1>3. \A c \in Cells : Near(c) \subseteq Cells /\ c \in Near(c)
  BY ThreeAreNear DEF Near
<1>4. \A s : s \subseteq Cells /\ s # {} => ObserveLikelihoods(s, zone) = s
  <2> SUFFICES ASSUME NEW s, s \subseteq Cells, s # {} PROVE ObserveLikelihoods(s, zone) = s
    OBVIOUS
  <2>1. zone \in HintZones => {c \in s : Likelihood(zone, c) > 0} = s
    BY HintsAreSoft
  <2> QED
    BY <2>1 DEF ObserveLikelihoods, Normalized
<1> DEFINE spread == {d \in Cells : \E c \in likely \ faint : d \in Near(c)}
<1>5. spread # {} /\ spread \subseteq Cells /\ \A c \in likely \ faint : Near(c) \subseteq spread
  BY <1>1, <1>3
<1>6. Diffuse(likely, faint) = spread
  BY <1>5 DEF Diffuse, Normalized
<1> HIDE DEF spread
<1>7. ObserveSmell(spread) = IF Leaks THEN Cells ELSE spread
  BY <1>5 DEF ObserveSmell, Normalized
<1>8. Sensed(likely, faint, zone) = IF Leaks THEN Cells ELSE spread
  BY <1>2, <1>4, <1>5, <1>6, <1>7 DEF Sensed
<1> QED
  BY <1>1, <1>3, <1>5, <1>8

-----------------------------------------------------------------------------
(* What a message rules out, a barrier and the own cell, is never all that    *)
(* was likely: the belief is not thrown away for want of mass (belief.py,     *)
(* _normalize).                                                               *)
THEOREM ExclusionLeavesMass ==
  ASSUME NEW likely \in Beliefs, NEW faint \in Faints(likely), NEW zone,
         NEW barrier, NEW own
  PROVE  Sensed(likely, faint, zone) \ {barrier, own} # {}
<1>1. PICK c \in likely \ faint : Near(c) \subseteq Sensed(likely, faint, zone)
  BY SensedIs
<1>2. c \in Cells
  BY DEF Beliefs
<1>3. PICK d, e \in Near(c) : d # e /\ d # c /\ e # c /\ c \in Near(c)
  BY <1>2, ThreeAreNear
<1> QED
  BY <1>1, <1>3

(* The belief holds on to the truth: if the Police was at a likely cell and   *)
(* took a legal step, its new cell is likely, unless it stands on the barrier *)
(* it has placed or, unclaimed, on the Thief (turn_handler.py, process).      *)
THEOREM TruthIsKept ==
  ASSUME NEW likely \in Beliefs, NEW faint \in Faints(likely), NEW zone,
         NEW barrier \in SUBSET Cells, NEW own \in Cells, NEW decided \in BOOLEAN,
         NEW police \in likely \ faint, NEW there \in Near(police),
         there \notin barrier, decided \/ there # own,
         NEW after \in Process(likely, faint, zone, barrier, own, decided)
  PROVE  there \in after
<1>1. there \in Sensed(likely, faint, zone) /\ there \in Cells
  BY SensedIs DEF Near
<1>2. \A s, x, t : there \in s /\ there \notin x /\ t \in Exclude(s, x) => there \in t
  BY <1>1 DEF Exclude, Normalized
<1>3. PICK told \in Exclude(Sensed(likely, faint, zone), barrier) :
        after \in IF decided THEN {told} ELSE Exclude(told, {own})
  BY DEF Process
<1>4. there \in told
  BY <1>1, <1>2, <1>3
<1> QED
  BY <1>2, <1>3, <1>4

(* With the leak, nothing else is remembered: after a message every cell but  *)
(* its barrier and the own cell is likely, the earlier barriers among them,   *)
(* which the Police cannot enter (belief.py, diffuse and _leak_toward_uniform). *)
THEOREM OnlyTheLastIsRuledOut ==
  ASSUME Leaks, NEW likely \in Beliefs, NEW faint \in Faints(likely), NEW zone,
         NEW cell \in Cells, NEW own \in Cells
  PROVE  /\ Process(likely, faint, zone, {cell}, own, FALSE) = {Cells \ {cell, own}}
         /\ Process(likely, faint, zone, {}, own, FALSE) = {Cells \ {own}}
<1>1. Sensed(likely, faint, zone) = Cells
  BY SensedIs
<1>2. Cells \ {cell, own} # {}
  BY <1>1, ExclusionLeavesMass
<1>3. Cells \ {cell} # {} /\ Cells \ {own} # {} /\ (Cells \ {cell}) \ {own} = Cells \ {cell, own}
  BY <1>2
<1>4. /\ Exclude(Cells, {cell}) = {Cells \ {cell}} /\ Exclude(Cells, {}) = {Cells}
      /\ Exclude(Cells \ {cell}, {own}) = {Cells \ {cell, own}} /\ Exclude(Cells, {own}) = {Cells \ {own}}
  BY <1>2, <1>3 DEF Exclude, Normalized
<1>5. Process(likely, faint, zone, {cell}, own, FALSE) = {Cells \ {cell, own}}
  <2>1. {IF FALSE THEN {told} ELSE Exclude(told, {own}) : told \in {Cells \ {cell}}} = {{Cells \ {cell, own}}}
    BY <1>4
  <2> QED
    BY <1>1, <1>4, <2>1 DEF Process
<1>6. Process(likely, faint, zone, {}, own, FALSE) = {Cells \ {own}}
  <2>1. {IF FALSE THEN {told} ELSE Exclude(told, {own}) : told \in {Cells}} = {{Cells \ {own}}}
    BY <1>4
  <2> QED
    BY <1>1, <1>4, <2>1 DEF Process
<1> QED
  BY <1>5, <1>6

=============================================================================
