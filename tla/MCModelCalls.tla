---------------------------- MODULE MCModelCalls ----------------------------
(* An instance of ModelCalls for TLC, and bounded checks of Senses and         *)
(* Candidates, the latter on a board of its own, where zones differ.           *)
EXTENDS ModelCalls, Senses

C == INSTANCE Candidates WITH BoardSize <- 3

Corner == <<0, 0>>

(* round(0.9 * exp(-(r^2 + c^2) / (2 * 1.15^2)), 3), in thousandths. *)
ShippedKernel ==
  LET row(a, b, c) == [i \in 0 .. 2 |-> CASE i = 0 -> a [] i = 1 -> b [] OTHER -> c]
      kernel == << row(900, 617, 198), row(617, 423, 136), row(198, 136, 44) >>
  IN [i \in 0 .. 2 |-> kernel[i + 1]]

(* One message of the Police, folded into every belief: mass is left, and the  *)
(* cell it has come to is among what is likely.                                *)
ASSUME MessageSample ==
  \A likely \in Beliefs, zone \in HintZones \cup {"none"},
     barrier \in {{}} \cup {{c} : c \in Cells}, here \in {Corner, <<0, 1>>}, decided \in BOOLEAN :
    \A faint \in Faints(likely) : \A after \in Process(likely, faint, zone, barrier, here, decided) :
      /\ after \in Beliefs
      /\ \A police \in likely \ faint : \A there \in Near(police) \ barrier :
           (decided \/ there # here) => there \in after

(* Twelve emissions of a Thief that stays where it is, and twelve fadings of   *)
(* what it has left: 0.9 there each time, and less each time.                  *)
Fade[n \in 0 .. 12] == IF n = 0 THEN {900} ELSE UNION {Faded(v) : v \in Fade[n - 1]}

ASSUME TrailSample ==
  /\ \A c \in Cells : Deposit([d \in Cells |-> 0], c)[c] = Emit
  /\ \A n \in 1 .. 12 : \A v \in Fade[n] : v < 900 - 30 * n /\ v > 200

(* Wherever the Thief and the Police are and one or two barriers stand: each    *)
(* brain takes a legal step, the shipped one never a nearer one than another;   *)
(* the ids of the actions are the first numbers, each once; a shortlist of four *)
(* is everything; and the claim of the fallback is never true.                  *)
Peaked(cell) == [c \in C!Cells |-> IF c = cell THEN Peak ELSE 0]

Walls == {{}} \cup {{b, c} : b, c \in C!Cells}

ASSUME CandidateSample ==
  \A here, police \in C!Cells, walls \in Walls : here \notin walls =>
    LET belief == Peaked(police)
        steps == C!LegalMoves(here, walls)
        offered == C!Offered(here, walls)
        id(c) == C!ActionIndex(c, here, walls, {here}, belief)
    IN /\ C!MostLikely(belief) = police
       /\ steps # {} =>
            LET pick == C!ThiefPick(here, walls, {here}, belief)
            IN /\ pick \in steps /\ C!MobilityPick(here, walls, {here}, belief) \in steps
               /\ \A c \in steps : C!Distance(c, police) <= C!Distance(pick, police)
       /\ {id(c) : c \in offered} = 0 .. Cardinality(offered) - 1
       /\ C!Shortlist(4, here, walls, {here}, belief) = offered
       /\ C!Verdict(C!BestClaim(here, belief), here) = "lie"
=============================================================================
