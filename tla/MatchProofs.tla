---------------------------- MODULE MatchProofs ----------------------------
(***************************************************************************)
(* The two ends of a match.  Before it: what the checks and the handshake  *)
(* establish for every configuration of two peers, and what they leave     *)
(* open.  While it lasts: what a match that is driven through the          *)
(* protocol's state machine has behind it.  After it: what the signed      *)
(* result of a series says, and how the files of the series hang together, *)
(* for every series of at most six sub-games and, where it does not        *)
(* matter, every agreed table.                                             *)
(***************************************************************************)
EXTENDS Agreement, Lifecycle, Report, FiniteSetTheorems, SequenceTheorems, TLAPS

(* The handshake: the ids do not depend on whose is which. *)
LEMMA SortedSymmetric ==
  ASSUME NEW a \in Int, NEW b \in Int
  PROVE  Sorted(a, b) = Sorted(b, a)
BY DEF Sorted

(***************************************************************************)
(* If each of two peers has verified the other's message, then they play   *)
(* by the same terms and under the same game id and uid, whatever the rest *)
(* of their configurations: derive_game_ids needs no further message       *)
(* (negotiate, Negotiation.verify_peer).                                   *)
(***************************************************************************)
THEOREM BothAgree ==
  ASSUME NEW mine \in Privates, NEW theirs \in Privates, NEW m, NEW n,
         Verifies(mine, Signed(theirs, n)), Verifies(theirs, Signed(mine, m))
  PROVE  /\ Terms(mine) = Terms(theirs)
         /\ IdsAfter(mine, Signed(theirs, n)) = IdsAfter(theirs, Signed(mine, m))
<1>1. Terms(mine) = Terms(theirs)
  BY DEF Verifies, Signed
<1>2. /\ mine["group_id"] \in Int /\ theirs["group_id"] \in Int
  BY DEF Privates, Keys, Values, Missing
<1>3. GroupOf(mine["group_id"]) \in Int /\ GroupOf(theirs["group_id"]) \in Int
  BY <1>2 DEF GroupOf
<1>4. Sorted(GroupOf(mine["group_id"]), GroupOf(theirs["group_id"]))
        = Sorted(GroupOf(theirs["group_id"]), GroupOf(mine["group_id"]))
  BY <1>3, SortedSymmetric
<1>5. /\ Signed(theirs, n).identity = theirs["group_id"]
      /\ Signed(mine, m).identity = mine["group_id"]
  BY DEF Signed
<1>. QED
  BY <1>1, <1>4, <1>5 DEF IdsAfter, GameIds

(***************************************************************************)
(* The identity is not signed: replaced on the way, the message verifies   *)
(* all the same.                                                           *)
(***************************************************************************)
THEOREM IdentityIsNotSigned ==
  ASSUME NEW mine, NEW theirs, NEW n, NEW other
  PROVE  Verifies(mine, [Signed(theirs, n) EXCEPT !.identity = other])
           <=> Verifies(mine, Signed(theirs, n))
BY DEF Verifies, Signed

-----------------------------------------------------------------------------
LEMMA MergedOnShared ==
  ASSUME NEW private, NEW shared, NEW k \in DOMAIN Source, shared[Source[k]] # Missing
  PROVE  Merged(private, shared)[k] = shared[Source[k]]
BY DEF Merged, Keys

(* A change of one shared setting shows in what is made of it only. *)
LEMMA MergedElsewhere ==
  ASSUME NEW private, NEW shared \in Shareds, NEW s \in SharedKeys, NEW t,
         NEW k \in Keys, k \in DOMAIN Source => Source[k] # s
  PROVE  Merged(private, [shared EXCEPT ![s] = t])[k] = Merged(private, shared)[k]
<1>. DEFINE other == [shared EXCEPT ![s] = t]
<1>1. k \in DOMAIN Source => other[Source[k]] = shared[Source[k]]
  BY DEF Shareds, SharedKeys
<1>. HIDE DEF other
<1>2. Merged(private, other)[k] = Merged(private, shared)[k]
  BY <1>1 DEF Merged
<1>. QED
  BY <1>2 DEF other

LEMMA TermsAreSettings == TermKeys \subseteq Keys
BY DEF TermKeys, Default, Keys, Source

LEMMA TermsOfEqual ==
  ASSUME NEW a, NEW b, \A k \in TermKeys : a[k] = b[k]
  PROVE  Terms(a) = Terms(b)
BY DEF Terms

LEMMA ThresholdIsNoTerm ==
  \A k \in TermKeys : k \in DOMAIN Source => Source[k] # "survival_threshold"
BY DEF TermKeys, Default, Source

(***************************************************************************)
(* The survival threshold is no term: two peers whose files differ in it,  *)
(* and in nothing else, each pass validate_agreement and verify each       *)
(* other's messages, so one of them may end a game as survived that the    *)
(* other plays on (terms_from_config).                                     *)
(***************************************************************************)
THEOREM ThresholdMayDiffer ==
  ASSUME NEW private \in Privates, NEW shared \in Shareds, NEW t \in Nat, t >= 35,
         AgreementOk(private, shared), SharedOk(shared), NEW m, NEW n
  PROVE  LET other == [shared EXCEPT !["survival_threshold"] = t]
             mine == Merged(private, shared)
             theirs == Merged(private, other)
         IN /\ AgreementOk(private, other)
            /\ theirs["survival_threshold"] = t
            /\ Verifies(mine, Signed(theirs, n)) /\ Verifies(theirs, Signed(mine, m))
<1>. DEFINE other == [shared EXCEPT !["survival_threshold"] = t]
            mine == Merged(private, shared)
            theirs == Merged(private, other)
<1>1. "survival_threshold" \in SharedKeys /\ "survival_threshold" \in DOMAIN Source
      /\ Source["survival_threshold"] = "survival_threshold"
  BY DEF SharedKeys, Source
<1>2. other["survival_threshold"] = t /\ t # Missing
  BY <1>1 DEF Shareds, Missing
<1>3. theirs["survival_threshold"] = t
  <2>. HIDE DEF other
  <2>. QED  BY <1>1, <1>2, MergedOnShared
<1>4. \A k \in Keys : (k \in DOMAIN Source => Source[k] # "survival_threshold")
                        => theirs[k] = mine[k]
  BY <1>1, MergedElsewhere
<1>5. \A s \in SharedKeys : s # "survival_threshold" => other[s] = shared[s]
  BY DEF Shareds
<1>. HIDE DEF other, mine, theirs
<1>6. Terms(theirs) = Terms(mine)
  <2>1. \A k \in TermKeys : theirs[k] = mine[k]
    BY <1>4, TermsAreSettings, ThresholdIsNoTerm
  <2>. QED  BY <2>1, TermsOfEqual
<1>7. SharedOk(other)
  <2>1. /\ DOMAIN Fixed \subseteq SharedKeys \ {"survival_threshold"}
        /\ DOMAIN Least \subseteq SharedKeys
        /\ {"num_games", "llm_tactics_allowed", "contract_version"}
             \subseteq SharedKeys \ {"survival_threshold"}
    BY DEF Fixed, Least, SharedKeys, Source, Unused
  <2>2. \A s \in DOMAIN Fixed : other[s] = Fixed[s]
    BY <1>5, <2>1 DEF SharedOk
  <2>3. \A s \in DOMAIN Least : other[s] >= Least[s]
    <3>1. Least["survival_threshold"] = 35
      BY DEF Least
    <3>. QED  BY <1>2, <1>5, <2>1, <3>1 DEF SharedOk
  <2>. QED  BY <1>5, <2>1, <2>2, <2>3 DEF SharedOk
<1>8. \A k \in {"board_size", "max_steps", "thief_start", "cop_start", "opponent_url", "my_port",
               "llm_mode", "llm_tactics_allowed", "llm_contract_version"} : theirs[k] = mine[k]
  <2>1. \A k \in {"board_size", "max_steps", "thief_start", "cop_start", "opponent_url", "my_port",
                  "llm_mode", "llm_tactics_allowed", "llm_contract_version"} :
          k \in Keys /\ (k \in DOMAIN Source => Source[k] # "survival_threshold")
    BY DEF Keys, Source
  <2>. QED  BY <1>4, <2>1
<1>9. AgreementOk(private, other)
  <2>1. /\ ConfigOk(mine) /\ \A k \in REQUIRED_TERMS : Terms(mine)[k] # Missing
        /\ mine["llm_mode"] = 1 => /\ mine["llm_tactics_allowed"] \notin {0, Missing}
                                   /\ mine["llm_contract_version"] = 1
    BY DEF AgreementOk, mine
  <2>2. ConfigOk(theirs)
    BY <1>2, <1>3, <1>8, <2>1 DEF ConfigOk
  <2>3. /\ ConfigOk(theirs) /\ \A k \in REQUIRED_TERMS : Terms(theirs)[k] # Missing
        /\ theirs["llm_mode"] = 1 => /\ theirs["llm_tactics_allowed"] \notin {0, Missing}
                                     /\ theirs["llm_contract_version"] = 1
    BY <1>6, <1>8, <2>1, <2>2
  <2>. QED  BY <1>7, <2>3 DEF AgreementOk, theirs
<1>10. Verifies(mine, Signed(theirs, n)) /\ Verifies(theirs, Signed(mine, m))
  BY <1>6 DEF Verifies, Signed
<1>. QED
  BY <1>3, <1>9, <1>10 DEF other, mine, theirs

(***************************************************************************)
(* The points of an outcome cannot be changed by a private file: with a    *)
(* valid shared one the program scores by Appendix F, and a private file   *)
(* has no say in the board, the limits or the scent either                 *)
(* (validate_shared_config, deep_merge).                                   *)
(***************************************************************************)
THEOREM PrivateNeverOverrides ==
  ASSUME NEW private \in Privates, NEW shared \in Shareds, SharedOk(shared)
  PROVE  LET config == Merged(private, shared)
         IN /\ \A k \in {"capture_cop", "capture_thief", "survival_cop", "survival_thief",
                         "tie_score", "technical_loss"} : config[k] = Fixed[k]
            /\ \A k \in {"board_size", "max_steps", "survival_threshold", "barriers_max",
                         "emit_intensity", "decay_per_step", "smell_grid_size", "num_games"} :
                 config[k] = shared[Source[k]]
<1>1. \A s \in DOMAIN Fixed : shared[s] = Fixed[s] /\ shared[s] # Missing
  <2>1. \A s \in DOMAIN Fixed : Fixed[s] # Missing
    BY DEF Fixed, Missing
  <2>. QED  BY <2>1 DEF SharedOk
<1>2. \A s \in DOMAIN Least : shared[s] # Missing
  <2>1. /\ DOMAIN Least \subseteq SharedKeys
        /\ \A s \in DOMAIN Least : Least[s] \in Nat
    BY DEF Least, SharedKeys, Source, Unused
  <2>. QED  BY <2>1 DEF SharedOk, Missing
<1>3. shared["num_games"] # Missing
  BY DEF SharedOk, Missing
<1>4. \A k \in {"capture_cop", "capture_thief", "survival_cop", "survival_thief",
                "tie_score", "technical_loss"} :
        k \in DOMAIN Source /\ Source[k] = k /\ k \in DOMAIN Fixed
  BY DEF Source, Fixed
<1>5. \A k \in {"board_size", "max_steps", "survival_threshold", "barriers_max",
                "emit_intensity", "decay_per_step", "smell_grid_size", "num_games"} :
        k \in DOMAIN Source /\ Source[k] \in DOMAIN Fixed \cup DOMAIN Least \cup {"num_games"}
  BY DEF Source, Fixed, Least
<1>6. \A k \in DOMAIN Source :
        shared[Source[k]] # Missing => Merged(private, shared)[k] = shared[Source[k]]
  BY MergedOnShared
<1>. QED
  BY <1>1, <1>2, <1>3, <1>4, <1>5, <1>6

-----------------------------------------------------------------------------
(* The protocol's state machine. *)
Entries == [scope : {"match", "turn"}, state : MatchStates \cup TurnStates]

Typed == match \in MatchStates /\ history \in Seq(Entries)

LifeInv == Typed /\ NoStageSkipped

LEMMA EntriesTyped ==
  /\ \A state \in MatchStates : Entry("match", state) \in Entries
  /\ \A state \in TurnStates : Entry("turn", state) \in Entries
BY DEF Entry, Entries

LEMMA TargetsAreStates ==
  ASSUME NEW state \in DOMAIN MatchNext, NEW target \in MatchNext[state]
  PROVE  target \in MatchStates
<1>1. MatchNext[state] \subseteq DOMAIN MatchNext \cup Ended
  BY DEF MatchNext, Ended
<1>. QED
  BY <1>1 DEF MatchStates

(* The table lets a match pass by no stage. *)
LEMMA StagesInOrder ==
  ASSUME NEW state \in DOMAIN MatchNext, NEW target \in MatchNext[state]
  PROVE  Behind[target] \subseteq Behind[state] \cup {state}
BY DEF Behind, MatchNext

(* What was recorded stays recorded. *)
LEMMA RecordsStay ==
  ASSUME NEW h \in Seq(Entries), NEW g \in Seq(Entries), NEW e,
         \E i \in 1 .. Len(h) : h[i] = e
  PROVE  /\ \E i \in 1 .. Len(h \o g) : (h \o g)[i] = e
         /\ \A a \in Entries : \E i \in 1 .. Len(Append(h, a)) : Append(h, a)[i] = e
<1>1. PICK i \in 1 .. Len(h) : h[i] = e
  OBVIOUS
<1>2. i \in 1 .. Len(h \o g) /\ (h \o g)[i] = e
  <2>1. Len(h) \in Nat /\ Len(g) \in Nat
    BY LenProperties
  <2>. QED  BY <1>1, <2>1, ConcatProperties
<1>3. \A a \in Entries : i \in 1 .. Len(Append(h, a)) /\ Append(h, a)[i] = e
  <2>1. Len(h) \in Nat
    BY LenProperties
  <2>. QED  BY <1>1, <2>1, AppendProperties
<1>. QED
  BY <1>2, <1>3

LEMMA LifeInit == Init => LifeInv
<1>. SUFFICES ASSUME Init PROVE LifeInv
  OBVIOUS
<1>1. "BOOTSTRAP" \in MatchStates
  BY DEF MatchStates, MatchNext
<1>2. Typed
  BY <1>1, EntriesTyped DEF Init, Typed
<1>3. NoStageSkipped
  <2>1. Behind["BOOTSTRAP"] = {}
    BY DEF Behind
  <2>2. Len(history) = 1 /\ history[1] = Entry("match", "BOOTSTRAP")
    BY DEF Init
  <2>3. Recorded("BOOTSTRAP")
    BY <2>2 DEF Recorded
  <2>. QED  BY <2>1, <2>3 DEF NoStageSkipped, Init
<1>. QED  BY <1>2, <1>3 DEF LifeInv

(* A step of the turn leaves the stages alone. *)
LEMMA TurnKeepsStages ==
  ASSUME LifeInv, UNCHANGED match, NEW g \in Seq(Entries),
         history' = history \o g \/ \E a \in Entries : history' = Append(history, a)
  PROVE  LifeInv'
<1>1. history' \in Seq(Entries)
  <2>1. history \in Seq(Entries)
    BY DEF LifeInv, Typed
  <2>2. CASE history' = history \o g
    BY <2>1, <2>2, ConcatProperties
  <2>3. CASE \E a \in Entries : history' = Append(history, a)
    BY <2>1, <2>3, AppendProperties
  <2>. QED  BY <2>2, <2>3
<1>2. \A state : Recorded(state) => Recorded(state)'
  <2>. SUFFICES ASSUME NEW state, Recorded(state) PROVE Recorded(state)'
    OBVIOUS
  <2>1. \E i \in 1 .. Len(history) : history[i] = Entry("match", state)
    BY DEF Recorded
  <2>2. history \in Seq(Entries)
    BY DEF LifeInv, Typed
  <2>3. /\ \E i \in 1 .. Len(history \o g) : (history \o g)[i] = Entry("match", state)
        /\ \A a \in Entries :
             \E i \in 1 .. Len(Append(history, a)) : Append(history, a)[i] = Entry("match", state)
    BY <2>1, <2>2, RecordsStay
  <2>4. \E i \in 1 .. Len(history') : history'[i] = Entry("match", state)
    BY <2>3
  <2>. QED  BY <2>4 DEF Recorded, Entry
<1>. QED
  BY <1>1, <1>2 DEF LifeInv, Typed, NoStageSkipped

LEMMA LifeStep == LifeInv /\ [Next]_vars => LifeInv'
<1>. SUFFICES ASSUME LifeInv, [Next]_vars PROVE LifeInv'
  OBVIOUS
<1>1. CASE \E target \in MatchStates : transition_match(target)
  <2>. PICK target \in MatchStates : transition_match(target)
    BY <1>1
  <2>1. /\ match \in DOMAIN MatchNext /\ target \in MatchNext[match]
        /\ match' = target /\ history' = Append(history, Entry("match", target))
    BY DEF transition_match
  <2>2. Typed'
    BY <2>1, EntriesTyped DEF LifeInv, Typed
  <2>3. Recorded(target)'
    <3>1. /\ Len(history) + 1 \in 1 .. Len(history')
          /\ history'[Len(history) + 1] = Entry("match", target)
      BY <2>1, EntriesTyped DEF LifeInv, Typed
    <3>. QED  BY <3>1 DEF Recorded, Entry
  <2>4. \A state : Recorded(state) => Recorded(state)'
    <3>. SUFFICES ASSUME NEW state, Recorded(state) PROVE Recorded(state)'
      OBVIOUS
    <3>1. \E i \in 1 .. Len(history) : history[i] = Entry("match", state)
      BY DEF Recorded
    <3>2. Entry("match", target) \in Entries /\ history \in Seq(Entries) /\ <<>> \in Seq(Entries)
      BY EntriesTyped DEF LifeInv, Typed
    <3>3. \E i \in 1 .. Len(history') : history'[i] = Entry("match", state)
      BY <2>1, <3>1, <3>2, RecordsStay
    <3>. QED  BY <3>3 DEF Recorded, Entry
  <2>5. Behind[target] \subseteq Behind[match] \cup {match}
    BY <2>1, StagesInOrder
  <2>6. \A state \in Behind[match] \cup {match} : Recorded(state)
    BY DEF LifeInv, NoStageSkipped
  <2>7. \A state \in Behind[match'] \cup {match'} : Recorded(state)'
    BY <2>1, <2>3, <2>4, <2>5, <2>6
  <2>8. NoStageSkipped'
    BY <2>7 DEF NoStageSkipped
  <2>. QED  BY <2>2, <2>8 DEF LifeInv
<1>2. CASE local_turn
  <2>. DEFINE g == << Entry("turn", "COMPUTING_MOVE"), Entry("turn", "COMMITTING"),
                      Entry("turn", "AWAITING_REVEAL"), Entry("turn", "VERIFYING"),
                      Entry("turn", "WAITING_FOR_OPPONENT") >>
  <2>1. g \in Seq(Entries)
    <3>1. {"COMPUTING_MOVE", "COMMITTING", "AWAITING_REVEAL", "VERIFYING", "WAITING_FOR_OPPONENT"}
            \subseteq TurnStates
      BY DEF TurnStates
    <3>. QED  BY <3>1, EntriesTyped
  <2>2. history' = history \o g /\ UNCHANGED match
    BY <1>2 DEF local_turn
  <2>. HIDE DEF g
  <2>. QED  BY <2>1, <2>2, TurnKeepsStages
<1>3. CASE verified_incoming
  <2>1. UNCHANGED match /\ history' = Append(history, Entry("turn", "VERIFYING"))
    BY <1>3 DEF verified_incoming
  <2>2. Entry("turn", "VERIFYING") \in Entries /\ <<>> \in Seq(Entries)
    BY EntriesTyped DEF TurnStates
  <2>. QED  BY <2>1, <2>2, TurnKeepsStages
<1>4. CASE technical_loss
  <2>1. UNCHANGED match /\ history' = Append(history, Entry("turn", "TECHNICAL_LOSS"))
    BY <1>4 DEF technical_loss
  <2>2. Entry("turn", "TECHNICAL_LOSS") \in Entries /\ <<>> \in Seq(Entries)
    BY EntriesTyped DEF TurnStates
  <2>. QED  BY <2>1, <2>2, TurnKeepsStages
<1>5. CASE UNCHANGED vars
  BY <1>5 DEF vars, LifeInv, Typed, NoStageSkipped, Recorded
<1>. QED
  BY <1>1, <1>2, <1>3, <1>4, <1>5 DEF Next

(***************************************************************************)
(* However its methods are called, the machine is in no stage of a match   *)
(* whose earlier ones its trace does not show: nothing is reported before  *)
(* the audit and the agreed result (transition_match).                     *)
(***************************************************************************)
THEOREM StagesAreKept == Spec => []NoStageSkipped
<1>1. LifeInv => NoStageSkipped
  BY DEF LifeInv
<1>. QED
  BY <1>1, LifeInit, LifeStep, PTL DEF Spec

(***************************************************************************)
(* A match that is finished or aborted stays so; a technical loss of a     *)
(* turn does not (transition_match, technical_loss).                       *)
(***************************************************************************)
THEOREM EndsAreFinal == Spec => EndIsFinal
<1>1. [Next]_vars => [(match \in Ended) => match' = match]_vars
  BY DEF Next, transition_match, local_turn, verified_incoming, technical_loss, vars, Ended, MatchNext
<1>. QED
  BY <1>1, PTL DEF Spec, EndIsFinal

-----------------------------------------------------------------------------
(* The result and its files. *)

LEMMA SeriesShape ==
  ASSUME NEW results \in Series
  PROVE  \E n \in 1 .. MaxGames : DOMAIN results = 1 .. n /\ results \in [1 .. n -> Results]
BY DEF Series

(* The row of a sub-game is the same dictionary whoever of the two makes it. *)
LEMMA RowSymmetric ==
  ASSUME NEW a, NEW b, a # b, NEW result, NEW table
  PROVE  Row(a, b, "thief", result, table) = Row(b, a, "police", result, table)
<1>1. RolesOf(a, b, "thief") = RolesOf(b, a, "police")
  BY DEF RolesOf, Other
<1> QED
  BY <1>1 DEF Row

(* Points of the two groups in one sub-game. *)
LEMMA PointsOf ==
  ASSUME NEW a, NEW b, a # b, NEW table \in Tables, NEW result \in Results
  PROVE  /\ DOMAIN Row(a, b, "thief", result, table).score = {a, b}
         /\ Row(a, b, "thief", result, table).score[a]
              = IF result \in Decisive THEN table[result]["thief"] ELSE table.technical_loss
         /\ Row(a, b, "thief", result, table).score[b]
              = IF result \in Decisive THEN table[result]["police"] ELSE table.technical_loss
         /\ Row(a, b, "thief", result, table).score[a] \in Nat
         /\ Row(a, b, "thief", result, table).score[b] \in Nat
<1>1. /\ DOMAIN RolesOf(a, b, "thief") = {a, b}
      /\ RolesOf(a, b, "thief")[a] = "thief" /\ RolesOf(a, b, "thief")[b] = "police"
  BY DEF RolesOf, Other
<1>2. Row(a, b, "thief", result, table).score = ScoreSubgame(result, RolesOf(a, b, "thief"), table)
  BY DEF Row
<1>3. table.technical_loss \in Nat /\ table.capture \in [Roles -> Nat] /\ table.survival \in [Roles -> Nat]
  BY DEF Tables
<1>4. result \in Decisive => table[result]["thief"] \in Nat /\ table[result]["police"] \in Nat
  BY <1>3 DEF Decisive, Roles
<1>5. /\ DOMAIN ScoreSubgame(result, RolesOf(a, b, "thief"), table) = {a, b}
      /\ ScoreSubgame(result, RolesOf(a, b, "thief"), table)[a]
           = IF result \in Decisive THEN table[result]["thief"] ELSE table.technical_loss
      /\ ScoreSubgame(result, RolesOf(a, b, "thief"), table)[b]
           = IF result \in Decisive THEN table[result]["police"] ELSE table.technical_loss
  BY <1>1 DEF ScoreSubgame
<1> QED
  BY <1>2, <1>3, <1>4, <1>5

LEMMA SumIsNat ==
  ASSUME NEW a, NEW b, a # b, NEW table \in Tables, NEW results \in Series, NEW g \in {a, b}
  PROVE  Sum(ScoresOf(results, a, b, "thief", table), g) \in Nat
<1> DEFINE s == ScoresOf(results, a, b, "thief", table)
<1>1. \A i \in DOMAIN s : s[i][g] \in Nat
  BY PointsOf, SeriesShape DEF ScoresOf
<1> HIDE DEF s
<1>2. Sum(s, g) \in Nat
  BY <1>1 DEF Sum
<1> QED
  BY <1>2 DEF s

-----------------------------------------------------------------------------
(* Two peers that know each other's group and have seen the same results sign *)
(* the same block, whatever table they agreed on (emit.py: "BYTE-IDENTICAL    *)
(* for both peers").                                                          *)
THEOREM SignaturesMatch ==
  ASSUME NEW a, NEW b, a # b, NEW table \in Tables, NEW results \in Series
  PROVE  Symmetric(results, a, b, "thief", table) = Symmetric(results, b, a, "police", table)
<1> DEFINE s == ScoresOf(results, a, b, "thief", table)
<1>1. /\ ScoresOf(results, b, a, "police", table) = s
      /\ RowsOf(results, a, b, "thief", table) = RowsOf(results, b, a, "police", table)
  BY RowSymmetric DEF ScoresOf, RowsOf
<1>2. Sum(s, a) \in Nat /\ Sum(s, b) \in Nat
  BY SumIsNat
<1> HIDE DEF s
<1>3. SeriesTie(s, a, b) <=> SeriesTie(s, b, a)
  BY DEF SeriesTie
<1>4. Aggregate(s, a, b, table) = Aggregate(s, b, a, table)
  <2>1. \A g : Final(s, g, a, b, table) = Final(s, g, b, a, table)
    BY <1>3 DEF Final
  <2>2. {a, b} = {b, a}
    OBVIOUS
  <2>3. ~SeriesTie(s, a, b) => Sum(s, a) # Sum(s, b)
    BY DEF SeriesTie
  <2>4. (IF SeriesTie(s, a, b) THEN None ELSE IF Sum(s, a) >= Sum(s, b) THEN a ELSE b)
          = (IF SeriesTie(s, b, a) THEN None ELSE IF Sum(s, b) >= Sum(s, a) THEN b ELSE a)
    BY <1>2, <1>3, <2>3
  <2> QED
    BY <2>1, <2>2, <2>4 DEF Aggregate
<1> QED
  BY <1>1, <1>4 DEF Symmetric, s

(* A peer that was sent no identity signs another block, in which its one     *)
(* group has played the Police's part: the Thief is given the points of the   *)
(* Police (emit.py: "series.peer_identity or own").                           *)
THEOREM LoneGroupIsScoredAsPolice ==
  ASSUME NEW a, NEW b, a # b, NEW table \in Tables, NEW results \in Series
  PROVE  LET lone == Symmetric(results, a, Opponent(a, None), "thief", table)
         IN /\ lone # Symmetric(results, b, a, "police", table)
            /\ \A i \in DOMAIN results : results[i] \in Decisive =>
                 lone.sub_games[i].score[a] = table[results[i]]["police"]
<1> DEFINE lone == Symmetric(results, a, Opponent(a, None), "thief", table)
           both == Symmetric(results, b, a, "police", table)
<1>1. RolesOf(a, a, "thief") = [g \in {a} |-> "police"] /\ Opponent(a, None) = a
  BY DEF RolesOf, Other, Opponent
<1>2. 1 \in DOMAIN results
  BY SeriesShape
<1>3. \A i \in DOMAIN results : /\ lone.sub_games[i] = Row(a, a, "thief", results[i], table)
                                /\ both.sub_games[i] = Row(b, a, "police", results[i], table)
  BY <1>1 DEF Symmetric, RowsOf
<1>4. lone.sub_games[1].roles = RolesOf(a, a, "thief") /\ both.sub_games[1].roles = RolesOf(b, a, "police")
  <2>1. \A o, p, role, r : Row(o, p, role, r, table).roles = RolesOf(o, p, role)
    BY DEF Row
  <2>2. lone.sub_games[1] = Row(a, a, "thief", results[1], table)
    BY <1>2, <1>3
  <2>3. both.sub_games[1] = Row(b, a, "police", results[1], table)
    BY <1>2, <1>3
  <2> HIDE DEF lone, both
  <2> QED
    BY <2>1, <2>2, <2>3
<1>5. b \in DOMAIN both.sub_games[1].roles /\ b \notin DOMAIN lone.sub_games[1].roles
  BY <1>1, <1>4 DEF RolesOf
<1>6. ASSUME NEW i \in DOMAIN results, results[i] \in Decisive
      PROVE  lone.sub_games[i].score[a] = table[results[i]]["police"]
  <2>1. \A o, p, role, r : Row(o, p, role, r, table).score = ScoreSubgame(r, RolesOf(o, p, role), table)
    BY DEF Row
  <2>2. lone.sub_games[i] = Row(a, a, "thief", results[i], table)
    BY <1>3
  <2> HIDE DEF lone
  <2>3. lone.sub_games[i].score = ScoreSubgame(results[i], [g \in {a} |-> "police"], table)
    BY <1>1, <2>1, <2>2
  <2> QED
    BY <1>6, <2>3 DEF ScoreSubgame
<1> HIDE DEF lone, both
<1>7. lone # both
  BY <1>5
<1> QED
  BY <1>6, <1>7 DEF lone, both

(* Every sub-game is counted once: as won by one of the two, or as a tie      *)
(* (scoring.py, aggregate).                                                   *)
THEOREM CountsAddUp ==
  ASSUME NEW a, NEW b, a # b, NEW table \in Tables, NEW results \in Series
  PROVE  LET result == Aggregate(ScoresOf(results, a, b, "thief", table), a, b, table)
         IN result.sub_games_won[a] + result.sub_games_won[b] + result.ties
              = Cardinality(DOMAIN results)
<1> DEFINE s == ScoresOf(results, a, b, "thief", table)
<1>1. PICK n \in 1 .. MaxGames : DOMAIN results = 1 .. n
  BY SeriesShape
<1>2. DOMAIN s = 1 .. n /\ \A i \in DOMAIN s : DOMAIN s[i] = {a, b}
  BY <1>1, SeriesShape, PointsOf DEF ScoresOf
<1> HIDE DEF s
<1> DEFINE A == WonBy(s, a)  B == WonBy(s, b)  T == Tied(s)
<1>3. IsFiniteSet(A) /\ IsFiniteSet(B) /\ IsFiniteSet(T) /\ IsFiniteSet(1 .. n)
  <2>1. A \subseteq 1 .. n /\ B \subseteq 1 .. n /\ T \subseteq 1 .. n /\ IsFiniteSet(1 .. n)
    BY <1>2, FS_Interval DEF WonBy, Tied
  <2> QED
    BY <2>1, FS_Subset
<1>4. A \cap B = {} /\ (A \cup B) \cap T = {}
  BY <1>2 DEF WonBy, Tied
<1>5. (A \cup B) \cup T = 1 .. n
  BY <1>2 DEF WonBy, Tied
<1> HIDE DEF A, B, T
<1>6. IsFiniteSet(A \cup B) /\ Cardinality(A \cup B) = Cardinality(A) + Cardinality(B)
  <2>1. /\ Cardinality(A) \in Nat /\ Cardinality(B) \in Nat
        /\ Cardinality(A \cup B) = Cardinality(A) + Cardinality(B) - Cardinality(A \cap B)
    BY <1>3, FS_Union, FS_CardinalityType
  <2>2. Cardinality(A \cap B) = 0
    BY <1>4, FS_EmptySet
  <2> QED
    BY <1>3, <2>1, <2>2, FS_Union
<1>7. Cardinality(1 .. n) = Cardinality(A) + Cardinality(B) + Cardinality(T)
  <2>1. /\ Cardinality(A) \in Nat /\ Cardinality(B) \in Nat /\ Cardinality(T) \in Nat
        /\ Cardinality((A \cup B) \cup T)
             = Cardinality(A \cup B) + Cardinality(T) - Cardinality((A \cup B) \cap T)
    BY <1>3, <1>6, FS_Union, FS_CardinalityType
  <2>2. Cardinality((A \cup B) \cap T) = 0
    BY <1>4, FS_EmptySet
  <2>3. Cardinality((A \cup B) \cup T) = Cardinality(1 .. n)
    BY <1>5
  <2> QED
    BY <1>6, <2>1, <2>2, <2>3
<1>8. LET result == Aggregate(s, a, b, table)
      IN /\ result.sub_games_won[a] = Cardinality(A) /\ result.sub_games_won[b] = Cardinality(B)
         /\ result.ties = Cardinality(T)
  BY DEF Aggregate, A, B, T
<1> QED
  BY <1>1, <1>7, <1>8 DEF s, A, B, T

(* With the table of Appendix F the winner a row names and the winner the     *)
(* aggregate counts are the same where a sub-game was decided, and only there:*)
(* a forfeited one names a winner in its row and is counted as a tie          *)
(* (subgame_entry.py, scoring.py).                                            *)
THEOREM ForfeitsAreCountedAsTies ==
  ASSUME NEW a \in Nat, NEW b \in Nat, a # b, NEW result \in Results
  PROVE  LET row == Row(a, b, "thief", result, FixedTable)
         IN /\ row.winner_group = IF WinnerRole(result) = "thief" THEN a ELSE b
            /\ result \in Decisive => Best(row.score) = {row.winner_group}
            /\ result \in Forfeits => Best(row.score) = {a, b}
<1> DEFINE row == Row(a, b, "thief", result, FixedTable)
<1>1. FixedTable \in Tables
  BY DEF FixedTable, Tables, Roles
<1>2. DOMAIN row.score = {a, b}
  BY <1>1, PointsOf
<1>3. /\ row.score[a] = IF result \in Decisive THEN FixedTable[result]["thief"] ELSE 0
      /\ row.score[b] = IF result \in Decisive THEN FixedTable[result]["police"] ELSE 0
  <2>1. a \in {a, b} /\ b \in {a, b} /\ FixedTable.technical_loss = 0
    BY DEF FixedTable
  <2>2. row.score[a] = IF result \in Decisive THEN FixedTable[result]["thief"] ELSE FixedTable.technical_loss
    BY <1>1, <2>1, PointsOf
  <2>3. row.score[b] = IF result \in Decisive THEN FixedTable[result]["police"] ELSE FixedTable.technical_loss
    BY <1>1, <2>1, PointsOf
  <2> QED
    BY <2>1, <2>2, <2>3
<1>4. row.winner_group = IF WinnerRole(result) = "thief" THEN a ELSE b
  <2>1. RolesOf(a, b, "thief")[a] = "thief" /\ RolesOf(a, b, "thief")[b] = "police"
        /\ DOMAIN RolesOf(a, b, "thief") = {a, b}
    BY DEF RolesOf, Other
  <2>2. WinnerRole(result) \in Roles
    BY DEF WinnerRole, Roles
  <2>3. {g \in DOMAIN RolesOf(a, b, "thief") : RolesOf(a, b, "thief")[g] = WinnerRole(result)}
          = {IF WinnerRole(result) = "thief" THEN a ELSE b}
    BY <2>1, <2>2 DEF Roles
  <2> QED
    BY <2>3 DEF Row
<1> HIDE DEF row
<1>5. CASE result = "capture"
  <2>1. row.score[a] = 5 /\ row.score[b] = 20
    BY <1>3, <1>5 DEF FixedTable, Decisive
  <2> QED
    BY <1>2, <1>4, <1>5, <2>1 DEF Best, Decisive, Forfeits, WinnerRole, row
<1>6. CASE result = "survival"
  <2>1. row.score[a] = 10 /\ row.score[b] = 5
    BY <1>3, <1>6 DEF FixedTable, Decisive
  <2> QED
    BY <1>2, <1>4, <1>6, <2>1 DEF Best, Decisive, Forfeits, WinnerRole, row
<1>7. CASE result \in Forfeits
  <2>1. row.score[a] = 0 /\ row.score[b] = 0 /\ result \notin Decisive
    BY <1>3, <1>7 DEF Decisive, Forfeits
  <2> QED
    BY <1>2, <1>4, <1>7, <2>1 DEF Best, row
<1> QED
  BY <1>5, <1>6, <1>7 DEF Results, Decisive

-----------------------------------------------------------------------------
(* Points in one sub-game with the table of Appendix F. *)
LEMMA FixedPoints ==
  ASSUME NEW a \in Nat, NEW b \in Nat, a # b, NEW results \in Series, NEW i \in DOMAIN results
  PROVE  LET s == ScoresOf(results, a, b, "thief", FixedTable)
         IN /\ results[i] = "capture" => s[i][a] = 5 /\ s[i][b] = 20
            /\ results[i] = "survival" => s[i][a] = 10 /\ s[i][b] = 5
            /\ results[i] \in Forfeits => s[i][a] = 0 /\ s[i][b] = 0
            /\ results[i] \in Results /\ DOMAIN s = DOMAIN results
<1> DEFINE s == ScoresOf(results, a, b, "thief", FixedTable)
<1>1. FixedTable \in Tables
  BY DEF FixedTable, Tables, Roles
<1>2. results[i] \in Results /\ DOMAIN s = DOMAIN results
  BY SeriesShape DEF ScoresOf
<1>3. s[i] = Row(a, b, "thief", results[i], FixedTable).score
  BY DEF ScoresOf
<1>4. s[i][a] = IF results[i] \in Decisive THEN FixedTable[results[i]]["thief"] ELSE FixedTable.technical_loss
  BY <1>1, <1>2, <1>3, PointsOf
<1>5. s[i][b] = IF results[i] \in Decisive THEN FixedTable[results[i]]["police"] ELSE FixedTable.technical_loss
  BY <1>1, <1>2, <1>3, PointsOf
<1> HIDE DEF s
<1>6. results[i] = "capture" => s[i][a] = 5 /\ s[i][b] = 20
  BY <1>4, <1>5 DEF FixedTable, Decisive
<1>7. results[i] = "survival" => s[i][a] = 10 /\ s[i][b] = 5
  BY <1>4, <1>5 DEF FixedTable, Decisive
<1>8. results[i] \in Forfeits => s[i][a] = 0 /\ s[i][b] = 0
  BY <1>4, <1>5 DEF FixedTable, Decisive, Forfeits
<1> QED
  BY <1>2, <1>6, <1>7, <1>8 DEF s

(* Whoever stalls, crashes or forfeits in any one sub-game ends the series    *)
(* with no more points than it would have had, the tie bonus included         *)
(* (scoring.py: "no peer profits from stalling, crashing or forfeiting").     *)
THEOREM ForfeitNeverEarns ==
  ASSUME NEW a \in Nat, NEW b \in Nat, a # b, NEW results \in Series,
         NEW i \in DOMAIN results, NEW forfeit \in Forfeits, NEW g \in {a, b}
  PROVE  LET other == [results EXCEPT ![i] = forfeit]
             s == ScoresOf(results, a, b, "thief", FixedTable)
             t == ScoresOf(other, a, b, "thief", FixedTable)
         IN Final(t, g, a, b, FixedTable) <= Final(s, g, a, b, FixedTable)
<1> DEFINE other == [results EXCEPT ![i] = forfeit]
           s == ScoresOf(results, a, b, "thief", FixedTable)
           t == ScoresOf(other, a, b, "thief", FixedTable)
<1>1. PICK n \in 1 .. MaxGames : DOMAIN results = 1 .. n /\ results \in [1 .. n -> Results]
  BY SeriesShape
<1>2. other \in [1 .. n -> Results] /\ DOMAIN other = DOMAIN results /\ n \in {1, 2, 3, 4, 5, 6}
  BY <1>1 DEF Results, MaxGames
<1>3. other \in Series
  BY <1>2 DEF Series
<1>4. DOMAIN s = 1 .. n /\ DOMAIN t = 1 .. n
  BY <1>1, <1>2 DEF ScoresOf
<1>5. \A j \in 1 .. n : j # i => t[j] = s[j]
  BY <1>1, <1>2 DEF ScoresOf
<1>6. t[i][a] = 0 /\ t[i][b] = 0
  <2>1. other[i] = forfeit /\ i \in DOMAIN other
    BY <1>1, <1>2
  <2> HIDE DEF other
  <2> QED
    BY <1>3, <2>1, FixedPoints
<1>7. \/ s[i][a] \in {5, 10} /\ s[i][b] \in {5, 20}
      \/ s[i][a] = 0 /\ s[i][b] = 0
  BY <1>1, FixedPoints DEF Results, Decisive
<1>8. \A j \in 1 .. n : s[j][a] \in Nat /\ s[j][b] \in Nat
  <2> SUFFICES ASSUME NEW j \in 1 .. n PROVE s[j][a] \in Nat /\ s[j][b] \in Nat
    OBVIOUS
  <2>1. results[j] \in Decisive \cup Forfeits
    BY <1>1 DEF Results
  <2> QED
    BY <1>1, <2>1, FixedPoints DEF Decisive
<1> HIDE DEF s, t, other
<1>9. Sum(t, a) = Sum(s, a) - s[i][a] /\ Sum(t, b) = Sum(s, b) - s[i][b] /\ Sum(s, a) \in Nat /\ Sum(s, b) \in Nat
  <2>1. i \in {1, 2, 3, 4, 5, 6}
    BY <1>1, <1>2
  <2> DEFINE P(q, j, h) == IF j \in DOMAIN q THEN q[j][h] ELSE 0
  <2>2. \A h \in {a, b} : \A j \in 1 .. 6 :
          /\ P(s, j, h) \in Nat
          /\ P(t, j, h) = P(s, j, h) - IF j = i THEN s[i][h] ELSE 0
    BY <1>1, <1>4, <1>5, <1>6, <1>8
  <2>3. \A h : /\ Sum(s, h) = P(s, 1, h) + P(s, 2, h) + P(s, 3, h) + P(s, 4, h) + P(s, 5, h) + P(s, 6, h)
               /\ Sum(t, h) = P(t, 1, h) + P(t, 2, h) + P(t, 3, h) + P(t, 4, h) + P(t, 5, h) + P(t, 6, h)
    BY DEF Sum
  <2> HIDE DEF P
  <2>4. ASSUME NEW h \in {a, b} PROVE Sum(t, h) = Sum(s, h) - s[i][h] /\ Sum(s, h) \in Nat
    <3>1. s[i][h] \in Nat
      BY <1>1, <1>8
    <3>2. \A j \in {1, 2, 3, 4, 5, 6} : P(s, j, h) \in Nat /\ P(t, j, h) = P(s, j, h) - IF j = i THEN s[i][h] ELSE 0
      BY <2>2
    <3> QED
      BY <2>1, <2>3, <3>1, <3>2
  <2> QED
    BY <2>4
<1>10. FixedTable.tie_score = 2
  BY DEF FixedTable
<1>11. CASE s[i][a] = 0 /\ s[i][b] = 0
  <2>1. Sum(t, a) = Sum(s, a) /\ Sum(t, b) = Sum(s, b)
    BY <1>9, <1>11
  <2>2. Final(t, g, a, b, FixedTable) = Final(s, g, a, b, FixedTable)
    BY <2>1 DEF Final, SeriesTie
  <2>3. Final(s, g, a, b, FixedTable) \in Int
    BY <1>9, <1>10 DEF Final
  <2> QED
    BY <2>2, <2>3 DEF s, t, other
<1>12. CASE s[i][a] \in {5, 10} /\ s[i][b] \in {5, 20}
  <2>1. Sum(t, g) <= Sum(s, g) - 5 /\ Sum(s, g) \in Nat /\ Sum(t, g) \in Int
    BY <1>9, <1>12
  <2>2. Final(t, g, a, b, FixedTable) <= Final(s, g, a, b, FixedTable)
    BY <1>10, <2>1 DEF Final
  <2> QED
    BY <2>2 DEF s, t, other
<1> QED
  BY <1>7, <1>11, <1>12

(* But a forfeit may decide the series: after a capture and two survivals a   *)
(* third survival makes a tie of 35 points, and the Police that breaks that   *)
(* sub-game off wins by 30 to 25.                                             *)
THEOREM ForfeitMayWin ==
  ASSUME NEW a \in Nat, NEW b \in Nat, a # b
  PROVE  \E results \in Series : \E i \in DOMAIN results : \E forfeit \in Forfeits :
           LET other == [results EXCEPT ![i] = forfeit]
               winner(r) == Aggregate(ScoresOf(r, a, b, "thief", FixedTable), a, b, FixedTable).winner_group
           IN winner(results) = None /\ winner(other) = b
<1> DEFINE results == [i \in 1 .. 4 |-> IF i = 1 THEN "capture" ELSE "survival"]
           other == [results EXCEPT ![4] = "technical_loss"]
           s == ScoresOf(results, a, b, "thief", FixedTable)
           t == ScoresOf(other, a, b, "thief", FixedTable)
<1>1. /\ results \in [1 .. 4 -> Results] /\ other \in [1 .. 4 -> Results]
      /\ 4 \in 1 .. MaxGames /\ DOMAIN results = 1 .. 4 /\ DOMAIN other = 1 .. 4
  BY DEF Results, Decisive, Forfeits, MaxGames
<1>2. results \in Series /\ other \in Series
  BY <1>1 DEF Series
<1>3. /\ DOMAIN s = 1 .. 4 /\ s[1][a] = 5 /\ s[1][b] = 20
      /\ s[2][a] = 10 /\ s[2][b] = 5 /\ s[3][a] = 10 /\ s[3][b] = 5 /\ s[4][a] = 10 /\ s[4][b] = 5
  BY <1>1, <1>2, FixedPoints DEF ScoresOf
<1>4. /\ other[1] = "capture" /\ other[2] = "survival" /\ other[3] = "survival"
      /\ other[4] \in Forfeits
  BY DEF Forfeits
<1>5. /\ DOMAIN t = 1 .. 4 /\ t[1][a] = 5 /\ t[1][b] = 20
      /\ t[2][a] = 10 /\ t[2][b] = 5 /\ t[3][a] = 10 /\ t[3][b] = 5 /\ t[4][a] = 0 /\ t[4][b] = 0
  <2> HIDE DEF other
  <2> QED
    BY <1>1, <1>2, <1>4, FixedPoints DEF ScoresOf
<1> HIDE DEF s, t
<1>6. Sum(s, a) = 35 /\ Sum(s, b) = 35
  BY <1>3 DEF Sum
<1>7. Sum(t, a) = 25 /\ Sum(t, b) = 30
  BY <1>5 DEF Sum
<1>8. /\ Aggregate(s, a, b, FixedTable).winner_group = None
      /\ Aggregate(t, a, b, FixedTable).winner_group = b
  BY <1>6, <1>7 DEF Aggregate, SeriesTie
<1>9. "technical_loss" \in Forfeits /\ 4 \in DOMAIN results
  BY DEF Forfeits
<1> QED
  BY <1>2, <1>8, <1>9 DEF s, t

-----------------------------------------------------------------------------
LEMMA LengthOf ==
  ASSUME NEW series \in AllSeries
  PROVE  \E n \in {1, 2, 3, 4, 5, 6} :
           /\ DOMAIN series.summaries = 1 .. n /\ Cardinality(DOMAIN series.summaries) = n
           /\ series.summaries \in [1 .. n -> Summaries]
           /\ DOMAIN Emission(series) = 1 .. 2 * n + 2
<1>1. PICK n \in 1 .. MaxGames : series.summaries \in [1 .. n -> Summaries]
  BY DEF AllSeries
<1>2. n \in {1, 2, 3, 4, 5, 6} /\ DOMAIN series.summaries = 1 .. n
  BY <1>1 DEF MaxGames
<1>3. Cardinality(1 .. n) = n
  BY <1>2, FS_Interval
<1> QED
  BY <1>1, <1>2, <1>3 DEF Emission

(* What the k-th file of an emission is. *)
LEMMA FileAt ==
  ASSUME NEW series \in AllSeries, NEW n \in {1, 2, 3, 4, 5, 6},
         Cardinality(DOMAIN series.summaries) = n, NEW k \in 1 .. 2 * n + 2
  PROVE  LET f == Emission(series)[k]
             id == series.game_id
         IN /\ k = 1 => f.name = Name("declaration", id, 0) /\ f.body = Declaration(series)
            /\ k = 2 * n + 2 => f.name = Name("result", id, 0) /\ f.body = ResultArtifact(series)
            /\ k # 1 /\ k # 2 * n + 2 /\ k % 2 = 0 =>
                 f.name = Name("config", id, k \div 2) /\ f.body = ConfigArtifact(series, k \div 2)
            /\ k # 1 /\ k # 2 * n + 2 /\ k % 2 = 1 =>
                 f.name = Name("log", id, k \div 2) /\ f.body = LogArtifact(series, k \div 2)
<1>1. k % 2 \in {0, 1}
  OBVIOUS
<1> QED
  BY <1>1 DEF Emission

(* No file of a series overwrites another one of it (emit.py, _write).        *)
THEOREM NoFileTwice ==
  ASSUME NEW series \in AllSeries, NEW j \in DOMAIN Emission(series), NEW k \in DOMAIN Emission(series),
         Emission(series)[j].name = Emission(series)[k].name
  PROVE  j = k
<1>1. PICK n \in {1, 2, 3, 4, 5, 6} :
        Cardinality(DOMAIN series.summaries) = n /\ DOMAIN Emission(series) = 1 .. 2 * n + 2
  BY LengthOf
<1> DEFINE id == series.game_id
           What(i) == IF i = 1 THEN Name("declaration", id, 0)
                      ELSE IF i = 2 * n + 2 THEN Name("result", id, 0)
                      ELSE IF i % 2 = 0 THEN Name("config", id, i \div 2)
                      ELSE Name("log", id, i \div 2)
<1>2. ASSUME NEW i \in 1 .. 2 * n + 2 PROVE Emission(series)[i].name = What(i)
  <2>1. i % 2 \in {0, 1}
    OBVIOUS
  <2> QED
    BY <1>1, <2>1, FileAt
<1>3. What(j) = What(k)
  BY <1>1, <1>2
<1>4. \A c, d, m, l : Name(c, id, m) = Name(d, id, l) => c = d /\ m = l
  BY DEF Name
<1>5. j \in 1 .. 2 * n + 2 /\ k \in 1 .. 2 * n + 2
  BY <1>1
<1>6. CASE j = 1 \/ k = 1 \/ j = 2 * n + 2 \/ k = 2 * n + 2
  BY <1>3, <1>4, <1>5, <1>6
<1>7. CASE ~(j = 1 \/ k = 1 \/ j = 2 * n + 2 \/ k = 2 * n + 2)
  <2>1. (j % 2 = 0 <=> k % 2 = 0) /\ j \div 2 = k \div 2
    BY <1>3, <1>4, <1>7
  <2> QED
    BY <1>5, <2>1
<1> QED
  BY <1>6, <1>7

(* Whatever a file links to has been written before the result, or is the     *)
(* result, under the number of each sub-game (artifact_helpers.py, links).    *)
THEOREM LinksResolve ==
  ASSUME NEW series \in AllSeries
  PROVE  LET written == {Emission(series)[k].name : k \in DOMAIN Emission(series)}
             links == Links(series.game_id)
         IN /\ links.declaration \in written /\ links.result \in written
            /\ \A n \in DOMAIN series.summaries : links.config[n] \in written /\ links.log[n] \in written
<1> DEFINE written == {Emission(series)[k].name : k \in DOMAIN Emission(series)}
           links == Links(series.game_id)
<1>1. PICK n \in {1, 2, 3, 4, 5, 6} :
        /\ DOMAIN series.summaries = 1 .. n /\ Cardinality(DOMAIN series.summaries) = n
        /\ DOMAIN Emission(series) = 1 .. 2 * n + 2
  BY LengthOf
<1>2. /\ links.declaration = Name("declaration", series.game_id, 0)
      /\ links.result = Name("result", series.game_id, 0)
      /\ \A m \in 1 .. n : /\ links.config[m] = Name("config", series.game_id, m)
                           /\ links.log[m] = Name("log", series.game_id, m)
  BY DEF Links
<1> HIDE DEF links
<1>0. 1 \in 1 .. 2 * n + 2 /\ 2 * n + 2 \in 1 .. 2 * n + 2
  OBVIOUS
<1>3. links.declaration = Emission(series)[1].name /\ 1 \in DOMAIN Emission(series)
  <2>1. Emission(series)[1].name = Name("declaration", series.game_id, 0)
    BY <1>0, <1>1, FileAt
  <2> QED
    BY <1>0, <1>1, <1>2, <2>1
<1>4. links.result = Emission(series)[2 * n + 2].name /\ 2 * n + 2 \in DOMAIN Emission(series)
  <2>1. Emission(series)[2 * n + 2].name = Name("result", series.game_id, 0)
    BY <1>0, <1>1, FileAt
  <2> QED
    BY <1>0, <1>1, <1>2, <2>1
<1>5. ASSUME NEW m \in 1 .. n PROVE links.config[m] \in written /\ links.log[m] \in written
  <2>1. /\ 2 * m \in 1 .. 2 * n + 2 /\ 2 * m # 1 /\ 2 * m # 2 * n + 2 /\ (2 * m) % 2 = 0 /\ (2 * m) \div 2 = m
        /\ 2 * m + 1 \in 1 .. 2 * n + 2 /\ 2 * m + 1 # 1 /\ 2 * m + 1 # 2 * n + 2
        /\ (2 * m + 1) % 2 = 1 /\ (2 * m + 1) \div 2 = m
    BY <1>1
  <2>2. Emission(series)[2 * m].name = Name("config", series.game_id, m)
    BY <1>1, <2>1, FileAt
  <2>3. Emission(series)[2 * m + 1].name = Name("log", series.game_id, m)
    BY <1>1, <2>1, FileAt
  <2> QED
    BY <1>1, <1>2, <2>1, <2>2, <2>3
<1> QED
  BY <1>1, <1>3, <1>4, <1>5 DEF links

(* The result counts as confirmed exactly if every log of the series does,    *)
(* and says of each sub-game what its log says (emit.py: the files "agree").  *)
THEOREM ResultRestsOnItsLogs ==
  ASSUME NEW series \in AllSeries
  PROVE  LET result == ResultArtifact(series)
         IN /\ result.mutual_agreement.confirmed <=>
                 \A n \in DOMAIN series.summaries : LogArtifact(series, n).mutual_agreement.confirmed
            /\ \A n \in DOMAIN series.summaries :
                 /\ result.sub_games[n].result = LogArtifact(series, n).summary.result
                 /\ series.identity \in Nat \ {series.own} =>
                      result.sub_games[n].roles[series.own] = LogArtifact(series, n).summary.role
<1> DEFINE result == ResultArtifact(series)
           S == DOMAIN series.summaries
<1>1. \A n \in S : /\ LogArtifact(series, n).mutual_agreement.confirmed = series.summaries[n].passed
                   /\ LogArtifact(series, n).summary.result = series.summaries[n].result
                   /\ LogArtifact(series, n).summary.role = series.summaries[n].role
                   /\ OwnColumns(series, n).log_verified = series.summaries[n].passed
  BY DEF LogArtifact, OwnColumns
<1>2. \A n \in S : series.summaries[n].role = "thief"
  BY LengthOf DEF Summaries
<1>3. \A n \in S : result.sub_games[n] = Row(series.own, Opp(series), "thief", series.summaries[n].result, series.table)
  BY DEF ResultArtifact, Symmetric, RowsOf, ResultsOf
<1>4. \A o, p, r, t : /\ Row(o, p, "thief", r, t).result = r
                      /\ Row(o, p, "thief", r, t).roles = RolesOf(o, p, "thief")
  BY DEF Row
<1>5. result.mutual_agreement.confirmed <=> \A n \in S : OwnColumns(series, n).log_verified
  BY DEF ResultArtifact
<1>6. series.identity \in Nat \ {series.own} => RolesOf(series.own, Opp(series), "thief")[series.own] = "thief"
  <2>1. None \notin Nat
    BY DEF None
  <2> QED
    BY <2>1 DEF Opp, Opponent, RolesOf
<1> HIDE DEF result
<1>7. result.mutual_agreement.confirmed <=> \A n \in S : LogArtifact(series, n).mutual_agreement.confirmed
  BY <1>1, <1>5
<1>8. ASSUME NEW n \in S
      PROVE  /\ result.sub_games[n].result = LogArtifact(series, n).summary.result
             /\ series.identity \in Nat \ {series.own} =>
                  result.sub_games[n].roles[series.own] = LogArtifact(series, n).summary.role
  <2>1. /\ result.sub_games[n].result = series.summaries[n].result
        /\ result.sub_games[n].roles = RolesOf(series.own, Opp(series), "thief")
    BY <1>3, <1>4
  <2> QED
    BY <1>1, <1>2, <1>6, <2>1
<1> QED
  BY <1>7, <1>8 DEF result

=============================================================================
