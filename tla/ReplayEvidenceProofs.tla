------------------------ MODULE ReplayEvidenceProofs ------------------------
(***************************************************************************)
(* What a replay shows, for any Policy Documents and any recorded Actions: *)
(* its types, what edits can do to Effects, that Diff Groups have a        *)
(* direction, that Adoption Groups are cells of the authority map, what    *)
(* the Rules of the default document leave to the Mandate; and that the    *)
(* counts, samples and figures made of the same Actions in different       *)
(* passes agree.                                                           *)
(***************************************************************************)
EXTENDS EvidenceReport, FiniteSetTheorems, FunctionTheorems, WellFoundedInduction, TLAPS

\* A nonempty set of naturals has a least element: the library's well-founded
\* order on Nat, as a set of pairs.
LEMMA LeastNatural ==
    ASSUME NEW S \in SUBSET Nat, S # {}
    PROVE  \E m \in S : \A n \in S : m <= n
  <1> DEFINE R == OpToRel(<, Nat)
  <1>1. IsWellFoundedOn(R, Nat)
    BY NatLessThanWellFounded, Zenon
  <1>2. \A x, y \in Nat : <<x, y>> \in R <=> x < y
    BY Zenon DEF OpToRel
  <1> HIDE DEF R
  <1>3. PICK m \in S : \A n \in S : <<n, m>> \notin R
    BY <1>1, WFMin
  <1>4. \A n \in S : n \in Nat /\ m \in Nat /\ ~(n < m)
    <2> TAKE n \in S
    <2>1. n \in Nat /\ m \in Nat
      OBVIOUS
    <2>2. <<n, m>> \notin R
      BY <1>3
    <2> QED
      BY <1>2, <2>1, <2>2, Zenon
  <1>5. \A n \in S : m <= n
    BY <1>4
  <1> QED
    BY <1>5

-----------------------------------------------------------------------------
(* Effects                                                                 *)

LEMMA RankOrders ==
    /\ \A e \in Effect : EffectRank[e] \in 0..2
    /\ \A e, f \in Effect : EffectRank[e] = EffectRank[f] => e = f
  BY DEF Effect, EffectRank

\* An Operation has an Effect, whatever the document.
LEMMA OperationEffectType ==
    \A op, document : OperationEffect(op, document) \in Effect
  BY DEF OperationEffect, ResolveEffect, Effect

\* The Effect of an Action is that of one of its Operations, and no Operation is
\* more restrictive.
LEMMA ActionEffectIsWorst ==
    ASSUME NEW operations, NEW document, DOMAIN operations # {}
    PROVE  /\ ActionEffect(operations, document) \in Effect
           /\ \E i \in DOMAIN operations :
                 OperationEffect(operations[i], document) = ActionEffect(operations, document)
           /\ \A i \in DOMAIN operations :
                 EffectRank[OperationEffect(operations[i], document)]
                     <= EffectRank[ActionEffect(operations, document)]
  <1> DEFINE At(i) == OperationEffect(operations[i], document)
             effects == {At(i) : i \in DOMAIN operations}
  <1>1. \A i \in DOMAIN operations : At(i) \in Effect
    BY OperationEffectType
  <1>2. ActionEffect(operations, document) = MostRestrictive(effects)
    BY DEF ActionEffect
  <1> HIDE DEF At
  <1>3. effects \subseteq Effect /\ effects # {}
    BY <1>1
  <1>4. /\ MostRestrictive(effects) \in effects
        /\ \A e \in effects : EffectRank[e] <= EffectRank[MostRestrictive(effects)]
    BY <1>3 DEF MostRestrictive, Effect, EffectRank
  <1>5. PICK i \in DOMAIN operations : At(i) = MostRestrictive(effects)
    BY <1>4
  <1>6. \A j \in DOMAIN operations : EffectRank[At(j)] <= EffectRank[MostRestrictive(effects)]
    BY <1>4
  <1>7. MostRestrictive(effects) \in Effect
    BY <1>3, <1>4
  <1> HIDE DEF effects
  <1> QED
    BY <1>2, <1>5, <1>6, <1>7 DEF At

-----------------------------------------------------------------------------
(* Edits                                                                   *)

\* What matches keeps its ask and deny Rules and gains no allow Rule when the
\* document is made tighter, so no Operation gets a wider Effect.
LEMMA TighterOperation ==
    ASSUME NEW from \in PolicyDocument, NEW to \in PolicyDocument, IsTighter(from, to), NEW op
    PROVE  EffectRank[OperationEffect(op, from)] <= EffectRank[OperationEffect(op, to)]
  <1> DEFINE before == Matched(op, from)
             after == Matched(op, to)
  <1>1. /\ \A r \in before : r.effect \in Effect
        /\ \A r \in after : r.effect \in Effect
    BY DEF Matched, PolicyDocument, PolicyRule
  <1>2. /\ \A r \in before : r.effect # "allow" => r \in after
        /\ \A r \in after : r.effect = "allow" => r \in before
    BY DEF Matched, IsTighter
  <1> HIDE DEF before, after
  <1>3. "deny" \in EffectsOf(before) => "deny" \in EffectsOf(after)
    BY <1>2 DEF EffectsOf
  <1>4. "ask" \in EffectsOf(before) => "ask" \in EffectsOf(after)
    BY <1>2 DEF EffectsOf
  <1>5. "allow" \in EffectsOf(after) => "allow" \in EffectsOf(before)
    BY <1>2 DEF EffectsOf
  <1>6. EffectRank[ResolveEffect(before)] <= EffectRank[ResolveEffect(after)]
    BY <1>3, <1>4, <1>5 DEF ResolveEffect, EffectRank
  <1> QED
    BY <1>6 DEF OperationEffect, before, after

\* Nor does an Action.
LEMMA TighterAction ==
    ASSUME NEW from \in PolicyDocument, NEW to \in PolicyDocument, IsTighter(from, to),
           NEW operations, DOMAIN operations # {}
    PROVE  EffectRank[ActionEffect(operations, from)] <= EffectRank[ActionEffect(operations, to)]
  <1>1. PICK i \in DOMAIN operations :
            OperationEffect(operations[i], from) = ActionEffect(operations, from)
    BY ActionEffectIsWorst
  <1>2. EffectRank[OperationEffect(operations[i], from)]
            <= EffectRank[OperationEffect(operations[i], to)]
    BY TighterOperation
  <1>3. EffectRank[OperationEffect(operations[i], to)] <= EffectRank[ActionEffect(operations, to)]
    BY ActionEffectIsWorst
  <1>4. /\ EffectRank[ActionEffect(operations, from)] \in 0..2
        /\ EffectRank[ActionEffect(operations, to)] \in 0..2
        /\ EffectRank[OperationEffect(operations[i], to)] \in 0..2
    BY ActionEffectIsWorst, OperationEffectType, RankOrders
  <1> QED
    BY <1>1, <1>2, <1>3, <1>4

-----------------------------------------------------------------------------
(* Diff Groups                                                             *)

\* The Effects of a changed Action and of its Operations, on both sides.
LEMMA ChangedEffects ==
    ASSUME TypeOK, NEW a \in Changed
    PROVE  /\ DOMAIN a.operations # {} /\ DOMAIN a.operations \subseteq Nat
           /\ FromEffect(a) \in Effect /\ ToEffect(a) \in Effect
           /\ FromEffect(a) # ToEffect(a)
           /\ \A i \in DOMAIN a.operations :
                 /\ FromEffectAt(a, i) \in Effect /\ ToEffectAt(a, i) \in Effect
                 /\ EffectRank[FromEffectAt(a, i)] <= EffectRank[FromEffect(a)]
                 /\ EffectRank[ToEffectAt(a, i)] <= EffectRank[ToEffect(a)]
           /\ \E i \in DOMAIN a.operations : FromEffectAt(a, i) = FromEffect(a)
           /\ \E i \in DOMAIN a.operations : ToEffectAt(a, i) = ToEffect(a)
  <1>1. DOMAIN a.operations # {} /\ a \in Recorded /\ FromEffect(a) # ToEffect(a)
    BY DEF Changed, Evaluated, TypeOK
  <1>2. DOMAIN a.operations \subseteq Nat
    BY <1>1, EvidenceAssumption DEF IsOperations
  <1> QED
    BY <1>1, <1>2, ActionEffectIsWorst, OperationEffectType
       DEF FromEffect, ToEffect, FromEffectAt, ToEffectAt

\* The Operation that gave a widening its baseline Effect, or a narrowing its
\* candidate Effect, differs, and none ranks higher.
LEMMA WorstDiffers ==
    ASSUME TypeOK, NEW a \in Changed
    PROVE  /\ \A i \in Differing(a) : SignatureRank(a, i) \in 0..2
           /\ \E i \in Differing(a) : \A j \in Differing(a) : SignatureRank(a, j) <= SignatureRank(a, i)
           /\ \E i \in Differing(a) :
                 SignatureRank(a, i) =
                     EffectRank[IF Direction(a) = "widening" THEN FromEffect(a) ELSE ToEffect(a)]
  <1>1. CASE Direction(a) = "widening"
    <2>1. EffectRank[ToEffect(a)] < EffectRank[FromEffect(a)]
      BY <1>1 DEF Direction, IsWider
    <2>2. PICK i \in DOMAIN a.operations : FromEffectAt(a, i) = FromEffect(a)
      BY ChangedEffects
    <2>3. i \in Differing(a)
      BY <2>1, <2>2, ChangedEffects, RankOrders DEF Differing
    <2>4. \A j \in Differing(a) : SignatureRank(a, j) = EffectRank[FromEffectAt(a, j)]
      BY <1>1 DEF SignatureRank
    <2>5. \A j \in Differing(a) : /\ EffectRank[FromEffectAt(a, j)] \in 0..2
                                  /\ EffectRank[FromEffectAt(a, j)] <= EffectRank[FromEffect(a)]
      BY ChangedEffects, RankOrders DEF Differing
    <2> QED
      BY <1>1, <2>2, <2>3, <2>4, <2>5
  <1>2. CASE Direction(a) # "widening"
    <2>1. EffectRank[FromEffect(a)] < EffectRank[ToEffect(a)]
      <3>1. ~(EffectRank[ToEffect(a)] < EffectRank[FromEffect(a)])
        BY <1>2 DEF Direction, IsWider
      <3> QED
        BY <3>1, ChangedEffects, RankOrders
    <2>2. PICK i \in DOMAIN a.operations : ToEffectAt(a, i) = ToEffect(a)
      BY ChangedEffects
    <2>3. i \in Differing(a)
      BY <2>1, <2>2, ChangedEffects, RankOrders DEF Differing
    <2>4. \A j \in Differing(a) : SignatureRank(a, j) = EffectRank[ToEffectAt(a, j)]
      BY <1>2 DEF SignatureRank
    <2>5. \A j \in Differing(a) : /\ EffectRank[ToEffectAt(a, j)] \in 0..2
                                  /\ EffectRank[ToEffectAt(a, j)] <= EffectRank[ToEffect(a)]
      BY ChangedEffects, RankOrders DEF Differing
    <2> QED
      BY <1>2, <2>2, <2>3, <2>4, <2>5
  <1> QED
    BY <1>1, <1>2

\* The signature Operation is there, differs and has the highest rank.
LEMMA SignatureIndexIsWorst ==
    ASSUME TypeOK, NEW a \in Changed
    PROVE  /\ SignatureIndex(a) \in Differing(a)
           /\ \A j \in Differing(a) : SignatureRank(a, j) <= SignatureRank(a, SignatureIndex(a))
  <1>1. PICK top \in Differing(a) :
            \A j \in Differing(a) : SignatureRank(a, j) <= SignatureRank(a, top)
    BY WorstDiffers
  <1> DEFINE best == {i \in Differing(a) : SignatureRank(a, i) = SignatureRank(a, top)}
  <1>2. best \in SUBSET Nat /\ best # {}
    BY <1>1, ChangedEffects DEF Differing
  <1>3. PICK i \in best : \A j \in best : i <= j
    BY <1>2, LeastNatural
  <1>4. \A j \in Differing(a) : SignatureRank(a, j) \in 0..2
    BY WorstDiffers
  <1>5. \A j \in Differing(a) :
            \/ SignatureRank(a, j) < SignatureRank(a, i)
            \/ SignatureRank(a, j) = SignatureRank(a, i) /\ i <= j
    BY <1>1, <1>3, <1>4
  <1>6. i \in Differing(a)
    BY <1>3
  <1>7. /\ SignatureIndex(a) \in Differing(a)
        /\ \A j \in Differing(a) :
              \/ SignatureRank(a, j) < SignatureRank(a, SignatureIndex(a))
              \/ /\ SignatureRank(a, j) = SignatureRank(a, SignatureIndex(a))
                 /\ SignatureIndex(a) <= j
    BY <1>5, <1>6 DEF SignatureIndex
  <1> QED
    BY <1>4, <1>7

\* The signature Operation moves the way its Action does.
LEMMA SignatureMovesWithAction ==
    ASSUME TypeOK, NEW a \in Changed
    PROVE  (Direction(a) = "widening") = IsWider(Signature(a).fromEffect, Signature(a).toEffect)
  <1> DEFINE i == SignatureIndex(a)
  <1>1. i \in Differing(a) /\ i \in DOMAIN a.operations
    BY SignatureIndexIsWorst DEF Differing
  <1>2. /\ Signature(a).fromEffect = FromEffectAt(a, i)
        /\ Signature(a).toEffect = ToEffectAt(a, i)
    BY DEF Signature
  <1>3. SignatureRank(a, i) =
            EffectRank[IF Direction(a) = "widening" THEN FromEffect(a) ELSE ToEffect(a)]
    <2>1. PICK k \in Differing(a) :
              SignatureRank(a, k) =
                  EffectRank[IF Direction(a) = "widening" THEN FromEffect(a) ELSE ToEffect(a)]
      BY WorstDiffers
    <2>2. SignatureRank(a, k) <= SignatureRank(a, i)
      BY SignatureIndexIsWorst
    <2>3. SignatureRank(a, i) <= SignatureRank(a, k)
      BY <1>1, <2>1, ChangedEffects DEF SignatureRank
    <2>4. SignatureRank(a, i) \in 0..2 /\ SignatureRank(a, k) \in 0..2
      BY <1>1, WorstDiffers
    <2> QED
      BY <2>1, <2>2, <2>3, <2>4
  <1> HIDE DEF i
  <1>4. /\ EffectRank[FromEffectAt(a, i)] \in 0..2 /\ EffectRank[ToEffectAt(a, i)] \in 0..2
        /\ EffectRank[FromEffect(a)] \in 0..2 /\ EffectRank[ToEffect(a)] \in 0..2
        /\ EffectRank[FromEffect(a)] # EffectRank[ToEffect(a)]
        /\ EffectRank[FromEffectAt(a, i)] <= EffectRank[FromEffect(a)]
        /\ EffectRank[ToEffectAt(a, i)] <= EffectRank[ToEffect(a)]
    BY <1>1, ChangedEffects, RankOrders
  <1>5. CASE Direction(a) = "widening"
    <2>1. EffectRank[FromEffectAt(a, i)] = EffectRank[FromEffect(a)]
      BY <1>3, <1>5 DEF SignatureRank
    <2>2. EffectRank[ToEffect(a)] < EffectRank[FromEffect(a)]
      BY <1>5 DEF Direction, IsWider
    <2>3. EffectRank[ToEffectAt(a, i)] < EffectRank[FromEffectAt(a, i)]
      BY <1>4, <2>1, <2>2
    <2> QED
      BY <1>2, <1>5, <2>3 DEF IsWider
  <1>6. CASE Direction(a) # "widening"
    <2>1. EffectRank[ToEffectAt(a, i)] = EffectRank[ToEffect(a)]
      BY <1>3, <1>6 DEF SignatureRank
    <2>2. ~(EffectRank[ToEffect(a)] < EffectRank[FromEffect(a)])
      BY <1>6 DEF Direction, IsWider
    <2>3. ~(EffectRank[ToEffectAt(a, i)] < EffectRank[FromEffectAt(a, i)])
      BY <1>4, <2>1, <2>2
    <2> QED
      BY <1>2, <1>6, <2>3 DEF IsWider
  <1> QED
    BY <1>5, <1>6

\* So do all the members of a group, which share its signature.
LEMMA OneDirection == TypeOK => GroupsHaveOneDirection
  <1> SUFFICES ASSUME TypeOK, NEW a \in Changed, NEW b \in DiffGroup(Signature(a)).members
               PROVE  /\ Direction(b) = DiffGroup(Signature(a)).direction
                      /\ (DiffGroup(Signature(a)).direction = "widening") =
                             IsWider(Signature(a).fromEffect, Signature(a).toEffect)
    BY DEF GroupsHaveOneDirection, DiffGroups, DiffGroup
  <1> DEFINE members == {c \in Changed : Signature(c) = Signature(a)}
             first == CHOOSE c \in members : TRUE
  <1>1. DiffGroup(Signature(a)).members = members
    BY DEF DiffGroup
  <1>2. DiffGroup(Signature(a)).direction = Direction(first)
    BY DEF DiffGroup
  <1>3. a \in members /\ b \in members
    BY <1>1
  <1>4. first \in members
    BY <1>3
  <1> HIDE DEF first
  <1>5. \A c \in members :
            (Direction(c) = "widening") = IsWider(Signature(a).fromEffect, Signature(a).toEffect)
    BY SignatureMovesWithAction
  <1>6. \A c : Direction(c) \in {"widening", "narrowing"}
    BY DEF Direction
  <1> QED
    BY <1>2, <1>3, <1>4, <1>5, <1>6

-----------------------------------------------------------------------------
(* One-way edits                                                           *)

\* When the Action's Effect is not wider and its operations' are not either, it is
\* narrowed or the same.
LEMMA TighterMoves ==
    ASSUME TypeOK, IsTighter(baseline, candidate), NEW a \in Evaluated
    PROVE  /\ ~IsWider(FromEffect(a), ToEffect(a))
           /\ OperationWidening(a) = {}
  <1>1. baseline \in PolicyDocument /\ candidate \in PolicyDocument
    BY EvidenceAssumption DEF TypeOK
  <1>2. DOMAIN a.operations # {}
    BY DEF Evaluated
  <1>3. /\ FromEffect(a) \in Effect /\ ToEffect(a) \in Effect
        /\ EffectRank[FromEffect(a)] <= EffectRank[ToEffect(a)]
    BY <1>1, <1>2, TighterAction, ActionEffectIsWorst DEF FromEffect, ToEffect
  <1>4. ~IsWider(FromEffect(a), ToEffect(a))
    BY <1>3, RankOrders DEF IsWider
  <1>5. ASSUME NEW i \in DOMAIN a.operations
        PROVE  ~IsWider(FromEffectAt(a, i), ToEffectAt(a, i))
    <2>1. EffectRank[FromEffectAt(a, i)] <= EffectRank[ToEffectAt(a, i)]
      BY <1>1, TighterOperation DEF FromEffectAt, ToEffectAt
    <2>2. EffectRank[FromEffectAt(a, i)] \in 0..2 /\ EffectRank[ToEffectAt(a, i)] \in 0..2
      BY OperationEffectType, RankOrders DEF FromEffectAt, ToEffectAt
    <2> QED
      BY <2>1, <2>2 DEF IsWider
  <1> QED
    BY <1>4, <1>5 DEF OperationWidening

\* A changed Action of a looser candidate widens.
LEMMA LooserMoves ==
    ASSUME TypeOK, IsTighter(candidate, baseline), NEW a \in Changed
    PROVE  Direction(a) = "widening"
  <1>1. baseline \in PolicyDocument /\ candidate \in PolicyDocument
    BY EvidenceAssumption DEF TypeOK
  <1>2. /\ DOMAIN a.operations # {}
        /\ FromEffect(a) \in Effect /\ ToEffect(a) \in Effect /\ FromEffect(a) # ToEffect(a)
    BY ChangedEffects
  <1>3. EffectRank[ToEffect(a)] <= EffectRank[FromEffect(a)]
    BY <1>1, <1>2, TighterAction DEF FromEffect, ToEffect
  <1>4. EffectRank[ToEffect(a)] < EffectRank[FromEffect(a)]
    BY <1>2, <1>3, RankOrders
  <1> QED
    BY <1>4 DEF Direction, IsWider

\* A group has a member, whose direction is the group's.
LEMMA GroupHasMember ==
    ASSUME TypeOK, NEW g \in DiffGroups
    PROVE  \E a \in Changed : Direction(a) = g.direction
  <1>1. PICK b \in Changed : g = DiffGroup(Signature(b))
    BY DEF DiffGroups
  <1>2. b \in g.members
    BY <1>1 DEF DiffGroup
  <1>3. Direction(b) = g.direction
    BY <1>2, OneDirection DEF GroupsHaveOneDirection
  <1> QED
    BY <1>3

LEMMA OneWay == TypeOK => OneWayEditsMoveOneWay
  <1> SUFFICES ASSUME TypeOK PROVE OneWayEditsMoveOneWay
    OBVIOUS
  <1>1. ASSUME IsTighter(baseline, candidate), NEW g \in DiffGroups
        PROVE  g.direction = "narrowing"
    <2>1. PICK a \in Changed : Direction(a) = g.direction
      BY GroupHasMember
    <2>2. ~IsWider(FromEffect(a), ToEffect(a))
      BY <1>1, TighterMoves DEF Changed
    <2> QED
      BY <2>1, <2>2 DEF Direction
  <1>2. ASSUME IsTighter(baseline, candidate), NEW a \in Evaluated \ Changed
        PROVE  OperationWidening(a) = {}
    BY <1>2, TighterMoves
  <1>3. ASSUME IsTighter(candidate, baseline), NEW g \in DiffGroups
        PROVE  g.direction = "widening"
    BY <1>3, GroupHasMember, LooserMoves
  <1> QED
    BY <1>1, <1>2, <1>3 DEF OneWayEditsMoveOneWay

-----------------------------------------------------------------------------
(* Adoption Groups and the map                                             *)

\* The deciding Operation is one of the Action's.
LEMMA DecidingIsThere ==
    ASSUME TypeOK, NEW a \in Evaluated
    PROVE  DecidingOperationIndex(a.operations, candidate) \in DOMAIN a.operations
  <1> DEFINE carriers == {i \in DOMAIN a.operations :
                 OperationEffect(a.operations[i], candidate) = ActionEffect(a.operations, candidate)}
  <1>1. DOMAIN a.operations # {} /\ DOMAIN a.operations \subseteq Nat
    BY EvidenceAssumption DEF Evaluated, TypeOK, IsOperations
  <1>2. carriers \in SUBSET Nat /\ carriers # {}
    BY <1>1, ActionEffectIsWorst
  <1>3. \E i \in carriers : \A j \in carriers : i <= j
    BY <1>2, LeastNatural
  <1>4. DecidingOperationIndex(a.operations, candidate) =
            CHOOSE i \in carriers : \A j \in carriers : i <= j
    BY DEF DecidingOperationIndex
  <1>5. DecidingOperationIndex(a.operations, candidate) \in carriers
    BY <1>3, <1>4
  <1> QED
    BY <1>5

\* Both name the capability and the Zone of the deciding Operation.
LEMMA EntryIsCell ==
    ASSUME TypeOK, NEW a \in Evaluated
    PROVE  AdoptionEntry(a) = MatrixCell(a) /\ MatrixCell(a).effect = ToEffect(a)
  <1> DEFINE effect == ActionEffect(a.operations, candidate)
             index == DecidingOperationIndex(a.operations, candidate)
  <1>1. DOMAIN a.operations # {} /\ index \in DOMAIN a.operations
    BY DecidingIsThere DEF Evaluated
  <1> HIDE DEF index
  <1>2. AdoptionEntry(a) =
            [effect |-> effect, capability |-> a.operations[index].capability,
             zone |-> EvaluateOperation(a.operations[index], candidate).zone]
    BY <1>1 DEF AdoptionEntry, EvaluateAction, index
  <1>3. EvaluateOperation(a.operations[index], candidate).zone =
            ResolveZone(a.operations[index], candidate.environment)
    BY DEF EvaluateOperation
  <1>4. MatrixCell(a) =
            [capability |-> a.operations[index].capability,
             zone |-> ResolveZone(a.operations[index], candidate.environment),
             effect |-> effect]
    BY DEF MatrixCell, index
  <1> QED
    BY <1>2, <1>3, <1>4 DEF ToEffect

LEMMA Adoption == TypeOK => AdoptionAgreesWithMap
  <1> SUFFICES ASSUME TypeOK PROVE AdoptionAgreesWithMap
    OBVIOUS
  <1> DEFINE cells == {MatrixCell(a) : a \in Evaluated}
             Group(a) == [signature |-> AdoptionEntry(a),
                          members |-> {b \in Evaluated : AdoptionEntry(b) = AdoptionEntry(a)}]
             asked == {a \in Evaluated : ToEffect(a) # "allow"}
  <1>1. AdoptionGroups = {Group(a) : a \in asked}
    BY DEF AdoptionGroups
  <1>2. \A a : /\ Group(a).signature = AdoptionEntry(a)
               /\ Group(a).members = {b \in Evaluated : AdoptionEntry(b) = AdoptionEntry(a)}
    OBVIOUS
  <1> HIDE DEF Group
  <1>3. \A a \in Evaluated : AdoptionEntry(a) = MatrixCell(a) /\ MatrixCell(a).effect = ToEffect(a)
    BY EntryIsCell
  <1>4. {g.signature : g \in AdoptionGroups} = {AdoptionEntry(a) : a \in asked}
    BY <1>1, <1>2
  <1>5. {AdoptionEntry(a) : a \in asked} = {c \in cells : c.effect # "allow"}
    BY <1>3
  <1>6. ASSUME NEW g \in AdoptionGroups
        PROVE  Cardinality(g.members) = MatrixCount(g.signature)
    <2>1. PICK a \in asked : g = Group(a)
      BY <1>1, <1>6
    <2>2. /\ g.signature = AdoptionEntry(a)
          /\ g.members = {b \in Evaluated : AdoptionEntry(b) = AdoptionEntry(a)}
      BY <2>1, <1>2
    <2>3. g.members = {b \in Evaluated : MatrixCell(b) = g.signature}
      BY <1>3, <2>2
    <2> QED
      BY <2>3 DEF MatrixCount
  <1> QED
    BY <1>4, <1>5, <1>6 DEF AdoptionAgreesWithMap

-----------------------------------------------------------------------------
(* The specification                                                       *)

LEMMA TypesHold == Spec => []TypeOK
  <1>1. Init => TypeOK
    BY DEF Init, TypeOK
  <1>2. TypeOK /\ [Next]_vars => TypeOK'
    <2> SUFFICES ASSUME TypeOK, [Next]_vars PROVE TypeOK'
      OBVIOUS
    <2>1. ASSUME NEW document \in Document, UpdateDraftDocument(document) PROVE TypeOK'
      BY <2>1 DEF UpdateDraftDocument, TypeOK
    <2>2. CASE Accept
      BY <2>2 DEF Accept, TypeOK
    <2>3. ASSUME NEW a \in Recorded, Import(a) PROVE TypeOK'
      BY <2>3 DEF Import, TypeOK
    <2>4. CASE UNCHANGED vars
      BY <2>4 DEF vars, TypeOK
    <2> QED
      BY <2>1, <2>2, <2>3, <2>4 DEF Next
  <1> QED
    BY <1>1, <1>2, PTL DEF Spec

\* An import brings one Action for a key, and drafts and versions are documents.
THEOREM EvidenceTypes == Spec => []TypeOK
  BY TypesHold

\* The members of a Diff Group all widen or all narrow, as the signature says: the
\* direction buildGroup reads off the first entry is that of every entry.
THEOREM DiffGroupsHaveOneDirection == Spec => []GroupsHaveOneDirection
  BY TypesHold, OneDirection, PTL

\* Adding ask and deny Rules and dropping allow Rules widens no group and hides no
\* widened Operation; the inverse edits narrow no group (docs/design.md:2212).
THEOREM EditsAreMonotone == Spec => []OneWayEditsMoveOneWay
  BY TypesHold, OneWay, PTL

\* The Adoption Groups are the ask and deny cells of the authority map, Action for
\* Action.
THEOREM AdoptionMatchesMap == Spec => []AdoptionAgreesWithMap
  BY TypesHold, Adoption, PTL

-----------------------------------------------------------------------------
(* The default document                                                    *)

\* Where a Rule of the default document may match, by what it does there.
MayMatch(rule) ==
    /\ rule.effect \in Effect
    /\ rule.mandateException =>
         /\ rule.effect = "ask"
         /\ \/ rule.capabilities = {"deploy"} /\ rule.zones = {"protected"}
            \/ /\ rule.capabilities = {"send", "push"}
               /\ rule.zones = {"public_remote", "unknown_remote"}
    /\ rule.effect = "deny" =>
         rule.zones = {"credentials"} \/ rule.capabilities = {"rewrite"}
    /\ rule.effect = "ask" /\ ~rule.mandateException =>
         \/ rule.capabilities = {"delete", "rewrite"}
         \/ rule.capabilities = {"write", "delete"}
         \/ rule.analyzability = {"none"}

LEMMA DefaultRulesMatch == \A rule \in DefaultPolicyDocument.rules : MayMatch(rule)
  <1>1. DefaultPolicyDocument.rules = DefaultRules(AskIrreversibleLocal)
    BY DEF DefaultPolicyDocument
  <1>2. MayMatch(AskIrreversibleLocal)
    BY DEF AskIrreversibleLocal, DefaultRule, MayMatch, Effect
  <1>3. MayMatch(AskProductionDeploy)
    BY DEF AskProductionDeploy, DefaultRule, MayMatch, Effect
  <1>4. /\ MayMatch(DefaultRule(1, {"write", "delete"}, {"agent_config"}, "ask", FALSE))
        /\ MayMatch(DefaultRule(2, {"send", "push"}, {"public_remote", "unknown_remote"}, "ask", TRUE))
    BY DEF DefaultRule, MayMatch, Effect
  <1>5. MayMatch([DefaultRule(5, Capability, Zone, "ask", FALSE) EXCEPT !.analyzability = {"none"}])
    BY DEF DefaultRule, MayMatch, Effect
  <1>6. /\ MayMatch(DefaultRule(6, {"fetch", "install"}, {"trusted_remote"}, "allow", FALSE))
        /\ MayMatch(DefaultRule(7, {"read", "write", "commit"}, {"workspace"}, "allow", FALSE))
        /\ MayMatch([DefaultRule(8, {"execute"}, {"workspace"}, "allow", FALSE)
                        EXCEPT !.analyzability = {"full", "partial"}])
    BY DEF DefaultRule, MayMatch, Effect
  <1>7. /\ MayMatch(DefaultRule(9, Capability, {"credentials"}, "deny", FALSE))
        /\ MayMatch(DefaultRule(10, {"rewrite"},
                       {"trusted_remote", "public_remote", "unknown_remote", "protected"}, "deny", FALSE))
    BY DEF DefaultRule, MayMatch, Effect
  <1> QED
    BY <1>1, <1>2, <1>3, <1>4, <1>5, <1>6, <1>7, Zenon DEF DefaultRules

LEMMA KeepsExceptions == DefaultKeepsExceptions
  <1> SUFFICES ASSUME candidate = DefaultPolicyDocument,
                      NEW capability \in Capability, NEW zone \in Zone,
                      NEW analyzability \in Analyzability \ {"none"}
               PROVE  LET matched == {rule \in candidate.rules :
                               /\ capability \in rule.capabilities /\ zone \in rule.zones
                               /\ ReversibilityFor(capability, zone) \in rule.reversibility
                               /\ analyzability \in rule.analyzability}
                      IN (\E rule \in matched : rule.mandateException) =>
                             ResolveEffect(matched) = "ask" /\ IsMandateDependent(matched, "ask")
    BY Zenon DEF DefaultKeepsExceptions
  <1> DEFINE matched == {rule \in candidate.rules :
                           /\ capability \in rule.capabilities /\ zone \in rule.zones
                           /\ ReversibilityFor(capability, zone) \in rule.reversibility
                           /\ analyzability \in rule.analyzability}
  <1> SUFFICES ASSUME NEW exception \in matched, exception.mandateException
               PROVE  ResolveEffect(matched) = "ask" /\ IsMandateDependent(matched, "ask")
    OBVIOUS
  <1>1. \A rule \in matched : /\ MayMatch(rule)
                              /\ capability \in rule.capabilities /\ zone \in rule.zones
                              /\ analyzability \in rule.analyzability
    BY DefaultRulesMatch
  <1> HIDE DEF matched
  <1>2. /\ exception.effect = "ask"
        /\ \/ capability = "deploy" /\ zone = "protected"
           \/ capability \in {"send", "push"} /\ zone \in {"public_remote", "unknown_remote"}
    BY <1>1 DEF MayMatch
  <1>3. ASSUME NEW rule \in matched
        PROVE  rule.effect # "deny" /\ (rule.effect = "ask" => rule.mandateException)
    BY <1>1, <1>2, <1>3 DEF MayMatch, Effect
  <1>4. "deny" \notin EffectsOf(matched) /\ "ask" \in EffectsOf(matched)
    BY <1>2, <1>3 DEF EffectsOf
  <1>5. ResolveEffect(matched) = "ask"
    BY <1>4 DEF ResolveEffect
  <1>6. IsMandateDependent(matched, "ask")
    BY <1>2, <1>3 DEF IsMandateDependent
  <1> QED
    BY <1>5, <1>6

\* Whatever draft is under review, and whatever the default Environment Profile is: where
\* the first Policy asks with a Mandate Exception, no Rule without one asks or denies too
\* (default-policy-document.ts:5).
THEOREM DefaultDocumentKeepsExceptions == Spec => []DefaultKeepsExceptions
  BY KeepsExceptions, PTL

-----------------------------------------------------------------------------
(* Sums                                                                    *)

\* An injection into a finite set: as many or more are there.
LEMMA NoMoreThan ==
    ASSUME NEW S, NEW T, IsFiniteSet(T), NEW f \in [S -> T],
           \A a, b \in S : f[a] = f[b] => a = b
    PROVE  IsFiniteSet(S) /\ Cardinality(S) <= Cardinality(T)
  BY Fun_IsInj, FS_Injection

\* A one-to-one correspondence with a finite set.
LEMMA AsManyAs ==
    ASSUME NEW S, NEW T, IsFiniteSet(T), NEW f \in [S -> T],
           \A a, b \in S : f[a] = f[b] => a = b,
           \A t \in T : \E s \in S : f[s] = t
    PROVE  IsFiniteSet(S) /\ Cardinality(S) = Cardinality(T)
  BY Fun_IsInj, Fun_IsSurj, FS_Injection

\* A finite set can be numbered.
LEMMA Numbered ==
    ASSUME NEW S, IsFiniteSet(S), NEW n, n = Cardinality(S)
    PROVE  \E f \in [1..n -> S] : /\ \A i, j \in 1..n : f[i] = f[j] => i = j
                                  /\ \A x \in S : \E i \in 1..n : f[i] = x
  <1>1. PICK f : f \in Bijection(1..n, S)
    BY FS_CardinalityType, Fun_ExistsBij
  <1>2. /\ f \in [1..n -> S]
        /\ \A i, j \in 1..n : f[i] = f[j] => i = j
        /\ \A x \in S : \E i \in 1..n : f[i] = x
    BY <1>1 DEF Bijection, Injection, Surjection, IsInjective
  <1> QED
    BY <1>2

\* Counts that count the parts of a finite set make up the set.
LEMMA TotalOfParts ==
    ASSUME NEW rows, NEW count, DOMAIN count = rows, NEW part, NEW whole, IsFiniteSet(whole),
           \A r \in rows : part[r] \subseteq whole /\ count[r] = Cardinality(part[r]),
           \A r, s \in rows : r # s => part[r] \cap part[s] = {},
           \A x \in whole : \E r \in rows : x \in part[r]
    PROVE  Total(count) = Cardinality(whole)
  <1> DEFINE pairs == UNION {{r} \X (1..count[r]) : r \in rows}
             Numbers(f, r) == /\ f \in [1..count[r] -> part[r]]
                              /\ \A i, j \in 1..count[r] : f[i] = f[j] => i = j
                              /\ \A x \in part[r] : \E i \in 1..count[r] : f[i] = x
             b == [r \in rows |-> CHOOSE f : Numbers(f, r)]
             F == [p \in pairs |-> b[p[1]][p[2]]]
  <1>1. \A r \in rows : Numbers(b[r], r)
    <2> SUFFICES ASSUME NEW r \in rows PROVE Numbers(b[r], r)
      OBVIOUS
    <2>1. IsFiniteSet(part[r])
      BY FS_Subset
    <2>2. \E f : Numbers(f, r)
      BY <2>1, Numbered
    <2> HIDE DEF Numbers
    <2> QED
      BY <2>2
  <1> HIDE DEF b
  <1>2. \A p \in pairs : p = <<p[1], p[2]>> /\ p[1] \in rows /\ p[2] \in 1..count[p[1]]
    OBVIOUS
  <1>3. \A r \in rows : \A i \in 1..count[r] : <<r, i>> \in pairs
    OBVIOUS
  <1> HIDE DEF pairs
  <1>4. \A r \in rows : \A i \in 1..count[r] : b[r][i] \in part[r]
    <2> TAKE r \in rows
    <2>1. b[r] \in [1..count[r] -> part[r]]
      BY <1>1, Zenon
    <2> QED
      BY <2>1
  <1>5. \A p \in pairs : F[p] = b[p[1]][p[2]] /\ F[p] \in part[p[1]] /\ F[p] \in whole
    <2> TAKE p \in pairs
    <2>1. p[1] \in rows /\ p[2] \in 1..count[p[1]]
      BY <1>2
    <2>2. b[p[1]][p[2]] \in part[p[1]]
      BY <1>4, <2>1, Zenon
    <2> QED
      BY <2>1, <2>2
  <1>6. F \in [pairs -> whole]
    BY <1>5
  <1>7. ASSUME NEW p \in pairs, NEW q \in pairs, F[p] = F[q]
        PROVE  p = q
    <2> HIDE DEF F
    <2>1. p[1] = q[1]
      BY <1>2, <1>5, <1>7
    <2>2. p[2] = q[2]
      <3>1. b[p[1]][p[2]] = b[p[1]][q[2]]
        BY <1>5, <1>7, <2>1, Zenon
      <3>2. p[1] \in rows /\ p[2] \in 1..count[p[1]] /\ q[2] \in 1..count[p[1]]
        BY <1>2, <2>1, Zenon
      <3> QED
        BY <1>1, <3>1, <3>2
    <2> QED
      BY <1>2, <2>1, <2>2
  <1>8. ASSUME NEW x \in whole
        PROVE  \E p \in pairs : F[p] = x
    <2>1. PICK r \in rows : x \in part[r]
      OBVIOUS
    <2>2. PICK i \in 1..count[r] : b[r][i] = x
      BY <1>1, <2>1
    <2>3. <<r, i>> \in pairs /\ F[<<r, i>>] = x
      BY <1>3, <2>2
    <2> QED
      BY <2>3
  <1> HIDE DEF F
  <1>9. Cardinality(pairs) = Cardinality(whole)
    BY <1>6, <1>7, <1>8, AsManyAs
  <1> QED
    BY <1>9 DEF Total, pairs

\* Counts of the members of a finite set by a key, one row for a key that a member has.
LEMMA TotalByKey ==
    ASSUME NEW S, IsFiniteSet(S), NEW key, NEW rows, NEW count, DOMAIN count = rows, NEW keyOf,
           \A r \in rows : count[r] = Cardinality({a \in S : key[a] = keyOf[r]}),
           \A r, s \in rows : keyOf[r] = keyOf[s] => r = s,
           \A a \in S : \E r \in rows : keyOf[r] = key[a]
    PROVE  Total(count) = Cardinality(S)
  <1> DEFINE part == [r \in rows |-> {a \in S : key[a] = keyOf[r]}]
  <1>1. \A r \in rows : part[r] \subseteq S /\ count[r] = Cardinality(part[r])
    OBVIOUS
  <1>2. \A r, s \in rows : r # s => part[r] \cap part[s] = {}
    OBVIOUS
  <1>3. \A x \in S : \E r \in rows : x \in part[r]
    OBVIOUS
  <1> HIDE DEF part
  <1> QED
    BY <1>1, <1>2, <1>3, TotalOfParts

-----------------------------------------------------------------------------
(* What the results count                                                  *)

\* The Actions that a group is made of.
ChangedInto(g) == {a \in Changed : Signature(a) = g.groupKey}
NotAllowed == {a \in Evaluated : ToEffect(a) # "allow"}
AskedInto(g) == {a \in NotAllowed : AdoptionEntry(a) = g.groupKey}

\* Imports bring finitely many Actions.
Facts == TypeOK /\ IsFiniteSet(actions)

LEMMA FinitelyMany ==
    ASSUME Facts
    PROVE  /\ IsFiniteSet(Evaluated) /\ IsFiniteSet(Changed) /\ IsFiniteSet(NotAllowed)
           /\ Evaluated \subseteq actions /\ Changed \subseteq Evaluated /\ NotAllowed \subseteq Evaluated
           /\ \A g : /\ ChangedInto(g) \subseteq Changed /\ AskedInto(g) \subseteq NotAllowed
                     /\ IsFiniteSet(ChangedInto(g)) /\ IsFiniteSet(AskedInto(g))
  <1>1. /\ Evaluated \subseteq actions /\ Changed \subseteq Evaluated /\ NotAllowed \subseteq Evaluated
        /\ \A g : ChangedInto(g) \subseteq Changed /\ AskedInto(g) \subseteq NotAllowed
    BY DEF Evaluated, Changed, NotAllowed, ChangedInto, AskedInto
  <1>2. IsFiniteSet(Evaluated)
    BY <1>1, FS_Subset DEF Facts
  <1>3. IsFiniteSet(Changed) /\ IsFiniteSet(NotAllowed)
    BY <1>1, <1>2, FS_Subset
  <1>4. \A g : IsFiniteSet(ChangedInto(g)) /\ IsFiniteSet(AskedInto(g))
    BY <1>1, <1>3, FS_Subset
  <1> QED
    BY <1>1, <1>2, <1>3, <1>4

\* A summary counts the members it is made from.
LEMMA SummaryCounts ==
    ASSUME NEW operationOf
    PROVE  /\ Summary(operationOf).actionCount = Cardinality(DOMAIN operationOf)
           /\ Summary(operationOf).analyzabilityNoneCount =
                  Cardinality({a \in DOMAIN operationOf : operationOf[a].analyzability = "none"})
           /\ Summary(operationOf).sampleActionKeys = SampleActionKeys(DOMAIN operationOf)
           /\ Summary(operationOf).firstOccurredAt =
                  CHOOSE t \in {a.occurredAt : a \in DOMAIN operationOf} :
                      \A a \in DOMAIN operationOf : t <= a.occurredAt
           /\ Summary(operationOf).lastOccurredAt =
                  CHOOSE t \in {a.occurredAt : a \in DOMAIN operationOf} :
                      \A a \in DOMAIN operationOf : a.occurredAt <= t
  BY DEF Summary

\* What a Diff Group of the result says of its members.
LEMMA DiffRows ==
    ASSUME NEW g \in DiffResult.groups
    PROVE  /\ \E a \in Changed : g.groupKey = Signature(a)
           /\ g = BuildDiffGroup(DiffGroup(g.groupKey))
           /\ g.direction = DiffGroup(g.groupKey).direction
           /\ g.summary = Summary([a \in ChangedInto(g) |-> SignatureOperationOf(a)])
           /\ g.candidateRuleIds =
                  RuleIds({DecisionOn(a, SignatureIndex(a), candidate) : a \in ChangedInto(g)})
  <1>1. DiffResult.groups = {BuildDiffGroup(h) : h \in DiffGroups}
    BY DEF DiffResult
  <1>2. PICK a \in Changed : g = BuildDiffGroup(DiffGroup(Signature(a)))
    BY <1>1 DEF DiffGroups
  <1> DEFINE s == Signature(a)
  <1> HIDE DEF s
  <1>3. /\ DiffGroup(s).signature = s
        /\ DiffGroup(s).members = {b \in Changed : Signature(b) = s}
    BY DEF DiffGroup
  <1>4. g = BuildDiffGroup(DiffGroup(s))
    BY <1>2 DEF s
  <1>5. g.groupKey = s
    BY <1>3, <1>4 DEF BuildDiffGroup
  <1>6. ChangedInto(g) = DiffGroup(s).members
    BY <1>3, <1>5 DEF ChangedInto
  <1>7. /\ g.direction = DiffGroup(s).direction
        /\ g.summary = Summary([b \in DiffGroup(s).members |-> SignatureOperationOf(b)])
        /\ g.candidateRuleIds =
               RuleIds({DecisionOn(b, SignatureIndex(b), candidate) : b \in DiffGroup(s).members})
    BY <1>4 DEF BuildDiffGroup
  <1>8. s = Signature(a)
    BY DEF s
  <1> QED
    BY <1>4, <1>5, <1>6, <1>7, <1>8

\* What an Adoption Group of the result says of its members.
LEMMA AdoptionRows ==
    ASSUME Facts, NEW g \in AdoptionResult.groups
    PROVE  /\ \E a \in NotAllowed : g.groupKey = AdoptionEntry(a)
           /\ g.groupKey.effect \in {"ask", "deny"}
           /\ g.summary = Summary([a \in AskedInto(g) |-> DecidingOperation(a)])
           /\ \A h \in AdoptionResult.groups : g.groupKey = h.groupKey => g = h
  <1> DEFINE Group(a) == [signature |-> AdoptionEntry(a),
                          members |-> {b \in Evaluated : AdoptionEntry(b) = AdoptionEntry(a)}]
  <1>1. AdoptionResult.groups = {BuildAdoptionGroup(h) : h \in AdoptionGroups}
    BY DEF AdoptionResult
  <1>2. AdoptionGroups = {Group(a) : a \in NotAllowed}
    BY DEF AdoptionGroups, NotAllowed
  <1>3. \A a : /\ Group(a).signature = AdoptionEntry(a)
               /\ Group(a).members = {b \in Evaluated : AdoptionEntry(b) = AdoptionEntry(a)}
    OBVIOUS
  <1>4. \A a, b : AdoptionEntry(a) = AdoptionEntry(b) => Group(a) = Group(b)
    OBVIOUS
  <1> HIDE DEF Group
  <1>5. \A h \in AdoptionResult.groups : \E a \in NotAllowed : h = BuildAdoptionGroup(Group(a))
    BY <1>1, <1>2
  <1>6. \A a : /\ BuildAdoptionGroup(Group(a)).groupKey = AdoptionEntry(a)
               /\ BuildAdoptionGroup(Group(a)).summary =
                      Summary([b \in Group(a).members |-> DecidingOperation(b)])
    BY <1>3 DEF BuildAdoptionGroup
  <1>7. PICK a \in NotAllowed : g = BuildAdoptionGroup(Group(a))
    BY <1>5
  <1>8. g.groupKey = AdoptionEntry(a)
    BY <1>6, <1>7
  <1>9. \A b \in Evaluated : AdoptionEntry(b).effect = ToEffect(b)
    BY EntryIsCell DEF Facts
  <1>10. AskedInto(g) = Group(a).members
    BY <1>3, <1>8, <1>9 DEF AskedInto, NotAllowed
  <1>11. ToEffect(a) \in Effect \ {"allow"}
    BY ActionEffectIsWorst DEF NotAllowed, Evaluated, ToEffect
  <1>12. g.groupKey.effect \in {"ask", "deny"}
    BY <1>8, <1>9, <1>11 DEF NotAllowed, Effect
  <1>13. ASSUME NEW h \in AdoptionResult.groups, g.groupKey = h.groupKey
         PROVE  g = h
    <2>1. PICK b \in NotAllowed : h = BuildAdoptionGroup(Group(b))
      BY <1>5
    <2>2. AdoptionEntry(a) = AdoptionEntry(b)
      BY <1>6, <1>7, <1>13, <2>1
    <2> QED
      BY <1>4, <1>7, <2>1, <2>2
  <1> QED
    BY <1>6, <1>7, <1>8, <1>10, <1>12, <1>13

LEMMA EvaluatedEffects ==
    \A a \in Evaluated : FromEffect(a) \in Effect /\ ToEffect(a) \in Effect
  BY ActionEffectIsWorst DEF Evaluated, FromEffect, ToEffect

\* The Actions of a change of Effect.
LEMMA TransitionsCount ==
    ASSUME NEW f \in Effect, NEW e \in Effect
    PROVE  DiffResult.stats.transitions[<<f, e>>] =
               Cardinality({a \in Evaluated : FromEffect(a) = f /\ ToEffect(a) = e})
  <1>1. DiffResult.stats.transitions = [t \in Effect \X Effect |-> TransitionCount(t[1], t[2])]
    BY DEF DiffResult, ReplayStats
  <1> QED
    BY <1>1 DEF TransitionCount

\* The transitions into an Effect are the Actions that have it.
LEMMA TransitionsInto ==
    ASSUME Facts, NEW e \in Effect
    PROVE  LET rows == {[from |-> f, count |-> DiffResult.stats.transitions[<<f, e>>]] : f \in Effect}
           IN Total([r \in rows |-> r.count]) = Cardinality({a \in Evaluated : ToEffect(a) = e})
  <1> DEFINE Row(f) == [from |-> f, count |-> DiffResult.stats.transitions[<<f, e>>]]
             rows == {Row(f) : f \in Effect}
             S == {a \in Evaluated : ToEffect(a) = e}
             key == [a \in S |-> FromEffect(a)]
             Of(k) == Cardinality({a \in S : key[a] = k})
             keyOf == [r \in rows |-> r.from]
             count == [r \in rows |-> r.count]
  <1>1. IsFiniteSet(S)
    BY FinitelyMany, FS_Subset
  <1>2. \A f \in Effect : Row(f).from = f /\ Row(f).count = Of(f)
    <2> TAKE f \in Effect
    <2>1. {a \in Evaluated : FromEffect(a) = f /\ ToEffect(a) = e} = {a \in S : key[a] = f}
      OBVIOUS
    <2> QED
      BY <2>1, TransitionsCount
  <1> HIDE DEF Row
  <1>3. \A a \in S : key[a] \in Effect
    BY EvaluatedEffects
  <1> HIDE DEF S, key, Of
  <1>4. \A r \in rows : count[r] = Of(keyOf[r])
    BY <1>2 DEF rows
  <1>5. \A r, s \in rows : keyOf[r] = keyOf[s] => r = s
    BY <1>2
  <1>6. \A a \in S : \E r \in rows : keyOf[r] = key[a]
    BY <1>2, <1>3
  <1>7. DOMAIN count = rows
    OBVIOUS
  <1> HIDE DEF keyOf, rows, count
  <1>8. Total(count) = Cardinality(S)
    BY <1>1, <1>4, <1>5, <1>6, <1>7, TotalByKey DEF Of
  <1> QED
    BY <1>8 DEF count, rows, Row, S

\* What changes something makes up the changed Actions.
LEMMA TransitionsThatChange ==
    ASSUME Facts
    PROVE  LET moved == {t \in Effect \X Effect : t[1] # t[2]}
               rows == {[t |-> t, count |-> DiffResult.stats.transitions[t]] : t \in moved}
           IN Total([r \in rows |-> r.count]) = Cardinality(Changed)
  <1> DEFINE moved == {t \in Effect \X Effect : t[1] # t[2]}
             Row(t) == [t |-> t, count |-> DiffResult.stats.transitions[t]]
             rows == {Row(t) : t \in moved}
             key == [a \in Changed |-> <<FromEffect(a), ToEffect(a)>>]
             Of(k) == Cardinality({a \in Changed : key[a] = k})
             keyOf == [r \in rows |-> r.t]
             count == [r \in rows |-> r.count]
  <1>1. IsFiniteSet(Changed)
    BY FinitelyMany
  <1>2. \A t \in moved : Row(t).t = t /\ Row(t).count = Of(t)
    <2> TAKE t \in moved
    <2>1. {a \in Evaluated : FromEffect(a) = t[1] /\ ToEffect(a) = t[2]} = {a \in Changed : key[a] = t}
      BY DEF Changed
    <2>2. DiffResult.stats.transitions[<<t[1], t[2]>>] =
              Cardinality({a \in Evaluated : FromEffect(a) = t[1] /\ ToEffect(a) = t[2]})
      BY TransitionsCount
    <2>3. t = <<t[1], t[2]>>
      OBVIOUS
    <2>4. Row(t).t = t /\ Row(t).count = DiffResult.stats.transitions[t]
      OBVIOUS
    <2> HIDE DEF Row, key
    <2> QED
      BY <2>1, <2>2, <2>3, <2>4
  <1> HIDE DEF Row
  <1>3. \A a \in Changed : key[a] \in moved
    BY EvaluatedEffects DEF Changed
  <1> HIDE DEF key, moved, Of
  <1>4. \A r \in rows : count[r] = Of(keyOf[r])
    BY <1>2
  <1>5. \A r, s \in rows : keyOf[r] = keyOf[s] => r = s
    BY <1>2
  <1>6. \A a \in Changed : \E r \in rows : keyOf[r] = key[a]
    BY <1>2, <1>3
  <1>7. DOMAIN count = rows
    OBVIOUS
  <1> HIDE DEF keyOf, rows, count
  <1>8. Total(count) = Cardinality(Changed)
    BY <1>1, <1>4, <1>5, <1>6, <1>7, TotalByKey DEF Of
  <1> QED
    BY <1>8 DEF count, rows, Row, moved

\* The rows of a report count every evaluated Action.
LEMMA TransitionsShown ==
    ASSUME Facts
    PROVE  Total([r \in TransitionRows(DiffResult.stats.transitions) |-> r.count]) = Cardinality(Evaluated)
  <1> DEFINE transitions == DiffResult.stats.transitions
             made == {u \in Effect \X Effect : transitions[u] > 0}
             Row(t) == [from |-> t[1], to |-> t[2], count |-> transitions[t]]
             rows == {Row(t) : t \in made}
             key == [a \in Evaluated |-> <<FromEffect(a), ToEffect(a)>>]
             keyOf == [r \in rows |-> <<r.from, r.to>>]
             count == [r \in rows |-> r.count]
  <1>1. IsFiniteSet(Evaluated)
    BY FinitelyMany
  <1>2. ASSUME NEW t \in Effect \X Effect
        PROVE  transitions[t] = Cardinality({a \in Evaluated : key[a] = t})
    <2>1. {a \in Evaluated : FromEffect(a) = t[1] /\ ToEffect(a) = t[2]} = {a \in Evaluated : key[a] = t}
      OBVIOUS
    <2>2. transitions[<<t[1], t[2]>>] =
              Cardinality({a \in Evaluated : FromEffect(a) = t[1] /\ ToEffect(a) = t[2]})
      BY TransitionsCount
    <2>3. t = <<t[1], t[2]>>
      OBVIOUS
    <2> HIDE DEF transitions, key
    <2> QED
      BY <2>1, <2>2, <2>3
  <1>3. \A t \in made : <<Row(t).from, Row(t).to>> = t /\ Row(t).count = transitions[t]
    OBVIOUS
  <1>4. ASSUME NEW a \in Evaluated
        PROVE  key[a] \in made
    <2>1. key[a] \in Effect \X Effect
      BY EvaluatedEffects
    <2> DEFINE same == {b \in Evaluated : key[b] = key[a]}
    <2>2. a \in same /\ IsFiniteSet(same)
      BY <1>1, FS_Subset
    <2>3. Cardinality(same) \in Nat /\ Cardinality(same) # 0
      BY <2>2, FS_CardinalityType, FS_EmptySet
    <2>4. transitions[key[a]] = Cardinality(same)
      BY <1>2, <2>1
    <2> HIDE DEF key, same, transitions
    <2> QED
      BY <2>1, <2>3, <2>4
  <1> HIDE DEF Row, key
  <1>5. \A t \in made : t \in Effect \X Effect
    OBVIOUS
  <1> HIDE DEF transitions, made
  <1>6. \A r \in rows : count[r] = Cardinality({a \in Evaluated : key[a] = keyOf[r]})
    BY <1>2, <1>3, <1>5
  <1>7. \A r, s \in rows : keyOf[r] = keyOf[s] => r = s
    BY <1>3
  <1>8. \A a \in Evaluated : \E r \in rows : keyOf[r] = key[a]
    BY <1>3, <1>4
  <1>9. DOMAIN count = rows
    OBVIOUS
  <1> HIDE DEF keyOf, rows, count
  <1>10. Total(count) = Cardinality(Evaluated)
    BY <1>1, <1>6, <1>7, <1>8, <1>9, TotalByKey
  <1>11. TransitionRows(transitions) = rows
    BY DEF TransitionRows, rows, Row, made
  <1> QED
    BY <1>10, <1>11 DEF count, transitions

\* Any of the map's cells count the Actions that are in them.
LEMMA CellsCount ==
    ASSUME Facts, NEW S \in SUBSET Evaluated,
           NEW cells \in SUBSET AdoptionResult.stats.cells,
           \A c \in cells : \A a \in Evaluated : MatrixCell(a) = c.cell => a \in S,
           \A c \in AdoptionResult.stats.cells : \A a \in S : MatrixCell(a) = c.cell => c \in cells
    PROVE  Total([r \in cells |-> r.count]) = Cardinality(S)
  <1> DEFINE all == AdoptionResult.stats.cells
             Row(c) == [cell |-> c, count |-> MatrixCount(c)]
             key == [a \in S |-> MatrixCell(a)]
             keyOf == [r \in cells |-> r.cell]
             Of(k) == Cardinality({a \in S : key[a] = k})
             count == [r \in cells |-> r.count]
  <1>1. IsFiniteSet(S)
    BY FinitelyMany, FS_Subset
  <1>2. all = {Row(c) : c \in {MatrixCell(a) : a \in Evaluated}}
    BY DEF AdoptionResult
  <1>3. \A r \in all : r = Row(r.cell)
    BY <1>2
  <1> HIDE DEF all
  <1>4. \A a \in S : \E r \in all : r.cell = MatrixCell(a)
    <2> TAKE a \in S
    <2>1. Row(MatrixCell(a)) \in all
      BY <1>2
    <2>2. Row(MatrixCell(a)).cell = MatrixCell(a)
      OBVIOUS
    <2> QED
      BY <2>1, <2>2
  <1>5. ASSUME NEW r \in cells
        PROVE  r.count = Of(r.cell)
    <2>1. {a \in Evaluated : MatrixCell(a) = r.cell} = {a \in S : key[a] = r.cell}
      OBVIOUS
    <2>2. r.count = MatrixCount(r.cell)
      BY <1>3 DEF all
    <2> QED
      BY <2>1, <2>2 DEF MatrixCount
  <1> HIDE DEF Row, Of
  <1>6. \A r \in cells : count[r] = Of(keyOf[r])
    BY <1>5
  <1>7. \A r, s \in cells : keyOf[r] = keyOf[s] => r = s
    BY <1>3 DEF all
  <1>8. \A a \in S : \E r \in cells : keyOf[r] = key[a]
    BY <1>4 DEF all
  <1>9. DOMAIN count = cells
    OBVIOUS
  <1> HIDE DEF keyOf, key, count
  <1>10. Total(count) = Cardinality(S)
    BY <1>1, <1>6, <1>7, <1>8, <1>9, TotalByKey DEF Of
  <1> QED
    BY <1>10 DEF count

\* Groups of a kind count together the members that have some trait.
LEMMA GroupsCount ==
    ASSUME Facts, NEW S \in SUBSET actions, NEW key, NEW groups, NEW count,
           DOMAIN count = groups,
           \A g \in groups : count[g] = Cardinality({a \in S : key[a] = g.groupKey}),
           \A g, h \in groups : g.groupKey = h.groupKey => g = h,
           \A a \in S : \E g \in groups : g.groupKey = key[a]
    PROVE  Total(count) = Cardinality(S)
  <1> DEFINE keyOf == [g \in groups |-> g.groupKey]
  <1>1. IsFiniteSet(S)
    BY FS_Subset DEF Facts
  <1>2. \A g \in groups : count[g] = Cardinality({a \in S : key[a] = keyOf[g]})
    OBVIOUS
  <1>3. \A g, h \in groups : keyOf[g] = keyOf[h] => g = h
    OBVIOUS
  <1>4. \A a \in S : \E g \in groups : keyOf[g] = key[a]
    OBVIOUS
  <1> HIDE DEF keyOf
  <1> QED
    BY <1>1, <1>2, <1>3, <1>4, TotalByKey

\* Every changed Action is in a Diff Group, and every one that is not allowed in an
\* Adoption Group.
LEMMA GroupsCover ==
    /\ \A a \in Changed : \E g \in DiffResult.groups : g.groupKey = Signature(a)
    /\ \A a \in NotAllowed : \E g \in AdoptionResult.groups : g.groupKey = AdoptionEntry(a)
  <1>1. ASSUME NEW a \in Changed
        PROVE  \E g \in DiffResult.groups : g.groupKey = Signature(a)
    <2>1. BuildDiffGroup(DiffGroup(Signature(a))) \in DiffResult.groups
      BY DEF DiffResult, DiffGroups
    <2>2. BuildDiffGroup(DiffGroup(Signature(a))).groupKey = DiffGroup(Signature(a)).signature
      BY DEF BuildDiffGroup
    <2>3. DiffGroup(Signature(a)).signature = Signature(a)
      BY DEF DiffGroup
    <2> QED
      BY <2>1, <2>2, <2>3
  <1>2. ASSUME NEW a \in NotAllowed
        PROVE  \E g \in AdoptionResult.groups : g.groupKey = AdoptionEntry(a)
    <2> DEFINE group == [signature |-> AdoptionEntry(a),
                         members |-> {b \in Evaluated : AdoptionEntry(b) = AdoptionEntry(a)}]
    <2>1. group \in AdoptionGroups
      BY DEF AdoptionGroups, NotAllowed
    <2>2. BuildAdoptionGroup(group) \in AdoptionResult.groups
      BY <2>1 DEF AdoptionResult
    <2>3. BuildAdoptionGroup(group).groupKey = AdoptionEntry(a)
      BY DEF BuildAdoptionGroup
    <2> QED
      BY <2>2, <2>3
  <1> QED
    BY <1>1, <1>2

\* The Diff Groups count the changed Actions, and those that were not analyzable.
LEMMA DiffGroupsCount ==
    ASSUME Facts
    PROVE  /\ Total([g \in DiffResult.groups |-> g.summary.actionCount]) = Cardinality(Changed)
           /\ Total([g \in DiffResult.groups |-> g.summary.analyzabilityNoneCount]) =
                  Cardinality({a \in Changed : SignatureOperationOf(a).analyzability = "none"})
  <1> DEFINE groups == DiffResult.groups
             none == {a \in Changed : SignatureOperationOf(a).analyzability = "none"}
             key == [a \in Changed |-> Signature(a)]
             each == [g \in groups |-> g.summary.actionCount]
             eachNone == [g \in groups |-> g.summary.analyzabilityNoneCount]
  <1>1. Changed \subseteq actions
    BY FinitelyMany
  <1>2. ASSUME NEW g \in groups
        PROVE  /\ g.summary.actionCount = Cardinality({a \in Changed : key[a] = g.groupKey})
               /\ g.summary.analyzabilityNoneCount = Cardinality({a \in none : key[a] = g.groupKey})
    <2> DEFINE operationOf == [a \in ChangedInto(g) |-> SignatureOperationOf(a)]
    <2>1. g.summary = Summary(operationOf)
      BY DiffRows
    <2>2. DOMAIN operationOf = {a \in Changed : key[a] = g.groupKey}
      BY DEF ChangedInto
    <2>3. {a \in DOMAIN operationOf : operationOf[a].analyzability = "none"}
              = {a \in none : key[a] = g.groupKey}
      BY <2>2 DEF ChangedInto
    <2> HIDE DEF operationOf, none, key
    <2> QED
      BY <2>1, <2>2, <2>3, SummaryCounts
  <1>3. \A g, h \in groups : g.groupKey = h.groupKey => g = h
    BY DiffRows
  <1>4. \A a \in Changed : \E g \in groups : g.groupKey = key[a]
    BY GroupsCover
  <1>5. none \subseteq actions /\ \A a \in none : \E g \in groups : g.groupKey = key[a]
    BY <1>1, <1>4
  <1> HIDE DEF groups, none, key
  <1>6. /\ DOMAIN each = groups /\ DOMAIN eachNone = groups
        /\ \A g \in groups : each[g] = Cardinality({a \in Changed : key[a] = g.groupKey})
        /\ \A g \in groups : eachNone[g] = Cardinality({a \in none : key[a] = g.groupKey})
    BY <1>2
  <1> HIDE DEF each, eachNone
  <1>7. Total(each) = Cardinality(Changed)
    BY <1>1, <1>3, <1>4, <1>6, GroupsCount
  <1>8. Total(eachNone) = Cardinality(none)
    BY <1>3, <1>5, <1>6, GroupsCount
  <1> QED
    BY <1>7, <1>8 DEF each, eachNone, groups, none

\* The Adoption Groups count what is not allowed, and what of it was not analyzable.
LEMMA AdoptionGroupsCount ==
    ASSUME Facts
    PROVE  /\ Total([g \in AdoptionResult.groups |-> g.summary.actionCount]) = Cardinality(NotAllowed)
           /\ Total([g \in AdoptionResult.groups |-> g.summary.analyzabilityNoneCount]) =
                  Cardinality({a \in NotAllowed : DecidingOperation(a).analyzability = "none"})
  <1> DEFINE groups == AdoptionResult.groups
             none == {a \in NotAllowed : DecidingOperation(a).analyzability = "none"}
             key == [a \in NotAllowed |-> AdoptionEntry(a)]
             each == [g \in groups |-> g.summary.actionCount]
             eachNone == [g \in groups |-> g.summary.analyzabilityNoneCount]
  <1>1. NotAllowed \subseteq actions
    BY FinitelyMany
  <1>2. ASSUME NEW g \in groups
        PROVE  /\ g.summary.actionCount = Cardinality({a \in NotAllowed : key[a] = g.groupKey})
               /\ g.summary.analyzabilityNoneCount = Cardinality({a \in none : key[a] = g.groupKey})
    <2> DEFINE operationOf == [a \in AskedInto(g) |-> DecidingOperation(a)]
    <2>1. g.summary = Summary(operationOf)
      BY AdoptionRows
    <2>2. DOMAIN operationOf = {a \in NotAllowed : key[a] = g.groupKey}
      BY DEF AskedInto
    <2>3. {a \in DOMAIN operationOf : operationOf[a].analyzability = "none"}
              = {a \in none : key[a] = g.groupKey}
      BY <2>2 DEF AskedInto
    <2> HIDE DEF operationOf, none, key
    <2> QED
      BY <2>1, <2>2, <2>3, SummaryCounts
  <1>3. \A g, h \in groups : g.groupKey = h.groupKey => g = h
    BY AdoptionRows
  <1>4. \A a \in NotAllowed : \E g \in groups : g.groupKey = key[a]
    BY GroupsCover
  <1>5. none \subseteq actions /\ \A a \in none : \E g \in groups : g.groupKey = key[a]
    BY <1>1, <1>4
  <1> HIDE DEF groups, none, key
  <1>6. /\ DOMAIN each = groups /\ DOMAIN eachNone = groups
        /\ \A g \in groups : each[g] = Cardinality({a \in NotAllowed : key[a] = g.groupKey})
        /\ \A g \in groups : eachNone[g] = Cardinality({a \in none : key[a] = g.groupKey})
    BY <1>2
  <1> HIDE DEF each, eachNone
  <1>7. Total(each) = Cardinality(NotAllowed)
    BY <1>1, <1>3, <1>4, <1>6, GroupsCount
  <1>8. Total(eachNone) = Cardinality(none)
    BY <1>3, <1>5, <1>6, GroupsCount
  <1> QED
    BY <1>7, <1>8 DEF each, eachNone, groups, none

\* One assignment for what is not allowed: keys are unique.
LEMMA AssignmentsCount ==
    ASSUME Facts
    PROVE  Cardinality(AdoptionResult.assignments) = Cardinality(NotAllowed)
  <1> DEFINE Assignment(a) == [actionKey |-> a.actionKey, groupKey |-> AdoptionEntry(a)]
             f == [a \in NotAllowed |-> Assignment(a)]
  <1>1. AdoptionResult.assignments = {Assignment(a) : a \in NotAllowed}
    BY DEF AdoptionResult, NotAllowed
  <1>2. IsFiniteSet(NotAllowed) /\ NotAllowed \subseteq actions
    BY FinitelyMany
  <1>3. \A a, b \in NotAllowed : f[a] = f[b] => a = b
    <2> TAKE a, b \in NotAllowed
    <2>1. f[a].actionKey = a.actionKey /\ f[b].actionKey = b.actionKey
      OBVIOUS
    <2> HIDE DEF f
    <2> QED
      BY <1>2, <2>1 DEF Facts, TypeOK
  <1>4. f \in Surjection(NotAllowed, AdoptionResult.assignments)
    BY <1>1 DEF Surjection
  <1>5. f \in Injection(NotAllowed, AdoptionResult.assignments)
    BY <1>3, <1>4 DEF Surjection, Injection, IsInjective
  <1> HIDE DEF f
  <1>6. Cardinality(AdoptionResult.assignments) = Cardinality(NotAllowed)
    BY <1>2, <1>4, <1>5, FS_Surjection
  <1> QED
    BY <1>6

-----------------------------------------------------------------------------
(* Samples                                                                 *)

\* A nonempty finite set of naturals has a greatest element: the one with the fewest
\* above it.
LEMMA GreatestNatural ==
    ASSUME NEW S \in SUBSET Nat, IsFiniteSet(S), S # {}
    PROVE  \E m \in S : \A n \in S : n <= m
  <1> DEFINE above(n) == {x \in S : n < x}
             sizes == {Cardinality(above(n)) : n \in S}
  <1>1. \A n \in S : IsFiniteSet(above(n))
    BY FS_Subset
  <1>2. \A n \in S : Cardinality(above(n)) \in Nat
    BY <1>1, FS_CardinalityType
  <1>3. \A m, n \in S : n < m => above(m) \subseteq above(n) /\ m \in above(n) /\ m \notin above(m)
    <2> TAKE m, n \in S
    <2>1. m \in Nat /\ n \in Nat /\ \A x \in S : x \in Nat
      OBVIOUS
    <2>2. ~(m < m) /\ (n < m => \A x \in S : m < x => n < x)
      BY <2>1
    <2>3. \A k, x : x \in above(k) <=> x \in S /\ k < x
      OBVIOUS
    <2> HIDE DEF above
    <2> QED
      BY <2>2, <2>3, Zenon
  <1> HIDE DEF above
  <1>4. sizes \in SUBSET Nat /\ sizes # {}
    BY <1>2
  <1>5. PICK m \in S : \A n \in S : Cardinality(above(m)) <= Cardinality(above(n))
    <2>1. PICK size \in sizes : \A other \in sizes : size <= other
      BY <1>4, LeastNatural
    <2> QED
      BY <2>1
  <1>6. ASSUME NEW n \in S, m < n
        PROVE  FALSE
    <2>1. above(n) \subseteq above(m) /\ above(n) # above(m)
      BY <1>3, <1>6
    <2>2. Cardinality(above(n)) <= Cardinality(above(m)) /\ Cardinality(above(n)) # Cardinality(above(m))
      BY <1>1, <2>1, FS_Subset
    <2>3. Cardinality(above(m)) <= Cardinality(above(n))
      BY <1>5
    <2> QED
      BY <1>2, <2>2, <2>3
  <1> QED
    BY <1>6

\* What comes of the members of a finite set is no more than they are.
LEMMA NoMoreImages ==
    ASSUME NEW S, IsFiniteSet(S), NEW f, DOMAIN f = S
    PROVE  IsFiniteSet({f[x] : x \in S}) /\ Cardinality({f[x] : x \in S}) <= Cardinality(S)
  <1> DEFINE T == {f[x] : x \in S}
             h == [x \in S |-> f[x]]
  <1>1. h \in Surjection(S, T)
    BY DEF Surjection
  <1> HIDE DEF h, T
  <1>2. IsFiniteSet(T) /\ Cardinality(T) <= Cardinality(S)
    BY <1>1, FS_Surjection
  <1> QED
    BY <1>2 DEF T

LEMMA RecordedNumbers ==
    ASSUME Facts, NEW a \in actions
    PROVE  a.occurredAt \in Nat /\ a.actionKey \in Nat
  BY ResultAssumption DEF Facts, TypeOK

\* One before which, or after which, there is none is a sample.
LEMMA EndsAreSampled ==
    ASSUME NEW members, NEW a \in members,
           \/ \A c \in members : ~Earlier(c, a)
           \/ \A c \in members : ~Earlier(a, c)
    PROVE  a.actionKey \in SampleActionKeys(members)
  <1>1. SampleEnd \in Nat /\ 0 < SampleEnd
    BY ResultAssumption
  <1>2. CASE \A c \in members : ~Earlier(c, a)
    <2>1. {c \in members : Earlier(c, a)} = {}
      BY <1>2
    <2>2. Cardinality({c \in members : Earlier(c, a)}) < SampleEnd
      BY <1>1, <2>1, FS_EmptySet
    <2> QED
      BY <2>2 DEF SampleActionKeys
  <1>3. CASE \A c \in members : ~Earlier(a, c)
    <2>1. {c \in members : Earlier(a, c)} = {}
      BY <1>3
    <2>2. Cardinality({c \in members : Earlier(a, c)}) < SampleEnd
      BY <1>1, <2>1, FS_EmptySet
    <2> QED
      BY <2>2 DEF SampleActionKeys
  <1> QED
    BY <1>2, <1>3

\* The samples of a group reach from its first Action to its last.
LEMMA SamplesReachBothEnds ==
    ASSUME Facts, NEW operationOf, DOMAIN operationOf \subseteq actions, DOMAIN operationOf # {}
    PROVE  {Summary(operationOf).firstOccurredAt, Summary(operationOf).lastOccurredAt}
               \subseteq {a.occurredAt : a \in
                   {b \in actions : b.actionKey \in Summary(operationOf).sampleActionKeys}}
  <1> DEFINE members == DOMAIN operationOf
             timeOf == [a \in members |-> a.occurredAt]
             times == {timeOf[a] : a \in members}
             keys == SampleActionKeys(members)
  <1>1. IsFiniteSet(members)
    BY FS_Subset DEF Facts
  <1>2. \A a \in members : /\ a.occurredAt \in Nat /\ a.actionKey \in Nat
                           /\ timeOf[a] = a.occurredAt /\ a.occurredAt \in times
    BY RecordedNumbers
  <1>3. times \in SUBSET Nat /\ times # {} /\ IsFiniteSet(times)
    <2>1. DOMAIN timeOf = members /\ times \in SUBSET Nat /\ times # {}
      BY <1>2
    <2> HIDE DEF timeOf
    <2>2. IsFiniteSet(times)
      BY <1>1, <2>1, NoMoreImages
    <2> QED
      BY <2>1, <2>2
  <1>4. \A t \in times : \E a \in members : a.occurredAt = t
    OBVIOUS
  <1>5. times = {a.occurredAt : a \in members}
    OBVIOUS
  <1>6. members \subseteq actions
    OBVIOUS
  <1>7. /\ Summary(operationOf).sampleActionKeys = keys
        /\ Summary(operationOf).firstOccurredAt =
               CHOOSE t \in times : \A a \in members : t <= a.occurredAt
        /\ Summary(operationOf).lastOccurredAt =
               CHOOSE t \in times : \A a \in members : a.occurredAt <= t
    BY <1>5, SummaryCounts
  <1> HIDE DEF timeOf, times, keys, members
  <1> DEFINE at(t) == {a.actionKey : a \in {b \in members : b.occurredAt = t}}
  <1>8. \A t \in times : at(t) \in SUBSET Nat /\ at(t) # {}
    BY <1>2, <1>4
  <1>9. \E a \in members : /\ \A c \in members : a.occurredAt <= c.occurredAt /\ ~Earlier(c, a)
                           /\ a.actionKey \in keys
    <2>1. PICK t \in times : \A u \in times : t <= u
      BY <1>3, LeastNatural
    <2>2. PICK k \in at(t) : \A m \in at(t) : k <= m
      BY <1>8, LeastNatural
    <2>3. PICK a \in members : a.occurredAt = t /\ a.actionKey = k
      BY <2>2
    <2>4. \A c \in members : a.occurredAt <= c.occurredAt
      BY <1>2, <2>1, <2>3
    <2>5. \A c \in members : c.occurredAt = a.occurredAt => a.actionKey <= c.actionKey
      BY <2>2, <2>3
    <2> HIDE DEF at
    <2>6. \A c \in members : ~Earlier(c, a)
      BY <1>2, <2>4, <2>5 DEF Earlier
    <2> QED
      BY <2>4, <2>6, EndsAreSampled DEF keys
  <1>10. \A t \in times : IsFiniteSet(at(t))
    <2> TAKE t \in times
    <2> DEFINE S == {b \in members : b.occurredAt = t}
               keyOf == [b \in S |-> b.actionKey]
    <2>1. IsFiniteSet(S)
      BY <1>1, FS_Subset
    <2>2. {keyOf[b] : b \in S} = at(t) /\ DOMAIN keyOf = S
      OBVIOUS
    <2> HIDE DEF keyOf, S, at
    <2>3. IsFiniteSet({keyOf[b] : b \in S})
      BY <2>1, <2>2, NoMoreImages
    <2> QED
      BY <2>2, <2>3
  <1>11. \E a \in members : /\ \A c \in members : c.occurredAt <= a.occurredAt /\ ~Earlier(a, c)
                            /\ a.actionKey \in keys
    <2>1. PICK t \in times : \A u \in times : u <= t
      BY <1>3, GreatestNatural
    <2>2. PICK k \in at(t) : \A m \in at(t) : m <= k
      BY <1>8, <1>10, GreatestNatural
    <2>3. PICK a \in members : a.occurredAt = t /\ a.actionKey = k
      BY <2>2
    <2>4. \A c \in members : c.occurredAt <= a.occurredAt
      BY <1>2, <2>1, <2>3
    <2>5. \A c \in members : c.occurredAt = a.occurredAt => c.actionKey <= a.actionKey
      BY <2>2, <2>3
    <2> HIDE DEF at
    <2>6. \A c \in members : ~Earlier(a, c)
      BY <1>2, <2>4, <2>5 DEF Earlier
    <2> QED
      BY <2>4, <2>6, EndsAreSampled DEF keys
  <1>12. PICK first \in members :
             (\A c \in members : first.occurredAt <= c.occurredAt) /\ first.actionKey \in keys
    BY <1>9
  <1>13. PICK last \in members :
             (\A c \in members : c.occurredAt <= last.occurredAt) /\ last.actionKey \in keys
    BY <1>11
  <1>14. (CHOOSE t \in times : \A a \in members : t <= a.occurredAt) = first.occurredAt
    <2> DEFINE t == CHOOSE t \in times : \A a \in members : t <= a.occurredAt
    <2>1. t \in times /\ \A a \in members : t <= a.occurredAt
      BY <1>2, <1>12
    <2> HIDE DEF t
    <2>2. PICK a \in members : a.occurredAt = t
      BY <1>4, <2>1
    <2>3. t <= first.occurredAt /\ first.occurredAt <= t
      BY <1>12, <2>1, <2>2
    <2>4. t \in Nat /\ first.occurredAt \in Nat
      BY <1>2, <2>2
    <2>5. t = first.occurredAt
      BY <2>3, <2>4
    <2> QED
      BY <2>5 DEF t
  <1>15. (CHOOSE t \in times : \A a \in members : a.occurredAt <= t) = last.occurredAt
    <2> DEFINE t == CHOOSE t \in times : \A a \in members : a.occurredAt <= t
    <2>1. t \in times /\ \A a \in members : a.occurredAt <= t
      BY <1>2, <1>13
    <2> HIDE DEF t
    <2>2. PICK a \in members : a.occurredAt = t
      BY <1>4, <2>1
    <2>3. last.occurredAt <= t /\ t <= last.occurredAt
      BY <1>13, <2>1, <2>2
    <2>4. t \in Nat /\ last.occurredAt \in Nat
      BY <1>2, <2>2
    <2>5. t = last.occurredAt
      BY <2>3, <2>4
    <2> QED
      BY <2>5 DEF t
  <1> QED
    BY <1>6, <1>7, <1>12, <1>13, <1>14, <1>15

\* Samples are members: no two Actions have a key in common.
LEMMA SamplesAreMembers ==
    ASSUME Facts, NEW members \in SUBSET actions, NEW group,
           group.summary.sampleActionKeys = SampleActionKeys(members)
    PROVE  SamplesOf(group) \subseteq members
  <1>1. \A k \in SampleActionKeys(members) : \E a \in members : a.actionKey = k
    BY DEF SampleActionKeys
  <1>2. \A a, b \in actions : a.actionKey = b.actionKey => a = b
    BY DEF Facts, TypeOK
  <1> QED
    BY <1>1, <1>2 DEF SamplesOf

\* What is decided of an Action with Operations, when it is decided again.
LEMMA DecidedAgain ==
    ASSUME NEW operations, NEW document, DOMAIN operations # {}
    PROVE  /\ EvaluateAction(operations, document).effect = ActionEffect(operations, document)
           /\ DOMAIN EvaluateAction(operations, document).operations = DOMAIN operations
           /\ \A i \in DOMAIN operations :
                 /\ EvaluateAction(operations, document).operations[i] =
                        EvaluateOperation(operations[i], document)
                 /\ EvaluateAction(operations, document).operations[i].effect =
                        OperationEffect(operations[i], document)
  BY DEF EvaluateAction, EvaluateOperation, OperationEffect

\* The deciding id is that of a Rule of the document.
LEMMA DecidingRuleExists ==
    ASSUME NEW document \in PolicyDocument, NEW op,
           EvaluateOperation(op, document).decidingRuleId # Null
    PROVE  \E rule \in document.rules : rule.ruleId = EvaluateOperation(op, document).decidingRuleId
  <1> DEFINE matched == Matched(op, document)
             ids == {rule.ruleId : rule \in {r \in matched : r.effect = ResolveEffect(matched)}}
  <1>1. EvaluateOperation(op, document).decidingRuleId = DecidingRuleId(matched, ResolveEffect(matched))
    BY DEF EvaluateOperation
  <1>2. matched \subseteq document.rules /\ \A r \in matched : r.ruleId \in Nat
    BY DEF Matched, PolicyDocument, PolicyRule
  <1>3. ids \in SUBSET Nat
    BY <1>2
  <1>4. ids # {} /\ DecidingRuleId(matched, ResolveEffect(matched)) =
                        CHOOSE id \in ids : \A other \in ids : id <= other
    BY <1>1 DEF DecidingRuleId
  <1>5. DecidingRuleId(matched, ResolveEffect(matched)) \in ids
    BY <1>3, <1>4, LeastNatural
  <1> QED
    BY <1>1, <1>2, <1>5

LEMMA SamplesTell ==
    ASSUME Facts
    PROVE  SamplesShowTheirGroup(DiffResult, AdoptionResult)
  <1> DEFINE Sample(a) ==
        [action |-> a,
         targetKeys |-> [i \in DOMAIN a.operations |-> DeriveTargetKey(a.operations[i])],
         baselineDecision |-> EvaluateAction(a.operations, baseline),
         candidateDecision |-> EvaluateAction(a.operations, candidate),
         baselineRuleRationales |->
             DecidingRationales(EvaluateAction(a.operations, baseline), baseline),
         candidateRuleRationales |->
             DecidingRationales(EvaluateAction(a.operations, candidate), candidate)]
  <1>1. \A a : /\ Sample(a).action = a
               /\ Sample(a).targetKeys = [i \in DOMAIN a.operations |-> DeriveTargetKey(a.operations[i])]
               /\ Sample(a).baselineDecision = EvaluateAction(a.operations, baseline)
               /\ Sample(a).candidateDecision = EvaluateAction(a.operations, candidate)
               /\ Sample(a).candidateRuleRationales =
                      DecidingRationales(EvaluateAction(a.operations, candidate), candidate)
    OBVIOUS
  <1>2. \A g : DiffGroupSamples(g) = {Sample(a) : a \in DecidedSamples(g)}
    BY DEF DiffGroupSamples
  <1> HIDE DEF Sample
  <1>3. ASSUME NEW g \in DiffResult.groups
        PROVE  /\ SamplesOf(g) \subseteq ChangedInto(g)
               /\ g.summary.actionCount = Cardinality(ChangedInto(g))
    <2> DEFINE operationOf == [a \in ChangedInto(g) |-> SignatureOperationOf(a)]
    <2>1. g.summary = Summary(operationOf) /\ DOMAIN operationOf = ChangedInto(g)
      BY DiffRows
    <2> HIDE DEF operationOf
    <2>2. /\ g.summary.actionCount = Cardinality(ChangedInto(g))
          /\ g.summary.sampleActionKeys = SampleActionKeys(ChangedInto(g))
      BY <2>1, SummaryCounts
    <2>3. ChangedInto(g) \in SUBSET actions
      BY FinitelyMany
    <2> QED
      BY <2>2, <2>3, SamplesAreMembers
  <1>4. ASSUME NEW g \in DiffResult.groups, NEW s \in DiffGroupSamples(g)
        PROVE  /\ s.baselineDecision.effect # s.candidateDecision.effect
               /\ IsWider(s.baselineDecision.effect, s.candidateDecision.effect)
                      = (g.direction = "widening")
               /\ \E i \in DOMAIN s.action.operations :
                     /\ s.baselineDecision.operations[i].effect = g.groupKey.fromEffect
                     /\ s.candidateDecision.operations[i].effect = g.groupKey.toEffect
                     /\ s.targetKeys[i] \in {DeriveTargetKey(SignatureOperationOf(a)) : a \in Changed}
    <2>1. PICK a \in DecidedSamples(g) : s = Sample(a)
      BY <1>2
    <2>2. a \in Changed /\ Signature(a) = g.groupKey /\ a \in DiffGroup(g.groupKey).members
      BY <1>3, <2>1 DEF DecidedSamples, ChangedInto, DiffGroup
    <2>3. DOMAIN a.operations # {}
      BY <2>2, ChangedEffects DEF Facts
    <2>4. /\ s.baselineDecision.effect = FromEffect(a)
          /\ s.candidateDecision.effect = ToEffect(a)
          /\ \A i \in DOMAIN a.operations :
                /\ s.baselineDecision.operations[i].effect = FromEffectAt(a, i)
                /\ s.candidateDecision.operations[i].effect = ToEffectAt(a, i)
      BY <1>1, <2>1, <2>3, DecidedAgain DEF FromEffect, ToEffect, FromEffectAt, ToEffectAt
    <2>5. FromEffect(a) # ToEffect(a)
      BY <2>2 DEF Changed
    <2>6. Direction(a) = g.direction
      <3>1. DiffGroup(g.groupKey) \in DiffGroups
        BY <2>2 DEF DiffGroups
      <3>2. Direction(a) = DiffGroup(g.groupKey).direction
        BY <2>2, <3>1, OneDirection DEF Facts, GroupsHaveOneDirection
      <3> QED
        BY <3>2, DiffRows
    <2>7. IsWider(FromEffect(a), ToEffect(a)) = (g.direction = "widening")
      BY <2>6 DEF Direction, IsWider
    <2> DEFINE i == SignatureIndex(a)
    <2>8. i \in DOMAIN a.operations
      BY <2>2, SignatureIndexIsWorst DEF Facts, Differing
    <2>9. /\ g.groupKey.fromEffect = FromEffectAt(a, i)
          /\ g.groupKey.toEffect = ToEffectAt(a, i)
      BY <2>2 DEF Signature
    <2>10. s.targetKeys[i] = DeriveTargetKey(SignatureOperationOf(a))
      BY <1>1, <2>1, <2>8 DEF SignatureOperationOf
    <2>11. s.action = a
      BY <1>1, <2>1
    <2> HIDE DEF i
    <2> QED
      BY <2>2, <2>4, <2>5, <2>7, <2>8, <2>9, <2>10, <2>11
  <1>5. ASSUME NEW g \in DiffResult.groups,
               Cardinality(DiffGroupSamples(g)) = g.summary.actionCount
        PROVE  g.candidateRuleIds \subseteq
                   {rule.ruleId : rule \in UNION {s.candidateRuleRationales : s \in DiffGroupSamples(g)}}
    <2> DEFINE decided == DecidedSamples(g)
               f == [a \in decided |-> Sample(a)]
    <2>1. decided \subseteq ChangedInto(g) /\ IsFiniteSet(ChangedInto(g)) /\ IsFiniteSet(decided)
      <3>1. decided \subseteq ChangedInto(g)
        BY <1>3 DEF DecidedSamples
      <3> HIDE DEF decided
      <3> QED
        BY <3>1, FinitelyMany, FS_Subset
    <2>2. DiffGroupSamples(g) = {f[a] : a \in decided} /\ DOMAIN f = decided
      BY <1>2
    <2> HIDE DEF f
    <2>3. Cardinality(DiffGroupSamples(g)) <= Cardinality(decided)
      BY <2>1, <2>2, NoMoreImages
    <2>4. Cardinality(decided) <= Cardinality(ChangedInto(g))
      BY <2>1, FS_Subset
    <2>5. Cardinality(decided) = Cardinality(ChangedInto(g))
      <3>1. Cardinality(decided) \in Nat /\ Cardinality(ChangedInto(g)) \in Nat
        BY <2>1, FS_CardinalityType
      <3>2. Cardinality(DiffGroupSamples(g)) = Cardinality(ChangedInto(g))
        BY <1>3, <1>5
      <3> QED
        BY <2>3, <2>4, <3>1, <3>2
    <2>6. decided = ChangedInto(g)
      BY <2>1, <2>5, FS_Subset
    <2> SUFFICES ASSUME NEW id \in g.candidateRuleIds
                 PROVE  \E s \in DiffGroupSamples(g) : \E rule \in s.candidateRuleRationales :
                            rule.ruleId = id
      OBVIOUS
    <2>7. PICK a \in ChangedInto(g) :
              id = DecisionOn(a, SignatureIndex(a), candidate).decidingRuleId /\ id # Null
      <3>1. g.candidateRuleIds =
                RuleIds({DecisionOn(a, SignatureIndex(a), candidate) : a \in ChangedInto(g)})
        BY DiffRows
      <3> QED
        BY <3>1 DEF RuleIds
    <2> DEFINE i == SignatureIndex(a)
    <2>8. i \in DOMAIN a.operations
      BY SignatureIndexIsWorst DEF Facts, Differing, ChangedInto
    <2>9. id = EvaluateOperation(a.operations[i], candidate).decidingRuleId
      BY <2>7 DEF DecisionOn
    <2>10. candidate \in PolicyDocument
      BY EvidenceAssumption DEF Facts, TypeOK
    <2> HIDE DEF i
    <2>11. PICK rule \in candidate.rules : rule.ruleId = id
      BY <2>7, <2>9, <2>10, DecidingRuleExists
    <2>12. /\ EvaluateAction(a.operations, candidate).operations[i].decidingRuleId = rule.ruleId
           /\ i \in DOMAIN EvaluateAction(a.operations, candidate).operations
      BY <2>8, <2>9, <2>11, DecidedAgain
    <2>13. rule \in DecidingRationales(EvaluateAction(a.operations, candidate), candidate)
      BY <2>12 DEF DecidingRationales
    <2>14. Sample(a) \in DiffGroupSamples(g)
      BY <1>2, <2>6
    <2>15. rule \in Sample(a).candidateRuleRationales
      BY <1>1, <2>13
    <2> QED
      BY <2>11, <2>14, <2>15
  <1>6. ASSUME NEW g \in AdoptionResult.groups, NEW s \in AdoptionGroupSamples(g)
        PROVE  LET i == s.candidateDecision.decidingOperationIndex
               IN [effect |-> s.candidateDecision.effect,
                   capability |-> s.action.operations[i].capability,
                   zone |-> s.candidateDecision.operations[i].zone] = g.groupKey
    <2>1. PICK a \in DecidedSamples(g) :
              s.action = a /\ s.candidateDecision = EvaluateAction(a.operations, candidate)
      BY DEF AdoptionGroupSamples
    <2> DEFINE operationOf == [b \in AskedInto(g) |-> DecidingOperation(b)]
    <2>2. g.summary = Summary(operationOf) /\ DOMAIN operationOf = AskedInto(g)
      BY AdoptionRows
    <2> HIDE DEF operationOf
    <2>3. g.summary.sampleActionKeys = SampleActionKeys(AskedInto(g))
      BY <2>2, SummaryCounts
    <2>4. AskedInto(g) \in SUBSET actions
      BY FinitelyMany
    <2>5. a \in AskedInto(g)
      BY <2>1, <2>3, <2>4, SamplesAreMembers DEF DecidedSamples
    <2>6. AdoptionEntry(a) = g.groupKey
      BY <2>5 DEF AskedInto
    <2> QED
      BY <2>1, <2>6 DEF AdoptionEntry
  <1> QED
    BY <1>4, <1>5, <1>6 DEF SamplesShowTheirGroup

-----------------------------------------------------------------------------
(* The results agree                                                       *)

LEMMA StatsAre ==
    /\ DiffResult.stats.changedActions = Cardinality(Changed)
    /\ DiffResult.stats.evaluatedActions = Cardinality(Evaluated)
    /\ AdoptionResult.stats.totalActions = Cardinality(actions)
    /\ AdoptionResult.stats.evaluatedActions = Cardinality(Evaluated)
    /\ AdoptionResult.stats.analyzability = AnalyzabilityCounts(Evaluated)
    /\ \A e \in Effect :
          AdoptionResult.stats.effectCounts[e] = Cardinality({a \in Evaluated : ToEffect(a) = e})
  BY DEF DiffResult, ReplayStats, AdoptionResult

\* A group has members, which are Actions of the window.
LEMMA SampledEnds ==
    ASSUME Facts, NEW g \in DiffResult.groups \cup AdoptionResult.groups
    PROVE  {g.summary.firstOccurredAt, g.summary.lastOccurredAt} \subseteq
               {a.occurredAt : a \in {b \in actions : b.actionKey \in g.summary.sampleActionKeys}}
  <1>1. CASE g \in DiffResult.groups
    <2> DEFINE operationOf == [a \in ChangedInto(g) |-> SignatureOperationOf(a)]
    <2>1. g.summary = Summary(operationOf) /\ DOMAIN operationOf = ChangedInto(g)
      BY <1>1, DiffRows
    <2> HIDE DEF operationOf
    <2>2. ChangedInto(g) \subseteq actions
      BY FinitelyMany
    <2>3. ChangedInto(g) # {}
      BY <1>1, DiffRows DEF ChangedInto
    <2> QED
      BY <2>1, <2>2, <2>3, SamplesReachBothEnds
  <1>2. CASE g \in AdoptionResult.groups
    <2> DEFINE operationOf == [a \in AskedInto(g) |-> DecidingOperation(a)]
    <2>1. g.summary = Summary(operationOf) /\ DOMAIN operationOf = AskedInto(g)
      BY <1>2, AdoptionRows
    <2> HIDE DEF operationOf
    <2>2. AskedInto(g) \subseteq actions
      BY FinitelyMany
    <2>3. AskedInto(g) # {}
      BY <1>2, AdoptionRows DEF AskedInto
    <2> QED
      BY <2>1, <2>2, <2>3, SamplesReachBothEnds
  <1> QED
    BY <1>1, <1>2

\* The map's cells of an Effect are the Actions that have it.
LEMMA CellsOfEffect ==
    ASSUME Facts, NEW e \in Effect
    PROVE  Total([r \in {c \in AdoptionResult.stats.cells : c.cell.effect = e} |-> r.count]) =
               Cardinality({a \in Evaluated : ToEffect(a) = e})
  <1> DEFINE S == {a \in Evaluated : ToEffect(a) = e}
             cells == {c \in AdoptionResult.stats.cells : c.cell.effect = e}
  <1>1. \A a \in Evaluated : MatrixCell(a).effect = ToEffect(a)
    BY EntryIsCell DEF Facts
  <1>2. /\ S \in SUBSET Evaluated /\ cells \in SUBSET AdoptionResult.stats.cells
        /\ \A c \in cells : \A a \in Evaluated : MatrixCell(a) = c.cell => a \in S
        /\ \A c \in AdoptionResult.stats.cells : \A a \in S : MatrixCell(a) = c.cell => c \in cells
    BY <1>1
  <1> HIDE DEF S, cells
  <1>3. Total([r \in cells |-> r.count]) = Cardinality(S)
    BY <1>2, CellsCount
  <1> QED
    BY <1>3 DEF S, cells

LEMMA CountsOfBothAgree ==
    ASSUME Facts
    PROVE  CountsAgree(DiffResult, AdoptionResult)
  <1>1. ASSUME NEW e \in Effect
        PROVE  /\ Total([r \in {[from |-> f, count |-> DiffResult.stats.transitions[<<f, e>>]] :
                                    f \in Effect} |-> r.count])
                      = AdoptionResult.stats.effectCounts[e]
               /\ Total([r \in {c \in AdoptionResult.stats.cells : c.cell.effect = e} |-> r.count])
                      = AdoptionResult.stats.effectCounts[e]
    <2>1. AdoptionResult.stats.effectCounts[e] = Cardinality({a \in Evaluated : ToEffect(a) = e})
      BY StatsAre
    <2> QED
      BY <2>1, TransitionsInto, CellsOfEffect
  <1>2. Total([g \in DiffResult.groups |-> g.summary.actionCount]) = DiffResult.stats.changedActions
    BY DiffGroupsCount, StatsAre
  <1>3. LET moved == {t \in Effect \X Effect : t[1] # t[2]}
            rows == {[t |-> t, count |-> DiffResult.stats.transitions[t]] : t \in moved}
        IN Total([r \in rows |-> r.count]) = DiffResult.stats.changedActions
    BY TransitionsThatChange, StatsAre
  <1>4. Total([g \in AdoptionResult.groups |-> g.summary.actionCount]) =
            Cardinality(AdoptionResult.assignments)
    BY AdoptionGroupsCount, AssignmentsCount
  <1>5. \A g \in DiffResult.groups \cup AdoptionResult.groups :
            {g.summary.firstOccurredAt, g.summary.lastOccurredAt} \subseteq
                {a.occurredAt : a \in {b \in actions : b.actionKey \in g.summary.sampleActionKeys}}
    BY SampledEnds
  <1> QED
    BY <1>1, <1>2, <1>3, <1>4, <1>5, Zenon DEF CountsAgree

\* The Operations of a capability are as many as the cells of it count, or more.
LEMMA CellsOfCapability ==
    ASSUME Facts, NEW c \in Capability
    PROVE  Total([r \in {cell \in AdoptionResult.stats.cells : cell.cell.capability = c} |-> r.count])
               <= ActivityOverview.capabilityCounts[c]
  <1> DEFINE S == {a \in Evaluated : MatrixCell(a).capability = c}
             cells == {cell \in AdoptionResult.stats.cells : cell.cell.capability = c}
             at(a) == {<<a, i>> : i \in DOMAIN a.operations}
             places == UNION {at(a) : a \in actions}
             Of == {p \in places : p[1].operations[p[2]].capability = c}
             deciding(a) == DecidingOperationIndex(a.operations, candidate)
             f == [a \in S |-> <<a, deciding(a)>>]
  <1>1. /\ S \in SUBSET Evaluated /\ cells \in SUBSET AdoptionResult.stats.cells
        /\ \A cell \in cells : \A a \in Evaluated : MatrixCell(a) = cell.cell => a \in S
        /\ \A cell \in AdoptionResult.stats.cells : \A a \in S :
              MatrixCell(a) = cell.cell => cell \in cells
    OBVIOUS
  <1>2. Total([r \in cells |-> r.count]) = Cardinality(S)
    <2> HIDE DEF S, cells
    <2> QED
      BY <1>1, CellsCount
  <1>3. ActivityOverview.capabilityCounts[c] = Cardinality(Of)
    BY DEF ActivityOverview
  <1>4. IsFiniteSet(Of)
    <2>1. \A a \in actions : IsFiniteSet(at(a))
      <3> TAKE a \in actions
      <3> DEFINE pair == [i \in DOMAIN a.operations |-> <<a, i>>]
      <3>1. IsFiniteSet(DOMAIN a.operations)
        BY EvidenceAssumption DEF Facts, TypeOK, IsOperations
      <3>2. at(a) = {pair[i] : i \in DOMAIN a.operations} /\ DOMAIN pair = DOMAIN a.operations
        OBVIOUS
      <3> HIDE DEF pair, at
      <3> QED
        BY <3>1, <3>2, NoMoreImages
    <2> DEFINE all == [a \in actions |-> at(a)]
    <2>2. {at(a) : a \in actions} = {all[a] : a \in actions} /\ DOMAIN all = actions
      OBVIOUS
    <2> HIDE DEF all, at
    <2>3. IsFiniteSet({at(a) : a \in actions})
      BY <2>2, NoMoreImages DEF Facts
    <2>4. \A T \in {at(a) : a \in actions} : IsFiniteSet(T)
      BY <2>1
    <2> DEFINE sets == {at(a) : a \in actions}
    <2> HIDE DEF sets
    <2>5. IsFiniteSet(UNION sets)
      BY <2>3, <2>4, FS_UNION DEF sets
    <2>6. IsFiniteSet(places)
      BY <2>5 DEF sets
    <2> HIDE DEF places
    <2> QED
      BY <2>6, FS_Subset
  <1>5. ASSUME NEW a \in S
        PROVE  f[a] \in Of /\ f[a][1] = a
    <2>1. a \in Evaluated /\ a \in actions
      BY FinitelyMany
    <2>2. deciding(a) \in DOMAIN a.operations
      BY <2>1, DecidingIsThere DEF Facts
    <2>3. a.operations[deciding(a)].capability = c
      BY DEF MatrixCell
    <2>4. f[a] = <<a, deciding(a)>>
      OBVIOUS
    <2> HIDE DEF deciding, f, S
    <2>5. <<a, deciding(a)>> \in at(a)
      BY <2>2
    <2> QED
      BY <2>1, <2>3, <2>4, <2>5
  <1> HIDE DEF f, Of
  <1>6. f \in [S -> Of]
    BY <1>5 DEF f
  <1>7. \A a, b \in S : f[a] = f[b] => a = b
    BY <1>5
  <1> HIDE DEF S, cells
  <1>8. Cardinality(S) <= Cardinality(Of)
    BY <1>4, <1>6, <1>7, NoMoreThan
  <1> QED
    BY <1>2, <1>3, <1>8 DEF cells

\* What is rounded is off by no more than half of a tenth of a percent.
LEMMA RatioBounds ==
    ASSUME NEW part \in Nat, NEW whole \in Nat, 0 < whole
    PROVE  /\ Ratio(part, whole) \in Nat
           /\ 2 * (whole * Ratio(part, whole)) <= 2000 * part + whole
           /\ 2000 * part + whole < 2 * (whole * Ratio(part, whole)) + 2 * whole
  <1> DEFINE n == 2000 * part + whole
             d == 2 * whole
             q == n \div d
  <1>1. n \in Nat /\ d \in Nat /\ 0 < d
    OBVIOUS
  <1>2. Ratio(part, whole) = q
    BY DEF Ratio
  <1> HIDE DEF n, d
  <1>3. q \in Nat /\ d * q <= n /\ n < d * q + d
    BY <1>1
  <1> HIDE DEF q
  <1>4. (2 * whole) * q = 2 * (whole * q)
    BY <1>3
  <1> QED
    BY <1>2, <1>3, <1>4 DEF n, d

LEMMA Monotonic ==
    ASSUME NEW w \in Nat, NEW a \in Int, NEW b \in Int, a <= b
    PROVE  w * a <= w * b
  OBVIOUS

\* A part is no more than all of it.
LEMMA PartRatio ==
    ASSUME NEW whole \in Nat, NEW part \in Nat, part <= whole
    PROVE  Ratio(part, whole) <= 1000
  <1>1. CASE whole = 0
    BY <1>1 DEF Ratio
  <1>2. CASE 0 < whole
    <2> DEFINE q == Ratio(part, whole)
    <2>1. q \in Nat /\ 2 * (whole * q) <= 2000 * part + whole
      BY <1>2, RatioBounds
    <2> HIDE DEF q
    <2>2. ASSUME 1001 <= q PROVE FALSE
      <3>1. whole * 1001 <= whole * q
        BY <2>1, <2>2, Monotonic
      <3>2. whole * q \in Nat
        BY <2>1
      <3> QED
        BY <1>2, <2>1, <3>1, <3>2
    <2>3. q <= 1000
      BY <2>1, <2>2
    <2> QED
      BY <2>3 DEF q
  <1> QED
    BY <1>1, <1>2

\* Three parts that are all of it make up a hundred percent but for their rounding.
LEMMA ThreeShares ==
    ASSUME NEW x \in Nat, NEW y \in Nat, NEW z \in Nat, NEW whole \in Nat, 0 < whole,
           x + y + z = whole
    PROVE  Ratio(x, whole) + Ratio(y, whole) + Ratio(z, whole) \in 999 .. 1001
  <1> DEFINE a == Ratio(x, whole)
             b == Ratio(y, whole)
             c == Ratio(z, whole)
             wa == whole * a
             wb == whole * b
             wc == whole * c
  <1>1. /\ a \in Nat /\ 2 * wa <= 2000 * x + whole /\ 2000 * x + whole < 2 * wa + 2 * whole
        /\ b \in Nat /\ 2 * wb <= 2000 * y + whole /\ 2000 * y + whole < 2 * wb + 2 * whole
        /\ c \in Nat /\ 2 * wc <= 2000 * z + whole /\ 2000 * z + whole < 2 * wc + 2 * whole
    <2>1. a \in Nat /\ 2 * wa <= 2000 * x + whole /\ 2000 * x + whole < 2 * wa + 2 * whole
      BY RatioBounds
    <2>2. b \in Nat /\ 2 * wb <= 2000 * y + whole /\ 2000 * y + whole < 2 * wb + 2 * whole
      BY RatioBounds
    <2>3. c \in Nat /\ 2 * wc <= 2000 * z + whole /\ 2000 * z + whole < 2 * wc + 2 * whole
      BY RatioBounds
    <2> QED
      BY <2>1, <2>2, <2>3
  <1> HIDE DEF a, b, c
  <1>2. wa \in Nat /\ wb \in Nat /\ wc \in Nat /\ whole * (a + b + c) = wa + wb + wc
    BY <1>1
  <1>3. a + b + c \in Nat
    BY <1>1
  <1> DEFINE q == a + b + c
             wq == whole * q
  <1>4. wq = wa + wb + wc
    BY <1>2
  <1> HIDE DEF wa, wb, wc
  <1>5. 2 * wq <= 2003 * whole /\ 2003 * whole < 2 * wq + 6 * whole /\ wq \in Nat
    BY <1>1, <1>2, <1>4
  <1>6. q \in Nat
    BY <1>3
  <1> HIDE DEF q
  <1>7. ASSUME 1002 <= q PROVE FALSE
    <2>1. whole * 1002 <= wq
      BY <1>6, <1>7, Monotonic
    <2> HIDE DEF wq
    <2> QED
      BY <1>5, <2>1
  <1>8. ASSUME q <= 998 PROVE FALSE
    <2>1. wq <= whole * 998
      BY <1>6, <1>8, Monotonic
    <2> HIDE DEF wq
    <2> QED
      BY <1>5, <2>1
  <1>9. q \in 999 .. 1001
    BY <1>6, <1>7, <1>8
  <1> QED
    BY <1>9 DEF q, a, b, c

\* The Effects part the evaluated Actions.
LEMMA EffectsMakeUp ==
    ASSUME Facts
    PROVE  LET Of(e) == Cardinality({a \in Evaluated : ToEffect(a) = e})
           IN /\ \A e \in Effect : Of(e) \in Nat
              /\ Of("allow") + Of("ask") + Of("deny") = Cardinality(Evaluated)
  <1> DEFINE allowed == {a \in Evaluated : ToEffect(a) = "allow"}
             asked == {a \in Evaluated : ToEffect(a) = "ask"}
             denied == {a \in Evaluated : ToEffect(a) = "deny"}
  <1>1. \A a \in Evaluated : ToEffect(a) \in {"allow", "ask", "deny"}
    BY EvaluatedEffects DEF Effect
  <1>2. IsFiniteSet(Evaluated)
    BY FinitelyMany
  <1>3. /\ allowed \cup asked \cup denied = Evaluated
        /\ allowed \cap asked = {} /\ (allowed \cup asked) \cap denied = {}
        /\ allowed \subseteq Evaluated /\ asked \subseteq Evaluated /\ denied \subseteq Evaluated
    BY <1>1
  <1> HIDE DEF allowed, asked, denied
  <1>4. IsFiniteSet(allowed) /\ IsFiniteSet(asked) /\ IsFiniteSet(denied)
    BY <1>2, <1>3, FS_Subset
  <1>5. /\ Cardinality(allowed) \in Nat /\ Cardinality(asked) \in Nat /\ Cardinality(denied) \in Nat
        /\ Cardinality({}) = 0
    BY <1>4, FS_CardinalityType, FS_EmptySet
  <1>6. /\ IsFiniteSet(allowed \cup asked)
        /\ Cardinality(allowed \cup asked) =
               Cardinality(allowed) + Cardinality(asked) - Cardinality(allowed \cap asked)
    BY <1>4, FS_Union
  <1>7. Cardinality((allowed \cup asked) \cup denied) =
            Cardinality(allowed \cup asked) + Cardinality(denied)
                - Cardinality((allowed \cup asked) \cap denied)
    BY <1>4, <1>6, FS_Union
  <1>8. Cardinality(allowed) + Cardinality(asked) + Cardinality(denied) = Cardinality(Evaluated)
    <2>1. /\ Cardinality(allowed \cap asked) = 0
          /\ Cardinality((allowed \cup asked) \cap denied) = 0
          /\ Cardinality((allowed \cup asked) \cup denied) = Cardinality(Evaluated)
      BY <1>3, <1>5, Zenon
    <2>2. Cardinality(allowed \cup asked) = Cardinality(allowed) + Cardinality(asked)
      BY <1>5, <1>6, <2>1
    <2> QED
      BY <1>5, <1>7, <2>1, <2>2
  <1> QED
    BY <1>5, <1>8 DEF allowed, asked, denied, Effect

\* What is not analyzable and not allowed is counted among what is not analyzable: the
\* deciding Operation is one of the Action's, and the worst of them counts.
LEMMA NoneAmongAll ==
    ASSUME Facts
    PROVE  Cardinality({a \in NotAllowed : DecidingOperation(a).analyzability = "none"})
               <= AnalyzabilityCounts(Evaluated)["none"]
  <1> DEFINE some == {a \in NotAllowed : DecidingOperation(a).analyzability = "none"}
             all == {a \in Evaluated : ActionAnalyzability(a) = "none"}
  <1>1. AnalyzabilityCounts(Evaluated)["none"] = Cardinality(all)
    BY DEF AnalyzabilityCounts, Analyzability
  <1>2. ASSUME NEW a \in some
        PROVE  a \in all
    <2> DEFINE found == {a.operations[i].analyzability : i \in DOMAIN a.operations}
    <2>1. a \in Evaluated /\ a \in actions
      BY FinitelyMany
    <2>2. "none" \in found
      BY <2>1, DecidingIsThere DEF Facts, DecidingOperation
    <2>3. found \subseteq {"full", "partial", "none"}
      BY <2>1, EvidenceAssumption DEF Facts, TypeOK, IsOperations, Operation, Analyzability
    <2> DEFINE worst == CHOOSE w \in found : \A other \in found :
                            AnalyzabilityRank[other] <= AnalyzabilityRank[w]
    <2>4. ActionAnalyzability(a) = worst
      BY DEF ActionAnalyzability
    <2> HIDE DEF found
    <2>5. \A other \in found : AnalyzabilityRank[other] <= AnalyzabilityRank["none"]
      <3>1. \A n \in {"full", "partial", "none"} : AnalyzabilityRank[n] <= AnalyzabilityRank["none"]
        BY DEF AnalyzabilityRank
      <3> QED
        BY <2>3, <3>1
    <2>6. worst \in found /\ AnalyzabilityRank["none"] <= AnalyzabilityRank[worst]
      BY <2>2, <2>5
    <2> HIDE DEF worst
    <2>7. worst = "none"
      BY <2>3, <2>6 DEF AnalyzabilityRank
    <2> QED
      BY <2>1, <2>4, <2>7
  <1>3. IsFiniteSet(all)
    BY FinitelyMany, FS_Subset
  <1>4. some \subseteq all
    BY <1>2
  <1> HIDE DEF some, all
  <1>5. Cardinality(some) <= Cardinality(all)
    BY <1>3, <1>4, FS_Subset
  <1> QED
    BY <1>1, <1>5 DEF some

\* Every Diff Group is in the section of its direction.
LEMMA Directions ==
    \A g \in DiffResult.groups : g.direction \in {"widening", "narrowing"}
  <1> TAKE g \in DiffResult.groups
  <1>1. g.direction = DiffGroup(g.groupKey).direction
    BY DiffRows
  <1>2. \A a : Direction(a) \in {"widening", "narrowing"}
    BY DEF Direction
  <1> QED
    BY <1>1, <1>2 DEF DiffGroup

LEMMA FiguresOfBothAgree ==
    ASSUME Facts
    PROVE  FiguresAgree(DiffResult, AdoptionResult)
  <1> DEFINE diff == DiffResult
             result == AdoptionResult
             overview == ActivityOverview
             change == ChangeReport(diff)
             adoption == AdoptionReport(result)
             N == Cardinality(Evaluated)
             Of(e) == Cardinality({a \in Evaluated : ToEffect(a) = e})
             changedNone == {a \in Changed : SignatureOperationOf(a).analyzability = "none"}
             askedNone == {a \in NotAllowed : DecidingOperation(a).analyzability = "none"}
  <1>1. /\ overview.actionCount = Cardinality(actions)
        /\ overview.evaluableActionCount = N
        /\ overview.analyzability = AnalyzabilityCounts(Evaluated)
    BY DEF ActivityOverview, Evaluated
  <1>2. /\ change.transitions = TransitionRows(diff.stats.transitions)
        /\ change.sections = GroupSections(diff.groups)
        /\ change.noneRatio.evaluated = N
        /\ change.noneRatio.changed = Cardinality(Changed)
        /\ change.noneRatio.none = NoneCountOf(diff.groups)
        /\ change.noneRatio.share = Ratio(NoneCountOf(diff.groups), Cardinality(Changed))
    BY StatsAre DEF ChangeReport, NoneRatio
  <1>3. /\ adoption.scale.total = Cardinality(actions)
        /\ adoption.scale.evaluated = N
        /\ adoption.scale.none = AnalyzabilityCounts(Evaluated)["none"]
    BY StatsAre DEF AdoptionReport, AdoptionScale
  <1>4. \A e \in Effect : adoption.effects[e].share = Ratio(Of(e), N)
    BY StatsAre DEF AdoptionReport, EffectRows
  <1>5. \A e \in {"ask", "deny"} : adoption.tables[e] = {g \in result.groups : g.groupKey.effect = e}
    BY DEF AdoptionReport, AdoptionGroupTable
  <1>6. NoneCountOf(diff.groups) = Cardinality(changedNone)
    BY DiffGroupsCount DEF NoneCountOf
  <1>7. NoneCountOf(result.groups) = Cardinality(askedNone)
    BY AdoptionGroupsCount DEF NoneCountOf
  <1>8. /\ Cardinality(changedNone) \in Nat /\ Cardinality(Changed) \in Nat
        /\ Cardinality(changedNone) <= Cardinality(Changed) /\ N \in Nat
    <2>1. changedNone \subseteq Changed
      OBVIOUS
    <2> HIDE DEF changedNone
    <2> QED
      BY <2>1, FinitelyMany, FS_Subset, FS_CardinalityType
  <1>9. Total([r \in change.transitions |-> r.count]) = change.noneRatio.evaluated
    BY <1>2, TransitionsShown
  <1>10. \A c \in Capability :
             Total([r \in {cell \in result.stats.cells : cell.cell.capability = c} |-> r.count])
                 <= overview.capabilityCounts[c]
    BY CellsOfCapability
  <1>11. change.noneRatio.none <= change.noneRatio.changed /\ change.noneRatio.share <= 1000
    BY <1>2, <1>6, <1>8, PartRatio
  <1>12. NoneCountOf(result.groups) <= adoption.scale.none
    BY <1>3, <1>7, NoneAmongAll
  <1>13. adoption.scale.evaluated > 0 =>
             adoption.effects["allow"].share + adoption.effects["ask"].share
                 + adoption.effects["deny"].share \in 999 .. 1001
    <2>1. /\ Of("allow") \in Nat /\ Of("ask") \in Nat /\ Of("deny") \in Nat
          /\ Of("allow") + Of("ask") + Of("deny") = N
      BY EffectsMakeUp DEF Effect
    <2>2. /\ adoption.effects["allow"].share = Ratio(Of("allow"), N)
          /\ adoption.effects["ask"].share = Ratio(Of("ask"), N)
          /\ adoption.effects["deny"].share = Ratio(Of("deny"), N)
      BY <1>4 DEF Effect
    <2> HIDE DEF Of, N, adoption
    <2> QED
      BY <1>3, <1>8, <2>1, <2>2, ThreeShares
  <1>14. \A g \in diff.groups : g \in change.sections[g.direction]
    BY <1>2, Directions DEF GroupSections
  <1>15. \A g \in adoption.tables["ask"], h \in adoption.tables["deny"] : ~ComesFirst(g, h)
    BY <1>5 DEF ComesFirst, ReviewOrder
  <1>16. UNION {adoption.tables[e] : e \in {"ask", "deny"}} = result.groups
    <2>1. \A g \in result.groups : g.groupKey.effect \in {"ask", "deny"}
      BY AdoptionRows
    <2> HIDE DEF adoption, result
    <2> QED
      BY <1>5, <2>1
  <1>17. /\ overview.actionCount = adoption.scale.total
         /\ overview.evaluableActionCount = change.noneRatio.evaluated
         /\ overview.analyzability["none"] = adoption.scale.none
    BY <1>1, <1>2, <1>3
  <1> HIDE DEF diff, result, overview, change, adoption
  <1>18. FiguresAgree(diff, result)
    BY <1>9, <1>10, <1>11, <1>12, <1>13, <1>14, <1>15, <1>16, <1>17, Zenon
       DEF FiguresAgree, overview, change, adoption
  <1> QED
    BY <1>18 DEF diff, result

LEMMA FiniteImports == Spec => []Facts
  <1>1. Init => IsFiniteSet(actions)
    BY FS_EmptySet DEF Init
  <1>2. IsFiniteSet(actions) /\ [Next]_vars => IsFiniteSet(actions)'
    <2> SUFFICES ASSUME IsFiniteSet(actions), [Next]_vars PROVE IsFiniteSet(actions')
      OBVIOUS
    <2>1. CASE actions' = actions
      BY <2>1
    <2>2. ASSUME NEW a \in Recorded, Import(a) PROVE IsFiniteSet(actions')
      BY <2>2, FS_AddElement DEF Import
    <2> QED
      BY <2>1, <2>2 DEF Next, UpdateDraftDocument, Accept, vars
  <1> QED
    BY <1>1, <1>2, TypesHold, PTL DEF Spec, Facts

\* Whatever the documents and the Actions are: what computeDiff and computeAdoption
\* return, the samples decided anew and the figures of the report and the overview tell
\* the same of the same Actions (packages/replay/lib/domain,
\* packages/review/lib/domain/report.ts, packages/trace/lib/domain/activity-overview.ts).
THEOREM ResultsTellTheSame == Spec => []ResultsAgree
  <1>1. Facts => ResultsAgree
    BY CountsOfBothAgree, SamplesTell, FiguresOfBothAgree DEF ResultsAgree
  <1> QED
    BY <1>1, FiniteImports, PTL
=============================================================================
