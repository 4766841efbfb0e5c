--------------------------- MODULE ReplayEvidence ---------------------------
(***************************************************************************)
(* What a replay puts before a reviewer: the Diff Groups between the       *)
(* baseline and the candidate, and the Adoption Groups and the authority   *)
(* map of the candidate (packages/replay/lib/domain), over the recorded    *)
(* Actions, while drafts are edited, versions accepted and Actions         *)
(* imported.                                                               *)
(***************************************************************************)
EXTENDS PolicyEvaluation

CONSTANTS
    Document,    \* Policy Documents that a draft may be given
    Recorded     \* Actions that an import may bring

ASSUME EvidenceAssumption ==
    /\ Document \subseteq PolicyDocument
    /\ \A a \in Recorded : IsOperations(a.operations)

VARIABLES
    baseline,    \* the document of the accepted version
    candidate,   \* the document of the draft
    actions      \* agent_actions in the window

vars == <<baseline, candidate, actions>>

-----------------------------------------------------------------------------

TypeOK ==
    /\ baseline \in Document
    /\ candidate \in Document
    /\ actions \subseteq Recorded
    /\ \A a, b \in actions : a.actionKey = b.actionKey => a = b

\* A draft starts as a copy of the version it is made from; upgrading a document to
\* the current schema version adds no Mandate Exception, so nothing it decides.
Init ==
    /\ baseline \in Document
    /\ candidate = baseline
    /\ actions = {}

\* An edit that finds its draft as it read it; PolicyVersions has the others.
UpdateDraftDocument(document) ==
    /\ candidate' = document
    /\ UNCHANGED <<baseline, actions>>

\* The candidate is accepted, as ChangeReview lets it be, and a draft is made from it.
Accept ==
    /\ baseline' = candidate
    /\ UNCHANGED <<candidate, actions>>

\* One row for a key: an insert that meets the key of another Action does nothing.
Import(a) ==
    /\ \A b \in actions : b.actionKey # a.actionKey
    /\ actions' = actions \cup {a}
    /\ UNCHANGED <<baseline, candidate>>

Next ==
    \/ \E document \in Document : UpdateDraftDocument(document)
    \/ Accept
    \/ \E a \in Recorded : Import(a)

Spec == Init /\ [][Next]_vars

-----------------------------------------------------------------------------
(* computeDiffWith                                                         *)

Evaluated == {a \in actions : DOMAIN a.operations # {}}

FromEffect(a) == ActionEffect(a.operations, baseline)
ToEffect(a) == ActionEffect(a.operations, candidate)

Changed == {a \in Evaluated : FromEffect(a) # ToEffect(a)}

Direction(a) == IF IsWider(FromEffect(a), ToEffect(a)) THEN "widening" ELSE "narrowing"

\* The Effects of one Operation of an Action.
FromEffectAt(a, i) == OperationEffect(a.operations[i], baseline)
ToEffectAt(a, i) == OperationEffect(a.operations[i], candidate)

Differing(a) == {i \in DOMAIN a.operations : FromEffectAt(a, i) # ToEffectAt(a, i)}

\* How restrictive an Operation was, of a widening, or is, of a narrowing.
SignatureRank(a, i) ==
    EffectRank[IF Direction(a) = "widening" THEN FromEffectAt(a, i) ELSE ToEffectAt(a, i)]

\* Mutant of SignatureIndex: the first Operation that differs.
FirstDiffering(a) == CHOOSE i \in Differing(a) : \A j \in Differing(a) : i <= j

\* The first of the most restrictive Operations that differ.
SignatureIndex(a) ==
    CHOOSE i \in Differing(a) :
        \A j \in Differing(a) :
            \/ SignatureRank(a, j) < SignatureRank(a, i)
            \/ SignatureRank(a, j) = SignatureRank(a, i) /\ i <= j

Signature(a) ==
    LET i == SignatureIndex(a)
        op == a.operations[i]
    IN [fromEffect |-> FromEffectAt(a, i),
        toEffect |-> ToEffectAt(a, i),
        capability |-> op.capability,
        fromZone |-> ResolveZone(op, baseline.environment),
        toZone |-> ResolveZone(op, candidate.environment),
        program |-> op.program]

CriticalBaselineZones ==
    {"credentials", "agent_config", "protected", "public_remote", "unknown_remote"}

\* A Diff Group: its direction is that of the entry that comes first.
DiffGroup(signature) ==
    LET members == {a \in Changed : Signature(a) = signature}
        first == CHOOSE a \in members : TRUE
        SignatureOperation(a) == a.operations[SignatureIndex(a)]
    IN [signature |-> signature,
        direction |-> Direction(first),
        members |-> members,
        isCritical |->
            /\ Direction(first) = "widening"
            /\ \/ signature.fromZone \in CriticalBaselineZones
               \/ \E a \in members :
                    \/ ReversibilityFor(signature.capability, signature.fromZone) = "irreversible"
                    \/ SignatureOperation(a).analyzability = "none"]

DiffGroups == {DiffGroup(Signature(a)) : a \in Changed}

\* Operations that widened; they are counted when the Action's Effect is the same.
OperationWidening(a) == {i \in DOMAIN a.operations : IsWider(FromEffectAt(a, i), ToEffectAt(a, i))}

-----------------------------------------------------------------------------
(* computeAdoptionWith and buildMatrix, of the candidate alone              *)

\* Mutant of AdoptionEntry: the first Operation stands for the Action.
AdoptionEntryOfFirst(a) ==
    LET i == CHOOSE i \in DOMAIN a.operations : \A j \in DOMAIN a.operations : i <= j
        op == a.operations[i]
    IN [effect |-> ToEffect(a), capability |-> op.capability,
        zone |-> ResolveZone(op, candidate.environment)]

\* The deciding Operation stands for the Action.
AdoptionEntry(a) ==
    LET decision == EvaluateAction(a.operations, candidate)
        i == decision.decidingOperationIndex
    IN [effect |-> decision.effect,
        capability |-> a.operations[i].capability,
        zone |-> decision.operations[i].zone]

AdoptionGroups ==
    {[signature |-> AdoptionEntry(a),
      members |-> {b \in Evaluated : AdoptionEntry(b) = AdoptionEntry(a)}] :
     a \in {b \in Evaluated : ToEffect(b) # "allow"}}

\* The deciding Operation's capability and Zone, and the Action's Effect.
MatrixCell(a) ==
    LET i == DecidingOperationIndex(a.operations, candidate)
        op == a.operations[i]
    IN [capability |-> op.capability,
        zone |-> ResolveZone(op, candidate.environment),
        effect |-> ActionEffect(a.operations, candidate)]

MatrixCount(cell) == Cardinality({a \in Evaluated : MatrixCell(a) = cell})

-----------------------------------------------------------------------------

\* The gate of a review asks for verdicts on the widening groups, and buildGroup
\* takes the direction of a group from whichever entry comes first: the Actions of
\* a group all widen or all narrow, as their signature Operation does.
GroupsHaveOneDirection ==
    \A g \in DiffGroups : \A a \in g.members :
        /\ Direction(a) = g.direction
        /\ (g.direction = "widening") =
               IsWider(g.signature.fromEffect, g.signature.toEffect)

\* Tighter: the same Environment Profile, allow Rules at most dropped and ask and
\* deny Rules at most added.
IsTighter(from, to) ==
    /\ from.environment = to.environment
    /\ \A rule \in to.rules \ from.rules : rule.effect # "allow"
    /\ \A rule \in from.rules \ to.rules : rule.effect = "allow"

\* "adding an `ask` or `deny` Rule widens no Action, adding an `allow` Rule narrows
\* no Action" (docs/design.md:2212), for any number of such edits and their
\* inverses: a tighter candidate has no widening group, and none of the Operations
\* of an Action whose Effect is the same widened; a looser one no narrowing group.
OneWayEditsMoveOneWay ==
    /\ IsTighter(baseline, candidate) =>
           /\ \A g \in DiffGroups : g.direction = "narrowing"
           /\ \A a \in Evaluated \ Changed : OperationWidening(a) = {}
    /\ IsTighter(candidate, baseline) =>
           \A g \in DiffGroups : g.direction = "widening"

\* The Adoption Groups of a first review and the authority map are counted apart,
\* and are shown together: an ask or deny cell of the map is an Adoption Group and
\* counts its Actions.
AdoptionAgreesWithMap ==
    LET cells == {MatrixCell(a) : a \in Evaluated}
    IN /\ {g.signature : g \in AdoptionGroups} = {c \in cells : c.effect # "allow"}
       /\ \A g \in AdoptionGroups : Cardinality(g.members) = MatrixCount(g.signature)
=============================================================================
