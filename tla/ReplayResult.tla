---------------------------- MODULE ReplayResult ----------------------------
(***************************************************************************)
(* What computeDiff and computeAdoption return of the groups and counts of *)
(* ReplayEvidence: the rows that are stored, hashed and shown              *)
(* (packages/replay/lib/domain), and the document a first Policy is given  *)
(* (packages/policy/lib/domain/default-policy-document.ts).                *)
(***************************************************************************)
EXTENDS ReplayEvidence

CONSTANTS
    TargetKeyOf,        \* value -> its Target key: hosts, remotes, two segments of a path
    DefaultEnvironment, \* what the default Environment Profile matches
    TargetLimit,        \* Targets in a summary
    ProgramLimit,       \* programs in a summary
    SampleEnd           \* samples from either end of a group

ASSUME ResultAssumption ==
    /\ TargetKeyOf \in [Value -> Nat]
    /\ Program \subseteq Nat
    /\ {TargetLimit, ProgramLimit, SampleEnd} \subseteq Nat \ {0}
    /\ DefaultEnvironment \in EnvironmentProfile
    /\ \A a \in Recorded : a.occurredAt \in Nat /\ a.actionKey \in Nat

-----------------------------------------------------------------------------
(* group-summary.ts                                                         *)

\* Keys are numbers, whose order breaks the ties that the order of strings breaks. What
\* is inside the workspace is one Target, and so is what is unknown.
Workspace == -1
Unknown == -2

DeriveTargetKey(op) ==
    IF op.kind = "path" /\ op.isInsideWorkspace THEN Workspace
    ELSE IF op.kind = "unknown" \/ op.value = Null THEN Unknown
    ELSE TargetKeyOf[op.value]

\* A null key sorts first.
KeyOrder(k) == IF k = Null THEN -3 ELSE k

\* Of the keys that things have, the most frequent, and of equally frequent ones the first.
TopCounts(keyOf, limit) ==
    LET keys == {keyOf[a] : a \in DOMAIN keyOf}
        count(k) == Cardinality({a \in DOMAIN keyOf : keyOf[a] = k})
        ahead(k) == {j \in keys : \/ count(j) > count(k)
                                  \/ count(j) = count(k) /\ KeyOrder(j) < KeyOrder(k)}
    IN {[key |-> k, count |-> count(k), place |-> Cardinality(ahead(k))] :
           k \in {j \in keys : Cardinality(ahead(j)) < limit}}

Earlier(a, b) ==
    \/ a.occurredAt < b.occurredAt
    \/ a.occurredAt = b.occurredAt /\ a.actionKey < b.actionKey

\* A mutant: the first of the group alone.
FirstActionKeys(members) ==
    {a.actionKey : a \in {b \in members :
        Cardinality({c \in members : Earlier(c, b)}) < 2 * SampleEnd}}

\* The first and the last Actions, or all of a small group.
SampleActionKeys(members) ==
    {a.actionKey : a \in {b \in members :
        \/ Cardinality(members) <= 2 * SampleEnd
        \/ Cardinality({c \in members : Earlier(c, b)}) < SampleEnd
        \/ Cardinality({c \in members : Earlier(b, c)}) < SampleEnd}}

RuleIds(decisions) == {d.decidingRuleId : d \in decisions} \ {Null}

\* What groups of either kind tell of their members by one Operation of each.
Summary(operationOf) ==
    LET members == DOMAIN operationOf
        targetKeyOf == [a \in members |-> DeriveTargetKey(operationOf[a])]
    IN
    [actionCount |-> Cardinality(members),
     sessionCount |-> Cardinality({a.session : a \in members}),
     analyzabilityNoneCount |-> Cardinality({a \in members : operationOf[a].analyzability = "none"}),
     firstOccurredAt |-> CHOOSE t \in {a.occurredAt : a \in members} :
                             \A a \in members : t <= a.occurredAt,
     lastOccurredAt |-> CHOOSE t \in {a.occurredAt : a \in members} :
                             \A a \in members : a.occurredAt <= t,
     targetSummary |-> TopCounts(targetKeyOf, TargetLimit),
     targetCount |-> Cardinality({targetKeyOf[a] : a \in members}),
     sampleActionKeys |-> SampleActionKeys(members)]

-----------------------------------------------------------------------------
(* computeDiffWith                                                          *)

SignatureOperationOf(a) == a.operations[SignatureIndex(a)]
DecisionOn(a, i, document) == EvaluateOperation(a.operations[i], document)

\* The Headline leads with the top Target and counts the others, and names a change
\* of the Zone. It is no part of what is hashed.
RenderHeadline(signature, summary) ==
    [top |-> (CHOOSE t \in summary.targetSummary : t.place = 0).key,
     otherTargets |-> summary.targetCount - 1,
     actionCount |-> summary.actionCount,
     fromEffect |-> signature.fromEffect, toEffect |-> signature.toEffect,
     zoneChange |-> signature.fromZone # signature.toZone]

BuildDiffGroup(g) ==
    LET summary == Summary([a \in g.members |-> SignatureOperationOf(a)])
    IN [groupKey |-> g.signature,
        direction |-> g.direction,
        severity |-> IF g.isCritical THEN "critical" ELSE "normal",
        summary |-> summary,
        baselineRuleIds |-> RuleIds({DecisionOn(a, SignatureIndex(a), baseline) : a \in g.members}),
        candidateRuleIds |-> RuleIds({DecisionOn(a, SignatureIndex(a), candidate) : a \in g.members}),
        headline |-> RenderHeadline(g.signature, summary)]

TransitionCount(from, to) ==
    Cardinality({a \in Evaluated : FromEffect(a) = from /\ ToEffect(a) = to})

\* Widened Operations of Actions whose Effect stays, by capability and Zones.
OperationWideningRows ==
    LET widened == UNION {{<<a, i>> : i \in OperationWidening(a)} : a \in Evaluated \ Changed}
        row(w) == [capability |-> w[1].operations[w[2]].capability,
                   fromZone |-> ResolveZone(w[1].operations[w[2]], baseline.environment),
                   toZone |-> ResolveZone(w[1].operations[w[2]], candidate.environment)]
    IN {[row |-> r, count |-> Cardinality({w \in widened : row(w) = r})] :
           r \in {row(w) : w \in widened}}

ReplayStats ==
    [totalActions |-> Cardinality(actions),
     evaluatedActions |-> Cardinality(Evaluated),
     excludedActions |-> Cardinality(actions \ Evaluated),
     changedActions |-> Cardinality(Changed),
     transitions |-> [t \in Effect \X Effect |-> TransitionCount(t[1], t[2])],
     operationWidening |-> OperationWideningRows]

DiffResult ==
    [stats |-> ReplayStats,
     groups |-> {BuildDiffGroup(g) : g \in DiffGroups},
     changedActions |-> {[actionKey |-> a.actionKey, groupKey |-> Signature(a)] : a \in Changed}]

-----------------------------------------------------------------------------
(* buildAnalyzabilityCounts and computeAdoptionWith                         *)

AnalyzabilityRank == [full |-> 0, partial |-> 1, none |-> 2]

\* The worst of its Operations.
ActionAnalyzability(a) ==
    LET analyzability == {a.operations[i].analyzability : i \in DOMAIN a.operations}
    IN CHOOSE worst \in analyzability :
           \A other \in analyzability : AnalyzabilityRank[other] <= AnalyzabilityRank[worst]

AnalyzabilityCounts(evaluable) ==
    [n \in Analyzability |-> Cardinality({a \in evaluable : ActionAnalyzability(a) = n})]

DecidingOperation(a) == a.operations[DecidingOperationIndex(a.operations, candidate)]

BuildAdoptionGroup(g) ==
    [groupKey |-> g.signature,
     summary |-> Summary([a \in g.members |-> DecidingOperation(a)]),
     programSummary |-> TopCounts([a \in g.members |-> DecidingOperation(a).program], ProgramLimit),
     distinctProgramCount |-> Cardinality({DecidingOperation(a).program : a \in g.members}),
     decidingRuleIds |->
         RuleIds({DecisionOn(a, DecidingOperationIndex(a.operations, candidate), candidate) :
                     a \in g.members})]

\* Denied before asked, then the larger group, then the one of more Sessions; groups
\* that are alike come in the order of their hashes, which is none in particular.
ReviewOrder == [deny |-> 0, ask |-> 1]

ComesFirst(g, h) ==
    LET before(x, y) == ReviewOrder[x.groupKey.effect] < ReviewOrder[y.groupKey.effect]
        alike(x, y) == x.groupKey.effect = y.groupKey.effect
    IN \/ before(g, h)
       \/ alike(g, h) /\ g.summary.actionCount > h.summary.actionCount
       \/ /\ alike(g, h) /\ g.summary.actionCount = h.summary.actionCount
          /\ g.summary.sessionCount > h.summary.sessionCount

AdoptionResult ==
    [stats |-> [totalActions |-> Cardinality(actions),
                evaluatedActions |-> Cardinality(Evaluated),
                excludedActions |-> Cardinality(actions \ Evaluated),
                effectCounts |-> [e \in Effect |-> Cardinality({a \in Evaluated : ToEffect(a) = e})],
                analyzability |-> AnalyzabilityCounts(Evaluated),
                cells |-> {[cell |-> c, count |-> MatrixCount(c)] : c \in {MatrixCell(a) : a \in Evaluated}}],
     groups |-> {BuildAdoptionGroup(g) : g \in AdoptionGroups},
     assignments |-> {[actionKey |-> a.actionKey, groupKey |-> AdoptionEntry(a)] :
                         a \in {b \in Evaluated : ToEffect(b) # "allow"}}]

-----------------------------------------------------------------------------
(* DEFAULT_POLICY_DOCUMENT                                                  *)

DefaultRule(id, capabilities, zones, effect, exception) ==
    [ruleId |-> id, capabilities |-> capabilities, zones |-> zones,
     reversibility |-> Reversibility, analyzability |-> Analyzability,
     effect |-> effect, mandateException |-> exception]

\* Rules in the order of their ids.
AskIrreversibleLocal ==
    [DefaultRule(3, {"delete", "rewrite"}, Zone, "ask", FALSE)
        EXCEPT !.reversibility = {"irreversible"}]

\* A mutant: a deploy is irreversible too, and is asked for by this Rule.
AskIrreversible == [AskIrreversibleLocal EXCEPT !.capabilities = @ \cup {"deploy"}]

AskProductionDeploy == DefaultRule(4, {"deploy"}, {"protected"}, "ask", TRUE)

DefaultRules(askIrreversible) ==
    {askIrreversible,
     AskProductionDeploy,
     DefaultRule(1, {"write", "delete"}, {"agent_config"}, "ask", FALSE),
     DefaultRule(2, {"send", "push"}, {"public_remote", "unknown_remote"}, "ask", TRUE),
     [DefaultRule(5, Capability, Zone, "ask", FALSE) EXCEPT !.analyzability = {"none"}],
     DefaultRule(6, {"fetch", "install"}, {"trusted_remote"}, "allow", FALSE),
     DefaultRule(7, {"read", "write", "commit"}, {"workspace"}, "allow", FALSE),
     [DefaultRule(8, {"execute"}, {"workspace"}, "allow", FALSE)
         EXCEPT !.analyzability = {"full", "partial"}],
     DefaultRule(9, Capability, {"credentials"}, "deny", FALSE),
     DefaultRule(10, {"rewrite"}, {"trusted_remote", "public_remote", "unknown_remote", "protected"},
                 "deny", FALSE)}

\* A mutant.
DocumentWithDeploy == [environment |-> DefaultEnvironment, rules |-> DefaultRules(AskIrreversible)]

DefaultPolicyDocument ==
    [environment |-> DefaultEnvironment, rules |-> DefaultRules(AskIrreversibleLocal)]

-----------------------------------------------------------------------------
(* Properties                                                               *)

\* What some rows count together: a sum of naturals is the number of such pairs.
Total(count) == Cardinality(UNION {{r} \X (1..count[r]) : r \in DOMAIN count})

\* The results that a reviewer sees beside each other, computed by different passes
\* over the Actions, count the same Actions: the transitions into an Effect are the
\* map's cells of that Effect; the groups, the changed Actions and the transitions that
\* change something are as many; Adoption Groups are what is not allowed; and a group's
\* samples reach from its first Action to its last.
CountsAgree(diff, adoption) ==
    LET Actions(groups) == Total([g \in groups |-> g.summary.actionCount])
        Counted(rows) == Total([r \in rows |-> r.count])
        moved == {t \in Effect \X Effect : t[1] # t[2]}
        sampled(g) == {a.occurredAt : a \in {b \in actions : b.actionKey \in g.summary.sampleActionKeys}}
    IN /\ \A e \in Effect :
            /\ Counted({[from |-> f, count |-> diff.stats.transitions[<<f, e>>]] : f \in Effect})
                 = adoption.stats.effectCounts[e]
            /\ Counted({c \in adoption.stats.cells : c.cell.effect = e})
                 = adoption.stats.effectCounts[e]
       /\ Actions(diff.groups) = diff.stats.changedActions
       /\ Counted({[t |-> t, count |-> diff.stats.transitions[t]] : t \in moved})
            = diff.stats.changedActions
       /\ Actions(adoption.groups) = Cardinality(adoption.assignments)
       /\ \A g \in diff.groups \cup adoption.groups :
            {g.summary.firstOccurredAt, g.summary.lastOccurredAt} \subseteq sampled(g)

\* "a co-matching ask Rule without an exception would hide that Rule's Mandate
\* Exception" (packages/policy/lib/domain/default-policy-document.ts:5): under the
\* default document an analyzable Operation that a Rule with a Mandate Exception asks
\* for depends on the Mandate.
DefaultKeepsExceptions ==
    candidate = DefaultPolicyDocument =>
        \A capability \in Capability, zone \in Zone, analyzability \in Analyzability \ {"none"} :
            LET matched == {rule \in candidate.rules :
                               /\ capability \in rule.capabilities /\ zone \in rule.zones
                               /\ ReversibilityFor(capability, zone) \in rule.reversibility
                               /\ analyzability \in rule.analyzability}
            IN (\E rule \in matched : rule.mandateException) =>
                   ResolveEffect(matched) = "ask" /\ IsMandateDependent(matched, "ask")
=============================================================================
