---------------------------- MODULE EvidenceReport ----------------------------
(***************************************************************************)
(* What is shown of a replay's result: the samples of a group, decided     *)
(* again when they are asked for (packages/replay/lib/app/module.ts), the  *)
(* figures of the Evidence Report (packages/review/lib/domain/report.ts),  *)
(* and, beside them, the Activity Overview of the same Actions             *)
(* (packages/trace/lib/domain/activity-overview.ts).                       *)
(***************************************************************************)
EXTENDS ReplayResult

CONSTANT OverviewLimit    \* programs and remotes in an overview

ASSUME OverviewAssumption == OverviewLimit \in Nat \ {0}

-----------------------------------------------------------------------------
(* buildActivityOverview                                                    *)

OverviewKind(op) ==
    IF op.kind # "path" THEN op.kind
    ELSE IF op.isInsideWorkspace THEN "workspace_path" ELSE "other_path"

\* Actions are counted by their key, Operations each for itself; one without a program,
\* or that is no remote, is left out of the lists of those.
ActivityOverview ==
    LET evaluable == {a \in actions : DOMAIN a.operations # {}}
        places == UNION {{<<a, i>> : i \in DOMAIN a.operations} : a \in actions}
        OperationAt(p) == p[1].operations[p[2]]
        remotes == {p \in places : OperationAt(p).kind = "vcs_remote" /\ OperationAt(p).value # Null}
    IN [sessionCount |-> Cardinality({a.session : a \in actions}),
        actionCount |-> Cardinality(actions),
        evaluableActionCount |-> Cardinality(evaluable),
        capabilityCounts |->
            [c \in Capability |-> Cardinality({p \in places : OperationAt(p).capability = c})],
        targetKindCounts |->
            [k \in TargetKind \cup {"workspace_path", "other_path"} |->
                Cardinality({p \in places : OverviewKind(OperationAt(p)) = k})],
        analyzability |-> AnalyzabilityCounts(evaluable),
        topPrograms |->
            TopCounts([p \in {q \in places : OperationAt(q).program # Null} |-> OperationAt(p).program],
                      OverviewLimit),
        topRemoteKeys |->
            TopCounts([p \in remotes |-> TargetKeyOf[OperationAt(p).value]], OverviewLimit)]

-----------------------------------------------------------------------------
(* getSamples and getAdoptionSamples                                        *)

\* The stored Actions of the keys that a group kept; a key without one is skipped.
SamplesOf(group) == {a \in actions : a.actionKey \in group.summary.sampleActionKeys}

DecidingRationales(decision, document) ==
    {rule \in document.rules :
        \E i \in DOMAIN decision.operations : decision.operations[i].decidingRuleId = rule.ruleId}

DecidedSamples(group) == {a \in SamplesOf(group) : EvaluateAction(a.operations, candidate) # Null}

DiffGroupSamples(group) ==
    {[action |-> a,
      targetKeys |-> [i \in DOMAIN a.operations |-> DeriveTargetKey(a.operations[i])],
      baselineDecision |-> EvaluateAction(a.operations, baseline),
      candidateDecision |-> EvaluateAction(a.operations, candidate),
      baselineRuleRationales |->
          DecidingRationales(EvaluateAction(a.operations, baseline), baseline),
      candidateRuleRationales |->
          DecidingRationales(EvaluateAction(a.operations, candidate), candidate)] :
        a \in DecidedSamples(group)}

AdoptionGroupSamples(group) ==
    {[action |-> a,
      targetKeys |-> [i \in DOMAIN a.operations |-> DeriveTargetKey(a.operations[i])],
      candidateDecision |-> EvaluateAction(a.operations, candidate),
      candidateRuleRationales |->
          DecidingRationales(EvaluateAction(a.operations, candidate), candidate)] :
        a \in DecidedSamples(group)}

-----------------------------------------------------------------------------
(* renderReport and renderAdoptionReport: the figures, without their words  *)

\* A share in tenths of a percent, rounded as the report shows it.
Ratio(part, whole) == IF whole = 0 THEN 0 ELSE (2000 * part + whole) \div (2 * whole)

NoneCountOf(groups) == Total([g \in groups |-> g.summary.analyzabilityNoneCount])

\* Actions whose Effect changed, and those of them that were not analyzable.
NoneRatio(diff) ==
    LET none == NoneCountOf(diff.groups)
    IN [evaluated |-> diff.stats.evaluatedActions, changed |-> diff.stats.changedActions,
        none |-> none, share |-> Ratio(none, diff.stats.changedActions)]

\* Only transitions that some Action made have a row.
TransitionRows(transitions) ==
    {[from |-> t[1], to |-> t[2], count |-> transitions[t]] :
        t \in {u \in Effect \X Effect : transitions[u] > 0}}

GroupSections(groups) ==
    [direction \in {"widening", "narrowing"} |-> {g \in groups : g.direction = direction}]

AdoptionScale(stats) ==
    [evaluated |-> stats.evaluatedActions, total |-> stats.totalActions,
     excluded |-> stats.excludedActions, none |-> stats.analyzability["none"],
     share |-> Ratio(stats.analyzability["none"], stats.evaluatedActions)]

EffectRows(stats) ==
    [e \in Effect |-> [count |-> stats.effectCounts[e],
                       share |-> Ratio(stats.effectCounts[e], stats.evaluatedActions)]]

AdoptionGroupTable(groups, effect) == {g \in groups : g.groupKey.effect = effect}

\* What a report of a version_diff review says of its replay, and one of an adoption.
ChangeReport(diff) ==
    [noneRatio |-> NoneRatio(diff),
     transitions |-> TransitionRows(diff.stats.transitions),
     operationWidening |-> diff.stats.operationWidening,
     sections |-> GroupSections(diff.groups)]

AdoptionReport(result) ==
    [scale |-> AdoptionScale(result.stats),
     effects |-> EffectRows(result.stats),
     tables |-> [e \in {"ask", "deny"} |-> AdoptionGroupTable(result.groups, e)]]

-----------------------------------------------------------------------------
(* Properties                                                               *)

\* What the samples of a group show of its Actions, decided anew, is what the group
\* says of them: of a Diff Group, a change of the Action in the group's direction and
\* of one of its Operations as in the signature; of an Adoption Group, its cell. When
\* every member is a sample, they show the reasons of every Rule the group names.
SamplesShowTheirGroup(diff, result) ==
    /\ \A g \in diff.groups :
         LET samples == DiffGroupSamples(g)
             named == UNION {s.candidateRuleRationales : s \in samples}
             before(s) == s.baselineDecision.effect
             after(s) == s.candidateDecision.effect
         IN /\ \A s \in samples :
                 /\ before(s) # after(s) /\ IsWider(before(s), after(s)) = (g.direction = "widening")
                 /\ \E i \in DOMAIN s.action.operations :
                      /\ s.baselineDecision.operations[i].effect = g.groupKey.fromEffect
                      /\ s.candidateDecision.operations[i].effect = g.groupKey.toEffect
                      /\ s.targetKeys[i] \in {DeriveTargetKey(SignatureOperationOf(a)) : a \in Changed}
            /\ Cardinality(samples) = g.summary.actionCount =>
                 g.candidateRuleIds \subseteq {rule.ruleId : rule \in named}
    /\ \A g \in result.groups : \A s \in AdoptionGroupSamples(g) :
         LET i == s.candidateDecision.decidingOperationIndex
         IN [effect |-> s.candidateDecision.effect,
             capability |-> s.action.operations[i].capability,
             zone |-> s.candidateDecision.operations[i].zone] = g.groupKey

\* The figures of a report, its overview and its tables are of one set of Actions: no
\* part is larger than its whole, the shares of the three Effects make up a hundred
\* percent but for their rounding, and every group is in one table, in the order of review.
FiguresAgree(diff, result) ==
    LET overview == ActivityOverview
        change == ChangeReport(diff)
        adoption == AdoptionReport(result)
        Counted(rows) == Total([r \in rows |-> r.count])
        share(e) == adoption.effects[e].share
        shares == share("allow") + share("ask") + share("deny")
    IN /\ overview.actionCount = adoption.scale.total
       /\ overview.evaluableActionCount = change.noneRatio.evaluated
       /\ Counted(change.transitions) = change.noneRatio.evaluated
       /\ overview.analyzability["none"] = adoption.scale.none
       /\ \A c \in Capability :
            Counted({cell \in result.stats.cells : cell.cell.capability = c})
              <= overview.capabilityCounts[c]
       /\ change.noneRatio.none <= change.noneRatio.changed /\ change.noneRatio.share <= 1000
       /\ NoneCountOf(result.groups) <= adoption.scale.none
       /\ adoption.scale.evaluated > 0 => shares \in 999 .. 1001
       /\ \A g \in diff.groups : g \in change.sections[g.direction]
       /\ \A g \in adoption.tables["ask"], h \in adoption.tables["deny"] : ~ComesFirst(g, h)
       /\ UNION {adoption.tables[e] : e \in {"ask", "deny"}} = result.groups

\* The results that a reviewer sees beside each other (see CountsAgree, for what
\* computeDiff and computeAdoption return), with the figures made of them elsewhere and
\* the samples, tell the same of the same Actions. Samples are decided again whenever
\* they are asked for: the claim is for as long as the documents and the Actions are
\* those of the run, and after an edit or a reclassification they may differ from it
\* (packages/replay/lib/app/module.ts:710).
ResultsAgree ==
    LET diff == DiffResult
        result == AdoptionResult
    IN /\ CountsAgree(diff, result)
       /\ SamplesShowTheirGroup(diff, result)
       /\ FiguresAgree(diff, result)
=============================================================================
