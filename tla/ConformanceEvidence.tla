------------------------- MODULE ConformanceEvidence -------------------------
(***************************************************************************)
(* What a conformance run computes (packages/replay/lib/domain:            *)
(* derive-disposition, pair-permission-requests, compute-conformance,      *)
(* find-observation-gaps; packages/review: rule-draft-from-finding).       *)
(*                                                                         *)
(* An Action is [actionKey, session, operations, outcome, at]; an          *)
(* observation is [event, actionKey, session, input, hookDecision, mode,   *)
(* at], where input is the tool with the hash of its input. The rows of a  *)
(* query come in an order of their own.                                    *)
(***************************************************************************)
EXTENDS PolicyEvaluation, Sequences, SequencesExt

CONSTANT ActionRank     \* the order of the Action Keys

-----------------------------------------------------------------------------

EventOrder == [pre_tool_use |-> 0, permission_request |-> 1, session_end |-> 2]

RankOf(actionKey) == IF actionKey = Null THEN 0 ELSE ActionRank[actionKey]

\* byTime; rows that tie stay as they came.
ComesFirst(rows, i, j) ==
    LET a == <<rows[i].at, EventOrder[rows[i].event], RankOf(rows[i].actionKey), i>>
        b == <<rows[j].at, EventOrder[rows[j].event], RankOf(rows[j].actionKey), j>>
    IN \E n \in 1..4 : a[n] < b[n] /\ \A m \in 1..(n - 1) : a[m] = b[m]

\* Mutant: the rows are taken as they come.
AsTheyCome(rows) == rows

SortedRows(rows) ==
    LET order == SortSeq([i \in DOMAIN rows |-> i], LAMBDA i, j : ComesFirst(rows, i, j))
    IN [i \in DOMAIN rows |-> rows[order[i]]]

IsInWindow(at, window) == window.from <= at /\ at <= window.to

\* A request for permission carries no key: it takes that of the last tool use before
\* it with its Session and input that no request has taken.
PairPermissionRequests(rows, window) ==
    LET Key(row) == <<row.session, row.input>>
        Pair(acc, row) ==
            LET open == SelectLastInSeq(acc.waiting, LAMBDA pre : Key(pre) = Key(row))
                isRequest == row.event = "permission_request" /\ row.actionKey = Null
            IN CASE row.event = "pre_tool_use" /\ row.actionKey # Null /\ row.input # Null ->
                      [acc EXCEPT !.waiting = Append(@, row), !.paired = Append(@, row)]
                 [] isRequest /\ row.input # Null /\ open # 0 ->
                      [acc EXCEPT !.waiting = RemoveAt(@, open),
                                  !.paired = Append(@, [row EXCEPT !.actionKey = acc.waiting[open].actionKey])]
                 [] isRequest /\ (row.input = Null \/ open = 0) ->
                      [acc EXCEPT !.paired = Append(@, row),
                                  !.unpaired = IF IsInWindow(row.at, window) THEN @ + 1 ELSE @]
                 [] OTHER -> [acc EXCEPT !.paired = Append(@, row)]
        all == FoldLeft(Pair, [waiting |-> <<>>, paired |-> <<>>, unpaired |-> 0], SortedRows(rows))
    IN [observations |-> all.paired, unpaired |-> all.unpaired]

-----------------------------------------------------------------------------

Disposition == {"auto_executed", "hook_approved", "prompted", "blocked", "executed_prompt_unknown"}

DeriveDisposition(outcome, observations) ==
    LET requests == {o \in ToSet(observations) : o.event = "permission_request"}
        decisions == {o.hookDecision : o \in requests}
    IN IF outcome = "blocked_by_runtime" \/ "deny" \in decisions THEN "blocked"
       ELSE IF "allow" \in decisions THEN "hook_approved"
       ELSE IF requests # {} \/ outcome = "rejected_by_human" THEN "prompted"
       ELSE IF \E o \in ToSet(observations) : o.event = "pre_tool_use" THEN "auto_executed"
       ELSE "executed_prompt_unknown"

\* The Effect a Disposition amounts to; one that is not known amounts to none.
DispositionEffect(disposition) ==
    CASE disposition \in {"auto_executed", "hook_approved"} -> "allow"
      [] disposition = "prompted" -> "ask"
      [] disposition = "blocked" -> "deny"
      [] disposition = "executed_prompt_unknown" -> Null

FindingKindOf(outcome, disposition, effect) ==
    CASE effect = "deny" /\ outcome = "executed" -> "violation"
      [] effect = "ask" /\ disposition = "auto_executed" -> "under_asked"
      [] effect = "allow" /\ disposition = "prompted" -> "over_asked"
      [] OTHER -> Null

\* The first mode among an Action's observations.
PermissionModeOf(observations) ==
    LET first == SelectInSeq(observations, LAMBDA o : o.mode # Null)
    IN IF first = 0 THEN "unknown" ELSE observations[first].mode

\* What a finding is of: the Operation that decides, and the Zone it was decided in.
SignatureOf(kind, operations, decision) ==
    LET i == decision.decidingOperationIndex
    IN [kind |-> kind, capability |-> operations[i].capability,
        zone |-> decision.operations[i].zone, program |-> operations[i].program]

\* Every Action with what the run finds of it.
Judge(action, document, paired) ==
    LET own == SelectSeq(paired, LAMBDA o : o.actionKey = action.actionKey)
        decision == EvaluateAction(action.operations, document)
        disposition == DeriveDisposition(action.outcome, own)
        kind == FindingKindOf(action.outcome, disposition, decision.effect)
    IN IF decision = Null
       THEN [mode |-> PermissionModeOf(own), cell |-> Null, signature |-> Null]
       ELSE [mode |-> PermissionModeOf(own),
             cell |-> IF DispositionEffect(disposition) = Null THEN Null
                      ELSE <<DispositionEffect(disposition), decision.effect>>,
             signature |-> IF kind = Null THEN Null
                           ELSE SignatureOf(kind, action.operations, decision)]

\* Every Action is counted under its mode, a finding also as one.
ByPermissionMode(judged) ==
    LET In(mode) == {a \in DOMAIN judged : judged[a].mode = mode}
    IN [mode \in {judged[a].mode : a \in DOMAIN judged} |->
          [actionCount |-> Cardinality(In(mode)),
           findingCount |-> Cardinality({a \in In(mode) : judged[a].signature # Null})]]

\* The stats and the findings; resultHash is a hash of both.
ComputeConformance(document, actions, rows, window) ==
    LET pairing == PairPermissionRequests(rows, window)
        judged == [a \in actions |-> Judge(a, document, pairing.observations)]
        compared == {a \in actions : judged[a].cell # Null}
        found == {a \in actions : judged[a].signature # Null}
        CountOf(S, P(_)) == Cardinality({a \in S : P(a)})
    IN [stats |->
          [totalActions |-> Cardinality(actions),
           evaluatedActions |-> Cardinality(compared),
           changedActions |-> CountOf(compared, LAMBDA a : judged[a].cell[1] # judged[a].cell[2]),
           transitions |-> [cell \in Effect \X Effect |->
                              CountOf(compared, LAMBDA a : judged[a].cell = cell)],
           byPermissionMode |-> ByPermissionMode(judged),
           unpaired |-> pairing.unpaired],
        findings |->
          {[signature |-> s, members |-> {a \in found : judged[a].signature = s}] :
             s \in {judged[a].signature : a \in found}}]

-----------------------------------------------------------------------------

\* Mutant: a period of the least length is none.
LongerGaps(times, window, gapMin) ==
    LET marks == <<window.from>> \o times \o <<window.to + 1>>
        wide == {i \in 1..(Len(marks) - 1) : marks[i + 1] - marks[i] > gapMin}
    IN {[from |-> marks[i],
         to |-> IF i = Len(marks) - 1 THEN window.to ELSE marks[i + 1]] : i \in wide}

\* The periods without an observation; the last one includes the window's end.
FindObservationGaps(times, window, gapMin) ==
    LET marks == <<window.from>> \o times \o <<window.to + 1>>
        wide == {i \in 1..(Len(marks) - 1) : marks[i + 1] - marks[i] >= gapMin}
    IN {[from |-> marks[i],
         to |-> IF i = Len(marks) - 1 THEN window.to ELSE marks[i + 1]] : i \in wide}

IsEffectAllowedForFinding(kind, effect) ==
    kind = "under_asked" \/ effect \in {"ask", "deny"}

\* The Rule a draft is given for a finding, under an id that is free.
RuleDraftFromFinding(signature, effect, id) ==
    [ruleId |-> id, capabilities |-> {signature.capability}, zones |-> {signature.zone},
     reversibility |-> Reversibility, analyzability |-> Analyzability,
     effect |-> effect, mandateException |-> FALSE]
=============================================================================
