-------------------------- MODULE PolicyEvaluation --------------------------
(***************************************************************************)
(* What a Policy Document decides of an Action: the Zone of each of its    *)
(* Operations, the Rules that match it, and the Effect of the whole        *)
(* (packages/policy/lib/domain).                                           *)
(*                                                                         *)
(* What a glob or a marker is matched against is a value, and a list of    *)
(* patterns is the set of the values it matches. A condition that a Rule   *)
(* leaves out ("*", null) is the set of everything. Rules are a set; the   *)
(* id of a Rule is a number, which stands for its place in the order of    *)
(* ids.                                                                    *)
(***************************************************************************)
EXTENDS Integers, FiniteSets

CONSTANTS
    Value,       \* paths, branches, remotes and fragments of commands
    Program,     \* programs
    Null         \* null, or no value

ASSUME ValueAssumption == Null \notin Value

Effect == {"allow", "ask", "deny"}

EffectRank == [allow |-> 0, ask |-> 1, deny |-> 2]

Capability ==
    {"read", "write", "delete", "execute", "fetch", "send", "commit", "push", "rewrite",
     "install", "deploy"}

Analyzability == {"full", "partial", "none"}

TargetKind == {"path", "host", "vcs_remote", "package", "mcp", "deploy_target", "unknown"}

Zone ==
    {"workspace", "host", "credentials", "agent_config", "trusted_remote", "public_remote",
     "unknown_remote", "protected"}

Reversibility == {"reversible", "recoverable", "irreversible"}

\* The target is its kind, the value that is matched, the branch of a remote and
\* whether a path is inside the workspace.
Operation ==
    [capability : Capability, kind : TargetKind, value : Value \cup {Null},
     branch : Value \cup {Null}, isInsideWorkspace : BOOLEAN, fragment : Value \cup {Null},
     analyzability : Analyzability, program : Program \cup {Null}]

EnvironmentProfile ==
    [credentialPaths : SUBSET Value, agentConfigPaths : SUBSET Value,
     protectedBranches : SUBSET Value, trustedRemotes : SUBSET Value,
     publicRemotes : SUBSET Value, productionMarkers : SUBSET Value]

PolicyRule ==
    [ruleId : Nat, capabilities : SUBSET Capability, zones : SUBSET Zone,
     reversibility : SUBSET Reversibility, analyzability : SUBSET Analyzability,
     effect : Effect, mandateException : BOOLEAN]

PolicyDocument == [environment : EnvironmentProfile, rules : SUBSET PolicyRule]

-----------------------------------------------------------------------------

\* An unknown target that only reaches the machine it runs on.
LocalCapabilities == {"read", "write", "delete", "execute", "commit"}

\* A path and an unknown target have no remote value.
RemoteValue(op) == IF op.kind \in {"path", "unknown"} THEN Null ELSE op.value

\* The first condition that holds tells the Zone.
ResolveZone(op, environment) ==
    IF op.kind = "path" /\ op.value \in environment.credentialPaths THEN "credentials"
    ELSE IF op.kind = "path" /\ op.value \in environment.agentConfigPaths THEN "agent_config"
    ELSE IF \/ op.kind = "vcs_remote" /\ op.branch \in environment.protectedBranches
            \/ op.capability = "deploy" /\ op.fragment \in environment.productionMarkers
         THEN "protected"
    ELSE IF op.kind = "path" THEN IF op.isInsideWorkspace THEN "workspace" ELSE "host"
    ELSE IF op.kind = "unknown" /\ op.capability \in LocalCapabilities THEN "host"
    ELSE IF RemoteValue(op) \in environment.publicRemotes THEN "public_remote"
    ELSE IF RemoteValue(op) \in environment.trustedRemotes THEN "trusted_remote"
    ELSE "unknown_remote"

ReversibleAt == ({"read", "fetch", "commit"} \X Zone) \cup {<<"write", "workspace">>}

RecoverableAt ==
    ({"execute", "install"} \X Zone)
        \cup ({"write"} \X (Zone \ {"workspace"}))
        \cup ({"deploy"} \X (Zone \ {"protected"}))
        \cup {<<"delete", "workspace">>, <<"send", "trusted_remote">>, <<"push", "trusted_remote">>}

ReversibilityFor(capability, zone) ==
    IF <<capability, zone>> \in ReversibleAt THEN "reversible"
    ELSE IF <<capability, zone>> \in RecoverableAt THEN "recoverable"
    ELSE "irreversible"

-----------------------------------------------------------------------------

RuleMatches(rule, op, zone) ==
    /\ op.capability \in rule.capabilities
    /\ zone \in rule.zones
    /\ ReversibilityFor(op.capability, zone) \in rule.reversibility
    /\ op.analyzability \in rule.analyzability

Matched(op, document) ==
    LET zone == ResolveZone(op, document.environment)
    IN {rule \in document.rules : RuleMatches(rule, op, zone)}

EffectsOf(rules) == {rule.effect : rule \in rules}

\* Mutant of ResolveEffect: the first Rule that matches decides.
FirstMatchWins(matched) ==
    IF matched = {} THEN "ask"
    ELSE (CHOOSE r \in matched : \A other \in matched : r.ruleId <= other.ruleId).effect

\* Deny beats ask beats allow, and nothing that matches is ask.
ResolveEffect(matched) ==
    IF "deny" \in EffectsOf(matched) THEN "deny"
    ELSE IF "ask" \in EffectsOf(matched) THEN "ask"
    ELSE IF "allow" \in EffectsOf(matched) THEN "allow"
    ELSE "ask"

\* The first id among the matched Rules of that Effect, null when there is none.
DecidingRuleId(matched, effect) ==
    LET ids == {rule.ruleId : rule \in {r \in matched : r.effect = effect}}
    IN IF ids = {} THEN Null ELSE CHOOSE id \in ids : \A other \in ids : id <= other

IsMandateDependent(matched, effect) ==
    LET asking == {rule \in matched : rule.effect = "ask"}
    IN /\ effect = "ask"
       /\ asking # {}
       /\ \A rule \in asking : rule.mandateException

\* The OperationDecision.
EvaluateOperation(op, document) ==
    LET zone == ResolveZone(op, document.environment)
        matched == Matched(op, document)
        effect == ResolveEffect(matched)
    IN [zone |-> zone,
        reversibility |-> ReversibilityFor(op.capability, zone),
        decidingRuleId |-> DecidingRuleId(matched, effect),
        effect |-> effect,
        isMandateDependent |-> IsMandateDependent(matched, effect)]

OperationEffect(op, document) == ResolveEffect(Matched(op, document))

-----------------------------------------------------------------------------
(* An Action's Operations are a function of their indexes.                 *)

IsOperations(operations) ==
    /\ DOMAIN operations \subseteq Nat /\ IsFiniteSet(DOMAIN operations)
    /\ \A i \in DOMAIN operations : operations[i] \in Operation

MostRestrictive(effects) ==
    IF "deny" \in effects THEN "deny" ELSE IF "ask" \in effects THEN "ask" ELSE "allow"

ActionEffect(operations, document) ==
    MostRestrictive({OperationEffect(operations[i], document) : i \in DOMAIN operations})

\* The smallest index among the Operations that have the Action's Effect.
DecidingOperationIndex(operations, document) ==
    LET effect == ActionEffect(operations, document)
        carriers == {i \in DOMAIN operations : OperationEffect(operations[i], document) = effect}
    IN CHOOSE i \in carriers : \A j \in carriers : i <= j

IsActionMandateDependent(operations, document) ==
    /\ ActionEffect(operations, document) = "ask"
    /\ \A i \in DOMAIN operations :
          OperationEffect(operations[i], document) = "ask" =>
              EvaluateOperation(operations[i], document).isMandateDependent

\* The Decision on an Action; one without Operations is excluded.
EvaluateAction(operations, document) ==
    IF DOMAIN operations = {} THEN Null
    ELSE [effect |-> ActionEffect(operations, document),
          decidingOperationIndex |-> DecidingOperationIndex(operations, document),
          isMandateDependent |-> IsActionMandateDependent(operations, document),
          operations |-> [i \in DOMAIN operations |-> EvaluateOperation(operations[i], document)]]

\* The second Effect lets more through.
IsWider(from, to) == EffectRank[to] < EffectRank[from]
=============================================================================
