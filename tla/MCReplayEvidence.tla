-------------------------- MODULE MCReplayEvidence --------------------------
(***************************************************************************)
(* ReplayEvidence over sixteen sets of Rules under an Environment Profile  *)
(* that protects a branch, four of them under one that trusts a remote     *)
(* instead, the default document, and Actions of up to two Operations that *)
(* these tell apart.                                                       *)
(***************************************************************************)
EXTENDS EvidenceReport, TLC

CONSTANTS fork, main, settings, source

Rule(id, capabilities, zones, reversibility, effect) ==
    [ruleId |-> id, capabilities |-> capabilities, zones |-> zones,
     reversibility |-> reversibility, analyzability |-> Analyzability,
     effect |-> effect, mandateException |-> effect = "ask"]

MCRules ==
    {Rule(1, Capability, Zone, {"recoverable", "irreversible"}, "ask"),
     Rule(2, {"push"}, {"trusted_remote"}, Reversibility, "allow"),
     Rule(3, Capability, {"workspace", "agent_config"}, Reversibility, "allow"),
     Rule(4, Capability, {"protected", "agent_config"}, Reversibility, "deny")}

Environment(trusted, protected) ==
    [credentialPaths |-> {}, agentConfigPaths |-> {settings}, protectedBranches |-> protected,
     trustedRemotes |-> trusted, publicRemotes |-> {}, productionMarkers |-> {}]

MCDefaultEnvironment == Environment({}, {main})

MCDocument ==
    [environment : {Environment({}, {main})}, rules : SUBSET MCRules]
    \cup [environment : {Environment({fork}, {})},
          rules : SUBSET {rule \in MCRules : rule.ruleId <= 2}]
    \cup {DefaultPolicyDocument}

MCTargetKeyOf == [v \in Value |-> IF v = fork THEN 1 ELSE IF v = settings THEN 2 ELSE 3]

Op(capability, kind, value, branch) ==
    [capability |-> capability, kind |-> kind, value |-> value, branch |-> branch,
     isInsideWorkspace |-> TRUE, fragment |-> Null, analyzability |-> "full",
     program |-> 1]

Push == Op("push", "vcs_remote", fork, Null)
PushMain == Op("push", "vcs_remote", fork, main)
Configure == Op("write", "path", settings, Null)
Remove == [Op("delete", "path", source, Null) EXCEPT !.analyzability = "none"]

\* Two of the Actions share a key, as a repeated import of one does.
Action(key, session, at, operations) ==
    [actionKey |-> key, session |-> session, occurredAt |-> at, operations |-> operations]

MCRecorded ==
    {Action(1, 1, 2, 0 :> Push @@ 1 :> Configure),
     Action(2, 1, 1, 0 :> Push),
     Action(3, 2, 1, 0 :> Remove @@ 1 :> PushMain),
     Action(3, 2, 1, 0 :> Push),
     Action(4, 2, 3, <<>>)}
=============================================================================
