--------------------------- MODULE MCConformance ----------------------------
(* Days of three ticks. In some worlds versions are declared and nothing is  *)
(* called; in the others two or three calls are made while the first         *)
(* declaration stands.                                                       *)
EXTENDS Conformance, TLC

CONSTANTS fork, git

Rule(id, capabilities, effect) ==
    [ruleId |-> id, capabilities |-> capabilities, zones |-> Zone, reversibility |-> Reversibility,
     analyzability |-> Analyzability, effect |-> effect, mandateException |-> FALSE]

Environment ==
    [credentialPaths |-> {}, agentConfigPaths |-> {}, protectedBranches |-> {},
     trustedRemotes |-> {}, publicRemotes |-> {}, productionMarkers |-> {}]

Document(rules) == [environment |-> Environment, rules |-> rules]

MCDocumentOf ==
    "strict" :> Document({Rule(1, {"push"}, "deny"), Rule(2, {"read"}, "ask")}) @@
    "loose" :> Document({Rule(1, {"push", "read"}, "allow")})

Op(capability, kind, value) ==
    [capability |-> capability, kind |-> kind, value |-> value, branch |-> Null,
     isInsideWorkspace |-> TRUE, fragment |-> Null, analyzability |-> "full", program |-> git]

Push == 0 :> Op("push", "vcs_remote", fork)
Read == 0 :> Op("read", "path", fork)
ReadAndPush == 0 :> Op("read", "path", fork) @@ 1 :> Op("push", "vcs_remote", fork)

Call(key, nature, operations, at, asksAt) ==
    [actionKey |-> key, session |-> "s", input |-> "i", mode |-> "default", isCovered |-> TRUE,
     nature |-> nature, operations |-> operations, at |-> at, asksAt |-> asksAt]

MCActionRank == "k1" :> 1 @@ "k2" :> 2

Standing(version, at) == [id |-> 1, version |-> version, at |-> at]

Declaring(rows) == [calls |-> {}, activations |-> rows, declarations |-> 3, start |-> 2]

\* Two calls with one input, one after the other; the request of the second is made
\* on the next day.
Calling(first, second, operations) ==
    [calls |-> {Call("k1", first, Push, 3, 4), Call("k2", second, operations, 5, 6)},
     activations |-> {Standing("strict", 0)}, declarations |-> 1, start |-> 8]

\* A Session without hooks beside one with them, and a call nothing is known of.
Uncovered(nature) ==
    [calls |-> {[Call("k1", nature, Push, 3, 4) EXCEPT !.isCovered = FALSE, !.mode = Null],
                [Call("k2", "auto", <<>>, 5, 6) EXCEPT !.session = "t"]},
     activations |-> {Standing("loose", 3)}, declarations |-> 1, start |-> 8]

MCWorld ==
    {Declaring({}), Declaring({Standing("strict", 0)})}
      \cup {Calling(first, second, operations) :
              first \in Nature, second \in {"auto", "prompted"}, operations \in {Read, ReadAndPush}}
      \cup {Uncovered(nature) : nature \in {"auto", "refused"}}
=============================================================================
