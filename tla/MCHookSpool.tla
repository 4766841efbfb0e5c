---------------------------- MODULE MCHookSpool ----------------------------
(***************************************************************************)
(* HookInstall with the last record in the file of the second day. Three   *)
(* machines share a home directory, with a version manager's shim, with    *)
(* Homebrew's links and with neither. The settings file is not there yet,  *)
(* or has hooks of others, of earlier versions and of ours twice.          *)
(***************************************************************************)
EXTENDS HookInstall, TLC

MCFileOf ==
    [r \in Record |-> IF \A q \in Record : q <= r THEN 2 ELSE 1]

MCEventOf ==
    [r \in Record |-> IF r = 1 THEN "PreToolUse" ELSE IF r = 2 THEN "PermissionRequest" ELSE "SessionEnd"]

MCMachineOf ==
    [i \in Installer |->
        CASE i = "i1" -> [node |-> "managed", shim |-> TRUE, links |-> {}, bundle |-> TRUE]
          [] i = "i2" -> [node |-> "cellar", shim |-> FALSE, links |-> {"opt", "local"}, bundle |-> FALSE]
          [] i = "i3" -> [node |-> "plain", shim |-> FALSE, links |-> {}, bundle |-> FALSE]]

MCOverrideOf ==
    [i \in Installer |->
        CASE i = "i1" -> None
          [] i = "i2" -> [form |-> "own", suffixed |-> FALSE]
          [] i = "i3" -> [form |-> "legacy", suffixed |-> TRUE]]

Hook(form, event) == [form |-> form, event |-> event, node |-> "path", bundle |-> FALSE]
MCForeign == Hook("other", "new")

Old(e) == [form |-> "entry", event |-> e, node |-> "cellar", bundle |-> FALSE]
NoHooks == [p \in {} |-> None]

MCInitialSettings ==
    {[e \in Event |-> NoHooks],
     [e \in Event |-> <<1, 1>> :> Hook("other", "a") @@ <<1, 2>> :> Hook("legacy", e)
                      @@ <<2, 1>> :> Old(e) @@ <<2, 2>> :> Hook("other", "b")],
     [e \in Event |-> <<1, 1>> :> Hook("own", e) @@ <<1, 2>> :> Hook("other", "a")
                      @@ <<1, 3>> :> Old(e) @@ <<1, 4>> :> Old(e)]}
=============================================================================
