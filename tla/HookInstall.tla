---------------------------- MODULE HookInstall ----------------------------
(***************************************************************************)
(* `authority install-hooks` and the hooks it installs                     *)
(* (apps/cli/src/commands/install-hooks.command.ts, hook-command.ts,       *)
(* commands/hook.command.ts), over the spool they write to.                *)
(*                                                                         *)
(* The settings file of Claude Code is read, merged and written by one     *)
(* process with nothing held, so two installs and the edits of other       *)
(* programs come between its read and its write. A command is what the     *)
(* code's tests tell of it: "entry" names the CLI's entry file, "legacy"   *)
(* is the command of earlier versions, "own" runs the CLI by a path nobody *)
(* recognises and "other" belongs to somebody else.                        *)
(*                                                                         *)
(* A section of the file is its commands by their places, which are        *)
(* numbers of a group and within the group. A merge leaves gaps where the  *)
(* file closes up, which nobody can tell: only the order of places counts. *)
(* What tools a group is for is left out.                                  *)
(***************************************************************************)
EXTENDS HookSpool, FiniteSetsExt, Functions

CONSTANTS
    EventOf,         \* record -> the hook event it tells of
    Installer,       \* processes that run install-hooks, each once
    MachineOf,       \* installer -> the node that runs it and the paths to it
    OverrideOf,      \* installer -> the command it was given, or None
    PrintOnly,       \* the installers that only print
    InitialSettings, \* what may be in the settings file
    Foreign,         \* the hook that an edit of another program adds
    None

Event == {"PreToolUse", "PermissionRequest", "SessionEnd"}

Place == Nat \X Nat
IsSection(section) == DOMAIN section \subseteq Place /\ IsFiniteSet(DOMAIN section)

\* A command that is given to an install runs the CLI.
ASSUME InstallAssumption ==
    /\ \A i \in Installer : MachineOf[i].links \subseteq {"bin", "opt", "local"}
    /\ \A i \in Installer : OverrideOf[i] # None => OverrideOf[i].form # "other"
    /\ Foreign.form = "other"
    /\ \A events \in SUBSET Event : events # None
    /\ \A document \in InitialSettings :
          DOMAIN document = Event /\ \A e \in Event : IsSection(document[e])

VARIABLES
    settings,   \* the hooks of the settings file: event -> its section
    installer,  \* what each installer has read
    upgraded,   \* whether node was upgraded and its versioned path removed
    others,     \* history: the hooks of others that the file should have
    editRaced,  \* history: an edit came between a read and a write
    recorded    \* the events whose hooks record, of sessions that started; None before

installVars == <<settings, installer, upgraded, others, editRaced, recorded>>
allVars == <<vars, installVars>>

-----------------------------------------------------------------------------
(* The commands                                                             *)

\* Paths that name a version, which an upgrade removes.
Versioned == {"managed", "cellar"}

LinkRank == [bin |-> 1, opt |-> 2, local |-> 3]
FirstLink(links) == CHOOSE link \in links : \A l \in links : LinkRank[link] <= LinkRank[l]

\* A version manager's shim is taken for its versioned path, and of the links to a
\* Homebrew node the first that resolves to the same binary.
SelectNodePath(machine) ==
    CASE machine.node = "managed" /\ machine.shim -> "shim"
      [] machine.node = "cellar" /\ machine.links # {} -> FirstLink(machine.links)
      [] OTHER -> machine.node

HasStablePath(machine) ==
    CASE machine.node = "managed" -> machine.shim
      [] machine.node = "cellar" -> machine.links # {}
      [] OTHER -> TRUE

CoreHookCommand(event, machine) ==
    [form |-> "entry", event |-> event, node |-> SelectNodePath(machine), bundle |-> machine.bundle]

\* An override is the command of permission requests. The other events have its
\* program when it ends in the name of that event, and the CLI's own otherwise.
ResolveHookCommand(event, machine, override) ==
    IF override # None /\ (event = "PermissionRequest" \/ override.suffixed)
    THEN [form |-> override.form, event |-> event, node |-> "path", bundle |-> FALSE]
    ELSE CoreHookCommand(event, machine)

CommandsOf(i) == [e \in Event |-> ResolveHookCommand(e, MachineOf[i], OverrideOf[i])]

IsManaged(event, c) == c.form \in {"entry", "legacy"} /\ c.event = event

-----------------------------------------------------------------------------
(* The merge                                                                *)

Before(p, q) == p[1] < q[1] \/ (p[1] = q[1] /\ p[2] < q[2])
First(places) == {p \in places : \A q \in places : p = q \/ Before(p, q)}

\* The place of a command in a group after all others.
NewGroup(section) == <<Max({0} \cup {p[1] : p \in DOMAIN section}) + 1, 1>>
Put(section, place, c) ==
    [p \in DOMAIN section \cup {place} |-> IF p = place THEN c ELSE section[p]]

Ours(section, event, target) ==
    {p \in DOMAIN section : section[p] = target \/ IsManaged(event, section[p])}

ContainsCommand(section, c) == c \in Range(section)

\* A section without some commands and with others replaced by the target.
KeepOnly(section, dropped, replaced, target) ==
    [p \in DOMAIN section \ dropped |-> IF p \in replaced THEN target ELSE section[p]]

\* A mutant: every managed command becomes the target.
NormalizeEach(section, event, target) ==
    LET ours == Ours(section, event, target)
    IN [section |-> KeepOnly(section, {}, ours, target),
        changed |-> \E p \in ours : section[p] # target]

\* The first command that is the target or managed becomes the target, where it
\* stands; the others are taken out.
NormalizeHookGroups(section, event, target) ==
    LET ours == Ours(section, event, target)
        first == First(ours)
    IN [section |-> KeepOnly(section, ours \ first, first, target),
        changed |-> \E p \in ours : p \notin first \/ section[p] # target]

\* A group for all tools is added when none has the command, whatever tools the one
\* that has it is for.
MergeSection(section, event, target) ==
    LET normalized == NormalizeHookGroups(section, event, target)
        found == ContainsCommand(normalized.section, target)
    IN [section |-> IF found THEN normalized.section
                    ELSE Put(normalized.section, NewGroup(normalized.section), target),
        changed |-> normalized.changed \/ ~found]

MergeHooks(document, commands) ==
    LET merged(e) == MergeSection(document[e], e, commands[e])
    IN [document |-> [e \in Event |-> merged(e).section],
        changed |-> \E e \in Event : merged(e).changed]

-----------------------------------------------------------------------------
(* The processes                                                            *)

\* A bound: settings change, and node is upgraded, only before the sessions start.
BeforeHooks == recorded = None

OthersOf(section) == Restrict(section, {p \in DOMAIN section : section[p].form = "other"})

LoadDocument(i) ==
    /\ BeforeHooks
    /\ installer[i].at = "idle"
    /\ installer' = [installer EXCEPT ![i] = [at |-> "loaded", document |-> settings]]
    /\ UNCHANGED <<settings, upgraded, others, editRaced, recorded, vars>>

\* The file is written only when something changed. It is written in place: an install
\* that ends half way through the write, and leaves a part of a file, is left out.
WriteSettings(i) ==
    LET merged == MergeHooks(installer[i].document, CommandsOf(i))
    IN /\ BeforeHooks
       /\ installer[i].at = "loaded"
       /\ settings' = IF merged.changed /\ i \notin PrintOnly THEN merged.document ELSE settings
       /\ installer' = [installer EXCEPT ![i] = [at |-> "done", document |-> None]]
       /\ UNCHANGED <<upgraded, others, editRaced, recorded, vars>>

Loading == \E i \in Installer : installer[i].at = "loaded" /\ i \notin PrintOnly

\* Another program adds its hook to the file, once.
EditSettings(e) ==
    /\ BeforeHooks
    /\ \A f \in Event : Foreign \notin Range(settings[f]) \cup Range(others[f])
    /\ ~editRaced
    /\ settings' = [settings EXCEPT ![e] = Put(@, NewGroup(@), Foreign)]
    /\ others' = [others EXCEPT ![e] =
                     IF Loading THEN @ ELSE Put(@, NewGroup(settings[e]), Foreign)]
    /\ editRaced' = Loading
    /\ UNCHANGED <<installer, upgraded, recorded, vars>>

UpgradeNode ==
    /\ BeforeHooks
    /\ ~upgraded
    /\ upgraded' = TRUE
    /\ UNCHANGED <<settings, installer, others, editRaced, recorded, vars>>

\* A command whose node is gone ends well and writes nothing.
Records(e, c) ==
    /\ c.form # "other" /\ c.event = e
    /\ c.form = "entry" => ~upgraded \/ c.node \notin Versioned

Recorders(e) == {p \in DOMAIN settings[e] : Records(e, settings[e][p])}

NoSettings == [e \in Event |-> [p \in {} |-> None]]

\* Sessions start with the hooks the file has by then. What the file is after that is
\* left out.
StartSessions ==
    /\ BeforeHooks
    /\ \A i \in Installer : installer[i].at = "done"
    /\ recorded' = {e \in Event : Recorders(e) # {}}
    /\ settings' = NoSettings /\ others' = NoSettings
    /\ upgraded' = FALSE /\ editRaced' = FALSE
    /\ UNCHANGED <<installer, vars>>

\* The input of a hook is the fields it has. Without a session, a directory or, for
\* the events of a tool, the tool and its input, the hook writes nothing.
InputField == {"session_id", "cwd", "tool_name", "tool_input"}
BuildsRecord(e, input) ==
    /\ {"session_id", "cwd"} \subseteq input
    /\ e # "SessionEnd" => {"tool_name", "tool_input"} \subseteq input

RunHook(r, input) ==
    /\ recorded # None /\ EventOf[r] \in recorded
    /\ IF BuildsRecord(EventOf[r], input) THEN HookAppend(r) ELSE UNCHANGED vars
    /\ UNCHANGED installVars

InstallInit ==
    /\ Init
    /\ settings \in InitialSettings
    /\ installer = [i \in Installer |-> [at |-> "idle", document |-> None]]
    /\ upgraded = FALSE
    /\ others = [e \in Event |-> OthersOf(settings[e])]
    /\ editRaced = FALSE
    /\ recorded = None

InstallNext ==
    \/ \E i \in Installer : LoadDocument(i) \/ WriteSettings(i)
    \/ \E e \in Event : EditSettings(e)
    \/ UpgradeNode \/ StartSessions
    \/ \E r \in Record, input \in SUBSET InputField : RunHook(r, input)
    \/ \E p \in Flush : (Step(p) \/ Crash(p)) /\ UNCHANGED installVars

\* Nobody has to install anything: the fairness is that of the flushes.
FairInstallSpec == InstallInit /\ [][InstallNext]_allVars /\ Fairness

-----------------------------------------------------------------------------
(* Properties                                                               *)

Installed == {i \in Installer \ PrintOnly : installer[i].at = "done"}

\* Once an install has ended, and while settings are followed, whatever installs and
\* edits it crossed, every event is recorded, by one managed command at most; a node
\* upgrade does not end that where every machine had a path that outlives it; and the
\* same install again would change nothing more (runInstallHooks).
InstalledOnce ==
    /\ BeforeHooks /\ Installed # {} =>
         \A e \in Event :
            /\ Cardinality({p \in DOMAIN settings[e] : IsManaged(e, settings[e][p])}) <= 1
            /\ (~upgraded \/ \A i \in Installer : HasStablePath(MachineOf[i])) => Recorders(e) # {}
    /\ \A i \in Installer :
         ~MergeHooks(MergeHooks(settings, CommandsOf(i)).document, CommandsOf(i)).changed

\* The hooks of others stay in the file, in their order, but for an edit that came
\* between the read and the write of an install.
OthersAreKept ==
    ~editRaced => \A e \in Event : OthersOf(settings[e]) = others[e]

\* The settings file after an install: our hooks once and working, those of others kept.
SettingsAreMerged == InstalledOnce /\ OthersAreKept
=============================================================================
