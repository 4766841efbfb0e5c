----------------------------- MODULE ShellWords -----------------------------
(***************************************************************************)
(* The words of a parsed Bash command, the paths and remotes they stand    *)
(* for, and the Operations that are drafted from them (packages/action:    *)
(* targets.ts, command.ts, draft.ts, shell/ast.ts).                        *)
(*                                                                         *)
(* A word is not a string of characters: it carries its literal text as an *)
(* atom, the form the classifier's tests on the text would find, and what  *)
(* the text names, as a path, a host and a repository.                     *)
(***************************************************************************)
EXTENDS Integers, Sequences, SequencesExt

CONSTANTS
    Null,            \* null and undefined
    WorkspaceRoot,   \* ToolCall.workspaceRoot, a path, or Null
    Remotes,         \* ToolCall.repoRemotes: from names to Remote Keys
    GitBranch        \* ToolCall.gitBranch

ASSUME WorkspaceAssumption ==
    /\ WorkspaceRoot \in Seq(STRING) \cup {Null}
    /\ DOMAIN Remotes \subseteq STRING

-----------------------------------------------------------------------------
(* Words                                                                    *)

\* "flag" starts with "-" and is longer; "path" is anchored (/, ., .., ~);
\* "relative" has a slash and no anchor; "slug" is owner/repo; "url" has a
\* scheme; "scp" is user@host:path; "remote" is host:path or src:dst; "assign"
\* is NAME=value; "plus" is a refspec that begins with "+".
Form == {"plain", "flag", "path", "relative", "slug", "url", "scp", "remote",
         "assign", "plus"}

\* host and key (a Remote Key: the host, and owner/repo) are what parseHost and
\* normalizeRemote find in the text; dest is the destination of a refspec, or the
\* value of a flag "--name=value", whose text is "--name="; credentials and urls
\* are what scanInline finds: paths, and hosts.
ShellWord ==
    [text : STRING, hasExpansion : BOOLEAN, form : Form, path : Seq(STRING),
     scheme : STRING \cup {Null}, host : STRING \cup {Null}, key : Seq(STRING) \cup {Null},
     dest : STRING \cup {Null}, credentials : SUBSET Seq(STRING), urls : SUBSET (STRING \cup {Null})]

Plain(t) ==
    [text |-> t, hasExpansion |-> FALSE, form |-> "plain", path |-> <<t>>,
     scheme |-> Null, host |-> Null, key |-> Null, dest |-> t,
     credentials |-> {}, urls |-> {}]

IsFlag(w) == w.form = "flag"

NonFlagArgs(args) ==
    SelectSeq(args, LAMBDA w : (w.hasExpansion \/ w.text # "") /\ ~IsFlag(w))

HasFlag(args, flags) == \E i \in DOMAIN args : args[i].text \in flags

\* The text of the i-th word, or the empty text.
TextAt(words, i) == IF i \in DOMAIN words THEN words[i].text ELSE ""
WordAt(words, i) == IF i \in DOMAIN words THEN words[i] ELSE Null

NextWord(words) == IF Len(words) > 1 THEN <<words[2]>> ELSE <<>>
From(words, i) == SubSeq(words, i, Len(words))

\* The words before the first that fails the test.
LeadingWhile(words, Test(_)) ==
    LET stop == SelectInSeq(words, LAMBDA w : ~Test(w))
    IN IF stop = 0 THEN words ELSE SubSeq(words, 1, stop - 1)

\* The words from the first operand on: flags are passed over, and so are the
\* values of those that take one.
RECURSIVE AfterOptions(_, _)
AfterOptions(args, valueFlags) ==
    CASE args = <<>> -> <<>>
      [] args # <<>> /\ args[1].text \in valueFlags -> AfterOptions(From(args, 3), valueFlags)
      [] args # <<>> /\ args[1].text \notin valueFlags /\ IsFlag(args[1]) ->
             AfterOptions(From(args, 2), valueFlags)
      [] OTHER -> args

\* The word a flag is given: the next word, or what follows the "=" (the flag
\* itself, then). Null when the first of the flags is the last word, or none is there.
FlagWord(args, spaced, joined) ==
    LET i == SelectInSeq(args, LAMBDA w : w.text \in spaced \cup joined)
    IN CASE i = 0 -> Null
         [] i # 0 /\ args[i].text \in joined -> args[i]
         [] OTHER -> WordAt(args, i + 1)

\* The text of the word a flag is given.
ValueText(w) == IF IsFlag(w) THEN w.dest ELSE w.text

IsCommandLookup(args) ==
    HasFlag(LeadingWhile(args, LAMBDA w : IsFlag(w) /\ w.text # "--"), {"-v", "-V"})

\* A command named by a path is known by its last segment.
Basename(w) == IF w.form \in {"path", "relative", "slug"} THEN Last(w.path) ELSE w.text

-----------------------------------------------------------------------------
(* Paths: sequences of segments, the first of which is "/" or "~" unless    *)
(* the path is relative                                                     *)

IsAbsolute(path) == path # <<>> /\ path[1] = "/"
IsHomePath(path) == path # <<>> /\ path[1] = "~"

NormalizeSegments(path) ==
    LET Step(out, seg) ==
            CASE seg = "." -> out
              [] seg = ".." /\ out # <<>> /\ Last(out) \notin {"..", "/"} -> Front(out)
              [] seg = ".." /\ IsAbsolute(path) -> out
              [] OTHER -> Append(out, seg)
    IN FoldLeft(Step, <<>>, path)

\* `${cwd}/${rawPath}`: an empty cwd leaves a slash in front.
Join(cwd, path) == (IF cwd = <<>> THEN <<"/">> ELSE cwd) \o path

IsUnder(path, root) == root # Null /\ IsPrefix(NormalizeSegments(root), path)

Resolved(path, isInside) == [path |-> path, isInsideWorkspace |-> isInside]

ResolvePath(raw, cwd, root) ==
    LET under(path) == Resolved(path, IsUnder(path, root))
        normal == NormalizeSegments(raw)
    IN CASE IsHomePath(raw) /\ IsHomePath(normal) -> under(normal)
         [] IsHomePath(raw) /\ ~IsHomePath(normal) -> Resolved(raw, FALSE)
         [] IsAbsolute(raw) -> under(normal)
         [] ~IsHomePath(raw) /\ ~IsAbsolute(raw) /\ cwd # Null ->
                under(NormalizeSegments(Join(cwd, raw)))
         [] OTHER -> Resolved(raw, root # Null)

\* /home/<name> is written "~".
HomeToTilde(path) ==
    IF IsAbsolute(path) /\ Len(path) >= 3 /\ path[2] \in {"home", "Users"}
    THEN <<"~">> \o From(path, 4)
    ELSE IF IsAbsolute(path) /\ Len(path) >= 2 /\ path[2] = "root"
         THEN <<"~">> \o From(path, 3)
         ELSE path

\* The command runs against another directory than the workspace, as far as can
\* be told: dirs are the words of -C and --work-tree.
DirOutsideWorkspace(cwd, dirs, hasGitDir) ==
    LET start == ResolvePath(<<".">>, cwd, WorkspaceRoot)
        dir == FoldLeft(LAMBDA d, w : ResolvePath(w.path, d.path, WorkspaceRoot), start, dirs)
    IN CASE hasGitDir -> TRUE
         [] ~hasGitDir /\ WorkspaceRoot = Null -> dirs # <<>>
         [] ~hasGitDir /\ WorkspaceRoot # Null /\ cwd = Null -> TRUE
         [] OTHER ->
              \/ \E i \in DOMAIN dirs : dirs[i].hasExpansion
              \/ /\ ~dir.isInsideWorkspace
                 /\ ~IsUnder(HomeToTilde(dir.path), WorkspaceRoot)

-----------------------------------------------------------------------------
(* Targets and drafts of Operations                                         *)

UnknownTarget == [kind |-> "unknown"]

PathTarget(r) ==
    [kind |-> "path", path |-> r.path, isInsideWorkspace |-> r.isInsideWorkspace]

HostTarget(host) == [kind |-> "host", host |-> host]

\* hostTarget(word.text) ?? unknownTarget()
HostOrUnknown(host) == IF host = Null THEN UnknownTarget ELSE HostTarget(host)

RemoteTarget(name, key, branch) ==
    [kind |-> "vcs_remote", remoteName |-> name, remoteKey |-> key, branch |-> branch]

PackageTarget(ecosystem, source) ==
    [kind |-> "package", ecosystem |-> ecosystem, source |-> source]

Draft(capability, target, analyzability, program, signals) ==
    [capability |-> capability, target |-> target, analyzability |-> analyzability,
     program |-> program, signals |-> signals]

\* Execution of which nothing is known.
Opaque(program, signal) == Draft("execute", UnknownTarget, "none", program, {signal})

\* A target is fully known, or it is not.
FullIf(known) == IF known THEN "full" ELSE "partial"

\* A push that transmits nothing is a partial execute.
UnlessNoEffect(op, args, dryRun) ==
    LET signal == IF HasFlag(args, {"--help", "-h"}) THEN {"help"}
                  ELSE IF HasFlag(args, dryRun) THEN {"dry_run"} ELSE {}
    IN IF signal = {} THEN op
       ELSE Draft("execute", op.target, "partial", op.program, op.signals \cup signal)
=============================================================================
