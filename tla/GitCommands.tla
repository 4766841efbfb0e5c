---------------------------- MODULE GitCommands -----------------------------
(***************************************************************************)
(* What git and gh commands do: the tables of subcommands, the repository  *)
(* the arguments name, and when the session's remotes may be taken for it  *)
(* (packages/action/lib/domain/git.ts, gh.ts).                             *)
(*                                                                         *)
(* A command is its program, the command word, the arguments, the tracked  *)
(* working directory and the bodies of its heredocs. The tables hold the   *)
(* subcommands as the code lists them.                                     *)
(***************************************************************************)
EXTENDS ShellWords

ReadSubs ==
    {"status", "log", "diff", "show", "blame", "describe", "rev-parse", "ls-files",
     "cat-file", "reflog", "shortlog", "whatchanged", "grep", "remote", "worktree",
     "cherry", "count-objects", "rev-list", "name-rev", "symbolic-ref", "for-each-ref",
     "merge-base", "check-ignore", "check-attr", "ls-tree", "hash-object", "show-ref",
     "merge-tree", "archive"}

CommitSubs ==
    {"add", "commit", "merge", "stash", "checkout", "switch", "restore", "rebase",
     "cherry-pick", "revert", "am", "apply", "mv", "notes", "init", "commit-tree",
     "update-ref", "format-patch"}

FetchSubs == {"clone", "fetch", "pull", "ls-remote"}

ForceFlags ==
    {"--force", "-f", "--force-with-lease", "--force-if-includes",
     "--force-with-lease=", "--force-if-includes="}

FetchValueFlags ==
    {"--depth", "--deepen", "-j", "--jobs", "-o", "--server-option", "--upload-pack",
     "--shallow-since", "--shallow-exclude", "--refmap", "--negotiation-tip", "--filter"}

RemoteValueFlags(sub) ==
    CASE sub = "clone" -> FetchValueFlags \cup
             {"-b", "--branch", "--origin", "--reference", "--reference-if-able", "-c",
              "--config", "--template", "--separate-git-dir", "-u", "--bundle-uri"}
      [] sub = "fetch" -> FetchValueFlags
      [] sub = "pull" -> FetchValueFlags \cup
             {"-s", "--strategy", "-X", "--strategy-option"}
      [] sub = "ls-remote" -> {"-o", "--server-option", "--upload-pack", "--sort"}
      [] sub = "push" -> {"-o", "--push-option", "--receive-pack", "--exec", "--repo"}
      [] OTHER -> {}

GitGlobalValueFlags ==
    {"-C", "-c", "--git-dir", "--work-tree", "--namespace", "--exec-path", "--super-prefix"}

\* The options before the subcommand: how they move git to another repository,
\* and the words after them.
RECURSIVE SplitGitGlobals(_)
SplitGitGlobals(args) ==
    IF args = <<>> \/ ~IsFlag(args[1])
    THEN [args |-> args, dirs |-> <<>>, hasGitDir |-> FALSE]
    ELSE LET t == args[1].text
             next == SplitGitGlobals(From(args, IF t \in GitGlobalValueFlags THEN 3 ELSE 2))
             dirs == CASE t = "--work-tree=" -> <<args[1]>>
                       [] t \in {"-C", "--work-tree"} -> NextWord(args)
                       [] OTHER -> <<>>
         IN [args |-> next.args, dirs |-> dirs \o next.dirs,
             hasGitDir |-> t \in {"--git-dir", "--git-dir="} \/ next.hasGitDir]

LocalOp(capability, cmd) ==
    Draft(capability, PathTarget(ResolvePath(<<".">>, cmd.cwd, WorkspaceRoot)), "full", "git", {})

BranchOp(cmd, args) ==
    LocalOp(CASE HasFlag(args, {"-D"}) -> "rewrite"
              [] ~HasFlag(args, {"-D"}) /\ HasFlag(args, {"-d", "--delete"}) -> "delete"
              [] ~HasFlag(args, {"-D", "-d", "--delete"}) /\ Len(NonFlagArgs(args)) <= 1 -> "read"
              [] OTHER -> "commit", cmd)

TagOp(cmd, args) ==
    LocalOp(CASE HasFlag(args, {"-d", "--delete"}) -> "delete"
              [] ~HasFlag(args, {"-d", "--delete"}) /\ Len(NonFlagArgs(args)) <= 1 -> "read"
              [] OTHER -> "commit", cmd)

\* The operands of a network subcommand: neither options nor their values.
RemoteOperands(sub, rest) ==
    NonFlagArgs(FlattenSeq([i \in DOMAIN rest |->
        IF i > 1 /\ TextAt(rest, i - 1) \in RemoteValueFlags(sub) THEN <<>> ELSE <<rest[i]>>]))

LooksLikeRemoteUrl(w) ==
    w.form \in {"url", "scp"} \/ (w.form = "relative" /\ w.host # Null)

LocalRepositoryPath(w) == w.form = "path" \/ w.scheme = "file"

IsUnnamedRemote(w) == w # Null /\ (w.hasExpansion \/ w.form = "remote")

\* What a push updates: the destination of its refspec, else the current branch.
PushBranch(operands) ==
    LET refspec == WordAt(operands, 2)
    IN CASE refspec = Null -> GitBranch
         [] refspec # Null /\ (refspec.hasExpansion \/ refspec.dest = "HEAD") -> Null
         [] OTHER -> refspec.dest

HasForceFlag(args) == HasFlag(args, ForceFlags)
HasPlusRefspec(args) == \E i \in DOMAIN args : args[i].form = "plus"

\* The remote of a network subcommand: the path or URL it names, or the remote
\* of that name, or origin, looked up among the session's remotes only while git
\* runs inside the session's workspace.
GitRemoteOp(capability, cmd, sub, rest, dirMismatch) ==
    LET operands == RemoteOperands(sub, rest)
        repository == WordAt(operands, 1)
        literal == IF repository = Null \/ repository.hasExpansion THEN Null ELSE repository
        isUrl == literal # Null /\ LooksLikeRemoteUrl(literal)
        isNamed == ~isUrl /\ sub # "clone" /\ ~IsUnnamedRemote(repository)
        name == IF literal = Null THEN "origin" ELSE literal.text
        isKnown == isNamed /\ ~dirMismatch /\ name \in DOMAIN Remotes
        key == IF isUrl THEN literal.key ELSE IF isKnown THEN Remotes[name] ELSE Null
        signals ==
            {s \in {"remote_unparsed", "remote_dir_mismatch"} :
                IF s = "remote_unparsed" THEN (isUrl \/ isKnown) /\ key = Null
                                         ELSE isNamed /\ dirMismatch}
    IN IF literal # Null /\ LocalRepositoryPath(literal)
       THEN Draft(capability, PathTarget(ResolvePath(literal.path, cmd.cwd, WorkspaceRoot)),
                  "full", "git", {})
       ELSE Draft(capability,
                  RemoteTarget(IF isNamed THEN name ELSE Null, key,
                               IF sub = "push" THEN PushBranch(operands) ELSE Null),
                  FullIf(key # Null /\ literal # Null), "git", signals)

ClassifyGit(cmd) ==
    LET globals == SplitGitGlobals(cmd.args)
        args == globals.args
        dirMismatch == DirOutsideWorkspace(cmd.cwd, globals.dirs, globals.hasGitDir)
        positional == NonFlagArgs(args)
        sub == TextAt(positional, 1)
        at == SelectInSeq(args, LAMBDA w : (w.hasExpansion \/ w.text # "") /\ ~IsFlag(w))
        rest == IF at = 0 THEN args ELSE RemoveAt(args, at)
        forced == HasForceFlag(args) \/ HasPlusRefspec(rest)
    IN CASE sub \in FetchSubs -> {GitRemoteOp("fetch", cmd, sub, rest, dirMismatch)}
         [] sub = "push" ->
                {UnlessNoEffect(
                    GitRemoteOp(IF forced THEN "rewrite" ELSE "push", cmd, sub, rest, dirMismatch),
                    args, {"--dry-run", "-n"})}
         [] sub = "reset" ->
                {LocalOp(IF HasFlag(args, {"--hard"}) THEN "rewrite" ELSE "commit", cmd)}
         [] sub \in {"clean", "rm"} -> {LocalOp("delete", cmd)}
         [] sub = "branch" -> {BranchOp(cmd, args)}
         [] sub = "tag" -> {TagOp(cmd, args)}
         [] sub = "config" ->
                {LocalOp(IF Len(positional) >= 3 THEN "write" ELSE "read", cmd)}
         [] sub \in CommitSubs -> {LocalOp("commit", cmd)}
         [] sub \in ReadSubs -> {LocalOp("read", cmd)}
         [] OTHER -> {Opaque("git", "git_subcommand_unknown")}

-----------------------------------------------------------------------------
(* gh                                                                       *)

CredentialStore == <<"~", ".config", "gh", "hosts.yml">>

FetchVerbs == {"view", "list", "checks", "status", "diff", "watch", "browse", "download"}

SendVerbs ==
    {"create", "comment", "edit", "review", "close", "reopen", "ready", "upload", "lock",
     "unlock"}

ApiValueFlags ==
    {"-X", "--method", "-H", "--header", "-f", "--raw-field", "-F", "--field", "--input",
     "-q", "--jq", "-t", "--template", "--hostname", "--cache", "-p", "--preview"}

\* The repository the arguments name: one with its key (or a text that does not
\* parse), one that cannot be told, or none, which is the session's origin.
NoRepository == [named |-> "none", key |-> Null, unparsed |-> FALSE]
Unresolvable == [NoRepository EXCEPT !.named = "unresolvable"]
Repository(key, unparsed) == [named |-> "one", key |-> key, unparsed |-> unparsed]

ApiMethod(args) ==
    LET w == FlagWord(args, {"-X", "--method"}, {"--method=", "-X="})
    IN IF w = Null THEN "GET" ELSE ValueText(w)

ApiHostname(args) ==
    LET w == FlagWord(args, {"--hostname"}, {"--hostname="})
    IN IF w = Null THEN "github.com" ELSE ValueText(w)

\* "repos/{owner}/{repo}" is filled in by gh from the current repository.
ApiRepository(args) ==
    LET api == SelectInSeq(args, LAMBDA w : w.text = "api")
        endpoint == WordAt(AfterOptions(From(args, api + 1), ApiValueFlags), 1)
    IN IF endpoint = Null \/ endpoint.text = "repos/{owner}/{repo}" THEN NoRepository
       ELSE IF endpoint.hasExpansion \/ endpoint.key = Null THEN Unresolvable
       ELSE Repository(<<ApiHostname(args), endpoint.key[2]>>, FALSE)

\* The operand of gh repo names a repository when it has an owner; that of gh pr
\* and gh issue when it is the URL of one.
ArgumentRepository(command, positional, args) ==
    LET operand == WordAt(positional, 3)
        isLiteral == operand # Null /\ ~operand.hasExpansion
        hasOwner == isLiteral /\ operand.form \in {"slug", "relative", "path", "url"}
    IN CASE command = "api" -> ApiRepository(args)
         [] command = "repo" /\ hasOwner -> Repository(operand.key, operand.key = Null)
         [] command = "repo" /\ ~hasOwner ->
                IF operand # Null /\ (~isLiteral \/ TextAt(positional, 2) = "create")
                THEN Unresolvable ELSE NoRepository
         [] command \in {"pr", "issue"} /\ isLiteral /\ operand.form = "url"
              /\ operand.key # Null -> Repository(operand.key, FALSE)
         [] OTHER -> NoRepository

\* -R and --repo come first. An empty text (an expansion) is not found unparsed.
NamedRepository(command, positional, args) ==
    LET w == FlagWord(args, {"-R", "--repo"}, {"--repo=", "-R="})
    IN IF w = Null THEN ArgumentRepository(command, positional, args)
       ELSE Repository(w.key, w.key = Null /\ ValueText(w) # "")

GhRemoteOp(capability, cmd, repository, extra) ==
    LET isSession == repository.named = "none"
        isOutside == DirOutsideWorkspace(cmd.cwd, <<>>, FALSE)
        isKnown == isSession /\ ~isOutside /\ "origin" \in DOMAIN Remotes
        key == IF isKnown THEN Remotes["origin"] ELSE repository.key
        signals ==
            {s \in {"remote_unparsed", "remote_dir_mismatch"} :
                IF s = "remote_unparsed" THEN repository.unparsed \/ (isKnown /\ key = Null)
                                         ELSE isSession /\ isOutside}
    IN Draft(capability,
             RemoteTarget(IF isSession THEN "origin" ELSE Null, key, GitBranch),
             FullIf(repository.named = "one" /\ ~repository.unparsed), "gh", extra \cup signals)

ClassifyGh(cmd) ==
    LET positional == NonFlagArgs(cmd.args)
        command == TextAt(positional, 1)
        sub == TextAt(positional, 2)
        repository == NamedRepository(command, positional, cmd.args)
        pushes == {<<"pr", "merge">>, <<"release", "create">>, <<"repo", "create">>}
        capability ==
            CASE command = "api" -> IF ApiMethod(cmd.args) = "GET" THEN "fetch" ELSE "send"
              [] command # "api" /\ <<command, sub>> \in pushes -> "push"
              [] command # "api" /\ (sub \in FetchVerbs \/ <<command, sub>> = <<"repo", "clone">>) ->
                     "fetch"
              [] OTHER -> "send"
        isKnown == command = "api" \/ sub \in FetchVerbs \cup SendVerbs
                     \/ <<command, sub>> \in {<<"pr", "merge">>, <<"repo", "clone">>}
    IN IF command \in {"auth", "secret"}
       THEN {Draft("read", PathTarget(ResolvePath(CredentialStore, cmd.cwd, WorkspaceRoot)),
                   "partial", "gh", {"gh_credentials"})}
       ELSE {GhRemoteOp(capability, cmd, repository,
                        IF isKnown THEN {} ELSE {"gh_subcommand_unknown"})}
=============================================================================
