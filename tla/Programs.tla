------------------------------ MODULE Programs ------------------------------
(***************************************************************************)
(* What a simple command other than git and gh does                        *)
(* (packages/action/lib/domain/programs.ts): the tables of programs, in    *)
(* the order the code asks them, and what each kind of program does with   *)
(* its arguments. The Operations of a command are a set.                   *)
(***************************************************************************)
EXTENDS ShellWords, FiniteSets

FileReaders ==
    {"cat", "tac", "nl", "head", "tail", "wc", "less", "more", "ls", "dir", "vdir", "tree",
     "file", "stat", "du", "df", "diff", "cmp", "cut", "sort", "uniq", "tr", "column", "jq",
     "yq", "comm", "fold", "rev", "base64", "xxd", "od", "hexdump", "strings", "md5sum",
     "sha256sum", "sha1sum", "shasum", "cksum"}

NoFileReaders ==
    {"pwd", "which", "whereis", "type", "date", "whoami", "id", "hostname", "uname",
     "printenv", "seq", "sleep", "tty", "groups", "nproc", "uptime", "ps", "echo", "printf",
     "true", "false", ":", "test", "[", "export", "set", "unset", "alias", "declare",
     "local", "readonly", "expr", "let", "wait", "jobs", "history", "realpath", "readlink",
     "dirname", "basename", "env", "pgrep", "sysctl", "read", "break", "continue", "exit"}

Shells == {"bash", "sh", "dash", "zsh", "ksh"}

PatternFirst == {"grep", "egrep", "fgrep", "rg", "ag", "ack", "awk", "gawk", "mawk", "sed"}

Writers ==
    {"mv", "cp", "tee", "touch", "mkdir", "mkfifo", "ln", "chmod", "chown", "chgrp",
     "install", "truncate", "dd", "patch", "tar", "zip", "unzip", "gzip", "gunzip", "bzip2"}

Deleters == {"rm", "rmdir", "unlink", "shred"}

Interpreters ==
    {"python", "python3", "python2", "node", "nodejs", "ruby", "perl", "php", "deno", "bun",
     "rscript", "osascript", "pwsh", "powershell", "lua", "tclsh", "groovy"}

CodeFlags == {"-c", "-e", "-p", "--eval", "--print"}
PreloadValueFlags == {"-r", "--require"}

BuildRunners ==
    {"vitest", "jest", "mocha", "ava", "tsc", "tsx", "ts-node", "make", "pytest", "tox",
     "turbo", "eslint", "oxlint", "prettier", "oxfmt", "ruff", "black", "mypy", "flake8",
     "gofmt", "rustfmt", "clippy", "cmake", "gradle", "mvn", "gulp", "grunt", "webpack",
     "vite", "rollup", "esbuild", "tsup", "biome", "just", "ninja", "bazel", "rake", "sbt",
     "corepack", "nvm", "volta"}

OpaqueExec == {"tmux", "screen", "sqlite3", "psql", "mysql", "claude", "eval"}

TmuxQueries ==
    {"capture-pane", "capturep", "list-sessions", "ls", "list-windows", "lsw", "list-panes",
     "lsp", "list-clients", "lsc", "list-buffers", "lsb", "show-buffer", "showb",
     "show-options", "show", "show-window-options", "showw", "show-environment", "showenv",
     "has-session", "has", "display-message", "display"}

TmuxValueFlags == {"-L", "-S", "-f", "-T"}

ProcessSignallers == {"kill", "pkill", "killall"}
PkgManagers == {"pnpm", "npm", "yarn", "bun"}
PkgExec == {"npx", "pnpx", "bunx", "pnpm-exec"}
InstallSubs == {"add", "install", "i", "ci", "remove", "uninstall", "rm", "un"}

InstallerEcosystem ==
    [p \in {"pip", "pip3", "pipx", "poetry"} |-> "pypi"]
      @@ [p \in {"conda", "brew", "apt", "apt-get", "yum", "dnf", "apk"} |-> "system"]
      @@ [p \in {"gem"} |-> "other"]

Deployers ==
    {"vercel", "netlify", "flyctl", "fly", "pulumi", "ansible-playbook", "serverless", "sam",
     "cdk"}

\* The tests of classifyProgram in their order: the first set that has the
\* program decides what kind of program it is.
Routes ==
    <<<<Interpreters, "interpreter">>, <<PkgExec, "pkgExec">>, <<PkgManagers, "pkgManager">>,
      <<BuildRunners, "runner">>, <<DOMAIN InstallerEcosystem, "installer">>,
      <<{"find"}, "find">>, <<{"curl", "wget", "http", "https"}, "http">>,
      <<{"scp", "rsync", "sftp"}, "remoteCopy">>, <<{"ssh", "nc", "ncat", "telnet"}, "remoteExec">>,
      <<{"docker", "podman"}, "docker">>, <<{"kubectl", "oc"}, "kubectl">>,
      <<{"terraform", "tofu"}, "stateTool">>, <<{"helm"}, "helm">>, <<Deployers, "deployer">>,
      <<{"wrangler"}, "wrangler">>, <<{"cargo", "go"}, "cargoGo">>, <<{"source", "."}, "runner">>,
      <<Shells, "shell">>, <<OpaqueExec, "opaque">>, <<ProcessSignallers, "runner">>,
      <<{"mktemp"}, "mktemp">>, <<{"sed"}, "sed">>, <<NoFileReaders, "noFileReader">>,
      <<{"cp", "mv"}, "copy">>, <<Writers, "writer">>, <<Deleters, "deleter">>,
      <<FileReaders, "fileReader">>, <<PatternFirst, "patternReader">>>>

RouteOf(p) ==
    LET i == SelectInSeq(Routes, LAMBDA row : p \in row[1])
    IN IF i = 0 THEN "unrecognized" ELSE Routes[i][2]

-----------------------------------------------------------------------------
(* Drafts                                                                   *)

Here(cmd) == PathTarget(ResolvePath(<<".">>, cmd.cwd, WorkspaceRoot))
At(cmd, path) == PathTarget(ResolvePath(path, cmd.cwd, WorkspaceRoot))

\* A command that names no target acts where it runs.
RunnerDraft(capability, cmd, analyzability) ==
    Draft(capability, Here(cmd), analyzability, cmd.program, {})

FileDraft(cmd, capability, w) ==
    IF w.hasExpansion
    THEN Draft(capability, UnknownTarget, "partial", cmd.program, {"target_variable"})
    ELSE Draft(capability, At(cmd, w.path), "full", cmd.program, {})

FileOps(cmd, capability, patternFirst, destLast) ==
    LET operands == NonFlagArgs(cmd.args)
        files == IF patternFirst /\ operands # <<>> THEN Tail(operands) ELSE operands
        chosen == IF destLast /\ files # <<>> THEN {Last(files)} ELSE ToSet(files)
    IN IF files = <<>>
       THEN {RunnerDraft(capability, cmd, FullIf(capability = "read"))}
       ELSE {FileDraft(cmd, capability, w) : w \in chosen}

ScriptByPathDraft(cmd, w) ==
    IF w.hasExpansion
    THEN Draft("execute", UnknownTarget, "partial", cmd.program, {"script_by_variable_path"})
    ELSE Draft("execute", At(cmd, w.path), "partial", cmd.program, {"script_by_path"})

IsPathForm(w) == w.form \in {"path", "relative", "slug"}

-----------------------------------------------------------------------------
(* Shells and interpreters                                                  *)

\* The part of a shell's flags that takes a string or reads the input.
ShellOps(cmd) ==
    LET flags == LeadingWhile(cmd.args, LAMBDA w : IsFlag(w) /\ w.text # "--")
        operand == WordAt(AfterOptions(cmd.args, {}), 1)
    IN IF \/ cmd.heredocs # <<>>
          \/ HasFlag(flags, {"-c", "-s", "-lc"})
          \/ operand = Null
          \/ operand.text = "-" /\ ~operand.hasExpansion
       THEN {Opaque(cmd.program, "inline_code")}
       ELSE {ScriptByPathDraft(cmd, operand)}

\* One command that only reports: no list of commands, no format that runs a
\* command, no -c, nothing that an expansion may turn into another command.
IsTmuxQuery(args) ==
    LET rest == AfterOptions(args, TmuxValueFlags)
        options == SubSeq(args, 1, Len(args) - Len(rest))
    IN /\ ~HasFlag(args, {";", "#()"})
       /\ ~HasFlag(options, {"-c"})
       /\ rest # <<>> /\ ~rest[1].hasExpansion /\ rest[1].text \in TmuxQueries

\* The code after a code flag (the module a preload flag names is not code).
InlineCodeBody(args) ==
    LET flag == {i \in DOMAIN args : /\ args[i].text \in CodeFlags
                                     /\ TextAt(args, i - 1) \notin PreloadValueFlags}
        first == CHOOSE i \in flag : \A j \in flag : i <= j
        after == SelectSeq(From(args, first + 1), LAMBDA w : ~IsFlag(w) /\ w.text # "-")
    IN CASE flag = {} -> Null
         [] flag # {} /\ after = <<>> -> Plain("")
         [] OTHER -> after[1]

\* Code is opaque; the credential paths and hosts found in its text are shown.
InlineCodeOps(cmd, body) ==
    {Opaque(cmd.program, "inline_code")}
      \cup {Draft("read", At(cmd, path), "partial", cmd.program, {"inline_credential"}) :
              path \in body.credentials}
      \cup {Draft("send", HostOrUnknown(host), "partial", cmd.program, {"inline_url"}) :
              host \in body.urls}

InterpreterOps(cmd) ==
    LET body == InlineCodeBody(cmd.args)
    IN CASE body # Null -> InlineCodeOps(cmd, body)
         [] body = Null /\ cmd.heredocs # <<>> -> InlineCodeOps(cmd, Head(cmd.heredocs))
         [] OTHER -> {RunnerDraft("execute", cmd, "partial")}

-----------------------------------------------------------------------------
(* Packages                                                                 *)

DefaultRegistry(ecosystem) ==
    CASE ecosystem = "npm" -> "registry.npmjs.org"
      [] ecosystem = "pypi" -> "pypi.org"
      [] ecosystem = "cargo" -> "crates.io"
      [] ecosystem = "go" -> "proxy.golang.org"
      [] OTHER -> Null

\* findRegistryHost(args) ?? defaultRegistry(ecosystem)
RegistryOf(args, ecosystem) ==
    LET w == FlagWord(args, {"--registry", "-i", "--index-url"}, {"--registry=", "--index-url="})
    IN IF w = Null \/ w.hasExpansion \/ w.host = Null THEN DefaultRegistry(ecosystem)
                                                      ELSE w.host

SourceHost(host) == IF host = Null THEN Null ELSE <<host>>

\* Where the package comes from, a host or a Remote Key; Null when its spec does
\* not tell.
PackageSource(cmd, ecosystem, pkg) ==
    CASE pkg # Null /\ (pkg.hasExpansion \/ pkg.form \in {"path", "remote"}) -> Null
      [] pkg # Null /\ ~pkg.hasExpansion /\ pkg.form \in {"url", "slug"} ->
             IF pkg.key # Null THEN pkg.key ELSE SourceHost(pkg.host)
      [] OTHER -> SourceHost(RegistryOf(cmd.args, ecosystem))

InstallDraft(cmd, ecosystem, pkg) ==
    LET source == PackageSource(cmd, ecosystem, pkg)
    IN Draft("install", PackageTarget(ecosystem, source), FullIf(pkg # Null /\ source # Null),
             cmd.program, {})

PublishDraft(cmd, ecosystem) ==
    LET source == SourceHost(RegistryOf(cmd.args, ecosystem))
    IN UnlessNoEffect(
         Draft("push", PackageTarget(ecosystem, source), FullIf(source # Null), cmd.program, {}),
         cmd.args, {"--dry-run"})

PkgExecOps(cmd) ==
    LET named == SelectSeq(NonFlagArgs(cmd.args), LAMBDA w : w.text \notin {"dlx", "create"})
    IN {InstallDraft(cmd, "npm", WordAt(named, 1)), RunnerDraft("execute", cmd, "partial")}

PkgManagerOps(cmd) ==
    LET positional == NonFlagArgs(cmd.args)
        sub == TextAt(positional, 1)
    IN CASE sub = "publish" -> {PublishDraft(cmd, "npm")}
         [] sub \in {"dlx", "create"} -> PkgExecOps(cmd)
         [] sub \in InstallSubs -> {InstallDraft(cmd, "npm", WordAt(positional, 2))}
         [] OTHER -> {RunnerDraft("execute", cmd, "partial")}

CargoGoOps(cmd) ==
    LET positional == NonFlagArgs(cmd.args)
        sub == TextAt(positional, 1)
        ecosystem == IF cmd.program = "go" THEN "go" ELSE "cargo"
    IN CASE sub \in {"install", IF cmd.program = "go" THEN "get" ELSE "add"} ->
                {InstallDraft(cmd, ecosystem, WordAt(positional, 2))}
         [] sub = "publish" -> {PublishDraft(cmd, ecosystem)}
         [] OTHER -> {RunnerDraft("execute", cmd, "partial")}

InstallerOps(cmd) ==
    LET positional == NonFlagArgs(cmd.args)
        ecosystem == InstallerEcosystem[cmd.program]
    IN IF ecosystem = "pypi" /\ TextAt(positional, 1) \in {"list", "show", "freeze"}
       THEN {RunnerDraft("read", cmd, "partial")}
       ELSE {InstallDraft(cmd, ecosystem, WordAt(positional, 2))}

-----------------------------------------------------------------------------
(* Network and deployment                                                   *)

DataFlags ==
    {"-d", "--data", "--data-raw", "--data-binary", "--data-urlencode", "-F", "--form", "-T",
     "--upload-file"}

PostMethod(args) ==
    LET w == FlagWord(args, {"-X", "--request"}, {})
    IN w # Null /\ w.text \in {"POST", "PUT", "PATCH", "DELETE"}

\* An explicit URL, or else the last word that looks like the name of a host.
FindUrlArg(args) ==
    LET url == SelectSeq(args, LAMBDA w : w.form = "url")
        hosts == SelectSeq(args, LAMBDA w : w.host # Null)
    IN CASE url # <<>> -> Head(url)
         [] url = <<>> /\ hosts # <<>> -> Last(hosts)
         [] OTHER -> Null

HttpOps(cmd) ==
    LET w == FindUrlArg(NonFlagArgs(cmd.args))
        host == IF w = Null \/ w.hasExpansion THEN Null ELSE w.host
        sends == HasFlag(cmd.args, DataFlags) \/ PostMethod(cmd.args)
    IN {Draft(IF sends THEN "send" ELSE "fetch", HostOrUnknown(host), FullIf(host # Null),
              cmd.program, {})}

RemoteCopyDraft(cmd, capability, w) ==
    Draft(capability, HostOrUnknown(w.host), FullIf(w.host # Null), cmd.program, {"remote_copy"})

\* Every local source is read and every remote one fetched; the last operand is
\* sent to, or written.
CopyOps(cmd, allowsRemote) ==
    LET operands == NonFlagArgs(cmd.args)
        IsRemote(w) == allowsRemote /\ w.form \in {"scp", "remote", "url"}
        sources == IF operands = <<>> THEN {} ELSE ToSet(Front(operands))
        reads == {FileDraft(cmd, "read", w) : w \in {v \in sources : ~IsRemote(v)}}
        fetches == {RemoteCopyDraft(cmd, "fetch", w) : w \in {v \in sources : IsRemote(v)}}
    IN reads \cup fetches \cup
         IF operands # <<>> /\ IsRemote(Last(operands))
         THEN {RemoteCopyDraft(cmd, "send", Last(operands))}
         ELSE FileOps(cmd, "write", FALSE, TRUE)

\* The default registry of an image is docker.io.
DockerOps(cmd) ==
    LET positional == NonFlagArgs(cmd.args)
        image == WordAt(positional, 2)
        host == CASE image = Null -> Null
                  [] image # Null /\ image.hasExpansion -> Null
                  [] image # Null /\ ~image.hasExpansion /\ image.host # Null -> image.host
                  [] OTHER -> "docker.io"
    IN CASE TextAt(positional, 1) = "push" ->
                {UnlessNoEffect(
                   Draft("push", HostOrUnknown(host), FullIf(host # Null), "docker", {}),
                   cmd.args, {"--dry-run"})}
         [] TextAt(positional, 1) = "pull" -> {RunnerDraft("fetch", cmd, "partial")}
         [] OTHER -> {RunnerDraft("execute", cmd, "partial")}

\* A tool whose subcommand deploys, or else does what it does by default.
SubcommandOps(cmd, deploySubs, otherwise) ==
    LET sub == TextAt(NonFlagArgs(cmd.args), 1)
    IN {RunnerDraft(IF sub \in deploySubs THEN "deploy" ELSE otherwise, cmd, "partial")}

KubectlSubs == {"apply", "create", "delete", "replace", "patch", "rollout", "scale", "edit", "set"}
HelmSubs == {"upgrade", "install", "rollback", "uninstall", "delete"}

-----------------------------------------------------------------------------
(* find, and the whole table                                                *)

SedOps(cmd) ==
    FileOps(cmd, IF HasFlag(cmd.args, {"-i", "-i.bak", "--in-place"}) THEN "write" ELSE "read",
            TRUE, FALSE)

\* The paths before the first expression, or where the command runs.
FindRootTargets(cmd) ==
    LET roots == LeadingWhile(cmd.args, LAMBDA w : ~IsFlag(w))
    IN IF roots = <<>> THEN {Here(cmd)}
       ELSE {IF w.hasExpansion THEN UnknownTarget ELSE At(cmd, w.path) : w \in ToSet(roots)}

\* The command after the first -exec, without the placeholders.
FindExec(args) ==
    LET i == SelectInSeq(args, LAMBDA w : w.text \in {"-exec", "-execdir", "-ok"})
    IN IF i = 0 THEN <<>>
       ELSE SelectSeq(From(args, i + 1), LAMBDA w : w.text \notin {"{}", ";", "+"})

RECURSIVE ClassifyProgram(_)

FindOps(cmd) ==
    LET inner == FindExec(cmd.args)
        innerCmd == [cmd EXCEPT !.program = Basename(inner[1]), !.invocation = inner[1],
                                !.args = Tail(inner)]
        capability == IF HasFlag(cmd.args, {"-delete"}) THEN "delete" ELSE "read"
    IN IF inner # <<>> /\ inner[1].text # ""
       THEN {Draft(op.capability, target, "partial", innerCmd.program, {"find_exec"}) :
               op \in ClassifyProgram(innerCmd), target \in FindRootTargets(cmd)}
       ELSE {Draft(capability, target, "partial", cmd.program, {}) :
               target \in FindRootTargets(cmd)}

\* A program that no table has runs the file it names, or is opaque.
UnrecognizedOps(cmd) ==
    IF IsPathForm(cmd.invocation) THEN {ScriptByPathDraft(cmd, cmd.invocation)}
                                  ELSE {Opaque(cmd.program, "program_unrecognized")}

ClassifyProgram(cmd) ==
    LET p == cmd.program
        route == RouteOf(p)
    IN CASE p = "command" /\ IsCommandLookup(cmd.args) -> {RunnerDraft("read", cmd, "full")}
         [] route = "interpreter" -> InterpreterOps(cmd)
         [] route = "pkgExec" -> PkgExecOps(cmd)
         [] route = "pkgManager" -> PkgManagerOps(cmd)
         [] route = "runner" -> {RunnerDraft("execute", cmd, "partial")}
         [] route = "installer" -> InstallerOps(cmd)
         [] route = "find" -> FindOps(cmd)
         [] route = "http" -> HttpOps(cmd)
         [] route = "remoteCopy" -> CopyOps(cmd, TRUE)
         [] route = "remoteExec" -> {Opaque(p, "remote_exec")}
         [] route = "docker" -> DockerOps(cmd)
         [] route = "kubectl" -> SubcommandOps(cmd, KubectlSubs, "fetch")
         [] route = "stateTool" -> SubcommandOps(cmd, {"apply", "destroy", "plan"}, "execute")
         [] route = "helm" -> SubcommandOps(cmd, HelmSubs, "fetch")
         [] route = "deployer" -> {RunnerDraft("deploy", cmd, "partial")}
         [] route = "wrangler" -> SubcommandOps(cmd, {"deploy", "publish"}, "execute")
         [] route = "cargoGo" -> CargoGoOps(cmd)
         [] route = "shell" -> ShellOps(cmd)
         [] route = "opaque" /\ p = "tmux" /\ IsTmuxQuery(cmd.args) ->
                {RunnerDraft("read", cmd, "partial")}
         [] route = "opaque" /\ ~(p = "tmux" /\ IsTmuxQuery(cmd.args)) ->
                {Opaque(p, "inline_code")}
         [] route = "mktemp" -> {RunnerDraft("write", cmd, "partial")}
         [] route = "sed" -> SedOps(cmd)
         [] route = "noFileReader" -> {RunnerDraft("read", cmd, "full")}
         [] route = "copy" -> CopyOps(cmd, FALSE)
         [] route = "writer" -> FileOps(cmd, "write", FALSE, p = "ln")
         [] route = "deleter" -> FileOps(cmd, "delete", FALSE, FALSE)
         [] route = "fileReader" -> FileOps(cmd, "read", FALSE, FALSE)
         [] route = "patternReader" -> FileOps(cmd, "read", TRUE, FALSE)
         [] OTHER -> UnrecognizedOps(cmd)
=============================================================================
