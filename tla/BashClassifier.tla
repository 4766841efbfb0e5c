--------------------------- MODULE BashClassifier ---------------------------
(***************************************************************************)
(* The classification of a ToolCall, statement by statement, beside the    *)
(* run of the same statements by a shell (packages/action: classify.ts,    *)
(* bash.ts, shell/parser.ts).                                              *)
(*                                                                         *)
(* A statement is a syntax tree. A command keeps, next to the words the    *)
(* classifier reads, the words of the command that really runs behind its  *)
(* wrappers, runs, and in string what else it runs and has in its words:   *)
(* the script after -c, or what find runs besides its first -exec. What    *)
(* the shell does is external; what the classifier makes of the tree is    *)
(* the code.                                                               *)
(***************************************************************************)
EXTENDS GitCommands, Programs

CONSTANTS
    Statement,       \* syntax trees; which ones is a bound
    Movers,          \* bound: what another statement may follow, unless the cwd is astray
    ToolName,        \* the tools that are called
    ReadOnly,        \* the commands, as words, that are known to only read
    Misread,         \* the commands, as words, that do more than read, of a program
                     \*   that the tables tell as a read by its name or subcommand
    ReadOnlyTools,   \* the tools that are known to only read
    Home,            \* the home directory of the shell, an absolute path
    Elsewhere,       \* where an unknown cd may lead: absolute paths
    MaxDepth         \* bound: the depth of the working directory

ASSUME ClassifierAssumption ==
    /\ Movers \subseteq Statement /\ MaxDepth \in Nat
    /\ Misread \cap ReadOnly = {}

VARIABLES
    phase,        \* "start", "script" or "done"
    call,         \* the tool and whether its input was truncated
    hasError,     \* the parser met a syntax error
    cwd,          \* the tracked working directory: a path, or Null
    drafts,       \* the Operations of the last statement, or of the end of the call
    isReading,    \* every Operation of the call so far is a read
    isEmpty,      \* the call has no Operation so far
    real,         \* where the shell is
    isAstray,     \* a cd the classifier does not follow, or follows into a child
    isOverlooked, \* a command stands where the classifier does not look, or is Misread
    last,         \* what the shell ran for the last statement
    hasEffect     \* the call did more than read

vars == <<phase, call, hasError, cwd, drafts, isReading, isEmpty, real, isAstray, isOverlooked,
          last, hasEffect>>

-----------------------------------------------------------------------------
(* The parser: simple commands, flattened                                   *)

MaxReparseDepth == 3

\* The redirections of a node: a duplicated descriptor and a here-string are none.
ExtractRedirects(redirects) ==
    LET kept == SelectSeq(redirects, LAMBDA r : r.op \notin {">&", "<<<"})
        kindOf == [op \in {">", ">>", "<", "<<"} |->
                     CASE op = ">" -> "write" [] op = ">>" -> "append"
                       [] op = "<" -> "read" [] op = "<<" -> "heredoc"]
    IN [i \in DOMAIN kept |-> [kind |-> kindOf[kept[i].op], target |-> kept[i].target]]

BuildCommand(node) ==
    [name |-> node.name, args |-> node.args, redirects |-> ExtractRedirects(node.redirects)]

\* The word after -c, when it is a string the parser can read again.
ReparsedString(node, depth) ==
    LET flags == LeadingWhile(node.args, LAMBDA w : IsFlag(w) /\ w.text # "--")
        dashC == SelectInSeq(flags, LAMBDA w : w.text = "-c")
        body == WordAt(node.args, dashC + 1)
    IN /\ node.name # Null /\ Basename(node.name) \in Shells
       /\ dashC # 0
       /\ body # Null /\ ~body.hasExpansion /\ body.text # ""
       /\ depth + 1 <= MaxReparseDepth

\* The redirections of a body are those of the last command collected in it.
AttachToLast(commands, redirects) ==
    IF commands = <<>> THEN <<>>
    ELSE Append(Front(commands), [Last(commands) EXCEPT !.redirects = @ \o redirects])

\* A mutant: the substitutions in the words of a command are not looked into.
RECURSIVE CollectWithoutBodies(_, _)
CollectWithoutBodies(node, depth) ==
    LET each(nodes, d) == FlattenSeq([i \in DOMAIN nodes |-> CollectWithoutBodies(nodes[i], d)])
    IN CASE node.type = "command" /\ ReparsedString(node, depth) -> each(node.string, depth + 1)
         [] node.type = "command" /\ ~ReparsedString(node, depth) -> <<BuildCommand(node)>>
         [] node.type = "redirected" ->
              AttachToLast(each(node.body, depth), ExtractRedirects(node.redirects))
         [] OTHER -> each(node.body, depth)

RECURSIVE Collect(_, _), CollectAll(_, _)
CollectAll(nodes, depth) ==
    FlattenSeq([i \in DOMAIN nodes |-> Collect(nodes[i], depth)])

Collect(node, depth) ==
    CASE node.type = "command" /\ ReparsedString(node, depth) ->
           CollectAll(node.string, depth + 1)
      [] node.type = "command" /\ ~ReparsedString(node, depth) ->
           <<BuildCommand(node)>> \o CollectAll(node.body, depth)
      [] node.type = "redirected" ->
           AttachToLast(CollectAll(node.body, depth), ExtractRedirects(node.redirects))
      [] OTHER -> CollectAll(node.body, depth)

-----------------------------------------------------------------------------
(* classifyBash                                                             *)

Wrappers ==
    {"sudo", "doas", "nohup", "nice", "ionice", "stdbuf", "command", "builtin", "exec",
     "time", "env", "timeout", "xargs", "watch", "chroot", "setsid"}

WrapperValueFlags(wrapper) ==
    CASE wrapper = "sudo" -> {"-u", "-g", "-p", "-C", "-h", "-U", "-r", "-t"}
      [] wrapper = "doas" -> {"-u", "-C"}
      [] wrapper = "xargs" -> {"-I", "-n", "-P", "-L", "-s", "-a", "-d", "-E", "--max-args",
                               "--max-procs"}
      [] wrapper = "stdbuf" -> {"-i", "-o", "-e"}
      [] wrapper = "env" -> {"-u", "--unset"}
      [] OTHER -> {}

\* The argv behind a wrapper: not its flags, their values, the assignments of
\* env, nor the duration of timeout.
RECURSIVE SkipWrapperArgs(_, _)
SkipWrapperArgs(wrapper, args) ==
    LET rest == AfterOptions(args, WrapperValueFlags(wrapper))
    IN CASE rest # <<>> /\ wrapper = "env" /\ rest[1].form = "assign" ->
              SkipWrapperArgs(wrapper, Tail(rest))
         [] rest # <<>> /\ wrapper = "timeout" -> AfterOptions(Tail(rest), {})
         [] OTHER -> rest

MaxWrappers == 6

\* The words of the command behind its wrappers; empty when nothing is left.
RECURSIVE StripWrappers(_, _)
StripWrappers(words, guard) ==
    IF \/ words = <<>> \/ guard = 0 \/ Basename(words[1]) \notin Wrappers
       \/ Basename(words[1]) = "command" /\ IsCommandLookup(Tail(words))
    THEN words
    ELSE StripWrappers(SkipWrapperArgs(Basename(words[1]), Tail(words)), guard - 1)

SpecialDevices == {"/dev/null", "/dev/stdout", "/dev/stderr", "/dev/tty", "/dev/zero"}

\* A mutant: only what truncates a file writes it.
RedirectTruncates(command, at, program) ==
    {Draft("write", IF r.target.hasExpansion THEN UnknownTarget
                    ELSE PathTarget(ResolvePath(r.target.path, at, WorkspaceRoot)),
           "partial", program, {"redirect"}) :
       r \in {s \in ToSet(command.redirects) :
               s.kind = "write" /\ s.target.text \notin SpecialDevices}}

RedirectWrites(command, at, program) ==
    LET isFile(r) == /\ r.kind \in {"write", "append"}
                     /\ r.target.hasExpansion \/ r.target.text \notin SpecialDevices
    IN {IF r.target.hasExpansion
        THEN Draft("write", UnknownTarget, "partial", program, {"target_variable", "redirect"})
        ELSE Draft("write", PathTarget(ResolvePath(r.target.path, at, WorkspaceRoot)), "full",
                   program, {"redirect"}) :
          r \in {s \in ToSet(command.redirects) : isFile(s)}}

HeredocBodies(command) ==
    LET heredocs == SelectSeq(command.redirects, LAMBDA r : r.kind = "heredoc")
    IN [i \in DOMAIN heredocs |-> heredocs[i].target]

\* A mutant: "-" is a directory like another.
CdToDash(command, at) ==
    LET first == WordAt(NonFlagArgs(command.args), 1)
        resolved == ResolvePath(first.path, at, WorkspaceRoot)
    IN IF first = Null \/ first.hasExpansion
       THEN [op |-> Draft("read", UnknownTarget, "partial", "cd", {"cwd_unknown"}), cwd |-> Null]
       ELSE [op |-> Draft("read", PathTarget(resolved), "full", "cd", {}), cwd |-> resolved.path]

\* classifyCd: an unnamed directory is unknown from here on.
ClassifyCd(command, at) ==
    LET first == WordAt(NonFlagArgs(command.args), 1)
        resolved == ResolvePath(first.path, at, WorkspaceRoot)
    IN IF first = Null \/ first.hasExpansion \/ first.text = "-"
       THEN [op |-> Draft("read", UnknownTarget, "partial", "cd", {"cwd_unknown"}), cwd |-> Null]
       ELSE [op |-> Draft("read", PathTarget(resolved), "full", "cd", {}), cwd |-> resolved.path]

\* A command that is not a cd: bare wrappers read, the others go by program.
ClassifySimple(command, at) ==
    LET words == StripWrappers(<<command.name>> \o command.args, MaxWrappers)
        cmd == [program |-> Basename(words[1]), invocation |-> words[1], args |-> Tail(words),
                cwd |-> at, heredocs |-> HeredocBodies(command)]
        bare == Basename(command.name)
    IN IF words = <<>>
       THEN {Draft("read", PathTarget(ResolvePath(<<".">>, at, WorkspaceRoot)), "full", bare, {})}
              \cup RedirectWrites(command, at, bare)
       ELSE (CASE cmd.program = "git" -> ClassifyGit(cmd)
               [] cmd.program = "gh" -> ClassifyGh(cmd)
               [] OTHER -> ClassifyProgram(cmd))
              \cup RedirectWrites(command, at, cmd.program)

\* One turn of the loop over the commands of a script.
ClassifyCommand(state, command) ==
    CASE command.name = Null -> state
      [] command.name # Null /\ Basename(command.name) = "cd" ->
           LET result == ClassifyCd(command, state.cwd)
           IN [cwd |-> result.cwd,
               ops |-> state.ops \cup {result.op} \cup RedirectWrites(command, state.cwd, "cd")]
      [] OTHER ->
           [state EXCEPT !.ops = @ \cup ClassifySimple(command, state.cwd)]

ClassifyBash(commands, at) ==
    FoldLeft(ClassifyCommand, [cwd |-> at, ops |-> {}], commands)

-----------------------------------------------------------------------------
(* The shell (external)                                                     *)

\* The directory or file a path stands for when the shell is at dir.
Denotes(path, dir) ==
    NormalizeSegments(CASE IsAbsolute(path) -> path
                        [] IsHomePath(path) -> Home \o Tail(path)
                        [] OTHER -> dir \o path)

\* Where a cd takes the shell; other is where a cd to a value not in the text goes.
CdTo(args, dir, other) ==
    LET first == WordAt(NonFlagArgs(args), 1)
    IN CASE first = Null -> Home
         [] first # Null /\ (first.hasExpansion \/ first.text = "-") -> other
         [] OTHER -> Denotes(first.path, dir)

Ran(words, dir, redirects) == [words |-> words, dir |-> dir, redirects |-> redirects]

\* A script: what it runs, where, with which redirections, and where it leaves
\* the shell. Strings after -c, words, subshells and the parts of a pipeline run
\* in processes of their own; a redirection is of the last command before it.
RECURSIVE Shell(_, _, _, _), ShellAll(_, _, _)
ShellAll(nodes, dir, other) ==
    FoldLeft(LAMBDA r, node :
               LET next == Shell(node, r.dir, other, {})
               IN [ran |-> r.ran \cup next.ran, dir |-> next.dir],
             [ran |-> {}, dir |-> dir], nodes)

Shell(node, dir, other, outer) ==
    LET within == ShellAll(node.body, dir, other)
        string == ShellAll(node.string, dir, other)
        redirects == outer \cup ToSet(node.redirects)
        front == ShellAll(Front(node.body), dir, other)
        final == Shell(Last(node.body), front.dir, other, redirects)
        isCd == node.runs # <<>> /\ node.runs[1].text = "cd"
    IN CASE node.type = "command" ->
              [ran |-> within.ran \cup string.ran \cup {Ran(node.runs, dir, redirects)},
               dir |-> IF isCd THEN CdTo(Tail(node.runs), dir, other) ELSE dir]
         [] node.type = "redirected" /\ node.body # <<>> ->
              [ran |-> front.ran \cup final.ran, dir |-> final.dir]
         [] node.type = "child" ->
              [ran |-> within.ran \cup {Ran(<<>>, dir, redirects)}, dir |-> dir]
         [] OTHER -> [ran |-> within.ran \cup {Ran(<<>>, dir, redirects)}, dir |-> within.dir]

\* A cd that the classifier cannot see, or that it follows though it is not the
\* shell's own.
RECURSIVE Strays(_, _)
Strays(node, inChild) ==
    LET any(nodes, child) == \E i \in DOMAIN nodes : Strays(nodes[i], child)
    IN IF node.type = "command"
       THEN \/ /\ node.runs # <<>> /\ node.runs[1].text = "cd"
               /\ inChild \/ node.name.text # "cd"
            \/ any(node.body, TRUE)
            \/ any(node.string, TRUE)
       ELSE any(node.body, inChild \/ node.type = "child")

\* The command of a node is not what its words are classified as: more wrappers than
\* are stripped, one behind -exec, where none is, or what find runs besides the first
\* -exec, -execdir or -ok.
IsHidden(node) ==
    LET words == StripWrappers(<<node.name>> \o node.args, MaxWrappers)
        isWrapper(w) == Basename(w) \in Wrappers
        exec == FindExec(Tail(words))
    IN /\ node.name # Null /\ words # <<>>
       /\ \/ isWrapper(words[1]) /\ ~IsCommandLookup(Tail(words))
          \/ /\ Basename(words[1]) = "find"
             /\ node.string # <<>> \/ (exec # <<>> /\ isWrapper(exec[1]))

\* A command or a redirection of the tree that the classifier does not see: also the
\* substitutions beside a string that is read again, and a redirection of no command.
RECURSIVE Overlooks(_, _)
Overlooks(node, depth) ==
    LET any(nodes, d) == \E i \in DOMAIN nodes : Overlooks(nodes[i], d)
        inside == CollectAll(node.body, depth)
    IN CASE node.type = "command" /\ ReparsedString(node, depth) ->
              node.body # <<>> \/ any(node.string, depth + 1)
         [] node.type = "command" /\ ~ReparsedString(node, depth) ->
              IsHidden(node) \/ any(node.body, depth)
         [] node.type = "redirected" ->
              \/ inside = <<>> \/ Last(inside).name = Null
              \/ any(node.body, depth)
         [] OTHER -> any(node.body, depth)

-----------------------------------------------------------------------------
(* classifyToolCall                                                         *)

\* Tools with a capability; a control tool, or one that reaches nothing, has no
\* Operation; an mcp tool and one nobody knows are executed.
ToolTable ==
    [t \in {"Read", "NotebookRead", "Glob", "Grep", "LS"} |-> "read"]
      @@ [t \in {"Write", "Edit", "MultiEdit", "NotebookEdit"} |-> "write"]
      @@ [t \in {"WebFetch", "WebSearch"} |-> "fetch"]

NoOperation == {"StructuredOutput"}

ControlToolNames ==
    {"AskUserQuestion", "ScheduleWakeup", "Skill", "TaskOutput", "TaskStop", "ToolSearch"}

\* What the tool's input says: the word its field holds, Null without the field,
\* "elided", or "unparsed" when the input is no JSON record.
ToolOps(name, field) ==
    CASE name \in ControlToolNames \cup NoOperation -> {}
      [] name = "mcp__server__tool" ->
             {Draft("execute", [kind |-> "mcp", server |-> "server", tool |-> "tool"], "partial",
                    name, {})}
      [] name \in DOMAIN ToolTable /\ field = "unparsed" -> {Opaque(name, "input_unparsed")}
      [] name \in DOMAIN ToolTable /\ field \in {"missing", "elided"} ->
             {Draft(ToolTable[name], UnknownTarget, "partial", name,
                    IF field = "elided" /\ name # "WebSearch" THEN {"input_elided"} ELSE {})}
      [] name \in DOMAIN ToolTable /\ field = "given" ->
             {CASE name = "WebFetch" -> Draft("fetch", HostTarget("example.com"), "full", name, {})
                [] name = "WebSearch" -> Draft("fetch", UnknownTarget, "partial", name, {})
                [] OTHER -> Draft(ToolTable[name],
                                  PathTarget(ResolvePath(<<"file">>, WorkspaceRoot, WorkspaceRoot)),
                                  "full", name, {})}
      [] OTHER -> {Opaque(name, "tool_unrecognized")}

Init ==
    /\ phase = "start"
    /\ call \in [tool : ToolName, isInputTruncated : BOOLEAN]
    /\ hasError = FALSE
    /\ cwd = WorkspaceRoot
    /\ real = Denotes(WorkspaceRoot, Home)
    /\ drafts = {} /\ last = {}
    /\ isReading = TRUE /\ isEmpty = TRUE
    /\ isAstray = FALSE /\ isOverlooked = FALSE /\ hasEffect = FALSE

\* The Operations a step adds to those of the call.
Add(ops) ==
    /\ drafts' = ops
    /\ isReading' = (isReading /\ \A op \in ops : op.capability = "read")
    /\ isEmpty' = (isEmpty /\ ops = {})

\* What of a run is more than reading: the command, or a file it is sent to.
HasEffect(run) ==
    \/ run.words # <<>> /\ run.words \notin ReadOnly
    \/ \E r \in run.redirects :
          /\ r.op \in {">", ">>"}
          /\ r.target.hasExpansion \/ r.target.text \notin SpecialDevices

\* The next statement of a Bash call.
ClassifyStatement ==
    /\ call.tool = "Bash" /\ phase = "start"
    /\ \E s \in Statement, other \in Elsewhere :
       \E result \in {ClassifyBash(Collect(s, 0), cwd)}, shell \in {Shell(s, real, other, {})} :
          /\ Len(shell.dir) <= MaxDepth
          /\ Add(result.ops)
          /\ cwd' = result.cwd
          /\ real' = shell.dir
          /\ last' = shell.ran
          /\ isAstray' = \/ isAstray
                         \/ Strays(s, FALSE)
                         \/ /\ result.cwd # Null
                            /\ ~IsAbsolute(result.cwd) /\ ~IsHomePath(result.cwd)
          /\ hasEffect' = (hasEffect \/ \E run \in shell.ran : HasEffect(run))
          /\ isOverlooked' = \/ isOverlooked
                             \/ Overlooks(s, 0)
                             \/ \E run \in shell.ran : run.words \in Misread
          /\ phase' = IF s \in Movers /\ ~isAstray' THEN "start" ELSE "script"
    /\ UNCHANGED <<call, hasError>>

\* A statement with a syntax error, whose commands nobody knows.
SyntaxError ==
    /\ call.tool = "Bash" /\ phase = "start"
    /\ hasError' = TRUE /\ hasEffect' = TRUE /\ phase' = "script"
    /\ drafts' = {} /\ last' = {}
    /\ UNCHANGED <<call, cwd, isReading, isEmpty, real, isAstray, isOverlooked>>

\* A call of another tool.
ClassifyTool ==
    /\ call.tool # "Bash" /\ phase = "start"
    /\ \E field \in {"given", "missing", "elided", "unparsed"} : Add(ToolOps(call.tool, field))
    /\ hasEffect' = (call.tool \notin ReadOnlyTools)
    /\ phase' = "script"
    /\ UNCHANGED <<call, hasError, cwd, real, isAstray, isOverlooked, last>>

\* The end of a call: what could not be analyzed is opaque, and a Bash call has an
\* Operation.
Finish ==
    /\ phase \in {"start", "script"}
    /\ call.tool = "Bash" \/ phase = "script"
    /\ LET error == IF hasError THEN {Opaque(Null, "parse_error")} ELSE {}
           empty == IF call.tool = "Bash" /\ isEmpty /\ ~hasError
                    THEN {Opaque(Null, "empty_command")} ELSE {}
           truncated == IF call.isInputTruncated THEN {Opaque(Null, "input_truncated")} ELSE {}
       IN Add(error \cup empty \cup truncated)
    /\ phase' = "done" /\ last' = {}
    /\ hasEffect' = (hasEffect \/ call.isInputTruncated)
    /\ UNCHANGED <<call, hasError, cwd, real, isAstray, isOverlooked>>

Next == ClassifyStatement \/ SyntaxError \/ ClassifyTool \/ Finish

Spec == Init /\ [][Next]_vars

-----------------------------------------------------------------------------
(* Properties                                                               *)

\* No call that does more than read is told as reading only, whatever wrappers,
\* substitutions, strings, pipelines or redirections a command stands in, and
\* whatever of the call was cut off or could not be parsed, but for what the classifier
\* overlooks: a substitution beside a string after -c that is read again, all that find
\* runs besides the command of its first -exec, a wrapper behind -exec, a command behind
\* more than six wrappers, a redirection of no command; and the forms of a program that
\* write although it is told as a read by its name or subcommand: git remote add, git
\* worktree remove, git config --unset, sort -o, system() of awk, sudo -s.
NoFalseRead == phase = "done" /\ isReading /\ ~isOverlooked => ~hasEffect

\* What a command does where it stands alone is among what the classifier finds
\* where it stands, or the classifier says that something stayed opaque; but for the
\* places the classifier does not look at, which NoFalseRead names.
ContextIsTransparent ==
    ~isOverlooked => \A run \in last :
        LET alone == [name |-> run.words[1], args |-> Tail(run.words),
                      redirects |-> ExtractRedirects(SetToSeq(run.redirects))]
            kinds(ops) == {<<op.capability, op.program>> : op \in ops}
        IN run.words # <<>> =>
             \/ kinds(ClassifyBash(<<alone>>, cwd).ops) \subseteq kinds(drafts)
             \/ \E op \in drafts : op.analyzability = "none"

\* The tracked working directory is the shell's, unless a cd went where the
\* classifier does not follow.
CwdIsReal ==
    cwd # Null /\ ~isAstray => Denotes(cwd, Home) = real

\* The directory git and gh work in: theirs, moved by every -C; Null when that
\* cannot be told, or the repository is another one.
RECURSIVE MovedBy(_, _)
MovedBy(words, dir) ==
    LET option == TextAt(words, 1)
    IN CASE option = "-C" /\ words[2].hasExpansion -> Null
         [] option = "-C" /\ ~words[2].hasExpansion ->
                MovedBy(From(words, 3), Denotes(words[2].path, dir))
         [] option \in {"--git-dir", "--git-dir="} -> Null
         [] option = "-c" -> MovedBy(From(words, 3), dir)
         [] OTHER -> dir

\* A name is looked up among the session's remotes only for a command that works
\* in the session's workspace: elsewhere the same name is another repository.
SessionRemotesAreOfTheWorkspace ==
    \A run \in last : \A op \in drafts :
        LET root == Denotes(WorkspaceRoot, Home)
            dir == MovedBy(Tail(run.words), run.dir)
        IN /\ run.words # <<>> /\ run.words[1].text \in {"git", "gh"} /\ ~isAstray
           /\ op.target.kind = "vcs_remote" /\ op.target.remoteName # Null
           /\ op.target.remoteKey # Null
           => dir # Null /\ IsPrefix(root, dir)

\* What a command is told to act on is where the shell runs it: the directory that is
\* tracked, and the session's remotes only where they are the repository's.
ShellContextIsTracked == CwdIsReal /\ SessionRemotesAreOfTheWorkspace
=============================================================================
