---------------------------- MODULE MCClassifier ----------------------------
(***************************************************************************)
(* The statements TLC gives to the classifier: at least one command for    *)
(* every handler, bare and inside every construct of the shell.            *)
(***************************************************************************)
EXTENDS BashClassifier, FiniteSets

-----------------------------------------------------------------------------
(* Words                                                                    *)

w(text) == Plain(text)
f(flag) == [Plain(flag) EXCEPT !.form = "flag"]
value(flag, v) == [f(flag) EXCEPT !.dest = v, !.path = <<v>>]
p(path) == [Plain("path") EXCEPT !.form = "path", !.path = path]
slug(key) == [Plain("owner/repo") EXCEPT !.form = "slug", !.path = <<"owner", "repo">>, !.key = key]
url(h, key) == [Plain("url") EXCEPT !.form = "url", !.scheme = "https", !.host = h, !.key = key]
remote(h) == [Plain("remote") EXCEPT !.form = "remote", !.host = h]
assign == [Plain("A=1") EXCEPT !.form = "assign"]
var == [Plain("") EXCEPT !.hasExpansion = TRUE, !.path = <<>>]

OurKey == <<"github.com", "us/repo">>
OtherKey == <<"github.com", "them/other">>
file == w("file")
none == w("/dev/null")

-----------------------------------------------------------------------------
(* Commands                                                                 *)

ReadCommands ==
    {<<w("cat"), file>>, <<w("ls")>>, <<w("grep"), w("x"), file>>, <<w("sed"), w("s"), file>>,
     <<w("pwd")>>, <<w("echo"), var>>, <<w("env")>>, <<w("find"), p(<<".">>), f("-name"), w("x")>>,
     <<w("command"), f("-v"), w("rm")>>, <<w("tmux"), w("ls")>>, <<w("pip"), w("list")>>,
     <<w("git"), w("status")>>, <<w("git"), f("-C"), p(<<"..">>), w("log")>>,
     <<w("git"), w("branch")>>, <<w("git"), w("tag")>>, <<w("git"), w("config"), w("k")>>,
     <<w("gh"), w("auth"), w("status")>>}

LocalCommands ==
    {<<w("rm"), file>>, <<w("rm"), var>>, <<w("cp"), file, p(<<"/", "tmp">>)>>,
     <<w("ln"), f("-s"), file, w("link")>>, <<w("tee")>>, <<w("mktemp")>>,
     <<w("sed"), f("-i"), w("s"), file>>, <<w("find"), f("-delete")>>,
     <<w("find"), p(<<".">>), f("-delete")>>, <<w("kill"), w("1")>>, <<w("make")>>,
     <<w("node"), file>>, <<w("node"), f("-r"), w("m"), f("-e"), w("code")>>,
     <<w("python3"), f("-c"), [w("code") EXCEPT !.credentials = {<<"~", ".ssh", "id">>},
                                               !.urls = {"example.com"}]>>,
     <<w("bash"), file>>, <<w("bash"), var>>, <<w("sh"), f("-s")>>, <<w("source"), file>>,
     <<[w("run") EXCEPT !.form = "relative", !.path = <<"bin", "run">>]>>, <<w("nobody")>>,
     <<w("tmux"), w("kill-server")>>, <<w("tmux"), var>>, <<w("eval"), var>>,
     <<w("npm"), w("run"), w("build")>>, <<w("cargo"), w("build")>>}

PackageCommands ==
    {<<w("npm"), w("install")>>, <<w("pnpm"), w("add"), w("pkg")>>,
     <<w("pnpm"), w("add"), slug(OtherKey)>>, <<w("npm"), w("i"), url("host", Null)>>,
     <<w("npx"), w("pkg")>>, <<w("yarn"), w("dlx"), var>>, <<w("npm"), w("publish")>>,
     <<w("npm"), w("publish"), f("--dry-run")>>, <<w("pip"), w("install"), p(<<".">>)>>,
     <<w("brew"), w("install"), w("pkg")>>, <<w("go"), w("get"), w("pkg")>>,
     <<w("cargo"), w("publish"), f("--help")>>,
     <<w("npm"), w("i"), w("pkg"), value("--registry=", "r")>>}

NetworkCommands ==
    {<<w("curl"), url("example.com", Null)>>, <<w("curl"), f("-d"), w("x"), url("host", Null)>>,
     <<w("curl"), f("-X"), w("POST"), var>>, <<w("scp"), file, remote("host")>>,
     <<w("rsync"), remote("host"), file>>, <<w("ssh"), w("host"), w("rm")>>,
     <<w("docker"), w("push"), w("image")>>, <<w("docker"), w("pull"), w("image")>>,
     <<w("docker"), w("run"), w("image")>>, <<w("kubectl"), w("apply")>>,
     <<w("kubectl"), w("get")>>, <<w("terraform"), w("apply")>>, <<w("helm"), w("install")>>,
     <<w("vercel")>>, <<w("wrangler"), w("deploy")>>}

GitCommandWords ==
    {<<w("git"), w("push")>>, <<w("git"), w("push"), w("origin"), w("main")>>,
     <<w("git"), w("push"), f("--force"), w("origin"), w("main")>>,
     <<w("git"), w("push"), w("origin"), [w("+main") EXCEPT !.form = "plus", !.dest = "main"]>>,
     <<w("git"), w("push"), f("--dry-run")>>, <<w("git"), w("push"), var>>,
     <<w("git"), w("push"), p(<<"..", "bare">>), w("HEAD")>>,
     <<w("git"), f("-C"), w("sub"), w("push"), w("origin")>>,
     <<w("git"), f("-C"), p(<<"..">>), w("push"), w("origin")>>,
     <<w("git"), f("-C"), p(<<"..">>), f("-C"), w("w"), w("fetch"), w("origin")>>,
     <<w("git"), f("-C"), var, w("pull")>>,
     <<w("git"), f("--git-dir"), p(<<"/", "other">>), w("push"), w("origin")>>,
     <<w("git"), f("--work-tree="), w("push"), w("origin")>>,
     <<w("git"), w("clone"), url("github.com", OtherKey)>>, <<w("git"), w("clone"), w("origin")>>,
     <<w("git"), w("fetch"), f("--depth"), w("1"), w("origin")>>,
     <<w("git"), w("pull"), w("unparsed")>>, <<w("git"), w("commit")>>,
     <<w("git"), w("reset"), f("--hard")>>, <<w("git"), w("clean")>>,
     <<w("git"), w("branch"), f("-D"), w("b")>>, <<w("git"), w("branch"), w("b"), w("c")>>,
     <<w("git"), w("tag"), f("-d"), w("t")>>, <<w("git"), w("config"), w("k"), w("v")>>,
     <<w("git"), w("bisect")>>,
     <<w("gh"), w("pr"), w("create")>>, <<w("gh"), w("pr"), w("merge")>>,
     <<w("gh"), w("pr"), w("view"), url("github.com", OtherKey)>>,
     <<w("gh"), w("pr"), w("list"), f("-R"), slug(OtherKey)>>,
     <<w("gh"), w("repo"), w("clone"), slug(OtherKey)>>, <<w("gh"), w("repo"), w("create"), w("n")>>,
     <<w("gh"), w("api"), w("repos/{owner}/{repo}")>>,
     <<w("gh"), w("api"), f("-X"), w("PATCH"), [w("repos") EXCEPT !.key = OtherKey]>>,
     <<w("gh"), w("alias"), w("set")>>}

Argvs == ReadCommands \cup LocalCommands \cup PackageCommands \cup NetworkCommands \cup GitCommandWords

\* The commands for the constructs of the shell.
Few ==
    {<<w("cat"), file>>, <<w("rm"), file>>, <<w("git"), w("push"), w("origin")>>,
     <<w("python3"), f("-c"), w("code")>>, <<w("nobody")>>}

-----------------------------------------------------------------------------
(* Statements                                                               *)

Command(words) ==
    [type |-> "command", name |-> words[1], args |-> Tail(words), redirects |-> <<>>,
     body |-> <<>>, string |-> <<>>, runs |-> words]

Group(type, nodes) == [Command(<<w("x")>>) EXCEPT !.type = type, !.body = nodes, !.runs = <<>>]
Redirected(node, op, target) ==
    [Group("redirected", <<node>>) EXCEPT !.redirects = <<[op |-> op, target |-> target]>>]

\* The command behind a wrapper, and behind nested ones.
WrapperWords ==
    {<<w("sudo"), f("-u"), w("bob")>>, <<w("env"), assign, f("-u"), w("A")>>,
     <<w("nohup"), p(<<"/", "usr", "bin", "time">>)>>, <<w("timeout"), f("-k"), w("5")>>,
     <<w("xargs"), f("-n"), w("1")>>, <<w("stdbuf"), f("-o"), w("L"), w("nice")>>,
     <<w("command"), f("-p")>>, <<w("exec")>>,
     <<w("sudo"), w("doas"), w("setsid"), w("time"), w("nohup"), w("nice")>>}
Behind(prefix, words) == [Command(prefix \o words) EXCEPT !.runs = words]

\* find -exec, of a command whose operands are what find finds.
Found(words) ==
    [Command(<<w("find"), p(<<".">>), f("-exec")>> \o words \o <<w("{}"), w(";")>>)
       EXCEPT !.runs = Append(words, w("{}"))]

\* find of several commands, the first of which it is classified by.
FoundBoth(option, words, others) ==
    [Found(words) EXCEPT
        !.args = @ \o <<option>> \o others \o <<w("{}"), w(";")>>,
        !.string = <<[Command(others) EXCEPT !.runs = Append(others, w("{}"))]>>]

\* bash -c of a string, nested.
RECURSIVE InStrings(_, _)
InStrings(n, node) ==
    IF n = 0 THEN node
    ELSE [Command(<<w("bash"), f("-c"), w("string")>>) EXCEPT
            !.string = <<InStrings(n - 1, node)>>, !.runs = <<>>]

Substituted(node) == [Command(<<w("echo"), var>>) EXCEPT !.body = <<node>>]

\* bash -c of a string, with a substitution among what follows the string.
BesideString(node, substituted) ==
    [Command(<<w("bash"), f("-c"), w("string"), var>>) EXCEPT
        !.string = <<node>>, !.body = <<substituted>>, !.runs = <<>>]

Constructs(c) ==
    {Behind(prefix, c) : prefix \in WrapperWords}
      \cup {InStrings(n, Command(c)) : n \in 1..5}
      \cup {Group("child", <<Command(c)>>), Substituted(Command(c)),
            Group("list", <<Group("child", <<Command(<<w("cat"), file>>)>>),
                            Group("child", <<Command(c)>>)>>),
            Group("list", <<Command(<<w("ls")>>), Command(c)>>),
            Group("list", <<Command(<<w("cd"), p(<<"..">>)>>), Command(c)>>),
            Substituted(Group("child", <<Behind(<<w("sudo")>>, c)>>))}
      \cup {Redirected(Command(c), op, target) :
              op \in {">", ">>"}, target \in {w("out"), none, var, p(<<"..", "out">>)}}
      \cup {Redirected(Command(c), "<<", w("text")), Redirected(Command(c), ">&", w("1")),
            Redirected(Command(c), "<", file),
            Redirected(Group("child", <<Command(<<w("cd"), p(<<"..">>)>>), Command(c)>>),
                       ">", w("out")),
            Redirected(Redirected(Command(c), ">", w("out")), ">>", w("log"))}

CdWords == {<<w("cd")>>, <<w("cd"), f("-P"), w("sub")>>, <<w("cd"), p(<<"..">>)>>, <<w("cd"), w("-")>>,
            <<w("cd"), var>>, <<w("cd"), p(<<"~", "w">>)>>, <<w("cd"), p(<<"/", "tmp">>)>>,
            <<w("cd"), p(<<"~", "..">>)>>}

Cds == {Command(c) : c \in CdWords}

\* cd where the classifier does not follow it, or should not have.
OddCds ==
    {Group("child", <<Command(c)>>) : c \in {<<w("cd"), p(<<"..">>)>>}}
      \cup {Behind(<<w("command")>>, <<w("cd"), p(<<"..">>)>>),
            [Command(<<w("pushd"), p(<<"..">>)>>) EXCEPT !.runs = <<w("cd"), p(<<"..">>)>>],
            Substituted(Command(<<w("cd"), w("sub")>>)),
            InStrings(1, Command(<<w("cd"), w("sub")>>))}

\* What the classifier overlooks.
ManyWrappers == [i \in 1..6 |-> w("sudo")] \o <<w("env")>>
MCMisread ==
    {<<w("git"), w("remote"), w("add"), w("n"), url("github.com", OtherKey)>>,
     <<w("git"), w("worktree"), w("remove"), file>>,
     <<w("git"), w("config"), f("--unset"), w("k")>>,
     <<w("sort"), f("-o"), w("out"), file>>, <<w("awk"), w("system")>>, <<w("sudo"), f("-s")>>}

OverlookedStatement ==
    {Command(c) : c \in MCMisread}
      \cup {FoundBoth(f("-exec"), <<w("cat")>>, c) : c \in {<<w("cat")>>, <<w("rm")>>}}
      \cup UNION
           {{BesideString(Command(<<w("ls")>>), Command(c)), Behind(ManyWrappers, c),
             [Command(<<w("find"), p(<<".">>), f("-exec"), w("env")>> \o c) EXCEPT !.runs = c],
             FoundBoth(f("-okdir"), <<w("cat")>>, c)} : c \in Few}
      \cup {Group("list", <<Command(<<w("ls")>>),
                           Redirected(node, ">", w("out"))>>) :
              node \in {Group("child", <<>>),
                       [Command(<<w("x")>>) EXCEPT !.name = Null, !.args = <<>>, !.runs = <<>>]}}

Assignment == [Command(<<w("x")>>) EXCEPT !.name = Null, !.args = <<>>, !.runs = <<>>]

MCStatement ==
    {Command(c) : c \in Argvs}
      \cup UNION {Constructs(c) : c \in Few}
      \cup {Behind(<<w("sudo"), f("-u"), w("bob")>>, c) : c \in LocalCommands \cup GitCommandWords}
      \cup {InStrings(2, Command(c)) : c \in LocalCommands \cup NetworkCommands}
      \cup {Found(c) : c \in {<<w("cat")>>, <<w("rm")>>, <<w("nobody")>>, <<w("chmod"), w("x")>>}}
      \cup Cds \cup OddCds \cup {Assignment} \cup OverlookedStatement

MCMovers == Cds \cup {Assignment}

MCReadOnly ==
    ReadCommands \cup CdWords
      \cup {<<w("cat"), w("{}")>>} \cup {<<w("echo"), var>>, <<w("ls")>>, <<w("cd"), w("sub")>>}

MCToolName ==
    {"Bash", "Read", "Grep", "Edit", "NotebookEdit", "WebFetch", "WebSearch", "StructuredOutput",
     "Skill", "mcp__server__tool", "Unheard"}
MCReadOnlyTools == {"Read", "Grep", "StructuredOutput", "Skill"}

MCWorkspaceRoot == <<"~", "w">>
MCHome == <<"/", "home", "u">>
MCElsewhere == {<<"/", "home", "u", "w">>, <<"/", "opt">>}
MCRemotes == [name \in {"origin", "unparsed"} |-> IF name = "origin" THEN OurKey ELSE Null]

=============================================================================
