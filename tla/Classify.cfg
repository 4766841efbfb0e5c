SPECIFICATION Spec
CONSTANTS
    Null = Null
    WorkspaceRoot <- MCWorkspaceRoot
    Remotes <- MCRemotes
    GitBranch = "main"
    Statement <- MCStatement
    Movers <- MCMovers
    ToolName <- MCToolName
    ReadOnly <- MCReadOnly
    Misread <- MCMisread
    ReadOnlyTools <- MCReadOnlyTools
    Home <- MCHome
    Elsewhere <- MCElsewhere
    MaxDepth = 5
INVARIANTS
    NoFalseRead
    ContextIsTransparent
    ShellContextIsTracked
CHECK_DEADLOCK FALSE
