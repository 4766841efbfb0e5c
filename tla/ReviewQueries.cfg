SPECIFICATION QueriesSpec
CONSTANTS
    Review = {1, 2}
    GroupsOf <- MCGroupsOf
    KindOf <- MCKindOf
    Verdict = {"expected", "needs_mandate"}
    Filters = {"expected"}
    Limit = 1
    MaxGiven = 2
    FindingsOf <- MCFindingsOf
    None = None
INVARIANTS PagesAreComplete AnswersFitTogether
CHECK_DEADLOCK FALSE
