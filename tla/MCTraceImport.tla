--------------------------- MODULE MCTraceImport ----------------------------
(* Two transcripts, the second of which copies the beginning of the first; its *)
(* last line the server refuses.                                               *)
EXTENDS TraceImport

Use(id, tool, text) == [id |-> id, tool |-> tool, text |-> text]
Result(id, isError, marker) == [toolUseId |-> id, isError |-> isError, marker |-> marker]
LineOf(time, uses, results) ==
    [isJson |-> TRUE, time |-> time, isSidechain |-> FALSE, uses |-> uses, results |-> results]

\* A command whose redacted text is cut within the last token.
First == Use("u1", "Bash", <<"word", "secret", "name", "secret">>)
Second == Use("u2", "Edit", <<"credential", "end", "name", "word", "end">>)
Refused == Use("u3", "Write", <<"name", "end", "word", "end">>)
Unnamed == Use(Null, "Read", <<"word", "end">>)

MCTranscript ==
    [f \in {"a", "b"} |->
        IF f = "a"
        THEN <<LineOf(1, <<First, Second>>, <<>>),
               LineOf(Null, <<>>, <<Result("u1", FALSE, "other"), Result("u2", TRUE, "refusal")>>)>>
        ELSE <<LineOf(1, <<Unnamed, Second>>, <<>>), LineOf(Null, <<>>, <<Result("u2", TRUE, "block")>>),
               LineOf(2, <<Refused>>, <<>>)>>]

MCSessionRank == [f \in {"a", "b"} |-> IF f = "a" THEN 1 ELSE 2]
MCKeyRank ==
    [key \in {<<"u1">>, <<"u2">>, <<"u3">>, <<"b", "seq", 0>>} |->
        IF key = <<"u2">> THEN 1 ELSE IF key = <<"u1">> THEN 2 ELSE IF key = <<"u3">> THEN 3 ELSE 4]
=============================================================================
