----------------------------- MODULE Transcripts -----------------------------
(***************************************************************************)
(* How a transcript becomes a Session and its Actions (packages/trace:     *)
(* client/parse.ts, client/redact.ts, client/actions.ts).                  *)
(*                                                                         *)
(* A line is what JSON.parse makes of it: [isJson, time, isSidechain,      *)
(* uses, results], with the tool uses of an assistant and the results a    *)
(* user message carries. A text is a sequence of pieces, which is all that *)
(* redaction tells apart.                                                  *)
(***************************************************************************)
EXTENDS Naturals, Sequences, SequencesExt, FiniteSets

CONSTANTS
    Null,
    MaxInputLength,     \* MAX_INPUT_LENGTH, in pieces (a token counts for two)
    SessionRank         \* the order of the sessionExternalIds

-----------------------------------------------------------------------------
(* Redaction                                                                *)

\* "secret" is what a rule matches by itself; "name" ends in "=" or ":", and
\* whatever value comes next is one; "token" is a redaction token, and "part" the
\* beginning of one; "end" is the quote that ends a JSON string. Of an input only:
\* "credential" stands under the name of one, and "long" is a string that is elided.
Piece == {"word", "name", "secret", "token", "part", "end"}
RawPiece == Piece \cup {"credential", "long"}

\* Where the assignment rule finds a value that is no token yet: a quote is one, if
\* another follows.
IsValue(text, i) ==
    /\ i > 1 /\ text[i - 1] = "name" /\ text[i] # "token"
    /\ text[i] = "end" => i < Len(text)

\* What the rules that look at nothing before it leave of a text.
Narrow(text) == [i \in DOMAIN text |-> IF text[i] = "secret" THEN "token" ELSE text[i]]

RedactText(text) ==
    [i \in DOMAIN text |-> IF IsValue(Narrow(text), i) THEN "token" ELSE Narrow(text)[i]]

\* The rules match something.
HasSecret(text) == RedactText(text) # text

\* What redaction and elision make of these in an input, whatever is before them.
Fixed == [credential |-> "token", long |-> "word", end |-> "end"]

\* The input of a tool as canonical JSON: the texts of its strings, each redacted by
\* itself.
RedactStructuredInput(text) ==
    [i \in DOMAIN text |->
        IF text[i] \in DOMAIN Fixed THEN Fixed[text[i]] ELSE RedactText(text)[i]]

Length(text) == Len(text) + Cardinality({i \in DOMAIN text : text[i] = "token"})

\* Mutant: the cut splits the last token.
CutAnywhere(text) ==
    LET whole == {n \in 0..Len(text) : Length(SubSeq(text, 1, n)) <= MaxInputLength}
        n == CHOOSE k \in whole : \A l \in whole : l <= k
    IN SubSeq(text, 1, n) \o
         IF n < Len(text) /\ Length(SubSeq(text, 1, n)) < MaxInputLength THEN <<"part">> ELSE <<>>

\* The cut comes before a token it would split.
CutInput(text) ==
    LET fits == {n \in 0..Len(text) : Length(SubSeq(text, 1, n)) <= MaxInputLength}
    IN SubSeq(text, 1, CHOOSE n \in fits : \A k \in fits : k <= n)

\* The command of a Bash call is kept as it is; any other input is made canonical.
\* Left out is that the path of the home directory becomes "~" before the cut
\* (foldSessionHome): no piece that a redaction rule looks for is part of it.
BuildToolInput(use) ==
    LET text == IF use.tool = "Bash" THEN RedactText(use.text) ELSE RedactStructuredInput(use.text)
    IN [text |-> CutInput(text), isInputTruncated |-> Length(text) > MaxInputLength]

-----------------------------------------------------------------------------
(* Parsing                                                                  *)

ToolUse == [id : STRING \cup {Null}, tool : STRING, text : Seq(RawPiece)]
ToolResult == [toolUseId : STRING, isError : BOOLEAN, marker : STRING]
Line ==
    [isJson : BOOLEAN, time : Nat \cup {Null}, isSidechain : BOOLEAN,
     uses : Seq(ToolUse), results : Seq(ToolResult)]

ObservedOutcome == {"executed", "rejected_by_human", "blocked_by_runtime", "unknown"}

\* The last result of a tool use decides; a marker counts in an error only.
DeriveOutcome(toolUseId, results) ==
    LET own == SelectSeq(results, LAMBDA r : r.toolUseId = toolUseId)
        result == Last(own)
    IN CASE toolUseId = Null \/ own = <<>> -> "unknown"
         [] toolUseId # Null /\ own # <<>> /\ result.isError /\ result.marker = "refusal" ->
                "rejected_by_human"
         [] toolUseId # Null /\ own # <<>> /\ result.isError /\ result.marker = "block" ->
                "blocked_by_runtime"
         [] OTHER -> "executed"

\* A tool use needs the time of its line; a result does not.
ParseTranscript(sessionExternalId, lines) ==
    LET results == FlattenSeq([i \in DOMAIN lines |->
                      IF lines[i].isJson THEN lines[i].results ELSE <<>>])
        usesOf(line) ==
            IF ~line.isJson \/ line.time = Null THEN <<>>
            ELSE [i \in DOMAIN line.uses |->
                    [use |-> line.uses[i], occurredAt |-> line.time,
                     isSidechain |-> line.isSidechain]]
        raw == FlattenSeq([i \in DOMAIN lines |-> usesOf(lines[i])])
        toolCall(i) ==
            [toolUseId |-> raw[i].use.id, toolName |-> raw[i].use.tool, sequence |-> i - 1,
             input |-> BuildToolInput(raw[i].use), occurredAt |-> raw[i].occurredAt,
             isSidechain |-> raw[i].isSidechain,
             observedOutcome |-> DeriveOutcome(raw[i].use.id, results)]
    IN [sessionExternalId |-> sessionExternalId,
        toolCalls |-> [i \in DOMAIN raw |-> toolCall(i)]]

-----------------------------------------------------------------------------
(* Actions                                                                  *)

\* The tool use names the Action, in whichever transcript it stands.
DeriveActionKey(session, toolCall) ==
    IF toolCall.toolUseId # Null THEN <<toolCall.toolUseId>>
    ELSE <<session.sessionExternalId, "seq", toolCall.sequence>>

ActionOf(session, toolCall) ==
    [sessionExternalId |-> session.sessionExternalId, occurredAt |-> toolCall.occurredAt,
     observedOutcome |-> toolCall.observedOutcome, input |-> toolCall.input,
     isSidechain |-> toolCall.isSidechain]

PrefersCandidate(candidate, existing) ==
    \/ candidate.occurredAt < existing.occurredAt
    \/ /\ candidate.occurredAt = existing.occurredAt
       /\ SessionRank[candidate.sessionExternalId] < SessionRank[existing.sessionExternalId]

\* The tool calls of some Sessions, in order.
Entries(parsed) ==
    FlattenSeq([i \in DOMAIN parsed |->
        [j \in DOMAIN parsed[i].toolCalls |->
            [key |-> DeriveActionKey(parsed[i], parsed[i].toolCalls[j]),
             action |-> ActionOf(parsed[i], parsed[i].toolCalls[j])]]])

\* From Action Keys to Actions: of those with one key, the first that none is
\* preferred to.
BuildActions(parsed) ==
    LET entries == Entries(parsed)
        IsBest(e) == \A i \in DOMAIN entries :
                        entries[i].key = e.key => ~PrefersCandidate(entries[i].action, e.action)
        best(key) == SelectInSeq(entries, LAMBDA e : e.key = key /\ IsBest(e))
    IN [key \in {entries[i].key : i \in DOMAIN entries} |-> entries[best(key)].action]
=============================================================================
