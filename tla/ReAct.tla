-------------------------------- MODULE ReAct --------------------------------
(***************************************************************************)
(* The loop of reasoning and tool calls, ReActLoop.run (src/tools/react.py) *)
(* over ToolExecutor (src/tools/executor.py).  The model behind generate_fn *)
(* is external: a response holds any calls, some of which cannot be parsed  *)
(* or fail when they are executed, and generate_fn may raise.               *)
(***************************************************************************)
EXTENDS Naturals, Sequences, SequencesExt, FiniteSets

CONSTANTS
  MaxTurns,     \* max_turns
  MaxCalls      \* bound: tool calls in a response

ASSUME ReActAssumption == MaxTurns \in Nat /\ MaxCalls \in Nat

VARIABLES
  reactPhase,   \* "idle" before run, "returned" or "raised" after it
  calls,        \* the calls of the present response still to execute
  outcomes,     \* results: what the executed ones of them returned
  messages,     \* the conversation: what the next prompt is joined from
  turns,        \* result.turns: how many calls and results each turn records
  generated     \* history: responses asked for, and calls each one held

reactVars == <<reactPhase, calls, outcomes, messages, turns, generated>>

\* A call: "ok" and "fails" are well formed, "malformed" is no JSON or lacks
\* a name or arguments.
Calls == {"ok", "fails", "malformed"}

ReActIdle ==
  /\ calls = <<>> /\ outcomes = <<>> /\ messages = <<>> /\ turns = <<>> /\ generated = <<>>

ReActInit == reactPhase = "idle" /\ ReActIdle

\* parse_tool_call: what cannot be parsed is passed over.
Parsed(response) ==
  LET good == {n \in DOMAIN response : response[n] # "malformed"}
  IN [n \in 1..Cardinality(good) |->
       response[CHOOSE k \in good : Cardinality({j \in good : j < k}) = n - 1]]

\* execute: an unknown tool, a ToolError and any other exception of a handler
\* reach the loop as one error; it becomes the result of the call.
Execute(call) == IF call = "ok" THEN "result" ELSE "error"

StartRun ==
  /\ reactPhase = "idle"
  /\ reactPhase' = "generate"
  /\ messages' = <<"system", "task">>
  /\ UNCHANGED <<calls, outcomes, turns, generated>>

\* A response with calls.
Generate(response) ==
  /\ reactPhase = "generate" /\ Len(generated) < MaxTurns
  /\ Parsed(response) # <<>>
  /\ calls' = Parsed(response) /\ outcomes' = <<>>
  /\ generated' = Append(generated, Len(Parsed(response)))
  /\ reactPhase' = "execute"
  /\ UNCHANGED <<messages, turns>>

\* A response without any well-formed call is the final answer; its turn
\* records neither thought nor calls.
Answer(response) ==
  /\ reactPhase = "generate" /\ Len(generated) < MaxTurns
  /\ Parsed(response) = <<>>
  /\ generated' = Append(generated, 0)
  /\ turns' = Append(turns, <<0, 0>>)
  /\ reactPhase' = "answered"
  /\ UNCHANGED <<calls, outcomes, messages>>

\* generate_fn raises: so does run, and the turns are lost with its result.
GenerateRaises ==
  /\ reactPhase = "generate" /\ Len(generated) < MaxTurns
  /\ reactPhase' = "raised"
  /\ calls' = <<>> /\ outcomes' = <<>> /\ messages' = <<>> /\ turns' = <<>>
  /\ UNCHANGED generated

ExecuteNext ==
  /\ reactPhase = "execute" /\ Len(outcomes) < Len(calls)
  /\ outcomes' = Append(outcomes, Execute(calls[Len(outcomes) + 1]))
  /\ UNCHANGED <<reactPhase, calls, messages, turns, generated>>

\* Mutant of EndTurn: only the results of calls that worked are given back.
EndTurnGood ==
  /\ reactPhase = "execute" /\ Len(outcomes) = Len(calls)
  /\ LET good == SelectSeq(outcomes, LAMBDA o : o = "result") IN
     /\ turns' = Append(turns, <<Len(calls), Len(good)>>)
     /\ messages' = messages \o <<"response">> \o good
  /\ reactPhase' = "generate"
  /\ UNCHANGED <<calls, outcomes, generated>>

EndTurn ==
  /\ reactPhase = "execute" /\ Len(outcomes) = Len(calls)
  /\ turns' = Append(turns, <<Len(calls), Len(outcomes)>>)
  /\ messages' = messages \o <<"response">> \o outcomes
  /\ reactPhase' = "generate"
  /\ UNCHANGED <<calls, outcomes, generated>>

\* The else branch of the loop: one more, empty turn is recorded.
GiveUp ==
  /\ reactPhase = "generate" /\ Len(generated) = MaxTurns
  /\ turns' = Append(turns, <<0, 0>>)
  /\ reactPhase' = "exhausted"
  /\ UNCHANGED <<calls, outcomes, messages, generated>>

ReActStep ==
  \/ \E response \in BoundedSeq(Calls, MaxCalls) : Generate(response) \/ Answer(response)
  \/ GenerateRaises \/ ExecuteNext \/ EndTurn \/ GiveUp

-----------------------------------------------------------------------------
ReActTypeOK ==
  /\ reactPhase \in {"idle", "generate", "execute", "answered", "exhausted", "raised"}
  /\ calls \in BoundedSeq(Calls \ {"malformed"}, MaxCalls)
  /\ Len(outcomes) <= Len(calls)
  /\ Len(generated) <= MaxTurns

ReActReturned == reactPhase \in {"answered", "exhausted"}

Told == Len(turns) - (IF ReActReturned THEN 1 ELSE 0)
Responses == {m \in DOMAIN messages : messages[m] = "response"}

\* What the model is told between its responses: after each response that
\* held calls, one result for each of them, failures included, and nothing
\* else before the next response.
ResultsFollowCalls == reactPhase \notin {"idle", "raised"} =>
  /\ Cardinality(Responses) = Told
  /\ Len(messages) > 2 => 3 \in Responses
  /\ \A m \in Responses :
       LET end == m + generated[Cardinality({k \in Responses : k <= m})]
       IN /\ end = Len(messages) \/ end + 1 \in Responses
          /\ \A k \in (m + 1)..end : messages[k] \in {"result", "error"}

\* The turns that are returned are one for each response, and one more,
\* without calls, when the turns ran out: "turns" of the API then says one
\* more than were taken (src/deployment/inference_server.py, generate).
TurnsAreCounted ==
  /\ ReActReturned =>
       Len(turns) = Len(generated) + (IF reactPhase = "exhausted" THEN 1 ELSE 0)
  /\ \A n \in DOMAIN turns : turns[n] = <<0, 0>> \/ turns[n] = <<generated[n], generated[n]>>
  /\ reactPhase = "exhausted" => \A n \in DOMAIN generated : generated[n] > 0

ReActSound == ResultsFollowCalls /\ TurnsAreCounted
=============================================================================
