----------------------------- MODULE GenerateApi -----------------------------
(***************************************************************************)
(* POST /v1/generate and /v1/generate/stream                               *)
(* (src/deployment/inference_server.py) with the events of src/events.py:  *)
(* which of its parts a request reaches (one batch of the model, the loop  *)
(* of tools, the agents and their judge, a session of manual approval),    *)
(* and what the caller gets, also through the client of src/sdk/client.py. *)
(***************************************************************************)
EXTENDS ReAct, MultiAgent

CONSTANTS
  DefaultAgents,    \* num_agents when a request does not say
  ChunkSize,        \* words in a text-delta: 50
  MaxWords          \* bound: words of a final text

ASSUME ApiAssumption ==
  /\ DefaultAgents \in 2..MaxAgents
  /\ ChunkSize \in Nat \ {0} /\ MaxWords \in Nat \ {0}

VARIABLES
  request,      \* the GenerateRequest, and the endpoint it was sent to
  apiPhase,     \* the part that has the request, or how it ended
  keys,         \* keys of the JSON response that hold an answer
  events,       \* the server-sent events that were sent
  unsent,       \* the events the stream still holds
  words         \* words of the final text

apiOwnVars == <<request, apiPhase, keys, events, unsent, words>>
apiVars == <<apiOwnVars, reactVars, multiVars>>

\* GenerateRequest: prompts is None or a list, 0 its length.  (Bound: media
\* and manual approval are tried where the source looks at them.)
Requests ==
  {r \in [prompt : BOOLEAN, prompts : {0, 2}, agents : {1, DefaultAgents}, tools : BOOLEAN,
          manual : BOOLEAN, stream : BOOLEAN, media : BoundedSeq({"good", "bad"}, 1)] :
     /\ r.manual => r.tools
     /\ r.media # <<>> => ~ r.tools /\ r.agents = 1}

Ended == {"answered", "failed", "unavailable", "cut"}

\* The events of src/events.py; a stream sends six of them.
EventTypes ==
  {"step-start", "text-start", "text-delta", "text-end", "step-finish", "finish",
   "reasoning-start", "reasoning-delta", "reasoning-end", "tool-call-start", "tool-result",
   "tool-error", "provider-error"}

Batch(r) == r.prompts > 0

\* _build_modality_context: what cannot be decoded or described is left out,
\* what remains keeps its number.
Context(r) == {n \in DOMAIN r.media : r.media[n] = "good"}

\* The requests of EDSPiKEClient, which leave num_agents to its default.
Sdk == [prompt |-> TRUE, prompts |-> 0, agents |-> DefaultAgents, tools |-> FALSE,
        manual |-> FALSE, stream |-> FALSE, media |-> <<>>]
SdkGenerate == Sdk
SdkBatch == [Sdk EXCEPT !.prompt = FALSE, !.prompts = 2]
SdkStream == [Sdk EXCEPT !.stream = TRUE]

\* What the client looks for in the response.
SdkReads(r) == IF Batch(r) THEN "responses" ELSE "response"

ApiInit ==
  /\ request \in Requests
  /\ apiPhase = "received"
  /\ keys = {} /\ events = <<>> /\ unsent = <<>> /\ words = 0
  /\ ReActInit /\ MultiInit

-----------------------------------------------------------------------------
\* Depends(engine): without the local model no request is served, whichever
\* provider it names.  _resolve_gen_fn fails in the same way.
Unavailable ==
  /\ apiPhase = "received"
  /\ apiPhase' = "unavailable"
  /\ UNCHANGED <<request, keys, events, unsent, words, reactVars, multiVars>>

BeginTools == StartRun /\ UNCHANGED multiVars
BeginAgents == Ask(request.agents, request.agents) /\ UNCHANGED reactVars

\* generate: tools go before agents.
Route ==
  LET withTools == request.tools /\ ~ Batch(request) /\ request.prompt IN
  /\ apiPhase = "received" /\ ~ request.stream
  /\ \/ /\ withTools /\ request.manual
        /\ apiPhase' = "approval"
        /\ UNCHANGED <<reactVars, multiVars>>
     \/ /\ withTools /\ ~ request.manual
        /\ apiPhase' = "tools" /\ BeginTools
     \/ /\ ~ withTools /\ request.agents > 1
        /\ apiPhase' = "agents" /\ BeginAgents
     \/ /\ ~ withTools /\ request.agents <= 1
        /\ apiPhase' = "plain"
        /\ UNCHANGED <<reactVars, multiVars>>
  /\ UNCHANGED <<request, keys, events, unsent, words>>

\* event_stream: agents go before tools, and approval_mode is not looked at.
\* It assigns prompts, so the name is its own and has no value yet: whatever
\* reads it raises, which ends the stream after its first two events.  It is
\* read without a prompt and on the way to the model alone.
RouteStream ==
  /\ apiPhase = "received" /\ request.stream
  /\ events' = <<"step-start", "text-start">>
  /\ \/ /\ request.prompt /\ request.agents > 1
        /\ apiPhase' = "agents" /\ BeginAgents
     \/ /\ request.prompt /\ request.agents <= 1 /\ request.tools /\ ~ Batch(request)
        /\ apiPhase' = "tools" /\ BeginTools
     \/ /\ ~ request.prompt \/ (request.agents <= 1 /\ (~ request.tools \/ Batch(request)))
        /\ apiPhase' = "cut"
        /\ UNCHANGED <<reactVars, multiVars>>
  /\ UNCHANGED <<request, keys, unsent, words>>

-----------------------------------------------------------------------------
\* chunk_text: how many words each delta holds.  The space between the last
\* word of a chunk and the first of the next is in neither.
Chunks(n) ==
  [k \in 1..((n + ChunkSize - 1) \div ChunkSize) |->
     IF k * ChunkSize <= n THEN ChunkSize ELSE n % ChunkSize]

\* A final text of n words, as JSON or as the rest of the stream.
Deliver(n, names) ==
  /\ words' = n
  /\ IF request.stream
       THEN /\ unsent' = Chunks(n)
            /\ apiPhase' = "sending"
            /\ UNCHANGED <<keys, events>>
       ELSE /\ keys' = names
            /\ apiPhase' = "answered"
            /\ UNCHANGED <<events, unsent>>
  /\ UNCHANGED <<request, reactVars, multiVars>>

\* An exception of a part: status 500, or the end of the stream.
PartRaises ==
  /\ \/ apiPhase = "tools" /\ reactPhase = "raised"
     \/ apiPhase = "agents" /\ multiPhase = "raised"
     \/ apiPhase = "agents" /\ multiPhase = "done" /\ verdict = Oddity /\ request.stream
     \/ apiPhase = "plain"
  /\ apiPhase' = IF request.stream THEN "cut" ELSE "failed"
  /\ UNCHANGED <<request, keys, events, unsent, words, reactVars, multiVars>>

ToolsAnswer(n) ==
  /\ apiPhase = "tools" /\ ReActReturned
  /\ Deliver(n, {"response"})

AgentsAnswer(n) ==
  /\ apiPhase = "agents" /\ multiPhase = "done"
  /\ request.stream => verdict # Oddity
  /\ Deliver(n, {"final_answer"})

\* _run_generation with all prompts, or with the one; a request with neither
\* gives the model None, unless there is a context to put behind it.
PlainAnswer(n) ==
  /\ apiPhase = "plain"
  /\ request.prompt \/ Batch(request) \/ Context(request) # {}
  /\ Deliver(n, IF Batch(request) THEN {"responses"} ELSE {"response"})

\* _run_next_turn of a new approval session (see Approvals) is the response.
ApprovalAnswer ==
  /\ apiPhase = "approval"
  /\ apiPhase' = "answered" /\ keys' = {"status"}
  /\ UNCHANGED <<request, events, unsent, words, reactVars, multiVars>>

After(event) ==
  CASE event = "text-end" -> "step-finish"
    [] event = "step-finish" -> "finish"
    [] OTHER -> "text-end"

\* The stream yields an event: the deltas, and when there are no more of them
\* the three that end it.
Yield ==
  /\ apiPhase = "sending"
  /\ \/ /\ unsent # <<>>
        /\ events' = Append(events, "text-delta") /\ unsent' = Tail(unsent)
        /\ UNCHANGED apiPhase
     \/ /\ unsent = <<>>
        /\ events' = Append(events, After(Last(events)))
        /\ apiPhase' = IF Last(events) = "step-finish" THEN "answered" ELSE apiPhase
        /\ UNCHANGED unsent
  /\ UNCHANGED <<request, keys, words, reactVars, multiVars>>

\* The caller of a stream goes away; the generator is closed where it is.
Disconnect ==
  /\ apiPhase = "sending"
  /\ apiPhase' = "cut"
  /\ UNCHANGED <<request, keys, events, unsent, words, reactVars, multiVars>>

\* A part of the server works for the request.
PartStep ==
  \/ apiPhase = "tools" /\ ReActStep /\ UNCHANGED <<apiOwnVars, multiVars>>
  \/ /\ apiPhase = "agents" /\ UNCHANGED <<apiOwnVars, reactVars>>
     /\ \/ \E a \in Polled : WorkerStep(a)
        \/ JudgeStep

ApiStep ==
  \/ Route \/ RouteStream \/ PartStep \/ PartRaises \/ ApprovalAnswer \/ Yield
  \/ \E n \in 1..MaxWords : ToolsAnswer(n) \/ AgentsAnswer(n) \/ PlainAnswer(n)

ApiNext == ApiStep \/ Unavailable \/ Disconnect

ApiSpec == ApiInit /\ [][ApiNext]_apiVars

-----------------------------------------------------------------------------
ApiTypeOK ==
  /\ request \in Requests
  /\ apiPhase \in {"received", "approval", "plain", "tools", "agents", "sending",
                   "answered", "failed", "unavailable", "cut"}
  /\ keys \subseteq {"response", "responses", "final_answer", "status"}
  /\ words \in 0..MaxWords
  /\ events \in Seq(EventTypes)
  /\ ReActTypeOK /\ MultiTypeOK

Count(e) == Cardinality({n \in DOMAIN events : events[n] = e})
Left == words - ChunkSize * Count("text-delta")

\* A stream is in order at every moment, and when it ends by itself the
\* deltas hold every word of the final text; one that was cut has no finish,
\* so that its reader can tell.
StreamsAreWhole == request.stream =>
  /\ apiPhase = "answered" =>
       /\ Count("text-delta") = (words + ChunkSize - 1) \div ChunkSize
       /\ Last(events) = "finish"
  /\ apiPhase = "cut" => Count("finish") = 0
  /\ apiPhase \in {"sending", "answered"} /\ Count("text-end") = 0 =>
       /\ \A w \in 1..Left : \E k \in DOMAIN unsent :
            w - ChunkSize * (k - 1) \in 1..unsent[k]
       /\ \A k \in DOMAIN unsent : ChunkSize * (k - 1) + unsent[k] <= Left
  /\ \A i, j \in DOMAIN events : i < j /\ events[j] = "text-delta" =>
       events[i] \in {"step-start", "text-start", "text-delta"}
  /\ apiPhase \notin {"received", "unavailable"} =>
       Len(events) >= 2 /\ events[1] = "step-start" /\ events[2] = "text-start"

\* Tools of a request for manual approval run only after a decision; the
\* stream is the exception: it runs them at once.  Tools that run are never
\* those of a batch, and never run beside the agents.
ToolsRunAsAsked == generated # <<>> =>
  /\ request.tools /\ request.prompt /\ ~ Batch(request)
  /\ request.manual => request.stream
  /\ worker = <<>>

\* A stream can only be answered for a prompt, and only through the agents or
\* the tools: the model alone is out of its reach.
StreamsReachParts ==
  request.stream /\ apiPhase \in {"sending", "answered"} =>
    /\ request.prompt
    /\ reactPhase # "idle" \/ multiPhase = "done"

ApiSound == StreamsAreWhole /\ ToolsRunAsAsked /\ StreamsReachParts

\* "Send a prompt and get a response." "Send multiple prompts and get
\* responses." (src/sdk/client.py, generate and generate_batch): the answer is
\* where the client looks for it.
ClientGetsItsAnswer ==
  request \in {SdkGenerate, SdkBatch} /\ apiPhase = "answered" => SdkReads(request) \in keys
=============================================================================
