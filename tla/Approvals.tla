------------------------------ MODULE Approvals ------------------------------
(***************************************************************************)
(* One manual-approval session of src/tools/permissions.py, driven by      *)
(* POST /v1/generate (approval_mode "manual") and POST /v1/approve of      *)
(* src/deployment/inference_server.py.                                     *)
(*                                                                         *)
(* The manager has no lock.  A request executes the selected calls one by  *)
(* one, then asks the model for the next response, which can take long or  *)
(* raise; other requests for the same session run meanwhile.  The client   *)
(* names a call by its index in the list it was shown last.                *)
(***************************************************************************)
EXTENDS Naturals, Sequences, FiniteSets

CONSTANTS
  Requests,     \* the request threads of the server
  MaxTurns,     \* bound: responses of the model
  MaxCalls,     \* bound: tool calls in one response
  MaxFailures   \* bound: generate_fn raises

ASSUME ApprovalAssumption ==
  /\ IsFiniteSet(Requests)
  /\ MaxTurns \in Nat /\ MaxCalls \in Nat \ {0} /\ MaxFailures \in Nat

VARIABLES
  waits,        \* the client sends one request at a time
  session,      \* "none", "new" (its id not yet returned) or "known"
  turn,         \* number of responses so far
  pending,      \* session.pending_calls
  approveAll,   \* session.approve_all
  finished,     \* session.finished
  request,      \* per thread, where its request is
  view,         \* the turn whose calls the client was shown last
  runs,         \* history: how often each call was executed
  shown,        \* history: calls a client was shown
  rejected,     \* history: calls reported to the model as rejected
  misdirected,  \* history: a decision met other calls than the client saw
  overlaps,     \* decisions taken up while another request was under way
  failures      \* generate_fn calls that raised

state == <<session, turn, pending, approveAll, finished>>
history == <<waits, runs, shown, rejected, misdirected, overlaps, failures>>
vars == <<state, request, view, history>>

Decisions == {"approve_one", "approve_all", "reject"}
Indices == 0..(MaxCalls - 1)
Call == [turn : 1..MaxTurns, index : Indices]

\* The calls of a response, in order.
CallsOf(n, k) == [i \in 1..k |-> [turn |-> n, index |-> i - 1]]

\* idle; a decision on its way; executing `todo`; waiting for generate_fn.
At(step) == [step |-> step, decision |-> "approve_all", index |-> 0, view |-> 0,
             todo |-> <<>>]
Executing(todo) == [At("execute") EXCEPT !.todo = todo]

Working(q) == request[q].step \in {"execute", "generate"}

Init ==
  /\ waits \in BOOLEAN
  /\ session = "none" /\ turn = 0 /\ pending = <<>>
  /\ approveAll = FALSE /\ finished = FALSE
  /\ request = [q \in Requests |-> At("idle")]
  /\ view = 0
  /\ runs = [c \in Call |-> 0]
  /\ shown = {} /\ rejected = {} /\ misdirected = FALSE
  /\ overlaps = 0 /\ failures = 0

-----------------------------------------------------------------------------
\* /v1/generate: create_session, then _run_next_turn.
Start(q) ==
  /\ session = "none"
  /\ session' = "new"
  /\ request' = [request EXCEPT ![q] = At("generate")]
  /\ UNCHANGED <<turn, pending, approveAll, finished, view, history>>

\* The client sends a decision about the calls it was shown.
Send(q, decision, index) ==
  /\ session = "known"
  /\ request[q].step = "idle"
  /\ waits => \A p \in Requests : request[p].step = "idle"
  /\ request' = [request EXCEPT ![q] =
       [At("sent") EXCEPT !.decision = decision, !.index = index, !.view = view]]
  /\ UNCHANGED <<state, view, history>>

\* decide on a finished session returns its answer.
DecideFinished(q) ==
  /\ request[q].step = "sent" /\ finished
  /\ request' = [request EXCEPT ![q] = At("idle")]
  /\ UNCHANGED <<state, view, history>>

\* What taking up decision d for the selected calls records.
TakeUp(q, approved, refused) ==
  /\ request' = [request EXCEPT ![q] = Executing(approved)]
  /\ rejected' = rejected \cup {c \in Call : \E i \in DOMAIN refused : refused[i] = c}
  /\ misdirected' = (misdirected \/ (pending # <<>> /\ pending[1].turn # request[q].view))
  /\ overlaps' = IF \E p \in Requests : Working(p) THEN overlaps + 1 ELSE overlaps
  /\ UNCHANGED <<session, turn, pending, finished, view, waits, runs, shown, failures>>

\* decide, APPROVE_ALL: every pending call is executed, and from now on the
\* calls of every response.
DecideAll(q) ==
  /\ request[q].step = "sent" /\ ~ finished
  /\ request[q].decision = "approve_all"
  /\ approveAll' = TRUE
  /\ TakeUp(q, pending, <<>>)

\* The pending calls but the k-th.
AllBut(k) == [j \in 1..(Len(pending) - 1) |-> pending[IF j < k THEN j ELSE j + 1]]

\* decide, APPROVE_ONE or REJECT with the index of a pending call, which
\* enumerate gave to no other: the decision on it is the opposite of that on
\* all the others.
DecideOne(q) ==
  /\ request[q].step = "sent" /\ ~ finished
  /\ request[q].decision # "approve_all"
  /\ \E k \in DOMAIN pending :
       /\ pending[k].index = request[q].index
       /\ IF request[q].decision = "approve_one"
            THEN TakeUp(q, <<pending[k]>>, AllBut(k))
            ELSE TakeUp(q, AllBut(k), <<pending[k]>>)
  /\ UNCHANGED approveAll

\* decide with an index that no pending call has: an error.
DecideNoSuchCall(q) ==
  /\ request[q].step = "sent" /\ ~ finished
  /\ request[q].decision # "approve_all"
  /\ \A k \in DOMAIN pending : pending[k].index # request[q].index
  /\ request' = [request EXCEPT ![q] = At("idle")]
  /\ UNCHANGED <<state, view, history>>

\* One call is executed; an exception becomes its result.
Execute(q) ==
  LET todo == request[q].todo IN
  /\ request[q].step = "execute" /\ todo # <<>>
  /\ runs' = [runs EXCEPT ![Head(todo)] = @ + 1]
  /\ request' = [request EXCEPT ![q].todo = Tail(todo)]
  /\ UNCHANGED <<state, view, waits, shown, rejected, misdirected, overlaps, failures>>

\* All results are in the messages: the prompt is built.
Prompt(q) ==
  /\ request[q].step = "execute" /\ request[q].todo = <<>>
  /\ request' = [request EXCEPT ![q] = At("generate")]
  /\ UNCHANGED <<state, view, history>>

\* A response without calls finishes the session.
Answer(q) ==
  /\ request[q].step = "generate" /\ turn < MaxTurns
  /\ turn' = turn + 1
  /\ finished' = TRUE
  /\ session' = "known"
  /\ request' = [request EXCEPT ![q] = At("idle")]
  /\ UNCHANGED <<pending, approveAll, view, history>>

\* Mutant of AskApproval: the new calls are added to the pending ones.
AskAgain(q, k) ==
  /\ request[q].step = "generate" /\ turn < MaxTurns
  /\ ~ approveAll
  /\ turn' = turn + 1
  /\ pending' = pending \o CallsOf(turn + 1, k)
  /\ session' = "known"
  /\ shown' = shown \cup {c \in Call : c.turn = turn + 1 /\ c.index < k}
  /\ view' = turn + 1
  /\ request' = [request EXCEPT ![q] = At("idle")]
  /\ UNCHANGED <<approveAll, finished, waits, runs, rejected, misdirected, overlaps, failures>>

\* A response with calls replaces the pending ones and is shown.
AskApproval(q, k) ==
  /\ request[q].step = "generate" /\ turn < MaxTurns
  /\ ~ approveAll
  /\ turn' = turn + 1
  /\ pending' = CallsOf(turn + 1, k)
  /\ session' = "known"
  /\ shown' = shown \cup {c \in Call : c.turn = turn + 1 /\ c.index < k}
  /\ view' = turn + 1
  /\ request' = [request EXCEPT ![q] = At("idle")]
  /\ UNCHANGED <<approveAll, finished, waits, runs, rejected, misdirected, overlaps, failures>>

\* With approve_all the calls of a response are executed at once; the
\* pending list keeps the calls it had.
RunUnasked(q, k) ==
  /\ request[q].step = "generate" /\ turn < MaxTurns
  /\ approveAll
  /\ turn' = turn + 1
  /\ request' = [request EXCEPT ![q] = Executing(CallsOf(turn + 1, k))]
  /\ UNCHANGED <<session, pending, approveAll, finished, view, history>>

\* generate_fn raises: the request ends, the executed calls stay pending.
GenerateFails(q) ==
  /\ request[q].step = "generate"
  /\ failures < MaxFailures
  /\ failures' = failures + 1
  /\ request' = [request EXCEPT ![q] = At("idle")]
  /\ UNCHANGED <<state, view, waits, runs, shown, rejected, misdirected, overlaps>>

Next ==
  \E q \in Requests :
    \/ Start(q)
    \/ \E d \in Decisions, i \in Indices : Send(q, d, i)
    \/ DecideFinished(q) \/ DecideAll(q) \/ DecideOne(q) \/ DecideNoSuchCall(q)
    \/ Execute(q) \/ Prompt(q)
    \/ Answer(q)
    \/ \E k \in 1..MaxCalls : AskApproval(q, k) \/ RunUnasked(q, k)
    \/ GenerateFails(q)

Spec == Init /\ [][Next]_vars

-----------------------------------------------------------------------------
\* Types; a decision is only ever sent about a session whose id is known.
TypeOK ==
  /\ waits \in BOOLEAN
  /\ session \in {"none", "new", "known"}
  /\ turn \in 0..MaxTurns /\ view \in 0..turn
  /\ pending \in Seq(Call)
  /\ approveAll \in BOOLEAN /\ finished \in BOOLEAN /\ misdirected \in BOOLEAN
  /\ request \in [Requests -> [step : {"idle", "sent", "execute", "generate"},
                    decision : Decisions, index : Indices, view : 0..turn, todo : Seq(Call)]]
  /\ runs \in [Call -> Nat]
  /\ shown \subseteq Call /\ rejected \subseteq Call
  /\ overlaps \in Nat /\ failures \in 0..MaxFailures

\* No call is executed that no client was shown, unless every call has been
\* approved (approve_all): overlapping requests cannot slip one in.
ShownOrAllApproved ==
  \A c \in Call : runs[c] > 0 => c \in shown \/ approveAll

\* A call is executed once, and once more only for a request that overlapped
\* another or for a generate_fn that raised after the calls were executed
\* (the pending list is replaced only by the next response).
ExecutionsBounded ==
  \A c \in Call : runs[c] <= 1 + failures + overlaps

\* A call the model was told is rejected does not run, unless a failed
\* generate_fn left it pending or requests overlap.
RejectedStaysRejected ==
  (waits /\ failures = 0) => \A c \in rejected : runs[c] = 0

\* A decision meets the calls its client was shown when requests come one
\* at a time: an index never selects a call of another list.
DecisionMeetsItsCalls == waits => ~ misdirected

\* Once the session is finished nothing is executed, requests one at a time.
NothingAfterFinish == waits /\ finished => \A q \in Requests : request[q].step # "execute"

\* What the client was shown and decided is what runs: nothing unseen, nothing
\* rejected, nothing for another list, nothing after the end, and each call
\* once but for failures and overlapping requests.
DecisionsHold ==
  /\ ShownOrAllApproved /\ ExecutionsBounded /\ RejectedStaysRejected
  /\ DecisionMeetsItsCalls /\ NothingAfterFinish
=============================================================================
