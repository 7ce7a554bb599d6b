--------------------------- MODULE SteeringProofs ---------------------------
(***************************************************************************)
(* Theorems about what steers an agent between its tool calls, for every   *)
(* bound: code mode, checkpoints, the approval runtime, manual approval,   *)
(* notifications, the guard against repetition, the flow runner,           *)
(* pipelines, the policy engine, the store of tool outputs, the projector, *)
(* and the types of all of them.                                           *)
(***************************************************************************)
EXTENDS MCSteering, FiniteSetTheorems, SequenceTheorems, TLAPS

(***************************************************************************)
(* Code mode, for any number of executions, of handlers and of changes of  *)
(* the registry.                                                           *)
(***************************************************************************)
\* An execution that is asking is at a place in a list.  Of the handlers that
\* stand, each was asked or is ahead in the list that is walked, and nothing was
\* run before all of them were.
Walk(r, lists) ==
  /\ r.at \in Hooks => r.list \in 1 .. Len(lists) /\ r.position # 0
  /\ r.at = "idle" => r.standing = {}
  /\ r.at = "validate" => \A h \in r.standing : h \in r.asked
       \/ \E i \in 1 .. Len(lists[r.list]) : i >= r.position /\ lists[r.list][i] = h
  /\ r.at # "validate" => r.standing \subseteq r.asked
  /\ r.at \in {"idle", "validate", "pre_exec", "script", "start"} => r.ran = NoScript
  /\ r.at \in {"script", "start", "communicate"} => ~r.errors

WalkInv ==
  /\ handlerLists \in Seq(Seq(Handlers)) /\ hooks \in [Hooks -> 1 .. Len(handlerLists)]
  /\ scripts \in [Directories -> Directories] /\ sandboxDir \in [Directories -> Directories]
  /\ codeRuns \in [Executions -> RunRecords]
  /\ \A e \in Executions : Walk(codeRuns[e], handlerLists)

LEMMA UnaskedIsRecord == Unasked \in RunRecords /\ Unasked.at = "idle" /\ Unasked.standing = {}
                         /\ Unasked.asked = {} /\ Unasked.ran = NoScript /\ ~Unasked.errors
BY DEF Unasked, RunRecords, RunStates, Hooks, Directories, WorkDir, NoScript

LEMMA CodeInitially == CodeInit => WalkInv
<1> SUFFICES ASSUME CodeInit PROVE WalkInv
  OBVIOUS
<1> USE CodeAssumption DEF CodeInit
<1>1. Len(handlerLists) = 3 /\ handlerLists \in Seq(Seq(Handlers))
  OBVIOUS
<1>2. hooks \in [Hooks -> 1 .. Len(handlerLists)]
  BY <1>1 DEF Hooks
<1>3. scripts \in [Directories -> Directories] /\ sandboxDir \in [Directories -> Directories]
  BY DEF Directories, NoScript, WorkDir
<1>4. codeRuns \in [Executions -> RunRecords]
  BY UnaskedIsRecord
<1>5. \A e \in Executions : Walk(codeRuns[e], handlerLists)
  BY UnaskedIsRecord DEF Walk, Hooks
<1> QED
  BY <1>1, <1>2, <1>3, <1>4, <1>5 DEF WalkInv

\* A step of one execution that leaves the lists alone keeps the invariant when the
\* new record does.
LEMMA OneRunChanges ==
  ASSUME WalkInv, NEW e \in Executions, NEW r \in RunRecords, Walk(r, handlerLists),
         codeRuns' = [codeRuns EXCEPT ![e] = r], UNCHANGED <<handlerLists, hooks>>,
         scripts' \in [Directories -> Directories], sandboxDir' \in [Directories -> Directories]
  PROVE  WalkInv'
<1>1. codeRuns' \in [Executions -> RunRecords]
  BY DEF WalkInv
<1>2. \A x \in Executions : Walk(codeRuns'[x], handlerLists')
  BY DEF WalkInv
<1> QED
  BY <1>1, <1>2 DEF WalkInv

\* To begin to ask on a hook.
LEMMA AskingIsRecord ==
  ASSUME WalkInv, NEW r \in RunRecords, NEW hook \in Hooks
  PROVE  /\ Asking(r, hook) \in RunRecords
         /\ Asking(r, hook).at = hook /\ Asking(r, hook).list = hooks[hook]
         /\ Asking(r, hook).position = 1 /\ hooks[hook] \in 1 .. Len(handlerLists)
         /\ Asking(r, hook).ran = r.ran /\ Asking(r, hook).errors = r.errors
         /\ Asking(r, hook).standing = r.standing /\ Asking(r, hook).asked = r.asked
<1>1. hooks[hook] \in 1 .. Len(handlerLists) /\ Len(handlerLists) \in Nat
  BY DEF WalkInv
<1>2. hooks[hook] \in Nat /\ hook \in RunStates /\ 1 \in Nat
  BY <1>1 DEF RunStates
<1>3. Asking(r, hook) = [r EXCEPT !.at = hook, !.list = hooks[hook], !.position = 1]
  BY DEF Asking
<1>4. Asking(r, hook) \in RunRecords
  BY <1>2, <1>3 DEF RunRecords
<1>5. /\ Asking(r, hook).at = hook /\ Asking(r, hook).list = hooks[hook]
      /\ Asking(r, hook).position = 1
      /\ Asking(r, hook).ran = r.ran /\ Asking(r, hook).errors = r.errors
      /\ Asking(r, hook).standing = r.standing /\ Asking(r, hook).asked = r.asked
  BY <1>3 DEF RunRecords
<1> QED
  BY <1>1, <1>4, <1>5

LEMMA BeginExecutionKeeps == ASSUME WalkInv, NEW e \in Executions, BeginExecution(e) PROVE WalkInv'
<1> USE CodeAssumption
<1> DEFINE a == Asking(Unasked, "validate")
           list == handlerLists[hooks["validate"]]
           r == [a EXCEPT !.standing = Range(list)]
<1>1. /\ a \in RunRecords /\ a.at = "validate" /\ a.list = hooks["validate"] /\ a.position = 1
      /\ hooks["validate"] \in 1 .. Len(handlerLists)
      /\ a.ran = NoScript /\ ~a.errors /\ a.asked = {}
  <2>1. "validate" \in Hooks /\ Unasked \in RunRecords
    BY UnaskedIsRecord DEF Hooks
  <2>2. /\ Asking(Unasked, "validate") \in RunRecords
        /\ Asking(Unasked, "validate").at = "validate"
        /\ Asking(Unasked, "validate").list = hooks["validate"]
        /\ Asking(Unasked, "validate").position = 1
        /\ hooks["validate"] \in 1 .. Len(handlerLists)
        /\ Asking(Unasked, "validate").ran = Unasked.ran
        /\ Asking(Unasked, "validate").errors = Unasked.errors
        /\ Asking(Unasked, "validate").asked = Unasked.asked
    <3> HIDE DEF a, list, r
    <3> QED
      BY <2>1, AskingIsRecord
  <2> QED
    BY <2>2, UnaskedIsRecord
<1>2. list \in Seq(Handlers)
  BY <1>1 DEF WalkInv
<1>3. Range(list) \subseteq Handlers /\ \A h \in Range(list) : \E i \in 1 .. Len(list) : list[i] = h
  BY <1>2 DEF Range
<1>4. /\ r \in RunRecords /\ r.at = "validate" /\ r.list = hooks["validate"] /\ r.position = 1
      /\ r.ran = NoScript /\ r.standing = Range(list)
  BY <1>1, <1>3 DEF RunRecords
<1>5. Walk(r, handlerLists)
  <2>1. \A h \in r.standing : \E i \in 1 .. Len(handlerLists[r.list]) :
          i >= r.position /\ handlerLists[r.list][i] = h
    BY <1>2, <1>3, <1>4
  <2> QED
    BY <2>1, <1>1, <1>4 DEF Walk
<1>6. sandboxDir' \in [Directories -> Directories]
  BY DEF BeginExecution, WalkInv, Directories, WorkDir
<1>7. codeRuns' = [codeRuns EXCEPT ![e] = r]
  BY DEF BeginExecution
<1>8. UNCHANGED <<handlerLists, hooks, scripts>>
  BY DEF BeginExecution
<1> QED
  BY <1>4, <1>5, <1>6, <1>7, <1>8, OneRunChanges DEF WalkInv

LEMMA AskKeeps == ASSUME WalkInv, NEW e \in Executions, AskHandler(e) PROVE WalkInv'
<1> DEFINE q == codeRuns[e]
           list == handlerLists[q.list]
<1>1. /\ q \in RunRecords /\ Walk(q, handlerLists) /\ q.at \in Hooks /\ q.position <= Len(list)
  BY DEF WalkInv, AskHandler
<1>2. q.list \in 1 .. Len(handlerLists) /\ q.position \in Nat /\ q.position # 0
  BY <1>1 DEF Walk, RunRecords
<1>3. list \in Seq(Handlers) /\ q.position \in 1 .. Len(list) /\ list[q.position] \in Handlers
  BY <1>1, <1>2 DEF WalkInv
<1>4. PICK bad \in BOOLEAN :
        codeRuns' = [codeRuns EXCEPT ![e] = [q EXCEPT
          !.position = @ + 1, !.errors = bad,
          !.asked = @ \cup IF q.at = "validate" THEN {list[q.position]} ELSE {}]]
  BY DEF AskHandler
<1> DEFINE more == IF q.at = "validate" THEN {list[q.position]} ELSE {}
           r == [q EXCEPT !.position = @ + 1, !.errors = bad, !.asked = @ \cup more]
<1>5. more \subseteq Handlers
  BY <1>3
<1>6. /\ r \in RunRecords /\ r.at = q.at /\ r.list = q.list /\ r.position = q.position + 1
      /\ r.ran = q.ran /\ r.standing = q.standing /\ r.asked = q.asked \cup more
  <2>1. q.position + 1 \in Nat /\ q.asked \cup more \in SUBSET Handlers
    BY <1>1, <1>2, <1>5 DEF RunRecords
  <2> HIDE DEF more
  <2>2. r \in RunRecords
    BY <2>1, <1>1 DEF RunRecords
  <2>3. /\ r.at = q.at /\ r.list = q.list /\ r.position = q.position + 1
        /\ r.ran = q.ran /\ r.standing = q.standing /\ r.asked = q.asked \cup more
    BY <1>1 DEF RunRecords
  <2> QED
    BY <2>2, <2>3
<1>7. Walk(r, handlerLists)
  <2>1. r.at = "validate" => \A h \in r.standing : h \in r.asked
          \/ \E i \in 1 .. Len(list) : i >= r.position /\ list[i] = h
    BY <1>1, <1>2, <1>3, <1>6 DEF Walk
  <2>2. r.at # "validate" => r.standing \subseteq r.asked
    BY <1>1, <1>6 DEF Walk
  <2> QED
    BY <2>1, <2>2, <1>1, <1>2, <1>6 DEF Walk, Hooks
<1>8. codeRuns' = [codeRuns EXCEPT ![e] = r] /\ UNCHANGED <<handlerLists, hooks, scripts, sandboxDir>>
  BY <1>4 DEF AskHandler
<1> QED
  BY <1>6, <1>7, <1>8, OneRunChanges DEF WalkInv

LEMMA HandlersAskedKeeps ==
  ASSUME WalkInv, NEW e \in Executions, HandlersAsked(e) PROVE WalkInv'
<1> DEFINE q == codeRuns[e]
           list == handlerLists[q.list]
           r == IF q.at # "post_exec" /\ q.errors THEN [q EXCEPT !.at = "leave"]
                ELSE IF q.at = "validate" THEN Asking(q, "pre_exec")
                ELSE [q EXCEPT !.at = NextHook[q.at]]
<1>1. /\ q \in RunRecords /\ Walk(q, handlerLists) /\ q.at \in Hooks /\ q.position > Len(list)
  BY DEF WalkInv, HandlersAsked
<1>2. q.list \in 1 .. Len(handlerLists) /\ q.position \in Nat
  BY <1>1 DEF Walk, RunRecords
<1>3. Len(list) \in Nat
  BY <1>2 DEF WalkInv
<1>4. q.standing \subseteq q.asked
  BY <1>1, <1>2, <1>3 DEF Walk
<1>5. r \in RunRecords /\ Walk(r, handlerLists)
  <2>1. CASE q.at # "post_exec" /\ q.errors
    BY <2>1, <1>1, <1>4 DEF RunRecords, RunStates, Walk, Hooks
  <2>2. CASE ~(q.at # "post_exec" /\ q.errors) /\ q.at = "validate"
    <3>1. r = Asking(q, "pre_exec") /\ "pre_exec" \in Hooks
      BY <2>2 DEF Hooks
    <3>2. q.ran = NoScript
      BY <2>2, <1>1 DEF Walk
    <3> QED
      BY <3>1, <3>2, <2>2, <1>1, <1>4, AskingIsRecord DEF Walk, Hooks
  <2>3. CASE ~(q.at # "post_exec" /\ q.errors) /\ q.at = "pre_exec"
    <3>1. r = [q EXCEPT !.at = "script"]
      BY <2>3 DEF NextHook
    <3> QED
      BY <3>1, <2>3, <1>1, <1>4 DEF RunRecords, RunStates, Walk, Hooks
  <2>4. CASE q.at = "post_exec"
    <3>1. r = [q EXCEPT !.at = "leave"]
      BY <2>4 DEF NextHook
    <3> QED
      BY <3>1, <2>4, <1>1, <1>4 DEF RunRecords, RunStates, Walk, Hooks
  <2> QED
    BY <2>1, <2>2, <2>3, <2>4, <1>1 DEF Hooks
<1>6. codeRuns' = [codeRuns EXCEPT ![e] = r] /\ UNCHANGED <<handlerLists, hooks, scripts, sandboxDir>>
  BY DEF HandlersAsked
<1> QED
  BY <1>5, <1>6, OneRunChanges DEF WalkInv

LEMMA WriteKeeps == ASSUME WalkInv, NEW e \in Executions, WriteScript(e) PROVE WalkInv'
<1> USE CodeAssumption
<1> DEFINE q == codeRuns[e]
           d == TheDir(e)
           fails == [q EXCEPT !.at = "leave"]
           writes == [q EXCEPT !.at = "start", !.path = d]
<1>1. q \in RunRecords /\ Walk(q, handlerLists) /\ q.at = "script"
  BY DEF WalkInv, WriteScript
<1>2. d \in Directories /\ e \in Directories
  BY DEF TheDir, SandboxOf, Directories, WorkDir, WalkInv
<1>3. fails \in RunRecords /\ writes \in RunRecords
  BY <1>1, <1>2 DEF RunRecords, RunStates
<1>4. Walk(fails, handlerLists) /\ Walk(writes, handlerLists)
  BY <1>1 DEF Walk, Hooks, RunRecords
<1>5. \/ codeRuns' = [codeRuns EXCEPT ![e] = writes] /\ scripts' = [scripts EXCEPT ![d] = e]
      \/ codeRuns' = [codeRuns EXCEPT ![e] = fails] /\ UNCHANGED scripts
  BY DEF WriteScript, WalkInv
<1>6. scripts' \in [Directories -> Directories]
  BY <1>2, <1>5 DEF WalkInv
<1>7. UNCHANGED <<handlerLists, hooks, sandboxDir>>
  BY DEF WriteScript
<1> QED
  BY <1>3, <1>4, <1>5, <1>6, <1>7, OneRunChanges DEF WalkInv

LEMMA StartKeeps == ASSUME WalkInv, NEW e \in Executions, StartScript(e) PROVE WalkInv'
<1> DEFINE q == codeRuns[e]
           starts == [q EXCEPT !.at = "communicate", !.ran = scripts[q.path]]
           fails == [q EXCEPT !.at = "leave", !.errors = TRUE]
<1>1. q \in RunRecords /\ Walk(q, handlerLists) /\ q.at = "start"
  BY DEF WalkInv, StartScript
<1>2. scripts[q.path] \in Directories
  BY <1>1 DEF WalkInv, RunRecords
<1>3. fails \in RunRecords /\ starts \in RunRecords
  BY <1>1, <1>2 DEF RunRecords, RunStates
<1>4. Walk(fails, handlerLists) /\ Walk(starts, handlerLists)
  BY <1>1 DEF Walk, Hooks, RunRecords
<1>5. \/ codeRuns' = [codeRuns EXCEPT ![e] = starts]
      \/ codeRuns' = [codeRuns EXCEPT ![e] = fails]
  BY DEF StartScript
<1>6. UNCHANGED <<handlerLists, hooks, scripts, sandboxDir>>
  BY DEF StartScript
<1> QED
  BY <1>3, <1>4, <1>5, <1>6, OneRunChanges DEF WalkInv

LEMMA EndScriptKeeps == ASSUME WalkInv, NEW e \in Executions, EndScript(e) PROVE WalkInv'
<1> DEFINE q == codeRuns[e]
           r == Asking(q, "post_exec")
<1>1. q \in RunRecords /\ Walk(q, handlerLists) /\ q.at = "communicate"
  BY DEF WalkInv, EndScript
<1>2. "post_exec" \in Hooks
  BY DEF Hooks
<1>3. r \in RunRecords /\ Walk(r, handlerLists)
  BY <1>1, <1>2, AskingIsRecord DEF Walk, Hooks
<1>4. codeRuns' = [codeRuns EXCEPT ![e] = r] /\ UNCHANGED <<handlerLists, hooks, scripts, sandboxDir>>
  BY DEF EndScript
<1> QED
  BY <1>3, <1>4, OneRunChanges DEF WalkInv

LEMMA LeaveKeeps == ASSUME WalkInv, NEW e \in Executions, LeaveSandbox(e) PROVE WalkInv'
<1> DEFINE q == codeRuns[e]
           r == [q EXCEPT !.at = "over"]
<1>1. q \in RunRecords /\ Walk(q, handlerLists) /\ q.at = "leave"
  BY DEF WalkInv, LeaveSandbox
<1>2. r \in RunRecords /\ Walk(r, handlerLists)
  BY <1>1 DEF RunRecords, RunStates, Walk, Hooks
<1>3. codeRuns' = [codeRuns EXCEPT ![e] = r] /\ UNCHANGED <<handlerLists, hooks, sandboxDir>>
  BY DEF LeaveSandbox
<1>4. scripts' \in [Directories -> Directories]
  BY DEF LeaveSandbox, WalkInv, Directories, NoScript, WorkDir
<1> QED
  BY <1>2, <1>3, <1>4, OneRunChanges DEF WalkInv

\* Whoever changes the registry takes what no longer stands from every execution,
\* and lets each list that is walked keep the places of what does.
LEMMA WithdrawKeeps ==
  ASSUME WalkInv, NEW gone, NEW lists \in Seq(Seq(Handlers)), Len(lists) >= Len(handlerLists),
         \A k \in 1 .. Len(handlerLists) :
           \/ Handlers \subseteq gone
           \/ /\ Len(handlerLists[k]) <= Len(lists[k])
              /\ \A i \in 1 .. Len(handlerLists[k]) : lists[k][i] = handlerLists[k][i]
  PROVE  /\ Withdraw(gone) \in [Executions -> RunRecords]
         /\ \A e \in Executions : Walk(Withdraw(gone)[e], lists)
<1> SUFFICES ASSUME NEW e \in Executions
             PROVE  /\ [codeRuns[e] EXCEPT !.standing = @ \ gone] \in RunRecords
                    /\ Walk([codeRuns[e] EXCEPT !.standing = @ \ gone], lists)
  BY DEF Withdraw
<1> DEFINE q == codeRuns[e]
           r == [q EXCEPT !.standing = @ \ gone]
<1>1. q \in RunRecords /\ Walk(q, handlerLists)
  BY DEF WalkInv
<1>2. /\ r \in RunRecords /\ r.at = q.at /\ r.list = q.list /\ r.position = q.position
      /\ r.ran = q.ran /\ r.errors = q.errors /\ r.asked = q.asked
      /\ r.standing = q.standing \ gone
  BY <1>1 DEF RunRecords
<1>3. ASSUME r.at = "validate", NEW h \in r.standing, h \notin r.asked
      PROVE  \E i \in 1 .. Len(lists[r.list]) : i >= r.position /\ lists[r.list][i] = h
  <2>1. q.list \in 1 .. Len(handlerLists)
    BY <1>1, <1>2, <1>3 DEF Walk, Hooks
  <2>2. PICK i \in 1 .. Len(handlerLists[q.list]) :
          i >= q.position /\ handlerLists[q.list][i] = h
    BY <1>1, <1>2, <1>3 DEF Walk
  <2>3. h \in Handlers \ gone
    BY <1>1, <1>2, <1>3 DEF RunRecords
  <2>4. Len(handlerLists[q.list]) \in Nat /\ Len(lists[q.list]) \in Nat
    BY <2>1 DEF WalkInv
  <2>5. /\ Len(handlerLists[q.list]) <= Len(lists[q.list])
        /\ \A j \in 1 .. Len(handlerLists[q.list]) : lists[q.list][j] = handlerLists[q.list][j]
    BY <2>1, <2>3
  <2>6. i \in 1 .. Len(lists[q.list]) /\ lists[q.list][i] = h
    <3> HIDE DEF q, r
    <3>1. lists[q.list][i] = h
      BY <2>2, <2>5, Zenon
    <3>2. i \in 1 .. Len(lists[q.list])
      <4> DEFINE old == Len(handlerLists[q.list])
                 new == Len(lists[q.list])
      <4>1. i \in 1 .. old /\ old \in Nat /\ new \in Nat /\ old <= new
        BY <2>2, <2>4, <2>5
      <4> HIDE DEF old, new
      <4>2. i \in 1 .. new
        BY <4>1
      <4> QED
        BY <4>2 DEF new
    <3> QED
      BY <3>1, <3>2
  <2> QED
    BY <2>2, <2>6, <1>2
<1>4. Len(handlerLists) \in Nat /\ Len(lists) \in Nat
  BY DEF WalkInv
<1>5. r.at \in Hooks => r.list \in 1 .. Len(lists) /\ r.position # 0
  BY <1>1, <1>2, <1>4 DEF Walk
<1> QED
  BY <1>1, <1>2, <1>3, <1>5 DEF Walk

LEMMA NothingWithdrawn == WalkInv => Withdraw({}) = codeRuns
<1> SUFFICES ASSUME WalkInv PROVE Withdraw({}) = codeRuns
  OBVIOUS
<1>1. \A e \in Executions : [codeRuns[e] EXCEPT !.standing = @ \ {}] = codeRuns[e]
  BY DEF WalkInv, RunRecords
<1> QED
  BY <1>1 DEF Withdraw, WalkInv

LEMMA RegisterKeeps ==
  ASSUME WalkInv, NEW hook \in Hooks, NEW h \in Handlers, RegisterHandler(hook, h),
         UNCHANGED <<scripts, sandboxDir>>
  PROVE  WalkInv'
<1>1. hooks[hook] \in 1 .. Len(handlerLists) /\ handlerLists[hooks[hook]] \in Seq(Handlers)
  BY DEF WalkInv
<1>2. /\ handlerLists' \in Seq(Seq(Handlers)) /\ Len(handlerLists') = Len(handlerLists)
      /\ \A k \in 1 .. Len(handlerLists) :
           /\ Len(handlerLists[k]) <= Len(handlerLists'[k])
           /\ \A i \in 1 .. Len(handlerLists[k]) : handlerLists'[k][i] = handlerLists[k][i]
  BY <1>1 DEF RegisterHandler, WalkInv
<1>3. codeRuns' = Withdraw({})
  BY NothingWithdrawn DEF RegisterHandler
<1>4. /\ Withdraw({}) \in [Executions -> RunRecords]
      /\ \A e \in Executions : Walk(Withdraw({})[e], handlerLists')
  BY <1>2, WithdrawKeeps DEF WalkInv
<1> QED
  BY <1>2, <1>3, <1>4 DEF RegisterHandler, WalkInv

LEMMA UnregisterKeeps ==
  ASSUME WalkInv, NEW hook \in Hooks, NEW h \in Handlers, UnregisterHandler(hook, h),
         UNCHANGED <<scripts, sandboxDir>>
  PROVE  WalkInv'
<1>1. PICK kept \in WithoutHandler(handlerLists[hooks[hook]], h) :
        handlerLists' = Append(handlerLists, kept)
  BY DEF UnregisterHandler
<1>2. kept \in Seq(Handlers)
  BY <1>1 DEF WithoutHandler
<1>3. /\ handlerLists' \in Seq(Seq(Handlers)) /\ Len(handlerLists') = Len(handlerLists) + 1
      /\ \A k \in 1 .. Len(handlerLists) :
           /\ Len(handlerLists[k]) <= Len(handlerLists'[k])
           /\ \A i \in 1 .. Len(handlerLists[k]) : handlerLists'[k][i] = handlerLists[k][i]
  BY <1>1, <1>2 DEF WalkInv
<1>4. hooks' \in [Hooks -> 1 .. Len(handlerLists')]
  BY <1>3 DEF UnregisterHandler, WalkInv
<1> DEFINE gone == IF hook = "validate" THEN {h} ELSE {}
<1>5. codeRuns' = Withdraw(gone)
  BY NothingWithdrawn DEF UnregisterHandler
<1>6. /\ Withdraw(gone) \in [Executions -> RunRecords]
      /\ \A e \in Executions : Walk(Withdraw(gone)[e], handlerLists')
  <2>1. Len(handlerLists') >= Len(handlerLists)
    BY <1>3 DEF WalkInv
  <2> HIDE DEF gone
  <2> QED
    BY <2>1, <1>3, WithdrawKeeps
<1> QED
  BY <1>3, <1>4, <1>5, <1>6 DEF WalkInv

LEMMA ClearHandlersKeeps ==
  ASSUME WalkInv, ClearHandlers, UNCHANGED <<scripts, sandboxDir>> PROVE WalkInv'
<1>1. handlerLists' \in Seq(Seq(Handlers)) /\ Len(handlerLists') = Len(handlerLists)
  <2>1. DOMAIN handlerLists = 1 .. Len(handlerLists) /\ Len(handlerLists) \in Nat
    BY DEF WalkInv
  <2>2. \A k \in 1 .. Len(handlerLists) : handlerLists[k] \in Seq(Handlers)
    BY DEF WalkInv
  <2>3. <<>> \in Seq(Handlers)
    OBVIOUS
  <2>4. handlerLists' \in [1 .. Len(handlerLists) -> Seq(Handlers)]
    BY <2>1, <2>2, <2>3 DEF ClearHandlers
  <2> QED
    BY <2>1, <2>4
<1>2. /\ Withdraw(Handlers) \in [Executions -> RunRecords]
      /\ \A e \in Executions : Walk(Withdraw(Handlers)[e], handlerLists')
  BY <1>1, WithdrawKeeps DEF WalkInv
<1> QED
  BY <1>1, <1>2 DEF ClearHandlers, WalkInv

LEMMA CodeStep == WalkInv /\ [CodeNext]_codeVars => WalkInv'
<1> SUFFICES ASSUME WalkInv, [CodeNext]_codeVars PROVE WalkInv'
  OBVIOUS
<1>1. CASE ChangePlugins
  BY <1>1, RegisterKeeps, UnregisterKeeps, ClearHandlersKeeps DEF ChangePlugins
<1>2. CASE UNCHANGED codeVars
  BY <1>2 DEF codeVars, WalkInv
<1> QED
  BY <1>1, <1>2, BeginExecutionKeeps, AskKeeps, HandlersAskedKeeps, WriteKeeps, StartKeeps, EndScriptKeeps,
     LeaveKeeps DEF CodeNext

\* No code is run before every handler that stands was asked, whatever is registered
\* and unregistered while the lists are walked (codemode/plugins.py, executor.py).
THEOREM ValidatedBeforeRun == CodeSpec => []AskedBeforeRun
<1>1. WalkInv => AskedBeforeRun
  BY DEF WalkInv, Walk, AskedBeforeRun
<1> QED
  BY CodeInitially, CodeStep, <1>1, PTL DEF CodeSpec

-----------------------------------------------------------------------------
\* Where an execution has its script: a temporary directory of its own, or the
\* one work_dir.  Executions that do not share it, or that never overlapped, find
\* their directory in the Sandbox and their code in the script.
Place(e) == IF setting = "directory" THEN WorkDir ELSE e
Undisturbed == ~crowded \/ setting \in {"own", "kept"}

OwnInv ==
  /\ setting \in Settings
  /\ setting = "directory" => sandboxDir = [s \in Directories |-> WorkDir]
  /\ ~crowded => \A e, f \in Inside : e = f
  /\ Undisturbed => \A e \in Inside :
       /\ TheDir(e) = Place(e)
       /\ codeRuns[e].at = "start" => codeRuns[e].path = Place(e) /\ scripts[Place(e)] = e
  /\ OwnCodeRuns /\ DirectoriesGiven

LEMMA OwnInitially == CodeInit => OwnInv
<1> SUFFICES ASSUME CodeInit PROVE OwnInv
  OBVIOUS
<1>1. \A e \in Executions : codeRuns[e].at = "idle" /\ codeRuns[e].ran = NoScript
  BY DEF CodeInit, Unasked
<1>2. Inside = {} /\ {e \in Executions : codeRuns[e].at # "idle"} = {}
  BY <1>1 DEF Inside
<1>3. OwnCodeRuns
  BY <1>1 DEF OwnCodeRuns
<1>4. DirectoriesGiven
  BY <1>2, CodeAssumption DEF CodeInit, DirectoriesGiven
<1> QED
  BY <1>2, <1>3, <1>4 DEF CodeInit, OwnInv

\* Whatever a step does to the lists: it keeps the invariant when every execution
\* stays inside or outside, goes on with the code it has, and is not at the
\* interpreter unless it was.
LEMMA StaysWhereItIs ==
  ASSUME WalkInv, OwnInv, UNCHANGED <<setting, sandboxDir, existing, scripts, crowded>>,
         \A e \in Executions :
           /\ (codeRuns'[e].at \in {"idle", "over"} \/ codeRuns[e].at \in {"idle", "over"})
                => codeRuns'[e].at = codeRuns[e].at
           /\ codeRuns'[e].ran = codeRuns[e].ran
           /\ codeRuns'[e].at = "start" =>
                codeRuns[e].at = "start" /\ codeRuns'[e].path = codeRuns[e].path
  PROVE  OwnInv'
<1>1. Inside' = Inside
  BY DEF Inside
<1>2. {e \in Executions : codeRuns'[e].at # "idle"} = {e \in Executions : codeRuns[e].at # "idle"}
  OBVIOUS
<1>3. DirectoriesGiven'
  BY <1>1, <1>2 DEF OwnInv, DirectoriesGiven
<1>4. OwnCodeRuns'
  BY DEF OwnInv, OwnCodeRuns
<1>5. \A e \in Executions : TheDir(e)' = TheDir(e) /\ Place(e)' = Place(e)
  BY DEF TheDir, SandboxOf, Place
<1>6. Undisturbed' = Undisturbed
  BY DEF Undisturbed
<1>7. Inside \subseteq Executions
  BY DEF Inside
<1> QED
  BY <1>1, <1>3, <1>4, <1>5, <1>6, <1>7 DEF OwnInv

\* A new execution makes its directory; if another is inside, they overlap.
LEMMA BeginOwn == ASSUME WalkInv, OwnInv, NEW e \in Executions, BeginExecution(e) PROVE OwnInv'
<1> USE CodeAssumption
<1> DEFINE a == Asking(Unasked, "validate")
           r == [a EXCEPT !.standing = Range(handlerLists[hooks["validate"]])]
<1>1. /\ codeRuns[e].at = "idle" /\ codeRuns' = [codeRuns EXCEPT ![e] = r]
      /\ sandboxDir' = [sandboxDir EXCEPT ![SandboxOf(e)] = Place(e)]
      /\ existing' = existing \cup (IF setting = "directory" THEN {} ELSE {e})
      /\ crowded' = (crowded \/ Inside # {}) /\ UNCHANGED <<setting, scripts>>
  BY DEF BeginExecution, Place
<1>2. r.at = "validate" /\ r.ran = NoScript
  BY DEF Asking, Unasked
<1> HIDE DEF r, a
<1>3. /\ codeRuns \in [Executions -> RunRecords] /\ sandboxDir \in [Directories -> Directories]
      /\ e \in Directories /\ WorkDir \in Directories /\ SandboxOf(e) \in Directories
      /\ e # WorkDir
  BY DEF WalkInv, Directories, SandboxOf, WorkDir
<1>4. /\ codeRuns'[e].at = "validate" /\ codeRuns'[e].ran = NoScript
      /\ \A f \in Executions : f # e => codeRuns'[f] = codeRuns[f]
  BY <1>1, <1>2, <1>3
<1>5. Inside' = Inside \cup {e} /\ e \notin Inside
  BY <1>1, <1>4 DEF Inside
<1>6. {f \in Executions : codeRuns'[f].at # "idle"}
        = {f \in Executions : codeRuns[f].at # "idle"} \cup {e}
  BY <1>1, <1>4
<1>7. ~crowded' => ~crowded /\ Inside = {}
  BY <1>1
<1>8. \A f \in Executions : Place(f)' = Place(f) /\ SandboxOf(f)' = SandboxOf(f)
  BY <1>1 DEF Place, SandboxOf
<1>9. TheDir(e)' = Place(e)
  BY <1>1, <1>3, <1>8 DEF TheDir
<1>10. setting = "directory" => sandboxDir' = [s \in Directories |-> WorkDir]
  BY <1>1, <1>3 DEF OwnInv, Place
<1>11. ~crowded' => \A f, g \in Inside' : f = g
  BY <1>5, <1>7
<1>12. ASSUME Undisturbed', NEW f \in Inside'
       PROVE  /\ TheDir(f)' = Place(f)'
              /\ codeRuns'[f].at = "start" => codeRuns'[f].path = Place(f)' /\ scripts'[Place(f)'] = f
  <2>1. CASE f = e
    BY <2>1, <1>4, <1>8, <1>9
  <2>2. CASE f # e
    <3>1. f \in Inside /\ f \in Executions /\ setting \in {"own", "kept"} /\ Undisturbed
      BY <2>2, <1>1, <1>5, <1>7, <1>12 DEF Undisturbed, Inside
    <3>2. TheDir(f)' = TheDir(f)
      BY <3>1, <2>2, <1>1, <1>3 DEF TheDir, SandboxOf
    <3> QED
      BY <3>1, <3>2, <2>2, <1>1, <1>4, <1>8 DEF OwnInv
  <2> QED
    BY <2>1, <2>2
<1>13. OwnCodeRuns'
  BY <1>1, <1>4 DEF OwnInv, OwnCodeRuns
<1>14. DirectoriesGiven'
  BY <1>1, <1>5, <1>6, <1>7 DEF OwnInv, DirectoriesGiven
<1> QED
  BY <1>1, <1>10, <1>11, <1>12, <1>13, <1>14 DEF OwnInv

LEMMA WriteOwn == ASSUME WalkInv, OwnInv, NEW e \in Executions, WriteScript(e) PROVE OwnInv'
<1> USE CodeAssumption
<1> DEFINE d == TheDir(e)
           fails == [codeRuns[e] EXCEPT !.at = "leave"]
           writes == [codeRuns[e] EXCEPT !.at = "start", !.path = d]
<1>1. /\ codeRuns[e].at = "script" /\ existing' = existing \cup ({d} \ {WorkDir})
      /\ UNCHANGED <<setting, sandboxDir, crowded>>
      /\ \/ codeRuns' = [codeRuns EXCEPT ![e] = writes] /\ scripts' = [scripts EXCEPT ![d] = e]
         \/ codeRuns' = [codeRuns EXCEPT ![e] = fails] /\ UNCHANGED scripts
  <2>1. /\ codeRuns[e].at = "script" /\ existing' = existing \cup ({d} \ {WorkDir})
        /\ UNCHANGED <<setting, sandboxDir, crowded>>
    BY DEF WriteScript
  <2>2. \/ /\ codeRuns' = [codeRuns EXCEPT ![e].at = "start", ![e].path = d]
           /\ scripts' = [scripts EXCEPT ![d] = e]
        \/ codeRuns' = [codeRuns EXCEPT ![e].at = "leave"] /\ UNCHANGED scripts
    BY DEF WriteScript
  <2>3. codeRuns \in [Executions -> RunRecords]
    BY DEF WalkInv
  <2>4. [codeRuns EXCEPT ![e].at = "start", ![e].path = d] = [codeRuns EXCEPT ![e] = writes]
    <3> HIDE DEF d
    <3> QED
      BY <2>3
  <2>5. QED
    BY <2>1, <2>2, <2>4
<1>2. /\ codeRuns \in [Executions -> RunRecords] /\ scripts \in [Directories -> Directories]
      /\ d \in Directories /\ e \in Inside
  BY <1>1 DEF TheDir, SandboxOf, Directories, WorkDir, WalkInv, Inside
<1>3. /\ fails.at = "leave" /\ fails.ran = codeRuns[e].ran
      /\ writes.at = "start" /\ writes.path = d /\ writes.ran = codeRuns[e].ran
  BY <1>2 DEF RunRecords
<1>4. \A f \in Executions : /\ TheDir(f)' = TheDir(f) /\ Place(f)' = Place(f)
                            /\ f # e => codeRuns'[f] = codeRuns[f]
  BY <1>1, <1>2 DEF TheDir, SandboxOf, Place
<1> HIDE DEF d, fails, writes
<1>5. /\ codeRuns'[e].ran = codeRuns[e].ran /\ codeRuns'[e].at \in {"leave", "start"}
      /\ codeRuns'[e].at = "start" => codeRuns'[e].path = d /\ scripts' = [scripts EXCEPT ![d] = e]
      /\ \A x \in Directories : x # d => scripts'[x] = scripts[x]
  BY <1>1, <1>2, <1>3
<1>6. /\ Inside' = Inside /\ Inside \subseteq Executions
      /\ {f \in Executions : codeRuns'[f].at # "idle"} = {f \in Executions : codeRuns[f].at # "idle"}
  <2>1. \A f \in Executions : codeRuns'[f].at \in {"idle", "over"} \/ codeRuns[f].at \in {"idle", "over"}
                               => codeRuns'[f].at = codeRuns[f].at
    BY <1>1, <1>4, <1>5
  <2>2. QED
    BY <2>1 DEF Inside
<1>7. OwnCodeRuns'
  BY <1>1, <1>4, <1>5 DEF OwnInv, OwnCodeRuns
<1>8. Undisturbed' = Undisturbed
  BY <1>1 DEF Undisturbed
<1>9. Undisturbed => d = Place(e)
  BY <1>2 DEF OwnInv, d
<1>10. ASSUME Undisturbed, NEW f \in Inside
       PROVE  codeRuns'[f].at = "start" => codeRuns'[f].path = Place(f) /\ scripts'[Place(f)] = f
  <2>1. CASE f = e
    BY <2>1, <1>2, <1>5, <1>9, <1>10
  <2>2. CASE f # e
    <3>1. setting \in {"own", "kept"}
      BY <2>2, <1>2, <1>10 DEF OwnInv, Undisturbed
    <3>2. Place(f) # d /\ Place(f) \in Directories /\ f \in Executions
      BY <2>2, <3>1, <1>6, <1>9, <1>10 DEF Place, Directories
    <3> QED
      BY <3>2, <2>2, <1>4, <1>5, <1>10 DEF OwnInv
  <2> QED
    BY <2>1, <2>2
<1>11. DirectoriesGiven'
  <2>1. Undisturbed => existing' = existing
    <3> SUFFICES ASSUME Undisturbed PROVE {d} \ {WorkDir} \subseteq existing
      BY <1>1
    <3>1. CASE setting = "directory"
      BY <3>1, <1>9 DEF Place
    <3>2. CASE setting # "directory"
      <4>1. e \in existing
        BY <3>2, <1>1, <1>2 DEF OwnInv, DirectoriesGiven, Undisturbed
      <4> QED
        BY <4>1, <3>2, <1>9 DEF Place
    <3> QED
      BY <3>1, <3>2
  <2>2. setting = "directory" => existing' = existing
    BY <1>1, <1>2 DEF OwnInv, d, TheDir, SandboxOf, Directories
  <2>3. ~Undisturbed /\ setting # "directory" => setting = "sandbox" /\ crowded
    BY DEF OwnInv, Undisturbed
  <2> QED
    BY <2>1, <2>2, <2>3, <1>1, <1>6 DEF OwnInv, DirectoriesGiven
<1> QED
  BY <1>1, <1>4, <1>6, <1>7, <1>8, <1>10, <1>11 DEF OwnInv

LEMMA StartOwn == ASSUME WalkInv, OwnInv, NEW e \in Executions, StartScript(e) PROVE OwnInv'
<1> DEFINE q == codeRuns[e]
           starts == [q EXCEPT !.at = "communicate", !.ran = scripts[q.path]]
           fails == [q EXCEPT !.at = "leave", !.errors = TRUE]
<1>1. /\ q.at = "start" /\ UNCHANGED <<setting, sandboxDir, existing, scripts, crowded>>
      /\ \/ codeRuns' = [codeRuns EXCEPT ![e] = starts]
         \/ codeRuns' = [codeRuns EXCEPT ![e] = fails]
  BY DEF StartScript
<1>2. codeRuns \in [Executions -> RunRecords] /\ e \in Inside
  BY <1>1 DEF WalkInv, Inside
<1>3. /\ starts.at = "communicate" /\ starts.ran = scripts[q.path]
      /\ fails.at = "leave" /\ fails.ran = q.ran
  BY <1>2 DEF RunRecords
<1> HIDE DEF starts, fails
<1>4. \A f \in Executions : f # e => codeRuns'[f] = codeRuns[f]
  BY <1>1, <1>2
<1>5. codeRuns'[e].at \in {"communicate", "leave"} /\ codeRuns'[e].ran \in {q.ran, scripts[q.path]}
  BY <1>1, <1>2, <1>3
<1>6. /\ Inside' = Inside /\ Inside \subseteq Executions
      /\ {f \in Executions : codeRuns'[f].at # "idle"} = {f \in Executions : codeRuns[f].at # "idle"}
  BY <1>1, <1>4, <1>5 DEF Inside
<1>7. \A f \in Executions : TheDir(f)' = TheDir(f) /\ Place(f)' = Place(f)
  BY <1>1 DEF TheDir, SandboxOf, Place
<1>8. Undisturbed' = Undisturbed
  BY <1>1 DEF Undisturbed
<1>9. OwnCodeRuns'
  <2>1. CASE Undisturbed
    <3>1. scripts[q.path] = e
      BY <2>1, <1>1, <1>2 DEF OwnInv
    <3> QED
      BY <3>1, <1>1, <1>4, <1>5 DEF OwnInv, OwnCodeRuns
  <2>2. CASE ~Undisturbed
    BY <2>2, <1>1, CodeAssumption DEF OwnInv, OwnCodeRuns, Undisturbed
  <2> QED
    BY <2>1, <2>2
<1>10. DirectoriesGiven'
  BY <1>1, <1>6 DEF OwnInv, DirectoriesGiven
<1>11. ASSUME Undisturbed', NEW f \in Inside'
       PROVE  /\ TheDir(f)' = Place(f)'
              /\ codeRuns'[f].at = "start" => codeRuns'[f].path = Place(f)' /\ scripts'[Place(f)'] = f
  <2>1. Undisturbed /\ f \in Inside /\ f \in Executions
    BY <1>6, <1>8, <1>11
  <2>2. /\ TheDir(f) = Place(f)
        /\ codeRuns[f].at = "start" => codeRuns[f].path = Place(f) /\ scripts[Place(f)] = f
    BY <2>1 DEF OwnInv
  <2>3. TheDir(f)' = Place(f)' /\ Place(f)' = Place(f) /\ scripts' = scripts
    BY <2>1, <2>2, <1>1, <1>7
  <2>4. codeRuns'[f].at = "start" => codeRuns'[f] = codeRuns[f]
    BY <2>1, <1>4, <1>5
  <2> QED
    BY <2>2, <2>3, <2>4
<1>12. /\ setting' \in Settings
       /\ setting' = "directory" => sandboxDir' = [s \in Directories |-> WorkDir]
       /\ ~crowded' => \A f, g \in Inside' : f = g
  BY <1>1, <1>6 DEF OwnInv
<1> QED
  BY <1>9, <1>10, <1>11, <1>12 DEF OwnInv

\* Who leaves removes the directory the Sandbox has, which is its own unless
\* executions that share the Sandbox overlapped.
LEMMA LeaveOwn == ASSUME WalkInv, OwnInv, NEW e \in Executions, LeaveSandbox(e) PROVE OwnInv'
<1> USE CodeAssumption
<1> DEFINE gone == IF setting \in {"own", "sandbox"} THEN {TheDir(e)} ELSE {}
<1>1. /\ codeRuns[e].at = "leave" /\ codeRuns' = [codeRuns EXCEPT ![e].at = "over"]
      /\ existing' = existing \ gone
      /\ scripts' = [x \in Directories |-> IF x \in gone THEN NoScript ELSE scripts[x]]
      /\ UNCHANGED <<setting, sandboxDir, crowded>>
  BY DEF LeaveSandbox
<1>2. codeRuns \in [Executions -> RunRecords] /\ e \in Inside
  BY <1>1 DEF WalkInv, Inside
<1>3. /\ \A f \in Executions : f # e => codeRuns'[f] = codeRuns[f]
      /\ codeRuns'[e].at = "over" /\ codeRuns'[e].ran = codeRuns[e].ran
  BY <1>1, <1>2 DEF RunRecords
<1>4. /\ Inside' = Inside \ {e} /\ Inside \subseteq Executions
      /\ {f \in Executions : codeRuns'[f].at # "idle"} = {f \in Executions : codeRuns[f].at # "idle"}
  BY <1>1, <1>3 DEF Inside
<1>5. \A f \in Executions : TheDir(f)' = TheDir(f) /\ Place(f)' = Place(f)
  BY <1>1 DEF TheDir, SandboxOf, Place
<1>6. Undisturbed' = Undisturbed
  BY <1>1 DEF Undisturbed
<1>7. Undisturbed => gone = IF setting \in {"own", "sandbox"} THEN {e} ELSE {}
  BY <1>2 DEF OwnInv, Place
<1> HIDE DEF gone
<1>8. OwnCodeRuns'
  BY <1>1, <1>3 DEF OwnInv, OwnCodeRuns
<1>9. DirectoriesGiven'
  <2>1. CASE Undisturbed
    BY <2>1, <1>1, <1>4, <1>7 DEF OwnInv, DirectoriesGiven
  <2>2. CASE ~Undisturbed
    BY <2>2, <1>1, <1>4 DEF OwnInv, DirectoriesGiven, Undisturbed
  <2> QED
    BY <2>1, <2>2
<1>10. ASSUME Undisturbed, NEW f \in Inside'
       PROVE  /\ TheDir(f)' = Place(f)'
              /\ codeRuns'[f].at = "start" => codeRuns'[f].path = Place(f)' /\ scripts'[Place(f)'] = f
  <2>1. f # e /\ f \in Inside /\ f \in Executions /\ setting \in {"own", "kept"}
    BY <1>2, <1>4, <1>10 DEF OwnInv, Undisturbed
  <2>2. Place(f) \in Directories /\ Place(f) \notin gone
    BY <2>1, <1>7, <1>10 DEF Place, Directories
  <2>3. scripts'[Place(f)] = scripts[Place(f)]
    BY <2>2, <1>1
  <2>4. /\ TheDir(f) = Place(f)
        /\ codeRuns[f].at = "start" => codeRuns[f].path = Place(f) /\ scripts[Place(f)] = f
    BY <2>1, <1>10 DEF OwnInv
  <2>5. TheDir(f)' = Place(f)' /\ Place(f)' = Place(f) /\ codeRuns'[f] = codeRuns[f]
    BY <2>1, <2>4, <1>3, <1>5
  <2> QED
    BY <2>3, <2>4, <2>5
<1> QED
  BY <1>1, <1>4, <1>6, <1>8, <1>9, <1>10 DEF OwnInv

\* The other steps leave directories and scripts alone.
LEMMA OtherOwn ==
  ASSUME WalkInv, OwnInv, NEW e \in Executions, AskHandler(e) \/ HandlersAsked(e) \/ EndScript(e)
  PROVE  OwnInv'
<1>1. UNCHANGED <<setting, sandboxDir, existing, scripts, crowded>>
  BY DEF AskHandler, HandlersAsked, EndScript
<1>2. codeRuns \in [Executions -> RunRecords] /\ codeRuns[e] \in RunRecords
  BY DEF WalkInv
<1>3. \A f \in Executions : f # e => codeRuns'[f] = codeRuns[f]
  BY <1>2 DEF AskHandler, HandlersAsked, EndScript
<1>4. /\ codeRuns[e].at \in Hooks \cup {"communicate"}
      /\ codeRuns'[e].at \in Hooks \cup {"script", "leave"}
      /\ codeRuns'[e].ran = codeRuns[e].ran
  <2>1. CASE AskHandler(e)
    <3>1. PICK bad \in BOOLEAN : codeRuns' = [codeRuns EXCEPT ![e] = [codeRuns[e] EXCEPT
            !.position = @ + 1, !.errors = bad,
            !.asked = @ \cup IF codeRuns[e].at = "validate"
                               THEN {handlerLists[codeRuns[e].list][codeRuns[e].position]} ELSE {}]]
      BY <2>1 DEF AskHandler
    <3> QED
      BY <3>1, <2>1, <1>2 DEF AskHandler, RunRecords
  <2>2. CASE HandlersAsked(e)
    BY <2>2, <1>2 DEF HandlersAsked, Asking, NextHook, Hooks, RunRecords
  <2>3. CASE EndScript(e)
    BY <2>3, <1>2 DEF EndScript, Asking, Hooks, RunRecords
  <2> QED
    BY <2>1, <2>2, <2>3
<1> QED
  BY <1>1, <1>3, <1>4, StaysWhereItIs DEF Hooks

LEMMA ChangeOwn == ASSUME WalkInv, OwnInv, ChangePlugins PROVE OwnInv'
<1>1. UNCHANGED <<setting, sandboxDir, existing, scripts, crowded>>
  BY DEF ChangePlugins
<1>2. \E gone : codeRuns' = Withdraw(gone)
  <2>1. codeRuns' = codeRuns => codeRuns' = Withdraw({})
    BY NothingWithdrawn
  <2> QED
    BY <2>1 DEF ChangePlugins, RegisterHandler, UnregisterHandler, ClearHandlers
<1>3. \A e \in Executions : /\ codeRuns'[e].at = codeRuns[e].at
                            /\ codeRuns'[e].ran = codeRuns[e].ran
                            /\ codeRuns'[e].path = codeRuns[e].path
  BY <1>2 DEF Withdraw, WalkInv, RunRecords
<1> QED
  BY <1>1, <1>3, StaysWhereItIs

LEMMA OwnStep == WalkInv /\ OwnInv /\ [CodeNext]_codeVars => OwnInv'
<1> SUFFICES ASSUME WalkInv, OwnInv, [CodeNext]_codeVars PROVE OwnInv'
  OBVIOUS
<1>1. CASE UNCHANGED codeVars
  BY <1>1, StaysWhereItIs DEF codeVars
<1> QED
  BY <1>1, BeginOwn, WriteOwn, StartOwn, LeaveOwn, OtherOwn, ChangeOwn DEF CodeNext

\* What runs in code mode is validated, is the caller's own and is cleaned up, in
\* each of the settings and for any number of executions; only what shares a
\* directory or a Sandbox and overlaps is excepted (codemode/executor.py, sandbox.py).
THEOREM CodeModeIsSound == CodeSpec => []CodeRunsSound
<1>1. WalkInv /\ OwnInv => CodeRunsSound
  BY DEF WalkInv, Walk, OwnInv, AskedBeforeRun, CodeRunsSound
<1> QED
  BY CodeInitially, CodeStep, OwnInitially, OwnStep, <1>1, PTL DEF CodeSpec
-----------------------------------------------------------------------------
\* What the type invariant says beyond WalkInv: temporary directories are those
\* of executions.
CodeRest ==
  /\ setting \in Settings /\ pluginChanges \in 0 .. MaxPluginChanges
  /\ crowded \in BOOLEAN /\ existing \subseteq Executions

CodeTypeInv == WalkInv /\ CodeRest

LEMMA CodeTypesInitially == CodeInit => CodeTypeInv
<1>1. CodeInit => CodeRest
  <2> SUFFICES ASSUME CodeInit PROVE CodeRest
    OBVIOUS
  <2>1. setting \in Settings /\ existing = {} /\ pluginChanges = 0
    BY DEF CodeInit
  <2>2. crowded \in BOOLEAN
    BY DEF CodeInit
  <2>3. MaxPluginChanges \in Nat
    BY CodeAssumption
  <2> QED
    BY <2>1, <2>2, <2>3 DEF CodeRest
<1> QED
  BY <1>1, CodeInitially DEF CodeTypeInv

LEMMA CodeTypesStep == CodeTypeInv /\ [CodeNext]_codeVars => CodeTypeInv'
<1> SUFFICES ASSUME WalkInv, CodeRest, [CodeNext]_codeVars PROVE CodeRest'
  BY CodeStep DEF CodeTypeInv
<1> USE DEF CodeRest
<1>1. ASSUME NEW e \in Executions PROVE TheDir(e) \in Directories
  BY DEF TheDir, SandboxOf, WalkInv, Directories, WorkDir
<1>2. ASSUME NEW e \in Executions, BeginExecution(e) PROVE CodeRest'
  <2>1. crowded' \in BOOLEAN
    BY <1>2 DEF BeginExecution
  <2> QED
    BY <1>2, <2>1 DEF BeginExecution
<1>3. ASSUME NEW e \in Executions, WriteScript(e) PROVE CodeRest'
  BY <1>1, <1>3 DEF WriteScript, Directories
<1>4. ASSUME NEW e \in Executions, LeaveSandbox(e) PROVE CodeRest'
  BY <1>4 DEF LeaveSandbox
<1>5. ASSUME ChangePlugins PROVE CodeRest'
  BY <1>5, CodeAssumption DEF ChangePlugins
<1>6. CASE UNCHANGED codeVars
  BY <1>6 DEF codeVars
<1>7. ASSUME NEW e \in Executions,
             AskHandler(e) \/ HandlersAsked(e) \/ StartScript(e) \/ EndScript(e)
      PROVE  CodeRest'
  BY <1>7 DEF AskHandler, HandlersAsked, StartScript, EndScript
<1> QED
  BY <1>2, <1>3, <1>4, <1>5, <1>6, <1>7 DEF CodeNext

LEMMA CodeTypesFit == CodeTypeInv => CodeTypeOK
  BY DEF CodeTypeInv, CodeRest, CodeTypeOK, WalkInv, Walk

-----------------------------------------------------------------------------
(***************************************************************************)
(* Checkpoints: identifiers of stored checkpoints are distinct, a revert   *)
(* goes back on the present timeline, and a late identifier restores its   *)
(* own checkpoint or a newer one of the same second.  Seconds alone do not *)
(* tell checkpoints apart, so the inductive invariant orders the stored    *)
(* checkpoints by their steps.                                             *)
(***************************************************************************)
\* The stored checkpoints are in the order of their steps, none of which is
\* after the present one, and an identifier begins with its step.
StepsAscend ==
  /\ stepNo <= Len(given)
  /\ \A k \in DOMAIN saved : saved[k].id[1] = saved[k].step /\ saved[k].step <= stepNo
  /\ \A j, k \in DOMAIN saved : j < k => saved[j].step < saved[k].step

\* A stored checkpoint has the identifier that its save returned, and no later
\* save returned the same.
NewestOfItsId ==
  \A k \in DOMAIN saved :
    /\ given[saved[k].of] = saved[k].id
    /\ \A n \in DOMAIN given : given[n] = saved[k].id => n <= saved[k].of

\* The present context, and each stored one, came from all stored before it.
SavedOnLine ==
  /\ OneTimeline
  /\ \A j, k \in DOMAIN saved : j < k => saved[j].of \in lines[saved[k].of]

CheckpointInv ==
  CheckpointTypeOK /\ StepsAscend /\ NewestOfItsId /\ SavedOnLine /\ RestoredIsOwn

-----------------------------------------------------------------------------
LEMMA SequenceElements ==
  ASSUME NEW S, NEW s \in Seq(S)
  PROVE  Len(s) \in Nat /\ DOMAIN s = 1..Len(s) /\ \A k \in 1..Len(s) : s[k] \in S
OBVIOUS

LEMMA SequenceAppends ==
  ASSUME NEW S, NEW s \in Seq(S), NEW e \in S
  PROVE  /\ Append(s, e) \in Seq(S) /\ Len(Append(s, e)) = Len(s) + 1
         /\ \A k \in 1..Len(s) : Append(s, e)[k] = s[k]
         /\ Append(s, e)[Len(s) + 1] = e
OBVIOUS

LEMMA SequencePrefix ==
  ASSUME NEW S, NEW s \in Seq(S), NEW k \in 1..Len(s)
  PROVE  /\ SubSeq(s, 1, k - 1) \in Seq(S) /\ Len(SubSeq(s, 1, k - 1)) = k - 1
         /\ \A j \in 1..(k - 1) : SubSeq(s, 1, k - 1)[j] = s[j]
OBVIOUS

LEMMA SequenceWidens ==
  ASSUME NEW S, NEW T, S \subseteq T, NEW s \in Seq(S)
  PROVE  s \in Seq(T)
<1>1. Len(s) \in Nat /\ s \in [1..Len(s) -> S]
  OBVIOUS
<1>2. s \in [1..Len(s) -> T]
  BY <1>1
<1>3. QED
  BY <1>1, <1>2

\* The type invariant, element by element.
LEMMA Elements ==
  ASSUME CheckpointTypeOK
  PROVE  /\ Len(saved) \in Nat /\ DOMAIN saved = 1..Len(saved)
         /\ Len(given) \in Nat /\ DOMAIN given = 1..Len(given) /\ Len(given) <= MaxSaves
         /\ Len(lines) = Len(given) /\ DOMAIN lines = 1..Len(given)
         /\ \A k \in 1..Len(saved) :
              /\ saved[k].id \in (1..MaxSaves) \X (0..MaxClock)
              /\ saved[k].step \in 1..MaxSaves /\ saved[k].of \in 1..Len(given)
         /\ \A n \in 1..Len(given) :
              given[n] \in (1..MaxSaves) \X (0..MaxClock) /\ lines[n] \in SUBSET (1..Len(given))
<1>1. given \in Seq((1..MaxSaves) \X (0..MaxClock)) /\ Len(given) <= MaxSaves
  BY DEF CheckpointTypeOK
<1>2. Len(given) \in Nat /\ DOMAIN given = 1..Len(given)
      /\ \A n \in 1..Len(given) : given[n] \in (1..MaxSaves) \X (0..MaxClock)
  BY <1>1, SequenceElements
<1>3. saved \in Seq([id : (1..MaxSaves) \X (0..MaxClock), step : 1..MaxSaves, of : DOMAIN given])
  BY DEF CheckpointTypeOK
<1>4. /\ Len(saved) \in Nat /\ DOMAIN saved = 1..Len(saved)
      /\ \A k \in 1..Len(saved) :
           saved[k] \in [id : (1..MaxSaves) \X (0..MaxClock), step : 1..MaxSaves, of : DOMAIN given]
  BY <1>3, SequenceElements
<1>5. lines \in Seq(SUBSET DOMAIN given) /\ Len(lines) = Len(given)
  BY DEF CheckpointTypeOK
<1>6. DOMAIN lines = 1..Len(lines) /\ \A n \in 1..Len(lines) : lines[n] \in SUBSET DOMAIN given
  BY <1>5, SequenceElements
<1>7. QED
  BY <1>1, <1>2, <1>4, <1>5, <1>6

LEMMA CheckpointInvInit == CheckpointInit => CheckpointInv
BY CheckpointAssumption
DEF CheckpointInit, CheckpointInv, CheckpointTypeOK, StepsAscend, NewestOfItsId, SavedOnLine,
    OneTimeline, RestoredIsOwn

LEMMA SaveKeepsInv == CheckpointInv /\ Save => CheckpointInv'
<1> SUFFICES ASSUME CheckpointInv, Save PROVE CheckpointInv'
  OBVIOUS
<1> DEFINE n == Len(given) + 1
           id == <<stepNo + 1, now>>
           new == [id |-> id, step |-> stepNo + 1, of |-> n]
           Ids == (1..MaxSaves) \X (0..MaxClock)
<1>1. /\ saved' = Append(saved, new) /\ given' = Append(given, id)
      /\ lines' = Append(lines, line \cup {n}) /\ line' = line \cup {n}
      /\ stepNo' = stepNo + 1 /\ n <= MaxSaves /\ UNCHANGED <<now, restored>>
  BY DEF Save, SaveId
<1>2. CheckpointTypeOK /\ stepNo \in Nat /\ now \in 0..MaxClock /\ line \subseteq DOMAIN given
      /\ stepNo <= Len(given) /\ restored \in {NeverRestored} \cup ((DOMAIN given) \X (DOMAIN given))
  BY CheckpointAssumption DEF CheckpointInv, CheckpointTypeOK, StepsAscend
<1>3. n \in Nat /\ stepNo + 1 \in 1..MaxSaves /\ 1..Len(given) \subseteq 1..n
  BY <1>1, <1>2, CheckpointAssumption, Elements
<1>4. id \in Ids
  BY <1>2, <1>3
<1>5. /\ given' \in Seq(Ids) /\ Len(given') = n
      /\ \A m \in 1..Len(given) : given'[m] = given[m]
      /\ given'[n] = id
  <2>1. given \in Seq(Ids)
    BY <1>2 DEF CheckpointTypeOK
  <2>2. QED
    BY <1>1, <1>4, <2>1, SequenceAppends
<1>6. DOMAIN given' = 1..n /\ DOMAIN given \subseteq 1..n
  BY <1>2, <1>3, <1>5, Elements, SequenceElements
<1>7. /\ saved' \in Seq([id : Ids, step : 1..MaxSaves, of : 1..n]) /\ Len(saved') = Len(saved) + 1
      /\ \A k \in 1..Len(saved) : saved'[k] = saved[k]
      /\ saved'[Len(saved) + 1] = new
  <2>1. new \in [id : Ids, step : 1..MaxSaves, of : 1..n]
    BY <1>3, <1>4
  <2>2. saved \in Seq([id : Ids, step : 1..MaxSaves, of : DOMAIN given])
    BY <1>2 DEF CheckpointTypeOK
  <2>3. [id : Ids, step : 1..MaxSaves, of : DOMAIN given]
          \subseteq [id : Ids, step : 1..MaxSaves, of : 1..n]
    BY <1>6
  <2>4. saved \in Seq([id : Ids, step : 1..MaxSaves, of : 1..n])
    <3> DEFINE E == [id : Ids, step : 1..MaxSaves, of : DOMAIN given]
               F == [id : Ids, step : 1..MaxSaves, of : 1..n]
    <3>1. saved \in Seq(E) /\ E \subseteq F
      BY <2>2, <2>3
    <3> HIDE DEF E, F
    <3>2. saved \in Seq(F)
      BY <3>1, SequenceWidens
    <3>3. QED
      BY <3>2 DEF F
  <2>5. QED
    BY <1>1, <2>1, <2>4, SequenceAppends
<1>8. DOMAIN saved' = 1..(Len(saved) + 1) /\ DOMAIN saved = 1..Len(saved) /\ Len(saved) \in Nat
  BY <1>2, <1>7, Elements, SequenceElements
<1>9. /\ lines' \in Seq(SUBSET (1..n)) /\ Len(lines') = n
      /\ \A m \in 1..Len(given) : lines'[m] = lines[m]
      /\ lines'[n] = line \cup {n}
  <2>1. line \cup {n} \in SUBSET (1..n)
    BY <1>2, <1>3, <1>6
  <2>2. lines \in Seq(SUBSET DOMAIN given) /\ SUBSET DOMAIN given \subseteq SUBSET (1..n)
    BY <1>2, <1>6 DEF CheckpointTypeOK
  <2>3. lines \in Seq(SUBSET (1..n))
    BY <2>2, SequenceWidens
  <2>4. Len(lines) = Len(given)
    BY <1>2 DEF CheckpointTypeOK
  <2>5. QED
    BY <1>1, <2>1, <2>3, <2>4, SequenceAppends
<1>10. \A k \in 1..Len(saved) : saved[k].of \in 1..Len(given) /\ saved[k].id \in Ids
                                 /\ saved[k].step \in Nat
  BY <1>2, Elements, CheckpointAssumption
<1> HIDE DEF Ids
<1>11. CheckpointTypeOK'
  <2>1. line' \subseteq DOMAIN given'
    BY <1>1, <1>2, <1>3, <1>6
  <2>2. restored' \in {NeverRestored} \cup ((DOMAIN given') \X (DOMAIN given'))
    BY <1>1, <1>2, <1>6
  <2>3. stepNo' \in 0..MaxSaves /\ now' \in 0..MaxClock
    BY <1>1, <1>2, <1>3, CheckpointAssumption
  <2>4. QED
    BY <1>1, <1>5, <1>6, <1>7, <1>9, <2>1, <2>2, <2>3 DEF CheckpointTypeOK, Ids
<1>12. StepsAscend'
  <2>1. /\ \A k \in 1..Len(saved) : saved[k].id[1] = saved[k].step /\ saved[k].step <= stepNo
        /\ \A j, k \in 1..Len(saved) : j < k => saved[j].step < saved[k].step
    BY <1>8 DEF CheckpointInv, StepsAscend
  <2>2. new.id[1] = new.step /\ new.step = stepNo + 1
    OBVIOUS
  <2>3. stepNo' <= Len(given')
    BY <1>1, <1>2, <1>3, <1>5, Elements
  <2>4. ASSUME NEW k \in DOMAIN saved'
        PROVE  saved'[k].id[1] = saved'[k].step /\ saved'[k].step <= stepNo'
    <3>1. CASE k = Len(saved) + 1
      BY <1>1, <1>2, <1>7, <2>2, <3>1
    <3>2. CASE k \in 1..Len(saved)
      <4>1. saved'[k] = saved[k] /\ saved[k].step \in Nat /\ saved[k].step <= stepNo
            /\ saved[k].id[1] = saved[k].step
        BY <1>7, <1>10, <2>1, <3>2
      <4>2. QED
        BY <1>1, <1>2, <4>1
    <3>3. QED
      BY <1>8, <3>1, <3>2
  <2>5. ASSUME NEW j \in DOMAIN saved', NEW k \in DOMAIN saved', j < k
        PROVE  saved'[j].step < saved'[k].step
    <3>1. j \in 1..Len(saved)
      BY <1>8, <2>5
    <3>2. saved'[j] = saved[j] /\ saved[j].step \in Nat /\ saved[j].step <= stepNo
      BY <1>7, <1>10, <2>1, <3>1
    <3>3. CASE k = Len(saved) + 1
      <4>1. saved'[k].step = stepNo + 1
        BY <1>7, <2>2, <3>3
      <4>2. stepNo \in Nat
        BY <1>2
      <4>3. QED
        BY <3>2, <4>1, <4>2
    <3>4. CASE k \in 1..Len(saved)
      BY <1>7, <2>1, <2>5, <3>1, <3>4
    <3>5. QED
      BY <1>8, <3>3, <3>4
  <2>6. QED
    BY <2>3, <2>4, <2>5 DEF StepsAscend
<1>13. NewestOfItsId'
  <2>1. \A k \in 1..Len(saved) : id # saved[k].id
    BY <1>2, <1>8, <1>10 DEF CheckpointInv, StepsAscend
  <2>2. \A k \in 1..Len(saved) :
          /\ given[saved[k].of] = saved[k].id
          /\ \A m \in 1..Len(given) : given[m] = saved[k].id => m <= saved[k].of
    BY <1>2, <1>8, Elements DEF CheckpointInv, NewestOfItsId
  <2>3. new.of = n /\ new.id = id
    OBVIOUS
  <2>4. \A m \in 1..n : m \in 1..Len(given) \/ m = n
    BY <1>2, Elements
  <2>5. ASSUME NEW k \in DOMAIN saved'
        PROVE  /\ given'[saved'[k].of] = saved'[k].id
               /\ \A m \in DOMAIN given' : given'[m] = saved'[k].id => m <= saved'[k].of
    <3>1. CASE k = Len(saved) + 1
      <4>1. saved'[k].of = n /\ saved'[k].id = id
        BY <1>7, <2>3, <3>1
      <4>2. n \in Nat /\ given'[n] = id /\ DOMAIN given' = 1..n
        BY <1>3, <1>5, <1>6
      <4>3. QED
        BY <4>1, <4>2
    <3>2. CASE k \in 1..Len(saved)
      <4>1. saved'[k] = saved[k] /\ saved[k].of \in 1..Len(given) /\ id # saved[k].id
        BY <1>7, <1>10, <2>1, <3>2
      <4>2. given'[saved[k].of] = saved[k].id
        BY <1>5, <2>2, <3>2, <4>1
      <4>3. ASSUME NEW m \in DOMAIN given', given'[m] = saved[k].id PROVE m <= saved[k].of
        <5>1. m # n /\ m \in 1..Len(given)
          BY <1>5, <1>6, <2>4, <4>1, <4>3
        <5>2. given[m] = saved[k].id
          BY <1>5, <4>3, <5>1
        <5>3. QED
          BY <2>2, <3>2, <5>1, <5>2
      <4>4. QED
        BY <4>1, <4>2, <4>3
    <3>3. QED
      BY <1>8, <3>1, <3>2
  <2>6. QED
    BY <2>5 DEF NewestOfItsId
<1>14. SavedOnLine'
  <2>1. /\ \A k \in 1..Len(saved) : saved[k].of \in line
        /\ \A j, k \in 1..Len(saved) : j < k => saved[j].of \in lines[saved[k].of]
    BY <1>8 DEF CheckpointInv, SavedOnLine, OneTimeline
  <2>2. new.of = n
    OBVIOUS
  <2>3. ASSUME NEW k \in DOMAIN saved' PROVE saved'[k].of \in line'
    <3>1. CASE k = Len(saved) + 1
      BY <1>1, <1>7, <2>2, <3>1
    <3>2. CASE k \in 1..Len(saved)
      BY <1>1, <1>7, <2>1, <3>2
    <3>3. QED
      BY <1>8, <3>1, <3>2
  <2>4. ASSUME NEW j \in DOMAIN saved', NEW k \in DOMAIN saved', j < k
        PROVE  saved'[j].of \in lines'[saved'[k].of]
    <3>1. j \in 1..Len(saved)
      BY <1>8, <2>4
    <3>2. CASE k \in 1..Len(saved)
      BY <1>7, <1>9, <1>10, <2>1, <2>4, <3>1, <3>2
    <3>3. CASE k = Len(saved) + 1
      <4>1. saved'[k].of = n /\ saved'[j].of = saved[j].of
        BY <1>7, <2>2, <3>1, <3>3
      <4>2. saved[j].of \in line
        BY <2>1, <3>1
      <4>3. QED
        BY <1>9, <4>1, <4>2
    <3>4. QED
      BY <1>8, <3>2, <3>3
  <2>5. QED
    BY <2>3, <2>4 DEF SavedOnLine, OneTimeline
<1>15. RestoredIsOwn'
  <2>1. restored # NeverRestored => restored[1] \in 1..Len(given) /\ restored[2] \in 1..Len(given)
    BY <1>2, Elements
  <2>2. QED
    BY <1>1, <1>5, <2>1 DEF CheckpointInv, RestoredIsOwn
<1>16. QED
  BY <1>11, <1>12, <1>13, <1>14, <1>15 DEF CheckpointInv

LEMMA RevertKeepsInv ==
  ASSUME CheckpointInv, NEW n \in DOMAIN given, Revert(n)
  PROVE  CheckpointInv'
<1> DEFINE Entry == [id : (1..MaxSaves) \X (0..MaxClock), step : 1..MaxSaves, of : DOMAIN given]
<1>1. PICK k \in DOMAIN saved : saved[k].id = given[n] /\ GoBack(k, n)
  BY DEF Revert
<1>2. /\ saved' = SubSeq(saved, 1, k - 1) /\ stepNo' = saved[k].step
      /\ line' = lines[saved[k].of] /\ restored' = <<n, saved[k].of>>
      /\ UNCHANGED <<now, given, lines>>
  BY <1>1 DEF GoBack, Kept, StepAfter
<1>3. CheckpointTypeOK /\ k \in 1..Len(saved) /\ saved \in Seq(Entry)
      /\ saved[k].of \in DOMAIN given /\ saved[k].step \in 1..MaxSaves
      /\ lines[saved[k].of] \subseteq DOMAIN given
  <2>1. CheckpointTypeOK /\ saved \in Seq(Entry)
    BY DEF CheckpointInv, CheckpointTypeOK
  <2>2. QED
    BY <2>1, Elements
<1> HIDE DEF Entry
<1>4. saved' \in Seq(Entry) /\ Len(saved') = k - 1 /\ \A j \in 1..(k - 1) : saved'[j] = saved[j]
  BY <1>2, <1>3, SequencePrefix
<1>5. /\ DOMAIN saved' = 1..(k - 1) /\ \A j \in 1..(k - 1) : j \in DOMAIN saved /\ j < k
      /\ \A j \in DOMAIN saved : saved[j].step \in Nat /\ saved[j].of \in Nat
  <2>1. Len(saved) \in Nat /\ DOMAIN saved = 1..Len(saved)
        /\ \A j \in 1..Len(saved) : saved[j].step \in 1..MaxSaves /\ saved[j].of \in 1..Len(given)
    BY <1>3, Elements
  <2>2. DOMAIN saved' = 1..Len(saved')
    BY <1>4, SequenceElements
  <2>3. \A m : 1..m \subseteq Nat
    OBVIOUS
  <2>4. k \in 1..Len(saved) /\ Len(saved) \in Nat
    BY <1>3, <2>1
  <2>5. \A j \in 1..(k - 1) : j \in 1..Len(saved) /\ j < k
    BY <2>4
  <2>6. QED
    BY <1>4, <2>1, <2>2, <2>3, <2>5
<1>6. CheckpointTypeOK'
  <2>1. saved' \in Seq([id : (1..MaxSaves) \X (0..MaxClock), step : 1..MaxSaves,
                        of : DOMAIN given'])
    BY <1>2, <1>4 DEF Entry
  <2>2. restored' \in {NeverRestored} \cup ((DOMAIN given') \X (DOMAIN given'))
    BY <1>2, <1>3
  <2>3. stepNo' \in 0..MaxSaves /\ line' \subseteq DOMAIN given'
    BY <1>2, <1>3, CheckpointAssumption
  <2>4. /\ now' \in 0..MaxClock
        /\ given' \in Seq((1..MaxSaves) \X (0..MaxClock)) /\ Len(given') <= MaxSaves
        /\ lines' \in Seq(SUBSET DOMAIN given') /\ Len(lines') = Len(given')
    BY <1>2, <1>3 DEF CheckpointTypeOK
  <2>5. QED
    BY <2>1, <2>2, <2>3, <2>4 DEF CheckpointTypeOK
<1>7. StepsAscend'
  <2>1. /\ \A j \in DOMAIN saved : saved[j].id[1] = saved[j].step /\ saved[j].step <= stepNo
        /\ \A i, j \in DOMAIN saved : i < j => saved[i].step < saved[j].step
        /\ stepNo <= Len(given)
    BY DEF CheckpointInv, StepsAscend
  <2>2. stepNo \in Nat /\ Len(given) \in Nat
    BY <1>3, Elements, CheckpointAssumption DEF CheckpointTypeOK
  <2>3. stepNo' <= Len(given')
    BY <1>2, <1>1, <1>5, <2>1, <2>2
  <2>4. ASSUME NEW j \in DOMAIN saved'
        PROVE  saved'[j].id[1] = saved'[j].step /\ saved'[j].step <= stepNo'
    <3>1. saved'[j] = saved[j] /\ j \in DOMAIN saved /\ saved[j].step < saved[k].step
      BY <1>4, <1>5, <2>1
    <3>2. saved[j].step \in Nat /\ saved[k].step \in Nat /\ saved[j].id[1] = saved[j].step
      BY <1>5, <2>1, <3>1
    <3>3. stepNo' = saved[k].step
      BY <1>2
    <3>4. QED
      BY <3>1, <3>2, <3>3
  <2>5. \A i, j \in DOMAIN saved' : i < j => saved'[i].step < saved'[j].step
    BY <1>4, <1>5, <2>1
  <2>6. QED
    BY <2>3, <2>4, <2>5 DEF StepsAscend
<1>8. NewestOfItsId'
  BY <1>2, <1>4, <1>5 DEF CheckpointInv, NewestOfItsId
<1>9. SavedOnLine'
  <2>1. \A i, j \in DOMAIN saved : i < j => saved[i].of \in lines[saved[j].of]
    BY DEF CheckpointInv, SavedOnLine
  <2>2. \A j \in DOMAIN saved' : saved'[j].of \in line'
    BY <1>1, <1>2, <1>4, <1>5, <2>1
  <2>3. \A i, j \in DOMAIN saved' : i < j => saved'[i].of \in lines'[saved'[j].of]
    BY <1>2, <1>4, <1>5, <2>1
  <2>4. QED
    BY <2>2, <2>3 DEF SavedOnLine, OneTimeline
<1>10. RestoredIsOwn'
  <2>1. given[saved[k].of] = given[n] /\ n <= saved[k].of
    BY <1>1 DEF CheckpointInv, NewestOfItsId
  <2>2. n \in Nat /\ saved[k].of \in Nat
    BY <1>1, <1>3, <1>5, Elements
  <2>3. QED
    BY <1>2, <2>1, <2>2 DEF RestoredIsOwn
<1>11. QED
  BY <1>6, <1>7, <1>8, <1>9, <1>10 DEF CheckpointInv

\* Every step keeps the invariant; a revert to a step is one to an identifier.
LEMMA CheckpointInvKept == CheckpointInv /\ [CheckpointNext]_checkpointVars => CheckpointInv'
<1> SUFFICES ASSUME CheckpointInv, [CheckpointNext]_checkpointVars PROVE CheckpointInv'
  OBVIOUS
<1> USE CheckpointAssumption
<1>1. CASE Save
  BY <1>1, SaveKeepsInv
<1>2. CASE ClearCheckpoints
  <2>1. saved' = <<>> /\ stepNo' = 0 /\ UNCHANGED <<now, given, lines, line, restored>>
    BY <1>2 DEF ClearCheckpoints
  <2>2. QED
    BY <2>1 DEF CheckpointInv, CheckpointTypeOK, StepsAscend, NewestOfItsId, SavedOnLine,
                OneTimeline, RestoredIsOwn
<1>3. CASE NextSecond
  BY <1>3 DEF NextSecond, CheckpointInv, CheckpointTypeOK, StepsAscend, NewestOfItsId, SavedOnLine,
              OneTimeline, RestoredIsOwn
<1>4. CASE \E n \in DOMAIN given : Revert(n)
  BY <1>4, RevertKeepsInv
<1>5. CASE \E s \in 0..MaxSaves : RevertToStep(s)
  <2>1. PICK k \in DOMAIN saved : Revert(saved[k].of)
    BY <1>5 DEF RevertToStep
  <2>2. saved[k].of \in DOMAIN given
    BY Elements DEF CheckpointInv
  <2>3. QED
    BY <2>1, <2>2, RevertKeepsInv
<1>6. CASE UNCHANGED checkpointVars
  BY <1>6 DEF checkpointVars, CheckpointInv, CheckpointTypeOK, StepsAscend, NewestOfItsId,
              SavedOnLine, OneTimeline, RestoredIsOwn
<1>7. QED
  BY <1>1, <1>2, <1>3, <1>4, <1>5, <1>6 DEF CheckpointNext

-----------------------------------------------------------------------------
\* The invariant holds in every behaviour of the checkpoint manager: the type
\* invariant, the order of steps and the three properties below at once.
THEOREM CheckpointInvHolds == CheckpointSpec => []CheckpointInv
<1>1. CheckpointInit => CheckpointInv
  BY CheckpointInvInit
<1>2. CheckpointInv /\ [CheckpointNext]_checkpointVars => CheckpointInv'
  BY CheckpointInvKept
<1>3. QED
  BY <1>1, <1>2, PTL DEF CheckpointSpec

\* The type invariant: steps and identifiers stay within the saves made.
THEOREM CheckpointTypes == CheckpointSpec => []CheckpointTypeOK
<1>1. CheckpointInv => CheckpointTypeOK
  BY DEF CheckpointInv
<1>2. QED
  BY <1>1, CheckpointInvHolds, PTL

\* No two stored checkpoints have one identifier, although save takes it from
\* the clock and the step, and reverts and clears give steps again.
THEOREM StoredIdsAreDistinct == CheckpointSpec => []StoredIdsDistinct
<1>1. ASSUME CheckpointInv PROVE StoredIdsDistinct
  <2>1. DOMAIN saved = 1..Len(saved) /\ \A k \in 1..Len(saved) : saved[k].step \in 1..MaxSaves
    BY <1>1, Elements DEF CheckpointInv
  <2>2. /\ \A k \in DOMAIN saved : saved[k].id[1] = saved[k].step
        /\ \A j, k \in DOMAIN saved : j < k => saved[j].step < saved[k].step
    BY <1>1 DEF CheckpointInv, StepsAscend
  <2>3. ASSUME NEW j \in DOMAIN saved, NEW k \in DOMAIN saved, saved[j].id = saved[k].id
        PROVE  j = k
    <3>1. saved[j].step = saved[k].step /\ saved[j].step \in 1..MaxSaves
      BY <2>1, <2>2, <2>3
    <3>2. ~ j < k /\ ~ k < j
      BY <2>2, <3>1
    <3>3. QED
      BY <2>1, <3>2
  <2>4. QED
    BY <2>3 DEF StoredIdsDistinct
<1>2. QED
  BY <1>1, CheckpointInvHolds, PTL

\* Whatever is stored lies on the way to the present context: revert never
\* returns the context of a branch that was left.
THEOREM RevertGoesBack == CheckpointSpec => []OneTimeline
<1>1. CheckpointInv => OneTimeline
  BY DEF CheckpointInv, SavedOnLine
<1>2. QED
  BY <1>1, CheckpointInvHolds, PTL

\* An identifier, however late it is used, restores its own checkpoint or a
\* newer one that was saved in the same second.
THEOREM LateIdsRestoreTheirOwn == CheckpointSpec => []RestoredIsOwn
<1>1. CheckpointInv => RestoredIsOwn
  BY DEF CheckpointInv
<1>2. QED
  BY <1>1, CheckpointInvHolds, PTL

\* What the steering run checks of checkpoints, for any number of saves: stored
\* identifiers are distinct, a revert goes back on the present line, and an
\* identifier restores its own checkpoint.
THEOREM CheckpointsAreSound == CheckpointSpec => []CheckpointsSound
<1>1. StoredIdsDistinct /\ OneTimeline /\ RestoredIsOwn => CheckpointsSound
  BY DEF CheckpointsSound
<1>2. QED
  BY <1>1, StoredIdsAreDistinct, RevertGoesBack, LateIdsRestoreTheirOwn, PTL

-----------------------------------------------------------------------------
(***************************************************************************)
(* The approval runtime, for any sessions, tools, requests and clock.      *)
(***************************************************************************)
\* The table leads to requests that were made in the microsecond under which they
\* are kept, and to none of a session that was cleared since.
TableOK ==
  \A t \in Microseconds : table[t] # 0 => asked[table[t]].id = t /\ table[t] \notin cleared

RuntimeInv == RuntimeTypeOK /\ TableOK /\ GrantsHold /\ PendingCanBeAnswered

LEMMA RuntimeInitially == RuntimeInit => RuntimeInv
<1> SUFFICES ASSUME RuntimeInit PROVE RuntimeInv
  OBVIOUS
<1> USE RuntimeAssumption DEF RuntimeInit, Microseconds
<1>1. RuntimeTypeOK
  BY DEF RuntimeTypeOK
<1>2. TableOK
  BY DEF TableOK
<1>3. GrantsHold
  BY DEF GrantsHold
<1>4. PendingCanBeAnswered
  BY DEF PendingCanBeAnswered
<1> QED
  BY <1>1, <1>2, <1>3, <1>4 DEF RuntimeInv

\* What is known of each request.
LEMMA EachRequest ==
  ASSUME RuntimeInv
  PROVE  \A i \in DOMAIN asked :
           /\ asked[i].id \in Microseconds /\ asked[i].session \in AskingSessions
           /\ asked[i].tool \in AskedTools /\ asked[i].status \in Verdict \cup {"pending"}
           /\ asked[i] = [id |-> asked[i].id, session |-> asked[i].session,
                          tool |-> asked[i].tool, status |-> asked[i].status]
<1>1. \A i \in DOMAIN asked : asked[i] \in ApprovalRequests
  BY DEF RuntimeInv, RuntimeTypeOK
<1> QED
  BY <1>1 DEF ApprovalRequests

\* A new request is the last object, and takes the place of one of its instant.
LEMMA RequestKeeps ==
  ASSUME RuntimeInv, NEW asker \in AskingSessions, NEW tool \in AskedTools,
         RequestApproval(asker, tool)
  PROVE  RuntimeInv'
<1> DEFINE n == Len(asked) + 1
<1>1. /\ asked \in Seq(ApprovalRequests) /\ microsecond \in Microseconds
      /\ table \in [Microseconds -> 0 .. Len(asked)] /\ cleared \subseteq DOMAIN asked
      /\ granted \subseteq AskingSessions \X AskedTools
  BY DEF RuntimeInv, RuntimeTypeOK
<1>2. /\ asked' \in Seq(ApprovalRequests) /\ Len(asked') = n
      /\ \A i \in DOMAIN asked : asked'[i] = asked[i]
      /\ asked'[n].id = microsecond /\ asked'[n].status = "pending"
  BY <1>1 DEF RequestApproval, ApprovalRequests
<1>3. /\ table' = [table EXCEPT ![microsecond] = n]
      /\ UNCHANGED <<microsecond, granted, cleared>>
  BY DEF RequestApproval
<1>4. DOMAIN asked = 1 .. Len(asked) /\ DOMAIN asked' = 1 .. n
  BY <1>1, <1>2
<1>5. RuntimeTypeOK'
  BY <1>1, <1>2, <1>3, <1>4 DEF RuntimeTypeOK
<1>6. TableOK'
  BY <1>1, <1>2, <1>3, <1>4 DEF RuntimeInv, TableOK, Microseconds
<1>7. GrantsHold'
  <2>1. \A i \in DOMAIN asked' \ cleared' : asked'[i].status = "approved_for_session" =>
          i \in DOMAIN asked \ cleared /\ asked'[i] = asked[i]
    BY <1>2, <1>3, <1>4
  <2>2. \A i \in DOMAIN asked \ cleared :
          i \in DOMAIN asked' \ cleared' /\ asked'[i] = asked[i]
    BY <1>2, <1>3, <1>4
  <2> QED
    BY <2>1, <2>2, <1>3 DEF RuntimeInv, GrantsHold
<1>8. PendingCanBeAnswered'
  <2> SUFFICES ASSUME NEW i \in DOMAIN asked' \ cleared', asked'[i].status = "pending",
                      table'[asked'[i].id] # i
               PROVE  \E j \in i + 1 .. Len(asked') : asked'[j].id = asked'[i].id
    BY DEF PendingCanBeAnswered
  <2>1. i # n
    BY <1>1, <1>2, <1>3
  <2>2. i \in DOMAIN asked \ cleared /\ asked'[i] = asked[i] /\ asked[i].id \in Microseconds
    BY <2>1, <1>2, <1>3, <1>4, EachRequest
  <2>3. CASE asked[i].id = microsecond
    BY <2>2, <2>3, <1>1, <1>2, <1>4
  <2>4. CASE asked[i].id # microsecond
    <3>1. table[asked[i].id] # i
      BY <2>2, <2>4, <1>1, <1>3
    <3>2. PICK j \in i + 1 .. Len(asked) : asked[j].id = asked[i].id
      BY <3>1, <2>2 DEF RuntimeInv, PendingCanBeAnswered
    <3> QED
      BY <3>2, <2>2, <1>1, <1>2, <1>4
  <2> QED
    BY <2>3, <2>4
<1> QED
  BY <1>5, <1>6, <1>7, <1>8 DEF RuntimeInv

\* A decision changes the status of one request, which was pending and is in the
\* table, and so of a session that was not cleared since.
LEMMA ResolveKeeps ==
  ASSUME RuntimeInv, NEW id \in Microseconds, NEW status \in Verdict, Resolve(id, status)
  PROVE  RuntimeInv'
<1> DEFINE k == table[id]
<1>1. /\ asked \in Seq(ApprovalRequests) /\ microsecond \in Microseconds
      /\ table \in [Microseconds -> 0 .. Len(asked)] /\ cleared \subseteq DOMAIN asked
      /\ granted \subseteq AskingSessions \X AskedTools
  BY DEF RuntimeInv, RuntimeTypeOK
<1>2. k \in DOMAIN asked \ cleared /\ asked[k].status = "pending"
  BY <1>1 DEF Resolve, RuntimeInv, TableOK
<1>3. /\ asked' = [asked EXCEPT ![k].status = status]
      /\ UNCHANGED <<microsecond, table, cleared>>
  BY DEF Resolve
<1>4. /\ Len(asked') = Len(asked)
      /\ DOMAIN asked' = DOMAIN asked /\ asked'[k].status = status
      /\ \A i \in DOMAIN asked : i # k => asked'[i] = asked[i]
      /\ \A i \in DOMAIN asked :
           /\ asked'[i].id = asked[i].id /\ asked'[i].session = asked[i].session
           /\ asked'[i].tool = asked[i].tool
  BY <1>1, <1>2, <1>3, EachRequest
<1>5. <<asked[k].session, asked[k].tool>> \in AskingSessions \X AskedTools
  BY <1>2, EachRequest
<1>6. RuntimeTypeOK'
  <2>1. [asked[k] EXCEPT !.status = status] \in ApprovalRequests
    BY <1>2, EachRequest DEF ApprovalRequests
  <2>2. asked' \in Seq(ApprovalRequests)
    BY <2>1, <1>1, <1>2, <1>3
  <2> QED
    BY <2>2, <1>1, <1>3, <1>4, <1>5 DEF RuntimeTypeOK, Resolve
<1>7. TableOK'
  BY <1>1, <1>3, <1>4 DEF RuntimeInv, TableOK
<1>8. GrantsHold'
  <2> DEFINE Given(i) == asked[i].status = "approved_for_session"
             GivenNow(i) == asked'[i].status = "approved_for_session"
  <2>1. granted = {<<asked[i].session, asked[i].tool>> : i \in {j \in DOMAIN asked \ cleared : Given(j)}}
    BY DEF RuntimeInv, GrantsHold
  <2>2. CASE status = "approved_for_session"
    <3>1. {j \in DOMAIN asked' \ cleared' : GivenNow(j)} =
             {j \in DOMAIN asked \ cleared : Given(j)} \cup {k}
      BY <2>2, <1>2, <1>3, <1>4
    <3>2. granted' = granted \cup {<<asked[k].session, asked[k].tool>>}
      BY <2>2 DEF Resolve
    <3>3. granted' = {<<asked'[i].session, asked'[i].tool>> :
                        i \in {j \in DOMAIN asked' \ cleared' : GivenNow(j)}}
      BY <3>1, <3>2, <2>1, <1>2, <1>4
    <3> QED
      BY <3>3 DEF GrantsHold
  <2>3. CASE status # "approved_for_session"
    <3>1. {j \in DOMAIN asked' \ cleared' : GivenNow(j)} = {j \in DOMAIN asked \ cleared : Given(j)}
      BY <2>3, <1>2, <1>3, <1>4
    <3>2. granted' = granted
      BY <2>3 DEF Resolve
    <3>3. granted' = {<<asked'[i].session, asked'[i].tool>> :
                        i \in {j \in DOMAIN asked' \ cleared' : GivenNow(j)}}
      BY <3>1, <3>2, <2>1, <1>4
    <3> QED
      BY <3>3 DEF GrantsHold
  <2> QED
    BY <2>2, <2>3
<1>9. PendingCanBeAnswered'
  <2> SUFFICES ASSUME NEW i \in DOMAIN asked' \ cleared', asked'[i].status = "pending",
                      table'[asked'[i].id] # i
               PROVE  \E j \in i + 1 .. Len(asked') : asked'[j].id = asked'[i].id
    BY DEF PendingCanBeAnswered
  <2>1. i \in DOMAIN asked \ cleared /\ asked[i].status = "pending" /\ table[asked[i].id] # i
    BY <1>2, <1>3, <1>4 DEF Verdict
  <2>2. PICK j \in i + 1 .. Len(asked) : asked[j].id = asked[i].id
    BY <2>1 DEF RuntimeInv, PendingCanBeAnswered
  <2>3. j \in DOMAIN asked
    BY <2>1, <2>2, <1>1
  <2> QED
    BY <2>1, <2>2, <2>3, <1>4
<1> QED
  BY <1>6, <1>7, <1>8, <1>9 DEF RuntimeInv

\* Clearing a session takes its grants, its requests, and nothing of others.
LEMMA ClearKeeps ==
  ASSUME RuntimeInv, NEW asker \in AskingSessions, ClearAsked(asker)
  PROVE  RuntimeInv'
<1> DEFINE gone == {i \in Range(table) \ {0} : asked[i].session = asker}
<1>1. /\ asked \in Seq(ApprovalRequests) /\ microsecond \in Microseconds
      /\ table \in [Microseconds -> 0 .. Len(asked)] /\ cleared \subseteq DOMAIN asked
      /\ granted \subseteq AskingSessions \X AskedTools
  BY DEF RuntimeInv, RuntimeTypeOK
<1>2. /\ granted' = {g \in granted : g[1] # asker}
      /\ table' = [t \in Microseconds |-> IF table[t] \in gone THEN 0 ELSE table[t]]
      /\ cleared' = cleared \cup {i \in DOMAIN asked : asked[i].session = asker}
      /\ UNCHANGED <<microsecond, asked>>
  BY DEF ClearAsked
<1>3. \A t \in Microseconds : table[t] \in gone <=> (table[t] # 0 /\ asked[table[t]].session = asker)
  BY <1>1 DEF Range
<1>4. RuntimeTypeOK'
  BY <1>1, <1>2 DEF RuntimeTypeOK
<1>5. TableOK'
  BY <1>1, <1>2, <1>3 DEF RuntimeInv, TableOK
<1>6. GrantsHold'
  <2> DEFINE Pairs(S) == {<<asked[i].session, asked[i].tool>> : i \in S}
             Given(C) == {j \in DOMAIN asked \ C : asked[j].status = "approved_for_session"}
  <2>1. granted = Pairs(Given(cleared))
    BY DEF RuntimeInv, GrantsHold
  <2>2. {g \in Pairs(Given(cleared)) : g[1] # asker} = Pairs(Given(cleared'))
    BY <1>2
  <2>3. granted' = {<<asked'[i].session, asked'[i].tool>> :
                      i \in {j \in DOMAIN asked' \ cleared' : asked'[j].status = "approved_for_session"}}
    BY <2>1, <2>2, <1>2
  <2> QED
    BY <2>3 DEF GrantsHold
<1>7. PendingCanBeAnswered'
  <2> SUFFICES ASSUME NEW i \in DOMAIN asked \ cleared', asked[i].status = "pending",
                      table'[asked[i].id] # i
               PROVE  \E j \in i + 1 .. Len(asked) : asked[j].id = asked[i].id
    BY <1>2 DEF PendingCanBeAnswered
  <2>1. i \in DOMAIN asked \ cleared /\ asked[i].session # asker /\ asked[i].id \in Microseconds
    BY <1>2, EachRequest
  <2>2. table[asked[i].id] # i
    BY <2>1, <1>2, <1>3
  <2> QED
    BY <2>1, <2>2 DEF RuntimeInv, PendingCanBeAnswered
<1> QED
  BY <1>4, <1>5, <1>6, <1>7 DEF RuntimeInv

LEMMA RuntimeStep == RuntimeInv /\ [RuntimeNext]_runtimeVars => RuntimeInv'
<1> SUFFICES ASSUME RuntimeInv, [RuntimeNext]_runtimeVars PROVE RuntimeInv'
  OBVIOUS
<1>1. ASSUME Tick PROVE RuntimeInv'
  <2>1. microsecond' \in Microseconds /\ UNCHANGED <<asked, table, granted, cleared>>
    BY <1>1, RuntimeAssumption DEF Tick, RuntimeInv, RuntimeTypeOK, Microseconds
  <2>2. RuntimeTypeOK'
    BY <2>1 DEF RuntimeInv, RuntimeTypeOK
  <2>3. TableOK' /\ GrantsHold' /\ PendingCanBeAnswered'
    BY <2>1 DEF RuntimeInv, TableOK, GrantsHold, PendingCanBeAnswered
  <2> QED
    BY <2>2, <2>3 DEF RuntimeInv
<1>2. ASSUME UNCHANGED runtimeVars PROVE RuntimeInv'
  BY <1>2 DEF runtimeVars, RuntimeInv, RuntimeTypeOK, TableOK, GrantsHold, PendingCanBeAnswered
<1> QED
  BY <1>1, <1>2, RequestKeeps, ResolveKeeps, ClearKeeps DEF RuntimeNext

\* The type invariant of the approval runtime.
THEOREM RuntimeTypes == RuntimeSpec => []RuntimeTypeOK
<1>1. RuntimeInv => RuntimeTypeOK
  BY DEF RuntimeInv
<1> QED
  BY RuntimeInitially, RuntimeStep, <1>1, PTL DEF RuntimeSpec

\* What holds for a session is what was approved for it since it was cleared, and a
\* pending request can be answered unless it was replaced (approval_runtime).
THEOREM ApprovalsLast == RuntimeSpec => []RuntimeSound
<1>1. RuntimeInv => RuntimeSound
  BY DEF RuntimeInv, RuntimeSound
<1> QED
  BY RuntimeInitially, RuntimeStep, <1>1, PTL DEF RuntimeSpec

-----------------------------------------------------------------------------
(***************************************************************************)
(* Manual approval, for any requests, responses, calls and failures.  Of   *)
(* each call the invariant counts the times it ran and the requests that   *)
(* are about to run it: together once, and once more for each failure of   *)
(* the model and each overlap.  A pending call is one short of that while  *)
(* no request is under way.                                                *)
(***************************************************************************)
Listed(c, calls) == \E j \in DOMAIN calls : calls[j] = c
Holders(c) == {q \in Requests : Listed(c, request[q].todo)}
UnderWay == \E q \in Requests : Working(q)

\* A list of calls has no call twice and none of a response still to come.
WellListed(calls) ==
  /\ \A j, k \in DOMAIN calls : calls[j] = calls[k] => j = k
  /\ \A j \in DOMAIN calls : calls[j].turn <= turn

ListsOK ==
  /\ WellListed(pending)
  /\ \A j \in DOMAIN pending : pending[j] \in shown /\ pending[j].turn = view
  /\ \A q \in Requests :
       /\ WellListed(request[q].todo)
       /\ request[q].todo # <<>> => request[q].step = "execute"
       /\ \A j \in DOMAIN request[q].todo : request[q].todo[j] \in shown \/ approveAll

\* Of the responses still to come nothing is known.
NothingAhead == \A c \in Call : c.turn > turn => runs[c] = 0 /\ c \notin rejected

Counted ==
  /\ \A c \in Call : runs[c] + Cardinality(Holders(c)) <= 1 + failures + overlaps
  /\ ~ finished /\ ~ UnderWay
       => \A j \in DOMAIN pending : runs[pending[j]] <= failures + overlaps

\* With a client that waits there is one request, about the calls shown last,
\* and none of the rejected calls is, or will be, executed.
OneByOne ==
  waits =>
    /\ overlaps = 0 /\ ~ misdirected
    /\ \A p, q \in Requests : request[p].step # "idle" /\ request[q].step # "idle" => p = q
    /\ \A q \in Requests : request[q].step = "sent" => request[q].view = view
    /\ finished => ~ UnderWay
    /\ failures = 0 => \A c \in rejected :
         /\ runs[c] = 0 /\ Holders(c) = {}
         /\ finished \/ UnderWay \/ ~ Listed(c, pending)

ApprovalInv ==
  /\ ShownOrAllApproved /\ ListsOK /\ NothingAhead /\ Counted /\ OneByOne
  /\ session = "none" => ~ finished /\ \A q \in Requests : request[q].step = "idle"

Frames(n) == [step : {"idle", "sent", "execute", "generate"}, decision : Decisions,
              index : Indices, view : 0..n, todo : Seq(Call)]

LEMMA FramesHaveTypes ==
  ASSUME NEW n \in Nat
  PROVE  /\ \A step \in {"idle", "sent", "execute", "generate"} :
              At(step) \in Frames(n) /\ At(step).step = step /\ At(step).todo = <<>>
         /\ \A todo \in Seq(Call) :
              /\ Executing(todo) \in Frames(n) /\ Executing(todo).todo = todo
              /\ Executing(todo).step = "execute"
<1>1. 0 \in Indices /\ "approve_all" \in Decisions /\ 0 \in 0..n /\ <<>> \in Seq(Call)
  BY ApprovalAssumption DEF Indices, Decisions
<1> QED
  BY <1>1 DEF At, Executing, Frames

LEMMA FramesWiden ==
  ASSUME NEW n \in Nat, NEW r \in Frames(n)
  PROVE  r \in Frames(n + 1)
<1>1. 0..n \subseteq 0..(n + 1)
  OBVIOUS
<1> QED
  BY <1>1 DEF Frames

\* The calls of a response.
LEMMA CallsOfResponse ==
  ASSUME turn \in Nat, turn < MaxTurns, NEW k \in 1..MaxCalls
  PROVE  /\ CallsOf(turn + 1, k) \in Seq(Call)
         /\ \A i \in DOMAIN CallsOf(turn + 1, k) :
              /\ CallsOf(turn + 1, k)[i] \in Call
              /\ CallsOf(turn + 1, k)[i].turn = turn + 1
              /\ CallsOf(turn + 1, k)[i].index < k
         /\ \A i, j \in DOMAIN CallsOf(turn + 1, k) :
              CallsOf(turn + 1, k)[i] = CallsOf(turn + 1, k)[j] => i = j
<1>1. k \in Nat /\ turn + 1 \in 1..MaxTurns
  BY ApprovalAssumption
<1>2. \A i \in 1..k : i - 1 \in Indices /\ i - 1 < k
  BY <1>1, ApprovalAssumption DEF Indices
<1>3. \A i \in 1..k : [turn |-> turn + 1, index |-> i - 1] \in Call
  BY <1>1, <1>2 DEF Call
<1>4. CallsOf(turn + 1, k) \in [1..k -> Call]
  BY <1>3 DEF CallsOf
<1>5. CallsOf(turn + 1, k) \in Seq(Call) /\ DOMAIN CallsOf(turn + 1, k) = 1..k
  BY <1>1, <1>4
<1>6. \A i, j \in 1..k : i - 1 = j - 1 => i = j
  OBVIOUS
<1>7. \A i \in 1..k : /\ CallsOf(turn + 1, k)[i] = [turn |-> turn + 1, index |-> i - 1]
                      /\ CallsOf(turn + 1, k)[i].index = i - 1
                      /\ CallsOf(turn + 1, k)[i].turn = turn + 1
  BY DEF CallsOf
<1> HIDE DEF CallsOf
<1>8. ASSUME NEW i \in 1..k, NEW j \in 1..k, CallsOf(turn + 1, k)[i] = CallsOf(turn + 1, k)[j]
      PROVE  i = j
  <2>1. i - 1 = j - 1
    BY <1>7, <1>8
  <2> QED
    BY <1>6, <2>1
<1>9. \A i \in 1..k : CallsOf(turn + 1, k)[i] \in Call /\ CallsOf(turn + 1, k)[i].index < k
  BY <1>2, <1>3, <1>7
<1> QED
  BY <1>5, <1>7, <1>8, <1>9

\* The pending calls without one of them.
LEMMA AllButOne ==
  ASSUME pending \in Seq(Call), NEW k \in DOMAIN pending
  PROVE  /\ AllBut(k) \in Seq(Call)
         /\ \A j \in DOMAIN AllBut(k) : \E m \in DOMAIN pending : m # k /\ AllBut(k)[j] = pending[m]
         /\ \A i, j \in DOMAIN AllBut(k) : i # j =>
              \E m, n \in DOMAIN pending :
                m # n /\ AllBut(k)[i] = pending[m] /\ AllBut(k)[j] = pending[n]
<1> DEFINE n == Len(pending)
           from(j) == IF j < k THEN j ELSE j + 1
<1>1. n \in Nat /\ n - 1 \in Nat /\ DOMAIN pending = 1..n /\ k \in 1..n
  OBVIOUS
<1>2. \A j \in 1..(n - 1) : from(j) \in 1..n /\ from(j) # k
  BY <1>1
<1>3. \A i, j \in 1..(n - 1) : i # j => from(i) # from(j)
  BY <1>1
<1>4. AllBut(k) = [j \in 1..(n - 1) |-> pending[from(j)]]
  BY DEF AllBut
<1>5. \A m \in 1..n : pending[m] \in Call
  BY <1>1
<1> HIDE DEF from, n
<1>6. AllBut(k) \in [1..(n - 1) -> Call] /\ DOMAIN AllBut(k) = 1..(n - 1)
  BY <1>2, <1>4, <1>5
<1>7. AllBut(k) \in Seq(Call)
  BY <1>1, <1>6
<1>8. \A j \in 1..(n - 1) : AllBut(k)[j] = pending[from(j)]
  BY <1>4
<1> QED
  BY <1>1, <1>2, <1>3, <1>6, <1>7, <1>8

LEMMA ApprovalTypesInitially == Init => TypeOK
<1> SUFFICES ASSUME Init PROVE TypeOK
  OBVIOUS
<1>1. turn = 0 /\ At("idle") \in Frames(0)
  BY FramesHaveTypes DEF Init
<1>2. request \in [Requests -> Frames(turn)] /\ view \in 0..turn /\ turn \in 0..MaxTurns
  BY <1>1, ApprovalAssumption DEF Init
<1>3. pending \in Seq(Call) /\ runs \in [Call -> Nat] /\ failures \in 0..MaxFailures
  BY ApprovalAssumption DEF Init
<1> QED
  BY <1>2, <1>3 DEF Init, TypeOK, Frames

LEMMA ApprovalTypesStep == TypeOK /\ [Next]_vars => TypeOK'
<1> SUFFICES ASSUME TypeOK, [Next]_vars PROVE TypeOK'
  OBVIOUS
<1> USE ApprovalAssumption
<1>1. /\ turn \in Nat /\ request \in [Requests -> Frames(turn)]
      /\ view \in 0..turn /\ view \in 0..(turn + 1)
      /\ \A r \in Frames(turn) : r \in Frames(turn + 1)
  BY FramesWiden DEF TypeOK, Frames
<1>2. request \in [Requests -> Frames(turn + 1)]
  BY <1>1
<1>3. /\ \A step \in {"idle", "sent", "execute", "generate"} :
           At(step) \in Frames(turn) /\ At(step) \in Frames(turn + 1)
      /\ \A todo \in Seq(Call) : Executing(todo) \in Frames(turn) /\ Executing(todo) \in Frames(turn + 1)
  BY <1>1, FramesHaveTypes
<1> USE DEF state, history
<1>5. ASSUME NEW q \in Requests,
             Start(q) \/ DecideFinished(q) \/ DecideNoSuchCall(q) \/ Prompt(q)
      PROVE  TypeOK'
  <2>1. request' \in [Requests -> Frames(turn)] /\ turn' = turn
    BY <1>1, <1>3, <1>5 DEF Start, DecideFinished, DecideNoSuchCall, Prompt
  <2> QED
    BY <1>5, <2>1 DEF Start, DecideFinished, DecideNoSuchCall, Prompt, TypeOK, Frames
<1>6. ASSUME NEW q \in Requests, NEW d \in Decisions, NEW i \in Indices, Send(q, d, i) PROVE TypeOK'
  <2>1. [At("sent") EXCEPT !.decision = d, !.index = i, !.view = view] \in Frames(turn)
    BY <1>1, <1>3 DEF Frames
  <2>2. request' \in [Requests -> Frames(turn)] /\ turn' = turn
    BY <1>1, <1>6, <2>1 DEF Send
  <2> QED
    BY <1>6, <2>2 DEF Send, TypeOK, Frames
<1>7. ASSUME NEW q \in Requests, NEW taken \in Seq(Call), NEW refused, TakeUp(q, taken, refused),
             approveAll' \in BOOLEAN
      PROVE  TypeOK'
  <2>1. request' \in [Requests -> Frames(turn)] /\ turn' = turn
    BY <1>1, <1>3, <1>7 DEF TakeUp
  <2>2. overlaps' \in Nat /\ rejected' \subseteq Call /\ misdirected' \in BOOLEAN
    BY <1>7 DEF TakeUp, TypeOK
  <2> QED
    BY <1>7, <2>1, <2>2 DEF TakeUp, TypeOK, Frames
<1>8. ASSUME NEW q \in Requests, DecideAll(q) \/ DecideOne(q) PROVE TypeOK'
  <2>1. CASE DecideAll(q)
    BY <1>7, <2>1 DEF DecideAll, TypeOK
  <2>2. CASE DecideOne(q)
    <3>1. PICK k \in DOMAIN pending :
            TakeUp(q, <<pending[k]>>, AllBut(k)) \/ TakeUp(q, AllBut(k), <<pending[k]>>)
      BY <2>2 DEF DecideOne
    <3>2. <<pending[k]>> \in Seq(Call) /\ AllBut(k) \in Seq(Call) /\ approveAll' \in BOOLEAN
      BY <2>2, AllButOne DEF DecideOne, TypeOK
    <3> QED
      BY <1>7, <3>1, <3>2
  <2> QED
    BY <1>8, <2>1, <2>2
<1>9. ASSUME NEW q \in Requests, Execute(q) PROVE TypeOK'
  <2>1. request[q] \in Frames(turn) /\ request[q].todo \in Seq(Call) /\ request[q].todo # <<>>
    BY <1>1, <1>9 DEF Execute, Frames
  <2>2. Head(request[q].todo) \in Call /\ Tail(request[q].todo) \in Seq(Call)
    BY <2>1
  <2>3. request' = [request EXCEPT ![q] = [request[q] EXCEPT !.todo = Tail(request[q].todo)]]
    BY <1>1, <1>9 DEF Execute
  <2>4. [request[q] EXCEPT !.todo = Tail(request[q].todo)] \in Frames(turn)
    BY <2>1, <2>2 DEF Frames
  <2>5. runs' \in [Call -> Nat]
    <3> DEFINE h == Head(request[q].todo)
    <3>1. h \in Call /\ runs' = [runs EXCEPT ![h] = runs[h] + 1] /\ runs \in [Call -> Nat]
      BY <1>9, <2>2 DEF Execute, TypeOK
    <3> HIDE DEF h
    <3> QED
      BY <3>1
  <2>6. request' \in [Requests -> Frames(turn)] /\ turn' = turn
    BY <1>1, <1>9, <2>3, <2>4 DEF Execute
  <2> QED
    BY <1>9, <2>5, <2>6 DEF Execute, TypeOK, Frames
<1>10. ASSUME NEW q \in Requests, Answer(q) PROVE TypeOK'
  <2>1. request' \in [Requests -> Frames(turn')] /\ turn' = turn + 1 /\ turn' \in 0..MaxTurns
    BY <1>1, <1>2, <1>3, <1>10 DEF Answer
  <2> QED
    BY <1>1, <1>10, <2>1 DEF Answer, TypeOK, Frames
<1>11. ASSUME NEW q \in Requests, NEW k \in 1..MaxCalls, AskApproval(q, k) \/ RunUnasked(q, k)
       PROVE  TypeOK'
  <2>1. turn' = turn + 1 /\ turn' \in 0..MaxTurns /\ CallsOf(turn + 1, k) \in Seq(Call)
    BY <1>1, <1>11, CallsOfResponse DEF AskApproval, RunUnasked
  <2>2. request' \in [Requests -> Frames(turn')]
    BY <1>2, <1>3, <1>11, <2>1 DEF AskApproval, RunUnasked
  <2>3. view' \in 0..turn' /\ shown' \subseteq Call /\ pending' \in Seq(Call)
    BY <1>1, <1>11, <2>1 DEF AskApproval, RunUnasked, TypeOK
  <2> QED
    BY <1>11, <2>1, <2>2, <2>3 DEF AskApproval, RunUnasked, TypeOK, Frames
<1>12. ASSUME NEW q \in Requests, GenerateFails(q) PROVE TypeOK'
  <2>1. request' \in [Requests -> Frames(turn)] /\ turn' = turn
    BY <1>1, <1>3, <1>12 DEF GenerateFails
  <2> QED
    BY <1>12, <2>1 DEF GenerateFails, TypeOK, Frames
<1>13. CASE UNCHANGED vars
  BY <1>13 DEF vars, TypeOK
<1> QED
  BY <1>5, <1>6, <1>8, <1>9, <1>10, <1>11, <1>12, <1>13 DEF Next

\* Who holds a call, when one request has moved on.
LEMMA HoldersMove ==
  ASSUME TypeOK, NEW q \in Requests, NEW r, request' = [request EXCEPT ![q] = r], NEW c
  PROVE  /\ Cardinality(Holders(c)) \in Nat /\ Cardinality(Holders(c)') \in Nat
         /\ Holders(c)' = IF Listed(c, r.todo) THEN Holders(c) \cup {q} ELSE Holders(c) \ {q}
         /\ Cardinality(Holders(c)') <= Cardinality(Holders(c)) + 1
         /\ (Listed(c, r.todo) => q \in Holders(c))
              => Cardinality(Holders(c)') <= Cardinality(Holders(c))
         /\ q \in Holders(c) /\ ~ Listed(c, r.todo)
              => Cardinality(Holders(c)') = Cardinality(Holders(c)) - 1
<1> DEFINE H == Holders(c)
<1>1. IsFiniteSet(H) /\ Cardinality(H) \in Nat
  <2>1. H \subseteq Requests
    BY DEF Holders
  <2> QED
    BY <2>1, ApprovalAssumption, FS_Subset, FS_CardinalityType
<1>2. /\ IsFiniteSet(H \cup {q})
      /\ Cardinality(H \cup {q}) = IF q \in H THEN Cardinality(H) ELSE Cardinality(H) + 1
  BY <1>1, FS_AddElement
<1>3. /\ IsFiniteSet(H \ {q})
      /\ Cardinality(H \ {q}) = IF q \in H THEN Cardinality(H) - 1 ELSE Cardinality(H)
  BY <1>1, FS_RemoveElement
<1>4. \A p \in Requests : request'[p] = IF p = q THEN r ELSE request[p]
  BY DEF TypeOK
<1>5. H' = {p \in Requests : Listed(c, request'[p].todo)}
  BY DEF Holders, Listed
<1>6. H' = IF Listed(c, r.todo) THEN H \cup {q} ELSE H \ {q}
  BY <1>4, <1>5 DEF Holders
<1>7. Cardinality(H \cup {q}) \in Nat /\ Cardinality(H \ {q}) \in Nat
  BY <1>2, <1>3, FS_CardinalityType
<1> DEFINE m == Cardinality(H)
           a == Cardinality(H \cup {q})
           b == Cardinality(H \ {q})
<1>8. /\ m \in Nat /\ a \in Nat /\ b \in Nat
      /\ a = IF q \in H THEN m ELSE m + 1
      /\ b = IF q \in H THEN m - 1 ELSE m
  BY <1>1, <1>2, <1>3, <1>7
<1>9. Cardinality(H') = IF Listed(c, r.todo) THEN a ELSE b
  BY <1>6
<1> HIDE DEF m, a, b
<1>10. /\ Cardinality(H') \in Nat /\ Cardinality(H') <= m + 1
       /\ (Listed(c, r.todo) => q \in H) => Cardinality(H') <= m
       /\ q \in H /\ ~ Listed(c, r.todo) => Cardinality(H') = m - 1
  BY <1>8, <1>9
<1> QED
  BY <1>6, <1>8, <1>10 DEF m

\* What is known of the numbers and of the request of a step.
LEMMA ApprovalNumbers ==
  ASSUME TypeOK
  PROVE  /\ turn \in Nat /\ failures \in Nat /\ overlaps \in Nat
         /\ \A c \in Call : runs[c] \in Nat /\ c.turn \in Nat
         /\ pending \in Seq(Call) /\ \A j \in DOMAIN pending : pending[j] \in Call
         /\ \A q \in Requests :
              request[q].todo \in Seq(Call) /\ \A j \in DOMAIN request[q].todo : request[q].todo[j] \in Call
         /\ DOMAIN request = Requests
<1>1. turn \in Nat /\ failures \in Nat /\ overlaps \in Nat
  BY ApprovalAssumption DEF TypeOK
<1>2. \A c \in Call : runs[c] \in Nat /\ c.turn \in Nat
  <2>1. \A c \in Call : runs[c] \in Nat
    BY DEF TypeOK
  <2>2. \A c \in Call : c.turn \in Nat
    BY ApprovalAssumption DEF Call
  <2> QED
    BY <2>1, <2>2
<1>3. pending \in Seq(Call)
  BY DEF TypeOK
<1>4. \A q \in Requests : request[q].todo \in Seq(Call)
  BY DEF TypeOK
<1>5. \A s \in Seq(Call) : \A j \in DOMAIN s : s[j] \in Call
  OBVIOUS
<1>6. DOMAIN request = Requests
  BY DEF TypeOK
<1> QED
  BY <1>1, <1>2, <1>3, <1>4, <1>5, <1>6

LEMMA ApprovalInitially == Init => ApprovalInv
<1> SUFFICES ASSUME Init PROVE ApprovalInv
  OBVIOUS
<1>1. \A q \in Requests : request[q].step = "idle" /\ request[q].todo = <<>>
  BY DEF Init, At
<1>2. ListsOK
  BY <1>1 DEF Init, ListsOK, WellListed
<1>3. Counted
  <2>1. \A c : Holders(c) = {}
    BY <1>1 DEF Holders, Listed
  <2>2. \A c \in Call : runs[c] = 0 /\ Cardinality(Holders(c)) = 0
    BY <2>1, FS_EmptySet DEF Init
  <2>3. failures = 0 /\ overlaps = 0 /\ DOMAIN pending = {}
    BY DEF Init
  <2> QED
    BY <2>2, <2>3 DEF Counted
<1>4. OneByOne
  BY <1>1 DEF Init, OneByOne, UnderWay, Working
<1> QED
  BY <1>1, <1>2, <1>3, <1>4 DEF Init, ApprovalInv, ShownOrAllApproved, NothingAhead

\* A request moves on, and holds nothing afterwards.
LEMMA QuietKeeps ==
  ASSUME TypeOK, ApprovalInv, NEW q \in Requests, NEW r,
         request' = [request EXCEPT ![q] = r], r.todo = <<>>,
         UNCHANGED <<turn, pending, approveAll, finished, view, history>>,
         Working(q) => r.step \in {"execute", "generate"},
         r.step \in {"execute", "generate"} /\ ~ Working(q) => ~ finished,
         r.step # "idle" /\ request[q].step = "idle" /\ waits
           => \A p \in Requests : request[p].step = "idle",
         r.step = "sent" => r.view = view,
         session' # "none"
  PROVE  ApprovalInv'
<1> USE DEF history
<1>1. \A p \in Requests : request'[p] = IF p = q THEN r ELSE request[p]
  BY ApprovalNumbers
<1>2. \A c : ~ Listed(c, r.todo)
  BY DEF Listed
<1>3. \A c : /\ Holders(c)' \subseteq Holders(c)
             /\ Cardinality(Holders(c)') <= Cardinality(Holders(c))
             /\ Cardinality(Holders(c)') \in Nat /\ Cardinality(Holders(c)) \in Nat
  <2> SUFFICES ASSUME NEW c
               PROVE  /\ Holders(c)' \subseteq Holders(c)
                      /\ Cardinality(Holders(c)') <= Cardinality(Holders(c))
                      /\ Cardinality(Holders(c)') \in Nat /\ Cardinality(Holders(c)) \in Nat
    OBVIOUS
  <2> QED
    BY <1>2, HoldersMove
<1>4. UnderWay => UnderWay'
  BY <1>1 DEF UnderWay, Working
<1>5. UnderWay' => UnderWay \/ ~ finished
  BY <1>1 DEF UnderWay, Working
<1>6. ListsOK'
  BY <1>1 DEF ApprovalInv, ListsOK, WellListed
<1>7. Counted'
  <2>1. \A c \in Call : runs'[c] + Cardinality(Holders(c)') <= 1 + failures' + overlaps'
    BY <1>3, ApprovalNumbers DEF ApprovalInv, Counted
  <2> QED
    BY <1>4, <2>1 DEF ApprovalInv, Counted
<1>8. OneByOne'
  <2> SUFFICES ASSUME waits PROVE OneByOne'
    BY DEF OneByOne
  <2>1. \A p, s \in Requests : request'[p].step # "idle" /\ request'[s].step # "idle" => p = s
    BY <1>1 DEF ApprovalInv, OneByOne
  <2>2. \A p \in Requests : request'[p].step = "sent" => request'[p].view = view'
    BY <1>1 DEF ApprovalInv, OneByOne
  <2>3. failures' = 0 => \A c \in rejected' :
          /\ runs'[c] = 0 /\ Holders(c)' = {}
          /\ finished' \/ UnderWay' \/ ~ Listed(c, pending')
    BY <1>3, <1>4 DEF ApprovalInv, OneByOne
  <2>4. overlaps' = 0 /\ ~ misdirected' /\ (finished' => ~ UnderWay')
    BY <1>5 DEF ApprovalInv, OneByOne
  <2> QED
    BY <2>1, <2>2, <2>3, <2>4 DEF OneByOne, Listed
<1> QED
  BY <1>6, <1>7, <1>8 DEF ApprovalInv, ShownOrAllApproved, NothingAhead

\* What taking up a decision makes of the pending calls.
LEMMA DecisionSplits ==
  ASSUME TypeOK, ApprovalInv, NEW q \in Requests, DecideAll(q) \/ DecideOne(q)
  PROVE  \E taken, refused :
           /\ taken \in Seq(Call) /\ WellListed(taken)
           /\ \A c : Listed(c, taken) => Listed(c, pending) /\ ~ Listed(c, refused)
           /\ \A c : Listed(c, refused) => Listed(c, pending)
           /\ TakeUp(q, taken, refused)
           /\ approveAll => approveAll'
           /\ request[q].step = "sent" /\ ~ finished
<1>1. pending \in Seq(Call) /\ WellListed(pending) /\ turn \in Nat
  BY ApprovalNumbers DEF ApprovalInv, ListsOK
<1>2. CASE DecideAll(q)
  <2>1. \A c : ~ Listed(c, <<>>)
    BY DEF Listed
  <2> QED
    BY <1>1, <1>2, <2>1 DEF DecideAll
<1>3. CASE DecideOne(q)
  <2>1. PICK k \in DOMAIN pending :
          TakeUp(q, <<pending[k]>>, AllBut(k)) \/ TakeUp(q, AllBut(k), <<pending[k]>>)
    BY <1>3 DEF DecideOne
  <2> DEFINE one == <<pending[k]>>
             rest == AllBut(k)
  <2>2. rest \in Seq(Call) /\ \A c : Listed(c, rest) => \E m \in DOMAIN pending : m # k /\ c = pending[m]
    BY <1>1, AllButOne DEF Listed
  <2>3. WellListed(rest)
    <3>1. ASSUME NEW i \in DOMAIN rest, NEW j \in DOMAIN rest, rest[i] = rest[j] PROVE i = j
      <4> SUFFICES ASSUME i # j PROVE FALSE
        OBVIOUS
      <4>1. PICK m \in DOMAIN pending, n \in DOMAIN pending :
              m # n /\ rest[i] = pending[m] /\ rest[j] = pending[n]
        BY <1>1, AllButOne
      <4> QED
        BY <1>1, <3>1, <4>1 DEF WellListed
    <3>2. \A j \in DOMAIN rest : rest[j].turn <= turn
      BY <1>1, <2>2 DEF WellListed, Listed
    <3> HIDE DEF rest
    <3> QED
      BY <3>1, <3>2 DEF WellListed
  <2>4. /\ one \in Seq(Call) /\ \A c : Listed(c, one) <=> c = pending[k]
        /\ WellListed(one)
    <3>1. pending[k] \in Call /\ pending[k].turn <= turn
      BY <1>1 DEF WellListed
    <3>2. DOMAIN one = {1} /\ one[1] = pending[k]
      OBVIOUS
    <3>3. one \in Seq(Call)
      BY <3>1
    <3> HIDE DEF one
    <3> QED
      BY <3>1, <3>2, <3>3 DEF WellListed, Listed
  <2> HIDE DEF one, rest
  <2>5. \A c : /\ Listed(c, one) => Listed(c, pending) /\ ~ Listed(c, rest)
               /\ Listed(c, rest) => Listed(c, pending) /\ ~ Listed(c, one)
    <3>1. \A m \in DOMAIN pending : pending[m] = pending[k] => m = k
      BY <1>1 DEF WellListed
    <3> QED
      BY <2>2, <2>4, <3>1 DEF Listed
  <2>6. TakeUp(q, one, rest) \/ TakeUp(q, rest, one)
    BY <2>1 DEF one, rest
  <2> QED
    BY <1>3, <2>2, <2>3, <2>4, <2>5, <2>6 DEF DecideOne
<1> QED
  BY <1>2, <1>3

LEMMA TakeUpKeeps ==
  ASSUME TypeOK, ApprovalInv, NEW q \in Requests, DecideAll(q) \/ DecideOne(q)
  PROVE  ApprovalInv'
<1>1. PICK taken, refused :
        /\ taken \in Seq(Call) /\ WellListed(taken)
        /\ \A c : Listed(c, taken) => Listed(c, pending) /\ ~ Listed(c, refused)
        /\ \A c : Listed(c, refused) => Listed(c, pending)
        /\ TakeUp(q, taken, refused)
        /\ approveAll => approveAll'
        /\ request[q].step = "sent" /\ ~ finished
  BY DecisionSplits
<1> DEFINE r == Executing(taken)
<1>2. /\ request' = [request EXCEPT ![q] = r] /\ r.todo = taken /\ r.step = "execute"
      /\ \A p \in Requests : request'[p] = IF p = q THEN r ELSE request[p]
      /\ UNCHANGED <<session, turn, pending, finished, view, waits, runs, shown, failures>>
  <2>1. request' = [request EXCEPT ![q] = r] /\ r.todo = taken /\ r.step = "execute"
    BY <1>1, ApprovalNumbers, FramesHaveTypes DEF TakeUp
  <2> HIDE DEF r
  <2>2. \A p \in Requests : request'[p] = IF p = q THEN r ELSE request[p]
    BY <2>1, ApprovalNumbers
  <2> QED
    BY <1>1, <2>1, <2>2 DEF TakeUp
<1> HIDE DEF r
<1>3. \A c : Listed(c, taken) => c \in Call /\ Listed(c, pending) /\ c \in shown /\ c.turn <= turn
  <2>1. \A c : Listed(c, pending) => c \in Call /\ c \in shown /\ c.turn <= turn
    BY ApprovalNumbers DEF Listed, ApprovalInv, ListsOK, WellListed
  <2> QED
    BY <1>1, <2>1
<1>4. UnderWay'
  BY <1>2 DEF UnderWay, Working
<1>5. /\ overlaps' = IF UnderWay THEN overlaps + 1 ELSE overlaps
      /\ rejected' = rejected \cup {c \in Call : Listed(c, refused)}
      /\ misdirected' = (misdirected \/ (pending # <<>> /\ pending[1].turn # request[q].view))
  BY <1>1 DEF TakeUp, UnderWay, Listed
<1>6. \A c : ~ UnderWay => Holders(c) = {}
  BY DEF ApprovalInv, ListsOK, Holders, Listed, UnderWay, Working
<1>7. request[q].todo = <<>>
  BY <1>1 DEF ApprovalInv, ListsOK
<1>8. ListsOK'
  <2>1. \A p \in Requests : request'[p].todo = IF p = q THEN taken ELSE request[p].todo
    BY <1>2
  <2>2. \A p \in Requests : request'[p].todo # <<>> => request'[p].step = "execute"
    BY <1>2 DEF ApprovalInv, ListsOK
  <2>3. \A p \in Requests : \A j \in DOMAIN request'[p].todo :
          request'[p].todo[j] \in shown' \/ approveAll'
    BY <1>1, <1>2, <1>3, <2>1 DEF ApprovalInv, ListsOK, Listed
  <2>4. \A p \in Requests : WellListed(request'[p].todo)
    BY <1>1, <2>1 DEF ApprovalInv, ListsOK
  <2> QED
    BY <1>2, <2>2, <2>3, <2>4 DEF ApprovalInv, ListsOK, WellListed
<1>9. NothingAhead'
  <2>1. \A c \in Call : Listed(c, refused) => c.turn <= turn
    BY <1>1 DEF ApprovalInv, ListsOK, WellListed, Listed
  <2> QED
    BY <1>2, <1>5, <2>1, ApprovalNumbers DEF ApprovalInv, NothingAhead
<1>10. Counted'
  <2> SUFFICES ASSUME NEW c \in Call
               PROVE  runs'[c] + Cardinality(Holders(c)') <= 1 + failures' + overlaps'
    BY <1>4 DEF Counted
  <2> DEFINE n == Cardinality(Holders(c))
             m == Cardinality(Holders(c)')
  <2>1. /\ n \in Nat /\ m \in Nat /\ m <= n + 1
        /\ (Listed(c, taken) => q \in Holders(c)) => m <= n
    BY <1>2, HoldersMove
  <2>2. runs[c] + n <= 1 + failures + overlaps
    BY DEF ApprovalInv, Counted
  <2>3. ~ UnderWay => n = 0
    BY <1>6, FS_EmptySet
  <2>4. ~ UnderWay /\ Listed(c, taken) => runs[c] <= failures + overlaps
    BY <1>1, <1>3 DEF ApprovalInv, Counted, Listed
  <2> HIDE DEF n, m
  <2>5. runs[c] + m <= 1 + failures + overlaps'
    <3>1. runs[c] \in Nat /\ failures \in Nat /\ overlaps \in Nat
      BY ApprovalNumbers
    <3>2. CASE UnderWay
      BY <1>5, <2>1, <2>2, <3>1, <3>2
    <3>3. CASE ~ UnderWay
      BY <1>5, <1>6, <2>1, <2>2, <2>3, <2>4, <3>1, <3>3
    <3> QED
      BY <3>2, <3>3
  <2> QED
    BY <1>2, <2>5 DEF m
<1>11. OneByOne'
  <2> SUFFICES ASSUME waits PROVE OneByOne'
    BY <1>2 DEF OneByOne
  <2>1. \A p \in Requests : p # q => request[p].step = "idle"
    BY <1>1 DEF ApprovalInv, OneByOne
  <2>2. ~ UnderWay
    BY <1>1, <2>1 DEF UnderWay, Working
  <2>3. overlaps' = 0 /\ ~ misdirected'
    <3>1. pending # <<>> => pending[1].turn = view
      BY ApprovalNumbers DEF ApprovalInv, ListsOK
    <3> QED
      BY <1>1, <1>5, <2>2, <3>1 DEF ApprovalInv, OneByOne
  <2>4. \A p, s \in Requests : request'[p].step # "idle" /\ request'[s].step # "idle" => p = s
    BY <1>2, <2>1
  <2>5. \A p \in Requests : request'[p].step = "sent" => request'[p].view = view'
    BY <1>2, <2>1
  <2>6. ASSUME failures = 0, NEW c \in rejected' PROVE runs'[c] = 0 /\ Holders(c)' = {}
    <3>1. c \in Call
      BY <1>5 DEF TypeOK
    <3>2. ~ Listed(c, taken) /\ runs[c] = 0
      <4>1. CASE c \in rejected
        BY <1>1, <2>2, <2>6, <4>1 DEF ApprovalInv, OneByOne
      <4>2. CASE Listed(c, refused)
        <5>1. runs[c] <= failures + overlaps /\ overlaps = 0
          BY <1>1, <2>2, <4>2 DEF ApprovalInv, Counted, OneByOne, Listed
        <5> QED
          BY <1>1, <2>6, <3>1, <4>2, <5>1, ApprovalNumbers
      <4> QED
        BY <1>5, <4>1, <4>2
    <3>3. Holders(c)' = {}
      BY <1>2, <1>6, <2>2, <3>2, HoldersMove
    <3> QED
      BY <1>2, <3>2, <3>3
  <2> QED
    BY <1>1, <1>2, <1>4, <2>3, <2>4, <2>5, <2>6 DEF OneByOne, Listed
<1>12. ShownOrAllApproved'
  BY <1>1, <1>2 DEF ApprovalInv, ShownOrAllApproved
<1>13. session' # "none"
  BY <1>1, <1>2 DEF ApprovalInv
<1> QED
  BY <1>8, <1>9, <1>10, <1>11, <1>12, <1>13 DEF ApprovalInv

LEMMA ExecuteKeeps ==
  ASSUME TypeOK, ApprovalInv, NEW q \in Requests, Execute(q)
  PROVE  ApprovalInv'
<1> DEFINE todo == request[q].todo
           h == Head(todo)
           rest == Tail(todo)
           r == [request[q] EXCEPT !.todo = rest]
<1>1. /\ todo \in Seq(Call) /\ todo # <<>> /\ request[q].step = "execute"
      /\ WellListed(todo) /\ \A j \in DOMAIN todo : todo[j] \in shown \/ approveAll
  BY ApprovalNumbers DEF Execute, ApprovalInv, ListsOK
<1>2. /\ h \in Call /\ Listed(h, todo) /\ rest \in Seq(Call)
      /\ \A j \in DOMAIN rest : j + 1 \in DOMAIN todo /\ rest[j] = todo[j + 1]
      /\ \A j \in DOMAIN rest : j \in Nat /\ j + 1 # 1
      /\ 1 \in DOMAIN todo /\ h = todo[1]
  <2> HIDE DEF todo
  <2>1. h = todo[1] /\ 1 \in DOMAIN todo /\ h \in Call /\ rest \in Seq(Call)
    BY <1>1
  <2>2. /\ \A j \in DOMAIN rest : j + 1 \in DOMAIN todo /\ rest[j] = todo[j + 1]
        /\ \A j \in DOMAIN rest : j \in Nat /\ j + 1 # 1
    BY <1>1
  <2> HIDE DEF h
  <2>3. Listed(h, todo)
    BY <2>1 DEF Listed
  <2> QED
    BY <2>1, <2>2, <2>3
<1>3. /\ WellListed(rest) /\ ~ Listed(h, rest)
      /\ \A j \in DOMAIN rest : rest[j] \in shown \/ approveAll
      /\ \A c : Listed(c, rest) => Listed(c, todo)
      /\ \A c : c # h /\ Listed(c, todo) => Listed(c, rest)
  <2> HIDE DEF todo, h
  <2>3. \A i \in DOMAIN todo : i # 1 => i - 1 \in DOMAIN rest /\ rest[i - 1] = todo[i]
    BY <1>1
  <2> HIDE DEF rest
  <2>1. \A i, j \in DOMAIN rest : rest[i] = rest[j] => i = j
    BY <1>1, <1>2 DEF WellListed
  <2>2. \A j \in DOMAIN rest : rest[j].turn <= turn /\ rest[j] # h
    BY <1>1, <1>2 DEF WellListed
  <2>4. WellListed(rest) /\ ~ Listed(h, rest)
    BY <2>1, <2>2 DEF WellListed, Listed
  <2>5. /\ \A j \in DOMAIN rest : rest[j] \in shown \/ approveAll
        /\ \A c : Listed(c, rest) => Listed(c, todo)
    BY <1>1, <1>2 DEF Listed
  <2>6. \A c : c # h /\ Listed(c, todo) => Listed(c, rest)
    BY <1>2, <2>3 DEF Listed
  <2> QED
    BY <2>4, <2>5, <2>6
<1>4. /\ request' = [request EXCEPT ![q] = r] /\ r.todo = rest /\ r.step = "execute"
      /\ runs' = [runs EXCEPT ![h] = runs[h] + 1]
      /\ UNCHANGED <<session, turn, pending, approveAll, finished, view, waits, shown,
                     rejected, misdirected, overlaps, failures>>
  <2>1. /\ request' = [request EXCEPT ![q] = r] /\ runs' = [runs EXCEPT ![h] = runs[h] + 1]
        /\ UNCHANGED <<session, turn, pending, approveAll, finished, view, waits, shown,
                       rejected, misdirected, overlaps, failures>>
    BY <1>2, ApprovalNumbers DEF Execute, TypeOK, state
  <2>2. r.todo = rest /\ r.step = request[q].step
    BY DEF TypeOK
  <2> QED
    BY <1>1, <2>1, <2>2
<1> HIDE DEF r, todo, h, rest
<1>5. \A p \in Requests : request'[p] = IF p = q THEN r ELSE request[p]
  BY <1>4, ApprovalNumbers
<1>6. \A c \in Call : runs'[c] = IF c = h THEN runs[c] + 1 ELSE runs[c]
  BY <1>2, <1>4 DEF TypeOK
<1>7. UnderWay /\ UnderWay'
  BY <1>1, <1>4, <1>5 DEF UnderWay, Working
<1>8. q \in Holders(h)
  BY <1>2 DEF Holders, todo
<1>9. \A c : Holders(c)' \subseteq Holders(c)
  <2> SUFFICES ASSUME NEW c PROVE Holders(c)' \subseteq Holders(c)
    OBVIOUS
  <2>1. Listed(c, r.todo) => q \in Holders(c)
    BY <1>3, <1>4 DEF Holders, todo
  <2> QED
    BY <1>4, <2>1, HoldersMove
<1>10. ListsOK'
  <2>1. \A p \in Requests : request'[p].todo = IF p = q THEN rest ELSE request[p].todo
    BY <1>4, <1>5
  <2>2. \A p \in Requests : request'[p].todo # <<>> => request'[p].step = "execute"
    BY <1>4, <1>5 DEF ApprovalInv, ListsOK
  <2>3. \A p \in Requests : \A j \in DOMAIN request'[p].todo :
          request'[p].todo[j] \in shown' \/ approveAll'
    BY <1>3, <1>4, <2>1 DEF ApprovalInv, ListsOK
  <2>4. \A p \in Requests : WellListed(request'[p].todo)
    BY <1>3, <2>1 DEF ApprovalInv, ListsOK
  <2> QED
    BY <1>4, <2>2, <2>3, <2>4 DEF ApprovalInv, ListsOK, WellListed
<1>11. NothingAhead'
  <2>1. h.turn <= turn
    BY <1>1, <1>2 DEF WellListed
  <2>2. \A c \in Call : c.turn > turn => c # h
    BY <2>1, ApprovalNumbers
  <2> QED
    BY <1>4, <1>6, <2>2 DEF ApprovalInv, NothingAhead
<1>12. Counted'
  <2> SUFFICES ASSUME NEW c \in Call
               PROVE  runs'[c] + Cardinality(Holders(c)') <= 1 + failures' + overlaps'
    BY <1>7 DEF Counted
  <2> DEFINE n == Cardinality(Holders(c))
             m == Cardinality(Holders(c)')
  <2>1. n \in Nat /\ m \in Nat /\ (c = h => m = n - 1) /\ (c # h => m <= n)
    <3>1. Listed(c, r.todo) => q \in Holders(c)
      BY <1>3, <1>4 DEF Holders, todo
    <3>2. c = h => ~ Listed(c, r.todo)
      BY <1>3, <1>4
    <3> QED
      BY <1>4, <1>8, <3>1, <3>2, HoldersMove
  <2>2. runs[c] + n <= 1 + failures + overlaps /\ runs[c] \in Nat /\ failures \in Nat /\ overlaps \in Nat
    BY ApprovalNumbers DEF ApprovalInv, Counted
  <2> HIDE DEF n, m
  <2>3. runs'[c] + m <= 1 + failures + overlaps
    BY <1>6, <2>1, <2>2
  <2> QED
    BY <1>4, <2>3 DEF m
<1>13. OneByOne'
  <2> SUFFICES ASSUME waits PROVE OneByOne'
    BY <1>4 DEF OneByOne
  <2>1. \A p, s \in Requests : request'[p].step # "idle" /\ request'[s].step # "idle" => p = s
    BY <1>1, <1>4, <1>5 DEF ApprovalInv, OneByOne
  <2>2. \A p \in Requests : request'[p].step = "sent" => request'[p].view = view'
    BY <1>4, <1>5 DEF ApprovalInv, OneByOne
  <2>3. failures = 0 => \A c \in rejected : runs'[c] = 0 /\ Holders(c)' = {}
    <3> SUFFICES ASSUME failures = 0, NEW c \in rejected PROVE runs'[c] = 0 /\ Holders(c)' = {}
      OBVIOUS
    <3>1. c \in Call /\ runs[c] = 0 /\ Holders(c) = {}
      BY DEF TypeOK, ApprovalInv, OneByOne
    <3> QED
      BY <1>6, <1>8, <1>9, <3>1
  <2> QED
    BY <1>4, <1>7, <2>1, <2>2, <2>3 DEF ApprovalInv, OneByOne
<1>14. ShownOrAllApproved'
  <2>1. h \in shown \/ approveAll
    BY <1>1, <1>2
  <2> QED
    BY <1>4, <1>6, <2>1 DEF ApprovalInv, ShownOrAllApproved
<1>15. session' # "none"
  BY <1>1, <1>4 DEF ApprovalInv
<1> QED
  BY <1>10, <1>11, <1>12, <1>13, <1>14, <1>15 DEF ApprovalInv

\* A response with these calls, if any, which are new: the session is finished,
\* or they are pending, or they are executed at once.
Responds(q, calls, r) ==
  /\ request[q].step = "generate" /\ turn' = turn + 1
  /\ \A i \in DOMAIN calls : calls[i] \in Call /\ calls[i].turn = turn + 1
  /\ \A i, j \in DOMAIN calls : calls[i] = calls[j] => i = j
  /\ request' = [request EXCEPT ![q] = r]
  /\ UNCHANGED <<approveAll, waits, runs, rejected, misdirected, overlaps, failures>>
  /\ session' # "none"
  /\ \/ r.step = "idle" /\ r.todo = <<>> /\ finished' /\ UNCHANGED <<pending, view, shown>>
     \/ /\ r.step = "idle" /\ r.todo = <<>> /\ finished' = finished /\ pending' = calls
        /\ view' = turn + 1 /\ shown \subseteq shown'
        /\ \A i \in DOMAIN calls : calls[i] \in shown'
     \/ /\ r.todo = calls /\ r.step = "execute" /\ approveAll
        /\ UNCHANGED <<pending, finished, view, shown>>

LEMMA ResponseCalls ==
  ASSUME TypeOK, ApprovalInv, NEW q \in Requests,
         Answer(q) \/ \E k \in 1..MaxCalls : AskApproval(q, k) \/ RunUnasked(q, k)
  PROVE  \E calls, r : Responds(q, calls, r)
<1>1. turn \in Nat /\ At("idle").step = "idle" /\ At("idle").todo = <<>>
  BY ApprovalNumbers DEF At
<1>2. CASE Answer(q)
  <2>1. /\ request[q].step = "generate" /\ turn' = turn + 1 /\ finished' = TRUE /\ session' = "known"
        /\ request' = [request EXCEPT ![q] = At("idle")]
        /\ UNCHANGED <<pending, approveAll, view, waits, runs, shown, rejected, misdirected,
                       overlaps, failures>>
    BY <1>2 DEF Answer, history
  <2>2. DOMAIN <<>> = {}
    OBVIOUS
  <2>3. Responds(q, <<>>, At("idle"))
    BY <1>1, <2>1, <2>2 DEF Responds
  <2> QED
    BY <2>3
<1>3. ASSUME NEW k \in 1..MaxCalls, AskApproval(q, k) \/ RunUnasked(q, k)
      PROVE  \E calls, r : Responds(q, calls, r)
  <2> DEFINE calls == CallsOf(turn + 1, k)
  <2>1. turn < MaxTurns /\ turn' = turn + 1 /\ request[q].step = "generate"
    BY <1>3 DEF AskApproval, RunUnasked
  <2>2. /\ calls \in Seq(Call)
        /\ \A i \in DOMAIN calls : calls[i] \in Call /\ calls[i].turn = turn + 1 /\ calls[i].index < k
        /\ \A i, j \in DOMAIN calls : calls[i] = calls[j] => i = j
    BY <1>1, <2>1, CallsOfResponse
  <2>3. CASE AskApproval(q, k)
    <3>1. \A i \in DOMAIN calls : calls[i] \in shown'
      BY <2>2, <2>3 DEF AskApproval
    <3> HIDE DEF calls
    <3>2. Responds(q, calls, At("idle"))
      BY <1>1, <2>1, <2>2, <2>3, <3>1 DEF AskApproval, Responds, calls
    <3> QED
      BY <3>2
  <2>4. CASE RunUnasked(q, k)
    <3>1. Executing(calls).todo = calls /\ Executing(calls).step = "execute"
      BY <1>1, <2>2, FramesHaveTypes
    <3>2. session # "none"
      BY <2>1 DEF ApprovalInv
    <3>3. /\ request' = [request EXCEPT ![q] = Executing(calls)]
          /\ approveAll /\ UNCHANGED <<session, pending, approveAll, finished, view, history>>
      BY <2>4 DEF RunUnasked
    <3> HIDE DEF calls
    <3>4. Responds(q, calls, Executing(calls))
      BY <2>1, <2>2, <3>1, <3>2, <3>3 DEF Responds, history
    <3> QED
      BY <3>4
  <2> QED
    BY <1>3, <2>3, <2>4
<1> QED
  BY <1>2, <1>3

LEMMA ResponseKeeps ==
  ASSUME TypeOK, ApprovalInv, NEW q \in Requests,
         Answer(q) \/ \E k \in 1..MaxCalls : AskApproval(q, k) \/ RunUnasked(q, k)
  PROVE  ApprovalInv'
<1>1. PICK calls, r : Responds(q, calls, r)
  BY ResponseCalls
<1>2. /\ request[q].step = "generate" /\ turn' = turn + 1
      /\ request' = [request EXCEPT ![q] = r]
      /\ UNCHANGED <<approveAll, waits, runs, rejected, misdirected, overlaps, failures>>
      /\ session' # "none" /\ turn \in Nat /\ shown \subseteq shown'
      /\ r.step \in {"idle", "execute"}
      /\ \A p \in Requests : request'[p] = IF p = q THEN r ELSE request[p]
  BY <1>1, ApprovalNumbers DEF Responds
<1>3. \A c : Listed(c, calls) => c \in Call /\ c.turn = turn + 1
  BY <1>1 DEF Responds, Listed
<1>4. UnderWay
  BY <1>2 DEF UnderWay, Working
<1>5. request[q].todo = <<>>
  BY <1>2 DEF ApprovalInv, ListsOK
<1>6. /\ \A j \in DOMAIN pending : pending[j].turn <= turn + 1
      /\ \A p \in Requests : \A j \in DOMAIN request[p].todo : request[p].todo[j].turn <= turn + 1
  <2>1. \A c \in Call : c.turn <= turn => c.turn <= turn + 1
    BY <1>2, ApprovalNumbers
  <2> QED
    BY <2>1, ApprovalNumbers DEF ApprovalInv, ListsOK, WellListed
<1>7. WellListed(calls)' /\ WellListed(pending)'
  <2>1. WellListed(calls)'
    BY <1>1, <1>2 DEF Responds, WellListed
  <2>2. pending' = pending \/ pending' = calls
    BY <1>1 DEF Responds
  <2> QED
    BY <1>2, <1>6, <2>1, <2>2 DEF ApprovalInv, ListsOK, WellListed
<1>8. ListsOK'
  <2>1. (\A p \in Requests : WellListed(request[p].todo))'
    BY <1>1, <1>2, <1>6, <1>7 DEF ApprovalInv, ListsOK, WellListed, Responds
  <2>2. \A p \in Requests : request'[p].todo # <<>> => request'[p].step = "execute"
    BY <1>1, <1>2 DEF ApprovalInv, ListsOK, Responds
  <2>3. \A p \in Requests : \A j \in DOMAIN request'[p].todo :
          request'[p].todo[j] \in shown' \/ approveAll'
    BY <1>1, <1>2 DEF ApprovalInv, ListsOK, Responds
  <2>4. \A j \in DOMAIN pending' : pending'[j] \in shown' /\ pending'[j].turn = view'
    BY <1>1, <1>2 DEF ApprovalInv, ListsOK, Responds
  <2> QED
    BY <1>7, <2>1, <2>2, <2>3, <2>4 DEF ListsOK, WellListed
<1>9. \A c \in Call : c.turn > turn' => c.turn > turn
  BY <1>2, ApprovalNumbers
<1>10. NothingAhead'
  BY <1>2, <1>9 DEF ApprovalInv, NothingAhead
<1>11. \A c : Listed(c, calls) => runs[c] = 0 /\ Holders(c) = {} /\ c \notin rejected
  <2> SUFFICES ASSUME NEW c \in Call, c.turn = turn + 1
               PROVE  runs[c] = 0 /\ Holders(c) = {} /\ c \notin rejected
    BY <1>3
  <2>1. c.turn > turn /\ ~ (c.turn <= turn)
    BY <1>2
  <2> QED
    BY <2>1 DEF ApprovalInv, NothingAhead, ListsOK, WellListed, Holders, Listed
<1>12. Counted'
  <2>1. ASSUME NEW c \in Call
        PROVE  runs'[c] + Cardinality(Holders(c)') <= 1 + failures' + overlaps'
    <3> DEFINE n == Cardinality(Holders(c))
               m == Cardinality(Holders(c)')
    <3>1. /\ n \in Nat /\ m \in Nat /\ m <= n + 1
          /\ (Listed(c, r.todo) => q \in Holders(c)) => m <= n
      BY <1>2, HoldersMove
    <3>2. runs[c] + n <= 1 + failures + overlaps /\ runs[c] \in Nat /\ failures \in Nat /\ overlaps \in Nat
      BY ApprovalNumbers DEF ApprovalInv, Counted
    <3>3. Listed(c, r.todo) => runs[c] = 0 /\ n = 0
      <4>1. Listed(c, r.todo) => Listed(c, calls)
        BY <1>1 DEF Responds, Listed
      <4> QED
        BY <1>11, <4>1, FS_EmptySet
    <3> HIDE DEF n, m
    <3>4. runs[c] + m <= 1 + failures + overlaps
      BY <3>1, <3>2, <3>3
    <3> QED
      BY <1>2, <3>4 DEF m
  <2>2. ASSUME ~ finished', ~ UnderWay', NEW j \in DOMAIN pending'
        PROVE  runs'[pending'[j]] <= failures' + overlaps'
    <3>1. r.step # "execute"
      BY <1>2, <2>2 DEF UnderWay, Working
    <3>2. Listed(pending'[j], calls)
      BY <1>1, <2>2, <3>1 DEF Responds, Listed
    <3> QED
      BY <1>2, <1>11, <3>2, ApprovalNumbers
  <2> QED
    BY <2>1, <2>2 DEF Counted
<1>13. OneByOne'
  <2> SUFFICES ASSUME waits PROVE OneByOne'
    BY <1>2 DEF OneByOne
  <2>1. \A p \in Requests : p # q => request'[p].step = "idle"
    BY <1>2 DEF ApprovalInv, OneByOne
  <2>2. ~ finished
    BY <1>4 DEF ApprovalInv, OneByOne
  <2>3. finished' => ~ UnderWay'
    BY <1>1, <1>2, <2>1, <2>2 DEF Responds, UnderWay, Working
  <2>4. ASSUME failures = 0, NEW c \in rejected
        PROVE  /\ runs[c] = 0 /\ Holders(c)' = {}
               /\ finished' \/ UnderWay' \/ ~ Listed(c, pending')
    <3>1. runs[c] = 0 /\ Holders(c) = {} /\ ~ Listed(c, calls)
      BY <1>11, <2>4 DEF ApprovalInv, OneByOne
    <3>2. ~ Listed(c, r.todo)
      BY <1>1, <3>1 DEF Responds, Listed
    <3>3. Holders(c)' = {}
      <4>1. Holders(c)' = Holders(c) \ {q}
        BY <1>2, <3>2, HoldersMove
      <4> QED
        BY <3>1, <4>1
    <3>4. finished' \/ UnderWay' \/ pending' = calls
      BY <1>1, <1>2 DEF Responds, UnderWay, Working
    <3> QED
      BY <3>1, <3>3, <3>4
  <2>5. overlaps = 0 /\ ~ misdirected
    BY DEF ApprovalInv, OneByOne
  <2>6. /\ \A p, s \in Requests : request'[p].step # "idle" /\ request'[s].step # "idle" => p = s
        /\ \A p \in Requests : request'[p].step = "sent" => request'[p].view = view'
    BY <1>2, <2>1
  <2> QED
    BY <1>2, <2>3, <2>4, <2>5, <2>6 DEF OneByOne, Listed
<1>14. ShownOrAllApproved'
  BY <1>2 DEF ApprovalInv, ShownOrAllApproved
<1> QED
  BY <1>2, <1>8, <1>10, <1>12, <1>13, <1>14 DEF ApprovalInv

LEMMA FailureKeeps ==
  ASSUME TypeOK, ApprovalInv, NEW q \in Requests, GenerateFails(q)
  PROVE  ApprovalInv'
<1> USE DEF state
<1> DEFINE r == At("idle")
<1>1. /\ request' = [request EXCEPT ![q] = r] /\ failures' = failures + 1 /\ request[q].step = "generate"
      /\ UNCHANGED <<session, turn, pending, approveAll, finished, view, waits, runs, shown,
                     rejected, misdirected, overlaps>>
  BY DEF GenerateFails
<1>2. r.todo = <<>> /\ r.step = "idle"
  BY DEF At
<1> HIDE DEF r
<1>3. \A p \in Requests : request'[p] = IF p = q THEN r ELSE request[p]
  BY <1>1, ApprovalNumbers
<1>4. ListsOK'
  BY <1>1, <1>2, <1>3 DEF ApprovalInv, ListsOK, WellListed
<1>5. ASSUME NEW c \in Call
      PROVE  /\ runs[c] <= 1 + failures + overlaps
             /\ runs[c] + Cardinality(Holders(c)') <= 1 + failures' + overlaps
  <2> DEFINE n == Cardinality(Holders(c))
             m == Cardinality(Holders(c)')
  <2>1. ~ Listed(c, r.todo)
    BY <1>2 DEF Listed
  <2>2. n \in Nat /\ m \in Nat /\ m <= n
    BY <1>1, <2>1, HoldersMove
  <2>3. runs[c] + n <= 1 + failures + overlaps /\ runs[c] \in Nat /\ failures \in Nat /\ overlaps \in Nat
    BY ApprovalNumbers DEF ApprovalInv, Counted
  <2> HIDE DEF n, m
  <2>4. runs[c] <= 1 + failures + overlaps /\ runs[c] + m <= 1 + (failures + 1) + overlaps
    BY <2>2, <2>3
  <2> QED
    BY <1>1, <2>4 DEF m
<1>6. Counted'
  <2>1. \A j \in DOMAIN pending : runs[pending[j]] <= failures + 1 + overlaps
    BY <1>5, ApprovalNumbers
  <2> QED
    BY <1>1, <1>5, <2>1 DEF Counted
<1>7. OneByOne'
  <2> SUFFICES ASSUME waits PROVE OneByOne'
    BY <1>1 DEF OneByOne
  <2>1. \A p \in Requests : request'[p].step = "idle"
    BY <1>1, <1>2, <1>3 DEF ApprovalInv, OneByOne
  <2>2. ~ UnderWay' /\ failures' # 0
    BY <1>1, <2>1, ApprovalNumbers DEF UnderWay, Working
  <2> QED
    BY <1>1, <2>1, <2>2 DEF ApprovalInv, OneByOne
<1>8. session' # "none"
  BY <1>1 DEF ApprovalInv
<1> QED
  BY <1>1, <1>4, <1>6, <1>7, <1>8 DEF ApprovalInv, ShownOrAllApproved, NothingAhead

LEMMA ApprovalStep == TypeOK /\ ApprovalInv /\ [Next]_vars => ApprovalInv'
<1> SUFFICES ASSUME TypeOK, ApprovalInv, [Next]_vars PROVE ApprovalInv'
  OBVIOUS
<1>1. \A step \in {"idle", "generate"} : At(step).step = step /\ At(step).todo = <<>>
  BY DEF At
<1>2. ASSUME NEW q \in Requests, Start(q) PROVE ApprovalInv'
  <2>1. /\ session = "none" /\ session' = "new" /\ ~ finished
        /\ \A p \in Requests : request[p].step = "idle"
        /\ request' = [request EXCEPT ![q] = At("generate")]
        /\ UNCHANGED <<turn, pending, approveAll, finished, view, history>>
    BY <1>2 DEF Start, ApprovalInv
  <2> QED
    BY <1>1, <2>1, QuietKeeps DEF Working
<1>3. ASSUME NEW q \in Requests, NEW d \in Decisions, NEW i \in Indices, Send(q, d, i) PROVE ApprovalInv'
  <2> DEFINE r == [At("sent") EXCEPT !.decision = d, !.index = i, !.view = view]
  <2>1. r.step = "sent" /\ r.todo = <<>> /\ r.view = view
    BY DEF At
  <2> HIDE DEF r
  <2>2. /\ session' = "known" /\ request[q].step = "idle"
        /\ waits => \A p \in Requests : request[p].step = "idle"
        /\ request' = [request EXCEPT ![q] = r]
        /\ UNCHANGED <<turn, pending, approveAll, finished, view, history>>
    BY <1>3 DEF Send, state, r
  <2> QED
    BY <2>1, <2>2, QuietKeeps DEF Working
<1>4. ASSUME NEW q \in Requests, DecideFinished(q) \/ DecideNoSuchCall(q) PROVE ApprovalInv'
  <2>1. /\ request[q].step = "sent" /\ session' = session
        /\ request' = [request EXCEPT ![q] = At("idle")]
        /\ UNCHANGED <<turn, pending, approveAll, finished, view, history>>
    BY <1>4 DEF DecideFinished, DecideNoSuchCall, state
  <2>2. session # "none"
    BY <2>1 DEF ApprovalInv
  <2> QED
    BY <1>1, <2>1, <2>2, QuietKeeps DEF Working
<1>5. ASSUME NEW q \in Requests, Prompt(q) PROVE ApprovalInv'
  <2>1. /\ request[q].step = "execute" /\ session' = session
        /\ request' = [request EXCEPT ![q] = At("generate")]
        /\ UNCHANGED <<turn, pending, approveAll, finished, view, history>>
    BY <1>5 DEF Prompt, state
  <2>2. session # "none"
    BY <2>1 DEF ApprovalInv
  <2> QED
    BY <1>1, <2>1, <2>2, QuietKeeps DEF Working
<1>6. CASE UNCHANGED vars
  <2>1. Holders(0)' = Holders(0) /\ \A c : Holders(c)' = Holders(c)
    BY <1>6 DEF vars, Holders, Listed
  <2>2. UnderWay' = UnderWay
    BY <1>6 DEF vars, UnderWay, Working
  <2> QED
    BY <1>6, <2>1, <2>2 DEF vars, state, history, ApprovalInv, ShownOrAllApproved, ListsOK, WellListed,
                            NothingAhead, Counted, OneByOne, Listed
<1> QED
  BY <1>2, <1>3, <1>4, <1>5, <1>6, TakeUpKeeps, ExecuteKeeps, ResponseKeeps, FailureKeeps DEF Next

\* A request and what the client was shown keep their shapes, for any requests
\* at once (ToolPermissionManager.decide and _run_next_turn).
THEOREM ApprovalTypes == Spec => []TypeOK
  BY ApprovalTypesInitially, ApprovalTypesStep, PTL DEF Spec

\* Nothing unseen and, one request at a time, nothing rejected and nothing for
\* another list is executed; each call at most once, and once more for each
\* failure of the model and each overlap (decide, _execute_selected,
\* _run_next_turn).
THEOREM DecisionsAreKept == Spec => []DecisionsHold
<1>1. TypeOK /\ ApprovalInv => DecisionsHold
  <2> SUFFICES ASSUME TypeOK, ApprovalInv PROVE DecisionsHold
    OBVIOUS
  <2>1. ExecutionsBounded
    <3> SUFFICES ASSUME NEW c \in Call PROVE runs[c] <= 1 + failures + overlaps
      BY DEF ExecutionsBounded
    <3> DEFINE n == Cardinality(Holders(c))
    <3>1. n \in Nat
      <4>1. Holders(c) \subseteq Requests
        BY DEF Holders
      <4> QED
        BY <4>1, ApprovalAssumption, FS_Subset, FS_CardinalityType
    <3>2. runs[c] + n <= 1 + failures + overlaps /\ runs[c] \in Nat /\ failures \in Nat /\ overlaps \in Nat
      BY ApprovalNumbers DEF ApprovalInv, Counted
    <3> HIDE DEF n
    <3> QED
      BY <3>1, <3>2
  <2>2. RejectedStaysRejected /\ DecisionMeetsItsCalls
    BY DEF ApprovalInv, OneByOne, RejectedStaysRejected, DecisionMeetsItsCalls
  <2>3. NothingAfterFinish
    BY DEF ApprovalInv, OneByOne, NothingAfterFinish, UnderWay, Working
  <2> QED
    BY <2>1, <2>2, <2>3 DEF ApprovalInv, DecisionsHold
<1> QED
  BY <1>1, ApprovalTypesInitially, ApprovalTypesStep, ApprovalInitially, ApprovalStep, PTL DEF Spec

-----------------------------------------------------------------------------
(***************************************************************************)
(* Notifications, for any sinks, notifications and failing saves.  A claim *)
(* holds only what it has passed in the list and has not been given; what  *)
(* one sink claims at a time is pending between the test and the change.   *)
(***************************************************************************)
ClaimsOK ==
  \A s \in Sinks :
    /\ \A n \in GotBy(s) :
         /\ n \in DOMAIN notes /\ n < claiming[s].pos /\ notes[n].status # "pending"
         /\ s \in notes[n].targets /\ returned[n][s] = 0
    /\ claiming[s].tested =>
         /\ claiming[s].pos \in DOMAIN notes /\ s \in notes[claiming[s].pos].targets
         /\ returned[claiming[s].pos][s] = 0

ReturnsOK ==
  \A n \in DOMAIN notes, s \in Sinks :
    /\ returned[n][s] <= 1
    /\ returned[n][s] > 0 => notes[n].status # "pending" /\ s \in notes[n].targets

OneAtATime ==
  alone =>
    /\ \A s, t \in Sinks : InClaim(s) /\ InClaim(t) => s = t
    /\ \A s \in Sinks : InClaim(s) => message = {}
    /\ \A n \in message : notes[n].status = "pending"
    /\ \A s \in Sinks : claiming[s].tested => notes[claiming[s].pos].status = "pending"
    /\ \A s, t \in Sinks : \A n \in GotBy(s) : returned[n][t] = 0
    /\ \A n \in DOMAIN notes : \A s, t \in Sinks :
         returned[n][s] > 0 /\ returned[n][t] > 0 => s = t

NoteTypes ==
  NoteTypeOK /\ alone \in BOOLEAN /\ Len(notes) <= MaxNotes /\ ackedOnce \subseteq DOMAIN notes

NoteInv == ClaimsOK /\ ReturnsOK /\ OneAtATime /\ ClaimedIsGiven /\ AckStays

Note == [id : 1..MaxNotes, targets : SUBSET Sinks, status : {"pending", "claimed", "acked"}]
GotOf(f) == {f.got[k] : k \in DOMAIN f.got}
Claims == [pos : 0..(MaxNotes + 1), got : Seq(1..MaxNotes), tested : BOOLEAN]

LEMMA NoteShapes ==
  ASSUME NoteTypes
  PROVE  /\ Len(notes) \in Nat /\ DOMAIN notes = 1..Len(notes) /\ DOMAIN notes \subseteq 1..MaxNotes
         /\ \A n \in DOMAIN notes : notes[n] \in Note
         /\ returned \in Seq([Sinks -> Nat]) /\ DOMAIN returned = DOMAIN notes
         /\ \A n \in DOMAIN notes : returned[n] \in [Sinks -> Nat]
         /\ \A n \in DOMAIN notes, s \in Sinks : returned[n][s] \in Nat
         /\ claiming \in [Sinks -> Claims]
         /\ \A s \in Sinks : /\ claiming[s] \in Claims /\ claiming[s].pos \in Nat
                             /\ claiming[s].got \in Seq(1..MaxNotes) /\ GotBy(s) \subseteq 1..MaxNotes
<1>1. notes \in Seq(Note) /\ returned \in Seq([Sinks -> Nat]) /\ Len(returned) = Len(notes)
  BY DEF NoteTypes, NoteTypeOK, Note
<1>2. Len(notes) \in Nat /\ Len(notes) <= MaxNotes /\ MaxNotes \in Nat
  BY <1>1, NotificationAssumption DEF NoteTypes
<1>3. DOMAIN notes = 1..Len(notes) /\ DOMAIN returned = 1..Len(notes)
  BY <1>1
<1>4. /\ \A n \in DOMAIN notes : notes[n] \in Note
      /\ \A n \in DOMAIN notes : returned[n] \in [Sinks -> Nat]
  BY <1>1, <1>3
<1>5. claiming \in [Sinks -> Claims]
  BY DEF NoteTypes, NoteTypeOK, Claims
<1>6. \A s \in Sinks : /\ claiming[s] \in Claims /\ claiming[s].pos \in Nat
                       /\ claiming[s].got \in Seq(1..MaxNotes)
  BY <1>2, <1>5 DEF Claims
<1>7. \A s \in Sinks : GotBy(s) \subseteq 1..MaxNotes
  <2>1. ASSUME NEW S, NEW q \in Seq(S) PROVE \A k \in DOMAIN q : q[k] \in S
    OBVIOUS
  <2> QED
    BY <1>6, <2>1 DEF GotBy
<1> QED
  BY <1>1, <1>2, <1>3, <1>4, <1>5, <1>6, <1>7

\* A change of status leaves the identifier, the targets and the other
\* notifications alone.
LEMMA StatusChanges ==
  ASSUME NoteTypes, NEW n \in DOMAIN notes, NEW x \in {"pending", "claimed", "acked"},
         notes' = [notes EXCEPT ![n].status = x]
  PROVE  /\ notes' \in Seq(Note) /\ Len(notes') = Len(notes) /\ DOMAIN notes' = DOMAIN notes
         /\ \A m \in DOMAIN notes :
              /\ notes'[m].targets = notes[m].targets /\ notes'[m].id = notes[m].id
              /\ notes'[m].status = IF m = n THEN x ELSE notes[m].status
<1>1. notes \in Seq(Note) /\ notes[n] \in Note
  BY NoteShapes DEF NoteTypes, NoteTypeOK, Note
<1> DEFINE new == [notes[n] EXCEPT !.status = x]
<1>2. notes' = [notes EXCEPT ![n] = new]
  OBVIOUS
<1>3. new \in Note /\ new.targets = notes[n].targets /\ new.id = notes[n].id /\ new.status = x
  BY <1>1 DEF Note
<1> HIDE DEF new
<1> QED
  BY <1>1, <1>2, <1>3

LEMMA ClaimMoves ==
  ASSUME NEW c \in Claims, NEW p \in 0..(MaxNotes + 1)
  PROVE  /\ [c EXCEPT !.pos = p] \in Claims /\ [c EXCEPT !.pos = p].pos = p
         /\ [c EXCEPT !.pos = p].got = c.got /\ [c EXCEPT !.pos = p].tested = c.tested
         /\ [c EXCEPT !.tested = TRUE] \in Claims /\ [c EXCEPT !.tested = TRUE].pos = c.pos
         /\ [c EXCEPT !.tested = TRUE].got = c.got /\ [c EXCEPT !.tested = TRUE].tested
BY DEF Claims

\* One sink's claim changes.
LEMMA ClaimChanges ==
  ASSUME NoteTypes, NEW s \in Sinks, NEW f, claiming' = [claiming EXCEPT ![s] = f]
  PROVE  /\ \A t \in Sinks : claiming'[t] = IF t = s THEN f ELSE claiming[t]
         /\ \A t \in Sinks : t # s => GotBy(t)' = GotBy(t) /\ (InClaim(t)' <=> InClaim(t))
         /\ GotBy(s)' = GotOf(f) /\ (InClaim(s)' <=> f.pos > 0)
         /\ f \in Claims => claiming' \in [Sinks -> Claims]
<1>1. \A t \in Sinks : claiming'[t] = IF t = s THEN f ELSE claiming[t]
  BY NoteShapes
<1>2. \A t \in Sinks : t # s => GotBy(t)' = GotBy(t) /\ (InClaim(t)' <=> InClaim(t))
  BY <1>1 DEF GotBy, InClaim
<1>3. GotBy(s)' = GotOf(f) /\ (InClaim(s)' <=> f.pos > 0)
  BY <1>1 DEF GotBy, GotOf, InClaim
<1>4. f \in Claims => claiming' \in [Sinks -> Claims]
  BY NoteShapes
<1> QED
  BY <1>1, <1>2, <1>3, <1>4

LEMMA NotesInitially == NoteInit => NoteTypes /\ NoteInv
<1> SUFFICES ASSUME NoteInit PROVE NoteTypes /\ NoteInv
  OBVIOUS
<1> USE NotificationAssumption
<1>1. \A s \in Sinks : /\ claiming[s] = NoClaim /\ ~ claiming[s].tested /\ claiming[s].pos = 0
                       /\ GotBy(s) = {}
  BY DEF NoteInit, NoClaim, GotBy
<1>2. NoClaim \in Claims
  BY DEF NoClaim, Claims
<1>3. notes = <<>> /\ returned = <<>> /\ message = {} /\ ackedOnce = {} /\ unreturned = {} /\ saveErrors = 0
      /\ alone \in BOOLEAN /\ claiming \in [Sinks -> Claims]
  BY <1>2 DEF NoteInit
<1>4. NoteTypes
  BY <1>3 DEF NoteTypes, NoteTypeOK, Claims
<1>5. DOMAIN notes = {}
  BY <1>3
<1> QED
  BY <1>1, <1>3, <1>4, <1>5
  DEF NoteInv, ClaimsOK, ReturnsOK, OneAtATime, ClaimedIsGiven, AckStays, InClaim

LEMMA NotifyKeeps ==
  ASSUME NoteTypes, NoteInv, NEW targets \in SUBSET Sinks \ {{}}, NEW id \in 1..MaxNotes,
         Notify(targets, id)
  PROVE  NoteTypes' /\ NoteInv'
<1> USE NotificationAssumption
<1> DEFINE n == Len(notes) + 1
           new == [id |-> id, targets |-> targets, status |-> "pending"]
           none == [s \in Sinks |-> 0]
<1>1. /\ UNCHANGED <<alone, claiming, message, saveErrors, unreturned, ackedOnce>>
      /\ Len(notes) < MaxNotes /\ notes' = Append(notes, new) /\ returned' = Append(returned, none)
  BY DEF Notify
<1>2. new \in Note /\ new.status = "pending" /\ none \in [Sinks -> Nat] /\ \A s \in Sinks : none[s] = 0
  BY DEF Note
<1> HIDE DEF new, none
<1>3. /\ notes \in Seq(Note) /\ returned \in Seq([Sinks -> Nat]) /\ Len(returned) = Len(notes)
      /\ Len(notes) \in Nat
  BY NoteShapes DEF NoteTypes, NoteTypeOK, Note
<1>4. /\ notes' \in Seq(Note) /\ returned' \in Seq([Sinks -> Nat]) /\ Len(returned') = Len(notes')
      /\ Len(notes') = n /\ DOMAIN notes' = 1..n /\ n \in Nat
      /\ \A m \in DOMAIN notes : m \in DOMAIN notes' /\ notes'[m] = notes[m] /\ returned'[m] = returned[m]
      /\ notes'[n] = new /\ returned'[n] = none
      /\ \A m \in DOMAIN notes' : m \in DOMAIN notes \/ m = n
  BY <1>1, <1>2, <1>3
<1>5. NoteTypes'
  BY <1>1, <1>3, <1>4 DEF NoteTypes, NoteTypeOK, Note
<1>6. \A s \in Sinks : GotBy(s)' = GotBy(s) /\ (InClaim(s)' <=> InClaim(s))
  BY <1>1 DEF GotBy, InClaim
<1> HIDE DEF n
<1>7. ClaimsOK'
  BY <1>1, <1>4, <1>6 DEF NoteInv, ClaimsOK
<1>8. ReturnsOK'
  BY <1>2, <1>4 DEF NoteInv, ReturnsOK
<1>9. OneAtATime'
  <2> SUFFICES ASSUME alone PROVE OneAtATime'
    BY <1>1 DEF OneAtATime
  <2>1. ASSUME NEW m \in DOMAIN notes', NEW s \in Sinks, NEW t \in Sinks,
               returned'[m][s] > 0, returned'[m][t] > 0
        PROVE  s = t
    <3>1. m # n
      BY <1>2, <1>4, <2>1
    <3>2. m \in DOMAIN notes /\ returned'[m] = returned[m]
      BY <1>4, <3>1
    <3> QED
      BY <2>1, <3>2 DEF NoteInv, OneAtATime
  <2>2. \A s, t \in Sinks : \A m \in GotBy(s) : returned'[m][t] = 0
    BY <1>4 DEF NoteInv, OneAtATime, ClaimsOK
  <2>3. \A m \in message : notes'[m].status = "pending"
    BY <1>4 DEF NoteInv, OneAtATime, NoteTypes, NoteTypeOK
  <2>4. \A s \in Sinks : claiming[s].tested => notes'[claiming[s].pos].status = "pending"
    BY <1>4 DEF NoteInv, OneAtATime, ClaimsOK
  <2>5. /\ \A s, t \in Sinks : InClaim(s) /\ InClaim(t) => s = t
        /\ \A s \in Sinks : InClaim(s) => message = {}
    BY DEF NoteInv, OneAtATime
  <2>6. /\ (\A s, t \in Sinks : InClaim(s) /\ InClaim(t) => s = t)'
        /\ (\A s \in Sinks : InClaim(s) => message = {})'
    BY <1>1, <1>6, <2>5
  <2>7. (\A s, t \in Sinks : \A m \in GotBy(s) : returned[m][t] = 0)'
    BY <1>6, <2>2
  <2> QED
    BY <1>1, <2>1, <2>3, <2>4, <2>6, <2>7 DEF OneAtATime
<1>10. ClaimedIsGiven'
  BY <1>1, <1>2, <1>4, <1>6 DEF NoteInv, ClaimedIsGiven
<1>11. AckStays'
  <2> SUFFICES ASSUME alone PROVE AckStays'
    BY <1>1 DEF AckStays
  <2>1. \A m \in ackedOnce : m \in DOMAIN notes
    BY DEF NoteTypes
  <2>2. \A m \in DOMAIN notes : Shares(m) => Shares(m)'
    BY <1>4 DEF Shares
  <2> QED
    BY <1>1, <1>4, <2>1, <2>2 DEF NoteInv, AckStays
<1> QED
  BY <1>5, <1>7, <1>8, <1>9, <1>10, <1>11 DEF NoteInv

Scans(s, f) ==
  /\ claiming' = [claiming EXCEPT ![s] = f] /\ f \in Claims
  /\ f.got = claiming[s].got /\ f.pos >= claiming[s].pos /\ f.pos > 0
  /\ f.tested => /\ f.pos \in DOMAIN notes
                 /\ notes[f.pos].status = "pending" /\ s \in notes[f.pos].targets
  /\ InClaim(s) \/ (alone => message = {} /\ \A t \in Sinks : ~ InClaim(t))

\* A claim begins, or passes a notification, or its test succeeds.
LEMMA ScanKeeps ==
  ASSUME NoteTypes, NoteInv, NEW s \in Sinks, BeginClaim(s) \/ Test(s)
  PROVE  NoteTypes' /\ NoteInv'
<1> USE NotificationAssumption
<1> DEFINE c == claiming[s]
<1>1. /\ UNCHANGED <<alone, notes, message, saveErrors, returned, unreturned, ackedOnce>>
      /\ c \in Claims /\ c.pos \in Nat /\ c.got \in Seq(1..MaxNotes) /\ c.tested \in BOOLEAN
  BY NoteShapes DEF BeginClaim, Test, Claims
<1>2. PICK f : Scans(s, f)
  <2>1. CASE BeginClaim(s)
    <3> DEFINE g == [c EXCEPT !.pos = 1]
    <3>1. claiming' = [claiming EXCEPT ![s] = g] /\ c.pos = 0
      BY <1>1, <2>1, NoteShapes DEF BeginClaim, InClaim
    <3>2. ~ c.tested
      BY <3>1, NoteShapes DEF NoteInv, ClaimsOK
    <3>3. 1 \in 0..(MaxNotes + 1)
      OBVIOUS
    <3>4. g \in Claims /\ g.got = c.got /\ g.pos = 1 /\ g.tested = c.tested
      BY <1>1, <3>3, ClaimMoves
    <3> HIDE DEF g
    <3>5. g.pos >= c.pos /\ g.pos > 0 /\ ~ g.tested
      BY <3>1, <3>2, <3>4
    <3>6. alone => message = {} /\ \A t \in Sinks : ~ InClaim(t)
      BY <2>1 DEF BeginClaim
    <3>7. Scans(s, g)
      BY <3>1, <3>4, <3>5, <3>6 DEF Scans
    <3> QED
      BY <3>7
  <2>2. CASE Test(s)
    <3>1. InClaim(s) /\ c.pos \in DOMAIN notes /\ c.pos <= MaxNotes /\ c.pos > 0
      BY <1>1, <2>2, NoteShapes DEF Test, Scanning, InClaim
    <3>2. CASE Wanted(s, notes[c.pos])
      <4> DEFINE g == [c EXCEPT !.tested = TRUE]
      <4>1. claiming' = [claiming EXCEPT ![s] = g]
        BY <2>2, <3>2, NoteShapes DEF Test
      <4>2. 1 \in 0..(MaxNotes + 1)
        OBVIOUS
      <4>3. g \in Claims /\ g.got = c.got /\ g.pos = c.pos
        BY <1>1, <4>2, ClaimMoves
      <4> HIDE DEF g
      <4>4. Scans(s, g)
        BY <1>1, <3>1, <3>2, <4>1, <4>3 DEF Wanted, Scans
      <4> QED
        BY <4>4
    <3>3. CASE ~ Wanted(s, notes[c.pos])
      <4> DEFINE g == [c EXCEPT !.pos = c.pos + 1]
      <4>1. claiming' = [claiming EXCEPT ![s] = g] /\ ~ c.tested
        BY <2>2, <3>3, NoteShapes DEF Test
      <4>2. c.pos + 1 \in 0..(MaxNotes + 1)
        BY <1>1, <3>1
      <4>3. g \in Claims /\ g.got = c.got /\ g.pos = c.pos + 1 /\ g.tested = c.tested
        BY <1>1, <4>2, ClaimMoves
      <4> HIDE DEF g
      <4>4. Scans(s, g)
        BY <1>1, <3>1, <4>1, <4>3 DEF Scans
      <4> QED
        BY <4>4
    <3> QED
      BY <3>2, <3>3
  <2> QED
    BY <2>1, <2>2
<1>3. /\ \A t \in Sinks : claiming'[t] = IF t = s THEN f ELSE claiming[t]
      /\ \A t \in Sinks : t # s => GotBy(t)' = GotBy(t) /\ (InClaim(t)' <=> InClaim(t))
      /\ GotBy(s)' = GotBy(s) /\ InClaim(s)' /\ claiming' \in [Sinks -> Claims]
  <2>1. /\ \A t \in Sinks : claiming'[t] = IF t = s THEN f ELSE claiming[t]
        /\ \A t \in Sinks : t # s => GotBy(t)' = GotBy(t) /\ (InClaim(t)' <=> InClaim(t))
        /\ GotBy(s)' = GotOf(f) /\ (InClaim(s)' <=> f.pos > 0)
        /\ claiming' \in [Sinks -> Claims]
    BY <1>2, ClaimChanges DEF Scans
  <2>2. GotBy(s) = GotOf(f)
    BY <1>2 DEF GotBy, GotOf, Scans
  <2> QED
    BY <1>2, <2>1, <2>2 DEF Scans
<1>4. NoteTypes'
  BY <1>1, <1>3 DEF NoteTypes, NoteTypeOK, Claims
<1>5. \A t \in Sinks : \A n \in GotBy(t) : n \in Nat
  BY NoteShapes
<1>6. ClaimsOK'
  <2>1. ASSUME NEW t \in Sinks, NEW n \in GotBy(t)
        PROVE  /\ n \in DOMAIN notes /\ n < claiming'[t].pos /\ notes[n].status # "pending"
               /\ t \in notes[n].targets /\ returned[n][t] = 0
    <3>1. /\ n \in DOMAIN notes /\ n < claiming[t].pos /\ notes[n].status # "pending"
          /\ t \in notes[n].targets /\ returned[n][t] = 0
      BY <2>1 DEF NoteInv, ClaimsOK
    <3>2. n \in Nat /\ claiming[t].pos \in Nat /\ (t = s => f.pos \in Nat /\ f.pos >= claiming[t].pos)
      BY <1>2, <1>5, NoteShapes DEF Claims, Scans
    <3> QED
      BY <1>3, <3>1, <3>2
  <2>2. ASSUME NEW t \in Sinks, claiming'[t].tested
        PROVE  /\ claiming'[t].pos \in DOMAIN notes /\ t \in notes[claiming'[t].pos].targets
               /\ returned[claiming'[t].pos][t] = 0
    <3>1. CASE t = s
      <4>1. f.tested /\ f.pos \in DOMAIN notes /\ notes[f.pos].status = "pending" /\ s \in notes[f.pos].targets
        BY <1>2, <1>3, <2>2, <3>1 DEF Scans
      <4>2. returned[f.pos][s] = 0
        BY <4>1, NoteShapes DEF NoteInv, ReturnsOK
      <4> QED
        BY <1>3, <3>1, <4>1, <4>2
    <3>2. CASE t # s
      BY <1>3, <2>2, <3>2 DEF NoteInv, ClaimsOK
    <3> QED
      BY <3>1, <3>2
  <2>3. (\A t \in Sinks : \A n \in GotBy(t) :
           /\ n \in DOMAIN notes /\ n < claiming[t].pos /\ notes[n].status # "pending"
           /\ t \in notes[n].targets /\ returned[n][t] = 0)'
    BY <1>1, <1>3, <2>1
  <2> QED
    BY <1>1, <2>2, <2>3 DEF ClaimsOK
<1>7. ReturnsOK'
  BY <1>1 DEF NoteInv, ReturnsOK
<1>8. OneAtATime'
  <2> SUFFICES ASSUME alone PROVE OneAtATime'
    BY <1>1 DEF OneAtATime
  <2>1. /\ (\A t, u \in Sinks : InClaim(t) /\ InClaim(u) => t = u)'
        /\ (\A t \in Sinks : InClaim(t) => message = {})'
    BY <1>1, <1>2, <1>3 DEF NoteInv, OneAtATime, Scans
  <2>2. (\A t \in Sinks : claiming[t].tested => notes[claiming[t].pos].status = "pending")'
    BY <1>1, <1>2, <1>3 DEF NoteInv, OneAtATime, Scans
  <2>3. (\A t, u \in Sinks : \A m \in GotBy(t) : returned[m][u] = 0)'
    BY <1>1, <1>3 DEF NoteInv, OneAtATime
  <2>4. /\ \A n \in message : notes[n].status = "pending"
        /\ \A n \in DOMAIN notes : \A t, u \in Sinks : returned[n][t] > 0 /\ returned[n][u] > 0 => t = u
    BY DEF NoteInv, OneAtATime
  <2> QED
    BY <1>1, <2>1, <2>2, <2>3, <2>4 DEF OneAtATime
<1>9. ClaimedIsGiven'
  <2>1. \A t \in Sinks : GotBy(t)' = GotBy(t)
    BY <1>3
  <2> QED
    BY <1>1, <2>1 DEF NoteInv, ClaimedIsGiven
<1>10. AckStays'
  BY <1>1 DEF NoteInv, AckStays, Shares
<1> QED
  BY <1>4, <1>6, <1>7, <1>8, <1>9, <1>10 DEF NoteInv

LEMMA TakeKeeps ==
  ASSUME NoteTypes, NoteInv, NEW s \in Sinks, Take(s)
  PROVE  NoteTypes' /\ NoteInv'
<1> USE NotificationAssumption
<1> DEFINE n == claiming[s].pos
           got == claiming[s].got
<1>0. PICK f : f = [pos |-> n + 1, got |-> Append(got, n), tested |-> FALSE]
  OBVIOUS
<1>1. /\ UNCHANGED <<alone, message, saveErrors, returned, unreturned, ackedOnce>>
      /\ claiming' = [claiming EXCEPT ![s] = f]
      /\ notes' = [notes EXCEPT ![n].status = "claimed"]
      /\ InClaim(s) /\ claiming[s].tested
  BY <1>0, NoteShapes DEF Take
<1>2. /\ n \in DOMAIN notes /\ n \in 1..MaxNotes /\ s \in notes[n].targets /\ returned[n][s] = 0
      /\ got \in Seq(1..MaxNotes) /\ n \in Nat
  BY <1>1, NoteShapes DEF NoteInv, ClaimsOK
<1>3. f \in Claims /\ f.pos = n + 1 /\ ~ f.tested /\ GotOf(f) = GotBy(s) \cup {n}
  <2> HIDE DEF n, got
  <2>1. /\ Append(got, n) \in Seq(1..MaxNotes)
        /\ DOMAIN Append(got, n) = 1..(Len(got) + 1) /\ DOMAIN got = 1..Len(got) /\ Len(got) \in Nat
        /\ Append(got, n)[Len(got) + 1] = n
        /\ \A k \in 1..Len(got) : Append(got, n)[k] = got[k]
    BY <1>2
  <2>2. {Append(got, n)[k] : k \in DOMAIN Append(got, n)} = {got[k] : k \in DOMAIN got} \cup {n}
    BY <2>1
  <2>3. f.pos = n + 1 /\ ~ f.tested /\ f.got = Append(got, n)
    BY <1>0
  <2>4. f \in Claims
    BY <1>0, <1>2, <2>1 DEF Claims
  <2>5. GotBy(s) = {got[k] : k \in DOMAIN got}
    BY DEF GotBy, got
  <2> QED
    BY <2>2, <2>3, <2>4, <2>5 DEF GotOf
<1> HIDE DEF got
<1>4. /\ \A t \in Sinks : claiming'[t] = IF t = s THEN f ELSE claiming[t]
      /\ \A t \in Sinks : t # s => GotBy(t)' = GotBy(t) /\ (InClaim(t)' <=> InClaim(t))
      /\ GotBy(s)' = GotBy(s) \cup {n} /\ InClaim(s)' /\ claiming' \in [Sinks -> Claims]
  <2>1. /\ \A t \in Sinks : claiming'[t] = IF t = s THEN f ELSE claiming[t]
        /\ \A t \in Sinks : t # s => GotBy(t)' = GotBy(t) /\ (InClaim(t)' <=> InClaim(t))
        /\ GotBy(s)' = GotOf(f) /\ (InClaim(s)' <=> f.pos > 0)
        /\ claiming' \in [Sinks -> Claims]
    <3>1. claiming' = [claiming EXCEPT ![s] = f] /\ f \in Claims
      BY <1>1, <1>3
    <3> HIDE DEF n, got
    <3> QED
      BY <3>1, ClaimChanges
  <2>2. f.pos > 0
    BY <1>2, <1>3
  <2> QED
    BY <1>3, <2>1, <2>2
<1>5. /\ notes' \in Seq(Note) /\ Len(notes') = Len(notes) /\ DOMAIN notes' = DOMAIN notes
      /\ \A m \in DOMAIN notes :
           /\ notes'[m].targets = notes[m].targets /\ notes'[m].id = notes[m].id
           /\ notes'[m].status = IF m = n THEN "claimed" ELSE notes[m].status
  BY <1>1, <1>2, StatusChanges
<1> HIDE DEF n
<1>6. NoteTypes'
  BY <1>1, <1>4, <1>5 DEF NoteTypes, NoteTypeOK, Claims, Note
<1>7. ClaimsOK'
  <2>1. ASSUME NEW t \in Sinks, NEW m \in GotBy(t)'
        PROVE  /\ m \in DOMAIN notes /\ m < claiming'[t].pos /\ notes'[m].status # "pending"
               /\ t \in notes[m].targets /\ returned[m][t] = 0
    <3>1. CASE m \in GotBy(t)
      <4>1. /\ m \in DOMAIN notes /\ m < claiming[t].pos /\ notes[m].status # "pending"
            /\ t \in notes[m].targets /\ returned[m][t] = 0 /\ m \in Nat /\ claiming[t].pos \in Nat
        BY <3>1, NoteShapes DEF NoteInv, ClaimsOK
      <4>2. m < claiming'[t].pos
        BY <1>2, <1>3, <1>4, <4>1 DEF n
      <4> QED
        BY <1>5, <4>1, <4>2
    <3>2. CASE t = s /\ m = n
      BY <1>2, <1>3, <1>4, <1>5, <3>2
    <3> QED
      BY <1>4, <2>1, <3>1, <3>2
  <2>2. ASSUME NEW t \in Sinks, claiming'[t].tested
        PROVE  /\ claiming'[t].pos \in DOMAIN notes /\ t \in notes[claiming'[t].pos].targets
               /\ returned[claiming'[t].pos][t] = 0
    <3>1. t # s /\ claiming'[t] = claiming[t]
      BY <1>3, <1>4, <2>2
    <3> QED
      BY <2>2, <3>1 DEF NoteInv, ClaimsOK
  <2> QED
    BY <1>1, <1>5, <2>1, <2>2 DEF ClaimsOK
<1>8. ReturnsOK'
  BY <1>1, <1>5 DEF NoteInv, ReturnsOK
<1>9. alone => notes[n].status = "pending"
  BY <1>1 DEF NoteInv, OneAtATime, n
<1>10. OneAtATime'
  <2> SUFFICES ASSUME alone PROVE OneAtATime'
    BY <1>1 DEF OneAtATime
  <2>1. /\ (\A t, u \in Sinks : InClaim(t) /\ InClaim(u) => t = u)'
        /\ (\A t \in Sinks : InClaim(t) => message = {})'
    BY <1>1, <1>4 DEF NoteInv, OneAtATime
  <2>2. message = {}
    BY <1>1 DEF NoteInv, OneAtATime
  <2>3. \A t \in Sinks : ~ claiming'[t].tested
    <3>1. ASSUME NEW t \in Sinks, t # s PROVE ~ claiming[t].tested
      <4>1. ~ InClaim(t)
        BY <1>1, <3>1 DEF NoteInv, OneAtATime
      <4> QED
        BY <4>1, NoteShapes DEF NoteInv, ClaimsOK, InClaim
    <3> QED
      BY <1>3, <1>4, <3>1
  <2>4. \A u \in Sinks : returned[n][u] = 0
    BY <1>2, <1>9, NoteShapes DEF NoteInv, ReturnsOK
  <2>5. (\A t, u \in Sinks : \A m \in GotBy(t) : returned[m][u] = 0)'
    BY <1>1, <1>4, <2>4 DEF NoteInv, OneAtATime
  <2>6. \A m \in DOMAIN notes : \A t, u \in Sinks : returned[m][t] > 0 /\ returned[m][u] > 0 => t = u
    BY DEF NoteInv, OneAtATime
  <2> QED
    BY <1>1, <1>5, <2>1, <2>2, <2>3, <2>5, <2>6 DEF OneAtATime
<1>11. ClaimedIsGiven'
  <2>1. \A t \in Sinks : GotBy(t) \subseteq GotBy(t)'
    BY <1>4
  <2>2. n \in GotBy(s)'
    BY <1>4
  <2> QED
    BY <1>1, <1>5, <2>1, <2>2 DEF NoteInv, ClaimedIsGiven
<1>12. AckStays'
  <2>1. \A m \in DOMAIN notes : Shares(m)' <=> Shares(m)
    BY <1>5 DEF Shares
  <2> QED
    BY <1>1, <1>5, <1>9, <2>1 DEF NoteInv, AckStays, NoteTypes
<1> QED
  BY <1>6, <1>7, <1>8, <1>10, <1>11, <1>12 DEF NoteInv

\* A claim is over: it returns what it got, or its save raises.
LEMMA EndKeeps ==
  ASSUME NoteTypes, NoteInv, NEW s \in Sinks, EndClaim(s) \/ ClaimRaises(s)
  PROVE  NoteTypes' /\ NoteInv'
<1> USE NotificationAssumption
<1>1. /\ UNCHANGED <<alone, notes, message, ackedOnce>>
      /\ claiming' = [claiming EXCEPT ![s] = NoClaim]
      /\ saveErrors' \in 0..MaxSaveErrors /\ InClaim(s)
  BY DEF EndClaim, ClaimRaises, ClaimOver, SaveRaises, NoteTypes, NoteTypeOK
<1>2. /\ NoClaim \in Claims /\ NoClaim.pos = 0 /\ ~ NoClaim.tested /\ GotOf(NoClaim) = {}
  BY DEF NoClaim, Claims, GotOf
<1>3. /\ \A t \in Sinks : claiming'[t] = IF t = s THEN NoClaim ELSE claiming[t]
      /\ \A t \in Sinks : t # s => GotBy(t)' = GotBy(t) /\ (InClaim(t)' <=> InClaim(t))
      /\ GotBy(s)' = {} /\ ~ InClaim(s)' /\ claiming' \in [Sinks -> Claims]
  <2>1. PICK f : f = NoClaim
    OBVIOUS
  <2>2. f \in Claims /\ f.pos = 0 /\ GotOf(f) = {}
    BY <1>2, <2>1
  <2>3. claiming' = [claiming EXCEPT ![s] = f]
    BY <1>1, <2>1
  <2>4. /\ \A t \in Sinks : claiming'[t] = IF t = s THEN f ELSE claiming[t]
        /\ \A t \in Sinks : t # s => GotBy(t)' = GotBy(t) /\ (InClaim(t)' <=> InClaim(t))
        /\ GotBy(s)' = GotOf(f) /\ (InClaim(s)' <=> f.pos > 0)
        /\ f \in Claims => claiming' \in [Sinks -> Claims]
    BY <2>3, ClaimChanges
  <2> QED
    BY <2>1, <2>2, <2>4
<1>4. \/ /\ EndClaim(s) /\ unreturned' = unreturned
         /\ returned' = [n \in DOMAIN notes |-> IF n \in GotBy(s) THEN [returned[n] EXCEPT ![s] = @ + 1]
                                                                 ELSE returned[n]]
      \/ ClaimRaises(s) /\ unreturned' = unreturned \cup GotBy(s) /\ returned' = returned
  BY DEF EndClaim, ClaimRaises
<1>5. \A n \in DOMAIN notes, t \in Sinks :
        returned'[n][t] = IF EndClaim(s) /\ t = s /\ n \in GotBy(s) THEN returned[n][t] + 1 ELSE returned[n][t]
  <2>1. CASE EndClaim(s)
    BY <1>4, <2>1, NoteShapes DEF EndClaim
  <2>2. CASE ~ EndClaim(s)
    BY <1>4, <2>2
  <2> QED
    BY <2>1, <2>2
<1>6. returned' \in Seq([Sinks -> Nat]) /\ Len(returned') = Len(notes) /\ DOMAIN returned' = DOMAIN notes
  <2>1. ASSUME EndClaim(s) PROVE returned' \in [1..Len(notes) -> [Sinks -> Nat]]
    <3>1. \A n \in DOMAIN notes : [returned[n] EXCEPT ![s] = returned[n][s] + 1] \in [Sinks -> Nat]
      BY NoteShapes
    <3> QED
      BY <2>1, <3>1, NoteShapes DEF EndClaim
  <2>2. Len(notes) \in Nat /\ Len(returned) = Len(notes) /\ DOMAIN returned = DOMAIN notes
        /\ returned \in Seq([Sinks -> Nat]) /\ DOMAIN notes = 1..Len(notes)
    BY NoteShapes DEF NoteTypes, NoteTypeOK
  <2>3. CASE EndClaim(s)
    <3> DEFINE size == Len(notes)
               row == [Sinks -> Nat]
    <3>1. size \in Nat /\ returned' \in [1..size -> row]
      BY <2>1, <2>2, <2>3
    <3> HIDE DEF row
    <3>2. returned' \in Seq(row) /\ Len(returned') = size /\ DOMAIN returned' = 1..size
      BY <3>1
    <3> USE DEF row
    <3> QED
      BY <2>2, <3>2
  <2>4. CASE ~ EndClaim(s)
    BY <1>4, <2>2, <2>4
  <2> QED
    BY <2>3, <2>4
<1>7. NoteTypes'
  <2>1. unreturned' \subseteq 1..MaxNotes
    BY <1>4, NoteShapes DEF NoteTypes, NoteTypeOK
  <2> QED
    BY <1>1, <1>3, <1>6, <2>1 DEF NoteTypes, NoteTypeOK, Claims
<1>8. \A n \in GotBy(s) : n \in DOMAIN notes /\ returned[n][s] = 0 /\ notes[n].status # "pending"
                          /\ s \in notes[n].targets
  BY DEF NoteInv, ClaimsOK
<1>9. ClaimsOK'
  <2>1. \A t \in Sinks : \A n \in GotBy(t)' : t # s /\ n \in GotBy(t)
    BY <1>3
  <2>2. (\A t \in Sinks : \A n \in GotBy(t) :
           /\ n \in DOMAIN notes /\ n < claiming[t].pos /\ notes[n].status # "pending"
           /\ t \in notes[n].targets /\ returned[n][t] = 0)'
    BY <1>1, <1>3, <1>5, <2>1 DEF NoteInv, ClaimsOK
  <2>3. (\A t \in Sinks : claiming[t].tested =>
           /\ claiming[t].pos \in DOMAIN notes /\ t \in notes[claiming[t].pos].targets
           /\ returned[claiming[t].pos][t] = 0)'
    BY <1>1, <1>2, <1>3, <1>5 DEF NoteInv, ClaimsOK
  <2> QED
    BY <2>2, <2>3 DEF ClaimsOK
<1>10. ReturnsOK'
  <2> SUFFICES ASSUME NEW n \in DOMAIN notes, NEW t \in Sinks
               PROVE  /\ returned'[n][t] <= 1
                      /\ returned'[n][t] > 0 => notes[n].status # "pending" /\ t \in notes[n].targets
    BY <1>1 DEF ReturnsOK
  <2>1. /\ returned[n][t] <= 1 /\ returned[n][t] \in Nat
        /\ returned[n][t] > 0 => notes[n].status # "pending" /\ t \in notes[n].targets
    BY NoteShapes DEF NoteInv, ReturnsOK
  <2> QED
    BY <1>5, <1>8, <2>1
<1>11. OneAtATime'
  <2> SUFFICES ASSUME alone PROVE OneAtATime'
    BY <1>1 DEF OneAtATime
  <2>1. (\A t, u \in Sinks : InClaim(t) /\ InClaim(u) => t = u)'
        /\ (\A t \in Sinks : InClaim(t) => message = {})'
    BY <1>1, <1>3 DEF NoteInv, OneAtATime
  <2>2. (\A t \in Sinks : claiming[t].tested => notes[claiming[t].pos].status = "pending")'
    BY <1>1, <1>2, <1>3 DEF NoteInv, OneAtATime
  <2>3. \A t \in Sinks : GotBy(t)' = {}
    <3>1. ASSUME NEW t \in Sinks, t # s PROVE GotBy(t) = {}
      <4>1. ~ InClaim(t)
        BY <1>1, <3>1 DEF NoteInv, OneAtATime
      <4>2. \A n \in GotBy(t) : n \in Nat /\ n < claiming[t].pos /\ claiming[t].pos = 0
        BY <4>1, NoteShapes DEF NoteInv, ClaimsOK, InClaim
      <4> QED
        BY <4>2
    <3> QED
      BY <1>3, <3>1
  <2>4. ASSUME NEW n \in DOMAIN notes, NEW t \in Sinks, NEW u \in Sinks,
               returned'[n][t] > 0, returned'[n][u] > 0
        PROVE  t = u
    <3>1. CASE EndClaim(s) /\ n \in GotBy(s)
      <4>1. returned[n][t] = 0 /\ returned[n][u] = 0
        BY <3>1 DEF NoteInv, OneAtATime
      <4> QED
        BY <1>5, <2>4, <4>1
    <3>2. CASE ~ (EndClaim(s) /\ n \in GotBy(s))
      BY <1>5, <2>4, <3>2 DEF NoteInv, OneAtATime
    <3> QED
      BY <3>1, <3>2
  <2>5. \A n \in message : notes[n].status = "pending"
    BY DEF NoteInv, OneAtATime
  <2>6. (\A t, u \in Sinks : \A m \in GotBy(t) : returned[m][u] = 0)'
    BY <2>3
  <2> QED
    BY <1>1, <2>1, <2>2, <2>4, <2>5, <2>6 DEF OneAtATime
<1>12. \A n \in DOMAIN notes, t \in Sinks : returned[n][t] > 0 => returned'[n][t] > 0
  <2> SUFFICES ASSUME NEW n \in DOMAIN notes, NEW t \in Sinks, returned[n][t] > 0
               PROVE  returned'[n][t] > 0
    OBVIOUS
  <2>1. returned[n][t] \in Nat
    BY NoteShapes
  <2>2. CASE EndClaim(s) /\ t = s /\ n \in GotBy(s)
    <3>1. returned'[n][t] = returned[n][t] + 1
      BY <1>5, <2>2
    <3> QED
      BY <2>1, <3>1
  <2>3. CASE ~ (EndClaim(s) /\ t = s /\ n \in GotBy(s))
    <3>1. returned'[n][t] = returned[n][t]
      BY <1>5, <2>3
    <3> QED
      BY <3>1
  <2> QED
    BY <2>2, <2>3
<1>13. ClaimedIsGiven'
  <2> SUFFICES ASSUME NEW n \in DOMAIN notes, notes[n].status # "pending"
               PROVE  n \in unreturned' \/ \E t \in Sinks : returned'[n][t] > 0 \/ n \in GotBy(t)'
    BY <1>1 DEF ClaimedIsGiven
  <2>1. n \in unreturned \/ \E t \in Sinks : returned[n][t] > 0 \/ n \in GotBy(t)
    BY DEF NoteInv, ClaimedIsGiven
  <2>2. CASE n \in GotBy(s)
    <3>1. EndClaim(s) => returned'[n][s] > 0
      BY <1>5, <1>8, <2>2
    <3> QED
      BY <1>4, <2>2, <3>1
  <2>3. CASE n \notin GotBy(s)
    BY <1>3, <1>4, <1>12, <2>1, <2>3
  <2> QED
    BY <2>2, <2>3
<1>14. AckStays'
  BY <1>1, <1>12 DEF NoteInv, AckStays, NoteTypes, Shares
<1> QED
  BY <1>7, <1>9, <1>10, <1>11, <1>13, <1>14 DEF NoteInv

\* A notification that is claimed, and was given to a sink or shares its instant
\* with another when one acts at a time, is acknowledged.
LEMMA AcknowledgedKeeps ==
  ASSUME NoteTypes, NoteInv, NEW n \in DOMAIN notes, notes[n].status = "claimed", Acked(n),
         message' \subseteq message, SaveRaises \/ UNCHANGED saveErrors,
         alone => (\E s \in Sinks : returned[n][s] > 0) \/ Shares(n),
         UNCHANGED <<alone, claiming, returned, unreturned>>
  PROVE  NoteTypes' /\ NoteInv'
<1>1. /\ notes' \in Seq(Note) /\ Len(notes') = Len(notes) /\ DOMAIN notes' = DOMAIN notes
      /\ \A m \in DOMAIN notes :
           /\ notes'[m].targets = notes[m].targets /\ notes'[m].id = notes[m].id
           /\ notes'[m].status = IF m = n THEN "acked" ELSE notes[m].status
  BY StatusChanges DEF Acked
<1>2. \A t \in Sinks : GotBy(t)' = GotBy(t) /\ (InClaim(t)' <=> InClaim(t))
  BY DEF GotBy, InClaim
<1>3. n \in 1..MaxNotes
  BY NoteShapes
<1>4. NoteTypes'
  <2>1. saveErrors' \in 0..MaxSaveErrors
    BY NotificationAssumption DEF SaveRaises, NoteTypes, NoteTypeOK
  <2>2. ackedOnce' = ackedOnce \cup {n}
    BY DEF Acked
  <2> QED
    BY <1>1, <1>3, <2>1, <2>2 DEF NoteTypes, NoteTypeOK, Note
<1>5. \A m \in DOMAIN notes : notes[m].status # "pending" <=> notes'[m].status # "pending"
  BY <1>1
<1>6. ClaimsOK'
  BY <1>1, <1>2, <1>5 DEF NoteInv, ClaimsOK
<1>7. ReturnsOK'
  BY <1>1, <1>5 DEF NoteInv, ReturnsOK
<1>8. OneAtATime'
  <2> SUFFICES ASSUME alone PROVE OneAtATime'
    BY DEF OneAtATime
  <2>1. (\A t, u \in Sinks : InClaim(t) /\ InClaim(u) => t = u)'
        /\ (\A t \in Sinks : InClaim(t) => message = {})'
    BY <1>2 DEF NoteInv, OneAtATime
  <2>2. \A t \in Sinks : claiming[t].tested => notes'[claiming[t].pos].status = "pending"
    BY <1>5 DEF NoteInv, OneAtATime, ClaimsOK
  <2>3. (\A t, u \in Sinks : \A m \in GotBy(t) : returned[m][u] = 0)'
    BY <1>2 DEF NoteInv, OneAtATime
  <2>4. \A m \in message : m \in DOMAIN notes /\ notes[m].status = "pending"
    BY DEF NoteInv, OneAtATime, NoteTypes, NoteTypeOK
  <2>5. \A m \in message' : notes'[m].status = "pending"
    BY <1>5, <2>4
  <2>6. \A m \in DOMAIN notes : \A t, u \in Sinks : returned[m][t] > 0 /\ returned[m][u] > 0 => t = u
    BY DEF NoteInv, OneAtATime
  <2> QED
    BY <1>1, <2>1, <2>2, <2>3, <2>5, <2>6 DEF OneAtATime
<1>9. ClaimedIsGiven'
  BY <1>1, <1>2, <1>5 DEF NoteInv, ClaimedIsGiven
<1>10. AckStays'
  <2>1. \A m \in DOMAIN notes : Shares(m)' <=> Shares(m)
    BY <1>1 DEF Shares
  <2>2. ackedOnce' = ackedOnce \cup {n}
    BY DEF Acked
  <2> QED
    BY <1>1, <2>1, <2>2 DEF NoteInv, AckStays, NoteTypes
<1> QED
  BY <1>4, <1>6, <1>7, <1>8, <1>9, <1>10 DEF NoteInv

\* The message for the model is begun, or passes a notification.
LEMMA MessageKeeps ==
  ASSUME NoteTypes, NoteInv, message' \subseteq DOMAIN notes,
         alone => /\ \A n \in message' : notes[n].status = "pending"
                  /\ \A t \in Sinks : InClaim(t) => message' = {},
         UNCHANGED <<alone, notes, claiming, saveErrors, returned, unreturned, ackedOnce>>
  PROVE  NoteTypes' /\ NoteInv'
<1>1. \A t \in Sinks : GotBy(t)' = GotBy(t) /\ (InClaim(t)' <=> InClaim(t))
  BY DEF GotBy, InClaim
<1>2. NoteTypes'
  BY DEF NoteTypes, NoteTypeOK
<1>3. ClaimsOK' /\ ReturnsOK' /\ ClaimedIsGiven' /\ AckStays'
  BY <1>1 DEF NoteInv, ClaimsOK, ReturnsOK, ClaimedIsGiven, AckStays, Shares
<1>4. OneAtATime'
  BY <1>1 DEF NoteInv, OneAtATime
<1> QED
  BY <1>2, <1>3, <1>4 DEF NoteInv

LEMMA NotesStep == NoteTypes /\ NoteInv /\ [NoteNext]_noteVars => NoteTypes' /\ NoteInv'
<1> SUFFICES ASSUME NoteTypes, NoteInv, [NoteNext]_noteVars PROVE NoteTypes' /\ NoteInv'
  OBVIOUS
<1>1. ASSUME NEW s \in Sinks, NEW n \in DOMAIN notes, Ack(s, n) PROVE NoteTypes' /\ NoteInv'
  <2>1. PICK k \in DOMAIN notes : FoundBy(notes[n].id, k) /\ Acked(k)
    BY <1>1 DEF Ack
  <2>2. /\ returned[n][s] > 0 /\ message' \subseteq message
        /\ SaveRaises \/ UNCHANGED saveErrors
        /\ UNCHANGED <<alone, claiming, returned, unreturned>>
    BY <1>1 DEF Ack
  <2>3. notes[k].status = "claimed" /\ (k = n \/ Shares(k))
    BY <2>1 DEF FoundBy, Shares
  <2> QED
    BY <2>1, <2>2, <2>3, AcknowledgedKeeps
<1>2. ASSUME BeginMessage PROVE NoteTypes' /\ NoteInv'
  <2>1. /\ message' \subseteq DOMAIN notes /\ \A n \in message' : notes[n].status = "pending"
        /\ alone => \A t \in Sinks : ~ InClaim(t)
        /\ UNCHANGED <<alone, notes, claiming, saveErrors, returned, unreturned, ackedOnce>>
    BY <1>2 DEF BeginMessage, Wanted
  <2> QED
    BY <2>1, MessageKeeps
<1>3. ASSUME NEW n \in message, AckInMessage(n) PROVE NoteTypes' /\ NoteInv'
  <2>1. /\ message' \subseteq message /\ UNCHANGED <<alone, claiming, returned, unreturned>>
        /\ SaveRaises \/ UNCHANGED saveErrors
        /\ n \in DOMAIN notes
    BY <1>3 DEF AckInMessage, NoteTypes, NoteTypeOK
  <2>2. ASSUME NEW k \in DOMAIN notes, FoundBy(notes[n].id, k), Acked(k)
        PROVE  NoteTypes' /\ NoteInv'
    <3>1. notes[k].status = "claimed" /\ (k = n \/ Shares(k))
      BY <2>1, <2>2 DEF FoundBy, Shares
    <3>2. alone => k # n
      BY <3>1 DEF NoteInv, OneAtATime
    <3> QED
      BY <2>1, <2>2, <3>1, <3>2, AcknowledgedKeeps
  <2>3. CASE ~ \E k \in DOMAIN notes : FoundBy(notes[n].id, k) /\ Acked(k)
    <3>1. notes' = notes /\ ackedOnce' = ackedOnce /\ saveErrors' = saveErrors
      BY <1>3, <2>3 DEF AckInMessage
    <3>2. /\ message' \subseteq DOMAIN notes
          /\ alone => /\ \A m \in message' : notes[m].status = "pending"
                      /\ \A t \in Sinks : InClaim(t) => message' = {}
      BY <2>1 DEF NoteInv, OneAtATime, NoteTypes, NoteTypeOK
    <3> QED
      BY <2>1, <3>1, <3>2, MessageKeeps
  <2> QED
    BY <2>2, <2>3
<1>4. CASE UNCHANGED noteVars
  <2>1. UNCHANGED <<alone, notes, claiming, message, saveErrors, returned, unreturned, ackedOnce>>
    BY <1>4 DEF noteVars
  <2>2. message' \subseteq DOMAIN notes
        /\ (alone => /\ \A m \in message' : notes[m].status = "pending"
                     /\ \A t \in Sinks : InClaim(t) => message' = {})
    BY <2>1 DEF NoteInv, OneAtATime, NoteTypes, NoteTypeOK
  <2> QED
    BY <2>1, <2>2, MessageKeeps
<1> QED
  BY <1>1, <1>2, <1>3, <1>4, NotifyKeeps, ScanKeeps, TakeKeeps, EndKeeps DEF NoteNext

\* The notifications, and what claims carry, keep their shapes (notify, claim,
\* ack, build_llm_message).
THEOREM NotificationTypes == NoteSpec => []NoteTypeOK
<1>1. NoteTypes => NoteTypeOK
  BY DEF NoteTypes
<1> QED
  BY <1>1, NotesInitially, NotesStep, PTL DEF NoteSpec

\* No sink is given a notification twice, however claims interleave; nothing
\* claimed is lost but with a save that raised; and one at a time, one sink is
\* given it and only such a sink acknowledges it, for good, unless two were made
\* in one microsecond and share an identifier (notify, claim, ack).
THEOREM NotificationsArrive == NoteSpec => []NotesDelivered
<1>1. NoteTypes /\ NoteInv => NotesDelivered
  <2> SUFFICES ASSUME NoteTypes, NoteInv PROVE GivenOnce
    BY DEF NoteInv, NotesDelivered
  <2>1. ASSUME NEW n \in DOMAIN notes, alone
        PROVE  Cardinality({s \in Sinks : returned[n][s] = 1}) <= 1
    <3> DEFINE S == {s \in Sinks : returned[n][s] = 1}
    <3>1. \A s, t \in S : s = t
      BY <2>1 DEF NoteInv, OneAtATime
    <3>2. CASE S = {}
      <4>1. Cardinality(S) = 0
        BY <3>2, FS_EmptySet
      <4> QED
        BY <4>1
    <3>3. ASSUME NEW s \in S PROVE Cardinality(S) <= 1
      <4>1. S = {s}
        BY <3>1
      <4>2. Cardinality(S) = 1
        BY <4>1, FS_Singleton
      <4> QED
        BY <4>2
    <3> QED
      BY <3>2, <3>3
  <2>2. \A n \in DOMAIN notes : \A s \in Sinks :
          returned[n][s] <= 1 /\ (returned[n][s] = 1 => s \in notes[n].targets)
    BY DEF NoteInv, ReturnsOK
  <2> QED
    BY <2>1, <2>2 DEF GivenOnce
<1> QED
  BY <1>1, NotesInitially, NotesStep, PTL DEF NoteSpec

-----------------------------------------------------------------------------
(***************************************************************************)
(* Numbers: a least one exists, and numbers that have all smaller ones     *)
(* with them are an interval.                                              *)
(***************************************************************************)
LEMMA LeastNumber ==
  ASSUME NEW S \in SUBSET Nat, S # {}
  PROVE  \E x \in S : \A y \in S : x <= y
<1> DEFINE R == OpToRel(<, Nat)
<1>1. IsWellFoundedOn(R, Nat)
  BY NatLessThanWellFounded
<1>2. \A x, y \in Nat : x < y => <<x, y>> \in R
  BY DEF OpToRel
<1> HIDE DEF R
<1>3. PICK x \in S : \A y \in S : <<y, x>> \notin R
  BY <1>1, WFMin
<1>4. \A y \in S : ~ (y < x)
  BY <1>2, <1>3
<1> QED
  BY <1>3, <1>4

LEMMA IsInterval ==
  ASSUME NEW n \in Nat, NEW S \in SUBSET (1..n),
         \A i \in S : \A j \in 1..i : j \in S
  PROVE  Cardinality(S) \in 0..n /\ S = 1..Cardinality(S)
<1>1. PICK a \in 0..n : S = 1..a
  <2> DEFINE Out == {i \in 1..(n + 1) : i \notin S}
  <2>1. Out \in SUBSET Nat /\ n + 1 \in Out
    OBVIOUS
  <2>2. PICK x \in Out : \A y \in Out : x <= y
    BY <2>1, LeastNumber
  <2>3. x \in 1..(n + 1) /\ x \notin S /\ x - 1 \in 0..n
    BY <2>2
  <2>4. \A i \in 1..n : i \notin S => x <= i
    BY <2>2
  <2>5. \A i \in S : i \in 1..n /\ i < x
    BY <2>3
  <2>6. S = 1..(x - 1)
    <3>1. ASSUME NEW i \in S PROVE i \in 1..(x - 1)
      BY <2>3, <2>5
    <3>2. ASSUME NEW i \in 1..(x - 1) PROVE i \in S
      <4>1. i \in 1..n /\ ~ (x <= i)
        BY <2>3
      <4> QED
        BY <2>4, <4>1
    <3> QED
      BY <3>1, <3>2
  <2> QED
    BY <2>3, <2>6
<1>2. Cardinality(1..a) = a
  BY FS_Interval
<1> QED
  BY <1>1, <1>2

-----------------------------------------------------------------------------
(***************************************************************************)
(* The guard against repetition.  A call that was recorded in this step    *)
(* lies in the history as deep as there were records since; and a call is  *)
(* checked past the level only if its check at the level was answered.     *)
(***************************************************************************)
Records == [call : Calls, step : 0..MaxAgentSteps]

RepetitionShapes ==
  /\ maxHistory \in Nat /\ maxHistory # 0
  /\ recent \in Seq(Records) /\ Len(recent) <= maxHistory
  /\ counts \in [Calls -> 0..MaxChecks] /\ callRuns \in [Calls -> 0..MaxChecks]
  /\ agentStep \in 0..MaxAgentSteps /\ stopped \in BOOLEAN
  /\ running \subseteq Calls /\ absorbed \subseteq Calls
  /\ since \in [Calls -> 0..(maxHistory + 1)]

\* The record of c is the n-th from the end of the history.
LiesAt(list, c, step, n) ==
  n <= Len(list) /\ list[Len(list) + 1 - n] = [call |-> c, step |-> step]

RepetitionInv ==
  /\ RepetitionShapes
  /\ reran = FALSE
  /\ \A c \in Calls : since[c] \in 1..maxHistory => LiesAt(recent, c, agentStep, since[c])
  /\ \A c \in Calls : callRuns[c] <= counts[c]
  /\ \A c \in Calls \ absorbed :
       callRuns[c] < ForceStopAt /\ (counts[c] < ForceStopAt \/ stopped)

LEMMA RepetitionInitially == RepetitionInit => RepetitionInv
<1> SUFFICES ASSUME RepetitionInit PROVE RepetitionInv
  OBVIOUS
<1>1. maxHistory \in Nat /\ maxHistory # 0
  BY RepetitionAssumption DEF RepetitionInit
<1>2. 0 \in 0..MaxChecks /\ 0 \in 0..MaxAgentSteps /\ 0 \in 0..(maxHistory + 1)
  BY <1>1, RepetitionAssumption
<1>3. recent \in Seq(Records) /\ Len(recent) = 0
  BY DEF RepetitionInit
<1>4. RepetitionShapes
  <2>1. Unrecorded \in [Calls -> 0..MaxChecks] /\ Unrecorded \in [Calls -> 0..(maxHistory + 1)]
    BY <1>2 DEF Unrecorded
  <2>2. Len(recent) <= maxHistory
    BY <1>1, <1>3
  <2> QED
    BY <1>1, <1>2, <1>3, <2>1, <2>2 DEF RepetitionInit, RepetitionShapes
<1>5. \A c \in Calls : counts[c] = 0 /\ callRuns[c] = 0 /\ since[c] = 0
  BY DEF RepetitionInit, Unrecorded
<1> QED
  BY <1>4, <1>5 DEF RepetitionInit, RepetitionInv, ForceStopAt

LEMMA CheckKeeps == ASSUME RepetitionInv, NEW c \in Calls, Check(c) PROVE RepetitionInv'
<1>1. /\ ~ stopped /\ counts[c] < MaxChecks
      /\ counts' = [counts EXCEPT ![c] = @ + 1]
      /\ UNCHANGED <<maxHistory, recent, agentStep, since>>
  BY DEF Check, Idle
<1>2. /\ counts \in [Calls -> 0..MaxChecks] /\ callRuns \in [Calls -> 0..MaxChecks] /\ MaxChecks \in Nat
      /\ \A d \in Calls : counts[d] \in Nat /\ callRuns[d] \in Nat /\ callRuns[d] <= counts[d]
      /\ \A d \in Calls \ absorbed : callRuns[d] < ForceStopAt /\ counts[d] < ForceStopAt
  BY <1>1, RepetitionAssumption DEF RepetitionInv, RepetitionShapes
<1>3. /\ counts'[c] = counts[c] + 1 /\ counts' \in [Calls -> 0..MaxChecks]
      /\ \A d \in Calls : d # c => counts'[d] = counts[d]
  BY <1>1, <1>2
<1>4. CASE MadeInThisStep(c)
  <2>1. /\ absorbed' = IF counts'[c] = ForceStopAt THEN absorbed \cup {c} ELSE absorbed
        /\ UNCHANGED <<running, stopped, callRuns, reran>>
    BY <1>4 DEF Check
  <2>2. \A d \in Calls : callRuns'[d] <= counts'[d]
    BY <1>2, <1>3, <2>1
  <2>3. \A d \in Calls \ absorbed' : callRuns'[d] < ForceStopAt /\ counts'[d] < ForceStopAt
    <3> SUFFICES ASSUME NEW d \in Calls \ absorbed'
                 PROVE  callRuns'[d] < ForceStopAt /\ counts'[d] < ForceStopAt
      OBVIOUS
    <3>1. d \in Calls \ absorbed
      BY <2>1
    <3>2. CASE d = c
      <4>1. counts'[c] # ForceStopAt
        BY <2>1, <3>2
      <4> QED
        BY <1>2, <1>3, <2>1, <3>1, <3>2, <4>1 DEF ForceStopAt
    <3>3. CASE d # c
      BY <1>2, <1>3, <2>1, <3>1, <3>3
    <3> QED
      BY <3>2, <3>3
  <2>4. absorbed' \subseteq Calls
    BY <2>1 DEF RepetitionInv, RepetitionShapes
  <2>5. RepetitionShapes'
    BY <1>1, <1>3, <2>1, <2>4 DEF RepetitionInv, RepetitionShapes
  <2> QED
    BY <1>1, <2>1, <2>2, <2>3, <2>5 DEF RepetitionInv
<1>5. CASE ~ MadeInThisStep(c)
  <2>1. /\ stopped' = (counts'[c] = ForceStopAt)
        /\ running' = IF stopped' THEN {} ELSE {c}
        /\ callRuns' = IF stopped' THEN callRuns ELSE [callRuns EXCEPT ![c] = @ + 1]
        /\ reran' = (reran \/ (~ stopped' /\ since[c] \in 1..maxHistory))
        /\ absorbed' = absorbed
    BY <1>5 DEF Check
  <2>2. since[c] \notin 1..maxHistory
    <3> SUFFICES ASSUME since[c] \in 1..maxHistory PROVE FALSE
      OBVIOUS
    <3>1. PICK n \in Nat : n = Len(recent)
      BY DEF RepetitionInv, RepetitionShapes
    <3>2. /\ since[c] \in Nat /\ since[c] >= 1 /\ since[c] <= n
          /\ recent[n + 1 - since[c]] = [call |-> c, step |-> agentStep]
      BY <3>1 DEF RepetitionInv, RepetitionShapes, LiesAt
    <3>3. n + 1 - since[c] \in 1..n /\ DOMAIN recent = 1..n
      BY <3>1, <3>2 DEF RepetitionInv, RepetitionShapes
    <3> QED
      BY <1>5, <3>2, <3>3 DEF MadeInThisStep
  <2>3. reran' = FALSE /\ stopped' \in BOOLEAN /\ running' \subseteq Calls
    BY <2>1, <2>2 DEF RepetitionInv
  <2>4. /\ callRuns' \in [Calls -> 0..MaxChecks] /\ \A d \in Calls : d # c => callRuns'[d] = callRuns[d]
        /\ callRuns'[c] = IF counts'[c] = ForceStopAt THEN callRuns[c] ELSE callRuns[c] + 1
    <3>1. callRuns[c] + 1 \in 0..MaxChecks
      BY <1>1, <1>2
    <3> QED
      BY <1>2, <2>1, <3>1
  <2>5. \A d \in Calls : callRuns'[d] <= counts'[d]
    <3> SUFFICES ASSUME NEW d \in Calls PROVE callRuns'[d] <= counts'[d]
      OBVIOUS
    <3>1. CASE d = c
      BY <1>2, <1>3, <2>4, <3>1
    <3>2. CASE d # c
      BY <1>2, <1>3, <2>4, <3>2
    <3> QED
      BY <3>1, <3>2
  <2>6. \A d \in Calls \ absorbed' :
          callRuns'[d] < ForceStopAt /\ (counts'[d] < ForceStopAt \/ stopped')
    <3> SUFFICES ASSUME NEW d \in Calls \ absorbed
                 PROVE  callRuns'[d] < ForceStopAt /\ (counts'[d] < ForceStopAt \/ stopped')
      BY <2>1
    <3>1. CASE d = c
      <4>1. counts'[c] < ForceStopAt \/ counts'[c] = ForceStopAt
        BY <1>2, <1>3, <3>1 DEF ForceStopAt
      <4>2. callRuns'[c] < ForceStopAt
        <5>1. CASE counts'[c] = ForceStopAt
          BY <1>2, <2>4, <3>1, <5>1
        <5>2. CASE counts'[c] < ForceStopAt
          <6>1. callRuns'[c] <= counts'[c] /\ callRuns'[c] \in Int /\ counts'[c] \in Int
            BY <1>2, <1>3, <2>4, <2>5
          <6> QED
            BY <5>2, <6>1 DEF ForceStopAt
        <5> QED
          BY <4>1, <5>1, <5>2
      <4> QED
        BY <2>1, <3>1, <4>1, <4>2
    <3>2. CASE d # c
      BY <1>2, <1>3, <2>4, <3>2
    <3> QED
      BY <3>1, <3>2
  <2>7. RepetitionShapes'
    BY <1>1, <1>3, <2>1, <2>3, <2>4 DEF RepetitionInv, RepetitionShapes
  <2> QED
    BY <1>1, <2>3, <2>5, <2>6, <2>7 DEF RepetitionInv
<1> QED
  BY <1>4, <1>5

\* A deque that is full loses its first record, and all others move by one.
LEMMA RecordedLast ==
  ASSUME RepetitionShapes, NEW r \in Records
  PROVE  /\ Recorded(r) \in Seq(Records) /\ Len(Recorded(r)) \in 1..maxHistory
         /\ Recorded(r)[Len(Recorded(r))] = r
         /\ \A n \in 1..Len(recent) : n < maxHistory =>
              /\ n + 1 <= Len(Recorded(r))
              /\ Recorded(r)[Len(Recorded(r)) - n] = recent[Len(recent) + 1 - n]
<1>1. PICK m \in Nat : m = Len(recent) /\ recent \in Seq(Records) /\ DOMAIN recent = 1..m
  BY DEF RepetitionShapes
<1>2. maxHistory \in Nat /\ maxHistory # 0 /\ m <= maxHistory
  BY <1>1 DEF RepetitionShapes
<1> HIDE DEF Records
<1>3. CASE m = maxHistory
  <2>1. PICK q : q = Tail(recent)
    OBVIOUS
  <2>2. /\ q \in Seq(Records) /\ Len(q) = m - 1 /\ \A i \in 1..(m - 1) : q[i] = recent[i + 1]
    BY <1>1, <1>2, <1>3, <2>1
  <2>3. PICK p : p = Append(q, r)
    OBVIOUS
  <2>4. p \in Seq(Records) /\ Len(p) = m /\ p[m] = r /\ \A i \in 1..(m - 1) : p[i] = recent[i + 1]
    BY <1>1, <1>2, <1>3, <2>2, <2>3
  <2>5. Recorded(r) = p
    BY <1>1, <1>3, <2>1, <2>3 DEF Recorded
  <2>6. ASSUME NEW n \in 1..m, n < m PROVE n + 1 <= m /\ p[m - n] = recent[m + 1 - n]
    <3>1. m - n \in 1..(m - 1) /\ (m - n) + 1 = m + 1 - n
      BY <2>6
    <3> QED
      BY <2>4, <2>6, <3>1
  <2> QED
    BY <1>1, <1>2, <1>3, <2>4, <2>5, <2>6
<1>4. CASE m # maxHistory
  <2>3. PICK p : p = Append(recent, r)
    OBVIOUS
  <2>4. p \in Seq(Records) /\ Len(p) = m + 1 /\ p[m + 1] = r /\ \A i \in 1..m : p[i] = recent[i]
    BY <1>1, <2>3
  <2>5. Recorded(r) = p
    BY <1>1, <1>4, <2>3 DEF Recorded
  <2>6. ASSUME NEW n \in 1..m PROVE n + 1 <= m + 1 /\ p[(m + 1) - n] = recent[m + 1 - n]
    <3>1. (m + 1) - n \in 1..m
      OBVIOUS
    <3> QED
      BY <2>4, <3>1
  <2>7. m + 1 \in 1..maxHistory
    BY <1>2, <1>4
  <2> QED
    BY <1>1, <2>4, <2>5, <2>6, <2>7
<1> QED
  BY <1>3, <1>4

LEMMA RecordKeeps == ASSUME RepetitionInv, NEW c \in Calls, Record(c) PROVE RepetitionInv'
<1>1. /\ running' = {} /\ recent' = Recorded([call |-> c, step |-> agentStep])
      /\ since' = [d \in Calls |-> IF d = c THEN 1
                                    ELSE IF since[d] \in 1..maxHistory THEN since[d] + 1
                                    ELSE since[d]]
      /\ UNCHANGED <<maxHistory, counts, agentStep, stopped, callRuns, absorbed, reran>>
  BY DEF Record
<1>2. PICK r \in Records : r = [call |-> c, step |-> agentStep]
  BY DEF RepetitionInv, RepetitionShapes, Records
<1>3. PICK n \in Nat : n = Len(recent') /\ n \in 1..maxHistory
  BY <1>1, <1>2, RecordedLast DEF RepetitionInv
<1>4. /\ recent' \in Seq(Records) /\ recent'[n] = r
      /\ \A i \in 1..Len(recent) : i < maxHistory =>
           i + 1 <= n /\ recent'[n - i] = recent[Len(recent) + 1 - i]
  BY <1>1, <1>2, <1>3, RecordedLast DEF RepetitionInv
<1>5. maxHistory \in Nat /\ maxHistory # 0 /\ since \in [Calls -> 0..(maxHistory + 1)]
  BY DEF RepetitionInv, RepetitionShapes
<1>6. since' \in [Calls -> 0..(maxHistory + 1)]
  <2>1. \A d \in Calls : since'[d] \in 0..(maxHistory + 1)
    BY <1>1, <1>5
  <2> QED
    BY <1>1, <2>1
<1>7. ASSUME NEW d \in Calls, since'[d] \in 1..maxHistory
      PROVE  LiesAt(recent', d, agentStep, since'[d])
  <2>1. CASE d = c
    <3>1. since'[d] = 1 /\ n + 1 - 1 = n /\ 1 <= n
      BY <1>1, <1>3, <2>1
    <3> QED
      BY <1>2, <1>3, <1>4, <2>1, <3>1 DEF LiesAt
  <2>2. CASE d # c
    <3>1. since[d] \in 1..maxHistory /\ since'[d] = since[d] + 1 /\ since[d] < maxHistory
      BY <1>1, <1>5, <1>7, <2>2
    <3>2. PICK i \in Nat : i = since[d]
      BY <3>1
    <3>3. LiesAt(recent, d, agentStep, i)
      BY <3>1, <3>2 DEF RepetitionInv
    <3>4. PICK l \in Nat : l = Len(recent)
      BY DEF RepetitionInv, RepetitionShapes
    <3>5. i \in 1..l /\ i < maxHistory
      BY <3>1, <3>2, <3>3, <3>4 DEF LiesAt
    <3>6. i + 1 <= n /\ recent'[n - i] = [call |-> d, step |-> agentStep]
      BY <1>4, <3>3, <3>4, <3>5 DEF LiesAt
    <3>7. n + 1 - (i + 1) = n - i
      BY <1>3
    <3> QED
      BY <1>3, <3>1, <3>2, <3>6, <3>7 DEF LiesAt
  <2> QED
    BY <2>1, <2>2
<1>8. RepetitionShapes'
  BY <1>1, <1>3, <1>4, <1>6 DEF RepetitionInv, RepetitionShapes
<1> QED
  BY <1>1, <1>7, <1>8 DEF RepetitionInv

LEMMA RepetitionStep == RepetitionInv /\ [RepetitionNext]_repetitionVars => RepetitionInv'
<1> SUFFICES ASSUME RepetitionInv, [RepetitionNext]_repetitionVars PROVE RepetitionInv'
  OBVIOUS
<1>1. maxHistory \in Nat /\ 0 \in 0..MaxChecks /\ 0 \in 0..MaxAgentSteps /\ 0 \in 0..(maxHistory + 1)
  BY RepetitionAssumption DEF RepetitionInv, RepetitionShapes
<1>2. CASE NewStep
  <2>1. \A c \in Calls : since'[c] = 0
    BY <1>2 DEF NewStep, Unrecorded
  <2>2. agentStep' \in 0..MaxAgentSteps
    BY <1>2, RepetitionAssumption DEF NewStep, RepetitionInv, RepetitionShapes
  <2>3. RepetitionShapes'
    BY <1>1, <1>2, <2>2 DEF NewStep, RepetitionInv, RepetitionShapes, Unrecorded
  <2> QED
    BY <1>2, <2>1, <2>3 DEF NewStep, RepetitionInv
<1>3. CASE Reset
  <2>1. \A c \in Calls : since'[c] = 0 /\ counts'[c] = 0 /\ callRuns'[c] = 0
    BY <1>3 DEF Reset, Unrecorded
  <2>2. recent' \in Seq(Records) /\ Len(recent') = 0
    BY <1>3 DEF Reset
  <2>3. RepetitionShapes'
    <3>1. Unrecorded \in [Calls -> 0..MaxChecks] /\ Unrecorded \in [Calls -> 0..(maxHistory + 1)]
      BY <1>1 DEF Unrecorded
    <3>2. Len(recent') <= maxHistory
      BY <1>1, <2>2
    <3> QED
      BY <1>1, <1>3, <2>2, <3>1, <3>2 DEF Reset, RepetitionInv, RepetitionShapes
  <2> QED
    BY <1>3, <2>1, <2>3 DEF Reset, RepetitionInv, ForceStopAt
<1>4. ASSUME NEW c \in Calls, RunFails(c) PROVE RepetitionInv'
  <2>1. RepetitionShapes'
    BY <1>4 DEF RunFails, RepetitionInv, RepetitionShapes
  <2> QED
    BY <1>4, <2>1 DEF RunFails, RepetitionInv
<1>5. CASE UNCHANGED repetitionVars
  <2>1. RepetitionShapes'
    BY <1>5 DEF repetitionVars, RepetitionInv, RepetitionShapes
  <2> QED
    BY <1>5, <2>1 DEF repetitionVars, RepetitionInv
<1> QED
  BY <1>2, <1>3, <1>4, <1>5, CheckKeeps, RecordKeeps DEF RepetitionNext

LEMMA RepetitionFits == RepetitionInv => RepetitionTypeOK /\ RepetitionGuarded
<1> SUFFICES ASSUME RepetitionInv PROVE RepetitionTypeOK /\ RepetitionGuarded
  OBVIOUS
<1>1. RepetitionGuarded
  BY DEF RepetitionInv, RepetitionGuarded, NoNeedlessRerun, RunsBounded
<1>2. reran \in BOOLEAN
  BY DEF RepetitionInv
<1>3. RepetitionTypeOK
  BY <1>2 DEF RepetitionInv, RepetitionShapes, Records, RepetitionTypeOK
<1> QED
  BY <1>1, <1>3

\* Types of the guard against repetition, and of the counts it keeps.
THEOREM RepetitionTypes == RepetitionSpec => []RepetitionTypeOK
  BY RepetitionInitially, RepetitionStep, RepetitionFits, PTL DEF RepetitionSpec

\* No call is run again while the history still answers it, and none runs past the
\* level of the forced stop unless its check at that level was answered
\* (dedup.py), for any calls, length of the history and number of steps.
THEOREM RepetitionIsGuarded == RepetitionSpec => []RepetitionGuarded
  BY RepetitionInitially, RepetitionStep, RepetitionFits, PTL DEF RepetitionSpec

-----------------------------------------------------------------------------
(***************************************************************************)
(* The flow runner.  However the nodes are ranked along the edges, a run   *)
(* goes up in rank, so that it repeats no node if they can be ranked.      *)
(***************************************************************************)
\* Each edge between nodes leads to a node of higher rank.
LeadsUp(rank) ==
  \A k \in DOMAIN edges : edges[k].target \in FlowNodes =>
                            rank[edges[k].source] < rank[edges[k].target]

\* A run went up in rank so far, and goes up further.
RunGoesUp(rank) ==
  /\ \A j, k \in DOMAIN executed : j < k => rank[executed[j]] < rank[executed[k]]
  /\ flowPhase = "run" /\ at \in FlowNodes => \A k \in DOMAIN executed : rank[executed[k]] < rank[at]

FlowShapes ==
  /\ edges \in Seq(Edges) /\ startNode \in FlowEnds
  /\ flowPhase \in {"between", "run", "over"} /\ looping \in BOOLEAN
  /\ at \in FlowNodes \cup {NoNode}
  /\ nodeStatus \in [FlowNodes -> {"pending", "completed", "failed"}]
  /\ executed \in Seq(FlowNodes) /\ iteration \in 0..MaxIterations

FlowInv ==
  /\ FlowShapes
  /\ \A rank \in [FlowNodes -> Int] : LeadsUp(rank) => RunGoesUp(rank)
  /\ looping /\ flowPhase = "run" => iteration < MaxIterations
  /\ StatusesAreFresh
  /\ AnotherIterationIsNeeded

LEMMA FlowInitially == FlowInit => FlowInv
<1> SUFFICES ASSUME FlowInit PROVE FlowInv
  OBVIOUS
<1>1. edges \in Seq(Edges) /\ executed \in Seq(FlowNodes) /\ DOMAIN executed = {}
  BY DEF FlowInit
<1>2. 0 \in 0..MaxIterations
  BY FlowAssumption
<1>3. FlowShapes
  BY <1>1, <1>2 DEF FlowInit, FlowShapes, AllPending
<1>4. \A rank \in [FlowNodes -> Int] : RunGoesUp(rank)
  BY <1>1 DEF FlowInit, RunGoesUp
<1> QED
  BY <1>3, <1>4 DEF FlowInit, FlowInv, StatusesAreFresh, AnotherIterationIsNeeded

\* A run begins with nothing executed.
LEMMA BeginningGoesUp == ASSUME NEW rank, executed' = <<>> PROVE RunGoesUp(rank)'
  BY DEF RunGoesUp

LEMMA NextNodeFollowsAnEdge ==
  ASSUME FlowShapes, NEW n \in FlowNodes, NEW met \in BOOLEAN
  PROVE  NextNode(n, met) = NoNode \/ \E k \in DOMAIN edges : edges[k].source = n /\ NextNode(n, met) = edges[k].target
<1>1. CASE Outgoing(n) = {}
  BY <1>1 DEF NextNode
<1>2. CASE Outgoing(n) # {}
  <2> DEFINE open == {k \in Outgoing(n) : edges[k].conditional => met}
             s == IF open = {} THEN Outgoing(n) ELSE open
  <2>1. s # {} /\ s \subseteq Outgoing(n)
    BY <1>2
  <2>2. s \in SUBSET Nat
    BY <2>1 DEF Outgoing, FlowShapes
  <2>3. \E k \in s : \A j \in s : k <= j
    BY <2>1, <2>2, LeastNumber
  <2>4. Min(s) \in s
    BY <2>3 DEF Min
  <2>5. NextNode(n, met) = edges[Min(s)].target
    BY <1>2 DEF NextNode
  <2> HIDE DEF s
  <2>6. Min(s) \in DOMAIN edges /\ edges[Min(s)].source = n
    BY <2>1, <2>4 DEF Outgoing
  <2> QED
    BY <2>5, <2>6
<1> QED
  BY <1>1, <1>2

LEMMA ExecuteNodeKeeps ==
  ASSUME FlowInv, NEW ok \in BOOLEAN, NEW met \in BOOLEAN, ExecuteNode(ok, met)
  PROVE  FlowInv'
<1> DEFINE outcome == IF ok THEN "completed" ELSE "failed"
<1>1. /\ flowPhase = "run" /\ at \in FlowNodes
      /\ nodeStatus' = [nodeStatus EXCEPT ![at] = outcome]
      /\ executed' = Append(executed, at) /\ at' = NextNode(at, met)
      /\ UNCHANGED <<edges, startNode, flowPhase, looping, iteration>>
  BY DEF ExecuteNode
<1>2. outcome \in {"completed", "failed"}
  OBVIOUS
<1> HIDE DEF outcome
<1>3. FlowShapes
  BY DEF FlowInv
<1>4. PICK n \in Nat : n = Len(executed) /\ DOMAIN executed = 1..n
  BY <1>3 DEF FlowShapes
<1>5. /\ executed' \in Seq(FlowNodes) /\ DOMAIN executed' = 1..(n + 1) /\ executed'[n + 1] = at
      /\ \A k \in 1..n : executed'[k] = executed[k] /\ executed[k] \in FlowNodes
  BY <1>1, <1>3, <1>4 DEF FlowShapes
<1>6. \A k \in 1..(n + 1) : k \in 1..n \/ k = n + 1
  OBVIOUS
<1>7. at' = NoNode \/ \E k \in DOMAIN edges : edges[k].source = at /\ at' = edges[k].target
  BY <1>1, <1>3, NextNodeFollowsAnEdge
<1>8. FlowShapes'
  <2>1. \A k \in DOMAIN edges : edges[k].target \in FlowNodes \cup {NoNode}
    <3>1. \A k \in DOMAIN edges : edges[k] \in Edges
      BY <1>3 DEF FlowShapes
    <3>2. \A e \in Edges : e.target \in FlowNodes \cup {NoNode}
      BY DEF Edges
    <3> QED
      BY <3>1, <3>2
  <2>2. at' \in FlowNodes \cup {NoNode}
    BY <1>7, <2>1
  <2>3. nodeStatus' \in [FlowNodes -> {"pending", "completed", "failed"}]
    BY <1>1, <1>2, <1>3 DEF FlowShapes
  <2> QED
    BY <1>1, <1>3, <1>5, <2>2, <2>3 DEF FlowShapes
<1>9. ASSUME NEW rank \in [FlowNodes -> Int], LeadsUp(rank)' PROVE RunGoesUp(rank)'
  <2>1. LeadsUp(rank)
    BY <1>1, <1>9 DEF LeadsUp
  <2>2. /\ \A j, k \in 1..n : j < k => rank[executed[j]] < rank[executed[k]]
        /\ \A k \in 1..n : rank[executed[k]] < rank[at]
    BY <1>1, <1>4, <2>1 DEF FlowInv, RunGoesUp
  <2>3. \A j, k \in 1..(n + 1) : j < k => rank[executed'[j]] < rank[executed'[k]]
    <3> SUFFICES ASSUME NEW j \in 1..(n + 1), NEW k \in 1..(n + 1), j < k
                 PROVE  rank[executed'[j]] < rank[executed'[k]]
      OBVIOUS
    <3>1. j \in 1..n
      OBVIOUS
    <3>2. CASE k \in 1..n
      BY <1>5, <2>2, <3>1, <3>2
    <3>3. CASE k = n + 1
      BY <1>5, <2>2, <3>1, <3>3
    <3> QED
      BY <1>6, <3>2, <3>3
  <2>4. ASSUME at' \in FlowNodes, NEW k \in 1..(n + 1) PROVE rank[executed'[k]] < rank[at']
    <3>1. rank[at] < rank[at']
      BY <1>7, <2>1, <2>4, FlowAssumption DEF LeadsUp
    <3>2. CASE k = n + 1
      BY <1>5, <3>1, <3>2
    <3>3. CASE k \in 1..n
      <4>1. rank[executed'[k]] < rank[at] /\ executed'[k] \in FlowNodes
        BY <1>5, <2>2, <3>3
      <4>2. rank[executed'[k]] \in Int /\ rank[at] \in Int /\ rank[at'] \in Int
        BY <1>1, <2>4, <4>1
      <4> QED
        BY <3>1, <4>1, <4>2
    <3> QED
      BY <1>6, <3>2, <3>3
  <2> QED
    BY <1>5, <2>3, <2>4 DEF RunGoesUp
<1>10. StatusesAreFresh'
  <2> SUFFICES ASSUME looping, NEW m \in FlowNodes
               PROVE  nodeStatus'[m] = "pending" <=> m \notin ToSet(executed')
    BY <1>1 DEF StatusesAreFresh
  <2>1. m \in ToSet(executed') <=> m = at \/ m \in ToSet(executed)
    BY <1>4, <1>5, <1>6 DEF ToSet
  <2>2. nodeStatus[m] = "pending" <=> m \notin ToSet(executed)
    BY DEF FlowInv, StatusesAreFresh
  <2>3. nodeStatus'[m] = IF m = at THEN outcome ELSE nodeStatus[m]
    BY <1>1, <1>3 DEF FlowShapes
  <2> QED
    BY <1>2, <2>1, <2>2, <2>3
<1>11. AnotherIterationIsNeeded'
  BY <1>1 DEF AnotherIterationIsNeeded
<1>12. looping' /\ flowPhase' = "run" => iteration' < MaxIterations'
  BY <1>1 DEF FlowInv
<1> QED
  BY <1>8, <1>9, <1>10, <1>11, <1>12 DEF FlowInv

LEMMA FlowStep == FlowInv /\ [FlowNext]_flowVars => FlowInv'
<1> SUFFICES ASSUME FlowInv, [FlowNext]_flowVars PROVE FlowInv'
  OBVIOUS
<1>1. FlowShapes /\ MaxIterations \in Nat /\ FlowEnds \subseteq FlowNodes \cup {NoNode}
  BY FlowAssumption DEF FlowInv
<1>2. ToSet(<<>>) = {} /\ <<>> \in Seq(FlowNodes)
  BY DEF ToSet
<1>3. CASE RunFlow
  <2>1. FlowShapes'
    BY <1>1, <1>2, <1>3 DEF RunFlow, FlowShapes
  <2>2. \A rank \in [FlowNodes -> Int] : RunGoesUp(rank)'
    BY <1>3, BeginningGoesUp DEF RunFlow
  <2> QED
    BY <1>3, <2>1, <2>2 DEF RunFlow, FlowInv, StatusesAreFresh, AnotherIterationIsNeeded
<1>4. CASE Iterate
  <2>1. FlowShapes'
    BY <1>1, <1>2, <1>4 DEF Iterate, FlowShapes, AllPending
  <2>2. \A rank \in [FlowNodes -> Int] : RunGoesUp(rank)'
    BY <1>4, BeginningGoesUp DEF Iterate
  <2>3. StatusesAreFresh'
    BY <1>2, <1>4 DEF Iterate, StatusesAreFresh, AllPending
  <2> QED
    BY <1>4, <2>1, <2>2, <2>3 DEF Iterate, FlowInv, AnotherIterationIsNeeded
<1>5. CASE RunReturns
  <2>1. iteration' \in 0..MaxIterations /\ flowPhase' \in {"between", "over"}
    BY <1>1, <1>5 DEF RunReturns, FlowInv, FlowShapes
  <2>2. FlowShapes'
    BY <1>1, <1>5, <2>1 DEF RunReturns, FlowShapes
  <2>3. ASSUME NEW rank \in [FlowNodes -> Int], LeadsUp(rank)' PROVE RunGoesUp(rank)'
    <3>1. LeadsUp(rank)
      BY <1>5, <2>3 DEF RunReturns, LeadsUp
    <3> QED
      BY <1>5, <2>1, <3>1 DEF RunReturns, FlowInv, RunGoesUp
  <2>4. StatusesAreFresh'
    BY <1>5 DEF RunReturns, FlowInv, StatusesAreFresh
  <2>5. AnotherIterationIsNeeded'
    <3> SUFFICES ASSUME looping, ~ AllCompleted PROVE \E n \in FlowNodes : nodeStatus[n] = "failed"
      BY <1>5 DEF RunReturns, AnotherIterationIsNeeded
    <3>1. PICK n \in ToSet(executed) : nodeStatus[n] # "completed"
      BY DEF AllCompleted
    <3>2. n \in FlowNodes
      BY <1>1 DEF ToSet, FlowShapes
    <3>3. nodeStatus[n] # "pending"
      BY <3>2 DEF FlowInv, StatusesAreFresh
    <3> QED
      BY <1>1, <3>1, <3>2, <3>3 DEF FlowShapes
  <2> QED
    BY <2>1, <2>2, <2>3, <2>4, <2>5 DEF FlowInv
<1>6. CASE LoopGivesUp
  <2>1. FlowShapes'
    BY <1>1, <1>6 DEF LoopGivesUp, FlowShapes
  <2>2. ASSUME NEW rank \in [FlowNodes -> Int], LeadsUp(rank)' PROVE RunGoesUp(rank)'
    <3>1. LeadsUp(rank)
      BY <1>6, <2>2 DEF LoopGivesUp, LeadsUp
    <3> QED
      BY <1>6, <3>1 DEF LoopGivesUp, FlowInv, RunGoesUp
  <2> QED
    BY <1>6, <2>1, <2>2 DEF LoopGivesUp, FlowInv, StatusesAreFresh, AnotherIterationIsNeeded
<1>7. ASSUME NEW e \in Edges, AddEdge(e) PROVE FlowInv'
  <2>1. edges' \in Seq(Edges)
    BY <1>1, <1>7 DEF AddEdge, FlowShapes
  <2>2. FlowShapes'
    BY <1>1, <1>7, <2>1 DEF AddEdge, FlowShapes
  <2>3. \A rank \in [FlowNodes -> Int] : RunGoesUp(rank)'
    BY <1>7, BeginningGoesUp DEF AddEdge
  <2> QED
    BY <1>7, <2>2, <2>3 DEF AddEdge, FlowInv, StatusesAreFresh, AnotherIterationIsNeeded
<1>8. CASE UNCHANGED flowVars
  <2>1. FlowShapes'
    BY <1>1, <1>8 DEF flowVars, FlowShapes
  <2>2. \A rank \in [FlowNodes -> Int] : LeadsUp(rank)' => RunGoesUp(rank)'
    BY <1>8 DEF flowVars, FlowInv, LeadsUp, RunGoesUp
  <2> QED
    BY <1>8, <2>1, <2>2 DEF flowVars, FlowInv, StatusesAreFresh, AnotherIterationIsNeeded
<1> QED
  BY <1>3, <1>4, <1>5, <1>6, <1>7, <1>8, ExecuteNodeKeeps DEF FlowNext

LEMMA FlowFits == FlowInv => FlowTypeOK /\ FlowRunsSound
<1> SUFFICES ASSUME FlowInv PROVE FlowTypeOK /\ FlowRunsSound
  OBVIOUS
<1>1. AcyclicRunsEnd
  <2> SUFFICES ASSUME Acyclic PROVE IsInjective(executed)
    BY DEF AcyclicRunsEnd
  <2>1. PICK rank \in [FlowNodes -> 1..Cardinality(FlowNodes)] : LeadsUp(rank)
    BY DEF Acyclic, LeadsUp
  <2>2. rank \in [FlowNodes -> Int]
    OBVIOUS
  <2>3. \A j, k \in DOMAIN executed : j < k => rank[executed[j]] < rank[executed[k]]
    BY <2>1, <2>2 DEF FlowInv, RunGoesUp
  <2>4. \A k \in DOMAIN executed : k \in Nat /\ rank[executed[k]] \in Int
    BY <2>2 DEF FlowInv, FlowShapes
  <2>5. \A j, k \in DOMAIN executed : executed[j] = executed[k] => j = k
    BY <2>3, <2>4
  <2> QED
    BY <2>5 DEF IsInjective
<1> QED
  BY <1>1 DEF FlowInv, FlowShapes, FlowTypeOK, FlowRunsSound

\* Types of the flow runner.
THEOREM FlowTypes == FlowSpec => []FlowTypeOK
  BY FlowInitially, FlowStep, FlowFits, PTL DEF FlowSpec

\* For every graph: runs of a graph without cycles repeat no node, what a loop
\* reads are statuses of this run, and another iteration has a failure to repair.
THEOREM FlowRunsAreSound == FlowSpec => []FlowRunsSound
  BY FlowInitially, FlowStep, FlowFits, PTL DEF FlowSpec

-----------------------------------------------------------------------------
(***************************************************************************)
(* Pipelines.  The outcomes are those of the first names, so the output    *)
(* went through positions that all are behind the next step.               *)
(***************************************************************************)
PipelineInv ==
  /\ registered \subseteq StepNames
  /\ pipeline \in Seq(StepNames) /\ Len(pipeline) <= MaxPipeline
  /\ gates \subseteq Positions /\ permitted \subseteq Positions
  /\ position \in 0 .. Len(pipeline) + 1
  /\ outcomes \in Seq({"output", "unknown", "denied", "error"})
  /\ current \in Seq(Nat)
  /\ position > 0 => Len(outcomes) = position - 1
  /\ StopsWhereItMust
  /\ \A k \in DOMAIN current : current[k] \in DOMAIN outcomes
  /\ OutputIsOfSteps

LEMMA PipelineInitially == PipelineInit => PipelineInv
<1> SUFFICES ASSUME PipelineInit PROVE PipelineInv
  OBVIOUS
<1>1. StopsWhereItMust
  BY DEF PipelineInit, StopsWhereItMust
<1>2. OutputIsOfSteps
  BY DEF PipelineInit, OutputIsOfSteps, Contains, Range
<1> QED
  BY <1>1, <1>2, PipelineAssumption DEF PipelineInit, PipelineInv

LEMMA BeginKeeps ==
  ASSUME PipelineInv, NEW names \in SeqOf(StepNames, MaxPipeline), NEW asking \in SUBSET Positions,
         BeginPipeline(names, asking)
  PROVE  PipelineInv'
<1>1. names \in Seq(StepNames) /\ Len(names) \in 0..MaxPipeline
  BY PipelineAssumption DEF SeqOf
<1>2. StopsWhereItMust'
  BY <1>1 DEF BeginPipeline, StopsWhereItMust
<1>3. OutputIsOfSteps'
  BY DEF BeginPipeline, OutputIsOfSteps, Contains, Range
<1> QED
  BY <1>1, <1>2, <1>3 DEF BeginPipeline, PipelineInv

LEMMA RunStepKeeps == ASSUME PipelineInv, RunStep PROVE PipelineInv'
<1>1. /\ position \in 1..Len(pipeline) /\ Len(outcomes) = position - 1
      /\ Len(pipeline) \in Nat /\ Len(outcomes) \in Nat
  BY DEF RunStep, PipelineInv
<1>2. \A k \in DOMAIN outcomes : outcomes[k] \notin {"denied", "error"}
  BY <1>1 DEF PipelineInv, StopsWhereItMust
<1>3. approved = TRUE
  BY <1>2 DEF PipelineInv, StopsWhereItMust
<1> DEFINE Does(w) ==
        /\ outcomes' = Append(outcomes, w)
        /\ position' = IF w \in {"denied", "error"} THEN 0 ELSE position + 1
        /\ current' = IF w = "output" THEN Append(current, position) ELSE current
        /\ approved' = (w # "denied")
        /\ permitted \subseteq permitted'
        /\ permitted' \subseteq permitted \cup ({position} \cap gates)
        /\ w = "output" => {position} \cap gates \subseteq permitted'
        /\ UNCHANGED <<registered, pipeline, gates>>
<1>4. PICK w \in {"output", "unknown", "denied", "error"} : Does(w)
  <2>1. CASE PassOver
    <3>1. Does("unknown")
      BY <2>1, <1>3 DEF PassOver, Outcome, RunStep
    <3> QED
      BY <3>1
  <2>2. CASE Deny
    <3>1. Does("denied")
      BY <2>2, <1>3 DEF Deny, Outcome, RunStep
    <3> QED
      BY <3>1
  <2>3. ASSUME NEW ok \in BOOLEAN, Run(ok) PROVE \E w \in {"output", "unknown", "denied", "error"} : Does(w)
    <3>1. Does(IF ok THEN "output" ELSE "error")
      BY <2>3, <1>3 DEF Run, Outcome, RunStep
    <3> QED
      BY <3>1
  <2> QED
    BY <2>1, <2>2, <2>3 DEF RunStep
<1>5. /\ Len(outcomes') = position /\ position \in Nat /\ outcomes'[position] = w
      /\ \A k \in DOMAIN outcomes : outcomes'[k] = outcomes[k]
      /\ DOMAIN outcomes = 1..(position - 1) /\ DOMAIN outcomes' = 1..position
      /\ outcomes' \in Seq({"output", "unknown", "denied", "error"})
  BY <1>1, <1>4 DEF PipelineInv
<1>6. \A k \in 1..position : k \in 1..(position - 1) \/ k = position
  BY <1>1
<1>7. StopsWhereItMust'
  <2>1. Len(outcomes') <= Len(pipeline')
    BY <1>1, <1>4, <1>5
  <2>2. \A i \in DOMAIN outcomes' : outcomes'[i] \in {"denied", "error"} => i = Len(outcomes') /\ position' = 0
    BY <1>2, <1>4, <1>5, <1>6
  <2>3. (position' = 0 /\ Len(outcomes') < Len(pipeline')) =>
          /\ outcomes' # <<>> /\ Last(outcomes') \in {"denied", "error"}
    BY <1>1, <1>4, <1>5 DEF Last
  <2>4. approved' <=> \A i \in DOMAIN outcomes' : outcomes'[i] # "denied"
    <3>1. (\A i \in DOMAIN outcomes' : outcomes'[i] # "denied") <=> w # "denied"
      <4>1. CASE w = "denied"
        BY <4>1, <1>1, <1>5
      <4>2. CASE w # "denied"
        <5>1. \A i \in DOMAIN outcomes : outcomes'[i] # "denied"
          BY <1>2, <1>5
        <5> QED
          BY <4>2, <5>1, <1>5, <1>6
      <4> QED
        BY <4>1, <4>2
    <3>2. approved' <=> w # "denied"
      BY <1>4
    <3> QED
      BY <3>1, <3>2
  <2> QED
    BY <2>1, <2>2, <2>3, <2>4 DEF StopsWhereItMust
<1>8. /\ current' \in Seq(Nat) /\ \A k \in DOMAIN current' : current'[k] \in DOMAIN outcomes'
      /\ \A i, j \in DOMAIN current' : i < j => current'[i] < current'[j]
      /\ \A i \in DOMAIN outcomes' : outcomes'[i] = "output" <=> \E k \in DOMAIN current' : current'[k] = i
      /\ Range(current') \cap gates' \subseteq permitted'
  <2>1. /\ current \in Seq(Nat) /\ \A k \in DOMAIN current : current[k] \in 1..(position - 1)
        /\ \A i, j \in DOMAIN current : i < j => current[i] < current[j]
    BY <1>5 DEF PipelineInv, OutputIsOfSteps
  <2>4. \A i \in DOMAIN outcomes : outcomes[i] = "output" <=> \E k \in DOMAIN current : current[k] = i
    BY <2>1 DEF PipelineInv, OutputIsOfSteps, Contains
  <2>5. \A k \in DOMAIN current : current[k] \in gates => current[k] \in permitted
    BY DEF PipelineInv, OutputIsOfSteps, Range
  <2>2. CASE w # "output"
    <3>1. current' = current /\ gates' = gates /\ permitted \subseteq permitted'
      BY <2>2, <1>4
    <3>2. \A i \in DOMAIN outcomes' : outcomes'[i] = "output" <=> \E k \in DOMAIN current : current[k] = i
      BY <2>1, <2>2, <2>4, <1>1, <1>5, <1>6
    <3>3. \A k \in DOMAIN current : current[k] \in gates' => current[k] \in permitted'
      BY <2>5, <3>1
    <3>4. \A k \in DOMAIN current : current[k] \in 1..position
      BY <2>1, <1>5
    <3> QED
      BY <2>1, <3>1, <3>2, <3>3, <3>4, <1>5 DEF Range
  <2>3. CASE w = "output"
    <3>1. /\ current' \in Seq(Nat) /\ DOMAIN current' = 1..(Len(current) + 1)
          /\ current'[Len(current) + 1] = position /\ DOMAIN current = 1..Len(current) /\ Len(current) \in Nat
          /\ \A k \in DOMAIN current : current'[k] = current[k]
      BY <2>1, <2>3, <1>1, <1>4
    <3>2. \A k \in DOMAIN current' : k \in DOMAIN current \/ k = Len(current) + 1
      BY <3>1
    <3>7. position \in Nat /\ \A k \in DOMAIN current : current'[k] \in Nat /\ current'[k] < position
                                                          /\ current'[k] \in 1..position
      BY <2>1, <3>1, <1>5
    <3>3. \A k \in DOMAIN current' : current'[k] \in 1..position
      BY <3>1, <3>2, <3>7, <1>1
    <3>4. \A i, j \in DOMAIN current' : i < j => current'[i] < current'[j]
      <4> SUFFICES ASSUME NEW i \in DOMAIN current', NEW j \in DOMAIN current', i < j
                   PROVE  current'[i] < current'[j]
        OBVIOUS
      <4>1. i \in DOMAIN current
        BY <3>1
      <4>2. CASE j \in DOMAIN current
        BY <2>1, <3>1, <4>1, <4>2
      <4>3. CASE j = Len(current) + 1
        BY <3>1, <3>7, <4>1, <4>3
      <4> QED
        BY <3>2, <4>2, <4>3
    <3>5. \A i \in 1..position : outcomes'[i] = "output" <=> \E k \in DOMAIN current' : current'[k] = i
      <4>1. \A i \in 1..(position - 1) : outcomes'[i] = "output" <=> \E k \in DOMAIN current : current'[k] = i
        <5>1. \A i \in DOMAIN outcomes : outcomes'[i] = "output" <=> \E k \in DOMAIN current : current'[k] = i
          BY <2>4, <3>1, <1>5
        <5> QED
          BY <5>1, <1>5
      <4>2. \A i \in 1..(position - 1) : i \in Nat /\ i # position
        BY <3>7
      <4>3. \A i \in 1..(position - 1) : outcomes'[i] = "output" <=> \E k \in DOMAIN current' : current'[k] = i
        BY <3>1, <3>2, <4>1, <4>2
      <4>4. outcomes'[position] = "output" /\ \E k \in DOMAIN current' : current'[k] = position
        BY <2>3, <3>1, <1>5
      <4> QED
        BY <4>3, <4>4, <1>6
    <3>6. \A k \in DOMAIN current' : current'[k] \in gates => current'[k] \in permitted'
      BY <2>3, <2>5, <3>1, <3>2, <1>4
    <3> QED
      <4>1. Range(current') \cap gates' \subseteq permitted'
        BY <3>6, <1>4 DEF Range
      <4> QED
        BY <3>1, <3>3, <3>4, <3>5, <4>1, <1>5
  <2> QED
    BY <2>2, <2>3
<1>9. OutputIsOfSteps'
  BY <1>8 DEF OutputIsOfSteps, Contains
<1>10. permitted' \subseteq Positions /\ gates' \subseteq Positions
  BY <1>4 DEF PipelineInv
<1>11. position' \in 0 .. Len(pipeline') + 1 /\ (position' > 0 => Len(outcomes') = position' - 1)
  BY <1>1, <1>4, <1>5
<1> QED
  BY <1>4, <1>5, <1>7, <1>8, <1>9, <1>10, <1>11 DEF PipelineInv

LEMMA PipelineStep == PipelineInv /\ [PipelineNext]_pipelineVars => PipelineInv'
<1> SUFFICES ASSUME PipelineInv, [PipelineNext]_pipelineVars PROVE PipelineInv'
  OBVIOUS
<1>1. ASSUME NEW name \in StepNames, RegisterStep(name) PROVE PipelineInv'
  <2>1. /\ StepNames \cap registered' = registered' /\ registered \subseteq registered'
        /\ UNCHANGED <<pipeline, gates, position, current, outcomes, approved, permitted>>
    BY <1>1 DEF RegisterStep, PipelineInv
  <2>2. StopsWhereItMust' /\ OutputIsOfSteps'
    BY <2>1 DEF PipelineInv, StopsWhereItMust, OutputIsOfSteps
  <2> QED
    BY <2>1, <2>2 DEF PipelineInv
<1>2. CASE EndPipeline
  BY <1>2 DEF EndPipeline, PipelineInv, StopsWhereItMust, OutputIsOfSteps, Contains, Range, Last
<1>3. CASE UNCHANGED pipelineVars
  <2>1. /\ StepNames \cap registered' = registered' /\ registered \subseteq registered'
        /\ UNCHANGED <<pipeline, gates, position, current, outcomes, approved, permitted>>
    BY <1>3 DEF pipelineVars, PipelineInv
  <2>2. StopsWhereItMust' /\ OutputIsOfSteps'
    BY <2>1 DEF PipelineInv, StopsWhereItMust, OutputIsOfSteps
  <2> QED
    BY <2>1, <2>2 DEF PipelineInv
<1> QED
  BY <1>1, <1>2, <1>3, BeginKeeps, RunStepKeeps DEF PipelineNext

LEMMA PipelineFits == PipelineInv => PipelineTypeOK /\ PipelinesSound
<1> SUFFICES ASSUME PipelineInv PROVE PipelineTypeOK /\ PipelinesSound
  OBVIOUS
<1>1. position \in 0 .. MaxPipeline + 1
  BY PipelineAssumption DEF PipelineInv
<1> QED
  BY <1>1 DEF PipelineInv, PipelineTypeOK, PipelinesSound

\* For every pipeline: it stops where it must, and its output is of the steps that
\* it reports (workflow engine).
THEOREM PipelinesAreSound == PipelineSpec => []PipelinesSound
  BY PipelineInitially, PipelineStep, PipelineFits, PTL DEF PipelineSpec

-----------------------------------------------------------------------------
(***************************************************************************)
(* The policy engine.  The list is the policies that were added, in the    *)
(* order of their ranks: the priority, and for one priority the time of    *)
(* the addition.                                                           *)
(***************************************************************************)
\* The i-th of the policies that were added goes before the j-th.
GoesBefore(added, i, j) ==
  added[i].priority > added[j].priority \/ (added[i].priority = added[j].priority /\ i < j)

\* f gives for each place of the list the policy that was put there.
Orders(f, list, added) ==
  /\ f \in [DOMAIN list -> DOMAIN added]
  /\ \A i \in DOMAIN added : \E k \in DOMAIN list : f[k] = i
  /\ \A k \in DOMAIN list : list[k] = added[f[k]]
  /\ \A k, m \in DOMAIN list : k < m => GoesBefore(added, f[k], f[m])

PolicyInv ==
  /\ policies \in Seq(Policies) /\ addedPolicies \in Seq(Policies)
  /\ opinion \in [PolicyActions -> PolicyDecisions \cup {NoOpinion}]
  /\ \E f : Orders(f, policies, addedPolicies)

\* q is s with p put in behind the first a items.
PutIn(q, s, a, p, S) ==
  /\ q \in Seq(S) /\ Len(q) = Len(s) + 1
  /\ \A k \in 1..a : q[k] = s[k]
  /\ q[a + 1] = p
  /\ \A k \in (a + 1)..Len(s) : q[k + 1] = s[k]

LEMMA InsertedAt ==
  ASSUME NEW S, NEW s \in Seq(S), NEW n \in Nat, n = Len(s), NEW a \in 0..n, NEW p \in S,
         NEW q, q = InsertAt(s, a + 1, p)
  PROVE  PutIn(q, s, a, p, S)
<1>1. n = Len(s)
  OBVIOUS
<1>2. a \in Int /\ 1 \in Int /\ a + 1 \in Int /\ n \in Int /\ a \in 0..n
  BY <1>1
<1>3. \A i \in 1..n : s[i] \in S
  BY <1>1
<1>4. PICK l : l = SubSeq(s, 1, a)
  OBVIOUS
<1>5. PICK r : r = SubSeq(s, a + 1, n)
  OBVIOUS
<1>6. \A i \in 1..a : s[i] \in S
  BY <1>2, <1>3
<1>7. l \in Seq(S) /\ Len(l) = a /\ \A i \in 1..a : l[i] = s[i]
  <2>1. /\ SubSeq(s, 1, a) \in Seq(S) /\ Len(SubSeq(s, 1, a)) = IF 1 <= a THEN a - 1 + 1 ELSE 0
        /\ \A i \in 1..(a - 1 + 1) : SubSeq(s, 1, a)[i] = s[1 + i - 1]
    BY <1>2, <1>6, SubSeqProperties
  <2>2. (IF 1 <= a THEN a - 1 + 1 ELSE 0) = a /\ a - 1 + 1 = a /\ \A i \in 1..a : 1 + i - 1 = i
    BY <1>2
  <2> QED
    BY <1>4, <2>1, <2>2
<1>8. \A i \in (a + 1)..n : s[i] \in S
  BY <1>2, <1>3
<1>9. r \in Seq(S) /\ Len(r) = n - a /\ \A i \in 1..(n - a) : r[i] = s[a + i]
  <2>1. /\ SubSeq(s, a + 1, n) \in Seq(S)
        /\ Len(SubSeq(s, a + 1, n)) = IF a + 1 <= n THEN n - (a + 1) + 1 ELSE 0
        /\ \A i \in 1..(n - (a + 1) + 1) : SubSeq(s, a + 1, n)[i] = s[(a + 1) + i - 1]
    BY <1>2, <1>8, SubSeqProperties
  <2>2. /\ (IF a + 1 <= n THEN n - (a + 1) + 1 ELSE 0) = n - a /\ n - (a + 1) + 1 = n - a
        /\ \A i \in 1..(n - a) : (a + 1) + i - 1 = a + i
    BY <1>2
  <2> QED
    BY <1>5, <2>1, <2>2
<1>10. <<p>> \in Seq(S) /\ Len(<<p>>) = 1 /\ <<p>>[1] = p
  OBVIOUS
<1>11. PICK m : m = l \o <<p>>
  OBVIOUS
<1>12. m \in Seq(S) /\ Len(m) = a + 1 /\ m[a + 1] = p /\ \A i \in 1..a : m[i] = s[i]
  <2>1. /\ m \in Seq(S) /\ Len(m) = a + 1
        /\ \A i \in 1..(a + 1) : m[i] = IF i <= a THEN l[i] ELSE <<p>>[i - a]
    BY <1>7, <1>10, <1>11, ConcatProperties
  <2>2. a + 1 \in 1..(a + 1) /\ ~ (a + 1 <= a) /\ (a + 1) - a = 1
    BY <1>2
  <2>3. \A i \in 1..a : i \in 1..(a + 1) /\ i <= a
    BY <1>2
  <2> QED
    BY <1>7, <1>10, <2>1, <2>2, <2>3
<1>13. q = m \o r
  <2>1. (a + 1) - 1 = a
    BY <1>2
  <2> QED
    BY <1>1, <1>4, <1>5, <1>11, <2>1 DEF InsertAt
<1>14. /\ m \o r \in Seq(S) /\ Len(m \o r) = (a + 1) + (n - a)
       /\ \A i \in 1..((a + 1) + (n - a)) : (m \o r)[i] = IF i <= a + 1 THEN m[i] ELSE r[i - (a + 1)]
  <2>1. m \in Seq(S) /\ r \in Seq(S)
    BY <1>9, <1>12
  <2>2. /\ m \o r \in Seq(S) /\ Len(m \o r) = Len(m) + Len(r)
        /\ \A i \in 1..(Len(m) + Len(r)) : (m \o r)[i] = IF i <= Len(m) THEN m[i] ELSE r[i - Len(m)]
    BY <2>1, ConcatProperties
  <2>3. Len(m) = a + 1 /\ Len(r) = n - a
    BY <1>9, <1>12
  <2> QED
    BY <2>2, <2>3
<1>15. (a + 1) + (n - a) = n + 1
  BY <1>2
<1>16. /\ \A i \in 1..(a + 1) : i \in 1..((a + 1) + (n - a)) /\ i <= a + 1
       /\ \A k \in (a + 1)..n : /\ k + 1 \in 1..((a + 1) + (n - a)) /\ ~ (k + 1 <= a + 1)
                               /\ (k + 1) - (a + 1) \in 1..(n - a) /\ a + ((k + 1) - (a + 1)) = k
       /\ a + 1 \in 1..(a + 1) /\ \A k \in 1..a : k \in 1..(a + 1)
  BY <1>2
<1>17. \A k \in 1..(a + 1) : (m \o r)[k] = m[k]
  BY <1>14, <1>16
<1>18. \A k \in (a + 1)..n : (m \o r)[k + 1] = s[k]
  <2> SUFFICES ASSUME NEW k \in (a + 1)..n PROVE (m \o r)[k + 1] = s[k]
    OBVIOUS
  <2>1. (m \o r)[k + 1] = r[(k + 1) - (a + 1)]
    BY <1>14, <1>16
  <2>2. r[(k + 1) - (a + 1)] = s[a + ((k + 1) - (a + 1))]
    BY <1>9, <1>16
  <2> QED
    BY <2>1, <2>2, <1>16
<1> QED
  BY <1>1, <1>12, <1>13, <1>14, <1>15, <1>16, <1>17, <1>18 DEF PutIn

LEMMA PolicyInitially == PolicyInit => PolicyInv
<1> SUFFICES ASSUME PolicyInit PROVE PolicyInv
  OBVIOUS
<1>1. Orders(<<>>, policies, addedPolicies)
  BY DEF PolicyInit, Orders
<1> QED
  BY <1>1 DEF PolicyInit, PolicyInv, NoCheck

LEMMA AddKeeps == ASSUME PolicyInv, NEW p \in Policies, AddPolicy(p) PROVE PolicyInv'
<1> DEFINE ahead == {i \in DOMAIN policies : policies[i].priority >= p.priority}
<1>1. /\ policies \in Seq(Policies) /\ addedPolicies \in Seq(Policies)
      /\ DOMAIN policies = 1..Len(policies) /\ DOMAIN addedPolicies = 1..Len(addedPolicies)
      /\ Len(policies) \in Nat /\ Len(addedPolicies) \in Nat
  BY DEF PolicyInv
<1>2. PICK f : Orders(f, policies, addedPolicies)
  BY DEF PolicyInv
<1>3. PICK n \in Nat : n = Len(policies)
  BY <1>1
<1>4. PICK m \in Nat : m = Len(addedPolicies)
  BY <1>1
<1>5. /\ \A k \in 1..n : f[k] \in 1..m /\ policies[k] = addedPolicies[f[k]]
      /\ \A i \in 1..m : \E k \in 1..n : f[k] = i
      /\ \A k, l \in 1..n : k < l => GoesBefore(addedPolicies, f[k], f[l])
  BY <1>1, <1>2, <1>3, <1>4 DEF Orders
<1>6. /\ \A k \in 1..n : policies[k] \in Policies /\ policies[k].priority \in Int
      /\ p.priority \in Int
  <2>1. \A q \in Policies : q.priority \in Int
    BY PolicyAssumption DEF Policies
  <2>2. \A k \in 1..n : policies[k] \in Policies
    BY <1>1, <1>3
  <2> QED
    BY <2>1, <2>2
<1>7. \A k, l \in 1..n : k < l => policies[k].priority >= policies[l].priority
  BY <1>5, <1>6 DEF GoesBefore
<1>8. ahead \in SUBSET (1..n)
  BY <1>1, <1>3
<1>9. \A i \in ahead : \A j \in 1..i : j \in ahead
  <2> SUFFICES ASSUME NEW i \in ahead, NEW j \in 1..i PROVE j \in ahead
    OBVIOUS
  <2>1. i \in 1..n /\ j \in 1..n /\ policies[i].priority >= p.priority
    BY <1>8
  <2>2. policies[j].priority >= policies[i].priority
    <3>1. CASE j = i
      BY <2>1, <3>1, <1>6
    <3>2. CASE j < i
      BY <2>1, <3>2, <1>7
    <3> QED
      BY <2>1, <3>1, <3>2
  <2>3. policies[j].priority >= p.priority
    BY <2>1, <2>2, <1>6
  <2> QED
    BY <2>1, <2>3, <1>1, <1>3
<1> HIDE DEF ahead
<1>10. PICK a : a = Cardinality(ahead)
  OBVIOUS
<1>11. a \in 0..n /\ ahead = 1..a
  BY <1>8, <1>9, <1>10, IsInterval
<1>12. /\ \A k \in 1..a : policies[k].priority >= p.priority
       /\ \A k \in (a + 1)..n : policies[k].priority < p.priority
  <2>1. \A k \in 1..n : k \in ahead <=> policies[k].priority >= p.priority
    BY <1>1, <1>3 DEF ahead
  <2>2. (\A k \in 1..a : k \in 1..n) /\ \A k \in (a + 1)..n : k \in 1..n /\ k \notin 1..a
    BY <1>11
  <2> QED
    BY <1>6, <1>11, <2>1, <2>2
<1>13. /\ policies' = InsertAt(policies, a + 1, p) /\ addedPolicies' = Append(addedPolicies, p)
       /\ opinion' = opinion
  BY <1>10 DEF AddPolicy, ahead
<1>14. /\ policies' \in Seq(Policies) /\ Len(policies') = n + 1 /\ DOMAIN policies' = 1..(n + 1)
       /\ \A k \in 1..a : policies'[k] = policies[k]
       /\ policies'[a + 1] = p
       /\ \A k \in (a + 1)..n : policies'[k + 1] = policies[k]
  <2>1. PICK q : q = InsertAt(policies, a + 1, p)
    OBVIOUS
  <2>2. policies \in Seq(Policies)
    BY <1>1
  <2>3. PutIn(q, policies, a, p, Policies)
    BY <1>3, <1>11, <2>1, <2>2, InsertedAt
  <2> HIDE DEF Policies
  <2>4. /\ q \in Seq(Policies) /\ Len(q) = n + 1 /\ DOMAIN q = 1..(n + 1)
        /\ \A k \in 1..a : q[k] = policies[k]
        /\ q[a + 1] = p
        /\ \A k \in (a + 1)..n : q[k + 1] = policies[k]
    BY <1>3, <2>3 DEF PutIn
  <2> QED
    BY <1>13, <2>1, <2>4
<1>15. /\ addedPolicies' \in Seq(Policies) /\ DOMAIN addedPolicies' = 1..(m + 1)
       /\ addedPolicies'[m + 1] = p /\ \A i \in 1..m : addedPolicies'[i] = addedPolicies[i]
  BY <1>1, <1>4, <1>13
<1> DEFINE g == [k \in 1..(n + 1) |-> IF k <= a THEN f[k] ELSE IF k = a + 1 THEN m + 1 ELSE f[k - 1]]
<1>16. /\ DOMAIN g = 1..(n + 1) /\ g[a + 1] = m + 1 /\ a + 1 \in 1..(n + 1)
       /\ \A k \in 1..a : k \in 1..n /\ k \in 1..(n + 1) /\ g[k] = f[k] /\ policies'[k] = policies[k]
       /\ \A k \in (a + 1)..n : k \in 1..n /\ k + 1 \in 1..(n + 1)
                               /\ g[k + 1] = f[k] /\ policies'[k + 1] = policies[k]
       /\ policies'[a + 1] = p
  BY <1>11, <1>14
<1>17. \A k \in 1..(n + 1) : k \in 1..a \/ k = a + 1 \/ (k - 1 \in (a + 1)..n /\ (k - 1) + 1 = k)
  BY <1>11
<1>18. g = [k \in 1..(n + 1) |-> g[k]]
  OBVIOUS
<1> HIDE DEF g
<1>19. \A k \in 1..(n + 1) : g[k] \in 1..(m + 1) /\ policies'[k] = addedPolicies'[g[k]]
  <2> SUFFICES ASSUME NEW k \in 1..(n + 1)
               PROVE  g[k] \in 1..(m + 1) /\ policies'[k] = addedPolicies'[g[k]]
    OBVIOUS
  <2>1. \A i \in 1..m : i \in 1..(m + 1)
    OBVIOUS
  <2>2. CASE k \in 1..a
    BY <2>1, <2>2, <1>5, <1>15, <1>16
  <2>3. CASE k = a + 1
    BY <2>3, <1>15, <1>16
  <2>4. CASE k - 1 \in (a + 1)..n /\ (k - 1) + 1 = k
    <3>1. PICK l : l = k - 1
      OBVIOUS
    <3>2. l \in (a + 1)..n /\ l \in 1..n /\ g[k] = f[l] /\ policies'[k] = policies[l]
      BY <2>4, <3>1, <1>16
    <3> QED
      BY <2>1, <3>2, <1>5, <1>15
  <2> QED
    BY <1>17, <2>2, <2>3, <2>4
<1>20. \A i \in 1..(m + 1) : \E k \in 1..(n + 1) : g[k] = i
  <2> SUFFICES ASSUME NEW i \in 1..(m + 1) PROVE \E k \in 1..(n + 1) : g[k] = i
    OBVIOUS
  <2>1. CASE i = m + 1
    BY <2>1, <1>16
  <2>2. CASE i \in 1..m
    <3>1. PICK k \in 1..n : f[k] = i
      BY <2>2, <1>5
    <3>2. k \in 1..a \/ k \in (a + 1)..n
      BY <1>11
    <3> QED
      BY <3>1, <3>2, <1>16
  <2> QED
    BY <2>1, <2>2
<1>21. \A k \in 1..n : f[k] \in Nat /\ f[k] < m + 1 /\ addedPolicies'[f[k]] = policies[k]
  <2> SUFFICES ASSUME NEW k \in 1..n
               PROVE  f[k] \in Nat /\ f[k] < m + 1 /\ addedPolicies'[f[k]] = policies[k]
    OBVIOUS
  <2>1. f[k] \in 1..m /\ policies[k] = addedPolicies[f[k]]
    BY <1>5
  <2> QED
    BY <1>15, <2>1
<1>22. \A k, l \in 1..n : k < l => GoesBefore(addedPolicies', f[k], f[l])
  <2> SUFFICES ASSUME NEW k \in 1..n, NEW l \in 1..n, k < l PROVE GoesBefore(addedPolicies', f[k], f[l])
    OBVIOUS
  <2>1. f[k] \in 1..m /\ f[l] \in 1..m /\ GoesBefore(addedPolicies, f[k], f[l])
    BY <1>5
  <2> QED
    BY <2>1, <1>15 DEF GoesBefore
<1>23. \A k \in 1..a : GoesBefore(addedPolicies', f[k], m + 1)
  <2> SUFFICES ASSUME NEW k \in 1..a PROVE GoesBefore(addedPolicies', f[k], m + 1)
    OBVIOUS
  <2>1. k \in 1..n /\ policies[k].priority \in Int /\ policies[k].priority >= p.priority
    BY <1>6, <1>12, <1>16
  <2> QED
    BY <2>1, <1>6, <1>15, <1>21 DEF GoesBefore
<1>24. \A k \in (a + 1)..n : GoesBefore(addedPolicies', m + 1, f[k])
  <2> SUFFICES ASSUME NEW k \in (a + 1)..n PROVE GoesBefore(addedPolicies', m + 1, f[k])
    OBVIOUS
  <2>1. k \in 1..n /\ policies[k].priority \in Int /\ policies[k].priority < p.priority
    BY <1>6, <1>12, <1>16
  <2> QED
    BY <2>1, <1>6, <1>15, <1>21 DEF GoesBefore
<1>25. \A k, l \in 1..(n + 1) : k < l => GoesBefore(addedPolicies', g[k], g[l])
  <2> SUFFICES ASSUME NEW k \in 1..(n + 1), NEW l \in 1..(n + 1), k < l
               PROVE  GoesBefore(addedPolicies', g[k], g[l])
    OBVIOUS
  <2>1. CASE k \in 1..a /\ l \in 1..a
    BY <2>1, <1>16, <1>22
  <2>2. CASE k \in 1..a /\ l = a + 1
    BY <2>2, <1>16, <1>23
  <2>3. CASE k \in 1..a /\ l - 1 \in (a + 1)..n /\ (l - 1) + 1 = l
    <3>1. PICK i : i = l - 1
      OBVIOUS
    <3>2. i \in (a + 1)..n /\ i \in 1..n /\ g[l] = f[i] /\ k \in 1..n /\ g[k] = f[k] /\ k < i
      BY <2>3, <3>1, <1>11, <1>16
    <3> QED
      BY <3>2, <1>22
  <2>4. CASE k = a + 1 /\ l - 1 \in (a + 1)..n /\ (l - 1) + 1 = l
    <3>1. PICK i : i = l - 1
      OBVIOUS
    <3>2. i \in (a + 1)..n /\ g[l] = f[i] /\ g[k] = m + 1
      BY <2>4, <3>1, <1>16
    <3> QED
      BY <3>2, <1>24
  <2>5. CASE k - 1 \in (a + 1)..n /\ (k - 1) + 1 = k /\ l - 1 \in (a + 1)..n /\ (l - 1) + 1 = l
    <3>1. PICK i : i = l - 1
      OBVIOUS
    <3>2. PICK j : j = k - 1
      OBVIOUS
    <3>3. /\ i \in (a + 1)..n /\ i \in 1..n /\ g[l] = f[i]
          /\ j \in (a + 1)..n /\ j \in 1..n /\ g[k] = f[j]
      BY <2>5, <3>1, <3>2, <1>16
    <3>4. j < i
      BY <2>5, <3>1, <3>2
    <3> QED
      BY <3>3, <3>4, <1>22
  <2>6. /\ k = a + 1 => ~ (l \in 1..a) /\ l # a + 1
        /\ k - 1 \in (a + 1)..n => ~ (l \in 1..a) /\ l # a + 1
    BY <1>11
  <2> QED
    BY <1>17, <2>1, <2>2, <2>3, <2>4, <2>5, <2>6
<1>26. g \in [1..(n + 1) -> 1..(m + 1)]
  BY <1>16, <1>18, <1>19
<1>27. Orders(g, policies', addedPolicies')
  BY <1>14, <1>15, <1>19, <1>20, <1>25, <1>26 DEF Orders
<1> QED
  BY <1>13, <1>14, <1>15, <1>27 DEF PolicyInv

LEMMA PolicyStep == PolicyInv /\ [PolicyNext]_policyVars => PolicyInv'
<1> SUFFICES ASSUME PolicyInv, [PolicyNext]_policyVars PROVE PolicyInv'
  OBVIOUS
<1>1. ASSUME NEW a \in PolicyActions, NEW decision \in PolicyDecisions, AddCheck(a, decision)
      PROVE  PolicyInv'
  <2>1. opinion' \in [PolicyActions -> PolicyDecisions \cup {NoOpinion}]
    BY <1>1 DEF AddCheck, PolicyInv
  <2> QED
    BY <1>1, <2>1 DEF AddCheck, PolicyInv
<1>2. CASE ClearPolicies
  <2>1. Orders(<<>>, policies', addedPolicies')
    BY <1>2 DEF ClearPolicies, Orders
  <2> QED
    BY <1>2, <2>1 DEF ClearPolicies, PolicyInv, NoCheck
<1>3. CASE UNCHANGED policyVars
  BY <1>3 DEF policyVars, PolicyInv
<1> QED
  BY <1>1, <1>2, <1>3, AddKeeps DEF PolicyNext

LEMMA PolicyFits == PolicyInv => PolicyTypeOK /\ HighestDecides
<1> SUFFICES ASSUME PolicyInv PROVE PolicyTypeOK /\ HighestDecides
  OBVIOUS
<1>1. PICK f : Orders(f, policies, addedPolicies)
  BY DEF PolicyInv
<1>2. PICK n \in Nat : n = Len(policies) /\ DOMAIN policies = 1..n
  BY DEF PolicyInv
<1>3. PICK m \in Nat : m = Len(addedPolicies) /\ DOMAIN addedPolicies = 1..m
  BY DEF PolicyInv
<1>4. /\ \A k \in 1..n : f[k] \in 1..m /\ policies[k] = addedPolicies[f[k]]
      /\ \A i \in 1..m : \E k \in 1..n : f[k] = i
      /\ \A k, l \in 1..n : k < l => GoesBefore(addedPolicies, f[k], f[l])
  BY <1>1, <1>2, <1>3 DEF Orders
<1>5. /\ \A k \in 1..n : policies[k].decision \in PolicyDecisions
      /\ \A i \in 1..m : addedPolicies[i].priority \in Int
  <2>1. \A q \in Policies : q.priority \in Int /\ q.decision \in PolicyDecisions
    BY PolicyAssumption DEF Policies
  <2>2. policies \in Seq(Policies) /\ addedPolicies \in Seq(Policies)
    BY DEF PolicyInv
  <2>3. (\A k \in 1..n : policies[k] \in Policies) /\ \A i \in 1..m : addedPolicies[i] \in Policies
    BY <1>2, <1>3, <2>2
  <2> QED
    BY <2>1, <2>3
<1>6. ASSUME NEW a \in PolicyActions
      PROVE  LET fit == {i \in DOMAIN addedPolicies : a \in addedPolicies[i].matches}
                 rank(i) == addedPolicies[i].priority
                 best == {i \in fit : \A j \in fit : rank(i) > rank(j) \/ (rank(i) = rank(j) /\ i <= j)}
             IN /\ Evaluate(a) = IF opinion[a] # NoOpinion THEN opinion[a]
                                 ELSE IF fit = {} THEN "allow"
                                 ELSE addedPolicies[CHOOSE i \in best : TRUE].decision
                /\ Evaluate(a) \in PolicyDecisions
  <2> DEFINE fit == {i \in DOMAIN addedPolicies : a \in addedPolicies[i].matches}
             rank(i) == addedPolicies[i].priority
             best == {i \in fit : \A j \in fit : rank(i) > rank(j) \/ (rank(i) = rank(j) /\ i <= j)}
             I == {k \in 1..n : a \in policies[k].matches}
             first == IF I # {} THEN Min(I) ELSE 0
  <2>1. Evaluate(a) = IF opinion[a] # NoOpinion THEN opinion[a]
                      ELSE IF first > 0 THEN policies[first].decision ELSE "allow"
    BY <1>2 DEF Evaluate, SelectInSeq
  <2>2. opinion[a] # NoOpinion => opinion[a] \in PolicyDecisions
    BY DEF PolicyInv
  <2>3. (fit = {}) <=> (I = {})
    <3>1. ASSUME NEW i \in fit PROVE I # {}
      BY <1>3, <1>4
    <3>2. ASSUME NEW k \in I PROVE fit # {}
      BY <1>3, <1>4
    <3> QED
      BY <3>1, <3>2
  <2>4. CASE I = {}
    BY <2>1, <2>2, <2>3, <2>4 DEF PolicyDecisions
  <2>5. CASE I # {}
    <3>1. PICK k \in I : \A l \in I : k <= l
      <4>1. I \in SUBSET Nat
        OBVIOUS
      <4> QED
        BY <2>5, <4>1, LeastNumber
    <3>2. first = k
      <4>1. first \in I /\ \A l \in I : first <= l
        BY <2>5, <3>1 DEF Min
      <4>2. first <= k /\ k <= first /\ first \in Nat /\ k \in Nat
        BY <3>1, <4>1
      <4> QED
        BY <4>2
    <3>3. k \in 1..n /\ k > 0 /\ f[k] \in fit
      BY <1>3, <1>4
    <3>4. \A j \in fit : j = f[k] \/ GoesBefore(addedPolicies, f[k], j)
      <4> SUFFICES ASSUME NEW j \in fit PROVE j = f[k] \/ GoesBefore(addedPolicies, f[k], j)
        OBVIOUS
      <4>1. PICK l \in 1..n : f[l] = j
        BY <1>3, <1>4
      <4>2. l \in I
        BY <4>1, <1>4
      <4>3. k <= l
        BY <3>1, <4>2
      <4>4. k = l \/ k < l
        BY <3>3, <4>1, <4>3
      <4> QED
        BY <1>4, <3>3, <4>1, <4>4
    <3>5. \A j \in fit : j \in Nat /\ rank(j) \in Int
      BY <1>3, <1>5
    <3>6. f[k] \in best
      <4>1. \A j \in fit : rank(f[k]) > rank(j) \/ (rank(f[k]) = rank(j) /\ f[k] <= j)
        BY <3>3, <3>4, <3>5 DEF GoesBefore
      <4> QED
        BY <3>3, <4>1
    <3>7. \A i \in best : i = f[k]
      <4> SUFFICES ASSUME NEW i \in best, i # f[k] PROVE FALSE
        OBVIOUS
      <4>1. i \in fit /\ GoesBefore(addedPolicies, f[k], i)
        BY <3>4
      <4>2. rank(i) > rank(f[k]) \/ (rank(i) = rank(f[k]) /\ i <= f[k])
        BY <3>3
      <4> QED
        BY <3>3, <3>5, <4>1, <4>2 DEF GoesBefore
    <3>8. (CHOOSE i \in best : TRUE) = f[k]
      BY <3>6, <3>7
    <3>9. fit # {}
      BY <3>3
    <3> HIDE DEF best, fit, first, I
    <3>10. policies[k] = addedPolicies[f[k]] /\ policies[k].decision \in PolicyDecisions
      BY <1>4, <1>5, <3>3
    <3>11. Evaluate(a) = IF opinion[a] # NoOpinion THEN opinion[a] ELSE policies[k].decision
      BY <2>1, <3>2, <3>3
    <3>12. Evaluate(a) \in PolicyDecisions
      BY <2>2, <3>10, <3>11
    <3>13. Evaluate(a) = IF opinion[a] # NoOpinion THEN opinion[a]
                         ELSE IF fit = {} THEN "allow"
                         ELSE addedPolicies[CHOOSE i \in best : TRUE].decision
      BY <3>8, <3>9, <3>10, <3>11
    <3> QED
      BY <3>12, <3>13 DEF fit, best
  <2> QED
    BY <2>4, <2>5
<1>7. HighestDecides
  BY <1>6 DEF HighestDecides
<1>8. PolicyTypeOK
  <2>1. \A a \in PolicyActions : Evaluate(a) \in PolicyDecisions
    BY <1>6
  <2> QED
    BY <2>1 DEF PolicyInv, PolicyTypeOK
<1> QED
  BY <1>7, <1>8

\* For any policies in any order of addition, the highest that matches decides, and
\* a check goes before all of them (policy engine).
THEOREM PoliciesDecide == PolicySpec => []HighestDecides
  BY PolicyInitially, PolicyStep, PolicyFits, PTL DEF PolicySpec

-----------------------------------------------------------------------------
(***************************************************************************)
(* The store of tool outputs.  The numbers of the records ascend along the *)
(* list, so that a list is a beginning of another only if it holds the     *)
(* same records at the same places.                                        *)
(***************************************************************************)
\* How many numbers of a set are below one.
Below(S, k) == {j \in S : j < k}

LEMMA BelowCounts ==
  ASSUME NEW S \in SUBSET Nat, IsFiniteSet(S), NEW d \in S, NEW e \in S
  PROVE  /\ Cardinality(Below(S, d)) \in 0..(Cardinality(S) - 1)
         /\ d < e => Cardinality(Below(S, d)) < Cardinality(Below(S, e))
<1>1. Cardinality(S) \in Nat
  BY FS_CardinalityType
<1>2. /\ Below(S, d) \in SUBSET S /\ Below(S, e) \in SUBSET S /\ d \notin Below(S, d)
      /\ Below(S, d) \cup {d} \in SUBSET S
      /\ d < e => Below(S, d) \cup {d} \in SUBSET Below(S, e)
  <2>1. ASSUME d < e, NEW j \in S, j < d PROVE j < e
    <3>1. j \in Nat /\ d \in Nat /\ e \in Nat
      OBVIOUS
    <3> QED
      BY <2>1, <3>1
  <2>2. ~ (d < d)
    OBVIOUS
  <2> QED
    BY <2>1, <2>2 DEF Below
<1>3. /\ IsFiniteSet(Below(S, d)) /\ Cardinality(Below(S, d)) \in Nat
      /\ IsFiniteSet(Below(S, e)) /\ Cardinality(Below(S, e)) \in Nat
  BY <1>2, FS_Subset, FS_CardinalityType
<1>4. Cardinality(Below(S, d) \cup {d}) = Cardinality(Below(S, d)) + 1
  BY <1>2, <1>3, FS_AddElement
<1>5. Cardinality(Below(S, d) \cup {d}) <= Cardinality(S)
  BY <1>2, FS_Subset
<1>6. d < e => Cardinality(Below(S, d) \cup {d}) <= Cardinality(Below(S, e))
  BY <1>2, <1>3, FS_Subset
<1> QED
  BY <1>1, <1>3, <1>4, <1>5, <1>6

LEMMA EveryCountOccurs ==
  ASSUME NEW S \in SUBSET Nat, IsFiniteSet(S), NEW n \in 1..Cardinality(S)
  PROVE  \E k \in S : Cardinality(Below(S, k)) = n - 1
<1> DEFINE last == Cardinality(S) - 1
           count == [k \in S |-> Cardinality(Below(S, k))]
<1>1. Cardinality(S) \in Nat /\ n \in Nat /\ n >= 1 /\ n <= Cardinality(S)
  BY FS_CardinalityType
<1>2. IsFiniteSet(0..last) /\ Cardinality(0..last) = Cardinality(S)
  <2>1. last \in Int /\ 0 \in Int
    BY <1>1
  <2>2. IsFiniteSet(0..last) /\ Cardinality(0..last) = IF 0 > last THEN 0 ELSE last - 0 + 1
    BY <2>1, FS_Interval
  <2> QED
    BY <1>1, <2>2
<1>3. count \in [S -> 0..last]
  BY BelowCounts
<1>4. count \in Injection(S, 0..last)
  <2>1. \A d, e \in S : d < e => count[d] < count[e]
    BY BelowCounts
  <2>2. \A d, e \in S : d # e => count[d] # count[e]
    <3> SUFFICES ASSUME NEW d \in S, NEW e \in S, d # e PROVE count[d] # count[e]
      OBVIOUS
    <3>1. d < e \/ e < d
      OBVIOUS
    <3>2. count[d] \in 0..last /\ count[e] \in 0..last
      BY <1>3
    <3> HIDE DEF count
    <3> QED
      BY <1>1, <2>1, <3>1, <3>2
  <2> QED
    BY <1>3, <2>2 DEF Injection, IsInjective
<1>5. count \in Surjection(S, 0..last)
  BY <1>1, <1>2, <1>4, FS_Injection
<1>6. n - 1 \in 0..last
  BY <1>1
<1>7. \E k \in S : count[k] = n - 1
  BY <1>5, <1>6 DEF Surjection
<1> QED
  BY <1>7

\* q has the numbers of S, each once, in their order.
InOrder(q, S) ==
  /\ DOMAIN q = 1..Cardinality(S) /\ Cardinality(S) \in Nat
  /\ \A i \in 1..Cardinality(S) : q[i] \in S
  /\ \A i, j \in 1..Cardinality(S) : i < j => q[i] < q[j]
  /\ \A k \in S : \E i \in 1..Cardinality(S) : q[i] = k

LEMMA AscendingInOrder ==
  ASSUME NEW S \in SUBSET Nat, IsFiniteSet(S)
  PROVE  InOrder(Ascending(S), S)
<1> DEFINE size == Cardinality(S)
           q == Ascending(S)
<1>1. size \in Nat
  BY FS_CardinalityType
<1>2. \A n \in 1..size : q[n] \in S /\ Cardinality(Below(S, q[n])) = n - 1
  <2> SUFFICES ASSUME NEW n \in 1..size PROVE q[n] \in S /\ Cardinality(Below(S, q[n])) = n - 1
    OBVIOUS
  <2>1. \E k \in S : Cardinality(Below(S, k)) = n - 1
    BY EveryCountOccurs
  <2>2. q[n] = CHOOSE k \in S : Cardinality(Below(S, k)) = n - 1
    BY DEF Ascending, Below
  <2> QED
    BY <2>1, <2>2
<1>3. DOMAIN q = 1..size
  BY DEF Ascending
<1>4. \A i, j \in 1..size : i < j => q[i] < q[j]
  <2> SUFFICES ASSUME NEW i \in 1..size, NEW j \in 1..size, i < j PROVE q[i] < q[j]
    OBVIOUS
  <2> HIDE DEF q
  <2>1. /\ q[i] \in S /\ q[j] \in S /\ Cardinality(Below(S, q[i])) = i - 1
        /\ Cardinality(Below(S, q[j])) = j - 1
    BY <1>2
  <2>2. q[i] # q[j]
    BY <1>1, <2>1
  <2>3. q[i] \in Nat /\ q[j] \in Nat
    BY <2>1
  <2>4. ~ (q[j] < q[i])
    <3>1. q[j] < q[i] => Cardinality(Below(S, q[j])) < Cardinality(Below(S, q[i]))
      BY <2>1, BelowCounts
    <3> QED
      BY <1>1, <2>1, <3>1
  <2> QED
    BY <2>2, <2>3, <2>4
<1>5. \A k \in S : \E i \in 1..size : q[i] = k
  <2> SUFFICES ASSUME NEW k \in S PROVE \E i \in 1..size : q[i] = k
    OBVIOUS
  <2> HIDE DEF q
  <2>1. PICK i : i = Cardinality(Below(S, k)) + 1
    OBVIOUS
  <2>2. i \in 1..size /\ Cardinality(Below(S, k)) = i - 1
    <3>1. Cardinality(Below(S, k)) \in 0..(size - 1)
      BY BelowCounts
    <3> QED
      BY <1>1, <2>1, <3>1
  <2>3. q[i] \in S /\ Cardinality(Below(S, q[i])) = i - 1
    BY <1>2, <2>2
  <2>4. ~ (q[i] < k)
    <3>1. q[i] < k => Cardinality(Below(S, q[i])) < Cardinality(Below(S, k))
      BY <2>3, BelowCounts
    <3> QED
      BY <1>1, <2>2, <2>3, <3>1
  <2>5. ~ (k < q[i])
    <3>1. k < q[i] => Cardinality(Below(S, k)) < Cardinality(Below(S, q[i]))
      BY <2>3, BelowCounts
    <3> QED
      BY <1>1, <2>2, <2>3, <3>1
  <2>6. q[i] \in Nat /\ k \in Nat
    BY <2>3
  <2> QED
    BY <2>2, <2>4, <2>5, <2>6
<1> HIDE DEF q
<1> QED
  BY <1>1, <1>2, <1>3, <1>4, <1>5 DEF InOrder, q

Outputs == OutputSessions \X (1..MaxOutputs)

OutputShapes ==
  /\ outputs \in Seq(Outputs) /\ Len(outputs) <= recorded
  /\ positions \in [OutputSessions -> Seq(0..(MaxOutputs - 1))]
  /\ own \in [OutputSessions -> Seq(1..MaxOutputs)]
  /\ recorded \in 0..MaxOutputs /\ clears \in 0..MaxClears /\ moved \in BOOLEAN

RecordsAscend ==
  /\ \A k \in DOMAIN outputs : outputs[k][2] <= recorded
  /\ \A j, k \in DOMAIN outputs : j < k => outputs[j][2] < outputs[k][2]

\* The entry of a session leads to its records.
LeadsToOwn(s) ==
  /\ Len(positions[s]) = Len(own[s])
  /\ \A k \in 1..Len(own[s]) : /\ positions[s][k] + 1 \in DOMAIN outputs
                               /\ outputs[positions[s][k] + 1] = <<s, own[s][k]>>

OutputInv ==
  /\ OutputShapes /\ RecordsAscend
  /\ ~ moved => \A s \in OutputSessions : LeadsToOwn(s)

LEMMA ItemsAreIn ==
  ASSUME NEW S, NEW q \in Seq(S) PROVE \A i \in DOMAIN q : q[i] \in S
OBVIOUS

LEMMA OutputInitially == OutputInit => OutputInv
<1> SUFFICES ASSUME OutputInit PROVE OutputInv
  OBVIOUS
<1>1. 0 \in 0..MaxOutputs /\ 0 \in 0..MaxClears /\ Len(<<>>) = 0 /\ 0 <= 0
  BY OutputAssumption
<1>2. OutputShapes
  <2>1. <<>> \in Seq(Outputs) /\ <<>> \in Seq(0..(MaxOutputs - 1)) /\ <<>> \in Seq(1..MaxOutputs)
    OBVIOUS
  <2>2. /\ [s \in OutputSessions |-> <<>>] \in [OutputSessions -> Seq(0..(MaxOutputs - 1))]
        /\ [s \in OutputSessions |-> <<>>] \in [OutputSessions -> Seq(1..MaxOutputs)]
    BY <2>1
  <2>3. Len(outputs) <= recorded
    BY <1>1 DEF OutputInit
  <2> QED
    BY <1>1, <2>1, <2>2, <2>3 DEF OutputInit, OutputShapes
<1>3. RecordsAscend
  BY DEF OutputInit, RecordsAscend
<1>4. \A s \in OutputSessions : LeadsToOwn(s)
  BY DEF OutputInit, LeadsToOwn
<1> QED
  BY <1>2, <1>3, <1>4 DEF OutputInv

LEMMA RecordOutputKeeps ==
  ASSUME OutputInv, NEW s \in OutputSessions, RecordOutput(s) PROVE OutputInv'
<1>1. PICK n \in Nat : n = Len(outputs) /\ DOMAIN outputs = 1..n
  BY DEF OutputInv, OutputShapes
<1>2. PICK r \in Nat : r = recorded + 1 /\ r \in 1..MaxOutputs /\ n < r /\ recorded \in Nat /\ recorded < r
  BY <1>1, OutputAssumption DEF RecordOutput, OutputInv, OutputShapes
<1>3. /\ recorded' = r /\ outputs' = Append(outputs, <<s, r>>)
      /\ positions' = [positions EXCEPT ![s] = Append(@, n)]
      /\ own' = [own EXCEPT ![s] = Append(@, r)]
      /\ UNCHANGED <<clears, moved>>
  BY <1>1, <1>2 DEF RecordOutput
<1>4. <<s, r>> \in Outputs /\ n \in 0..(MaxOutputs - 1) /\ r \in 0..MaxOutputs /\ MaxOutputs \in Nat
  BY <1>2, OutputAssumption DEF Outputs
<1>5. /\ outputs' \in Seq(Outputs) /\ Len(outputs') = n + 1 /\ DOMAIN outputs' = 1..(n + 1)
      /\ outputs'[n + 1] = <<s, r>> /\ \A k \in 1..n : outputs'[k] = outputs[k]
  <2>1. outputs \in Seq(Outputs)
    BY DEF OutputInv, OutputShapes
  <2> HIDE DEF Outputs
  <2> QED
    BY <1>1, <1>3, <1>4, <2>1
<1>6. \A k \in 1..(n + 1) : k \in 1..n \/ k = n + 1
  OBVIOUS
<1>7. positions' \in [OutputSessions -> Seq(0..(MaxOutputs - 1))] /\ own' \in [OutputSessions -> Seq(1..MaxOutputs)]
  <2>1. positions[s] \in Seq(0..(MaxOutputs - 1)) /\ own[s] \in Seq(1..MaxOutputs)
    BY DEF OutputInv, OutputShapes
  <2>2. Append(positions[s], n) \in Seq(0..(MaxOutputs - 1)) /\ Append(own[s], r) \in Seq(1..MaxOutputs)
    BY <1>2, <1>4, <2>1
  <2> QED
    BY <1>3, <2>2 DEF OutputInv, OutputShapes
<1>8. OutputShapes'
  BY <1>2, <1>3, <1>4, <1>5, <1>7 DEF OutputInv, OutputShapes
<1>9. RecordsAscend'
  <2>1. /\ \A k \in 1..n : outputs[k][2] <= recorded /\ outputs[k][2] \in Nat
        /\ \A j, k \in 1..n : j < k => outputs[j][2] < outputs[k][2]
    <3>1. \A x \in Outputs : x[2] \in Nat
      BY <1>4 DEF Outputs
    <3>2. \A k \in 1..n : outputs[k] \in Outputs
      BY <1>1 DEF OutputInv, OutputShapes
    <3> QED
      BY <1>1, <3>1, <3>2 DEF OutputInv, RecordsAscend
  <2>2. \A k \in 1..n : outputs[k][2] < r
    BY <1>2, <2>1
  <2>3. outputs'[n + 1][2] = r
    BY <1>5
  <2>4. \A k \in 1..(n + 1) : outputs'[k][2] <= r
    BY <1>2, <1>5, <1>6, <2>1, <2>2, <2>3
  <2>5. \A j, k \in 1..(n + 1) : j < k => outputs'[j][2] < outputs'[k][2]
    <3> SUFFICES ASSUME NEW j \in 1..(n + 1), NEW k \in 1..(n + 1), j < k
                 PROVE  outputs'[j][2] < outputs'[k][2]
      OBVIOUS
    <3>1. j \in 1..n
      OBVIOUS
    <3>2. CASE k = n + 1
      BY <1>5, <2>2, <2>3, <3>1, <3>2
    <3>3. CASE k \in 1..n
      BY <1>5, <2>1, <3>1, <3>3
    <3> QED
      BY <1>6, <3>2, <3>3
  <2> QED
    BY <1>3, <1>5, <2>4, <2>5 DEF RecordsAscend
<1>10. ASSUME ~ moved', NEW t \in OutputSessions PROVE LeadsToOwn(t)'
  <2>1. PICK m \in Nat : /\ m = Len(own[t]) /\ Len(positions[t]) = m
                         /\ \A k \in 1..m : /\ positions[t][k] + 1 \in 1..n
                                            /\ outputs[positions[t][k] + 1] = <<t, own[t][k]>>
    <3>1. Len(own[t]) \in Nat
      BY DEF OutputInv, OutputShapes
    <3>2. LeadsToOwn(t)
      BY <1>3, <1>10 DEF OutputInv
    <3> QED
      BY <1>1, <3>1, <3>2 DEF LeadsToOwn
  <2>2. \A k \in 1..n : k \in 1..(n + 1)
    OBVIOUS
  <2>3. CASE t # s
    <3>1. positions'[t] = positions[t] /\ own'[t] = own[t]
      BY <1>3, <2>3 DEF OutputInv, OutputShapes
    <3> QED
      BY <1>5, <2>1, <2>2, <3>1 DEF LeadsToOwn
  <2>4. CASE t = s
    <3>1. positions[s] \in Seq(0..(MaxOutputs - 1)) /\ own[s] \in Seq(1..MaxOutputs)
      BY DEF OutputInv, OutputShapes
    <3>2. positions'[s] = Append(positions[s], n) /\ own'[s] = Append(own[s], r)
      BY <1>3 DEF OutputInv, OutputShapes
    <3>3. /\ Len(positions'[s]) = m + 1 /\ Len(own'[s]) = m + 1
          /\ positions'[s][m + 1] = n /\ own'[s][m + 1] = r
          /\ \A k \in 1..m : positions'[s][k] = positions[s][k] /\ own'[s][k] = own[s][k]
      <4>1. Len(positions[s]) = m /\ Len(own[s]) = m /\ n \in 0..(MaxOutputs - 1) /\ r \in 1..MaxOutputs
        BY <1>2, <1>4, <2>1, <2>4
      <4>2. /\ Len(Append(positions[s], n)) = m + 1 /\ Append(positions[s], n)[m + 1] = n
            /\ \A k \in 1..m : Append(positions[s], n)[k] = positions[s][k]
        BY <3>1, <4>1, AppendProperties
      <4>3. /\ Len(Append(own[s], r)) = m + 1 /\ Append(own[s], r)[m + 1] = r
            /\ \A k \in 1..m : Append(own[s], r)[k] = own[s][k]
        BY <3>1, <4>1, AppendProperties
      <4> QED
        BY <3>2, <4>2, <4>3
    <3>4. \A k \in 1..(m + 1) : k \in 1..m \/ k = m + 1
      OBVIOUS
    <3>5. n + 1 \in 1..(n + 1)
      OBVIOUS
    <3>6. ASSUME NEW k \in 1..(m + 1)
          PROVE  /\ positions'[s][k] + 1 \in 1..(n + 1)
                 /\ outputs'[positions'[s][k] + 1] = <<s, own'[s][k]>>
      <4>1. CASE k = m + 1
        BY <1>5, <3>3, <3>5, <4>1
      <4>2. CASE k \in 1..m
        <5>1. PICK p : p = positions[s][k]
          OBVIOUS
        <5>2. positions'[s][k] = p /\ own'[s][k] = own[s][k]
          BY <3>3, <4>2, <5>1
        <5>3. p + 1 \in 1..n /\ outputs[p + 1] = <<s, own[s][k]>>
          BY <2>1, <2>4, <4>2, <5>1
        <5>4. outputs'[p + 1] = outputs[p + 1]
          BY <1>5, <5>3
        <5> QED
          BY <2>2, <5>2, <5>3, <5>4
      <4> QED
        BY <3>4, <4>1, <4>2
    <3> QED
      BY <1>5, <2>4, <3>3, <3>6 DEF LeadsToOwn
  <2> QED
    BY <2>3, <2>4
<1> QED
  BY <1>8, <1>9, <1>10 DEF OutputInv

LEMMA ClearSessionKeeps ==
  ASSUME OutputInv, NEW s \in OutputSessions, ClearSession(s) PROVE OutputInv'
<1> DEFINE K == {k \in DOMAIN outputs : (k - 1) \notin ToSet(positions[s])}
<1>1. PICK n \in Nat : n = Len(outputs) /\ DOMAIN outputs = 1..n /\ n <= recorded
  BY DEF OutputInv, OutputShapes
<1>2. K \in SUBSET (1..n) /\ K \in SUBSET Nat
  BY <1>1
<1>3. IsFiniteSet(K) /\ Cardinality(K) <= n /\ Cardinality(K) \in Nat
  <2>1. IsFiniteSet(1..n) /\ Cardinality(1..n) = n
    BY FS_Interval
  <2> HIDE DEF K
  <2> QED
    BY <1>2, <2>1, FS_Subset, FS_CardinalityType
<1>4. PICK e : e = Ascending(K)
  OBVIOUS
<1>5. PICK w : w = Without(s)
  OBVIOUS
<1>6. w = [i \in DOMAIN e |-> outputs[e[i]]]
  BY <1>4, <1>5 DEF Without
<1>7. PICK c : c = Cardinality(K)
  OBVIOUS
<1>8. c \in Nat /\ c <= n
  BY <1>3, <1>7
<1>9. /\ DOMAIN e = 1..c /\ \A i \in 1..c : e[i] \in K
      /\ \A i, j \in 1..c : i < j => e[i] < e[j]
      /\ \A k \in K : \E i \in 1..c : e[i] = k
  <2>1. InOrder(Ascending(K), K)
    BY <1>2, <1>3, AscendingInOrder
  <2> HIDE DEF K
  <2>2. InOrder(e, K)
    BY <1>4, <2>1
  <2> QED
    BY <1>7, <2>2 DEF InOrder
<1>10. \A i \in 1..c : e[i] \in 1..n
  BY <1>2, <1>9
<1> HIDE DEF K
<1>11. \A k \in 1..n : outputs[k] \in Outputs
  BY <1>1 DEF OutputInv, OutputShapes
<1>12. /\ w \in Seq(Outputs) /\ Len(w) = c /\ DOMAIN w = 1..c
       /\ \A i \in 1..c : w[i] = outputs[e[i]]
  <2>1. w = [i \in 1..c |-> outputs[e[i]]] /\ \A i \in 1..c : outputs[e[i]] \in Outputs
    BY <1>6, <1>9, <1>10, <1>11
  <2>2. w \in [1..c -> Outputs]
    BY <2>1
  <2> QED
    BY <1>8, <2>1, <2>2
<1>13. /\ outputs' = w /\ positions' = [positions EXCEPT ![s] = <<>>]
       /\ own' = [own EXCEPT ![s] = <<>>] /\ recorded' = recorded
       /\ clears' \in 0..MaxClears
       /\ moved' = (moved \/ w # SubSeq(outputs, 1, c))
  <2>1. Len(Without(s)) = c
    BY <1>5, <1>12
  <2>2. clears' \in 0..MaxClears
    BY OutputAssumption DEF ClearSession, OutputInv, OutputShapes
  <2> QED
    BY <1>5, <2>1, <2>2 DEF ClearSession
<1>14. OutputShapes'
  <2>1. <<>> \in Seq(0..(MaxOutputs - 1)) /\ <<>> \in Seq(1..MaxOutputs)
    OBVIOUS
  <2>2. positions' \in [OutputSessions -> Seq(0..(MaxOutputs - 1))] /\ own' \in [OutputSessions -> Seq(1..MaxOutputs)]
    BY <1>13, <2>1 DEF OutputInv, OutputShapes
  <2>3. recorded \in Nat /\ c <= recorded
    BY <1>1, <1>8 DEF OutputInv, OutputShapes
  <2>4. moved' \in BOOLEAN
    BY <1>13 DEF OutputInv, OutputShapes
  <2> QED
    BY <1>12, <1>13, <2>2, <2>3, <2>4 DEF OutputInv, OutputShapes
<1>15. /\ \A k \in 1..n : outputs[k][2] <= recorded /\ outputs[k][2] \in Nat
       /\ \A j, k \in 1..n : j < k => outputs[j][2] < outputs[k][2]
  <2>1. \A x \in Outputs : x[2] \in Nat
    BY OutputAssumption DEF Outputs
  <2> QED
    BY <1>1, <1>11, <2>1 DEF OutputInv, RecordsAscend
<1>16. RecordsAscend'
  <2>1. \A i \in 1..c : w[i][2] <= recorded
    BY <1>10, <1>12, <1>15
  <2>2. \A i, j \in 1..c : i < j => w[i][2] < w[j][2]
    BY <1>9, <1>10, <1>12, <1>15
  <2> QED
    BY <1>12, <1>13, <2>1, <2>2 DEF RecordsAscend
<1>17. ASSUME ~ moved', NEW t \in OutputSessions PROVE LeadsToOwn(t)'
  <2>1. CASE t = s
    <3>1. positions'[s] = <<>> /\ own'[s] = <<>>
      BY <1>13 DEF OutputInv, OutputShapes
    <3> QED
      BY <2>1, <3>1 DEF LeadsToOwn
  <2>2. CASE t # s
    <3>1. w = SubSeq(outputs, 1, c) /\ ~ moved
      BY <1>13, <1>17
    <3>2. \A i \in 1..c : w[i] = outputs[i]
      <4>1. \A i \in 1..c : outputs[i] \in Outputs /\ i \in 1..n
        BY <1>8, <1>11
      <4>2. 1 \in Int /\ c \in Int
        BY <1>8
      <4>3. \A i \in 1..(c - 1 + 1) : SubSeq(outputs, 1, c)[i] = outputs[1 + i - 1]
        BY <4>1, <4>2, SubSeqProperties
      <4>4. c - 1 + 1 = c /\ \A i \in 1..c : 1 + i - 1 = i
        BY <1>8
      <4> QED
        BY <3>1, <4>3, <4>4
    <3>3. \A i \in 1..c : e[i] = i
      <4> SUFFICES ASSUME NEW i \in 1..c PROVE e[i] = i
        OBVIOUS
      <4>1. i \in 1..n /\ e[i] \in 1..n /\ outputs[e[i]] = outputs[i]
        BY <1>8, <1>10, <1>12, <3>2
      <4>2. e[i] = i \/ e[i] < i \/ i < e[i]
        BY <4>1
      <4>3. outputs[i][2] \in Nat /\ outputs[e[i]][2] = outputs[i][2]
        BY <1>15, <4>1
      <4>4. ~ (e[i] < i) /\ ~ (i < e[i])
        BY <1>15, <4>1, <4>3
      <4> QED
        BY <4>2, <4>4
    <3>4. \A k \in K : k \in 1..c
      BY <1>9, <3>3
    <3>5. LeadsToOwn(t) /\ LeadsToOwn(s)
      BY <3>1 DEF OutputInv
    <3>6. PICK m \in Nat : /\ m = Len(own[t]) /\ Len(positions[t]) = m
                           /\ \A k \in 1..m : /\ positions[t][k] + 1 \in 1..n
                                              /\ outputs[positions[t][k] + 1] = <<t, own[t][k]>>
      <4>1. Len(own[t]) \in Nat
        BY DEF OutputInv, OutputShapes
      <4> QED
        BY <1>1, <3>5, <4>1 DEF LeadsToOwn
    <3>7. positions'[t] = positions[t] /\ own'[t] = own[t]
      BY <1>13, <2>2 DEF OutputInv, OutputShapes
    <3>8. ASSUME NEW k \in 1..m PROVE positions[t][k] + 1 \in K
      <4>1. PICK p : p = positions[t][k]
        OBVIOUS
      <4>2. p + 1 \in 1..n /\ outputs[p + 1] = <<t, own[t][k]>>
        BY <3>6, <4>1
      <4>3. p \in Int
        <5>1. positions[t] \in Seq(0..(MaxOutputs - 1))
          BY DEF OutputInv, OutputShapes
        <5>2. k \in DOMAIN positions[t]
          BY <3>6, <5>1
        <5>3. p \in 0..(MaxOutputs - 1)
          BY <4>1, <5>1, <5>2, ItemsAreIn
        <5> QED
          BY <5>3, OutputAssumption
      <4>4. (p + 1) - 1 = p
        BY <4>3
      <4>5. p \notin ToSet(positions[s])
        <5> SUFFICES ASSUME p \in ToSet(positions[s]) PROVE FALSE
          OBVIOUS
        <5>1. PICK i \in DOMAIN positions[s] : positions[s][i] = p
          BY DEF ToSet
        <5>2. positions[s] \in Seq(0..(MaxOutputs - 1)) /\ Len(positions[s]) = Len(own[s])
          BY <3>5 DEF OutputInv, OutputShapes, LeadsToOwn
        <5>3. i \in 1..Len(own[s])
          BY <5>1, <5>2
        <5>4. outputs[p + 1] = <<s, own[s][i]>>
          BY <3>5, <5>1, <5>3 DEF LeadsToOwn
        <5> QED
          BY <2>2, <4>2, <5>4
      <4> QED
        BY <1>1, <4>1, <4>2, <4>4, <4>5 DEF K
    <3>9. \A k \in 1..m : /\ positions[t][k] + 1 \in 1..c
                          /\ w[positions[t][k] + 1] = <<t, own[t][k]>>
      BY <3>2, <3>4, <3>6, <3>8
    <3> QED
      BY <1>12, <1>13, <3>6, <3>7, <3>9 DEF LeadsToOwn
  <2> QED
    BY <2>1, <2>2
<1> QED
  BY <1>14, <1>16, <1>17 DEF OutputInv

LEMMA OutputStep == OutputInv /\ [OutputNext]_outputVars => OutputInv'
<1> SUFFICES ASSUME OutputInv, [OutputNext]_outputVars PROVE OutputInv'
  OBVIOUS
<1>1. CASE UNCHANGED outputVars
  BY <1>1 DEF outputVars, OutputInv, OutputShapes, RecordsAscend, LeadsToOwn
<1> QED
  BY <1>1, RecordOutputKeeps, ClearSessionKeeps DEF OutputNext

LEMMA OutputFits == OutputInv => OutputTypeOK /\ OutputsAreOwn
<1> SUFFICES ASSUME OutputInv PROVE OutputTypeOK /\ OutputsAreOwn
  OBVIOUS
<1>1. OutputTypeOK
  BY DEF OutputInv, OutputShapes, Outputs, OutputTypeOK
<1>2. ASSUME ~ moved, NEW s \in OutputSessions
      PROVE  SessionOutputs(s) = [k \in DOMAIN own[s] |-> <<s, own[s][k]>>]
  <2>1. LeadsToOwn(s)
    BY <1>2 DEF OutputInv
  <2>2. PICK m \in Nat : m = Len(own[s]) /\ DOMAIN own[s] = 1..m /\ DOMAIN positions[s] = 1..m
    BY <2>1 DEF OutputInv, OutputShapes, LeadsToOwn
  <2>3. PICK n \in Nat : n = Len(outputs) /\ DOMAIN outputs = 1..n
    BY DEF OutputInv, OutputShapes
  <2>4. \A k \in 1..m : positions[s][k] \in Int
    <3>1. positions[s] \in Seq(0..(MaxOutputs - 1))
      BY DEF OutputInv, OutputShapes
    <3>2. \A k \in 1..m : positions[s][k] \in 0..(MaxOutputs - 1)
      BY <2>2, <3>1, ItemsAreIn
    <3>3. \A x \in 0..(MaxOutputs - 1) : x \in Int
      BY OutputAssumption
    <3> QED
      BY <3>2, <3>3
  <2>5. \A k \in 1..m : /\ positions[s][k] + 1 \in 1..n
                        /\ outputs[positions[s][k] + 1] = <<s, own[s][k]>>
    BY <2>1, <2>2, <2>3 DEF LeadsToOwn
  <2>6. \A k \in 1..m : ~ (positions[s][k] >= n)
    BY <2>4, <2>5
  <2>7. SessionOutputs(s) = [k \in 1..m |-> outputs[positions[s][k] + 1]]
    BY <2>2, <2>3, <2>6 DEF SessionOutputs
  <2> QED
    BY <2>2, <2>5, <2>7
<1> QED
  BY <1>1, <1>2 DEF OutputsAreOwn

\* A session is given exactly its own outputs as long as no clear took out an
\* output that came before one of another session (output store), for any number of
\* sessions, outputs and clears.
THEOREM SessionsAreGivenTheirOwn == OutputSpec => []OutputsAreOwn
  BY OutputInitially, OutputStep, OutputFits, PTL DEF OutputSpec

-----------------------------------------------------------------------------
(***************************************************************************)
(* The projector: its steps keep what the user and the system said, and    *)
(* what a step established stays so in the steps after it.  The turns of   *)
(* the present step that were looked at are related to its result so far.  *)
(***************************************************************************)
Tells(t, w) == \E a \in DOMAIN Text(t) : Text(t)[a] = w
SaidIn(w, ts, n) == \E k \in 1..n : Tells(ts[k], w)

\* The messages in o are those in the first n turns of ts, in order.
Retold(o, ts, n) ==
  /\ \A w \in 1..MaxSaid : SaidIn(w, o, Len(o)) <=> SaidIn(w, ts, n)
  /\ WordsInOrder(o)

LEMMA TextIsSequence ==
  ASSUME NEW t \in Turns PROVE Text(t) \in Seq(1..MaxSaid)
<1>1. t.content \in {NoContent} \cup Seq(1..MaxSaid)
  BY DEF Turns
<1>2. <<>> \in Seq(1..MaxSaid)
  OBVIOUS
<1> QED
  BY <1>1, <1>2, Zenon DEF Text

LEMMA WordOfText ==
  ASSUME NEW x \in Seq(1..MaxSaid)
  PROVE  x \in Seq(Nat) /\ DOMAIN x = 1..Len(x) /\ Len(x) \in Nat
         /\ \A k \in DOMAIN x : x[k] \in 1..MaxSaid
<1>1. DOMAIN x = 1..Len(x) /\ Len(x) \in Nat /\ \A k \in DOMAIN x : x[k] \in 1..MaxSaid
  BY LenProperties, ElementOfSeq
<1>2. \A k \in DOMAIN x : x[k] \in Nat
  BY <1>1
<1>3. x = [k \in 1..Len(x) |-> x[k]]
  BY <1>1
<1> QED
  BY <1>1, <1>2, <1>3

LEMMA JoinedTexts ==
  ASSUME NEW c \in Seq(1..MaxSaid), NEW d \in Seq(1..MaxSaid)
  PROVE  /\ c \o d \in Seq(1..MaxSaid)
         /\ \A k \in DOMAIN c : k \in DOMAIN (c \o d) /\ (c \o d)[k] = c[k]
         /\ \A k \in DOMAIN d : Len(c) + k \in DOMAIN (c \o d) /\ (c \o d)[Len(c) + k] = d[k]
         /\ \A k \in DOMAIN (c \o d) : k \in DOMAIN c
              \/ (k - Len(c) \in DOMAIN d /\ (c \o d)[k] = d[k - Len(c)])
<1>1. /\ c \o d \in Seq(1..MaxSaid) /\ Len(c \o d) = Len(c) + Len(d)
      /\ \A i \in 1 .. Len(c) + Len(d) : (c \o d)[i] = IF i <= Len(c) THEN c[i] ELSE d[i - Len(c)]
  BY ConcatProperties
<1>2. /\ DOMAIN c = 1..Len(c) /\ DOMAIN d = 1..Len(d) /\ Len(c) \in Nat /\ Len(d) \in Nat
      /\ DOMAIN (c \o d) = 1..(Len(c) + Len(d))
  BY <1>1, WordOfText
<1> QED
  BY <1>1, <1>2

\* A turn that is appended to the result is told.
LEMMA AppendedIsRetold ==
  ASSUME NEW ts \in Seq(Turns), NEW o \in Seq(Turns), NEW n \in Nat, n < Len(ts),
         WordsInOrder(ts), Retold(o, ts, n)
  PROVE  Retold(Append(o, ts[n + 1]), ts, n + 1)
<1> DEFINE t == ts[n + 1]
           p == Append(o, t)
<1>1. /\ t \in Turns /\ p \in Seq(Turns) /\ Len(p) = Len(o) + 1 /\ p[Len(o) + 1] = t
      /\ \A k \in 1..Len(o) : p[k] = o[k] /\ o[k] \in Turns
      /\ \A k \in 1..Len(ts) : ts[k] \in Turns
      /\ Len(o) \in Nat /\ n + 1 \in 1..Len(ts)
  OBVIOUS
<1> HIDE DEF p
<1>2. ASSUME NEW w \in 1..MaxSaid PROVE SaidIn(w, p, Len(p)) <=> SaidIn(w, ts, n + 1)
  <2>1. SaidIn(w, p, Len(p)) <=> SaidIn(w, o, Len(o)) \/ Tells(t, w)
    <3>1. \A k : k \in 1..Len(p) <=> k \in 1..Len(o) \/ k = Len(p)
      BY <1>1
    <3>2. p[Len(p)] = t /\ \A k \in 1..Len(o) : p[k] = o[k]
      BY <1>1
    <3> QED
      BY <3>1, <3>2, Zenon DEF SaidIn
  <2>2. SaidIn(w, ts, n + 1) <=> SaidIn(w, ts, n) \/ Tells(t, w)
    BY <1>1 DEF SaidIn
  <2> QED
    BY <2>1, <2>2 DEF Retold
<1>3. WordsInOrder(p)
  <2> SUFFICES ASSUME NEW i \in DOMAIN p, NEW j \in DOMAIN p,
                      NEW a \in DOMAIN Text(p[i]), NEW b \in DOMAIN Text(p[j]),
                      i < j \/ (i = j /\ a < b)
               PROVE  Text(p[i])[a] < Text(p[j])[b]
    BY DEF WordsInOrder
  <2>1. DOMAIN p = 1..(Len(o) + 1) /\ DOMAIN o = 1..Len(o) /\ DOMAIN ts = 1..Len(ts)
    BY <1>1
  <2>2. CASE j <= Len(o)
    BY <2>1, <2>2, <1>1 DEF WordsInOrder, Retold
  <2>3. CASE j = Len(o) + 1 /\ i = j
    <3>1. p[i] = ts[n + 1] /\ p[j] = ts[n + 1]
      BY <2>3, <1>1
    <3> QED
      BY <3>1, <2>1, <2>3, <1>1 DEF WordsInOrder
  <2>4. CASE j = Len(o) + 1 /\ i < j
    <3>1. p[i] = o[i] /\ i \in 1..Len(o) /\ p[j] = ts[n + 1]
      BY <2>1, <2>4, <1>1
    <3>2. Text(o[i]) \in Seq(1..MaxSaid)
      BY <3>1, <1>1, TextIsSequence
    <3>3. Text(o[i])[a] \in 1..MaxSaid /\ Tells(o[i], Text(o[i])[a])
      BY <3>1, <3>2, WordOfText DEF Tells
    <3>4. PICK k \in 1..n : Tells(ts[k], Text(o[i])[a])
      BY <3>1, <3>3 DEF Retold, SaidIn
    <3>5. PICK c \in DOMAIN Text(ts[k]) : Text(ts[k])[c] = Text(o[i])[a]
      BY <3>4 DEF Tells
    <3>6. k \in DOMAIN ts /\ n + 1 \in DOMAIN ts /\ k < n + 1
      BY <2>1, <1>1
    <3>7. b \in DOMAIN Text(ts[n + 1])
      BY <3>1
    <3>8. Text(ts[k])[c] < Text(ts[n + 1])[b]
      BY <3>5, <3>6, <3>7 DEF WordsInOrder
    <3> QED
      BY <3>1, <3>5, <3>8
  <2> QED
    BY <2>1, <2>2, <2>3, <2>4
<1> QED
  BY <1>2, <1>3 DEF Retold, p

\* A turn in which nobody spoke may be dropped or added.
LEMMA SilentIsSkipped ==
  ASSUME NEW ts, NEW o, NEW n \in Nat, Text(ts[n + 1]) = <<>>, Retold(o, ts, n)
  PROVE  Retold(o, ts, n + 1)
<1>1. ASSUME NEW w PROVE ~ Tells(ts[n + 1], w)
  BY DEF Tells
<1> QED
  BY <1>1 DEF Retold, SaidIn

LEMMA SilentIsAdded ==
  ASSUME NEW ts, NEW o \in Seq(Turns), NEW n \in Nat, NEW t \in Turns, Text(t) = <<>>,
         Retold(o, ts, n)
  PROVE  Retold(Append(o, t), ts, n)
<1> DEFINE p == Append(o, t)
<1>1. /\ p \in Seq(Turns) /\ Len(p) = Len(o) + 1 /\ p[Len(o) + 1] = t
      /\ \A k \in 1..Len(o) : p[k] = o[k]
      /\ Len(o) \in Nat /\ DOMAIN p = 1..(Len(o) + 1) /\ DOMAIN o = 1..Len(o)
  OBVIOUS
<1> HIDE DEF p
<1>2. ASSUME NEW w PROVE SaidIn(w, p, Len(p)) <=> SaidIn(w, o, Len(o))
  <2>1. ~ Tells(t, w)
    BY DEF Tells
  <2> QED
    BY <1>1, <2>1 DEF SaidIn
<1>3. WordsInOrder(p)
  BY <1>1 DEF WordsInOrder, Retold
<1> QED
  BY <1>2, <1>3 DEF Retold, p

\* Two turns of the user become one.
JoinedTo(p, o, ts, n) ==
  /\ o # <<>> /\ o[Len(o)].role = "user" /\ ts[n + 1].role = "user"
  /\ o[Len(o)].content # NoContent /\ ts[n + 1].content # NoContent
  /\ p = [o EXCEPT ![Len(o)].content = @ \o ts[n + 1].content]

LEMMA JoinedIsRetold ==
  ASSUME NEW ts \in Seq(Turns), NEW o \in Seq(Turns), NEW n \in Nat, n < Len(ts),
         WordsInOrder(ts), Retold(o, ts, n), NEW p, JoinedTo(p, o, ts, n)
  PROVE  p \in Seq(Turns) /\ Len(p) = Len(o) /\ Retold(p, ts, n + 1)
         /\ p[Len(o)].role = "user" /\ p[Len(o)].content # NoContent
         /\ \A k \in 1..(Len(o) - 1) : p[k] = o[k]
<1> DEFINE t == ts[n + 1]
           m == Len(o)
           c == o[m].content
           d == t.content
<1>16. /\ o # <<>> /\ o[m].role = "user" /\ t.role = "user" /\ c # NoContent /\ d # NoContent
       /\ p = [o EXCEPT ![m] = [o[m] EXCEPT !.content = c \o d]]
  BY DEF JoinedTo
<1>1. /\ m \in Nat \ {0} /\ m \in DOMAIN o /\ DOMAIN o = 1..m /\ DOMAIN ts = 1..Len(ts)
      /\ o[m] \in Turns /\ t \in Turns /\ n + 1 \in DOMAIN ts
      /\ \A k \in 1..m : o[k] \in Turns
      /\ \A k \in 1..Len(ts) : ts[k] \in Turns
  BY <1>16
<1>2. c \in Seq(1..MaxSaid) /\ d \in Seq(1..MaxSaid)
  BY <1>1, <1>16 DEF Turns
<1>3. c \o d \in Seq(1..MaxSaid)
  BY <1>2, JoinedTexts
<1>5. [o[m] EXCEPT !.content = c \o d] \in Turns
  BY <1>1, <1>3 DEF Turns
<1>6. /\ p \in Seq(Turns) /\ Len(p) = m /\ DOMAIN p = 1..m
      /\ \A k \in 1..(m - 1) : p[k] = o[k]
  BY <1>1, <1>5, <1>16
<1>17. p[m] = [o[m] EXCEPT !.content = c \o d]
  BY <1>1, <1>5, <1>16
<1>7. c \o d # NoContent
  BY <1>3, WordOfText, ProjectorAssumption
<1>8. p[m].role = "user" /\ p[m].content = c \o d
  BY <1>17, <1>1, <1>16 DEF Turns
<1>9. Text(o[m]) = c /\ Text(t) = d /\ Text(p[m]) = c \o d
  BY <1>7, <1>8, <1>16 DEF Text
<1> HIDE DEF t, m, c, d
<1>10. \A k \in 1..(m - 1) : Text(p[k]) = Text(o[k])
  BY <1>6
<1>11. /\ \A k \in DOMAIN c : k \in DOMAIN (c \o d) /\ (c \o d)[k] = c[k]
       /\ \A k \in DOMAIN d : Len(c) + k \in DOMAIN (c \o d) /\ (c \o d)[Len(c) + k] = d[k]
       /\ \A k \in DOMAIN (c \o d) : k \in DOMAIN c
              \/ (k - Len(c) \in DOMAIN d /\ (c \o d)[k] = d[k - Len(c)])
  BY <1>2, JoinedTexts
<1>15. DOMAIN c = 1..Len(c) /\ Len(c) \in Nat /\ DOMAIN (c \o d) \subseteq Nat
  <2>1. DOMAIN (c \o d) = 1..Len(c \o d) /\ Len(c \o d) \in Nat
    BY <1>3, WordOfText
  <2> QED
    BY <1>2, <2>1, WordOfText
<1>12. ASSUME NEW w \in 1..MaxSaid PROVE SaidIn(w, p, Len(p)) <=> SaidIn(w, ts, n + 1)
  <2>1. SaidIn(w, p, Len(p)) <=> (\E k \in 1..(m - 1) : Tells(o[k], w)) \/ Tells(p[m], w)
    <3>1. Len(p) = m /\ m \in Nat \ {0} /\ \A k \in 1..(m - 1) : p[k] = o[k]
      BY <1>1, <1>6
    <3>2. \A k : k \in 1..m <=> k \in 1..(m - 1) \/ k = m
      BY <3>1
    <3>3. SaidIn(w, p, m) <=> (\E k \in 1..(m - 1) : Tells(p[k], w)) \/ Tells(p[m], w)
      BY <3>2, Zenon DEF SaidIn
    <3> QED
      BY <3>1, <3>3, Zenon
  <2>2. SaidIn(w, o, Len(o)) <=> (\E k \in 1..(m - 1) : Tells(o[k], w)) \/ Tells(o[m], w)
    BY <1>1 DEF SaidIn, m
  <2>3. SaidIn(w, ts, n + 1) <=> SaidIn(w, ts, n) \/ Tells(t, w)
    BY <1>1 DEF SaidIn, t
  <2>4. Tells(p[m], w) <=> Tells(o[m], w) \/ Tells(t, w)
    <3>1. ASSUME NEW a \in DOMAIN d PROVE Len(c) + a \in DOMAIN (c \o d) /\ (c \o d)[Len(c) + a] = d[a]
      BY <1>11, <1>15
    <3>2. ASSUME NEW a \in DOMAIN c PROVE a \in DOMAIN (c \o d) /\ (c \o d)[a] = c[a]
      BY <1>11, <1>15
    <3>3. ASSUME NEW a \in DOMAIN (c \o d)
          PROVE  (a \in DOMAIN c /\ (c \o d)[a] = c[a]) \/ (\E b \in DOMAIN d : (c \o d)[a] = d[b])
      BY <1>11, <1>15
    <3>4. Tells(p[m], w) <=> \E a \in DOMAIN (c \o d) : (c \o d)[a] = w
      BY <1>9 DEF Tells
    <3>5. Tells(o[m], w) <=> \E a \in DOMAIN c : c[a] = w
      BY <1>9 DEF Tells
    <3>6. Tells(t, w) <=> \E a \in DOMAIN d : d[a] = w
      BY <1>9 DEF Tells
    <3> QED
      BY <3>1, <3>2, <3>3, <3>4, <3>5, <3>6
  <2> QED
    BY <2>1, <2>2, <2>3, <2>4 DEF Retold, m
<1>13. ASSUME NEW i \in 1..m, NEW a \in DOMAIN Text(o[i]), NEW b \in DOMAIN d
       PROVE  Text(o[i])[a] < d[b]
  <2>1. Text(o[i]) \in Seq(1..MaxSaid)
    BY <1>1, TextIsSequence
  <2>2. Text(o[i])[a] \in 1..MaxSaid /\ Tells(o[i], Text(o[i])[a])
    BY <2>1, WordOfText DEF Tells
  <2>5. PICK k \in 1..n : Tells(ts[k], Text(o[i])[a])
    BY <2>2 DEF Retold, SaidIn, m
  <2>3. PICK e \in DOMAIN Text(ts[k]) : Text(ts[k])[e] = Text(o[i])[a]
    BY <2>5 DEF Tells
  <2>4. k \in DOMAIN ts /\ n + 1 \in DOMAIN ts /\ k < n + 1 /\ Text(ts[n + 1]) = d
    BY <1>1, <1>9 DEF t
  <2> QED
    BY <2>3, <2>4 DEF WordsInOrder
<1>14. WordsInOrder(p)
  <2> SUFFICES ASSUME NEW i \in DOMAIN p, NEW j \in DOMAIN p,
                      NEW a \in DOMAIN Text(p[i]), NEW b \in DOMAIN Text(p[j]),
                      i < j \/ (i = j /\ a < b)
               PROVE  Text(p[i])[a] < Text(p[j])[b]
    BY DEF WordsInOrder
  <2>1. \A k, l \in 1..m : \A e \in DOMAIN Text(o[k]), f \in DOMAIN Text(o[l]) :
          k < l \/ (k = l /\ e < f) => Text(o[k])[e] < Text(o[l])[f]
    BY <1>1 DEF WordsInOrder, Retold
  <2>2. CASE j < m
    <3>1. i \in 1..m /\ j \in 1..m /\ Text(p[i]) = Text(o[i]) /\ Text(p[j]) = Text(o[j])
      BY <2>2, <1>1, <1>6, <1>10
    <3> QED
      BY <2>1, <3>1
  <2>3. CASE j = m /\ i < m
    <3>1. Text(p[i]) = Text(o[i]) /\ i \in 1..m
      BY <2>3, <1>6, <1>10
    <3>2. CASE b \in DOMAIN c
      <4>1. Text(p[j])[b] = Text(o[m])[b] /\ b \in DOMAIN Text(o[m])
        <5>1. Text(p[j]) = c \o d /\ Text(o[m]) = c
          BY <2>3, <1>9
        <5> QED
          BY <5>1, <3>2, <1>11
      <4> QED
        BY <4>1, <3>1, <2>1, <2>3, <1>1
    <3>3. CASE b \notin DOMAIN c
      <4>1. b - Len(c) \in DOMAIN d /\ Text(p[j])[b] = d[b - Len(c)]
        BY <3>3, <2>3, <1>9, <1>11, <1>15
      <4> QED
        BY <4>1, <3>1, <1>13
    <3> QED
      BY <3>2, <3>3
  <2>4. CASE j = m /\ i = m
    <3>1. a \in DOMAIN (c \o d) /\ b \in DOMAIN (c \o d) /\ a < b
          /\ Text(p[i])[a] = (c \o d)[a] /\ Text(p[j])[b] = (c \o d)[b]
      <4>1. Text(p[i]) = c \o d /\ Text(p[j]) = c \o d
        BY <2>4, <1>9
      <4>2. a < b
        BY <2>4, <1>1
      <4> QED
        BY <4>1, <4>2
    <3>2. CASE b \in DOMAIN c
      <4>1. a \in DOMAIN c /\ (c \o d)[a] = c[a] /\ (c \o d)[b] = c[b]
        BY <3>1, <3>2, <1>11, <1>15
      <4>2. c[a] < c[b]
        BY <2>1, <4>1, <3>1, <3>2, <1>9, <1>1
      <4> QED
        BY <3>1, <4>1, <4>2
    <3>3. CASE b \notin DOMAIN c /\ a \in DOMAIN c
      <4>1. b - Len(c) \in DOMAIN d /\ (c \o d)[b] = d[b - Len(c)] /\ (c \o d)[a] = c[a]
        BY <3>3, <3>1, <1>11, <1>15
      <4> QED
        BY <4>1, <3>1, <3>3, <1>13, <1>9, <1>1
    <3>4. CASE b \notin DOMAIN c /\ a \notin DOMAIN c
      <4>1. /\ b - Len(c) \in DOMAIN d /\ (c \o d)[b] = d[b - Len(c)]
            /\ a - Len(c) \in DOMAIN d /\ (c \o d)[a] = d[a - Len(c)]
            /\ a - Len(c) < b - Len(c)
        BY <3>4, <3>1, <1>11, <1>15
      <4>2. d[a - Len(c)] < d[b - Len(c)]
        BY <4>1, <1>9, <1>1 DEF WordsInOrder, t
      <4> QED
        BY <4>1, <4>2, <3>1
    <3> QED
      BY <3>2, <3>3, <3>4
  <2> QED
    BY <2>2, <2>3, <2>4, <1>6, <1>1
<1> QED
  BY <1>6, <1>7, <1>8, <1>12, <1>14 DEF Retold, m

-----------------------------------------------------------------------------
\* Two turns of the user next to each other, without and with a null content.
UsersAt(ts, k) == ts[k].role = "user" /\ ts[k + 1].role = "user"
NoUsers(ts, n) == \A k \in 1..(n - 1) : ~ UsersAt(ts, k)
NullPair(ts, n) ==
  \E k \in 1..(n - 1) : UsersAt(ts, k) /\ NoContent \in {ts[k].content, ts[k + 1].content}

\* What dedupe, repair and drop_orphan_results establish.
KeysDistinct(ts) ==
  /\ \A i, j \in DOMAIN ts :
       ts[i].role = "tool" /\ ts[j].role = "tool" /\ ts[i].key = ts[j].key => i = j
  /\ \A k \in DOMAIN ts : ts[k].role = "tool" => ts[k].content # NoContent
Speakers == {"assistant", "tool", "function"}
ResultsBehind(ts) == \A k \in 2..Len(ts) : IsResult(ts[k]) => ts[k - 1].role \in Speakers
CallsFor(ts, k, j, more) ==
  /\ Calling(ts[j]) /\ \A i \in (j + 1)..k : ~ Calling(ts[i])
  /\ Cardinality({i \in j..k : IsResult(ts[i])}) + more <= ts[j].calls
AnsweredIn(ts, k) == \E j \in 1..(k - 1) : CallsFor(ts, k, j, 0)
ResultsOfCalls(ts, dropped) == \A k \in DOMAIN ts : IsResult(ts[k]) =>
  AnsweredIn(ts, k) \/ (dropped /\ \A j \in 1..(k - 1) : ~ Calling(ts[j]))

\* How the result so far, o, is related to the first n turns.
FromTurns(o, ts, n) ==
  /\ \A k \in DOMAIN o : o[k] = Injected \/ \E j \in 1..n : o[k] = ts[j]
  /\ KeysDistinct(ts) => KeysDistinct(o)
  /\ NoUsers(ts, n) => NoUsers(o, Len(o))
  /\ NullPair(ts, n) => NullPair(o, Len(o))
  /\ ResultsBehind(o)

MergeLoop(o, ts, n) ==
  /\ NoUsers(o, Len(o))
  /\ n > 0 => /\ o # <<>> /\ o[Len(o)].role = ts[n].role
              /\ o[Len(o)].content = NoContent => ts[n].content = NoContent
DedupeLoop(o, ts, n, dropped) ==
  /\ dropped \/ (Len(o) = n /\ \A k \in 1..n : o[k] = ts[k])
  /\ KeysDistinct(o)
RepairLoop(o, ts, n) == FromTurns(o, ts, n) /\ (n > 0 => o # <<>> /\ o[Len(o)] = ts[n])
OrphanLoop(o, ts, n, p) ==
  /\ FromTurns(o, ts, n)
  /\ n > 0 => \/ o # <<>> /\ o[Len(o)] = ts[n]
              \/ IsResult(ts[n]) /\ p = 0 /\ (o # <<>> => o[Len(o)].role # "user")
  /\ p > 0 => \E j \in DOMAIN o : CallsFor(o, Len(o), j, p)
  /\ ResultsOfCalls(o, FALSE)

LoopInv ==
  /\ stage = 0 => MergeLoop(out, turns, looked)
  /\ stage = 1 => DedupeLoop(out, turns, looked, deduped)
  /\ stage = 2 => RepairLoop(out, turns, looked)
  /\ stage = 3 => OrphanLoop(out, turns, looked, pendingCalls)

StageInv ==
  /\ stage = 0 => failed = {}
  /\ stage = 1 \/ (stage > 1 /\ ~ deduped) =>
       IF "merge" \in failed THEN NullPair(turns, Len(turns)) ELSE NoUsers(turns, Len(turns))
  /\ stage >= 2 /\ "dedupe" \notin failed => KeysDistinct(turns)
  /\ stage >= 3 => ResultsBehind(turns)
  /\ stage >= 4 => ResultsOfCalls(turns, headDropped)
  /\ stage = 5 /\ turns # <<>> => turns[1].role \in {"user", "system"}

ProjectorInv ==
  /\ ProjectorTypeOK /\ conversation \in Seq(Turns) /\ Len(conversation) <= MaxSaid
  /\ stage = 0 /\ looked = 0 => turns = conversation
  /\ looked = 0 => out = <<>> /\ pendingCalls = 0
  /\ stage >= 4 => looked = 0
  /\ UserTextKept /\ Retold(out, turns, looked)
  /\ LoopInv /\ StageInv

LEMMA LongerByOne ==
  ASSUME NEW o \in Seq(Turns), NEW t \in Turns
  PROVE  /\ Append(o, t) \in Seq(Turns) /\ Append(o, t) # <<>>
         /\ Len(Append(o, t)) = Len(o) + 1 /\ Append(o, t)[Len(o) + 1] = t
         /\ \A k \in 1..Len(o) : Append(o, t)[k] = o[k]
         /\ Len(o) \in Nat /\ DOMAIN o = 1..Len(o) /\ DOMAIN Append(o, t) = 1..(Len(o) + 1)
         /\ o # <<>> <=> Len(o) # 0
OBVIOUS

LEMMA KeysStayDistinct ==
  ASSUME NEW o \in Seq(Turns), NEW t \in Turns, KeysDistinct(o),
         t.role = "tool" => t.content # NoContent,
         \A k \in DOMAIN o : o[k].role = "tool" /\ t.role = "tool" => o[k].key # t.key
  PROVE  KeysDistinct(Append(o, t))
<1> DEFINE p == Append(o, t)
<1>1. /\ Len(o) \in Nat /\ DOMAIN o = 1..Len(o) /\ DOMAIN p = 1..(Len(o) + 1)
      /\ p[Len(o) + 1] = t /\ \A k \in 1..Len(o) : p[k] = o[k]
  BY LongerByOne
<1> HIDE DEF p
<1>2. ASSUME NEW k \in DOMAIN p PROVE (k \in DOMAIN o /\ p[k] = o[k]) \/ (k = Len(o) + 1 /\ p[k] = t)
  BY <1>1
<1>3. ASSUME NEW k \in DOMAIN p, p[k].role = "tool" PROVE p[k].content # NoContent
  BY <1>2, <1>3 DEF KeysDistinct
<1>4. ASSUME NEW i \in DOMAIN p, NEW j \in DOMAIN p,
             p[i].role = "tool", p[j].role = "tool", p[i].key = p[j].key
      PROVE  i = j
  <2>1. CASE i \in DOMAIN o /\ j \in DOMAIN o
    BY <2>1, <1>1, <1>4 DEF KeysDistinct
  <2>2. CASE i = Len(o) + 1 /\ p[i] = t
    BY <2>2, <1>2, <1>4
  <2>3. CASE j = Len(o) + 1 /\ p[j] = t
    BY <2>3, <1>2, <1>4
  <2> QED
    BY <2>1, <2>2, <2>3, <1>2
<1> QED
  BY <1>3, <1>4 DEF KeysDistinct, p

LEMMA MergeLoopKeeps ==
  ASSUME NEW ts \in Seq(Turns), NEW o \in Seq(Turns), NEW n \in Nat, n < Len(ts),
         MergeLoop(o, ts, n),
         ~ (o # <<>> /\ o[Len(o)].role = "user" /\ ts[n + 1].role = "user")
  PROVE  MergeLoop(Append(o, ts[n + 1]), ts, n + 1)
<1> DEFINE p == Append(o, ts[n + 1])
<1>1. ts[n + 1] \in Turns
  OBVIOUS
<1>2. /\ p # <<>> /\ Len(p) = Len(o) + 1 /\ p[Len(o) + 1] = ts[n + 1]
      /\ \A k \in 1..Len(o) : p[k] = o[k]
      /\ Len(o) \in Nat /\ (o # <<>> <=> Len(o) # 0)
  BY <1>1, LongerByOne
<1> HIDE DEF p
<1>3. NoUsers(p, Len(p))
  <2> SUFFICES ASSUME NEW k \in 1..Len(o), UsersAt(p, k) PROVE FALSE
    BY <1>2 DEF NoUsers
  <2>1. CASE k = Len(o)
    BY <2>1, <1>2 DEF UsersAt
  <2>2. CASE k < Len(o)
    <3>1. k \in 1..(Len(o) - 1) /\ p[k] = o[k] /\ p[k + 1] = o[k + 1]
      BY <2>2, <1>2
    <3> QED
      BY <3>1 DEF UsersAt, MergeLoop, NoUsers
  <2> QED
    BY <2>1, <2>2, <1>2
<1> QED
  BY <1>2, <1>3 DEF MergeLoop, p

\* A repeated result is dropped, and the others are kept.
LEMMA DedupeLoopKeeps ==
  ASSUME NEW ts \in Seq(Turns), NEW o \in Seq(Turns), NEW n \in Nat, n < Len(ts), NEW d,
         DedupeLoop(o, ts, n, d), ts[n + 1].role = "tool" => ts[n + 1].content # NoContent,
         ~ (ts[n + 1].role = "tool"
              /\ \E k \in DOMAIN o : o[k].role = "tool" /\ o[k].key = ts[n + 1].key)
  PROVE  DedupeLoop(Append(o, ts[n + 1]), ts, n + 1, d)
<1> DEFINE p == Append(o, ts[n + 1])
<1>1. ts[n + 1] \in Turns
  OBVIOUS
<1>2. /\ Len(p) = Len(o) + 1 /\ p[Len(o) + 1] = ts[n + 1]
      /\ \A k \in 1..Len(o) : p[k] = o[k]
      /\ Len(o) \in Nat /\ DOMAIN o = 1..Len(o) /\ DOMAIN p = 1..(Len(o) + 1)
  BY <1>1, LongerByOne
<1> HIDE DEF p
<1>3. ASSUME ~ d PROVE Len(p) = n + 1 /\ \A k \in 1..(n + 1) : p[k] = ts[k]
  <2>1. Len(o) = n /\ \A k \in 1..n : o[k] = ts[k]
    BY <1>3 DEF DedupeLoop
  <2> QED
    BY <2>1, <1>2
<1>4. KeysDistinct(p)
  <2>1. KeysDistinct(o)
    BY DEF DedupeLoop
  <2> QED
    BY <1>1, <2>1, KeysStayDistinct DEF p
<1> QED
  BY <1>3, <1>4 DEF DedupeLoop, p

LEMMA RepeatedIsDropped ==
  ASSUME NEW ts, NEW o, NEW n, NEW m, NEW d, DedupeLoop(o, ts, n, d)
  PROVE  DedupeLoop(o, ts, m, TRUE)
BY DEF DedupeLoop

\* A turn of the conversation is appended to the result of repair or of
\* drop_orphan_results.
LEMMA AppendedIsFromTurns ==
  ASSUME NEW ts \in Seq(Turns), NEW o \in Seq(Turns), NEW n \in Nat, n < Len(ts),
         FromTurns(o, ts, n),
         IsResult(ts[n + 1]) /\ o # <<>> => o[Len(o)].role \in Speakers,
         ts[n + 1].role = "user" /\ o # <<>> /\ o[Len(o)].role = "user" =>
           n > 0 /\ ts[n].role = "user",
         ts[n + 1].role = "user" /\ n > 0 /\ ts[n].role = "user" =>
           o # <<>> /\ o[Len(o)] = ts[n]
  PROVE  FromTurns(Append(o, ts[n + 1]), ts, n + 1)
<1> DEFINE p == Append(o, ts[n + 1])
           t == ts[n + 1]
<1>1. /\ t \in Turns /\ n + 1 \in DOMAIN ts /\ DOMAIN ts = 1..Len(ts)
      /\ \A k \in DOMAIN ts : ts[k] \in Turns
  OBVIOUS
<1>2. /\ Len(p) = Len(o) + 1 /\ p[Len(o) + 1] = t
      /\ \A k \in 1..Len(o) : p[k] = o[k]
      /\ Len(o) \in Nat /\ DOMAIN o = 1..Len(o) /\ DOMAIN p = 1..(Len(o) + 1)
      /\ (o # <<>> <=> Len(o) # 0)
  BY <1>1, LongerByOne
<1> HIDE DEF p
<1>3. \A k \in DOMAIN p : p[k] = Injected \/ \E j \in 1..(n + 1) : p[k] = ts[j]
  BY <1>2 DEF FromTurns
<1>4. ASSUME KeysDistinct(ts) PROVE KeysDistinct(p)
  <2>1. Injected.role # "tool"
    BY DEF Injected, Turn
  <2>2. ASSUME NEW k \in DOMAIN o, o[k].role = "tool"
        PROVE  \E j \in 1..n : o[k] = ts[j]
    BY <2>1, <2>2 DEF FromTurns
  <2>3. KeysDistinct(o)
    BY <1>4 DEF FromTurns
  <2>4. ASSUME NEW k \in DOMAIN o, o[k].role = "tool", t.role = "tool", o[k].key = t.key
        PROVE  FALSE
    <3>1. PICK j \in 1..n : o[k] = ts[j]
      BY <2>2, <2>4
    <3>2. j = n + 1
      BY <3>1, <2>4, <1>4, <1>1 DEF KeysDistinct
    <3> QED
      BY <3>2
  <2>5. t.role = "tool" => t.content # NoContent
    BY <1>1, <1>4 DEF KeysDistinct
  <2> QED
    BY <1>1, <2>3, <2>4, <2>5, KeysStayDistinct DEF p
<1>5. ASSUME NoUsers(ts, n + 1) PROVE NoUsers(p, Len(p))
  <2>1. NoUsers(ts, n)
    BY <1>5 DEF NoUsers
  <2>2. NoUsers(o, Len(o))
    BY <2>1 DEF FromTurns
  <2>3. ASSUME NEW k \in 1..Len(o), UsersAt(p, k) PROVE FALSE
    <3>1. CASE k < Len(o)
      <4>1. k \in 1..(Len(o) - 1) /\ p[k] = o[k] /\ p[k + 1] = o[k + 1]
        BY <3>1, <1>2
      <4> QED
        BY <4>1, <2>2, <2>3 DEF UsersAt, NoUsers
    <3>2. CASE k = Len(o)
      <4>1. n \in 1..(n + 1 - 1) /\ ts[n].role = "user" /\ ts[n + 1].role = "user"
        BY <2>3, <3>2, <1>2 DEF UsersAt
      <4> QED
        BY <4>1, <1>5 DEF UsersAt, NoUsers
    <3>3. Len(o) \in Nat
      BY <1>2
    <3> QED
      BY <3>1, <3>2, <3>3
  <2> QED
    BY <2>3, <1>2 DEF NoUsers
<1>6. ASSUME NullPair(ts, n + 1) PROVE NullPair(p, Len(p))
  <2>1. PICK k \in 1..n : UsersAt(ts, k) /\ NoContent \in {ts[k].content, ts[k + 1].content}
    BY <1>6 DEF NullPair
  <2>2. CASE k < n
    <3>1. NullPair(ts, n)
      BY <2>1, <2>2 DEF NullPair
    <3>2. PICK i \in 1..(Len(o) - 1) :
            UsersAt(o, i) /\ NoContent \in {o[i].content, o[i + 1].content}
      BY <3>1 DEF FromTurns, NullPair
    <3>3. p[i] = o[i] /\ p[i + 1] = o[i + 1] /\ i \in 1..(Len(p) - 1)
      BY <1>2
    <3> QED
      BY <3>2, <3>3 DEF NullPair, UsersAt
  <2>3. CASE k = n
    <3>1. o # <<>> /\ o[Len(o)] = ts[n]
      BY <2>1, <2>3 DEF UsersAt
    <3>2. p[Len(o)] = ts[n] /\ p[Len(o) + 1] = ts[n + 1] /\ Len(o) \in 1..(Len(p) - 1)
      BY <3>1, <1>2
    <3> QED
      BY <2>1, <2>3, <3>2 DEF NullPair, UsersAt
  <2> QED
    BY <2>2, <2>3
<1>7. ResultsBehind(p)
  BY <1>2 DEF ResultsBehind, FromTurns
<1> QED
  BY <1>3, <1>4, <1>5, <1>6, <1>7 DEF FromTurns, p

LEMMA InjectedIsSilent == Injected \in Turns /\ Text(Injected) = <<>> /\ ~ IsResult(Injected)
                          /\ Injected.role = "assistant"
BY DEF Injected, Turn, Turns, Text, IsResult

\* The assistant turn that repair puts in front of a result.
LEMMA InjectedIsFromTurns ==
  ASSUME NEW ts \in Seq(Turns), NEW o \in Seq(Turns), NEW n \in Nat, FromTurns(o, ts, n)
  PROVE  FromTurns(Append(o, Injected), ts, n)
<1> DEFINE p == Append(o, Injected)
<1>1. /\ Len(p) = Len(o) + 1 /\ p[Len(o) + 1] = Injected
      /\ \A k \in 1..Len(o) : p[k] = o[k]
      /\ Len(o) \in Nat /\ DOMAIN o = 1..Len(o) /\ DOMAIN p = 1..(Len(o) + 1)
      /\ Injected.role = "assistant" /\ ~ IsResult(Injected)
  BY InjectedIsSilent, LongerByOne
<1> HIDE DEF p
<1>2. \A k \in DOMAIN p : p[k] = Injected \/ \E j \in 1..n : p[k] = ts[j]
  BY <1>1 DEF FromTurns
<1>3. KeysDistinct(ts) => KeysDistinct(p)
  BY InjectedIsSilent, KeysStayDistinct DEF p, FromTurns
<1>4. NoUsers(ts, n) => NoUsers(p, Len(p))
  <2>1. ASSUME NoUsers(o, Len(o)), NEW k \in 1..Len(o), UsersAt(p, k) PROVE FALSE
    <3>1. k < Len(o)
      BY <1>1, <2>1 DEF UsersAt
    <3>2. k \in 1..(Len(o) - 1) /\ p[k] = o[k] /\ p[k + 1] = o[k + 1]
      BY <3>1, <1>1
    <3> QED
      BY <3>2, <2>1 DEF NoUsers, UsersAt
  <2> QED
    BY <2>1, <1>1 DEF FromTurns, NoUsers
<1>5. NullPair(ts, n) => NullPair(p, Len(p))
  <2> SUFFICES ASSUME NullPair(ts, n) PROVE NullPair(p, Len(p))
    OBVIOUS
  <2>1. PICK i \in 1..(Len(o) - 1) :
          UsersAt(o, i) /\ NoContent \in {o[i].content, o[i + 1].content}
    BY DEF FromTurns, NullPair
  <2>2. p[i] = o[i] /\ p[i + 1] = o[i + 1] /\ i \in 1..(Len(p) - 1)
    BY <1>1
  <2> QED
    BY <2>1, <2>2 DEF NullPair, UsersAt
<1>6. ResultsBehind(p)
  BY <1>1 DEF ResultsBehind, FromTurns
<1> QED
  BY <1>2, <1>3, <1>4, <1>5, <1>6 DEF FromTurns, p

LEMMA DroppedIsFromTurns ==
  ASSUME NEW ts \in Seq(Turns), NEW o \in Seq(Turns), NEW n \in Nat, n < Len(ts),
         FromTurns(o, ts, n), ts[n + 1].role # "user"
  PROVE  FromTurns(o, ts, n + 1)
<1>1. NoUsers(ts, n + 1) => NoUsers(ts, n)
  BY DEF NoUsers
<1>2. NullPair(ts, n + 1) => NullPair(ts, n)
  <2> SUFFICES ASSUME NullPair(ts, n + 1) PROVE NullPair(ts, n)
    OBVIOUS
  <2>1. PICK k \in 1..n : UsersAt(ts, k) /\ NoContent \in {ts[k].content, ts[k + 1].content}
    BY DEF NullPair
  <2>2. k # n
    BY <2>1 DEF UsersAt
  <2> QED
    BY <2>1, <2>2 DEF NullPair
<1>3. \A k \in DOMAIN o : o[k] = Injected \/ \E j \in 1..(n + 1) : o[k] = ts[j]
  BY DEF FromTurns
<1> QED
  BY <1>1, <1>2, <1>3 DEF FromTurns

\* repair: a result is behind an assistant turn or another result.
LEMMA RepairLoopKeeps ==
  ASSUME NEW ts \in Seq(Turns), NEW o \in Seq(Turns), NEW n \in Nat, n < Len(ts),
         RepairLoop(o, ts, n), n = 0 => o = <<>>,
         NEW p, p = IF IsResult(ts[n + 1]) /\ o # <<>> /\ o[Len(o)].role \notin Speakers
                      THEN Append(Append(o, Injected), ts[n + 1]) ELSE Append(o, ts[n + 1])
  PROVE  RepairLoop(p, ts, n + 1) /\ p \in Seq(Turns)
<1>1. ts[n + 1] \in Turns /\ Injected \in Turns /\ Injected.role = "assistant"
  BY InjectedIsSilent
<1>2. n > 0 => o # <<>> /\ o[Len(o)] = ts[n]
  BY DEF RepairLoop
<1>3. CASE IsResult(ts[n + 1]) /\ o # <<>> /\ o[Len(o)].role \notin Speakers
  <2> DEFINE q == Append(o, Injected)
  <2>1. q \in Seq(Turns) /\ FromTurns(q, ts, n)
    BY <1>1, InjectedIsFromTurns DEF RepairLoop
  <2>2. ts[n + 1].role # "user" /\ q[Len(q)].role \in Speakers
    BY <1>1, <1>3, LongerByOne DEF Speakers, IsResult
  <2> HIDE DEF q
  <2>3. FromTurns(Append(q, ts[n + 1]), ts, n + 1)
    BY <2>1, <2>2, AppendedIsFromTurns
  <2>4. p = Append(q, ts[n + 1])
    BY <1>3 DEF q
  <2>5. p \in Seq(Turns) /\ p # <<>> /\ p[Len(p)] = ts[n + 1]
    BY <2>1, <2>4, <1>1, LongerByOne
  <2> QED
    BY <2>3, <2>4, <2>5 DEF RepairLoop
<1>4. CASE ~ (IsResult(ts[n + 1]) /\ o # <<>> /\ o[Len(o)].role \notin Speakers)
  <2>1. FromTurns(Append(o, ts[n + 1]), ts, n + 1)
    BY <1>2, <1>4, AppendedIsFromTurns DEF RepairLoop
  <2> QED
    BY <2>1, <1>1, <1>4, LongerByOne DEF RepairLoop
<1> QED
  BY <1>3, <1>4

-----------------------------------------------------------------------------
(***************************************************************************)
(* drop_orphan_results counts the calls that are left to the last          *)
(* assistant turn with calls.                                              *)
(***************************************************************************)
LEMMA ResultsAreFinite ==
  ASSUME NEW ts, NEW j \in Nat, NEW k \in Nat
  PROVE  /\ IsFiniteSet({i \in j..k : IsResult(ts[i])})
         /\ Cardinality({i \in j..k : IsResult(ts[i])}) \in Nat
<1>1. IsFiniteSet(j..k)
  BY FS_Interval
<1>2. IsFiniteSet({i \in j..k : IsResult(ts[i])})
  BY <1>1, FS_Subset
<1> QED
  BY <1>2, FS_CardinalityType

LEMMA CallsAreNumbers == ASSUME NEW t \in Turns PROVE t.calls \in 0..2 /\ t.calls \in Nat
<1>1. t.calls \in 0..2
  BY Zenon DEF Turns
<1> QED
  BY <1>1

LEMMA CallsStay ==
  ASSUME NEW ts, NEW us, NEW k \in Nat, NEW j \in Nat, NEW more,
         \A i \in j..k : ts[i] = us[i], j <= k, CallsFor(ts, k, j, more)
  PROVE  CallsFor(us, k, j, more)
<1>1. {i \in j..k : IsResult(ts[i])} = {i \in j..k : IsResult(us[i])}
  BY DEF IsResult
<1>2. ts[j] = us[j] /\ \A i \in (j + 1)..k : ts[i] = us[i]
  OBVIOUS
<1>3. Calling(ts[j]) /\ (\A i \in (j + 1)..k : ~ Calling(ts[i]))
      /\ Cardinality({i \in j..k : IsResult(ts[i])}) + more <= ts[j].calls
  BY DEF CallsFor
<1>4. Calling(us[j]) /\ \A i \in (j + 1)..k : ~ Calling(us[i])
  BY <1>2, <1>3
<1>5. Cardinality({i \in j..k : IsResult(us[i])}) + more <= us[j].calls
  BY <1>1, <1>2, <1>3
<1> QED
  BY <1>4, <1>5 DEF CallsFor

\* A turn that is appended counts against the calls when it is a result.
LEMMA CallsCount ==
  ASSUME NEW o \in Seq(Turns), NEW t \in Turns, NEW j \in DOMAIN o, NEW c \in Nat,
         ~ Calling(t), IsResult(t) => c > 0, CallsFor(o, Len(o), j, c)
  PROVE  CallsFor(Append(o, t), Len(o) + 1, j, IF IsResult(t) THEN c - 1 ELSE c)
<1> DEFINE p == Append(o, t)
           Before == {i \in j..Len(o) : IsResult(o[i])}
           After == {i \in j..(Len(o) + 1) : IsResult(p[i])}
<1>1. /\ Len(o) \in Nat /\ DOMAIN o = 1..Len(o) /\ p[Len(o) + 1] = t
      /\ \A k \in 1..Len(o) : p[k] = o[k]
  BY LongerByOne
<1>2. IsFiniteSet(Before) /\ Cardinality(Before) \in Nat
  <2>1. j \in Nat /\ Len(o) \in Nat
    BY <1>1
  <2> QED
    BY <2>1, ResultsAreFinite
<1> HIDE DEF p
<1>3. After = IF IsResult(t) THEN Before \cup {Len(o) + 1} ELSE Before
  BY <1>1
<1>4. Len(o) + 1 \notin Before
  BY <1>1
<1>5. Cardinality(Before \cup {Len(o) + 1}) = Cardinality(Before) + 1
  BY <1>2, <1>4, FS_AddElement
<1>6. Calling(o[j]) /\ (\A i \in (j + 1)..Len(o) : ~ Calling(o[i])) /\ o[j].calls \in Nat
      /\ Cardinality(Before) + c <= o[j].calls
  <2>1. o[j] \in Turns
    OBVIOUS
  <2> QED
    BY <2>1, CallsAreNumbers DEF CallsFor
<1> HIDE DEF Before, After
<1>7. Cardinality(After) + (IF IsResult(t) THEN c - 1 ELSE c) <= o[j].calls
  BY <1>2, <1>3, <1>5, <1>6
<1>8. p[j] = o[j] /\ \A i \in (j + 1)..(Len(o) + 1) : ~ Calling(p[i])
  BY <1>1, <1>6
<1> QED
  BY <1>6, <1>7, <1>8 DEF CallsFor, After, p

LEMMA CallsBegin ==
  ASSUME NEW o \in Seq(Turns), NEW t \in Turns, Calling(t)
  PROVE  CallsFor(Append(o, t), Len(o) + 1, Len(o) + 1, t.calls)
<1> DEFINE p == Append(o, t)
<1>1. Len(o) \in Nat /\ p[Len(o) + 1] = t /\ t.calls \in Nat
  BY LongerByOne, CallsAreNumbers
<1> HIDE DEF p
<1>2. {i \in (Len(o) + 1)..(Len(o) + 1) : IsResult(p[i])} = {}
  BY <1>1 DEF IsResult, Calling
<1>3. Cardinality({i \in (Len(o) + 1)..(Len(o) + 1) : IsResult(p[i])}) = 0
  BY <1>2, FS_EmptySet
<1>4. \A i \in (Len(o) + 1 + 1)..(Len(o) + 1) : ~ Calling(p[i])
  BY <1>1
<1>5. 0 + t.calls <= t.calls /\ p[Len(o) + 1].calls = t.calls /\ Calling(p[Len(o) + 1])
  BY <1>1
<1> QED
  BY <1>3, <1>4, <1>5 DEF CallsFor, p

LEMMA ResultsStay ==
  ASSUME NEW o \in Seq(Turns), NEW t \in Turns, ResultsOfCalls(o, FALSE),
         IsResult(t) => AnsweredIn(Append(o, t), Len(o) + 1)
  PROVE  ResultsOfCalls(Append(o, t), FALSE)
<1> DEFINE p == Append(o, t)
<1>1. /\ Len(o) \in Nat /\ DOMAIN o = 1..Len(o) /\ p[Len(o) + 1] = t
      /\ \A k \in 1..Len(o) : p[k] = o[k]
      /\ DOMAIN p = 1..(Len(o) + 1)
  BY LongerByOne
<1> HIDE DEF p
<1> SUFFICES ASSUME NEW k \in 1..Len(o), IsResult(p[k]) PROVE AnsweredIn(p, k)
  BY <1>1 DEF ResultsOfCalls, p
<1>2. AnsweredIn(o, k)
  BY <1>1 DEF ResultsOfCalls
<1>3. PICK j \in 1..(k - 1) : CallsFor(o, k, j, 0)
  BY <1>2 DEF AnsweredIn
<1>4. \A i \in j..k : o[i] = p[i]
  BY <1>1
<1>5. CallsFor(p, k, j, 0)
  BY <1>3, <1>4, CallsStay
<1> QED
  BY <1>5 DEF AnsweredIn

LEMMA NoMoreCalls ==
  ASSUME NEW ts, NEW j \in Nat, NEW k \in Nat, NEW more \in Nat, ts[j].calls \in Nat,
         CallsFor(ts, k, j, more)
  PROVE  CallsFor(ts, k, j, 0)
<1> DEFINE m == Cardinality({i \in j..k : IsResult(ts[i])})
<1>1. m \in Nat
  BY ResultsAreFinite
<1>2. Calling(ts[j]) /\ (\A i \in (j + 1)..k : ~ Calling(ts[i])) /\ m + more <= ts[j].calls
  BY DEF CallsFor
<1> HIDE DEF m
<1>3. m + 0 <= ts[j].calls
  BY <1>1, <1>2
<1> QED
  BY <1>2, <1>3 DEF CallsFor, m

Orphaned(p, d, o, ts, n, c) ==
  /\ p = IF IsResult(ts[n + 1]) /\ c = 0 THEN o ELSE Append(o, ts[n + 1])
  /\ Calling(ts[n + 1]) => d = ts[n + 1].calls
  /\ ~ Calling(ts[n + 1]) => d = IF IsResult(ts[n + 1]) /\ c > 0 THEN c - 1 ELSE c

LEMMA OrphanLoopKeeps ==
  ASSUME NEW ts \in Seq(Turns), NEW o \in Seq(Turns), NEW n \in Nat, n < Len(ts),
         NEW c \in Nat, ResultsBehind(ts), OrphanLoop(o, ts, n, c),
         n = 0 => o = <<>> /\ c = 0,
         NEW p, NEW d, Orphaned(p, d, o, ts, n, c)
  PROVE  OrphanLoop(p, ts, n + 1, d) /\ p \in Seq(Turns) /\ d \in Nat
         /\ (d \in {c, c - 1} \/ d = ts[n + 1].calls)
<1> DEFINE t == ts[n + 1]
<1>1. /\ t \in Turns /\ t.calls \in Nat /\ ~ (IsResult(t) /\ Calling(t))
      /\ Len(o) \in Nat /\ DOMAIN o = 1..Len(o)
  <2>1. t \in Turns
    OBVIOUS
  <2>2. ~ (IsResult(t) /\ Calling(t))
    BY DEF IsResult, Calling
  <2> QED
    BY <2>1, <2>2, CallsAreNumbers, LongerByOne
<1>2. /\ d = IF Calling(t) THEN t.calls ELSE IF IsResult(t) /\ c > 0 THEN c - 1 ELSE c
      /\ p = IF IsResult(t) /\ c = 0 THEN o ELSE Append(o, t)
  BY DEF Orphaned
<1>3. d \in Nat /\ (d \in {c, c - 1} \/ d = t.calls)
  BY <1>1, <1>2
<1>4. n > 0 => \/ o # <<>> /\ o[Len(o)] = ts[n]
               \/ IsResult(ts[n]) /\ c = 0 /\ (o # <<>> => o[Len(o)].role # "user")
  BY DEF OrphanLoop
<1>5. n > 0 /\ IsResult(t) => ts[n].role \in Speakers
  <2> SUFFICES ASSUME n > 0, IsResult(t) PROVE ts[n].role \in Speakers
    OBVIOUS
  <2>1. n + 1 \in 2..Len(ts) /\ (n + 1) - 1 = n
    OBVIOUS
  <2> QED
    BY <2>1 DEF ResultsBehind
<1>6. CASE IsResult(t) /\ c = 0
  <2>1. p = o /\ d = 0 /\ t.role # "user"
    BY <1>1, <1>2, <1>6 DEF IsResult
  <2>2. FromTurns(o, ts, n + 1)
    BY <2>1, DroppedIsFromTurns DEF OrphanLoop
  <2>3. o # <<>> => o[Len(o)].role # "user"
    BY <1>4, <1>5, <1>6 DEF Speakers
  <2> QED
    BY <2>1, <2>2, <2>3, <1>3, <1>6 DEF OrphanLoop
<1>7. CASE ~ (IsResult(t) /\ c = 0)
  <2>1. p = Append(o, t) /\ p \in Seq(Turns) /\ p # <<>> /\ Len(p) = Len(o) + 1 /\ p[Len(p)] = t
    BY <1>1, <1>2, <1>7, LongerByOne
  <2>2. FromTurns(p, ts, n + 1)
    <3>1. IsResult(t) /\ o # <<>> => o[Len(o)].role \in Speakers
      BY <1>4, <1>5, <1>7
    <3>2. t.role = "user" /\ o # <<>> /\ o[Len(o)].role = "user" => n > 0 /\ ts[n].role = "user"
      BY <1>4
    <3>3. t.role = "user" /\ n > 0 /\ ts[n].role = "user" => o # <<>> /\ o[Len(o)] = ts[n]
      BY <1>4 DEF IsResult
    <3> QED
      BY <3>1, <3>2, <3>3, <2>1, AppendedIsFromTurns DEF OrphanLoop
  <2>3. ResultsOfCalls(o, FALSE) /\ (c > 0 => \E j \in DOMAIN o : CallsFor(o, Len(o), j, c))
    BY DEF OrphanLoop
  <2>4. CASE Calling(t)
    <3>1. CallsFor(p, Len(p), Len(p), d) /\ Len(p) \in DOMAIN p
      BY <2>1, <2>4, <1>1, <1>2, CallsBegin, LongerByOne
    <3>2. ResultsOfCalls(p, FALSE)
      BY <2>1, <2>3, <2>4, <1>1, ResultsStay
    <3> QED
      BY <2>1, <2>2, <3>1, <3>2, <1>3 DEF OrphanLoop
  <2>5. CASE ~ Calling(t) /\ c > 0
    <3>1. PICK j \in DOMAIN o : CallsFor(o, Len(o), j, c)
      BY <2>3, <2>5
    <3>2. d = IF IsResult(t) THEN c - 1 ELSE c
      BY <2>5, <1>2
    <3>3. CallsFor(p, Len(o) + 1, j, d) /\ j \in DOMAIN p /\ j \in 1..Len(o)
      <4>1. IsResult(t) => c > 0
        BY <2>5
      <4>2. CallsFor(Append(o, t), Len(o) + 1, j, IF IsResult(t) THEN c - 1 ELSE c)
        BY <3>1, <4>1, <2>5, <1>1, CallsCount
      <4>3. j \in 1..Len(o) /\ j \in DOMAIN p
        BY <1>1, <2>1, LongerByOne
      <4> QED
        BY <4>2, <4>3, <3>2, <2>1
    <3>4. ASSUME IsResult(t) PROVE AnsweredIn(p, Len(o) + 1)
      <4>1. CallsFor(p, Len(o) + 1, j, 0)
        <5>1. p[j] \in Turns
          BY <3>3, <2>1
        <5>2. p[j].calls \in Nat /\ j \in Nat /\ Len(o) + 1 \in Nat
          BY <5>1, <3>3, <1>1, CallsAreNumbers
        <5> QED
          BY <5>2, <3>3, <1>3, NoMoreCalls
      <4> QED
        BY <4>1, <3>3, <1>1 DEF AnsweredIn
    <3>5. ResultsOfCalls(p, FALSE)
      BY <3>4, <2>1, <2>3, <1>1, ResultsStay
    <3>6. CallsFor(p, Len(p), j, d)
      BY <3>3, <2>1
    <3>7. p # <<>> /\ p[Len(p)] = ts[n + 1]
      BY <2>1
    <3> QED
      BY <2>1, <2>2, <3>3, <3>5, <3>6, <3>7, <1>3 DEF OrphanLoop
  <2>6. CASE ~ Calling(t) /\ c = 0
    <3>1. ~ IsResult(t) /\ d = 0
      BY <2>6, <1>7, <1>2
    <3>2. ResultsOfCalls(p, FALSE)
      BY <3>1, <2>1, <2>3, <1>1, ResultsStay
    <3>3. p # <<>> /\ p[Len(p)] = ts[n + 1]
      BY <2>1
    <3>4. OrphanLoop(p, ts, n + 1, d)
      <4>1. ~ d > 0 /\ p[Len(p)] = ts[n + 1] /\ p # <<>>
        BY <3>1, <3>3
      <4> QED
        BY <4>1, <2>2, <3>2 DEF OrphanLoop
    <3> QED
      BY <2>1, <3>4, <1>3
  <2> QED
    BY <2>4, <2>5, <2>6
<1> QED
  BY <1>6, <1>7

-----------------------------------------------------------------------------
(***************************************************************************)
(* drop_leading_non_user takes the first turn away.                        *)
(***************************************************************************)
LEMMA ShorterByOne ==
  ASSUME NEW ts \in Seq(Turns), ts # <<>>
  PROVE  /\ Tail(ts) \in Seq(Turns) /\ Len(ts) \in Nat \ {0} /\ Len(Tail(ts)) = Len(ts) - 1
         /\ DOMAIN ts = 1..Len(ts) /\ DOMAIN Tail(ts) = 1..(Len(ts) - 1)
         /\ \A k \in 1..(Len(ts) - 1) : Tail(ts)[k] = ts[k + 1]
         /\ Head(ts) = ts[1] /\ ts[1] \in Turns
<1>1. /\ Tail(ts) \in Seq(Turns) /\ Len(Tail(ts)) = Len(ts) - 1
      /\ \A i \in 1 .. Len(Tail(ts)) : Tail(ts)[i] = ts[i+1]
  BY HeadTailProperties
<1>2. Len(ts) \in Nat \ {0} /\ DOMAIN ts = 1..Len(ts) /\ Head(ts) = ts[1] /\ ts[1] \in Turns
  OBVIOUS
<1> QED
  BY <1>1, <1>2

LEMMA CallsShift ==
  ASSUME NEW ts, NEW us, NEW k \in Nat, NEW j \in 1..k, NEW more,
         \A i \in 1..k : us[i] = ts[i + 1], CallsFor(ts, k + 1, j + 1, more)
  PROVE  CallsFor(us, k, j, more)
<1> DEFINE S == {i \in j..k : IsResult(us[i])}
           T == {i \in (j + 1)..(k + 1) : IsResult(ts[i])}
           f == [i \in S |-> i + 1]
<1>9. j \in Nat
  OBVIOUS
<1>1. IsFiniteSet(S)
  BY <1>9, ResultsAreFinite
<1>2. \A i \in S : i \in 1..k /\ i + 1 \in T
  OBVIOUS
<1>3. \A l \in T : l - 1 \in S /\ l - 1 + 1 = l
  OBVIOUS
<1> HIDE DEF S, T
<1>4. f \in Injection(S, T)
  BY <1>2 DEF Injection, IsInjective
<1>5. f \in Surjection(S, T)
  BY <1>2, <1>3 DEF Surjection
<1>6. Cardinality(T) = Cardinality(S)
  BY <1>1, <1>4, <1>5, FS_Bijection DEF ExistsBijection, Bijection
<1>7. /\ Calling(ts[j + 1]) /\ \A i \in (j + 1 + 1)..(k + 1) : ~ Calling(ts[i])
      /\ Cardinality(T) + more <= ts[j + 1].calls
  BY DEF CallsFor, T
<1>8. us[j] = ts[j + 1] /\ \A i \in (j + 1)..k : ~ Calling(us[i])
  BY <1>7
<1> QED
  BY <1>6, <1>7, <1>8 DEF CallsFor, S

LEMMA PoppedResults ==
  ASSUME NEW ts \in Seq(Turns), ts # <<>>, NEW dropped \in BOOLEAN, ResultsOfCalls(ts, dropped)
  PROVE  ResultsOfCalls(Tail(ts), dropped \/ Calling(ts[1]))
<1> DEFINE us == Tail(ts)
           n == Len(ts) - 1
<1>1. /\ n \in Nat /\ DOMAIN us = 1..n /\ DOMAIN ts = 1..(n + 1)
      /\ \A k \in 1..n : us[k] = ts[k + 1]
  BY ShorterByOne
<1> HIDE DEF us, n
<1> SUFFICES ASSUME NEW k \in 1..n, IsResult(us[k])
             PROVE  \/ AnsweredIn(us, k)
                    \/ (dropped \/ Calling(ts[1])) /\ \A j \in 1..(k - 1) : ~ Calling(us[j])
  BY <1>1 DEF ResultsOfCalls, us
<1>2. k + 1 \in DOMAIN ts /\ IsResult(ts[k + 1]) /\ k \in Nat
  BY <1>1
<1>3. CASE AnsweredIn(ts, k + 1)
  <2>1. PICK l \in 1..(k + 1 - 1) : CallsFor(ts, k + 1, l, 0)
    BY <1>3 DEF AnsweredIn
  <2>2. CASE l = 1
    <3>1. Calling(ts[1]) /\ \A i \in 2..(k + 1) : ~ Calling(ts[i])
      BY <2>1, <2>2 DEF CallsFor
    <3>2. \A j \in 1..(k - 1) : ~ Calling(us[j])
      BY <3>1, <1>1
    <3> QED
      BY <3>1, <3>2
  <2>3. CASE l > 1
    <3>1. l - 1 \in 1..k /\ l - 1 \in 1..(k - 1) /\ (l - 1) + 1 = l
      BY <2>1, <2>3
    <3>2. \A i \in 1..k : us[i] = ts[i + 1]
      BY <1>1
    <3>3. CallsFor(ts, k + 1, (l - 1) + 1, 0)
      BY <3>1, <2>1
    <3>4. CallsFor(us, k, l - 1, 0)
      BY <3>1, <3>2, <3>3, <1>2, CallsShift
    <3> QED
      BY <3>1, <3>4 DEF AnsweredIn
  <2> QED
    BY <2>1, <2>2, <2>3
<1>4. CASE dropped /\ \A j \in 1..(k + 1 - 1) : ~ Calling(ts[j])
  BY <1>1, <1>4
<1> QED
  BY <1>2, <1>3, <1>4 DEF ResultsOfCalls

LEMMA PoppedTurns ==
  ASSUME NEW ts \in Seq(Turns), ts # <<>>, ts[1].role # "user"
  PROVE  /\ NoUsers(ts, Len(ts)) => NoUsers(Tail(ts), Len(Tail(ts)))
         /\ NullPair(ts, Len(ts)) => NullPair(Tail(ts), Len(Tail(ts)))
         /\ KeysDistinct(ts) => KeysDistinct(Tail(ts))
         /\ ResultsBehind(ts) => ResultsBehind(Tail(ts))
<1> DEFINE us == Tail(ts)
           n == Len(ts) - 1
<1>1. /\ n \in Nat /\ DOMAIN us = 1..n /\ DOMAIN ts = 1..(n + 1) /\ Len(us) = n /\ Len(ts) = n + 1
      /\ \A k \in 1..n : us[k] = ts[k + 1]
  BY ShorterByOne
<1> HIDE DEF us, n
<1>2. ASSUME NoUsers(ts, n + 1) PROVE NoUsers(us, n)
  BY <1>1, <1>2 DEF NoUsers, UsersAt
<1>3. ASSUME NullPair(ts, n + 1) PROVE NullPair(us, n)
  <2>1. PICK k \in 1..n : UsersAt(ts, k) /\ NoContent \in {ts[k].content, ts[k + 1].content}
    <3>1. (n + 1) - 1 = n
      BY <1>1
    <3> QED
      BY <1>3, <3>1 DEF NullPair
  <2>2. k # 1
    BY <2>1 DEF UsersAt
  <2>3. k - 1 \in 1..(n - 1) /\ (k - 1) + 1 = k /\ us[k - 1] = ts[k] /\ us[k] = ts[k + 1]
    BY <2>1, <2>2, <1>1
  <2> QED
    BY <2>1, <2>3 DEF NullPair, UsersAt
<1>4. ASSUME KeysDistinct(ts) PROVE KeysDistinct(us)
  <2>1. \A k \in DOMAIN us : k + 1 \in DOMAIN ts /\ us[k] = ts[k + 1]
    BY <1>1
  <2>2. \A i, j \in DOMAIN us : i + 1 = j + 1 => i = j
    BY <1>1
  <2> QED
    BY <2>1, <2>2, <1>4 DEF KeysDistinct
<1>5. ASSUME ResultsBehind(ts) PROVE ResultsBehind(us)
  <2> SUFFICES ASSUME NEW k \in 2..n, IsResult(us[k]) PROVE us[k - 1].role \in Speakers
    BY <1>1 DEF ResultsBehind
  <2>1. k + 1 \in 2..Len(ts) /\ us[k] = ts[k + 1] /\ us[k - 1] = ts[k] /\ (k + 1) - 1 = k
    BY <1>1
  <2> QED
    BY <2>1, <1>5 DEF ResultsBehind
<1> QED
  BY <1>1, <1>2, <1>3, <1>4, <1>5 DEF us

LEMMA PoppedWords ==
  ASSUME NEW ts \in Seq(Turns), ts # <<>>, Text(ts[1]) = <<>>
  PROVE  /\ UNION {ToSet(Text(Tail(ts)[k])) : k \in DOMAIN Tail(ts)}
              = UNION {ToSet(Text(ts[k])) : k \in DOMAIN ts}
         /\ WordsInOrder(ts) => WordsInOrder(Tail(ts))
<1> DEFINE us == Tail(ts)
           n == Len(ts) - 1
           W(t) == ToSet(Text(t))
<1>1. /\ n \in Nat /\ DOMAIN us = 1..n /\ DOMAIN ts = 1..(n + 1)
      /\ \A k \in 1..n : us[k] = ts[k + 1]
  BY ShorterByOne
<1> HIDE DEF us, n
<1>2. W(ts[1]) = {}
  BY DEF ToSet
<1> HIDE DEF W
<1>3. UNION {W(us[k]) : k \in 1..n} \subseteq UNION {W(ts[k]) : k \in 1..(n + 1)}
  BY <1>1
<1>4. ASSUME NEW k \in 1..(n + 1), NEW w \in W(ts[k]) PROVE w \in UNION {W(us[l]) : l \in 1..n}
  <2>1. k # 1
    BY <1>2, <1>4
  <2>2. k - 1 \in 1..n /\ us[k - 1] = ts[k]
    BY <2>1, <1>1
  <2> QED
    BY <2>2, <1>4
<1>5. UNION {W(us[k]) : k \in DOMAIN us} = UNION {W(ts[k]) : k \in DOMAIN ts}
  BY <1>1, <1>3, <1>4
<1>6. WordsInOrder(ts) => WordsInOrder(us)
  <2> SUFFICES ASSUME WordsInOrder(ts), NEW i \in 1..n, NEW j \in 1..n,
                      NEW a \in DOMAIN Text(us[i]), NEW b \in DOMAIN Text(us[j]),
                      i < j \/ (i = j /\ a < b)
               PROVE  Text(us[i])[a] < Text(us[j])[b]
    BY <1>1 DEF WordsInOrder
  <2>1. /\ i + 1 \in DOMAIN ts /\ j + 1 \in DOMAIN ts /\ us[i] = ts[i + 1] /\ us[j] = ts[j + 1]
        /\ i + 1 < j + 1 \/ (i + 1 = j + 1 /\ a < b)
    BY <1>1
  <2> QED
    BY <2>1 DEF WordsInOrder
<1> QED
  BY <1>5, <1>6 DEF us, W

-----------------------------------------------------------------------------
LEMMA SameWords ==
  ASSUME NEW ts \in Seq(Turns), NEW o \in Seq(Turns), Retold(o, ts, Len(ts))
  PROVE  UNION {ToSet(Text(o[k])) : k \in DOMAIN o} = UNION {ToSet(Text(ts[k])) : k \in DOMAIN ts}
<1>1. ASSUME NEW us \in Seq(Turns)
      PROVE  /\ UNION {ToSet(Text(us[k])) : k \in DOMAIN us} \subseteq 1..MaxSaid
             /\ \A w : w \in UNION {ToSet(Text(us[k])) : k \in DOMAIN us} <=> SaidIn(w, us, Len(us))
  <2>1. DOMAIN us = 1..Len(us) /\ \A k \in DOMAIN us : us[k] \in Turns
    OBVIOUS
  <2>2. ASSUME NEW t, NEW w PROVE w \in ToSet(Text(t)) <=> Tells(t, w)
    BY DEF ToSet, Tells
  <2>3. ASSUME NEW t \in Turns PROVE ToSet(Text(t)) \subseteq 1..MaxSaid
    BY TextIsSequence, WordOfText DEF ToSet
  <2> QED
    BY <2>1, <2>2, <2>3 DEF SaidIn
<1> QED
  BY <1>1 DEF Retold

LEMMA StepsOfPipeline ==
  /\ Len(Pipeline) = 5 /\ Pipeline[1] = "merge" /\ Pipeline[2] = "dedupe"
  /\ Pipeline[3] = "repair" /\ Pipeline[4] = "orphans" /\ Pipeline[5] = "leading"
BY DEF Pipeline

LEMMA ProjectorInitially == ProjectorInit => ProjectorInv
<1> SUFFICES ASSUME ProjectorInit PROVE ProjectorInv
  OBVIOUS
<1>1. /\ conversation = <<>> /\ turns = <<>> /\ stage = 0 /\ looked = 0 /\ out = <<>>
      /\ pendingCalls = 0 /\ failed = {} /\ deduped = FALSE /\ headDropped = FALSE
  BY DEF ProjectorInit
<1>2. /\ <<>> \in Seq(Turns) /\ Len(<<>>) = 0 /\ DOMAIN <<>> = {}
  OBVIOUS
<1>3. ProjectorTypeOK
  <2>1. stage \in 0..Len(Pipeline)
    BY <1>1, StepsOfPipeline
  <2>2. deduped \in BOOLEAN /\ headDropped \in BOOLEAN
    BY <1>1
  <2>3. turns \in Seq(Turns) /\ out \in Seq(Turns) /\ failed \subseteq {"merge", "dedupe"}
    BY <1>1, <1>2
  <2>4. looked \in 0..Len(turns) /\ pendingCalls \in 0..2
    BY <1>1, <1>2
  <2> QED
    BY <2>1, <2>2, <2>3, <2>4 DEF ProjectorTypeOK
<1>4. WordsInOrder(<<>>) /\ Retold(<<>>, <<>>, 0)
  BY <1>2 DEF WordsInOrder, Retold, SaidIn
<1>5. UserTextKept
  BY <1>1, <1>2, <1>4 DEF UserTextKept
<1>6. LoopInv
  BY <1>1, <1>2 DEF LoopInv, MergeLoop, NoUsers
<1>7. StageInv
  BY <1>1 DEF StageInv
<1> QED
  BY <1>1, <1>2, <1>3, <1>4, <1>5, <1>6, <1>7, ProjectorAssumption DEF ProjectorInv

\* The conversation goes on: what is said is a new message, or nothing.
LEMMA SaidIsATurn ==
  ASSUME NEW k \in 1..MaxSaid, NEW t \in TurnsAt(k)
  PROVE  t \in Turns /\ Text(t) \in {<<>>, <<k>>}
<1>1. <<k>> \in Seq(1..MaxSaid)
  OBVIOUS
<1>2. ASSUME NEW role \in {"user", "system", "assistant", "tool", "function"}, NEW n \in 0..2,
             NEW key \in ToolKeys \cup {""}, NEW c, c = NoContent \/ c = <<k>>
      PROVE  Turn(role, n, key, c) \in Turns /\ Text(Turn(role, n, key, c)) \in {<<>>, <<k>>}
  <2> DEFINE u == Turn(role, n, key, c)
  <2>1. c \in {NoContent} \cup Seq(1..MaxSaid)
    BY <1>1, <1>2
  <2>2. u \in Turns
    BY <2>1 DEF Turn, Turns
  <2>3. u.content = c
    BY DEF Turn
  <2> HIDE DEF u
  <2>4. Text(u) \in {<<>>, <<k>>}
    BY <1>2, <2>3 DEF Text
  <2> QED
    BY <2>2, <2>4 DEF u
<1>3. /\ 0 \in 0..2 /\ "" \in ToolKeys \cup {""}
      /\ "user" \in {"user", "system", "assistant", "tool", "function"}
      /\ "system" \in {"user", "system", "assistant", "tool", "function"}
      /\ "assistant" \in {"user", "system", "assistant", "tool", "function"}
      /\ "tool" \in {"user", "system", "assistant", "tool", "function"}
      /\ "function" \in {"user", "system", "assistant", "tool", "function"}
  OBVIOUS
<1> DEFINE Fits(u) == u \in Turns /\ Text(u) \in {<<>>, <<k>>}
<1>4. /\ Fits(Turn("user", 0, "", NoContent)) /\ Fits(Turn("user", 0, "", <<k>>))
      /\ Fits(Turn("system", 0, "", <<k>>)) /\ Fits(Turn("tool", 0, "", NoContent))
      /\ Fits(Turn("function", 0, "", <<k>>))
      /\ \A n \in 0..2 : Fits(Turn("assistant", n, "", <<k>>))
      /\ \A key \in ToolKeys : Fits(Turn("tool", 0, key, <<k>>))
  <2>1. Fits(Turn("user", 0, "", NoContent)) /\ Fits(Turn("user", 0, "", <<k>>))
    BY <1>2, <1>3, Zenon
  <2>2. Fits(Turn("system", 0, "", <<k>>)) /\ Fits(Turn("tool", 0, "", NoContent))
    BY <1>2, <1>3, Zenon
  <2>3. Fits(Turn("function", 0, "", <<k>>))
    BY <1>2, <1>3, Zenon
  <2>4. ASSUME NEW n \in 0..2 PROVE Fits(Turn("assistant", n, "", <<k>>))
    BY <1>2, <1>3, Zenon
  <2>5. ASSUME NEW key \in ToolKeys PROVE Fits(Turn("tool", 0, key, <<k>>))
    <3>1. key \in ToolKeys \cup {""}
      OBVIOUS
    <3> QED
      BY <3>1, <1>2, <1>3, Zenon
  <2> QED
    BY <2>1, <2>2, <2>3, <2>4, <2>5
<1> HIDE DEF Fits
<1>5. Fits(t)
  BY <1>4 DEF TurnsAt
<1> QED
  BY <1>5 DEF Fits

LEMMA SayKeeps ==
  ASSUME ProjectorInv, NEW t \in TurnsAt(Len(conversation) + 1), Say(t) PROVE ProjectorInv'
<1> DEFINE n == Len(conversation)
           W(us) == UNION {ToSet(Text(us[k])) : k \in DOMAIN us}
<1>1. /\ stage = 0 /\ looked = 0 /\ n < MaxSaid
      /\ conversation' = Append(conversation, t) /\ turns' = Append(turns, t)
      /\ UNCHANGED <<stage, looked, out, pendingCalls, failed, deduped, headDropped>>
      /\ turns = conversation
  BY DEF Say, ProjectorInv
<1>2. conversation \in Seq(Turns) /\ n \in Nat /\ n + 1 \in 1..MaxSaid
  BY <1>1, ProjectorAssumption DEF ProjectorInv
<1>3. t \in Turns /\ Text(t) \in {<<>>, <<n + 1>>}
  BY <1>2, SaidIsATurn
<1>4. /\ turns' \in Seq(Turns) /\ Len(turns') = n + 1 /\ turns'[n + 1] = t
      /\ \A k \in 1..n : turns'[k] = turns[k]
      /\ DOMAIN turns' = 1..(n + 1) /\ DOMAIN turns = 1..n /\ conversation' = turns'
  BY <1>1, <1>2, <1>3, LongerByOne
<1>5. out = <<>> /\ pendingCalls = 0 /\ out' = <<>>
  BY <1>1 DEF ProjectorInv
<1>6. W(turns) = {k \in 1..n : Text(conversation[k]) # <<>>} /\ WordsInOrder(turns)
  BY <1>1, <1>4 DEF ProjectorInv, UserTextKept
<1>7. W(turns') = W(turns) \cup ToSet(Text(t))
  <2>1. \A k \in 1..(n + 1) : k \in 1..n \/ k = n + 1
    BY <1>2
  <2> QED
    BY <1>4, <2>1
<1>8. ToSet(Text(t)) = IF Text(t) = <<>> THEN {} ELSE {n + 1}
  BY <1>3 DEF ToSet
<1>9. W(turns') = {k \in 1..(n + 1) : Text(conversation'[k]) # <<>>}
  <2>1. {k \in 1..(n + 1) : Text(turns'[k]) # <<>>}
          = {k \in 1..n : Text(turns[k]) # <<>>} \cup (IF Text(t) = <<>> THEN {} ELSE {n + 1})
    BY <1>2, <1>4
  <2> HIDE DEF W
  <2> QED
    BY <2>1, <1>1, <1>4, <1>6, <1>7, <1>8
<1>10. ASSUME NEW i \in 1..n, NEW a \in DOMAIN Text(turns[i]) PROVE Text(turns[i])[a] \in 1..n
  <2>1. Text(turns[i])[a] \in W(turns)
    <3>1. Text(turns[i])[a] \in ToSet(Text(turns[i]))
      BY DEF ToSet
    <3> QED
      BY <3>1, <1>4
  <2> HIDE DEF W
  <2> QED
    BY <2>1, <1>6
<1>11. WordsInOrder(turns')
  <2> SUFFICES ASSUME NEW i \in 1..(n + 1), NEW j \in 1..(n + 1),
                      NEW a \in DOMAIN Text(turns'[i]), NEW b \in DOMAIN Text(turns'[j]),
                      i < j \/ (i = j /\ a < b)
               PROVE  Text(turns'[i])[a] < Text(turns'[j])[b]
    BY <1>4 DEF WordsInOrder
  <2>1. CASE j \in 1..n
    <3>1. i \in 1..n
      BY <2>1, <1>2
    <3> QED
      BY <2>1, <3>1, <1>4, <1>6 DEF WordsInOrder
  <2>2. CASE j = n + 1
    <3>1. Text(t) = <<n + 1>> /\ b = 1 /\ Text(turns'[j])[b] = n + 1 /\ turns'[j] = t
      BY <2>2, <1>3, <1>4
    <3>2. i \in 1..n
      <4>1. CASE i = n + 1
        BY <4>1, <3>1, <2>2, <1>4, <1>2
      <4> QED
        BY <4>1, <1>2
    <3>3. Text(turns'[i])[a] \in 1..n
      BY <3>2, <1>4, <1>10
    <3> QED
      BY <3>1, <3>3, <1>2
  <2> QED
    BY <2>1, <2>2, <1>2
<1>12. UserTextKept'
  BY <1>4, <1>9, <1>11 DEF UserTextKept
<1>13. ProjectorTypeOK'
  BY <1>1, <1>4, <1>2 DEF ProjectorInv, ProjectorTypeOK
<1>14. Retold(out', turns', looked')
  BY <1>1, <1>5 DEF ProjectorInv, Retold, SaidIn
<1>15. LoopInv' /\ StageInv'
  BY <1>1, <1>5 DEF LoopInv, StageInv, MergeLoop, NoUsers, ProjectorInv
<1> QED
  BY <1>1, <1>2, <1>4, <1>5, <1>12, <1>13, <1>14, <1>15 DEF ProjectorInv

-----------------------------------------------------------------------------
(***************************************************************************)
(* The steps of the loops.                                                 *)
(***************************************************************************)
LEMMA NowIs ==
  ASSUME NEW step, ProjectorInv, Now(step)
  PROVE  /\ step = "merge" => stage = 0
         /\ step = "dedupe" => stage = 1
         /\ step = "repair" => stage = 2
         /\ step = "orphans" => stage = 3
         /\ step = "leading" => stage = 4
<1>1. stage \in 0..4 /\ Pipeline[stage + 1] = step
  BY StepsOfPipeline DEF ProjectorInv, ProjectorTypeOK, Now
<1> QED
  BY <1>1, StepsOfPipeline

LEMMA LookingAt ==
  ASSUME ProjectorInv, LookAtTurn
  PROVE  /\ turns \in Seq(Turns) /\ out \in Seq(Turns) /\ looked \in Nat /\ looked < Len(turns)
         /\ nextTurn = turns[looked + 1] /\ nextTurn \in Turns
         /\ WordsInOrder(turns) /\ Retold(out, turns, looked)
BY DEF ProjectorInv, ProjectorTypeOK, LookAtTurn, UserTextKept, nextTurn

LEMMA LookedAtKeeps ==
  ASSUME ProjectorInv, LookAtTurn, stage' = stage, stage < 4,
         out' \in Seq(Turns), pendingCalls' \in 0..2, deduped' \in BOOLEAN,
         stage # 1 => deduped' = deduped,
         Retold(out', turns, looked + 1),
         stage = 0 => MergeLoop(out', turns, looked + 1),
         stage = 1 => DedupeLoop(out', turns, looked + 1, deduped'),
         stage = 2 => RepairLoop(out', turns, looked + 1),
         stage = 3 => OrphanLoop(out', turns, looked + 1, pendingCalls')
  PROVE  ProjectorInv'
<1>1. /\ looked \in Nat /\ looked < Len(turns) /\ looked' = looked + 1 /\ Len(turns) \in Nat
      /\ UNCHANGED <<conversation, turns, stage, failed, headDropped>>
  BY DEF LookAtTurn, ProjectorInv, ProjectorTypeOK
<1>2. ProjectorTypeOK'
  BY <1>1 DEF ProjectorInv, ProjectorTypeOK
<1>3. UserTextKept'
  BY <1>1 DEF ProjectorInv, UserTextKept
<1>4. LoopInv'
  BY <1>1 DEF LoopInv
<1>5. StageInv'
  BY <1>1 DEF ProjectorInv, StageInv
<1>6. ~ looked' = 0 /\ ~ stage' >= 4
  BY <1>1 DEF ProjectorInv, ProjectorTypeOK
<1>7. conversation' \in Seq(Turns) /\ Len(conversation') <= MaxSaid
  BY <1>1 DEF ProjectorInv
<1>8. Retold(out', turns', looked')
  BY <1>1
<1> QED
  BY <1>2, <1>3, <1>4, <1>5, <1>6, <1>7, <1>8 DEF ProjectorInv

LEMMA MergeKeeps == ASSUME ProjectorInv, Merge PROVE ProjectorInv'
<1>1. LookAtTurn /\ stage = 0 /\ stage' = stage /\ UNCHANGED <<pendingCalls, deduped>>
  BY NowIs DEF Merge, LookAtTurn
<1>2. /\ turns \in Seq(Turns) /\ out \in Seq(Turns) /\ looked \in Nat /\ looked < Len(turns)
      /\ nextTurn = turns[looked + 1] /\ nextTurn \in Turns
      /\ WordsInOrder(turns) /\ Retold(out, turns, looked)
  BY <1>1, LookingAt
<1>3. MergeLoop(out, turns, looked) /\ pendingCalls' \in 0..2 /\ deduped' \in BOOLEAN
  BY <1>1 DEF ProjectorInv, ProjectorTypeOK, LoopInv
<1>4. CASE ~ JoinsUsers /\ out' = Append(out, nextTurn)
  <2>1. MergeLoop(out', turns, looked + 1)
    BY <1>2, <1>3, <1>4, MergeLoopKeeps DEF JoinsUsers, Last
  <2>2. Retold(out', turns, looked + 1) /\ out' \in Seq(Turns)
    BY <1>2, <1>4, AppendedIsRetold, LongerByOne
  <2> QED
    BY <1>1, <1>3, <2>1, <2>2, LookedAtKeeps
<1>5. CASE /\ JoinsUsers /\ NoContent \notin {Last(out).content, nextTurn.content}
           /\ out' = [out EXCEPT ![Len(out)].content = @ \o nextTurn.content]
  <2> DEFINE p == out'
             m == Len(out)
  <2>1. /\ out # <<>> /\ out[m].role = "user" /\ turns[looked + 1].role = "user"
        /\ out[m].content # NoContent /\ turns[looked + 1].content # NoContent
    BY <1>2, <1>5 DEF JoinsUsers, Last
  <2>5. JoinedTo(p, out, turns, looked)
    BY <1>2, <1>5 DEF JoinsUsers, Last, JoinedTo
  <2>2. /\ p \in Seq(Turns) /\ Len(p) = m /\ Retold(p, turns, looked + 1)
        /\ p[m].role = "user" /\ p[m].content # NoContent
        /\ \A k \in 1..(m - 1) : p[k] = out[k]
    BY <1>2, <2>1, <2>5, JoinedIsRetold
  <2>3. m \in Nat \ {0}
    BY <1>2, <2>1, LongerByOne
  <2>4. MergeLoop(p, turns, looked + 1)
    <3>1. \A k \in 1..m : p[k].role = out[k].role
      BY <2>1, <2>2, <2>3
    <3>2. NoUsers(p, m)
      BY <3>1, <1>3, <2>3 DEF MergeLoop, NoUsers, UsersAt
    <3>3. p # <<>>
      BY <2>2, <2>3
    <3> QED
      BY <3>2, <3>3, <2>1, <2>2 DEF MergeLoop
  <2> QED
    BY <1>1, <1>3, <2>2, <2>4, LookedAtKeeps
<1> QED
  BY <1>4, <1>5 DEF Merge

LEMMA DedupeKeeps == ASSUME ProjectorInv, Dedupe PROVE ProjectorInv'
<1>1. /\ LookAtTurn /\ stage = 1 /\ stage' = stage /\ pendingCalls' = pendingCalls
      /\ nextTurn.role = "tool" => nextTurn.content # NoContent
      /\ out' = IF Repeats THEN out ELSE Append(out, nextTurn)
      /\ deduped' = (deduped \/ Repeats)
  BY NowIs DEF Dedupe, LookAtTurn
<1>2. /\ turns \in Seq(Turns) /\ out \in Seq(Turns) /\ looked \in Nat /\ looked < Len(turns)
      /\ nextTurn = turns[looked + 1] /\ nextTurn \in Turns
      /\ WordsInOrder(turns) /\ Retold(out, turns, looked)
  BY <1>1, LookingAt
<1>3. DedupeLoop(out, turns, looked, deduped) /\ pendingCalls' \in 0..2 /\ deduped \in BOOLEAN
  BY <1>1 DEF ProjectorInv, ProjectorTypeOK, LoopInv
<1>4. CASE Repeats
  <2>1. out' = out /\ deduped' = TRUE
    BY <1>1, <1>4
  <2>2. DedupeLoop(out', turns, looked + 1, deduped')
    BY <1>3, <2>1, RepeatedIsDropped
  <2>3. Text(nextTurn) = <<>>
    BY <1>4 DEF Repeats, Text
  <2>4. Retold(out', turns, looked + 1)
    BY <1>2, <2>1, <2>3, SilentIsSkipped
  <2> QED
    BY <1>1, <1>2, <1>3, <2>1, <2>2, <2>4, LookedAtKeeps
<1>5. CASE ~ Repeats
  <2>1. out' = Append(out, nextTurn) /\ deduped' = deduped
    BY <1>1, <1>3, <1>5
  <2>2. DedupeLoop(out', turns, looked + 1, deduped')
    BY <1>1, <1>2, <1>3, <1>5, <2>1, DedupeLoopKeeps DEF Repeats
  <2>3. Retold(out', turns, looked + 1) /\ out' \in Seq(Turns)
    BY <1>2, <2>1, AppendedIsRetold, LongerByOne
  <2> QED
    BY <1>1, <1>3, <2>1, <2>2, <2>3, LookedAtKeeps
<1> QED
  BY <1>4, <1>5

LEMMA RepairKeeps == ASSUME ProjectorInv, Repair PROVE ProjectorInv'
<1>1. /\ LookAtTurn /\ stage = 2 /\ stage' = stage /\ UNCHANGED <<pendingCalls, deduped>>
      /\ out' = IF IsResult(nextTurn) /\ out # <<>> /\ out[Len(out)].role \notin Speakers
                  THEN Append(Append(out, Injected), nextTurn) ELSE Append(out, nextTurn)
  BY NowIs DEF Repair, LookAtTurn, Last, Speakers
<1>2. /\ turns \in Seq(Turns) /\ out \in Seq(Turns) /\ looked \in Nat /\ looked < Len(turns)
      /\ nextTurn = turns[looked + 1] /\ nextTurn \in Turns
      /\ WordsInOrder(turns) /\ Retold(out, turns, looked)
  BY <1>1, LookingAt
<1>3. /\ RepairLoop(out, turns, looked) /\ pendingCalls' \in 0..2 /\ deduped' \in BOOLEAN
      /\ looked = 0 => out = <<>>
  BY <1>1 DEF ProjectorInv, ProjectorTypeOK, LoopInv
<1>4. RepairLoop(out', turns, looked + 1) /\ out' \in Seq(Turns)
  BY <1>1, <1>2, <1>3, RepairLoopKeeps
<1>5. Retold(out', turns, looked + 1)
  <2>1. CASE out' = Append(out, nextTurn)
    BY <1>2, <2>1, AppendedIsRetold
  <2>2. CASE out' = Append(Append(out, Injected), nextTurn)
    <3>1. Append(out, Injected) \in Seq(Turns) /\ Retold(Append(out, Injected), turns, looked)
      BY <1>2, InjectedIsSilent, SilentIsAdded, LongerByOne
    <3> QED
      BY <1>2, <2>2, <3>1, AppendedIsRetold
  <2> QED
    BY <1>1, <2>1, <2>2
<1> QED
  BY <1>1, <1>3, <1>4, <1>5, LookedAtKeeps

LEMMA DropOrphanKeeps == ASSUME ProjectorInv, DropOrphan PROVE ProjectorInv'
<1>1. /\ LookAtTurn /\ stage = 3 /\ stage' = stage /\ UNCHANGED deduped
      /\ Orphaned(out', pendingCalls', out, turns, looked, pendingCalls)
      /\ out' = IF IsResult(nextTurn) /\ pendingCalls = 0 THEN out ELSE Append(out, nextTurn)
  <2>1. ~ (IsResult(nextTurn) /\ Calling(nextTurn))
    BY DEF IsResult, Calling
  <2>2. LookAtTurn /\ Now("orphans")
    BY DEF DropOrphan
  <2>3. stage = 3 /\ stage' = stage
    BY <2>2, NowIs DEF LookAtTurn
  <2> QED
    BY <2>1, <2>2, <2>3 DEF DropOrphan, Orphaned, nextTurn
<1>2. /\ turns \in Seq(Turns) /\ out \in Seq(Turns) /\ looked \in Nat /\ looked < Len(turns)
      /\ nextTurn = turns[looked + 1] /\ nextTurn \in Turns
      /\ WordsInOrder(turns) /\ Retold(out, turns, looked)
  BY <1>1, LookingAt
<1>3. /\ OrphanLoop(out, turns, looked, pendingCalls) /\ pendingCalls \in 0..2
      /\ deduped' \in BOOLEAN /\ ResultsBehind(turns)
      /\ looked = 0 => out = <<>> /\ pendingCalls = 0
  BY <1>1 DEF ProjectorInv, ProjectorTypeOK, LoopInv, StageInv
<1>4. /\ OrphanLoop(out', turns, looked + 1, pendingCalls') /\ out' \in Seq(Turns)
      /\ pendingCalls' \in Nat
      /\ pendingCalls' \in {pendingCalls, pendingCalls - 1} \/ pendingCalls' = nextTurn.calls
  <2>1. pendingCalls \in Nat
    BY <1>3
  <2> QED
    BY <1>1, <1>2, <1>3, <2>1, OrphanLoopKeeps
<1>5. pendingCalls' \in 0..2
  <2>1. nextTurn.calls \in 0..2
    BY <1>2, CallsAreNumbers
  <2> QED
    BY <2>1, <1>3, <1>4
<1>6. Retold(out', turns, looked + 1)
  <2>1. CASE out' = Append(out, nextTurn)
    BY <1>2, <2>1, AppendedIsRetold
  <2>2. CASE out' = out /\ IsResult(nextTurn)
    <3>1. Text(nextTurn) = <<>>
      BY <2>2 DEF IsResult, Text
    <3> QED
      BY <1>2, <2>2, <3>1, SilentIsSkipped
  <2> QED
    BY <1>1, <2>1, <2>2
<1> QED
  BY <1>1, <1>3, <1>4, <1>5, <1>6, LookedAtKeeps

-----------------------------------------------------------------------------
(***************************************************************************)
(* The end of a step: its result is taken, or it raised.                   *)
(***************************************************************************)
LEMMA NextLoop ==
  ASSUME ProjectorInv, NextStep, stage \in 0..4,
         turns' \in Seq(Turns), failed' \subseteq {"merge", "dedupe"}, deduped' \in BOOLEAN,
         UserTextKept', StageInv'
  PROVE  ProjectorInv'
<1>1. /\ stage' = stage + 1 /\ looked' = 0 /\ out' = <<>> /\ pendingCalls' = 0
      /\ UNCHANGED <<conversation, headDropped>>
  BY DEF NextStep
<1>2. Len(turns') \in Nat /\ <<>> \in Seq(Turns) /\ Len(<<>>) = 0 /\ DOMAIN <<>> = {}
  OBVIOUS
<1>3. ProjectorTypeOK'
  <2>1. stage' \in 0..Len(Pipeline) /\ looked' \in 0..Len(turns') /\ pendingCalls' \in 0..2
    BY <1>1, <1>2, StepsOfPipeline
  <2>2. out' \in Seq(Turns) /\ headDropped' \in BOOLEAN
    BY <1>1, <1>2 DEF ProjectorInv, ProjectorTypeOK
  <2> QED
    BY <2>1, <2>2 DEF ProjectorTypeOK
<1>4. Retold(out', turns', looked')
  BY <1>1, <1>2 DEF Retold, SaidIn, WordsInOrder
<1>5. FromTurns(<<>>, turns', 0)
  BY <1>2 DEF FromTurns, KeysDistinct, NoUsers, NullPair, ResultsBehind
<1>6. LoopInv'
  <2>1. KeysDistinct(<<>>) /\ ResultsOfCalls(<<>>, FALSE)
    BY <1>2 DEF KeysDistinct, ResultsOfCalls
  <2>2. DedupeLoop(<<>>, turns', 0, deduped') /\ RepairLoop(<<>>, turns', 0)
        /\ OrphanLoop(<<>>, turns', 0, 0)
    <3>1. DedupeLoop(<<>>, turns', 0, deduped')
      BY <1>2, <2>1 DEF DedupeLoop
    <3>2. RepairLoop(<<>>, turns', 0)
      BY <1>5 DEF RepairLoop
    <3>3. OrphanLoop(<<>>, turns', 0, 0)
      <4>1. ~ 0 > 0
        OBVIOUS
      <4> QED
        BY <4>1, <1>5, <2>1 DEF OrphanLoop
    <3> QED
      BY <3>1, <3>2, <3>3
  <2> QED
    BY <1>1, <2>2 DEF LoopInv
<1>7. conversation' \in Seq(Turns) /\ Len(conversation') <= MaxSaid
  BY <1>1 DEF ProjectorInv
<1> QED
  BY <1>1, <1>3, <1>4, <1>6, <1>7 DEF ProjectorInv

LEMMA TakeResultKeeps == ASSUME ProjectorInv, TakeResult PROVE ProjectorInv'
<1>1. /\ NextStep /\ stage' = stage + 1 /\ UNCHANGED <<failed, deduped, headDropped, conversation>>
  BY DEF TakeResult, NextStep
<1>2. stage \in 0..4 /\ failed \subseteq {"merge", "dedupe"} /\ deduped \in BOOLEAN
      /\ turns \in Seq(Turns) /\ out \in Seq(Turns)
  BY StepsOfPipeline DEF TakeResult, Done, ProjectorInv, ProjectorTypeOK
<1>3. CASE stage = 4
  <2>1. Now("leading")
    BY <1>3, StepsOfPipeline DEF Now
  <2>2. turns' = turns /\ (turns # <<>> => turns[1].role \in {"user", "system"})
    BY <2>1, <1>2, ShorterByOne DEF TakeResult
  <2>3. UserTextKept'
    BY <1>1, <2>2 DEF ProjectorInv, UserTextKept
  <2>4. StageInv'
    BY <1>1, <1>3, <2>2 DEF ProjectorInv, StageInv
  <2> QED
    BY <1>1, <1>2, <2>2, <2>3, <2>4, NextLoop
<1>4. CASE stage < 4
  <2>1. ~ Now("leading")
    BY <1>4, NowIs
  <2>2. looked = Len(turns) /\ turns' = out
    BY <2>1 DEF TakeResult
  <2>3. Retold(out, turns, Len(turns)) /\ WordsInOrder(out)
    BY <2>2 DEF ProjectorInv, Retold
  <2>4. UserTextKept'
    <3>1. UNION {ToSet(Text(out[k])) : k \in DOMAIN out}
            = UNION {ToSet(Text(turns[k])) : k \in DOMAIN turns}
      BY <1>2, <2>3, SameWords
    <3> QED
      BY <3>1, <2>2, <2>3, <1>1 DEF ProjectorInv, UserTextKept
  <2>5. StageInv'
    <3>1. CASE stage = 0
      <4>1. NoUsers(out, Len(out)) /\ failed = {}
        BY <3>1 DEF ProjectorInv, LoopInv, StageInv, MergeLoop
      <4> QED
        BY <4>1, <3>1, <1>1, <2>2 DEF StageInv
    <3>2. CASE stage = 1
      <4>1. KeysDistinct(out) /\ (~ deduped => Len(out) = Len(turns) /\ \A k \in 1..Len(turns) : out[k] = turns[k])
        BY <3>2, <2>2 DEF ProjectorInv, LoopInv, DedupeLoop
      <4>2. ~ deduped => out = turns
        BY <4>1, <1>2, SeqEqual
      <4>3. IF "merge" \in failed THEN NullPair(turns, Len(turns)) ELSE NoUsers(turns, Len(turns))
        BY <3>2 DEF ProjectorInv, StageInv
      <4> QED
        BY <4>1, <4>2, <4>3, <3>2, <1>1, <2>2 DEF StageInv
    <3>3. CASE stage \in {2, 3}
      <4>1. FromTurns(out, turns, Len(turns))
        BY <3>3, <2>2 DEF ProjectorInv, LoopInv, RepairLoop, OrphanLoop
      <4>2. /\ ~ deduped => IF "merge" \in failed THEN NullPair(turns, Len(turns)) ELSE NoUsers(turns, Len(turns))
            /\ "dedupe" \notin failed => KeysDistinct(turns)
        BY <3>3 DEF ProjectorInv, StageInv
      <4>3. stage = 3 => ResultsOfCalls(out, headDropped)
        BY DEF ProjectorInv, LoopInv, OrphanLoop, ResultsOfCalls
      <4> QED
        BY <4>1, <4>2, <4>3, <3>3, <1>1, <2>2 DEF StageInv, FromTurns
    <3> QED
      BY <3>1, <3>2, <3>3, <1>2, <1>4
  <2> QED
    BY <1>1, <1>2, <2>2, <2>4, <2>5, NextLoop
<1> QED
  BY <1>2, <1>3, <1>4

LEMMA StepRaisesKeeps == ASSUME ProjectorInv, StepRaises PROVE ProjectorInv'
<1>1. /\ NextStep /\ stage' = stage + 1 /\ UNCHANGED <<turns, headDropped, conversation>>
      /\ failed' = failed \cup {Pipeline[stage + 1]} /\ deduped' = FALSE
      /\ looked < Len(turns)
  BY DEF StepRaises, NextStep
<1>2. /\ turns \in Seq(Turns) /\ out \in Seq(Turns) /\ looked \in Nat
      /\ failed \subseteq {"merge", "dedupe"}
  BY DEF ProjectorInv, ProjectorTypeOK
<1>3. UserTextKept'
  BY <1>1 DEF ProjectorInv, UserTextKept
<1>4. CASE Now("merge") /\ JoinsUsers /\ NoContent \in {Last(out).content, nextTurn.content}
  <2>1. stage = 0 /\ failed' = {"merge"}
    BY <1>1, <1>4, NowIs, StepsOfPipeline DEF ProjectorInv, StageInv
  <2>2. MergeLoop(out, turns, looked) /\ (looked = 0 => out = <<>>)
    BY <2>1 DEF ProjectorInv, LoopInv
  <2>3. /\ out # <<>> /\ out[Len(out)].role = "user" /\ turns[looked + 1].role = "user"
        /\ NoContent \in {out[Len(out)].content, turns[looked + 1].content}
    BY <1>4 DEF JoinsUsers, Last, nextTurn
  <2>4. looked > 0 /\ turns[looked].role = "user"
        /\ NoContent \in {turns[looked].content, turns[looked + 1].content}
    BY <2>2, <2>3, <1>2 DEF MergeLoop
  <2>5. looked \in 1..(Len(turns) - 1)
    BY <2>4, <1>1, <1>2
  <2>6. NullPair(turns, Len(turns))
    BY <2>3, <2>4, <2>5 DEF NullPair, UsersAt
  <2>7. StageInv'
    BY <2>1, <2>6, <1>1 DEF StageInv
  <2>8. stage \in 0..4 /\ failed' \subseteq {"merge", "dedupe"} /\ deduped' \in BOOLEAN
        /\ turns' \in Seq(Turns)
    <3>1. deduped' \in BOOLEAN
      BY <1>1
    <3>2. stage \in 0..4 /\ turns' \in Seq(Turns)
      BY <1>1, <1>2, <2>1
    <3>3. failed' \subseteq {"merge", "dedupe"}
      BY <1>2, <2>1
    <3> QED
      BY <3>1, <3>2, <3>3
  <2> QED
    BY <1>1, <1>3, <2>7, <2>8, NextLoop
<1>5. CASE Now("dedupe")
  <2>1. stage = 1 /\ failed' = failed \cup {"dedupe"}
    BY <1>1, <1>5, NowIs, StepsOfPipeline
  <2>2. StageInv'
    BY <2>1, <1>1 DEF ProjectorInv, StageInv
  <2>3. stage \in 0..4 /\ failed' \subseteq {"merge", "dedupe"} /\ deduped' \in BOOLEAN
        /\ turns' \in Seq(Turns)
    <3>1. deduped' \in BOOLEAN
      BY <1>1
    <3>2. stage \in 0..4 /\ turns' \in Seq(Turns)
      BY <1>1, <1>2, <2>1
    <3>3. failed' \subseteq {"merge", "dedupe"}
      BY <1>2, <2>1
    <3> QED
      BY <3>1, <3>2, <3>3
  <2> QED
    BY <1>1, <1>3, <2>2, <2>3, NextLoop
<1> QED
  BY <1>4, <1>5 DEF StepRaises

LEMMA PopKeeps == ASSUME ProjectorInv, Pop PROVE ProjectorInv'
<1>1. /\ stage = 4 /\ turns # <<>> /\ Head(turns).role \notin {"user", "system"}
      /\ turns' = Tail(turns) /\ headDropped' = (headDropped \/ Calling(Head(turns)))
      /\ UNCHANGED <<conversation, stage, looked, out, pendingCalls, failed, deduped>>
  BY NowIs DEF Pop
<1>2. /\ turns \in Seq(Turns) /\ headDropped \in BOOLEAN /\ looked = 0 /\ out = <<>>
  BY <1>1 DEF ProjectorInv, ProjectorTypeOK
<1>3. /\ Head(turns) = turns[1] /\ Tail(turns) \in Seq(Turns) /\ Len(Tail(turns)) \in Nat
  BY <1>1, <1>2, ShorterByOne
<1>4. Text(turns[1]) = <<>> /\ turns[1].role # "user"
  BY <1>1, <1>3 DEF Text
<1>5. UserTextKept'
  BY <1>1, <1>2, <1>4, PoppedWords DEF ProjectorInv, UserTextKept
<1>6. ProjectorTypeOK'
  <2>1. headDropped' \in BOOLEAN
    BY <1>1, <1>2
  <2> QED
    BY <1>1, <1>2, <1>3, <2>1 DEF ProjectorInv, ProjectorTypeOK
<1>7. StageInv'
  <2>1. ResultsOfCalls(turns, headDropped)
    BY <1>1 DEF ProjectorInv, StageInv
  <2>2. ResultsOfCalls(turns', headDropped')
    BY <1>1, <1>2, <1>3, <2>1, PoppedResults
  <2>3. /\ ~ deduped => IF "merge" \in failed THEN NullPair(turns, Len(turns)) ELSE NoUsers(turns, Len(turns))
        /\ "dedupe" \notin failed => KeysDistinct(turns)
        /\ ResultsBehind(turns)
    BY <1>1 DEF ProjectorInv, StageInv
  <2>4. /\ ~ deduped => IF "merge" \in failed THEN NullPair(turns', Len(turns')) ELSE NoUsers(turns', Len(turns'))
        /\ "dedupe" \notin failed => KeysDistinct(turns')
        /\ ResultsBehind(turns')
    BY <1>1, <1>2, <1>4, <2>3, PoppedTurns
  <2> QED
    BY <1>1, <2>2, <2>4 DEF StageInv
<1>8. Retold(out', turns', looked')
  <2>1. \A w : SaidIn(w, turns', 0) <=> SaidIn(w, turns, 0)
    BY DEF SaidIn
  <2> QED
    BY <1>1, <1>2, <2>1 DEF ProjectorInv, Retold
<1>9. LoopInv'
  BY <1>1 DEF LoopInv
<1> QED
  BY <1>1, <1>2, <1>5, <1>6, <1>7, <1>8, <1>9 DEF ProjectorInv

LEMMA ProjectorStep == ProjectorInv /\ [ProjectorNext]_projectorVars => ProjectorInv'
<1> SUFFICES ASSUME ProjectorInv, [ProjectorNext]_projectorVars PROVE ProjectorInv'
  OBVIOUS
<1>1. ASSUME UNCHANGED projectorVars PROVE ProjectorInv'
  BY <1>1 DEF projectorVars, ProjectorInv, ProjectorTypeOK, UserTextKept, LoopInv, StageInv
<1> QED
  BY <1>1, MergeKeeps, DedupeKeeps, RepairKeeps, DropOrphanKeeps, PopKeeps, TakeResultKeeps,
     StepRaisesKeeps, SayKeeps DEF ProjectorNext

LEMMA ProjectorFits == ProjectorInv => ProjectorTypeOK /\ ProjectionSound
<1> SUFFICES ASSUME ProjectorInv PROVE ProjectorTypeOK /\ ProjectionSound
  OBVIOUS
<1>1. ProjectorTypeOK /\ UserTextKept /\ StageInv /\ turns \in Seq(Turns) /\ Len(turns) \in Nat
  BY DEF ProjectorInv, ProjectorTypeOK
<1>2. Done => stage = 5
  BY StepsOfPipeline DEF Done
<1>3. ASSUME NEW k \in DOMAIN turns, AnsweredIn(turns, k) PROVE Answered(k)
  <2>1. k \in 1..Len(turns) /\ k \in Nat
    BY <1>1
  <2>2. PICK j \in 1..(k - 1) : CallsFor(turns, k, j, 0)
    BY <1>3 DEF AnsweredIn
  <2> DEFINE m == Cardinality({i \in j..k : IsResult(turns[i])})
  <2>3. /\ Calling(turns[j]) /\ \A i \in (j + 1)..k : ~ Calling(turns[i])
        /\ m + 0 <= turns[j].calls
    BY <2>2 DEF CallsFor
  <2>7. j \in Nat
    BY <2>1
  <2>4. m \in Nat
    BY <2>1, <2>7, ResultsAreFinite
  <2> HIDE DEF m
  <2>5. m <= turns[j].calls
    BY <2>3, <2>4
  <2>6. \A i \in (j + 1)..(k - 1) : ~ Calling(turns[i])
    BY <2>3, <2>1
  <2> QED
    BY <2>3, <2>5, <2>6 DEF Answered, m
<1>4. ResultsFollowCalls
  BY <1>1, <1>2, <1>3 DEF ResultsFollowCalls, ResultsOfCalls, StageInv
<1>5. UsersAlternate
  BY <1>1, <1>2 DEF UsersAlternate, StageInv, NoUsers, UsersAt, TwoUsers
<1>6. ProjectedOnce
  <2> SUFFICES ASSUME stage = 5, ~ deduped, ~ headDropped, "dedupe" \notin failed
               PROVE  /\ NullUsers \/ \A k \in 1..(Len(turns) - 1) : ~ TwoUsers(k)
                      /\ \A i, j \in DOMAIN turns : turns[i].role = "tool" /\ turns[j].role = "tool"
                           /\ turns[i].key = turns[j].key => i = j
                      /\ \A k \in DOMAIN turns : turns[k].role = "tool" => turns[k].content # NoContent
                      /\ \A k \in DOMAIN turns : IsResult(turns[k]) =>
                           k > 1 /\ turns[k - 1].role \in {"assistant", "tool", "function"} /\ Answered(k)
                      /\ turns # <<>> => turns[1].role \in {"user", "system"}
    BY <1>2 DEF ProjectedOnce
  <2>1. NullUsers \/ \A k \in 1..(Len(turns) - 1) : ~ TwoUsers(k)
    BY <1>1 DEF StageInv, NoUsers, NullPair, UsersAt, TwoUsers, NullUsers
  <2>2. KeysDistinct(turns)
    BY <1>1 DEF StageInv
  <2>3. ASSUME NEW k \in DOMAIN turns, IsResult(turns[k])
        PROVE  k > 1 /\ turns[k - 1].role \in {"assistant", "tool", "function"} /\ Answered(k)
    <3>1. AnsweredIn(turns, k) /\ k \in 1..Len(turns)
      BY <1>1, <2>3 DEF StageInv, ResultsOfCalls
    <3>2. k > 1
      BY <3>1 DEF AnsweredIn
    <3>3. k \in 2..Len(turns)
      BY <3>1, <3>2
    <3> QED
      BY <3>1, <3>2, <3>3, <2>3, <1>1, <1>3 DEF StageInv, ResultsBehind, Speakers
  <2>4. turns # <<>> => turns[1].role \in {"user", "system"}
    BY <1>1 DEF StageInv
  <2> QED
    BY <2>1, <2>2, <2>3, <2>4 DEF KeysDistinct
<1> QED
  BY <1>1, <1>4, <1>5, <1>6 DEF ProjectionSound

\* The projection loses nothing that the user or the system said, and leaves a
\* conversation that needs no further repair, up to the exceptions it names: for
\* conversations of every length and every number of keys.
THEOREM ProjectionIsSound == ProjectorSpec => []ProjectionSound
<1> QED
  BY ProjectorInitially, ProjectorStep, ProjectorFits, PTL DEF ProjectorSpec

-----------------------------------------------------------------------------
(***************************************************************************)
(* All subjects together: the steps of one leave the others as they were.  *)
(***************************************************************************)
SteeringInv ==
  RuntimeInv /\ PolicyInv /\ FlowInv /\ PipelineInv /\ RepetitionInv /\ OutputInv

LEMMA SteeringInitially == SteeringInit => SteeringInv
  BY RuntimeInitially, PolicyInitially, FlowInitially, PipelineInitially, RepetitionInitially,
     OutputInitially DEF SteeringInit, SteeringInv

LEMMA SteeringStep == SteeringInv /\ [SteeringNext]_steeringVars => SteeringInv'
<1> SUFFICES ASSUME SteeringInv, [SteeringNext]_steeringVars PROVE SteeringInv'
  OBVIOUS
<1>1. /\ [RuntimeNext]_runtimeVars /\ [PolicyNext]_policyVars /\ [FlowNext]_flowVars
      /\ [PipelineNext]_pipelineVars /\ [RepetitionNext]_repetitionVars /\ [OutputNext]_outputVars
  BY DEF SteeringNext, steeringVars
<1> QED
  BY <1>1, RuntimeStep, PolicyStep, FlowStep, PipelineStep, RepetitionStep, OutputStep DEF SteeringInv

\* What was approved for a session stays so, pending requests can be answered, and
\* policies decide by their priority, whatever subject a behaviour exercises.
THEOREM GatesAreSound == SteeringSpec => []GatesSound
<1>1. SteeringInv => GatesSound
  BY PolicyFits DEF SteeringInv, GatesSound, RuntimeInv, RuntimeSound
<1> QED
  BY <1>1, SteeringInitially, SteeringStep, PTL DEF SteeringSpec

\* Flows and pipelines run the steps they must and end where they must, for every
\* graph and every pipeline.
THEOREM RunsAreSound == SteeringSpec => []RunsSound
<1>1. SteeringInv => RunsSound
  BY FlowFits, PipelineFits DEF SteeringInv, RunsSound
<1> QED
  BY <1>1, SteeringInitially, SteeringStep, PTL DEF SteeringSpec
\* The invariants from which the types of every subject follow.
AllTypes ==
  /\ subject \in Subjects /\ SteeringInv /\ TypeOK /\ CheckpointInv /\ NoteTypes /\ NoteInv
  /\ ProjectorInv /\ CodeTypeInv

LEMMA TypesInitially == SteeringInit => AllTypes
  BY SteeringInitially, ApprovalTypesInitially, CheckpointInvInit, NotesInitially,
     ProjectorInitially, CodeTypesInitially DEF SteeringInit, AllTypes

LEMMA TypesStep == AllTypes /\ [SteeringNext]_steeringVars => AllTypes'
<1> SUFFICES ASSUME AllTypes, [SteeringNext]_steeringVars PROVE AllTypes'
  OBVIOUS
<1>1. /\ [Next]_vars /\ [CheckpointNext]_checkpointVars /\ [NoteNext]_noteVars
      /\ [ProjectorNext]_projectorVars /\ [CodeNext]_codeVars /\ subject' = subject
  BY DEF SteeringNext, steeringVars
<1> QED
  BY <1>1, SteeringStep, ApprovalTypesStep, CheckpointInvKept, NotesStep, ProjectorStep,
     CodeTypesStep DEF AllTypes

\* Whatever subject a behaviour exercises, its state keeps its shape, for every
\* bound.
THEOREM SteeringTypes == SteeringSpec => []SteeringTypeOK
<1>1. AllTypes => SteeringTypeOK
  <2> SUFFICES ASSUME AllTypes PROVE SteeringTypeOK
    OBVIOUS
  <2>1. /\ TypeOK /\ RepetitionTypeOK /\ FlowTypeOK /\ CheckpointTypeOK /\ OutputTypeOK
        /\ ProjectorTypeOK /\ NoteTypeOK /\ RuntimeTypeOK /\ PolicyTypeOK /\ PipelineTypeOK
        /\ CodeTypeOK
    BY RepetitionFits, FlowFits, OutputFits, ProjectorFits, PolicyFits, PipelineFits, CodeTypesFit
       DEF AllTypes, SteeringInv, CheckpointInv, NoteTypes, RuntimeInv
  <2>2. subject \in Subjects
    BY DEF AllTypes
  <2> QED
    BY <2>1, <2>2 DEF SteeringTypeOK, Subjects
<1> QED
  BY <1>1, TypesInitially, TypesStep, PTL DEF SteeringSpec
=============================================================================
