------------------------------ MODULE AgentRun ------------------------------
(***************************************************************************)
(* An AI build: the generator run_build of backend/services/agent_runner   *)
(* .py inside the generator _event_stream of backend/api/agent.py, which   *)
(* streams its events to a browser, next to the cancel registry and the    *)
(* agent_runs row.  gen[r] says where the two generators are suspended or  *)
(* busy.  The client may cancel from another request, and may go away: the *)
(* generators are then closed at the yield they stand at.  What a tool     *)
(* does inside a lab is AgentTools; here a tool creates a lab, deletes     *)
(* one, does neither, or raises.                                           *)
(***************************************************************************)
EXTENDS Integers, Sequences

CONSTANTS
    Runs,           \* run ids
    LabIds,         \* ids create_lab hands out
    NoLab,          \* created_lab_id is None
    DefaultCap,     \* DEFAULT_MAX_ITERATIONS (20)
    HardCap,        \* the clamp in run_build (100)
    Asked,          \* max_iterations of the request bodies considered
    MaxToolCalls,   \* DEFAULT_MAX_TOOL_CALLS (60)
    MaxHistory,     \* MAX_HISTORY_MESSAGES (60)
    MaxBatch,       \* bound: tool calls in one completion
    Faults          \* "disconnect", "cleanup", "db", "crash"

ASSUME CapsAssumption ==
    /\ DefaultCap \in Nat \ {0} /\ HardCap \in Nat \ {0}
    /\ Asked \subseteq Int
    /\ MaxToolCalls \in Nat /\ MaxBatch \in Nat
    /\ MaxHistory \in Nat /\ MaxHistory > 2
ASSUME NoLabAssumption == NoLab \notin LabIds

VARIABLES
    row,        \* agent_runs.status, "none" before the insert
    reg,        \* _CANCEL_REGISTRY: no event, a clear one, a set one
    gen,        \* where the generators are
    client,     \* the browser still reads the stream
    cap,        \* max_iterations after defaulting and clamping
    iters,      \* iterations entered: polled, and a completion requested
    calls,      \* tool_calls_made
    pending,    \* tool calls of the last completion not yet looked at
    history,    \* roles of the messages
    verdict,    \* terminal event the except clause will yield
    created,    \* created_lab_id: the last lab made
    made,       \* labs the run has made
    alive,      \* labs with a row
    excused     \* history: runs that a failing database or cleanup, a crash, or a client gone
                \* before the first event took out of the code's hands

vars == <<row, reg, gen, client, cap, iters, calls, pending, history, verdict, created,
          made, alive, excused>>
budget == <<cap, iters, calls, pending, history>>
labVars == <<created, made, alive, excused>>

Terminal == {"completed", "cancelled", "error"}

\* Suspended at a yield: the only places where a generator can be closed.
AtYield == {"top", "calls", "dispatch", "final", "last"}

Clamp(n) ==
    LET wanted == IF n <= 0 THEN DefaultCap ELSE n
    IN  IF wanted > HardCap THEN HardCap ELSE wanted

\* _trim_history: system prompt, first user prompt, and the latest of the rest.
Trim(h) ==
    IF Len(h) <= MaxHistory
    THEN h
    ELSE SubSeq(h, 1, 2) \o SubSeq(h, Len(h) - (MaxHistory - 2) + 1, Len(h))

TypeOK ==
    /\ row \in [Runs -> {"none", "running"} \union Terminal]
    /\ reg \in [Runs -> {"absent", "clear", "set"}]
    /\ gen \in [Runs -> {"none", "created", "llm", "cleanup", "closed"} \union AtYield]
    /\ client \in [Runs -> BOOLEAN]
    /\ cap \in [Runs -> 1..HardCap]
    /\ iters \in [Runs -> Nat]
    /\ calls \in [Runs -> Nat]
    /\ pending \in [Runs -> Nat]
    /\ history \in [Runs -> Seq({"system", "user", "assistant", "tool"})]
    /\ verdict \in [Runs -> {"cancelled", "error"}]
    /\ created \in [Runs -> LabIds \union {NoLab}]
    /\ made \in [Runs -> SUBSET LabIds]
    /\ alive \subseteq LabIds
    /\ excused \subseteq Runs

Init ==
    /\ row = [r \in Runs |-> "none"]
    /\ reg = [r \in Runs |-> "absent"]
    /\ gen = [r \in Runs |-> "none"]
    /\ client = [r \in Runs |-> TRUE]
    /\ cap = [r \in Runs |-> 1]
    /\ iters = [r \in Runs |-> 0]
    /\ calls = [r \in Runs |-> 0]
    /\ pending = [r \in Runs |-> 0]
    /\ history = [r \in Runs |-> <<"system", "user">>]
    /\ verdict = [r \in Runs |-> "error"]
    /\ created = [r \in Runs |-> NoLab]
    /\ made = [r \in Runs |-> {}]
    /\ alive = {}
    /\ excused = {}

----------------------------------------------------------------------------
Resume(r, where) == gen' = [gen EXCEPT ![r] = where]
FinishRun(r, status) == row' = [row EXCEPT ![r] = status]
Unregister(r) == reg' = [reg EXCEPT ![r] = "absent"]
Cancelled(r) == reg[r] = "set"

\* raise _Cancelled or _Unrecoverable, or a tool's own exception.
Raise(r, status) ==
    /\ verdict' = [verdict EXCEPT ![r] = status]
    /\ Resume(r, "cleanup")

\* POST /build: the row is written and the StreamingResponse returned; the generator body
\* has not begun.
Build(r) ==
    /\ gen[r] = "none"
    /\ \E n \in Asked : cap' = [cap EXCEPT ![r] = Clamp(n)]
    /\ FinishRun(r, "running")
    /\ Resume(r, "created")
    /\ UNCHANGED <<reg, client, iters, calls, pending, history, verdict, labVars>>

\* First next(): without a provider the run ends before it is registered.
Begin(r) ==
    /\ gen[r] = "created"
    /\ \/ /\ reg' = [reg EXCEPT ![r] = "clear"]
          /\ Resume(r, "top")
          /\ UNCHANGED row
       \/ /\ FinishRun(r, "error")
          /\ Resume(r, "last")
          /\ UNCHANGED reg
    /\ UNCHANGED <<client, budget, verdict, labVars>>

\* The loop head: range() is exhausted before the cancel flag is polled.
NextIteration(r) ==
    /\ gen[r] = "top"
    /\ \/ /\ iters[r] = cap[r]
          /\ Raise(r, "error")
          /\ UNCHANGED <<iters, history>>
       \/ /\ iters[r] < cap[r] /\ Cancelled(r)
          /\ Raise(r, "cancelled")
          /\ UNCHANGED <<iters, history>>
       \/ /\ iters[r] < cap[r] /\ ~Cancelled(r)
          /\ iters' = [iters EXCEPT ![r] = @ + 1]
          /\ history' = [history EXCEPT ![r] = Trim(@)]
          /\ Resume(r, "llm")
          /\ UNCHANGED verdict
    /\ UNCHANGED <<row, reg, client, cap, calls, pending, labVars>>

\* _chat_completion returns tool calls, a final answer, or fails.
Completion(r) ==
    /\ gen[r] = "llm"
    /\ \/ /\ \E k \in 1..MaxBatch : pending' = [pending EXCEPT ![r] = k]
          /\ history' = [history EXCEPT ![r] = Append(@, "assistant")]
          /\ Resume(r, "calls")
          /\ UNCHANGED verdict
       \/ /\ Resume(r, "final")
          /\ UNCHANGED <<pending, history, verdict>>
       \/ /\ Raise(r, "error")
          /\ UNCHANGED <<pending, history>>
    /\ UNCHANGED <<row, reg, client, cap, iters, calls, labVars>>

\* The done event: recorded by _event_stream before it is sent.
Done(r) ==
    /\ gen[r] = "final"
    /\ FinishRun(r, "completed")
    /\ Resume(r, "last")
    /\ UNCHANGED <<reg, client, budget, verdict, labVars>>

\* Mutants of NextToolCall: one call too many; no poll between the calls of a batch.
OneCallTooMany(r) ==
    /\ gen[r] = "calls"
    /\ \/ /\ pending[r] = 0
          /\ Resume(r, "top")
          /\ UNCHANGED <<calls, pending, verdict>>
       \/ /\ pending[r] > 0 /\ (Cancelled(r) \/ calls[r] > MaxToolCalls)
          /\ Raise(r, IF Cancelled(r) THEN "cancelled" ELSE "error")
          /\ UNCHANGED <<calls, pending>>
       \/ /\ pending[r] > 0 /\ ~Cancelled(r) /\ calls[r] <= MaxToolCalls
          /\ calls' = [calls EXCEPT ![r] = @ + 1]
          /\ pending' = [pending EXCEPT ![r] = @ - 1]
          /\ Resume(r, "dispatch")
          /\ UNCHANGED verdict
    /\ UNCHANGED <<row, reg, client, cap, iters, history, labVars>>

NoPollBetweenCalls(r) ==
    /\ gen[r] = "calls" /\ pending[r] > 0 /\ calls[r] < MaxToolCalls
    /\ calls' = [calls EXCEPT ![r] = @ + 1]
    /\ pending' = [pending EXCEPT ![r] = @ - 1]
    /\ Resume(r, "dispatch")
    /\ UNCHANGED <<row, reg, client, cap, iters, history, verdict, labVars>>

\* The head of the tool-call loop.
NextToolCall(r) ==
    /\ gen[r] = "calls"
    /\ \/ /\ pending[r] = 0
          /\ Resume(r, "top")
          /\ UNCHANGED <<calls, pending, verdict>>
       \/ /\ pending[r] > 0 /\ Cancelled(r)
          /\ Raise(r, "cancelled")
          /\ UNCHANGED <<calls, pending>>
       \/ /\ pending[r] > 0 /\ ~Cancelled(r) /\ calls[r] >= MaxToolCalls
          /\ Raise(r, "error")
          /\ UNCHANGED <<calls, pending>>
       \/ /\ pending[r] > 0 /\ ~Cancelled(r) /\ calls[r] < MaxToolCalls
          /\ calls' = [calls EXCEPT ![r] = @ + 1]
          /\ pending' = [pending EXCEPT ![r] = @ - 1]
          /\ Resume(r, "dispatch")
          /\ UNCHANGED verdict
    /\ UNCHANGED <<row, reg, client, cap, iters, history, labVars>>

\* The tool runs and its result, an error envelope included, is fed back to the model.
ToolReturns(r) ==
    /\ history' = [history EXCEPT ![r] = Append(@, "tool")]
    /\ Resume(r, "calls")
    /\ UNCHANGED verdict

Dispatch(r) ==
    /\ gen[r] = "dispatch"
    /\ \/ /\ \E l \in LabIds \ UNION {made[q] : q \in Runs} :
             /\ created' = [created EXCEPT ![r] = l]
             /\ made' = [made EXCEPT ![r] = @ \union {l}]
             /\ alive' = alive \union {l}
          /\ ToolReturns(r)
       \/ /\ \E l \in alive : alive' = alive \ {l}
          /\ ToolReturns(r)
          /\ UNCHANGED <<created, made>>
       \/ /\ ToolReturns(r)
          /\ UNCHANGED <<created, made, alive>>
       \/ /\ Raise(r, "error")
          /\ UNCHANGED <<history, created, made, alive>>
    /\ UNCHANGED <<row, reg, client, cap, iters, calls, pending, excused>>

\* Mutant of CleanUp: only the error path deletes the lab.
CleanUpErrorsOnly(r) ==
    /\ gen[r] = "cleanup"
    /\ alive' = IF verdict[r] = "error" THEN alive \ {created[r]} ELSE alive
    /\ FinishRun(r, verdict[r])
    /\ Resume(r, "last")
    /\ UNCHANGED <<reg, client, budget, verdict, created, made, excused>>

\* The except clauses: _safe_cleanup deletes created_lab_id, and only that, or swallows
\* why it could not; then the terminal event is yielded and recorded.
CleanUp(r) ==
    /\ gen[r] = "cleanup"
    /\ \/ /\ alive' = alive \ {created[r]}
          /\ UNCHANGED excused
       \/ /\ "cleanup" \in Faults /\ created[r] \in alive
          /\ excused' = excused \union {r}
          /\ UNCHANGED alive
    /\ FinishRun(r, verdict[r])
    /\ Resume(r, "last")
    /\ UNCHANGED <<reg, client, budget, verdict, created, made>>

\* Mutant of End: the event stays registered.
EndRegistered(r) ==
    /\ gen[r] = "last"
    /\ Resume(r, "closed")
    /\ UNCHANGED <<row, reg, client, budget, verdict, labVars>>

\* Both finally clauses, after the terminal event.
End(r) ==
    /\ gen[r] = "last"
    /\ Unregister(r)
    /\ Resume(r, "closed")
    /\ UNCHANGED <<row, client, budget, verdict, labVars>>

\* finish_run raises on the terminal event (a locked database): _event_stream records an
\* error instead, and its finally clause tries again; when that fails too the row stays.
RecordFails(r) ==
    /\ "db" \in Faults
    /\ gen[r] \in {"created", "final", "cleanup"}
    /\ row' \in {row, [row EXCEPT ![r] = "error"]}
    /\ Unregister(r)
    /\ Resume(r, "closed")
    /\ alive' = IF gen[r] = "cleanup" THEN alive \ {created[r]} ELSE alive
    /\ excused' = excused \union {r}
    /\ UNCHANGED <<client, budget, verdict, created, made>>

----------------------------------------------------------------------------
\* POST /build/{run_id}/cancel: accepted exactly when the run is registered.
Cancel(r) ==
    /\ reg[r] # "absent"
    /\ reg' = [reg EXCEPT ![r] = "set"]
    /\ UNCHANGED <<row, gen, client, budget, verdict, labVars>>

Disconnect(r) ==
    /\ "disconnect" \in Faults
    /\ gen[r] # "none" /\ client[r]
    /\ client' = [client EXCEPT ![r] = FALSE]
    /\ UNCHANGED <<row, reg, gen, budget, verdict, labVars>>

\* Mutants of Close: no unregister; no defensive write; a write on top of a final status.
CloseRegistered(r) ==
    /\ ~client[r] /\ gen[r] \in AtYield
    /\ row' = [row EXCEPT ![r] = IF @ = "running" THEN "error" ELSE @]
    /\ Resume(r, "closed")
    /\ UNCHANGED <<reg, client, budget, verdict, labVars>>

CloseUnsettled(r) ==
    /\ ~client[r] /\ gen[r] \in AtYield
    /\ Unregister(r)
    /\ Resume(r, "closed")
    /\ UNCHANGED <<row, client, budget, verdict, labVars>>

CloseResettled(r) ==
    /\ ~client[r] /\ gen[r] \in AtYield
    /\ FinishRun(r, "error")
    /\ Unregister(r)
    /\ Resume(r, "closed")
    /\ UNCHANGED <<client, budget, verdict, labVars>>

\* GeneratorExit at a yield runs the finally clauses and no except clause.
Close(r) ==
    /\ ~client[r] /\ gen[r] \in AtYield
    /\ \/ /\ row' = [row EXCEPT ![r] = IF @ = "running" THEN "error" ELSE @]
          /\ UNCHANGED excused
       \/ /\ "db" \in Faults
          /\ excused' = excused \union {r}
          /\ UNCHANGED row
    /\ Unregister(r)
    /\ Resume(r, "closed")
    /\ UNCHANGED <<client, budget, verdict, created, made, alive>>

\* A generator that never began has no finally clause to run.
CloseUnstarted(r) ==
    /\ ~client[r] /\ gen[r] = "created"
    /\ Resume(r, "closed")
    /\ excused' = excused \union {r}
    /\ UNCHANGED <<row, reg, client, budget, verdict, created, made, alive>>

\* The backend dies: no finally clause runs, and nothing at startup looks at the rows.
Crash ==
    /\ "crash" \in Faults
    /\ gen' = [r \in Runs |-> IF gen[r] = "none" THEN "none" ELSE "closed"]
    /\ reg' = [r \in Runs |-> "absent"]
    /\ excused' = excused \union {r \in Runs : gen[r] \notin {"none", "closed"}}
    /\ UNCHANGED <<row, client, budget, verdict, created, made, alive>>

Step(r) ==
    \/ Begin(r) \/ NextIteration(r) \/ Completion(r) \/ Done(r) \/ NextToolCall(r)
    \/ Dispatch(r) \/ CleanUp(r) \/ End(r)

Next ==
    \/ \E r \in Runs :
        Build(r) \/ Step(r) \/ RecordFails(r) \/ Cancel(r) \/ Disconnect(r) \/ Close(r)
        \/ CloseUnstarted(r)
    \/ Crash

Spec == Init /\ [][Next]_vars

\* The server keeps calling next() until the stream ends, and drops it once the client
\* is gone.
Fairness == \A r \in Runs : WF_vars(Step(r)) /\ WF_vars(Close(r))
FairSpec == Spec /\ Fairness

----------------------------------------------------------------------------
(* Properties.                                                             *)

\* The cost rails of one run: no request for more iterations than the clamp allows, no
\* iteration past the cap, no tool call past MaxToolCalls however the calls are batched,
\* and no request to the model with more than MaxHistory messages or without the system
\* and user prompts at their head.
CostRails ==
    \A r \in Runs :
        /\ iters[r] <= cap[r] /\ cap[r] <= HardCap
        /\ calls[r] <= MaxToolCalls
        /\ gen[r] = "llm" =>
            /\ Len(history[r]) <= MaxHistory
            /\ Len(history[r]) >= 2 /\ history[r][1] = "system" /\ history[r][2] = "user"

\* The cancel registry never leaks: whichever way the two generators end, the event is
\* gone with them, and a cancel can be accepted only between the first event and the end.
RegistryNeverLeaks ==
    \A r \in Runs : gen[r] \in {"none", "created", "closed"} => reg[r] = "absent"

\* A stream that ended left a final status behind, be it by done, cancelled, error, or a
\* client that went away at any event.
EndedMeansSettled ==
    \A r \in Runs \ excused : gen[r] = "closed" => row[r] \in Terminal

\* A build that ends in error or by a cancel, with its client still there, does not leave
\* behind the lab it made last.
LastLabCleanedUp ==
    \A r \in Runs \ excused :
        row[r] \in {"error", "cancelled"} /\ client[r] => created[r] \notin alive

HonoursCancel(r) ==
    /\ reg[r] = "set" => iters'[r] = iters[r] /\ calls'[r] = calls[r]
    /\ row'[r] = "cancelled" /\ row[r] # "cancelled" => reg[r] = "set"

\* An accepted cancel holds from the next poll on: no iteration and no tool call is entered
\* after it (what was polled before it is finished), and only an accepted cancel makes a
\* run end as cancelled.
CancelMeansCancel == [][\A r \in Runs : HonoursCancel(r)]_vars

\* Every build that began to stream ends, and takes its registry entry along.
BuildEnds == \A r \in Runs : gen[r] = "created" ~> (gen[r] = "closed" /\ reg[r] = "absent")

\* The run history: rows are written before anything is spent, and settled once.
Ledger == INSTANCE RunLedger WITH spent <- iters
ImplementsLedger == Ledger!LedgerSpec

\* agent_runner.py: on unrecoverable error the lab is torn down "so nothing is orphaned".
NothingOrphaned ==
    \A r \in Runs : row[r] \in {"error", "cancelled"} /\ client[r] => made[r] \cap alive = {}

\* agent_runner.py: "Append the assistant turn (with its tool_calls) before results".  In a
\* request to the model a tool result follows an assistant turn or another result.
ResultsFollowTheirTurn ==
    \A r \in Runs : gen[r] = "llm" =>
        \A i \in 2..Len(history[r]) :
            history[r][i] = "tool" => history[r][i - 1] \in {"assistant", "tool"}
=============================================================================
