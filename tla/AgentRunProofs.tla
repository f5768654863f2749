--------------------------- MODULE AgentRunProofs ---------------------------
(***************************************************************************)
(* What AgentRun guarantees for any number of runs and labs and for any    *)
(* caps: the run's row follows the generator that owns it (Ledgered), the  *)
(* rails hold wherever a batch or an iteration is cut (Railed), and a lab  *)
(* a run made is nobody else's (Owned).                                    *)
(***************************************************************************)
EXTENDS AgentRun, SequenceTheorems, TLAPS

\* Where the generator stands says what the row says, and who asked for a cancel.
Ledgered ==
    \A r \in Runs :
        /\ gen[r] = "none" => row[r] = "none"
        /\ gen[r] \in {"created", "top", "llm", "calls", "dispatch", "final", "cleanup"}
               => row[r] = "running"
        /\ gen[r] = "last" => row[r] \in Terminal
        /\ gen[r] = "cleanup" /\ verdict[r] = "cancelled" => reg[r] = "set"

\* The two prompts lead the history.
Prompted(h) == Len(h) >= 2 /\ h[1] = "system" /\ h[2] = "user"

\* The rails, at every point of the loop.
Railed ==
    \A r \in Runs :
        /\ gen[r] = "none" => iters[r] = 0
        /\ iters[r] <= cap[r]
        /\ calls[r] <= MaxToolCalls

\* The history, at every point of the loop.
Bounded ==
    \A r \in Runs :
        /\ Prompted(history[r])
        /\ gen[r] = "llm" => Len(history[r]) <= MaxHistory

\* created_lab_id is one of the labs the run made, and unset before it began.
Owned ==
    \A r \in Runs :
        /\ created[r] \in made[r] \union {NoLab}
        /\ gen[r] \in {"none", "created"} => created[r] = NoLab

IInv ==
    /\ TypeOK /\ Ledgered /\ Railed /\ Bounded /\ Owned
    /\ RegistryNeverLeaks /\ EndedMeansSettled /\ LastLabCleanedUp

----------------------------------------------------------------------------
Roles == {"system", "user", "assistant", "tool"}

\* What _trim_history returns: never more than MaxHistory messages, and the two prompts
\* still lead them.
LEMMA TrimBounds ==
    ASSUME NEW S, NEW h \in Seq(S), Prompted(h)
    PROVE  Trim(h) \in Seq(S) /\ Prompted(Trim(h)) /\ Len(Trim(h)) <= MaxHistory
<1>1. CASE Len(h) <= MaxHistory
  BY <1>1 DEF Trim
<1>2. CASE Len(h) > MaxHistory
  <2> DEFINE front == SubSeq(h, 1, 2)
             back == SubSeq(h, Len(h) - (MaxHistory - 2) + 1, Len(h))
  <2>1. MaxHistory \in Nat /\ MaxHistory > 2
    BY CapsAssumption
  <2>2. front \in Seq(S) /\ Len(front) = 2 /\ front[1] = h[1] /\ front[2] = h[2]
    BY DEF Prompted
  <2>3. back \in Seq(S) /\ Len(back) = MaxHistory - 2
    BY <1>2, <2>1
  <2>4. Trim(h) = front \o back
    BY <1>2, <2>1 DEF Trim
  <2> HIDE DEF front, back
  <2>5. /\ Trim(h) \in Seq(S) /\ Len(Trim(h)) = Len(front) + Len(back)
        /\ \A i \in 1..Len(front) + Len(back) :
              Trim(h)[i] = IF i <= Len(front) THEN front[i] ELSE back[i - Len(front)]
    <3> DEFINE whole == front \o back
    <3>1. /\ whole \in Seq(S) /\ Len(whole) = Len(front) + Len(back)
          /\ \A i \in 1..Len(front) + Len(back) :
                whole[i] = IF i <= Len(front) THEN front[i] ELSE back[i - Len(front)]
      BY ONLY <2>2, <2>3, ConcatProperties
    <3>2. Trim(h) = whole
      BY <2>4
    <3> HIDE DEF whole
    <3>3. QED
      BY ONLY <3>1, <3>2
  <2>6. Trim(h)[1] = front[1] /\ Trim(h)[2] = front[2]
    BY <2>1, <2>2, <2>3, <2>5
  <2>7. QED
    BY <2>1, <2>2, <2>3, <2>5, <2>6 DEF Prompted
<1>3. QED
  BY <1>1, <1>2, CapsAssumption

LEMMA AppendBounds ==
    ASSUME NEW S, NEW h \in Seq(S), Prompted(h), NEW x \in S
    PROVE  Append(h, x) \in Seq(S) /\ Prompted(Append(h, x))
BY DEF Prompted

----------------------------------------------------------------------------
\* Every step keeps every variable in its range.
LEMMA TypeStep == TypeOK /\ Bounded /\ [Next]_vars => TypeOK'
<1> SUFFICES ASSUME TypeOK, Bounded, [Next]_vars PROVE TypeOK'
  OBVIOUS
<1> USE CapsAssumption, NoLabAssumption
    DEF TypeOK, Terminal, AtYield, Resume, FinishRun, Unregister, Cancelled, Raise, budget,
        labVars
<1>1. ASSUME NEW r \in Runs, Build(r) PROVE TypeOK'
  <2>1. \A n \in Asked : Clamp(n) \in 1..HardCap
    BY DEF Clamp
  <2>2. QED
    BY <1>1, <2>1 DEF Build
<1>2. ASSUME NEW r \in Runs, Begin(r) PROVE TypeOK'
  BY <1>2 DEF Begin
<1>3. ASSUME NEW r \in Runs, NextIteration(r) PROVE TypeOK'
  <2>1. Trim(history[r]) \in Seq({"system", "user", "assistant", "tool"})
    BY TrimBounds DEF Bounded
  <2>2. CASE iters[r] < cap[r] /\ ~Cancelled(r)
    <3>1. iters' = [iters EXCEPT ![r] = @ + 1] /\ history' = [history EXCEPT ![r] = Trim(@)]
      BY <1>3, <2>2 DEF NextIteration
    <3>2. iters' \in [Runs -> Nat]
      BY <3>1
    <3>3. history' \in [Runs -> Seq({"system", "user", "assistant", "tool"})]
      BY <2>1, <3>1
    <3>4. QED
      BY <1>3, <2>2, <3>2, <3>3 DEF NextIteration
  <2>3. CASE ~(iters[r] < cap[r] /\ ~Cancelled(r))
    BY <1>3, <2>3 DEF NextIteration
  <2>4. QED
    BY <2>2, <2>3
<1>4. ASSUME NEW r \in Runs, Completion(r) PROVE TypeOK'
  <2>1. Append(history[r], "assistant") \in Seq({"system", "user", "assistant", "tool"})
    BY AppendBounds DEF Bounded
  <2>2. history' \in [Runs -> Seq({"system", "user", "assistant", "tool"})]
    <3>1. history' = history \/ history' = [history EXCEPT ![r] = Append(@, "assistant")]
      BY <1>4 DEF Completion
    <3>2. QED
      BY <2>1, <3>1
  <2>3. pending' = pending \/ \E k \in 1..MaxBatch : pending' = [pending EXCEPT ![r] = k]
    BY <1>4 DEF Completion
  <2>4. pending' \in [Runs -> Nat]
    <3>1. ASSUME NEW k \in 1..MaxBatch, pending' = [pending EXCEPT ![r] = k]
          PROVE  pending' \in [Runs -> Nat]
      <4>1. k \in Nat
        OBVIOUS
      <4>2. QED
        BY <3>1, <4>1
    <3>2. QED
      BY <2>3, <3>1
  <2>5. QED
    BY <1>4, <2>2, <2>4 DEF Completion
<1>5. ASSUME NEW r \in Runs, Done(r) PROVE TypeOK'
  BY <1>5 DEF Done
<1>6. ASSUME NEW r \in Runs, NextToolCall(r) PROVE TypeOK'
  <2>1. calls' \in [Runs -> Nat]
    BY <1>6 DEF NextToolCall
  <2>2. CASE pending' = pending
    BY <1>6, <2>1, <2>2 DEF NextToolCall
  <2>3. CASE pending[r] > 0 /\ pending' = [pending EXCEPT ![r] = @ - 1]
    <3>1. pending[r] - 1 \in Nat
      BY <2>3
    <3>2. pending' \in [Runs -> Nat]
      BY <2>3, <3>1
    <3>3. QED
      BY <1>6, <2>1, <3>2 DEF NextToolCall
  <2>4. QED
    BY <1>6, <2>2, <2>3 DEF NextToolCall
<1>7. ASSUME NEW r \in Runs, Dispatch(r) PROVE TypeOK'
  <2>1. Append(history[r], "tool") \in Seq({"system", "user", "assistant", "tool"})
    BY AppendBounds DEF Bounded
  <2>2. history' \in [Runs -> Seq({"system", "user", "assistant", "tool"})]
    <3>1. history' = history \/ history' = [history EXCEPT ![r] = Append(@, "tool")]
      BY <1>7 DEF Dispatch, ToolReturns
    <3>2. QED
      BY <2>1, <3>1
  <2>3. alive' \subseteq LabIds
    BY <1>7 DEF Dispatch, ToolReturns
  <2>4. made' = made \/ \E l \in LabIds : made' = [made EXCEPT ![r] = @ \union {l}]
    BY <1>7 DEF Dispatch, ToolReturns
  <2>5. made' \in [Runs -> SUBSET LabIds]
    <3>1. ASSUME NEW l \in LabIds, made' = [made EXCEPT ![r] = @ \union {l}]
          PROVE  made' \in [Runs -> SUBSET LabIds]
      <4> DEFINE more == made[r] \union {l}
      <4>1. more \in SUBSET LabIds
        OBVIOUS
      <4>2. made' = [made EXCEPT ![r] = more]
        BY <3>1
      <4> HIDE DEF more
      <4>3. QED
        BY <4>1, <4>2
    <3>2. QED
      BY <2>4, <3>1
  <2>6. QED
    BY <1>7, <2>2, <2>3, <2>5 DEF Dispatch, ToolReturns
<1>8. ASSUME NEW r \in Runs, CleanUp(r) PROVE TypeOK'
  BY <1>8 DEF CleanUp
<1>9. ASSUME NEW r \in Runs, End(r) PROVE TypeOK'
  BY <1>9 DEF End
<1>10. ASSUME NEW r \in Runs, RecordFails(r) PROVE TypeOK'
  BY <1>10 DEF RecordFails
<1>11. ASSUME NEW r \in Runs, Cancel(r) PROVE TypeOK'
  BY <1>11 DEF Cancel
<1>12. ASSUME NEW r \in Runs, Disconnect(r) PROVE TypeOK'
  BY <1>12 DEF Disconnect
<1>13. ASSUME NEW r \in Runs, Close(r) PROVE TypeOK'
  BY <1>13 DEF Close
<1>14. ASSUME NEW r \in Runs, CloseUnstarted(r) PROVE TypeOK'
  BY <1>14 DEF CloseUnstarted
<1>15. CASE Crash
  BY <1>15 DEF Crash
<1>16. CASE UNCHANGED vars
  BY <1>16 DEF vars
<1>17. QED
  BY <1>1, <1>2, <1>3, <1>4, <1>5, <1>6, <1>7, <1>8, <1>9, <1>10, <1>11, <1>12, <1>13, <1>14, <1>15, <1>16
     DEF Next, Step

\* No step overruns an iteration or a tool-call cap.
LEMMA RailedStep == TypeOK /\ Railed /\ [Next]_vars => Railed'
<1> SUFFICES ASSUME TypeOK, Railed, [Next]_vars PROVE Railed'
  OBVIOUS
<1> /\ row \in [Runs -> {"none", "running"} \union Terminal]
    /\ reg \in [Runs -> {"absent", "clear", "set"}]
    /\ gen \in [Runs -> {"none", "created", "llm", "cleanup", "closed"} \union AtYield]
    /\ verdict \in [Runs -> {"cancelled", "error"}]
    /\ iters \in [Runs -> Nat] /\ calls \in [Runs -> Nat] /\ pending \in [Runs -> Nat]
    /\ cap \in [Runs -> 1..HardCap]
  BY DEF TypeOK
<1> USE CapsAssumption, NoLabAssumption
    DEF Railed, Terminal, AtYield, Resume, FinishRun, Unregister, Cancelled, Raise, 
        budget, labVars
<1>1. ASSUME NEW r \in Runs, Build(r) PROVE Railed'
  <2>1. \A n \in Asked : Clamp(n) \in 1..HardCap
    BY DEF Clamp
  <2>2. QED
    BY <1>1, <2>1 DEF Build
<1>2. ASSUME NEW r \in Runs, Begin(r) PROVE Railed'
  BY <1>2 DEF Begin
<1>3. ASSUME NEW r \in Runs, NextIteration(r) PROVE Railed'
  <2>1. iters' = iters \/ (iters[r] < cap[r] /\ iters' = [iters EXCEPT ![r] = @ + 1])
    BY <1>3 DEF NextIteration
  <2>2. gen[r] # "none" /\ gen'[r] # "none"
    BY <1>3 DEF NextIteration
  <2>3. \A q \in Runs : q # r => gen'[q] = gen[q]
    BY <1>3 DEF NextIteration
  <2>4. QED
    BY <1>3, <2>1, <2>2, <2>3 DEF NextIteration
<1>4. ASSUME NEW r \in Runs, Completion(r) PROVE Railed'
  BY <1>4 DEF Completion
<1>5. ASSUME NEW r \in Runs, Done(r) PROVE Railed'
  BY <1>5 DEF Done
<1>6. ASSUME NEW r \in Runs, NextToolCall(r) PROVE Railed'
  BY <1>6 DEF NextToolCall
<1>7. ASSUME NEW r \in Runs, Dispatch(r) PROVE Railed'
  BY <1>7 DEF Dispatch, ToolReturns
<1>8. ASSUME NEW r \in Runs, CleanUp(r) PROVE Railed'
  BY <1>8 DEF CleanUp
<1>9. ASSUME NEW r \in Runs, End(r) PROVE Railed'
  BY <1>9 DEF End
<1>10. ASSUME NEW r \in Runs, RecordFails(r) PROVE Railed'
  BY <1>10 DEF RecordFails
<1>11. ASSUME NEW r \in Runs, Cancel(r) PROVE Railed'
  BY <1>11 DEF Cancel
<1>12. ASSUME NEW r \in Runs, Disconnect(r) PROVE Railed'
  BY <1>12 DEF Disconnect
<1>13. ASSUME NEW r \in Runs, Close(r) PROVE Railed'
  BY <1>13 DEF Close
<1>14. ASSUME NEW r \in Runs, CloseUnstarted(r) PROVE Railed'
  BY <1>14 DEF CloseUnstarted
<1>15. CASE Crash
  BY <1>15 DEF Crash
<1>16. CASE UNCHANGED vars
  BY <1>16 DEF vars
<1>17. QED
  BY <1>1, <1>2, <1>3, <1>4, <1>5, <1>6, <1>7, <1>8, <1>9, <1>10, <1>11, <1>12, <1>13, <1>14, <1>15, <1>16
     DEF Next, Step

\* No step loses the prompts, and the model is sent a trimmed history.
LEMMA BoundedStep == TypeOK /\ Bounded /\ [Next]_vars => Bounded'
<1> SUFFICES ASSUME TypeOK, Bounded, [Next]_vars PROVE Bounded'
  OBVIOUS
<1> USE CapsAssumption, NoLabAssumption
    DEF TypeOK, Bounded, Terminal, AtYield, Resume, FinishRun, Unregister, Cancelled, Raise, budget,
        labVars
<1>1. ASSUME NEW r \in Runs, Build(r) PROVE Bounded'
  BY <1>1 DEF Build
<1>2. ASSUME NEW r \in Runs, Begin(r) PROVE Bounded'
  BY <1>2 DEF Begin
<1>3. ASSUME NEW r \in Runs, NextIteration(r) PROVE Bounded'
  <2>1. Prompted(Trim(history[r])) /\ Len(Trim(history[r])) <= MaxHistory
    BY TrimBounds
  <2>2. \/ history' = [history EXCEPT ![r] = Trim(@)]
        \/ history' = history /\ \A q \in Runs : gen'[q] = "llm" => gen[q] = "llm"
    BY <1>3 DEF NextIteration
  <2>3. \A q \in Runs : gen'[q] = "llm" => gen[q] = "llm" \/ q = r
    BY <1>3 DEF NextIteration
  <2>4. QED
    BY <2>1, <2>2, <2>3
<1>4. ASSUME NEW r \in Runs, Completion(r) PROVE Bounded'
  <2>1. Prompted(Append(history[r], "assistant"))
    BY AppendBounds
  <2>2. history' = history \/ history' = [history EXCEPT ![r] = Append(@, "assistant")]
    BY <1>4 DEF Completion
  <2>3. gen[r] # "llm" \/ gen'[r] # "llm"
    BY <1>4 DEF Completion
  <2>4. \A q \in Runs : gen'[q] = "llm" => gen[q] = "llm" /\ q # r
    BY <1>4, <2>3 DEF Completion
  <2>5. QED
    BY <2>1, <2>2, <2>4
<1>5. ASSUME NEW r \in Runs, Done(r) PROVE Bounded'
  BY <1>5 DEF Done
<1>6. ASSUME NEW r \in Runs, NextToolCall(r) PROVE Bounded'
  BY <1>6 DEF NextToolCall
<1>7. ASSUME NEW r \in Runs, Dispatch(r) PROVE Bounded'
  <2>1. Prompted(Append(history[r], "tool"))
    BY AppendBounds
  <2>2. history' = history \/ history' = [history EXCEPT ![r] = Append(@, "tool")]
    BY <1>7 DEF Dispatch, ToolReturns
  <2>3. gen[r] # "llm" \/ gen'[r] # "llm"
    BY <1>7 DEF Dispatch, ToolReturns
  <2>4. \A q \in Runs : gen'[q] = "llm" => gen[q] = "llm" /\ q # r
    BY <1>7, <2>3 DEF Dispatch, ToolReturns
  <2>5. QED
    BY <2>1, <2>2, <2>4
<1>8. ASSUME NEW r \in Runs, CleanUp(r) PROVE Bounded'
  BY <1>8 DEF CleanUp
<1>9. ASSUME NEW r \in Runs, End(r) PROVE Bounded'
  BY <1>9 DEF End
<1>10. ASSUME NEW r \in Runs, RecordFails(r) PROVE Bounded'
  BY <1>10 DEF RecordFails
<1>11. ASSUME NEW r \in Runs, Cancel(r) PROVE Bounded'
  BY <1>11 DEF Cancel
<1>12. ASSUME NEW r \in Runs, Disconnect(r) PROVE Bounded'
  BY <1>12 DEF Disconnect
<1>13. ASSUME NEW r \in Runs, Close(r) PROVE Bounded'
  BY <1>13 DEF Close
<1>14. ASSUME NEW r \in Runs, CloseUnstarted(r) PROVE Bounded'
  BY <1>14 DEF CloseUnstarted
<1>15. CASE Crash
  BY <1>15 DEF Crash
<1>16. CASE UNCHANGED vars
  BY <1>16 DEF vars
<1>17. QED
  BY <1>1, <1>2, <1>3, <1>4, <1>5, <1>6, <1>7, <1>8, <1>9, <1>10, <1>11, <1>12, <1>13, <1>14, <1>15, <1>16
     DEF Next, Step

\* The row follows the generator.
LEMMA LedgeredStep == TypeOK /\ Ledgered /\ [Next]_vars => Ledgered'
<1> SUFFICES ASSUME TypeOK, Ledgered, [Next]_vars PROVE Ledgered'
  OBVIOUS
<1> /\ row \in [Runs -> {"none", "running"} \union Terminal]
    /\ reg \in [Runs -> {"absent", "clear", "set"}]
    /\ gen \in [Runs -> {"none", "created", "llm", "cleanup", "closed"} \union AtYield]
    /\ verdict \in [Runs -> {"cancelled", "error"}]
  BY DEF TypeOK
<1> USE CapsAssumption, NoLabAssumption
    DEF Ledgered, Terminal, AtYield, Resume, FinishRun, Unregister, Cancelled, Raise, budget,
        labVars
<1>1. ASSUME NEW r \in Runs, Build(r) PROVE Ledgered'
  BY <1>1 DEF Build
<1>2. ASSUME NEW r \in Runs, Begin(r) PROVE Ledgered'
  BY <1>2 DEF Begin
<1>3. ASSUME NEW r \in Runs, NextIteration(r) PROVE Ledgered'
  BY <1>3 DEF NextIteration
<1>4. ASSUME NEW r \in Runs, Completion(r) PROVE Ledgered'
  BY <1>4 DEF Completion
<1>5. ASSUME NEW r \in Runs, Done(r) PROVE Ledgered'
  BY <1>5 DEF Done
<1>6. ASSUME NEW r \in Runs, NextToolCall(r) PROVE Ledgered'
  BY <1>6 DEF NextToolCall
<1>7. ASSUME NEW r \in Runs, Dispatch(r) PROVE Ledgered'
  BY <1>7 DEF Dispatch, ToolReturns
<1>8. ASSUME NEW r \in Runs, CleanUp(r) PROVE Ledgered'
  BY <1>8 DEF CleanUp
<1>9. ASSUME NEW r \in Runs, End(r) PROVE Ledgered'
  BY <1>9 DEF End
<1>10. ASSUME NEW r \in Runs, RecordFails(r) PROVE Ledgered'
  BY <1>10 DEF RecordFails
<1>11. ASSUME NEW r \in Runs, Cancel(r) PROVE Ledgered'
  BY <1>11 DEF Cancel
<1>12. ASSUME NEW r \in Runs, Disconnect(r) PROVE Ledgered'
  BY <1>12 DEF Disconnect
<1>13. ASSUME NEW r \in Runs, Close(r) PROVE Ledgered'
  BY <1>13 DEF Close
<1>14. ASSUME NEW r \in Runs, CloseUnstarted(r) PROVE Ledgered'
  BY <1>14 DEF CloseUnstarted
<1>15. CASE Crash
  BY <1>15 DEF Crash
<1>16. CASE UNCHANGED vars
  BY <1>16 DEF vars
<1>17. QED
  BY <1>1, <1>2, <1>3, <1>4, <1>5, <1>6, <1>7, <1>8, <1>9, <1>10, <1>11, <1>12, <1>13, <1>14, <1>15, <1>16
     DEF Next, Step

\* Whatever ends a run takes its event out of the registry.
LEMMA RegistryStep == TypeOK /\ RegistryNeverLeaks /\ [Next]_vars => RegistryNeverLeaks'
<1> SUFFICES ASSUME TypeOK, RegistryNeverLeaks, [Next]_vars PROVE RegistryNeverLeaks'
  OBVIOUS
<1> /\ row \in [Runs -> {"none", "running"} \union Terminal]
    /\ reg \in [Runs -> {"absent", "clear", "set"}]
    /\ gen \in [Runs -> {"none", "created", "llm", "cleanup", "closed"} \union AtYield]
    /\ verdict \in [Runs -> {"cancelled", "error"}]
  BY DEF TypeOK
<1> USE CapsAssumption, NoLabAssumption
    DEF RegistryNeverLeaks, Terminal, AtYield, Resume, FinishRun, Unregister, Cancelled, Raise,
        budget, labVars
<1>1. ASSUME NEW r \in Runs, Build(r) PROVE RegistryNeverLeaks'
  BY <1>1 DEF Build
<1>2. ASSUME NEW r \in Runs, Begin(r) PROVE RegistryNeverLeaks'
  BY <1>2 DEF Begin
<1>3. ASSUME NEW r \in Runs, NextIteration(r) PROVE RegistryNeverLeaks'
  BY <1>3 DEF NextIteration
<1>4. ASSUME NEW r \in Runs, Completion(r) PROVE RegistryNeverLeaks'
  BY <1>4 DEF Completion
<1>5. ASSUME NEW r \in Runs, Done(r) PROVE RegistryNeverLeaks'
  BY <1>5 DEF Done
<1>6. ASSUME NEW r \in Runs, NextToolCall(r) PROVE RegistryNeverLeaks'
  BY <1>6 DEF NextToolCall
<1>7. ASSUME NEW r \in Runs, Dispatch(r) PROVE RegistryNeverLeaks'
  BY <1>7 DEF Dispatch, ToolReturns
<1>8. ASSUME NEW r \in Runs, CleanUp(r) PROVE RegistryNeverLeaks'
  BY <1>8 DEF CleanUp
<1>9. ASSUME NEW r \in Runs, End(r) PROVE RegistryNeverLeaks'
  BY <1>9 DEF End
<1>10. ASSUME NEW r \in Runs, RecordFails(r) PROVE RegistryNeverLeaks'
  BY <1>10 DEF RecordFails
<1>11. ASSUME NEW r \in Runs, Cancel(r) PROVE RegistryNeverLeaks'
  BY <1>11 DEF Cancel
<1>12. ASSUME NEW r \in Runs, Disconnect(r) PROVE RegistryNeverLeaks'
  BY <1>12 DEF Disconnect
<1>13. ASSUME NEW r \in Runs, Close(r) PROVE RegistryNeverLeaks'
  BY <1>13 DEF Close
<1>14. ASSUME NEW r \in Runs, CloseUnstarted(r) PROVE RegistryNeverLeaks'
  BY <1>14 DEF CloseUnstarted
<1>15. CASE Crash
  BY <1>15 DEF Crash
<1>16. CASE UNCHANGED vars
  BY <1>16 DEF vars
<1>17. QED
  BY <1>1, <1>2, <1>3, <1>4, <1>5, <1>6, <1>7, <1>8, <1>9, <1>10, <1>11, <1>12, <1>13, <1>14, <1>15, <1>16
     DEF Next, Step

\* No stream ends before the row is settled.
LEMMA SettledStep == TypeOK /\ Ledgered /\ EndedMeansSettled /\ [Next]_vars => EndedMeansSettled'
<1> SUFFICES ASSUME TypeOK, Ledgered, EndedMeansSettled, [Next]_vars PROVE EndedMeansSettled'
  OBVIOUS
<1> /\ row \in [Runs -> {"none", "running"} \union Terminal]
    /\ reg \in [Runs -> {"absent", "clear", "set"}]
    /\ gen \in [Runs -> {"none", "created", "llm", "cleanup", "closed"} \union AtYield]
    /\ verdict \in [Runs -> {"cancelled", "error"}]
  BY DEF TypeOK
<1> USE CapsAssumption, NoLabAssumption
    DEF Ledgered, EndedMeansSettled, Terminal, AtYield, Resume, FinishRun, Unregister, Cancelled, Raise,
        budget, labVars
<1>1. ASSUME NEW r \in Runs, Build(r) PROVE EndedMeansSettled'
  BY <1>1 DEF Build
<1>2. ASSUME NEW r \in Runs, Begin(r) PROVE EndedMeansSettled'
  BY <1>2 DEF Begin
<1>3. ASSUME NEW r \in Runs, NextIteration(r) PROVE EndedMeansSettled'
  BY <1>3 DEF NextIteration
<1>4. ASSUME NEW r \in Runs, Completion(r) PROVE EndedMeansSettled'
  BY <1>4 DEF Completion
<1>5. ASSUME NEW r \in Runs, Done(r) PROVE EndedMeansSettled'
  BY <1>5 DEF Done
<1>6. ASSUME NEW r \in Runs, NextToolCall(r) PROVE EndedMeansSettled'
  BY <1>6 DEF NextToolCall
<1>7. ASSUME NEW r \in Runs, Dispatch(r) PROVE EndedMeansSettled'
  BY <1>7 DEF Dispatch, ToolReturns
<1>8. ASSUME NEW r \in Runs, CleanUp(r) PROVE EndedMeansSettled'
  BY <1>8 DEF CleanUp
<1>9. ASSUME NEW r \in Runs, End(r) PROVE EndedMeansSettled'
  BY <1>9 DEF End
<1>10. ASSUME NEW r \in Runs, RecordFails(r) PROVE EndedMeansSettled'
  BY <1>10 DEF RecordFails
<1>11. ASSUME NEW r \in Runs, Cancel(r) PROVE EndedMeansSettled'
  BY <1>11 DEF Cancel
<1>12. ASSUME NEW r \in Runs, Disconnect(r) PROVE EndedMeansSettled'
  BY <1>12 DEF Disconnect
<1>13. ASSUME NEW r \in Runs, Close(r) PROVE EndedMeansSettled'
  BY <1>13 DEF Close
<1>14. ASSUME NEW r \in Runs, CloseUnstarted(r) PROVE EndedMeansSettled'
  BY <1>14 DEF CloseUnstarted
<1>15. CASE Crash
  BY <1>15 DEF Crash
<1>16. CASE UNCHANGED vars
  BY <1>16 DEF vars
<1>17. QED
  BY <1>1, <1>2, <1>3, <1>4, <1>5, <1>6, <1>7, <1>8, <1>9, <1>10, <1>11, <1>12, <1>13, <1>14, <1>15, <1>16
     DEF Next, Step

\* created_lab_id is set by the run itself.
LEMMA OwnedStep == TypeOK /\ Owned /\ [Next]_vars => Owned'
<1> SUFFICES ASSUME TypeOK, Owned, [Next]_vars PROVE Owned'
  OBVIOUS
<1> /\ row \in [Runs -> {"none", "running"} \union Terminal]
    /\ reg \in [Runs -> {"absent", "clear", "set"}]
    /\ gen \in [Runs -> {"none", "created", "llm", "cleanup", "closed"} \union AtYield]
    /\ verdict \in [Runs -> {"cancelled", "error"}]
    /\ client \in [Runs -> BOOLEAN]
    /\ created \in [Runs -> LabIds \union {NoLab}] /\ made \in [Runs -> SUBSET LabIds]
    /\ alive \subseteq LabIds
  BY DEF TypeOK
<1> USE CapsAssumption, NoLabAssumption
    DEF Owned, Terminal, AtYield, Resume, FinishRun, Unregister, Cancelled, Raise, budget,
        labVars
<1>1. ASSUME NEW r \in Runs, Build(r) PROVE Owned'
  BY <1>1 DEF Build
<1>2. ASSUME NEW r \in Runs, Begin(r) PROVE Owned'
  BY <1>2 DEF Begin
<1>3. ASSUME NEW r \in Runs, NextIteration(r) PROVE Owned'
  BY <1>3 DEF NextIteration
<1>4. ASSUME NEW r \in Runs, Completion(r) PROVE Owned'
  BY <1>4 DEF Completion
<1>5. ASSUME NEW r \in Runs, Done(r) PROVE Owned'
  BY <1>5 DEF Done
<1>6. ASSUME NEW r \in Runs, NextToolCall(r) PROVE Owned'
  BY <1>6 DEF NextToolCall
<1>7. ASSUME NEW r \in Runs, Dispatch(r) PROVE Owned'
  BY <1>7 DEF Dispatch, ToolReturns
<1>8. ASSUME NEW r \in Runs, CleanUp(r) PROVE Owned'
  BY <1>8 DEF CleanUp
<1>9. ASSUME NEW r \in Runs, End(r) PROVE Owned'
  BY <1>9 DEF End
<1>10. ASSUME NEW r \in Runs, RecordFails(r) PROVE Owned'
  BY <1>10 DEF RecordFails
<1>11. ASSUME NEW r \in Runs, Cancel(r) PROVE Owned'
  BY <1>11 DEF Cancel
<1>12. ASSUME NEW r \in Runs, Disconnect(r) PROVE Owned'
  BY <1>12 DEF Disconnect
<1>13. ASSUME NEW r \in Runs, Close(r) PROVE Owned'
  BY <1>13 DEF Close
<1>14. ASSUME NEW r \in Runs, CloseUnstarted(r) PROVE Owned'
  BY <1>14 DEF CloseUnstarted
<1>15. CASE Crash
  BY <1>15 DEF Crash
<1>16. CASE UNCHANGED vars
  BY <1>16 DEF vars
<1>17. QED
  BY <1>1, <1>2, <1>3, <1>4, <1>5, <1>6, <1>7, <1>8, <1>9, <1>10, <1>11, <1>12, <1>13, <1>14, <1>15, <1>16
     DEF Next, Step

\* No lab is handed out twice, so one that was deleted stays deleted.
LEMMA CleanedStep == TypeOK /\ Ledgered /\ Owned /\ LastLabCleanedUp /\ [Next]_vars => LastLabCleanedUp'
<1> SUFFICES ASSUME TypeOK, Ledgered, Owned, LastLabCleanedUp, [Next]_vars PROVE LastLabCleanedUp'
  OBVIOUS
<1> /\ row \in [Runs -> {"none", "running"} \union Terminal]
    /\ reg \in [Runs -> {"absent", "clear", "set"}]
    /\ gen \in [Runs -> {"none", "created", "llm", "cleanup", "closed"} \union AtYield]
    /\ verdict \in [Runs -> {"cancelled", "error"}]
    /\ client \in [Runs -> BOOLEAN]
    /\ created \in [Runs -> LabIds \union {NoLab}] /\ made \in [Runs -> SUBSET LabIds]
    /\ alive \subseteq LabIds
  BY DEF TypeOK
<1> USE CapsAssumption, NoLabAssumption
    DEF Ledgered, Owned, LastLabCleanedUp, Terminal, AtYield, Resume, FinishRun, Unregister,
        Cancelled, Raise, budget, labVars
<1>1. ASSUME NEW r \in Runs, Build(r) PROVE LastLabCleanedUp'
  BY <1>1 DEF Build
<1>2. ASSUME NEW r \in Runs, Begin(r) PROVE LastLabCleanedUp'
  BY <1>2 DEF Begin
<1>3. ASSUME NEW r \in Runs, NextIteration(r) PROVE LastLabCleanedUp'
  BY <1>3 DEF NextIteration
<1>4. ASSUME NEW r \in Runs, Completion(r) PROVE LastLabCleanedUp'
  BY <1>4 DEF Completion
<1>5. ASSUME NEW r \in Runs, Done(r) PROVE LastLabCleanedUp'
  BY <1>5 DEF Done
<1>6. ASSUME NEW r \in Runs, NextToolCall(r) PROVE LastLabCleanedUp'
  BY <1>6 DEF NextToolCall
<1>7. ASSUME NEW r \in Runs, Dispatch(r) PROVE LastLabCleanedUp'
  <2>1. row' = row /\ row[r] = "running" /\ client' = client /\ excused' = excused
    BY <1>7 DEF Dispatch
  <2>2. \A q \in Runs : q # r => created'[q] = created[q]
    BY <1>7 DEF Dispatch, ToolReturns
  <2>3. \A l \in alive' : l \in alive \/ (l \in LabIds /\ \A q \in Runs : l \notin made[q])
    BY <1>7 DEF Dispatch, ToolReturns
  <2>4. ASSUME NEW q \in Runs \ excused, q # r, row[q] \in {"error", "cancelled"}, client[q]
        PROVE  created'[q] \notin alive'
    <3>1. created'[q] = created[q] /\ created[q] \notin alive
      BY <2>2, <2>4
    <3>2. created[q] \in made[q] \/ created[q] \notin LabIds
      BY DEF Owned
    <3>3. QED
      BY ONLY <2>3, <2>4, <3>1, <3>2
  <2>5. QED
    BY <2>1, <2>4
<1>8. ASSUME NEW r \in Runs, CleanUp(r) PROVE LastLabCleanedUp'
  BY <1>8 DEF CleanUp
<1>9. ASSUME NEW r \in Runs, End(r) PROVE LastLabCleanedUp'
  BY <1>9 DEF End
<1>10. ASSUME NEW r \in Runs, RecordFails(r) PROVE LastLabCleanedUp'
  BY <1>10 DEF RecordFails
<1>11. ASSUME NEW r \in Runs, Cancel(r) PROVE LastLabCleanedUp'
  BY <1>11 DEF Cancel
<1>12. ASSUME NEW r \in Runs, Disconnect(r) PROVE LastLabCleanedUp'
  BY <1>12 DEF Disconnect
<1>13. ASSUME NEW r \in Runs, Close(r) PROVE LastLabCleanedUp'
  BY <1>13 DEF Close
<1>14. ASSUME NEW r \in Runs, CloseUnstarted(r) PROVE LastLabCleanedUp'
  BY <1>14 DEF CloseUnstarted
<1>15. CASE Crash
  BY <1>15 DEF Crash
<1>16. CASE UNCHANGED vars
  BY <1>16 DEF vars
<1>17. QED
  BY <1>1, <1>2, <1>3, <1>4, <1>5, <1>6, <1>7, <1>8, <1>9, <1>10, <1>11, <1>12, <1>13, <1>14, <1>15, <1>16
     DEF Next, Step

----------------------------------------------------------------------------
LEMMA Initially ==
    Init => /\ TypeOK /\ Ledgered /\ Railed /\ Bounded /\ Owned
            /\ RegistryNeverLeaks /\ EndedMeansSettled /\ LastLabCleanedUp
<1> SUFFICES ASSUME Init
             PROVE  /\ TypeOK /\ Ledgered /\ Railed /\ Bounded /\ Owned
                    /\ RegistryNeverLeaks /\ EndedMeansSettled /\ LastLabCleanedUp
  OBVIOUS
<1> USE CapsAssumption, NoLabAssumption DEF Init
<1>1. TypeOK
  BY DEF TypeOK, Terminal, AtYield
<1>2. Ledgered /\ Railed /\ Owned
  BY DEF Ledgered, Railed, Owned, Terminal
<1>3. Bounded
  <2>1. Prompted(<<"system", "user">>)
    BY DEF Prompted
  <2>2. QED
    BY <2>1 DEF Bounded
<1>4. RegistryNeverLeaks /\ EndedMeansSettled /\ LastLabCleanedUp
  BY DEF RegistryNeverLeaks, EndedMeansSettled, LastLabCleanedUp, Terminal
<1>5. QED
  BY <1>1, <1>2, <1>3, <1>4

\* Every variable stays in its range.  That the history stays one of roles needs that it
\* never loses its prompts: trimming a shorter one would.
THEOREM TypeCorrect == Spec => []TypeOK
<1>1. TypeOK /\ Bounded /\ [Next]_vars => (TypeOK /\ Bounded)'
  BY TypeStep, BoundedStep
<1>2. QED
  BY <1>1, Initially, PTL DEF Spec

\* The inductive invariant.
THEOREM InvariantHolds == Spec => []IInv
<1>1. IInv /\ [Next]_vars => IInv'
  BY TypeStep, BoundedStep, RailedStep, LedgeredStep, RegistryStep, SettledStep, OwnedStep,
     CleanedStep DEF IInv
<1>2. Init => IInv
  BY Initially DEF IInv
<1>3. QED
  BY <1>1, <1>2, PTL DEF Spec

----------------------------------------------------------------------------
\* For any caps and any batches, a run stays within its rails.
THEOREM RailsHold == Spec => []CostRails
<1>1. ASSUME IInv, NEW r \in Runs
      PROVE  iters[r] <= cap[r] /\ cap[r] <= HardCap /\ calls[r] <= MaxToolCalls
  <2>1. cap[r] \in 1..HardCap
    BY <1>1 DEF IInv, TypeOK
  <2>2. QED
    BY <1>1, <2>1, CapsAssumption DEF IInv, Railed
<1>2. ASSUME IInv, NEW r \in Runs, gen[r] = "llm"
      PROVE  Len(history[r]) <= MaxHistory /\ Prompted(history[r])
  BY <1>2 DEF IInv, Bounded
<1>3. IInv => CostRails
  BY <1>1, <1>2 DEF Prompted, CostRails
<1>4. QED
  BY <1>3, InvariantHolds, PTL

\* However the generators end, the registry is left clean.
THEOREM RegistryClean == Spec => []RegistryNeverLeaks
<1>1. IInv => RegistryNeverLeaks
  BY DEF IInv
<1>2. QED
  BY <1>1, InvariantHolds, PTL

\* A stream that ended has settled its row.
THEOREM Settled == Spec => []EndedMeansSettled
<1>1. IInv => EndedMeansSettled
  BY DEF IInv
<1>2. QED
  BY <1>1, InvariantHolds, PTL

\* The lab a failed or cancelled build made last is gone.
THEOREM CleanedUp == Spec => []LastLabCleanedUp
<1>1. IInv => LastLabCleanedUp
  BY DEF IInv
<1>2. QED
  BY <1>1, InvariantHolds, PTL

\* No step spends on a cancelled run, and none calls a run cancelled on its own account.
LEMMA CancelStep == IInv /\ [Next]_vars => \A q \in Runs : HonoursCancel(q)
<1> SUFFICES ASSUME IInv, [Next]_vars PROVE \A q \in Runs : HonoursCancel(q)
  OBVIOUS
<1> /\ row \in [Runs -> {"none", "running"} \union Terminal]
    /\ reg \in [Runs -> {"absent", "clear", "set"}]
    /\ gen \in [Runs -> {"none", "created", "llm", "cleanup", "closed"} \union AtYield]
    /\ verdict \in [Runs -> {"cancelled", "error"}]
    /\ iters \in [Runs -> Nat] /\ calls \in [Runs -> Nat] /\ pending \in [Runs -> Nat]
    /\ cap \in [Runs -> 1..HardCap]
  BY DEF TypeOK, IInv
<1> USE CapsAssumption
    DEF IInv, Ledgered, RegistryNeverLeaks, HonoursCancel, Terminal, AtYield, Resume,
        FinishRun, Unregister, Cancelled, Raise, budget, labVars
<1>1. ASSUME NEW r \in Runs, Build(r) PROVE \A q \in Runs : HonoursCancel(q)
  BY <1>1 DEF Build
<1>2. ASSUME NEW r \in Runs, Begin(r) PROVE \A q \in Runs : HonoursCancel(q)
  BY <1>2 DEF Begin
<1>3. ASSUME NEW r \in Runs, NextIteration(r) PROVE \A q \in Runs : HonoursCancel(q)
  BY <1>3 DEF NextIteration
<1>4. ASSUME NEW r \in Runs, Completion(r) PROVE \A q \in Runs : HonoursCancel(q)
  BY <1>4 DEF Completion
<1>5. ASSUME NEW r \in Runs, Done(r) PROVE \A q \in Runs : HonoursCancel(q)
  BY <1>5 DEF Done
<1>6. ASSUME NEW r \in Runs, NextToolCall(r) PROVE \A q \in Runs : HonoursCancel(q)
  BY <1>6 DEF NextToolCall
<1>7. ASSUME NEW r \in Runs, Dispatch(r) PROVE \A q \in Runs : HonoursCancel(q)
  BY <1>7 DEF Dispatch, ToolReturns
<1>8. ASSUME NEW r \in Runs, CleanUp(r) PROVE \A q \in Runs : HonoursCancel(q)
  BY <1>8 DEF CleanUp
<1>9. ASSUME NEW r \in Runs, End(r) PROVE \A q \in Runs : HonoursCancel(q)
  BY <1>9 DEF End
<1>10. ASSUME NEW r \in Runs, RecordFails(r) PROVE \A q \in Runs : HonoursCancel(q)
  BY <1>10 DEF RecordFails
<1>11. ASSUME NEW r \in Runs, Cancel(r) PROVE \A q \in Runs : HonoursCancel(q)
  BY <1>11 DEF Cancel
<1>12. ASSUME NEW r \in Runs, Disconnect(r) PROVE \A q \in Runs : HonoursCancel(q)
  BY <1>12 DEF Disconnect
<1>13. ASSUME NEW r \in Runs, Close(r) PROVE \A q \in Runs : HonoursCancel(q)
  BY <1>13 DEF Close
<1>14. ASSUME NEW r \in Runs, CloseUnstarted(r) PROVE \A q \in Runs : HonoursCancel(q)
  BY <1>14 DEF CloseUnstarted
<1>15. CASE Crash
  BY <1>15 DEF Crash
<1>16. CASE UNCHANGED vars
  BY <1>16 DEF vars
<1>17. QED
  BY <1>1, <1>2, <1>3, <1>4, <1>5, <1>6, <1>7, <1>8, <1>9, <1>10, <1>11, <1>12, <1>13, <1>14, <1>15, <1>16
     DEF Next, Step

\* An accepted cancel is final, and the only source of the status cancelled.
THEOREM CancelKept == Spec => CancelMeansCancel
<1>1. IInv /\ [Next]_vars => [\A r \in Runs : HonoursCancel(r)]_vars
  BY CancelStep
<1>2. QED
  BY <1>1, InvariantHolds, PTL DEF Spec, CancelMeansCancel

\* Every step of a build is a step of the run history, or none.
LEMMA LedgerStep == IInv /\ [Next]_vars => [Ledger!LedgerNext]_<<row, iters>>
<1> SUFFICES ASSUME IInv, [Next]_vars PROVE [Ledger!LedgerNext]_<<row, iters>>
  OBVIOUS
<1> /\ row \in [Runs -> {"none", "running"} \union Terminal]
    /\ reg \in [Runs -> {"absent", "clear", "set"}]
    /\ gen \in [Runs -> {"none", "created", "llm", "cleanup", "closed"} \union AtYield]
    /\ verdict \in [Runs -> {"cancelled", "error"}]
    /\ iters \in [Runs -> Nat] /\ calls \in [Runs -> Nat] /\ pending \in [Runs -> Nat]
    /\ cap \in [Runs -> 1..HardCap]
  BY DEF TypeOK, IInv
<1> USE CapsAssumption
    DEF IInv, Ledgered, Railed, Ledger!LedgerNext, Ledger!Record, Ledger!Spend,
        Ledger!Settle, Ledger!Terminal, Terminal, AtYield, Resume, FinishRun, Unregister,
        Cancelled, Raise, budget, labVars
<1>1. ASSUME NEW r \in Runs, Build(r) PROVE [Ledger!LedgerNext]_<<row, iters>>
  BY <1>1 DEF Build
<1>2. ASSUME NEW r \in Runs, Begin(r) PROVE [Ledger!LedgerNext]_<<row, iters>>
  BY <1>2 DEF Begin
<1>3. ASSUME NEW r \in Runs, NextIteration(r) PROVE [Ledger!LedgerNext]_<<row, iters>>
  BY <1>3 DEF NextIteration
<1>4. ASSUME NEW r \in Runs, Completion(r) PROVE [Ledger!LedgerNext]_<<row, iters>>
  BY <1>4 DEF Completion
<1>5. ASSUME NEW r \in Runs, Done(r) PROVE [Ledger!LedgerNext]_<<row, iters>>
  BY <1>5 DEF Done
<1>6. ASSUME NEW r \in Runs, NextToolCall(r) PROVE [Ledger!LedgerNext]_<<row, iters>>
  BY <1>6 DEF NextToolCall
<1>7. ASSUME NEW r \in Runs, Dispatch(r) PROVE [Ledger!LedgerNext]_<<row, iters>>
  BY <1>7 DEF Dispatch, ToolReturns
<1>8. ASSUME NEW r \in Runs, CleanUp(r) PROVE [Ledger!LedgerNext]_<<row, iters>>
  BY <1>8 DEF CleanUp
<1>9. ASSUME NEW r \in Runs, End(r) PROVE [Ledger!LedgerNext]_<<row, iters>>
  BY <1>9 DEF End
<1>10. ASSUME NEW r \in Runs, RecordFails(r) PROVE [Ledger!LedgerNext]_<<row, iters>>
  BY <1>10 DEF RecordFails
<1>11. ASSUME NEW r \in Runs, Cancel(r) PROVE [Ledger!LedgerNext]_<<row, iters>>
  BY <1>11 DEF Cancel
<1>12. ASSUME NEW r \in Runs, Disconnect(r) PROVE [Ledger!LedgerNext]_<<row, iters>>
  BY <1>12 DEF Disconnect
<1>13. ASSUME NEW r \in Runs, Close(r) PROVE [Ledger!LedgerNext]_<<row, iters>>
  BY <1>13 DEF Close
<1>14. ASSUME NEW r \in Runs, CloseUnstarted(r) PROVE [Ledger!LedgerNext]_<<row, iters>>
  BY <1>14 DEF CloseUnstarted
<1>15. CASE Crash
  BY <1>15 DEF Crash
<1>16. CASE UNCHANGED vars
  BY <1>16 DEF vars
<1>17. QED
  BY <1>1, <1>2, <1>3, <1>4, <1>5, <1>6, <1>7, <1>8, <1>9, <1>10, <1>11, <1>12, <1>13, <1>14, <1>15, <1>16
     DEF Next, Step

\* The builds implement the run history.
THEOREM LedgerImplemented == Spec => ImplementsLedger
<1>1. Init => Ledger!LedgerInit
  BY DEF Init, Ledger!LedgerInit
<1>2. QED
  BY <1>1, LedgerStep, InvariantHolds, PTL DEF Spec, ImplementsLedger, Ledger!LedgerSpec
=============================================================================
