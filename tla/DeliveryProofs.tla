--------------------------- MODULE DeliveryProofs ---------------------------
(* Theorems about Delivery, for every set of events and workers and every  *)
(* number of attempts and failures.                                        *)
EXTENDS Delivery, TLAPS

\* The outbox is well typed after a row is inserted or dispatched.
LEMMA RowStep ==
    ASSUME OutboxTypeOK, NEW e \in Events, Insert(e) \/ Redeliver(e) \/ Enqueue(e)
    PROVE  /\ OutboxTypeOK'
           /\ \A f \in Events : row'[f].status = "PROCESSED" => row[f].status = "PROCESSED"
<1> USE DEF OutboxTypeOK
<1>1. CASE Insert(e)
  BY <1>1 DEF Insert, Inserted, RowStatus
<1>2. CASE Redeliver(e)
  BY <1>2 DEF Redeliver, LeaseExpired, RowStatus
<1>3. CASE Enqueue(e)
  BY <1>3 DEF Enqueue
<1>4. QED  BY <1>1, <1>2, <1>3

\* The outbox is well typed after a worker takes or drops a job, and after its failures.
LEMMA OutboxStep ==
    ASSUME OutboxTypeOK, NEW w \in Workers, NEW e \in Events,
           \/ Take(w, e) \/ Skip(w, e)
           \/ Stall(w) \/ Crash(w)
    PROVE  /\ OutboxTypeOK'
           /\ \A f \in Events : row'[f].status = "PROCESSED" => row[f].status = "PROCESSED"
<1> USE DEF OutboxTypeOK, Handled
<1>1. CASE Take(w, e)
  BY <1>1 DEF Take, Claimable, RowStatus
<1>2. CASE Skip(w, e)
  BY <1>2 DEF Skip, NoJob
<1>3. CASE Stall(w)
  BY <1>3 DEF Stall, CountFailure
<1>4. CASE Crash(w)
  <2>1. failures' \in Nat
    BY <1>4 DEF Crash, CountFailure
  <2>2. running' \in [Workers -> [event : Events \cup {Nothing}, tries : Nat]]
    BY <1>4 DEF Crash, AtRest
  <2>3. job' \in [Events -> [at : {"absent", "waiting", "failed"} \cup Workers, tries : Nat]]
    <3>1. running[w].event \in Events
      BY <1>4 DEF Crash
    <3>2. \/ job' = [job EXCEPT ![running[w].event].at = "waiting"]
          \/ job' = [job EXCEPT ![running[w].event] = GivenUp]
          \/ job' = job
      BY <1>4 DEF Crash
    <3>3. QED  BY <3>1, <3>2 DEF GivenUp, NoJob
  <2>4. row' = row
    BY <1>4 DEF Crash
  <2>5. QED  BY <2>1, <2>2, <2>3, <2>4
<1>5. QED  BY <1>1, <1>2, <1>3, <1>4

\* A worker leaves its row.
LEMMA LeaveStep ==
    ASSUME OutboxTypeOK, NEW w \in Workers, NEW status \in RowStatus,
           NEW after \in [at : {"absent", "waiting", "failed"} \cup Workers, tries : Nat],
           Leave(w, status, after), failures' \in Nat
    PROVE  /\ OutboxTypeOK'
           /\ \A f \in Events : row'[f].status = "PROCESSED" =>
                 row[f].status = "PROCESSED" \/ (f = Handled(w) /\ status = "PROCESSED")
           /\ running' = [running EXCEPT ![w] = AtRest]
<1>1. Handled(w) \in Events
  BY DEF OutboxTypeOK, Leave, Handled
<1>2. row' = [row EXCEPT ![Handled(w)].status = status]
  BY DEF Leave
<1>3. job' \in [Events -> [at : {"absent", "waiting", "failed"} \cup Workers, tries : Nat]]
  BY <1>1 DEF Leave, OutboxTypeOK
<1>4. running' = [running EXCEPT ![w] = AtRest]
  BY DEF Leave
<1>5. QED  BY <1>1, <1>2, <1>3, <1>4 DEF OutboxTypeOK, AtRest

\* The job of an event that was handled is done, its row PROCESSED.
LEMMA SucceedStep ==
    ASSUME OutboxTypeOK, NEW w \in Workers, Succeed(w)
    PROVE  /\ OutboxTypeOK'
           /\ \A f \in Events : row'[f].status = "PROCESSED" =>
                 row[f].status = "PROCESSED" \/ f = Handled(w)
           /\ running' = [running EXCEPT ![w] = AtRest]
<1>1. NoJob \in [at : {"absent", "waiting", "failed"} \cup Workers, tries : Nat] /\ "PROCESSED" \in RowStatus
  BY DEF NoJob, RowStatus
<1>2. Leave(w, "PROCESSED", NoJob) /\ failures' \in Nat
  BY DEF Succeed, OutboxTypeOK
<1>3. QED  BY <1>1, <1>2, LeaveStep

\* A failed try never marks a row PROCESSED.
LEMMA FailStep ==
    ASSUME OutboxTypeOK, NEW w \in Workers, Fail(w), failures' \in Nat
    PROVE  /\ OutboxTypeOK'
           /\ \A f \in Events : row'[f].status = "PROCESSED" => row[f].status = "PROCESSED"
           /\ running' = [running EXCEPT ![w] = AtRest]
<1> DEFINE made == running[w].tries + 1
           status == IF Handled(w) \in MarksFailed /\ made >= JobAttempts THEN "FAILED"
                     ELSE "PENDING"
           after == IF made < JobAttempts THEN [at |-> "waiting", tries |-> made] ELSE GivenUp
<1>1. made \in Nat
  BY DEF OutboxTypeOK
<1>2. after \in [at : {"absent", "waiting", "failed"} \cup Workers, tries : Nat]
  BY <1>1 DEF GivenUp, NoJob
<1>3. status \in RowStatus /\ status # "PROCESSED"
  BY DEF RowStatus
<1>4. Leave(w, status, after)
  BY DEF Fail
<1> HIDE DEF made, status, after
<1>5. QED  BY <1>2, <1>3, <1>4, LeaveStep

-----------------------------------------------------------------------------
\* A step of one worker that emits nothing new keeps the invariant: it may leave
\* its row, or set the key of an event that was not set.
LEMMA OthersKeep ==
    ASSUME IInv, TypeOK', ProcessedHasReceipt', NEW w \in Workers,
           \A v \in Workers \ {w} :
               step'[v] = step[v] /\ first'[v] = first[v] /\ running'[v] = running[v],
           marked \subseteq marked', receipts \subseteq receipts', emitted' = emitted,
           step'[w] # "rest" => running'[w].event \in Events,
           step'[w] = "finish" => running'[w].event \in receipts',
           \/ ~(step'[w] = "emit" /\ first'[w])
           \/ step'[w] = step[w] /\ first'[w] = first[w] /\ running'[w] = running[w]
           \/ running'[w].event \in marked' \ marked
    PROVE  IInv'
<1> USE DEF Handled
<1>1. HandledInv'
  BY DEF IInv, HandledInv
<1>2. ASSUME NEW e \in Events
      PROVE  emitted'[e] # 0 => e \in marked'
  BY DEF IInv, MarkInv
<1>3. ASSUME NEW e \in Events, NEW v \in Workers, AboutToEmit(v, e)'
      PROVE  /\ e \in marked' /\ emitted'[e] = 0
             /\ \A u \in Workers \ {v} : ~AboutToEmit(u, e)'
  <2>1. \A u \in Workers \ {w} : AboutToEmit(u, e)' = AboutToEmit(u, e)
    BY DEF AboutToEmit
  <2>2. AboutToEmit(w, e)' => AboutToEmit(w, e) \/ e \in marked' \ marked
    BY DEF AboutToEmit
  <2>3. \A u \in Workers : AboutToEmit(u, e) => e \in marked
    BY DEF IInv, MarkInv
  <2>4. CASE AboutToEmit(v, e)
    BY <1>3, <2>1, <2>2, <2>3, <2>4 DEF IInv, MarkInv
  <2>5. CASE ~AboutToEmit(v, e)
    BY <1>3, <2>1, <2>2, <2>3, <2>5 DEF IInv, MarkInv
  <2>6. QED  BY <2>4, <2>5
<1>4. MarkInv'
  BY <1>2, <1>3 DEF MarkInv
<1>5. QED  BY <1>1, <1>4 DEF IInv, EmittedAtMostOnce

\* A worker that leaves its row without a receipt to insert.
LEMMA LeavingKeeps ==
    ASSUME IInv, NEW w \in Workers, OutboxTypeOK', Rest(w),
           running' = [running EXCEPT ![w] = AtRest],
           \A f \in Events : row'[f].status = "PROCESSED" =>
               row[f].status = "PROCESSED" \/ f \in receipts,
           UNCHANGED <<marked, emitted, receipts>>
    PROVE  IInv'
<1>1. /\ step' = [step EXCEPT ![w] = "rest"]
      /\ first' = [first EXCEPT ![w] = FALSE]
  BY DEF Rest, Goto
<1>2. TypeOK'
  BY <1>1 DEF IInv, TypeOK
<1>3. ProcessedHasReceipt'
  BY DEF IInv, ProcessedHasReceipt
<1>4. /\ step'[w] = "rest"
      /\ \A v \in Workers \ {w} :
            step'[v] = step[v] /\ first'[v] = first[v] /\ running'[v] = running[v]
  BY <1>1 DEF IInv, TypeOK, OutboxTypeOK
<1>5. QED  BY <1>2, <1>3, <1>4, OthersKeep

\* The consumer's steps: claim, receipt, emission and completion.
LEMMA WorkStep ==
    ASSUME IInv, NEW w \in Workers, Work(w)
    PROVE  IInv'
<1> USE DEF IInv, TypeOK
<1>1. ASSUME NEW e \in Events, Claim(w, e)
      PROVE  IInv'
  <2>1. /\ step' = [step EXCEPT ![w] = "receipt"]
        /\ running' = [running EXCEPT ![w] = [event |-> e, tries |-> job[e].tries]]
        /\ UNCHANGED <<first, marked, emitted, receipts>>
    BY <1>1 DEF Claim, Take, Goto
  <2>2. OutboxTypeOK' /\ ProcessedHasReceipt'
    BY <1>1, <2>1, OutboxStep DEF Claim, ProcessedHasReceipt
  <2>3. TypeOK'
    BY <2>1, <2>2
  <2>4. step'[w] = "receipt" /\ running'[w].event = e
    BY <2>1 DEF OutboxTypeOK
  <2>5. QED  BY <2>1, <2>2, <2>3, <2>4, OthersKeep
<1>2. ASSUME NEW e \in Events, Drop(w, e)
      PROVE  IInv'
  <2>1. UNCHANGED <<running, step, first, marked, emitted, receipts>>
    BY <1>2 DEF Drop, Skip
  <2>2. OutboxTypeOK' /\ ProcessedHasReceipt'
    BY <1>2, <2>1, OutboxStep DEF Drop, ProcessedHasReceipt
  <2>3. TypeOK'
    BY <2>1, <2>2
  <2>4. QED  BY <2>1, <2>2, <2>3, OthersKeep DEF HandledInv, Handled
<1>3. CASE FindReceipt(w)
  <2>1. CASE Handled(w) \in receipts
    <3>1. Succeed(w) /\ Rest(w) /\ UNCHANGED <<marked, emitted, receipts>>
      BY <1>3, <2>1 DEF FindReceipt
    <3>2. QED  BY <2>1, <3>1, SucceedStep, LeavingKeeps DEF ProcessedHasReceipt
  <2>2. CASE Handled(w) \notin receipts
    <3>1. /\ step[w] = "receipt" /\ step' = [step EXCEPT ![w] = "mark"]
          /\ UNCHANGED <<outbox, first, marked, emitted, receipts>>
      BY <1>3, <2>2 DEF FindReceipt, Goto
    <3>2. TypeOK' /\ ProcessedHasReceipt'
      BY <3>1 DEF OutboxTypeOK, outbox, ProcessedHasReceipt
    <3>3. step'[w] = "mark" /\ running'[w].event \in Events
      BY <3>1 DEF outbox, HandledInv, Handled
    <3>4. QED  BY <3>1, <3>2, <3>3, OthersKeep DEF outbox
  <2>3. QED  BY <2>1, <2>2
<1>4. CASE Mark(w)
  <2>1. /\ step[w] = "mark" /\ step' = [step EXCEPT ![w] = "emit"]
        /\ first' = [first EXCEPT ![w] = Handled(w) \notin marked]
        /\ marked' = marked \cup {Handled(w)}
        /\ UNCHANGED <<outbox, emitted, receipts>>
    BY <1>4 DEF Mark, Goto, FirstDelivery
  <2>2. Handled(w) \in Events /\ running' = running
    BY <2>1 DEF HandledInv, outbox
  <2>3. TypeOK' /\ ProcessedHasReceipt'
    BY <2>1, <2>2 DEF OutboxTypeOK, outbox, ProcessedHasReceipt
  <2>4. /\ step'[w] = "emit" /\ running'[w].event = Handled(w)
        /\ first'[w] = (Handled(w) \notin marked)
    BY <2>1, <2>2 DEF Handled
  <2>5. QED  BY <2>1, <2>2, <2>3, <2>4, OthersKeep
<1>5. CASE Emit(w)
  <2>1. /\ step[w] = "emit" /\ step' = [step EXCEPT ![w] = "record"]
        /\ emitted' = IF first[w] THEN [emitted EXCEPT ![Handled(w)] = @ + 1] ELSE emitted
        /\ UNCHANGED <<outbox, first, marked, receipts>>
    BY <1>5 DEF Emit, Goto
  <2>2. Handled(w) \in Events /\ running' = running
    BY <2>1 DEF HandledInv, outbox
  <2>3. first[w] => Handled(w) \in marked /\ emitted[Handled(w)] = 0
    BY <2>1, <2>2 DEF MarkInv, AboutToEmit
  <2>4. TypeOK' /\ ProcessedHasReceipt'
    BY <2>1, <2>2 DEF OutboxTypeOK, outbox, ProcessedHasReceipt
  <2>5. HandledInv'
    BY <2>1, <2>2 DEF HandledInv, Handled
  <2>6. EmittedAtMostOnce'
    BY <2>1, <2>2, <2>3 DEF EmittedAtMostOnce
  <2>7. \A e \in Events : emitted'[e] # 0 => e \in marked'
    BY <2>1, <2>2, <2>3 DEF MarkInv
  <2>8. ASSUME NEW e \in Events, NEW v \in Workers, AboutToEmit(v, e)'
        PROVE  /\ e \in marked' /\ emitted'[e] = 0
               /\ \A u \in Workers \ {v} : ~AboutToEmit(u, e)'
    <3>1. v # w /\ \A u \in Workers : AboutToEmit(u, e)' => AboutToEmit(u, e)
      BY <2>1, <2>2, <2>8 DEF AboutToEmit, Handled
    <3>2. /\ e \in marked /\ emitted[e] = 0
          /\ \A u \in Workers \ {v} : ~AboutToEmit(u, e)
      BY <2>8, <3>1 DEF MarkInv
    <3>3. first[w] => Handled(w) # e
      BY <2>1, <3>1, <3>2 DEF AboutToEmit
    <3>4. emitted'[e] = 0
      BY <2>1, <2>2, <3>2, <3>3
    <3>5. QED  BY <2>1, <3>1, <3>2, <3>4
  <2>9. MarkInv'
    BY <2>7, <2>8 DEF MarkInv
  <2>10. QED  BY <2>4, <2>5, <2>6, <2>9
<1>6. CASE Record(w)
  <2>1. CASE Handled(w) \in receipts
    <3>1. Fail(w) /\ Rest(w) /\ UNCHANGED <<failures, marked, emitted, receipts>>
      BY <1>6, <2>1 DEF Record
    <3>2. failures' \in Nat
      BY <3>1 DEF OutboxTypeOK
    <3>3. QED  BY <3>1, <3>2, FailStep, LeavingKeeps
  <2>2. CASE Handled(w) \notin receipts
    <3>1. /\ step[w] = "record" /\ step' = [step EXCEPT ![w] = "finish"]
          /\ receipts' = receipts \cup {Handled(w)}
          /\ UNCHANGED <<outbox, first, marked, emitted>>
      BY <1>6, <2>2 DEF Record, Goto
    <3>2. Handled(w) \in Events /\ running' = running
      BY <3>1 DEF HandledInv, outbox
    <3>3. TypeOK' /\ ProcessedHasReceipt'
      BY <3>1, <3>2 DEF OutboxTypeOK, outbox, ProcessedHasReceipt
    <3>4. step'[w] = "finish" /\ running'[w].event = Handled(w)
      BY <3>1, <3>2 DEF Handled
    <3>5. QED  BY <3>1, <3>2, <3>3, <3>4, OthersKeep
  <2>3. QED  BY <2>1, <2>2
<1>7. CASE Finish(w)
  <2>1. Handled(w) \in receipts
    BY <1>7 DEF Finish, HandledInv
  <2>2. Succeed(w) /\ Rest(w) /\ UNCHANGED <<marked, emitted, receipts>>
    BY <1>7 DEF Finish
  <2>3. QED  BY <2>1, <2>2, SucceedStep, LeavingKeeps
<1>8. QED  BY <1>1, <1>2, <1>3, <1>4, <1>5, <1>6, <1>7 DEF Work

\* Neither an error nor a crash nor a stall emits.
LEMMA TroubleStep ==
    ASSUME IInv, NEW w \in Workers, Trouble(w)
    PROVE  IInv'
<1> USE DEF IInv, TypeOK
<1>1. UNCHANGED <<marked, emitted, receipts>>
  BY DEF Trouble
<1>2. CASE Error(w) /\ Rest(w)
  <2>1. Fail(w) /\ failures' \in Nat
    BY <1>2 DEF Error, CountFailure, OutboxTypeOK
  <2>2. QED  BY <1>1, <1>2, <2>1, FailStep, LeavingKeeps
<1>3. CASE Crash(w) /\ Rest(w)
  <2>1. Handled(w) \in Events /\ running' = [running EXCEPT ![w] = AtRest]
    BY <1>3 DEF Crash, Handled, OutboxTypeOK
  <2>2. QED  BY <1>1, <1>3, <2>1, OutboxStep, LeavingKeeps
<1>4. CASE Stall(w) /\ UNCHANGED <<step, first>>
  <2>1. Handled(w) \in Events /\ running' = running
    BY <1>4 DEF Stall, Handled, OutboxTypeOK
  <2>2. OutboxTypeOK' /\ ProcessedHasReceipt'
    BY <1>1, <1>4, <2>1, OutboxStep DEF ProcessedHasReceipt
  <2>3. TypeOK'
    BY <1>1, <1>4, <2>2
  <2>4. QED  BY <1>1, <1>4, <2>1, <2>2, <2>3, OthersKeep DEF HandledInv, Handled
<1>5. QED  BY <1>2, <1>3, <1>4 DEF Trouble

\* A row appears or is dispatched.
LEMMA TableStep ==
    ASSUME IInv, NEW e \in Events, Publish(e) \/ Dispatch(e)
    PROVE  IInv'
<1>1. UNCHANGED <<running, step, first, marked, emitted, receipts>>
  BY DEF Publish, Dispatch, Insert, Redeliver, Enqueue
<1>2. OutboxTypeOK' /\ \A f \in Events : row'[f].status = "PROCESSED" => row[f].status = "PROCESSED"
  BY RowStep DEF Publish, Dispatch, IInv, TypeOK
<1>3. TypeOK' /\ ProcessedHasReceipt'
  BY <1>1, <1>2 DEF IInv, TypeOK, ProcessedHasReceipt
<1>4. HandledInv'
  BY <1>1 DEF IInv, HandledInv, Handled
<1>5. MarkInv'
  BY <1>1 DEF IInv, MarkInv, AboutToEmit, Handled
<1>6. QED  BY <1>1, <1>3, <1>4, <1>5 DEF IInv, EmittedAtMostOnce

-----------------------------------------------------------------------------
\* The invariant holds in every reachable state.
THEOREM Invariant == Spec => []IInv
<1>1. Init => IInv
  BY BoundsAssumption
     DEF Init, OutboxInit, NoRow, NoJob, AtRest, IInv, TypeOK, OutboxTypeOK, RowStatus,
         HandledInv, Handled, MarkInv, AboutToEmit, EmittedAtMostOnce, ProcessedHasReceipt
<1>2. IInv /\ UNCHANGED vars => IInv'
  BY DEF vars, outbox, IInv, TypeOK, OutboxTypeOK, HandledInv, Handled, MarkInv, AboutToEmit,
         EmittedAtMostOnce, ProcessedHasReceipt
<1>3. IInv /\ [Next]_vars => IInv'
  BY <1>2, WorkStep, TroubleStep, TableStep DEF Next
<1>4. QED  BY <1>1, <1>3, PTL DEF Spec

\* Every reachable state is well typed.
THEOREM TypeCorrect == Spec => []TypeOK
BY Invariant, PTL DEF IInv

\* No event is sent to the clients twice, whatever crashes, errors, stalls and
\* redeliveries happen and however many workers handle it at once.
THEOREM AtMostOnce == Spec => []EmittedAtMostOnce
BY Invariant, PTL DEF IInv

\* A PROCESSED row has a receipt.
THEOREM ReceiptFirst == Spec => []ProcessedHasReceipt
BY Invariant, PTL DEF IInv
=============================================================================
