---------------------------- MODULE ApplyRunProofs ----------------------------
(***************************************************************************)
(* Proofs about ApplyRun for every plan length, every concurrency and every *)
(* set of provider answers: the inductive invariant IInv, the properties    *)
(* the runs check, and the step simulation of BatchSpec.                    *)
(***************************************************************************)
EXTENDS ApplyRun, FiniteSetTheorems, TLAPS

-------------------------------------------------------------------------------
(* How the sets of workers change when one worker moves. *)

\* Any set of workers selected by their state is finite and no larger than
\* the plan.
LEMMA InStateFinite ==
  ASSUME NEW S
  PROVE  /\ IsFiniteSet(InState(S))
         /\ Cardinality(InState(S)) \in Nat
         /\ Cardinality(InState(S)) <= NumItems
<1>1. IsFiniteSet(Item) /\ Cardinality(Item) = NumItems
  BY FS_Interval, PoolAssumption DEF Item
<1>2. InState(S) \in SUBSET Item
  BY DEF InState
<1>3. IsFiniteSet(InState(S)) /\ Cardinality(InState(S)) <= NumItems
  BY <1>1, <1>2, FS_Subset
<1> QED
  BY <1>3, FS_CardinalityType

\* Moving worker i to state b adds it to, or drops it from, a set of workers
\* selected by state, and the count follows.
LEMMA InStateMoves ==
  ASSUME worker \in [Item -> WorkerState],
         NEW i \in Item, NEW b, NEW S,
         worker' = [worker EXCEPT ![i] = b]
  PROVE  /\ InState(S)' = IF b \in S THEN InState(S) \cup {i}
                                     ELSE InState(S) \ {i}
         /\ Cardinality(InState(S)') =
              IF b \in S
                THEN IF worker[i] \in S THEN Cardinality(InState(S))
                                        ELSE Cardinality(InState(S)) + 1
                ELSE IF worker[i] \in S THEN Cardinality(InState(S)) - 1
                                        ELSE Cardinality(InState(S))
         /\ Cardinality(InState(S)') \in 0..NumItems
<1>1. InState(S)' = IF b \in S THEN InState(S) \cup {i} ELSE InState(S) \ {i}
  BY DEF InState
<1>2. i \in InState(S) <=> worker[i] \in S
  BY DEF InState
<1>3. IsFiniteSet(InState(S))
  BY InStateFinite
<1>4. /\ Cardinality(InState(S) \cup {i}) =
           IF i \in InState(S) THEN Cardinality(InState(S))
                               ELSE Cardinality(InState(S)) + 1
      /\ Cardinality(InState(S) \ {i}) =
           IF i \in InState(S) THEN Cardinality(InState(S)) - 1
                               ELSE Cardinality(InState(S))
  BY <1>3, FS_AddElement, FS_RemoveElement
<1>5. Cardinality(InState(S)') =
        IF b \in S THEN Cardinality(InState(S) \cup {i})
                   ELSE Cardinality(InState(S) \ {i})
  BY <1>1
<1>6. Cardinality(InState(S)') \in 0..NumItems
  <2>1. IsFiniteSet(Item) /\ Cardinality(Item) = NumItems
    BY FS_Interval, PoolAssumption DEF Item
  <2>2. InState(S)' \in SUBSET Item
    BY DEF InState
  <2> QED
    BY <2>1, <2>2, FS_Subset, FS_CardinalityType, PoolAssumption
<1> QED
  BY <1>1, <1>2, <1>4, <1>5, <1>6

\* What a move of worker i from one state to the next does to the four counts
\* the invariant speaks of.
LEMMA MoveCounts ==
  ASSUME worker \in [Item -> WorkerState],
         NEW i \in Item, NEW b \in WorkerState,
         worker' = [worker EXCEPT ![i] = b]
  PROVE  /\ CASE worker[i] = "none" /\ b = "calling" ->
                   /\ Cardinality(Holding)' = Cardinality(Holding) + 1
                   /\ Cardinality(Live)' = Cardinality(Live) + 1
                   /\ Counted' = Counted
                   /\ Recorded' = Recorded
              [] worker[i] = "calling" /\ b = "counted" ->
                   /\ Holding' = Holding
                   /\ Live' = Live
                   /\ Cardinality(Counted)' = Cardinality(Counted) + 1
                   /\ Recorded' = Recorded
              [] worker[i] = "counted" /\ b = "recorded" ->
                   /\ Holding' = Holding
                   /\ Live' = Live
                   /\ Counted' = Counted
                   /\ i \notin Recorded
                   /\ Recorded' = Recorded \cup {i}
                   /\ Cardinality(Recorded)' = Cardinality(Recorded) + 1
              [] worker[i] = "recorded" /\ b = "released" ->
                   /\ Cardinality(Holding)' = Cardinality(Holding) - 1
                   /\ Live' = Live
                   /\ Counted' = Counted
                   /\ Recorded' = Recorded
              [] worker[i] = "released" /\ b = "done" ->
                   /\ Holding' = Holding
                   /\ Cardinality(Live)' = Cardinality(Live) - 1
                   /\ Counted' = Counted
                   /\ Recorded' = Recorded
              [] OTHER -> TRUE
         /\ Cardinality(Holding)' \in 0..NumItems
         /\ Cardinality(Live)' \in 0..NumItems
         /\ Cardinality(Counted)' \in 0..NumItems
         /\ Cardinality(Recorded)' \in 0..NumItems
<1> DEFINE H == {"calling", "counted", "recorded"}
           L == {"calling", "counted", "recorded", "released"}
           C == {"counted", "recorded", "released", "done"}
           R == {"recorded", "released", "done"}
<1>1. /\ Holding = InState(H) /\ Holding' = InState(H)'
      /\ Live = InState(L) /\ Live' = InState(L)'
      /\ Counted = InState(C) /\ Counted' = InState(C)'
      /\ Recorded = InState(R) /\ Recorded' = InState(R)'
  BY DEF Holding, Live, Counted, Recorded
<1>2. \A S : /\ worker[i] \notin S /\ b \in S =>
                  /\ i \notin InState(S)
                  /\ InState(S)' = InState(S) \cup {i}
                  /\ Cardinality(InState(S)') = Cardinality(InState(S)) + 1
             /\ worker[i] \in S /\ b \notin S =>
                  Cardinality(InState(S)') = Cardinality(InState(S)) - 1
             /\ (worker[i] \in S <=> b \in S) => InState(S)' = InState(S)
             /\ Cardinality(InState(S)') \in 0..NumItems
  <2> TAKE S
  <2>1. /\ InState(S)' = IF b \in S THEN InState(S) \cup {i}
                                     ELSE InState(S) \ {i}
        /\ Cardinality(InState(S)') =
              IF b \in S
                THEN IF worker[i] \in S THEN Cardinality(InState(S))
                                        ELSE Cardinality(InState(S)) + 1
                ELSE IF worker[i] \in S THEN Cardinality(InState(S)) - 1
                                        ELSE Cardinality(InState(S))
        /\ Cardinality(InState(S)') \in 0..NumItems
    BY InStateMoves
  <2>2. i \in InState(S) <=> worker[i] \in S
    BY DEF InState
  <2> QED
    BY <2>1, <2>2
<1>3. /\ Cardinality(InState(H)') \in 0..NumItems
      /\ Cardinality(InState(L)') \in 0..NumItems
      /\ Cardinality(InState(C)') \in 0..NumItems
      /\ Cardinality(InState(R)') \in 0..NumItems
  BY <1>2
<1>4. CASE worker[i] = "none" /\ b = "calling"
  BY <1>1, <1>2, <1>3, <1>4
<1>5. CASE worker[i] = "calling" /\ b = "counted"
  BY <1>1, <1>2, <1>3, <1>5
<1>6. CASE worker[i] = "counted" /\ b = "recorded"
  BY <1>1, <1>2, <1>3, <1>6
<1>7. CASE worker[i] = "recorded" /\ b = "released"
  BY <1>1, <1>2, <1>3, <1>7
<1>8. CASE worker[i] = "released" /\ b = "done"
  BY <1>1, <1>2, <1>3, <1>8
<1> QED
  BY <1>1, <1>3, <1>4, <1>5, <1>6, <1>7, <1>8

-------------------------------------------------------------------------------
(* The invariant holds at the start and is kept by every action. *)

LEMMA InitEstablishes == Init => IInv
<1> SUFFICES ASSUME Init PROVE IInv
  OBVIOUS
<1>1. \A S : "none" \notin S => InState(S) = {}
  BY DEF Init, InState
<1>2. Holding = {} /\ Live = {} /\ Counted = {} /\ Recorded = {}
  BY <1>1 DEF Holding, Live, Counted, Recorded
<1>3. Cardinality({}) = 0
  BY FS_EmptySet
<1>4. results = <<>> /\ Len(results) = 0 /\ 1..Len(results) = {}
  BY DEF Init
<1>5. TypeOK
  <2>1. results \in Seq(Result)
    BY <1>4
  <2>2. worker \in [Item -> WorkerState]
    BY DEF Init, WorkerState
  <2>3. outcome \in [Item -> Outcome \cup {NoOutcome}]
    BY DEF Init
  <2>4. report \in [succeeded : Nat, failed : Nat, items : Nat]
    BY DEF Init, NoReport
  <2>5. cancelled \in BOOLEAN
    BY DEF Init
  <2>6. /\ pc \in {"dispatch", "wait", "returned"}
        /\ next \in 1..(NumItems + 1)
        /\ sem \in 0..Concurrency
        /\ wg \in 0..NumItems
        /\ completed \in 0..NumItems
        /\ succeeded \in Nat
        /\ failed \in Nat
    BY PoolAssumption DEF Init
  <2> QED
    BY <2>1, <2>2, <2>3, <2>4, <2>5, <2>6 DEF TypeOK
<1>6. CountersTrue
  BY <1>2, <1>3, <1>4 DEF Init, CountersTrue
<1>7. ResultsMatch
  BY <1>2, <1>4 DEF ResultsMatch
<1>8. TalliesMatch
  <2>1. /\ {k \in 1..Len(results) : results[k].error} = {}
        /\ {k \in 1..Len(results) : ~results[k].error} = {}
    BY <1>4
  <2> QED
    BY <2>1, <1>3 DEF TalliesMatch, Init
<1>9. Frontier /\ Answered /\ LoopLeft /\ ReportIsFinal
  BY <1>2 DEF Init, Frontier, Answered, LoopLeft, ReportIsFinal, Item
<1> QED
  BY <1>5, <1>6, <1>7, <1>8, <1>9 DEF IInv

LEMMA DispatchPreserves == IInv /\ Dispatch => IInv'
<1> SUFFICES ASSUME IInv, Dispatch PROVE IInv'
  OBVIOUS
<1> USE DEF IInv
<1>1. /\ next \in Item /\ worker[next] = "none" /\ pc = "dispatch"
      /\ worker' = [worker EXCEPT ![next] = "calling"]
  BY DEF Dispatch, TypeOK, Frontier, Item
<1>2. worker \in [Item -> WorkerState]
  BY DEF TypeOK
<1>3. /\ Cardinality(Holding)' = Cardinality(Holding) + 1
      /\ Cardinality(Live)' = Cardinality(Live) + 1
      /\ Counted' = Counted
      /\ Recorded' = Recorded
      /\ Cardinality(Live)' \in 0..NumItems
  BY <1>1, <1>2, MoveCounts DEF WorkerState
<1>5. /\ sem' = sem + 1 /\ wg' = wg + 1 /\ next' = next + 1
      /\ UNCHANGED <<pc, cancelled, outcome, completed, succeeded, failed,
                     results, report>>
  BY DEF Dispatch
<1>6. CountersTrue'
  BY <1>3, <1>5 DEF CountersTrue
<1>8. TypeOK'
  <2>1. worker' \in [Item -> WorkerState]
    BY <1>1, <1>2 DEF WorkerState
  <2>2. next' \in 1..(NumItems + 1)
    BY <1>1, <1>5, PoolAssumption DEF Item
  <2>3. sem' \in 0..Concurrency
    BY <1>5, PoolAssumption DEF TypeOK, Dispatch
  <2>4. wg' \in 0..NumItems
    BY <1>3, <1>6 DEF CountersTrue
  <2> QED
    BY <2>1, <2>2, <2>3, <2>4, <1>5 DEF TypeOK
<1>9. Frontier'
  BY <1>1, <1>2, <1>5 DEF Frontier, TypeOK, Item
<1>10. ResultsMatch'
  BY <1>3, <1>5 DEF ResultsMatch, ResultOf, Reason
<1>11. TalliesMatch'
  BY <1>5 DEF TalliesMatch
<1>12. LoopLeft' /\ ReportIsFinal'
  BY <1>1, <1>5 DEF LoopLeft, ReportIsFinal
<1>13. Answered'
  BY <1>3, <1>5 DEF Answered
<1> QED
  BY <1>6, <1>8, <1>9, <1>10, <1>11, <1>12, <1>13

\* The main goroutine's other steps and the signal touch no worker.
LEMMA MainPreserves ==
  IInv /\ (Abort \/ EndLoop \/ Cancel \/ UNCHANGED poolVars) => IInv'
<1> SUFFICES ASSUME IInv, Abort \/ EndLoop \/ Cancel \/ UNCHANGED poolVars
             PROVE  IInv'
  OBVIOUS
<1>1. UNCHANGED <<next, sem, wg, worker, outcome, completed, succeeded,
                  failed, results, report>>
  BY DEF Abort, EndLoop, Cancel, poolVars
<1>2. /\ Holding' = Holding /\ Live' = Live
      /\ Counted' = Counted /\ Recorded' = Recorded
  BY <1>1 DEF Holding, Live, Counted, Recorded, InState
<1>3. /\ pc' \in {"dispatch", "wait", "returned"}
      /\ pc' = "returned" => pc = "returned"
      /\ cancelled' \in BOOLEAN
      /\ cancelled => cancelled'
  BY DEF IInv, TypeOK, Abort, EndLoop, Cancel, poolVars
<1>4. TypeOK'
  BY <1>1, <1>3 DEF IInv, TypeOK
<1>5. Frontier' /\ Answered' /\ CountersTrue'
  BY <1>1, <1>2 DEF IInv, Frontier, Answered, CountersTrue
<1>6. ResultsMatch'
  BY <1>1, <1>2 DEF IInv, ResultsMatch, ResultOf, Reason
<1>7. TalliesMatch'
  BY <1>1 DEF IInv, TalliesMatch
<1>8. LoopLeft'
  <2>1. next > NumItems => next = NumItems + 1
    BY PoolAssumption DEF IInv, TypeOK
  <2> QED
    BY <2>1, <1>1, <1>3 DEF IInv, LoopLeft, Abort, EndLoop, Cancel, poolVars
<1>9. ReportIsFinal'
  BY <1>1, <1>2, <1>3 DEF IInv, ReportIsFinal
<1> QED
  BY <1>4, <1>5, <1>6, <1>7, <1>8, <1>9 DEF IInv

\* With the wait group at zero no worker is alive, so the started items, the
\* results and the tallies coincide: what is reported is final.
LEMMA ReportPreserves == IInv /\ Report => IInv'
<1> SUFFICES ASSUME IInv, Report PROVE IInv'
  OBVIOUS
<1>1. /\ UNCHANGED <<next, cancelled, sem, wg, worker, outcome, completed,
                     succeeded, failed, results>>
      /\ pc = "wait" /\ pc' = "returned" /\ wg = 0
      /\ report' = [succeeded |-> succeeded, failed |-> failed,
                    items |-> Len(results)]
  BY DEF Report
<1>2. /\ Holding' = Holding /\ Live' = Live
      /\ Counted' = Counted /\ Recorded' = Recorded
  BY <1>1 DEF Holding, Live, Counted, Recorded, InState
<1>3. Len(results) \in Nat
  BY DEF IInv, TypeOK
<1>4. TypeOK'
  BY <1>1, <1>3 DEF IInv, TypeOK
<1>5. Live = {}
  <2>1. IsFiniteSet(Live) /\ Cardinality(Live) = 0
    BY <1>1, InStateFinite DEF IInv, CountersTrue, Live
  <2> QED
    BY <2>1, FS_EmptySet
<1>6. Recorded = 1..(next - 1)
  <2>1. \A i \in Item : worker[i] \in WorkerState
    BY DEF IInv, TypeOK
  <2>2. \A i \in Item : i \in Recorded <=> worker[i] # "none"
    BY <1>5, <2>1 DEF Live, Recorded, InState, WorkerState
  <2>3. \A i \in Item : i \in Recorded <=> ~(i >= next)
    BY <2>2 DEF IInv, Frontier
  <2>4. Recorded \subseteq Item /\ next \in 1..(NumItems + 1)
    BY DEF Recorded, InState, IInv, TypeOK
  <2>5. ASSUME NEW j \in Recorded PROVE j \in 1..(next - 1)
    BY <2>3, <2>4, PoolAssumption DEF Item
  <2>6. ASSUME NEW j \in 1..(next - 1) PROVE j \in Recorded
    <3>1. j \in Item /\ ~(j >= next)
      BY <2>4, PoolAssumption DEF Item
    <3> QED
      BY <3>1, <2>3
  <2> QED
    BY <2>5, <2>6
<1>7. Len(results) = next - 1
  <2>1. next - 1 \in Nat
    BY PoolAssumption DEF IInv, TypeOK
  <2>2. Cardinality(1..(next - 1)) = next - 1
    BY <2>1, FS_Interval
  <2> QED
    BY <2>2, <1>6 DEF IInv, CountersTrue
<1>8. ReportIsFinal'
  BY <1>1, <1>2, <1>5, <1>6, <1>7 DEF IInv, ReportIsFinal, LoopLeft
<1>9. Frontier' /\ Answered' /\ CountersTrue' /\ LoopLeft'
  BY <1>1, <1>2 DEF IInv, Frontier, Answered, CountersTrue, LoopLeft
<1>10. ResultsMatch' /\ TalliesMatch'
  BY <1>1, <1>2 DEF IInv, ResultsMatch, TalliesMatch, ResultOf, Reason
<1> QED
  BY <1>4, <1>8, <1>9, <1>10 DEF IInv

LEMMA ReturnPreserves ==
  ASSUME IInv, NEW i \in Item, NEW o \in Outcome, Return(i, o)
  PROVE  IInv'
<1>1. /\ worker[i] = "calling"
      /\ worker' = [worker EXCEPT ![i] = "counted"]
      /\ outcome' = [outcome EXCEPT ![i] = o]
      /\ completed' = completed + 1
      /\ UNCHANGED <<pc, next, cancelled, sem, wg, succeeded, failed,
                     results, report>>
  BY DEF Return
<1>2. worker \in [Item -> WorkerState]
      /\ outcome \in [Item -> Outcome \cup {NoOutcome}]
  BY DEF IInv, TypeOK
<1>3. /\ Holding' = Holding
      /\ Live' = Live
      /\ Cardinality(Counted)' = Cardinality(Counted) + 1
      /\ Recorded' = Recorded
      /\ Cardinality(Counted)' \in 0..NumItems
  BY <1>1, <1>2, MoveCounts DEF WorkerState
<1>4. CountersTrue'
  BY <1>1, <1>3 DEF IInv, CountersTrue
<1>5. TypeOK'
  <2>1. worker' \in [Item -> WorkerState]
    BY <1>1, <1>2 DEF WorkerState
  <2>2. outcome' \in [Item -> Outcome \cup {NoOutcome}]
    BY <1>1, <1>2
  <2>3. completed' \in 0..NumItems
    BY <1>3, <1>4 DEF CountersTrue
  <2> QED
    BY <2>1, <2>2, <2>3, <1>1 DEF IInv, TypeOK
<1>6. Frontier'
  BY <1>1, <1>2 DEF IInv, Frontier
<1>7. Answered'
  BY <1>1, <1>2 DEF IInv, Answered, Counted, InState
<1>8. ResultsMatch'
  <2>1. i \notin Recorded
    BY <1>1 DEF Recorded, InState
  <2>2. \A k \in 1..Len(results) : results[k].item # i
    BY <2>1 DEF IInv, ResultsMatch
  <2>4. \A j \in Item \ {i} : outcome'[j] = outcome[j]
    BY <1>1, <1>2
  <2>5. \A k \in 1..Len(results) : results[k].item \in Item
    BY DEF IInv, ResultsMatch, Recorded, InState
  <2>6. \A k \in 1..Len(results) :
           outcome'[results[k].item] = outcome[results[k].item]
    BY <2>2, <2>4, <2>5
  <2> QED
    BY <2>6, <1>1, <1>3 DEF IInv, ResultsMatch, ResultOf, Reason
<1>9. TalliesMatch'
  BY <1>1 DEF IInv, TalliesMatch
<1>10. LoopLeft' /\ ReportIsFinal'
  BY <1>1, <1>3 DEF IInv, LoopLeft, ReportIsFinal
<1> QED
  BY <1>4, <1>5, <1>6, <1>7, <1>8, <1>9, <1>10 DEF IInv

\* The critical section: the new entry is for a worker that had none, so the
\* list stays one-to-one with the recorded workers and the tallies follow.
LEMMA RecordPreserves ==
  ASSUME IInv, NEW i \in Item, Record(i)
  PROVE  IInv'
<1> DEFINE entry == ResultOf(i)
           n == Len(results)
<1>1. /\ worker[i] = "counted"
      /\ worker' = [worker EXCEPT ![i] = "recorded"]
      /\ results' = Append(results, entry)
      /\ UNCHANGED <<pc, next, cancelled, sem, wg, outcome, completed, report>>
  BY DEF Record
<1>2. worker \in [Item -> WorkerState]
      /\ results \in Seq(Result) /\ n \in Nat
  BY DEF IInv, TypeOK
<1>3. /\ Holding' = Holding
      /\ Live' = Live
      /\ Counted' = Counted
      /\ i \notin Recorded
      /\ Recorded' = Recorded \cup {i}
      /\ Cardinality(Recorded)' = Cardinality(Recorded) + 1
  BY <1>1, <1>2, MoveCounts DEF WorkerState
<1>4. outcome[i] \in Outcome
  BY <1>1 DEF IInv, Answered, Counted, InState
<1>5. entry \in Result
  BY <1>4, OutcomeAssumption DEF Result, ResultOf
<1>6. /\ results' \in Seq(Result)
      /\ Len(results') = n + 1
      /\ \A k \in 1..n : results'[k] = results[k]
      /\ results'[n + 1] = entry
  BY <1>1, <1>2, <1>5
<1>7. entry.item = i /\ entry.error = outcome[i].error
  BY DEF ResultOf
<1>8. TypeOK'
  <2>1. worker' \in [Item -> WorkerState]
    BY <1>1, <1>2 DEF WorkerState
  <2>2. failed' \in Nat /\ succeeded' \in Nat
    BY DEF Record, IInv, TypeOK
  <2> QED
    BY <2>1, <2>2, <1>1, <1>6 DEF IInv, TypeOK
<1>9. Frontier' /\ Answered' /\ LoopLeft'
  BY <1>1, <1>2, <1>3 DEF IInv, Frontier, Answered, LoopLeft
<1>10. CountersTrue'
  BY <1>1, <1>3, <1>6 DEF IInv, CountersTrue
<1>11. ResultsMatch'
  <2>1. \A k \in 1..n : results[k].item \in Recorded /\ results[k].item # i
    BY <1>3 DEF IInv, ResultsMatch
  <2>2. \A j, k \in 1..(n + 1) :
           results'[j].item = results'[k].item => j = k
    <3>1. \A k \in 1..(n + 1) : k \in 1..n \/ k = n + 1
      BY <1>2
    <3>2. \A j, k \in 1..n : results'[j].item = results'[k].item => j = k
      BY <1>6 DEF IInv, ResultsMatch
    <3> QED
      BY <3>1, <3>2, <2>1, <1>6, <1>7
  <2>3. {results'[k].item : k \in 1..(n + 1)} = Recorded \cup {i}
    <3>1. {results[k].item : k \in 1..n} = Recorded
      BY DEF IInv, ResultsMatch
    <3>2. 1..(n + 1) = 1..n \cup {n + 1}
      BY <1>2
    <3> QED
      BY <3>1, <3>2, <1>6, <1>7
  <2>4. \A j : ResultOf(j)' = ResultOf(j)
    BY <1>1 DEF ResultOf, Reason
  <2>5. \A k \in 1..(n + 1) : results'[k] = ResultOf(results'[k].item)
    <3>1. \A k \in 1..n : results'[k] = ResultOf(results'[k].item)
      BY <1>6 DEF IInv, ResultsMatch
    <3>2. results'[n + 1] = ResultOf(results'[n + 1].item)
      BY <1>6, <1>7
    <3>3. \A k \in 1..(n + 1) : k \in 1..n \/ k = n + 1
      BY <1>2
    <3> QED
      BY <3>1, <3>2, <3>3
  <2> QED
    BY <2>2, <2>3, <2>4, <2>5, <1>3, <1>6 DEF ResultsMatch
<1>12. TalliesMatch'
  <2> DEFINE F == {k \in 1..n : results[k].error}
             G == {k \in 1..n : ~results[k].error}
  <2>1. /\ IsFiniteSet(F) /\ IsFiniteSet(G)
        /\ n + 1 \notin F /\ n + 1 \notin G
    <3>1. IsFiniteSet(1..n) /\ n + 1 \notin 1..n
      BY <1>2, FS_Interval
    <3>2. F \in SUBSET (1..n) /\ G \in SUBSET (1..n)
      OBVIOUS
    <3> QED
      BY <3>1, <3>2, FS_Subset
  <2>2. failed = Cardinality(F) /\ succeeded = Cardinality(G)
    BY DEF IInv, TalliesMatch
  <2>3. 1..(n + 1) = 1..n \cup {n + 1}
    BY <1>2
  <2>4. CASE outcome[i].error
    <3>1. /\ {k \in 1..(n + 1) : results'[k].error} = F \cup {n + 1}
          /\ {k \in 1..(n + 1) : ~results'[k].error} = G
      BY <2>3, <2>4, <1>6, <1>7
    <3>2. failed' = failed + 1 /\ succeeded' = succeeded
      BY <2>4 DEF Record
    <3>3. Cardinality(F \cup {n + 1}) = Cardinality(F) + 1
      BY <2>1, FS_AddElement
    <3> QED
      BY <3>1, <3>2, <3>3, <2>2, <1>6 DEF TalliesMatch
  <2>5. CASE ~outcome[i].error
    <3>1. /\ {k \in 1..(n + 1) : results'[k].error} = F
          /\ {k \in 1..(n + 1) : ~results'[k].error} = G \cup {n + 1}
      BY <2>3, <2>5, <1>6, <1>7
    <3>2. failed' = failed /\ succeeded' = succeeded + 1
      BY <2>5 DEF Record
    <3>3. Cardinality(G \cup {n + 1}) = Cardinality(G) + 1
      BY <2>1, FS_AddElement
    <3> QED
      BY <3>1, <3>2, <3>3, <2>2, <1>6 DEF TalliesMatch
  <2> QED
    BY <2>4, <2>5
<1>13. ReportIsFinal'
  <2>1. i \in Live
    BY <1>1 DEF Live, InState
  <2>2. pc # "returned"
    BY <2>1 DEF IInv, ReportIsFinal
  <2> QED
    BY <2>2, <1>1 DEF ReportIsFinal
<1> QED
  BY <1>8, <1>9, <1>10, <1>11, <1>12, <1>13 DEF IInv

\* A worker leaving its slot or the wait group.  The slot count cannot fall
\* below zero: the worker that gives one back is counted in it.
LEMMA LeavePreserves ==
  ASSUME IInv, NEW i \in Item, Release(i) \/ Done(i)
  PROVE  IInv'
<1>1. /\ \/ /\ worker[i] = "recorded"
            /\ worker' = [worker EXCEPT ![i] = "released"]
            /\ sem' = sem - 1 /\ wg' = wg
         \/ /\ worker[i] = "released"
            /\ worker' = [worker EXCEPT ![i] = "done"]
            /\ sem' = sem /\ wg' = wg - 1
      /\ UNCHANGED <<pc, next, cancelled, outcome, completed, succeeded,
                     failed, results, report>>
  BY DEF Release, Done
<1>2. worker \in [Item -> WorkerState]
  BY DEF IInv, TypeOK
<1>3. /\ \/ /\ worker[i] = "recorded"
            /\ Cardinality(Holding)' = Cardinality(Holding) - 1
            /\ Live' = Live
         \/ /\ worker[i] = "released"
            /\ Holding' = Holding
            /\ Cardinality(Live)' = Cardinality(Live) - 1
      /\ Counted' = Counted
      /\ Recorded' = Recorded
      /\ Cardinality(Holding)' \in 0..NumItems
      /\ Cardinality(Live)' \in 0..NumItems
  <2>1. CASE worker[i] = "recorded"
    BY <2>1, <1>1, <1>2, MoveCounts DEF WorkerState
  <2>2. CASE worker[i] = "released"
    BY <2>2, <1>1, <1>2, MoveCounts DEF WorkerState
  <2> QED
    BY <1>1, <2>1, <2>2
<1>4. CountersTrue'
  BY <1>1, <1>3 DEF IInv, CountersTrue
<1>5. TypeOK'
  <2>1. worker' \in [Item -> WorkerState]
    BY <1>1, <1>2 DEF WorkerState
  <2>2. sem' \in 0..Concurrency
    <3>1. sem \in 0..Concurrency /\ (sem' = sem - 1 \/ sem' = sem)
      BY <1>1 DEF IInv, TypeOK
    <3>2. sem' \in 0..NumItems
      BY <1>3, <1>4 DEF CountersTrue
    <3> QED
      BY <3>1, <3>2, PoolAssumption
  <2>3. wg' \in 0..NumItems
    BY <1>3, <1>4 DEF CountersTrue
  <2> QED
    BY <2>1, <2>2, <2>3, <1>1 DEF IInv, TypeOK
<1>6. Frontier' /\ Answered' /\ LoopLeft'
  BY <1>1, <1>2, <1>3 DEF IInv, Frontier, Answered, LoopLeft
<1>7. ResultsMatch' /\ TalliesMatch'
  BY <1>1, <1>3 DEF IInv, ResultsMatch, TalliesMatch, ResultOf, Reason
<1>8. ReportIsFinal'
  <2>1. i \in Live
    BY <1>1 DEF Live, InState
  <2>2. pc # "returned"
    BY <2>1 DEF IInv, ReportIsFinal
  <2> QED
    BY <2>2, <1>1 DEF ReportIsFinal
<1> QED
  BY <1>4, <1>5, <1>6, <1>7, <1>8 DEF IInv

LEMMA NextPreserves == IInv /\ [Next]_poolVars => IInv'
<1> SUFFICES ASSUME IInv, [Next]_poolVars PROVE IInv'
  OBVIOUS
<1>1. CASE Dispatch
  BY <1>1, DispatchPreserves
<1>2. CASE Abort \/ EndLoop \/ Cancel \/ UNCHANGED poolVars
  BY <1>2, MainPreserves
<1>3. CASE Report
  BY <1>3, ReportPreserves
<1>4. ASSUME NEW i \in Item, Call(i) \/ Tally(i) PROVE IInv'
  <2>1. CASE Call(i)
    BY <2>1, ReturnPreserves DEF Call
  <2>2. CASE Record(i)
    BY <2>2, RecordPreserves
  <2>3. CASE Release(i) \/ Done(i)
    BY <2>3, LeavePreserves
  <2> QED
    BY <1>4, <2>1, <2>2, <2>3 DEF Tally
<1> QED
  BY <1>1, <1>2, <1>3, <1>4 DEF Next, Main, Terminated

-------------------------------------------------------------------------------
(* The theorems. *)

\* IInv holds in every reachable state, for every plan length, concurrency
\* and set of provider answers.
THEOREM Invariance == Spec => []IInv
  BY InitEstablishes, NextPreserves, PTL DEF Spec

\* The channel and the wait group never go below zero or above their limits,
\* and every other variable keeps its type (apply.go:317-337).
THEOREM TypeCorrect == Spec => []TypeOK
<1>1. IInv => TypeOK
  BY DEF IInv
<1> QED
  BY <1>1, Invariance, PTL

\* Never more than Concurrency provider calls in flight (apply.go:325-337).
THEOREM PoolIsBounded == Spec => []CallsBounded
<1>1. IInv => CallsBounded
  <2> SUFFICES ASSUME IInv PROVE CallsBounded
    OBVIOUS
  <2>1. IsFiniteSet(Holding) /\ InState({"calling"}) \in SUBSET Holding
    BY InStateFinite DEF Holding, InState
  <2>2. Cardinality(InState({"calling"})) <= Cardinality(Holding)
    BY <2>1, FS_Subset
  <2>3. Cardinality(Holding) = sem /\ sem \in 0..Concurrency
    BY DEF IInv, CountersTrue, TypeOK
  <2>4. Cardinality(InState({"calling"})) \in Nat
    BY InStateFinite
  <2> QED
    BY <2>2, <2>3, <2>4, PoolAssumption DEF CallsBounded
<1> QED
  BY <1>1, Invariance, PTL

\* Each finished worker has exactly one entry, its own (apply.go:374-404).
THEOREM NoResultLostOrDoubled == Spec => []ResultsMatch
<1>1. IInv => ResultsMatch
  BY DEF IInv
<1> QED
  BY <1>1, Invariance, PTL

\* The two tallies count the entries with and without an error.
THEOREM TalliesAreTrue == Spec => []TalliesMatch
<1>1. IInv => TalliesMatch
  BY DEF IInv
<1> QED
  BY <1>1, Invariance, PTL

\* What runApply reports covers every started item and never changes again.
THEOREM ReportCoversTheRun == Spec => []ReportIsFinal
<1>1. IInv => ReportIsFinal
  BY DEF IInv
<1> QED
  BY <1>1, Invariance, PTL

-------------------------------------------------------------------------------
(* The pool implements the abstract batch. *)

LEMMA InitSimulates == Init => Batch!Init
<1> SUFFICES ASSUME Init PROVE Batch!Init
  OBVIOUS
<1>1. BatchStatus = [i \in Item |-> "pending"]
  BY DEF Init, BatchStatus
<1>2. cancelled = FALSE /\ (pc = "returned") = FALSE
  BY DEF Init
<1> QED
  BY <1>1, <1>2 DEF Batch!Init, Batch!Item, Item

\* Starting a worker starts the first pending action, and there is room for it
\* because every running action holds a slot.
LEMMA DispatchSimulates == IInv /\ Dispatch => Batch!Start(next)
<1> SUFFICES ASSUME IInv, Dispatch PROVE Batch!Start(next)
  OBVIOUS
<1>1. /\ pc = "dispatch" /\ sem < Concurrency /\ next \in Item
      /\ worker' = [worker EXCEPT ![next] = "calling"]
      /\ worker \in [Item -> WorkerState]
      /\ \A j \in Item : worker[j] = "none" <=> j >= next
      /\ UNCHANGED <<pc, cancelled, outcome>>
  BY DEF Dispatch, IInv, TypeOK, Frontier, Item
<1>2. BatchStatus[next] = "pending"
  BY <1>1 DEF BatchStatus, Item
<1>3. \A j \in 1..(next - 1) : BatchStatus[j] # "pending"
  <2> SUFFICES ASSUME NEW j \in 1..(next - 1)
               PROVE  BatchStatus[j] # "pending"
    OBVIOUS
  <2>1. j \in Item /\ ~(j >= next)
    BY <1>1, PoolAssumption DEF Item
  <2>2. worker[j] # "none"
    BY <2>1, <1>1
  <2> QED
    BY <2>1, <2>2 DEF BatchStatus
<1>4. Cardinality({j \in Item : BatchStatus[j] = "running"}) < Concurrency
  <2>1. {j \in Item : BatchStatus[j] = "running"} \in SUBSET Holding
    BY DEF BatchStatus, Holding, InState
  <2>2. IsFiniteSet(Holding)
    BY InStateFinite DEF Holding
  <2>3. /\ Cardinality({j \in Item : BatchStatus[j] = "running"})
             <= Cardinality(Holding)
        /\ IsFiniteSet({j \in Item : BatchStatus[j] = "running"})
    BY <2>1, <2>2, FS_Subset
  <2>4. Cardinality({j \in Item : BatchStatus[j] = "running"}) \in Nat
    BY <2>3, FS_CardinalityType
  <2>5. Cardinality(Holding) = sem /\ sem \in 0..Concurrency
    BY DEF IInv, CountersTrue, TypeOK
  <2> QED
    BY <2>3, <2>4, <2>5, <1>1, PoolAssumption
<1>5. BatchStatus' = [BatchStatus EXCEPT ![next] = "running"]
  BY <1>1 DEF BatchStatus
<1>6. ~(pc = "returned") /\ (pc = "returned")' = (pc = "returned")
  BY <1>1
<1>7. Batch!Cardinality(Batch!Running) < Concurrency
  <2>1. Batch!Cardinality(Batch!Running) = Cardinality(Batch!Running)
    BY DEF Batch!Cardinality, Cardinality
  <2> QED
    BY <1>4, <2>1 DEF Batch!Running, Batch!Item, Item
<1>8. cancelled' = cancelled
  BY <1>1
<1> QED
  BY <1>2, <1>3, <1>5, <1>6, <1>7, <1>8 DEF Batch!Start

\* Tallying an answer is the abstract Finish, with the verdict of its error.
LEMMA RecordSimulates ==
  ASSUME IInv, NEW i \in Item, Record(i)
  PROVE  Batch!Finish(i)
<1>1. /\ worker[i] = "counted"
      /\ worker' = [worker EXCEPT ![i] = "recorded"]
      /\ worker \in [Item -> WorkerState]
      /\ UNCHANGED <<pc, cancelled, outcome>>
  BY DEF Record, IInv, TypeOK
<1>2. BatchStatus[i] = "running"
  BY <1>1 DEF BatchStatus
<1>3. \E verdict \in {"ok", "failed"} :
         BatchStatus' = [BatchStatus EXCEPT ![i] = verdict]
  <2>1. CASE outcome[i].error
    <3>1. BatchStatus' = [BatchStatus EXCEPT ![i] = "failed"]
      BY <1>1, <2>1 DEF BatchStatus
    <3> QED
      BY <3>1
  <2>2. CASE ~outcome[i].error
    <3>1. BatchStatus' = [BatchStatus EXCEPT ![i] = "ok"]
      BY <1>1, <2>2 DEF BatchStatus
    <3> QED
      BY <3>1
  <2> QED
    BY <2>1, <2>2
<1> QED
  BY <1>1, <1>2, <1>3 DEF Batch!Finish

\* Reporting is the abstract Close: nothing runs, and what is still pending
\* was given up on cancellation.
LEMMA ReportSimulates == IInv /\ Report => Batch!Close
<1> SUFFICES ASSUME IInv, Report PROVE Batch!Close
  OBVIOUS
<1>1. /\ pc = "wait" /\ pc' = "returned"
      /\ UNCHANGED <<next, cancelled, worker, outcome>>
  BY DEF Report
<1>2. IInv' /\ pc' = "returned"
  BY <1>1, ReportPreserves
<1>3. Live = {}
  <2>1. Live' = {}
    BY <1>2 DEF IInv, ReportIsFinal
  <2> QED
    BY <2>1, <1>1 DEF Live, InState
<1>4. {j \in Item : BatchStatus[j] = "running"} = {}
  BY <1>3 DEF BatchStatus, Live, InState
<1>5. cancelled \/ \A j \in Item : BatchStatus[j] # "pending"
  <2>1. cancelled \/ next = NumItems + 1
    BY <1>1 DEF IInv, LoopLeft
  <2>2. ASSUME next = NumItems + 1, NEW j \in Item
        PROVE  BatchStatus[j] # "pending"
    <3>1. ~(j >= next)
      BY <2>2, PoolAssumption DEF Item
    <3>2. worker[j] # "none"
      BY <3>1 DEF IInv, Frontier
    <3> QED
      BY <3>2 DEF BatchStatus
  <2> QED
    BY <2>1, <2>2
<1>6. BatchStatus' = BatchStatus
  BY <1>1 DEF BatchStatus
<1> QED
  BY <1>1, <1>4, <1>5, <1>6 DEF Batch!Close, Batch!Running, Batch!Item, Item

\* Every other step leaves the abstract state alone or asks to stop.
LEMMA QuietSimulates ==
  ASSUME IInv,
         \/ Abort \/ EndLoop \/ Cancel \/ UNCHANGED poolVars
         \/ \E i \in Item : Call(i) \/ Release(i) \/ Done(i)
  PROVE  Batch!Stop \/ UNCHANGED Batch!batchVars
<1>1. worker \in [Item -> WorkerState]
  BY DEF IInv, TypeOK
<1>2. CASE Cancel
  <2>1. pc # "returned" /\ pc' = pc /\ cancelled' = TRUE
        /\ BatchStatus' = BatchStatus
    BY <1>2 DEF Cancel, BatchStatus
  <2> QED
    BY <2>1 DEF Batch!Stop
<1>3. CASE Abort \/ EndLoop \/ UNCHANGED poolVars
  <2>1. /\ (pc' = "returned") = (pc = "returned")
        /\ cancelled' = cancelled
        /\ BatchStatus' = BatchStatus
    BY <1>3 DEF Abort, EndLoop, poolVars, BatchStatus
  <2> QED
    BY <2>1 DEF Batch!batchVars
<1>4. ASSUME NEW i \in Item, Call(i) \/ Release(i) \/ Done(i)
      PROVE  UNCHANGED Batch!batchVars
  <2>1. pc' = pc /\ cancelled' = cancelled
    BY <1>4 DEF Call, Return, Release, Done
  <2>2. BatchStatus' = BatchStatus
    <3>1. CASE Call(i)
      <4>1. PICK o \in Outcome : Return(i, o)
        BY <3>1 DEF Call
      <4>2. /\ worker[i] = "calling"
            /\ worker' = [worker EXCEPT ![i] = "counted"]
            /\ outcome' = [outcome EXCEPT ![i] = o]
            /\ outcome \in [Item -> Outcome \cup {NoOutcome}]
        BY <4>1 DEF Return, IInv, TypeOK
      <4> QED
        BY <4>2, <1>1 DEF BatchStatus
    <3>2. CASE Release(i) \/ Done(i)
      <4>1. /\ outcome' = outcome
            /\ \E b \in {"released", "done"} :
                  worker' = [worker EXCEPT ![i] = b]
            /\ worker[i] \in {"recorded", "released"}
        BY <3>2 DEF Release, Done
      <4> QED
        BY <4>1, <1>1 DEF BatchStatus
    <3> QED
      BY <1>4, <3>1, <3>2
  <2> QED
    BY <2>1, <2>2 DEF Batch!batchVars
<1> QED
  BY <1>2, <1>3, <1>4

\* The goroutines, the channel and the wait group implement BatchSpec.
THEOREM PoolImplementsBatch == Spec => ImplementsBatch
<1>1. Init => Batch!Init
  BY InitSimulates
<1>2. IInv /\ [Next]_poolVars => [Batch!Next]_Batch!batchVars
  <2> SUFFICES ASSUME IInv, [Next]_poolVars
               PROVE  Batch!Next \/ UNCHANGED Batch!batchVars
    OBVIOUS
  <2>1. CASE Dispatch
    <3>1. next \in Item
      BY <2>1 DEF Dispatch, IInv, TypeOK, Item
    <3> QED
      BY <3>1, <2>1, DispatchSimulates DEF Batch!Next, Batch!Item, Item
  <2>2. CASE Report
    BY <2>2, ReportSimulates DEF Batch!Next
  <2>3. ASSUME NEW i \in Item, Record(i)
        PROVE  Batch!Next
    BY <2>3, RecordSimulates DEF Batch!Next, Batch!Item, Item
  <2>4. CASE \/ Abort \/ EndLoop \/ Cancel \/ UNCHANGED poolVars
             \/ \E i \in Item : Call(i) \/ Release(i) \/ Done(i)
    BY <2>4, QuietSimulates DEF Batch!Next
  <2> QED
    BY <2>1, <2>2, <2>3, <2>4 DEF Next, Main, Tally, Terminated
<1> QED
  BY <1>1, <1>2, Invariance, PTL DEF Spec, ImplementsBatch, Batch!Spec
===============================================================================
