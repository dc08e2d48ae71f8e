----------------------------- MODULE SurveyProofs -----------------------------
(***************************************************************************)
(* Lemmas about the pool of a survey, for any number of pages, any         *)
(* concurrency and any behaviour of the pages: PoolInv says what its       *)
(* counters stand for, Carried what its goroutines carry, and everything   *)
(* the pool does, and everything that is done to it, keeps both.           *)
(***************************************************************************)
EXTENDS Survey, FiniteSetTheorems, TLAPS

\* Workers keep their shape, and beyond the loop's index nobody has started.
Shape ==
  /\ main \in {"off", "dispatch", "wait"}
  /\ Len(jobs) \in 0..MaxJobs
  /\ next \in Nat \ {0}
  /\ worker \in [Job -> WorkerState]
  /\ \A i \in Job : i >= next => worker[i] = "none"

Counters ==
  /\ sem = Cardinality(Holding)
  /\ sem <= Concurrency
  /\ wg = Cardinality(Live)

\* Between surveys no goroutine of one is left.
AtRest == main = "off" => Live = {}

PoolInv == Shape /\ Counters /\ AtRest

-------------------------------------------------------------------------------
(* Subsequences. *)

LEMMA IndicesFinite ==
  ASSUME NEW n \in Nat, NEW I \in SUBSET (1..n)
  PROVE  IsFiniteSet(I) /\ Cardinality(I) \in Nat /\ Cardinality(I) <= n
<1>1. IsFiniteSet(1..n) /\ Cardinality(1..n) = n
  BY FS_Interval
<1>2. IsFiniteSet(I) /\ Cardinality(I) <= Cardinality(1..n)
  BY <1>1, FS_Subset
<1> QED
  BY <1>1, <1>2, FS_CardinalityType

\* Ranks are positions among the chosen indices and grow with the index.
LEMMA RankType ==
  ASSUME NEW n \in Nat, NEW I \in SUBSET (1..n), NEW i \in I
  PROVE  Rank(I, i) \in Nat /\ Rank(I, i) \in 1..Cardinality(I)
<1> DEFINE H == {h \in I : h <= i}
<1>0. i \in 1..n /\ i <= i
  OBVIOUS
<1>1. H \in SUBSET I /\ i \in H /\ H \in SUBSET (1..n)
  BY <1>0
<1>2. IsFiniteSet(I) /\ Cardinality(I) \in Nat
  BY IndicesFinite
<1>3. IsFiniteSet(H) /\ Cardinality(H) \in Nat
  BY <1>1, IndicesFinite
<1>4. Cardinality(H) <= Cardinality(I)
  BY <1>1, <1>2, FS_Subset
<1>5. Cardinality(H) # 0
  BY <1>1, <1>3, FS_EmptySet
<1> QED
  BY <1>2, <1>3, <1>4, <1>5 DEF Rank

LEMMA RankGrows ==
  ASSUME NEW n \in Nat, NEW I \in SUBSET (1..n),
         NEW i \in I, NEW k \in I, i < k
  PROVE  Rank(I, i) < Rank(I, k)
<1> DEFINE H == {h \in I : h <= i}
           K == {h \in I : h <= k}
<1>0. i \in Nat /\ k \in Nat /\ \A h \in I : h \in Nat
  OBVIOUS
<1>1. H \subseteq K /\ k \in K /\ k \notin H /\ K \subseteq 1..n
  <2>1. \A h \in I : h <= i => h <= k
    BY <1>0
  <2>2. k <= k /\ ~(k <= i)
    BY <1>0
  <2> QED
    BY <2>1, <2>2
<1>2. H \in SUBSET (1..n)
  BY <1>1
<1>3. IsFiniteSet(K) /\ Cardinality(K) \in Nat /\ Cardinality(H) \in Nat
  BY <1>1, <1>2, IndicesFinite
<1>4. Cardinality(H) <= Cardinality(K) /\ (Cardinality(K) = Cardinality(H) => K = H)
  BY <1>1, <1>3, FS_Subset
<1>5. H # K
  BY <1>1
<1> HIDE DEF H, K
<1>6. Cardinality(H) < Cardinality(K)
  BY <1>3, <1>4, <1>5
<1> QED
  BY <1>6 DEF Rank, H, K

\* Every position among the chosen indices is the rank of one of them.
LEMMA NthType ==
  ASSUME NEW n \in Nat, NEW I \in SUBSET (1..n), NEW j \in 1..Cardinality(I)
  PROVE  Nth(I, j) \in I /\ Rank(I, Nth(I, j)) = j
<1> DEFINE f == [i \in I |-> Rank(I, i)]
           T == 1..Cardinality(I)
<1>1. IsFiniteSet(I) /\ Cardinality(I) \in Nat
  BY IndicesFinite
<1>2. IsFiniteSet(T) /\ Cardinality(T) = Cardinality(I)
  BY <1>1, FS_Interval
<1>3. f \in [I -> T]
  BY RankType
<1>4. \A i, k \in I : f[i] = f[k] => i = k
  <2> SUFFICES ASSUME NEW i \in I, NEW k \in I, i # k
               PROVE  Rank(I, i) # Rank(I, k)
    OBVIOUS
  <2>1. Rank(I, i) \in Nat /\ Rank(I, k) \in Nat
    BY RankType
  <2>2. i \in Nat /\ k \in Nat
    OBVIOUS
  <2>3. CASE i < k
    BY <2>1, <2>3, RankGrows
  <2>4. CASE k < i
    BY <2>1, <2>4, RankGrows
  <2> QED
    BY <2>2, <2>3, <2>4
<1>5. f \in Injection(I, T)
  <2> HIDE DEF f
  <2> QED
    BY <1>3, <1>4 DEF Injection, IsInjective
<1> HIDE DEF T
<1>6. f \in Surjection(I, T)
  BY <1>2, <1>5, FS_Injection
<1>7. \E i \in I : f[i] = j
  BY <1>6 DEF Surjection, T
<1>8. \E i \in I : Rank(I, i) = j
  BY <1>7
<1> QED
  BY <1>8 DEF Nth

LEMMA NthOfRank ==
  ASSUME NEW n \in Nat, NEW I \in SUBSET (1..n), NEW i \in I
  PROVE  Nth(I, Rank(I, i)) = i
<1> DEFINE k == Nth(I, Rank(I, i))
<1>1. k \in I /\ Rank(I, k) = Rank(I, i)
  BY RankType, NthType
<1>2. Rank(I, i) \in Nat
  BY RankType
<1>5. i \in Nat /\ k \in Nat
  <2>1. I \subseteq Nat
    OBVIOUS
  <2> QED
    BY <1>1, <2>1
<1> HIDE DEF k
<1>3. ASSUME i < k PROVE FALSE
  <2>1. Rank(I, i) < Rank(I, k)
    BY <1>1, <1>3, RankGrows
  <2> QED
    BY <1>1, <1>2, <2>1
<1>4. ASSUME k < i PROVE FALSE
  <2>1. Rank(I, k) < Rank(I, i)
    BY <1>1, <1>4, RankGrows
  <2> QED
    BY <1>1, <1>2, <2>1
<1>6. i = k
  BY <1>3, <1>4, <1>5
<1> QED
  BY <1>6 DEF k

\* The positions of a run of consecutive indices.
LEMMA NthOfInterval ==
  ASSUME NEW m \in Nat, NEW n \in Nat, m <= n
  PROVE  /\ Cardinality((m + 1)..n) = n - m
         /\ \A j \in 1..(n - m) : Nth((m + 1)..n, j) = m + j
<1> DEFINE I == (m + 1)..n
<1>1. Cardinality(I) = n - m
  <2>1. m + 1 \in Int /\ n \in Int
    OBVIOUS
  <2>2. Cardinality(I) = IF m + 1 > n THEN 0 ELSE n - (m + 1) + 1
    BY <2>1, FS_Interval
  <2> QED
    BY <2>2
<1>2. SUFFICES ASSUME NEW j \in 1..(n - m) PROVE Nth(I, j) = m + j
  BY <1>1
<1>3. I \in SUBSET (1..n) /\ m + j \in I
  OBVIOUS
<1>4. {h \in I : h <= m + j} = (m + 1)..(m + j)
  OBVIOUS
<1>5. Cardinality((m + 1)..(m + j)) = j
  BY FS_Interval
<1>6. Rank(I, m + j) = j
  BY <1>4, <1>5 DEF Rank
<1> HIDE DEF I
<1>7. Nth(I, Rank(I, m + j)) = m + j
  BY <1>3, NthOfRank
<1> QED
  BY <1>6, <1>7

\* The last of the chosen indices.
LEMMA Greatest ==
  ASSUME NEW n \in Nat, NEW I \in SUBSET (1..n), I # {}
  PROVE  \E i \in I : \A k \in I : k <= i
<1>1. IsFiniteSet(I) /\ Cardinality(I) \in Nat
  BY IndicesFinite
<1>2. Cardinality(I) # 0
  BY <1>1, FS_EmptySet
<1> DEFINE i == Nth(I, Cardinality(I))
<1>3. i \in I /\ Rank(I, i) = Cardinality(I)
  <2>1. Cardinality(I) \in 1..Cardinality(I)
    BY <1>1, <1>2
  <2> QED
    BY <2>1, NthType
<1> HIDE DEF i
<1>4. ASSUME NEW k \in I PROVE k <= i
  <2>1. Rank(I, k) \in 1..Cardinality(I)
    BY RankType
  <2>2. CASE i < k
    <3>1. Rank(I, i) < Rank(I, k)
      BY <1>3, <2>2, RankGrows
    <3> QED
      BY <1>1, <1>3, <2>1, <3>1
  <2>3. i \in Nat /\ k \in Nat
    BY <1>3
  <2> QED
    BY <2>2, <2>3
<1> QED
  BY <1>3, <1>4

LEMMA SubsequenceType ==
  ASSUME NEW T, NEW s \in Seq(T), NEW I \in SUBSET (DOMAIN s)
  PROVE  /\ I \in SUBSET (1..Len(s)) /\ Cardinality(I) \in Nat
         /\ Cardinality(I) <= Len(s)
         /\ DOMAIN Subsequence(s, I) = 1..Cardinality(I)
         /\ \A j \in 1..Cardinality(I) :
              Nth(I, j) \in I /\ Subsequence(s, I)[j] = s[Nth(I, j)]
         /\ Subsequence(s, I) \in Seq(T)
<1>1. Len(s) \in Nat /\ DOMAIN s = 1..Len(s) /\ I \in SUBSET (1..Len(s))
  OBVIOUS
<1>2. Cardinality(I) \in Nat /\ Cardinality(I) <= Len(s)
  BY <1>1, IndicesFinite
<1>3. \A j \in 1..Cardinality(I) : Nth(I, j) \in I
  BY <1>1, NthType
<1>4. \A i \in I : s[i] \in T
  OBVIOUS
<1>5. Subsequence(s, I) \in [1..Cardinality(I) -> T]
  BY <1>3, <1>4 DEF Subsequence
<1>6. Subsequence(s, I) \in Seq(T)
  BY <1>2, <1>5
<1> QED
  BY <1>1, <1>2, <1>3, <1>6 DEF Subsequence

-------------------------------------------------------------------------------
(* How the sets of workers change when one worker moves. *)

\* Any set of workers selected by their state is finite.
LEMMA WorkersFinite ==
  ASSUME NEW S
  PROVE  IsFiniteSet(InState(S)) /\ Cardinality(InState(S)) \in Nat
<1>1. IsFiniteSet(Job)
  BY FS_Interval, SurveyAssumption DEF Job
<1>2. InState(S) \in SUBSET Job
  BY DEF InState
<1> QED
  BY <1>1, <1>2, FS_Subset, FS_CardinalityType

\* Moving worker i to state b adds it to, or drops it from, a set of workers
\* selected by state, and the count follows.
LEMMA WorkerMoves ==
  ASSUME worker \in [Job -> WorkerState],
         NEW i \in Job, NEW b, NEW S,
         worker' = [worker EXCEPT ![i] = b]
  PROVE  /\ worker[i] \notin S /\ b \in S =>
              Cardinality(InState(S))' = Cardinality(InState(S)) + 1
         /\ worker[i] \in S /\ b \notin S =>
              Cardinality(InState(S))' = Cardinality(InState(S)) - 1
         /\ (worker[i] \in S <=> b \in S) => InState(S)' = InState(S)
<1>1. InState(S)' = IF b \in S THEN InState(S) \cup {i} ELSE InState(S) \ {i}
  BY DEF InState
<1>2. i \in InState(S) <=> worker[i] \in S
  BY DEF InState
<1>3. IsFiniteSet(InState(S))
  BY WorkersFinite
<1>4. /\ i \notin InState(S) =>
           Cardinality(InState(S) \cup {i}) = Cardinality(InState(S)) + 1
      /\ i \in InState(S) =>
           Cardinality(InState(S) \ {i}) = Cardinality(InState(S)) - 1
  BY <1>3, FS_AddElement, FS_RemoveElement
<1>5. Cardinality(InState(S))' = Cardinality(InState(S)')
  OBVIOUS
<1> QED
  BY <1>1, <1>2, <1>4, <1>5

\* The two counts of the invariant under the moves that occur.
LEMMA MovesCounted ==
  ASSUME worker \in [Job -> WorkerState],
         NEW i \in Job, NEW b \in WorkerState,
         worker' = [worker EXCEPT ![i] = b]
  PROVE  /\ worker[i] = "none" /\ b = "started" =>
              /\ Cardinality(Holding)' = Cardinality(Holding) + 1
              /\ Cardinality(Live)' = Cardinality(Live) + 1
         /\ (/\ worker[i] \in {"started", "page", "dialog", "closed"}
             /\ b \in {"page", "dialog", "closed", "recorded"}) =>
              Holding' = Holding /\ Live' = Live
         /\ worker[i] = "recorded" /\ b = "released" =>
              /\ Cardinality(Holding)' = Cardinality(Holding) - 1
              /\ Live' = Live
         /\ worker[i] = "released" /\ b = "done" =>
              /\ Holding' = Holding
              /\ Cardinality(Live)' = Cardinality(Live) - 1
<1> DEFINE H == {"started", "page", "dialog", "closed", "recorded"}
           L == {"started", "page", "dialog", "closed", "recorded", "released"}
<1>1. /\ Holding = InState(H) /\ Holding' = InState(H)'
      /\ Live = InState(L) /\ Live' = InState(L)'
  BY DEF Holding, Live
<1>2. \A S : /\ worker[i] \notin S /\ b \in S =>
                  Cardinality(InState(S))' = Cardinality(InState(S)) + 1
             /\ worker[i] \in S /\ b \notin S =>
                  Cardinality(InState(S))' = Cardinality(InState(S)) - 1
             /\ (worker[i] \in S <=> b \in S) => InState(S)' = InState(S)
  BY WorkerMoves
<1>3. /\ worker[i] \notin H /\ b \in H =>
           Cardinality(Holding)' = Cardinality(Holding) + 1
      /\ worker[i] \in H /\ b \notin H =>
           Cardinality(Holding)' = Cardinality(Holding) - 1
      /\ (worker[i] \in H <=> b \in H) => Holding' = Holding
  BY <1>1, <1>2
<1>4. /\ worker[i] \notin L /\ b \in L =>
           Cardinality(Live)' = Cardinality(Live) + 1
      /\ worker[i] \in L /\ b \notin L =>
           Cardinality(Live)' = Cardinality(Live) - 1
      /\ (worker[i] \in L <=> b \in L) => Live' = Live
  BY <1>1, <1>2
<1> HIDE DEF H, L
<1>5. worker[i] = "none" /\ b = "started" =>
        worker[i] \notin H /\ b \in H /\ worker[i] \notin L /\ b \in L
  BY DEF H, L
<1>6. (/\ worker[i] \in {"started", "page", "dialog", "closed"}
       /\ b \in {"page", "dialog", "closed", "recorded"}) =>
        worker[i] \in H /\ b \in H /\ worker[i] \in L /\ b \in L
  BY DEF H, L
<1>7. worker[i] = "recorded" /\ b = "released" =>
        worker[i] \in H /\ b \notin H /\ worker[i] \in L /\ b \in L
  BY DEF H, L
<1>8. worker[i] = "released" /\ b = "done" =>
        worker[i] \notin H /\ b \notin H /\ worker[i] \in L /\ b \notin L
  BY DEF H, L
<1> QED
  BY <1>3, <1>4, <1>5, <1>6, <1>7, <1>8

-------------------------------------------------------------------------------
(* What starts, ends and surrounds a survey. *)

\* A pool made anew has no workers.
LEMMA ResetEstablishes ==
  ASSUME /\ main' \in {"off", "dispatch", "wait"}
         /\ Len(jobs') \in 0..MaxJobs
         /\ next' = 1
         /\ sem' = 0
         /\ wg' = 0
         /\ worker' = [i \in Job |-> "none"]
  PROVE  PoolInv'
<1>1. Shape'
  BY DEF Shape, WorkerState
<1>2. Holding' = {} /\ Live' = {}
  BY DEF Holding, Live, InState
<1>3. Cardinality(Holding)' = 0 /\ Cardinality(Live)' = 0
  BY <1>2, FS_EmptySet
<1>4. Counters'
  BY <1>3, SurveyAssumption DEF Counters
<1>5. AtRest'
  BY <1>2 DEF AtRest
<1> QED
  BY <1>1, <1>4, <1>5 DEF PoolInv

LEMMA LaunchEstablishes ==
  ASSUME NEW links, Launch(links)
  PROVE  PoolInv' /\ main' = "dispatch"
BY ResetEstablishes DEF Launch, Reset

LEMMA PoolOffEstablishes == PoolOff => PoolInv' /\ main' = "off"
<1>1. Len(<<>>) \in 0..MaxJobs
  BY SurveyAssumption
<1> QED
  BY <1>1, ResetEstablishes DEF PoolOff, Reset

\* When wg.Wait has returned no goroutine is left.
LEMMA CollectPreserves == PoolInv /\ Collect => PoolInv' /\ main' = "off"
<1> SUFFICES ASSUME PoolInv, Collect PROVE PoolInv' /\ main' = "off"
  OBVIOUS
<1>1. /\ wg = 0 /\ main' = "off" /\ jobs' = <<>>
      /\ UNCHANGED <<next, sem, wg, worker>>
  BY DEF Collect, Collectable
<1>2. Holding' = Holding /\ Live' = Live
  BY <1>1 DEF Holding, Live, InState
<1>3. Live = {}
  <2>1. IsFiniteSet(Live) /\ Cardinality(Live) = 0
    BY <1>1, WorkersFinite DEF PoolInv, Counters, Live
  <2> QED
    BY <2>1, FS_EmptySet
<1>4. Shape'
  BY <1>1, SurveyAssumption DEF PoolInv, Shape
<1>5. Counters' /\ AtRest'
  BY <1>1, <1>2, <1>3 DEF PoolInv, Counters, AtRest
<1> QED
  BY <1>1, <1>4, <1>5 DEF PoolInv

LEMMA PoolStutters ==
  PoolInv /\ UNCHANGED <<main, jobs, next, sem, wg, worker>> => PoolInv'
<1> SUFFICES ASSUME PoolInv, UNCHANGED <<main, jobs, next, sem, wg, worker>>
             PROVE  PoolInv'
  OBVIOUS
<1>1. Holding' = Holding /\ Live' = Live
  BY DEF Holding, Live, InState
<1> QED
  BY <1>1 DEF PoolInv, Shape, Counters, AtRest

-------------------------------------------------------------------------------
(* What happens in one. *)

LEMMA DispatchPreserves ==
  PoolInv /\ Dispatch => PoolInv' /\ main' = "dispatch"
<1> SUFFICES ASSUME PoolInv, Dispatch PROVE PoolInv' /\ main' = "dispatch"
  OBVIOUS
<1>1. /\ main = "dispatch" /\ UNCHANGED <<main, jobs>>
      /\ next <= Len(jobs) /\ sem < Concurrency
      /\ sem' = sem + 1 /\ wg' = wg + 1 /\ next' = next + 1
      /\ worker' = [worker EXCEPT ![next] = "started"]
  BY DEF Dispatch
<1>2. /\ next \in Job /\ worker[next] = "none"
      /\ worker \in [Job -> WorkerState]
  BY <1>1, SurveyAssumption DEF PoolInv, Shape, Job
<1>3. /\ Cardinality(Holding)' = Cardinality(Holding) + 1
      /\ Cardinality(Live)' = Cardinality(Live) + 1
  BY <1>1, <1>2, MovesCounted DEF WorkerState
<1>4. Shape'
  <2>1. worker' \in [Job -> WorkerState]
    BY <1>1, <1>2 DEF WorkerState
  <2>2. next' \in Nat \ {0} /\ \A i \in Job : i >= next' => worker'[i] = "none"
    BY <1>1, <1>2 DEF PoolInv, Shape, Job
  <2> QED
    BY <2>1, <2>2, <1>1 DEF PoolInv, Shape
<1>5. Counters'
  <2>1. Cardinality(Holding) \in Nat
    BY WorkersFinite DEF Holding
  <2> QED
    BY <2>1, <1>1, <1>3, SurveyAssumption DEF PoolInv, Counters
<1> QED
  BY <1>1, <1>4, <1>5 DEF PoolInv, AtRest

\* A move inside one visit, from the start to the stored result.
LEMMA VisitMoves ==
  ASSUME PoolInv, main # "off", NEW i \in Job,
         NEW b \in {"page", "dialog", "closed", "recorded"},
         worker[i] \in {"started", "page", "dialog", "closed"},
         worker' = [worker EXCEPT ![i] = b],
         UNCHANGED <<main, jobs, next, sem, wg>>
  PROVE  PoolInv' /\ main' # "off"
<1>1. worker \in [Job -> WorkerState] /\ b \in WorkerState
  BY DEF PoolInv, Shape, WorkerState
<1>2. Holding' = Holding /\ Live' = Live
  BY <1>1, MovesCounted
<1>3. Shape'
  BY <1>1 DEF PoolInv, Shape
<1>4. Counters' /\ AtRest'
  BY <1>2 DEF PoolInv, Counters, AtRest
<1> QED
  BY <1>3, <1>4 DEF PoolInv

LEMMA VisitPreserves ==
  ASSUME PoolInv, main # "off", NEW i \in Job,
         \/ Visit(i) \/ GiveUp(i) \/ Record(i)
         \/ PageReady(i) \/ DialogReady(i) \/ Refused(i)
  PROVE  PoolInv' /\ main' # "off"
<1> USE VisitMoves
<1>1. CASE Visit(i)
  BY <1>1 DEF Visit, Step
<1>2. CASE GiveUp(i)
  BY <1>2 DEF GiveUp, Step
<1>3. CASE Record(i)
  BY <1>3 DEF Record
<1>4. CASE PageReady(i)
  BY <1>4 DEF PageReady, Step
<1>5. CASE DialogReady(i)
  BY <1>5 DEF DialogReady, Step
<1>6. CASE Refused(i)
  BY <1>6 DEF Refused, Step
<1> QED
  BY <1>1, <1>2, <1>3, <1>4, <1>5, <1>6

\* The slot is given back, then the place in the wait group.
LEMMA LeavePreserves ==
  ASSUME PoolInv, main # "off", NEW i \in Job, Release(i) \/ Done(i)
  PROVE  PoolInv' /\ main' # "off"
<1>1. worker \in [Job -> WorkerState]
  BY DEF PoolInv, Shape
<1>2. Cardinality(Holding) \in Nat /\ Cardinality(Live) \in Nat
  BY WorkersFinite DEF Holding, Live
<1>3. CASE Release(i)
  <2>1. /\ worker[i] = "recorded" /\ sem' = sem - 1
        /\ worker' = [worker EXCEPT ![i] = "released"]
        /\ UNCHANGED <<main, jobs, next, wg>>
    BY <1>3 DEF Release
  <2>2. Cardinality(Holding)' = Cardinality(Holding) - 1 /\ Live' = Live
    BY <2>1, <1>1, MovesCounted DEF WorkerState
  <2>3. Shape'
    BY <2>1, <1>1 DEF PoolInv, Shape, WorkerState
  <2>4. Counters'
    BY <2>1, <2>2, <1>2, SurveyAssumption DEF PoolInv, Counters
  <2> QED
    BY <2>1, <2>3, <2>4 DEF PoolInv, AtRest
<1>4. CASE Done(i)
  <2>1. /\ worker[i] = "released" /\ wg' = wg - 1
        /\ worker' = [worker EXCEPT ![i] = "done"]
        /\ UNCHANGED <<main, jobs, next, sem>>
    BY <1>4 DEF Done
  <2>2. Holding' = Holding /\ Cardinality(Live)' = Cardinality(Live) - 1
    BY <2>1, <1>1, MovesCounted DEF WorkerState
  <2>3. Shape'
    BY <2>1, <1>1 DEF PoolInv, Shape, WorkerState
  <2>4. Counters'
    BY <2>1, <2>2 DEF PoolInv, Counters
  <2> QED
    BY <2>1, <2>3, <2>4 DEF PoolInv, AtRest
<1> QED
  BY <1>3, <1>4

\* Whatever loop, goroutines, pages and timers do while a survey is under way.
LEMMA SurveyPreserves ==
  PoolInv /\ main # "off" /\ Survey => PoolInv' /\ main' # "off"
<1> SUFFICES ASSUME PoolInv, main # "off", Survey
             PROVE  PoolInv' /\ main' # "off"
  OBVIOUS
<1>1. CASE Dispatch
  BY <1>1, DispatchPreserves
<1>2. CASE Abort \/ EndLoop
  <2>1. main' = "wait" /\ UNCHANGED <<jobs, next, sem, wg, worker>>
    BY <1>2 DEF Abort, EndLoop
  <2>2. Holding' = Holding /\ Live' = Live
    BY <2>1 DEF Holding, Live, InState
  <2> QED
    BY <2>1, <2>2 DEF PoolInv, Shape, Counters, AtRest
<1>3. ASSUME NEW i \in Job, Prompt(i) \/ Page(i)
      PROVE  PoolInv' /\ main' # "off"
  BY <1>3, VisitPreserves, LeavePreserves DEF Prompt, Page
<1>4. ASSUME NEW i \in Job, Expire(i)
      PROVE  PoolInv' /\ main' # "off"
  BY <1>4, PoolStutters DEF Expire
<1> QED
  BY <1>1, <1>2, <1>3, <1>4 DEF Survey, Loop

-------------------------------------------------------------------------------
(* What the invariant is for. *)

\* A tab is open only while its worker holds a slot.
LEMMA TabsBounded == PoolInv => Cardinality(OpenTabs) <= Concurrency
<1> SUFFICES ASSUME PoolInv PROVE Cardinality(OpenTabs) <= Concurrency
  OBVIOUS
<1>1. OpenTabs \subseteq Holding
  BY DEF OpenTabs, Holding, InState
<1>2. IsFiniteSet(Holding) /\ Cardinality(Holding) \in Nat
  BY WorkersFinite DEF Holding
<1>3. Cardinality(OpenTabs) \in Nat
  BY WorkersFinite DEF OpenTabs
<1>4. Cardinality(OpenTabs) <= Cardinality(Holding)
  BY <1>1, <1>2, FS_Subset
<1> QED
  BY <1>2, <1>3, <1>4, SurveyAssumption DEF PoolInv, Counters

LEMMA NoTabsAtRest == PoolInv /\ main = "off" => OpenTabs = {}
BY DEF PoolInv, AtRest, OpenTabs, Live, InState

-------------------------------------------------------------------------------
(* What a survey brings back. *)

Typed ==
  /\ cancelled \in BOOLEAN
  /\ jobs \in Seq(Res \cup {Empty})
  /\ next <= MaxJobs + 1
  /\ expired \subseteq Job
  /\ found \in [Job -> Entry]
  /\ results \in [Job -> Entry]

\* While a survey is under way every job before the loop's index has its
\* goroutine, the loop gives up on the others only if the user interrupts, and
\* what a visit fills in and stores is the address it was given.
Carried ==
  main # "off" =>
    /\ next <= Len(jobs) + 1
    /\ main = "wait" => next > Len(jobs) \/ cancelled
    /\ \A i \in Job : i < next => worker[i] # "none"
    /\ \A i \in Job : worker[i] \in {"page", "dialog", "closed"} =>
                        found[i].link = jobs[i]
    /\ \A i \in Job : worker[i] \in {"recorded", "released", "done"} =>
                        results[i].link = jobs[i]

SurveyIInv == PoolInv /\ Typed /\ Carried

LEMMA SurveyWellTyped == SurveyIInv => SurveyTypeOK
<1> SUFFICES ASSUME SurveyIInv PROVE SurveyTypeOK
  OBVIOUS
<1>1. IsFiniteSet(Job) /\ Cardinality(Job) = MaxJobs
  BY FS_Interval, SurveyAssumption DEF Job
<1>2. Live \in SUBSET Job
  BY DEF Live, InState
<1>3. Cardinality(Live) \in Nat /\ Cardinality(Holding) \in Nat
  BY WorkersFinite DEF Live, Holding
<1>4. Cardinality(Live) <= MaxJobs
  BY <1>1, <1>2, FS_Subset
<1>5. sem \in 0..Concurrency /\ wg \in 0..MaxJobs
  BY <1>3, <1>4, SurveyAssumption DEF SurveyIInv, PoolInv, Counters
<1>6. next \in 1..(MaxJobs + 1) /\ Len(jobs) <= MaxJobs
  BY SurveyAssumption DEF SurveyIInv, PoolInv, Shape, Typed
<1> QED
  BY <1>5, <1>6 DEF SurveyIInv, PoolInv, Shape, Typed, SurveyTypeOK

LEMMA ZeroType == Zero \in Entry /\ [i \in Job |-> Zero] \in [Job -> Entry]
BY DEF Zero, Entry

LEMMA LaunchCarries ==
  ASSUME NEW links \in Seq(Res \cup {Empty}), Launch(links),
         cancelled' \in BOOLEAN
  PROVE  SurveyIInv'
<1>1. PoolInv' /\ main' = "dispatch"
  BY LaunchEstablishes
<1>2. /\ jobs' = links /\ next' = 1 /\ expired' = {}
      /\ worker' = [i \in Job |-> "none"]
      /\ found' = [i \in Job |-> Zero] /\ results' = [i \in Job |-> Zero]
  BY DEF Launch, Reset
<1>3. Typed'
  BY <1>2, ZeroType, SurveyAssumption DEF Typed
<1>4. Carried'
  BY <1>1, <1>2 DEF Carried, Job
<1> QED
  BY <1>1, <1>3, <1>4 DEF SurveyIInv

LEMMA PoolOffCarries == PoolOff /\ cancelled' \in BOOLEAN => SurveyIInv'
<1> SUFFICES ASSUME PoolOff, cancelled' \in BOOLEAN PROVE SurveyIInv'
  OBVIOUS
<1>1. PoolInv' /\ main' = "off"
  BY PoolOffEstablishes
<1>2. Typed'
  BY ZeroType, SurveyAssumption DEF PoolOff, Reset, Typed
<1> QED
  BY <1>1, <1>2 DEF SurveyIInv, Carried

LEMMA CollectCarries ==
  SurveyIInv /\ Collect /\ cancelled' \in BOOLEAN => SurveyIInv'
<1> SUFFICES ASSUME SurveyIInv, Collect, cancelled' \in BOOLEAN
             PROVE  SurveyIInv'
  OBVIOUS
<1>1. PoolInv' /\ main' = "off"
  BY CollectPreserves DEF SurveyIInv
<1>2. Typed'
  BY ZeroType, SurveyAssumption DEF Collect, SurveyIInv, Typed
<1> QED
  BY <1>1, <1>2 DEF SurveyIInv, Carried

\* Steps that leave the pool as it is, and a signal.
LEMMA QuietCarries ==
  ASSUME SurveyIInv, UNCHANGED poolVars, cancelled' \in BOOLEAN,
         main = "off" \/ cancelled' = cancelled \/ cancelled'
  PROVE  SurveyIInv'
<1>1. UNCHANGED <<main, jobs, next, sem, wg, worker, expired, found, results>>
  BY DEF poolVars
<1>2. PoolInv'
  BY <1>1, PoolStutters DEF SurveyIInv
<1>3. Typed' /\ Carried'
  BY <1>1 DEF SurveyIInv, Typed, Carried
<1> QED
  BY <1>2, <1>3 DEF SurveyIInv

-------------------------------------------------------------------------------
(* The steps of a survey, one by one. *)

LEMMA LoopCarries ==
  ASSUME SurveyIInv, main # "off", Loop
  PROVE  Typed' /\ Carried'
<1>0. /\ Len(jobs) \in 0..MaxJobs /\ next \in Nat /\ MaxJobs \in Nat
      /\ worker \in [Job -> WorkerState]
  BY SurveyAssumption DEF SurveyIInv, PoolInv, Shape
<1>1. CASE Dispatch
  <2>1. /\ main' = main /\ jobs' = jobs /\ next' = next + 1
        /\ main = "dispatch" /\ next <= Len(jobs)
        /\ worker' = [worker EXCEPT ![next] = "started"]
        /\ UNCHANGED <<cancelled, expired, found, results>>
    BY <1>1 DEF Dispatch
  <2>2. next + 1 <= MaxJobs + 1 /\ next' <= Len(jobs') + 1
    BY <1>0, <2>1
  <2>3. Typed'
    BY <2>1, <2>2 DEF SurveyIInv, Typed
  <2>4. \A i \in Job : /\ worker'[i] \in {worker[i], "started"}
                       /\ i < next' => i < next \/ worker'[i] = "started"
    BY <1>0, <2>1 DEF Job
  <2> QED
    BY <2>1, <2>2, <2>3, <2>4 DEF SurveyIInv, Carried
<1>2. CASE Abort \/ EndLoop
  <2>1. /\ next > Len(jobs) \/ cancelled
        /\ UNCHANGED <<cancelled, jobs, next, worker, expired, found, results>>
    BY <1>2 DEF Abort, EndLoop
  <2> QED
    BY <2>1 DEF SurveyIInv, Typed, Carried
<1> QED
  BY <1>1, <1>2 DEF Loop

\* A goroutine is at work only on a job of the survey.
LEMMA AtWork ==
  ASSUME SurveyIInv, main # "off", NEW i \in Job, worker[i] # "none"
  PROVE  i \in DOMAIN jobs /\ i < next /\ jobs[i] \in Res \cup {Empty}
<1>1. i < next
  BY DEF SurveyIInv, PoolInv, Shape, Job
<1>2. next <= Len(jobs) + 1 /\ Len(jobs) \in Nat /\ next \in Nat
  BY SurveyAssumption DEF SurveyIInv, Carried, PoolInv, Shape
<1>3. i \in 1..Len(jobs)
  BY <1>1, <1>2 DEF Job
<1> QED
  BY <1>1, <1>3 DEF SurveyIInv, Typed

\* A visit fills in its own job's address and moves on.
LEMMA FillCarries ==
  ASSUME SurveyIInv, main # "off", NEW i \in Job,
         worker[i] \in {"started", "page", "dialog"},
         NEW to \in {"page", "dialog", "closed"},
         NEW seen \in BOOLEAN, Step(i, to), Fill(i, seen)
  PROVE  Typed' /\ Carried'
<1>1. jobs[i] \in Res \cup {Empty} /\ worker \in [Job -> WorkerState]
  BY AtWork DEF SurveyIInv, PoolInv, Shape
<1>2. /\ worker' = [worker EXCEPT ![i] = to]
      /\ found' = [found EXCEPT ![i] = [link |-> jobs[i], seen |-> seen]]
      /\ UNCHANGED <<cancelled, main, jobs, next, expired, results>>
  BY DEF Step, Fill
<1>3. found \in [Job -> Entry]
  BY DEF SurveyIInv, Typed
<1>4. [link |-> jobs[i], seen |-> seen] \in Entry
  BY <1>1 DEF Entry
<1>5. found' \in [Job -> Entry]
  BY <1>2, <1>3, <1>4
<1>6. Typed'
  BY <1>2, <1>5 DEF SurveyIInv, Typed
<1>7. \A k \in Job :
        \/ k = i /\ worker'[k] = to /\ found'[k].link = jobs[k]
        \/ k # i /\ worker'[k] = worker[k] /\ found'[k] = found[k]
  BY <1>1, <1>2, <1>3
<1> QED
  BY <1>2, <1>6, <1>7 DEF SurveyIInv, Carried

LEMMA VisitCarries ==
  ASSUME SurveyIInv, main # "off", NEW i \in Job,
         \/ Visit(i) \/ GiveUp(i)
         \/ PageReady(i) \/ DialogReady(i) \/ Refused(i)
  PROVE  Typed' /\ Carried'
<1>1. found[i].seen \in BOOLEAN
  BY DEF SurveyIInv, Typed, Entry
<1>2. CASE Visit(i)
  BY <1>2, FillCarries DEF Visit
<1>3. CASE PageReady(i)
  BY <1>3, FillCarries DEF PageReady
<1>4. CASE GiveUp(i) \/ DialogReady(i) \/ Refused(i)
  BY <1>1, <1>4, FillCarries DEF GiveUp, DialogReady, Refused, Keep
<1> QED
  BY <1>2, <1>3, <1>4

LEMMA RecordCarries ==
  ASSUME SurveyIInv, main # "off", NEW i \in Job, Record(i)
  PROVE  Typed' /\ Carried'
<1>1. /\ worker \in [Job -> WorkerState]
      /\ found \in [Job -> Entry] /\ results \in [Job -> Entry]
  BY DEF SurveyIInv, PoolInv, Shape, Typed
<1>2. /\ worker[i] = "closed"
      /\ worker' = [worker EXCEPT ![i] = "recorded"]
      /\ results' = [results EXCEPT ![i] = found[i]]
      /\ found' = [found EXCEPT ![i] = Zero]
      /\ expired' = expired \ {i}
      /\ UNCHANGED <<cancelled, main, jobs, next>>
  BY DEF Record
<1>3. found' \in [Job -> Entry] /\ results' \in [Job -> Entry]
  BY <1>1, <1>2, ZeroType
<1>4. Typed'
  BY <1>2, <1>3 DEF SurveyIInv, Typed
<1>5. \A k \in Job :
        \/ k = i /\ worker'[k] = "recorded" /\ results'[k] = found[k]
        \/ /\ k # i /\ worker'[k] = worker[k]
           /\ found'[k] = found[k] /\ results'[k] = results[k]
  BY <1>1, <1>2
<1> QED
  BY <1>2, <1>4, <1>5 DEF SurveyIInv, Carried

LEMMA LeaveCarries ==
  ASSUME SurveyIInv, main # "off", NEW i \in Job, Release(i) \/ Done(i)
  PROVE  Typed' /\ Carried'
<1>1. worker \in [Job -> WorkerState]
  BY DEF SurveyIInv, PoolInv, Shape
<1>2. /\ worker[i] \in {"recorded", "released"}
      /\ UNCHANGED <<cancelled, main, jobs, next, expired, found, results>>
      /\ \E to \in {"released", "done"} : worker' = [worker EXCEPT ![i] = to]
  BY DEF Release, Done
<1>3. \A k \in Job :
        \/ worker'[k] = worker[k]
        \/ k = i /\ worker'[k] \in {"released", "done"}
  BY <1>1, <1>2
<1> QED
  BY <1>2, <1>3 DEF SurveyIInv, Typed, Carried

LEMMA SurveyCarries ==
  SurveyIInv /\ main # "off" /\ Survey => SurveyIInv' /\ main' # "off"
<1> SUFFICES ASSUME SurveyIInv, main # "off", Survey
             PROVE  SurveyIInv' /\ main' # "off"
  OBVIOUS
<1>1. PoolInv' /\ main' # "off"
  BY SurveyPreserves DEF SurveyIInv
<1>2. CASE Loop
  BY <1>1, <1>2, LoopCarries DEF SurveyIInv
<1>3. ASSUME NEW i \in Job, Prompt(i) \/ Page(i) PROVE SurveyIInv'
  BY <1>1, <1>3, VisitCarries, RecordCarries, LeaveCarries
  DEF Prompt, Page, SurveyIInv
<1>4. ASSUME NEW i \in Job, Expire(i) PROVE SurveyIInv'
  <2>1. /\ expired' = expired \cup {i}
        /\ UNCHANGED <<cancelled, main, jobs, next, worker, found, results>>
    BY <1>4 DEF Expire
  <2>2. Typed' /\ Carried'
    BY <2>1 DEF SurveyIInv, Typed, Carried
  <2> QED
    BY <1>1, <2>2 DEF SurveyIInv
<1> QED
  BY <1>1, <1>2, <1>3, <1>4 DEF Survey

-------------------------------------------------------------------------------
(* What it returns. *)

\* When the loop has been through and no signal came, every job has left the
\* address it was given.
LEMMA AllRecorded ==
  ASSUME SurveyIInv, Collectable, ~cancelled
  PROVE  /\ DOMAIN jobs = 1..Len(jobs) /\ Len(jobs) \in Nat
         /\ \A i \in DOMAIN jobs : results[i].link = jobs[i]
<1>1. /\ main = "wait" /\ wg = 0
      /\ next > Len(jobs) /\ next \in Nat /\ Len(jobs) \in 0..MaxJobs
      /\ worker \in [Job -> WorkerState]
  BY DEF Collectable, SurveyIInv, Carried, PoolInv, Shape
<1>2. Live = {}
  <2>1. IsFiniteSet(Live) /\ Cardinality(Live) = 0
    BY <1>1, WorkersFinite DEF SurveyIInv, PoolInv, Counters, Live
  <2> QED
    BY <2>1, FS_EmptySet
<1>3. DOMAIN jobs = 1..Len(jobs) /\ Len(jobs) \in Nat
  BY DEF SurveyIInv, Typed
<1>4. ASSUME NEW i \in DOMAIN jobs PROVE results[i].link = jobs[i]
  <2>1. i \in Job /\ i < next
    BY <1>1, <1>3, SurveyAssumption DEF Job
  <2>2. worker[i] # "none"
    BY <1>1, <2>1 DEF SurveyIInv, Carried
  <2>3. worker[i] \notin {"started", "page", "dialog", "closed", "recorded",
                          "released"}
    BY <1>2, <2>1 DEF Live, InState
  <2>4. worker[i] = "done"
    BY <1>1, <2>1, <2>2, <2>3 DEF WorkerState
  <2> QED
    BY <1>1, <2>1, <2>4 DEF SurveyIInv, Carried
<1> QED
  BY <1>3, <1>4

\* What is passed on has an address.
LEMMA ProcessedType ==
  ASSUME SurveyIInv
  PROVE  Processed \in Seq([link : Res, seen : BOOLEAN])
<1> DEFINE I == {i \in DOMAIN jobs : HasLink(results[i])}
<1>1. /\ DOMAIN jobs = 1..Len(jobs) /\ Len(jobs) \in Nat
      /\ Len(jobs) <= MaxJobs /\ MaxJobs \in Nat
      /\ results \in [Job -> Entry]
  BY SurveyAssumption DEF SurveyIInv, PoolInv, Shape, Typed
<1>2. I \in SUBSET (1..Len(jobs))
  BY <1>1
<1>3. Cardinality(I) \in Nat
  BY <1>1, <1>2, IndicesFinite
<1>4. \A i \in I : results[i] \in [link : Res, seen : BOOLEAN]
  <2> SUFFICES ASSUME NEW i \in I
               PROVE  results[i] \in [link : Res, seen : BOOLEAN]
    OBVIOUS
  <2>1. i \in Job /\ results[i].link # Empty
    BY <1>1 DEF HasLink, Job
  <2>2. results[i] \in Entry
    BY <1>1, <2>1
  <2> QED
    BY <2>1, <2>2 DEF Entry
<1>5. \A j \in 1..Cardinality(I) : Nth(I, j) \in I
  BY <1>1, <1>2, NthType
<1>6. Processed = [j \in 1..Cardinality(I) |-> results[Nth(I, j)]]
  BY DEF Processed, Subsequence
<1> DEFINE T == [link : Res, seen : BOOLEAN]
<1>7. \A i \in I : results[i] \in T
  BY <1>4
<1> HIDE DEF I, T
<1>8. Processed \in [1..Cardinality(I) -> T]
  BY <1>5, <1>6, <1>7
<1>9. Processed \in Seq(T)
  BY <1>3, <1>8
<1> QED
  BY <1>9 DEF T
=============================================================================
