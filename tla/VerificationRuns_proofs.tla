----------------------- MODULE VerificationRuns_proofs -----------------------
(***************************************************************************)
(* Proofs about VerificationRuns, for any logs, gateways, schedulers, page *)
(* size, lookback, overlap and ranges, and any number of runs and faults.  *)
(***************************************************************************)
EXTENDS VerificationRuns, FiniteSetTheorems, SequenceTheorems, TLAPS

-----------------------------------------------------------------------------
(* Largest and smallest elements.                                          *)

LEMMA LargestExists ==
  ASSUME NEW S \in SUBSET Int, IsFiniteSet(S), S # {}
  PROVE  \E x \in S : \A y \in S : x >= y
<1> DEFINE R == StrictSubsetOrdering(Int)
           F == FiniteSubsetsOf(Int)
           C == {T \in F : T # {} /\ ~ \E x \in T : \A y \in T : x >= y}
<1>1. SUFFICES ASSUME C # {} PROVE FALSE
  BY DEF FiniteSubsetsOf
<1>2. PICK T \in C : \A U \in C : ~(<<U, T>> \in R)
  <2>1. IsWellFoundedOn(R, F)
    BY FS_StrictSubsetOrderingWellFounded
  <2>2. C \subseteq F
    OBVIOUS
  <2> HIDE DEF R, F, C
  <2> QED BY <1>1, <2>1, <2>2, WFMin
<1>3. T \in SUBSET Int /\ IsFiniteSet(T)
  BY DEF FiniteSubsetsOf
<1>4. PICK a \in T : TRUE
  OBVIOUS
<1>5. T \ {a} \in F
  BY <1>3, FS_RemoveElement DEF FiniteSubsetsOf
<1>6. <<T \ {a}, T>> \in R
  BY <1>3, <1>4 DEF StrictSubsetOrdering
<1>7. T \ {a} \notin C
  BY <1>2, <1>6
<1>8. CASE T \ {a} = {}
  <2>1. \A y \in T : a >= y
    BY <1>3, <1>4, <1>8
  <2> QED BY <1>4, <2>1
<1>9. CASE T \ {a} # {}
  <2>1. PICK b \in T \ {a} : \A y \in T \ {a} : b >= y
    BY <1>5, <1>7, <1>9
  <2>2. a \in Int /\ b \in Int
    BY <1>3, <1>4, <2>1
  <2>3. CASE a >= b
    <3>1. \A y \in T : a >= y
      BY <1>3, <2>1, <2>2, <2>3
    <3> QED BY <1>4, <3>1
  <2>4. CASE b >= a
    <3>1. \A y \in T : b >= y
      BY <2>1, <2>4
    <3> QED BY <2>1, <3>1
  <2> QED BY <2>2, <2>3, <2>4
<1> QED BY <1>8, <1>9

LEMMA MaxIsLargest ==
  ASSUME NEW S \in SUBSET Int, IsFiniteSet(S), S # {}
  PROVE  Max(S) \in S /\ \A y \in S : Max(S) >= y
BY LargestExists DEF Max

LEMMA MinIsElement ==
  ASSUME NEW S \in SUBSET Int, IsFiniteSet(S), S # {}
  PROVE  Min(S) \in S
<1> DEFINE N == {0 - y : y \in S}
           f == [y \in S |-> 0 - y]
<1>1. N \subseteq Int
  OBVIOUS
<1>2. PICK a \in S : TRUE
  OBVIOUS
<1>3. 0 - a \in N
  OBVIOUS
<1>4. IsFiniteSet(N)
  <2>1. f \in Surjection(S, N)
    BY DEF Surjection
  <2> QED BY <2>1, FS_Surjection
<1>5. PICK x \in N : \A y \in N : x >= y
  <2> HIDE DEF N
  <2>1. N # {}
    BY <1>3
  <2> QED BY <1>1, <1>4, <2>1, LargestExists
<1>6. PICK z \in S : x = 0 - z
  OBVIOUS
<1>7. \A y \in S : z <= y
  BY <1>5, <1>6
<1> QED BY <1>7 DEF Min

LEMMA MaxOfTwo ==
  ASSUME NEW a \in Int, NEW b \in Int
  PROVE  Max({a, b}) \in {a, b} /\ Max({a, b}) >= a /\ Max({a, b}) >= b
BY FS_Singleton, FS_AddElement, MaxIsLargest DEF Max

-----------------------------------------------------------------------------
(* Pages.                                                                  *)

Rank(S, l) == Cardinality({k \in S : k < l})

LEMMA LogsFinite ==
  /\ IsFiniteSet(Logs) /\ Logs \subseteq Nat
  /\ \A from, to : InRange(from, to) \subseteq Logs /\ IsFiniteSet(InRange(from, to))
<1>1. Logs = 1..Len(LogTime) /\ Len(LogTime) \in Nat
  BY RunsAssumption DEF Logs
<1>2. IsFiniteSet(Logs)
  BY <1>1, FS_Interval
<1>3. \A from, to : InRange(from, to) \subseteq Logs
  BY DEF InRange, Present
<1> QED BY <1>1, <1>2, <1>3, FS_Subset

(* The ranks of a set of logs are the numbers below its size.              *)
LEMMA RankRuns ==
  ASSUME NEW S \in SUBSET Logs
  PROVE  /\ IsFiniteSet(S) /\ Cardinality(S) \in Nat
         /\ [l \in S |-> Rank(S, l)] \in Bijection(S, 0..(Cardinality(S) - 1))
<1> DEFINE m == Cardinality(S)
           rank == [l \in S |-> Rank(S, l)]
           below(l) == {k \in S : k < l}
<1>1. IsFiniteSet(S) /\ S \subseteq Nat
  BY LogsFinite, FS_Subset
<1>2. m \in Nat
  BY <1>1, FS_CardinalityType
<1>3. ASSUME NEW l \in S PROVE IsFiniteSet(below(l)) /\ Rank(S, l) \in 0..(m - 1)
  <2>1. below(l) \in SUBSET (S \ {l})
    BY <1>1
  <2>2. IsFiniteSet(S \ {l}) /\ Cardinality(S \ {l}) = m - 1
    BY <1>1, FS_RemoveElement
  <2>3. IsFiniteSet(below(l)) /\ Cardinality(below(l)) <= m - 1
    BY <2>1, <2>2, FS_Subset
  <2>4. Cardinality(below(l)) \in Nat
    BY <2>3, FS_CardinalityType
  <2> QED BY <1>2, <2>3, <2>4 DEF Rank
<1>4. ASSUME NEW k \in S, NEW l \in S, k < l PROVE Rank(S, k) < Rank(S, l)
  <2>1. below(k) \in SUBSET (below(l) \ {k})
    <3> SUFFICES ASSUME NEW j \in S, j < k PROVE j \in S /\ j < l /\ j # k
      OBVIOUS
    <3>1. j \in Nat /\ k \in Nat /\ l \in Nat
      BY <1>1
    <3> QED BY <1>4, <3>1
  <2>2. IsFiniteSet(below(l)) /\ Cardinality(below(l)) \in Nat
    BY <1>3, FS_CardinalityType
  <2>3. k \in below(l)
    BY <1>4
  <2>4. IsFiniteSet(below(l) \ {k}) /\ Cardinality(below(l) \ {k}) = Cardinality(below(l)) - 1
    <3> HIDE DEF below
    <3> QED BY <2>2, <2>3, FS_RemoveElement
  <2>5. Cardinality(below(k)) <= Cardinality(below(l)) - 1
    <3> HIDE DEF below
    <3> QED BY <2>1, <2>4, FS_Subset
  <2>6. Cardinality(below(k)) \in Nat
    BY <1>3, FS_CardinalityType
  <2> QED BY <2>2, <2>5, <2>6 DEF Rank
<1>5. rank \in [S -> 0..(m - 1)]
  BY <1>3
<1>6. \A k, l \in S : rank[k] = rank[l] => k = l
  <2> SUFFICES ASSUME NEW k \in S, NEW l \in S, k # l PROVE rank[k] # rank[l]
    OBVIOUS
  <2>1. k < l \/ l < k
    BY <1>1
  <2>2. \A j \in S : Rank(S, j) \in 0..(m - 1)
    BY <1>3
  <2>3. Rank(S, k) \in Int /\ Rank(S, l) \in Int
    <3> HIDE DEF m
    <3> QED BY <2>2
  <2>4. Rank(S, k) < Rank(S, l) \/ Rank(S, l) < Rank(S, k)
    BY <1>4, <2>1
  <2> QED BY <2>3, <2>4
<1> HIDE DEF rank, m
<1>7. rank \in Injection(S, 0..(m - 1))
  BY <1>5, <1>6 DEF Injection, IsInjective
<1>8. IsFiniteSet(0..(m - 1)) /\ Cardinality(0..(m - 1)) = m
  BY <1>2, FS_Interval
<1>9. rank \in Surjection(S, 0..(m - 1))
  BY <1>7, <1>8, FS_Injection DEF m
<1> QED BY <1>1, <1>2, <1>7, <1>9 DEF Bijection, rank, m

(* What a page holds, and when it is the last.                             *)
LEMMA PageFacts ==
  ASSUME NEW S \in SUBSET Logs, NEW offset \in Nat
  PROVE  LET n == Cardinality(Page(S, offset)) IN
           /\ Page(S, offset) \subseteq S /\ n \in 0..BatchSize
           /\ \A l \in S : Rank(S, l) \in Nat
           /\ \A l \in S : Rank(S, l) < offset + n => Rank(S, l) < offset \/ l \in Page(S, offset)
           /\ n < BatchSize =>
                /\ \A l \in S : Rank(S, l) < offset + n
                /\ Cardinality(S) <= offset + n
           /\ offset <= Cardinality(S) => offset + n <= Cardinality(S)
<1> DEFINE m == Cardinality(S)
           P == Page(S, offset)
           n == Cardinality(P)
           rank == [l \in S |-> Rank(S, l)]
           last == IF m <= offset + BatchSize THEN m - 1 ELSE offset + BatchSize - 1
<1>0. BatchSize \in Nat \ {0}
  BY RunsAssumption
<1>1. IsFiniteSet(S) /\ m \in Nat /\ rank \in Bijection(S, 0..(m - 1))
  BY RankRuns
<1>2. \A l \in S : rank[l] = Rank(S, l) /\ rank[l] \in 0..(m - 1)
  BY <1>1 DEF Bijection, Injection
<1>3. P = {l \in S : rank[l] \in offset..(offset + BatchSize - 1)}
  BY DEF Page, Rank
<1> HIDE DEF rank
<1>4. P \subseteq S /\ IsFiniteSet(P)
  BY <1>1, <1>3, FS_Subset
<1> HIDE DEF P, m
<1>5. ExistsBijection(P, offset..last)
  <2> DEFINE f == [l \in P |-> rank[l]]
  <2>1. \A l \in P : f[l] \in offset..last
    BY <1>0, <1>1, <1>2, <1>3
  <2>2. \A k, l \in P : f[k] = f[l] => k = l
    BY <1>1, <1>4 DEF Bijection, Injection, IsInjective
  <2>3. \A j \in offset..last : \E l \in P : f[l] = j
    <3> SUFFICES ASSUME NEW j \in offset..last PROVE \E l \in P : f[l] = j
      OBVIOUS
    <3>1. j \in 0..(m - 1) /\ j \in offset..(offset + BatchSize - 1)
      BY <1>0, <1>1
    <3>2. PICK l \in S : rank[l] = j
      BY <1>1, <3>1 DEF Bijection, Surjection
    <3> QED BY <1>3, <3>1, <3>2
  <2>4. f \in [P -> offset..last]
    BY <2>1
  <2> HIDE DEF f
  <2>5. f \in Bijection(P, offset..last)
    BY <2>2, <2>3, <2>4 DEF Bijection, Injection, IsInjective, Surjection
  <2> QED BY <2>5 DEF ExistsBijection
<1>6. last \in Int
  BY <1>0, <1>1
<1>7. n = (IF offset > last THEN 0 ELSE last - offset + 1)
  <2> HIDE DEF last
  <2>1. Cardinality(offset..last) = n
    BY <1>4, <1>5, FS_Bijection
  <2>2. Cardinality(offset..last) = IF offset > last THEN 0 ELSE last - offset + 1
    BY <1>6, FS_Interval
  <2> QED BY <2>1, <2>2
<1>8. /\ n \in 0..BatchSize
      /\ n < BatchSize => m <= offset + n
      /\ offset <= m => offset + n <= m
  BY <1>0, <1>1, <1>7
<1>9. \A l \in S : Rank(S, l) < offset + n => Rank(S, l) < offset \/ l \in P
  BY <1>0, <1>1, <1>2, <1>3, <1>8
<1>10. n < BatchSize => \A l \in S : Rank(S, l) < offset + n
  BY <1>1, <1>2, <1>8
<1> HIDE DEF n
<1> QED BY <1>2, <1>4, <1>8, <1>9, <1>10 DEF P, n, m

-----------------------------------------------------------------------------
(* The passes of the workers over a run.                                   *)

InRun(x) == InRange(x.from, x.to)
Busy(w) == w.pc \in {"verify", "progress", "complete"}
Frontier(w) == IF w.pc = "progress" THEN w.offset + w.loaded ELSE w.offset
AtEnd(w) == w.pc = "complete" \/ (w.pc = "progress" /\ w.loaded < BatchSize)

DueOK(x) == x.due \subseteq InRun(x) /\ x.total = Cardinality(x.due)
Covers(x) == x.status = "COMPLETED" /\ x.by # "agent" => x.due \subseteq x.seen
Tallied(x) ==
  /\ x.verified >= Cardinality(x.due)
  /\ x.verified <= Cardinality(InRun(x))
  /\ x.processed = Max({x.verified, x.total})

(* A worker has checked the due logs before its frontier.                  *)
Reached(w, x) ==
  /\ \A l \in x.due : Rank(InRun(x), l) < Frontier(w) => l \in x.seen
  /\ AtEnd(w) => x.due \subseteq x.seen

(* The counters of a run that one worker works on are its offset.          *)
Counted(w, x) ==
  /\ x.processed = w.offset /\ x.verified = w.offset
  /\ Frontier(w) <= Cardinality(InRun(x))
  /\ AtEnd(w) => x.total <= Frontier(w)

(* A run that was never shared belongs to one worker while it is RUNNING   *)
(* and to none before and after.                                           *)
Sole(r) ==
  ~runs[r].shared =>
    /\ \A g \in Gateways : worker[g].run = r => runs[r].status = "RUNNING"
    /\ \A g, h \in Gateways : worker[g].run = r /\ worker[h].run = r => g = h
    /\ runs[r].status = "QUEUED" => runs[r].processed = 0 /\ runs[r].verified = 0
    /\ runs[r].status = "COMPLETED" => runs[r].by = "agent" \/ Tallied(runs[r])

Works(g) ==
  Busy(worker[g]) =>
    /\ Reached(worker[g], runs[worker[g].run])
    /\ ~runs[worker[g].run].shared => Counted(worker[g], runs[worker[g].run])

PassInv ==
  /\ \A r \in RunIds : DueOK(runs[r]) /\ Covers(runs[r]) /\ Sole(r)
  /\ \A g \in Gateways : Works(g)

LEMMA RangeGrows ==
  ASSUME Present \subseteq Present'
  PROVE  \A from, to :
           /\ InRange(from, to) \subseteq InRange(from, to)'
           /\ Cardinality(InRange(from, to)) \in Nat
           /\ Cardinality(InRange(from, to)') \in Nat
           /\ Cardinality(InRange(from, to)) <= Cardinality(InRange(from, to)')
           /\ \A l : /\ Rank(InRange(from, to), l) \in Nat
                     /\ Rank(InRange(from, to)', l) \in Nat
                     /\ Rank(InRange(from, to), l) <= Rank(InRange(from, to)', l)
<1> SUFFICES ASSUME NEW from, NEW to
             PROVE  /\ InRange(from, to) \subseteq InRange(from, to)'
                    /\ Cardinality(InRange(from, to)) \in Nat
                    /\ Cardinality(InRange(from, to)') \in Nat
                    /\ Cardinality(InRange(from, to)) <= Cardinality(InRange(from, to)')
                    /\ \A l : /\ Rank(InRange(from, to), l) \in Nat
                              /\ Rank(InRange(from, to)', l) \in Nat
                              /\ Rank(InRange(from, to), l) <= Rank(InRange(from, to)', l)
  OBVIOUS
<1> DEFINE S == InRange(from, to)
           T == InRange(from, to)'
<1>1. S \subseteq T
  BY DEF InRange
<1>2. IsFiniteSet(T)
  <2>1. T \subseteq Logs
    BY DEF InRange, Present, Logs
  <2> QED BY <2>1, LogsFinite, FS_Subset
<1>3. \A U \in SUBSET T : IsFiniteSet(U) /\ Cardinality(U) \in Nat
  BY <1>2, FS_Subset, FS_CardinalityType
<1> HIDE DEF S, T
<1>4. \A l : Rank(S, l) \in Nat /\ Rank(T, l) \in Nat /\ Rank(S, l) <= Rank(T, l)
  <2> SUFFICES ASSUME NEW l
               PROVE  Rank(S, l) \in Nat /\ Rank(T, l) \in Nat /\ Rank(S, l) <= Rank(T, l)
    OBVIOUS
  <2> DEFINE A == {k \in S : k < l}
             B == {k \in T : k < l}
  <2>1. A \in SUBSET T /\ B \in SUBSET T /\ A \in SUBSET B
    BY <1>1
  <2> HIDE DEF A, B
  <2>2. Cardinality(A) \in Nat /\ Cardinality(B) \in Nat /\ Cardinality(A) <= Cardinality(B)
    BY <1>3, <2>1, FS_Subset
  <2> QED BY <2>2 DEF Rank, A, B
<1>5. Cardinality(S) \in Nat /\ Cardinality(T) \in Nat /\ Cardinality(S) <= Cardinality(T)
  BY <1>1, <1>2, <1>3, FS_Subset
<1> QED BY <1>1, <1>4, <1>5 DEF S, T

(* More logs in a range change nothing that holds of a run.                *)
LEMMA RunGrows ==
  ASSUME Present \subseteq Present', NEW x \in Run
  PROVE  /\ DueOK(x) => DueOK(x)'
         /\ Tallied(x) => Tallied(x)'
         /\ \A w \in Worker : Reached(w, x) => Reached(w, x)'
         /\ \A w \in Worker : Counted(w, x) => Counted(w, x)'
<1> DEFINE S == InRun(x)
           T == InRun(x)'
<1>1. /\ S \subseteq T /\ Cardinality(S) \in Nat /\ Cardinality(T) \in Nat
      /\ Cardinality(S) <= Cardinality(T)
      /\ \A l : /\ Rank(S, l) \in Nat /\ Rank(T, l) \in Nat
                /\ Rank(S, l) <= Rank(T, l)
  BY RangeGrows DEF InRun
<1> HIDE DEF S, T
<1>2. DueOK(x) => DueOK(x)'
  BY <1>1 DEF DueOK, S, T
<1>3. Tallied(x) => Tallied(x)'
  <2>1. x.verified \in Nat
    BY DEF Run
  <2> QED BY <1>1, <2>1 DEF Tallied, S, T
<1>4. ASSUME NEW w \in Worker PROVE Frontier(w) \in Nat
  BY <1>4 DEF Frontier, Worker
<1>5. ASSUME NEW w \in Worker, Reached(w, x) PROVE Reached(w, x)'
  <2>1. \A l \in x.due : Rank(S, l) < Frontier(w) => l \in x.seen
    BY <1>5 DEF Reached, S
  <2>2. \A l \in x.due : Rank(T, l) < Frontier(w) => l \in x.seen
    BY <1>1, <1>4, <2>1
  <2> QED BY <1>5, <2>2 DEF Reached, T, Frontier, AtEnd
<1>6. ASSUME NEW w \in Worker, Counted(w, x) PROVE Counted(w, x)'
  <2>1. Frontier(w) <= Cardinality(T)
    BY <1>1, <1>4, <1>6 DEF Counted, S
  <2> QED BY <1>6, <2>1 DEF Counted, T, Frontier, AtEnd
<1> QED BY <1>2, <1>3, <1>5, <1>6

(* The identity of a run, and what only grows.                             *)
Like(y, x) ==
  /\ y.by = x.by /\ y.from = x.from /\ y.to = x.to
  /\ y.total = x.total /\ y.due = x.due
  /\ x.seen \subseteq y.seen

(* A run keeps its identity, and its end unless two workers share it.      *)
KeptRun(r) ==
  /\ r \in RunIds' /\ Like(runs'[r], runs[r])
  /\ runs[r].shared => runs'[r].shared
  /\ runs[r].status \in {"COMPLETED", "FAILED"} /\ ~runs'[r].shared =>
       runs'[r].status = runs[r].status
  /\ runs[r].status = "COMPLETED" => runs'[r].shared = runs[r].shared

RunsKept == \A r \in RunIds : KeptRun(r)

LEMMA RunIdsTyped ==
  ASSUME RunsOK
  PROVE  /\ RunIds = 1..Len(runs) /\ Len(runs) \in Nat /\ 0 \notin RunIds
         /\ \A r \in RunIds : r \in Nat /\ runs[r] \in Run
BY DEF RunsOK, RunIds

LEMMA StillKeeps ==
  ASSUME TypeOK, PassInv, UNCHANGED <<runs, worker>>, Present \subseteq Present'
  PROVE  PassInv' /\ RunsKept
<1>1. RunIds' = RunIds /\ \A r \in RunIds : runs[r] \in Run
  BY RunIdsTyped DEF RunIds, TypeOK
<1>2. ASSUME NEW r \in RunIds
      PROVE  (DueOK(runs[r]) /\ Covers(runs[r]) /\ Sole(r))'
  <2>1. DueOK(runs[r]) /\ Covers(runs[r]) /\ Sole(r)
    BY DEF PassInv
  <2>2. runs[r] \in Run /\ runs'[r] = runs[r] /\ UNCHANGED worker
    BY <1>1
  <2>3. /\ DueOK(runs[r]) => DueOK(runs[r])'
        /\ Tallied(runs[r]) => Tallied(runs[r])'
    <3>1. \A x \in Run : (DueOK(x) => DueOK(x)') /\ (Tallied(x) => Tallied(x)')
      BY RunGrows
    <3> QED BY <2>2, <3>1 DEF DueOK, Tallied, InRun
  <2> QED BY <2>1, <2>2, <2>3 DEF Covers, Sole
<1>3. ASSUME NEW g \in Gateways PROVE Works(g)'
  <2>1. Works(g) /\ worker[g] \in Worker /\ HoldsRun(worker[g]) /\ UNCHANGED worker
    BY DEF PassInv, TypeOK, WorkersOK
  <2>2. \A x \in Run, w \in Worker :
          (Reached(w, x) => Reached(w, x)') /\ (Counted(w, x) => Counted(w, x)')
    BY RunGrows
  <2>3. Busy(worker[g]) => worker[g].run \in RunIds /\ runs[worker[g].run] \in Run
    BY <1>1, <2>1 DEF Busy, HoldsRun
  <2> QED BY <2>1, <2>2, <2>3 DEF Works, Busy, Reached, Counted, InRun, Frontier, AtEnd
<1>4. RunsKept
  BY <1>1 DEF RunsKept, KeptRun, Like
<1> QED BY <1>1, <1>2, <1>3, <1>4 DEF PassInv

Kinds == {"user", "agent", "scheduler"}

LEMMA NewRunTyped ==
  ASSUME NEW from \in Int, NEW to \in Int, NEW by \in Kinds, NEW status \in RunStatus
  PROVE  LET x == NewRun(from, to, by, status) IN
           /\ x \in Run /\ DueOK(x) /\ x.by = by /\ x.from = from /\ x.to = to
           /\ x.status = status /\ x.due = InRange(from, to) /\ ~x.shared
           /\ x.processed = 0 /\ x.verified = 0
<1>1. InRange(from, to) \in SUBSET Logs /\ Cardinality(InRange(from, to)) \in Nat
  BY LogsFinite, FS_CardinalityType
<1> HIDE DEF Run
<1>2. NewRun(from, to, by, status) \in Run
  BY <1>1 DEF NewRun, Run, Kinds
<1> QED BY <1>2 DEF NewRun, DueOK, InRun

LEMMA AddKeeps ==
  ASSUME TypeOK, PassInv, UNCHANGED <<arrived, worker>>,
         NEW x \in Run, DueOK(x), x.status = "QUEUED" \/ x.by = "agent", ~x.shared,
         x.processed = 0, x.verified = 0, x.status \in {"QUEUED", "COMPLETED"},
         runs' = Append(runs, x)
  PROVE  RunsOK' /\ WorkersOK' /\ PassInv' /\ RunsKept
<1> DEFINE n == Len(runs)
<1>1. /\ runs \in Seq(Run) /\ RunIds = 1..n /\ n \in Nat
      /\ \A r \in RunIds : runs[r] \in Run
  BY RunIdsTyped DEF TypeOK, RunsOK
<1>2. /\ runs' \in Seq(Run) /\ RunIds' = 1..(n + 1) /\ runs'[n + 1] = x
      /\ \A r \in RunIds : runs'[r] = runs[r]
  BY <1>1 DEF RunIds
<1> HIDE DEF n
<1>3. \A g \in Gateways : worker[g] \in Worker /\ HoldsRun(worker[g])
  BY DEF TypeOK, WorkersOK
<1>4. /\ \A r \in RunIds : r \in RunIds'
      /\ \A r \in RunIds' : r \in RunIds \/ r = n + 1
      /\ n + 1 \notin RunIds /\ n + 1 # 0
  BY <1>1, <1>2
<1>5. \A g \in Gateways : worker[g].run # n + 1
  BY <1>3, <1>4 DEF HoldsRun
<1>6. WorkersOK'
  BY <1>3, <1>4 DEF WorkersOK, HoldsRun, TypeOK
<1>7. \A from, to : InRange(from, to)' = InRange(from, to)
  BY DEF InRange, Present
<1>8. ASSUME NEW r \in RunIds' PROVE (DueOK(runs[r]) /\ Covers(runs[r]) /\ Sole(r))'
  <2>1. CASE r \in RunIds
    <3>1. DueOK(runs[r]) /\ Covers(runs[r]) /\ Sole(r) /\ runs'[r] = runs[r] /\ UNCHANGED worker
      BY <1>2, <2>1 DEF PassInv
    <3> QED BY <1>7, <3>1 DEF DueOK, Covers, Sole, InRun, Tallied
  <2>2. CASE r = n + 1
    <3>1. DueOK(runs[r])' /\ Covers(runs[r])'
      BY <1>2, <1>7, <2>2 DEF DueOK, Covers, InRun
    <3>2. Sole(r)'
      BY <1>2, <1>5, <2>2 DEF Sole
    <3> QED BY <3>1, <3>2
  <2> QED BY <1>4, <2>1, <2>2
<1>9. ASSUME NEW g \in Gateways PROVE Works(g)'
  <2>1. Works(g) /\ HoldsRun(worker[g]) /\ UNCHANGED worker
    BY <1>3 DEF PassInv
  <2>2. Busy(worker[g]) => runs'[worker[g].run] = runs[worker[g].run]
    BY <1>2, <2>1 DEF Busy, HoldsRun
  <2> QED BY <1>7, <2>1, <2>2 DEF Works, Busy, Reached, Counted, InRun, Frontier, AtEnd
<1>10. RunsKept
  BY <1>2, <1>4 DEF RunsKept, KeptRun, Like
<1> QED BY <1>2, <1>6, <1>8, <1>9, <1>10 DEF RunsOK, PassInv

(* A step of a worker on its run.                                          *)
LEMMA WorkKeeps ==
  ASSUME TypeOK, PassInv, UNCHANGED arrived,
         NEW g \in Gateways, NEW r \in RunIds, worker[g].run = r,
         NEW x \in Run, Like(x, runs[r]), x.shared = runs[r].shared,
         NEW w \in Worker, Busy(w) \/ w.pc = "failed" => w.run = r,
         w.pc \in {"down", "idle"} => w.run = 0,
         x.status = runs[r].status \/ (x.status \in {"COMPLETED", "FAILED"} /\ w.run = 0),
         Covers(x),
         Busy(w) => Reached(w, x) /\ (~x.shared => Counted(w, x)),
         ~x.shared /\ x.status = "COMPLETED" => x.by = "agent" \/ Tallied(x),
         runs' = [runs EXCEPT ![r] = x], worker' = [worker EXCEPT ![g] = w]
  PROVE  RunsOK' /\ WorkersOK' /\ PassInv' /\ RunsKept
<1>1. /\ runs \in Seq(Run) /\ RunIds = 1..Len(runs) /\ 0 \notin RunIds
      /\ \A q \in RunIds : runs[q] \in Run
  BY RunIdsTyped DEF TypeOK, RunsOK
<1>2. /\ runs' \in Seq(Run) /\ RunIds' = RunIds /\ runs'[r] = x
      /\ \A q \in RunIds \ {r} : runs'[q] = runs[q]
  BY <1>1 DEF RunIds
<1>3. /\ worker \in [Gateways -> Worker] /\ \A h \in Gateways : HoldsRun(worker[h])
      /\ worker'[g] = w /\ \A h \in Gateways \ {g} : worker'[h] = worker[h]
  BY DEF TypeOK, WorkersOK
<1>4. WorkersOK'
  <2>1. worker' \in [Gateways -> Worker]
    BY <1>3
  <2>2. HoldsRun(w)'
    BY <1>2 DEF HoldsRun, Busy, Worker
  <2>3. \A h \in Gateways \ {g} : HoldsRun(worker[h])'
    BY <1>2, <1>3 DEF HoldsRun
  <2> QED BY <1>3, <2>1, <2>2, <2>3 DEF WorkersOK, HoldsRun
<1>5. \A from, to : InRange(from, to)' = InRange(from, to)
  BY DEF InRange, Present
<1>6. \A q \in RunIds : DueOK(runs[q]) /\ Covers(runs[q]) /\ Sole(q)
  BY DEF PassInv
<1>7. ASSUME NEW q \in RunIds, q # r PROVE (DueOK(runs[q]) /\ Covers(runs[q]) /\ Sole(q))'
  <2>1. runs'[q] = runs[q]
    BY <1>2, <1>7
  <2>2. \A h \in Gateways : worker'[h].run = q => worker[h].run = q /\ h # g
    <3>1. w.run \in {0, r}
      BY DEF Busy, Worker
    <3>2. w.run # q
      BY <1>1, <1>7, <3>1
    <3> QED BY <1>3, <3>2
  <2> QED BY <1>5, <1>6, <2>1, <2>2 DEF DueOK, Covers, Sole, InRun, Tallied
<1>8. DueOK(runs[r])' /\ Covers(runs[r])'
  BY <1>2, <1>5, <1>6 DEF DueOK, Covers, InRun, Like
<1>9. Sole(r)'
  <2> SUFFICES ASSUME ~x.shared
               PROVE  /\ \A h \in Gateways : worker'[h].run = r => x.status = "RUNNING"
                      /\ \A h, i \in Gateways : worker'[h].run = r /\ worker'[i].run = r => h = i
                      /\ x.status = "QUEUED" => x.processed = 0 /\ x.verified = 0
                      /\ x.status = "COMPLETED" => x.by = "agent" \/ Tallied(x)'
    BY <1>2 DEF Sole
  <2>1. /\ runs[r].status = "RUNNING"
        /\ \A h \in Gateways : worker[h].run = r => h = g
    BY <1>6 DEF Sole
  <2>2. \A h \in Gateways : worker'[h].run = r => h = g /\ w.run = r
    BY <1>3, <2>1
  <2>3. w.run = r => x.status = "RUNNING"
    BY <1>1, <2>1
  <2>4. Tallied(x) => Tallied(x)'
    BY <1>5 DEF Tallied, InRun
  <2> QED BY <2>1, <2>2, <2>3, <2>4
<1>10. ASSUME NEW h \in Gateways PROVE Works(h)'
  <2>1. CASE h = g
    <3>1. Busy(w) => w.run = r /\ Reached(w, x)' /\ (~x.shared => Counted(w, x)')
      BY <1>5 DEF Reached, Counted, InRun, Frontier, AtEnd
    <3> QED BY <1>2, <1>3, <2>1, <3>1 DEF Works, Busy, Reached, Counted, InRun, Frontier, AtEnd
  <2>2. CASE h # g
    <3>1. worker'[h] = worker[h] /\ Works(h) /\ HoldsRun(worker[h])
      BY <1>3, <2>2 DEF PassInv
    <3>2. CASE worker[h].run # r
      <4>1. Busy(worker[h]) => runs'[worker[h].run] = runs[worker[h].run]
        BY <1>2, <3>1, <3>2 DEF Busy, HoldsRun
      <4> QED BY <1>5, <3>1, <4>1 DEF Works, Busy, Reached, Counted, InRun, Frontier, AtEnd
    <3>3. CASE worker[h].run = r
      <4>1. x.shared
        BY <1>6, <2>2, <3>3 DEF Sole
      <4>2. ASSUME Reached(worker[h], runs[r]) PROVE Reached(worker[h], x)'
        BY <1>5, <3>1, <4>2 DEF Reached, InRun, Like, Frontier, AtEnd
      <4>3. Busy(worker[h]) => Reached(worker[h], x)'
        BY <3>1, <3>3, <4>2 DEF Works
      <4>4. Busy(worker[h]) => Reached(worker[h], runs[worker[h].run])'
        BY <1>2, <3>1, <3>3, <4>3 DEF Reached, InRun, Frontier, AtEnd
      <4> QED BY <1>2, <3>1, <3>3, <4>1, <4>4 DEF Works, Busy
    <3> QED BY <3>2, <3>3
  <2> QED BY <2>1, <2>2
<1>11. \A q \in RunIds' : (DueOK(runs[q]) /\ Covers(runs[q]) /\ Sole(q))'
  BY <1>2, <1>7, <1>8, <1>9
<1>12. RunsKept
  <2> SUFFICES ASSUME NEW q \in RunIds PROVE KeptRun(q)
    BY DEF RunsKept
  <2>1. CASE q = r
    BY <1>2, <1>6, <2>1 DEF KeptRun, Sole
  <2>2. CASE q # r
    BY <1>2, <2>2 DEF KeptRun, Like
  <2> QED BY <2>1, <2>2
<1> QED BY <1>2, <1>4, <1>10, <1>11, <1>12 DEF RunsOK, PassInv

(* A worker without a run comes and goes.                                  *)
LEMMA IdleKeeps ==
  ASSUME TypeOK, PassInv, UNCHANGED <<arrived, runs>>,
         NEW g \in Gateways, worker[g].run = 0,
         NEW w \in Worker, w.run = 0, w.pc \in {"down", "idle"},
         worker' = [worker EXCEPT ![g] = w]
  PROVE  RunsOK' /\ WorkersOK' /\ PassInv' /\ RunsKept
<1>1. /\ runs \in Seq(Run) /\ 0 \notin RunIds /\ RunIds' = RunIds
  BY RunIdsTyped DEF TypeOK, RunsOK, RunIds
<1>2. /\ worker \in [Gateways -> Worker] /\ \A h \in Gateways : HoldsRun(worker[h])
      /\ worker'[g] = w /\ \A h \in Gateways \ {g} : worker'[h] = worker[h]
  BY DEF TypeOK, WorkersOK
<1>3. WorkersOK'
  <2>1. worker' \in [Gateways -> Worker]
    BY <1>2
  <2>2. \A h \in Gateways : HoldsRun(worker[h])'
    BY <1>1, <1>2 DEF HoldsRun
  <2> QED BY <2>1, <2>2 DEF WorkersOK
<1>4. \A from, to : InRange(from, to)' = InRange(from, to)
  BY DEF InRange, Present
<1>5. ASSUME NEW r \in RunIds PROVE (DueOK(runs[r]) /\ Covers(runs[r]) /\ Sole(r))'
  <2>1. DueOK(runs[r]) /\ Covers(runs[r]) /\ Sole(r)
    BY DEF PassInv
  <2>2. \A h \in Gateways : worker'[h].run = r => worker[h].run = r
    BY <1>1, <1>2
  <2> QED BY <1>4, <2>1, <2>2 DEF DueOK, Covers, Sole, InRun, Tallied
<1>6. ASSUME NEW h \in Gateways PROVE Works(h)'
  <2>1. CASE h = g
    BY <1>2, <2>1 DEF Works, Busy
  <2>2. CASE h # g
    <3>1. worker'[h] = worker[h] /\ Works(h)
      BY <1>2, <2>2 DEF PassInv
    <3> QED BY <1>4, <3>1 DEF Works, Busy, Reached, Counted, InRun, Frontier, AtEnd
  <2> QED BY <2>1, <2>2
<1>7. RunsKept
  BY <1>1 DEF RunsKept, KeptRun, Like
<1> QED BY <1>1, <1>3, <1>5, <1>6, <1>7 DEF RunsOK, PassInv

LEMMA ClaimKeeps ==
  ASSUME TypeOK, PassInv, UNCHANGED arrived,
         NEW g \in Gateways, NEW r \in RunIds, runs[r].status = "QUEUED", worker[g].run = 0,
         NEW x \in Run, Like(x, runs[r]), x.status = "RUNNING", x.shared = runs[r].shared,
         x.processed = runs[r].processed, x.verified = runs[r].verified, x.seen = runs[r].seen,
         NEW w \in Worker, w.pc = "verify", w.run = r, w.offset = 0,
         runs' = [runs EXCEPT ![r] = x],
         worker' = [worker EXCEPT ![g] = w]
  PROVE  RunsOK' /\ WorkersOK' /\ PassInv' /\ RunsKept
<1>1. /\ runs \in Seq(Run) /\ RunIds = 1..Len(runs) /\ 0 \notin RunIds
      /\ \A q \in RunIds : runs[q] \in Run /\ q \in Nat
  BY RunIdsTyped DEF TypeOK, RunsOK
<1>2. /\ runs' \in Seq(Run) /\ RunIds' = RunIds /\ runs'[r] = x
      /\ \A q \in RunIds \ {r} : runs'[q] = runs[q]
  BY <1>1 DEF RunIds
<1>3. /\ worker \in [Gateways -> Worker] /\ \A h \in Gateways : HoldsRun(worker[h])
      /\ worker'[g] = w /\ \A h \in Gateways \ {g} : worker'[h] = worker[h]
  BY DEF TypeOK, WorkersOK
<1>4. WorkersOK'
  <2>1. worker' \in [Gateways -> Worker]
    BY <1>3
  <2>2. \A h \in Gateways : HoldsRun(worker[h])'
    BY <1>2, <1>3 DEF HoldsRun
  <2> QED BY <2>1, <2>2 DEF WorkersOK
<1>5. \A from, to : InRange(from, to)' = InRange(from, to)
  BY DEF InRange, Present
<1>6. \A q \in RunIds : DueOK(runs[q]) /\ Covers(runs[q]) /\ Sole(q)
  BY DEF PassInv
<1>7. ASSUME NEW q \in RunIds, q # r PROVE (DueOK(runs[q]) /\ Covers(runs[q]) /\ Sole(q))'
  <2>1. runs'[q] = runs[q]
    BY <1>2, <1>7
  <2>2. \A h \in Gateways : worker'[h].run = q => worker[h].run = q /\ h # g
    BY <1>3, <1>7
  <2>3. DueOK(runs[q])' /\ Covers(runs[q])' /\ (Tallied(runs[q]) => Tallied(runs[q])')
    BY <1>5, <1>6, <2>1 DEF DueOK, Covers, InRun, Tallied
  <2>4. Sole(q)'
    BY <1>6, <2>1, <2>2, <2>3 DEF Sole
  <2> QED BY <2>3, <2>4
<1>8. (DueOK(runs[r]) /\ Covers(runs[r]) /\ Sole(r))'
  <2>1. DueOK(runs[r])' /\ Covers(runs[r])'
    BY <1>2, <1>5, <1>6 DEF DueOK, Covers, InRun, Like
  <2>2. ~x.shared => \A h \in Gateways : worker'[h].run = r => h = g
    BY <1>3, <1>6 DEF Sole
  <2>3. Sole(r)'
    BY <1>2, <2>2 DEF Sole
  <2> QED BY <2>1, <2>3
<1>9. ASSUME NEW h \in Gateways PROVE Works(h)'
  <2>1. CASE h = g
    <3>1. /\ \A l : Rank(InRun(x), l) \in Nat
          /\ Cardinality(InRun(x)) \in Nat
      BY RangeGrows DEF InRun, Present
    <3>2. Frontier(w) = 0 /\ ~AtEnd(w)
      BY DEF Frontier, AtEnd
    <3>3. Reached(w, x)
      BY <3>1, <3>2 DEF Reached
    <3>4. ~x.shared => Counted(w, x)
      BY <1>6, <3>1, <3>2 DEF Counted, Sole
    <3>5. Reached(w, x)' /\ (~x.shared => Counted(w, x)')
      BY <1>5, <3>3, <3>4 DEF Reached, Counted, InRun, Frontier, AtEnd
    <3> QED BY <1>2, <1>3, <2>1, <3>5 DEF Works, Reached, Counted, InRun, Frontier, AtEnd
  <2>2. CASE h # g
    <3>1. worker'[h] = worker[h] /\ Works(h) /\ HoldsRun(worker[h])
      BY <1>3, <2>2 DEF PassInv
    <3>2. CASE worker[h].run # r
      <4>1. Busy(worker[h]) => runs'[worker[h].run] = runs[worker[h].run]
        BY <1>2, <3>1, <3>2 DEF Busy, HoldsRun
      <4> QED BY <1>5, <3>1, <4>1 DEF Works, Busy, Reached, Counted, InRun, Frontier, AtEnd
    <3>3. CASE worker[h].run = r
      <4>1. x.shared
        BY <1>6, <3>3 DEF Sole
      <4>2. ASSUME Reached(worker[h], runs[r]) PROVE Reached(worker[h], x)'
        BY <1>5, <3>1, <4>2 DEF Reached, InRun, Like, Frontier, AtEnd
      <4>3. Busy(worker[h]) => Reached(worker[h], x)'
        BY <3>1, <3>3, <4>2 DEF Works
      <4>4. Busy(worker[h]) => Reached(worker[h], runs[worker[h].run])'
        BY <1>2, <3>1, <3>3, <4>3 DEF Reached, InRun, Frontier, AtEnd
      <4> QED BY <1>2, <3>1, <3>3, <4>1, <4>4 DEF Works, Busy
    <3> QED BY <3>2, <3>3
  <2> QED BY <2>1, <2>2
<1>10. \A q \in RunIds' : (DueOK(runs[q]) /\ Covers(runs[q]) /\ Sole(q))'
  BY <1>2, <1>7, <1>8
<1>11. RunsKept
  <2> SUFFICES ASSUME NEW q \in RunIds PROVE KeptRun(q)
    BY DEF RunsKept
  <2>1. CASE q = r
    BY <1>2, <2>1 DEF KeptRun
  <2>2. CASE q # r
    BY <1>2, <2>2 DEF KeptRun, Like
  <2> QED BY <2>1, <2>2
<1> QED BY <1>2, <1>4, <1>9, <1>10, <1>11 DEF RunsOK, PassInv

(* What a starting gateway does to a run.                                  *)
Restarted(y, x, r) ==
  /\ Like(y, x) /\ y.seen = x.seen
  /\ \/ /\ y.status = x.status /\ y.shared = x.shared
        /\ y.processed = x.processed /\ y.verified = x.verified
     \/ /\ x.status = "RUNNING" /\ y.status = "QUEUED"
        /\ y.processed = 0 /\ y.verified = 0 /\ y.shared = (x.shared \/ WorkedOn(r))

LEMMA StartKeeps ==
  ASSUME TypeOK, PassInv, UNCHANGED arrived,
         NEW g \in Gateways, worker[g].pc = "down",
         worker' = [worker EXCEPT ![g].pc = "idle"],
         NEW new \in [RunIds -> Run], runs' = new,
         \A r \in RunIds : Restarted(new[r], runs[r], r)
  PROVE  RunsOK' /\ WorkersOK' /\ PassInv' /\ RunsKept
<1>1. /\ runs \in Seq(Run) /\ RunIds = 1..Len(runs) /\ Len(runs) \in Nat
      /\ \A q \in RunIds : runs[q] \in Run
  BY RunIdsTyped DEF TypeOK, RunsOK
<1>2. runs' \in Seq(Run) /\ RunIds' = RunIds
  BY <1>1 DEF RunIds
<1>3. /\ worker \in [Gateways -> Worker] /\ \A h \in Gateways : HoldsRun(worker[h])
      /\ \A h \in Gateways : worker'[h].run = worker[h].run
      /\ ~Busy(worker'[g]) /\ \A h \in Gateways \ {g} : worker'[h] = worker[h]
  <2>1. worker \in [Gateways -> Worker] /\ \A h \in Gateways : HoldsRun(worker[h])
    BY DEF TypeOK, WorkersOK
  <2>2. worker'[g].run = worker[g].run /\ worker'[g].pc = "idle"
    BY <2>1 DEF Worker
  <2> QED BY <2>1, <2>2 DEF Busy
<1>4. WorkersOK'
  <2>1. [worker[g] EXCEPT !.pc = "idle"] \in Worker /\ [worker[g] EXCEPT !.pc = "idle"].pc = "idle"
        /\ [worker[g] EXCEPT !.pc = "idle"].run = worker[g].run
    BY <1>3 DEF Worker
  <2>2. worker' \in [Gateways -> Worker]
    BY <1>3, <2>1
  <2>3. worker[g].run = 0 /\ worker'[g].pc = "idle"
    BY <1>3, <2>1 DEF HoldsRun
  <2>4. \A h \in Gateways : HoldsRun(worker[h])'
    BY <1>2, <1>3, <2>3 DEF HoldsRun
  <2> QED BY <2>2, <2>4 DEF WorkersOK
<1>5. \A from, to : InRange(from, to)' = InRange(from, to)
  BY DEF InRange, Present
<1>6. \A q \in RunIds : DueOK(runs[q]) /\ Covers(runs[q]) /\ Sole(q)
  BY DEF PassInv
<1>7. ASSUME NEW q \in RunIds PROVE (DueOK(runs[q]) /\ Covers(runs[q]) /\ Sole(q))'
  <2>1. Restarted(runs'[q], runs[q], q)
    OBVIOUS
  <2>2. DueOK(runs[q])' /\ Covers(runs[q])'
    BY <1>5, <1>6, <2>1 DEF DueOK, Covers, InRun, Restarted, Like
  <2>3. Sole(q)'
    <3>1. CASE /\ runs'[q].status = runs[q].status /\ runs'[q].shared = runs[q].shared
               /\ runs'[q].processed = runs[q].processed /\ runs'[q].verified = runs[q].verified
      <4>1. /\ runs'[q].due = runs[q].due /\ runs'[q].total = runs[q].total
            /\ runs'[q].from = runs[q].from /\ runs'[q].to = runs[q].to
            /\ runs'[q].by = runs[q].by
        BY <2>1 DEF Restarted, Like
      <4>2. Tallied(runs[q]) => Tallied(runs[q])'
        BY <1>5, <3>1, <4>1 DEF Tallied, InRun
      <4> QED BY <1>3, <1>6, <3>1, <4>1, <4>2 DEF Sole
    <3>2. CASE /\ runs'[q].status = "QUEUED" /\ runs'[q].processed = 0 /\ runs'[q].verified = 0
               /\ runs'[q].shared = (runs[q].shared \/ WorkedOn(q))
      BY <1>3, <3>2 DEF Sole, WorkedOn
    <3> QED BY <2>1, <3>1, <3>2 DEF Restarted
  <2> QED BY <2>2, <2>3
<1>8. ASSUME NEW h \in Gateways PROVE Works(h)'
  <2>1. CASE h = g
    BY <1>3, <2>1 DEF Works
  <2>2. CASE h # g
    <3> DEFINE r == worker[h].run
    <3>1. worker'[h] = worker[h] /\ Works(h)
      BY <1>3, <2>2 DEF PassInv
    <3>2. SUFFICES ASSUME Busy(worker[h])
                   PROVE  /\ Reached(worker[h], runs[r])'
                          /\ ~runs'[r].shared => Counted(worker[h], runs[r])'
      BY <3>1 DEF Works
    <3>3. r \in RunIds /\ Restarted(runs'[r], runs[r], r)
      BY <1>3, <3>2 DEF HoldsRun, Busy
    <3>4. Reached(worker[h], runs[r])'
      <4>1. Reached(worker[h], runs[r])
        BY <3>1, <3>2 DEF Works
      <4>2. /\ runs'[r].due = runs[r].due /\ runs'[r].seen = runs[r].seen
            /\ InRun(runs[r])' = InRun(runs[r])
        BY <1>5, <3>1, <3>3 DEF Restarted, Like, InRun
      <4> QED BY <3>1, <4>1, <4>2 DEF Reached, Frontier, AtEnd
    <3>5. ~runs'[r].shared => Counted(worker[h], runs[r])'
      <4>1. ASSUME ~runs'[r].shared
            PROVE  /\ ~runs[r].shared
                   /\ runs'[r].processed = runs[r].processed /\ runs'[r].verified = runs[r].verified
        BY <3>3, <4>1 DEF Restarted, WorkedOn
      <4>2. ~runs[r].shared => Counted(worker[h], runs[r])
        BY <3>1, <3>2 DEF Works
      <4> QED BY <1>5, <3>1, <3>3, <4>1, <4>2 DEF Counted, InRun, Frontier, AtEnd, Restarted, Like
    <3> QED BY <3>4, <3>5
  <2> QED BY <2>1, <2>2
<1>9. RunsKept
  <2> SUFFICES ASSUME NEW q \in RunIds PROVE KeptRun(q)
    BY DEF RunsKept
  <2>1. Restarted(runs'[q], runs[q], q)
    OBVIOUS
  <2> QED BY <1>2, <2>1 DEF KeptRun, Restarted
<1> QED BY <1>2, <1>4, <1>7, <1>8, <1>9 DEF RunsOK, PassInv

(* What every step does: types and passes are kept, runs keep their        *)
(* identity, and logs only arrive.                                         *)
Advances == TypeOK' /\ PassInv' /\ RunsKept /\ Present \subseteq Present'

LEMMA CompletedFinite ==
  ASSUME TypeOK, Completed # {}
  PROVE  /\ Cursor \in Int /\ \A r \in Completed : runs[r].to <= Cursor
         /\ \E c \in Completed : runs[c].to = Cursor
<1> DEFINE T == {runs[r].to : r \in Completed}
           f == [r \in Completed |-> runs[r].to]
<1>1. /\ RunIds = 1..Len(runs) /\ Len(runs) \in Nat
      /\ \A r \in RunIds : r \in Nat /\ runs[r] \in Run
  BY RunIdsTyped DEF TypeOK
<1>10. ASSUME NEW r \in RunIds PROVE runs[r].to \in Int
  <2>1. runs[r] \in Run
    BY <1>1
  <2> QED BY <2>1 DEF Run
<1>2. IsFiniteSet(Completed) /\ Completed \subseteq RunIds
  <2>1. Completed \in SUBSET RunIds
    BY DEF Completed
  <2>2. IsFiniteSet(RunIds)
    BY <1>1, FS_Interval
  <2> QED BY <2>1, <2>2, FS_Subset
<1>3. T \in SUBSET Int /\ T # {}
  BY <1>10, <1>2
<1>4. IsFiniteSet(T)
  <2>1. f \in Surjection(Completed, T)
    BY DEF Surjection
  <2> QED BY <1>2, <2>1, FS_Surjection
<1>5. Cursor = Max(T)
  BY DEF Cursor
<1>6. \A r \in Completed : runs[r].to \in T
  OBVIOUS
<1>7. \A y \in T : \E r \in Completed : runs[r].to = y
  OBVIOUS
<1> HIDE DEF T
<1>8. Max(T) \in T /\ \A y \in T : Max(T) >= y
  BY <1>3, <1>4, MaxIsLargest
<1> QED BY <1>3, <1>5, <1>6, <1>7, <1>8

LEMMA TickAdvances ==
  ASSUME TypeOK, PassInv, Tick PROVE Advances
<1>1. Present' = Present
  BY DEF Tick, Present
<1>2. PassInv' /\ RunsKept
  BY <1>1, StillKeeps DEF Tick
<1>3. WorldOK'
  BY RunsAssumption DEF Tick, TypeOK, WorldOK
<1>4. RunsOK' /\ WorkersOK' /\ PlansOK'
  BY DEF Tick, TypeOK, RunsOK, WorkersOK, HoldsRun, PlansOK, RunIds
<1> QED BY <1>1, <1>2, <1>3, <1>4 DEF Advances, TypeOK

LEMMA InsertAdvances ==
  ASSUME TypeOK, PassInv, NEW l \in Logs, Insert(l) PROVE Advances
<1>1. Present \subseteq Present'
  BY DEF Insert, Present, TypeOK, WorldOK
<1>2. PassInv' /\ RunsKept
  BY <1>1, StillKeeps DEF Insert
<1>3. WorldOK'
  BY RunsAssumption DEF Insert, TypeOK, WorldOK
<1>4. RunsOK' /\ WorkersOK' /\ PlansOK'
  BY DEF Insert, TypeOK, RunsOK, WorkersOK, HoldsRun, PlansOK, RunIds
<1> QED BY <1>1, <1>2, <1>3, <1>4 DEF Advances, TypeOK

LEMMA PlanAdvances ==
  ASSUME TypeOK, PassInv, NEW g \in Gateways, Plan(g)
  PROVE  Advances /\ DueRange \in Int \X Int /\ DueRange[2] = now
<1>1. Present' = Present
  BY DEF Plan, Present
<1>2. PassInv' /\ RunsKept
  BY <1>1, StillKeeps DEF Plan
<1>3. WorldOK' /\ RunsOK' /\ WorkersOK'
  BY DEF Plan, TypeOK, WorldOK, RunsOK, WorkersOK, HoldsRun, RunIds
<1>4. DueRange \in Int \X Int /\ DueRange[2] = now
  BY CompletedFinite, RunsAssumption DEF DueRange, TypeOK, WorldOK
<1>5. PlansOK'
  <2> HIDE DEF DueRange
  <2> QED BY <1>4 DEF Plan, TypeOK, PlansOK
<1> QED BY <1>1, <1>2, <1>3, <1>4, <1>5 DEF Advances, TypeOK

(* Enqueue adds a queued run of the range or nothing.                      *)
LEMMA EnqueueKeeps ==
  ASSUME TypeOK, PassInv, UNCHANGED <<arrived, worker>>,
         NEW range \in Int \X Int, NEW by \in Kinds, Enqueue(range, by)
  PROVE  RunsOK' /\ WorkersOK' /\ PassInv' /\ RunsKept
<1> DEFINE x == NewRun(range[1], range[2], by, "QUEUED")
<1>1. CASE UNCHANGED runs
  <2>1. Present' = Present
    BY DEF Present
  <2>2. PassInv' /\ RunsKept
    BY <1>1, <2>1, StillKeeps
  <2> QED BY <1>1, <2>2 DEF TypeOK, RunsOK, WorkersOK, HoldsRun, RunIds
<1>2. CASE runs' = Append(runs, x)
  <2>1. /\ x \in Run /\ DueOK(x) /\ x.by = by /\ x.status = "QUEUED" /\ ~x.shared
        /\ x.processed = 0 /\ x.verified = 0
    BY NewRunTyped DEF RunStatus
  <2> HIDE DEF x
  <2> QED BY <1>2, <2>1, AddKeeps
<1> QED BY <1>1, <1>2 DEF Enqueue

LEMMA UserRequestAdvances ==
  ASSUME TypeOK, PassInv, NEW range \in UserRanges, UserRequest(range)
  PROVE  Advances
<1>1. Present' = Present
  BY DEF UserRequest, Present
<1>2. range \in Int \X Int
  BY RunsAssumption
<1>3. RunsOK' /\ WorkersOK' /\ PassInv' /\ RunsKept
  BY <1>2, EnqueueKeeps DEF UserRequest, Kinds
<1>4. WorldOK' /\ PlansOK'
  BY DEF UserRequest, TypeOK, WorldOK, PlansOK
<1> QED BY <1>1, <1>3, <1>4 DEF Advances, TypeOK

LEMMA AgentReportAdvances ==
  ASSUME TypeOK, PassInv, NEW range \in AgentRanges, AgentReport(range)
  PROVE  Advances
<1> DEFINE x == NewRun(range[1], range[2], "agent", "COMPLETED")
<1>1. Present' = Present
  BY DEF AgentReport, Present
<1>2. range \in Int \X Int
  BY RunsAssumption
<1>3. /\ x \in Run /\ DueOK(x) /\ x.by = "agent" /\ x.status = "COMPLETED" /\ ~x.shared
      /\ x.processed = 0 /\ x.verified = 0
  BY <1>2, NewRunTyped DEF RunStatus, Kinds
<1>4. runs' = Append(runs, x) /\ UNCHANGED <<arrived, worker>>
  BY DEF AgentReport
<1> HIDE DEF x
<1>5. RunsOK' /\ WorkersOK' /\ PassInv' /\ RunsKept
  BY <1>3, <1>4, AddKeeps
<1>6. WorldOK' /\ PlansOK'
  BY DEF AgentReport, TypeOK, WorldOK, PlansOK
<1> QED BY <1>1, <1>5, <1>6 DEF Advances, TypeOK

LEMMA EnqueuePlanAdvances ==
  ASSUME TypeOK, PassInv, NEW g \in Gateways, EnqueuePlan(g)
  PROVE  Advances
<1>1. Present' = Present
  BY DEF EnqueuePlan, Present
<1>2. plan[g] \in Int \X Int
  BY DEF EnqueuePlan, TypeOK, PlansOK
<1>3. RunsOK' /\ WorkersOK' /\ PassInv' /\ RunsKept
  <2>1. CASE Enqueue(plan[g], "scheduler")
    <3>1. \A range \in Int \X Int :
            Enqueue(range, "scheduler") => RunsOK' /\ WorkersOK' /\ PassInv' /\ RunsKept
      BY EnqueueKeeps DEF EnqueuePlan, Kinds
    <3> QED BY <1>2, <2>1, <3>1
  <2>2. CASE UNCHANGED runs
    <3>1. PassInv' /\ RunsKept
      BY <1>1, <2>2, StillKeeps DEF EnqueuePlan
    <3> QED BY <2>2, <3>1 DEF EnqueuePlan, TypeOK, RunsOK, WorkersOK, HoldsRun, RunIds
  <2> QED BY <2>1, <2>2 DEF EnqueuePlan
<1>4. WorldOK' /\ PlansOK'
  BY DEF EnqueuePlan, TypeOK, WorldOK, PlansOK
<1> QED BY <1>1, <1>3, <1>4 DEF Advances, TypeOK

LEMMA IdleTyped ==
  Idle \in Worker /\ Idle.pc = "idle" /\ Idle.run = 0 /\ Idle.offset = 0
<1>1. 0 \in 0..BatchSize
  BY RunsAssumption
<1> QED BY <1>1 DEF Idle, Worker

LEMMA Settled ==
  ASSUME TypeOK, UNCHANGED <<now, arrived>>, PlansOK', faults' \in 0..MaxFaults,
         RunsOK' /\ WorkersOK' /\ PassInv' /\ RunsKept
  PROVE  Advances
BY DEF Advances, TypeOK, WorldOK, Present

LEMMA Holding ==
  ASSUME TypeOK, PassInv, NEW g \in Gateways, worker[g].pc \notin {"down", "idle"}
  PROVE  LET r == worker[g].run IN
           /\ r \in RunIds /\ runs[r] \in Run /\ worker[g] \in Worker
           /\ DueOK(runs[r]) /\ Covers(runs[r])
           /\ ~runs[r].shared => runs[r].status = "RUNNING"
           /\ Busy(worker[g]) => /\ Reached(worker[g], runs[r])
                                 /\ ~runs[r].shared => Counted(worker[g], runs[r])
<1>1. worker[g].run \in RunIds /\ worker[g] \in Worker
  BY DEF TypeOK, WorkersOK, HoldsRun
<1>2. runs[worker[g].run] \in Run
  BY <1>1, RunIdsTyped DEF TypeOK
<1>3. DueOK(runs[worker[g].run]) /\ Covers(runs[worker[g].run]) /\ Sole(worker[g].run)
  BY <1>1 DEF PassInv
<1>4. Works(g)
  BY DEF PassInv
<1> QED BY <1>1, <1>2, <1>3, <1>4 DEF Sole, Works

LEMMA StartAdvances ==
  ASSUME TypeOK, PassInv, NEW g \in Gateways, Start(g) \/ StartWithoutRequeue(g)
  PROVE  Advances
<1>1. PICK new : /\ runs' = new
                 /\ \/ new = [r \in RunIds |-> Requeue(runs[r], r)]
                    \/ new = [r \in RunIds |->
                         [runs[r] EXCEPT !.abandoned = @ \/ runs[r].status = "RUNNING"]]
  BY DEF Start, StartWithoutRequeue
<1>2. \A r \in RunIds : runs[r] \in Run
  BY RunIdsTyped DEF TypeOK
<1>3. ASSUME NEW r \in RunIds PROVE new[r] \in Run /\ Restarted(new[r], runs[r], r)
  <2>1. CASE new[r] = Requeue(runs[r], r)
    <3>1. CASE runs[r].status = "RUNNING"
      <4>1. WorkedOn(r) \in BOOLEAN
        BY DEF WorkedOn
      <4>2. new[r] = [runs[r] EXCEPT !.status = "QUEUED", !.processed = 0, !.verified = 0,
                                     !.shared = @ \/ WorkedOn(r)]
        BY <2>1, <3>1 DEF Requeue
      <4>3. new[r] \in Run
        <5>1. runs[r].shared \in BOOLEAN
          BY <1>2 DEF Run
        <5>2. PICK b \in BOOLEAN : b = (runs[r].shared \/ WorkedOn(r))
          BY <4>1, <5>1
        <5>3. new[r] = [runs[r] EXCEPT !.status = "QUEUED", !.processed = 0, !.verified = 0,
                                       !.shared = b]
          BY <4>2, <5>2
        <5>4. \A x \in Run : [x EXCEPT !.status = "QUEUED", !.processed = 0, !.verified = 0,
                                       !.shared = b] \in Run
          BY DEF Run, RunStatus
        <5> QED BY <1>2, <5>3, <5>4
      <4>4. /\ new[r].status = "QUEUED" /\ new[r].processed = 0 /\ new[r].verified = 0
            /\ new[r].shared = (runs[r].shared \/ WorkedOn(r))
            /\ new[r].seen = runs[r].seen /\ Like(new[r], runs[r])
        BY <1>2, <4>2 DEF Run, Like
      <4> QED BY <3>1, <4>3, <4>4 DEF Restarted
    <3>2. CASE runs[r].status # "RUNNING"
      <4>1. new[r] = runs[r]
        BY <2>1, <3>2 DEF Requeue
      <4> QED BY <1>2, <4>1 DEF Restarted, Like
    <3> QED BY <3>1, <3>2
  <2>2. CASE new[r] = [runs[r] EXCEPT !.abandoned = @ \/ runs[r].status = "RUNNING"]
    BY <1>2, <2>2 DEF Run, Restarted, Like
  <2> QED BY <1>1, <2>1, <2>2
<1>4. new \in [RunIds -> Run]
  BY <1>1, <1>3
<1>5. /\ worker[g].pc = "down" /\ worker' = [worker EXCEPT ![g].pc = "idle"]
      /\ UNCHANGED <<now, arrived, plan, faults>>
  BY DEF Start, StartWithoutRequeue, Goto
<1>6. RunsOK' /\ WorkersOK' /\ PassInv' /\ RunsKept
  BY <1>1, <1>3, <1>4, <1>5, StartKeeps
<1> QED BY <1>5, <1>6, Settled DEF TypeOK, WorldOK, PlansOK

LEMMA CrashAdvances ==
  ASSUME TypeOK, PassInv, NEW g \in Gateways, Crash(g)
  PROVE  Advances
<1>1. /\ worker[g].pc # "down" /\ worker' = [worker EXCEPT ![g] = Down]
      /\ UNCHANGED <<now, arrived, runs>>
  BY DEF Crash
<1>2. Down \in Worker /\ Down.run = 0 /\ Down.pc = "down"
  BY IdleTyped DEF Down, Worker
<1>3. RunsOK' /\ WorkersOK' /\ PassInv' /\ RunsKept
  <2>1. CASE worker[g].pc = "idle"
    <3>1. worker[g].run = 0
      BY <2>1 DEF TypeOK, WorkersOK, HoldsRun
    <3> QED BY <1>1, <1>2, <3>1, IdleKeeps
  <2>2. CASE worker[g].pc # "idle"
    <3>1. PICK r, x : r = worker[g].run /\ x = runs[r]
      OBVIOUS
    <3>2. /\ r \in RunIds /\ x \in Run /\ Covers(x)
          /\ ~x.shared => x.status = "RUNNING"
      BY <1>1, <2>2, <3>1, Holding
    <3>3. Like(x, runs[r]) /\ runs' = [runs EXCEPT ![r] = x]
      BY <1>1, <3>1 DEF Like, TypeOK, RunsOK
    <3>4. Down.pc \notin {"verify", "progress", "complete", "failed"}
      BY <1>2
    <3> QED BY <1>1, <1>2, <3>1, <3>2, <3>3, <3>4, WorkKeeps DEF Busy
  <2> QED BY <2>1, <2>2
<1>4. PlansOK' /\ faults' \in 0..MaxFaults
  BY RunsAssumption DEF Crash, Spend, TypeOK, PlansOK, WorldOK
<1> QED BY <1>1, <1>3, <1>4, Settled

LEMMA ClaimAdvances ==
  ASSUME TypeOK, PassInv, NEW g \in Gateways, Claim(g)
  PROVE  Advances
<1>1. /\ RunIds = 1..Len(runs) /\ Len(runs) \in Nat
      /\ \A r \in RunIds : r \in Nat /\ runs[r] \in Run
  BY RunIdsTyped DEF TypeOK
<1>2. Min(Queued) \in Queued
  <2>1. Queued \in SUBSET RunIds
    BY DEF Queued
  <2>2. IsFiniteSet(RunIds)
    BY <1>1, FS_Interval
  <2>3. IsFiniteSet(Queued) /\ Queued \in SUBSET Int
    <3>1. RunIds \subseteq Int
      BY <1>1
    <3>2. IsFiniteSet(Queued)
      BY <2>1, <2>2, FS_Subset
    <3> QED BY <2>1, <3>1, <3>2
  <2> QED BY <2>3, MinIsElement DEF Claim
<1>3. PICK r, x, w : /\ r = Min(Queued) /\ x = [runs[r] EXCEPT !.status = "RUNNING"]
                     /\ w = [Idle EXCEPT !.pc = "verify", !.run = r]
  OBVIOUS
<1>4. r \in RunIds /\ runs[r].status = "QUEUED" /\ runs[r] \in Run
  BY <1>1, <1>2, <1>3 DEF Queued
<1>5. /\ x \in Run /\ Like(x, runs[r]) /\ x.status = "RUNNING" /\ x.shared = runs[r].shared
      /\ x.processed = runs[r].processed /\ x.verified = runs[r].verified
      /\ x.seen = runs[r].seen
  BY <1>3, <1>4 DEF Run, RunStatus, Like
<1>6. w \in Worker /\ w.pc = "verify" /\ w.run = r /\ w.offset = 0
  <2>1. r \in Nat
    BY <1>1, <1>4
  <2> QED BY <1>3, <2>1, IdleTyped DEF Worker
<1>7. worker[g].pc = "idle" /\ worker[g].run = 0
  BY DEF Claim, TypeOK, WorkersOK, HoldsRun
<1>8. runs' = [runs EXCEPT ![r] = x] /\ worker' = [worker EXCEPT ![g] = w]
  BY <1>3 DEF Claim
<1>9. UNCHANGED <<now, arrived, plan, faults>>
  BY DEF Claim
<1>10. RunsOK' /\ WorkersOK' /\ PassInv' /\ RunsKept
  BY <1>4, <1>5, <1>6, <1>7, <1>8, <1>9, ClaimKeeps
<1> QED BY <1>9, <1>10, Settled DEF TypeOK, WorldOK, PlansOK

LEMMA VerifyPageAdvances ==
  ASSUME TypeOK, PassInv, NEW g \in Gateways, VerifyPage(g)
  PROVE  Advances
<1>1. PICK r, S, page, n, x, w :
        /\ r = worker[g].run /\ S = InRun(runs[r]) /\ page = Page(S, worker[g].offset)
        /\ n = Cardinality(page) /\ x = [runs[r] EXCEPT !.seen = @ \cup page]
        /\ w = [worker[g] EXCEPT !.loaded = n, !.pc = IF n = 0 THEN "complete" ELSE "progress"]
  OBVIOUS
<1>2. worker[g].pc = "verify" /\ UNCHANGED <<now, arrived, plan, faults>>
  BY DEF VerifyPage
<1>3. /\ r \in RunIds /\ runs[r] \in Run /\ worker[g] \in Worker
      /\ DueOK(runs[r]) /\ Covers(runs[r])
      /\ ~runs[r].shared => runs[r].status = "RUNNING"
      /\ Reached(worker[g], runs[r])
      /\ ~runs[r].shared => Counted(worker[g], runs[r])
  BY <1>1, <1>2, Holding DEF Busy
<1>4. S \in SUBSET Logs /\ worker[g].offset \in Nat /\ Cardinality(S) \in Nat
  BY <1>1, <1>3, LogsFinite, FS_CardinalityType DEF InRun, Worker
<1>5. /\ page \subseteq S /\ n \in 0..BatchSize
      /\ \A l \in S : Rank(S, l) \in Nat
      /\ \A l \in S : Rank(S, l) < worker[g].offset + n
                        => Rank(S, l) < worker[g].offset \/ l \in page
      /\ n < BatchSize => /\ \A l \in S : Rank(S, l) < worker[g].offset + n
                          /\ Cardinality(S) <= worker[g].offset + n
      /\ worker[g].offset <= Cardinality(S) => worker[g].offset + n <= Cardinality(S)
  BY <1>1, <1>4, PageFacts
<1>6. BatchSize \in Nat \ {0} /\ n \in Nat
  BY <1>5, RunsAssumption
<1>7. /\ x \in Run /\ Like(x, runs[r]) /\ x.shared = runs[r].shared
      /\ x.status = runs[r].status /\ x.due = runs[r].due /\ x.total = runs[r].total
      /\ x.by = runs[r].by /\ x.seen = runs[r].seen \cup page
      /\ x.processed = runs[r].processed /\ x.verified = runs[r].verified
      /\ InRun(x) = S
  BY <1>1, <1>3, <1>4, <1>5 DEF Run, Like, InRun
<1>8. /\ w \in Worker /\ w.run = r /\ w.offset = worker[g].offset /\ w.loaded = n
      /\ w.pc = IF n = 0 THEN "complete" ELSE "progress"
  BY <1>1, <1>3, <1>5 DEF Worker
<1>9. Frontier(worker[g]) = worker[g].offset /\ Frontier(w) = worker[g].offset + n
  BY <1>2, <1>4, <1>6, <1>8 DEF Frontier
<1>10. AtEnd(w) => n < BatchSize
  BY <1>6, <1>8 DEF AtEnd
<1>11. runs[r].due \subseteq S /\ runs[r].total = Cardinality(runs[r].due)
  BY <1>1, <1>3 DEF DueOK
<1>12. Reached(w, x)
  <2>1. \A l \in x.due : Rank(S, l) < Frontier(w) => l \in x.seen
    <3> SUFFICES ASSUME NEW l \in runs[r].due, Rank(S, l) < worker[g].offset + n
                 PROVE  l \in runs[r].seen \cup page
      BY <1>7, <1>9
    <3>1. Rank(S, l) < worker[g].offset \/ l \in page
      BY <1>5, <1>11
    <3>2. Rank(S, l) < worker[g].offset => l \in runs[r].seen
      BY <1>1, <1>3, <1>9 DEF Reached
    <3> QED BY <3>1, <3>2
  <2>2. AtEnd(w) => x.due \subseteq x.seen
    BY <1>5, <1>7, <1>9, <1>10, <1>11, <2>1
  <2> QED BY <1>7, <2>1, <2>2 DEF Reached
<1>13. ~x.shared => Counted(w, x)
  <2> SUFFICES ASSUME ~runs[r].shared PROVE Counted(w, x)
    BY <1>7
  <2>1. /\ x.processed = w.offset /\ x.verified = w.offset
        /\ worker[g].offset <= Cardinality(S)
    BY <1>1, <1>3, <1>7, <1>8, <1>9 DEF Counted
  <2>2. Frontier(w) <= Cardinality(S)
    BY <1>5, <1>9, <2>1
  <2>3. AtEnd(w) => x.total <= Frontier(w)
    <3>1. Cardinality(runs[r].due) \in Nat /\ Cardinality(runs[r].due) <= Cardinality(S)
      <4>1. IsFiniteSet(S)
        BY <1>1, LogsFinite DEF InRun
      <4>2. runs[r].due \in SUBSET S
        BY <1>11
      <4> QED BY <4>1, <4>2, FS_Subset, FS_CardinalityType
    <3> QED BY <1>4, <1>5, <1>6, <1>7, <1>9, <1>10, <1>11, <3>1
  <2> QED BY <1>7, <2>1, <2>2, <2>3 DEF Counted
<1>14. Covers(x)
  BY <1>3, <1>7 DEF Covers
<1>15. runs' = [runs EXCEPT ![r] = x] /\ worker' = [worker EXCEPT ![g] = w]
  <2>1. page = Page(InRange(runs[worker[g].run].from, runs[worker[g].run].to), worker[g].offset)
    BY <1>1 DEF InRun
  <2>2. /\ runs' = [runs EXCEPT ![r].seen = @ \cup page]
        /\ worker' = [worker EXCEPT ![g].loaded = n,
                                    ![g].pc = IF n = 0 THEN "complete" ELSE "progress"]
    BY <1>1, <2>1 DEF VerifyPage
  <2>3. runs' = [runs EXCEPT ![r] = x]
    BY <1>1, <2>2
  <2>4. worker' = [worker EXCEPT ![g] = w]
    BY <1>1, <2>2 DEF TypeOK, WorkersOK
  <2> QED BY <2>3, <2>4
<1>16. w.pc \notin {"down", "idle"}
  BY <1>8
<1>17. ~x.shared => x.status # "COMPLETED"
  BY <1>3, <1>7
<1>18. worker[g].run = r
  BY <1>1
<1>19. RunsOK' /\ WorkersOK' /\ PassInv' /\ RunsKept
  BY <1>2, <1>3, <1>7, <1>8, <1>12, <1>13, <1>14, <1>15, <1>16, <1>17, <1>18, WorkKeeps
<1> QED BY <1>2, <1>19, Settled DEF TypeOK, WorldOK, PlansOK

LEMMA ProgressAdvances ==
  ASSUME TypeOK, PassInv, NEW g \in Gateways, Progress(g)
  PROVE  Advances
<1>1. PICK r, n, x, w :
        /\ r = worker[g].run /\ n = worker[g].loaded
        /\ x = [runs[r] EXCEPT !.processed = @ + n, !.verified = @ + n]
        /\ w = [worker[g] EXCEPT !.offset = @ + n,
                                 !.pc = IF n < BatchSize THEN "complete" ELSE "verify"]
  OBVIOUS
<1>2. worker[g].pc = "progress" /\ UNCHANGED <<now, arrived, plan, faults>>
  BY DEF Progress
<1>3. /\ r \in RunIds /\ runs[r] \in Run /\ worker[g] \in Worker
      /\ DueOK(runs[r]) /\ Covers(runs[r])
      /\ ~runs[r].shared => runs[r].status = "RUNNING"
      /\ Reached(worker[g], runs[r])
      /\ ~runs[r].shared => Counted(worker[g], runs[r])
  BY <1>1, <1>2, Holding DEF Busy
<1>4. BatchSize \in Nat \ {0} /\ n \in Nat /\ worker[g].offset \in Nat
  BY <1>1, <1>3, RunsAssumption DEF Worker
<1>5. runs[r].processed \in Nat /\ runs[r].verified \in Nat
  BY <1>3 DEF Run
<1>6. /\ x \in Run /\ Like(x, runs[r]) /\ x.shared = runs[r].shared
      /\ x.status = runs[r].status /\ x.due = runs[r].due /\ x.total = runs[r].total
      /\ x.by = runs[r].by /\ x.seen = runs[r].seen
      /\ x.processed = runs[r].processed + n /\ x.verified = runs[r].verified + n
      /\ InRun(x) = InRun(runs[r])
  <2>1. PICK y \in Run, p \in Nat, v \in Nat :
          y = runs[r] /\ p = runs[r].processed + n /\ v = runs[r].verified + n
    <3>1. runs[r] \in Run
      BY <1>3
    <3>2. runs[r].processed + n \in Nat /\ runs[r].verified + n \in Nat
      BY <1>4, <1>5
    <3> QED BY <3>1, <3>2
  <2>2. x = [y EXCEPT !.processed = p, !.verified = v]
    BY <1>1, <2>1
  <2>3. /\ x \in Run /\ Like(x, y) /\ x.shared = y.shared
        /\ x.status = y.status /\ x.due = y.due /\ x.total = y.total
        /\ x.by = y.by /\ x.seen = y.seen /\ x.processed = p /\ x.verified = v
        /\ InRun(x) = InRun(y)
    BY <2>2 DEF Run, Like, InRun
  <2> QED BY <2>1, <2>3
<1>7. /\ w \in Worker /\ w.run = r /\ w.offset = worker[g].offset + n
      /\ w.pc = IF n < BatchSize THEN "complete" ELSE "verify"
  <2>1. PICK u \in Worker, o \in Nat : u = worker[g] /\ o = worker[g].offset + n
    BY <1>3, <1>4
  <2>2. w = [u EXCEPT !.offset = o, !.pc = IF n < BatchSize THEN "complete" ELSE "verify"]
    BY <1>1, <2>1
  <2>3. /\ w \in Worker /\ w.run = u.run /\ w.offset = o
        /\ w.pc = IF n < BatchSize THEN "complete" ELSE "verify"
    BY <2>2 DEF Worker
  <2> QED BY <1>1, <2>1, <2>3
<1>8. Frontier(w) = Frontier(worker[g]) /\ Frontier(w) = w.offset
  BY <1>1, <1>2, <1>7 DEF Frontier
<1>9. AtEnd(w) = AtEnd(worker[g])
  BY <1>1, <1>2, <1>7 DEF AtEnd
<1>10. Reached(w, x)
  BY <1>3, <1>6, <1>8, <1>9 DEF Reached
<1>11. ~x.shared => Counted(w, x)
  BY <1>3, <1>6, <1>7, <1>8, <1>9 DEF Counted
<1>12. Covers(x)
  BY <1>3, <1>6 DEF Covers
<1>13. runs' = [runs EXCEPT ![r] = x] /\ worker' = [worker EXCEPT ![g] = w]
  <2>1. runs' = [runs EXCEPT ![r].processed = @ + n, ![r].verified = @ + n]
    BY <1>1 DEF Progress
  <2>2. worker' = [worker EXCEPT ![g].offset = @ + n,
                     ![g].pc = IF n < BatchSize THEN "complete" ELSE "verify"]
    BY <1>1 DEF Progress, LastPage
  <2>3. runs' = [runs EXCEPT ![r] = x]
    BY <1>1, <1>3, <2>1 DEF TypeOK, RunsOK, RunIds
  <2>4. worker' = [worker EXCEPT ![g] = w]
    BY <1>1, <2>2 DEF TypeOK, WorkersOK
  <2> QED BY <2>3, <2>4
<1>14. w.pc \notin {"down", "idle"}
  BY <1>7
<1>15. ~x.shared => x.status # "COMPLETED"
  BY <1>3, <1>6
<1>16. worker[g].run = r
  BY <1>1
<1>17. RunsOK' /\ WorkersOK' /\ PassInv' /\ RunsKept
  BY <1>2, <1>3, <1>6, <1>7, <1>10, <1>11, <1>12, <1>13, <1>14, <1>15, <1>16, WorkKeeps
<1> QED BY <1>2, <1>17, Settled DEF TypeOK, WorldOK, PlansOK

LEMMA CompleteAdvances ==
  ASSUME TypeOK, PassInv, NEW g \in Gateways, Complete(g)
  PROVE  Advances
<1>1. PICK r, m, x : /\ r = worker[g].run /\ m = Max({runs[r].processed, runs[r].total})
                     /\ x = [runs[r] EXCEPT !.status = "COMPLETED", !.processed = m]
  OBVIOUS
<1>2. worker[g].pc = "complete" /\ UNCHANGED <<now, arrived, plan, faults>>
  BY DEF Complete
<1>3. /\ r \in RunIds /\ runs[r] \in Run /\ worker[g] \in Worker
      /\ DueOK(runs[r]) /\ Covers(runs[r])
      /\ Reached(worker[g], runs[r])
      /\ ~runs[r].shared => Counted(worker[g], runs[r])
  BY <1>1, <1>2, Holding DEF Busy
<1>4. runs[r].processed \in Nat /\ runs[r].total \in Nat
  <2>1. runs[r] \in Run
    BY <1>3
  <2> QED BY <2>1 DEF Run
<1>5. m \in Nat
  <2>1. \A a, b \in Int : Max({a, b}) \in {a, b}
    BY MaxOfTwo
  <2>2. m \in {runs[r].processed, runs[r].total}
    BY <1>1, <1>4, <2>1
  <2> QED BY <1>4, <2>2
<1>6. /\ x \in Run /\ Like(x, runs[r]) /\ x.shared = runs[r].shared
      /\ x.status = "COMPLETED" /\ x.due = runs[r].due /\ x.total = runs[r].total
      /\ x.seen = runs[r].seen /\ x.processed = m /\ x.verified = runs[r].verified
      /\ InRun(x) = InRun(runs[r])
  BY <1>1, <1>3, <1>5 DEF Run, RunStatus, Like, InRun
<1>7. AtEnd(worker[g]) /\ Frontier(worker[g]) = worker[g].offset
  BY <1>2 DEF AtEnd, Frontier
<1>8. Covers(x)
  BY <1>3, <1>6, <1>7 DEF Covers, Reached
<1>9. ~x.shared => Tallied(x)
  <2> SUFFICES ASSUME ~runs[r].shared PROVE Tallied(x)
    BY <1>6
  <2>1. Counted(worker[g], runs[r])
    BY <1>3
  <2>2. /\ runs[r].processed = runs[r].verified
        /\ runs[r].total <= runs[r].verified
        /\ runs[r].verified <= Cardinality(InRun(x))
    BY <1>6, <1>7, <2>1 DEF Counted
  <2>3. runs[r].total = Cardinality(x.due)
    BY <1>3, <1>6 DEF DueOK
  <2> QED BY <1>1, <1>4, <1>6, <2>2, <2>3 DEF Tallied
<1>10. runs' = [runs EXCEPT ![r] = x] /\ worker' = [worker EXCEPT ![g] = Idle]
  <2>1. /\ runs' = [runs EXCEPT ![r].status = "COMPLETED",
                      ![r].processed = Max({@, runs[r].total})]
        /\ worker' = [worker EXCEPT ![g] = Idle]
    BY <1>1 DEF Complete
  <2>2. runs' = [runs EXCEPT ![r] = x]
    BY <1>1, <1>3, <2>1 DEF TypeOK, RunsOK, RunIds
  <2> QED BY <2>1, <2>2
<1>11. Idle.pc \notin {"verify", "progress", "complete", "failed"}
  BY IdleTyped
<1>12. worker[g].run = r
  BY <1>1
<1>13. RunsOK' /\ WorkersOK' /\ PassInv' /\ RunsKept
  BY <1>2, <1>3, <1>6, <1>8, <1>9, <1>10, <1>11, <1>12, IdleTyped, WorkKeeps DEF Busy
<1> QED BY <1>2, <1>13, Settled DEF TypeOK, WorldOK, PlansOK

LEMMA StatementFailsAdvances ==
  ASSUME TypeOK, PassInv, NEW g \in Gateways, StatementFails(g)
  PROVE  Advances
<1>1. PICK r, x, w : /\ r = worker[g].run /\ x = runs[r]
                     /\ w = [worker[g] EXCEPT !.pc = "failed"]
  OBVIOUS
<1>2. worker[g].pc \notin {"down", "idle"} /\ UNCHANGED <<now, arrived, runs, plan>>
  BY DEF StatementFails
<1>3. /\ r \in RunIds /\ x \in Run /\ worker[g] \in Worker /\ Covers(x)
      /\ ~x.shared => x.status = "RUNNING"
  BY <1>1, <1>2, Holding
<1>4. w \in Worker /\ w.run = r /\ w.pc = "failed"
  BY <1>1, <1>3 DEF Worker
<1>5. /\ Like(x, runs[r]) /\ runs' = [runs EXCEPT ![r] = x]
      /\ worker' = [worker EXCEPT ![g] = w]
  BY <1>1, <1>2 DEF StatementFails, Goto, Like, TypeOK, RunsOK
<1>6. w.pc \notin {"down", "idle", "verify", "progress", "complete"}
  BY <1>4
<1>7. RunsOK' /\ WorkersOK' /\ PassInv' /\ RunsKept
  BY <1>1, <1>2, <1>3, <1>4, <1>5, <1>6, WorkKeeps DEF Busy
<1>8. PlansOK' /\ faults' \in 0..MaxFaults
  BY RunsAssumption DEF StatementFails, Spend, TypeOK, PlansOK, WorldOK
<1> QED BY <1>2, <1>7, <1>8, Settled

LEMMA MarkFailedAdvances ==
  ASSUME TypeOK, PassInv, NEW g \in Gateways, MarkFailed(g)
  PROVE  Advances
<1>1. PICK r, x : /\ r = worker[g].run /\ runs' = [runs EXCEPT ![r] = x]
                  /\ \/ x = [runs[r] EXCEPT !.status = "FAILED"]
                     \/ x = [runs[r] EXCEPT !.abandoned = TRUE]
  BY DEF MarkFailed
<1>2. /\ worker[g].pc = "failed" /\ worker' = [worker EXCEPT ![g] = Idle]
      /\ UNCHANGED <<now, arrived, plan, faults>>
  BY DEF MarkFailed
<1>3. /\ r \in RunIds /\ runs[r] \in Run /\ Covers(runs[r])
      /\ ~runs[r].shared => runs[r].status = "RUNNING"
  BY <1>1, <1>2, Holding
<1>4. /\ x \in Run /\ Like(x, runs[r]) /\ x.shared = runs[r].shared
      /\ x.status = runs[r].status \/ x.status = "FAILED"
      /\ x.due = runs[r].due /\ x.seen = runs[r].seen /\ x.by = runs[r].by
  BY <1>1, <1>3 DEF Run, RunStatus, Like
<1>5. Covers(x) /\ (~x.shared => x.status # "COMPLETED")
  BY <1>3, <1>4 DEF Covers
<1>6. Idle.pc \notin {"verify", "progress", "complete", "failed"}
  BY IdleTyped
<1>7. RunsOK' /\ WorkersOK' /\ PassInv' /\ RunsKept
  BY <1>1, <1>2, <1>3, <1>4, <1>5, <1>6, IdleTyped, WorkKeeps DEF Busy
<1> QED BY <1>2, <1>7, Settled DEF TypeOK, WorldOK, PlansOK

LEMMA InitPasses ==
  ASSUME Init PROVE TypeOK /\ PassInv
<1>1. RunIds = {} /\ runs \in Seq(Run)
  BY DEF Init, RunIds
<1>2. WorldOK /\ PlansOK
  BY RunsAssumption DEF Init, WorldOK, PlansOK
<1>3. WorkersOK
  BY IdleTyped DEF Init, WorkersOK, HoldsRun
<1>4. PassInv
  <2>1. \A g \in Gateways : Works(g)
    BY IdleTyped DEF Init, Works, Busy
  <2> QED BY <1>1, <2>1 DEF PassInv
<1> QED BY <1>1, <1>2, <1>3, <1>4 DEF TypeOK, RunsOK

LEMMA NextAdvances ==
  ASSUME TypeOK, PassInv, [Next]_vars PROVE Advances
<1>1. CASE Tick
  BY <1>1, TickAdvances
<1>2. CASE \E l \in Logs : Insert(l)
  BY <1>2, InsertAdvances
<1>3. CASE \E range \in UserRanges : UserRequest(range)
  BY <1>3, UserRequestAdvances
<1>4. CASE \E range \in AgentRanges : AgentReport(range)
  BY <1>4, AgentReportAdvances
<1>5. ASSUME NEW g \in Gateways,
             \/ Plan(g) \/ EnqueuePlan(g)
             \/ Start(g) \/ StartWithoutRequeue(g) \/ Crash(g)
             \/ Work(g) \/ StatementFails(g)
      PROVE  Advances
  BY <1>5, PlanAdvances, EnqueuePlanAdvances, StartAdvances, CrashAdvances, ClaimAdvances,
     VerifyPageAdvances, ProgressAdvances, CompleteAdvances, MarkFailedAdvances,
     StatementFailsAdvances DEF Work
<1>6. CASE UNCHANGED vars
  <2>1. Present' = Present /\ UNCHANGED <<now, arrived, runs, worker, plan, faults>>
    BY <1>6 DEF Present, vars
  <2>2. PassInv' /\ RunsKept
    BY <2>1, StillKeeps
  <2>3. RunsOK' /\ WorkersOK' /\ PlansOK' /\ faults' \in 0..MaxFaults
    BY <2>1 DEF TypeOK, WorldOK, RunsOK, WorkersOK, HoldsRun, PlansOK, RunIds
  <2> QED BY <2>1, <2>2, <2>3, Settled
<1> QED BY <1>1, <1>2, <1>3, <1>4, <1>5, <1>6 DEF Next

-----------------------------------------------------------------------------
(* The ranges of the schedulers.                                           *)

Sched(x) == x.by = "scheduler"

(* A scheduler's run ended its range at the time it was created, so a log  *)
(* that was there before the end of the range is due.                      *)
OnTime(x) ==
  Sched(x) => /\ x.to <= now
              /\ \A l \in InRun(x) : arrived[l] < x.to => l \in x.due

PlansNow == \A g \in Gateways : plan[g] # <<>> => plan[g][2] = now

Ranges ==
  {<<runs[r].from, runs[r].to>> : r \in {q \in RunIds : Sched(runs[q])}}
    \cup {plan[g] : g \in {h \in Gateways : plan[h] # <<>>}}

(* A completed run of a scheduler that reaches past t and its overlap.     *)
Bridge(t) ==
  \E r \in Completed :
    /\ Sched(runs[r]) /\ ~runs[r].shared
    /\ runs[r].from <= t /\ runs[r].to - Overlap > t

Excused(t) ==
  \/ \E r \in RunIds : /\ ~Sched(runs[r]) /\ runs[r].to - Overlap > t
                       /\ r \in Completed \/ runs[r].shared
  \/ \E r \in RunIds : runs[r].shared /\ runs[r].from <= t

(* The completed runs of the schedulers that begin at t or before reach to *)
(* the end of the range x and beyond.                                      *)
Behind(t, x) ==
  \A r \in Completed :
    Sched(runs[r]) /\ ~runs[r].shared /\ runs[r].from <= t => x[2] <= runs[r].to

(* A range that begins after t follows one that reaches past it, or the    *)
(* first of the schedulers, or something else moved the cursor.            *)
Follows(x) == \A t \in Int : x[1] > t => Excused(t) \/ Bridge(t) \/ Behind(t, x)

(* No range ends after that of a scheduler's run that is still to end.     *)
Newest ==
  \A r \in RunIds :
    Sched(runs[r]) /\ Active(r) /\ ~runs[r].shared => \A x \in Ranges : x[2] <= runs[r].to

GapInv ==
  /\ \A r \in RunIds : OnTime(runs[r])
  /\ PlansNow
  /\ \A x \in Ranges : Follows(x)
  /\ Newest

LEMMA EndsTyped ==
  ASSUME TypeOK
  PROVE  \A r \in RunIds : runs[r].from \in Int /\ runs[r].to \in Int /\ runs[r].status \in RunStatus
<1>1. \A x \in Run : x.from \in Int /\ x.to \in Int /\ x.status \in RunStatus
  BY DEF Run
<1> QED BY <1>1, RunIdsTyped DEF TypeOK

(* Nothing takes away an excuse or a bridge.                               *)
LEMMA ExcusesStay ==
  ASSUME TypeOK, RunsKept, NEW t \in Int
  PROVE  (Excused(t) => Excused(t)') /\ (Excused(t) \/ Bridge(t) => Excused(t)' \/ Bridge(t)')
<1>1. ASSUME NEW r \in RunIds
      PROVE  /\ r \in RunIds' /\ runs'[r].by = runs[r].by
             /\ runs'[r].from = runs[r].from /\ runs'[r].to = runs[r].to
             /\ runs[r].shared => runs'[r].shared
             /\ r \in Completed => r \in Completed' \/ runs'[r].shared
             /\ r \in Completed /\ ~runs[r].shared => r \in Completed' /\ ~runs'[r].shared
  BY DEF RunsKept, KeptRun, Like, Completed
<1>2. Excused(t) => Excused(t)'
  <2>1. ASSUME NEW r \in RunIds, ~Sched(runs[r]), runs[r].to - Overlap > t,
               r \in Completed \/ runs[r].shared
        PROVE  Excused(t)'
    BY <1>1, <2>1 DEF Excused, Sched
  <2>2. ASSUME NEW r \in RunIds, runs[r].shared, runs[r].from <= t
        PROVE  Excused(t)'
    BY <1>1, <2>2 DEF Excused
  <2> QED BY <2>1, <2>2 DEF Excused
<1>3. Bridge(t) => Bridge(t)'
  <2> SUFFICES ASSUME NEW r \in Completed, Sched(runs[r]), ~runs[r].shared,
                      runs[r].from <= t, runs[r].to - Overlap > t
               PROVE  Bridge(t)'
    BY DEF Bridge
  <2>1. r \in RunIds
    BY DEF Completed
  <2> QED BY <1>1, <2>1 DEF Bridge, Sched
<1> QED BY <1>2, <1>3

(* A range stays behind the runs that complete after it.                   *)
LEMMA FollowsStays ==
  ASSUME TypeOK, TypeOK', RunsKept, Newest,
         \A r \in RunIds' : r \notin RunIds => ~Sched(runs'[r]) \/ runs'[r].status = "QUEUED",
         NEW x \in Ranges, Follows(x)
  PROVE  Follows(x)'
<1> SUFFICES ASSUME NEW t \in Int, x[1] > t
             PROVE  Excused(t)' \/ Bridge(t)' \/ Behind(t, x)'
  BY DEF Follows
<1>1. Excused(t) \/ Bridge(t) \/ Behind(t, x)
  BY DEF Follows
<1>2. ASSUME Behind(t, x) PROVE Behind(t, x)'
  <2> SUFFICES ASSUME NEW r \in Completed', Sched(runs'[r]), ~runs'[r].shared, runs'[r].from <= t
               PROVE  x[2] <= runs'[r].to
    BY DEF Behind
  <2>1. r \in RunIds' /\ runs'[r].status = "COMPLETED"
    BY DEF Completed
  <2>2. r \in RunIds
    BY <2>1
  <2>3. /\ runs'[r].by = runs[r].by /\ runs'[r].from = runs[r].from /\ runs'[r].to = runs[r].to
        /\ ~runs[r].shared
        /\ runs[r].status \in {"COMPLETED", "FAILED"} => runs[r].status = "COMPLETED"
    BY <2>1, <2>2 DEF RunsKept, KeptRun, Like
  <2>4. runs[r].status \in RunStatus
    BY <2>2, EndsTyped
  <2>5. CASE r \in Completed
    BY <1>2, <2>3, <2>5 DEF Behind, Sched
  <2>6. CASE r \notin Completed
    <3>1. Active(r)
      BY <2>2, <2>3, <2>4, <2>6 DEF Active, Completed, RunStatus
    <3> QED BY <2>2, <2>3, <3>1 DEF Newest, Sched
  <2> QED BY <2>5, <2>6
<1> QED BY <1>1, <1>2, ExcusesStay

LEMMA RangesEndByNow ==
  ASSUME TypeOK, GapInv PROVE \A x \in Ranges : x[1] \in Int /\ x[2] \in Int /\ x[2] <= now
<1> SUFFICES ASSUME NEW x \in Ranges PROVE x[1] \in Int /\ x[2] \in Int /\ x[2] <= now
  OBVIOUS
<1>1. now \in Int
  BY RunsAssumption DEF TypeOK, WorldOK
<1>2. CASE \E r \in RunIds : Sched(runs[r]) /\ x = <<runs[r].from, runs[r].to>>
  BY <1>2, EndsTyped DEF GapInv, OnTime
<1>3. CASE \E g \in Gateways : plan[g] # <<>> /\ x = plan[g]
  BY <1>1, <1>3 DEF GapInv, PlansNow, TypeOK, PlansOK
<1> QED BY <1>2, <1>3 DEF Ranges

(* Steps that neither plan a range nor let time pass.                      *)
LEMMA GapKeeps ==
  ASSUME TypeOK, TypeOK', RunsKept, GapInv, now' = now,
         \A l \in Logs : arrived'[l] = arrived[l] \/ arrived'[l] = now,
         \A g \in Gateways : plan'[g] = plan[g] \/ plan'[g] = <<>>,
         \A r \in RunIds' : r \notin RunIds /\ Sched(runs'[r]) =>
           /\ runs'[r].status = "QUEUED" /\ <<runs'[r].from, runs'[r].to>> \in Ranges
           /\ runs'[r].to = now /\ InRun(runs[r])' \subseteq runs'[r].due
  PROVE  GapInv'
<1>1. Ranges' \subseteq Ranges
  <2> SUFFICES ASSUME NEW x \in Ranges' PROVE x \in Ranges
    OBVIOUS
  <2>1. CASE \E r \in RunIds' : Sched(runs'[r]) /\ x = <<runs'[r].from, runs'[r].to>>
    <3>1. PICK r \in RunIds' : Sched(runs'[r]) /\ x = <<runs'[r].from, runs'[r].to>>
      BY <2>1
    <3>2. CASE r \in RunIds
      <4>1. /\ runs'[r].by = runs[r].by /\ runs'[r].from = runs[r].from
            /\ runs'[r].to = runs[r].to
        BY <3>2 DEF RunsKept, KeptRun, Like
      <4> QED BY <3>1, <3>2, <4>1 DEF Ranges, Sched
    <3> QED BY <3>1, <3>2
  <2>2. CASE \E g \in Gateways : plan'[g] # <<>> /\ x = plan'[g]
    BY <2>2 DEF Ranges
  <2> QED BY <2>1, <2>2 DEF Ranges
<1>2. \A x \in Ranges' : Follows(x)'
  <2>1. \A x \in Ranges : Follows(x)'
    BY FollowsStays DEF GapInv
  <2> QED BY <1>1, <2>1
<1>3. ASSUME NEW r \in RunIds' PROVE OnTime(runs[r])'
  <2> SUFFICES ASSUME Sched(runs'[r])
               PROVE  /\ runs'[r].to <= now
                      /\ \A l \in InRun(runs[r])' : arrived'[l] < runs'[r].to => l \in runs'[r].due
    BY DEF OnTime
  <2>1. CASE r \in RunIds
    <3>1. /\ runs'[r].by = runs[r].by /\ runs'[r].from = runs[r].from
          /\ runs'[r].to = runs[r].to /\ runs'[r].due = runs[r].due
      BY <2>1 DEF RunsKept, KeptRun, Like
    <3>2. /\ runs[r].to <= now
          /\ \A l \in InRun(runs[r]) : arrived[l] < runs[r].to => l \in runs[r].due
      BY <2>1, <3>1 DEF GapInv, OnTime, Sched
    <3>3. ASSUME NEW l \in InRun(runs[r])', arrived'[l] < runs'[r].to
          PROVE  l \in runs'[r].due
      <4>1. runs[r].to \in Int /\ now \in Int
        BY <2>1, EndsTyped, RunsAssumption DEF TypeOK, WorldOK
      <4>2. l \in Logs /\ arrived'[l] > 0 /\ LogTime[l] \in runs[r].from..runs[r].to
        BY <3>1 DEF InRun, InRange, Present
      <4>3. arrived'[l] = arrived[l]
        BY <3>1, <3>2, <3>3, <4>1, <4>2
      <4>4. l \in InRun(runs[r])
        BY <4>2, <4>3 DEF InRun, InRange, Present
      <4> QED BY <3>1, <3>2, <3>3, <4>3, <4>4
    <3> QED BY <3>1, <3>2, <3>3
  <2>2. CASE r \notin RunIds
    <3>1. runs'[r].to = now /\ InRun(runs[r])' \subseteq runs'[r].due
      BY <2>2
    <3>2. now \in Int
      BY RunsAssumption DEF TypeOK, WorldOK
    <3> QED BY <3>1, <3>2
  <2> QED BY <2>1, <2>2
<1>4. PlansNow'
  BY DEF GapInv, PlansNow
<1>5. Newest'
  <2> SUFFICES ASSUME NEW r \in RunIds', Sched(runs'[r]), Active(r)', ~runs'[r].shared,
                      NEW x \in Ranges
               PROVE  x[2] <= runs'[r].to
    BY <1>1 DEF Newest
  <2>1. CASE r \in RunIds
    <3>1. /\ runs'[r].by = runs[r].by /\ runs'[r].to = runs[r].to /\ ~runs[r].shared
          /\ runs[r].status \notin {"COMPLETED", "FAILED"} /\ runs[r].status \in RunStatus
      BY <2>1, EndsTyped DEF RunsKept, KeptRun, Like, Active
    <3>2. Active(r)
      BY <3>1 DEF Active, RunStatus
    <3> QED BY <2>1, <3>1, <3>2 DEF GapInv, Newest, Sched
  <2>2. CASE r \notin RunIds
    BY <2>2, RangesEndByNow
  <2> QED BY <2>1, <2>2
<1> QED BY <1>2, <1>3, <1>4, <1>5 DEF GapInv

(* Behind the cursor, a time is excused or bridged, or no range of the     *)
(* schedulers began at it or before.                                       *)
LEMMA BehindCursor ==
  ASSUME TypeOK, GapInv, Completed # {}, NEW t \in Int, Cursor - Overlap > t
  PROVE  \/ Excused(t) \/ Bridge(t)
         \/ \A r \in Completed : ~(Sched(runs[r]) /\ ~runs[r].shared /\ runs[r].from <= t)
<1>1. /\ Cursor \in Int /\ \A r \in Completed : runs[r].to <= Cursor
      /\ \E c \in Completed : runs[c].to = Cursor
  BY CompletedFinite
<1>2. PICK c \in Completed : runs[c].to = Cursor
  BY <1>1
<1> HIDE DEF Cursor
<1>3. c \in RunIds /\ runs[c].from \in Int
  BY EndsTyped DEF Completed
<1>4. CASE ~Sched(runs[c])
  BY <1>2, <1>3, <1>4 DEF Excused
<1>5. CASE Sched(runs[c]) /\ runs[c].from <= t
  BY <1>2, <1>3, <1>5 DEF Excused, Bridge
<1>6. CASE Sched(runs[c]) /\ ~(runs[c].from <= t)
  <2> DEFINE x == <<runs[c].from, runs[c].to>>
  <2>1. x \in Ranges /\ x[1] > t /\ x[2] = Cursor
    BY <1>2, <1>3, <1>6 DEF Ranges
  <2>2. Excused(t) \/ Bridge(t) \/ Behind(t, x)
    BY <2>1 DEF GapInv, Follows
  <2>3. ASSUME Behind(t, x), NEW r \in Completed,
               Sched(runs[r]), ~runs[r].shared, runs[r].from <= t
        PROVE  Bridge(t)
    <3>1. Cursor <= runs[r].to
      BY <2>1, <2>3 DEF Behind
    <3>2. runs[r].to \in Int
      BY <2>3, EndsTyped DEF Completed
    <3>3. runs[r].to = Cursor
      BY <1>1, <2>3, <3>1, <3>2
    <3> QED BY <2>3, <3>3 DEF Bridge
  <2> QED BY <2>2, <2>3
<1> QED BY <1>4, <1>5, <1>6

(* The range that a scheduler plans follows the others.                    *)
LEMMA PlanFollows ==
  ASSUME TypeOK, GapInv PROVE Follows(DueRange)
<1>0. now \in Int /\ Overlap \in Nat /\ Lookback \in Nat \ {0}
  BY RunsAssumption DEF TypeOK, WorldOK
<1> SUFFICES ASSUME NEW t \in Int, DueRange[1] > t
             PROVE  Excused(t) \/ Bridge(t) \/ Behind(t, DueRange)
  BY DEF Follows
<1>1. DueRange[2] = now
  BY DEF DueRange
<1>2. CASE Completed = {}
  BY <1>2 DEF Behind
<1>3. CASE Completed # {}
  <2>1. Cursor \in Int
    BY <1>3, CompletedFinite
  <2>2. Cursor - Overlap > t
    <3> HIDE DEF Cursor
    <3> QED BY <1>0, <1>3, <2>1 DEF DueRange
  <2> QED BY <1>3, <2>2, BehindCursor DEF Behind
<1> QED BY <1>2, <1>3

LEMMA SameRunsKeepGaps ==
  ASSUME TypeOK, TypeOK', RunsKept, GapInv, UNCHANGED <<now, runs>>,
         \A l \in Logs : arrived'[l] = arrived[l] \/ arrived'[l] = now,
         \A g \in Gateways : plan'[g] = plan[g] \/ plan'[g] = <<>>
  PROVE  GapInv'
<1>1. \A r \in RunIds' : r \in RunIds
  BY DEF RunIds
<1> QED BY <1>1, GapKeeps

LEMMA SameIdsKeepGaps ==
  ASSUME TypeOK, TypeOK', RunsKept, GapInv, UNCHANGED <<now, arrived>>, RunIds' = RunIds,
         \A g \in Gateways : plan'[g] = plan[g] \/ plan'[g] = <<>>
  PROVE  GapInv'
BY GapKeeps

LEMMA TickKeepsGaps ==
  ASSUME TypeOK, TypeOK', RunsKept, GapInv, Tick PROVE GapInv'
<1>1. /\ now' = now + 1 /\ UNCHANGED <<arrived, runs, worker, plan, faults>>
      /\ \A g \in Gateways : plan[g] = <<>>
  BY DEF Tick
<1>2. now \in Int
  BY RunsAssumption DEF TypeOK, WorldOK
<1>3. Ranges' = Ranges /\ RunIds' = RunIds
  BY <1>1 DEF Ranges, RunIds
<1>4. \A x \in Ranges' : Follows(x)'
  <2>1. \A r \in RunIds' : r \in RunIds
    BY <1>3
  <2> QED BY <1>3, <2>1, FollowsStays DEF GapInv
<1>5. ASSUME NEW r \in RunIds PROVE OnTime(runs[r])'
  <2>1. OnTime(runs[r]) /\ InRun(runs[r])' = InRun(runs[r]) /\ runs[r].to \in Int
    BY <1>1, EndsTyped DEF GapInv, InRun, InRange, Present
  <2> QED BY <1>1, <1>2, <2>1 DEF OnTime
<1>6. PlansNow'
  BY <1>1 DEF PlansNow
<1>7. Newest'
  BY <1>1, <1>3 DEF GapInv, Newest, Active
<1> QED BY <1>3, <1>4, <1>5, <1>6, <1>7 DEF GapInv

LEMMA PlanKeepsGaps ==
  ASSUME TypeOK, TypeOK', RunsKept, GapInv, PassInv, NEW g \in Gateways, Plan(g)
  PROVE  GapInv'
<1>1. PICK d : d = DueRange
  OBVIOUS
<1>2. /\ plan' = [plan EXCEPT ![g] = d] /\ UNCHANGED <<now, arrived, runs, worker, faults>>
      /\ \A r \in RunIds : ~Active(r)
  BY <1>1 DEF Plan
<1>3. Follows(d) /\ d[2] = now
  BY <1>1, PlanFollows, PlanAdvances
<1>4. RunIds' = RunIds /\ Completed' = Completed
  BY <1>2 DEF RunIds, Completed
<1>5. \A x \in Ranges' : x \in Ranges \/ x = d
  BY <1>2, <1>4 DEF Ranges, TypeOK, PlansOK
<1>6. \A x : Follows(x) => Follows(x)'
  BY <1>2, <1>4 DEF Follows, Excused, Bridge, Behind
<1>7. \A x \in Ranges' : Follows(x)'
  BY <1>3, <1>5, <1>6 DEF GapInv
<1>8. ASSUME NEW r \in RunIds PROVE OnTime(runs[r])'
  BY <1>2 DEF GapInv, OnTime, InRun, InRange, Present
<1>9. PlansNow'
  BY <1>2, <1>3 DEF GapInv, PlansNow, TypeOK, PlansOK
<1>10. Newest'
  BY <1>2, <1>4 DEF Newest, Active
<1> QED BY <1>4, <1>7, <1>8, <1>9, <1>10 DEF GapInv

(* A run that is added for a pending plan, or by no scheduler.             *)
LEMMA AddKeepsGaps ==
  ASSUME TypeOK, TypeOK', RunsKept, GapInv, UNCHANGED <<now, arrived>>,
         \A g \in Gateways : plan'[g] = plan[g] \/ plan'[g] = <<>>,
         NEW range \in Int \X Int, NEW by \in Kinds, NEW status \in RunStatus,
         runs' = Append(runs, NewRun(range[1], range[2], by, status)),
         by = "scheduler" => status = "QUEUED" /\ range \in Ranges /\ range[2] = now
  PROVE  GapInv'
<1> DEFINE x == NewRun(range[1], range[2], by, status)
           n == Len(runs)
<1>1. /\ x.by = by /\ x.from = range[1] /\ x.to = range[2] /\ x.status = status
      /\ x.due = InRange(range[1], range[2])
  BY NewRunTyped
<1>2. runs \in Seq(Run) /\ RunIds = 1..n /\ n \in Nat
  BY RunIdsTyped DEF TypeOK, RunsOK
<1>3. PICK y : y = x
  OBVIOUS
<1>4. runs' = Append(runs, y)
  BY <1>3
<1> HIDE DEF x
<1>5. RunIds' = 1..(n + 1) /\ runs'[n + 1] = y
  BY <1>2, <1>3, <1>4, RunIdsTyped DEF RunIds, TypeOK
<1> HIDE DEF n
<1>6. ASSUME NEW r \in RunIds', r \notin RunIds, Sched(runs'[r])
      PROVE  /\ runs'[r].status = "QUEUED" /\ <<runs'[r].from, runs'[r].to>> \in Ranges
             /\ runs'[r].to = now /\ InRun(runs[r])' \subseteq runs'[r].due
  <2>1. runs'[r] = y
    <3>1. r \in 1..(n + 1) /\ ~(r \in 1..n) /\ n \in Nat
      BY <1>2, <1>5, <1>6
    <3>2. r = n + 1
      BY <3>1
    <3> QED BY <1>5, <3>2
  <2>2. by = "scheduler"
    BY <1>1, <1>3, <1>6, <2>1 DEF Sched
  <2>3. <<range[1], range[2]>> = range
    OBVIOUS
  <2>4. InRun(runs[r])' = InRange(range[1], range[2])
    BY <1>1, <1>3, <2>1 DEF InRun, InRange, Present
  <2> QED BY <1>1, <1>3, <2>1, <2>2, <2>3, <2>4
<1> QED BY <1>6, GapKeeps

LEMMA EnqueueKeepsGaps ==
  ASSUME TypeOK, TypeOK', RunsKept, GapInv, UNCHANGED <<now, arrived>>,
         \A g \in Gateways : plan'[g] = plan[g] \/ plan'[g] = <<>>,
         NEW range \in Int \X Int, NEW by \in Kinds, Enqueue(range, by),
         by = "scheduler" => range \in Ranges /\ range[2] = now
  PROVE  GapInv'
<1>1. CASE UNCHANGED runs
  BY <1>1, SameRunsKeepGaps
<1>2. CASE runs' = Append(runs, NewRun(range[1], range[2], by, "QUEUED"))
  <2>1. "QUEUED" \in RunStatus
    BY DEF RunStatus
  <2> QED BY <1>2, <2>1, AddKeepsGaps
<1> QED BY <1>1, <1>2 DEF Enqueue

LEMMA WorkKeepsIds ==
  ASSUME TypeOK, NEW g \in Gateways,
         Start(g) \/ StartWithoutRequeue(g) \/ Crash(g) \/ Work(g) \/ StatementFails(g)
  PROVE  /\ UNCHANGED <<now, arrived>> /\ RunIds' = RunIds
         /\ \A h \in Gateways : plan'[h] = plan[h] \/ plan'[h] = <<>>
<1>1. runs \in Seq(Run) /\ plan \in [Gateways -> {<<>>} \cup (Int \X Int)]
  BY DEF TypeOK, RunsOK, PlansOK
<1>2. UNCHANGED <<now, arrived>> /\ \A h \in Gateways : plan'[h] = plan[h] \/ plan'[h] = <<>>
  BY <1>1 DEF Start, StartWithoutRequeue, Crash, Work, StatementFails, Claim, VerifyPage,
     Progress, Complete, MarkFailed
<1>3. RunIds' = RunIds
  <2>1. CASE Start(g) \/ StartWithoutRequeue(g)
    BY <2>1 DEF Start, StartWithoutRequeue, RunIds
  <2>2. CASE Crash(g) \/ StatementFails(g)
    BY <2>2 DEF Crash, StatementFails, RunIds
  <2>3. CASE Work(g)
    BY <2>3 DEF Work, Claim, VerifyPage, Progress, Complete, MarkFailed, RunIds
  <2> QED BY <2>1, <2>2, <2>3
<1> QED BY <1>2, <1>3

LEMMA NextKeepsGaps ==
  ASSUME TypeOK, TypeOK', PassInv, RunsKept, GapInv, [Next]_vars
  PROVE  GapInv'
<1>1. CASE Tick
  BY <1>1, TickKeepsGaps
<1>2. CASE \E l \in Logs : Insert(l)
  <2>1. /\ UNCHANGED <<now, runs, plan>>
        /\ \A l \in Logs : arrived'[l] = arrived[l] \/ arrived'[l] = now
    BY <1>2 DEF Insert, TypeOK, WorldOK
  <2> QED BY <2>1, SameRunsKeepGaps
<1>3. CASE \E range \in UserRanges : UserRequest(range)
  <2>1. PICK range \in UserRanges : UserRequest(range)
    BY <1>3
  <2>2. range \in Int \X Int
    BY RunsAssumption
  <2> QED BY <2>1, <2>2, EnqueueKeepsGaps DEF UserRequest, Kinds
<1>4. CASE \E range \in AgentRanges : AgentReport(range)
  <2>1. PICK range \in AgentRanges : AgentReport(range)
    BY <1>4
  <2>2. range \in Int \X Int
    BY RunsAssumption
  <2> QED BY <2>1, <2>2, AddKeepsGaps DEF AgentReport, Kinds, RunStatus
<1>5. ASSUME NEW g \in Gateways, Plan(g) PROVE GapInv'
  BY <1>5, PlanKeepsGaps
<1>6. ASSUME NEW g \in Gateways, EnqueuePlan(g) PROVE GapInv'
  <2>1. /\ plan[g] # <<>> /\ UNCHANGED <<now, arrived>>
        /\ Enqueue(plan[g], "scheduler") \/ UNCHANGED runs
        /\ plan' = [plan EXCEPT ![g] = <<>>]
    BY <1>6 DEF EnqueuePlan
  <2>2. PICK range \in Int \X Int : range = plan[g]
    BY <2>1 DEF TypeOK, PlansOK
  <2>3. range \in Ranges /\ range[2] = now
    BY <2>1, <2>2 DEF Ranges, GapInv, PlansNow
  <2>4. \A h \in Gateways : plan'[h] = plan[h] \/ plan'[h] = <<>>
    BY <2>1 DEF TypeOK, PlansOK
  <2>5. CASE UNCHANGED runs
    BY <2>1, <2>4, <2>5, SameRunsKeepGaps
  <2>6. CASE Enqueue(range, "scheduler")
    BY <2>1, <2>3, <2>4, <2>6, EnqueueKeepsGaps DEF Kinds
  <2> QED BY <2>1, <2>2, <2>5, <2>6
<1>7. ASSUME NEW g \in Gateways,
             Start(g) \/ StartWithoutRequeue(g) \/ Crash(g) \/ Work(g) \/ StatementFails(g)
      PROVE  GapInv'
  BY <1>7, WorkKeepsIds, SameIdsKeepGaps
<1>8. CASE UNCHANGED vars
  BY <1>8, SameRunsKeepGaps DEF vars
<1> QED BY <1>1, <1>2, <1>3, <1>4, <1>5, <1>6, <1>7, <1>8 DEF Next

-----------------------------------------------------------------------------
(* What every reachable state satisfies.                                   *)
RunsInv == TypeOK /\ PassInv /\ GapInv

(* In every reachable state of VerificationRuns the runs, the workers and  *)
(* the plans are well typed, a worker has checked what was due before its  *)
(* offset, and the ranges of the schedulers follow one another.            *)
THEOREM RunsInvariant == Spec => []RunsInv
<1>1. Init => RunsInv
  <2> SUFFICES ASSUME Init PROVE RunsInv
    OBVIOUS
  <2>1. RunIds = {} /\ Ranges = {}
    BY DEF Init, RunIds, Ranges
  <2>2. PlansNow
    BY DEF Init, PlansNow
  <2>3. GapInv
    BY <2>1, <2>2 DEF GapInv, Newest
  <2> QED BY <2>3, InitPasses DEF RunsInv
<1>2. RunsInv /\ [Next]_vars => RunsInv'
  BY NextAdvances, NextKeepsGaps DEF RunsInv, Advances
<1> QED BY <1>1, <1>2, PTL DEF Spec

(* A COMPLETED run has checked every log its range held when it was        *)
(* created, for any page size, lateness of the logs, crashes and number of *)
(* gateways.                                                               *)
THEOREM CompletedRunsCover == Spec => []CompletedCoversRange
<1>1. RunsInv => CompletedCoversRange
  BY DEF RunsInv, PassInv, Covers, CompletedCoversRange, Completed
<1> QED BY <1>1, RunsInvariant, PTL

(* The counters of a COMPLETED run that no two gateways shared are those   *)
(* of one pass over its range.                                             *)
THEOREM CountersAreOfOnePass == Spec => []CountersMatchRange
<1>1. RunsInv => CountersMatchRange
  BY DEF RunsInv, PassInv, Sole, Tallied, InRun, CountersMatchRange, Completed
<1> QED BY <1>1, RunsInvariant, PTL

(* Every log behind the cursor of the schedulers is checked by a completed *)
(* run, or one of the causes that GapsExplained names has kept it out.     *)
THEOREM GapsAreExplained == Spec => []GapsExplained
<1>1. RunsInv => GapsExplained
  <2> SUFFICES ASSUME RunsInv, NEW l \in Present,
                      NEW r \in Completed, runs[r].by = "scheduler", runs[r].from <= LogTime[l],
                      ~(LogTime[l] >= Cursor - Overlap),
                      ~(arrived[l] > LogTime[l] + Overlap)
               PROVE  \/ CoveredBy(l) # {}
                      \/ \E q \in RunIds :
                           /\ runs[q].by # "scheduler" /\ runs[q].to - Overlap > LogTime[l]
                           /\ q \in Completed \/ runs[q].shared
                      \/ \E q \in RunIds : runs[q].shared /\ runs[q].from <= LogTime[l]
    BY DEF GapsExplained
  <2>1. TypeOK /\ PassInv /\ GapInv
    BY DEF RunsInv
  <2>2. LogTime[l] \in Int /\ Overlap \in Nat /\ arrived[l] \in Int
    <3>1. l \in Logs /\ LogTime \in Seq(1..MaxTime) /\ Overlap \in Nat /\ MaxTime \in Nat
      BY RunsAssumption DEF Present
    <3>2. LogTime[l] \in 1..MaxTime
      BY <3>1 DEF Logs
    <3>3. arrived[l] \in 0..MaxTime
      BY <2>1, <3>1 DEF TypeOK, WorldOK
    <3> QED BY <3>1, <3>2, <3>3
  <2>3. Cursor \in Int
    BY <2>1, CompletedFinite
  <2>4. Cursor - Overlap > LogTime[l]
    <3> HIDE DEF Cursor
    <3> QED BY <2>2, <2>3
  <2>5. CASE Excused(LogTime[l])
    BY <2>5 DEF Excused, Sched
  <2>6. CASE Bridge(LogTime[l])
    <3>1. PICK q \in Completed : /\ Sched(runs[q]) /\ runs[q].from <= LogTime[l]
                                 /\ runs[q].to - Overlap > LogTime[l]
      BY <2>6 DEF Bridge
    <3>2. q \in RunIds /\ runs[q].to \in Int /\ runs[q].from \in Int
      BY <2>1, EndsTyped DEF Completed
    <3>3. l \in InRun(runs[q]) /\ arrived[l] < runs[q].to
      BY <2>2, <3>1, <3>2 DEF InRun, InRange
    <3>4. l \in runs[q].due
      BY <2>1, <3>1, <3>2, <3>3 DEF GapInv, OnTime
    <3>5. l \in runs[q].seen
      BY <2>1, <3>1, <3>2, <3>4 DEF PassInv, Covers, Completed, Sched
    <3> QED BY <3>5 DEF CoveredBy
  <2>7. CASE \A q \in Completed :
               ~(Sched(runs[q]) /\ ~runs[q].shared /\ runs[q].from <= LogTime[l])
    BY <2>7 DEF Sched, Completed
  <2>8. \/ Excused(LogTime[l]) \/ Bridge(LogTime[l])
        \/ \A q \in Completed :
             ~(Sched(runs[q]) /\ ~runs[q].shared /\ runs[q].from <= LogTime[l])
    <3> HIDE DEF Cursor
    <3> QED BY <2>1, <2>2, <2>4, BehindCursor
  <2> QED BY <2>5, <2>6, <2>7, <2>8
<1> QED BY <1>1, RunsInvariant, PTL
=============================================================================
