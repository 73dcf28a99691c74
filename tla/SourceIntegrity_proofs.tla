------------------------ MODULE SourceIntegrity_proofs ------------------------
(***************************************************************************)
(* Proofs about SourceIntegrity, for any resources, users, batch sizes and *)
(* damage, and any number of writes, edits and faults.                     *)
(***************************************************************************)
EXTENDS SourceIntegrity, FiniteSetTheorems, SequenceTheorems, WellFoundedInduction, TLAPS

-----------------------------------------------------------------------------
(* Latest logs.                                                            *)

LEMMA LargestExists ==
  ASSUME NEW S \in SUBSET Int, IsFiniteSet(S), S # {}
  PROVE  \E x \in S : \A y \in S : x >= y
<1> DEFINE R == StrictSubsetOrdering(Int)
           F == FiniteSubsetsOf(Int)
           C == {T \in F : T # {} /\ ~ \E x \in T : \A y \in T : x >= y}
<1>1. SUFFICES ASSUME C # {} PROVE FALSE
  BY DEF FiniteSubsetsOf
<1>2. PICK T \in C : \A U \in C : ~(<<U, T>> \in R)
  <2>1. IsWellFoundedOn(R, F)
    BY FS_StrictSubsetOrderingWellFounded
  <2>2. C \subseteq F
    OBVIOUS
  <2> HIDE DEF R, F, C
  <2> QED BY <1>1, <2>1, <2>2, WFMin
<1>3. T \in SUBSET Int /\ IsFiniteSet(T)
  BY DEF FiniteSubsetsOf
<1>4. PICK a \in T : TRUE
  OBVIOUS
<1>5. T \ {a} \in F
  BY <1>3, FS_RemoveElement DEF FiniteSubsetsOf
<1>6. <<T \ {a}, T>> \in R
  BY <1>3, <1>4 DEF StrictSubsetOrdering
<1>7. T \ {a} \notin C
  BY <1>2, <1>6
<1>8. CASE T \ {a} = {}
  <2>1. \A y \in T : a >= y
    BY <1>3, <1>4, <1>8
  <2> QED BY <1>4, <2>1
<1>9. CASE T \ {a} # {}
  <2>1. PICK b \in T \ {a} : \A y \in T \ {a} : b >= y
    BY <1>5, <1>7, <1>9
  <2>2. a \in Int /\ b \in Int
    BY <1>3, <1>4, <2>1
  <2>3. CASE a >= b
    <3>1. \A y \in T : a >= y
      BY <1>3, <2>1, <2>2, <2>3
    <3> QED BY <1>4, <3>1
  <2>4. CASE b >= a
    <3>1. \A y \in T : b >= y
      BY <2>1, <2>4
    <3> QED BY <2>1, <3>1
  <2> QED BY <2>2, <2>3, <2>4
<1> QED BY <1>8, <1>9

LEMMA MaxIsLargest ==
  ASSUME NEW S \in SUBSET Int, IsFiniteSet(S), S # {}
  PROVE  Max(S) \in S /\ \A y \in S : Max(S) >= y
BY LargestExists DEF Max

(* What LatestIn finds.                                                    *)
LEMMA LatestFound ==
  ASSUME NEW ls \in Seq(LogRow), NEW r, NEW l \in DOMAIN ls, ls[l].resource = r
  PROVE  /\ LatestIn(ls, r) \in DOMAIN ls /\ ls[LatestIn(ls, r)].resource = r
         /\ LatestIn(ls, r) \in Nat /\ l <= LatestIn(ls, r)
<1> DEFINE S == {m \in DOMAIN ls : ls[m].resource = r}
<1>1. DOMAIN ls = 1..Len(ls) /\ Len(ls) \in Nat
  OBVIOUS
<1>2. S \in SUBSET Int /\ l \in S /\ IsFiniteSet(S)
  <2>1. S \subseteq 1..Len(ls) /\ IsFiniteSet(1..Len(ls))
    BY <1>1, FS_Interval
  <2>2. IsFiniteSet(S)
    BY <2>1, FS_Subset
  <2> QED BY <2>1, <2>2
<1>3. Max(S) \in S /\ \A y \in S : Max(S) >= y
  <2> HIDE DEF S
  <2> QED BY <1>2, MaxIsLargest
<1> QED BY <1>1, <1>2, <1>3 DEF LatestIn

LEMMA LatestUnique ==
  ASSUME NEW ls \in Seq(LogRow), NEW r, NEW l \in DOMAIN ls, ls[l].resource = r,
         \A m \in DOMAIN ls : ls[m].resource = r => m <= l
  PROVE  LatestIn(ls, r) = l
<1>1. DOMAIN ls = 1..Len(ls) /\ Len(ls) \in Nat
  OBVIOUS
<1>2. LatestIn(ls, r) \in DOMAIN ls /\ l <= LatestIn(ls, r) /\ LatestIn(ls, r) <= l
  BY LatestFound
<1> QED BY <1>1, <1>2

(* A log that is appended is the latest of its resource, and of no other.  *)
LEMMA LatestAppended ==
  ASSUME NEW ls \in Seq(LogRow), NEW x \in LogRow, NEW r,
         NEW l \in DOMAIN ls, ls[l].resource = r
  PROVE  LatestIn(Append(ls, x), r) = IF x.resource = r THEN Len(ls) + 1 ELSE LatestIn(ls, r)
<1> DEFINE t == Append(ls, x)
<1>1. /\ DOMAIN ls = 1..Len(ls) /\ Len(ls) \in Nat /\ t \in Seq(LogRow)
      /\ DOMAIN t = 1..(Len(ls) + 1) /\ t[Len(ls) + 1] = x
      /\ \A m \in 1..Len(ls) : t[m] = ls[m]
  BY AppendProperties
<1> HIDE DEF t
<1>2. CASE x.resource = r
  <2>1. LatestIn(t, r) = Len(ls) + 1
    BY <1>1, <1>2, LatestUnique
  <2> QED BY <1>2, <2>1 DEF t
<1>3. CASE x.resource # r
  <2> DEFINE k == LatestIn(ls, r)
  <2>1. k \in DOMAIN ls /\ ls[k].resource = r /\ \A m \in DOMAIN ls : ls[m].resource = r => m <= k
    BY LatestFound
  <2> HIDE DEF k
  <2>2. k \in DOMAIN t /\ t[k].resource = r /\ \A m \in DOMAIN t : t[m].resource = r => m <= k
    BY <1>1, <1>3, <2>1
  <2>3. LatestIn(t, r) = k
    BY <1>1, <2>2, LatestUnique
  <2> QED BY <1>3, <2>3 DEF t, k
<1> QED BY <1>2, <1>3

-----------------------------------------------------------------------------
(* Stamping moves a log to the end of those that have been checked.        *)

Distinct(s) == \A j, k \in DOMAIN s : s[j] = s[k] => j = k

LEMMA FirstIndex ==
  ASSUME NEW S, NEW s \in Seq(S), Distinct(s), NEW i \in DOMAIN s
  PROVE  RemoveFirst(s, s[i]) = RemoveAt(s, i)
<1>1. DOMAIN s = 1..Len(s) /\ Len(s) \in Nat /\ i \in Int
  OBVIOUS
<1>2. {j \in 1..Len(s) : s[j] = s[i]} = {i}
  BY <1>1 DEF Distinct
<1>3. SelectInSeq(s, LAMBDA v : v = s[i]) = i
  BY <1>1, <1>2 DEF SelectInSeq, Min
<1> QED BY <1>1, <1>3 DEF RemoveFirst

LEMMA RemovedStaysDistinct ==
  ASSUME NEW S, NEW s \in Seq(S), Distinct(s), NEW i \in DOMAIN s
  PROVE  Append(RemoveAt(s, i), s[i]) \in Seq(S) /\ Distinct(Append(RemoveAt(s, i), s[i]))
<1> DEFINE n == Len(s)
           l == s[i]
           t == Append(RemoveAt(s, i), l)
<1>1. s[i] = l /\ l \in S
  OBVIOUS
<1>2. /\ s \in Seq(S) /\ n \in Nat /\ i \in 1..n
      /\ \A j, k \in 1..n : s[j] = s[k] => j = k
  BY DEF Distinct
<1> HIDE DEF l
<1>3. /\ RemoveAt(s, i) \in Seq(S) /\ Len(RemoveAt(s, i)) = n - 1
      /\ \A j \in 1..(n - 1) : RemoveAt(s, i)[j] = IF j < i THEN s[j] ELSE s[j + 1]
  <2> DEFINE a == SubSeq(s, 1, i - 1)
             b == SubSeq(s, i + 1, n)
  <2>1. i - 1 \in Int /\ i + 1 \in Int /\ \A j \in 1..n : s[j] \in S
    BY <1>2
  <2>2. /\ a \in Seq(S) /\ Len(a) = i - 1
        /\ \A j \in 1..(i - 1) : a[j] = s[j]
    BY <1>2, <2>1, SubSeqProperties
  <2>3. /\ b \in Seq(S) /\ Len(b) = n - i
        /\ \A j \in 1..(n - i) : b[j] = s[i + j]
    BY <1>2, <2>1, SubSeqProperties
  <2>4. RemoveAt(s, i) = a \o b
    BY DEF RemoveAt
  <2> HIDE DEF a, b, n
  <2>5. /\ a \o b \in Seq(S) /\ Len(a \o b) = (i - 1) + (n - i)
        /\ \A j \in 1..((i - 1) + (n - i)) : (a \o b)[j] = IF j <= i - 1 THEN a[j]
                                                          ELSE b[j - (i - 1)]
    <3>1. /\ a \o b \in Seq(S) /\ Len(a \o b) = Len(a) + Len(b)
          /\ \A j \in 1..(Len(a) + Len(b)) : (a \o b)[j] = IF j <= Len(a) THEN a[j]
                                                         ELSE b[j - Len(a)]
      BY <2>2, <2>3, ConcatProperties
    <3>2. Len(a) = i - 1 /\ Len(b) = n - i
      BY <2>2, <2>3
    <3> QED BY <3>1, <3>2
  <2>6. ASSUME NEW j \in 1..(n - 1)
        PROVE  (a \o b)[j] = IF j < i THEN s[j] ELSE s[j + 1]
    <3>0. n \in Nat /\ i \in 1..n /\ j \in 1..((i - 1) + (n - i))
      BY <1>2
    <3>1. CASE j < i
      <4>1. j <= i - 1 /\ j \in 1..(i - 1)
        BY <3>0, <3>1
      <4>2. (a \o b)[j] = a[j] /\ a[j] = s[j]
        BY <2>2, <2>5, <3>0, <4>1
      <4> QED BY <3>1, <4>2
    <3>2. CASE ~(j < i)
      <4>1. (a \o b)[j] = b[j - (i - 1)]
        <5>1. ~(j <= i - 1)
          BY <3>0, <3>2
        <5> QED BY <2>5, <3>0, <5>1
      <4>2. j - (i - 1) \in 1..(n - i) /\ i + (j - (i - 1)) = j + 1
        BY <3>0, <3>2
      <4>3. b[j - (i - 1)] = s[i + (j - (i - 1))]
        BY <2>3, <4>2
      <4> QED BY <3>2, <4>1, <4>2, <4>3
    <3> QED BY <3>1, <3>2
  <2>7. (i - 1) + (n - i) = n - 1
    BY <1>2
  <2> QED BY <2>4, <2>5, <2>6, <2>7
<1>4. /\ t \in Seq(S) /\ Len(t) = n /\ t[n] = l
      /\ \A j \in 1..(n - 1) : t[j] = IF j < i THEN s[j] ELSE s[j + 1]
  BY <1>1, <1>2, <1>3
<1> HIDE DEF n, t
<1>5. ASSUME NEW j \in 1..n, NEW k \in 1..n, t[j] = t[k] PROVE j = k
  <2>1. \A m \in 1..(n - 1) : t[m] # l
    BY <1>1, <1>2, <1>4
  <2>2. CASE j = n
    BY <1>2, <1>4, <1>5, <2>1, <2>2
  <2>4. CASE k = n
    BY <1>2, <1>4, <1>5, <2>1, <2>4
  <2>3. CASE j < n /\ k < n
    <3> DEFINE old(m) == IF m < i THEN m ELSE m + 1
    <3>1. /\ old(j) \in 1..n /\ old(k) \in 1..n
          /\ j \in 1..(n - 1) /\ k \in 1..(n - 1)
      BY <1>2, <2>3
    <3>2. t[j] = s[old(j)] /\ t[k] = s[old(k)]
      BY <1>4, <3>1
    <3>3. old(j) = old(k)
      <4> HIDE DEF old
      <4> QED BY <1>2, <1>5, <3>1, <3>2
    <3> QED BY <1>2, <3>3
  <2> QED BY <1>2, <2>2, <2>3, <2>4
<1>6. DOMAIN t = 1..n /\ t \in Seq(S)
  BY <1>4
<1> QED BY <1>5, <1>6 DEF Distinct, t, l

LEMMA StampedStaysDistinct ==
  ASSUME NEW S, NEW s \in Seq(S), Distinct(s), NEW l \in S
  PROVE  /\ Append(RemoveFirst(s, l), l) \in Seq(S)
         /\ Distinct(Append(RemoveFirst(s, l), l))
<1>1. CASE \E i \in DOMAIN s : s[i] = l
  BY <1>1, FirstIndex, RemovedStaysDistinct
<1>2. CASE ~ \E i \in DOMAIN s : s[i] = l
  <2>1. DOMAIN s = 1..Len(s) /\ Len(s) \in Nat
    OBVIOUS
  <2>2. RemoveFirst(s, l) = s
    BY <1>2, <2>1 DEF RemoveFirst
  <2> DEFINE t == Append(s, l)
  <2>3. /\ t \in Seq(S) /\ DOMAIN t = 1..(Len(s) + 1) /\ t[Len(s) + 1] = l
        /\ \A j \in 1..Len(s) : t[j] = s[j]
    BY <2>1, AppendProperties
  <2> HIDE DEF t
  <2>4. ASSUME NEW j \in DOMAIN t, NEW k \in DOMAIN t, t[j] = t[k] PROVE j = k
    BY <1>2, <2>1, <2>3, <2>4 DEF Distinct
  <2> QED BY <2>2, <2>3, <2>4 DEF Distinct, t
<1> QED BY <1>1, <1>2

-----------------------------------------------------------------------------
(* The inductive invariant.                                                *)

(* Latest logs whose row agrees, and those whose row does not, are known.  *)
ObservedOK ==
  \A r \in Logged : IF row[r] = logs[Latest(r)].state THEN Latest(r) \in agreed
                    ELSE Latest(r) \in differed

SameCopy(e, f) == e.meta = f.meta /\ e.rest = f.rest /\ e.hash = f.hash

(* An alarm no comparison backs: the log was damaged before it was read.   *)
Excused(k) ==
  /\ logs[k.log].evidence.meta = "altered"
  /\ (k.proof = "limited" /\ Rehashed(k.log)) \/ (k.proof = "none" /\ k.history)

CheckOK(k) ==
  /\ k.pc \notin {"idle", "backfill", "answered"} => k.log \in LogIds
  /\ k.pc \in {"idle", "backfill", "answered", "verify", "classify", "attempt", "ask"} =>
       k.status = "none"
  /\ k.pc \in {"idle", "backfill", "answered", "verify", "attempt", "persist"} => ~k.history
  /\ k.pc = "classify" => k.history
  /\ k.pc \in {"idle", "backfill", "answered", "verify"} => k.evidence.meta = "sealed"
  /\ k.evidence.meta = "altered" =>
       k.log \in LogIds /\ SameCopy(k.evidence, logs[k.log].evidence)
  /\ k.pc = "ask" =>
       /\ k.proof = "verified" => k.evidence.meta = "sealed"
       /\ k.proof = "limited" => k.evidence.hash = ContentHash(k.evidence)
       /\ k.proof = "none" => k.history
  /\ k.status = "MATCHED" => k.log \in agreed \cup overtaken
  /\ k.status \in Alarming => k.log \in differed \cup overtaken \/ Excused(k)
  /\ k.pc \in {"find", "insert", "update"} => k.status \in Alarming /\ k.proof # "limited"
  /\ k.pc = "persist" => k.status # "none"
  /\ k.pc = "update" => k.target \in Incidents

SeenOK ==
  \A l \in LogIds :
    /\ seen[l] = "VALID" => l \in agreed \cup overtaken
    /\ seen[l] = "TAMPERED" => l \in differed \cup overtaken \/ Rehashed(l)

IncidentsOK ==
  \A i \in Incidents :
    \/ incidents[i].log \in differed \cup overtaken
    \/ incidents[i].history /\ logs[incidents[i].log].evidence.meta = "altered"

ChecksOK == \A c \in Checkers : CheckOK(checker[c])

SourceInv == TypeOK /\ ObservedOK /\ ChecksOK /\ SeenOK /\ IncidentsOK

-----------------------------------------------------------------------------
(* What no step takes back.                                                *)

Grown ==
  /\ LogIds \subseteq LogIds' /\ Incidents \subseteq Incidents'
  /\ \A l \in LogIds :
       logs[l].evidence.meta = "altered" => SameCopy(logs'[l].evidence, logs[l].evidence)
  /\ agreed \subseteq agreed' /\ differed \subseteq differed' /\ overtaken \subseteq overtaken'

LEMMA CheckStateGrows ==
  ASSUME Grown
  PROVE  CheckState \subseteq CheckState'
<1>1. Seq(LogIds) \subseteq Seq(LogIds')
  BY DEF Grown
<1>2. CheckState \subseteq CheckState'
  BY <1>1 DEF Grown, CheckState
<1> QED BY <1>2

LEMMA RehashedStays ==
  ASSUME Grown, NEW l \in LogIds, Rehashed(l)
  PROVE  Rehashed(l)'
BY DEF Grown, Rehashed, SameCopy, ContentHash

LEMMA CheckStays ==
  ASSUME Grown, TypeOK, NEW k \in CheckState, CheckOK(k)
  PROVE  CheckOK(k)'
<1>1. k.log \in LogIds => k.log \in LogIds'
  BY DEF Grown
<1>2. k.evidence.meta = "altered" =>
        k.log \in LogIds' /\ SameCopy(k.evidence, logs'[k.log].evidence)
  BY DEF CheckOK, Grown, SameCopy
<1>3. ASSUME k.status \in Alarming
      PROVE  k.log \in differed' \cup overtaken' \/ Excused(k)'
  <2>1. CASE k.log \in differed \cup overtaken
    BY <2>1 DEF Grown
  <2>2. CASE Excused(k)
    <3>1. k.log \in LogIds
      BY <1>3 DEF CheckOK, Alarming
    <3>2. (logs[k.log].evidence.meta = "altered")'
      BY <2>2, <3>1 DEF Excused, Grown, SameCopy
    <3>3. Rehashed(k.log) => Rehashed(k.log)'
      BY <3>1, RehashedStays
    <3> QED BY <2>2, <3>2, <3>3 DEF Excused
  <2> QED BY <1>3, <2>1, <2>2 DEF CheckOK
<1>4. k.status = "MATCHED" => k.log \in agreed' \cup overtaken'
  BY DEF CheckOK, Grown
<1>5. k.pc = "update" => k.target \in Incidents'
  BY DEF CheckOK, Grown
<1> QED BY <1>1, <1>2, <1>3, <1>4, <1>5 DEF CheckOK

-----------------------------------------------------------------------------
(* The client, the pipeline and the edits.                                 *)

Columned == seen \in Seq(Columns) /\ Len(seen) = Len(logs)

EnvResult ==
  /\ Grown /\ ObservedOK'
  /\ row' \in [Resources -> State] /\ inflight' \in [Resources -> Seq(Nat)]
  /\ logs' \in Seq(LogRow) /\ Columned'
  /\ \A l \in LogIds' : seen'[l] = IF l \in LogIds THEN seen[l] ELSE "NOT_CHECKED"
  /\ UNCHANGED <<stamped, checker>>
  /\ incidents' \in Seq(Incident) /\ Incidents' = Incidents
  /\ \A i \in Incidents : /\ incidents'[i].log = incidents[i].log
                          /\ incidents'[i].history = incidents[i].history
  /\ restored' \subseteq Incidents
  /\ writes' \in Nat /\ edits' \in Nat /\ faults' \in Nat
  /\ agreed' \subseteq LogIds' /\ differed' \subseteq LogIds' /\ overtaken' \subseteq LogIds'

LEMMA EnvPreserves ==
  ASSUME SourceInv, EnvResult
  PROVE  SourceInv'
<1>0. TypeOK /\ ChecksOK /\ SeenOK /\ IncidentsOK /\ Grown
  BY DEF SourceInv, EnvResult
<1>1. TypeOK'
  <2>1. stamped' \in Seq(LogIds')
    <3>1. Seq(LogIds) \subseteq Seq(LogIds')
      BY <1>0 DEF Grown
    <3> QED BY <1>0, <3>1 DEF EnvResult, TypeOK
  <2>2. \A j, k \in DOMAIN stamped' : stamped'[j] = stamped'[k] => j = k
    BY <1>0 DEF EnvResult, TypeOK
  <2>3. incidents' \in Seq(Incident')
    <3>1. Incident \subseteq Incident'
      BY <1>0 DEF Grown, Incident
    <3> HIDE DEF Incident
    <3>2. Seq(Incident) \subseteq Seq(Incident')
      BY <3>1
    <3> QED BY <3>2 DEF EnvResult
  <2>4. checker' \in [Checkers -> CheckState']
    <3>1. checker' = checker /\ checker \in [Checkers -> CheckState]
      BY <1>0 DEF EnvResult, TypeOK
    <3> QED BY <1>0, <3>1, CheckStateGrows
  <2> QED BY <2>1, <2>2, <2>3, <2>4 DEF EnvResult, TypeOK, Columned
<1>2. ChecksOK'
  <2>1. ASSUME NEW c \in Checkers, NEW k, k = checker[c] PROVE CheckOK(k)'
    BY <1>0, <2>1, CheckStays DEF ChecksOK, TypeOK
  <2> QED BY <2>1 DEF ChecksOK, EnvResult
<1>3. SeenOK'
  <2>1. ASSUME NEW l \in LogIds'
        PROVE  /\ seen'[l] = "VALID" => l \in agreed' \cup overtaken'
               /\ seen'[l] = "TAMPERED" => l \in differed' \cup overtaken' \/ Rehashed(l)'
    <3>1. CASE l \in LogIds
      BY <1>0, <3>1, RehashedStays DEF SeenOK, EnvResult, Grown
    <3>2. CASE l \notin LogIds
      BY <3>2 DEF EnvResult
    <3> QED BY <3>1, <3>2
  <2> QED BY <2>1 DEF SeenOK
<1>4. IncidentsOK'
  <2>1. ASSUME NEW i \in Incidents
        PROVE  \/ incidents'[i].log \in differed' \cup overtaken'
               \/ incidents'[i].history /\ logs'[incidents'[i].log].evidence.meta = "altered"
    <3>1. incidents[i].log \in LogIds
      <4>1. incidents[i] \in Incident
        BY <1>0 DEF TypeOK, Incidents
      <4> QED BY <4>1 DEF Incident
    <3> QED BY <1>0, <3>1 DEF IncidentsOK, EnvResult, Grown, SameCopy
  <2> QED BY <2>1 DEF IncidentsOK, EnvResult
<1> QED BY <1>1, <1>2, <1>3, <1>4 DEF SourceInv, EnvResult

LEMMA ObserveWrites ==
  ASSUME TypeOK, logs' \in Seq(LogRow), Logged' = Logged, LogIds \subseteq LogIds', Observe
  PROVE  /\ ObservedOK'
         /\ agreed \subseteq agreed' /\ differed \subseteq differed' /\ overtaken' = overtaken
         /\ agreed' \subseteq LogIds' /\ differed' \subseteq LogIds' /\ overtaken' \subseteq LogIds'
<1> DEFINE L(r) == LatestIn(logs', r)
           latest == {L(r) : r \in Logged}
           same == {l \in latest : row'[logs'[l].resource] = logs'[l].state}
<1>1. ASSUME NEW r \in Logged
      PROVE  L(r) \in LogIds' /\ logs'[L(r)].resource = r
  <2>1. PICK l \in DOMAIN logs' : logs'[l].resource = r
    BY DEF Logged, LogIds
  <2> QED BY <2>1, LatestFound DEF LogIds
<1>2. agreed' = agreed \cup same /\ differed' = differed \cup (latest \ same) /\ overtaken' = overtaken
  BY DEF Observe
<1>3. latest \subseteq LogIds'
  BY <1>1
<1>4. agreed \subseteq LogIds /\ differed \subseteq LogIds /\ overtaken \subseteq LogIds
  BY DEF TypeOK
<1>5. ASSUME NEW r \in Logged
      PROVE  IF row'[r] = logs'[L(r)].state THEN L(r) \in agreed' ELSE L(r) \in differed'
  BY <1>1, <1>2
<1>6. ObservedOK'
  <2> HIDE DEF L
  <2> QED BY <1>5 DEF ObservedOK, Latest, L
<1> QED BY <1>2, <1>3, <1>4, <1>6

(* What the logs keep when their metadata is all that changes.             *)
LEMMA ObservedStays ==
  ASSUME ObservedOK, logs \in Seq(LogRow), logs' \in Seq(LogRow), LogIds' = LogIds,
         \A l \in LogIds : logs'[l].resource = logs[l].resource /\ logs'[l].state = logs[l].state,
         UNCHANGED <<row, agreed, differed>>
  PROVE  ObservedOK'
<1>1. Logged' = Logged
  BY DEF Logged
<1>2. ASSUME NEW r PROVE Latest(r)' = Latest(r)
  BY DEF Latest, LatestIn, LogIds
<1>3. ASSUME NEW r \in Logged PROVE Latest(r) \in LogIds
  <2>1. PICK l \in DOMAIN logs : logs[l].resource = r
    BY DEF Logged, LogIds
  <2> QED BY <2>1, LatestFound DEF Latest, LogIds
<1> QED BY <1>1, <1>2, <1>3 DEF ObservedOK

LEMMA WrittenTyped ==
  ASSUME TypeOK, NEW r \in Resources, NEW state \in Nat, Written(r, state)
  PROVE  /\ row' \in [Resources -> State] /\ inflight' \in [Resources -> Seq(Nat)]
         /\ writes' \in Nat
<1>1. Append(inflight[r], state) \in Seq(Nat)
  BY DEF TypeOK
<1>2. row' \in [Resources -> State] /\ writes' \in Nat
  BY DEF TypeOK, Written, State
<1>3. inflight' = [inflight EXCEPT ![r] = Append(inflight[r], state)]
  BY DEF Written
<1> DEFINE a == Append(inflight[r], state)
<1> HIDE DEF a
<1>4. inflight' \in [Resources -> Seq(Nat)]
  <2>1. inflight \in [Resources -> Seq(Nat)] /\ a \in Seq(Nat) /\ inflight' = [inflight EXCEPT ![r] = a]
    BY <1>1, <1>3 DEF TypeOK, a
  <2> QED BY <2>1
<1> QED BY <1>2, <1>4

LEMMA LoggedIsResource ==
  ASSUME TypeOK
  PROVE  /\ Logged \subseteq Resources /\ LogIds = 1..Len(logs) /\ Len(logs) \in Nat
         /\ \A r \in Logged : Latest(r) \in LogIds /\ logs[Latest(r)].resource = r
         /\ \A l \in LogIds : /\ logs[l] \in LogRow /\ logs[l].resource \in Logged
                              /\ logs[l].evidence \in Row /\ logs[l].state \in Nat
<1>1. LogIds = 1..Len(logs) /\ Len(logs) \in Nat /\ \A l \in LogIds : logs[l] \in LogRow
  BY DEF TypeOK, LogIds
<1>2. Logged \subseteq Resources
  BY <1>1 DEF Logged, LogRow
<1>3. ASSUME NEW r \in Logged PROVE Latest(r) \in LogIds /\ logs[Latest(r)].resource = r
  <2>1. PICK l \in DOMAIN logs : logs[l].resource = r
    BY DEF Logged, LogIds
  <2> QED BY <2>1, LatestFound DEF Latest, LogIds, TypeOK
<1> QED BY <1>1, <1>2, <1>3 DEF Logged, LogRow

LEMMA ClientWritesResult ==
  ASSUME SourceInv, NEW r \in Logged, ClientWrites(r)
  PROVE  EnvResult
<1>1. TypeOK
  BY DEF SourceInv
<1>2. r \in Resources
  BY <1>1, LoggedIsResource
<1>3. Cardinality(Resources) \in Nat
  BY SourceAssumption, FS_CardinalityType
<1>4. Gone \in Nat /\ Fresh \in Nat
  BY <1>1, <1>3 DEF Gone, Fresh, TypeOK
<1>5. PICK state \in {Gone, Fresh} : Written(r, state)
  BY DEF ClientWrites
<1>6. /\ row' \in [Resources -> State] /\ inflight' \in [Resources -> Seq(Nat)]
      /\ writes' \in Nat
  BY <1>1, <1>2, <1>4, <1>5, WrittenTyped
<1>7. UNCHANGED <<logs, seen, stamped, incidents, restored, checker, edits, faults>> /\ Observe
  BY DEF ClientWrites, tables
<1>8. /\ ObservedOK'
      /\ agreed \subseteq agreed' /\ differed \subseteq differed' /\ overtaken' = overtaken
      /\ agreed' \subseteq LogIds' /\ differed' \subseteq LogIds' /\ overtaken' \subseteq LogIds'
  BY <1>1, <1>7, ObserveWrites DEF TypeOK, Logged, LogIds
<1>9. Grown /\ Columned'
  BY <1>1, <1>7, <1>8 DEF Grown, Columned, TypeOK, LogIds, Incidents, SameCopy
<1> QED BY <1>1, <1>6, <1>7, <1>8, <1>9 DEF EnvResult, TypeOK, LogIds, Incidents

LEMMA EditRowResult ==
  ASSUME SourceInv, NEW r \in Logged, EditRow(r)
  PROVE  EnvResult
<1>1. TypeOK
  BY DEF SourceInv
<1>2. r \in Resources
  BY <1>1, LoggedIsResource
<1>3. row' \in [Resources -> State] /\ edits' \in Nat
  BY <1>1, <1>2 DEF TypeOK, EditRow, State, Gone, Odd
<1>4. UNCHANGED <<logs, inflight, seen, stamped, incidents, restored, checker, writes, faults>> /\ Observe
  BY DEF EditRow
<1>5. /\ ObservedOK'
      /\ agreed \subseteq agreed' /\ differed \subseteq differed' /\ overtaken' = overtaken
      /\ agreed' \subseteq LogIds' /\ differed' \subseteq LogIds' /\ overtaken' \subseteq LogIds'
  BY <1>1, <1>4, ObserveWrites DEF TypeOK, Logged, LogIds
<1>6. Grown /\ Columned'
  BY <1>1, <1>4, <1>5 DEF Grown, Columned, TypeOK, LogIds, Incidents, SameCopy
<1> QED BY <1>1, <1>3, <1>4, <1>5, <1>6 DEF EnvResult, TypeOK, LogIds, Incidents

LEMMA RestoreResult ==
  ASSUME SourceInv, NEW i \in Incidents, Restore(i)
  PROVE  EnvResult
<1>1. TypeOK
  BY DEF SourceInv
<1> DEFINE l == incidents[i].log
           r == logs[l].resource
<1>2. l \in LogIds
  <2>1. incidents[i] \in Incident
    BY <1>1 DEF TypeOK, Incidents
  <2> QED BY <2>1 DEF Incident
<1>3. r \in Resources /\ logs[l].state \in Nat
  BY <1>1, <1>2, LoggedIsResource
<1>4. Written(r, logs[l].state)
  BY DEF Restore
<1> HIDE DEF l, r
<1>5. /\ row' \in [Resources -> State] /\ inflight' \in [Resources -> Seq(Nat)]
      /\ writes' \in Nat
  BY <1>1, <1>3, <1>4, WrittenTyped
<1>6. /\ UNCHANGED <<logs, seen, stamped, incidents, checker, edits, faults>> /\ Observe
      /\ restored' = restored \cup {i}
  BY DEF Restore
<1>7. /\ ObservedOK'
      /\ agreed \subseteq agreed' /\ differed \subseteq differed' /\ overtaken' = overtaken
      /\ agreed' \subseteq LogIds' /\ differed' \subseteq LogIds' /\ overtaken' \subseteq LogIds'
  BY <1>1, <1>6, ObserveWrites DEF TypeOK, Logged, LogIds
<1>8. Grown /\ Columned'
  BY <1>1, <1>6, <1>7 DEF Grown, Columned, TypeOK, LogIds, Incidents, SameCopy
<1> QED BY <1>1, <1>5, <1>6, <1>7, <1>8 DEF EnvResult, TypeOK, LogIds, Incidents

LEMMA ResolveResult ==
  ASSUME SourceInv, NEW i \in Incidents, Resolve(i)
  PROVE  EnvResult
<1>1. TypeOK /\ ObservedOK
  BY DEF SourceInv
<1>2. /\ UNCHANGED <<row, inflight, logs, seen, stamped, restored, checker, writes, edits, faults,
                     agreed, differed, overtaken>>
      /\ incidents' = [incidents EXCEPT ![i].status = "RESOLVED"]
  BY DEF Resolve, client, history
<1>3. /\ incidents' \in Seq(Incident) /\ Incidents' = Incidents
      /\ \A j \in Incidents : /\ incidents'[j].log = incidents[j].log
                              /\ incidents'[j].history = incidents[j].history
  <2>1. incidents \in Seq(Incident) /\ incidents[i] \in Incident
    BY <1>1 DEF TypeOK, Incidents
  <2>2. [incidents[i] EXCEPT !.status = "RESOLVED"] \in Incident
    BY <2>1 DEF Incident
  <2>3. incidents' = [incidents EXCEPT ![i] = [incidents[i] EXCEPT !.status = "RESOLVED"]]
    BY <1>2
  <2>4. /\ [incidents[i] EXCEPT !.status = "RESOLVED"].log = incidents[i].log
        /\ [incidents[i] EXCEPT !.status = "RESOLVED"].history = incidents[i].history
    BY <2>1 DEF Incident
  <2> DEFINE new == [incidents[i] EXCEPT !.status = "RESOLVED"]
  <2> HIDE DEF new, Incident
  <2>5. incidents' \in Seq(Incident) /\ DOMAIN incidents' = DOMAIN incidents
    BY <2>1, <2>2, <2>3 DEF new, Incidents
  <2> QED BY <2>3, <2>4, <2>5 DEF new, Incidents
<1>4. ObservedOK'
  BY <1>1, <1>2, ObservedStays DEF TypeOK, LogIds
<1>5. Grown /\ Columned'
  BY <1>1, <1>2, <1>3 DEF Grown, Columned, TypeOK, LogIds, SameCopy
<1> QED BY <1>1, <1>2, <1>3, <1>4, <1>5 DEF EnvResult, TypeOK, LogIds

(* A step that changes the evidence of a log, which is Sound if its        *)
(* metadata may change.                                                    *)
LEMMA EvidenceResult ==
  ASSUME SourceInv, NEW l \in LogIds, NEW e \in Row,
         logs' = [logs EXCEPT ![l].evidence = e],
         logs[l].evidence.meta = "altered" => SameCopy(e, logs[l].evidence),
         edits' \in Nat,
         UNCHANGED <<row, inflight, seen, stamped, incidents, restored, checker, writes, faults,
                     agreed, differed, overtaken>>
  PROVE  EnvResult
<1>1. TypeOK /\ ObservedOK
  BY DEF SourceInv
<1> DEFINE x == [logs[l] EXCEPT !.evidence = e]
<1>2. logs \in Seq(LogRow) /\ logs[l] \in LogRow /\ LogIds = DOMAIN logs
  BY <1>1 DEF TypeOK, LogIds
<1>3. x \in LogRow /\ x.resource = logs[l].resource /\ x.state = logs[l].state /\ x.evidence = e
  BY <1>2 DEF LogRow
<1>4. logs' = [logs EXCEPT ![l] = x]
  OBVIOUS
<1> HIDE DEF x, LogRow
<1>5. /\ logs' \in Seq(LogRow) /\ LogIds' = LogIds /\ Len(logs') = Len(logs)
      /\ logs'[l] = x /\ \A m \in LogIds \ {l} : logs'[m] = logs[m]
  BY <1>2, <1>3, <1>4 DEF LogIds
<1>6. /\ \A m \in LogIds : /\ logs'[m].resource = logs[m].resource
                           /\ logs'[m].state = logs[m].state
                           /\ logs[m].evidence.meta = "altered" =>
                                SameCopy(logs'[m].evidence, logs[m].evidence)
  BY <1>3, <1>5 DEF SameCopy
<1>7. ObservedOK'
  BY <1>1, <1>2, <1>5, <1>6, ObservedStays
<1>8. Grown /\ Columned'
  BY <1>1, <1>5, <1>6 DEF Grown, Columned, TypeOK, Incidents
<1> QED BY <1>1, <1>5, <1>7, <1>8 DEF EnvResult, TypeOK, Incidents

LEMMA AnchorResult ==
  ASSUME SourceInv, NEW l \in LogIds, Anchor(l)
  PROVE  EnvResult
<1>1. TypeOK
  BY DEF SourceInv
<1> DEFINE e == [logs[l].evidence EXCEPT !.stage = "anchored"]
<1>2. logs[l] \in LogRow /\ logs[l].evidence \in Row
  BY <1>1, LoggedIsResource
<1>3. e \in Row /\ SameCopy(e, logs[l].evidence)
  BY <1>2 DEF Row, SameCopy
<1>4. logs' = [logs EXCEPT ![l].evidence = e]
  BY <1>2 DEF Anchor
<1>5. /\ edits' \in Nat
      /\ UNCHANGED <<row, inflight, seen, stamped, incidents, restored, checker, writes, faults,
                     agreed, differed, overtaken>>
  BY <1>1 DEF Anchor, client, history, TypeOK
<1> HIDE DEF e
<1> QED BY <1>3, <1>4, <1>5, EvidenceResult

LEMMA EditLogResult ==
  ASSUME SourceInv, NEW l \in LogIds, EditLog(l)
  PROVE  EnvResult
<1>1. TypeOK
  BY DEF SourceInv
<1>2. PICK e \in Damage : logs' = [logs EXCEPT ![l].evidence = e]
  BY DEF EditLog
<1>3. e \in Row /\ logs[l].evidence.meta = "sealed"
  BY SourceAssumption DEF EditLog, Sound
<1>4. /\ edits' \in Nat
      /\ UNCHANGED <<row, inflight, seen, stamped, incidents, restored, checker, writes, faults,
                     agreed, differed, overtaken>>
  BY <1>1 DEF EditLog, client, history, TypeOK
<1> QED BY <1>2, <1>3, <1>4, EvidenceResult

LEMMA SoundTyped == Sound \in Row /\ [Sound EXCEPT !.stage = "hashed"] \in Row /\ Sound.meta = "sealed"
BY DEF Sound, Row, SealedHash, Contents, Snapshots

LEMMA IngestResult ==
  ASSUME SourceInv, NEW r \in Logged, Ingest(r)
  PROVE  EnvResult
<1>1. TypeOK
  BY DEF SourceInv
<1>2. r \in Resources /\ LogIds = 1..Len(logs) /\ Len(logs) \in Nat
  BY <1>1, LoggedIsResource
<1> DEFINE state == Head(inflight[r])
           new == NewLog(r, state, "hashed")
<1>3. /\ inflight[r] \in Seq(Nat) /\ inflight[r] # <<>>
      /\ inflight' = [inflight EXCEPT ![r] = Tail(inflight[r])]
      /\ logs' = Append(logs, new) /\ seen' = Append(seen, "NOT_CHECKED")
      /\ UNCHANGED <<row, stamped, incidents, restored, checker, writes, edits, faults>> /\ Observe
  BY <1>1, <1>2 DEF Ingest, TypeOK
<1>4. state \in Nat /\ Tail(inflight[r]) \in Seq(Nat)
  BY <1>3, HeadTailProperties
<1>5. inflight' \in [Resources -> Seq(Nat)]
  <2> DEFINE t == Tail(inflight[r])
  <2>1. inflight \in [Resources -> Seq(Nat)] /\ t \in Seq(Nat) /\ inflight' = [inflight EXCEPT ![r] = t]
    BY <1>1, <1>3, <1>4 DEF TypeOK
  <2> HIDE DEF t
  <2> QED BY <2>1
<1> HIDE DEF state
<1>6. new \in LogRow /\ new.resource = r
  <2> DEFINE e == [Sound EXCEPT !.stage = "hashed"]
  <2>1. e \in Row
    BY SoundTyped
  <2>2. new = [resource |-> r, state |-> state, evidence |-> e]
    BY DEF NewLog
  <2> HIDE DEF e
  <2> QED BY <1>2, <1>4, <2>1, <2>2 DEF LogRow
<1> HIDE DEF new
<1>7. logs \in Seq(LogRow) /\ seen \in Seq(Columns) /\ Len(seen) = Len(logs)
  BY <1>1 DEF TypeOK
<1>8. /\ logs' \in Seq(LogRow) /\ LogIds' = 1..(Len(logs) + 1) /\ Len(logs') = Len(logs) + 1
      /\ \A l \in LogIds : logs'[l] = logs[l]
      /\ logs'[Len(logs) + 1] = new
  <2>1. /\ Append(logs, new) \in Seq(LogRow) /\ Len(Append(logs, new)) = Len(logs) + 1
        /\ DOMAIN Append(logs, new) = 1..(Len(logs) + 1)
        /\ \A l \in 1..Len(logs) : Append(logs, new)[l] = logs[l]
        /\ Append(logs, new)[Len(logs) + 1] = new
    BY <1>6, <1>7, AppendProperties
  <2> HIDE DEF LogRow
  <2> QED BY <1>2, <1>3, <2>1 DEF LogIds
<1>9. /\ Columned'
      /\ \A l \in LogIds' : seen'[l] = IF l \in LogIds THEN seen[l] ELSE "NOT_CHECKED"
  <2> DEFINE s == Append(seen, "NOT_CHECKED")
  <2>1. /\ s \in Seq(Columns) /\ Len(s) = Len(seen) + 1
        /\ \A l \in 1..Len(seen) : s[l] = seen[l]
        /\ s[Len(seen) + 1] = "NOT_CHECKED"
    BY <1>7, AppendProperties DEF Columns
  <2>2. seen' = s
    BY <1>3
  <2> HIDE DEF s
  <2> QED BY <1>2, <1>7, <1>8, <2>1, <2>2 DEF Columned
<1>10. Logged' = Logged
  <2>1. ASSUME NEW x PROVE x \in Logged' <=> x \in Logged
    <3>1. x \in Logged' <=> \E l \in LogIds' : x = logs'[l].resource
      BY DEF Logged
    <3>2. x \in Logged <=> \E l \in LogIds : x = logs[l].resource
      BY DEF Logged
    <3>3. \A l \in LogIds' : l \in LogIds \/ l = Len(logs) + 1
      BY <1>2, <1>8
    <3>4. \A l \in LogIds : l \in LogIds'
      BY <1>2, <1>8
    <3> QED BY <1>6, <1>8, <3>1, <3>2, <3>3, <3>4
  <2> QED BY <2>1
<1>11. LogIds \subseteq LogIds'
  BY <1>2, <1>8
<1>12. /\ ObservedOK'
       /\ agreed \subseteq agreed' /\ differed \subseteq differed' /\ overtaken' = overtaken
       /\ agreed' \subseteq LogIds' /\ differed' \subseteq LogIds' /\ overtaken' \subseteq LogIds'
  BY <1>1, <1>3, <1>8, <1>10, <1>11, ObserveWrites
<1>13. Grown
  <2>1. \A l \in LogIds : SameCopy(logs'[l].evidence, logs[l].evidence)
    BY <1>8 DEF SameCopy
  <2>2. Incidents' = Incidents
    BY <1>3 DEF Incidents
  <2> QED BY <1>11, <1>12, <2>1, <2>2 DEF Grown
<1>14. Incidents' = Incidents /\ row' \in [Resources -> State] /\ incidents' \in Seq(Incident)
       /\ incidents' = incidents
       /\ restored' \subseteq Incidents /\ writes' \in Nat /\ edits' \in Nat /\ faults' \in Nat
       /\ UNCHANGED <<stamped, checker>>
  BY <1>1, <1>3 DEF Incidents, TypeOK
<1> QED BY <1>5, <1>8, <1>9, <1>12, <1>13, <1>14 DEF EnvResult

-----------------------------------------------------------------------------
(* The checks.                                                             *)

CheckResult ==
  /\ UNCHANGED <<row, inflight, logs, restored, writes, edits, agreed, differed>>
  /\ faults' \in Nat /\ Grown /\ overtaken' \subseteq LogIds
  /\ stamped' \in Seq(LogIds) /\ Distinct(stamped') /\ Columned' /\ SeenOK'
  /\ incidents' \in Seq(Incident) /\ IncidentsOK'
  /\ checker' \in [Checkers -> CheckState'] /\ ChecksOK'

LEMMA CheckPreserves ==
  ASSUME SourceInv, CheckResult
  PROVE  SourceInv'
<1>1. TypeOK /\ ObservedOK /\ Grown
  BY DEF SourceInv, CheckResult
<1>2. ObservedOK'
  BY <1>1, ObservedStays DEF CheckResult, TypeOK, LogIds
<1>3. Incident' = Incident
  BY DEF CheckResult, Incident, LogIds
<1>4. TypeOK'
  <2>1. restored' \subseteq Incidents'
    BY <1>1 DEF CheckResult, Grown, TypeOK
  <2>2. LogIds' = LogIds
    BY DEF CheckResult, LogIds
  <2> QED BY <1>1, <1>3, <2>1, <2>2 DEF CheckResult, TypeOK, Columned, Distinct
<1> QED BY <1>2, <1>4 DEF SourceInv, CheckResult

(* A check moves on.                                                       *)
LEMMA CheckerMoves ==
  ASSUME SourceInv, Grown, NEW c \in Checkers, NEW k \in CheckState', CheckOK(k)',
         checker' = [checker EXCEPT ![c] = k]
  PROVE  checker' \in [Checkers -> CheckState'] /\ ChecksOK'
<1>1. checker \in [Checkers -> CheckState] /\ TypeOK /\ ChecksOK
  BY DEF SourceInv, TypeOK
<1>2. CheckState \subseteq CheckState'
  BY CheckStateGrows
<1>3. checker' \in [Checkers -> CheckState']
  BY <1>1, <1>2
<1>4. ASSUME NEW d \in Checkers, NEW m, m = checker'[d] PROVE CheckOK(m)'
  <2>1. CASE d = c
    BY <1>1, <1>4, <2>1
  <2>2. CASE d # c
    <3>1. m = checker[d]
      BY <1>1, <1>4, <2>2
    <3>2. m \in CheckState /\ CheckOK(m)
      BY <1>1, <3>1 DEF ChecksOK
    <3> QED BY <1>1, <3>2, CheckStays
  <2> QED BY <2>1, <2>2
<1> QED BY <1>3, <1>4 DEF ChecksOK

Resting == UNCHANGED <<row, inflight, logs, seen, stamped, incidents, restored, writes, edits,
                       agreed, differed>>

LEMMA RestingGrows ==
  ASSUME Resting, overtaken \subseteq overtaken'
  PROVE  Grown
BY DEF Resting, Grown, LogIds, Incidents, SameCopy

(* A step of a check that writes no table.                                 *)
LEMMA QuietResult ==
  ASSUME SourceInv, Resting, overtaken \subseteq overtaken', overtaken' \subseteq LogIds,
         faults' \in Nat,
         NEW c \in Checkers, NEW k \in CheckState', CheckOK(k)',
         checker' = [checker EXCEPT ![c] = k]
  PROVE  CheckResult
<1>1. TypeOK /\ SeenOK /\ IncidentsOK /\ Grown
  BY RestingGrows DEF SourceInv
<1>2. checker' \in [Checkers -> CheckState'] /\ ChecksOK'
  BY <1>1, CheckerMoves
<1>3. SeenOK'
  BY <1>1 DEF Resting, SeenOK, LogIds, Rehashed
<1>4. IncidentsOK'
  BY <1>1 DEF Resting, IncidentsOK, Incidents
<1>5. /\ stamped' \in Seq(LogIds) /\ Distinct(stamped') /\ Columned'
      /\ incidents' \in Seq(Incident)
  BY <1>1 DEF Resting, TypeOK, Distinct, Columned
<1> QED BY <1>1, <1>2, <1>3, <1>4, <1>5 DEF CheckResult, Resting

LEMMA QuietStep ==
  ASSUME SourceInv, Resting, overtaken' = overtaken, faults' \in Nat,
         NEW c \in Checkers, NEW k \in CheckState, CheckOK(k),
         checker' = [checker EXCEPT ![c] = k]
  PROVE  CheckResult
<1>1. Grown /\ TypeOK
  BY RestingGrows DEF SourceInv
<1>2. k \in CheckState' /\ CheckOK(k)'
  BY <1>1, CheckStays, CheckStateGrows
<1>3. overtaken' \subseteq LogIds
  BY <1>1 DEF TypeOK
<1> QED BY <1>2, <1>3, QuietResult

LEMMA IdleTyped ==
  /\ Idle \in CheckState /\ CheckOK(Idle)
  /\ [Idle EXCEPT !.pc = "answered"] \in CheckState /\ CheckOK([Idle EXCEPT !.pc = "answered"])
<1>1. <<>> \in Seq(LogIds)
  BY EmptySeq
<1>2. Idle \in CheckState
  BY <1>1, SoundTyped DEF Idle, CheckState
<1>3. [Idle EXCEPT !.pc = "answered"] \in CheckState
  BY <1>2 DEF CheckState
<1> QED BY <1>2, <1>3, SoundTyped DEF Idle, CheckOK, Alarming

LEMMA SweepingTyped ==
  ASSUME NEW pass \in {"none", "recent", "backfill"}, NEW todo \in Seq(LogIds),
         NEW tried \in SUBSET LogIds
  PROVE  Sweeping(pass, todo, tried) \in CheckState /\ CheckOK(Sweeping(pass, todo, tried))
<1>1. CASE todo # <<>>
  <2> DEFINE k == [Idle EXCEPT !.pc = "verify", !.pass = pass, !.log = Head(todo),
                               !.todo = Tail(todo), !.tried = tried]
  <2>1. Head(todo) \in LogIds /\ Tail(todo) \in Seq(LogIds)
    BY <1>1, HeadTailProperties
  <2> DEFINE h == Head(todo)
             t == Tail(todo)
  <2>2. k = [Idle EXCEPT !.pc = "verify", !.pass = pass, !.log = h, !.todo = t, !.tried = tried]
    OBVIOUS
  <2> HIDE DEF h, t
  <2>3. k \in CheckState
    <3>1. h \in LogIds /\ t \in Seq(LogIds)
      BY <2>1 DEF h, t
    <3> QED BY <2>2, <3>1, IdleTyped DEF CheckState
  <2>4. /\ k.pc = "verify" /\ k.log = h /\ k.status = "none" /\ k.history = FALSE
        /\ k.evidence = Sound
    BY <2>2 DEF Idle
  <2>5. CheckOK(k)
    <3> HIDE DEF k
    <3> QED BY <2>1, <2>4, SoundTyped DEF CheckOK, h, Alarming
  <2> QED BY <1>1, <2>3, <2>5 DEF Sweeping
<1>2. CASE todo = <<>> /\ pass = "recent"
  <2> DEFINE k == [Idle EXCEPT !.pc = "backfill", !.tried = tried]
  <2>1. k \in CheckState
    BY IdleTyped DEF CheckState
  <2>2. CheckOK(k)
    BY SoundTyped DEF CheckOK, Idle, Alarming
  <2> QED BY <1>2, <2>1, <2>2 DEF Sweeping
<1>3. CASE todo = <<>> /\ pass # "recent"
  BY <1>3, IdleTyped DEF Sweeping
<1> QED BY <1>1, <1>2, <1>3

LEMMA OrderedTyped ==
  ASSUME NEW S, S \in SUBSET LogIds, TypeOK, NEW s \in [1..Cardinality(S) -> S]
  PROVE  s \in Seq(LogIds)
<1>1. IsFiniteSet(LogIds)
  <2>1. LogIds = 1..Len(logs) /\ Len(logs) \in Nat
    BY LoggedIsResource
  <2> QED BY <2>1, FS_Interval
<1>2. Cardinality(S) \in Nat
  BY <1>1, FS_Subset, FS_CardinalityType
<1> DEFINE n == Cardinality(S)
<1> HIDE DEF n
<1>3. n \in Nat /\ s \in [1..n -> LogIds]
  BY <1>2 DEF n
<1> QED BY <1>3

LEMMA Unfaulty ==
  ASSUME TypeOK, UNCHANGED faults \/ Spend
  PROVE  faults' \in Nat
BY DEF TypeOK, Spend

LEMMA SweepRecentResult ==
  ASSUME SourceInv, SweepRecent
  PROVE  CheckResult
<1>1. TypeOK
  BY DEF SourceInv
<1>2. PICK due \in SUBSET Swept : \E todo \in NewestFirst(due) :
        checker' = [checker EXCEPT !["sweep"] = Sweeping("recent", todo, due)]
  BY DEF SweepRecent
<1>3. PICK todo \in NewestFirst(due) :
        checker' = [checker EXCEPT !["sweep"] = Sweeping("recent", todo, due)]
  BY <1>2
<1>4. due \in SUBSET LogIds
  BY DEF Swept
<1>5. todo \in [1..Cardinality(due) -> due]
  BY DEF NewestFirst
<1>6. todo \in Seq(LogIds)
  BY <1>1, <1>4, <1>5, OrderedTyped
<1> DEFINE k == Sweeping("recent", todo, due)
<1>7. k \in CheckState /\ CheckOK(k)
  BY <1>4, <1>6, SweepingTyped
<1> HIDE DEF k
<1>8. Resting /\ overtaken' = overtaken /\ faults' \in Nat
  BY <1>1 DEF SweepRecent, Bystanders, client, history, Resting, TypeOK
<1>9. "sweep" \in Checkers /\ checker' = [checker EXCEPT !["sweep"] = k]
  BY <1>3 DEF Checkers, k
<1> QED BY <1>7, <1>8, <1>9, QuietStep

LEMMA SweepBackfillResult ==
  ASSUME SourceInv, SweepBackfill
  PROVE  CheckResult
<1>1. TypeOK
  BY DEF SourceInv
<1> DEFINE old == Oldest(checker["sweep"].tried)
<1>2. PICK todo \in StalestFirst(old) :
        checker' = [checker EXCEPT !["sweep"] = Sweeping("backfill", todo, {})]
  BY DEF SweepBackfill
<1>3. old \in SUBSET LogIds
  BY DEF Oldest, First, Swept
<1>4. todo \in [1..Cardinality(old) -> old]
  BY DEF StalestFirst
<1> HIDE DEF old
<1>5. todo \in Seq(LogIds)
  BY <1>1, <1>3, <1>4, OrderedTyped
<1> DEFINE k == Sweeping("backfill", todo, {})
<1>6. k \in CheckState /\ CheckOK(k)
  BY <1>5, SweepingTyped
<1> HIDE DEF k
<1>7. Resting /\ overtaken' = overtaken /\ faults' \in Nat
  BY <1>1 DEF SweepBackfill, Bystanders, client, history, Resting, TypeOK
<1>8. "sweep" \in Checkers /\ checker' = [checker EXCEPT !["sweep"] = k]
  BY <1>2 DEF Checkers, k
<1> QED BY <1>6, <1>7, <1>8, QuietStep

-----------------------------------------------------------------------------
(* One check, step by step.                                                *)

(* A proof is "verified" for sealed metadata only; a limited one holds for *)
(* metadata that agree with their hash.                                    *)
LEMMA ProofFacts ==
  ASSUME NEW path \in {"log", "explorer"}, NEW e \in Row, NEW reads
  PROVE  /\ Proof(path, e, reads) \in {"none", "limited", "verified"}
         /\ Proof(path, e, reads) = "verified" => e.meta = "sealed"
         /\ Proof(path, e, reads) = "limited" => e.hash = ContentHash(e)
<1>1. \A p : Classify(p, e, reads).verdict = "VALID" =>
         e.hash = ContentHash(e) /\ (Reconstructs(e) \/ (p = "log" /\ LegacyLimited(e)))
  BY DEF Classify, Found, Tampered
<1>2. Reconstructs(e) => e.hash = SealedHash
  BY DEF Reconstructs, ProofsOf
<1>3. e.hash = SealedHash /\ e.hash = ContentHash(e) => e.meta = "sealed"
  BY DEF SealedHash, ContentHash
<1> QED BY <1>1, <1>2, <1>3 DEF Proof

LEMMA InHand ==
  ASSUME SourceInv, NEW c \in Checkers
  PROVE  /\ TypeOK /\ checker[c] \in CheckState /\ CheckOK(checker[c])
         /\ checker[c].pc \notin {"idle", "backfill", "answered"} =>
              checker[c].log \in LogIds /\ logs[checker[c].log].evidence \in Row
BY LoggedIsResource DEF SourceInv, TypeOK, ChecksOK, CheckOK

(* What a check that ends becomes.                                         *)
LEMMA DoneMoves ==
  ASSUME SourceInv, NEW c \in Checkers, Done(c)
  PROVE  \E k \in CheckState : CheckOK(k) /\ checker' = [checker EXCEPT ![c] = k]
<1>1. /\ checker[c].pass \in {"none", "recent", "backfill"}
      /\ checker[c].todo \in Seq(LogIds) /\ checker[c].tried \in SUBSET LogIds
  BY InHand DEF CheckState
<1> DEFINE s == Sweeping(checker[c].pass, checker[c].todo, checker[c].tried)
           k == IF c = "sweep" THEN s ELSE [Idle EXCEPT !.pc = "answered"]
<1>2. s \in CheckState /\ CheckOK(s)
  BY <1>1, SweepingTyped
<1>3. checker' = [checker EXCEPT ![c] = k]
  BY DEF Done
<1> HIDE DEF s
<1>4. k \in CheckState /\ CheckOK(k)
  BY <1>2, IdleTyped
<1> QED BY <1>3, <1>4

LEMMA CheckLogResult ==
  ASSUME SourceInv, NEW u \in Users, NEW l \in LogIds, CheckLog(u, l)
  PROVE  CheckResult
<1>1. u \in Checkers /\ TypeOK /\ checker[u] \in CheckState /\ CheckOK(checker[u])
  BY InHand DEF Checkers
<1> DEFINE k == [checker[u] EXCEPT !.pc = "verify", !.log = l]
<1>2. checker[u].pc = "idle" /\ checker' = [checker EXCEPT ![u] = k]
  BY DEF CheckLog
<1>3. k \in CheckState
  BY <1>1 DEF CheckState
<1>4. /\ k.pc = "verify" /\ k.log = l /\ k.status = checker[u].status
      /\ k.history = checker[u].history /\ k.evidence = checker[u].evidence
  BY <1>1 DEF CheckState
<1>5. checker[u].status = "none" /\ ~checker[u].history
  BY <1>1, <1>2 DEF CheckOK
<1>6. checker[u].evidence.meta = "sealed"
  BY <1>1, <1>2 DEF CheckOK
<1> HIDE DEF k
<1>7. CheckOK(k)
  BY <1>4, <1>5, <1>6 DEF CheckOK, Alarming
<1>8. Resting /\ overtaken' = overtaken /\ faults' \in Nat
  BY <1>1 DEF CheckLog, Bystanders, client, history, Resting, TypeOK
<1> QED BY <1>1, <1>2, <1>3, <1>7, <1>8, QuietStep

LEMMA CheckHistoryResult ==
  ASSUME SourceInv, NEW u \in Users, NEW r \in Logged, CheckHistory(u, r)
  PROVE  CheckResult
<1>1. u \in Checkers /\ TypeOK /\ checker[u] \in CheckState /\ CheckOK(checker[u])
  BY InHand DEF Checkers
<1> DEFINE l == Latest(r)
           e == logs[l].evidence
           k == [checker[u] EXCEPT !.pc = "classify", !.history = TRUE, !.log = l, !.evidence = e]
<1>2. checker[u].pc = "idle" /\ checker' = [checker EXCEPT ![u] = k]
  BY DEF CheckHistory
<1>3. l \in LogIds /\ e \in Row /\ e = logs[l].evidence
  BY <1>1, LoggedIsResource
<1> HIDE DEF l, e
<1>4. k \in CheckState
  BY <1>1, <1>3 DEF CheckState
<1>5. /\ k.pc = "classify" /\ k.log = l /\ k.status = checker[u].status
      /\ k.history = TRUE /\ k.evidence = e
  BY <1>1 DEF CheckState
<1>6. checker[u].status = "none"
  BY <1>1, <1>2 DEF CheckOK
<1> HIDE DEF k
<1>7. CheckOK(k)
  BY <1>3, <1>5, <1>6 DEF CheckOK, Alarming, SameCopy
<1>8. Resting /\ overtaken' = overtaken /\ faults' \in Nat
  BY <1>1 DEF CheckHistory, Bystanders, client, history, Resting, TypeOK
<1> QED BY <1>1, <1>2, <1>4, <1>7, <1>8, QuietStep

LEMMA VerifyResult ==
  ASSUME SourceInv, NEW c \in Checkers, Verify(c)
  PROVE  CheckResult
<1> DEFINE k0 == checker[c]
           l == k0.log
           e == logs[l].evidence
<1>1. TypeOK /\ k0 \in CheckState /\ CheckOK(k0) /\ k0.pc = "verify" /\ l \in LogIds /\ e \in Row
  BY InHand DEF Verify
<1>2. k0.status = "none" /\ ~k0.history
  BY <1>1 DEF CheckOK
<1>3. PICK reads \in SUBSET AllReads :
        /\ Reads(reads)
        /\ IF Proof("log", e, reads) = "none" \/ l # Latest(logs[l].resource) THEN Unproven(c)
           ELSE checker' = [checker EXCEPT ![c].pc = "ask", ![c].proof = Proof("log", e, reads),
                                           ![c].evidence = e]
  BY DEF Verify
<1>4. Resting /\ overtaken' = overtaken
  BY DEF Verify, Bystanders, client, history, Resting
<1>5. faults' \in Nat
  BY <1>1, <1>3, Unfaulty DEF Reads
<1>6. \E k \in CheckState : CheckOK(k) /\ checker' = [checker EXCEPT ![c] = k]
  <2>1. CASE Done(c)
    BY <2>1, DoneMoves
  <2>2. CASE Goto(c, "attempt")
    <3> DEFINE k == [k0 EXCEPT !.pc = "attempt"]
    <3>1. k \in CheckState /\ checker' = [checker EXCEPT ![c] = k]
      BY <1>1, <2>2 DEF CheckState, Goto
    <3>2. /\ k.pc = "attempt" /\ k.log = k0.log /\ k.status = k0.status
          /\ k.history = k0.history /\ k.evidence = k0.evidence
      BY <1>1 DEF CheckState
    <3>3. CheckOK(k)
      <4> HIDE DEF k
      <4> QED BY <1>1, <1>2, <3>2 DEF CheckOK, Alarming
    <3> QED BY <3>1, <3>3
  <2>3. CASE /\ Proof("log", e, reads) # "none"
             /\ checker' = [checker EXCEPT ![c].pc = "ask", ![c].proof = Proof("log", e, reads),
                                           ![c].evidence = e]
    <3> DEFINE p == Proof("log", e, reads)
               k == [k0 EXCEPT !.pc = "ask", !.proof = p, !.evidence = e]
    <3>1. /\ p \in {"none", "limited", "verified"} /\ p # "none"
          /\ p = "verified" => e.meta = "sealed"
          /\ p = "limited" => e.hash = ContentHash(e)
      BY <1>1, <2>3, ProofFacts
    <3>2. checker' = [checker EXCEPT ![c] = k]
      BY <2>3
    <3>0. e = logs[k0.log].evidence /\ e \in Row
      BY <1>1
    <3> HIDE DEF p, e
    <3>3. k \in CheckState
      BY <1>1, <3>1 DEF CheckState
    <3>4. /\ k.pc = "ask" /\ k.log = k0.log /\ k.status = k0.status
          /\ k.history = k0.history /\ k.evidence = e /\ k.proof = p
      BY <1>1 DEF CheckState
    <3>5. CheckOK(k)
      <4> HIDE DEF k
      <4> QED BY <1>1, <1>2, <3>0, <3>1, <3>4 DEF CheckOK, Alarming, SameCopy
    <3> QED BY <3>2, <3>3, <3>5
  <2> QED BY <1>3, <2>1, <2>2, <2>3 DEF Unproven
<1> QED BY <1>4, <1>5, <1>6, QuietStep

LEMMA ClassifyCopyResult ==
  ASSUME SourceInv, NEW u \in Users, ClassifyCopy(u)
  PROVE  CheckResult
<1> DEFINE k0 == checker[u]
<1>1. /\ u \in Checkers /\ TypeOK /\ k0 \in CheckState /\ CheckOK(k0) /\ k0.pc = "classify"
      /\ k0.log \in LogIds
  BY InHand DEF ClassifyCopy, Checkers
<1>2. k0.status = "none" /\ k0.history /\ k0.evidence \in Row
  BY <1>1 DEF CheckOK, CheckState
<1>3. PICK reads \in SUBSET AllReads :
        /\ Reads(reads)
        /\ checker' = [checker EXCEPT ![u].pc = "ask",
                                      ![u].proof = Proof("explorer", k0.evidence, reads)]
  BY DEF ClassifyCopy
<1> DEFINE p == Proof("explorer", k0.evidence, reads)
           k == [k0 EXCEPT !.pc = "ask", !.proof = p]
<1>4. /\ p \in {"none", "limited", "verified"}
      /\ p = "verified" => k0.evidence.meta = "sealed"
      /\ p = "limited" => k0.evidence.hash = ContentHash(k0.evidence)
  BY <1>2, ProofFacts
<1>5. checker' = [checker EXCEPT ![u] = k]
  BY <1>3
<1> HIDE DEF p
<1>6. k \in CheckState
  BY <1>1, <1>4 DEF CheckState
<1>7. /\ k.pc = "ask" /\ k.log = k0.log /\ k.status = k0.status
      /\ k.history = k0.history /\ k.evidence = k0.evidence /\ k.proof = p
  BY <1>1 DEF CheckState
<1> HIDE DEF k
<1>8. CheckOK(k)
  BY <1>1, <1>2, <1>4, <1>7 DEF CheckOK, Alarming
<1>9. Resting /\ overtaken' = overtaken
  BY DEF ClassifyCopy, Bystanders, client, history, Resting
<1>10. faults' \in Nat
  BY <1>1, <1>3, Unfaulty DEF Reads
<1> QED BY <1>1, <1>5, <1>6, <1>8, <1>9, <1>10, QuietStep

(* What the Agent's answer shows, for a log that is still the latest.      *)
LEMMA ComparisonFacts ==
  ASSUME TypeOK, ObservedOK, NEW l \in LogIds, NEW e \in Row,
         l = Latest(logs[l].resource)
  PROVE  LET status == SourceStatus(l, e, Fetched(logs[l].resource)) IN
           /\ status = "MATCHED" => l \in agreed
           /\ status \in Alarming => l \in differed \/ e.meta = "altered"
<1> DEFINE r == logs[l].resource
           x == logs[l].state
           status == SourceStatus(l, e, Fetched(r))
<1>1. r \in Logged /\ r \in Resources /\ x \in Nat
  BY LoggedIsResource
<1>2. row[r] \in State /\ row[r] # Tainted
  BY <1>1 DEF TypeOK, State, Odd, Tainted
<1>3. IF row[r] = x THEN l \in agreed ELSE l \in differed
  BY <1>1 DEF ObservedOK
<1>4. e.meta \in {"sealed", "altered"}
  BY DEF Row, Contents
<1>5. Compare(l, e, Fetched(r)) =
        (IF x = Gone THEN row[r] = Gone ELSE row[r] # Gone /\ row[r] = Projection(l, e))
  BY DEF Compare, Fetched
<1>6. Projection(l, e) = (IF e.meta = "sealed" THEN x ELSE Tainted)
  BY DEF Projection
<1>7. status = "MATCHED" => Compare(l, e, Fetched(r))
  BY DEF SourceStatus
<1>8. status \in Alarming => ~Compare(l, e, Fetched(r))
  BY DEF SourceStatus, Alarming
<1> HIDE DEF status, r, x
<1>9. status = "MATCHED" => l \in agreed
  BY <1>2, <1>3, <1>5, <1>6, <1>7
<1>10. status \in Alarming => l \in differed \/ e.meta = "altered"
  BY <1>2, <1>3, <1>4, <1>5, <1>6, <1>8
<1> QED BY <1>9, <1>10 DEF status, r

LEMMA StatusTyped ==
  ASSUME NEW l, NEW e, NEW record
  PROVE  SourceStatus(l, e, record) \in {"MATCHED"} \cup Alarming
BY DEF SourceStatus, Alarming

LEMMA AskResult ==
  ASSUME SourceInv, NEW c \in Checkers, Ask(c)
  PROVE  CheckResult
<1> DEFINE k0 == checker[c]
           l == k0.log
           r == logs[l].resource
<1>1. /\ TypeOK /\ ObservedOK /\ k0 \in CheckState /\ CheckOK(k0) /\ k0.pc = "ask" /\ l \in LogIds
      /\ k0.evidence \in Row
  BY InHand DEF Ask, SourceInv, CheckState
<1>2. Resting
  BY DEF Ask, client, Resting
<1>3. PICK status :
        /\ Replied(c, status)
        /\ \/ /\ status = SourceStatus(l, k0.evidence, Fetched(r))
              /\ overtaken' = overtaken \cup ({l} \ {Latest(r)}) /\ UNCHANGED faults
           \/ status \in Failures /\ Spend /\ overtaken' = overtaken
  BY DEF Ask
<1>4. faults' \in Nat
  BY <1>1, <1>3, Unfaulty
<1>5. overtaken \subseteq overtaken' /\ overtaken' \subseteq LogIds
  BY <1>1, <1>3 DEF TypeOK
<1>6. Grown
  BY <1>2, <1>5, RestingGrows
<1>7. status \in {"MATCHED"} \cup Alarming \cup Failures
  BY <1>3, StatusTyped
<1>8. /\ status = "MATCHED" => l \in agreed \cup overtaken'
      /\ status \in Alarming => l \in differed \cup overtaken' \/ k0.evidence.meta = "altered"
  <2>1. CASE status \in Failures
    BY <2>1 DEF Failures, Alarming
  <2>2. CASE status \notin Failures /\ l = Latest(r)
    BY <1>1, <1>3, <2>2, ComparisonFacts
  <2>3. CASE status \notin Failures /\ l # Latest(r)
    BY <1>3, <2>3
  <2> QED BY <2>1, <2>2, <2>3
<1> DEFINE pc == AfterReply(k0, status)
           stored == k0.history /\ k0.proof # "verified"
<1>9. PICK k : /\ k = [k0 EXCEPT !.status = status, !.pc = pc, !.evidence = Sound, !.stored = stored]
               /\ checker' = [checker EXCEPT ![c] = k]
  BY <1>3 DEF Replied
<1>10. /\ pc \in {"find", "persist", "answer"}
       /\ pc = "find" => /\ status \in Alarming
                         /\ k0.proof = "verified" \/ k0.proof = "none"
       /\ pc = "persist" => ~k0.history
  BY DEF AfterReply
<1>11. stored \in BOOLEAN /\ k0.proof \in {"none", "limited", "verified"}
  BY <1>1 DEF CheckState
<1> HIDE DEF pc, stored
<1>12. k \in CheckState
  BY <1>1, <1>7, <1>9, <1>10, <1>11, SoundTyped DEF CheckState
<1>13. /\ k.pc = pc /\ k.log = k0.log /\ k.status = status
       /\ k.history = k0.history /\ k.evidence = Sound /\ k.proof = k0.proof
  BY <1>1, <1>9 DEF CheckState
<1>14. (k0.evidence.meta = "altered" => Excused(k0))
  <2> HAVE k0.evidence.meta = "altered"
  <2>1. SameCopy(k0.evidence, logs[k0.log].evidence)
    BY <1>1 DEF CheckOK
  <2>2. k0.proof # "verified"
    BY <1>1 DEF CheckOK
  <2>3. k0.proof = "limited" => Rehashed(k0.log)
    BY <1>1, <2>1 DEF CheckOK, SameCopy, Rehashed, ContentHash
  <2>4. k0.proof = "none" => k0.history
    BY <1>1 DEF CheckOK
  <2> QED BY <1>11, <2>1, <2>2, <2>3, <2>4 DEF Excused, SameCopy
<1>15. Excused(k0) => Excused(k)'
  BY <1>2, <1>13 DEF Resting, Excused, Rehashed
<1>16. CheckOK(k)'
  <2>1. k.log \in LogIds' /\ agreed' = agreed /\ differed' = differed
    BY <1>1, <1>2, <1>13 DEF Resting, LogIds
  <2>2. k.status # "none" /\ Sound.meta = "sealed"
    BY <1>7, <1>13, SoundTyped DEF Alarming, Failures
  <2>3. k.status = "MATCHED" => k.log \in agreed' \cup overtaken'
    BY <1>8, <1>13, <2>1
  <2>4. k.status \in Alarming => k.log \in differed' \cup overtaken' \/ Excused(k)'
    BY <1>8, <1>13, <1>14, <1>15, <2>1
  <2> QED BY <1>10, <1>13, <2>1, <2>2, <2>3, <2>4 DEF CheckOK
<1>17. k \in CheckState'
  BY <1>6, <1>12, CheckStateGrows
<1> QED BY <1>2, <1>4, <1>5, <1>9, <1>16, <1>17, QuietResult

LEMMA FindResult ==
  ASSUME SourceInv, NEW c \in Checkers, Find(c)
  PROVE  CheckResult
<1> DEFINE k0 == checker[c]
           open == OpenFor(Resource(c), k0.status)
           i == CHOOSE j \in open : TRUE
<1>1. /\ TypeOK /\ k0 \in CheckState /\ CheckOK(k0) /\ k0.pc = "find" /\ k0.log \in LogIds
  BY InHand DEF Find
<1>2. k0.status \in Alarming /\ k0.proof # "limited"
  BY <1>1 DEF CheckOK
<1>3. Resting /\ overtaken' = overtaken /\ faults' \in Nat
  BY <1>1 DEF Find, Bystanders, client, history, Resting, TypeOK
<1>4. open \subseteq Incidents
  BY DEF OpenFor
<1>5. checker' = [checker EXCEPT ![c] = IF open = {} THEN [k0 EXCEPT !.pc = "insert"]
                                        ELSE [k0 EXCEPT !.pc = "update", !.target = i]]
  BY DEF Find
<1>6. \E k \in CheckState : CheckOK(k) /\ checker' = [checker EXCEPT ![c] = k]
  <2>1. CASE open = {}
    <3> DEFINE k == [k0 EXCEPT !.pc = "insert"]
    <3>1. k \in CheckState /\ checker' = [checker EXCEPT ![c] = k]
      BY <1>1, <1>5, <2>1 DEF CheckState
    <3>2. /\ k.pc = "insert" /\ k.log = k0.log /\ k.status = k0.status
          /\ k.history = k0.history /\ k.evidence = k0.evidence /\ k.proof = k0.proof
      BY <1>1 DEF CheckState
    <3>3. CheckOK(k)
      <4> HIDE DEF k
      <4> QED BY <1>1, <1>2, <3>2 DEF CheckOK, Excused, Alarming
    <3> QED BY <3>1, <3>3
  <2>2. CASE open # {}
    <3> DEFINE k == [k0 EXCEPT !.pc = "update", !.target = i]
    <3>1. i \in Incidents
      BY <1>4, <2>2
    <3>2. checker' = [checker EXCEPT ![c] = k]
      BY <1>5, <2>2
    <3> HIDE DEF i
    <3>3. k \in CheckState
      BY <1>1, <3>1 DEF CheckState
    <3>4. /\ k.pc = "update" /\ k.log = k0.log /\ k.status = k0.status /\ k.target = i
          /\ k.history = k0.history /\ k.evidence = k0.evidence /\ k.proof = k0.proof
      BY <1>1 DEF CheckState
    <3>5. CheckOK(k)
      <4> HIDE DEF k
      <4> QED BY <1>1, <1>2, <3>1, <3>4 DEF CheckOK, Excused, Alarming
    <3> QED BY <3>2, <3>3, <3>5
  <2> QED BY <2>1, <2>2
<1> QED BY <1>3, <1>6, QuietStep

LEMMA RestedResult ==
  ASSUME SourceInv, NEW c \in Checkers, AnswerHistory(c) \/ CheckerStops(c)
  PROVE  CheckResult
<1>1. TypeOK
  BY DEF SourceInv
<1>2. Resting /\ overtaken' = overtaken
  BY DEF AnswerHistory, CheckerStops, Bystanders, client, history, Resting
<1>3. faults' \in Nat
  BY <1>1, Unfaulty DEF AnswerHistory, CheckerStops
<1>4. \E k \in CheckState : CheckOK(k) /\ checker' = [checker EXCEPT ![c] = k]
  <2>1. CASE AnswerHistory(c)
    BY <2>1, DoneMoves DEF AnswerHistory
  <2>2. CASE CheckerStops(c)
    BY <2>2, IdleTyped DEF CheckerStops
  <2> QED BY <2>1, <2>2
<1> QED BY <1>2, <1>3, <1>4, QuietStep

(* A step of a check that writes incidents only.                           *)
LEMMA IncidentsResult ==
  ASSUME SourceInv, NEW c \in Checkers, NEW log \in LogIds, NEW past \in BOOLEAN,
         UNCHANGED <<row, inflight, logs, seen, stamped, restored, writes, edits,
                     agreed, differed, overtaken>>,
         faults' \in Nat,
         log \in differed \cup overtaken \/ (past /\ logs[log].evidence.meta = "altered"),
         incidents' \in Seq(Incident), Incidents \subseteq Incidents',
         \A i \in Incidents' :
           \/ i \in Incidents /\ incidents'[i] = incidents[i]
           \/ incidents'[i].log = log /\ incidents'[i].history = past,
         \E k \in CheckState : CheckOK(k) /\ checker' = [checker EXCEPT ![c] = k]
  PROVE  CheckResult
<1>1. TypeOK /\ SeenOK /\ IncidentsOK
  BY DEF SourceInv
<1>2. Grown
  BY DEF Grown, LogIds, SameCopy
<1>3. PICK k \in CheckState : CheckOK(k) /\ checker' = [checker EXCEPT ![c] = k]
  OBVIOUS
<1>4. k \in CheckState' /\ CheckOK(k)'
  BY <1>1, <1>2, <1>3, CheckStays, CheckStateGrows
<1>5. checker' \in [Checkers -> CheckState'] /\ ChecksOK'
  BY <1>2, <1>3, <1>4, CheckerMoves
<1>6. IncidentsOK'
  BY <1>1 DEF IncidentsOK
<1>7. SeenOK'
  BY <1>1 DEF SeenOK, LogIds, Rehashed
<1>8. /\ overtaken' \subseteq LogIds
      /\ stamped' \in Seq(LogIds) /\ Distinct(stamped') /\ Columned'
  BY <1>1 DEF TypeOK, Distinct, Columned
<1> QED BY <1>2, <1>5, <1>6, <1>7, <1>8 DEF CheckResult

LEMMA EnsureResult ==
  ASSUME SourceInv, NEW c \in Checkers, Ensure(c)
  PROVE  CheckResult
<1> DEFINE k0 == checker[c]
<1>1. /\ TypeOK /\ k0 \in CheckState /\ CheckOK(k0) /\ k0.pc \in {"insert", "update"}
      /\ k0.log \in LogIds
  BY InHand DEF Ensure
<1>2. /\ k0.status \in Alarming /\ k0.proof # "limited"
      /\ k0.pc = "update" => k0.target \in Incidents
  BY <1>1 DEF CheckOK
<1>3. UNCHANGED <<row, inflight, logs, seen, stamped, restored, writes, edits,
                  agreed, differed, overtaken>>
  BY DEF Ensure, Bystanders, client, history
<1>4. faults' \in Nat
  BY <1>1, Unfaulty DEF Ensure
<1>5. k0.log \in differed \cup overtaken \/ (k0.history /\ logs[k0.log].evidence.meta = "altered")
  BY <1>1, <1>2 DEF CheckOK, Excused
<1>6. incidents \in Seq(Incident) /\ Incidents = 1..Len(incidents) /\ Len(incidents) \in Nat
  BY <1>1 DEF TypeOK, Incidents
<1>7. /\ incidents' \in Seq(Incident) /\ Incidents \subseteq Incidents'
      /\ \A i \in Incidents' :
           \/ i \in Incidents /\ incidents'[i] = incidents[i]
           \/ incidents'[i].log = k0.log /\ incidents'[i].history = k0.history
  <2>1. CASE incidents' = incidents
    BY <1>6, <2>1 DEF Incidents
  <2>2. CASE k0.pc = "insert" /\ incidents' = Raised(c)
    <3> DEFINE new == [resource |-> Resource(c), type |-> k0.status, status |-> "OPEN",
                       log |-> k0.log, history |-> k0.history]
    <3>1. Resource(c) \in Resources
      BY <1>1, LoggedIsResource DEF Resource
    <3>2. new \in Incident
      BY <1>1, <1>2, <3>1 DEF Incident, CheckState
    <3>3. incidents' = Append(incidents, new) /\ new.log = k0.log /\ new.history = k0.history
      BY <2>2 DEF Raised
    <3> HIDE DEF new, Incident
    <3>4. /\ incidents' \in Seq(Incident) /\ DOMAIN incidents' = 1..(Len(incidents) + 1)
          /\ \A i \in 1..Len(incidents) : incidents'[i] = incidents[i]
          /\ incidents'[Len(incidents) + 1] = new
      BY <1>6, <3>2, <3>3, AppendProperties
    <3>5. Incidents' = 1..(Len(incidents) + 1)
      BY <3>4 DEF Incidents
    <3> QED BY <1>6, <3>3, <3>4, <3>5
  <2>3. CASE k0.pc = "update" /\ incidents' = Confirmed(c)
    <3> DEFINE t == k0.target
               new == [incidents[t] EXCEPT !.log = k0.log, !.history = k0.history]
    <3>1. t \in Incidents /\ incidents[t] \in Incident
      BY <1>2, <1>6, <2>3
    <3>2. k0.history \in BOOLEAN
      BY <1>1 DEF CheckState
    <3>3. new \in Incident /\ new.log = k0.log /\ new.history = k0.history
      BY <1>1, <3>1, <3>2 DEF Incident
    <3>4. incidents' = [incidents EXCEPT ![t] = new]
      BY <2>3 DEF Confirmed
    <3> HIDE DEF new, t, Incident
    <3>5. /\ incidents' \in Seq(Incident) /\ DOMAIN incidents' = DOMAIN incidents
          /\ \A i \in Incidents : incidents'[i] = IF i = t THEN new ELSE incidents[i]
      BY <1>6, <3>1, <3>3, <3>4 DEF Incidents
    <3>6. Incidents' = Incidents
      BY <3>5 DEF Incidents
    <3> QED BY <3>3, <3>5, <3>6
  <2> QED BY <1>1, <2>1, <2>2, <2>3 DEF Ensure, Raise
<1>8. \E k \in CheckState : CheckOK(k) /\ checker' = [checker EXCEPT ![c] = k]
  <2>1. CASE Done(c)
    BY <2>1, DoneMoves
  <2>2. CASE checker' = [checker EXCEPT ![c].stored = TRUE,
                           ![c].pc = IF k0.history THEN "find" ELSE "persist"]
    <3> DEFINE pc == IF k0.history THEN "find" ELSE "persist"
               k == [k0 EXCEPT !.stored = TRUE, !.pc = pc]
    <3>1. pc \in {"find", "persist"} /\ (pc = "persist" => ~k0.history)
      OBVIOUS
    <3>2. checker' = [checker EXCEPT ![c] = k]
      BY <2>2
    <3> HIDE DEF pc
    <3>3. k \in CheckState
      BY <1>1, <3>1 DEF CheckState
    <3>4. /\ k.pc = pc /\ k.log = k0.log /\ k.status = k0.status
          /\ k.history = k0.history /\ k.evidence = k0.evidence /\ k.proof = k0.proof
      BY <1>1 DEF CheckState
    <3>5. CheckOK(k)
      <4> HIDE DEF k
      <4> QED BY <1>1, <1>2, <3>1, <3>4 DEF CheckOK, Excused, Alarming
    <3> QED BY <3>2, <3>3, <3>5
  <2> QED BY <2>1, <2>2 DEF Ensure
<1>9. k0.history \in BOOLEAN
  BY <1>1 DEF CheckState
<1> HIDE DEF k0
<1> QED BY <1>1, <1>3, <1>4, <1>5, <1>7, <1>8, <1>9, IncidentsResult

(* A step of a check that writes the columns of its log.                   *)
LEMMA ColumnsResult ==
  ASSUME SourceInv, NEW c \in Checkers, NEW l \in LogIds,
         UNCHANGED <<row, inflight, logs, incidents, restored, writes, edits,
                     agreed, differed, overtaken>>,
         faults' \in Nat,
         stamped' = stamped \/ Stamp(l),
         Columned', SeenOK',
         \E k \in CheckState : CheckOK(k) /\ checker' = [checker EXCEPT ![c] = k]
  PROVE  CheckResult
<1>1. TypeOK /\ IncidentsOK
  BY DEF SourceInv
<1>2. Grown
  BY DEF Grown, LogIds, Incidents, SameCopy
<1>3. PICK k \in CheckState : CheckOK(k) /\ checker' = [checker EXCEPT ![c] = k]
  OBVIOUS
<1>4. k \in CheckState' /\ CheckOK(k)'
  BY <1>1, <1>2, <1>3, CheckStays, CheckStateGrows
<1>5. checker' \in [Checkers -> CheckState'] /\ ChecksOK'
  BY <1>2, <1>3, <1>4, CheckerMoves
<1>6. IncidentsOK' /\ incidents' \in Seq(Incident) /\ overtaken' \subseteq LogIds
  BY <1>1 DEF IncidentsOK, Incidents, TypeOK
<1>7. stamped' \in Seq(LogIds) /\ Distinct(stamped')
  <2>1. stamped \in Seq(LogIds) /\ Distinct(stamped)
    BY <1>1 DEF TypeOK, Distinct
  <2>2. CASE stamped' = stamped
    BY <2>1, <2>2
  <2>3. CASE Stamp(l)
    BY <2>1, <2>3, StampedStaysDistinct DEF Stamp
  <2> QED BY <2>2, <2>3
<1> QED BY <1>2, <1>5, <1>6, <1>7 DEF CheckResult

LEMMA AttemptResult ==
  ASSUME SourceInv, NEW c \in Checkers, Attempt(c)
  PROVE  CheckResult
<1> DEFINE l == checker[c].log
<1>1. TypeOK /\ SeenOK /\ l \in LogIds
  BY InHand DEF Attempt, SourceInv
<1>2. UNCHANGED <<row, inflight, logs, seen, incidents, restored, writes, edits,
                  agreed, differed, overtaken>>
  BY DEF Attempt, Bystanders, client, history
<1>3. faults' \in Nat /\ (stamped' = stamped \/ Stamp(l))
  BY <1>1, Unfaulty DEF Attempt
<1>4. Columned' /\ SeenOK'
  BY <1>1, <1>2 DEF Columned, SeenOK, TypeOK, LogIds, Rehashed
<1>5. \E k \in CheckState : CheckOK(k) /\ checker' = [checker EXCEPT ![c] = k]
  BY DoneMoves DEF Attempt
<1> HIDE DEF l
<1> QED BY <1>1, <1>2, <1>3, <1>4, <1>5, ColumnsResult

LEMMA PersistResult ==
  ASSUME SourceInv, NEW c \in Checkers, Persist(c)
  PROVE  CheckResult
<1> DEFINE k0 == checker[c]
           l == k0.log
<1>1. /\ TypeOK /\ SeenOK /\ k0 \in CheckState /\ CheckOK(k0) /\ k0.pc = "persist"
      /\ l \in LogIds
  BY InHand DEF Persist, SourceInv
<1>2. k0.status # "none" /\ ~k0.history
  BY <1>1 DEF CheckOK
<1>3. UNCHANGED <<row, inflight, logs, incidents, restored, writes, edits,
                  agreed, differed, overtaken>>
  BY DEF Persist, Bystanders, client, history
<1>4. faults' \in Nat /\ (stamped' = stamped \/ Stamp(l))
  BY <1>1, Unfaulty DEF Persist
<1>5. /\ Column(k0.status) \in Columns
      /\ Column(k0.status) = "VALID" => l \in agreed \cup overtaken
      /\ Column(k0.status) = "TAMPERED" => l \in differed \cup overtaken \/ Rehashed(l)
  <2>1. /\ Column(k0.status) \in Columns
        /\ Column(k0.status) = "VALID" => k0.status = "MATCHED"
        /\ Column(k0.status) = "TAMPERED" => k0.status \in Alarming
    BY DEF Column, Columns, Alarming
  <2>2. k0.status = "MATCHED" => l \in agreed \cup overtaken
    BY <1>1 DEF CheckOK
  <2>3. k0.status \in Alarming => l \in differed \cup overtaken \/ Rehashed(l)
    BY <1>1, <1>2 DEF CheckOK, Excused
  <2> QED BY <2>1, <2>2, <2>3
<1>6. seen' = seen \/ seen' = [seen EXCEPT ![l] = Column(k0.status)]
  BY DEF Persist
<1>7. seen \in Seq(Columns) /\ Len(seen) = Len(logs) /\ LogIds = 1..Len(logs) /\ Len(logs) \in Nat
  BY <1>1, LoggedIsResource DEF TypeOK
<1> DEFINE v == Column(k0.status)
<1> HIDE DEF v
<1>8. /\ Columned'
      /\ \A m \in LogIds : seen'[m] = seen[m] \/ (m = l /\ seen'[m] = v)
  <2>1. v \in Columns /\ (seen' = seen \/ seen' = [seen EXCEPT ![l] = v])
    BY <1>5, <1>6 DEF v
  <2> HIDE DEF l, Columns
  <2> QED BY <1>1, <1>3, <1>7, <2>1 DEF Columned
<1>9. SeenOK'
  BY <1>1, <1>3, <1>5, <1>8 DEF SeenOK, LogIds, Rehashed, v
<1>10. \E k \in CheckState : CheckOK(k) /\ checker' = [checker EXCEPT ![c] = k]
  <2>1. CASE Done(c)
    BY <2>1, DoneMoves
  <2>2. CASE /\ k0.status \in Alarming /\ k0.proof = "verified"
             /\ checker' = [checker EXCEPT ![c].pc = "find", ![c].stored = TRUE]
    <3> DEFINE k == [k0 EXCEPT !.pc = "find", !.stored = TRUE]
    <3>1. k \in CheckState /\ checker' = [checker EXCEPT ![c] = k]
      BY <1>1, <2>2 DEF CheckState
    <3>2. /\ k.pc = "find" /\ k.log = k0.log /\ k.status = k0.status
          /\ k.history = k0.history /\ k.evidence = k0.evidence /\ k.proof = k0.proof
      BY <1>1 DEF CheckState
    <3>3. CheckOK(k)
      <4> HIDE DEF k
      <4> QED BY <1>1, <2>2, <3>2 DEF CheckOK, Excused, Alarming
    <3> QED BY <3>1, <3>3
  <2> QED BY <2>1, <2>2 DEF Persist
<1> HIDE DEF k0, l
<1> QED BY <1>1, <1>3, <1>4, <1>8, <1>9, <1>10, ColumnsResult

-----------------------------------------------------------------------------
(* The invariant.                                                          *)

LEMMA SetToSeqTyped ==
  ASSUME NEW S, IsFiniteSet(S)
  PROVE  SetToSeq(S) \in Seq(S)
<1> DEFINE n == Cardinality(S)
<1>1. n \in Nat /\ ExistsBijection(1..n, S)
  BY FS_CardinalityType
<1>2. PICK f : f \in Bijection(1..n, S)
  BY <1>1 DEF ExistsBijection
<1>3. f \in [1..n -> S] /\ IsInjective(f)
  BY <1>2 DEF Bijection, Injection, IsInjective
<1>4. SetToSeq(S) \in [1..n -> S]
  BY <1>3 DEF SetToSeq
<1> HIDE DEF n
<1> QED BY <1>1, <1>4

LEMMA InvInit == Init => SourceInv
<1> SUFFICES ASSUME Init PROVE SourceInv
  OBVIOUS
<1>1. PICK scenario \in Scenarios :
        /\ logs = LET s == SetToSeq(scenario.resources) IN
                  [k \in DOMAIN s |-> NewLog(s[k], k, "anchored")]
        /\ row = [r \in Resources |-> IF r \in Logged THEN logs[Latest(r)].state ELSE Gone]
        /\ inflight = [r \in Resources |-> <<>>]
        /\ seen = [l \in LogIds |-> "NOT_CHECKED"] /\ stamped = <<>>
        /\ incidents = <<>> /\ restored = {}
        /\ checker = [c \in Checkers |->
             IF c \in scenario.checkers THEN Idle ELSE [Idle EXCEPT !.pc = "answered"]]
        /\ writes = scenario.writes /\ edits = scenario.edits /\ faults = scenario.faults
        /\ agreed = LogIds /\ differed = {} /\ overtaken = {}
  BY DEF Init
<1>2. /\ scenario.resources \in SUBSET Resources
      /\ scenario.writes \in Nat /\ scenario.edits \in Nat /\ scenario.faults \in Nat
  BY SourceAssumption
<1> DEFINE s == SetToSeq(scenario.resources)
<1>3. s \in Seq(Resources)
  <2>1. IsFiniteSet(scenario.resources)
    BY <1>2, SourceAssumption, FS_Subset
  <2>2. s \in Seq(scenario.resources)
    BY <2>1, SetToSeqTyped
  <2> QED BY <1>2, <2>2
<1>4. logs = [k \in DOMAIN s |-> NewLog(s[k], k, "anchored")]
  BY <1>1
<1> HIDE DEF s
<1>5. DOMAIN s = 1..Len(s) /\ Len(s) \in Nat /\ \A k \in 1..Len(s) : s[k] \in Resources
  BY <1>3
<1>6. ASSUME NEW k \in 1..Len(s) PROVE NewLog(s[k], k, "anchored") \in LogRow
  <2> DEFINE e == [Sound EXCEPT !.stage = "anchored"]
  <2>1. e \in Row
    BY SoundTyped DEF Row
  <2>2. NewLog(s[k], k, "anchored") = [resource |-> s[k], state |-> k, evidence |-> e]
    BY DEF NewLog
  <2> HIDE DEF e
  <2> QED BY <1>5, <2>1, <2>2 DEF LogRow
<1>7. logs \in Seq(LogRow) /\ LogIds = 1..Len(logs) /\ Len(logs) \in Nat
  <2>1. logs \in [1..Len(s) -> LogRow]
    BY <1>4, <1>5, <1>6
  <2> HIDE DEF LogRow
  <2> QED BY <1>5, <2>1 DEF LogIds
<1>8. ASSUME NEW r \in Logged
      PROVE  Latest(r) \in LogIds /\ r \in Resources /\ logs[Latest(r)].state \in Nat
  <2>1. PICK l \in DOMAIN logs : logs[l].resource = r
    BY DEF Logged, LogIds
  <2>2. Latest(r) \in LogIds
    BY <1>7, <2>1, LatestFound DEF Latest, LogIds
  <2>3. logs[l] \in LogRow /\ logs[Latest(r)] \in LogRow
    BY <1>7, <2>1, <2>2 DEF LogIds
  <2> QED BY <2>1, <2>2, <2>3 DEF LogRow
<1>9. row \in [Resources -> State]
  <2>1. ASSUME NEW r \in Resources
        PROVE  (IF r \in Logged THEN logs[Latest(r)].state ELSE Gone) \in State
    BY <1>8 DEF State, Gone
  <2> QED BY <1>1, <2>1
<1>10. ObservedOK
  <2>1. ASSUME NEW r \in Logged PROVE row[r] = logs[Latest(r)].state /\ Latest(r) \in agreed
    BY <1>1, <1>8
  <2> QED BY <2>1 DEF ObservedOK
<1>11. checker \in [Checkers -> CheckState] /\ ChecksOK
  <2>1. ASSUME NEW c \in Checkers PROVE checker[c] \in CheckState /\ CheckOK(checker[c])
    BY <1>1, IdleTyped
  <2> QED BY <1>1, <2>1 DEF ChecksOK
<1>12. seen \in Seq(Columns) /\ Len(seen) = Len(logs)
  <2>1. seen = [l \in 1..Len(logs) |-> "NOT_CHECKED"]
    BY <1>1, <1>7
  <2>2. seen \in [1..Len(logs) -> Columns]
    BY <2>1 DEF Columns
  <2> HIDE DEF Columns
  <2> QED BY <1>7, <2>2
<1>13. SeenOK
  BY <1>1 DEF SeenOK
<1>14. incidents \in Seq(Incident) /\ Incidents = {} /\ IncidentsOK
  BY <1>1, EmptySeq DEF Incidents, IncidentsOK
<1>15. inflight \in [Resources -> Seq(Nat)]
  BY <1>1, EmptySeq
<1>16. stamped \in Seq(LogIds) /\ DOMAIN stamped = {}
  BY <1>1, EmptySeq
<1>17. TypeOK
  BY <1>1, <1>2, <1>7, <1>9, <1>11, <1>12, <1>14, <1>15, <1>16 DEF TypeOK
<1> QED BY <1>10, <1>11, <1>13, <1>14, <1>17 DEF SourceInv

LEMMA InvNext == SourceInv /\ [Next]_vars => SourceInv'
<1> SUFFICES ASSUME SourceInv, [Next]_vars PROVE SourceInv'
  OBVIOUS
<1>1. ASSUME NEW r \in Logged, ClientWrites(r) \/ Ingest(r) \/ EditRow(r) PROVE SourceInv'
  BY <1>1, ClientWritesResult, IngestResult, EditRowResult, EnvPreserves
<1>2. ASSUME NEW l \in LogIds, Anchor(l) \/ EditLog(l) PROVE SourceInv'
  BY <1>2, AnchorResult, EditLogResult, EnvPreserves
<1>3. ASSUME NEW i \in Incidents, Restore(i) \/ Resolve(i) PROVE SourceInv'
  BY <1>3, RestoreResult, ResolveResult, EnvPreserves
<1>4. ASSUME NEW c \in Checkers, CheckStep(c) PROVE SourceInv'
  BY <1>4, VerifyResult, AskResult, FindResult, EnsureResult, PersistResult, AttemptResult,
     CheckPreserves DEF CheckStep
<1>5. CASE Sweep
  <2>1. "sweep" \in Checkers
    BY DEF Checkers
  <2> QED BY <1>4, <1>5, <2>1, SweepRecentResult, SweepBackfillResult, CheckPreserves DEF Sweep
<1>6. ASSUME NEW u \in Users,
             \/ \E l \in LogIds : CheckLog(u, l)
             \/ \E r \in Logged : CheckHistory(u, r)
             \/ UserStep(u)
      PROVE  SourceInv'
  <2>1. u \in Checkers
    BY DEF Checkers
  <2> QED BY <1>4, <1>6, <2>1, CheckLogResult, CheckHistoryResult, ClassifyCopyResult, RestedResult,
             CheckPreserves DEF UserStep
<1>7. ASSUME NEW c \in Checkers, CheckerStops(c) PROVE SourceInv'
  BY <1>7, RestedResult, CheckPreserves
<1>8. CASE UNCHANGED vars
  <2>1. /\ UNCHANGED <<row, inflight, logs, seen, stamped, incidents, restored, checker, writes>>
        /\ UNCHANGED <<edits, faults, agreed, differed, overtaken>>
    BY <1>8 DEF vars, client, tables, history
  <2>2. TypeOK /\ ObservedOK
    BY DEF SourceInv
  <2>3. EnvResult
    <3>1. Grown
      BY <2>1 DEF Grown, LogIds, Incidents, SameCopy
    <3>2. ObservedOK'
      BY <2>1, <2>2, ObservedStays DEF TypeOK, LogIds
    <3>3. \A l \in LogIds' : seen'[l] = IF l \in LogIds THEN seen[l] ELSE "NOT_CHECKED"
      BY <2>1 DEF LogIds
    <3> QED BY <2>1, <2>2, <3>1, <3>2, <3>3 DEF EnvResult, TypeOK, Columned, Incidents, LogIds
  <2> QED BY <2>3, EnvPreserves
<1> QED BY <1>1, <1>2, <1>3, <1>5, <1>6, <1>7, <1>8 DEF Next

(* Rows, logs, columns, incidents and checks stay within their types, for  *)
(* any number of resources and users, and what the verdicts rest on holds  *)
(* in every state.                                                         *)
THEOREM SourceInvariant == Spec => []SourceInv
<1> QED BY InvInit, InvNext, PTL DEF Spec

THEOREM SourceTyped == Spec => []TypeOK
<1>1. SourceInv => TypeOK
  BY DEF SourceInv
<1> QED BY <1>1, SourceInvariant, PTL

(* VALID, TAMPERED, every incident and every answer of verifyLogIntegrity, *)
(* VerifyResourceHistory and the sweep is backed by a comparison of the    *)
(* row with its log, with the exceptions VerdictsAreBacked names: whatever *)
(* is damaged, however checks, changes and recoveries interleave.          *)
THEOREM VerdictsBacked == Spec => []VerdictsAreBacked
<1>1. SourceInv => VerdictsAreBacked
  <2> SUFFICES ASSUME SourceInv PROVE VerdictsAreBacked
    OBVIOUS
  <2>1. SeenOK /\ IncidentsOK /\ ChecksOK
    BY DEF SourceInv
  <2>2. ASSUME NEW u \in Users, NEW reply \in TrailReplies, checker[u].status # "none"
        PROVE  /\ Answer(u, reply) \in {"VERIFIED", "VERIFIED_LEGACY"} =>
                    checker[u].log \in agreed \cup overtaken
               /\ Answer(u, reply) = "CLIENT_STATE_DIVERGENCE" =>
                    checker[u].log \in differed \cup overtaken
    <3> DEFINE k == checker[u]
    <3>1. CheckOK(k)
      BY <2>1 DEF ChecksOK, Checkers
    <3>2. Answer(u, reply) \in {"VERIFIED", "VERIFIED_LEGACY"} => k.status = "MATCHED"
      BY DEF Answer, Assessment
    <3>3. Answer(u, reply) = "CLIENT_STATE_DIVERGENCE" =>
            k.status \in Alarming /\ k.proof # "none" /\ k.proof # "limited"
      BY DEF Answer, Assessment
    <3> HIDE DEF k
    <3>4. k.status = "MATCHED" => k.log \in agreed \cup overtaken
      BY <3>1 DEF CheckOK
    <3>5. k.status \in Alarming /\ k.proof # "none" /\ k.proof # "limited" =>
            k.log \in differed \cup overtaken
      BY <3>1 DEF CheckOK, Excused
    <3> QED BY <3>2, <3>3, <3>4, <3>5 DEF k
  <2> QED BY <2>1, <2>2 DEF VerdictsAreBacked, SeenOK, IncidentsOK
<1> QED BY <1>1, SourceInvariant, PTL
=============================================================================
