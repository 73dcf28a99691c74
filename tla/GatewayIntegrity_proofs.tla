----------------------- MODULE GatewayIntegrity_proofs -----------------------
(***************************************************************************)
(* Proofs about GatewayIntegrity and LogEvidence, for any number of logs,  *)
(* users, requests, edits and faults, any batch size, damage and audit     *)
(* trail, in both recovery modes; and about MerkleTree, which makes the    *)
(* proofs that a verdict reads, for batches of any size.                   *)
(***************************************************************************)
EXTENDS GatewayIntegrity, MerkleTree, FiniteSetTheorems, SequenceTheorems,
        WellFoundedInduction, TLAPS

-----------------------------------------------------------------------------
(* Rows and verdicts.                                                      *)

LEMMA VerdictTyped ==
  ASSUME NEW path, NEW r \in Row, NEW reads
  PROVE  Classify(path, r, reads) \in Finding
BY DEF Classify, Found, Tampered, Finding, Verdicts, IncidentTypes

(* The verdict of every path is VALID only on full evidence.               *)
LEMMA ValidIsGenuine ==
  ASSUME NEW path, NEW r \in Row, NEW reads,
         Classify(path, r, reads).verdict = "VALID"
  PROVE  Genuine(r) \/ (path = "log" /\ LegacyLimited(r))
<1>1. /\ r.stage = "anchored" /\ ContentHash(r) = r.hash /\ r.root # "other"
      /\ Reconstructs(r) \/ (path = "log" /\ LegacyLimited(r))
  BY DEF Classify, Found, Tampered, Row
<1>2. Reconstructs(r) => r.hash = SealedHash /\ r.proofs = "complete"
  BY DEF Reconstructs, ProofsOf
<1> QED BY <1>1, <1>2 DEF Genuine

LEMMA TamperedIsNotGenuine ==
  ASSUME NEW path, NEW r \in Row, NEW reads, Genuine(r)
  PROVE  Classify(path, r, reads).verdict # "TAMPERED"
<1>1. /\ r.stage = "anchored" /\ ContentHash(r) = r.hash /\ r.root # "other"
      /\ ProofsOf(r) = "complete" /\ Reconstructs(r)
  BY DEF Genuine, Reconstructs, ProofsOf
<1> QED BY <1>1 DEF Classify, Found

LEMMA PathsAgree ==
  ASSUME NEW path, NEW r \in Row, ~LegacyLimited(r)
  PROVE  Classify(path, r, AllReads).verdict = Classify("scan", r, AllReads).verdict
BY DEF Classify, Found, Tampered, AllReads

(* A recovery reference leaves a row a row.                                *)
LEMMA LinkedIsRow ==
  ASSUME NEW t \in SUBSET TrailEvents, NEW r \in Row
  PROVE  Linked(t, r) \in Row
<1>1. CASE Linked(t, r) = r
  BY <1>1
<1>2. CASE Linked(t, r) # r
  <2> DEFINE found == CHOOSE record \in t : Recreates(record, r)
  <2>1. Cardinality(Matching(t, r)) = 1 /\ Linked(t, r) = [r EXCEPT !.source = found]
    BY <1>2 DEF Linked
  <2>2. Matching(t, r) # {}
    BY <2>1, FS_EmptySet
  <2>3. found \in t
    BY <2>2 DEF Matching
  <2> HIDE DEF found
  <2>4. [r EXCEPT !.source = found] \in Row
    BY <2>3 DEF Row
  <2> QED BY <2>1, <2>4
<1> QED BY <1>1, <1>2

LEMMA BackfilledIsRows ==
  ASSUME RowsOK, incidents \in Seq(Incident), NEW i \in Incidents
  PROVE  /\ Backfilled(i) \in [Logs -> Row]
         /\ incidents[i].log \in Logs
<1>1. incidents[i].log \in Logs /\ row \in [Logs -> Row] /\ trail \in SUBSET TrailEvents
  <2>1. incidents[i] \in Incident
    BY DEF Incidents
  <2>2. row \in [Logs -> Row] /\ trail \in SUBSET TrailEvents
    BY GatewayAssumption DEF RowsOK
  <2> QED BY <2>1, <2>2 DEF Incident
<1>2. Linked(trail, row[incidents[i].log]) \in Row
  BY <1>1, LinkedIsRow
<1> DEFINE l == incidents[i].log
<1>3. [row EXCEPT ![l] = Linked(trail, row[l])] \in [Logs -> Row]
  BY <1>1, <1>2
<1>4. Backfilled(i) \in {row, [row EXCEPT ![l] = Linked(trail, row[l])]}
  BY DEF Backfilled
<1> QED BY <1>1, <1>3, <1>4

LEMMA RestoredIsRow ==
  ASSUME NEW q, NEW r \in Row, request[q].snapshot \in Snapshots
  PROVE  Restored(q, r) \in Row
<1>1. \A record : Image(record) \in Contents
  BY DEF Image, Contents
<1>2. \A snapshot : Stored(snapshot) \in Contents
  BY DEF Stored, Contents
<1>3. CASE mode = "agent_direct"
  BY <1>1, <1>3 DEF Restored, Row
<1>4. CASE mode # "agent_direct"
  <2> DEFINE image == Stored(request[q].snapshot)
  <2>1. image \in Contents
    BY <1>2
  <2> HIDE DEF image
  <2>2. [r EXCEPT !.meta = image, !.rest = image, !.hash = <<image, image>>, !.root = "anchor",
                  !.snapshot = request[q].snapshot] \in Row
    BY <2>1 DEF Row
  <2> QED BY <1>4, <2>2 DEF Restored, image
<1> QED BY <1>3, <1>4

(* A set whose elements are all the same has at most one.                  *)
LEMMA AtMostOne ==
  ASSUME NEW S, IsFiniteSet(S), \A x, y \in S : x = y
  PROVE  Cardinality(S) <= 1
<1>1. CASE S = {}
  BY <1>1, FS_EmptySet
<1>2. CASE S # {}
  <2>1. PICK x : S = {x}
    BY <1>2
  <2> QED BY <2>1, FS_Singleton
<1> QED BY <1>1, <1>2

(* Stamping moves a row to the end of the order, which keeps every row     *)
(* once.                                                                   *)
LEMMA OrderHolds ==
  ASSUME NEW s \in SetToSeqs(Logs)
  PROVE  /\ s \in Seq(Logs) /\ Len(s) = Cardinality(Logs)
         /\ \A i, j \in DOMAIN s : s[i] = s[j] => i = j
         /\ \A l \in Logs : \E i \in DOMAIN s : s[i] = l
<1> DEFINE n == Cardinality(Logs)
<1>1. n \in Nat
  BY FS_CardinalityType, GatewayAssumption
<1> HIDE DEF n
<1>2. s \in [1..n -> Logs] /\ \A i, j \in 1..n : s[i] = s[j] => i = j
  BY DEF SetToSeqs, n
<1>3. s \in Seq(Logs) /\ Len(s) = n /\ DOMAIN s = 1..n
  BY <1>1, <1>2
<1>4. s \in Injection(1..n, Logs)
  BY <1>2 DEF Injection, IsInjective
<1>5. Cardinality(1..n) = n
  BY <1>1, FS_Interval
<1>6. s \in Surjection(1..n, Logs)
  BY <1>4, <1>5, FS_Injection, GatewayAssumption DEF n
<1>7. \A l \in Logs : \E i \in 1..n : s[i] = l
  BY <1>6 DEF Surjection
<1> QED BY <1>2, <1>3, <1>7 DEF n

LEMMA FirstIndex ==
  ASSUME NEW s \in SetToSeqs(Logs), NEW l \in Logs
  PROVE  \E i \in DOMAIN s : s[i] = l /\ RemoveFirst(s, l) = RemoveAt(s, i)
<1>1. PICK i \in DOMAIN s : s[i] = l
  BY OrderHolds
<1>2. DOMAIN s = 1..Len(s)
  BY OrderHolds
<1>3. {j \in 1..Len(s) : s[j] = l} = {i}
  BY <1>1, <1>2, OrderHolds
<1>4. i \in Int
  BY <1>1, <1>2, OrderHolds
<1>5. SelectInSeq(s, LAMBDA v : v = l) = i
  BY <1>3, <1>4 DEF SelectInSeq, Min
<1> QED BY <1>1, <1>2, <1>5 DEF RemoveFirst

LEMMA StampKeepsOrder ==
  ASSUME NEW s \in SetToSeqs(Logs), NEW l \in Logs
  PROVE  Append(RemoveFirst(s, l), l) \in SetToSeqs(Logs)
<1>1. PICK i \in DOMAIN s : s[i] = l /\ RemoveFirst(s, l) = RemoveAt(s, i)
  BY FirstIndex
<1> DEFINE n == Len(s)
           t == Append(RemoveAt(s, i), l)
<1>2. /\ s \in Seq(Logs) /\ n \in Nat /\ n = Cardinality(Logs) /\ i \in 1..n
      /\ \A j, k \in 1..n : s[j] = s[k] => j = k
  BY OrderHolds
<1>3. /\ RemoveAt(s, i) \in Seq(Logs) /\ Len(RemoveAt(s, i)) = n - 1
      /\ \A j \in 1..(n - 1) : RemoveAt(s, i)[j] = IF j < i THEN s[j] ELSE s[j + 1]
  <2> DEFINE a == SubSeq(s, 1, i - 1)
             b == SubSeq(s, i + 1, n)
  <2>1. i - 1 \in Int /\ i + 1 \in Int /\ \A j \in 1..n : s[j] \in Logs
    BY <1>2
  <2>2. /\ a \in Seq(Logs) /\ Len(a) = i - 1
        /\ \A j \in 1..(i - 1) : a[j] = s[j]
    BY <1>2, <2>1, SubSeqProperties
  <2>3. /\ b \in Seq(Logs) /\ Len(b) = n - i
        /\ \A j \in 1..(n - i) : b[j] = s[i + j]
    BY <1>2, <2>1, SubSeqProperties
  <2>4. RemoveAt(s, i) = a \o b
    BY DEF RemoveAt
  <2> HIDE DEF a, b, n
  <2>5. /\ a \o b \in Seq(Logs) /\ Len(a \o b) = (i - 1) + (n - i)
        /\ \A j \in 1..((i - 1) + (n - i)) : (a \o b)[j] = IF j <= i - 1 THEN a[j]
                                                          ELSE b[j - (i - 1)]
    <3>1. /\ a \o b \in Seq(Logs) /\ Len(a \o b) = Len(a) + Len(b)
          /\ \A j \in 1..(Len(a) + Len(b)) : (a \o b)[j] = IF j <= Len(a) THEN a[j]
                                                         ELSE b[j - Len(a)]
      BY <2>2, <2>3, ConcatProperties
    <3>2. Len(a) = i - 1 /\ Len(b) = n - i
      BY <2>2, <2>3
    <3> QED BY <3>1, <3>2
  <2>6. ASSUME NEW j \in 1..(n - 1)
        PROVE  (a \o b)[j] = IF j < i THEN s[j] ELSE s[j + 1]
    <3>0. n \in Nat /\ i \in 1..n /\ j \in 1..((i - 1) + (n - i))
      BY <1>2
    <3>1. CASE j < i
      <4>1. j <= i - 1 /\ j \in 1..(i - 1)
        BY <3>0, <3>1
      <4>2. (a \o b)[j] = a[j] /\ a[j] = s[j]
        BY <2>2, <2>5, <3>0, <4>1
      <4> QED BY <3>1, <4>2
    <3>2. CASE ~(j < i)
      <4>1. (a \o b)[j] = b[j - (i - 1)]
        <5>1. ~(j <= i - 1)
          BY <3>0, <3>2
        <5> QED BY <2>5, <3>0, <5>1
      <4>2. j - (i - 1) \in 1..(n - i) /\ i + (j - (i - 1)) = j + 1
        BY <3>0, <3>2
      <4>3. b[j - (i - 1)] = s[i + (j - (i - 1))]
        BY <2>3, <4>2
      <4> QED BY <3>2, <4>1, <4>2, <4>3
    <3> QED BY <3>1, <3>2
  <2>7. (i - 1) + (n - i) = n - 1
    BY <1>2
  <2> QED BY <2>4, <2>5, <2>6, <2>7
<1>4. /\ t \in Seq(Logs) /\ Len(t) = n /\ t[n] = l
      /\ \A j \in 1..(n - 1) : t[j] = IF j < i THEN s[j] ELSE s[j + 1]
  <2> DEFINE u == RemoveAt(s, i)
  <2>1. u \in Seq(Logs) /\ Len(u) = n - 1
    BY <1>3
  <2> HIDE DEF u, n
  <2>2. /\ Append(u, l) \in Seq(Logs) /\ Len(Append(u, l)) = (n - 1) + 1
        /\ Append(u, l)[(n - 1) + 1] = l
        /\ \A j \in 1..(n - 1) : Append(u, l)[j] = u[j]
    BY <2>1, AppendProperties
  <2>3. (n - 1) + 1 = n
    BY <1>2
  <2>4. \A j \in 1..(n - 1) : u[j] = IF j < i THEN s[j] ELSE s[j + 1]
    BY <1>3 DEF u
  <2>5. t = Append(u, l)
    BY DEF u
  <2> HIDE DEF t
  <2> QED BY <2>2, <2>3, <2>4, <2>5
<1> HIDE DEF n, t
<1>5. ASSUME NEW j \in 1..n, NEW k \in 1..n, t[j] = t[k] PROVE j = k
  <2>1. \A m \in 1..(n - 1) : t[m] # l
    BY <1>1, <1>2, <1>4
  <2>2. CASE j = n
    BY <1>2, <1>4, <1>5, <2>1, <2>2
  <2>4. CASE k = n
    BY <1>2, <1>4, <1>5, <2>1, <2>4
  <2>3. CASE j < n /\ k < n
    <3> DEFINE old(m) == IF m < i THEN m ELSE m + 1
    <3>1. /\ old(j) \in 1..n /\ old(k) \in 1..n
          /\ j \in 1..(n - 1) /\ k \in 1..(n - 1)
      BY <1>2, <2>3
    <3>2. t[j] = s[old(j)] /\ t[k] = s[old(k)]
      BY <1>4, <3>1
    <3>3. old(j) = old(k)
      <4> HIDE DEF old
      <4> QED BY <1>2, <1>5, <3>1, <3>2
    <3> QED BY <1>2, <3>3
  <2> QED BY <1>2, <2>2, <2>3, <2>4
<1>6. t \in [1..n -> Logs]
  BY <1>2, <1>4
<1> QED BY <1>1, <1>2, <1>5, <1>6 DEF SetToSeqs, t

-----------------------------------------------------------------------------
(* What the checks write.                                                  *)

Item == [log : Logs, copy : Row]
Result == [log : Logs, verdict : Verdicts]

Checks ==
  \/ Scan \/ Mark
  \/ \E u \in Users, l \in Logs : CheckLog(u, l)
  \/ \E c \in Checkers : CheckStep(c) \/ CheckerStops(c)

StampsOK ==
  verdict \in [Logs -> Verdicts \cup {"NOT_CHECKED"}] /\ order \in SetToSeqs(Logs)
CheckersOK == checker \in [Checkers -> Checker] /\ \A c \in Checkers : CheckOK(checker[c])

(* A check opens at most one incident, and only where none is OPEN.        *)
Opens ==
  \E l \in Logs, type \in IncidentTypes :
    OpenFor(l, type) = {} /\ incidents' = Opened(l, type)

CheckResult ==
  /\ UNCHANGED <<mode, trail, row, request, event, recoverer, edits>>
  /\ StampsOK' /\ CheckersOK'
  /\ UNCHANGED faults \/ Spend
  /\ UNCHANGED incidents \/ Opens

LEMMA IdleTyped == IdleChecker \in Checker /\ CheckOK(IdleChecker)
<1>1. <<>> \in Seq(Item) /\ <<>> \in Seq(Result)
  BY EmptySeq
<1>2. Found("PENDING") \in Finding
  BY DEF Found, Finding, Verdicts
<1> HIDE DEF Item, Result
<1>3. IdleChecker \in [pc : {"idle", "check", "create", "persist", "ensure", "recreate", "mark"},
                       todo : Seq(Item), done : Seq(Result), found : Finding]
  BY <1>1, <1>2 DEF IdleChecker
<1> QED BY <1>3 DEF IdleChecker, Checker, CheckOK, Item, Result

LEMMA CheckerKept ==
  ASSUME CheckersOK, NEW c \in Checkers, NEW k \in Checker, CheckOK(k),
         checker' = [checker EXCEPT ![c] = k]
  PROVE  CheckersOK'
BY DEF CheckersOK

LEMMA StampKept ==
  ASSUME StampsOK, NEW l \in Logs, NEW v \in Verdicts, Stamp(l, v)
  PROVE  StampsOK'
BY StampKeepsOrder DEF StampsOK, Stamp

(* What a busy checker has in hand.                                        *)
LEMMA InHand ==
  ASSUME CheckersOK, NEW c \in Checkers
  PROVE  /\ checker[c] \in Checker /\ checker[c].found \in Finding
         /\ checker[c].todo \in Seq(Item) /\ checker[c].done \in Seq(Result)
         /\ checker[c].pc \in {"check", "create", "persist", "ensure", "recreate"} =>
              /\ Current(c).log \in Logs /\ Current(c).copy \in Row
              /\ Tail(checker[c].todo) \in Seq(Item)
         /\ checker[c].pc \in {"create", "ensure", "recreate"} =>
              checker[c].found.incident \in IncidentTypes
         /\ checker[c].pc = "mark" =>
              /\ Head(checker[c].done) \in Result /\ Tail(checker[c].done) \in Seq(Result)
              /\ Len(Tail(checker[c].done)) = Len(checker[c].done) - 1
<1>1. checker[c] \in Checker /\ CheckOK(checker[c])
  BY DEF CheckersOK
<1>2. /\ checker[c].todo \in Seq(Item) /\ checker[c].done \in Seq(Result)
      /\ checker[c].found \in Finding
  BY <1>1 DEF Checker, Item, Result
<1>3. checker[c].todo # <<>> => Current(c) \in Item /\ Tail(checker[c].todo) \in Seq(Item)
  BY <1>2, HeadTailProperties DEF Current
<1>4. \A x \in Item : x.log \in Logs /\ x.copy \in Row
  BY DEF Item
<1>5. checker[c].done # <<>> =>
        /\ Head(checker[c].done) \in Result /\ Tail(checker[c].done) \in Seq(Result)
        /\ Len(Tail(checker[c].done)) = Len(checker[c].done) - 1
  BY <1>2, HeadTailProperties
<1>6. \A x \in Finding : x.incident # "none" => x.incident \in IncidentTypes
  BY DEF Finding
<1> HIDE DEF Item, Result
<1> QED BY <1>1, <1>2, <1>3, <1>4, <1>5, <1>6 DEF CheckOK

LEMMA ScanWrites ==
  ASSUME TypeOK, Scan
  PROVE  CheckResult
<1>1. CheckersOK /\ StampsOK /\ row \in [Logs -> Row] /\ order \in Seq(Logs)
  BY OrderHolds DEF TypeOK, RowsOK, ChecksOK, CheckersOK, StampsOK
<1> DEFINE n == IF Len(order) < BatchSize THEN Len(order) ELSE BatchSize
           batch == SubSeq(order, 1, n)
           todo == [k \in DOMAIN batch |-> [log |-> batch[k], copy |-> row[batch[k]]]]
           k == [IdleChecker EXCEPT !.pc = "check", !.todo = todo]
<1>2. n \in Nat \ {0} /\ n <= Len(order) /\ Len(order) \in Nat
  BY <1>1, GatewayAssumption, EmptySeq DEF Scan
<1>3. checker' = [checker EXCEPT !["scanner"] = k]
  BY DEF Scan
<1> HIDE DEF n
<1>4. batch \in Seq(Logs) /\ Len(batch) = n
  <2>1. \A j \in 1..n : order[j] \in Logs
    BY <1>1, <1>2, ElementOfSeq
  <2> QED BY <1>2, <2>1, SubSeqProperties
<1> HIDE DEF batch
<1>5. todo \in Seq(Item) /\ todo # <<>>
  <2>1. DOMAIN batch = 1..n /\ \A j \in 1..n : batch[j] \in Logs
    BY <1>4
  <2>2. todo \in [1..n -> Item]
    BY <1>1, <2>1 DEF Item
  <2> HIDE DEF todo, Item
  <2>3. todo \in Seq(Item) /\ Len(todo) = n
    BY <1>2, <2>2
  <2> QED BY <1>2, <2>3, EmptySeq
<1> HIDE DEF todo
<1>6. k \in Checker /\ CheckOK(k)
  BY <1>5, IdleTyped DEF Checker, CheckOK, Item
<1>7. CheckersOK'
  BY <1>1, <1>3, <1>6, CheckerKept DEF Checkers
<1>8. UNCHANGED <<mode, trail, row, verdict, order, incidents, request, event, recoverer, edits, faults>>
  BY DEF Scan, tables
<1> QED BY <1>1, <1>7, <1>8 DEF CheckResult, StampsOK

LEMMA CheckLogWrites ==
  ASSUME TypeOK, NEW u \in Users, NEW l \in Logs, CheckLog(u, l)
  PROVE  CheckResult
<1>1. CheckersOK /\ StampsOK /\ row \in [Logs -> Row]
  BY DEF TypeOK, RowsOK, ChecksOK, CheckersOK, StampsOK
<1> DEFINE x == [log |-> l, copy |-> row[l]]
           k == [IdleChecker EXCEPT !.pc = "check", !.todo = <<x>>]
<1>2. x \in Item
  BY <1>1 DEF Item
<1> HIDE DEF x
<1>3. <<x>> \in Seq(Item) /\ <<x>> # <<>>
  BY <1>2
<1>4. k \in Checker /\ CheckOK(k)
  BY <1>3, IdleTyped DEF Checker, CheckOK, Item
<1>5. checker' = [checker EXCEPT ![u] = k]
  BY DEF CheckLog, x
<1>6. CheckersOK'
  BY <1>1, <1>4, <1>5, CheckerKept DEF Checkers
<1>7. UNCHANGED <<mode, trail, row, verdict, order, incidents, request, event, recoverer, edits, faults>>
  BY DEF CheckLog, tables
<1> QED BY <1>1, <1>6, <1>7 DEF CheckResult, StampsOK

LEMMA CheckWrites ==
  ASSUME TypeOK, NEW c \in Checkers, Check(c)
  PROVE  CheckResult
<1>1. CheckersOK /\ StampsOK /\ row \in [Logs -> Row]
  BY DEF TypeOK, RowsOK, ChecksOK, CheckersOK, StampsOK
<1>2. checker[c].pc = "check"
  BY DEF Check
<1>3. /\ checker[c] \in Checker /\ CheckOK(checker[c])
      /\ Current(c).log \in Logs /\ Current(c).copy \in Row
  BY <1>1, <1>2, InHand DEF CheckersOK
<1>4. PICK reads \in SUBSET AllReads :
        LET l == Current(c).log
            found == Classify(Path(c), [Current(c).copy EXCEPT !.proofs = row[l].proofs], reads)
        IN /\ IF Cardinality(reads) = 2 THEN UNCHANGED faults ELSE Spend
           /\ checker' = [checker EXCEPT ![c].found = found,
                ![c].pc = IF found.incident = "none" \/ OpenIncident(l, found.incident)
                          THEN "persist" ELSE "create"]
  BY DEF Check
<1> DEFINE l == Current(c).log
           seen == [Current(c).copy EXCEPT !.proofs = row[l].proofs]
           found == Classify(Path(c), seen, reads)
           pc == IF found.incident = "none" \/ OpenIncident(l, found.incident)
                 THEN "persist" ELSE "create"
           k == [checker[c] EXCEPT !.found = found, !.pc = pc]
<1>5. seen \in Row
  <2>1. row[l] \in Row
    BY <1>1, <1>3
  <2> QED BY <1>3, <2>1 DEF Row
<1>6. found \in Finding /\ pc \in {"persist", "create"} /\ (pc = "create" => found.incident # "none")
  BY <1>5, VerdictTyped
<1>7. /\ checker' = [checker EXCEPT ![c].found = found, ![c].pc = pc]
      /\ UNCHANGED faults \/ Spend
  BY <1>4
<1> HIDE DEF found, pc, seen, l
<1>8. k \in Checker /\ CheckOK(k)
  <2>1. k \in Checker
    BY <1>3, <1>6 DEF Checker
  <2>2. /\ k.pc = pc /\ k.found = found /\ k.todo = checker[c].todo
    BY <1>3 DEF Checker
  <2>3. checker[c].todo # <<>>
    BY <1>2, <1>3 DEF CheckOK
  <2> HIDE DEF k
  <2> QED BY <1>6, <2>1, <2>2, <2>3 DEF CheckOK
<1>9. checker' = [checker EXCEPT ![c] = k]
  BY <1>7
<1>10. CheckersOK'
  <2> HIDE DEF k
  <2> QED BY <1>1, <1>8, <1>9, CheckerKept
<1>11. UNCHANGED <<mode, trail, row, verdict, order, incidents, request, event, recoverer, edits>>
  BY DEF Check, tables
<1> QED BY <1>1, <1>7, <1>10, <1>11 DEF CheckResult, StampsOK

LEMMA EnsureWrites ==
  ASSUME TypeOK, NEW c \in Checkers, EnsureAgain(c)
  PROVE  CheckResult
<1>1. CheckersOK /\ StampsOK
  BY DEF TypeOK, RowsOK, ChecksOK, CheckersOK, StampsOK
<1>2. checker[c].pc = "ensure" /\ checker[c] \in Checker /\ CheckOK(checker[c])
  BY <1>1 DEF EnsureAgain, CheckersOK
<1> DEFINE again == [checker[c] EXCEPT !.pc = "recreate"]
           k == IF OpenIncident(Current(c).log, checker[c].found.incident) THEN IdleChecker
                ELSE again
<1>3. again \in Checker /\ CheckOK(again)
  BY <1>2 DEF Checker, CheckOK
<1> HIDE DEF again
<1>4. k \in Checker /\ CheckOK(k)
  BY <1>3, IdleTyped
<1>5. checker' = [checker EXCEPT ![c] = k]
  BY <1>1 DEF EnsureAgain, again, CheckersOK
<1> HIDE DEF k
<1>6. CheckersOK'
  BY <1>1, <1>4, <1>5, CheckerKept
<1>7. UNCHANGED <<mode, trail, row, verdict, order, incidents, request, event, recoverer, edits, faults>>
  BY DEF EnsureAgain, tables
<1> QED BY <1>1, <1>6, <1>7 DEF CheckResult, StampsOK

LEMMA CreateWrites ==
  ASSUME TypeOK, NEW c \in Checkers, Create(c)
  PROVE  CheckResult
<1>1. CheckersOK /\ StampsOK
  BY DEF TypeOK, RowsOK, ChecksOK, CheckersOK, StampsOK
<1>2. /\ checker[c].pc \in {"create", "recreate"} /\ checker[c] \in Checker
      /\ CheckOK(checker[c]) /\ checker \in [Checkers -> Checker]
  BY <1>1 DEF Create, CheckersOK
<1>3. Current(c).log \in Logs /\ checker[c].found.incident \in IncidentTypes
  BY <1>1, <1>2, InHand
<1>4. UNCHANGED incidents \/ Opens
  <2>1. \/ UNCHANGED incidents
        \/ /\ OpenFor(Current(c).log, checker[c].found.incident) = {}
           /\ incidents' = Opened(Current(c).log, checker[c].found.incident)
    BY DEF Create, InsertIncident
  <2> QED BY <1>3, <2>1 DEF Opens
<1> DEFINE next == [checker[c] EXCEPT !.pc = "persist"]
           k == IF checker[c].pc = "recreate" THEN IdleChecker ELSE next
<1>5. next \in Checker /\ CheckOK(next)
  BY <1>2 DEF Checker, CheckOK
<1> HIDE DEF next
<1>6. k \in Checker /\ CheckOK(k)
  BY <1>5, IdleTyped
<1>7. checker' = [checker EXCEPT ![c] = k]
  <2>1. checker' = [checker EXCEPT ![c] =
          IF @.pc = "recreate" THEN IdleChecker ELSE [@ EXCEPT !.pc = "persist"]]
    BY DEF Create
  <2> QED BY <1>2, <2>1 DEF next
<1> HIDE DEF k
<1>8. CheckersOK'
  BY <1>1, <1>6, <1>7, CheckerKept
<1>9. /\ UNCHANGED <<mode, trail, row, verdict, order, request, event, recoverer, edits>>
      /\ UNCHANGED faults \/ Spend
  BY DEF Create
<1> QED BY <1>1, <1>4, <1>8, <1>9 DEF CheckResult, StampsOK

LEMMA PersistWrites ==
  ASSUME TypeOK, NEW c \in Checkers, Persist(c)
  PROVE  CheckResult
<1>1. CheckersOK /\ StampsOK
  BY DEF TypeOK, RowsOK, ChecksOK, CheckersOK, StampsOK
<1>2. checker[c].pc = "persist" /\ checker[c] \in Checker /\ CheckOK(checker[c])
  BY <1>1 DEF Persist, CheckersOK
<1> DEFINE l == Current(c).log
           v == checker[c].found.verdict
           rest == Tail(checker[c].todo)
           x == [log |-> l, verdict |-> v]
           done == Append(checker[c].done, x)
           next == [IdleChecker EXCEPT !.pc = IF rest = <<>> THEN "mark" ELSE "check",
                      !.todo = rest, !.done = done]
           again == [checker[c] EXCEPT !.pc = "ensure"]
<1>3. /\ l \in Logs /\ v \in Verdicts /\ rest \in Seq(Item)
      /\ checker[c].done \in Seq(Result)
  <2>1. checker[c].found \in Finding /\ l \in Logs /\ rest \in Seq(Item)
        /\ checker[c].done \in Seq(Result)
    BY <1>1, <1>2, InHand
  <2> QED BY <2>1 DEF Finding
<1>4. StampsOK' /\ (UNCHANGED faults \/ Spend)
  <2>1. \/ Stamp(l, v) /\ UNCHANGED faults
        \/ Spend /\ UNCHANGED <<verdict, order>>
    BY DEF Persist
  <2>2. CASE Stamp(l, v) /\ UNCHANGED faults
    <3> HIDE DEF l, v
    <3> QED BY <1>1, <1>3, <2>2, StampKept
  <2>3. CASE Spend /\ UNCHANGED <<verdict, order>>
    BY <1>1, <2>3 DEF StampsOK
  <2> QED BY <2>1, <2>2, <2>3
<1>5. \/ checker' = [checker EXCEPT ![c] = next]
      \/ checker' = [checker EXCEPT ![c] = IdleChecker]
      \/ /\ checker' = [checker EXCEPT ![c] = again]
         /\ checker[c].found.incident # "none"
  BY <1>1 DEF Persist, CheckersOK
<1>6. next \in Checker /\ CheckOK(next)
  <2>1. x \in Result
    BY <1>3 DEF Result
  <2>2. done \in Seq(Result) /\ done # <<>>
    <3> HIDE DEF x, Result
    <3> QED BY <1>3, <2>1
  <2> HIDE DEF done, rest
  <2>3. next \in Checker
    BY <1>3, <2>2, IdleTyped DEF Checker, Item, Result
  <2>4. /\ next.pc = (IF rest = <<>> THEN "mark" ELSE "check")
        /\ next.todo = rest /\ next.done = done
    BY IdleTyped DEF Checker
  <2> HIDE DEF next
  <2> QED BY <2>2, <2>3, <2>4 DEF CheckOK
<1>7. checker[c].found.incident # "none" => again \in Checker /\ CheckOK(again)
  BY <1>2 DEF Checker, CheckOK
<1> HIDE DEF next, again
<1>8. CheckersOK'
  BY <1>1, <1>5, <1>6, <1>7, IdleTyped, CheckerKept
<1>9. UNCHANGED <<mode, trail, row, incidents, request, event, recoverer, edits>>
  BY DEF Persist
<1> QED BY <1>4, <1>8, <1>9 DEF CheckResult

LEMMA MarkWrites ==
  ASSUME TypeOK, Mark
  PROVE  CheckResult
<1> DEFINE c == "scanner"
           done == checker[c].done
           next == [checker[c] EXCEPT !.done = Tail(done)]
<1>0. c \in Checkers
  BY DEF Checkers
<1>1. CheckersOK /\ StampsOK
  BY DEF TypeOK, RowsOK, ChecksOK, CheckersOK, StampsOK
<1>2. checker[c].pc = "mark" /\ checker[c] \in Checker /\ CheckOK(checker[c])
  BY <1>0, <1>1 DEF Mark, CheckersOK
<1>3. /\ Head(done).log \in Logs /\ Head(done).verdict \in Verdicts
      /\ Tail(done) \in Seq(Result) /\ Len(Tail(done)) = Len(done) - 1
      /\ done \in Seq(Result) /\ done # <<>>
  <2>1. /\ Head(done) \in Result
        /\ Tail(done) \in Seq(Result) /\ Len(Tail(done)) = Len(done) - 1
        /\ done \in Seq(Result)
    BY <1>0, <1>1, <1>2, InHand
  <2>2. done # <<>>
    BY <1>2 DEF CheckOK
  <2> QED BY <2>1, <2>2 DEF Result
<1>4. StampsOK' /\ (UNCHANGED faults \/ Spend)
  <2>1. \/ Stamp(Head(done).log, Head(done).verdict) /\ UNCHANGED faults
        \/ Spend /\ UNCHANGED <<verdict, order>>
    BY DEF Mark
  <2>2. CASE Stamp(Head(done).log, Head(done).verdict) /\ UNCHANGED faults
    <3> HIDE DEF done
    <3> QED BY <1>1, <1>3, <2>2, StampKept
  <2>3. CASE Spend /\ UNCHANGED <<verdict, order>>
    BY <1>1, <2>3 DEF StampsOK
  <2> QED BY <2>1, <2>2, <2>3
<1>5. \/ checker' = [checker EXCEPT ![c] = IdleChecker]
      \/ Len(done) # 1 /\ checker' = [checker EXCEPT ![c] = next]
  <2>1. checker \in [Checkers -> Checker]
    BY <1>1 DEF CheckersOK
  <2>2. checker' = [checker EXCEPT !["scanner"] =
          IF Len(done) = 1 THEN IdleChecker ELSE next]
    BY DEF Mark
  <2> QED BY <2>2
<1>6. Len(done) # 1 => next \in Checker /\ CheckOK(next)
  <2>1. Len(done) # 1 => Tail(done) # <<>>
    <3> HIDE DEF done
    <3> QED BY <1>3, EmptySeq
  <2>2. next \in Checker
    BY <1>2, <1>3 DEF Checker, Result
  <2>3. next.pc = "mark" /\ next.done = Tail(done)
    BY <1>2 DEF Checker
  <2> HIDE DEF next, done
  <2> QED BY <2>1, <2>2, <2>3 DEF CheckOK
<1> HIDE DEF next, done
<1>7. CheckersOK'
  <2> HIDE DEF c
  <2> QED BY <1>0, <1>1, <1>5, <1>6, IdleTyped, CheckerKept
<1>8. UNCHANGED <<mode, trail, row, incidents, request, event, recoverer, edits>>
  BY DEF Mark
<1> QED BY <1>4, <1>7, <1>8 DEF CheckResult

LEMMA CheckerStopsWrites ==
  ASSUME TypeOK, NEW c \in Checkers, CheckerStops(c)
  PROVE  CheckResult
<1>1. CheckersOK /\ StampsOK
  BY DEF TypeOK, RowsOK, ChecksOK, CheckersOK, StampsOK
<1>2. CheckersOK'
  BY <1>1, IdleTyped, CheckerKept DEF CheckerStops
<1>3. /\ UNCHANGED <<mode, trail, row, verdict, order, incidents, request, event, recoverer, edits>>
      /\ Spend
  BY DEF CheckerStops, tables
<1> QED BY <1>1, <1>2, <1>3 DEF CheckResult, StampsOK

LEMMA ChecksWrite ==
  ASSUME TypeOK, Checks
  PROVE  CheckResult
<1>1. \/ Scan \/ Mark
      \/ \E u \in Users, l \in Logs : CheckLog(u, l)
      \/ \E c \in Checkers :
           Check(c) \/ EnsureAgain(c) \/ Create(c) \/ Persist(c) \/ CheckerStops(c)
  BY DEF Checks, CheckStep
<1> QED BY <1>1, ScanWrites, MarkWrites, CheckLogWrites, CheckWrites, EnsureWrites, CreateWrites,
           PersistWrites, CheckerStopsWrites

-----------------------------------------------------------------------------
(* What the recoveries write.                                              *)

Statuses == {"none", "PENDING_EXECUTION", "EXECUTING", "SUCCEEDED", "FAILED"}
Results == {"none", "SUCCEEDED", "FAILED"}
Phases == {"idle", "insert", "load", "commit", "fail"}

(* How far a request has come (s), what its event says (e) and where its   *)
(* handler is (pc) belong together; spent says whether a fault happened.   *)
Course(direct, spent, s, e, pc) ==
  /\ s \in {"none", "PENDING_EXECUTION", "EXECUTING"} => e = "none"
  /\ s \in {"SUCCEEDED", "FAILED"} => e # "none"
  /\ pc = "insert" => s = "none"
  /\ pc \in {"load", "commit"} => s = "EXECUTING" \/ (direct /\ e = "FAILED")
  /\ pc = "fail" => \/ s = "EXECUTING" \/ (direct /\ e = "FAILED")
                    \/ e = "SUCCEEDED" /\ spent
  /\ e # "none" => s = e \/ (~direct /\ spent /\ e = "SUCCEEDED")

Lifecycle(q) ==
  Course(mode = "agent_direct", faults > 0, request[q].status, event[q], recoverer[q])

(* A recovery from snapshots works with the row's own snapshot.            *)
OwnSnapshot(q) == mode = "snapshot_legacy" /\ Made(q) => request[q].snapshot = "own"

(* A step that works on request q alone leaves it as r, its event as e and *)
(* its handler at pc.                                                      *)
Single(q, r, e, pc) ==
  /\ request' = [request EXCEPT ![q] = r]
  /\ event' = [event EXCEPT ![q] = e]
  /\ recoverer' = [recoverer EXCEPT ![q] = pc]

Resolves(q) ==
  /\ incidents' = [incidents EXCEPT ![request[q].incident].status = "RESOLVED"]
  /\ request[q].incident \in Incidents
  /\ event'[q] = "SUCCEEDED" /\ request'[q].incident = request[q].incident

RecoveryResult(q) ==
  /\ UNCHANGED <<mode, trail, checker, edits>>
  /\ row' \in [Logs -> Row] /\ StampsOK'
  /\ UNCHANGED faults \/ Spend
  /\ UNCHANGED incidents \/ Resolves(q)
  /\ request' \in [Requests -> Request]
  /\ event' \in [Requests -> Results]
  /\ recoverer' \in [Requests -> Phases]
  /\ \A p \in Requests \ {q} :
       request'[p] = request[p] /\ event'[p] = event[p] /\ recoverer'[p] = recoverer[p]
  /\ Made(q)' => request'[q].incident \in Incidents /\ request'[q].snapshot \in Snapshots
  /\ Lifecycle(q)' /\ OwnSnapshot(q)'
  /\ event[q] = "SUCCEEDED" =>
       event'[q] = "SUCCEEDED" /\ request'[q].incident = request[q].incident

LEMMA SingleTyped ==
  ASSUME TypeOK, NEW q \in Requests, NEW r \in Request, NEW e \in Results, NEW pc \in Phases,
         Single(q, r, e, pc)
  PROVE  /\ request' \in [Requests -> Request]
         /\ event' \in [Requests -> Results]
         /\ recoverer' \in [Requests -> Phases]
         /\ \A p \in Requests \ {q} :
              request'[p] = request[p] /\ event'[p] = event[p] /\ recoverer'[p] = recoverer[p]
         /\ request'[q] = r /\ event'[q] = e /\ recoverer'[q] = pc
BY DEF TypeOK, RecoveriesOK, Single, Results, Phases

(* What a handler finds.                                                   *)
LEMMA RequestTyped ==
  ASSUME TypeOK, NEW q \in Requests
  PROVE  /\ request[q] \in Request /\ event[q] \in Results /\ recoverer[q] \in Phases
         /\ request[q].status \in Statuses
         /\ \A s \in Statuses :
              LET r == [request[q] EXCEPT !.status = s] IN
                /\ r \in Request /\ r.status = s
                /\ r.incident = request[q].incident /\ r.snapshot = request[q].snapshot
         /\ request = [request EXCEPT ![q] = request[q]]
         /\ event = [event EXCEPT ![q] = event[q]]
         /\ recoverer = [recoverer EXCEPT ![q] = recoverer[q]]
         /\ StampsOK /\ row \in [Logs -> Row]
         /\ mode \in {"agent_direct", "snapshot_legacy"}
         /\ Made(q) =>
              /\ request[q].incident \in Incidents /\ request[q].snapshot \in Snapshots
              /\ LogOf(q) \in Logs /\ row[LogOf(q)] \in Row
              /\ Backfilled(request[q].incident) \in [Logs -> Row]
<1>1. /\ request \in [Requests -> Request] /\ event \in [Requests -> Results]
      /\ recoverer \in [Requests -> Phases]
      /\ Made(q) => request[q].incident \in Incidents /\ request[q].snapshot \in Snapshots
  BY DEF TypeOK, RecoveriesOK, Results, Phases
<1>2. RowsOK /\ incidents \in Seq(Incident) /\ StampsOK /\ row \in [Logs -> Row]
  BY DEF TypeOK, RowsOK, ChecksOK, StampsOK
<1>3. mode \in {"agent_direct", "snapshot_legacy"}
  BY <1>2, GatewayAssumption DEF RowsOK
<1>4. request[q] \in Request
  BY <1>1
<1>5. request[q].status \in Statuses
  BY <1>4 DEF Request, Statuses
<1>6. ASSUME NEW s \in Statuses
      PROVE  LET r == [request[q] EXCEPT !.status = s] IN
               /\ r \in Request /\ r.status = s
               /\ r.incident = request[q].incident /\ r.snapshot = request[q].snapshot
  BY <1>4 DEF Request, Statuses
<1>7. Made(q) =>
        /\ LogOf(q) \in Logs /\ row[LogOf(q)] \in Row
        /\ Backfilled(request[q].incident) \in [Logs -> Row]
  BY <1>1, <1>2, BackfilledIsRows DEF LogOf
<1>8. /\ request = [request EXCEPT ![q] = request[q]]
      /\ event = [event EXCEPT ![q] = event[q]]
      /\ recoverer = [recoverer EXCEPT ![q] = recoverer[q]]
      /\ event[q] \in Results /\ recoverer[q] \in Phases
  BY <1>1
<1> QED BY <1>1, <1>2, <1>3, <1>4, <1>5, <1>6, <1>7, <1>8

LEMMA PrepareWrites ==
  ASSUME TypeOK, NEW q \in Requests, Lifecycle(q), Prepare(q)
  PROVE  RecoveryResult(q)
<1>1. PICK i \in Incidents :
        /\ row' = Backfilled(i)
        /\ LET r == row'[incidents[i].log] IN
             /\ Loadable(i, r)
             /\ request' = [request EXCEPT ![q] = [status |-> "none", incident |-> i,
                  before |-> ContentHash(r), root |-> r.root, snapshot |-> r.snapshot]]
  BY DEF Prepare
<1> DEFINE r == row'[incidents[i].log]
           new == [status |-> "none", incident |-> i, before |-> ContentHash(r),
                   root |-> r.root, snapshot |-> r.snapshot]
<1>2. row' \in [Logs -> Row] /\ r \in Row
  BY <1>1, BackfilledIsRows DEF TypeOK, ChecksOK
<1>3. i \in Nat
  BY DEF Incidents, TypeOK, ChecksOK
<1>4. new \in Request /\ r.snapshot \in Snapshots
  BY <1>2, <1>3 DEF Request, Row, ContentHash
<1>5. /\ event[q] = "none" /\ event[q] \in Results /\ StampsOK
      /\ event = [event EXCEPT ![q] = event[q]]
  BY RequestTyped DEF Prepare, Lifecycle, Course
<1>6. Single(q, new, event[q], "insert")
  BY <1>1, <1>5 DEF Prepare, Goto, Single
<1>7. mode = "snapshot_legacy" => r.snapshot = "own"
  BY <1>1 DEF Loadable, ValidSnapshot, OwnIdentity
<1>8. new.status = "none" /\ new.incident = i /\ new.snapshot = r.snapshot
  OBVIOUS
<1> HIDE DEF new, r
<1>9. /\ request' \in [Requests -> Request]
      /\ event' \in [Requests -> Results]
      /\ recoverer' \in [Requests -> Phases]
      /\ \A p \in Requests \ {q} :
           request'[p] = request[p] /\ event'[p] = event[p] /\ recoverer'[p] = recoverer[p]
      /\ request'[q] = new /\ event'[q] = event[q] /\ recoverer'[q] = "insert"
  BY <1>4, <1>5, <1>6, SingleTyped DEF Phases
<1>10. UNCHANGED <<mode, trail, verdict, order, incidents, checker, edits, faults>>
  BY DEF Prepare
<1>11. Lifecycle(q)'
  BY <1>5, <1>8, <1>9 DEF Lifecycle, Course
<1>12. OwnSnapshot(q)'
  BY <1>7, <1>8, <1>9, <1>10 DEF OwnSnapshot
<1> QED BY <1>2, <1>4, <1>5, <1>8, <1>9, <1>10, <1>11, <1>12 DEF RecoveryResult, StampsOK

(* A step that changes the status, the event and the handler of a request  *)
(* that is made.                                                           *)
LEMMA StatusWrites ==
  ASSUME TypeOK, NEW q \in Requests, OwnSnapshot(q), Made(q),
         NEW s \in Statuses, NEW e \in Results, NEW pc \in Phases,
         Single(q, [request[q] EXCEPT !.status = s], e, pc),
         Course(mode = "agent_direct", faults' > 0, s, e, pc),
         event[q] = "SUCCEEDED" => e = "SUCCEEDED",
         UNCHANGED <<mode, trail, checker, edits>>,
         row' \in [Logs -> Row], StampsOK',
         UNCHANGED faults \/ Spend,
         \/ UNCHANGED incidents
         \/ /\ incidents' = [incidents EXCEPT ![request[q].incident].status = "RESOLVED"]
            /\ e = "SUCCEEDED"
  PROVE  RecoveryResult(q)
<1> DEFINE r == [request[q] EXCEPT !.status = s]
<1>1. /\ r \in Request /\ r.status = s
      /\ r.incident = request[q].incident /\ r.snapshot = request[q].snapshot
      /\ request[q].incident \in Incidents /\ request[q].snapshot \in Snapshots
  BY RequestTyped
<1> HIDE DEF r
<1>2. /\ request' \in [Requests -> Request]
      /\ event' \in [Requests -> Results]
      /\ recoverer' \in [Requests -> Phases]
      /\ \A p \in Requests \ {q} :
           request'[p] = request[p] /\ event'[p] = event[p] /\ recoverer'[p] = recoverer[p]
      /\ request'[q] = r /\ event'[q] = e /\ recoverer'[q] = pc
  BY <1>1, SingleTyped DEF r
<1>3. Lifecycle(q)'
  BY <1>1, <1>2 DEF Lifecycle
<1>4. OwnSnapshot(q)'
  BY <1>1, <1>2 DEF OwnSnapshot
<1>5. UNCHANGED incidents \/ Resolves(q)
  BY <1>1, <1>2 DEF Resolves
<1> QED BY <1>1, <1>2, <1>3, <1>4, <1>5 DEF RecoveryResult

(* What was made of a request is taken back.                               *)
LEMMA ForgetWrites ==
  ASSUME TypeOK, NEW q \in Requests, request[q].status = "none", event[q] = "none",
         Single(q, NoRequest, "none", "idle"),
         UNCHANGED <<mode, trail, row, verdict, order, incidents, checker, edits>>,
         UNCHANGED faults \/ Spend
  PROVE  RecoveryResult(q)
<1>1. NoRequest \in Request /\ NoRequest.status = "none"
  BY DEF NoRequest, Request, SealedHash, Contents
<1>2. /\ request' \in [Requests -> Request]
      /\ event' \in [Requests -> Results]
      /\ recoverer' \in [Requests -> Phases]
      /\ \A p \in Requests \ {q} :
           request'[p] = request[p] /\ event'[p] = event[p] /\ recoverer'[p] = recoverer[p]
      /\ request'[q] = NoRequest /\ event'[q] = "none" /\ recoverer'[q] = "idle"
  BY <1>1, SingleTyped DEF Results, Phases
<1>3. Lifecycle(q)' /\ OwnSnapshot(q)' /\ ~Made(q)'
  BY <1>1, <1>2 DEF Lifecycle, Course, OwnSnapshot, Made
<1>4. row \in [Logs -> Row] /\ StampsOK
  BY RequestTyped
<1> QED BY <1>2, <1>3, <1>4 DEF RecoveryResult, StampsOK

LEMMA InsertWrites ==
  ASSUME TypeOK, NEW q \in Requests, Lifecycle(q), OwnSnapshot(q), InsertRequest(q)
  PROVE  RecoveryResult(q)
<1>1. /\ recoverer[q] = "insert" /\ request[q].status = "none" /\ event[q] = "none"
      /\ recoverer' = [recoverer EXCEPT ![q] = "idle"]
      /\ event' = [event EXCEPT ![q] = "none"]
  BY RequestTyped DEF InsertRequest, Lifecycle, Course, Goto
<1>2. UNCHANGED <<mode, trail, row, verdict, order, incidents, checker, edits, faults>>
  BY DEF InsertRequest
<1>3. CASE Conflict(q)
  <2>1. request' = [request EXCEPT ![q] = NoRequest]
    BY <1>3 DEF InsertRequest
  <2> QED BY <1>1, <1>2, <2>1, ForgetWrites DEF Single
<1>4. CASE ~Conflict(q)
  <2>1. request' = [request EXCEPT ![q] = [request[q] EXCEPT !.status = "PENDING_EXECUTION"]]
    BY <1>4 DEF InsertRequest
  <2>2. Made(q) /\ row' \in [Logs -> Row] /\ StampsOK'
    BY <1>1, <1>2, RequestTyped DEF Made, StampsOK
  <2>3. Course(mode = "agent_direct", faults' > 0, "PENDING_EXECUTION", "none", "idle")
    BY DEF Course
  <2>4. Single(q, [request[q] EXCEPT !.status = "PENDING_EXECUTION"], "none", "idle")
    BY <1>1, <2>1 DEF Single
  <2> QED BY <1>1, <1>2, <2>2, <2>3, <2>4, StatusWrites DEF Statuses, Results, Phases
<1> QED BY <1>3, <1>4

LEMMA ClaimWrites ==
  ASSUME TypeOK, NEW q \in Requests, Lifecycle(q), OwnSnapshot(q), Claim(q)
  PROVE  RecoveryResult(q)
<1>1. /\ request[q].status = "PENDING_EXECUTION" /\ event[q] = "none"
      /\ recoverer' = [recoverer EXCEPT ![q] = "load"]
      /\ event' = [event EXCEPT ![q] = "none"]
  BY RequestTyped DEF Claim, Lifecycle, Course, Goto
<1>2. UNCHANGED <<mode, trail, row, verdict, order, incidents, checker, edits, faults>>
  BY DEF Claim
<1>3. request' = [request EXCEPT ![q] = [request[q] EXCEPT !.status = "EXECUTING"]]
  BY DEF Claim
<1>4. Made(q) /\ row' \in [Logs -> Row] /\ StampsOK'
  BY <1>1, <1>2, RequestTyped DEF Made, StampsOK
<1>5. Course(mode = "agent_direct", faults' > 0, "EXECUTING", "none", "load")
  BY DEF Course
<1>6. Single(q, [request[q] EXCEPT !.status = "EXECUTING"], "none", "load")
  BY <1>1, <1>3 DEF Single
<1> QED BY <1>1, <1>2, <1>4, <1>5, <1>6, StatusWrites DEF Statuses, Results, Phases

LEMMA SpendInBudget ==
  ASSUME TypeOK, UNCHANGED faults \/ Spend
  PROVE  faults' \in 0..MaxFaults /\ (faults > 0 => faults' > 0) /\ (Spend => faults' > 0)
BY GatewayAssumption DEF TypeOK, RowsOK, Spend

LEMMA LoadWrites ==
  ASSUME TypeOK, NEW q \in Requests, Lifecycle(q), OwnSnapshot(q), Load(q)
  PROVE  RecoveryResult(q)
<1> DEFINE s == request[q].status
           e == event[q]
<1>1. recoverer[q] = "load" /\ Made(q) /\ s \in Statuses /\ e \in Results
  BY RequestTyped DEF Load, Made
<1>2. /\ row' = Backfilled(request[q].incident)
      /\ UNCHANGED <<mode, trail, verdict, order, incidents, request, event, checker, edits>>
      /\ UNCHANGED faults \/ Spend
      /\ \E pc \in {"commit", "fail"} : recoverer' = [recoverer EXCEPT ![q] = pc]
  BY DEF Load, Goto
<1>3. PICK pc \in {"commit", "fail"} : recoverer' = [recoverer EXCEPT ![q] = pc]
  BY <1>2
<1>4. row' \in [Logs -> Row] /\ StampsOK'
  BY <1>1, <1>2, RequestTyped DEF StampsOK
<1>5. Course(mode = "agent_direct", faults' > 0, s, e, pc)
  <2>1. faults > 0 => faults' > 0
    BY <1>2, SpendInBudget
  <2> QED BY <1>1, <2>1 DEF Lifecycle, Course
<1>6. Single(q, [request[q] EXCEPT !.status = s], e, pc)
  <2>1. request[q] = [request[q] EXCEPT !.status = s]
    BY RequestTyped DEF Request
  <2> QED BY <1>2, <1>3, <2>1, RequestTyped DEF Single
<1> HIDE DEF s, e
<1>7. pc \in Phases
  BY DEF Phases
<1> QED BY <1>1, <1>2, <1>4, <1>5, <1>6, <1>7, StatusWrites DEF e

(* A step that leaves the request and its event alone.                     *)
LEMMA HandlerMoves ==
  ASSUME TypeOK, NEW q \in Requests, OwnSnapshot(q), Made(q), NEW pc \in Phases,
         recoverer' = [recoverer EXCEPT ![q] = pc],
         Course(mode = "agent_direct", faults' > 0, request[q].status, event[q], pc),
         UNCHANGED <<mode, trail, row, verdict, order, incidents, request, event, checker, edits>>,
         UNCHANGED faults \/ Spend
  PROVE  RecoveryResult(q)
<1> DEFINE s == request[q].status
           e == event[q]
<1>1. s \in Statuses /\ e \in Results /\ row' \in [Logs -> Row] /\ StampsOK'
  BY RequestTyped DEF StampsOK
<1>2. Single(q, [request[q] EXCEPT !.status = s], e, pc)
  <2>1. request[q] = [request[q] EXCEPT !.status = s]
    BY RequestTyped DEF Request
  <2> QED BY <2>1, RequestTyped DEF Single
<1>3. Course(mode = "agent_direct", faults' > 0, s, e, pc)
  OBVIOUS
<1> HIDE DEF s, e
<1> QED BY <1>1, <1>2, <1>3, StatusWrites DEF e

LEMMA CommitWrites ==
  ASSUME TypeOK, NEW q \in Requests, Lifecycle(q), OwnSnapshot(q), Commit(q)
  PROVE  RecoveryResult(q)
<1>1. /\ recoverer[q] = "commit" /\ event[q] = "none"
      /\ row' = [row EXCEPT ![LogOf(q)] = Restored(q, row[LogOf(q)])]
      /\ Stamp(LogOf(q), "VALID")
      /\ incidents' = [incidents EXCEPT ![request[q].incident].status = "RESOLVED"]
      /\ event' = [event EXCEPT ![q] = "SUCCEEDED"]
      /\ request' = [request EXCEPT ![q] = [request[q] EXCEPT !.status = "SUCCEEDED"]]
      /\ UNCHANGED <<mode, trail, checker, edits>>
  BY DEF Commit
<1>2. /\ Made(q) /\ StampsOK /\ row \in [Logs -> Row] /\ LogOf(q) \in Logs
      /\ row[LogOf(q)] \in Row /\ request[q].snapshot \in Snapshots
  <2>1. Made(q)
    BY <1>1 DEF Made
  <2> QED BY <2>1, RequestTyped
<1>3. row' \in [Logs -> Row]
  <2>1. Restored(q, row[LogOf(q)]) \in Row
    BY <1>2, RestoredIsRow
  <2> QED BY <1>1, <1>2, <2>1
<1>4. StampsOK'
  BY <1>1, <1>2, StampKept DEF Verdicts
<1>5. PICK pc \in {"idle", "fail"} :
        /\ recoverer' = [recoverer EXCEPT ![q] = pc]
        /\ UNCHANGED faults \/ Spend
        /\ pc = "fail" => Spend
  BY DEF Commit, Goto
<1>6. Course(mode = "agent_direct", faults' > 0, "SUCCEEDED", "SUCCEEDED", pc)
  BY <1>5, SpendInBudget DEF Course
<1>7. Single(q, [request[q] EXCEPT !.status = "SUCCEEDED"], "SUCCEEDED", pc)
  BY <1>1, <1>5 DEF Single
<1>8. pc \in Phases /\ "SUCCEEDED" \in Statuses /\ "SUCCEEDED" \in Results
  BY DEF Phases, Statuses, Results
<1> QED BY <1>1, <1>2, <1>3, <1>4, <1>5, <1>6, <1>7, <1>8, StatusWrites

LEMMA RollBackWrites ==
  ASSUME TypeOK, NEW q \in Requests, Lifecycle(q), OwnSnapshot(q), RollBack(q)
  PROVE  RecoveryResult(q)
<1>1. /\ recoverer[q] = "commit" /\ recoverer' = [recoverer EXCEPT ![q] = "fail"]
      /\ UNCHANGED <<mode, trail, row, verdict, order, incidents, request, event, checker, edits>>
      /\ UNCHANGED faults \/ Spend
  BY DEF RollBack, tables, Goto
<1>2. Made(q)
  BY <1>1 DEF Made
<1>3. Course(mode = "agent_direct", faults' > 0, request[q].status, event[q], "fail")
  BY <1>1, SpendInBudget DEF Lifecycle, Course
<1> QED BY <1>1, <1>2, <1>3, HandlerMoves DEF Phases

LEMMA FailWrites ==
  ASSUME TypeOK, NEW q \in Requests, Lifecycle(q), OwnSnapshot(q), Fail(q)
  PROVE  RecoveryResult(q)
<1>1. /\ recoverer[q] = "fail" /\ recoverer' = [recoverer EXCEPT ![q] = "idle"]
      /\ UNCHANGED <<mode, trail, row, verdict, order, incidents, checker, edits>>
      /\ UNCHANGED faults \/ Spend
  BY DEF Fail, Goto
<1>2. Made(q) /\ row' \in [Logs -> Row] /\ StampsOK'
  BY <1>1, RequestTyped DEF Made, StampsOK
<1>3. CASE UNCHANGED <<request, event>>
  <2>1. Course(mode = "agent_direct", faults' > 0, request[q].status, event[q], "idle")
    BY <1>1, SpendInBudget DEF Lifecycle, Course
  <2> QED BY <1>1, <1>2, <1>3, <2>1, HandlerMoves DEF Phases
<1>4. CASE /\ request' = [request EXCEPT ![q].status = StatusAfterFailure(q)]
           /\ event' = [event EXCEPT ![q] = IF @ = "none" THEN "FAILED" ELSE @]
  <2> DEFINE s == StatusAfterFailure(q)
             e == IF event[q] = "none" THEN "FAILED" ELSE event[q]
  <2>1. s \in Statuses /\ e \in Results
    BY RequestTyped DEF StatusAfterFailure, Statuses, Results
  <2>2. Single(q, [request[q] EXCEPT !.status = s], e, "idle")
    BY <1>1, <1>4 DEF Single
  <2>3. Course(mode = "agent_direct", faults' > 0, s, e, "idle")
    <3>1. faults > 0 => faults' > 0
      BY <1>1, SpendInBudget
    <3>2. event[q] \in Results /\ request[q].status \in Statuses
      BY RequestTyped
    <3> QED BY <1>1, <3>1, <3>2 DEF Lifecycle, Course, StatusAfterFailure, Results, Statuses
  <2>4. event[q] = "SUCCEEDED" => e = "SUCCEEDED"
    OBVIOUS
  <2> HIDE DEF s, e
  <2> QED BY <1>1, <1>2, <2>1, <2>2, <2>3, <2>4, StatusWrites DEF Phases
<1> QED BY <1>3, <1>4 DEF Fail

LEMMA GiveUpWrites ==
  ASSUME TypeOK, NEW q \in Requests, Lifecycle(q), OwnSnapshot(q), GiveUp(q)
  PROVE  RecoveryResult(q)
<1>1. /\ mode = "agent_direct" /\ request[q].status = "EXECUTING"
      /\ request' = [request EXCEPT ![q] = [request[q] EXCEPT !.status = "FAILED"]]
      /\ event' = [event EXCEPT ![q] = "FAILED"]
      /\ UNCHANGED <<mode, trail, row, verdict, order, incidents, checker, recoverer, edits>>
      /\ UNCHANGED faults \/ Spend
  BY DEF GiveUp
<1>2. Made(q) /\ row' \in [Logs -> Row] /\ StampsOK'
  BY <1>1, RequestTyped DEF Made, StampsOK
<1>3. event[q] = "none" /\ recoverer[q] \in Phases
  BY <1>1, RequestTyped DEF Lifecycle, Course
<1>4. Course(mode = "agent_direct", faults' > 0, "FAILED", "FAILED", recoverer[q])
  BY <1>1, <1>3 DEF Lifecycle, Course
<1>5. Single(q, [request[q] EXCEPT !.status = "FAILED"], "FAILED", recoverer[q])
  BY <1>1, RequestTyped DEF Single
<1> QED BY <1>1, <1>2, <1>3, <1>4, <1>5, StatusWrites DEF Statuses, Results

LEMMA StopWrites ==
  ASSUME TypeOK, NEW q \in Requests, Lifecycle(q), OwnSnapshot(q), HandlerStops(q)
  PROVE  RecoveryResult(q)
<1>1. /\ recoverer[q] # "idle" /\ recoverer' = [recoverer EXCEPT ![q] = "idle"]
      /\ request' = [request EXCEPT ![q] = IF request[q].status = "none" THEN NoRequest
                                          ELSE request[q]]
      /\ UNCHANGED <<mode, trail, row, verdict, order, incidents, checker, event, edits>>
      /\ Spend
  BY DEF HandlerStops, Goto
<1>2. CASE request[q].status = "none"
  <2>1. event[q] = "none"
    BY <1>2 DEF Lifecycle, Course
  <2>2. Single(q, NoRequest, "none", "idle")
    BY <1>1, <1>2, <2>1, RequestTyped DEF Single
  <2> QED BY <1>1, <1>2, <2>1, <2>2, ForgetWrites
<1>3. CASE request[q].status # "none"
  <2>1. UNCHANGED request
    BY <1>1, <1>3, RequestTyped
  <2>2. Made(q)
    BY <1>1 DEF Made
  <2>3. Course(mode = "agent_direct", faults' > 0, request[q].status, event[q], "idle")
    BY <1>1, SpendInBudget DEF Lifecycle, Course
  <2> QED BY <1>1, <2>1, <2>2, <2>3, HandlerMoves DEF Phases
<1> QED BY <1>2, <1>3

RecoveryStep(q) ==
  \/ Prepare(q) \/ InsertRequest(q) \/ Claim(q) \/ Load(q) \/ Commit(q) \/ RollBack(q)
  \/ Fail(q) \/ GiveUp(q) \/ HandlerStops(q)

LEMMA RecoveryWrites ==
  ASSUME TypeOK, NEW q \in Requests, Lifecycle(q), OwnSnapshot(q), RecoveryStep(q)
  PROVE  RecoveryResult(q)
BY PrepareWrites, InsertWrites, ClaimWrites, LoadWrites, CommitWrites, RollBackWrites,
   FailWrites, GiveUpWrites, StopWrites DEF RecoveryStep

-----------------------------------------------------------------------------
(* The inductive invariant.                                                *)

OpenAlone ==
  \A i, j \in Incidents :
    IsOpen(i) /\ IsOpen(j) /\ incidents[i].log = incidents[j].log
      /\ incidents[i].type = incidents[j].type => i = j

Resolved ==
  \A i \in Incidents : incidents[i].status = "RESOLVED" =>
    \E q \in Requests : request[q].incident = i /\ event[q] = "SUCCEEDED"

RequestsOK == \A q \in Requests : Lifecycle(q) /\ OwnSnapshot(q)

GatewayInv == TypeOK /\ OpenAlone /\ Resolved /\ RequestsOK

(* Rows change outside, or get their reference, without anything else.     *)
RowResult ==
  /\ UNCHANGED <<mode, trail, verdict, order, incidents, checker, request, event, recoverer, faults>>
  /\ row' \in [Logs -> Row]
  /\ edits' \in 0..MaxEdits

LEMMA NextResult ==
  ASSUME TypeOK, RequestsOK, Next
  PROVE  CheckResult \/ RowResult \/ \E q \in Requests : RecoveryResult(q)
<1>0. RowsOK /\ incidents \in Seq(Incident) /\ row \in [Logs -> Row]
  BY DEF TypeOK, RowsOK, ChecksOK
<1>1. \/ Checks
      \/ \E l \in Logs : Edit(l)
      \/ \E i \in Incidents : Preflight(i)
      \/ \E q \in Requests : RecoveryStep(q)
  BY DEF Next, Checks, RecoveryStep, Handler
<1>2. CASE Checks
  BY <1>2, ChecksWrite
<1>3. ASSUME NEW l \in Logs, Edit(l) PROVE RowResult
  <2>1. PICK r \in Damage \cup {Sound} : row' = [row EXCEPT ![l] = [r EXCEPT !.source = row[l].source]]
    BY <1>3 DEF Edit
  <2>2. r \in Row /\ row[l] \in Row
    BY <1>0, <2>1, GatewayAssumption DEF Sound, Row, Contents, SealedHash, Snapshots
  <2>3. [r EXCEPT !.source = row[l].source] \in Row
    BY <2>2 DEF Row
  <2>4. row' \in [Logs -> Row]
    BY <1>0, <2>1, <2>3
  <2>5. edits' \in 0..MaxEdits
    BY <1>0, <1>3, GatewayAssumption DEF Edit, RowsOK
  <2> QED BY <1>3, <2>4, <2>5 DEF Edit, RowResult
<1>4. ASSUME NEW i \in Incidents, Preflight(i) PROVE RowResult
  <2>1. row' \in [Logs -> Row]
    BY <1>0, <1>4, BackfilledIsRows DEF Preflight
  <2> QED BY <1>0, <1>4, <2>1 DEF Preflight, RowResult, RowsOK
<1>5. ASSUME NEW q \in Requests, RecoveryStep(q) PROVE RecoveryResult(q)
  BY <1>5, RecoveryWrites DEF RequestsOK
<1> QED BY <1>1, <1>2, <1>3, <1>4, <1>5

(* Incidents are only added, and keep their row and kind.                  *)
LEMMA OpensIncidents ==
  ASSUME TypeOK, Opens
  PROVE  /\ incidents' \in Seq(Incident)
         /\ \A i \in Incidents : i \in Incidents' /\ incidents'[i] = incidents[i]
         /\ OpenAlone => OpenAlone'
         /\ \A i \in Incidents' : incidents'[i].status = "RESOLVED" => i \in Incidents
<1>1. PICK l \in Logs, type \in IncidentTypes :
        OpenFor(l, type) = {} /\ incidents' = Opened(l, type)
  BY DEF Opens
<1> DEFINE new == [log |-> l, type |-> type, status |-> "OPEN"]
           n == Len(incidents)
<1>2. new \in Incident /\ new.log = l /\ new.type = type /\ new.status = "OPEN"
  BY DEF Incident
<1>3. incidents \in Seq(Incident) /\ incidents' = Append(incidents, new)
  BY <1>1 DEF TypeOK, ChecksOK, Opened
<1> HIDE DEF new
<1>4. /\ n \in Nat /\ Incidents = 1..n /\ Incidents' = 1..(n + 1)
      /\ incidents' \in Seq(Incident) /\ incidents'[n + 1] = new
      /\ \A i \in 1..n : incidents'[i] = incidents[i]
  BY <1>2, <1>3 DEF Incidents
<1> HIDE DEF n
<1>5. \A i \in 1..n : i \in 1..(n + 1)
  BY <1>4
<1>6. \A i \in 1..(n + 1) : i \in 1..n \/ i = n + 1
  BY <1>4
<1>7. \A i \in 1..n : ~(IsOpen(i) /\ incidents[i].log = l /\ incidents[i].type = type)
  BY <1>1, <1>4 DEF OpenFor
<1>8. ASSUME OpenAlone PROVE OpenAlone'
  <2> SUFFICES ASSUME NEW i \in 1..(n + 1), NEW j \in 1..(n + 1),
                      incidents'[i].status = "OPEN", incidents'[j].status = "OPEN",
                      incidents'[i].log = incidents'[j].log,
                      incidents'[i].type = incidents'[j].type
               PROVE  i = j
    BY <1>4 DEF OpenAlone, IsOpen
  <2> QED BY <1>2, <1>4, <1>6, <1>7, <1>8 DEF OpenAlone, IsOpen
<1>9. \A i \in Incidents' : incidents'[i].status = "RESOLVED" => i \in Incidents
  BY <1>2, <1>4, <1>6
<1> QED BY <1>4, <1>5, <1>8, <1>9

LEMMA ResolvesIncident ==
  ASSUME TypeOK, NEW q \in Requests, Resolves(q)
  PROVE  /\ incidents' \in Seq(Incident) /\ Incidents' = Incidents
         /\ \A i \in Incidents \ {request[q].incident} : incidents'[i] = incidents[i]
         /\ OpenAlone => OpenAlone'
<1> DEFINE x == request[q].incident
           old == incidents[x]
           new == [old EXCEPT !.status = "RESOLVED"]
<1>1. incidents \in Seq(Incident) /\ x \in DOMAIN incidents
  BY DEF Resolves, TypeOK, ChecksOK, Incidents
<1>2. incidents' = [incidents EXCEPT ![x] = new]
  BY DEF Resolves
<1>3. old \in Incident
  BY <1>1
<1>4. new \in Incident /\ new.status = "RESOLVED"
  BY <1>3 DEF Incident
<1> HIDE DEF new
<1>5. /\ incidents' \in Seq(Incident) /\ DOMAIN incidents' = DOMAIN incidents
      /\ incidents'[x].status = "RESOLVED"
      /\ \A i \in DOMAIN incidents \ {x} : incidents'[i] = incidents[i]
  <2> HIDE DEF x
  <2> QED BY <1>1, <1>2, <1>4
<1>6. OpenAlone => OpenAlone'
  <2> HIDE DEF x, old
  <2> QED BY <1>5 DEF OpenAlone, IsOpen, Incidents
<1> QED BY <1>5, <1>6 DEF Incidents

LEMMA InvInit == Init => GatewayInv
<1> SUFFICES ASSUME Init PROVE GatewayInv
  OBVIOUS
<1>1. /\ checker = [c \in Checkers |-> IdleChecker]
      /\ request = [q \in Requests |-> NoRequest] /\ event = [q \in Requests |-> "none"]
      /\ recoverer = [q \in Requests |-> "idle"] /\ incidents = <<>>
  BY DEF Init
<1>2. RowsOK
  <2>1. PICK source \in Sources : row = [l \in Logs |-> [Sound EXCEPT !.source = source]]
    BY DEF Init
  <2>2. [Sound EXCEPT !.source = source] \in Row
    BY <2>1, GatewayAssumption DEF Sound, Row, Contents, SealedHash, Snapshots
  <2> HIDE DEF Row
  <2> QED BY <2>1, <2>2, GatewayAssumption DEF Init, RowsOK
<1>3. incidents \in Seq(Incident) /\ Incidents = {}
  BY <1>1 DEF Incidents
<1>4. ChecksOK
  BY <1>1, <1>3, IdleTyped DEF ChecksOK
<1>5. NoRequest \in Request /\ NoRequest.status = "none"
  BY DEF NoRequest, Request, SealedHash, Contents
<1>6. RecoveriesOK
  BY <1>1, <1>5 DEF RecoveriesOK, Made
<1>7. RequestsOK
  BY <1>1, <1>5 DEF RequestsOK, Lifecycle, Course, OwnSnapshot, Made
<1> QED BY <1>2, <1>3, <1>4, <1>6, <1>7 DEF GatewayInv, TypeOK, OpenAlone, Resolved

(* A step of a check, of the world outside, or of a recovery.              *)
LEMMA CheckPreserves ==
  ASSUME GatewayInv, CheckResult
  PROVE  GatewayInv'
<1>1. TypeOK /\ RowsOK /\ ChecksOK /\ RecoveriesOK
  BY DEF GatewayInv, TypeOK
<1>2. /\ UNCHANGED <<mode, trail, row, request, event, recoverer, edits>>
      /\ faults' \in 0..MaxFaults /\ (faults > 0 => faults' > 0)
      /\ StampsOK' /\ CheckersOK'
  BY <1>1, SpendInBudget DEF CheckResult
<1>3. RowsOK'
  BY <1>1, <1>2 DEF RowsOK, StampsOK
<1>4. /\ incidents' \in Seq(Incident)
      /\ \A i \in Incidents : i \in Incidents' /\ incidents'[i] = incidents[i]
      /\ OpenAlone'
      /\ \A i \in Incidents' : incidents'[i].status = "RESOLVED" => i \in Incidents
  <2>1. CASE UNCHANGED incidents
    BY <1>1, <2>1 DEF GatewayInv, ChecksOK, OpenAlone, Incidents, IsOpen
  <2>2. CASE Opens
    BY <1>1, <2>2, OpensIncidents DEF GatewayInv
  <2> QED BY <2>1, <2>2 DEF CheckResult
<1>5. ChecksOK'
  BY <1>2, <1>4 DEF ChecksOK, CheckersOK
<1>6. RecoveriesOK'
  <2> HIDE DEF Incidents
  <2> QED BY <1>1, <1>2, <1>4 DEF RecoveriesOK, Made
<1>7. Resolved'
  BY <1>2, <1>4 DEF GatewayInv, Resolved
<1>8. RequestsOK'
  BY <1>2 DEF GatewayInv, RequestsOK, Lifecycle, Course, OwnSnapshot, Made
<1> QED BY <1>3, <1>4, <1>5, <1>6, <1>7, <1>8 DEF GatewayInv, TypeOK

LEMMA RowPreserves ==
  ASSUME GatewayInv, RowResult
  PROVE  GatewayInv'
<1>0. RowsOK /\ ChecksOK /\ RecoveriesOK
  BY DEF GatewayInv, TypeOK
<1>1. RowsOK' /\ ChecksOK' /\ RecoveriesOK'
  <2>1. RowsOK'
    BY <1>0 DEF RowResult, RowsOK
  <2>2. ChecksOK'
    BY <1>0 DEF RowResult, ChecksOK
  <2>3. RecoveriesOK'
    BY <1>0 DEF RowResult, RecoveriesOK, Incidents, Made
  <2> QED BY <2>1, <2>2, <2>3
<1>2. OpenAlone' /\ Resolved'
  BY DEF GatewayInv, RowResult, OpenAlone, Resolved, Incidents, IsOpen
<1>3. RequestsOK'
  BY DEF GatewayInv, RowResult, RequestsOK, Lifecycle, OwnSnapshot, Made
<1> QED BY <1>1, <1>2, <1>3 DEF GatewayInv, TypeOK

LEMMA RecoveryPreserves ==
  ASSUME GatewayInv, NEW q \in Requests, RecoveryResult(q)
  PROVE  GatewayInv'
<1>1. TypeOK /\ RowsOK /\ ChecksOK /\ RecoveriesOK /\ Resolved /\ RequestsOK
  BY DEF GatewayInv, TypeOK
<1>2. /\ UNCHANGED <<mode, trail, checker, edits>>
      /\ row' \in [Logs -> Row] /\ StampsOK'
      /\ faults' \in 0..MaxFaults /\ (faults > 0 => faults' > 0)
  BY <1>1, SpendInBudget DEF RecoveryResult
<1>3. RowsOK'
  BY <1>1, <1>2 DEF RowsOK, StampsOK
<1>4. /\ incidents' \in Seq(Incident) /\ Incidents' = Incidents /\ OpenAlone'
      /\ UNCHANGED incidents \/ Resolves(q)
      /\ \A i \in Incidents : incidents'[i] = incidents[i] \/ (Resolves(q) /\ i = request[q].incident)
  <2>1. CASE UNCHANGED incidents
    BY <1>1, <2>1 DEF GatewayInv, ChecksOK, OpenAlone, Incidents, IsOpen
  <2>2. CASE Resolves(q)
    BY <1>1, <2>2, ResolvesIncident DEF GatewayInv
  <2> QED BY <2>1, <2>2 DEF RecoveryResult
<1>5. ChecksOK'
  BY <1>1, <1>2, <1>4 DEF ChecksOK
<1>6. ASSUME NEW p \in Requests, p # q
      PROVE  /\ request'[p] = request[p] /\ event'[p] = event[p] /\ recoverer'[p] = recoverer[p]
             /\ Made(p)' = Made(p)
             /\ Lifecycle(p)' /\ OwnSnapshot(p)'
  <2>1. request'[p] = request[p] /\ event'[p] = event[p] /\ recoverer'[p] = recoverer[p]
    BY <1>6 DEF RecoveryResult
  <2>2. Lifecycle(p) /\ OwnSnapshot(p)
    BY <1>1 DEF RequestsOK
  <2> QED BY <1>2, <2>1, <2>2 DEF Lifecycle, Course, OwnSnapshot, Made
<1>7. RecoveriesOK'
  <2>1. ASSUME NEW p \in Requests, Made(p)'
        PROVE  request'[p].incident \in Incidents' /\ request'[p].snapshot \in Snapshots
    <3>1. CASE p = q
      BY <1>4, <2>1, <3>1 DEF RecoveryResult
    <3>2. CASE p # q
      BY <1>1, <1>4, <1>6, <2>1, <3>2 DEF RecoveriesOK
    <3> QED BY <3>1, <3>2
  <2>2. /\ request' \in [Requests -> Request] /\ event' \in [Requests -> Results]
        /\ recoverer' \in [Requests -> Phases]
    BY DEF RecoveryResult
  <2> QED BY <2>1, <2>2 DEF RecoveriesOK, Results, Phases
<1>8. Resolved'
  <2> SUFFICES ASSUME NEW i \in Incidents, incidents'[i].status = "RESOLVED"
               PROVE  \E p \in Requests : request'[p].incident = i /\ event'[p] = "SUCCEEDED"
    BY <1>4 DEF Resolved
  <2>1. CASE Resolves(q) /\ i = request[q].incident
    BY <2>1 DEF Resolves
  <2>2. CASE incidents'[i] = incidents[i]
    <3>1. PICK p \in Requests : request[p].incident = i /\ event[p] = "SUCCEEDED"
      BY <1>1, <2>2 DEF Resolved
    <3>2. CASE p = q
      BY <3>1, <3>2 DEF RecoveryResult
    <3>3. CASE p # q
      BY <1>6, <3>1, <3>3
    <3> QED BY <3>2, <3>3
  <2> QED BY <1>4, <2>1, <2>2
<1>9. RequestsOK'
  <2>1. Lifecycle(q)' /\ OwnSnapshot(q)'
    BY DEF RecoveryResult
  <2>2. \A p \in Requests : Lifecycle(p)' /\ OwnSnapshot(p)'
    BY <1>6, <2>1
  <2> QED BY <2>2 DEF RequestsOK
<1> QED BY <1>3, <1>4, <1>5, <1>7, <1>8, <1>9 DEF GatewayInv, TypeOK

(* Spec keeps the invariant: types, one OPEN incident a kind, the course   *)
(* of every request, and a SUCCEEDED event behind every RESOLVED incident. *)
THEOREM GatewayInvariant == Spec => []GatewayInv
<1>1. Init => GatewayInv
  BY InvInit
<1>2. GatewayInv /\ [Next]_vars => GatewayInv'
  <2> SUFFICES ASSUME GatewayInv, [Next]_vars PROVE GatewayInv'
    OBVIOUS
  <2>1. CASE Next
    <3>1. TypeOK /\ RequestsOK
      BY DEF GatewayInv
    <3> QED BY <2>1, <3>1, NextResult, CheckPreserves, RowPreserves, RecoveryPreserves
  <2>2. CASE UNCHANGED vars
    <3>1. /\ RowsOK /\ ChecksOK /\ RecoveriesOK
          /\ UNCHANGED <<mode, trail, row, verdict, order, incidents, request, event>>
          /\ UNCHANGED <<checker, recoverer, edits, faults>>
      BY <2>2 DEF vars, tables, GatewayInv, TypeOK
    <3>2. RowsOK' /\ ChecksOK'
      BY <3>1 DEF RowsOK, ChecksOK
    <3>3. RecoveriesOK'
      BY <3>1 DEF RecoveriesOK, Made, Incidents
    <3>4. OpenAlone' /\ Resolved'
      BY <3>1 DEF GatewayInv, OpenAlone, Resolved, Incidents, IsOpen
    <3>5. RequestsOK'
      BY <3>1 DEF GatewayInv, RequestsOK, Lifecycle, OwnSnapshot, Made
    <3> QED BY <3>2, <3>3, <3>4, <3>5 DEF GatewayInv, TypeOK
  <2> QED BY <2>1, <2>2
<1> QED BY <1>1, <1>2, PTL DEF Spec

(* VALID is said only of rows with full evidence, but for the fallback of  *)
(* single checks on rows of the old format; TAMPERED never of a genuine    *)
(* row; and two paths disagree only through that fallback.                 *)
THEOREM VerdictsAreSound == Spec => []VerdictIsSound
<1>1. GatewayInv => VerdictIsSound
  <2> SUFFICES ASSUME GatewayInv, NEW l \in Logs, NEW reads \in SUBSET AllReads,
                      NEW path \in {"scan", "log", "explorer"}
               PROVE  LET v == Classify(path, row[l], reads).verdict IN
                        /\ v = "VALID" => Genuine(row[l]) \/ (path = "log" /\ LegacyLimited(row[l]))
                        /\ v = "TAMPERED" => ~Genuine(row[l])
                        /\ reads = AllReads /\ ~LegacyLimited(row[l]) =>
                             v = Classify("scan", row[l], reads).verdict
    BY DEF VerdictIsSound
  <2>1. row[l] \in Row
    BY DEF GatewayInv, TypeOK, RowsOK
  <2> QED BY <2>1, ValidIsGenuine, TamperedIsNotGenuine, PathsAgree
<1> QED BY <1>1, GatewayInvariant, PTL

(* However checks and recoveries interleave, a row has at most one OPEN    *)
(* incident of a kind.                                                     *)
THEOREM IncidentsAreNotRepeated == Spec => []OneOpenIncident
<1>1. GatewayInv => OneOpenIncident
  <2> SUFFICES ASSUME GatewayInv, NEW l \in Logs, NEW type \in IncidentTypes
               PROVE  Cardinality(OpenFor(l, type)) <= 1
    BY DEF OneOpenIncident
  <2>1. IsFiniteSet(OpenFor(l, type))
    <3>1. incidents \in Seq(Incident)
      BY DEF GatewayInv, TypeOK, ChecksOK
    <3>2. Incidents = 1..Len(incidents) /\ Len(incidents) \in Nat
      BY <3>1 DEF Incidents
    <3>3. IsFiniteSet(Incidents)
      BY <3>2, FS_Interval
    <3> QED BY <3>3, FS_Subset DEF OpenFor
  <2>2. \A x, y \in OpenFor(l, type) : x = y
    BY DEF GatewayInv, OpenAlone, OpenFor
  <2> QED BY <2>1, <2>2, AtMostOne
<1> QED BY <1>1, GatewayInvariant, PTL

(* A RESOLVED incident has a recovery that says SUCCEEDED, and no request  *)
(* contradicts its event, but for a snapshot recovery whose COMMIT lost    *)
(* its reply.                                                              *)
THEOREM OutcomesFollowEvents == Spec => []OutcomeFollowsEvent
<1>1. GatewayInv => OutcomeFollowsEvent
  <2> SUFFICES ASSUME GatewayInv PROVE OutcomeFollowsEvent
    OBVIOUS
  <2>1. \A i \in Incidents : incidents[i].status = "RESOLVED" =>
          \E q \in Requests : request[q].incident = i /\ event[q] = "SUCCEEDED"
    BY DEF GatewayInv, Resolved
  <2>2. ASSUME NEW q \in Requests
        PROVE  /\ request[q].status \in {"SUCCEEDED", "FAILED"} => event[q] # "none"
               /\ event[q] # "none" =>
                    \/ request[q].status = event[q]
                    \/ mode = "snapshot_legacy" /\ faults > 0 /\ event[q] = "SUCCEEDED"
    <3>1. TypeOK /\ Lifecycle(q)
      BY DEF GatewayInv, RequestsOK
    <3>2. mode \in {"agent_direct", "snapshot_legacy"}
      BY <3>1, RequestTyped
    <3> QED BY <3>1, <3>2 DEF Lifecycle, Course
  <2> QED BY <2>1, <2>2 DEF OutcomeFollowsEvent
<1> QED BY <1>1, GatewayInvariant, PTL

(* The step that records SUCCEEDED has given the row its sealed content,   *)
(* whatever edits came in between; from a snapshot the stored hash too.    *)
THEOREM SuccessRestoresRows == Spec => SucceededIsRestored
<1>1. GatewayInv /\ [Next]_vars =>
        [\A q \in Requests :
           event'[q] = "SUCCEEDED" /\ event[q] # "SUCCEEDED" =>
             /\ ContentHash(row'[LogOf(q)]) = SealedHash
             /\ mode = "snapshot_legacy" => row'[LogOf(q)].hash = SealedHash]_vars
  <2> SUFFICES ASSUME GatewayInv, Next, NEW q \in Requests,
                      event'[q] = "SUCCEEDED", event[q] # "SUCCEEDED"
               PROVE  /\ ContentHash(row'[LogOf(q)]) = SealedHash
                      /\ mode = "snapshot_legacy" => row'[LogOf(q)].hash = SealedHash
    OBVIOUS
  <2>1. TypeOK /\ RequestsOK /\ event \in [Requests -> Results]
    BY DEF GatewayInv, TypeOK, RecoveriesOK, Results
  <2>2. Commit(q)
    <3>1. CASE Checks
      BY <2>1, <3>1, ChecksWrite DEF CheckResult
    <3>2. CASE \E l \in Logs : Edit(l)
      BY <3>2 DEF Edit
    <3>3. CASE \E i \in Incidents : Preflight(i)
      BY <3>3 DEF Preflight
    <3>4. CASE \E p \in Requests : RecoveryStep(p)
      <4>1. PICK p \in Requests : RecoveryStep(p)
        BY <3>4
      <4>2. p = q
        BY <2>1, <4>1, RecoveryWrites DEF RecoveryResult, RequestsOK
      <4>3. \/ UNCHANGED event
            \/ Fail(q) /\ event' = [event EXCEPT ![q] = IF @ = "none" THEN "FAILED" ELSE @]
            \/ GiveUp(q) /\ event' = [event EXCEPT ![q] = "FAILED"]
            \/ Commit(q)
        BY <4>1, <4>2 DEF RecoveryStep, Prepare, InsertRequest, Claim, Load, RollBack, tables,
             Fail, GiveUp, HandlerStops
      <4> QED BY <2>1, <4>3
    <3> QED BY <3>1, <3>2, <3>3, <3>4 DEF Next, Checks, RecoveryStep, Handler
  <2>3. /\ row' = [row EXCEPT ![LogOf(q)] = Restored(q, row[LogOf(q)])]
        /\ Committable(q) /\ recoverer[q] = "commit"
    BY <2>2 DEF Commit
  <2>4. /\ row \in [Logs -> Row] /\ LogOf(q) \in Logs /\ row[LogOf(q)] \in Row
        /\ mode \in {"agent_direct", "snapshot_legacy"}
    <3>1. Made(q)
      BY <2>3 DEF Made
    <3> QED BY <2>1, <3>1, RequestTyped
  <2>5. row'[LogOf(q)] = Restored(q, row[LogOf(q)])
    BY <2>3, <2>4
  <2>6. CASE mode = "agent_direct"
    BY <2>3, <2>5, <2>6 DEF Committable
  <2>7. CASE mode = "snapshot_legacy"
    <3>1. Stored(request[q].snapshot) = "sealed"
      BY <2>1, <2>3, <2>7 DEF RequestsOK, OwnSnapshot, Made, Stored
    <3>2. Restored(q, row[LogOf(q)]) =
            [row[LogOf(q)] EXCEPT !.meta = "sealed", !.rest = "sealed", !.hash = SealedHash,
                                  !.root = "anchor", !.snapshot = request[q].snapshot]
      BY <2>7, <3>1 DEF Restored, SealedHash
    <3> QED BY <2>4, <2>5, <3>2 DEF ContentHash, SealedHash, Row
  <2> QED BY <2>4, <2>6, <2>7
<1> QED BY <1>1, GatewayInvariant, PTL DEF Spec, SucceededIsRestored

-----------------------------------------------------------------------------
(***************************************************************************)
(* The proofs of a batch that a verdict reads: they are built and stored   *)
(* so that every leaf verifies, for batches of any size.                   *)
(***************************************************************************)

(* Sequences of things that have no type, such as nodes.                   *)

Listed(s) == s \in Seq(ToSet(s))

LEMMA AppendListed ==
  ASSUME NEW s, Listed(s), NEW e
  PROVE  /\ Listed(Append(s, e))
         /\ Len(s) \in Nat /\ DOMAIN s = 1..Len(s)
         /\ Len(Append(s, e)) = Len(s) + 1
         /\ DOMAIN Append(s, e) = 1..(Len(s) + 1)
         /\ \A k \in 1..Len(s) : Append(s, e)[k] = s[k]
         /\ Append(s, e)[Len(s) + 1] = e
<1> DEFINE T == ToSet(s) \cup {e}
<1>1. s \in Seq(T) /\ Len(s) \in Nat
  BY DEF Listed
<1>2. Append(s, e) \in Seq(T) /\ Len(Append(s, e)) = Len(s) + 1
  BY <1>1
<1>3. \A k \in 1..Len(s) + 1 : Append(s, e)[k] = IF k <= Len(s) THEN s[k] ELSE e
  BY <1>1
<1>4. \A k \in 1..(Len(s) + 1) : Append(s, e)[k] \in ToSet(Append(s, e))
  BY <1>2 DEF ToSet
<1>5. Listed(Append(s, e))
  BY <1>1, <1>2, <1>4 DEF Listed
<1> QED BY <1>1, <1>2, <1>3, <1>5

LEMMA FunctionListed ==
  ASSUME NEW n \in Nat, NEW s, s = [k \in 1..n |-> s[k]]
  PROVE  Listed(s) /\ Len(s) = n
<1>1. \A k \in 1..n : s[k] \in ToSet(s)
  BY DEF ToSet
<1>2. s \in [1..n -> ToSet(s)]
  BY <1>1
<1> QED BY <1>2 DEF Listed

LEMMA EmptyListed == Listed(<<>>) /\ Len(<<>>) = 0 /\ DOMAIN <<>> = {}
BY DEF Listed, ToSet

(* A set of natural numbers that is not empty has a smallest element.      *)
LEMMA SmallestExists ==
  ASSUME NEW T \in SUBSET Nat, T # {}
  PROVE  \E x \in T : \A y \in T : x <= y
<1> DEFINE R == StrictSubsetOrdering(Nat)
           F == FiniteSubsetsOf(Nat)
           I == {0..x : x \in T}
<1>1. I \subseteq F /\ I # {}
  <2>1. ASSUME NEW x \in T PROVE (0..x) \subseteq Nat /\ IsFiniteSet(0..x)
    BY FS_Interval
  <2> QED BY <2>1 DEF FiniteSubsetsOf
<1>2. IsWellFoundedOn(R, F)
  BY FS_StrictSubsetOrderingWellFounded
<1>3. PICK s \in I : \A t \in I : ~(<<t, s>> \in R)
  <2> HIDE DEF R, F, I
  <2> QED BY <1>1, <1>2, WFMin
<1>4. PICK x \in T : s = 0..x
  OBVIOUS
<1>5. ASSUME NEW y \in T, y < x PROVE FALSE
  <2>1. 0..y \in I /\ 0..y \subseteq 0..x /\ 0..y # 0..x /\ 0..x \subseteq Nat
    BY <1>5
  <2> QED BY <2>1, <1>3, <1>4 DEF StrictSubsetOrdering
<1> QED BY <1>5

-----------------------------------------------------------------------------
(* What ReconstructMerkleRoot computes.                                    *)

Climb(node, step) ==
  IF step.isLeft THEN hashNodes(step.sibling, node) ELSE hashNodes(node, step.sibling)

(* The loop of ReconstructMerkleRoot: the nodes it passes.                 *)
Replays(f, h, path, n) ==
  f = [k \in 0..n |-> IF k = 0 THEN h ELSE Climb(f[k - 1], path[k])]

LEMMA ReconstructIs ==
  ASSUME NEW h, NEW path
  PROVE  ReconstructMerkleRoot(h, path) = (CHOOSE f : Replays(f, h, path, Len(path)))[Len(path)]
BY DEF ReconstructMerkleRoot, Replays, Climb

LEMMA ReplayExtends ==
  ASSUME NEW n \in Nat, NEW f, NEW h, NEW path, Replays(f, h, path, n)
  PROVE  Replays([k \in 0..(n + 1) |-> IF k <= n THEN f[k] ELSE Climb(f[n], path[n + 1])],
                 h, path, n + 1)
<1> DEFINE g == [k \in 0..(n + 1) |-> IF k <= n THEN f[k] ELSE Climb(f[n], path[n + 1])]
<1>1. ASSUME NEW k \in 0..(n + 1)
      PROVE  g[k] = IF k = 0 THEN h ELSE Climb(g[k - 1], path[k])
  <2>1. CASE k <= n
    BY <2>1 DEF Replays
  <2>2. CASE k = n + 1
    <3>1. k # 0 /\ k - 1 = n /\ g[k - 1] = f[n]
      BY <2>2
    <3> QED BY <2>2, <3>1
  <2> QED BY <2>1, <2>2
<1> HIDE DEF g
<1>2. g = [k \in 0..(n + 1) |-> g[k]]
  BY DEF g
<1>3. Replays(g, h, path, n + 1)
  BY <1>1, <1>2 DEF Replays
<1> QED BY <1>3 DEF g

LEMMA ReplayExists ==
  ASSUME NEW n \in Nat, NEW h, NEW path
  PROVE  \E f : Replays(f, h, path, n)
<1> DEFINE T == {m \in Nat : ~ \E f : Replays(f, h, path, m)}
<1> SUFFICES ASSUME T # {} PROVE FALSE
  OBVIOUS
<1>1. PICK m \in T : \A y \in T : m <= y
  BY SmallestExists
<1>2. m # 0
  <2>1. Replays([k \in 0..0 |-> h], h, path, 0)
    BY DEF Replays
  <2> QED BY <2>1
<1>3. m - 1 \in Nat /\ m - 1 \notin T
  BY <1>1, <1>2
<1>4. PICK f : Replays(f, h, path, m - 1)
  BY <1>3
<1>5. \E g : Replays(g, h, path, (m - 1) + 1)
  BY <1>3, <1>4, ReplayExtends
<1>6. (m - 1) + 1 = m
  BY <1>1
<1> QED BY <1>1, <1>5, <1>6

LEMMA ReplayUnique ==
  ASSUME NEW n \in Nat, NEW f, NEW g, NEW h, NEW path,
         Replays(f, h, path, n), Replays(g, h, path, n)
  PROVE  f = g
<1> DEFINE T == {k \in 0..n : f[k] # g[k]}
<1>1. T = {}
  <2> SUFFICES ASSUME T # {} PROVE FALSE
    OBVIOUS
  <2>0. T \in SUBSET Nat
    OBVIOUS
  <2>1. PICK k \in T : \A y \in T : k <= y
    BY <2>0, SmallestExists
  <2>2. k # 0
    BY <2>1 DEF Replays
  <2>3. k - 1 \in 0..n /\ k - 1 \notin T
    BY <2>1, <2>2
  <2>4. f[k - 1] = g[k - 1]
    BY <2>3
  <2>5. f[k] = Climb(f[k - 1], path[k]) /\ g[k] = Climb(g[k - 1], path[k])
    BY <2>1, <2>2 DEF Replays
  <2> QED BY <2>1, <2>4, <2>5
<1>2. f = [k \in 0..n |-> f[k]] /\ g = [k \in 0..n |-> g[k]]
  BY DEF Replays
<1> QED BY <1>1, <1>2

LEMMA ReconstructValue ==
  ASSUME NEW h, NEW path, Len(path) \in Nat, NEW f, Replays(f, h, path, Len(path))
  PROVE  ReconstructMerkleRoot(h, path) = f[Len(path)]
<1>1. Replays(CHOOSE g : Replays(g, h, path, Len(path)), h, path, Len(path))
  OBVIOUS
<1>2. (CHOOSE g : Replays(g, h, path, Len(path))) = f
  BY <1>1, ReplayUnique
<1> QED BY <1>2, ReconstructIs

LEMMA ReconstructEmpty ==
  ASSUME NEW h
  PROVE  ReconstructMerkleRoot(h, <<>>) = h
<1>1. Replays([k \in 0..0 |-> h], h, <<>>, 0)
  BY DEF Replays
<1> QED BY <1>1, ReconstructValue, EmptyListed

(* One step more leads from the node reached so far to its parent.         *)
LEMMA ReconstructAppend ==
  ASSUME NEW h, NEW path, Listed(path), NEW step
  PROVE  ReconstructMerkleRoot(h, Append(path, step)) = Climb(ReconstructMerkleRoot(h, path), step)
<1> DEFINE n == Len(path)  longer == Append(path, step)
<1>1. /\ n \in Nat /\ Len(longer) = n + 1 /\ longer[n + 1] = step
      /\ \A k \in 1..n : longer[k] = path[k]
  BY AppendListed
<1>2. PICK f : Replays(f, h, path, n)
  BY <1>1, ReplayExists
<1>3. Replays(f, h, longer, n)
  BY <1>1, <1>2 DEF Replays
<1> DEFINE g == [k \in 0..(n + 1) |-> IF k <= n THEN f[k] ELSE Climb(f[n], longer[n + 1])]
<1>4. Replays(g, h, longer, n + 1)
  <2> HIDE DEF n, longer
  <2> QED BY <1>1, <1>3, ReplayExtends
<1>5. ReconstructMerkleRoot(h, longer) = g[n + 1]
  <2> HIDE DEF n, longer, g
  <2> QED BY <1>1, <1>4, ReconstructValue
<1>6. g[n + 1] = Climb(f[n], step)
  BY <1>1
<1>7. ReconstructMerkleRoot(h, path) = f[n]
  BY <1>1, <1>2, ReconstructValue
<1> QED BY <1>5, <1>6, <1>7

(* Only sides and siblings matter.                                         *)
LEMMA ReconstructSame ==
  ASSUME NEW h, NEW p, NEW q, Len(p) \in Nat, Len(p) = Len(q),
         \A k \in 1..Len(p) : p[k].isLeft = q[k].isLeft /\ p[k].sibling = q[k].sibling
  PROVE  ReconstructMerkleRoot(h, p) = ReconstructMerkleRoot(h, q)
<1>1. PICK f : Replays(f, h, p, Len(p))
  BY ReplayExists
<1>2. Replays(f, h, q, Len(p))
  BY <1>1 DEF Replays, Climb
<1> QED BY <1>1, <1>2, ReconstructValue

-----------------------------------------------------------------------------
(* The inductive invariant of the loop.                                    *)

Lists ==
  /\ Listed(leaves) /\ Len(leaves) >= 1 /\ \A k \in 1..Len(leaves) : leaves[k] = <<k>>
  /\ Listed(currentLevel) /\ Listed(currentGroups)
  /\ Len(currentGroups) = Len(currentLevel) /\ Len(currentLevel) >= 1
  /\ Listed(nextLevel) /\ Listed(nextGroups) /\ Len(nextGroups) = Len(nextLevel)
  /\ levelIndex \in Nat
  /\ DOMAIN proofs = ToSet(leaves)

(* Where a pass stands: two nodes of a level make one of the next.         *)
LoopOrder ==
  /\ index = 2 * Len(nextLevel) + 1 /\ index <= Len(currentLevel) + 2
  /\ Len(currentLevel) = 1 => Len(nextLevel) = 0
  /\ Len(leaves) = 1 => Len(currentLevel) = 1 /\ levelIndex = 0

(* The proof of a leaf has one step a level, in order.                     *)
InOrder ==
  \A h \in ToSet(leaves) :
    /\ Listed(proofs[h])
    /\ \A k \in 1..Len(proofs[h]) : proofs[h][k].level = k - 1

Unpaired == {j \in 1..Len(currentLevel) : j >= index}

Leads(h, node) == ReconstructMerkleRoot(h, proofs[h]) = node

(* Each leaf is below one node, and its proof leads there; the length of   *)
(* the proof tells whether that node has been paired.                      *)
Placed ==
  /\ \A h \in ToSet(leaves) :
       \/ \E j \in Unpaired : h \in currentGroups[j]
       \/ \E k \in 1..Len(nextLevel) : h \in nextGroups[k]
  /\ \A j \in Unpaired : \A h \in currentGroups[j] :
       h \in ToSet(leaves) /\ Len(proofs[h]) = levelIndex /\ Leads(h, currentLevel[j])
  /\ \A k \in 1..Len(nextLevel) : \A h \in nextGroups[k] :
       h \in ToSet(leaves) /\ Len(proofs[h]) = levelIndex + 1 /\ Leads(h, nextLevel[k])
  /\ \A j, k \in Unpaired : j # k => currentGroups[j] \cap currentGroups[k] = {}
  /\ \A j, k \in 1..Len(nextLevel) : j # k => nextGroups[j] \cap nextGroups[k] = {}

(* The row that stands for step k of the proof of a leaf.                  *)
RowOf(h, k) ==
  [leaf |-> h, sibling |-> proofs[h][k].sibling, isLeft |-> proofs[h][k].isLeft,
   level |-> proofs[h][k].level]

RowsAreSteps ==
  \A r : r \in rows <=> \E h \in ToSet(leaves) : \E k \in 1..Len(proofs[h]) : r = RowOf(h, k)

RowsKept == rows # {} => Len(currentLevel) = 1 /\ RowsAreSteps

TreeInv == Lists /\ LoopOrder /\ InOrder /\ Placed /\ RowsKept

LEMMA TreeInit == InitTree => TreeInv
<1> SUFFICES ASSUME InitTree PROVE TreeInv
  OBVIOUS
<1>1. PICK n \in 1..MaxLeaves : leaves = [k \in 1..n |-> <<k>>]
  BY DEF InitTree
<1>2. /\ n \in Nat /\ n >= 1 /\ DOMAIN leaves = 1..n /\ leaves \in Seq(ToSet(leaves)) /\ Len(leaves) = n
  BY <1>1, LeavesAssumption DEF ToSet
<1>3. /\ currentLevel = leaves /\ currentGroups = [k \in 1..n |-> {leaves[k]}]
      /\ nextLevel = <<>> /\ nextGroups = <<>> /\ levelIndex = 0 /\ index = 1 /\ rows = {}
      /\ proofs = [h \in ToSet(leaves) |-> <<>>]
  BY <1>2 DEF InitTree
<1>4. currentGroups \in Seq(ToSet(currentGroups)) /\ Len(currentGroups) = n
  <2>1. currentGroups = [k \in 1..n |-> currentGroups[k]]
    BY <1>3
  <2> QED BY <1>2, <2>1, FunctionListed DEF Listed
<1>5. Lists
  BY <1>1, <1>2, <1>3, <1>4, EmptyListed DEF Lists, Listed
<1>6. LoopOrder
  <2>1. Len(nextLevel) = 0 /\ Len(currentLevel) = n
    BY <1>2, <1>3, EmptyListed
  <2> QED BY <1>2, <1>3, <2>1 DEF LoopOrder
<1>7. InOrder
  BY <1>3, EmptyListed DEF InOrder
<1>8. RowsKept
  BY <1>3 DEF RowsKept
<1>9. Placed
  <2>1. Unpaired = 1..n /\ Len(nextLevel) = 0
    BY <1>2, <1>3, EmptyListed DEF Unpaired
  <2>2. \A h \in ToSet(leaves) : Len(proofs[h]) = 0 /\ Leads(h, h)
    BY <1>3, ReconstructEmpty, EmptyListed DEF Leads
  <2>3. \A j, k \in 1..n : j # k => leaves[j] # leaves[k]
    BY <1>1
  <2>4. \A h : h \in ToSet(leaves) <=> \E k \in 1..n : h = leaves[k]
    BY <1>2 DEF ToSet
  <2>5. \A k \in 1..n : currentGroups[k] = {leaves[k]} /\ currentLevel[k] = leaves[k]
    BY <1>3
  <2>6. 1..Len(nextLevel) = {} /\ levelIndex = 0
    BY <1>3, <2>1
  <2>7. \A h \in ToSet(leaves) : \E j \in Unpaired : h \in currentGroups[j]
    BY <2>1, <2>4, <2>5
  <2>8. \A j \in Unpaired : \A h \in currentGroups[j] :
          h \in ToSet(leaves) /\ Len(proofs[h]) = levelIndex /\ Leads(h, currentLevel[j])
    BY <2>1, <2>2, <2>4, <2>5, <2>6
  <2>9. \A j, k \in Unpaired : j # k => currentGroups[j] \cap currentGroups[k] = {}
    BY <2>1, <2>3, <2>5
  <2> QED BY <2>6, <2>7, <2>8, <2>9 DEF Placed
<1> QED BY <1>5, <1>6, <1>7, <1>8, <1>9 DEF TreeInv

(* A leaf whose proof has got the step of this level.                      *)
Stepped(h, sibling, isLeft) ==
  proofs'[h] = Append(proofs[h], [sibling |-> sibling, isLeft |-> isLeft, level |-> levelIndex])

LEMMA SteppedIs ==
  ASSUME NEW h \in ToSet(leaves), Lists, InOrder, Len(proofs[h]) = levelIndex,
         NEW sibling, NEW isLeft, Stepped(h, sibling, isLeft), NEW node, Leads(h, node)
  PROVE  /\ Listed(proofs'[h]) /\ Len(proofs'[h]) = levelIndex + 1
         /\ \A k \in 1..Len(proofs'[h]) : proofs'[h][k].level = k - 1
         /\ isLeft = TRUE => ReconstructMerkleRoot(h, proofs'[h]) = hashNodes(sibling, node)
         /\ isLeft = FALSE => ReconstructMerkleRoot(h, proofs'[h]) = hashNodes(node, sibling)
<1> DEFINE step == [sibling |-> sibling, isLeft |-> isLeft, level |-> levelIndex]
<1>1. Listed(proofs[h]) /\ proofs'[h] = Append(proofs[h], step) /\ levelIndex \in Nat
  BY DEF InOrder, Stepped, Lists
<1>2. /\ Listed(proofs'[h]) /\ Len(proofs'[h]) = levelIndex + 1
      /\ \A k \in 1..levelIndex : proofs'[h][k] = proofs[h][k]
      /\ proofs'[h][levelIndex + 1] = step
  BY <1>1, AppendListed
<1>3. \A k \in 1..Len(proofs'[h]) : proofs'[h][k].level = k - 1
  <2>1. \A k \in 1..levelIndex : proofs'[h][k].level = k - 1
    BY <1>2 DEF InOrder
  <2> QED BY <1>1, <1>2, <2>1
<1>4. ReconstructMerkleRoot(h, proofs'[h]) = Climb(node, step)
  BY <1>1, ReconstructAppend DEF Leads
<1> QED BY <1>2, <1>3, <1>4 DEF Climb

(* While there are nodes to pair, nothing is stored.                       *)
LEMMA NothingStored ==
  ASSUME TreeInv, Len(currentLevel) > 1
  PROVE  ~(Len(currentLevel) = 1) /\ rows = {} /\ ~(Len(leaves) = 1)
<1>1. ~(Len(currentLevel) = 1)
  OBVIOUS
<1> QED BY <1>1, Zenon DEF TreeInv, RowsKept, LoopOrder

(* A parent is put on the next level: the proofs of the leaves below it    *)
(* lead to it now, those of the other leaves do not change.                *)
LEMMA ParentAdded ==
  ASSUME TreeInv, NEW g, NEW node,
         Len(currentLevel) > 1, index <= Len(currentLevel), index' = index + 2,
         nextLevel' = Append(nextLevel, node), nextGroups' = Append(nextGroups, g),
         UNCHANGED <<leaves, currentLevel, currentGroups, levelIndex, rows>>,
         DOMAIN proofs' = DOMAIN proofs,
         \A h : h \in g <=> \E j \in Unpaired : j < index + 2 /\ h \in currentGroups[j],
         \A h \in g : /\ Listed(proofs'[h]) /\ Len(proofs'[h]) = levelIndex + 1
                      /\ \A k \in 1..Len(proofs'[h]) : proofs'[h][k].level = k - 1
                      /\ ReconstructMerkleRoot(h, proofs'[h]) = node,
         \A h \in ToSet(leaves) \ g : proofs'[h] = proofs[h]
  PROVE  TreeInv'
<1>0. Lists /\ LoopOrder /\ InOrder /\ Placed /\ RowsKept
  BY DEF TreeInv
<1> DEFINE n == Len(nextLevel)
<1>1. /\ n \in Nat /\ Len(nextGroups) = n /\ Len(nextLevel') = n + 1 /\ Len(nextGroups') = n + 1
      /\ Listed(nextLevel') /\ Listed(nextGroups')
      /\ \A k \in 1..n : nextLevel'[k] = nextLevel[k] /\ nextGroups'[k] = nextGroups[k]
      /\ nextLevel'[n + 1] = node /\ nextGroups'[n + 1] = g
  <2>1. Listed(nextLevel) /\ Listed(nextGroups) /\ Len(nextGroups) = n
    BY <1>0 DEF Lists
  <2> QED BY <2>1, AppendListed
<1>2. Lists'
  <2>1. Len(nextLevel') = Len(nextGroups')
    BY <1>1
  <2>2. ToSet(leaves)' = ToSet(leaves) /\ Listed(leaves)' = Listed(leaves)
        /\ Listed(currentLevel)' = Listed(currentLevel) /\ Listed(currentGroups)' = Listed(currentGroups)
    BY DEF ToSet, Listed
  <2>3. Listed(nextLevel)' /\ Listed(nextGroups)'
    BY <1>1 DEF Listed, ToSet
  <2> QED BY <1>0, <2>1, <2>2, <2>3 DEF Lists
<1>3. Len(currentLevel) \in Nat /\ index \in Nat /\ levelIndex \in Nat
  BY <1>0, <1>1 DEF LoopOrder, Lists, Listed
<1>4. LoopOrder'
  <2>1. index = 2 * n + 1
    BY <1>0 DEF LoopOrder
  <2>2. index' = 2 * Len(nextLevel') + 1 /\ index' <= Len(currentLevel) + 2
    BY <1>1, <1>3, <2>1
  <2>3. ~(Len(currentLevel') = 1) /\ ~(Len(leaves') = 1) /\ currentLevel' = currentLevel
    BY NothingStored, Zenon
  <2> QED BY <2>2, <2>3 DEF LoopOrder
<1>5. ToSet(leaves)' = ToSet(leaves)
  BY DEF ToSet
<1>7. Unpaired' = {j \in Unpaired : j >= index + 2}
  BY <1>3 DEF Unpaired
<1>8. \A j \in Unpaired : j < index + 2 \/ j \in Unpaired'
  BY <1>3, <1>7 DEF Unpaired
<1>9. \A h \in g : h \in ToSet(leaves) /\ Len(proofs[h]) = levelIndex
  BY <1>0 DEF Placed
<1>6. InOrder'
  BY <1>0, <1>5 DEF InOrder
<1>10. \A k \in 1..n : \A h \in nextGroups[k] : h \in ToSet(leaves) \ g
  BY <1>0, <1>3, <1>9 DEF Placed
<1>11. \A j \in Unpaired' : \A h \in currentGroups[j] : h \in ToSet(leaves) \ g
  <2> SUFFICES ASSUME NEW j \in Unpaired', NEW h \in currentGroups[j], h \in g PROVE FALSE
    BY <1>0, <1>7 DEF Placed
  <2>1. PICK k \in Unpaired : k < index + 2 /\ h \in currentGroups[k]
    OBVIOUS
  <2>2. j \in Unpaired /\ j # k
    BY <1>3, <1>7, <2>1 DEF Unpaired
  <2> QED BY <1>0, <2>1, <2>2 DEF Placed
<1>12. \A k \in 1..(n + 1) : k \in 1..n \/ k = n + 1
  BY <1>1
<1>13. Placed'
  <2>1. ASSUME NEW h \in ToSet(leaves)
        PROVE  \/ \E j \in Unpaired' : h \in currentGroups[j]
               \/ \E k \in 1..(n + 1) : h \in nextGroups'[k]
    <3>1. CASE \E j \in Unpaired : h \in currentGroups[j]
      <4>1. h \in g \/ \E j \in Unpaired' : h \in currentGroups[j]
        BY <1>8, <3>1
      <4>2. n + 1 \in 1..(n + 1)
        BY <1>1
      <4> QED BY <1>1, <4>1, <4>2
    <3>2. CASE \E k \in 1..n : h \in nextGroups[k]
      BY <1>1, <3>2
    <3> QED BY <1>0, <3>1, <3>2 DEF Placed
  <2>2. ASSUME NEW j \in Unpaired', NEW h \in currentGroups[j]
        PROVE  h \in ToSet(leaves) /\ Len(proofs'[h]) = levelIndex /\ Leads(h, currentLevel[j])'
    BY <1>0, <1>7, <1>11 DEF Placed, Leads
  <2>3. ASSUME NEW k \in 1..(n + 1), NEW h \in nextGroups'[k]
        PROVE  /\ h \in ToSet(leaves) /\ Len(proofs'[h]) = levelIndex + 1
               /\ Leads(h, nextLevel[k])'
    <3>1. CASE k \in 1..n
      BY <1>0, <1>1, <1>10, <3>1 DEF Placed, Leads
    <3>2. CASE k = n + 1
      BY <1>1, <1>9, <3>2 DEF Leads
    <3> QED BY <1>12, <3>1, <3>2
  <2>4. ASSUME NEW j \in Unpaired', NEW k \in Unpaired', j # k
        PROVE  currentGroups[j] \cap currentGroups[k] = {}
    BY <1>0, <1>7, <2>4 DEF Placed
  <2>5. ASSUME NEW j \in 1..(n + 1), NEW k \in 1..(n + 1), j # k
        PROVE  nextGroups'[j] \cap nextGroups'[k] = {}
    <3>1. CASE j \in 1..n /\ k \in 1..n
      <4>1. nextGroups'[j] = nextGroups[j] /\ nextGroups'[k] = nextGroups[k]
        BY <1>1, <3>1
      <4> QED BY <1>0, <2>5, <3>1, <4>1 DEF Placed
    <3>2. CASE j = n + 1 \/ k = n + 1
      BY <1>1, <1>10, <1>12, <2>5, <3>2
    <3> QED BY <1>12, <3>1, <3>2
  <2> QED BY <1>1, <1>5, <2>1, <2>2, <2>3, <2>4, <2>5 DEF Placed
<1>14. RowsKept'
  <2>1. rows' = {}
    BY NothingStored, Zenon
  <2> QED BY <2>1 DEF RowsKept
<1> QED BY <1>2, <1>4, <1>6, <1>13, <1>14 DEF TreeInv

LEMMA NodeTyped ==
  ASSUME TreeInv, index <= Len(currentLevel)
  PROVE  /\ index \in Unpaired /\ index \in Nat /\ Len(currentLevel) \in Nat
         /\ \A j \in Unpaired : j >= index /\ j \in Nat /\ j <= Len(currentLevel)
BY DEF TreeInv, Lists, Listed, LoopOrder, Unpaired

LEMMA PairSelfKeeps == TreeInv /\ PairWithSelf => TreeInv'
<1> SUFFICES ASSUME TreeInv, PairWithSelf PROVE TreeInv'
  OBVIOUS
<1> DEFINE left == currentLevel[index]  g == currentGroups[index]
<1>1. /\ index = Len(currentLevel) /\ Len(currentLevel) > 1 /\ index' = index + 2
      /\ proofs' = AddStep(proofs, g, left, FALSE)
      /\ nextLevel' = Append(nextLevel, hashNodes(left, left)) /\ nextGroups' = Append(nextGroups, g)
      /\ UNCHANGED <<leaves, currentLevel, currentGroups, levelIndex, rows>>
  BY DEF PairWithSelf
<1>2. /\ index <= Len(currentLevel) /\ index \in Unpaired
      /\ \A j \in Unpaired : j = index
  <2>1. Len(currentLevel) \in Nat
    BY DEF TreeInv, Lists, Listed
  <2>2. index <= Len(currentLevel)
    BY <1>1, <2>1
  <2> QED BY <1>1, <2>2, NodeTyped
<1>3. \A h : h \in g <=> \E j \in Unpaired : j < index + 2 /\ h \in currentGroups[j]
  BY <1>2, NodeTyped
<1>4. DOMAIN proofs' = DOMAIN proofs /\ DOMAIN proofs = ToSet(leaves)
  BY <1>1 DEF AddStep, TreeInv, Lists
<1>5. \A h \in g : h \in ToSet(leaves) /\ Len(proofs[h]) = levelIndex /\ Leads(h, left)
  BY <1>2 DEF TreeInv, Placed
<1>6. \A h \in g : Stepped(h, left, FALSE)
  BY <1>1, <1>4, <1>5 DEF Stepped, AddStep
<1>7. \A h \in ToSet(leaves) \ g : proofs'[h] = proofs[h]
  BY <1>1, <1>4 DEF AddStep
<1>8. \A h \in g : /\ Listed(proofs'[h]) /\ Len(proofs'[h]) = levelIndex + 1
                   /\ \A k \in 1..Len(proofs'[h]) : proofs'[h][k].level = k - 1
                   /\ ReconstructMerkleRoot(h, proofs'[h]) = hashNodes(left, left)
  <2> HIDE DEF left, g
  <2>1. Lists /\ InOrder
    BY DEF TreeInv
  <2>2. ASSUME NEW h \in g
        PROVE  /\ Listed(proofs'[h]) /\ Len(proofs'[h]) = levelIndex + 1
               /\ \A k \in 1..Len(proofs'[h]) : proofs'[h][k].level = k - 1
               /\ ReconstructMerkleRoot(h, proofs'[h]) = hashNodes(left, left)
    <3>1. Stepped(h, left, FALSE) /\ Leads(h, left) /\ h \in ToSet(leaves) /\ Len(proofs[h]) = levelIndex
      BY <1>5, <1>6
    <3> QED BY <2>1, <3>1, SteppedIs
  <2> QED BY <2>2
<1> HIDE DEF left, g
<1> QED BY <1>1, <1>2, <1>3, <1>4, <1>7, <1>8, ParentAdded

LEMMA PairKeeps == TreeInv /\ PairNodes => TreeInv'
<1> SUFFICES ASSUME TreeInv, PairNodes PROVE TreeInv'
  OBVIOUS
<1> DEFINE left == currentLevel[index]      right == currentLevel[index + 1]
           leftGroup == currentGroups[index]  rightGroup == currentGroups[index + 1]
           g == leftGroup \cup rightGroup
           middle == AddStep(proofs, leftGroup, right, FALSE)
<1>1. /\ index < Len(currentLevel) /\ Len(currentLevel) > 1 /\ index' = index + 2
      /\ proofs' = AddStep(middle, rightGroup, left, TRUE)
      /\ nextLevel' = Append(nextLevel, hashNodes(left, right))
      /\ nextGroups' = Append(nextGroups, g)
      /\ UNCHANGED <<leaves, currentLevel, currentGroups, levelIndex, rows>>
  BY DEF PairNodes
<1>2. /\ index <= Len(currentLevel) /\ index \in Nat /\ Len(currentLevel) \in Nat
      /\ index \in Unpaired /\ index + 1 \in Unpaired
      /\ \A j \in Unpaired : j < index + 2 => j = index \/ j = index + 1
  <2>1. index \in Nat /\ Len(currentLevel) \in Nat /\ index >= 1
    BY DEF TreeInv, Lists, Listed, LoopOrder
  <2>2. index <= Len(currentLevel)
    BY <1>1, <2>1
  <2> QED BY <1>1, <2>1, <2>2 DEF Unpaired
<1>3. \A h : h \in g <=> \E j \in Unpaired : j < index + 2 /\ h \in currentGroups[j]
  <2>1. index < index + 2 /\ index + 1 < index + 2
    BY <1>2
  <2> QED BY <1>2, <2>1
<1>4. /\ DOMAIN proofs' = DOMAIN proofs /\ DOMAIN proofs = ToSet(leaves)
      /\ DOMAIN middle = DOMAIN proofs
  BY <1>1 DEF AddStep, TreeInv, Lists
<1>5. /\ \A h \in leftGroup : h \in ToSet(leaves) /\ Len(proofs[h]) = levelIndex /\ Leads(h, left)
      /\ \A h \in rightGroup : h \in ToSet(leaves) /\ Len(proofs[h]) = levelIndex /\ Leads(h, right)
  BY <1>2 DEF TreeInv, Placed
<1>6. leftGroup \cap rightGroup = {}
  <2>1. index # index + 1
    BY <1>2
  <2> QED BY <1>2, <2>1 DEF TreeInv, Placed
<1>7. ASSUME NEW h \in ToSet(leaves)
      PROVE  proofs'[h] = IF h \in rightGroup
                          THEN Append(middle[h], [sibling |-> left, isLeft |-> TRUE, level |-> levelIndex])
                          ELSE middle[h]
  <2> HIDE DEF middle, left, rightGroup
  <2> QED BY <1>1, <1>4 DEF AddStep
<1>8. ASSUME NEW h \in ToSet(leaves)
      PROVE  middle[h] = IF h \in leftGroup
                         THEN Append(proofs[h], [sibling |-> right, isLeft |-> FALSE, level |-> levelIndex])
                         ELSE proofs[h]
  BY <1>4 DEF AddStep
<1> HIDE DEF middle
<1>9. /\ \A h \in leftGroup : Stepped(h, right, FALSE)
      /\ \A h \in rightGroup : Stepped(h, left, TRUE)
      /\ \A h \in ToSet(leaves) \ g : proofs'[h] = proofs[h]
  BY <1>5, <1>6, <1>7, <1>8 DEF Stepped
<1>10. \A h \in g : /\ Listed(proofs'[h]) /\ Len(proofs'[h]) = levelIndex + 1
                    /\ \A k \in 1..Len(proofs'[h]) : proofs'[h][k].level = k - 1
                    /\ ReconstructMerkleRoot(h, proofs'[h]) = hashNodes(left, right)
  <2> HIDE DEF left, right, leftGroup, rightGroup
  <2>0. Lists /\ InOrder
    BY DEF TreeInv
  <2>1. ASSUME NEW h \in leftGroup
        PROVE  /\ Listed(proofs'[h]) /\ Len(proofs'[h]) = levelIndex + 1
               /\ \A k \in 1..Len(proofs'[h]) : proofs'[h][k].level = k - 1
               /\ ReconstructMerkleRoot(h, proofs'[h]) = hashNodes(left, right)
    BY <1>5, <1>9, <2>0, SteppedIs
  <2>2. ASSUME NEW h \in rightGroup
        PROVE  /\ Listed(proofs'[h]) /\ Len(proofs'[h]) = levelIndex + 1
               /\ \A k \in 1..Len(proofs'[h]) : proofs'[h][k].level = k - 1
               /\ ReconstructMerkleRoot(h, proofs'[h]) = hashNodes(left, right)
    <3>1. Stepped(h, left, TRUE) /\ Leads(h, right) /\ h \in ToSet(leaves) /\ Len(proofs[h]) = levelIndex
      BY <1>5, <1>9
    <3> QED BY <2>0, <3>1, SteppedIs
  <2> QED BY <2>1, <2>2
<1> HIDE DEF left, right, leftGroup, rightGroup, g
<1> QED BY <1>1, <1>2, <1>3, <1>4, <1>9, <1>10, ParentAdded

LEMMA NextLevelKeeps == TreeInv /\ NextLevel => TreeInv'
<1> SUFFICES ASSUME TreeInv, NextLevel PROVE TreeInv'
  OBVIOUS
<1>0. Lists /\ LoopOrder /\ InOrder /\ Placed /\ RowsKept
  BY DEF TreeInv
<1>1. /\ Len(currentLevel) > 1 /\ index > Len(currentLevel)
      /\ currentLevel' = nextLevel /\ currentGroups' = nextGroups
      /\ nextLevel' = <<>> /\ nextGroups' = <<>>
      /\ levelIndex' = levelIndex + 1 /\ index' = 1
      /\ UNCHANGED <<leaves, proofs, rows>>
  BY DEF NextLevel
<1>2. /\ Len(currentLevel) \in Nat /\ Len(nextLevel) \in Nat /\ levelIndex \in Nat
      /\ Len(nextLevel) >= 1 /\ Unpaired = {}
      /\ Len(nextLevel') = 0 /\ Len(nextGroups') = 0 /\ Listed(<<>>)
  BY <1>0, <1>1, EmptyListed DEF Lists, Listed, LoopOrder, Unpaired
<1>3. Unpaired' = 1..Len(nextLevel)
  BY <1>1, <1>2 DEF Unpaired
<1>4. Lists'
  BY <1>0, <1>1, <1>2 DEF Lists, Listed, ToSet
<1>5. LoopOrder'
  BY <1>0, <1>1, <1>2 DEF LoopOrder
<1>6. ToSet(leaves)' = ToSet(leaves)
  BY <1>1 DEF ToSet
<1>7. InOrder'
  BY <1>0, <1>1, <1>6 DEF InOrder
<1>8. Placed'
  <2>1. \A h \in ToSet(leaves) : \E k \in Unpaired' : h \in nextGroups[k]
    BY <1>0, <1>2, <1>3 DEF Placed
  <2>2. \A k \in Unpaired' : \A h \in nextGroups[k] :
          h \in ToSet(leaves) /\ Len(proofs[h]) = levelIndex + 1 /\ Leads(h, nextLevel[k])
    BY <1>0, <1>3 DEF Placed
  <2>3. \A j, k \in Unpaired' : j # k => nextGroups[j] \cap nextGroups[k] = {}
    BY <1>0, <1>3 DEF Placed
  <2>4. 1..Len(nextLevel') = {}
    BY <1>2
  <2> QED BY <1>1, <1>6, <2>1, <2>2, <2>3, <2>4 DEF Placed, Leads
<1>9. RowsKept'
  <2>1. rows' = {}
    BY <1>1, NothingStored, Zenon
  <2> QED BY <2>1 DEF RowsKept
<1> QED BY <1>4, <1>5, <1>7, <1>8, <1>9 DEF TreeInv

LEMMA StoreKeeps == TreeInv /\ StoreProofs => TreeInv'
<1> SUFFICES ASSUME TreeInv, StoreProofs PROVE TreeInv'
  OBVIOUS
<1>1. /\ Len(currentLevel) = 1
      /\ rows' = UNION {{[leaf |-> h, sibling |-> s.sibling, isLeft |-> s.isLeft, level |-> s.level]
                           : s \in ToSet(proofs[h])} : h \in DOMAIN proofs}
      /\ UNCHANGED <<leaves, currentLevel, currentGroups, nextLevel, nextGroups, proofs, levelIndex, index>>
  BY DEF StoreProofs
<1>2. \A h \in ToSet(leaves) : DOMAIN proofs[h] = 1..Len(proofs[h])
  BY DEF TreeInv, InOrder, Listed
<1>3. ASSUME NEW r
      PROVE  r \in rows' <=> \E h \in ToSet(leaves) : \E k \in 1..Len(proofs[h]) : r = RowOf(h, k)
  <2>1. r \in rows' <=> \E h \in DOMAIN proofs : \E s \in ToSet(proofs[h]) :
          r = [leaf |-> h, sibling |-> s.sibling, isLeft |-> s.isLeft, level |-> s.level]
    BY <1>1
  <2>2. DOMAIN proofs = ToSet(leaves)
    BY DEF TreeInv, Lists
  <2>3. \A h \in ToSet(leaves) : \A s :
          s \in ToSet(proofs[h]) <=> \E k \in 1..Len(proofs[h]) : s = proofs[h][k]
    BY <1>2 DEF ToSet
  <2> QED BY <2>1, <2>2, <2>3 DEF RowOf
<1>4. Lists' /\ LoopOrder' /\ InOrder' /\ Placed'
  <2>1. Lists'
    BY <1>1 DEF TreeInv, Lists, Listed, ToSet
  <2>2. LoopOrder'
    BY <1>1 DEF TreeInv, LoopOrder
  <2>3. InOrder' /\ Placed'
    <3>1. /\ leaves' = leaves /\ currentLevel' = currentLevel /\ currentGroups' = currentGroups
          /\ nextLevel' = nextLevel /\ nextGroups' = nextGroups /\ proofs' = proofs
          /\ levelIndex' = levelIndex /\ index' = index
      BY <1>1
    <3>2. /\ ToSet(leaves)' = ToSet(leaves) /\ Unpaired' = Unpaired
          /\ \A h, node : Leads(h, node)' = Leads(h, node)
      BY <3>1 DEF ToSet, Unpaired, Leads
    <3>3. InOrder /\ Placed
      BY DEF TreeInv
    <3>4. InOrder'
      BY <3>1, <3>2, <3>3 DEF InOrder
    <3>5. Placed'
      BY <3>1, <3>2, <3>3, Zenon DEF Placed
    <3> QED BY <3>4, <3>5
  <2> QED BY <2>1, <2>2, <2>3
<1>5. \A h, k : RowOf(h, k)' = RowOf(h, k)
  BY <1>1 DEF RowOf
<1>6. ToSet(leaves)' = ToSet(leaves)
  BY <1>1 DEF ToSet
<1>7. RowsKept'
  <2>1. RowsAreSteps'
    BY <1>1, <1>3, <1>5, <1>6 DEF RowsAreSteps
  <2> QED BY <1>1, <2>1 DEF RowsKept
<1> QED BY <1>4, <1>7 DEF TreeInv

(* The invariant of the loop, for a batch of any size.                     *)
THEOREM TreeInvariant == TreeSpec => []TreeInv
<1>1. ASSUME TreeInv, [BuildStep]_treeVars PROVE TreeInv'
  <2>1. CASE PairNodes
    BY <1>1, <2>1, PairKeeps
  <2>2. CASE PairWithSelf
    BY <1>1, <2>2, PairSelfKeeps
  <2>3. CASE NextLevel
    BY <1>1, <2>3, NextLevelKeeps
  <2>4. CASE StoreProofs
    BY <1>1, <2>4, StoreKeeps
  <2>5. CASE UNCHANGED treeVars
    <3>1. /\ leaves' = leaves /\ currentLevel' = currentLevel /\ currentGroups' = currentGroups
          /\ nextLevel' = nextLevel /\ nextGroups' = nextGroups /\ proofs' = proofs
          /\ levelIndex' = levelIndex /\ index' = index /\ rows' = rows
      BY <2>5 DEF treeVars
    <3>2. /\ ToSet(leaves)' = ToSet(leaves) /\ Unpaired' = Unpaired
          /\ \A h, node : Leads(h, node)' = Leads(h, node)
          /\ \A h, k : RowOf(h, k)' = RowOf(h, k)
      BY <3>1 DEF ToSet, Unpaired, Leads, RowOf
    <3>3. Lists /\ LoopOrder /\ InOrder /\ Placed /\ RowsKept
      BY <1>1 DEF TreeInv
    <3>4. Lists'
      BY <3>1, <3>3 DEF Lists, Listed, ToSet
    <3>5. LoopOrder'
      BY <3>1, <3>3 DEF LoopOrder
    <3>6. InOrder'
      BY <3>1, <3>2, <3>3 DEF InOrder
    <3>7. Placed'
      BY <3>1, <3>2, <3>3, Zenon DEF Placed
    <3>8. RowsKept'
      <4>1. RowsAreSteps' = RowsAreSteps
        BY <3>1, <3>2 DEF RowsAreSteps
      <4> QED BY <3>1, <3>3, <4>1 DEF RowsKept
    <3> QED BY <3>4, <3>5, <3>6, <3>7, <3>8 DEF TreeInv
  <2> QED BY <1>1, <2>1, <2>2, <2>3, <2>4, <2>5 DEF BuildStep
<1> QED BY TreeInit, <1>1, PTL DEF TreeSpec

LEMMA InvReaches == TreeInv => ProofReachesItsNode
<1> SUFFICES ASSUME TreeInv, NEW h \in ToSet(leaves)
             PROVE  \E n \in Built \cup ToPair : h \in n[2] /\ ReconstructMerkleRoot(h, proofs[h]) = n[1]
  BY DEF ProofReachesItsNode
<1>1. DOMAIN currentLevel = 1..Len(currentLevel) /\ DOMAIN nextLevel = 1..Len(nextLevel)
  BY DEF TreeInv, Lists, Listed
<1>2. Placed
  BY DEF TreeInv
<1>3. CASE \E j \in Unpaired : h \in currentGroups[j]
  <2>1. PICK j \in Unpaired : h \in currentGroups[j]
    BY <1>3
  <2>2. <<currentLevel[j], currentGroups[j]>> \in ToPair
    BY <1>1 DEF ToPair, Unpaired
  <2>3. ReconstructMerkleRoot(h, proofs[h]) = currentLevel[j]
    BY <1>2, <2>1 DEF Placed, Leads
  <2> QED BY <2>1, <2>2, <2>3
<1>4. CASE \E k \in 1..Len(nextLevel) : h \in nextGroups[k]
  <2>1. PICK k \in 1..Len(nextLevel) : h \in nextGroups[k]
    BY <1>4
  <2>2. <<nextLevel[k], nextGroups[k]>> \in Built
    BY <1>1 DEF Built
  <2>3. ReconstructMerkleRoot(h, proofs[h]) = nextLevel[k]
    BY <1>2, <2>1 DEF Placed, Leads
  <2> QED BY <2>1, <2>2, <2>3
<1> QED BY <1>2, <1>3, <1>4 DEF Placed

(* At every point of BuildMerkleTree the proof collected for a leaf leads  *)
(* exactly to the node the leaf is under.                                  *)
THEOREM ProofsReach == TreeSpec => []ProofReachesItsNode
BY TreeInvariant, InvReaches, PTL

-----------------------------------------------------------------------------
(* Reading the proof of a leaf back from the rows.                         *)

(* The query returns the rows in the order of their levels, and since no   *)
(* two are of one level there is only one such order.                      *)
LEMMA LoadedIs ==
  ASSUME NEW h, NEW n \in Nat, NEW g, g = [k \in 1..n |-> g[k]],
         \A r : r \in rows /\ r.leaf = h <=> \E k \in 1..n : r = g[k],
         \A k \in 1..n : g[k].level = k - 1
  PROVE  Len(LoadProofs(h)) = n /\ \A k \in 1..n : LoadProofs(h)[k] = g[k]
<1> DEFINE stored == {r \in rows : r.leaf = h}
           Sorted(path) == /\ \A r \in stored : \E k \in 1..n : path[k] = r
                           /\ \A j, k \in 1..n : j < k => path[j].level <= path[k].level
           path == LoadProofs(h)
<1>0. IsFiniteSet(1..n) /\ Cardinality(1..n) = n
  BY FS_Interval
<1>1. \A r : r \in stored <=> \E k \in 1..n : r = g[k]
  OBVIOUS
<1>2. Cardinality(stored) = n
  <2> HIDE DEF stored
  <2>1. g \in [1..n -> stored]
    BY <1>1
  <2>2. \A j, k \in 1..n : g[j] = g[k] => j = k
    <3> SUFFICES ASSUME NEW j \in 1..n, NEW k \in 1..n, g[j] = g[k] PROVE j = k
      OBVIOUS
    <3>1. g[j].level = j - 1 /\ g[k].level = k - 1
      OBVIOUS
    <3> QED BY <3>1
  <2>3. \A r \in stored : \E k \in 1..n : g[k] = r
    BY <1>1
  <2>4. g \in Bijection(1..n, stored)
    BY <2>1, <2>2, <2>3 DEF Bijection, Injection, IsInjective, Surjection
  <2> QED BY <1>0, <2>4, FS_Bijection DEF ExistsBijection
<1>3. path = CHOOSE p \in [1..n -> stored] : Sorted(p)
  BY <1>2 DEF LoadProofs
<1>4. g \in [1..n -> stored] /\ Sorted(g)
  <2>1. g \in [1..n -> stored]
    BY <1>1
  <2>2. \A r \in stored : \E k \in 1..n : g[k] = r
    BY <1>1
  <2>3. ASSUME NEW j \in 1..n, NEW k \in 1..n, j < k PROVE g[j].level <= g[k].level
    <3>1. g[j].level = j - 1 /\ g[k].level = k - 1
      OBVIOUS
    <3> QED BY <2>3, <3>1
  <2> QED BY <2>1, <2>2, <2>3
<1> HIDE DEF path
<1>5. path \in [1..n -> stored] /\ Sorted(path)
  <2> HIDE DEF stored, Sorted
  <2> QED BY <1>3, <1>4
<1>6. Len(path) = n
  <2>1. path = [k \in 1..n |-> path[k]]
    BY <1>5
  <2> QED BY <2>1, FunctionListed
<1>7. \A k \in 1..n : \E m \in 1..n : path[k] = g[m] /\ path[k].level = m - 1
  <2> SUFFICES ASSUME NEW k \in 1..n
               PROVE  \E m \in 1..n : path[k] = g[m] /\ path[k].level = m - 1
    OBVIOUS
  <2>1. path[k] \in stored
    BY <1>5
  <2>2. PICK m \in 1..n : path[k] = g[m]
    BY <1>1, <2>1
  <2> QED BY <2>2
<1> DEFINE T == {k \in 1..n : path[k].level # k - 1}
<1>8. T = {}
  <2> SUFFICES ASSUME T # {} PROVE FALSE
    OBVIOUS
  <2>0. T \in SUBSET Nat
    OBVIOUS
  <2>1. PICK k \in T : \A y \in T : k <= y
    BY <2>0, SmallestExists
  <2>2. k \in 1..n /\ path[k].level # k - 1
    OBVIOUS
  <2>3. PICK m \in 1..n : path[k] = g[m] /\ path[k].level = m - 1
    BY <1>7, <2>2
  <2>4. \A j \in 1..n : j < k => path[j].level = j - 1
    BY <2>1
  <2>5. PICK j \in 1..n : path[j] = g[k] /\ path[j].level = k - 1
    <3>1. g[k] \in stored /\ g[k].level = k - 1
      BY <1>1, <2>2
    <3> QED BY <1>5, <3>1
  <2>6. j > k
    <3>1. CASE j < k
      <4>1. path[j].level = j - 1
        BY <2>4, <3>1
      <4> QED BY <2>2, <2>5, <3>1, <4>1
    <3>2. CASE j = k
      BY <2>2, <2>5, <3>2
    <3> HIDE DEF T
    <3> QED BY <2>2, <3>1, <3>2
  <2>7. m - 1 <= k - 1
    BY <1>5, <2>2, <2>3, <2>5, <2>6
  <2>8. m < k
    BY <2>2, <2>3, <2>7
  <2>9. m \in 1..n /\ path[m].level = m - 1 /\ path[m] = g[m]
    <3>1. path[m].level = m - 1
      BY <2>4, <2>8
    <3>2. PICK x \in 1..n : path[m] = g[x] /\ path[m].level = x - 1
      BY <1>7
    <3>3. x = m
      BY <3>1, <3>2
    <3> QED BY <3>1, <3>2, <3>3
  <2>10. path \in Injection(1..n, stored)
    <3> HIDE DEF stored
    <3>1. path \in Surjection(1..n, stored)
      BY <1>5 DEF Surjection
    <3> QED BY <1>0, <1>2, <3>1, FS_SurjSameCardinalityImpliesInj
  <2>11. path[m] = path[k] /\ m # k /\ k \in DOMAIN path /\ m \in DOMAIN path
    BY <1>5, <2>2, <2>3, <2>8, <2>9
  <2> QED BY <2>10, <2>11 DEF Injection, IsInjective
<1>9. \A k \in 1..n : path[k] = g[k]
  <2> SUFFICES ASSUME NEW k \in 1..n PROVE path[k] = g[k]
    OBVIOUS
  <2>1. PICK m \in 1..n : path[k] = g[m] /\ path[k].level = m - 1
    BY <1>7
  <2>2. path[k].level = k - 1
    BY <1>8
  <2>3. m = k
    BY <2>1, <2>2
  <2> QED BY <2>1, <2>3
<1> QED BY <1>6, <1>9 DEF path

(* What is loaded for a leaf of a finished tree is the proof built for it. *)
LEMMA LoadedIsBuilt ==
  ASSUME TreeInv, Len(currentLevel) = 1, rows # {} \/ Len(leaves) = 1, NEW h \in ToSet(leaves)
  PROVE  /\ Len(proofs[h]) \in Nat /\ Len(LoadProofs(h)) = Len(proofs[h])
         /\ \A k \in 1..Len(proofs[h]) : LoadProofs(h)[k] = RowOf(h, k)
         /\ Leads(h, Root)
<1> DEFINE n == Len(proofs[h])  g == [k \in 1..n |-> RowOf(h, k)]
<1>0. Lists /\ LoopOrder /\ InOrder /\ Placed /\ RowsKept
  BY DEF TreeInv
<1>1. n \in Nat /\ \A k \in 1..n : proofs[h][k].level = k - 1
  BY <1>0 DEF InOrder, Listed
<1>2. PICK j \in Unpaired : h \in currentGroups[j]
  <2>1. Len(nextLevel) = 0
    BY <1>0 DEF LoopOrder
  <2>2. 1..Len(nextLevel) = {}
    BY <2>1
  <2> QED BY <1>0, <2>2 DEF Placed
<1>3. j = 1
  BY <1>2 DEF Unpaired
<1>4. n = levelIndex /\ Leads(h, Root)
  BY <1>0, <1>2, <1>3 DEF Placed, Root
<1>5. ASSUME NEW r
      PROVE  r \in rows /\ r.leaf = h <=> \E k \in 1..n : r = g[k]
  <2>1. CASE rows # {}
    <3>1. r \in rows <=> \E x \in ToSet(leaves) : \E k \in 1..Len(proofs[x]) : r = RowOf(x, k)
      BY <1>0, <2>1 DEF RowsKept, RowsAreSteps
    <3>2. \A x, k : RowOf(x, k).leaf = x
      BY DEF RowOf
    <3> HIDE DEF n
    <3>3. \A k \in 1..n : g[k] = RowOf(h, k)
      OBVIOUS
    <3> USE DEF n
    <3> HIDE DEF g
    <3> QED BY <3>1, <3>2, <3>3
  <2>2. CASE rows = {}
    <3>1. levelIndex = 0
      BY <1>0, <2>2 DEF LoopOrder
    <3>2. 1..n = {}
      BY <1>4, <3>1
    <3> QED BY <2>2, <3>2
  <2> QED BY <2>1, <2>2
<1>6. \A k \in 1..n : g[k] = RowOf(h, k) /\ g[k].level = k - 1
  BY <1>1 DEF RowOf
<1>7. g = [k \in 1..n |-> g[k]]
  OBVIOUS
<1>8. Len(LoadProofs(h)) = n /\ \A k \in 1..n : LoadProofs(h)[k] = g[k]
  <2> HIDE DEF g, n
  <2> QED BY <1>1, <1>5, <1>6, <1>7, LoadedIs
<1> QED BY <1>1, <1>4, <1>6, <1>8

LEMMA InvVerifies == TreeInv => StoredProofsVerify
<1> SUFFICES ASSUME TreeInv, Len(currentLevel) = 1, rows # {} \/ Len(leaves) = 1,
                    NEW h \in ToSet(leaves)
             PROVE  ReconstructMerkleRoot(h, LoadProofs(h)) = Root
  BY DEF StoredProofsVerify
<1> DEFINE built == proofs[h]  loaded == LoadProofs(h)
<1>1. /\ Len(built) \in Nat /\ Len(loaded) = Len(built)
      /\ \A k \in 1..Len(built) : loaded[k] = RowOf(h, k)
      /\ Leads(h, Root)
  BY LoadedIsBuilt
<1>2. \A k \in 1..Len(built) : built[k].isLeft = loaded[k].isLeft /\ built[k].sibling = loaded[k].sibling
  <2> SUFFICES ASSUME NEW k \in 1..Len(built)
               PROVE  built[k].isLeft = loaded[k].isLeft /\ built[k].sibling = loaded[k].sibling
    OBVIOUS
  <2>1. loaded[k] = RowOf(h, k)
    BY <1>1
  <2>2. RowOf(h, k).isLeft = built[k].isLeft /\ RowOf(h, k).sibling = built[k].sibling
    BY DEF RowOf
  <2> HIDE DEF built, loaded
  <2> QED BY <2>1, <2>2
<1>3. ReconstructMerkleRoot(h, built) = ReconstructMerkleRoot(h, loaded)
  <2> HIDE DEF built, loaded
  <2> QED BY <1>1, <1>2, ReconstructSame
<1> QED BY <1>1, <1>3 DEF Leads

(* The proof rows the aggregator stores verify against the root of their   *)
(* batch for every leaf, whatever the size of the batch and however many   *)
(* levels have an odd node.                                                *)
THEOREM StoredRowsVerify == TreeSpec => []StoredProofsVerify
BY TreeInvariant, InvVerifies, PTL
=============================================================================
