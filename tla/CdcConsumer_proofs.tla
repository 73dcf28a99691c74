-------------------------- MODULE CdcConsumer_proofs --------------------------
(***************************************************************************)
(* Proofs about CdcConsumer, for any stream of changes, any consumers and  *)
(* any number of crashes, rejoins, takeovers and database errors.          *)
(***************************************************************************)
EXTENDS CdcConsumer, FiniteSetTheorems, SequenceTheorems, WellFoundedInduction, TLAPS

-----------------------------------------------------------------------------
(* Where the consumers stand.                                              *)

InHand == {c \in Consumers : pc[c] \notin {"stopped", "fetch"}}

(* Consumers that finish a message of a partition they have lost.          *)
Lingering == InHand \ {member}

Placed(c) ==
  /\ c # member => pc[c] # "fetch"
  /\ c = member => /\ pc[c] # "stopped"
                   /\ pos[c] = IF pc[c] = "fetch" THEN acked ELSE acked + 1
  /\ pc[c] \notin {"stopped", "fetch"} => pos[c] \in Events
  /\ pc[c] \in {"resolve", "check", "begin", "insert"} => ~Stream[pos[c]].read
  /\ pc[c] = "user" => Stream[pos[c]].name # NoName
  /\ pc[c] # "insert" => view[c] = {}

Places ==
  /\ \A c \in Consumers : Placed(c)
  /\ member = Nobody => acked = committed
  /\ Cardinality(Lingering) <= overlaps

LEMMA EventsAre ==
  /\ Events = 1..Len(Stream) /\ Len(Stream) \in Nat /\ Events \subseteq Nat
  /\ \A e \in Events : Stream[e].read \in BOOLEAN
BY StreamAssumption DEF Events

LEMMA LingeringFinite ==
  /\ IsFiniteSet(InHand) /\ IsFiniteSet(Lingering)
  /\ Cardinality(InHand) \in Nat /\ Cardinality(Lingering) \in Nat
  /\ Cardinality(InHand) <= Cardinality(Lingering) + 1
<1>1. InHand \in SUBSET Consumers /\ Lingering \in SUBSET Consumers
  BY DEF InHand, Lingering
<1>2. IsFiniteSet(InHand) /\ IsFiniteSet(Lingering)
  BY <1>1, ConsumerBounds, FS_Subset
<1>3. Cardinality(InHand) \in Nat /\ Cardinality(Lingering) \in Nat
  BY <1>2, FS_CardinalityType
<1>4. Cardinality(InHand) <= Cardinality(Lingering) + 1
  <2>1. CASE member \in InHand
    <3>1. Cardinality(Lingering) = Cardinality(InHand) - 1
      BY <1>2, <2>1, FS_RemoveElement DEF Lingering
    <3> QED BY <1>3, <3>1
  <2>2. CASE member \notin InHand
    <3>1. Lingering = InHand
      BY <2>2 DEF Lingering
    <3> QED BY <1>3, <3>1
  <2> QED BY <2>1, <2>2
<1> QED BY <1>2, <1>3, <1>4

LEMMA LingeringKept ==
  ASSUME HistoryOK, Cardinality(Lingering) <= overlaps,
         Lingering' \subseteq Lingering, overlaps' \in Nat, overlaps' >= overlaps
  PROVE  (Cardinality(Lingering) <= overlaps)'
<1>1. Lingering' \in SUBSET Lingering
  OBVIOUS
<1>2. /\ Cardinality(Lingering') \in Nat /\ Cardinality(Lingering') <= Cardinality(Lingering)
      /\ Cardinality(Lingering) \in Nat
  BY <1>1, LingeringFinite, FS_Subset, FS_CardinalityType
<1> QED BY <1>2 DEF HistoryOK

LEMMA OneMoreLingers ==
  ASSUME HistoryOK, Cardinality(Lingering) <= overlaps,
         Lingering' \subseteq Lingering \cup {member}, overlaps' = overlaps + 1
  PROVE  (Cardinality(Lingering) <= overlaps)'
<1>1. Lingering' \in SUBSET (Lingering \cup {member})
  OBVIOUS
<1>2. IsFiniteSet(Lingering) /\ Cardinality(Lingering) \in Nat
  BY LingeringFinite
<1>3. PICK m, n : m = member /\ n = Cardinality(Lingering)
  OBVIOUS
<1>5. IsFiniteSet(Lingering \cup {m}) /\ Cardinality(Lingering \cup {m}) \in {n, n + 1}
  <2>1. Cardinality(Lingering \cup {m}) = IF m \in Lingering THEN n ELSE n + 1
    BY <1>2, <1>3, FS_AddElement
  <2>2. IsFiniteSet(Lingering \cup {m})
    BY <1>2, FS_AddElement
  <2> QED BY <2>1, <2>2
<1>4. Cardinality(Lingering') \in Nat /\ Cardinality(Lingering') <= Cardinality(Lingering) + 1
  <2>1. Lingering' \in SUBSET (Lingering \cup {m})
    BY <1>1, <1>3
  <2>2. Cardinality(Lingering') \in Nat /\ Cardinality(Lingering') <= Cardinality(Lingering \cup {m})
    BY <1>5, <2>1, FS_Subset, FS_CardinalityType
  <2> QED BY <1>2, <1>3, <1>5, <2>2
<1> QED BY <1>2, <1>4 DEF HistoryOK

(* What the steps of the group do: a consumer goes on as it was, or ends   *)
(* up without a message.                                                   *)
GoesOn(c) ==
  /\ pc'[c] = pc[c] /\ pos'[c] = pos[c] /\ view'[c] = view[c] /\ actor'[c] = actor[c]

Regrouped ==
  /\ UNCHANGED <<logs, directory, dropped, blind, misled>>
  /\ overlaps' \in Nat /\ overlaps' >= overlaps
  /\ acked' \in 0..acked
  /\ cache' \in {cache, NoName}
  /\ \A c \in Consumers :
       GoesOn(c) \/ (pc'[c] \in {"stopped", "fetch"} /\ view'[c] = {})

Group ==
  \/ \E c \in Consumers : Start(c) \/ TakeOver(c) \/ Rejoin(c)
  \/ ToggleKafkaConfig \/ CreateKafkaConfig \/ DeleteKafkaConfig
  \/ StopInactive \/ Crash \/ Flush

LEMMA StartPlaces ==
  ASSUME TypeOK, Places, NEW c \in Consumers, Start(c)
  PROVE  TypeOK' /\ Places' /\ Regrouped
<1>1. /\ member = Nobody /\ pc[c] = "stopped" /\ member' = c
      /\ pos' = [pos EXCEPT ![c] = committed] /\ acked' = committed
      /\ pc' = [pc EXCEPT ![c] = "fetch"]
      /\ UNCHANGED <<logs, directory, cache, actor, active, committed, view, restarts, faults,
                     dropped, overlaps, blind, misled>>
  BY DEF Start, Resume, Goto, names, History
<1>2. /\ committed \in 0..Len(Stream) /\ acked \in 0..Len(Stream) /\ committed \in 0..acked
      /\ committed \in 0..committed
  BY EventsAre DEF TypeOK, OffsetsOK
<1>3. TypeOK'
  <2>1. NamesOK' /\ LogsOK' /\ OffsetsOK' /\ HistoryOK'
    BY <1>1, <1>2 DEF TypeOK, NamesOK, LogsOK, OffsetsOK, HistoryOK
  <2>2. ConsumersOK'
    BY <1>1, <1>2 DEF TypeOK, ConsumersOK, Steps
  <2> QED BY <2>1, <2>2 DEF TypeOK
<1>4. /\ pc'[c] = "fetch" /\ pos'[c] = committed /\ view'[c] = {}
      /\ \A h \in Consumers \ {c} : GoesOn(h)
  BY <1>1 DEF TypeOK, ConsumersOK, Places, Placed, GoesOn
<1>5. ASSUME NEW h \in Consumers PROVE Placed(h)'
  <2>1. Placed(h)
    BY DEF Places
  <2> QED BY <1>1, <1>4, <2>1, ConsumerBounds DEF Placed, GoesOn
<1>6. Lingering' \subseteq Lingering
  BY <1>1, <1>4, ConsumerBounds DEF Lingering, InHand, GoesOn
<1>7. Places'
  BY <1>1, <1>5, <1>6, LingeringKept, ConsumerBounds DEF Places, TypeOK, HistoryOK
<1>8. Regrouped
  BY <1>1, <1>2, <1>4 DEF Regrouped, TypeOK, HistoryOK
<1> QED BY <1>3, <1>7, <1>8

LEMMA RejoinPlaces ==
  ASSUME TypeOK, Places, NEW c \in Consumers, Rejoin(c)
  PROVE  TypeOK' /\ Places' /\ Regrouped
<1>1. /\ member = c /\ pc[c] = "fetch" /\ member' = c
      /\ pos' = [pos EXCEPT ![c] = committed] /\ acked' = committed
      /\ restarts' = restarts + 1
      /\ UNCHANGED <<logs, directory, cache, actor, active, committed, pc, view, faults,
                     dropped, overlaps, blind, misled>>
  BY DEF Rejoin, Restart, Resume, names, History
<1>2. /\ committed \in 0..Len(Stream) /\ acked \in 0..Len(Stream) /\ committed \in 0..acked
      /\ committed \in 0..committed
  BY EventsAre DEF TypeOK, OffsetsOK
<1>3. TypeOK'
  <2>1. NamesOK' /\ LogsOK' /\ OffsetsOK' /\ HistoryOK'
    BY <1>1, <1>2 DEF TypeOK, NamesOK, LogsOK, OffsetsOK, HistoryOK
  <2>2. ConsumersOK'
    BY <1>1, <1>2 DEF TypeOK, ConsumersOK, Steps
  <2> QED BY <2>1, <2>2 DEF TypeOK
<1>4. /\ pc'[c] = "fetch" /\ pos'[c] = committed /\ view'[c] = {}
      /\ \A h \in Consumers \ {c} : GoesOn(h)
  BY <1>1 DEF TypeOK, ConsumersOK, Places, Placed, GoesOn
<1>5. ASSUME NEW h \in Consumers PROVE Placed(h)'
  <2>1. Placed(h)
    BY DEF Places
  <2> QED BY <1>1, <1>4, <2>1, ConsumerBounds DEF Placed, GoesOn
<1>6. Lingering' \subseteq Lingering
  BY <1>1, <1>4, ConsumerBounds DEF Lingering, InHand, GoesOn
<1>7. Places'
  BY <1>1, <1>5, <1>6, LingeringKept, ConsumerBounds DEF Places, TypeOK, HistoryOK
<1>8. Regrouped
  BY <1>1, <1>2, <1>4 DEF Regrouped, TypeOK, HistoryOK
<1> QED BY <1>3, <1>7, <1>8

LEMMA TakeOverPlaces ==
  ASSUME TypeOK, Places, NEW c \in Consumers, TakeOver(c)
  PROVE  TypeOK' /\ Places' /\ Regrouped
<1>1. PICK m \in Consumers : m = member /\ m # c
  BY DEF TakeOver
<1>2. /\ pc[c] = "stopped" /\ member' = c
      /\ pos' = [pos EXCEPT ![c] = committed] /\ acked' = committed
      /\ restarts' = restarts + 1
      /\ pc' = [[pc EXCEPT ![c] = "fetch"] EXCEPT ![m] = IF pc[m] = "fetch" THEN "stopped" ELSE @]
      /\ overlaps' = IF pc[m] = "fetch" THEN overlaps ELSE overlaps + 1
      /\ UNCHANGED <<logs, directory, cache, actor, active, committed, view, faults,
                     dropped, blind, misled>>
  BY <1>1 DEF TakeOver, Restart, Resume, Cancelled, names
<1>3. /\ committed \in 0..Len(Stream) /\ acked \in 0..Len(Stream) /\ committed \in 0..acked
      /\ committed \in 0..committed
  BY EventsAre DEF TypeOK, OffsetsOK
<1>4. /\ pc'[c] = "fetch" /\ pos'[c] = committed /\ view'[c] = {}
      /\ \A h \in Consumers \ {c, m} : GoesOn(h)
      /\ pos'[m] = pos[m] /\ view'[m] = view[m] /\ actor'[m] = actor[m]
      /\ pc'[m] = IF pc[m] = "fetch" THEN "stopped" ELSE pc[m]
      /\ pc' \in [Consumers -> Steps]
  BY <1>1, <1>2 DEF TypeOK, ConsumersOK, Steps, Places, Placed, GoesOn
<1>5. TypeOK'
  <2>1. NamesOK' /\ LogsOK' /\ OffsetsOK' /\ HistoryOK'
    BY <1>2, <1>3 DEF TypeOK, NamesOK, LogsOK, OffsetsOK, HistoryOK
  <2>2. ConsumersOK'
    BY <1>2, <1>3, <1>4 DEF TypeOK, ConsumersOK
  <2> QED BY <2>1, <2>2 DEF TypeOK
<1>6. Placed(m) /\ (pc[m] = "fetch" \/ GoesOn(m)) /\ (pc[m] = "fetch" => view[m] = {})
  BY <1>1, <1>4 DEF Places, Placed, GoesOn
<1>7. ASSUME NEW h \in Consumers PROVE Placed(h)'
  <2>1. Placed(h)
    BY DEF Places
  <2>2. CASE h = c
    BY <1>2, <1>4, <2>2 DEF Placed
  <2>3. CASE h = m
    BY <1>1, <1>2, <1>4, <2>1, <2>3 DEF Placed
  <2>4. CASE h \notin {c, m}
    BY <1>1, <1>2, <1>4, <2>1, <2>4 DEF Placed, GoesOn
  <2> QED BY <2>2, <2>3, <2>4
<1>8. (Cardinality(Lingering) <= overlaps)'
  <2>1. CASE pc[m] = "fetch"
    <3>1. Lingering' \subseteq Lingering
      BY <1>1, <1>2, <1>4, <2>1 DEF Lingering, InHand, GoesOn
    <3> QED BY <1>2, <2>1, <3>1, LingeringKept DEF Places, TypeOK, HistoryOK
  <2>2. CASE pc[m] # "fetch"
    <3>1. Lingering' \subseteq Lingering \cup {member}
      BY <1>1, <1>2, <1>4 DEF Lingering, InHand, GoesOn
    <3> QED BY <1>2, <2>2, <3>1, OneMoreLingers DEF Places, TypeOK
  <2> QED BY <2>1, <2>2
<1>9. Places'
  BY <1>2, <1>7, <1>8, ConsumerBounds DEF Places
<1>10. Regrouped
  <2>1. overlaps' \in Nat /\ overlaps' >= overlaps
    BY <1>2 DEF TypeOK, HistoryOK
  <2>2. \A h \in Consumers :
          GoesOn(h) \/ (pc'[h] \in {"stopped", "fetch"} /\ view'[h] = {})
    BY <1>4, <1>6
  <2> QED BY <1>2, <1>3, <2>1, <2>2 DEF Regrouped
<1> QED BY <1>5, <1>9, <1>10

LEMMA StopInactivePlaces ==
  ASSUME TypeOK, Places, StopInactive
  PROVE  TypeOK' /\ Places' /\ Regrouped
<1>1. PICK m \in Consumers : m = member
  BY DEF StopInactive, TypeOK, ConsumersOK
<1>2. /\ member' = Nobody /\ acked' = committed
      /\ pc' = [pc EXCEPT ![m] = IF pc[m] = "fetch" THEN "stopped" ELSE @]
      /\ overlaps' = IF pc[m] = "fetch" THEN overlaps ELSE overlaps + 1
      /\ UNCHANGED <<logs, directory, cache, actor, active, committed, pos, view, restarts,
                     faults, dropped, blind, misled>>
  BY <1>1 DEF StopInactive, Cancelled, names
<1>3. /\ committed \in 0..Len(Stream) /\ acked \in 0..Len(Stream) /\ committed \in 0..acked
      /\ committed \in 0..committed
  BY EventsAre DEF TypeOK, OffsetsOK
<1>4. /\ \A h \in Consumers \ {m} : GoesOn(h)
      /\ pos'[m] = pos[m] /\ view'[m] = view[m] /\ actor'[m] = actor[m]
      /\ pc'[m] = IF pc[m] = "fetch" THEN "stopped" ELSE pc[m]
      /\ pc' \in [Consumers -> Steps]
  BY <1>1, <1>2 DEF TypeOK, ConsumersOK, Steps, GoesOn
<1>5. TypeOK'
  <2>1. NamesOK' /\ LogsOK' /\ OffsetsOK' /\ HistoryOK'
    BY <1>2, <1>3 DEF TypeOK, NamesOK, LogsOK, OffsetsOK, HistoryOK
  <2>2. ConsumersOK'
    BY <1>2, <1>3, <1>4 DEF TypeOK, ConsumersOK
  <2> QED BY <2>1, <2>2 DEF TypeOK
<1>6. Placed(m) /\ (pc[m] = "fetch" \/ GoesOn(m)) /\ (pc[m] = "fetch" => view[m] = {})
  BY <1>1, <1>4 DEF Places, Placed, GoesOn
<1>7. ASSUME NEW h \in Consumers PROVE Placed(h)'
  <2>1. Placed(h) /\ h # Nobody
    BY ConsumerBounds DEF Places
  <2>2. CASE h = m
    BY <1>1, <1>2, <1>4, <2>1, <2>2 DEF Placed
  <2>3. CASE h # m
    BY <1>1, <1>2, <1>4, <2>1, <2>3 DEF Placed, GoesOn
  <2> QED BY <2>2, <2>3
<1>8. (Cardinality(Lingering) <= overlaps)'
  <2>1. CASE pc[m] = "fetch"
    <3>1. Lingering' \subseteq Lingering
      BY <1>1, <1>2, <1>4, <2>1 DEF Lingering, InHand, GoesOn
    <3> QED BY <1>2, <2>1, <3>1, LingeringKept DEF Places, TypeOK, HistoryOK
  <2>2. CASE pc[m] # "fetch"
    <3>1. Lingering' \subseteq Lingering \cup {member}
      BY <1>1, <1>2, <1>4 DEF Lingering, InHand, GoesOn
    <3> QED BY <1>2, <2>2, <3>1, OneMoreLingers DEF Places, TypeOK
  <2> QED BY <2>1, <2>2
<1>9. Places'
  BY <1>2, <1>7, <1>8 DEF Places
<1>10. Regrouped
  <2>1. overlaps' \in Nat /\ overlaps' >= overlaps
    BY <1>2 DEF TypeOK, HistoryOK
  <2>2. \A h \in Consumers :
          GoesOn(h) \/ (pc'[h] \in {"stopped", "fetch"} /\ view'[h] = {})
    BY <1>4, <1>6
  <2> QED BY <1>2, <1>3, <2>1, <2>2 DEF Regrouped
<1> QED BY <1>5, <1>9, <1>10

LEMMA CrashPlaces ==
  ASSUME TypeOK, Places, Crash
  PROVE  TypeOK' /\ Places' /\ Regrouped
<1>1. /\ member' = Nobody /\ acked' = committed /\ cache' = NoName
      /\ pc' = [c \in Consumers |-> "stopped"] /\ view' = [c \in Consumers |-> {}]
      /\ actor' = [c \in Consumers |-> NoName] /\ pos' = [c \in Consumers |-> 0]
      /\ restarts' = restarts + 1
      /\ UNCHANGED <<logs, directory, active, committed, faults, dropped, overlaps, blind, misled>>
  BY DEF Crash, Restart, History
<1>2. /\ committed \in 0..Len(Stream) /\ committed \in 0..acked
      /\ committed \in 0..committed /\ 0 \in 0..Len(Stream)
  BY EventsAre DEF TypeOK, OffsetsOK
<1>3. TypeOK'
  <2>1. NamesOK' /\ LogsOK' /\ OffsetsOK' /\ HistoryOK'
    BY <1>1, <1>2 DEF TypeOK, NamesOK, Names, LogsOK, OffsetsOK, HistoryOK
  <2>2. ConsumersOK'
    BY <1>1, <1>2 DEF TypeOK, ConsumersOK, Steps
  <2> QED BY <2>1, <2>2 DEF TypeOK
<1>4. \A h \in Consumers : Placed(h)'
  BY <1>1, ConsumerBounds DEF Placed
<1>5. Lingering' \subseteq Lingering
  BY <1>1 DEF Lingering, InHand
<1>6. Places'
  BY <1>1, <1>4, <1>5, LingeringKept DEF Places, TypeOK, HistoryOK
<1>7. Regrouped
  BY <1>1, <1>2 DEF Regrouped, TypeOK, HistoryOK
<1> QED BY <1>3, <1>6, <1>7

LEMMA FlushPlaces ==
  ASSUME TypeOK, Places, Flush \/ ToggleKafkaConfig \/ CreateKafkaConfig \/ DeleteKafkaConfig
  PROVE  TypeOK' /\ Places' /\ Regrouped
<1>1. /\ committed' \in {committed, acked} /\ restarts' \in {restarts, restarts + 1}
      /\ active' \in {active, ~active, TRUE, FALSE}
      /\ UNCHANGED <<logs, directory, cache, actor, acked, member, pc, pos, view, faults,
                     dropped, overlaps, blind, misled>>
  BY DEF Flush, ToggleKafkaConfig, CreateKafkaConfig, DeleteKafkaConfig, SetActive, Restart,
     names, History
<1>2. acked \in 0..Len(Stream) /\ committed' \in 0..acked /\ acked \in 0..acked
  BY <1>1, EventsAre DEF TypeOK, OffsetsOK
<1>3. TypeOK'
  <2>1. NamesOK' /\ LogsOK' /\ OffsetsOK' /\ HistoryOK'
    BY <1>1, <1>2 DEF TypeOK, NamesOK, LogsOK, OffsetsOK, HistoryOK
  <2>2. ConsumersOK'
    BY <1>1, <1>2 DEF TypeOK, ConsumersOK, Steps
  <2> QED BY <2>1, <2>2 DEF TypeOK
<1>4. \A h \in Consumers : Placed(h)' /\ GoesOn(h)
  BY <1>1 DEF Places, Placed, GoesOn
<1>5. Lingering' \subseteq Lingering
  BY <1>1 DEF Lingering, InHand
<1>6. Places'
  BY <1>1, <1>4, <1>5, LingeringKept DEF Places, TypeOK, HistoryOK
<1>7. Regrouped
  BY <1>1, <1>2, <1>4 DEF Regrouped, TypeOK, HistoryOK
<1> QED BY <1>3, <1>6, <1>7

LEMMA GroupPlaces ==
  ASSUME TypeOK, Places, Group
  PROVE  TypeOK' /\ Places' /\ Regrouped
BY StartPlaces, TakeOverPlaces, RejoinPlaces, StopInactivePlaces, CrashPlaces, FlushPlaces
   DEF Group

-----------------------------------------------------------------------------
(* The log that a transaction writes.                                      *)

LEMMA WithLogWrites ==
  ASSUME LogsOK, NEW e \in Events, NEW by \in Names, NEW reset, NEW new,
         new = WithLog(e, by, reset)
  PROVE  LET n == Len(logs) IN
           /\ n \in Nat /\ DOMAIN logs = 1..n /\ new \in Seq(Log) /\ DOMAIN new = 1..(n + 1)
           /\ new[n + 1].event = e /\ new[n + 1].actor = by /\ new[n + 1].latest
           /\ \A i \in 1..n : /\ new[i].event = logs[i].event /\ new[i].actor = logs[i].actor
                              /\ new[i].latest <=> logs[i].latest /\ i \notin reset
<1> DEFINE n == Len(logs)
<1>1. n \in Nat /\ DOMAIN logs = 1..n /\ \A i \in 1..n : logs[i] \in Log
  BY DEF LogsOK
<1>2. PICK old : old = [i \in DOMAIN logs |-> [logs[i] EXCEPT !.latest = @ /\ i \notin reset]]
  OBVIOUS
<1>3. PICK x : x = [event |-> e, actor |-> by, latest |-> TRUE]
  OBVIOUS
<1>4. ASSUME NEW i \in 1..n
      PROVE  /\ old[i] \in Log
             /\ old[i].event = logs[i].event /\ old[i].actor = logs[i].actor
             /\ old[i].latest <=> logs[i].latest /\ i \notin reset
  <2>1. PICK b \in BOOLEAN : b <=> logs[i].latest /\ i \notin reset
    OBVIOUS
  <2>2. logs[i] \in Log /\ logs[i].latest \in BOOLEAN
    BY <1>1 DEF Log
  <2>3. old[i] = [logs[i] EXCEPT !.latest = b]
    BY <1>1, <1>2, <2>1, <2>2
  <2> QED BY <2>1, <2>2, <2>3 DEF Log
<1> HIDE DEF n
<1>5. x \in Log /\ x.event = e /\ x.actor = by /\ x.latest
  BY <1>3 DEF Log
<1>6. old \in Seq(Log) /\ Len(old) = n
  <2>1. old = [i \in 1..n |-> old[i]]
    BY <1>1, <1>2
  <2>2. old \in [1..n -> Log]
    BY <1>4, <2>1
  <2> HIDE DEF Log
  <2> QED BY <1>1, <2>2, IsASeq, LenProperties
<1>7. new = Append(old, x)
  BY <1>2, <1>3 DEF WithLog
<1>8. /\ new \in Seq(Log) /\ Len(new) = n + 1 /\ new[n + 1] = x
      /\ \A i \in 1..n : new[i] = old[i]
  <2> HIDE DEF Log
  <2> QED BY <1>5, <1>6, <1>7, AppendProperties
<1>9. DOMAIN new = 1..(n + 1)
  BY <1>8
<1> QED BY <1>1, <1>4, <1>5, <1>8, <1>9 DEF n

(* A step of a consumer on the message in hand.                            *)
OnMessage(c) ==
  /\ pc[c] \in {"user", "resolve", "check", "begin", "insert"}
  /\ UNCHANGED <<active, committed, acked, member, pos, restarts, overlaps>>
  /\ \A h \in Consumers \ {c} : GoesOn(h)

LEMMA StepPlaces ==
  ASSUME TypeOK, Places, NEW c \in Consumers,
         NEW p \in {"resolve", "check", "begin", "insert", "ack"},
         pc[c] \in {"user", "resolve", "check", "begin", "insert"},
         UNCHANGED <<active, committed, acked, member, pos, restarts, overlaps>>,
         pc' = [pc EXCEPT ![c] = p],
         p # "ack" => ~Stream[pos[c]].read,
         p # "insert" => view'[c] = {},
         \A h \in Consumers \ {c} : view'[h] = view[h] /\ actor'[h] = actor[h],
         NamesOK', LogsOK', HistoryOK'
  PROVE  TypeOK' /\ Places' /\ OnMessage(c)
<1>1. /\ pc'[c] = p /\ pc' \in [Consumers -> Steps]
      /\ \A h \in Consumers \ {c} : GoesOn(h)
  BY DEF TypeOK, ConsumersOK, Steps, GoesOn
<1>2. TypeOK'
  BY <1>1 DEF TypeOK, OffsetsOK, ConsumersOK
<1>3. ASSUME NEW h \in Consumers PROVE Placed(h)'
  <2>1. Placed(h) /\ Placed(c)
    BY DEF Places
  <2>2. CASE h = c
    BY <1>1, <2>1, <2>2 DEF Placed
  <2>3. CASE h # c
    BY <1>1, <2>1, <2>3 DEF Placed, GoesOn
  <2> QED BY <2>2, <2>3
<1>4. Lingering' \subseteq Lingering
  BY <1>1 DEF Lingering, InHand, GoesOn
<1>5. Places'
  BY <1>3, <1>4, LingeringKept DEF Places, TypeOK, HistoryOK
<1> QED BY <1>1, <1>2, <1>5 DEF OnMessage

LEMMA HandHolds ==
  ASSUME TypeOK, Places, NEW c \in Consumers, pc[c] \notin {"stopped", "fetch"}
  PROVE  /\ pos[c] \in Events /\ pos[c] \in 1..Len(Stream) /\ Stream[pos[c]].read \in BOOLEAN
         /\ pc[c] \in {"resolve", "check", "begin", "insert"} => ~Stream[pos[c]].read
         /\ pc[c] # "insert" => view[c] = {}
         /\ c = member => pos[c] = acked + 1
         /\ view[c] \in SUBSET DOMAIN logs /\ actor[c] \in Names
<1>1. Placed(c)
  BY DEF Places
<1>2. pos[c] \in Events
  BY <1>1 DEF Placed
<1>3. pos[c] \in 1..Len(Stream) /\ Stream[pos[c]].read \in BOOLEAN
  BY <1>2, EventsAre
<1>4. view[c] \in SUBSET DOMAIN logs /\ actor[c] \in Names
  BY DEF TypeOK, LogsOK, NamesOK
<1> QED BY <1>1, <1>2, <1>3, <1>4 DEF Placed

LEMMA WriteUserPlaces ==
  ASSUME TypeOK, Places, NEW c \in Consumers, WriteUser(c)
  PROVE  TypeOK' /\ Places' /\ OnMessage(c) /\ pc'[c] = AfterUser(pos[c])
<1>1. /\ pc[c] = "user" /\ pc' = [pc EXCEPT ![c] = AfterUser(pos[c])]
      /\ \/ directory' = Stream[pos[c]].name /\ UNCHANGED <<faults, misled>>
         \/ faults' = faults + 1 /\ misled' = misled + 1 /\ UNCHANGED directory
      /\ cache' = NoName
      /\ UNCHANGED <<logs, actor, active, committed, acked, member, pos, view, restarts,
                     dropped, overlaps, blind>>
  BY DEF WriteUser, Goto, Spend
<1>2. pos[c] \in Events /\ view[c] = {} /\ Stream[pos[c]].read \in BOOLEAN
  BY <1>1, HandHolds
<1>3. /\ AfterUser(pos[c]) \in {"resolve", "ack"}
      /\ AfterUser(pos[c]) # "ack" => ~Stream[pos[c]].read
  BY <1>2 DEF AfterUser
<1>4. NamesOK' /\ LogsOK' /\ HistoryOK'
  BY <1>1, <1>2 DEF TypeOK, NamesOK, Names, LogsOK, HistoryOK
<1>5. PICK p \in {"resolve", "ack"} : p = AfterUser(pos[c])
  BY <1>3
<1>6. TypeOK' /\ Places' /\ OnMessage(c)
  BY <1>1, <1>2, <1>3, <1>4, <1>5, StepPlaces
<1> QED BY <1>1, <1>6 DEF TypeOK, ConsumersOK

LEMMA ResolvePlaces ==
  ASSUME TypeOK, Places, NEW c \in Consumers, Resolve(c)
  PROVE  TypeOK' /\ Places' /\ OnMessage(c) /\ pc'[c] = "check"
<1>1. /\ pc[c] = "resolve" /\ pc' = [pc EXCEPT ![c] = "check"]
      /\ \/ \E known \in {cache, directory} :
              /\ actor' = [actor EXCEPT ![c] = known] /\ cache' = known
              /\ UNCHANGED <<faults, misled>>
         \/ faults' = faults + 1 /\ misled' = misled + 1 /\ UNCHANGED <<actor, cache>>
      /\ UNCHANGED <<logs, directory, active, committed, acked, member, pos, view, restarts,
                     dropped, overlaps, blind>>
  BY DEF Resolve, Goto, Spend
<1>2. pos[c] \in Events /\ view[c] = {} /\ ~Stream[pos[c]].read
  BY <1>1, HandHolds
<1>3. NamesOK' /\ LogsOK' /\ HistoryOK'
  BY <1>1 DEF TypeOK, NamesOK, LogsOK, HistoryOK
<1>4. \A h \in Consumers \ {c} : view'[h] = view[h] /\ actor'[h] = actor[h]
  BY <1>1 DEF TypeOK, NamesOK
<1>5. TypeOK' /\ Places' /\ OnMessage(c)
  BY <1>1, <1>2, <1>3, <1>4, StepPlaces
<1> QED BY <1>1, <1>5 DEF TypeOK, ConsumersOK

LEMMA CheckPlaces ==
  ASSUME TypeOK, Places, NEW c \in Consumers, Check(c) \/ CheckFails(c)
  PROVE  /\ TypeOK' /\ Places' /\ OnMessage(c) /\ pc'[c] \in {"begin", "ack"}
         /\ pc'[c] = "begin" => ~Duplicate(pos[c]) \/ blind' = blind + 1
         /\ pc'[c] = "ack" => Duplicate(pos[c])
<1>1. PICK p \in {"begin", "ack"} : /\ pc' = [pc EXCEPT ![c] = p]
                                    /\ p = "begin" => ~Duplicate(pos[c]) \/ blind' = blind + 1
                                    /\ p = "ack" => Duplicate(pos[c])
  BY DEF Check, CheckFails, Goto
<1>2. /\ pc[c] = "check" /\ blind' \in {blind, blind + 1} /\ faults' \in {faults, faults + 1}
      /\ UNCHANGED <<logs, directory, cache, actor, active, committed, acked, member, pos, view,
                     restarts, dropped, overlaps, misled>>
  BY DEF Check, CheckFails, Spend, names, History
<1>3. pos[c] \in Events /\ view[c] = {} /\ ~Stream[pos[c]].read
  BY <1>2, HandHolds
<1>4. NamesOK' /\ LogsOK' /\ HistoryOK'
  BY <1>2 DEF TypeOK, NamesOK, LogsOK, HistoryOK
<1>5. TypeOK' /\ Places' /\ OnMessage(c)
  BY <1>1, <1>2, <1>3, <1>4, StepPlaces
<1> QED BY <1>1, <1>5 DEF TypeOK, ConsumersOK

LEMMA BeginTxPlaces ==
  ASSUME TypeOK, Places, NEW c \in Consumers, BeginTx(c)
  PROVE  /\ TypeOK' /\ Places' /\ OnMessage(c) /\ pc'[c] = "insert"
         /\ view'[c] = EarlierLogs(pos[c])
<1>1. /\ pc[c] = "begin" /\ pc' = [pc EXCEPT ![c] = "insert"]
      /\ view' = [view EXCEPT ![c] = EarlierLogs(pos[c])]
      /\ UNCHANGED <<logs, directory, cache, actor, active, committed, acked, member, pos,
                     restarts, faults, dropped, overlaps, blind, misled>>
  BY DEF BeginTx, Goto, names, History
<1>2. pos[c] \in Events /\ ~Stream[pos[c]].read
  BY <1>1, HandHolds
<1>3. NamesOK' /\ LogsOK' /\ HistoryOK'
  BY <1>1 DEF TypeOK, NamesOK, LogsOK, HistoryOK, EarlierLogs
<1>4. /\ \A h \in Consumers \ {c} : view'[h] = view[h] /\ actor'[h] = actor[h]
      /\ view'[c] = EarlierLogs(pos[c])
  BY <1>1 DEF TypeOK, LogsOK
<1>5. TypeOK' /\ Places' /\ OnMessage(c)
  BY <1>1, <1>2, <1>3, <1>4, StepPlaces
<1> QED BY <1>1, <1>4, <1>5 DEF TypeOK, ConsumersOK

Ends(c) == CommitTx(c) \/ ProcessingFails(c)
Wrote(c) == pc[c] = "insert" /\ logs' = WithLog(pos[c], actor[c], view[c])

LEMMA EndsPlaces ==
  ASSUME TypeOK, Places, NEW c \in Consumers, Ends(c)
  PROVE  /\ TypeOK' /\ Places' /\ OnMessage(c) /\ pc'[c] = "ack"
         /\ Wrote(c) \/ (logs' = logs /\ pos[c] \in dropped')
         /\ UNCHANGED <<directory, cache, actor, blind, misled>> /\ dropped \subseteq dropped'
<1>1. /\ pc[c] \in {"begin", "insert"} /\ pc' = [pc EXCEPT ![c] = "ack"]
      /\ view' = [view EXCEPT ![c] = {}] /\ faults' \in {faults, faults + 1}
      /\ dropped' \in {dropped, dropped \cup {pos[c]}}
      /\ UNCHANGED <<directory, cache, actor, active, committed, acked, member, pos, restarts,
                     overlaps, blind, misled>>
  BY DEF Ends, CommitTx, ProcessingFails, Spend, Goto, EndTx, names, History
<1>2. Wrote(c) \/ (logs' = logs /\ pos[c] \in dropped')
  <2>1. CASE CommitTx(c)
    BY <2>1 DEF CommitTx, Wrote
  <2>2. CASE ProcessingFails(c)
    <3>1. /\ pos[c] \in dropped'
          /\ logs' = logs \/ (pc[c] = "insert" /\ logs' = WithLog(pos[c], actor[c], view[c]))
      BY <2>2 DEF ProcessingFails
    <3> QED BY <3>1 DEF Wrote
  <2> QED BY <2>1, <2>2 DEF Ends
<1>3. pos[c] \in Events /\ actor[c] \in Names
  BY <1>1, HandHolds
<1>4. LogsOK'
  <2>1. CASE logs' = logs
    BY <1>1, <2>1 DEF TypeOK, LogsOK
  <2>2. CASE Wrote(c)
    <3>1. /\ logs' \in Seq(Log) /\ DOMAIN logs = 1..Len(logs) /\ Len(logs) \in Nat
          /\ DOMAIN logs' = 1..(Len(logs) + 1)
      BY <1>3, <2>2, WithLogWrites DEF Wrote, TypeOK
    <3>2. DOMAIN logs \subseteq DOMAIN logs'
      BY <3>1
    <3>3. view' \in [Consumers -> SUBSET DOMAIN logs']
      BY <1>1, <3>2 DEF TypeOK, LogsOK
    <3> QED BY <3>1, <3>3 DEF LogsOK
  <2> QED BY <1>2, <2>1, <2>2
<1>5. NamesOK' /\ HistoryOK'
  BY <1>1, <1>3 DEF TypeOK, NamesOK, HistoryOK
<1>6. /\ view'[c] = {}
      /\ \A h \in Consumers \ {c} : view'[h] = view[h] /\ actor'[h] = actor[h]
  BY <1>1 DEF TypeOK, LogsOK
<1>7. TypeOK' /\ Places' /\ OnMessage(c)
  BY <1>1, <1>4, <1>5, <1>6, StepPlaces
<1> QED BY <1>1, <1>2, <1>7 DEF TypeOK, ConsumersOK

LEMMA FetchPlaces ==
  ASSUME TypeOK, Places, NEW c \in Consumers, Fetch(c)
  PROVE  /\ TypeOK' /\ Places'
         /\ pc[c] = "fetch" /\ pos'[c] = acked + 1 /\ pos'[c] \in Events
         /\ pc'[c] = FirstStep(pos'[c]) /\ view'[c] = {}
         /\ \A h \in Consumers \ {c} : GoesOn(h)
         /\ UNCHANGED <<logs, directory, cache, actor, committed, acked, member, dropped,
                        overlaps, blind, misled>>
<1>1. /\ member = c /\ pc[c] = "fetch" /\ pos[c] < Len(Stream)
      /\ pos' = [pos EXCEPT ![c] = @ + 1]
      /\ pc' = [pc EXCEPT ![c] = FirstStep(pos[c] + 1)]
      /\ UNCHANGED <<logs, directory, cache, actor, active, committed, acked, member, view,
                     restarts, faults, dropped, overlaps, blind, misled>>
  BY DEF Fetch, Goto, names, History
<1>2. pos[c] = acked /\ view[c] = {} /\ acked \in Nat
  BY <1>1, EventsAre DEF Places, Placed, TypeOK, OffsetsOK
<1>3. PICK e \in Events : e = acked + 1
  BY <1>1, <1>2, EventsAre
<1>4. /\ FirstStep(e) \in {"user", "resolve", "ack"}
      /\ FirstStep(e) = "resolve" => ~Stream[e].read
      /\ FirstStep(e) = "user" => Stream[e].name # NoName
  BY EventsAre DEF FirstStep, AfterUser
<1>5. PICK p \in {"user", "resolve", "ack"} : p = FirstStep(e)
  BY <1>4
<1>6. /\ pc'[c] = p /\ pos'[c] = e /\ view'[c] = {}
      /\ \A h \in Consumers \ {c} : GoesOn(h)
  BY <1>1, <1>2, <1>3, <1>5 DEF TypeOK, ConsumersOK, GoesOn
<1>7. TypeOK'
  <2>1. pc' \in [Consumers -> Steps]
    BY <1>1, <1>2, <1>3, <1>5 DEF TypeOK, ConsumersOK, Steps
  <2>2. pos' \in [Consumers -> 0..Len(Stream)]
    BY <1>1, <1>2, <1>3, EventsAre DEF TypeOK, ConsumersOK
  <2> QED BY <1>1, <2>1, <2>2 DEF TypeOK, NamesOK, LogsOK, OffsetsOK, ConsumersOK, HistoryOK
<1>8. ASSUME NEW h \in Consumers PROVE Placed(h)'
  <2>1. Placed(h)
    BY DEF Places
  <2>2. CASE h = c
    BY <1>1, <1>3, <1>4, <1>5, <1>6, <2>2 DEF Placed
  <2>3. CASE h # c
    BY <1>1, <1>6, <2>1, <2>3 DEF Placed, GoesOn
  <2> QED BY <2>2, <2>3
<1>9. Lingering' \subseteq Lingering
  BY <1>1, <1>6 DEF Lingering, InHand, GoesOn
<1>10. Places'
  BY <1>1, <1>8, <1>9, LingeringKept DEF Places, TypeOK, HistoryOK
<1> QED BY <1>1, <1>3, <1>5, <1>6, <1>7, <1>10

LEMMA AcknowledgePlaces ==
  ASSUME TypeOK, Places, NEW c \in Consumers, Acknowledge(c)
  PROVE  /\ TypeOK' /\ Places'
         /\ pc[c] = "ack" /\ pc'[c] \in {"stopped", "fetch"} /\ view'[c] = {}
         /\ (pos[c] = acked + 1 /\ acked' = pos[c]) \/ acked' = acked
         /\ \A h \in Consumers \ {c} : GoesOn(h)
         /\ UNCHANGED <<logs, directory, cache, dropped, overlaps, blind, misled>>
<1>1. /\ pc[c] = "ack" /\ actor' = [actor EXCEPT ![c] = NoName]
      /\ \/ member = c /\ acked' = pos[c] /\ pc' = [pc EXCEPT ![c] = "fetch"]
         \/ member # c /\ acked' = acked /\ pc' = [pc EXCEPT ![c] = "stopped"]
      /\ UNCHANGED <<logs, directory, cache, active, committed, member, pos, view, restarts,
                     faults, dropped, overlaps, blind, misled>>
  BY DEF Acknowledge, Goto, History
<1>2. /\ pos[c] \in 1..Len(Stream) /\ view[c] = {}
      /\ c = member => pos[c] = acked + 1
  BY <1>1, HandHolds
<1>3. /\ pc'[c] = (IF member = c THEN "fetch" ELSE "stopped") /\ pos'[c] = pos[c] /\ view'[c] = {}
      /\ \A h \in Consumers \ {c} : GoesOn(h)
  BY <1>1, <1>2 DEF TypeOK, ConsumersOK, NamesOK, GoesOn
<1>4. acked' \in 0..Len(Stream) /\ committed \in 0..acked'
  BY <1>1, <1>2, EventsAre DEF TypeOK, OffsetsOK
<1>5. TypeOK'
  BY <1>1, <1>4 DEF TypeOK, NamesOK, Names, LogsOK, OffsetsOK, ConsumersOK, Steps, HistoryOK
<1>6. ASSUME NEW h \in Consumers PROVE Placed(h)'
  <2>1. Placed(h)
    BY DEF Places
  <2>2. CASE h = c
    BY <1>1, <1>3, <2>2 DEF Placed
  <2>3. CASE h # c
    BY <1>1, <1>3, <2>1, <2>3 DEF Placed, GoesOn
  <2> QED BY <2>2, <2>3
<1>7. Lingering' \subseteq Lingering
  BY <1>1, <1>3 DEF Lingering, InHand, GoesOn
<1>8. Places'
  BY <1>1, <1>6, <1>7, LingeringKept, ConsumerBounds DEF Places, TypeOK, HistoryOK
<1> QED BY <1>1, <1>2, <1>3, <1>5, <1>8

-----------------------------------------------------------------------------
(* Nothing is lost.                                                        *)

(* An event that needs no log, failed, or finds a log of its row and time. *)
Handled(e) == Stream[e].read \/ e \in dropped \/ Duplicate(e)

Kept ==
  /\ \A e \in 1..acked : Handled(e)
  /\ \A c \in Consumers : pc[c] = "ack" => Handled(pos[c])

LogsStay ==
  /\ dropped \subseteq dropped'
  /\ \A i \in DOMAIN logs : i \in DOMAIN logs' /\ logs'[i].event = logs[i].event

LEMMA HandledStays ==
  ASSUME LogsStay PROVE \A e : Handled(e) => Handled(e)'
BY DEF LogsStay, Handled, Duplicate

LEMMA EndsStay ==
  ASSUME TypeOK, Places, NEW c \in Consumers, Ends(c)
  PROVE  LogsStay /\ Handled(pos[c])'
<1>1. /\ Wrote(c) \/ (logs' = logs /\ pos[c] \in dropped')
      /\ dropped \subseteq dropped' /\ UNCHANGED pos
  BY EndsPlaces DEF OnMessage
<1>2. pos[c] \in Events /\ actor[c] \in Names
  <2>1. pc[c] \in {"begin", "insert"}
    BY DEF Ends, CommitTx, ProcessingFails
  <2> QED BY <2>1, HandHolds
<1>3. CASE logs' = logs /\ pos[c] \in dropped'
  BY <1>1, <1>3 DEF LogsStay, Handled
<1>4. CASE Wrote(c)
  <2>1. LET n == Len(logs) IN
          /\ n \in Nat /\ DOMAIN logs = 1..n /\ DOMAIN logs' = 1..(n + 1)
          /\ logs'[n + 1].event = pos[c] /\ \A i \in 1..n : logs'[i].event = logs[i].event
    BY <1>2, <1>4, WithLogWrites DEF Wrote, TypeOK
  <2>2. LogsStay
    BY <1>1, <2>1 DEF LogsStay
  <2>3. Handled(pos[c])'
    BY <1>1, <2>1 DEF Handled, Duplicate
  <2> QED BY <2>2, <2>3
<1> QED BY <1>1, <1>3, <1>4

LEMMA GroupKeeps ==
  ASSUME TypeOK, Kept, Regrouped PROVE Kept'
<1>1. \A e : Handled(e) => Handled(e)'
  BY HandledStays DEF Regrouped, LogsStay
<1>2. \A e \in 1..acked' : Handled(e)'
  BY <1>1 DEF Regrouped, Kept, TypeOK, OffsetsOK
<1>3. \A c \in Consumers : pc'[c] = "ack" => Handled(pos[c])'
  <2> SUFFICES ASSUME NEW c \in Consumers, pc'[c] = "ack" PROVE Handled(pos[c])'
    OBVIOUS
  <2>1. pc[c] = "ack" /\ pos'[c] = pos[c]
    BY DEF Regrouped, GoesOn
  <2>2. Handled(pos[c])
    BY <2>1 DEF Kept
  <2> QED BY <1>1, <2>1, <2>2 DEF Handled, Duplicate
<1> QED BY <1>2, <1>3 DEF Kept

(* A consumer that comes to acknowledge has handled its message.           *)
LEMMA ConsumeKeeps ==
  ASSUME TypeOK, Kept, LogsStay, NEW c \in Consumers,
         \A h \in Consumers \ {c} : GoesOn(h),
         pc'[c] = "ack" => Handled(pos[c])',
         acked' = acked \/ (pc[c] = "ack" /\ pos[c] = acked + 1 /\ acked' = pos[c])
  PROVE  Kept'
<1>1. \A e : Handled(e) => Handled(e)'
  BY HandledStays
<1>2. \A e \in 1..acked' : Handled(e)'
  <2>1. CASE acked' = acked
    BY <1>1, <2>1 DEF Kept
  <2>2. CASE pc[c] = "ack" /\ pos[c] = acked + 1 /\ acked' = pos[c]
    <3>1. Handled(acked + 1)
      BY <2>2 DEF Kept
    <3>2. \A e \in 1..acked' : e \in 1..acked \/ e = acked + 1
      BY <2>2, EventsAre DEF TypeOK, OffsetsOK
    <3> QED BY <1>1, <3>1, <3>2 DEF Kept
  <2> QED BY <2>1, <2>2
<1>3. \A h \in Consumers : pc'[h] = "ack" => Handled(pos[h])'
  <2> SUFFICES ASSUME NEW h \in Consumers, h # c, pc'[h] = "ack" PROVE Handled(pos[h])'
    OBVIOUS
  <2>1. pc[h] = "ack" /\ pos'[h] = pos[h]
    BY DEF GoesOn
  <2>2. Handled(pos[h])
    BY <2>1 DEF Kept
  <2> QED BY <1>1, <2>1, <2>2 DEF Handled, Duplicate
<1> QED BY <1>2, <1>3 DEF Kept

MessageStep(c) ==
  \/ Fetch(c) \/ WriteUser(c) \/ Resolve(c)
  \/ Check(c) \/ CheckFails(c) \/ BeginTx(c) \/ Ends(c)
  \/ Acknowledge(c)

LEMMA NextIs == Next => Group \/ \E c \in Consumers : MessageStep(c)
BY DEF Next, Consume, Group, MessageStep, Ends

LEMMA MessagePlaces ==
  ASSUME TypeOK, Places, NEW c \in Consumers, MessageStep(c)
  PROVE  TypeOK' /\ Places' /\ LogsStay /\ \A h \in Consumers \ {c} : GoesOn(h)
<1>1. CASE Fetch(c)
  BY <1>1, FetchPlaces DEF LogsStay
<1>2. CASE WriteUser(c)
  BY <1>2, WriteUserPlaces DEF WriteUser, LogsStay, OnMessage
<1>3. CASE Resolve(c)
  BY <1>3, ResolvePlaces DEF Resolve, LogsStay, OnMessage
<1>4. CASE Check(c) \/ CheckFails(c)
  <2>1. UNCHANGED <<logs, dropped>>
    BY <1>4 DEF Check, CheckFails, History
  <2> QED BY <1>4, <2>1, CheckPlaces DEF LogsStay, OnMessage
<1>5. CASE BeginTx(c)
  <2>1. UNCHANGED <<logs, dropped>>
    BY <1>5 DEF BeginTx, History
  <2> QED BY <1>5, <2>1, BeginTxPlaces DEF LogsStay, OnMessage
<1>6. CASE Ends(c)
  BY <1>6, EndsPlaces, EndsStay DEF OnMessage
<1>7. CASE Acknowledge(c)
  BY <1>7, AcknowledgePlaces DEF LogsStay
<1> QED BY <1>1, <1>2, <1>3, <1>4, <1>5, <1>6, <1>7 DEF MessageStep

LEMMA MessageKeeps ==
  ASSUME TypeOK, Places, Kept, NEW c \in Consumers, MessageStep(c)
  PROVE  Kept'
<1>1. LogsStay /\ \A h \in Consumers \ {c} : GoesOn(h)
  BY MessagePlaces
<1>2. CASE Fetch(c)
  <2>1. pc'[c] = FirstStep(pos'[c]) /\ acked' = acked
    BY <1>2, FetchPlaces
  <2>2. pc'[c] = "ack" => Handled(pos[c])'
    BY <2>1 DEF FirstStep, AfterUser, Handled
  <2> QED BY <1>1, <2>1, <2>2, ConsumeKeeps
<1>3. CASE WriteUser(c)
  <2>1. pc'[c] = AfterUser(pos[c]) /\ acked' = acked /\ pos' = pos
    BY <1>3, WriteUserPlaces DEF OnMessage
  <2>2. pc'[c] = "ack" => Handled(pos[c])'
    BY <2>1 DEF AfterUser, Handled
  <2> QED BY <1>1, <2>1, <2>2, ConsumeKeeps
<1>4. CASE Resolve(c) \/ BeginTx(c)
  <2>1. pc'[c] # "ack" /\ acked' = acked
    BY <1>4, ResolvePlaces, BeginTxPlaces DEF OnMessage
  <2> QED BY <1>1, <2>1, ConsumeKeeps
<1>5. CASE Check(c) \/ CheckFails(c)
  <2>1. /\ pc'[c] = "ack" => Duplicate(pos[c])
        /\ acked' = acked /\ pos' = pos
    BY <1>5, CheckPlaces DEF OnMessage
  <2>2. logs' = logs
    BY <1>5 DEF Check, CheckFails
  <2>3. pc'[c] = "ack" => Handled(pos[c])'
    BY <2>1, <2>2 DEF Handled, Duplicate
  <2> QED BY <1>1, <2>1, <2>3, ConsumeKeeps
<1>6. CASE Ends(c)
  <2>1. acked' = acked /\ Handled(pos[c])'
    BY <1>6, EndsPlaces, EndsStay DEF OnMessage
  <2> QED BY <1>1, <2>1, ConsumeKeeps
<1>7. CASE Acknowledge(c)
  <2>1. /\ pc[c] = "ack" /\ pc'[c] # "ack"
        /\ (pos[c] = acked + 1 /\ acked' = pos[c]) \/ acked' = acked
    BY <1>7, AcknowledgePlaces
  <2> QED BY <1>1, <2>1, ConsumeKeeps
<1> QED BY <1>2, <1>3, <1>4, <1>5, <1>6, <1>7 DEF MessageStep

-----------------------------------------------------------------------------
(* How often an event is logged.                                           *)

LEMMA NoMore ==
  ASSUME NEW S, NEW T, IsFiniteSet(S), T \subseteq S
  PROVE  /\ IsFiniteSet(T) /\ Cardinality(T) \in Nat /\ Cardinality(S) \in Nat
         /\ Cardinality(T) <= Cardinality(S)
<1>1. T \in SUBSET S
  OBVIOUS
<1> QED BY <1>1, FS_Subset, FS_CardinalityType

LEMMA OneMore ==
  ASSUME NEW S, NEW T, NEW x, IsFiniteSet(S), T \subseteq S \cup {x}
  PROVE  /\ IsFiniteSet(T) /\ Cardinality(T) \in Nat /\ Cardinality(S) \in Nat
         /\ Cardinality(T) <= Cardinality(S) + 1
<1>1. /\ IsFiniteSet(S \cup {x}) /\ Cardinality(S) \in Nat
      /\ Cardinality(S \cup {x}) \in {Cardinality(S), Cardinality(S) + 1}
  BY FS_AddElement, FS_CardinalityType
<1>2. IsFiniteSet(T) /\ Cardinality(T) \in Nat /\ Cardinality(T) <= Cardinality(S \cup {x})
  BY <1>1, NoMore
<1> QED BY <1>1, <1>2

LEMMA OneLess ==
  ASSUME NEW S, NEW T, NEW x \in S, IsFiniteSet(S), T \subseteq S \ {x}
  PROVE  /\ IsFiniteSet(T) /\ Cardinality(T) \in Nat /\ Cardinality(S) \in Nat
         /\ Cardinality(T) <= Cardinality(S) - 1
<1>1. /\ IsFiniteSet(S \ {x}) /\ Cardinality(S) \in Nat
      /\ Cardinality(S \ {x}) = Cardinality(S) - 1
  BY FS_RemoveElement, FS_CardinalityType
<1>2. IsFiniteSet(T) /\ Cardinality(T) \in Nat /\ Cardinality(T) <= Cardinality(S \ {x})
  BY <1>1, NoMore
<1> QED BY <1>1, <1>2

(* Consumers that are about to log an event, past its duplicate check.     *)
Writers(e) == {c \in Consumers : pc[c] \in {"begin", "insert"} /\ pos[c] = e}

CopiesOf(e) == Cardinality(LogsOf(e)) + Cardinality(Writers(e)) <= 1 + blind + overlaps
Copies == \A e \in Events : CopiesOf(e)

LEMMA CopiesFinite ==
  ASSUME TypeOK, NEW e
  PROVE  /\ IsFiniteSet(LogsOf(e)) /\ IsFiniteSet(Writers(e))
         /\ Cardinality(LogsOf(e)) \in Nat /\ Cardinality(Writers(e)) \in Nat
<1>1. LogsOf(e) \subseteq 1..Len(logs) /\ Len(logs) \in Nat
  BY DEF LogsOf, TypeOK, LogsOK
<1>2. IsFiniteSet(1..Len(logs))
  BY <1>1, FS_Interval
<1>3. Writers(e) \subseteq Consumers
  BY DEF Writers
<1> QED BY <1>1, <1>2, <1>3, ConsumerBounds, NoMore

LEMMA CopiesFewer ==
  ASSUME TypeOK, TypeOK', NEW e, CopiesOf(e),
         LogsOf(e)' \subseteq LogsOf(e), Writers(e)' \subseteq Writers(e),
         blind' >= blind, overlaps' >= overlaps
  PROVE  CopiesOf(e)'
<1>1. /\ Cardinality(LogsOf(e)') \in Nat /\ Cardinality(LogsOf(e)') <= Cardinality(LogsOf(e))
      /\ Cardinality(Writers(e)') \in Nat /\ Cardinality(Writers(e)') <= Cardinality(Writers(e))
      /\ Cardinality(LogsOf(e)) \in Nat /\ Cardinality(Writers(e)) \in Nat
  BY CopiesFinite, NoMore
<1>2. blind \in Nat /\ overlaps \in Nat /\ blind' \in Nat /\ overlaps' \in Nat
  BY DEF TypeOK, HistoryOK
<1> QED BY <1>1, <1>2 DEF CopiesOf

LEMMA GroupCopies ==
  ASSUME TypeOK, TypeOK', Copies, Regrouped PROVE Copies'
<1> SUFFICES ASSUME NEW e \in Events PROVE CopiesOf(e)'
  BY DEF Copies
<1>1. CopiesOf(e)
  BY DEF Copies
<1>2. LogsOf(e)' = LogsOf(e) /\ blind' = blind /\ overlaps' >= overlaps
  BY DEF Regrouped, LogsOf
<1>3. Writers(e)' \subseteq Writers(e)
  BY DEF Regrouped, Writers, GoesOn
<1> QED BY <1>1, <1>2, <1>3, CopiesFewer DEF TypeOK, HistoryOK

LEMMA CheckCopies ==
  ASSUME TypeOK, Places, Copies, NEW c \in Consumers, Check(c) \/ CheckFails(c)
  PROVE  Copies'
<1> SUFFICES ASSUME NEW e \in Events PROVE CopiesOf(e)'
  BY DEF Copies
<1>1. /\ CopiesOf(e) /\ TypeOK' /\ Places' /\ pc'[c] \in {"begin", "ack"}
      /\ pc'[c] = "begin" => ~Duplicate(pos[c]) \/ blind' = blind + 1
      /\ pos' = pos /\ overlaps' = overlaps /\ \A h \in Consumers \ {c} : GoesOn(h)
  BY CheckPlaces DEF Copies, OnMessage
<1>2. logs' = logs /\ blind' \in {blind, blind + 1} /\ blind \in Nat /\ overlaps \in Nat
  BY DEF Check, CheckFails, History, TypeOK, HistoryOK
<1>3. LogsOf(e)' = LogsOf(e)
  BY <1>2 DEF LogsOf
<1>4. CASE pc'[c] = "ack" \/ pos[c] # e
  <2>1. Writers(e)' \subseteq Writers(e)
    BY <1>1, <1>4 DEF Writers, GoesOn
  <2> QED BY <1>1, <1>2, <1>3, <2>1, CopiesFewer
<1>5. CASE blind' = blind + 1
  <2>1. Writers(e)' \subseteq Writers(e) \cup {c}
    BY <1>1 DEF Writers, GoesOn
  <2>2. /\ Cardinality(Writers(e)') \in Nat /\ Cardinality(LogsOf(e)) \in Nat
        /\ Cardinality(Writers(e)') <= Cardinality(Writers(e)) + 1
        /\ Cardinality(Writers(e)) \in Nat
    BY <2>1, CopiesFinite, OneMore
  <2> QED BY <1>1, <1>2, <1>3, <1>5, <2>2 DEF CopiesOf
<1>6. CASE pos[c] = e /\ ~Duplicate(e)
  <2>1. LogsOf(e) = {}
    BY <1>6 DEF LogsOf, Duplicate
  <2>2. Writers(e)' \subseteq InHand'
    BY DEF Writers, InHand
  <2>3. Cardinality(Lingering') <= overlaps
    BY <1>1 DEF Places
  <2>4. /\ IsFiniteSet(InHand') /\ Cardinality(InHand') \in Nat
        /\ Cardinality(InHand') <= Cardinality(Lingering') + 1 /\ Cardinality(Lingering') \in Nat
    <3>1. (/\ IsFiniteSet(InHand) /\ Cardinality(InHand) \in Nat
           /\ Cardinality(InHand) <= Cardinality(Lingering) + 1 /\ Cardinality(Lingering) \in Nat)'
      BY LingeringFinite, PTL
    <3> QED BY <3>1
  <2>5. Cardinality(Writers(e)') \in Nat /\ Cardinality(Writers(e)') <= Cardinality(InHand')
    BY <2>2, <2>4, NoMore
  <2>6. Cardinality(LogsOf(e)') = 0
    BY <1>3, <2>1, FS_EmptySet
  <2> QED BY <1>1, <1>2, <2>3, <2>4, <2>5, <2>6 DEF CopiesOf
<1> QED BY <1>1, <1>4, <1>5, <1>6

LEMMA EndsCopies ==
  ASSUME TypeOK, Places, Copies, NEW c \in Consumers, Ends(c)
  PROVE  Copies'
<1> SUFFICES ASSUME NEW e \in Events PROVE CopiesOf(e)'
  BY DEF Copies
<1>1. /\ CopiesOf(e) /\ TypeOK' /\ pc'[c] = "ack" /\ pc[c] \in {"begin", "insert"}
      /\ Wrote(c) \/ logs' = logs
      /\ pos' = pos /\ overlaps' = overlaps /\ blind' = blind
      /\ \A h \in Consumers \ {c} : GoesOn(h)
  BY EndsPlaces DEF Copies, OnMessage, Ends, CommitTx, ProcessingFails
<1>2. blind \in Nat /\ overlaps \in Nat
  BY DEF TypeOK, HistoryOK
<1>3. Writers(e)' \subseteq Writers(e) \ {c}
  BY <1>1 DEF Writers, GoesOn
<1>4. /\ DOMAIN logs = 1..Len(logs) /\ Len(logs) \in Nat
      /\ Wrote(c) => /\ DOMAIN logs' = 1..(Len(logs) + 1) /\ logs'[Len(logs) + 1].event = pos[c]
                     /\ \A i \in 1..Len(logs) : logs'[i].event = logs[i].event
  BY <1>1, HandHolds, WithLogWrites DEF Wrote, TypeOK, LogsOK
<1>5. CASE logs' = logs \/ pos[c] # e
  <2>1. LogsOf(e)' \subseteq LogsOf(e)
    BY <1>1, <1>4, <1>5 DEF LogsOf
  <2> QED BY <1>1, <1>2, <1>3, <2>1, CopiesFewer
<1>6. CASE Wrote(c) /\ pos[c] = e
  <2>1. LogsOf(e)' \subseteq LogsOf(e) \cup {Len(logs) + 1}
    BY <1>4, <1>6 DEF LogsOf
  <2>2. c \in Writers(e)
    BY <1>1, <1>6 DEF Writers
  <2>3. /\ IsFiniteSet(LogsOf(e)) /\ IsFiniteSet(Writers(e))
    BY CopiesFinite
  <2>4. /\ Cardinality(LogsOf(e)') \in Nat /\ Cardinality(LogsOf(e)) \in Nat
        /\ Cardinality(LogsOf(e)') <= Cardinality(LogsOf(e)) + 1
    BY <2>1, <2>3, OneMore
  <2>5. /\ Cardinality(Writers(e)') \in Nat /\ Cardinality(Writers(e)) \in Nat
        /\ Cardinality(Writers(e)') <= Cardinality(Writers(e)) - 1
    BY <1>3, <2>2, <2>3, OneLess
  <2> QED BY <1>1, <1>2, <2>4, <2>5 DEF CopiesOf
<1> QED BY <1>1, <1>5, <1>6

LEMMA MessageCopies ==
  ASSUME TypeOK, Places, Copies, NEW c \in Consumers, MessageStep(c)
  PROVE  Copies'
<1>1. TypeOK' /\ \A h \in Consumers \ {c} : GoesOn(h)
  BY MessagePlaces
<1>2. CASE Check(c) \/ CheckFails(c)
  BY <1>2, CheckCopies
<1>3. CASE Ends(c)
  BY <1>3, EndsCopies
<1>4. CASE Fetch(c) \/ WriteUser(c) \/ Resolve(c) \/ BeginTx(c) \/ Acknowledge(c)
  <2>1. UNCHANGED <<logs, overlaps, blind>>
    BY <1>4 DEF Fetch, WriteUser, Resolve, BeginTx, Acknowledge, History
  <2>2. \/ pc'[c] \notin {"begin", "insert"}
        \/ pc[c] = "begin" /\ pc'[c] = "insert" /\ pos' = pos
    <3>1. CASE Fetch(c)
      <4>1. pc'[c] = FirstStep(pos'[c])
        BY <3>1, FetchPlaces
      <4> QED BY <4>1 DEF FirstStep, AfterUser
    <3>2. CASE WriteUser(c)
      <4>1. pc'[c] = AfterUser(pos[c])
        BY <3>2, WriteUserPlaces
      <4> QED BY <4>1 DEF AfterUser
    <3>3. CASE Resolve(c) \/ Acknowledge(c)
      BY <3>3, ResolvePlaces, AcknowledgePlaces
    <3>4. CASE BeginTx(c)
      <4>1. pc[c] = "begin" /\ pos' = pos
        BY <3>4 DEF BeginTx
      <4> QED BY <3>4, <4>1, BeginTxPlaces
    <3> QED BY <1>4, <3>1, <3>2, <3>3, <3>4
  <2>3. \A e \in Events : LogsOf(e)' = LogsOf(e) /\ Writers(e)' \subseteq Writers(e)
    BY <1>1, <2>1, <2>2 DEF LogsOf, Writers, GoesOn
  <2> QED BY <1>1, <2>1, <2>3, CopiesFewer DEF Copies, TypeOK, HistoryOK
<1> QED BY <1>2, <1>3, <1>4 DEF MessageStep

-----------------------------------------------------------------------------
(* How many logs of a resource are the latest.                             *)

Resource(i) == Stream[logs[i].event].resource

Views ==
  \A c \in Consumers : pc[c] = "insert" => view[c] \subseteq EarlierLogs(pos[c])

(* The latest logs of a resource from log i on, and the open transactions  *)
(* on it that will leave log i the latest.                                 *)
Later(i) == {j \in LatestOf(Resource(i)) : j >= i}
Unseeing(i) ==
  {c \in Consumers : /\ pc[c] = "insert" /\ Stream[pos[c]].resource = Resource(i)
                     /\ i \notin view[c]}

LatestFrom(i) == Cardinality(Later(i)) + Cardinality(Unseeing(i)) <= 1 + overlaps
LatestAt(i) ==
  /\ LatestOf(Resource(i)) # {}
  /\ logs[i].latest => LatestFrom(i)
Latests == \A i \in DOMAIN logs : LatestAt(i)

LEMMA LatestFinite ==
  ASSUME TypeOK, NEW i
  PROVE  /\ IsFiniteSet(Later(i)) /\ IsFiniteSet(Unseeing(i))
         /\ Cardinality(Later(i)) \in Nat /\ Cardinality(Unseeing(i)) \in Nat
<1>1. Later(i) \subseteq 1..Len(logs) /\ Len(logs) \in Nat
  BY DEF Later, LatestOf, TypeOK, LogsOK
<1>2. IsFiniteSet(1..Len(logs))
  BY <1>1, FS_Interval
<1>3. Unseeing(i) \subseteq Consumers
  BY DEF Unseeing
<1> QED BY <1>1, <1>2, <1>3, ConsumerBounds, NoMore

LEMMA LatestFewer ==
  ASSUME TypeOK, TypeOK', NEW i, LatestFrom(i),
         Later(i)' \subseteq Later(i), Unseeing(i)' \subseteq Unseeing(i),
         overlaps' >= overlaps
  PROVE  LatestFrom(i)'
<1>1. /\ Cardinality(Later(i)') \in Nat /\ Cardinality(Later(i)') <= Cardinality(Later(i))
      /\ Cardinality(Unseeing(i)') \in Nat
      /\ Cardinality(Unseeing(i)') <= Cardinality(Unseeing(i))
      /\ Cardinality(Later(i)) \in Nat /\ Cardinality(Unseeing(i)) \in Nat
  BY LatestFinite, NoMore
<1>2. overlaps \in Nat /\ overlaps' \in Nat
  BY DEF TypeOK, HistoryOK
<1> QED BY <1>1, <1>2 DEF LatestFrom

(* As long as nothing is written, a transaction may begin: it sees all.    *)
LEMMA NothingWritten ==
  ASSUME TypeOK, TypeOK', Views, Latests, logs' = logs, overlaps' >= overlaps,
         \A c \in Consumers :
           GoesOn(c) \/ pc'[c] # "insert" \/ view'[c] = EarlierLogs(pos[c])'
  PROVE  Views' /\ Latests'
<1>1. \A e : EarlierLogs(e)' = EarlierLogs(e)
  BY DEF EarlierLogs
<1>2. Views'
  BY <1>1 DEF Views, GoesOn, EarlierLogs
<1>3. ASSUME NEW i \in DOMAIN logs PROVE LatestAt(i)'
  <2>1. LatestAt(i)
    BY DEF Latests
  <2>2. Later(i)' = Later(i) /\ LatestOf(Resource(i))' = LatestOf(Resource(i))
    BY DEF Later, LatestOf, Resource
  <2>3. Unseeing(i)' \subseteq Unseeing(i)
    BY DEF Unseeing, Resource, GoesOn, EarlierLogs
  <2>4. logs[i].latest => LatestFrom(i)'
    BY <2>1, <2>2, <2>3, LatestFewer DEF LatestAt
  <2> QED BY <2>1, <2>2, <2>4 DEF LatestAt
<1> QED BY <1>2, <1>3 DEF Latests

LEMMA WrittenLatest ==
  ASSUME TypeOK, Places, Views, Latests, NEW c \in Consumers, Ends(c), Wrote(c)
  PROVE  Views' /\ Latests'
<1>1. /\ TypeOK' /\ pc'[c] = "ack" /\ pc[c] = "insert" /\ c \in InHand
      /\ pos' = pos /\ overlaps' = overlaps /\ overlaps \in Nat
      /\ \A h \in Consumers \ {c} : GoesOn(h)
  BY EndsPlaces DEF OnMessage, Wrote, InHand, TypeOK, HistoryOK
<1>2. PICK n \in Nat : n = Len(logs)
  BY DEF TypeOK, LogsOK
<1>3. PICK e \in Events : e = pos[c]
  BY <1>1, HandHolds
<1>4. /\ DOMAIN logs = 1..n /\ DOMAIN logs' = 1..(n + 1)
      /\ logs'[n + 1].event = e /\ logs'[n + 1].latest
      /\ \A i \in 1..n : /\ logs'[i].event = logs[i].event
                         /\ logs'[i].latest <=> logs[i].latest /\ i \notin view[c]
  BY <1>1, <1>2, <1>3, HandHolds, WithLogWrites DEF Wrote, TypeOK
<1>5. view[c] \subseteq EarlierLogs(e)
  BY <1>1, <1>3 DEF Views
<1>6. Views'
  <2> SUFFICES ASSUME NEW h \in Consumers, pc'[h] = "insert"
               PROVE  view'[h] \subseteq EarlierLogs(pos[h])'
    BY DEF Views
  <2>1. h # c /\ view'[h] = view[h] /\ view[h] \subseteq EarlierLogs(pos[h])
    BY <1>1 DEF Views, GoesOn
  <2> QED BY <1>1, <1>4, <2>1 DEF EarlierLogs
<1>7. ASSUME NEW i \in 1..n PROVE LatestAt(i)'
  <2>1. LatestAt(i) /\ i \in DOMAIN logs'
    BY <1>4 DEF Latests
  <2>2. Resource(i)' = Resource(i) /\ Resource(n + 1)' = Stream[e].resource
    BY <1>4 DEF Resource
  <2>3. CASE Resource(i) = Stream[e].resource
    <3>1. n + 1 \in LatestOf(Resource(i))'
      BY <1>4, <2>2, <2>3 DEF LatestOf
    <3>2. ASSUME logs'[i].latest PROVE LatestFrom(i)'
      <4>1. i \notin view[c] /\ LatestFrom(i)
        BY <1>4, <2>1, <3>2 DEF LatestAt
      <4>2. Later(i)' \subseteq Later(i) \cup {n + 1}
        BY <1>4, <2>2 DEF Later, LatestOf
      <4>3. c \in Unseeing(i)
        BY <1>1, <1>3, <2>3, <4>1 DEF Unseeing
      <4>4. Unseeing(i)' \subseteq Unseeing(i) \ {c}
        BY <1>1, <2>2 DEF Unseeing, GoesOn
      <4>5. IsFiniteSet(Later(i)) /\ IsFiniteSet(Unseeing(i))
        BY LatestFinite
      <4>6. /\ Cardinality(Later(i)') \in Nat /\ Cardinality(Later(i)) \in Nat
            /\ Cardinality(Later(i)') <= Cardinality(Later(i)) + 1
        BY <4>2, <4>5, OneMore
      <4>7. /\ Cardinality(Unseeing(i)') \in Nat /\ Cardinality(Unseeing(i)) \in Nat
            /\ Cardinality(Unseeing(i)') <= Cardinality(Unseeing(i)) - 1
        BY <4>3, <4>4, <4>5, OneLess
      <4> QED BY <1>1, <4>1, <4>6, <4>7 DEF LatestFrom
    <3> QED BY <3>1, <3>2 DEF LatestAt
  <2>4. CASE Resource(i) # Stream[e].resource
    <3>1. \A j \in 1..n : Resource(j) = Resource(i) => j \notin view[c]
      BY <1>5, <2>4 DEF EarlierLogs, Resource
    <3>2. LatestOf(Resource(i))' = LatestOf(Resource(i))
      BY <1>4, <2>2, <2>4, <3>1 DEF LatestOf, Resource
    <3>3. Later(i)' = Later(i)
      BY <3>2 DEF Later
    <3>4. Unseeing(i)' \subseteq Unseeing(i)
      BY <1>1, <2>2 DEF Unseeing, GoesOn
    <3>5. logs'[i].latest => LatestFrom(i)'
      BY <1>1, <1>4, <2>1, <3>3, <3>4, LatestFewer DEF LatestAt
    <3> QED BY <2>1, <3>2, <3>5 DEF LatestAt
  <2> QED BY <2>3, <2>4
<1>8. LatestAt(n + 1)'
  <2>1. n + 1 \in LatestOf(Resource(n + 1))'
    BY <1>4 DEF LatestOf, Resource
  <2>2. Later(n + 1)' \subseteq {n + 1}
    BY <1>4 DEF Later, LatestOf
  <2>3. Cardinality(Later(n + 1)') \in Nat /\ Cardinality(Later(n + 1)') <= 1
    <3>1. IsFiniteSet({n + 1}) /\ Cardinality({n + 1}) = 1
      BY FS_Singleton
    <3> QED BY <2>2, <3>1, NoMore
  <2>4. Unseeing(n + 1)' \subseteq InHand \ {c}
    BY <1>1 DEF Unseeing, InHand, GoesOn
  <2>5. /\ IsFiniteSet(InHand) /\ Cardinality(InHand) \in Nat
        /\ Cardinality(InHand) <= Cardinality(Lingering) + 1 /\ Cardinality(Lingering) \in Nat
        /\ Cardinality(Lingering) <= overlaps
    BY LingeringFinite DEF Places
  <2>6. /\ Cardinality(Unseeing(n + 1)') \in Nat
        /\ Cardinality(Unseeing(n + 1)') <= Cardinality(InHand) - 1
    BY <1>1, <2>4, <2>5, OneLess
  <2>7. LatestFrom(n + 1)'
    BY <1>1, <2>3, <2>5, <2>6 DEF LatestFrom
  <2> QED BY <2>1, <2>7 DEF LatestAt
<1>9. \A i \in DOMAIN logs' : i \in 1..n \/ i = n + 1
  BY <1>4
<1> QED BY <1>6, <1>7, <1>8, <1>9 DEF Latests

LEMMA MessageLatest ==
  ASSUME TypeOK, Places, Views, Latests, NEW c \in Consumers, MessageStep(c)
  PROVE  Views' /\ Latests'
<1>1. TypeOK' /\ Places' /\ \A h \in Consumers \ {c} : GoesOn(h)
  BY MessagePlaces
<1>2. CASE Ends(c) /\ Wrote(c)
  BY <1>2, WrittenLatest
<1>3. CASE ~(Ends(c) /\ Wrote(c))
  <2>1. logs' = logs /\ overlaps' = overlaps
    BY <1>3, EndsPlaces DEF MessageStep, Fetch, WriteUser, Resolve, Check, CheckFails, BeginTx,
       Acknowledge, History, OnMessage
  <2>2. pc'[c] # "insert" \/ view'[c] = EarlierLogs(pos[c])'
    <3>1. CASE Fetch(c)
      <4>1. pc'[c] = FirstStep(pos'[c])
        BY <3>1, FetchPlaces
      <4> QED BY <4>1 DEF FirstStep, AfterUser
    <3>2. CASE WriteUser(c)
      <4>1. pc'[c] = AfterUser(pos[c])
        BY <3>2, WriteUserPlaces
      <4> QED BY <4>1 DEF AfterUser
    <3>3. CASE Resolve(c) \/ Acknowledge(c) \/ Ends(c)
      BY <3>3, ResolvePlaces, AcknowledgePlaces, EndsPlaces
    <3>4. CASE Check(c) \/ CheckFails(c)
      BY <3>4, CheckPlaces
    <3>5. CASE BeginTx(c)
      <4>1. view'[c] = EarlierLogs(pos[c]) /\ pos' = pos
        BY <3>5, BeginTxPlaces DEF OnMessage
      <4> QED BY <2>1, <4>1 DEF EarlierLogs
    <3> QED BY <3>1, <3>2, <3>3, <3>4, <3>5 DEF MessageStep
  <2> QED BY <1>1, <2>1, <2>2, NothingWritten DEF TypeOK, HistoryOK
<1> QED BY <1>2, <1>3

LEMMA GroupLatest ==
  ASSUME TypeOK, TypeOK', Views, Latests, Regrouped
  PROVE  Views' /\ Latests'
<1>1. logs' = logs /\ overlaps' >= overlaps
  BY DEF Regrouped
<1>2. \A c \in Consumers :
        GoesOn(c) \/ pc'[c] # "insert" \/ view'[c] = EarlierLogs(pos[c])'
  BY DEF Regrouped
<1> QED BY <1>1, <1>2, NothingWritten

(* A set of natural numbers that is not empty has a smallest element.      *)
LEMMA SmallestExists ==
  ASSUME NEW T \in SUBSET Nat, T # {}
  PROVE  \E x \in T : \A y \in T : x <= y
<1> DEFINE R == StrictSubsetOrdering(Nat)
           F == FiniteSubsetsOf(Nat)
           I == {0..x : x \in T}
<1>1. I \subseteq F /\ I # {}
  <2>1. ASSUME NEW x \in T PROVE (0..x) \subseteq Nat /\ IsFiniteSet(0..x)
    BY FS_Interval
  <2> QED BY <2>1 DEF FiniteSubsetsOf
<1>2. IsWellFoundedOn(R, F)
  BY FS_StrictSubsetOrderingWellFounded
<1>3. PICK s \in I : \A t \in I : ~(<<t, s>> \in R)
  <2> HIDE DEF R, F, I
  <2> QED BY <1>1, <1>2, WFMin
<1>4. PICK x \in T : s = 0..x
  OBVIOUS
<1>5. ASSUME NEW y \in T, y < x PROVE FALSE
  <2>1. 0..y \in I /\ 0..y \subseteq 0..x /\ 0..y # 0..x /\ 0..x \subseteq Nat
    BY <1>5
  <2> QED BY <2>1, <1>3, <1>4 DEF StrictSubsetOrdering
<1> QED BY <1>5

(* Counted from the first of them, the latest logs are all counted.        *)
LEMMA LatestBounded ==
  ASSUME TypeOK, Latests PROVE LatestExplained
<1> SUFFICES ASSUME NEW i \in DOMAIN logs
             PROVE  Cardinality(LatestOf(Resource(i))) \in 1..(1 + overlaps)
  BY DEF LatestExplained, Resource
<1>1. LatestOf(Resource(i)) # {} /\ overlaps \in Nat
  BY DEF Latests, LatestAt, TypeOK, HistoryOK
<1>2. LatestOf(Resource(i)) \in SUBSET Nat
  BY DEF LatestOf, TypeOK, LogsOK
<1>3. PICK m \in LatestOf(Resource(i)) : \A j \in LatestOf(Resource(i)) : m <= j
  BY <1>1, <1>2, SmallestExists
<1>4. m \in DOMAIN logs /\ Resource(m) = Resource(i) /\ logs[m].latest
  BY <1>3 DEF LatestOf, Resource
<1>5. Later(m) = LatestOf(Resource(i))
  BY <1>2, <1>3, <1>4 DEF Later
<1>6. Cardinality(Later(m)) + Cardinality(Unseeing(m)) <= 1 + overlaps
  BY <1>4 DEF Latests, LatestAt, LatestFrom
<1>7. /\ IsFiniteSet(Later(m)) /\ Cardinality(Later(m)) \in Nat
      /\ Cardinality(Unseeing(m)) \in Nat
  BY LatestFinite
<1>8. Cardinality(Later(m)) # 0
  BY <1>1, <1>5, <1>7, FS_EmptySet
<1> QED BY <1>1, <1>5, <1>6, <1>7, <1>8

-----------------------------------------------------------------------------
(* The actor of a log.                                                     *)

(* The user is called as the last change before says, or as this one does. *)
LEMMA NameAtStep ==
  ASSUME NEW e \in Events
  PROVE  NameAt(e) = IF Stream[e].name # NoName THEN Stream[e].name ELSE NameAt(e - 1)
<1> DEFINE K(x) == {n \in 1..x : Stream[n].name # NoName}
           Latest(S) == IF S = {} THEN NoName
                        ELSE Stream[CHOOSE n \in S : \A k \in S : k <= n].name
<1>1. e \in Nat /\ e >= 1 /\ e - 1 \in Nat
  BY EventsAre
<1>2. CASE Stream[e].name # NoName
  <2>1. e \in K(e) /\ \A k \in K(e) : k <= e
    BY <1>1, <1>2
  <2>2. (CHOOSE n \in K(e) : \A k \in K(e) : k <= n) = e
    <3>1. \A n \in K(e) : (\A k \in K(e) : k <= n) => n = e
      BY <1>1, <2>1
    <3> QED BY <2>1, <3>1
  <2>3. NameAt(e) = Stream[CHOOSE n \in K(e) : \A k \in K(e) : k <= n].name
    BY <2>1 DEF NameAt
  <2> QED BY <1>2, <2>2, <2>3
<1>3. CASE Stream[e].name = NoName
  <2>1. K(e) = K(e - 1)
    BY <1>1, <1>3
  <2>2. NameAt(e) = Latest(K(e)) /\ NameAt(e - 1) = Latest(K(e - 1))
    BY DEF NameAt
  <2>3. NameAt(e) = NameAt(e - 1)
    <3> HIDE DEF K, Latest
    <3> QED BY <2>1, <2>2
  <2> QED BY <1>3, <2>3
<1> QED BY <1>2, <1>3

LEMMA NameAtZero == NameAt(0) = NoName
<1>1. {n \in 1..0 : Stream[n].name # NoName} = {}
  OBVIOUS
<1> QED BY <1>1 DEF NameAt

Clean == overlaps = 0 /\ blind = 0 /\ misled = 0

(* The directory calls the user as the stream does after event k, and no   *)
(* message before it is still to be logged.                                *)
Said(k) ==
  /\ directory = NameAt(k) /\ k >= acked
  /\ \A e \in 1..(k - 1) : Handled(e)
  /\ \A c \in Consumers : pc[c] \in {"resolve", "check", "begin", "insert", "ack"} => k >= pos[c]

Translated(c) ==
  /\ pc[c] \in {"check", "begin", "insert"} => actor[c] = directory
  /\ pc[c] \in {"begin", "insert"} => ~Duplicate(pos[c])

ActorOK(i) == logs[i].actor = NameAt(logs[i].event) \/ logs[i].event \in dropped

Spoken ==
  /\ \E k \in 0..Len(Stream) : Said(k)
  /\ \A c \in Consumers : Translated(c)
  /\ \A i \in DOMAIN logs : ActorOK(i)

Actors ==
  /\ cache \in {NoName, directory}
  /\ Clean => Spoken

(* Without an overlap only the member has a message in hand.               *)
LEMMA AloneInHand ==
  ASSUME TypeOK, Places, Clean, NEW c \in Consumers, c \in InHand
  PROVE  /\ c = member /\ pos[c] = acked + 1 /\ pos[c] \in Events
         /\ \A h \in Consumers \ {c} : pc[h] \in {"stopped", "fetch"}
<1>1. IsFiniteSet(Lingering) /\ Cardinality(Lingering) \in Nat /\ Cardinality(Lingering) <= 0
  BY LingeringFinite DEF Places, Clean
<1>2. Lingering = {}
  BY <1>1, FS_EmptySet
<1>3. \A h \in Consumers : h \in InHand => h = member
  BY <1>2 DEF Lingering
<1>4. Placed(c)
  BY DEF Places
<1> QED BY <1>3, <1>4 DEF InHand, Placed

LEMMA GroupActors ==
  ASSUME TypeOK, TypeOK', Places, Actors, Regrouped
  PROVE  Actors'
<1>1. /\ UNCHANGED <<logs, directory, dropped, blind, misled>>
      /\ overlaps' \in Nat /\ overlaps' >= overlaps /\ overlaps \in Nat
      /\ acked' <= acked /\ acked \in Nat /\ acked' \in Nat
      /\ cache' \in {cache, NoName}
      /\ \A c \in Consumers :
           GoesOn(c) \/ (pc'[c] \in {"stopped", "fetch"} /\ view'[c] = {})
  BY EventsAre DEF Regrouped, TypeOK, HistoryOK, OffsetsOK
<1>2. cache' \in {NoName, directory'}
  BY <1>1 DEF Actors
<1>3. ASSUME Clean' PROVE Spoken'
  <2>1. Clean /\ Spoken
    BY <1>1, <1>3 DEF Clean, Actors
  <2>2. \A e : Handled(e) => Handled(e)'
    BY <1>1 DEF Handled, Duplicate
  <2>3. PICK k \in 0..Len(Stream) : Said(k)
    BY <2>1 DEF Spoken
  <2>4. Said(k)'
    <3>1. directory' = NameAt(k) /\ k >= acked' /\ \A e \in 1..(k - 1) : Handled(e)'
      BY <1>1, <2>2, <2>3, EventsAre DEF Said
    <3>2. \A c \in Consumers :
            pc'[c] \in {"resolve", "check", "begin", "insert", "ack"} => k >= pos'[c]
      BY <1>1, <2>3 DEF Said, GoesOn
    <3> QED BY <3>1, <3>2 DEF Said
  <2>5. \A c \in Consumers : Translated(c)'
    BY <1>1, <2>1 DEF Spoken, Translated, GoesOn, Duplicate
  <2>6. \A i \in DOMAIN logs' : ActorOK(i)'
    BY <1>1, <2>1 DEF Spoken, ActorOK
  <2> QED BY <2>3, <2>4, <2>5, <2>6 DEF Spoken
<1> QED BY <1>2, <1>3 DEF Actors

(* What is left to show of a consumer's step, without an overlap and an    *)
(* error of the directory before it: that the directory has said a name    *)
(* that fits, and that the consumer's own message has its actor.           *)
LEMMA StepSpeaks ==
  ASSUME TypeOK, Places, Spoken, Clean, LogsStay, logs' = logs, NEW c \in Consumers,
         \A h \in Consumers \ {c} : GoesOn(h),
         NEW k \in 0..Len(Stream), c \in InHand \/ c = member,
         directory' = NameAt(k), k >= acked',
         \A e \in 1..(k - 1) : Handled(e),
         pc'[c] \in {"resolve", "check", "begin", "insert", "ack"} => k >= pos'[c],
         Translated(c)'
  PROVE  Spoken'
<1>1. \A h \in Consumers \ {c} : pc'[h] \in {"stopped", "fetch"}
  <2> SUFFICES ASSUME NEW h \in Consumers, h # c, h \in InHand PROVE FALSE
    BY DEF GoesOn, InHand
  <2>1. h = member
    BY AloneInHand
  <2>2. c \in InHand => c = member
    BY AloneInHand
  <2> QED BY <2>1, <2>2
<1>2. Said(k)'
  <2>1. \A e \in 1..(k - 1) : Handled(e)'
    BY HandledStays
  <2> QED BY <1>1, <2>1 DEF Said
<1>3. \A h \in Consumers : Translated(h)'
  BY <1>1 DEF Translated
<1>4. \A i \in DOMAIN logs' : ActorOK(i)'
  BY DEF Spoken, ActorOK, LogsStay
<1> QED BY <1>2, <1>3, <1>4 DEF Spoken

LEMMA FetchActors ==
  ASSUME TypeOK, Places, Kept, Actors, NEW c \in Consumers, Fetch(c)
  PROVE  Actors'
<1>1. PICK e \in Events : e = pos'[c]
  BY FetchPlaces
<1>2. /\ c = member /\ e = acked + 1 /\ pc'[c] = FirstStep(e) /\ acked \in Nat
      /\ \A h \in Consumers \ {c} : GoesOn(h)
      /\ UNCHANGED <<logs, directory, cache, acked, dropped, overlaps, blind, misled>>
  <2>1. c = member /\ acked \in Nat
    BY EventsAre DEF Fetch, TypeOK, OffsetsOK
  <2> QED BY <1>1, <2>1, FetchPlaces
<1>3. ASSUME Clean' PROVE Spoken'
  <2>1. Clean /\ Spoken /\ LogsStay
    BY <1>2, <1>3 DEF Clean, Actors, LogsStay
  <2>2. PICK k \in 0..Len(Stream) : Said(k)
    BY <2>1 DEF Spoken
  <2>3. Translated(c)'
    BY <1>2 DEF Translated, FirstStep, AfterUser
  <2>4. CASE pc'[c] = "user" \/ k >= e
    <3>1. pc'[c] \in {"resolve", "check", "begin", "insert", "ack"} => k >= pos'[c]
      BY <1>1, <2>4
    <3> QED BY <1>2, <2>1, <2>2, <2>3, <3>1, StepSpeaks DEF Said
  <2>5. CASE pc'[c] # "user" /\ ~(k >= e)
    <3>1. Stream[e].name = NoName
      BY <1>2, <2>5 DEF FirstStep
    <3>2. k = e - 1
      BY <1>2, <2>2, <2>5, EventsAre DEF Said
    <3>3. directory' = NameAt(e) /\ e \in 0..Len(Stream) /\ e >= acked'
      BY <1>2, <2>2, <3>1, <3>2, NameAtStep, EventsAre DEF Said
    <3>4. \A d \in 1..(e - 1) : Handled(d)
      BY <1>2 DEF Kept
    <3>5. e >= pos'[c]
      BY <1>1, EventsAre
    <3> QED BY <1>2, <2>1, <2>3, <3>3, <3>4, <3>5, StepSpeaks
  <2> QED BY <2>4, <2>5
<1> QED BY <1>2, <1>3 DEF Actors

LEMMA WriteUserActors ==
  ASSUME TypeOK, Places, Kept, Actors, NEW c \in Consumers, WriteUser(c)
  PROVE  Actors'
<1>1. /\ pc[c] = "user" /\ pc'[c] = AfterUser(pos[c]) /\ cache' = NoName
      /\ directory' = Stream[pos[c]].name \/ misled' = misled + 1
      /\ misled' \in {misled, misled + 1} /\ misled \in Nat
      /\ \A h \in Consumers \ {c} : GoesOn(h)
      /\ UNCHANGED <<logs, acked, pos, dropped, overlaps, blind>>
  BY WriteUserPlaces DEF WriteUser, OnMessage, Spend, TypeOK, HistoryOK
<1>2. ASSUME Clean' PROVE Spoken'
  <2>1. Clean /\ Spoken /\ LogsStay /\ directory' = Stream[pos[c]].name
    BY <1>1, <1>2 DEF Clean, Actors, LogsStay
  <2>2. c \in InHand
    BY <1>1 DEF InHand
  <2>3. PICK e \in Events : e = pos[c] /\ e = acked + 1
    BY <2>1, <2>2, AloneInHand
  <2>4. Stream[e].name # NoName
    BY <1>1, <2>3 DEF Places, Placed
  <2>5. directory' = NameAt(e) /\ e \in 0..Len(Stream) /\ e >= acked'
    BY <1>1, <2>1, <2>3, <2>4, NameAtStep, EventsAre DEF TypeOK, OffsetsOK
  <2>6. \A d \in 1..(e - 1) : Handled(d)
    BY <2>3, EventsAre DEF Kept, TypeOK, OffsetsOK
  <2>7. e >= pos'[c]
    BY <1>1, <2>3, EventsAre
  <2>8. Translated(c)'
    BY <1>1 DEF Translated, AfterUser
  <2> QED BY <1>1, <2>1, <2>2, <2>5, <2>6, <2>7, <2>8, StepSpeaks
<1> QED BY <1>1, <1>2 DEF Actors

LEMMA QuietActors ==
  ASSUME TypeOK, Places, Actors, NEW c \in Consumers,
         Resolve(c) \/ Check(c) \/ CheckFails(c) \/ BeginTx(c)
  PROVE  Actors'
<1>1. /\ pc[c] \in {"resolve", "check", "begin"}
      /\ UNCHANGED <<logs, directory, acked, pos, dropped, overlaps>>
      /\ blind' \in {blind, blind + 1} /\ blind \in Nat
      /\ misled' \in {misled, misled + 1} /\ misled \in Nat
      /\ \A h \in Consumers \ {c} : GoesOn(h)
  BY ResolvePlaces, CheckPlaces, BeginTxPlaces
     DEF OnMessage, Resolve, Check, CheckFails, BeginTx, Spend, names, History, TypeOK, HistoryOK
<1>2. cache' \in {NoName, directory'}
  BY <1>1 DEF Resolve, Check, CheckFails, BeginTx, names, Actors
<1>3. ASSUME Clean' PROVE Spoken'
  <2>1. Clean /\ Spoken /\ LogsStay /\ misled' = misled /\ blind' = blind
    BY <1>1, <1>3 DEF Clean, Actors, LogsStay
  <2>2. c \in InHand
    BY <1>1 DEF InHand
  <2>3. PICK k \in 0..Len(Stream) : Said(k)
    BY <2>1 DEF Spoken
  <2>4. k >= pos'[c]
    BY <1>1, <2>3 DEF Said
  <2>5. Translated(c)
    BY <2>1 DEF Spoken
  <2>6. Translated(c)'
    <3>1. CASE Resolve(c)
      <4>1. actor' = [actor EXCEPT ![c] = IF cache # NoName THEN cache ELSE directory]
        BY <2>1, <3>1, <1>1 DEF Resolve, Spend
      <4>2. actor'[c] = directory /\ pc'[c] = "check"
        BY <3>1, <4>1, ResolvePlaces DEF Actors, TypeOK, NamesOK
      <4> QED BY <1>1, <4>2 DEF Translated
    <3>2. CASE Check(c) \/ CheckFails(c)
      <4>1. /\ actor' = actor /\ pc[c] = "check" /\ pc'[c] \in {"begin", "ack"}
            /\ pc'[c] = "begin" => ~Duplicate(pos[c]) \/ blind' = blind + 1
        BY <3>2, CheckPlaces DEF Check, CheckFails, names
      <4> QED BY <1>1, <2>1, <2>5, <4>1 DEF Translated, Duplicate
    <3>3. CASE BeginTx(c)
      <4>1. actor' = actor /\ pc[c] = "begin" /\ pc'[c] = "insert"
        BY <3>3, BeginTxPlaces DEF BeginTx, names
      <4> QED BY <1>1, <2>5, <4>1 DEF Translated, Duplicate
    <3> QED BY <3>1, <3>2, <3>3
  <2> QED BY <1>1, <2>1, <2>2, <2>3, <2>4, <2>6, StepSpeaks DEF Said
<1> QED BY <1>2, <1>3 DEF Actors

LEMMA AcknowledgeActors ==
  ASSUME TypeOK, Places, Actors, NEW c \in Consumers, Acknowledge(c)
  PROVE  Actors'
<1>1. /\ pc[c] = "ack" /\ pc'[c] \in {"stopped", "fetch"} /\ acked' \in {acked, pos[c]}
      /\ \A h \in Consumers \ {c} : GoesOn(h)
      /\ UNCHANGED <<logs, directory, cache, dropped, overlaps, blind, misled>>
  BY AcknowledgePlaces
<1>2. ASSUME Clean' PROVE Spoken'
  <2>1. Clean /\ Spoken /\ LogsStay
    BY <1>1, <1>2 DEF Clean, Actors, LogsStay
  <2>2. c \in InHand
    BY <1>1 DEF InHand
  <2>3. PICK k \in 0..Len(Stream) : Said(k)
    BY <2>1 DEF Spoken
  <2>4. k >= acked'
    BY <1>1, <2>3 DEF Said
  <2>5. Translated(c)'
    BY <1>1 DEF Translated
  <2> QED BY <1>1, <2>1, <2>2, <2>3, <2>4, <2>5, StepSpeaks DEF Said
<1> QED BY <1>1, <1>2 DEF Actors

(* A message that is being logged was handled by no event after it.        *)
LEMMA EndsActors ==
  ASSUME TypeOK, Places, Actors, NEW c \in Consumers, Ends(c)
  PROVE  Actors'
<1>1. /\ pc[c] \in {"begin", "insert"} /\ pc'[c] = "ack"
      /\ Wrote(c) \/ (logs' = logs /\ pos[c] \in dropped')
      /\ dropped \subseteq dropped' /\ LogsStay
      /\ UNCHANGED <<directory, cache, acked, pos, overlaps, blind, misled>>
      /\ \A h \in Consumers \ {c} : GoesOn(h)
  BY EndsPlaces, EndsStay DEF OnMessage, Ends, CommitTx, ProcessingFails
<1>2. ASSUME Clean' PROVE Spoken'
  <2>1. Clean /\ Spoken
    BY <1>1, <1>2 DEF Clean, Actors
  <2>2. c \in InHand
    BY <1>1 DEF InHand
  <2>3. /\ \A h \in Consumers \ {c} : pc[h] \in {"stopped", "fetch"}
        /\ pos[c] \in Events /\ ~Stream[pos[c]].read /\ actor[c] \in Names
    BY <1>1, <2>1, <2>2, AloneInHand, HandHolds
  <2>4. PICK k \in 0..Len(Stream) : Said(k)
    BY <2>1 DEF Spoken
  <2>5. Said(k)'
    <3>1. \A e \in 1..(k - 1) : Handled(e)'
      BY <1>1, <2>4, HandledStays DEF Said
    <3>2. directory' = NameAt(k) /\ k >= acked' /\ k >= pos'[c]
      BY <1>1, <2>4 DEF Said
    <3>3. \A h \in Consumers :
            pc'[h] \in {"resolve", "check", "begin", "insert", "ack"} => k >= pos'[h]
      BY <1>1, <2>3, <3>2 DEF GoesOn
    <3> QED BY <3>1, <3>2, <3>3 DEF Said
  <2>6. \A h \in Consumers : Translated(h)'
    BY <1>1, <2>3 DEF Translated, GoesOn
  <2>7. \A i \in DOMAIN logs' : ActorOK(i)'
    <3>1. CASE logs' = logs
      BY <1>1, <2>1, <3>1 DEF Spoken, ActorOK
    <3>2. CASE Wrote(c)
      <4>1. PICK n \in Nat : n = Len(logs)
        BY DEF TypeOK, LogsOK
      <4>2. /\ DOMAIN logs = 1..n /\ DOMAIN logs' = 1..(n + 1)
            /\ logs'[n + 1].event = pos[c] /\ logs'[n + 1].actor = actor[c]
            /\ \A i \in 1..n : logs'[i].event = logs[i].event /\ logs'[i].actor = logs[i].actor
        BY <2>3, <3>2, <4>1, WithLogWrites DEF Wrote, TypeOK
      <4>3. ASSUME NEW i \in 1..n PROVE ActorOK(i)'
        BY <1>1, <2>1, <4>2 DEF Spoken, ActorOK
      <4>4. ActorOK(n + 1)'
        <5>1. actor[c] = NameAt(k) /\ ~Duplicate(pos[c]) /\ k >= pos[c]
          BY <1>1, <2>1, <2>4 DEF Spoken, Said, Translated
        <5>2. CASE pos[c] \in dropped
          BY <1>1, <4>2, <5>2 DEF ActorOK
        <5>3. CASE pos[c] \notin dropped
          <6>1. ~Handled(pos[c])
            BY <2>3, <5>1, <5>3 DEF Handled
          <6>2. pos[c] = k
            BY <2>3, <2>4, <5>1, <6>1, EventsAre DEF Said
          <6> QED BY <4>2, <5>1, <6>2 DEF ActorOK
        <5> QED BY <5>2, <5>3
      <4>5. \A i \in DOMAIN logs' : i \in 1..n \/ i = n + 1
        BY <4>2
      <4> QED BY <4>3, <4>4, <4>5
    <3> QED BY <1>1, <3>1, <3>2
  <2> QED BY <2>4, <2>5, <2>6, <2>7 DEF Spoken
<1> QED BY <1>1, <1>2 DEF Actors

LEMMA MessageActors ==
  ASSUME TypeOK, Places, Kept, Actors, NEW c \in Consumers, MessageStep(c)
  PROVE  Actors'
BY FetchActors, WriteUserActors, QuietActors, AcknowledgeActors, EndsActors DEF MessageStep

-----------------------------------------------------------------------------
(* The theorems.                                                           *)

CdcInv == TypeOK /\ Places /\ Kept /\ Copies /\ Views /\ Latests /\ Actors

LEMMA InitHolds == Init => CdcInv
<1> SUFFICES ASSUME Init PROVE CdcInv
  OBVIOUS
<1>1. /\ logs = <<>> /\ DOMAIN logs = {} /\ acked = 0 /\ committed = 0
      /\ directory = NoName /\ cache = NoName
      /\ member = Nobody /\ pc = [c \in Consumers |-> "stopped"]
      /\ pos = [c \in Consumers |-> 0] /\ view = [c \in Consumers |-> {}]
      /\ actor = [c \in Consumers |-> NoName] /\ active = TRUE
      /\ restarts = 0 /\ faults = 0 /\ dropped = {}
      /\ overlaps = 0 /\ blind = 0 /\ misled = 0
  BY DEF Init
<1>2. TypeOK
  <2>1. NamesOK /\ OffsetsOK /\ ConsumersOK /\ HistoryOK
    BY <1>1, EventsAre DEF NamesOK, Names, OffsetsOK, ConsumersOK, Steps, HistoryOK
  <2>2. LogsOK
    BY <1>1 DEF LogsOK
  <2> QED BY <2>1, <2>2 DEF TypeOK
<1>3. Places
  <2>1. \A c \in Consumers : Placed(c)
    BY <1>1, ConsumerBounds DEF Placed
  <2>2. Cardinality(Lingering) = 0
    <3>1. Lingering = {}
      BY <1>1 DEF Lingering, InHand
    <3> QED BY <3>1, FS_EmptySet
  <2> QED BY <1>1, <2>1, <2>2 DEF Places
<1>4. Kept
  BY <1>1 DEF Kept
<1>5. Copies
  <2> SUFFICES ASSUME NEW e \in Events PROVE CopiesOf(e)
    BY DEF Copies
  <2>1. LogsOf(e) = {} /\ Writers(e) = {}
    BY <1>1 DEF LogsOf, Writers
  <2>2. Cardinality(LogsOf(e)) = 0 /\ Cardinality(Writers(e)) = 0
    BY <2>1, FS_EmptySet
  <2> QED BY <1>1, <2>2 DEF CopiesOf
<1>6. Views /\ Latests
  BY <1>1 DEF Views, Latests
<1>7. Actors
  <2>1. Said(0)
    BY <1>1, NameAtZero DEF Said
  <2>2. 0 \in 0..Len(Stream) /\ \A c \in Consumers : Translated(c)
    BY <1>1, EventsAre DEF Translated
  <2> QED BY <1>1, <2>1, <2>2 DEF Actors, Spoken
<1> QED BY <1>2, <1>3, <1>4, <1>5, <1>6, <1>7 DEF CdcInv

LEMMA StepHolds == CdcInv /\ [Next]_cdcVars => CdcInv'
<1> SUFFICES ASSUME CdcInv, [Next]_cdcVars PROVE CdcInv'
  OBVIOUS
<1>1. TypeOK /\ Places /\ Kept /\ Copies /\ Views /\ Latests /\ Actors
  BY DEF CdcInv
<1>2. CASE Group
  <2>1. TypeOK' /\ Places' /\ Regrouped
    BY <1>1, <1>2, GroupPlaces
  <2>2. Kept' /\ Copies' /\ Views' /\ Latests' /\ Actors'
    BY <1>1, <2>1, GroupKeeps, GroupCopies, GroupLatest, GroupActors
  <2> QED BY <2>1, <2>2 DEF CdcInv
<1>3. ASSUME NEW c \in Consumers, MessageStep(c) PROVE CdcInv'
  <2>1. TypeOK' /\ Places'
    BY <1>1, <1>3, MessagePlaces
  <2>2. Kept' /\ Copies' /\ Views' /\ Latests' /\ Actors'
    BY <1>1, <1>3, MessageKeeps, MessageCopies, MessageLatest, MessageActors
  <2> QED BY <2>1, <2>2 DEF CdcInv
<1>4. CASE UNCHANGED cdcVars
  <2>1. /\ UNCHANGED <<logs, directory, cache, actor, active, committed, acked, member, pc, pos>>
        /\ UNCHANGED <<view, restarts, faults, dropped, overlaps, blind, misled>>
    BY <1>4 DEF cdcVars, names
  <2>2. TypeOK' /\ Places'
    BY <1>1, <2>1 DEF TypeOK, NamesOK, LogsOK, OffsetsOK, ConsumersOK, HistoryOK, Places, Placed,
       Lingering, InHand
  <2>3. Regrouped
    BY <1>1, <2>1, EventsAre DEF Regrouped, GoesOn, TypeOK, HistoryOK, OffsetsOK
  <2>4. Kept' /\ Copies' /\ Views' /\ Latests' /\ Actors'
    BY <1>1, <2>2, <2>3, GroupKeeps, GroupCopies, GroupLatest, GroupActors
  <2> QED BY <2>2, <2>4 DEF CdcInv
<1> QED BY <1>2, <1>3, <1>4, NextIs

(* The invariant behind the theorems below, by which every variable has    *)
(* its type: only consumers that lost the partition with a message in hand *)
(* still work beside its member, one for each overlap; what is             *)
(* acknowledged is handled; and so on for copies, latest logs and actors.  *)
THEOREM ConsumerInvariant == Spec => []CdcInv
<1>1. Init => CdcInv
  BY InitHolds
<1>2. CdcInv /\ [Next]_cdcVars => CdcInv'
  BY StepHolds
<1> QED BY <1>1, <1>2, PTL DEF Spec

(* Whatever crashes, rejoins, takes over or fails, each change behind the  *)
(* acknowledged offset, and so behind the committed one, is a snapshot     *)
(* read, was reported as failed, or has a log of its row and millisecond,  *)
(* which is all that the duplicate check of processMessage can tell.       *)
THEOREM AcknowledgedIsHandled == Spec => [](\A e \in 1..acked : Handled(e))
<1>1. CdcInv => \A e \in 1..acked : Handled(e)
  BY DEF CdcInv, Kept
<1> QED BY <1>1, ConsumerInvariant, PTL

(* Changes of one row are told apart by their milliseconds.                *)
TimesDiffer ==
  \A d, e \in Events :
    Stream[d].resource = Stream[e].resource /\ Stream[d].time = Stream[e].time => d = e

(* No restart of a consumer loses a change: behind the committed offset    *)
(* each has a log of its own, unless it failed, on a stream whose changes  *)
(* of a row differ in time.  On another the check takes the second of two  *)
(* changes for a duplicate of the first, and the hypothesis is needed.     *)
THEOREM NoChangeIsLost ==
  ASSUME TimesDiffer
  PROVE  Spec => []NothingLostByRestarts
<1>1. CdcInv => NothingLostByRestarts
  <2> SUFFICES ASSUME CdcInv, NEW e \in 1..committed
               PROVE  Stream[e].read \/ e \in dropped \/ LogsOf(e) # {}
    BY DEF NothingLostByRestarts
  <2>1. e \in 1..acked /\ e \in Events
    BY EventsAre DEF CdcInv, TypeOK, OffsetsOK
  <2>2. Handled(e)
    BY <2>1 DEF CdcInv, Kept
  <2>3. \A i \in DOMAIN logs : logs[i].event \in Events
    <3>1. logs \in Seq(Log)
      BY DEF CdcInv, TypeOK, LogsOK
    <3>2. \A i \in DOMAIN logs : logs[i] \in Log
      BY <3>1
    <3> QED BY <3>2 DEF Log
  <2>4. Duplicate(e) => LogsOf(e) # {}
    <3> SUFFICES ASSUME NEW i \in DOMAIN logs,
                        Stream[logs[i].event].resource = Stream[e].resource,
                        Stream[logs[i].event].time = Stream[e].time
                 PROVE  logs[i].event = e
      BY DEF Duplicate, LogsOf
    <3> QED BY <2>1, <2>3 DEF TimesDiffer
  <2> QED BY <2>2, <2>4 DEF Handled
<1> QED BY <1>1, ConsumerInvariant, PTL

(* A change is logged once, and once more at most for each duplicate check *)
(* that failed and each takeover from a consumer with a message in hand.   *)
THEOREM CopiesAreExplained == Spec => []DuplicatesExplained
<1>1. CdcInv => DuplicatesExplained
  <2> SUFFICES ASSUME CdcInv, NEW e \in Events
               PROVE  Cardinality(LogsOf(e)) <= 1 + blind + overlaps
    BY DEF DuplicatesExplained
  <2>1. /\ Cardinality(LogsOf(e)) \in Nat /\ Cardinality(Writers(e)) \in Nat
        /\ blind \in Nat /\ overlaps \in Nat
    BY CopiesFinite DEF CdcInv, TypeOK, HistoryOK
  <2>2. Cardinality(LogsOf(e)) + Cardinality(Writers(e)) <= 1 + blind + overlaps
    BY DEF CdcInv, Copies, CopiesOf
  <2> QED BY <2>1, <2>2
<1> QED BY <1>1, ConsumerInvariant, PTL

(* Every audited row has a latest log, and more than one only after        *)
(* overlaps: is_latest survives redeliveries and restarts.                 *)
THEOREM LatestLogsAreFew == Spec => []LatestExplained
<1>1. CdcInv => LatestExplained
  BY LatestBounded DEF CdcInv
<1> QED BY <1>1, ConsumerInvariant, PTL

(* The actor of a log is what the stream called the user at its event,     *)
(* through the cache, client_users, crashes and replays, but for the       *)
(* exceptions that the property names.                                     *)
THEOREM ActorsAreRight == Spec => []ActorsExplained
<1>1. CdcInv => ActorsExplained
  <2> SUFFICES ASSUME CdcInv, NEW i \in DOMAIN logs
               PROVE  \/ logs[i].actor = NameAt(logs[i].event)
                      \/ logs[i].event \in dropped \/ overlaps + blind + misled > 0
    BY DEF ActorsExplained
  <2>1. overlaps \in Nat /\ blind \in Nat /\ misled \in Nat
    BY DEF CdcInv, TypeOK, HistoryOK
  <2>2. CASE Clean
    BY <2>2 DEF CdcInv, Actors, Spoken, ActorOK
  <2>3. CASE ~Clean
    BY <2>1, <2>3 DEF Clean
  <2> QED BY <2>2, <2>3
<1> QED BY <1>1, ConsumerInvariant, PTL
=============================================================================
