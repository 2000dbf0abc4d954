---------------------------- MODULE AuditChainProofs ----------------------------
(***************************************************************************)
(* AuditChain for any number of callers, events, actors and messages: the  *)
(* log that record builds passes verify_chain, whatever overlaps, and a    *)
(* copy that passes it is an initial part of the log, whatever was done to *)
(* the copy.                                                               *)
(***************************************************************************)
EXTENDS AuditChain, SequenceTheorems, TLAPS

USE ChainAssumption, ClockAssumption DEF ChainAssumption, ClockAssumption

(* The texts that are hashed, the hashes, and the events with them.         *)
Written == [id : Nat, actor : Actors, message : Messages, created : Time]
Texts  == {Canonical(e) : e \in Written}
Hashes == Seq(Texts)
Event  == [id : Nat, actor : Actors, message : Messages, created : Time,
           previous : Hashes, hash : Hashes]

(* As a hash holds everything that went into it, its length is the event's  *)
(* place in the log it was made in.                                         *)
Placed(log) == log \in Seq(Event) /\ VerifyChain(log) /\ \A i \in DOMAIN log : Len(log[i].hash) = i

ChainInv ==
    /\ now \in Time
    /\ recording \in [Caller -> Time \cup {Absent}]
    /\ nextId \in 1 .. MaxEvents + 1
    /\ Placed(events) /\ LogIsChained

LEMMA TextOfEvent == \A e \in Event : Canonical(e) \in Texts
<1> SUFFICES ASSUME NEW e \in Event PROVE Canonical(e) \in Texts
  OBVIOUS
<1> DEFINE w == [id |-> e.id, actor |-> e.actor, message |-> e.message, created |-> e.created]
<1>1. w \in Written
  BY DEF Event, Written
<1>2. w.id = e.id /\ w.actor = e.actor /\ w.message = e.message /\ w.created = e.created
  OBVIOUS
<1> HIDE DEF w
<1>3. Canonical(w) = Canonical(e)
  BY <1>2 DEF Canonical
<1>4. QED
  BY <1>1, <1>3 DEF Texts

LEMMA HashOfEvent ==
    ASSUME NEW e \in Event
    PROVE  ComputeEventHash(e) \in Hashes /\ Len(ComputeEventHash(e)) = Len(e.previous) + 1
<1>1. e.previous \in Seq(Texts) /\ Canonical(e) \in Texts
  BY TextOfEvent DEF Event, Hashes
<1>2. QED
  BY <1>1, AppendProperties DEF ComputeEventHash, Hashes

(* The event that record appends carries its number, the hash of its        *)
(* predecessor, and a hash that verify_chain computes again.                *)
LEMMA LinkedEvent ==
    ASSUME NEW c, NEW a \in Actors, NEW m \in Messages,
           nextId \in Nat, recording[c] \in Time, lastHash \in Hashes
    PROVE  /\ Linked(c, a, m) \in Event
           /\ Linked(c, a, m).id = nextId
           /\ Linked(c, a, m).previous = lastHash
           /\ Linked(c, a, m).hash = ComputeEventHash(Linked(c, a, m))
<1> DEFINE e == [id |-> nextId, actor |-> a, message |-> m, created |-> recording[c],
                 previous |-> lastHash, hash |-> GenesisHash]
           x == Linked(c, a, m)
<1>1. x = [e EXCEPT !.hash = ComputeEventHash(e)]
  BY DEF Linked
<1>2. x.id = nextId /\ x.actor = a /\ x.message = m /\ x.created = recording[c]
      /\ x.previous = lastHash /\ x.hash = ComputeEventHash(e)
  BY <1>1
<1>3. ComputeEventHash(x) = ComputeEventHash(e)
  BY <1>2 DEF ComputeEventHash, Canonical
<1>4. GenesisHash \in Hashes
  BY DEF GenesisHash, Hashes
<1>5. e \in Event
  BY <1>4 DEF Event
<1>6. ComputeEventHash(e) \in Hashes
  BY <1>5, HashOfEvent
<1>7. x \in Event
  BY <1>1, <1>5, <1>6 DEF Event
<1>8. QED
  BY <1>2, <1>3, <1>7

LEMMA RecordChains ==
    ASSUME ChainInv, NEW c \in Caller, NEW a \in Actors, NEW m \in Messages, Record(c, a, m)
    PROVE  ChainInv'
<1> DEFINE n == Len(events)
           e == Linked(c, a, m)
<1>1. n \in Nat /\ nextId = n + 1 /\ DOMAIN events = 1 .. n /\ events \in Seq(Event)
  BY DEF ChainInv, Placed, LogIsChained
<1>2. lastHash = (IF n = 0 THEN GenesisHash ELSE events[n].hash) /\ lastHash \in Hashes /\ Len(lastHash) = n
  <2>1. CASE n = 0
    <3>1. events = <<>>
      BY <1>1, <2>1
    <3>2. QED
      BY <2>1, <3>1 DEF ChainInv, LogIsChained, GenesisHash, Hashes
  <2>2. CASE n # 0
    <3>1. n \in 1 .. n /\ events[n] \in Event /\ events # <<>>
      BY <1>1, <2>2
    <3>2. lastHash = events[n].hash
      BY <3>1 DEF ChainInv, LogIsChained, Last
    <3>3. QED
      BY <1>1, <2>2, <3>1, <3>2 DEF ChainInv, Placed, Event
  <2>3. QED
    BY <2>1, <2>2
<1>3. recording[c] \in Time /\ recording' \in [Caller -> Time \cup {Absent}] /\ now' \in Time
  BY DEF ChainInv, Record
<1>4. /\ e \in Event /\ e.id = n + 1 /\ e.previous = lastHash /\ e.hash = ComputeEventHash(e)
      /\ Len(e.hash) = n + 1
  <2>1. /\ e \in Event /\ e.id = n + 1 /\ e.previous = lastHash /\ e.hash = ComputeEventHash(e)
    <3>1. nextId \in Nat
      BY <1>1
    <3>2. /\ e \in Event /\ e.id = nextId /\ e.previous = lastHash /\ e.hash = ComputeEventHash(e)
      BY <1>2, <1>3, <3>1, LinkedEvent
    <3>3. QED
      BY <1>1, <3>2
  <2>2. QED
    BY <1>2, <2>1, HashOfEvent
<1>5. events' = Append(events, e) /\ nextId' = nextId + 1 /\ lastHash' = e.hash
  BY DEF Record
<1> HIDE DEF e
<1>6. /\ Len(events') = n + 1 /\ events' \in Seq(Event)
      /\ \A i \in 1 .. n : events'[i] = events[i]
      /\ events'[n + 1] = e
  BY <1>1, <1>4, <1>5, AppendProperties
<1>7. DOMAIN events' = 1 .. n + 1
  BY <1>1, <1>6
<1>8. \A i \in 1 .. n + 1 :
        /\ events'[i].previous = IF i = 1 THEN GenesisHash ELSE events'[i - 1].hash
        /\ events'[i].hash = ComputeEventHash(events'[i])
        /\ events'[i].id = i
        /\ Len(events'[i].hash) = i
  <2> TAKE i \in 1 .. n + 1
  <2>1. CASE i \in 1 .. n
    <3>1. events[i].previous = IF i = 1 THEN GenesisHash ELSE events[i - 1].hash
      BY <1>1, <2>1 DEF ChainInv, LogIsChained, VerifyChain
    <3>2. events[i].hash = ComputeEventHash(events[i]) /\ events[i].id = i /\ Len(events[i].hash) = i
      BY <1>1, <2>1 DEF ChainInv, LogIsChained, VerifyChain, Placed
    <3>3. i # 1 => i - 1 \in 1 .. n
      BY <1>1, <2>1
    <3>4. QED
      BY <1>6, <2>1, <3>1, <3>2, <3>3
  <2>2. CASE i = n + 1
    <3>1. i # 1 => i - 1 \in 1 .. n /\ i - 1 = n
      BY <1>1, <2>2
    <3>2. QED
      BY <1>2, <1>4, <1>6, <2>2, <3>1
  <2>3. QED
    BY <1>1, <2>1, <2>2
<1>9. VerifyChain(events)'
  BY <1>7, <1>8 DEF VerifyChain, ComputeEventHash, Canonical
<1>10. nextId' = Len(events') + 1 /\ lastHash' = Last(events').hash /\ events' # <<>>
  <2>1. Last(events') = e
    BY <1>1, <1>6 DEF Last
  <2>2. QED
    BY <1>1, <1>5, <1>6, <2>1
<1>11. nextId' \in 1 .. MaxEvents + 1
  BY <1>5 DEF ChainInv, Record
<1>12. QED
  BY <1>3, <1>6, <1>7, <1>8, <1>9, <1>10, <1>11 DEF ChainInv, Placed, LogIsChained

LEMMA ChainInvariant == ChainSpec => []ChainInv
<1>1. ChainInit => ChainInv
  BY DEF ChainInit, ChainInv, Placed, LogIsChained, VerifyChain, GenesisHash, Time
<1>2. ChainInv /\ [ChainNext]_auditVars => ChainInv'
  <2> SUFFICES ASSUME ChainInv, [ChainNext]_auditVars PROVE ChainInv'
    OBVIOUS
  <2>1. ASSUME NEW c \in Caller, RecordEvent(c) PROVE ChainInv'
    BY <2>1, RecordChains DEF RecordEvent
  <2>2. ASSUME UNCHANGED <<events, lastHash, nextId>>, now' \in Time,
               recording' \in [Caller -> Time \cup {Absent}]
        PROVE ChainInv'
    BY <2>2 DEF ChainInv, Placed, LogIsChained, VerifyChain, ComputeEventHash, Canonical
  <2>3. ASSUME NEW c \in Caller, BeginRecord(c) PROVE ChainInv'
    <3>1. recording' \in [Caller -> Time \cup {Absent}] /\ now' \in Time
      BY <2>3 DEF BeginRecord, ChainInv
    <3>2. QED
      BY <2>2, <2>3, <3>1 DEF BeginRecord
  <2>4. CASE SecondPasses
    <3>1. now' \in Time
      BY <2>4 DEF SecondPasses, ClockTicks, ChainInv, Time
    <3>2. QED
      BY <2>2, <2>4, <3>1 DEF SecondPasses, ChainInv
  <2>5. CASE Export \/ DamageCopy \/ UNCHANGED auditVars
    BY <2>2, <2>5 DEF Export, DamageCopy, auditVars, ChainInv
  <2>6. QED
    BY <2>1, <2>3, <2>4, <2>5 DEF ChainNext
<1>3. QED
  BY <1>1, <1>2, PTL DEF ChainSpec

(* log.rs and chain.rs: however the calls of record overlap, the log passes *)
(* verify_chain and its ids count from 1, for every number of events.       *)
THEOREM LogAlwaysChained == ChainSpec => []LogIsChained
<1>1. ChainInv => LogIsChained
  BY DEF ChainInv
<1>2. QED
  BY <1>1, ChainInvariant, PTL

-----------------------------------------------------------------------------
(* A copy in which an event stands earlier than it did, behind one that     *)
(* stands where it did: what a dropped event and an exchange leave.         *)
Displaced ==
    \E i \in DOMAIN copy, j \in DOMAIN source :
        /\ i < j /\ copy[i] = source[j]
        /\ i # 1 => i - 1 \in DOMAIN source /\ copy[i - 1] = source[i - 1]

(* What became of a copy: one kind of damage, and no hash made anew.        *)
CopyInv ==
    /\ Placed(source) /\ copy \in Seq(Event)
    /\ damage \in {"none", "content", "cut", "dropped", "swapped"}
    /\ damage = "none" => copy = source
    /\ damage = "content" =>
        /\ Len(copy) = Len(source)
        /\ \A i \in DOMAIN copy :
            \/ Canonical(copy[i]) = Canonical(source[i])
            \/ copy[i].previous = source[i].previous /\ copy[i].hash = source[i].hash
    /\ damage = "cut" => Len(copy) <= Len(source) /\ \A i \in DOMAIN copy : copy[i] = source[i]
    /\ damage \in {"dropped", "swapped"} => Displaced

\* One event of the copy is replaced: its text, or a hash in it.
LEMMA EditKeeps ==
    ASSUME CopyInv, damage = "none", damage' = "content", UNCHANGED source,
           NEW i \in DOMAIN copy, NEW e \in Event, copy' = [copy EXCEPT ![i] = e],
           \/ Canonical(e) = Canonical(copy[i])
           \/ e.previous = copy[i].previous /\ e.hash = copy[i].hash
    PROVE  CopyInv'
<1>1. copy = source /\ copy \in Seq(Event) /\ i \in 1 .. Len(copy)
  BY DEF CopyInv
<1>2. /\ [copy EXCEPT ![i] = e] \in Seq(Event)
      /\ Len([copy EXCEPT ![i] = e]) = Len(copy)
      /\ \A j \in 1 .. Len(copy) : [copy EXCEPT ![i] = e][j] = IF j = i THEN e ELSE copy[j]
  <2>1. copy \in Seq(Event) /\ i \in 1 .. Len(copy)
    BY <1>1
  <2>2. QED
    BY <2>1, ExceptSeq
<1>3. copy' \in Seq(Event) /\ Len(copy') = Len(copy) /\ DOMAIN copy' = 1 .. Len(copy)
  BY <1>2
<1>4. \A j \in DOMAIN copy' : copy'[j] = IF j = i THEN e ELSE copy[j]
  BY <1>2, <1>3
<1>5. \A j \in DOMAIN copy' :
        \/ Canonical(copy'[j]) = Canonical(source[j])
        \/ copy'[j].previous = source[j].previous /\ copy'[j].hash = source[j].hash
  BY <1>1, <1>4
<1>6. Placed(source)'
  BY DEF CopyInv, Placed, VerifyChain, ComputeEventHash, Canonical
<1>7. source' = source
  OBVIOUS
<1>8. \A j \in DOMAIN copy' :
        \/ Canonical(copy[j])' = Canonical(source[j])'
        \/ (copy[j].previous = source[j].previous /\ copy[j].hash = source[j].hash)'
  <2> TAKE j \in DOMAIN copy'
  <2>1. CASE Canonical(copy'[j]) = Canonical(source[j])
    BY <1>7, <2>1 DEF Canonical
  <2>2. CASE copy'[j].previous = source[j].previous /\ copy'[j].hash = source[j].hash
    BY <1>7, <2>2
  <2>3. QED
    BY <1>5, <2>1, <2>2
<1>9. QED
  BY <1>1, <1>3, <1>6, <1>7, <1>8 DEF CopyInv

LEMMA DamageStep ==
    ASSUME CopyInv, DamageCopy
    PROVE  CopyInv'
<1> DEFINE n == Len(copy)
<1>1. /\ damage = "none" /\ copy = source /\ copy \in Seq(Event) /\ UNCHANGED source
      /\ n \in Nat /\ DOMAIN copy = 1 .. n
  <2>1. damage = "none" /\ UNCHANGED source
    BY DEF DamageCopy
  <2>2. copy = source /\ copy \in Seq(Event)
    BY <2>1 DEF CopyInv
  <2>3. QED
    BY <2>1, <2>2
<1>2. Placed(source)'
  BY <1>1 DEF CopyInv, Placed, VerifyChain, ComputeEventHash, Canonical
<1>3. ASSUME damage' = "content", NEW i \in DOMAIN copy, NEW a \in Actors, NEW m \in Messages,
             copy' = [copy EXCEPT ![i].actor = a, ![i].message = m]
      PROVE  CopyInv'
  <2>1. PICK e : e = [copy[i] EXCEPT !.actor = a, !.message = m]
    OBVIOUS
  <2>2. copy[i] \in Event
    BY <1>1
  <2>3. e \in Event /\ e.previous = copy[i].previous /\ e.hash = copy[i].hash
    BY <2>1, <2>2 DEF Event
  <2>4. copy' = [copy EXCEPT ![i] = e]
    BY <1>1, <1>3, <2>1
  <2>5. QED
    BY <1>1, <1>3, <2>3, <2>4, EditKeeps
<1>4. ASSUME damage' = "content", NEW i \in DOMAIN copy, NEW t \in Time, copy' = [copy EXCEPT ![i].created = t]
      PROVE  CopyInv'
  <2>1. PICK e : e = [copy[i] EXCEPT !.created = t]
    OBVIOUS
  <2>2. copy[i] \in Event
    BY <1>1
  <2>3. e \in Event /\ e.previous = copy[i].previous /\ e.hash = copy[i].hash
    BY <2>1, <2>2 DEF Event
  <2>4. copy' = [copy EXCEPT ![i] = e]
    BY <1>1, <1>4, <2>1
  <2>5. QED
    BY <1>1, <1>4, <2>3, <2>4, EditKeeps
<1>5. ASSUME damage' = "content", NEW i \in DOMAIN copy, NEW x \in Hashes,
             \/ copy' = [copy EXCEPT ![i].previous = x]
             \/ copy' = [copy EXCEPT ![i].hash = x]
      PROVE  CopyInv'
  <2>1. copy[i] \in Event
    BY <1>1
  <2>2. PICK e : /\ copy' = [copy EXCEPT ![i] = e]
                 /\ e = [copy[i] EXCEPT !.previous = x] \/ e = [copy[i] EXCEPT !.hash = x]
    BY <1>1, <1>5
  <2>3. e \in Event
    BY <2>1, <2>2 DEF Event
  <2>4. e.id = copy[i].id /\ e.actor = copy[i].actor /\ e.message = copy[i].message
        /\ e.created = copy[i].created
    BY <2>1, <2>2 DEF Event
  <2>5. Canonical(e) = Canonical(copy[i])
    BY <2>4 DEF Canonical
  <2>6. QED
    BY <1>1, <1>5, <2>2, <2>3, <2>5, EditKeeps
<1>6. ASSUME damage' = "cut", NEW k \in 0 .. n - 1, copy' = SubSeq(copy, 1, k)
      PROVE  CopyInv'
  <2>1. \A i \in 1 .. k : copy[i] \in Event
    BY <1>1, <1>6
  <2>2. k \in Int /\ 1 \in Int /\ k <= n
    BY <1>1, <1>6
  <2>3. /\ copy' \in Seq(Event) /\ Len(copy') = (IF 1 <= k THEN k - 1 + 1 ELSE 0)
        /\ \A i \in 1 .. k - 1 + 1 : copy'[i] = copy[1 + i - 1]
    BY <1>6, <2>1, <2>2, SubSeqProperties
  <2>4. Len(copy') <= n /\ \A i \in DOMAIN copy' : copy'[i] = copy[i]
    BY <1>1, <1>6, <2>3
  <2>5. QED
    BY <1>1, <1>2, <1>6, <2>3, <2>4 DEF CopyInv
<1>7. ASSUME damage' = "dropped", NEW i \in 1 .. n - 1, copy' = RemoveAt(copy, i)
      PROVE  CopyInv'
  <2> DEFINE before == SubSeq(copy, 1, i - 1)
             behind == SubSeq(copy, i + 1, n)
  <2>1. /\ \A j \in 1 .. i - 1 : copy[j] \in Event
        /\ \A j \in i + 1 .. n : copy[j] \in Event
    BY <1>1, <1>7
  <2>2. i \in Int /\ i - 1 \in Int /\ i + 1 \in Int /\ n \in Int /\ 1 \in Int
    BY <1>1, <1>7
  <2>3. /\ before \in Seq(Event) /\ Len(before) = (IF 1 <= i - 1 THEN i - 1 - 1 + 1 ELSE 0)
        /\ \A j \in 1 .. i - 1 - 1 + 1 : before[j] = copy[1 + j - 1]
    BY <2>1, <2>2, SubSeqProperties
  <2>4. /\ behind \in Seq(Event) /\ Len(behind) = (IF i + 1 <= n THEN n - (i + 1) + 1 ELSE 0)
        /\ \A j \in 1 .. n - (i + 1) + 1 : behind[j] = copy[i + 1 + j - 1]
    BY <2>1, <2>2, SubSeqProperties
  <2>5. /\ Len(before) = i - 1 /\ Len(behind) = n - i
        /\ \A j \in 1 .. i - 1 : before[j] = copy[j]
        /\ behind[1] = copy[i + 1]
    BY <1>1, <1>7, <2>3, <2>4
  <2> HIDE DEF before, behind
  <2>6. copy' = before \o behind
    BY <1>7 DEF RemoveAt, before, behind
  <2>7. /\ copy' \in Seq(Event) /\ Len(copy') = Len(before) + Len(behind)
        /\ \A j \in 1 .. Len(before) + Len(behind) :
              copy'[j] = IF j <= Len(before) THEN before[j] ELSE behind[j - Len(before)]
    BY <2>3, <2>4, <2>6, ConcatProperties
  <2>8. /\ DOMAIN copy' = 1 .. n - 1 /\ copy'[i] = copy[i + 1]
        /\ i # 1 => copy'[i - 1] = copy[i - 1]
    <3>1. Len(copy') = n - 1 /\ DOMAIN copy' = 1 .. n - 1
      BY <1>1, <1>7, <2>5, <2>7
    <3>2. copy'[i] = behind[1]
      <4>1. i \in 1 .. Len(before) + Len(behind) /\ ~(i <= Len(before)) /\ i - Len(before) = 1
        BY <1>1, <1>7, <2>5
      <4>2. QED
        BY <2>7, <4>1
    <3>3. ASSUME i # 1 PROVE copy'[i - 1] = copy[i - 1]
      <4>1. i - 1 \in 1 .. Len(before) + Len(behind) /\ i - 1 <= Len(before) /\ i - 1 \in 1 .. i - 1
        BY <1>1, <1>7, <2>5, <3>3
      <4>2. QED
        BY <2>5, <2>7, <4>1
    <3>4. QED
      BY <2>5, <3>1, <3>2, <3>3
  <2>9. i \in DOMAIN copy' /\ i + 1 \in DOMAIN source' /\ i < i + 1 /\ (i # 1 => i - 1 \in DOMAIN source')
    BY <1>1, <1>7, <2>8
  <2>10. Displaced'
    BY <1>1, <2>8, <2>9 DEF Displaced
  <2>11. QED
    BY <1>2, <1>7, <2>7, <2>10 DEF CopyInv
<1>8. ASSUME damage' = "swapped", NEW i \in DOMAIN copy, NEW j \in DOMAIN copy, i < j,
             copy' = [copy EXCEPT ![i] = copy[j], ![j] = copy[i]]
      PROVE  CopyInv'
  <2>1. /\ copy' \in Seq(Event) /\ DOMAIN copy' = 1 .. n /\ copy'[i] = copy[j]
        /\ i # 1 => copy'[i - 1] = copy[i - 1]
    <3>1. copy \in [1 .. n -> Event] /\ copy[i] \in Event /\ copy[j] \in Event
      BY <1>1
    <3>2. copy' \in [1 .. n -> Event]
      BY <1>8, <3>1
    <3>3. copy' \in Seq(Event)
      BY <1>1, <3>2, SeqDef
    <3>4. i - 1 # i /\ i - 1 # j /\ i # j /\ (i # 1 => i - 1 \in 1 .. n)
      BY <1>1, <1>8
    <3>5. QED
      BY <1>1, <1>8, <3>2, <3>3, <3>4
  <2>2. i # 1 => i - 1 \in 1 .. n
    BY <1>1
  <2>3. Displaced'
    BY <1>1, <1>8, <2>1, <2>2 DEF Displaced
  <2>4. QED
    BY <1>2, <1>8, <2>1, <2>3 DEF CopyInv
<1>9. \A j \in DOMAIN copy : copy[j].hash \in Hashes
  <2>1. \A j \in DOMAIN copy : copy[j] \in Event
    BY <1>1
  <2>2. QED
    BY <2>1 DEF Event
<1>10. QED
  BY <1>3, <1>4, <1>5, <1>6, <1>7, <1>8, <1>9, ZenonT(40) DEF DamageCopy

LEMMA CopyInvariant == ChainSpec => []CopyInv
<1>1. ChainInit => CopyInv
  BY DEF ChainInit, CopyInv, Placed, VerifyChain
<1>2. ChainInv /\ CopyInv /\ [ChainNext]_auditVars => CopyInv'
  <2> SUFFICES ASSUME ChainInv, CopyInv, [ChainNext]_auditVars PROVE CopyInv'
    OBVIOUS
  <2>1. CASE UNCHANGED <<copy, damage, source>>
    BY <2>1 DEF CopyInv, Placed, VerifyChain, ComputeEventHash, Canonical, Displaced
  <2>2. CASE Export
    <3>1. copy' = events /\ source' = events /\ damage' = "none"
      BY <2>2 DEF Export
    <3>2. Placed(source)'
      BY <3>1 DEF ChainInv, Placed, VerifyChain, ComputeEventHash, Canonical
    <3>3. QED
      BY <3>1, <3>2 DEF CopyInv, ChainInv, Placed
  <2>3. CASE DamageCopy
    BY <2>3, DamageStep
  <2>4. UNCHANGED <<copy, damage, source>> \/ Export \/ DamageCopy
    BY DEF ChainNext, auditVars, SecondPasses, BeginRecord, RecordEvent, Record
  <2>5. QED
    BY <2>1, <2>2, <2>3, <2>4
<1>3. QED
  BY <1>1, <1>2, ChainInvariant, PTL DEF ChainSpec

(* A displaced event is chained to one of another length than the one it    *)
(* now follows.                                                             *)
LEMMA DisplacedFails == CopyInv /\ Displaced => ~VerifyChain(copy)
<1> SUFFICES ASSUME CopyInv, Displaced, VerifyChain(copy) PROVE FALSE
  OBVIOUS
<1>1. PICK i \in DOMAIN copy, j \in DOMAIN source :
        /\ i < j /\ copy[i] = source[j]
        /\ i # 1 => i - 1 \in DOMAIN source /\ copy[i - 1] = source[i - 1]
  BY DEF Displaced
<1>2. i \in Nat \ {0} /\ j \in Nat /\ j # 1 /\ j - 1 \in DOMAIN source
  BY <1>1 DEF CopyInv, Placed
<1>3. Len(source[j].previous) = j - 1
  <2>1. source[j].previous = source[j - 1].hash
    BY <1>2 DEF CopyInv, Placed, VerifyChain
  <2>2. QED
    BY <1>2, <2>1 DEF CopyInv, Placed
<1>4. source[j].previous = IF i = 1 THEN GenesisHash ELSE source[i - 1].hash
  BY <1>1 DEF VerifyChain
<1>5. CASE i = 1
  BY <1>1, <1>2, <1>3, <1>4, <1>5 DEF GenesisHash
<1>6. CASE i # 1
  <2>1. Len(source[i - 1].hash) = i - 1
    BY <1>1, <1>6 DEF CopyInv, Placed
  <2>2. QED
    BY <1>1, <1>2, <1>3, <1>4, <1>6, <2>1
<1>7. QED
  BY <1>5, <1>6

(* verify_chain: a damaged copy that passes says what the log said, however *)
(* long the log is and whatever was written into the copy.                  *)
THEOREM VerifiedCopiesTrue == ChainSpec => []VerifiedCopyIsPrefix
<1>1. CopyInv => VerifiedCopyIsPrefix
  <2> SUFFICES ASSUME CopyInv, VerifyChain(copy)
               PROVE  /\ Len(copy) <= Len(source)
                      /\ \A i \in DOMAIN copy : Canonical(copy[i]) = Canonical(source[i])
    BY DEF VerifiedCopyIsPrefix
  <2>1. CASE damage \in {"dropped", "swapped"}
    BY <2>1, DisplacedFails DEF CopyInv
  <2>2. CASE damage \in {"none", "cut"}
    BY <2>2 DEF CopyInv, Placed
  <2>3. CASE damage = "content"
    <3>1. Len(copy) = Len(source) /\ DOMAIN copy = DOMAIN source
      BY <2>3 DEF CopyInv, Placed
    <3>2. ASSUME NEW i \in DOMAIN copy, copy[i].previous = source[i].previous, copy[i].hash = source[i].hash
          PROVE  Canonical(copy[i]) = Canonical(source[i])
      <4>1. copy[i] \in Event /\ source[i] \in Event
        BY <3>1 DEF CopyInv, Placed
      <4>2. copy[i].hash = ComputeEventHash(copy[i]) /\ source[i].hash = ComputeEventHash(source[i])
        BY <3>1 DEF CopyInv, Placed, VerifyChain
      <4>3. /\ Canonical(copy[i]) \in Texts /\ Canonical(source[i]) \in Texts
            /\ copy[i].previous \in Seq(Texts) /\ source[i].previous \in Seq(Texts)
        BY <4>1, TextOfEvent DEF Event, Hashes
      <4>4. Append(copy[i].previous, Canonical(copy[i])) = Append(source[i].previous, Canonical(source[i]))
        BY <3>2, <4>2 DEF ComputeEventHash
      <4>5. QED
        BY <4>3, <4>4, AppendInjective
    <3>3. Len(copy) <= Len(source)
      BY <3>1 DEF CopyInv
    <3>4. QED
      BY <2>3, <3>2, <3>3 DEF CopyInv
  <2>4. QED
    BY <2>1, <2>2, <2>3 DEF CopyInv
<1>2. QED
  BY <1>1, CopyInvariant, PTL

(* AuditLogState keeps its types.                                           *)
THEOREM ChainTypeCorrect == ChainSpec => []ChainTypeOK
<1>1. ChainInv /\ CopyInv => ChainTypeOK
  <2> SUFFICES ASSUME ChainInv, CopyInv PROVE ChainTypeOK
    OBVIOUS
  <2>1. \A i \in DOMAIN events : events[i] \in Event
    BY DEF ChainInv, Placed
  <2>2. QED
    BY <2>1 DEF ChainInv, CopyInv, ChainTypeOK, Event
<1>2. QED
  BY <1>1, ChainInvariant, CopyInvariant, PTL
=============================================================================
