------------------------------ MODULE AuditChain ------------------------------
(***************************************************************************)
(* The audit log (crates/sunbolt-audit/src/log.rs and chain.rs): callers   *)
(* append events at the same time, and an exported copy, which a backup or *)
(* an operator may have damaged, is checked with verify_chain.             *)
(*                                                                         *)
(* An e-mail address and a message are sequences of words and colons,      *)
(* since the colon is what joins the fields that are hashed. SHA-256 is a  *)
(* free constructor: a hash is the sequence of everything that went into   *)
(* it. A message is what redact_sensitive leaves of it.                    *)
(***************************************************************************)
EXTENDS Requests, Clock, SequencesExt

CONSTANTS
    Colon,
    Actors,     \* actor_email: Absent or a sequence
    Messages,
    MaxEvents   \* a bound: events recorded in an instance

ASSUME ChainAssumption == MaxEvents \in Nat

VARIABLES
    events,     \* AuditLogState
    lastHash,
    nextId,
    recording,  \* the calls of record that have not taken the lock: their created_at
    copy,       \* an export of the events
    damage,     \* history: whether the copy was changed, and how
    source      \* history: the events when they were exported

auditVars == <<now, events, lastHash, nextId, recording, copy, damage, source>>

GenesisHash == <<>>

ChainTypeOK ==
    /\ now \in Time
    /\ \A i \in DOMAIN events :
        /\ events[i].id \in Nat /\ events[i].created \in Time
        /\ events[i].actor \in Actors /\ events[i].message \in Messages
    /\ nextId \in 1..MaxEvents + 1
    /\ recording \in [Caller -> Time \cup {Absent}]
    /\ damage \in {"none", "content", "cut", "dropped", "swapped"}

ChainInit ==
    /\ now = 0
    /\ events = <<>>
    /\ lastHash = GenesisHash
    /\ nextId = 1
    /\ recording = [c \in Caller |-> Absent]
    /\ copy = <<>>
    /\ damage = "none"
    /\ source = <<>>

-----------------------------------------------------------------------------
\* compute_event_hash's canonical text: no actor is written as an empty one.
Canonical(e) ==
    <<e.id, (IF e.actor = Absent THEN <<>> ELSE e.actor) \o <<Colon>> \o e.message, e.created>>

ComputeEventHash(e) == Append(e.previous, Canonical(e))

\* A variant with a fault: only the links are compared.
VerifyLinks(log) ==
    \A i \in DOMAIN log : log[i].previous = IF i = 1 THEN GenesisHash ELSE log[i - 1].hash

\* verify_chain
VerifyChain(log) ==
    \A i \in DOMAIN log :
        /\ log[i].previous = IF i = 1 THEN GenesisHash ELSE log[i - 1].hash
        /\ log[i].hash = ComputeEventHash(log[i])

\* record reads the clock before it takes the lock.
BeginRecord(c) ==
    /\ recording[c] = Absent
    /\ recording' = [recording EXCEPT ![c] = now]
    /\ UNCHANGED <<now, events, lastHash, nextId, copy, damage, source>>

\* The event record makes of what it was called with.
Linked(c, a, m) ==
    LET e == [id |-> nextId, actor |-> a, message |-> m, created |-> recording[c],
              previous |-> lastHash, hash |-> GenesisHash]
    IN [e EXCEPT !.hash = ComputeEventHash(e)]

\* A variant with a fault: last_hash is left as it was.
RecordUnlinked(c, a, m) ==
    /\ recording[c] # Absent
    /\ nextId <= MaxEvents
    /\ nextId' = nextId + 1
    /\ events' = Append(events, Linked(c, a, m))
    /\ recording' = [recording EXCEPT ![c] = Absent]
    /\ UNCHANGED <<now, lastHash, copy, damage, source>>

\* record under its lock.
Record(c, a, m) ==
    /\ recording[c] # Absent
    /\ nextId <= MaxEvents
    /\ nextId' = nextId + 1
    /\ lastHash' = Linked(c, a, m).hash
    /\ events' = Append(events, Linked(c, a, m))
    /\ recording' = [recording EXCEPT ![c] = Absent]
    /\ UNCHANGED <<now, copy, damage, source>>

\* record_event and what calls it: any event of any actor.
RecordEvent(c) == \E a \in Actors, m \in Messages : Record(c, a, m)

\* events and export_json
Export ==
    /\ copy' = events
    /\ source' = events
    /\ damage' = "none"
    /\ UNCHANGED <<now, events, lastHash, nextId, recording>>

\* One thing happens to a copy, and nobody computes a hash anew: a field is changed, the last
\* events are missing, an earlier one is, or two are exchanged.
DamageCopy ==
    /\ damage = "none"
    /\ \/ /\ damage' = "content"
          /\ \E i \in DOMAIN copy :
              \/ \E a \in Actors, m \in Messages :
                    copy' = [copy EXCEPT ![i].actor = a, ![i].message = m]
              \/ \E t \in Time : copy' = [copy EXCEPT ![i].created = t]
              \/ \E j \in DOMAIN copy : copy' = [copy EXCEPT ![i].previous = copy[j].hash]
              \/ \E j \in DOMAIN copy : copy' = [copy EXCEPT ![i].hash = copy[j].hash]
       \/ /\ damage' = "cut"
          /\ \E n \in 0..Len(copy) - 1 : copy' = SubSeq(copy, 1, n)
       \/ /\ damage' = "dropped"
          /\ \E i \in 1..Len(copy) - 1 : copy' = RemoveAt(copy, i)
       \/ /\ damage' = "swapped"
          /\ \E i, j \in DOMAIN copy :
                i < j /\ copy' = [copy EXCEPT ![i] = copy[j], ![j] = copy[i]]
    /\ UNCHANGED <<now, events, lastHash, nextId, recording, source>>

SecondPasses ==
    /\ ClockTicks
    /\ UNCHANGED <<events, lastHash, nextId, recording, copy, damage, source>>

ChainNext ==
    \/ SecondPasses
    \/ Export
    \/ DamageCopy
    \/ \E c \in Caller : BeginRecord(c) \/ RecordEvent(c)

ChainSpec == ChainInit /\ [][ChainNext]_auditVars

-----------------------------------------------------------------------------
(* However the calls of record overlap, the log itself always passes       *)
(* verify_chain, its ids count from 1 without a gap, and the next event    *)
(* will be chained to the last one.                                        *)
LogIsChained ==
    /\ VerifyChain(events)
    /\ \A i \in DOMAIN events : events[i].id = i
    /\ nextId = Len(events) + 1
    /\ lastHash = IF events = <<>> THEN GenesisHash ELSE Last(events).hash

(* A copy that passes verify_chain says what the log said: it is an        *)
(* initial part of the events, with the same ids, times and texts, up to   *)
(* what the colon that joins address and message cannot tell apart.        *)
VerifiedCopyIsPrefix ==
    VerifyChain(copy) =>
        /\ Len(copy) <= Len(source)
        /\ \A i \in DOMAIN copy : Canonical(copy[i]) = Canonical(source[i])
=============================================================================
