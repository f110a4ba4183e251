---------------------------- MODULE OutboxRelay ----------------------------
(***************************************************************************)
(* The transactional outbox of one event stream and the poller that        *)
(* publishes it (apps/outbox-poller): row n is the outbox row of the       *)
(* stream's event with version n, committed together with that event.  All *)
(* of them have the same key and so go to one partition of their topic.    *)
(*                                                                         *)
(* The rows of a stream are created in version order, since an event is    *)
(* decided on a stream that holds the one before it.  There is one poller; *)
(* a failed send, a failed update and a crash all end its process, and the *)
(* next one starts from the rows that are still PENDING.                   *)
(***************************************************************************)
EXTENDS Naturals, Sequences

CONSTANTS
  LastVersion,         \* the length the stream grows to
  MaxCrashes           \* crashes that may happen, of poller and consumers

ASSUME RelayAssumption == LastVersion \in Nat \ {0} /\ MaxCrashes \in Nat

VARIABLES
  outbox,              \* for each row, its status, "absent" before the commit
  batch,               \* the rows the poller has still to publish
  published,           \* the oldest of them is in Kafka, its row still PENDING
  log,                 \* the partition: versions in the order they were sent
  crashes

relayVars == <<outbox, batch, published, log, crashes>>

Versions == 1 .. LastVersion

RelayTypeOK ==
  /\ outbox \in [Versions -> {"absent", "PENDING", "SENT"}]
  /\ batch \subseteq Versions /\ published \in BOOLEAN
  /\ log \in Seq(Versions)
  /\ crashes \in 0 .. MaxCrashes

RelayInit ==
  /\ outbox = [n \in Versions |-> "absent"]
  /\ batch = {} /\ published = FALSE
  /\ log = <<>>
  /\ crashes = 0

Committed(n) == outbox[n] # "absent"
Pending == {n \in Versions : outbox[n] = "PENDING"}

\* appendWithExpectedVersion commits the event and its outbox row.
CommitEvent ==
  /\ \E n \in Versions :
       /\ outbox[n] = "absent" /\ (n > 1 => Committed(n - 1))
       /\ outbox' = [outbox EXCEPT ![n] = "PENDING"]
  /\ UNCHANGED <<batch, published, log, crashes>>

\* pollOnce, the query: the oldest hundred PENDING rows of all streams, among
\* them any number of the oldest of this one.  (PollNewestFirst is a mutated
\* form.)
PollNewestFirst ==
  /\ batch = {}
  /\ \E n \in Pending : batch' = {m \in Pending : m >= n}
  /\ UNCHANGED <<outbox, published, log, crashes>>

Poll ==
  /\ batch = {}
  /\ \E n \in Pending : batch' = {m \in Pending : m <= n}
  /\ UNCHANGED <<outbox, published, log, crashes>>

\* The two steps of its loop, which takes the rows by age: publishEnvelope,
\* then the update.  (MarkThenSend is a mutated form, the two in the other
\* order.)
Oldest(n, rows) == n \in rows /\ \A m \in rows : n <= m

MarkThenSend ==
  /\ \E n \in Versions :
       /\ Oldest(n, batch)
       /\ IF outbox[n] = "PENDING"
            THEN outbox' = [outbox EXCEPT ![n] = "SENT"] /\ UNCHANGED <<log, batch>>
            ELSE log' = Append(log, n) /\ batch' = batch \ {n} /\ UNCHANGED outbox
  /\ UNCHANGED <<published, crashes>>

Send ==
  /\ ~published /\ published' = TRUE
  /\ \E n \in Versions : Oldest(n, batch) /\ log' = Append(log, n)
  /\ UNCHANGED <<outbox, batch, crashes>>

MarkSent ==
  /\ published /\ published' = FALSE
  /\ \E n \in Versions :
       /\ Oldest(n, batch)
       /\ outbox' = [outbox EXCEPT ![n] = "SENT"] /\ batch' = batch \ {n}
  /\ UNCHANGED <<log, crashes>>

PollerCrash ==
  /\ batch # {} /\ crashes < MaxCrashes
  /\ batch' = {} /\ published' = FALSE /\ crashes' = crashes + 1
  /\ UNCHANGED <<outbox, log>>

Poller == Poll \/ Send \/ MarkSent

RelayNext == CommitEvent \/ Poller \/ PollerCrash

RelaySpec == RelayInit /\ [][RelayNext]_relayVars

-----------------------------------------------------------------------------

\* An event reaches Kafka for the first time after the one before it did, and
\* only once it is committed, whatever is sent twice after a crash.
FirstSentInOrder ==
  \A i \in 1 .. Len(log) :
    /\ Committed(log[i])
    /\ log[i] > 1 => \E j \in 1 .. i - 1 : log[j] = log[i] - 1

\* A row marked SENT is in Kafka.
SentIsPublished ==
  \A n \in Versions : outbox[n] = "SENT" =>
    \E i \in 1 .. Len(log) : log[i] = n

\* The promise of the outbox: in order, none before its commit, none forgotten.
OutboxIsFaithful == FirstSentInOrder /\ SentIsPublished
=============================================================================
