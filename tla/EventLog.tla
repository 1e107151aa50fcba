------------------------------ MODULE EventLog ------------------------------
(***************************************************************************)
(* The in-memory event log of gb_core (EventLogWriter): idempotent appends *)
(* under a key, and a retention job that archives old events and drops     *)
(* older ones.  Events carry their own time, so a late one may be older    *)
(* than events appended before it.                                         *)
(*                                                                         *)
(* The log is the set of its records: they are appended in the order of     *)
(* their offsets and a purge keeps that order, so the list is that set     *)
(* sorted.  What an event says besides its time is left out.                *)
(***************************************************************************)
EXTENDS Integers, FiniteSets

CONSTANTS
    Keys,          \* idempotency keys
    None,          \* a key that was not used
    Retention,     \* retention_period
    ArchiveAfter,  \* archive_after
    MaxTime        \* bound on the clock

ASSUME PolicyAssumption ==
    /\ None \notin Int \cup Keys
    /\ Retention \in Nat
    /\ ArchiveAfter \in Nat
    /\ MaxTime \in Nat

VARIABLES
    clock,     \* the present
    next,      \* _next_offset
    records,   \* _records
    offsets,   \* _idempotency_offsets
    archived,  \* _archived
    answer,    \* what the latest append returned: the key asked for and the record
    appended   \* history: every record ever made

logVars == <<clock, next, records, offsets, archived, answer, appended>>

Records == [offset : Nat, key : Keys, time : 0 .. MaxTime]
NewRecord(n, k, t) == [offset |-> n, key |-> k, time |-> t]

\* An append that raised IndexError, or no append yet.
NoRecord == None

LogInit ==
    /\ clock = 0
    /\ next = 0
    /\ records = {}
    /\ offsets = [k \in Keys |-> None]
    /\ archived = {}
    /\ answer = <<None, NoRecord>>
    /\ appended = {}

\* append with a key it has not seen.
AppendNew(k, t) ==
    /\ offsets[k] = None
    /\ LET r == NewRecord(next, k, t) IN
         /\ records' = records \cup {r}
         /\ appended' = appended \cup {r}
         /\ answer' = <<k, r>>
    /\ offsets' = [offsets EXCEPT ![k] = next]
    /\ next' = next + 1
    /\ UNCHANGED <<clock, archived>>

\* append with a key it knows: the offset is used as an index into what the
\* retention job left.
Index(r) == Cardinality({s \in records : s.offset < r.offset})
RecordAt(n) ==
    IF \E r \in records : Index(r) = n THEN CHOOSE r \in records : Index(r) = n ELSE NoRecord

AppendAgain(k) ==
    /\ offsets[k] # None
    /\ answer' = <<k, RecordAt(offsets[k])>>
    /\ UNCHANGED <<clock, next, records, offsets, archived, appended>>

Kept(r) == r.time >= clock - Retention

\* Mutant of Aged: the purge comes first.
AgedAndKept(r) == r.time <= clock - ArchiveAfter /\ Kept(r)

Aged(r) == r.time <= clock - ArchiveAfter

\* apply_retention_and_archive: the archive first, then the purge.
ApplyRetention ==
    /\ archived' = archived \cup {r \in records : Aged(r)}
    /\ records' = {r \in records : Kept(r)}
    /\ UNCHANGED <<clock, next, offsets, answer, appended>>

Tick ==
    /\ clock < MaxTime
    /\ clock' = clock + 1
    /\ UNCHANGED <<next, records, offsets, archived, answer, appended>>

LogNext ==
    \/ \E k \in Keys, t \in 0 .. clock : AppendNew(k, t)
    \/ \E k \in Keys : AppendAgain(k)
    \/ ApplyRetention
    \/ Tick

LogSpec == LogInit /\ [][LogNext]_logVars

-----------------------------------------------------------------------------
(* Properties. *)

\* Type invariant; offsets stay below the next one.
LogTypeOK ==
    /\ clock \in 0 .. MaxTime
    /\ next \in Nat
    /\ \A r \in appended : r.offset < next
    /\ records \subseteq Records
    /\ offsets \in [Keys -> Nat \cup {None}]
    /\ archived \subseteq Records
    /\ answer \in (Keys \cup {None}) \X (Records \cup {NoRecord})
    /\ appended \subseteq Records

\* With archiving no later than the purge, as in the default policy, every
\* record ever appended is still in the log or in the archive, late ones and
\* any rhythm of the retention job included.
NothingLost ==
    ArchiveAfter <= Retention => appended = records \cup archived

\* A key has one record, in the log or in the archive, the one its offset
\* names, and no two keys share an offset.
OneRecordPerKey ==
    \A r, s \in records \cup archived : r.key = s.key \/ r.offset = s.offset => r = s

\* Appends and retention in any rhythm keep every record, and one for each key
\* (append and apply_retention).
LogKept ==
    /\ NothingLost
    /\ OneRecordPerKey

\* Claim of the documentation.

\* Docstring of EventLogWriter: appends are idempotent.  An append returns the
\* record of its key.
AppendIdempotent ==
    answer[1] # None => answer[2] # NoRecord /\ answer[2].key = answer[1]
=============================================================================
