-------------------------- MODULE DeadLetterQueue --------------------------
(***************************************************************************)
(* The queue database that the proxy writes and the replay commands read   *)
(* and update: the table of failure records with their claims, and the     *)
(* table of successful keyed executions (the idempotency index).  Each     *)
(* operator below is one SQL statement of SqliteQueueProvider, which SQLite *)
(* executes atomically even when several processes share the file.         *)
(*                                                                         *)
(* Data: a record is its position in capture order (record ids are         *)
(* monotonic ULIDs, so the larger number is the newer record).  What a     *)
(* captured call carried is fixed when it is captured and is given by the  *)
(* constants ArgKey, MetaKey, HashOf and Marked.                           *)
(***************************************************************************)
EXTENDS Integers, FiniteSets

CONSTANTS
    NumRecords,   \* how many calls can fail and be captured
    Keys,         \* idempotency keys
    NoKey,        \* the absence of a key
    Hashes,       \* argument hashes
    NoHash,       \* the hash of a row that does not exist
    ArgKey,       \* the key in a call's arguments, or NoKey
    MetaKey,      \* the key in a call's _meta, or NoKey
    HashOf,       \* the hash of a call's raw arguments
    Lease,        \* CLAIM_LEASE_MS
    DedupWindow,  \* reliability.replay.dedup_window
    MaxClock      \* bound on the clock: the model stops counting time there

Records == 1 .. NumRecords

ASSUME DlqAssumption ==
    /\ NumRecords \in Nat
    /\ Lease \in Nat /\ DedupWindow \in Nat /\ MaxClock \in Nat
    /\ NoKey \notin Keys /\ NoHash \notin Hashes
    /\ ArgKey \in [Records -> Keys \cup {NoKey}]
    /\ MetaKey \in [Records -> Keys \cup {NoKey}]
    /\ HashOf \in [Records -> Hashes]

VARIABLES
    clock,        \* the wall clock that every process reads
    status,       \* replay_status of a record, "absent" before its capture
    claimExpiry,  \* claim_expires_at of a record, NULL when unclaimed
    executions    \* the executions table, one row per key

dlqVars == <<clock, status, claimExpiry, executions>>

NULL == -1
Timestamps == Nat \cup {NULL}
NoExecution == [hash |-> NoHash, at |-> NULL]

DlqTypeOK ==
    /\ clock \in Nat
    /\ status \in [Records -> {"absent", "pending", "replayed"}]
    /\ claimExpiry \in [Records -> Timestamps]
    /\ executions \in [Keys -> [hash : Hashes \cup {NoHash}, at : Timestamps]]

DlqInit ==
    /\ clock = 0
    /\ status = [r \in Records |-> "absent"]
    /\ claimExpiry = [r \in Records |-> NULL]
    /\ executions = [k \in Keys |-> NoExecution]

Pending == {r \in Records : status[r] = "pending"}

\* list({status: 'pending', limit}): the newest `limit` pending records.
Newest(limit) == {r \in Pending : Cardinality({s \in Pending : s > r}) < limit}

\* enqueue: the ids of the records are handed out in capture order.
Enqueue(r) ==
    /\ status[r] = "absent"
    /\ \A s \in Records : s < r => status[s] # "absent"
    /\ status' = [status EXCEPT ![r] = "pending"]
    /\ UNCHANGED claimExpiry

\* Mutants of Claimable: the status is ignored; the lease is over one tick early.
Claimable_AnyStatus(r) == claimExpiry[r] = NULL \/ claimExpiry[r] < clock
Claimable_AtExpiry(r) ==
    status[r] = "pending" /\ (claimExpiry[r] = NULL \/ claimExpiry[r] <= clock)

Claimable(r) ==
    /\ status[r] = "pending"
    /\ claimExpiry[r] = NULL \/ claimExpiry[r] < clock

\* claim: the UPDATE that changes a row; it changes none unless Claimable.
Claim(r) ==
    /\ Claimable(r)
    /\ claimExpiry' = [claimExpiry EXCEPT ![r] = clock + Lease]
    /\ UNCHANGED status

\* release: clears the claim of a pending record, whoever made the claim.
Release(r) ==
    /\ claimExpiry' = IF status[r] = "pending"
                      THEN [claimExpiry EXCEPT ![r] = NULL]
                      ELSE claimExpiry
    /\ UNCHANGED status

\* resolve: pending -> replayed, whoever holds the claim.
Resolve(r) ==
    /\ status[r] = "pending"
    /\ status' = [status EXCEPT ![r] = "replayed"]
    /\ UNCHANGED claimExpiry

\* recordExecution: INSERT ... ON CONFLICT(key) DO UPDATE.
RecordExecution(k, h, t) ==
    executions' = [executions EXCEPT ![k] = [hash |-> h, at |-> t]]

\* Mutant of WithinWindow: the end of the window is left out.
WithinWindow_Exclusive(e) == e.at # NULL /\ clock - e.at < DedupWindow

WithinWindow(e) == e.at # NULL /\ clock - e.at <= DedupWindow

\* dedupVerdict over lastExecution(key), or lastExecutionByHash without a key.
Duplicate(r) ==
    IF ArgKey[r] # NoKey
    THEN WithinWindow(executions[ArgKey[r]])
    ELSE \E k \in Keys : /\ executions[k].hash = HashOf[r]
                         /\ WithinWindow(executions[k])

\* extractIdempotencyKey on the live request: _meta first, then the arguments.
LiveKey(r) == IF MetaKey[r] # NoKey THEN MetaKey[r] ELSE ArgKey[r]
=============================================================================
