--------------------------- MODULE CandidateStore ---------------------------
(* The store of scanner candidates (src/database/candidate_store.py): a      *)
(* durable table, a write-through cache of the rows still being watched, and *)
(* several threads that read whole candidates and later write them back.     *)
(* A write is two steps, as in the code: the statement commits, and then,    *)
(* outside that transaction, _cache_candidate touches the cache.             *)
EXTENDS Naturals, FiniteSets

CONSTANTS
    Ids,        \* the signal ids the detectors may mint
    MaxPlan,    \* plans are 1..MaxPlan: an entry, a stop and a ladder
    TextAfter   \* failed renders after which the text goes alone, 3 in the code

ASSUME StoreAssumption ==
    MaxPlan \in Nat \ {0} /\ 0 \notin Ids /\ TextAfter \in Nat \ {0}

Plans == 1..MaxPlan

\* The threads that write candidates: the monitor pass, the discovery scan
\* and the pool of the Gemini advisor.
Threads == {"monitor", "scan", "advisor"}

Live == {"EDUCATIONAL", "APPROACHING"}
Resolved == {"CANCELLED", "EXPIRED", "SUPERSEDED", "UNPOSTED"}

\* The flags of the confirmation post: nothing; confirmation_message_sent alone,
\* after a rendered chart was refused ("lost") or with its photo still pending
\* ("text"); confirmation_chart_sent too ("chart").
Receipts == {"none", "lost", "text", "chart"}

\* A candidate is written as a whole: its status, what has been sent about it
\* and the plan. "frozen" is the confirmed_snapshot, 0 when there is none.
Candidate == [
    status   : {"NONE", "CONFIRMED"} \cup Live \cup Resolved,
    alerted  : BOOLEAN,       \* education_message_id
    warned   : 0..2,          \* approaching_sent: by text, by the stage-B chart
    complete : BOOLEAN,       \* technical_confirmation_complete
    staged   : BOOLEAN,       \* persistence_staged
    receipt  : Receipts,
    tries    : 0..TextAfter,  \* chart_fail_attempts
    plan     : 0..MaxPlan,    \* planned_entry, sl, tp1, tp2
    frozen   : 0..MaxPlan ]

Absent == [status |-> "NONE", alerted |-> FALSE, warned |-> 0,
           complete |-> FALSE, staged |-> FALSE, receipt |-> "none",
           tries |-> 0, plan |-> 0, frozen |-> 0]

VARIABLES
    table,      \* signal_candidates: the status column and the payload
    cache,      \* _ACTIVE_CACHE_ROWS, and whether it has been loaded
    pending,    \* per thread, the cache write its last statement still owes
    expired     \* the ids whose expires_at has passed

storeVars == <<table, cache, pending, expired>>

NoWrite == [id |-> 0, c |-> Absent]

StoreTypeOK ==
    /\ table \in [Ids -> [status : {"NONE", "CONFIRMED"} \cup Live \cup Resolved,
                          c : Candidate]]
    /\ cache \in [loaded : BOOLEAN, rows : [Ids -> Candidate]]
    /\ pending \in [Threads -> [id : Ids \cup {0}, c : Candidate]]
    /\ expired \subseteq Ids

StoreInit ==
    /\ table = [i \in Ids |-> [status |-> "NONE", c |-> Absent]]
    /\ cache = [loaded |-> FALSE, rows |-> [i \in Ids |-> Absent]]
    /\ pending = [t \in Threads |-> NoWrite]
    /\ expired = {}

Settled(t) == pending[t] = NoWrite

\* The rows that SQL calls live: open_chains_for, _live_candidates_for_symbol_tf.
LiveRows == {i \in Ids : table[i].status \in Live /\ i \notin expired}

\* update_candidate: the whole candidate replaces its row, when there is one,
\* however old the writer's copy is.
Update(t, i, c) ==
    /\ table' = IF table[i].status = "NONE" THEN table
                ELSE [table EXCEPT ![i] = [status |-> c.status, c |-> c]]
    /\ pending' = [pending EXCEPT ![t] = [id |-> i, c |-> c]]
    /\ UNCHANGED <<cache, expired>>

\* add_candidate: INSERT ... ON CONFLICT DO NOTHING.
Insert(t, i, c) ==
    /\ table[i].status = "NONE"
    /\ table' = [table EXCEPT ![i] = [status |-> c.status, c |-> c]]
    /\ pending' = [pending EXCEPT ![t] = [id |-> i, c |-> c]]
    /\ UNCHANGED <<cache, expired>>

\* set_status: read, changed and written in one transaction, nothing when the
\* row is gone.
SetStatus(t, i, status) ==
    IF table[i].status = "NONE" THEN UNCHANGED storeVars
    ELSE LET c == [table[i].c EXCEPT !.status = status]
         IN /\ table' = [table EXCEPT ![i] = [status |-> status, c |-> c]]
            /\ pending' = [pending EXCEPT ![t] = [id |-> i, c |-> c]]
            /\ UNCHANGED <<cache, expired>>

\* _cache_candidate: write through when a snapshot is loaded; a row that is
\* resolved or out of time leaves it.
CacheCandidate(t) ==
    /\ ~Settled(t)
    /\ LET i == pending[t].id
           c == pending[t].c
       IN cache' = IF ~cache.loaded THEN cache
                   ELSE [cache EXCEPT !.rows[i] =
                           IF c.status \in Live /\ i \notin expired THEN c ELSE Absent]
    /\ pending' = [pending EXCEPT ![t] = NoWrite]
    /\ UNCHANGED <<table, expired>>

\* The snapshot get_active_candidates works on: the cache, reloaded when it
\* was reset or its fifteen minutes are over (refresh).
Snapshot(refresh) ==
    IF cache.loaded /\ ~refresh THEN cache.rows
    ELSE [i \in Ids |-> IF i \in LiveRows THEN table[i].c ELSE Absent]

\* get_active_candidates: the candidates of the snapshot still live by their
\* own payload.
Active(rows) == {i \in Ids : rows[i].status \in Live /\ i \notin expired}

Load(refresh) ==
    /\ cache' = [loaded |-> TRUE, rows |-> Snapshot(refresh)]
    /\ UNCHANGED <<table, pending, expired>>

\* cleanup_candidates at the end of a scan: the status column of a live row
\* out of time becomes EXPIRED, old resolved rows go, the cache is reset.
Cleanup(old) ==
    /\ table' = [i \in Ids |->
                   IF i \in old THEN [status |-> "NONE", c |-> Absent]
                   ELSE IF table[i].status \in Live /\ i \in expired
                        THEN [table[i] EXCEPT !.status = "EXPIRED"]
                   ELSE table[i]]
    /\ cache' = [loaded |-> FALSE, rows |-> [i \in Ids |-> Absent]]
    /\ UNCHANGED <<pending, expired>>

\* A restart forgets the cache and every write a thread still owed it.
StoreCrash ==
    /\ cache' = [loaded |-> FALSE, rows |-> [i \in Ids |-> Absent]]
    /\ pending' = [t \in Threads |-> NoWrite]
    /\ UNCHANGED <<table, expired>>
=============================================================================
