-------------------------- MODULE Confirmation_proofs --------------------------
(* A confirmation is armed only after the channel was told of it, or refused   *)
(* the post that passes for published, for every number of candidates, every   *)
(* fault and every older copy written back. The invariant says of each of the  *)
(* copies of a candidate, wherever a thread keeps one: what its receipt claims *)
(* did happen. Further invariants follow what a failure may lose, and the plan *)
(* that was staged.                                                            *)
EXTENDS ConfirmationRefinement, FiniteSetTheorems, TLAPS

Statuses == {"NONE", "CONFIRMED"} \cup Live \cup Resolved

Seen(i) == said[i].posts > 0
Known(i) == Seen(i) \/ said[i].lost
Good(c, i) == c \in Candidate /\ (c.receipt # "none" => Known(i))

-----------------------------------------------------------------------------
(* What the operators on one candidate keep: its type and its receipt.        *)

Like(d, c) == d \in Candidate /\ d.receipt = c.receipt

\* A field other than the receipt may be set to anything of its type.
LEMMA SetFields ==
    ASSUME NEW c \in Candidate
    PROVE  /\ \A s \in Statuses : Like([c EXCEPT !.status = s], c)
           /\ \A b \in BOOLEAN : Like([c EXCEPT !.complete = b], c)
           /\ \A b \in BOOLEAN : Like([c EXCEPT !.alerted = b], c)
           /\ \A b \in BOOLEAN : Like([c EXCEPT !.staged = b], c)
           /\ \A p \in 0..MaxPlan : Like([c EXCEPT !.plan = p], c)
           /\ \A p \in 0..MaxPlan : Like([c EXCEPT !.frozen = p], c)
           /\ \A b \in BOOLEAN, s \in Statuses :
                 Like([c EXCEPT !.status = s, !.complete = b], c)
           /\ \A b \in BOOLEAN, s \in Statuses, p \in 0..MaxPlan :
                 Like([c EXCEPT !.status = s, !.complete = b, !.plan = p], c)
           /\ \A w \in 0..2, s \in Statuses, p \in 0..MaxPlan :
                 /\ Like([c EXCEPT !.warned = w, !.status = s], c)
                 /\ Like([c EXCEPT !.warned = w, !.status = s, !.frozen = p], c)
BY ZenonT(40) DEF Candidate, Statuses, Like

\* The empty candidate, and a detection, carry no receipt.
LEMMA FreshCandidate ==
    /\ Absent \in Candidate /\ Absent.receipt = "none"
    /\ \A plan \in Plans :
          LET c == [Absent EXCEPT !.status = "EDUCATIONAL", !.plan = plan]
          IN c \in Candidate /\ c.receipt = "none"
<1>1. Absent \in Candidate /\ Absent.receipt = "none"
  BY StoreAssumption DEF Absent, Candidate, Receipts
<1>2. ASSUME NEW plan \in Plans
      PROVE  LET c == [Absent EXCEPT !.status = "EDUCATIONAL", !.plan = plan]
             IN c \in Candidate /\ c.receipt = "none"
  <2>1. plan \in 0..MaxPlan BY StoreAssumption DEF Plans
  <2>2. Like([Absent EXCEPT !.status = "EDUCATIONAL"], Absent)
    BY <1>1, SetFields DEF Statuses, Live
  <2>3. Like([[Absent EXCEPT !.status = "EDUCATIONAL"] EXCEPT !.plan = plan],
             [Absent EXCEPT !.status = "EDUCATIONAL"])
    BY <2>1, <2>2, SetFields DEF Like
  <2>4. [[Absent EXCEPT !.status = "EDUCATIONAL"] EXCEPT !.plan = plan]
          = [Absent EXCEPT !.status = "EDUCATIONAL", !.plan = plan]
    OBVIOUS
  <2> QED BY <1>1, <2>2, <2>3, <2>4 DEF Like
<1> QED BY <1>1, <1>2

\* The operators of the monitor pass and of the scan.
LEMMA Operators ==
    ASSUME NEW c \in Candidate
    PROVE  /\ Like(Enforced(c), c)
           /\ Like(Frozen(c), c)
           /\ \A d \in Watched(c) : Like(d, c)
           /\ \A d \in Watched(c), plan \in NewPlans(c) :
                 Like(Confirmed(d, plan), c) /\ Like([d EXCEPT !.plan = plan], c)
           /\ Like(Shown(c), c)
           /\ Like(Unstaged(c), c)
           /\ Like(NotSent(c), c) /\ Like(Attempted(c), c)
           /\ \A r \in Receipts : Sent(c, r) \in Candidate /\ Sent(c, r).receipt = r
           /\ \A plan \in Plans, moved \in BOOLEAN : Like(Absorbed(c, plan, moved), c)
<1> USE StoreAssumption
<1>0. Plans \subseteq 0..MaxPlan /\ 0 \in 0..MaxPlan BY DEF Plans
<1>1. c.frozen \in 0..MaxPlan /\ c.plan \in 0..MaxPlan /\ Like(c, c)
  BY DEF Candidate, Like
<1>2. {"APPROACHING", "CANCELLED", "CONFIRMED", "EDUCATIONAL"} \subseteq Statuses
  BY DEF Statuses, Live, Resolved
<1>3. Like(Enforced(c), c) /\ Like(Frozen(c), c)
  BY <1>1, SetFields DEF Enforced, Frozen
<1>4. ASSUME NEW d \in Watched(c) PROVE Like(d, c)
  <2>0. 1 \in 0..2 /\ 2 \in 0..2 OBVIOUS
  <2>1. ASSUME NEW e \in Candidate, NEW w \in 0..2 PROVE Like(Warned(e, w), e)
    BY DEF Warned, Candidate, Like, Live
  <2>2. Frozen(c) \in Candidate BY <1>3 DEF Like
  <2>3. d \in {c, Warned(c, 1), Warned(c, 2), Frozen(c), Warned(Frozen(c), 2)}
    BY DEF Watched
  <2> QED BY <1>1, <1>3, <2>0, <2>1, <2>2, <2>3 DEF Like
<1>5. ASSUME NEW d \in Watched(c), NEW plan \in NewPlans(c)
      PROVE  Like(Confirmed(d, plan), c) /\ Like([d EXCEPT !.plan = plan], c)
  <2>1. d \in Candidate /\ d.receipt = c.receipt BY <1>4 DEF Like
  <2>2. plan \in 0..MaxPlan BY <1>0, <1>1 DEF NewPlans
  <2>3. Like(Confirmed(d, plan), d) BY <2>1, <2>2, <1>2, SetFields DEF Confirmed
  <2>4. Like([d EXCEPT !.plan = plan], d) BY <2>1, <2>2, SetFields
  <2> QED BY <2>1, <2>3, <2>4 DEF Like
<1>8. Like(Shown(c), c)
  BY <1>1, <1>3 DEF Shown
<1>6. Like(Unstaged(c), c)
  BY <1>2, SetFields DEF Unstaged
<1>9. Like(NotSent(c), c)
  BY <1>2, SetFields DEF NotSent
<1>10. Like(Attempted(c), c)
  <2>1. c.tries \in 0..TextAfter BY DEF Candidate
  <2>2. PICK n : n = IF c.tries < TextAfter THEN c.tries + 1 ELSE c.tries OBVIOUS
  <2>3. n \in 0..TextAfter BY <2>1, <2>2
  <2>4. Like([c EXCEPT !.tries = n], c) BY <2>3 DEF Candidate, Like
  <2> QED BY <2>2, <2>4 DEF Attempted
<1>11. ASSUME NEW r \in Receipts
       PROVE  Sent(c, r) \in Candidate /\ Sent(c, r).receipt = r
  BY DEF Sent, Candidate, Live
<1>7. ASSUME NEW plan \in Plans, NEW moved \in BOOLEAN
      PROVE  Like(Absorbed(c, plan, moved), c)
  <2> DEFINE r == IF moved /\ c.warned > 0
                  THEN [c EXCEPT !.warned = 0, !.status = "EDUCATIONAL", !.frozen = 0]
                  ELSE c
  <2>0. 0 \in 0..2 OBVIOUS
  <2>1. Like(r, c) BY <2>0, <1>0, <1>1, <1>2, SetFields, Zenon
  <2>2. r \in Candidate /\ r.receipt = c.receipt BY <2>1 DEF Like
  <2> HIDE DEF r
  <2>3. Like([r EXCEPT !.plan = plan], r) BY <1>0, <2>2, SetFields
  <2>4. Like([r EXCEPT !.plan = plan], c) BY <2>2, <2>3 DEF Like
  <2>5. Absorbed(c, plan, moved) \in {r, [r EXCEPT !.plan = plan]} BY DEF Absorbed, r
  <2> QED BY <2>1, <2>4, <2>5
<1> QED BY <1>3, <1>4, <1>5, <1>6, <1>7, <1>8, <1>9, <1>10, <1>11

-----------------------------------------------------------------------------
(* The invariant, one part per owner of copies.                               *)

StoreInv ==
    /\ StoreTypeOK
    /\ \A i \in Ids : Good(table[i].c, i) /\ Good(cache.rows[i], i)
    /\ \A t \in Threads :
          pending[t] = NoWrite \/ (pending[t].id \in Ids /\ Good(pending[t].c, pending[t].id))

InHand == monitor.pc \notin {"idle", "pick"}
MonitorType ==
    monitor \in [pc : {"idle", "pick", "judge", "release", "stage", "gate", "send",
                      "receipt", "mark", "final"},
                todo : SUBSET Ids, copies : [Ids -> Candidate],
                id : Ids \cup {0}, c : Candidate, was : Candidate]
MonitorInv ==
    /\ MonitorType
    /\ \A i \in Ids : Good(monitor.copies[i], i)
    /\ InHand => /\ monitor.id \in Ids
                 /\ Good(monitor.c, monitor.id) /\ Good(monitor.was, monitor.id)
    /\ monitor.pc \in {"receipt", "mark"} => Known(monitor.id)
    /\ monitor.pc \in {"gate", "send", "receipt", "mark"} => signals[monitor.id].state # "NONE"

Scans == [pc : {"idle", "detect", "absorb", "note", "add", "supersede", "purge",
               "educate", "suppressed", "retry"},
          id : Ids \cup {0}, prior : Ids \cup {0}, c : Candidate,
          left : Nat, used : Nat, deferred : SUBSET Ids]
ScanType == scan \in Scans
ScanInv ==
    /\ ScanType
    /\ scan.pc \in {"add", "supersede", "purge", "educate", "suppressed"} => scan.id \in Ids
    /\ scan.pc \in {"absorb", "note", "supersede", "purge"} =>
          scan.prior \in Ids /\ Good(scan.c, scan.prior)
    /\ objs \in [Ids -> Candidate] /\ \A i \in Ids : Good(objs[i], i)
    /\ minted \subseteq Ids /\ advising \subseteq Ids

PublicInv ==
    /\ signals \in [Ids -> [state : SignalState, plan : 0..MaxPlan]]
    /\ said \in [Ids -> [posts : Nat, text : BOOLEAN, plan : 0..MaxPlan, lost : BOOLEAN]]
    /\ faults \in [send : Nat, chart : Nat, db : Nat, crash : Nat, refresh : Nat]
    /\ \A i \in Ids : Tracked(i) => Known(i)

Inv == StoreInv /\ MonitorInv /\ ScanInv /\ PublicInv

\* The channel forgets nothing, so what a copy claims stays true.
Remembered == \A i \in Ids : Known(i) => Known(i)'

-----------------------------------------------------------------------------
(* The store.                                                                 *)

LEMMA StoreUnchanged ==
    ASSUME StoreInv, Remembered, UNCHANGED storeVars
    PROVE  StoreInv'
BY DEF StoreInv, StoreTypeOK, Remembered, storeVars, Good, Seen, Known, NoWrite

LEMMA StoreUpdate ==
    ASSUME StoreInv, Remembered, NEW t \in Threads, NEW i \in Ids, NEW c,
           Good(c, i)', Update(t, i, c)
    PROVE  StoreInv'
<1>0. c \in Candidate /\ c.status \in {"NONE", "CONFIRMED"} \cup Live \cup Resolved
  BY DEF Good, Seen, Known, Candidate
<1>1. StoreTypeOK'
  BY <1>0 DEF StoreInv, StoreTypeOK, Update
<1>2. \A j \in Ids : Good(table[j].c, j)' /\ Good(cache.rows[j], j)'
  BY DEF StoreInv, StoreTypeOK, Remembered, Good, Seen, Known, Update
<1>3. ASSUME NEW u \in Threads
      PROVE  (pending[u] = NoWrite
               \/ (pending[u].id \in Ids /\ Good(pending[u].c, pending[u].id)))'
  BY DEF StoreInv, StoreTypeOK, Remembered, Good, Seen, Known, Update, NoWrite
<1> QED BY <1>1, <1>2, <1>3 DEF StoreInv

LEMMA StoreInsert ==
    ASSUME StoreInv, Remembered, NEW t \in Threads, NEW i \in Ids, NEW c,
           Good(c, i)', Insert(t, i, c)
    PROVE  StoreInv'
<1>0. c \in Candidate /\ c.status \in {"NONE", "CONFIRMED"} \cup Live \cup Resolved
  BY DEF Good, Seen, Known, Candidate
<1>1. StoreTypeOK'
  BY <1>0 DEF StoreInv, StoreTypeOK, Insert
<1>2. \A j \in Ids : Good(table[j].c, j)' /\ Good(cache.rows[j], j)'
  BY DEF StoreInv, StoreTypeOK, Remembered, Good, Seen, Known, Insert
<1>3. ASSUME NEW u \in Threads
      PROVE  (pending[u] = NoWrite
               \/ (pending[u].id \in Ids /\ Good(pending[u].c, pending[u].id)))'
  BY DEF StoreInv, StoreTypeOK, Remembered, Good, Seen, Known, Insert, NoWrite
<1> QED BY <1>1, <1>2, <1>3 DEF StoreInv

LEMMA StoreSetStatus ==
    ASSUME StoreInv, Remembered, NEW t \in Threads, NEW i \in Ids, NEW s \in Statuses,
           SetStatus(t, i, s)
    PROVE  StoreInv'
<1>1. CASE table[i].status = "NONE"
  BY <1>1, StoreUnchanged DEF SetStatus
<1>2. CASE table[i].status # "NONE"
  <2>1. Good(table[i].c, i) BY DEF StoreInv
  <2>2. PICK c : c = [table[i].c EXCEPT !.status = s] OBVIOUS
  <2>3. Like(c, table[i].c) BY <2>1, <2>2, SetFields DEF Good
  <2>4. Good(c, i)' BY <2>1, <2>3 DEF Good, Seen, Known, Like, Remembered
  <2>5. c.status = s BY <2>1, <2>2 DEF Good, Candidate
  <2>6. Update(t, i, c) BY <1>2, <2>2, <2>5 DEF SetStatus, Update
  <2> QED BY <2>4, <2>6, StoreUpdate
<1> QED BY <1>1, <1>2

LEMMA StoreCacheCandidate ==
    ASSUME StoreInv, Remembered, NEW t \in Threads, CacheCandidate(t)
    PROVE  StoreInv'
<1>1. pending[t].id \in Ids /\ Good(pending[t].c, pending[t].id)
  BY DEF StoreInv, CacheCandidate, Settled
<1>2. Absent \in Candidate /\ Absent.receipt = "none" BY FreshCandidate
<1>3. StoreTypeOK'
  BY <1>1, <1>2 DEF StoreInv, StoreTypeOK, CacheCandidate, Good, Seen, Known, NoWrite
<1>4. \A j \in Ids : Good(table[j].c, j)'
  BY DEF StoreInv, Remembered, Good, Seen, Known, CacheCandidate
<1>5. ASSUME NEW j \in Ids PROVE Good(cache.rows[j], j)'
  BY <1>1, <1>2 DEF StoreInv, StoreTypeOK, Remembered, Good, Seen, Known, CacheCandidate
<1>6. ASSUME NEW u \in Threads
      PROVE  (pending[u] = NoWrite
               \/ (pending[u].id \in Ids /\ Good(pending[u].c, pending[u].id)))'
  BY DEF StoreInv, StoreTypeOK, Remembered, Good, Seen, Known, CacheCandidate, NoWrite
<1> QED BY <1>3, <1>4, <1>5, <1>6 DEF StoreInv

\* A snapshot shows only what the table or the cache holds.
LEMMA SnapshotGood ==
    ASSUME StoreInv, NEW refresh \in BOOLEAN
    PROVE  /\ Snapshot(refresh) \in [Ids -> Candidate]
           /\ \A i \in Ids : Good(Snapshot(refresh)[i], i)
BY FreshCandidate DEF StoreInv, StoreTypeOK, Snapshot, Good, Seen, Known

LEMMA StoreLoad ==
    ASSUME StoreInv, Remembered, NEW refresh \in BOOLEAN, Load(refresh)
    PROVE  StoreInv'
<1>1. /\ Snapshot(refresh) \in [Ids -> Candidate]
      /\ \A i \in Ids : Good(Snapshot(refresh)[i], i)
  BY SnapshotGood
<1> QED BY <1>1 DEF StoreInv, StoreTypeOK, Load, Remembered, Good, Seen, Known, NoWrite

LEMMA StoreCleanup ==
    ASSUME StoreInv, Remembered, NEW old \in SUBSET Ids, Cleanup(old)
    PROVE  StoreInv'
<1>0. Absent \in Candidate /\ Absent.receipt = "none" BY FreshCandidate
<1>1. ASSUME NEW i \in Ids
      PROVE  /\ table'[i].c \in {Absent, table[i].c}
             /\ table'[i] \in [status : {"NONE", "CONFIRMED"} \cup Live \cup Resolved,
                              c : Candidate]
  BY <1>0 DEF StoreInv, StoreTypeOK, Cleanup, Live, Resolved
<1>2. StoreTypeOK'
  BY <1>0, <1>1 DEF StoreInv, StoreTypeOK, Cleanup
<1>3. \A i \in Ids : Good(table[i].c, i)' /\ Good(cache.rows[i], i)'
  BY <1>0, <1>1 DEF StoreInv, Remembered, Good, Seen, Known, Cleanup
<1> QED BY <1>2, <1>3 DEF StoreInv, Remembered, Good, Seen, Known, Cleanup, NoWrite

LEMMA StoreCrashes ==
    ASSUME StoreInv, Remembered, StoreCrash
    PROVE  StoreInv'
<1>0. Absent \in Candidate /\ Absent.receipt = "none" BY FreshCandidate
<1> QED BY <1>0 DEF StoreInv, StoreTypeOK, Remembered, Good, Seen, Known, StoreCrash, NoWrite

-----------------------------------------------------------------------------
(* The monitor pass.                                                          *)

LEMMA Unchanged_Remembers ==
    ASSUME UNCHANGED said
    PROVE  Remembered
BY DEF Remembered, Seen, Known

LEMMA ScanKept ==
    ASSUME ScanInv, Remembered, UNCHANGED world
    PROVE  ScanInv'
BY DEF ScanInv, ScanType, Scans, Remembered, Good, Seen, Known, world

LEMMA PublicKept ==
    ASSUME PublicInv, UNCHANGED <<signals, said>>,
           faults' \in [send : Nat, chart : Nat, db : Nat, crash : Nat, refresh : Nat]
    PROVE  PublicInv'
BY DEF PublicInv, Tracked, Seen, Known

LEMMA MonitorKept ==
    ASSUME MonitorInv, Remembered, UNCHANGED <<monitor, signals>>
    PROVE  MonitorInv'
BY DEF MonitorInv, MonitorType, InHand, Remembered, Good, Seen, Known

LEMMA FaultTyped ==
    ASSUME PublicInv, DbFault
    PROVE  faults' \in [send : Nat, chart : Nat, db : Nat, crash : Nat, refresh : Nat]
BY ConfirmationAssumption DEF PublicInv, DbFault

\* On to the next candidate, whatever happened to the signals.
LEMMA Next_Monitor ==
    ASSUME MonitorInv, Remembered, NextCandidate
    PROVE  MonitorInv'
<1>1. Absent \in Candidate /\ Absent.receipt = "none" BY FreshCandidate
<1>2. MonitorType'
  BY <1>1 DEF MonitorInv, MonitorType, NextCandidate, MonitorIdle
<1>3. monitor'.pc \in {"idle", "pick"}
  BY DEF MonitorInv, MonitorType, NextCandidate, MonitorIdle
<1>4. \A i \in Ids : Good(monitor.copies[i], i)'
  BY <1>1 DEF MonitorInv, MonitorType, NextCandidate, MonitorIdle, Remembered, Good, Seen, Known
<1> QED BY <1>2, <1>3, <1>4 DEF MonitorInv, InHand

\* A candidate that stays in hand.
LEMMA Hand_Monitor ==
    ASSUME MonitorInv, Remembered, InHand, NEW i \in Ids, i = monitor.id,
           NEW pc \in {"judge", "release", "stage", "gate", "send", "receipt", "mark", "final"},
           NEW c \in Candidate, Hand(pc, c),
           c.receipt # "none" => Known(i)',
           pc \in {"receipt", "mark"} => Known(i)',
           pc \in {"gate", "send", "receipt", "mark"} => signals'[i].state # "NONE"
    PROVE  MonitorInv'
<1>1. MonitorType'
  BY DEF MonitorInv, MonitorType, Hand
<1>2. \A j \in Ids : Good(monitor.copies[j], j)'
  BY DEF MonitorInv, MonitorType, Hand, Remembered, Good, Seen, Known
<1>3. monitor'.id = i /\ monitor'.c = c /\ monitor'.pc = pc /\ monitor'.was = monitor.was
  BY DEF MonitorInv, MonitorType, Hand
<1>4. Good(monitor.was, monitor.id)'
  BY <1>3 DEF MonitorInv, Remembered, Good, Seen, Known
<1>5. Good(monitor.c, monitor.id)'
  BY <1>3 DEF Good, Seen, Known
<1>6. monitor'.pc \in {"receipt", "mark"} => Known(monitor.id)'
  BY <1>3 DEF Seen, Known
<1> QED BY <1>1, <1>2, <1>3, <1>4, <1>5, <1>6 DEF MonitorInv, InHand

\* What is in hand past the pick.
LEMMA InHandFacts ==
    ASSUME MonitorInv, InHand
    PROVE  /\ monitor.id \in Ids
           /\ monitor.c \in Candidate /\ monitor.was \in Candidate
           /\ monitor.c.receipt # "none" => Known(monitor.id)
BY DEF MonitorInv, Good

\* A step of the pass that writes nothing.
LEMMA QuietStep ==
    ASSUME Inv, UNCHANGED <<storeVars, world, signals, said, faults>>, MonitorInv'
    PROVE  Inv'
<1>1. Remembered BY Unchanged_Remembers
<1>2. faults' \in [send : Nat, chart : Nat, db : Nat, crash : Nat, refresh : Nat]
  BY DEF Inv, PublicInv
<1> QED BY <1>1, <1>2, StoreUnchanged, ScanKept, PublicKept DEF Inv

\* A step that hands on a candidate like the one in hand and writes nothing.
LEMMA QuietHand ==
    ASSUME Inv, InHand, UNCHANGED <<storeVars, world, signals, said, faults>>,
           NEW pc \in {"judge", "stage", "gate", "send", "final"},
           NEW c, Like(c, monitor.c), Hand(pc, c),
           pc \in {"gate", "send"} => signals[monitor.id].state # "NONE"
    PROVE  Inv'
<1>1. Remembered BY Unchanged_Remembers
<1>2. PICK i \in Ids : i = monitor.id BY InHandFacts DEF Inv
<1>3. c \in Candidate /\ (c.receipt # "none" => Known(i)')
  BY <1>1, <1>2, InHandFacts DEF Inv, Like, Remembered
<1>4. MonitorInv' BY <1>1, <1>2, <1>3, Hand_Monitor DEF Inv
<1> QED BY <1>4, QuietStep

\* A step that writes a candidate and leaves the signals alone.
LEMMA WrittenStep ==
    ASSUME Inv, UNCHANGED <<world, signals, said, faults>>, MonitorInv',
           NEW i \in Ids, NEW c, Good(c, i)', Update("monitor", i, c)
    PROVE  Inv'
<1>1. Remembered BY Unchanged_Remembers
<1>2. faults' \in [send : Nat, chart : Nat, db : Nat, crash : Nat, refresh : Nat]
  BY DEF Inv, PublicInv
<1> QED BY <1>1, <1>2, StoreUpdate, ScanKept, PublicKept DEF Inv, Threads

\* ... and keeps it in hand, or goes on to the next one.
LEMMA WrittenHand ==
    ASSUME Inv, InHand, UNCHANGED <<world, signals, said, faults>>,
           NEW pc \in {"judge", "release", "final"},
           NEW c, Like(c, monitor.c), Update("monitor", monitor.id, c), Hand(pc, c)
    PROVE  Inv'
<1>1. Remembered BY Unchanged_Remembers
<1>2. PICK i \in Ids : i = monitor.id BY InHandFacts DEF Inv
<1>3. c \in Candidate /\ (c.receipt # "none" => Known(i)')
  BY <1>1, <1>2, InHandFacts DEF Inv, Like, Remembered
<1>4. MonitorInv' BY <1>1, <1>2, <1>3, Hand_Monitor DEF Inv
<1>5. Good(c, i)' BY <1>3 DEF Good, Seen, Known
<1>6. Update("monitor", i, c) BY <1>2
<1> QED BY <1>4, <1>5, <1>6, WrittenStep

LEMMA WrittenNext ==
    ASSUME Inv, InHand, UNCHANGED <<world, signals, said, faults>>,
           NEW c, Like(c, monitor.c), Update("monitor", monitor.id, c), NextCandidate
    PROVE  Inv'
<1>1. Remembered BY Unchanged_Remembers
<1>2. PICK i \in Ids : i = monitor.id BY InHandFacts DEF Inv
<1>3. c \in Candidate /\ (c.receipt # "none" => Known(i)')
  BY <1>1, <1>2, InHandFacts DEF Inv, Like, Remembered
<1>4. MonitorInv' BY <1>1, Next_Monitor DEF Inv
<1>5. Good(c, i)' BY <1>3 DEF Good, Seen, Known
<1>6. Update("monitor", i, c) BY <1>2
<1> QED BY <1>4, <1>5, <1>6, WrittenStep

LEMMA BeginPassKeeps == ASSUME Inv, BeginPass PROVE Inv'
<1>1. PICK refresh \in BOOLEAN :
        /\ Load(refresh)
        /\ monitor' = [MonitorIdle EXCEPT !.pc = "pick", !.todo = Active(Snapshot(refresh)),
                         !.copies = [i \in Ids |-> IF i \in Active(Snapshot(refresh))
                                                    THEN Snapshot(refresh)[i] ELSE Absent]]
  BY DEF BeginPass
<1>2. UNCHANGED <<world, signals, said, faults>> BY DEF BeginPass
<1>3. Remembered BY <1>2, Unchanged_Remembers
<1>4. PICK rows : rows = Snapshot(refresh) OBVIOUS
<1>5. rows \in [Ids -> Candidate] /\ \A i \in Ids : Good(rows[i], i)
  BY <1>4, SnapshotGood DEF Inv
<1>6. Absent \in Candidate /\ Absent.receipt = "none" BY FreshCandidate
<1>7. PICK todo : todo = Active(rows) OBVIOUS
<1>8. todo \subseteq Ids BY <1>7 DEF Active
<1>9. monitor' = [MonitorIdle EXCEPT !.pc = "pick", !.todo = todo,
                    !.copies = [i \in Ids |-> IF i \in todo THEN rows[i] ELSE Absent]]
  BY <1>1, <1>4, <1>7
<1>10. MonitorInv'
  BY <1>3, <1>5, <1>6, <1>8, <1>9
     DEF MonitorInv, MonitorType, MonitorIdle, InHand, Remembered, Good, Seen, Known
<1>11. StoreInv' BY <1>1, <1>3, StoreLoad DEF Inv
<1>12. faults' \in [send : Nat, chart : Nat, db : Nat, crash : Nat, refresh : Nat]
  BY <1>2 DEF Inv, PublicInv
<1> QED BY <1>2, <1>3, <1>10, <1>11, <1>12, ScanKept, PublicKept DEF Inv

LEMMA PickKeeps == ASSUME Inv, NEW i \in Ids, Pick(i) PROVE Inv'
<1>1. UNCHANGED <<storeVars, world, signals, said, faults>> /\ i \in monitor.todo
  BY DEF Pick
<1>2. Remembered BY <1>1, Unchanged_Remembers
<1>3. PICK c : c = monitor.copies[i] OBVIOUS
<1>4. Good(c, i) BY <1>3 DEF Inv, MonitorInv
<1>5. PICK e : e = Enforced(c) OBVIOUS
<1>6. Good(e, i) BY <1>4, <1>5, Operators DEF Good, Like
<1>7. Absent \in Candidate /\ Absent.receipt = "none" BY FreshCandidate
<1>8. monitor' = [monitor EXCEPT !.pc = "judge", !.todo = @ \ {i},
                    !.copies[i] = Absent, !.id = i, !.c = e, !.was = c]
  BY <1>3, <1>5 DEF Pick
<1>9. MonitorInv'
  BY <1>2, <1>4, <1>6, <1>7, <1>8
     DEF Inv, MonitorInv, MonitorType, InHand, Remembered, Good, Seen, Known
<1> QED BY <1>1, <1>9, QuietStep

LEMMA SkipUnpricedKeeps == ASSUME Inv, SkipUnpriced PROVE Inv'
<1>1. UNCHANGED <<storeVars, world, signals, said, faults>> BY DEF SkipUnpriced
<1>2. MonitorInv' BY <1>1, Unchanged_Remembers, Next_Monitor DEF Inv, SkipUnpriced
<1> QED BY <1>1, <1>2, QuietStep

\* The four ways a chain ends or is written before the verdict.
LEMMA CloseChainKeeps ==
    ASSUME Inv, InHand, NEW status \in {"EXPIRED", "CANCELLED"}, CloseChain(status)
    PROVE  Inv'
<1>1. PICK c : c = [monitor.c EXCEPT !.status = status] OBVIOUS
<1>2. Like(c, monitor.c) BY <1>1, InHandFacts, SetFields DEF Inv, Statuses, Resolved
<1>3. Update("monitor", monitor.id, c) /\ Hand("release", c) BY <1>1 DEF CloseChain
<1> QED BY <1>2, <1>3, WrittenHand DEF CloseChain

LEMMA EndChainKeeps == ASSUME Inv, Expire \/ Invalidate \/ LosePremise PROVE Inv'
<1>1. InHand BY DEF Expire, Invalidate, LosePremise, At, InHand
<1>2. PICK status \in {"EXPIRED", "CANCELLED"} : CloseChain(status)
  BY DEF Expire, Invalidate, LosePremise
<1> QED BY <1>1, <1>2, CloseChainKeeps

LEMMA HealKeeps == ASSUME Inv, Heal PROVE Inv'
<1>1. InHand /\ UNCHANGED <<world, signals, said, faults>> BY DEF Heal, At, InHand
<1>2. PICK p \in IF monitor.c.frozen = 0 THEN Plans ELSE {monitor.c.plan} :
        LET c == [monitor.c EXCEPT !.plan = p] IN
        Update("monitor", monitor.id, c) /\ Hand("judge", c)
  BY DEF Heal
<1>3. monitor.c \in Candidate BY <1>1, InHandFacts DEF Inv
<1>4. p \in 0..MaxPlan BY <1>2, <1>3, StoreAssumption DEF Plans, Candidate
<1>5. PICK c : c = [monitor.c EXCEPT !.plan = p] OBVIOUS
<1>6. Like(c, monitor.c) BY <1>3, <1>4, <1>5, SetFields
<1>7. Update("monitor", monitor.id, c) /\ Hand("judge", c) BY <1>2, <1>5
<1> QED BY <1>1, <1>6, <1>7, WrittenHand

\* The verdict, and what hands the candidate on without a write.
LEMMA VerdictKeeps == ASSUME Inv, Reject \/ Confirm \/ Veto PROVE Inv'
<1>1. InHand /\ UNCHANGED <<storeVars, world, signals, said, faults>>
  BY DEF Reject, Confirm, Veto, At, InHand
<1>2. monitor.c \in Candidate BY <1>1, InHandFacts DEF Inv
<1>3. CASE Reject
  <2>1. PICK d \in Watched(monitor.c), plan \in NewPlans(monitor.c) :
          Hand("final", [d EXCEPT !.plan = plan])
    BY <1>3 DEF Reject
  <2>2. PICK c : c = [d EXCEPT !.plan = plan] OBVIOUS
  <2>3. Like(c, monitor.c) BY <1>2, <2>1, <2>2, Operators
  <2> QED BY <1>1, <2>1, <2>2, <2>3, QuietHand
<1>4. CASE Veto
  <2>1. PICK d \in Watched(monitor.c), plan \in NewPlans(monitor.c) :
          Hand("final", Confirmed(d, plan))
    BY <1>4 DEF Veto
  <2>2. PICK c : c = Confirmed(d, plan) OBVIOUS
  <2>3. Like(c, monitor.c) BY <1>2, <2>1, <2>2, Operators
  <2> QED BY <1>1, <2>1, <2>2, <2>3, QuietHand
<1>5. CASE Confirm
  <2>1. PICK d \in Watched(monitor.c), plan \in NewPlans(monitor.c) :
          Hand("stage", Frozen(Confirmed(d, plan)))
    BY <1>5 DEF Confirm
  <2>2. PICK e : e = Confirmed(d, plan) OBVIOUS
  <2>3. Like(e, monitor.c) BY <1>2, <2>1, <2>2, Operators
  <2>4. PICK c : c = Frozen(e) OBVIOUS
  <2>5. Like(c, e) BY <2>3, <2>4, Operators DEF Like
  <2>6. Like(c, monitor.c) BY <2>3, <2>5 DEF Like
  <2> QED BY <1>1, <2>1, <2>2, <2>4, <2>6, QuietHand
<1> QED BY <1>3, <1>4, <1>5

\* One signal changes its state, or is staged.
LEMMA SignalSet ==
    ASSUME PublicInv, NEW i \in Ids, NEW s \in SignalState,
           \/ signals' = [signals EXCEPT ![i].state = s]
           \/ \E plan \in 0..MaxPlan : signals' = [signals EXCEPT ![i] = [state |-> s, plan |-> plan]]
    PROVE  /\ signals' \in [Ids -> [state : SignalState, plan : 0..MaxPlan]]
           /\ \A j \in Ids : signals'[j].state = IF j = i THEN s ELSE signals[j].state
<1>1. signals \in [Ids -> [state : SignalState, plan : 0..MaxPlan]] BY DEF PublicInv
<1>2. PICK plan \in 0..MaxPlan : signals' = [signals EXCEPT ![i] = [state |-> s, plan |-> plan]]
  BY <1>1
<1> QED BY <1>1, <1>2

LEMMA ReleaseKeeps == ASSUME Inv, Release PROVE Inv'
<1>1. UNCHANGED <<storeVars, world, said>> /\ NextCandidate BY DEF Release
<1>2. Remembered BY <1>1, Unchanged_Remembers
<1>3. MonitorInv' BY <1>1, <1>2, Next_Monitor DEF Inv
<1>4. faults' \in [send : Nat, chart : Nat, db : Nat, crash : Nat, refresh : Nat]
  BY FaultTyped DEF Inv, PublicInv, Release
<1>5. /\ signals' \in [Ids -> [state : SignalState, plan : 0..MaxPlan]]
      /\ \A i \in Ids : signals'[i].state \in {signals[i].state, "RELEASED"}
  <2>1. PICK i \in Ids : i = monitor.id
    BY InHandFacts DEF Inv, InHand, Release, At
  <2>2. signals' = signals \/ signals' = [signals EXCEPT ![i].state = "RELEASED"]
    BY <2>1 DEF Release, Released
  <2> QED BY <2>2, SignalSet DEF Inv, PublicInv, SignalState
<1>6. PublicInv'
  BY <1>1, <1>4, <1>5 DEF Inv, PublicInv, Tracked, Seen, Known
<1> QED BY <1>1, <1>2, <1>3, <1>6, StoreUnchanged, ScanKept DEF Inv

LEMMA DropTwinKeeps == ASSUME Inv, DropTwin PROVE Inv'
<1>1. InHand /\ UNCHANGED <<world, signals, said, faults>> BY DEF DropTwin, At, InHand
<1>2. PICK c : c = [monitor.c EXCEPT !.status = "CANCELLED"] OBVIOUS
<1>3. Like(c, monitor.c) BY <1>1, <1>2, InHandFacts, SetFields DEF Inv, Statuses, Resolved
<1>4. Update("monitor", monitor.id, c) /\ NextCandidate BY <1>2 DEF DropTwin
<1> QED BY <1>1, <1>3, <1>4, WrittenNext

LEMMA DisarmStaleKeeps == ASSUME Inv, DisarmStale PROVE Inv'
<1>1. InHand /\ UNCHANGED <<world, signals, said, faults>> BY DEF DisarmStale, At, InHand
<1>2. PICK c : c = [monitor.c EXCEPT !.status = "APPROACHING", !.complete = FALSE] OBVIOUS
<1>3. Like(c, monitor.c) BY <1>1, <1>2, InHandFacts, SetFields DEF Inv, Statuses, Live
<1>4. Update("monitor", monitor.id, c) /\ NextCandidate BY <1>2 DEF DisarmStale
<1> QED BY <1>1, <1>3, <1>4, WrittenNext

\* Staging is the one step that gives a signal its first state.
LEMMA StageKeeps == ASSUME Inv, Stage PROVE Inv'
<1>1. InHand /\ UNCHANGED <<storeVars, world, said, faults>> BY DEF Stage, At, InHand
<1>2. Remembered BY <1>1, Unchanged_Remembers
<1>3. PICK i \in Ids : i = monitor.id BY <1>1, InHandFacts DEF Inv
<1>4. monitor.c \in Candidate /\ (monitor.c.receipt # "none" => Known(i))
  BY <1>1, <1>3, InHandFacts DEF Inv
<1>5. PICK c : c = [monitor.c EXCEPT !.staged = TRUE] OBVIOUS
<1>6. c \in Candidate /\ (c.receipt # "none" => Known(i)')
  BY <1>2, <1>3, <1>4, <1>5, SetFields DEF Like, Remembered
<1>7. PICK plan \in 0..MaxPlan : plan = monitor.c.plan BY <1>4 DEF Candidate
<1>8. \/ signals[i].state # "NONE" /\ UNCHANGED signals
      \/ signals' = [signals EXCEPT ![i] = [state |-> "AWAITING", plan |-> plan]]
  BY <1>3, <1>7 DEF Stage
<1>9. /\ signals' \in [Ids -> [state : SignalState, plan : 0..MaxPlan]]
      /\ signals'[i].state # "NONE"
      /\ \A j \in Ids : signals'[j].state \in {signals[j].state, "AWAITING"}
  BY <1>8, SignalSet DEF Inv, PublicInv, SignalState
<1>10. Hand("gate", c) BY <1>5 DEF Stage
<1>11. MonitorInv' BY <1>1, <1>2, <1>3, <1>6, <1>9, <1>10, Hand_Monitor DEF Inv
<1>12. PublicInv' BY <1>1, <1>9 DEF Inv, PublicInv, Tracked, Seen, Known
<1> QED BY <1>1, <1>2, <1>11, <1>12, StoreUnchanged, ScanKept DEF Inv

LEMMA RefuseStageKeeps == ASSUME Inv, RefuseStage PROVE Inv'
<1>1. InHand /\ UNCHANGED <<storeVars, world, signals, said, faults>>
  BY DEF RefuseStage, At, InHand
<1>2. PICK c : c = Unstaged(monitor.c) OBVIOUS
<1>3. Like(c, monitor.c) BY <1>1, <1>2, InHandFacts, Operators DEF Inv
<1> QED BY <1>1, <1>2, <1>3, QuietHand DEF RefuseStage

LEMMA GateKeeps == ASSUME Inv, Gate PROVE Inv'
<1>1. InHand /\ UNCHANGED <<storeVars, world, signals, said, faults>>
  BY DEF Gate, At, InHand
<1>2. monitor.c \in Candidate BY <1>1, InHandFacts DEF Inv
<1>3. CASE Published(monitor.id)
  <2>1. PICK c : c = [monitor.c EXCEPT !.status = "CONFIRMED"] OBVIOUS
  <2>2. Like(c, monitor.c) BY <1>2, <2>1, SetFields DEF Statuses
  <2>3. Hand("final", c) BY <1>3, <2>1 DEF Gate
  <2> QED BY <1>1, <2>2, <2>3, QuietHand
<1>4. CASE ~Published(monitor.id)
  <2>1. PICK c : c = monitor.c OBVIOUS
  <2>2. Like(c, monitor.c) BY <1>2, <2>1 DEF Like
  <2>3. Hand("send", c) BY <1>4, <2>1 DEF Gate
  <2>4. signals[monitor.id].state # "NONE" BY DEF Inv, MonitorInv, Gate, At
  <2> QED BY <1>1, <2>2, <2>3, <2>4, QuietHand
<1> QED BY <1>3, <1>4

\* What a try to post costs.
LEMMA TryTyped ==
    ASSUME PublicInv,
           faults' \in {faults, Refused(faults), Unrendered(faults), Refused(Unrendered(faults))}
    PROVE  faults' \in [send : Nat, chart : Nat, db : Nat, crash : Nat, refresh : Nat]
<1> DEFINE F == [send : Nat, chart : Nat, db : Nat, crash : Nat, refresh : Nat]
<1>1. ASSUME NEW f \in F PROVE Refused(f) \in F /\ Unrendered(f) \in F
  BY ConfirmationAssumption DEF Refused, Unrendered
<1> QED BY <1>1 DEF PublicInv

\* What the post leaves of the channel.
LEMMA PostedTyped ==
    ASSUME PublicInv, NEW i \in Ids, NEW d \in Candidate,
           NEW said2, said2 = Posted(i, d)
    PROVE  /\ said2 \in [Ids -> [posts : Nat, text : BOOLEAN, plan : 0..MaxPlan, lost : BOOLEAN]]
           /\ said2[i].posts = said[i].posts + 1 /\ said2[i].plan = d.plan
           /\ \A j \in Ids \ {i} : said2[j] = said[j]
           /\ \A j \in Ids : said2[j].lost = said[j].lost /\ said2[j].text = said[j].text
<1>1. said \in [Ids -> [posts : Nat, text : BOOLEAN, plan : 0..MaxPlan, lost : BOOLEAN]]
  BY DEF PublicInv
<1>2. PICK plan \in 0..MaxPlan : plan = d.plan BY DEF Candidate
<1>3. PICK a : a = [said EXCEPT ![i].posts = @ + 1] OBVIOUS
<1>4. /\ a \in [Ids -> [posts : Nat, text : BOOLEAN, plan : 0..MaxPlan, lost : BOOLEAN]]
      /\ a[i].posts = said[i].posts + 1
      /\ \A j \in Ids \ {i} : a[j] = said[j]
      /\ \A j \in Ids : a[j].lost = said[j].lost /\ a[j].text = said[j].text
  BY <1>1, <1>3
<1>5. said2 = [a EXCEPT ![i].plan = plan] BY <1>2, <1>3 DEF Posted
<1> QED BY <1>1, <1>2, <1>4, <1>5

\* The posts of the send step, and the refusal that passes for one.
LEMMA PostFacts ==
    ASSUME Inv, Send \/ SendRefused \/ SendText, NEW i \in Ids, i = monitor.id
    PROVE  /\ said' \in [Ids -> [posts : Nat, text : BOOLEAN, plan : 0..MaxPlan, lost : BOOLEAN]]
           /\ Remembered /\ Known(i)'
           /\ \E d \in Candidate, r \in Receipts : Like(d, monitor.c) /\ Hand("receipt", Sent(d, r))
<1>0. At("send") /\ InHand BY DEF Send, SendRefused, SendText, At, InHand
<1>1. i = monitor.id OBVIOUS
<1>2. PICK c \in Candidate : c = monitor.c BY <1>0, InHandFacts DEF Inv
<1>3. Like(c, c) /\ Like(Shown(c), c) /\ Like(Attempted(c), c)
  BY Operators DEF Like
<1>4. c.receipt # "none" => Known(i) BY <1>0, <1>1, <1>2, InHandFacts DEF Inv
<1>5. said \in [Ids -> [posts : Nat, text : BOOLEAN, plan : 0..MaxPlan, lost : BOOLEAN]]
  BY DEF Inv, PublicInv
<1>6. "chart" \in Receipts /\ "text" \in Receipts /\ "lost" \in Receipts /\ c.receipt \in Receipts
  BY DEF Receipts, Candidate
<1>7. CASE Send
  <2>1. PICK d \in Candidate : d = Shown(c) BY <1>3 DEF Like
  <2>2. d.receipt = c.receipt BY <1>3, <2>1 DEF Like
  <2>3. said' = IF d.receipt = "chart" THEN said ELSE Posted(i, d)
    BY <1>1, <1>2, <1>7, <2>1 DEF Send
  <2>4. Hand("receipt", Sent(d, "chart")) BY <1>2, <1>7, <2>1 DEF Send
  <2>5. CASE d.receipt = "chart"
    <3>1. said' = said BY <2>3, <2>5
    <3>2. Remembered BY <3>1, Unchanged_Remembers
    <3>3. Known(i)' BY <1>4, <2>2, <2>5, <3>2 DEF Remembered
    <3> QED BY <1>2, <1>3, <1>5, <1>6, <2>1, <2>4, <3>1, <3>2, <3>3
  <2>6. CASE d.receipt # "chart"
    <3>1. said' = Posted(i, d) BY <2>3, <2>6
    <3>2. /\ said' \in [Ids -> [posts : Nat, text : BOOLEAN, plan : 0..MaxPlan, lost : BOOLEAN]]
          /\ said'[i].posts = said[i].posts + 1
          /\ \A j \in Ids \ {i} : said'[j] = said[j]
      BY <3>1, PostedTyped DEF Inv
    <3>3. Known(i)' BY <1>5, <3>2 DEF Seen, Known
    <3>4. Remembered BY <3>2, <3>3 DEF Remembered, Seen, Known
    <3> QED BY <1>2, <1>3, <1>6, <2>1, <2>4, <3>2, <3>3, <3>4
  <2> QED BY <2>5, <2>6
<1>8. CASE SendRefused
  <2>1. said' = [said EXCEPT ![i].lost = TRUE] BY <1>1, <1>8 DEF SendRefused
  <2>2. /\ said' \in [Ids -> [posts : Nat, text : BOOLEAN, plan : 0..MaxPlan, lost : BOOLEAN]]
        /\ said'[i].lost /\ \A j \in Ids \ {i} : said'[j] = said[j]
    BY <1>5, <2>1
  <2>3. Known(i)' /\ Remembered BY <2>2 DEF Remembered, Seen, Known
  <2>4. PICK r \in Receipts : Hand("receipt", Sent(c, r))
    BY <1>2, <1>6, <1>8 DEF SendRefused
  <2> QED BY <1>2, <1>3, <2>2, <2>3, <2>4
<1>9. CASE SendText
  <2>0. PICK Post : Post = [posts : Nat, text : BOOLEAN, plan : 0..MaxPlan, lost : BOOLEAN]
    OBVIOUS
  <2>1. PICK s : s = Posted(i, c) OBVIOUS
  <2>2. s \in [Ids -> Post] /\ s[i].posts = said[i].posts + 1 /\ \A j \in Ids \ {i} : s[j] = said[j]
    BY <2>0, <2>1, PostedTyped DEF Inv
  <2>3. PICK r : r = [s[i] EXCEPT !.text = TRUE]  OBVIOUS
  <2>4. r \in Post /\ r.posts = s[i].posts
    <3>1. PICK q \in Post : q = s[i]  BY <2>2
    <3>2. r = [q EXCEPT !.text = TRUE]  BY <2>3, <3>1
    <3> QED BY <2>0, <3>1, <3>2
  <2>5. said' = [s EXCEPT ![i] = r] BY <1>1, <1>2, <1>9, <2>1, <2>3 DEF SendText
  <2>6. said' \in [Ids -> Post] /\ said'[i] = r /\ \A j \in Ids \ {i} : said'[j] = said[j]
    BY <2>2, <2>4, <2>5
  <2>7. said'[i].posts = said[i].posts + 1  BY <2>2, <2>4, <2>6
  <2>8. Known(i)' BY <1>5, <2>7 DEF Seen, Known
  <2>9. Remembered BY <2>6, <2>8 DEF Remembered, Seen, Known
  <2>10. Hand("receipt", Sent(Attempted(c), "text")) BY <1>2, <1>9 DEF SendText
  <2>11. Attempted(c) \in Candidate /\ Like(Attempted(c), c)  BY <1>2, <1>6, Operators DEF Like
  <2> QED BY <1>2, <1>3, <1>6, <2>0, <2>6, <2>8, <2>9, <2>10, <2>11 DEF Receipts
<1> QED BY <1>7, <1>8, <1>9

LEMMA SendKeeps == ASSUME Inv, Send \/ SendRefused \/ SendText PROVE Inv'
<1>1. /\ InHand /\ monitor.pc = "send" /\ UNCHANGED <<storeVars, world, signals>>
      /\ faults' \in {faults, Refused(faults), Unrendered(faults)}
  BY DEF Send, SendRefused, SendText, At, InHand
<1>2. PICK i \in Ids : i = monitor.id BY <1>1, InHandFacts DEF Inv
<1>3. /\ said' \in [Ids -> [posts : Nat, text : BOOLEAN, plan : 0..MaxPlan, lost : BOOLEAN]]
      /\ Remembered /\ Known(i)'
  BY <1>2, PostFacts
<1>4. PICK d \in Candidate, r \in Receipts : Like(d, monitor.c) /\ Hand("receipt", Sent(d, r))
  BY <1>2, PostFacts
<1>5. PICK c : c = Sent(d, r) OBVIOUS
<1>6. c \in Candidate BY <1>4, <1>5, Operators DEF Like
<1>7. Hand("receipt", c) BY <1>4, <1>5
<1>8. signals'[i].state # "NONE" BY <1>1, <1>2 DEF Inv, MonitorInv
<1>9. MonitorInv' BY <1>1, <1>2, <1>3, <1>6, <1>7, <1>8, Hand_Monitor DEF Inv
<1>10. faults' \in [send : Nat, chart : Nat, db : Nat, crash : Nat, refresh : Nat]
  BY <1>1, TryTyped DEF Inv
<1>11. PublicInv'
  BY <1>1, <1>3, <1>10 DEF Inv, PublicInv, Tracked, Remembered
<1> QED BY <1>1, <1>3, <1>9, <1>11, StoreUnchanged, ScanKept DEF Inv

\* The photo put under a text that armed its signal: known since the text.
LEMMA FollowUpKeeps == ASSUME Inv, FollowUp PROVE Inv'
<1>1. InHand /\ UNCHANGED <<world, signals, said, faults>> BY DEF FollowUp, At, InHand
<1>2. PICK i \in Ids : i = monitor.id BY <1>1, InHandFacts DEF Inv
<1>3. Remembered BY <1>1, Unchanged_Remembers
<1>4. PICK c : c = [monitor.c EXCEPT !.status = "CONFIRMED", !.receipt = "chart"] OBVIOUS
<1>5. monitor.c \in Candidate BY <1>1, InHandFacts DEF Inv
<1>6. c \in Candidate BY <1>4, <1>5 DEF Candidate, Receipts
<1>7. Known(i) BY <1>1, <1>2, InHandFacts DEF Inv, FollowUp
<1>8. Known(i)' BY <1>3, <1>7 DEF Remembered
<1>9. Hand("final", c) /\ Update("monitor", i, c) BY <1>2, <1>4 DEF FollowUp
<1>10. MonitorInv' BY <1>1, <1>2, <1>3, <1>6, <1>8, <1>9, Hand_Monitor DEF Inv
<1>11. Good(c, i)' BY <1>6, <1>8 DEF Good
<1> QED BY <1>1, <1>9, <1>10, <1>11, WrittenStep

LEMMA SendFailsKeeps == ASSUME Inv, SendFails PROVE Inv'
<1>1. /\ InHand /\ UNCHANGED <<storeVars, world, signals, said>>
      /\ faults' \in {Refused(faults), Unrendered(faults), Refused(Unrendered(faults))}
  BY DEF SendFails, At, InHand
<1>2. Remembered BY <1>1, Unchanged_Remembers
<1>3. PICK i \in Ids : i = monitor.id BY <1>1, InHandFacts DEF Inv
<1>4. PICK d : d = Shown(monitor.c) OBVIOUS
<1>5. Like(d, monitor.c) BY <1>1, <1>4, InHandFacts, Operators DEF Inv
<1>6. PICK c \in {NotSent(d), NotSent(Attempted(d))} : Hand("final", c)
  BY <1>4 DEF SendFails
<1>7. Like(c, d)
  <2>1. d \in Candidate BY <1>5 DEF Like
  <2>2. Like(NotSent(d), d) /\ Like(Attempted(d), d) BY <2>1, Operators
  <2>3. Like(NotSent(Attempted(d)), Attempted(d)) BY <2>2, Operators DEF Like
  <2> QED BY <1>6, <2>2, <2>3 DEF Like
<1>8. c \in Candidate /\ (c.receipt # "none" => Known(i)')
  BY <1>1, <1>2, <1>3, <1>5, <1>7, InHandFacts DEF Inv, Like, Remembered
<1>9. MonitorInv' BY <1>1, <1>2, <1>3, <1>6, <1>8, Hand_Monitor DEF Inv
<1>10. faults' \in [send : Nat, chart : Nat, db : Nat, crash : Nat, refresh : Nat]
  BY <1>1, TryTyped DEF Inv
<1> QED BY <1>1, <1>2, <1>9, <1>10, StoreUnchanged, ScanKept, PublicKept DEF Inv

LEMMA KeepReceiptKeeps == ASSUME Inv, KeepReceipt PROVE Inv'
<1>1. InHand /\ UNCHANGED <<world, signals, said, faults>> BY DEF KeepReceipt, At, InHand
<1>2. Remembered BY <1>1, Unchanged_Remembers
<1>3. PICK i \in Ids : i = monitor.id BY <1>1, InHandFacts DEF Inv
<1>4. PICK c : c = monitor.c OBVIOUS
<1>5. c \in Candidate /\ (c.receipt # "none" => Known(i)') /\ Known(i)' /\ signals'[i].state # "NONE"
  BY <1>1, <1>2, <1>3, <1>4, InHandFacts DEF Inv, MonitorInv, KeepReceipt, At, Remembered
<1>6. Hand("mark", c) /\ Update("monitor", i, c) BY <1>3, <1>4 DEF KeepReceipt
<1>7. MonitorInv' BY <1>1, <1>2, <1>3, <1>5, <1>6, Hand_Monitor DEF Inv
<1>8. Good(c, i)' BY <1>5 DEF Good, Seen, Known
<1> QED BY <1>1, <1>6, <1>7, <1>8, WrittenStep

\* Arming: the pass has posted the confirmation it arms.
LEMMA MarkKeeps == ASSUME Inv, Mark PROVE Inv'
<1>1. InHand /\ UNCHANGED <<storeVars, world, said>> BY DEF Mark, At, InHand
<1>2. Remembered BY <1>1, Unchanged_Remembers
<1>3. PICK i \in Ids : i = monitor.id BY <1>1, InHandFacts DEF Inv
<1>4. Known(i) BY <1>3 DEF Inv, MonitorInv, Mark, At
<1>5. monitor.c \in Candidate BY <1>1, InHandFacts DEF Inv
<1>6. "CONFIRMED" \in Statuses BY DEF Statuses
<1>7. Like([monitor.c EXCEPT !.status = "CONFIRMED"], monitor.c) BY <1>5, <1>6, SetFields
<1>8. \/ Hand("final", monitor.c)
      \/ Hand("final", [monitor.c EXCEPT !.status = "CONFIRMED"])
  BY DEF Mark
<1>9. PICK d \in Candidate : Hand("final", d) BY <1>5, <1>7, <1>8 DEF Like
<1>10. Known(i)' BY <1>2, <1>4 DEF Remembered
<1>11. MonitorInv' BY <1>1, <1>2, <1>3, <1>9, <1>10, Hand_Monitor DEF Inv
<1>12. signals' = signals \/ signals' = [signals EXCEPT ![i].state = "CONFIRMED"]
  BY <1>3 DEF Mark
<1>13. /\ signals' \in [Ids -> [state : SignalState, plan : 0..MaxPlan]]
       /\ \A j \in Ids : j = i \/ signals'[j].state = signals[j].state
  BY <1>12, SignalSet DEF Inv, PublicInv, SignalState
<1>14. faults' \in [send : Nat, chart : Nat, db : Nat, crash : Nat, refresh : Nat]
  BY FaultTyped DEF Inv, PublicInv, Mark
<1>15. PublicInv' BY <1>1, <1>4, <1>13, <1>14 DEF Inv, PublicInv, Tracked, Seen, Known
<1> QED BY <1>1, <1>2, <1>11, <1>15, StoreUnchanged, ScanKept DEF Inv

LEMMA FinalKeeps == ASSUME Inv, Final PROVE Inv'
<1>1. InHand /\ UNCHANGED <<world, signals, said, faults>> BY DEF Final, At, InHand
<1>2. NextCandidate BY DEF Final
<1>3. MonitorInv' BY <1>1, <1>2, Unchanged_Remembers, Next_Monitor DEF Inv
<1>4. PICK c : c = monitor.c OBVIOUS
<1>5. Like(c, monitor.c) BY <1>1, <1>4, InHandFacts DEF Inv, Like
<1>6. UNCHANGED storeVars \/ Update("monitor", monitor.id, c) BY <1>4 DEF Final
<1> QED BY <1>1, <1>2, <1>3, <1>5, <1>6, QuietStep, WrittenNext

LEMMA PassFaultKeeps == ASSUME Inv, PassFault PROVE Inv'
<1>1. InHand /\ UNCHANGED <<storeVars, world, signals, said>> BY DEF PassFault, InHand
<1>2. Remembered BY <1>1, Unchanged_Remembers
<1>3. MonitorInv'
  <2>1. CASE NextCandidate BY <1>2, <2>1, Next_Monitor DEF Inv
  <2>2. CASE ~NextCandidate
    <3>1. PICK i \in Ids : i = monitor.id BY <1>1, InHandFacts DEF Inv
    <3>2. monitor.c \in Candidate BY <1>1, InHandFacts DEF Inv
    <3>3. PICK c : /\ c \in {Unstaged(monitor.c), [monitor.c EXCEPT !.status = "APPROACHING"]}
                   /\ Hand("final", c)
      BY <2>2 DEF PassFault
    <3>4. Like(c, monitor.c) BY <3>2, <3>3, Operators, SetFields DEF Statuses, Live
    <3>5. c \in Candidate /\ (c.receipt # "none" => Known(i)')
      BY <1>1, <1>2, <3>1, <3>4, InHandFacts DEF Inv, Like, Remembered
    <3> QED BY <1>1, <1>2, <3>1, <3>3, <3>5, Hand_Monitor DEF Inv
  <2> QED BY <2>1, <2>2
<1>4. faults' \in [send : Nat, chart : Nat, db : Nat, crash : Nat, refresh : Nat]
  BY FaultTyped DEF Inv, PassFault
<1> QED BY <1>1, <1>2, <1>3, <1>4, StoreUnchanged, ScanKept, PublicKept DEF Inv

\* Any thread touches the cache for the write it made.
LEMMA CacheCandidateKeeps ==
    ASSUME Inv, NEW t \in Threads, CacheCandidate(t),
           UNCHANGED <<monitor, world, signals, said, faults>>
    PROVE  Inv'
<1>1. Remembered BY Unchanged_Remembers
<1>2. faults' \in [send : Nat, chart : Nat, db : Nat, crash : Nat, refresh : Nat]
  BY DEF Inv, PublicInv
<1> QED BY <1>1, <1>2, StoreCacheCandidate, MonitorKept, ScanKept, PublicKept DEF Inv

LEMMA MonitorKeeps == ASSUME Inv, Monitor PROVE Inv'
BY BeginPassKeeps, PickKeeps, SkipUnpricedKeeps, EndChainKeeps, HealKeeps, ReleaseKeeps,
   VerdictKeeps, DropTwinKeeps, DisarmStaleKeeps, StageKeeps, RefuseStageKeeps, GateKeeps,
   FollowUpKeeps, SendKeeps, SendFailsKeeps, KeepReceiptKeeps, MarkKeeps, FinalKeeps, PassFaultKeeps,
   CacheCandidateKeeps
   DEF Monitor, Threads

-----------------------------------------------------------------------------
(* The discovery scan and the advisor.                                        *)

\* A step of theirs: the monitor, the signals and the channel stand still.
LEMMA ScanStep ==
    ASSUME Inv, UNCHANGED rest, StoreInv', ScanInv'
    PROVE  Inv'
<1>1. UNCHANGED <<monitor, signals, said, faults>> BY DEF rest
<1>2. Remembered BY <1>1, Unchanged_Remembers
<1>3. faults' \in [send : Nat, chart : Nat, db : Nat, crash : Nat, refresh : Nat]
  BY <1>1 DEF Inv, PublicInv
<1> QED BY <1>1, <1>2, <1>3, MonitorKept, PublicKept DEF Inv

LEMMA RestRemembers ==
    ASSUME UNCHANGED rest
    PROVE  Remembered /\ UNCHANGED said
BY Unchanged_Remembers DEF rest

\* The objects and the copy in hand stay good while only the rest moves on.
LEMMA ScanMoves ==
    ASSUME ScanInv, Remembered, UNCHANGED <<objs, minted, advising>>, ScanType',
           scan'.pc \in {"add", "supersede", "purge", "educate", "suppressed"} => scan'.id \in Ids,
           scan'.pc \in {"absorb", "note", "supersede", "purge"} =>
               scan'.prior = scan.prior /\ scan'.c = scan.c
                 /\ scan.pc \in {"absorb", "note", "supersede", "purge"}
    PROVE  ScanInv'
BY DEF ScanInv, Remembered, Good, Seen, Known

LEMMA BeginScanKeeps == ASSUME Inv, BeginScan PROVE Inv'
<1>1. UNCHANGED <<storeVars, objs, minted, advising>> /\ UNCHANGED rest BY DEF BeginScan
<1>2. Remembered BY <1>1, RestRemembers
<1>3. scan' = [ScanIdle EXCEPT !.pc = "detect", !.left = EduMax] BY DEF BeginScan
<1>4. ScanType'
  BY <1>3, FreshCandidate, ConfirmationAssumption DEF ScanType, Scans, ScanIdle
<1>5. scan'.pc = "detect" BY <1>3 DEF ScanIdle
<1>6. ScanInv' BY <1>1, <1>2, <1>4, <1>5, ScanMoves DEF Inv
<1> QED BY <1>1, <1>2, <1>6, StoreUnchanged, ScanStep DEF Inv

\* A copy of a row is as good as the row.
LEMMA CopyKeeps ==
    ASSUME Inv, Remembered, UNCHANGED <<objs, minted, advising>>,
           NEW h \in Ids, NEW c, Like(c, table[h].c),
           NEW pc \in {"absorb", "supersede"}, Copy(h, c, pc),
           pc = "supersede" => scan.pc = "add"
    PROVE  StoreInv' /\ ScanInv'
<1>1. StoreInv' BY StoreUnchanged DEF Inv, Copy
<1>2. Good(table[h].c, h) BY DEF Inv, StoreInv
<1>3. c \in Candidate /\ (c.receipt # "none" => Known(h)) BY <1>2 DEF Like, Good
<1>4. Good(c, h)' BY <1>3 DEF Good, Seen, Known, Remembered
<1>5. scan' = [scan EXCEPT !.pc = pc, !.prior = h, !.c = c] BY DEF Copy
<1>6. ScanType /\ ScanType' BY <1>3, <1>5 DEF Inv, ScanInv, ScanType, Scans
<1>7. scan'.prior = h /\ scan'.c = c /\ scan'.pc = pc /\ scan'.id = scan.id
  BY <1>5, <1>6 DEF ScanType, Scans
<1>8. ScanInv' BY <1>4, <1>6, <1>7 DEF Inv, ScanInv, Remembered, Good, Seen, Known
<1> QED BY <1>1, <1>8

LEMMA ReadHolderKeeps == ASSUME Inv, NEW h \in Ids, ReadHolder(h) PROVE Inv'
<1>1. UNCHANGED <<objs, minted, advising, monitor, signals, said>> BY DEF ReadHolder
<1>2. Remembered BY <1>1, Unchanged_Remembers
<1>3. PICK plan \in Plans, moved \in BOOLEAN :
        Copy(h, Absorbed(table[h].c, plan, moved), "absorb")
  BY DEF ReadHolder
<1>4. table[h].c \in Candidate BY DEF Inv, StoreInv, Good
<1>5. PICK c : c = Absorbed(table[h].c, plan, moved) OBVIOUS
<1>6. Like(c, table[h].c) BY <1>4, <1>5, Operators
<1>7. StoreInv' /\ ScanInv' BY <1>1, <1>2, <1>3, <1>5, <1>6, CopyKeeps
<1>8. faults' \in [send : Nat, chart : Nat, db : Nat, crash : Nat, refresh : Nat]
  BY DEF Inv, PublicInv, ReadHolder
<1> QED BY <1>1, <1>2, <1>7, <1>8, MonitorKept, PublicKept DEF Inv

LEMMA ReadPriorKeeps == ASSUME Inv, NEW h \in Ids, ReadPrior(h) PROVE Inv'
<1>1. UNCHANGED <<objs, minted, advising>> /\ UNCHANGED rest BY DEF ReadPrior
<1>2. Remembered BY <1>1, RestRemembers
<1>3. table[h].c \in Candidate BY DEF Inv, StoreInv, Good
<1>4. PICK c : c = [table[h].c EXCEPT !.status = "SUPERSEDED"] OBVIOUS
<1>5. Like(c, table[h].c) BY <1>3, <1>4, SetFields DEF Statuses, Resolved
<1>6. Copy(h, c, "supersede") /\ scan.pc = "add" BY <1>4 DEF ReadPrior, InScan
<1>7. StoreInv' /\ ScanInv' BY <1>1, <1>2, <1>5, <1>6, CopyKeeps
<1> QED BY <1>1, <1>7, ScanStep

\* The two writes of a copy.
LEMMA RewriteKeeps ==
    ASSUME Inv, NEW pc \in {"absorb", "supersede"}, NEW next \in {"note", "purge"},
           next = "purge" => pc = "supersede", Rewrite(pc, next)
    PROVE  Inv'
<1>1. UNCHANGED <<objs, minted, advising>> /\ UNCHANGED rest BY DEF Rewrite
<1>2. Remembered BY <1>1, RestRemembers
<1>3. scan.pc = pc /\ scan' = [scan EXCEPT !.pc = next] BY DEF Rewrite, InScan
<1>4. PICK i \in Ids : i = scan.prior BY <1>3 DEF Inv, ScanInv
<1>5. PICK c : c = scan.c OBVIOUS
<1>6. Good(c, i) BY <1>3, <1>4, <1>5 DEF Inv, ScanInv
<1>7. Good(c, i)' BY <1>2, <1>6 DEF Good, Seen, Known, Remembered
<1>8. Update("scan", i, c) BY <1>4, <1>5 DEF Rewrite
<1>9. StoreInv' BY <1>2, <1>7, <1>8, StoreUpdate DEF Inv, Threads
<1>10. ScanType /\ ScanType' BY <1>3 DEF Inv, ScanInv, ScanType, Scans
<1>11. /\ scan'.pc = next /\ scan'.prior = scan.prior /\ scan'.c = scan.c
       /\ scan'.id = scan.id
  BY <1>3, <1>10 DEF ScanType, Scans
<1>12. ScanInv' BY <1>1, <1>2, <1>3, <1>10, <1>11, ScanMoves DEF Inv, ScanInv
<1> QED BY <1>1, <1>9, <1>12, ScanStep

LEMMA RewriteAgainKeeps ==
    ASSUME Inv, NEW pc \in {"note", "purge"}, NEW next \in {"detect", "add"},
           next = "add" => pc = "purge", RewriteAgain(pc, next)
    PROVE  Inv'
<1>1. UNCHANGED <<objs, minted, advising>> /\ UNCHANGED rest BY DEF RewriteAgain
<1>2. Remembered BY <1>1, RestRemembers
<1>3. scan.pc = pc /\ scan' = [scan EXCEPT !.pc = next, !.prior = 0, !.c = Absent]
  BY DEF RewriteAgain, InScan
<1>4. PICK i \in Ids : i = scan.prior BY <1>3 DEF Inv, ScanInv
<1>5. PICK c : c = scan.c OBVIOUS
<1>6. Good(c, i) BY <1>3, <1>4, <1>5 DEF Inv, ScanInv
<1>7. Good(c, i)' BY <1>2, <1>6 DEF Good, Seen, Known, Remembered
<1>8. Update("scan", i, c) \/ UNCHANGED storeVars BY <1>4, <1>5 DEF RewriteAgain
<1>9. StoreInv' BY <1>2, <1>7, <1>8, StoreUpdate, StoreUnchanged DEF Inv, Threads
<1>10. ScanType /\ ScanType' BY <1>3, FreshCandidate DEF Inv, ScanInv, ScanType, Scans
<1>11. scan'.pc = next /\ scan'.id = scan.id
  BY <1>3, <1>10 DEF ScanType, Scans
<1>12. ScanInv' BY <1>1, <1>2, <1>3, <1>10, <1>11, ScanMoves DEF Inv, ScanInv
<1> QED BY <1>1, <1>9, <1>12, ScanStep

\* Spending a budget that is left.
LEMMA SpentTyped ==
    ASSUME ScanType, NEW share, BudgetOk(share)
    PROVE  Spent \in Scans /\ Spent.deferred = scan.deferred /\ Spent.pc = scan.pc
<1>1. scan.left - 1 \in Nat /\ scan.used + 1 \in Nat BY DEF ScanType, Scans, BudgetOk
<1>2. PICK l \in Nat, u \in Nat : l = scan.left - 1 /\ u = scan.used + 1 BY <1>1
<1>3. Spent = [scan EXCEPT !.left = l, !.used = u] BY <1>2 DEF Spent
<1> QED BY <1>3 DEF ScanType, Scans

LEMMA DetectKeeps ==
    ASSUME Inv, NEW i \in Ids, NEW plan \in Plans, Detect(i, plan) PROVE Inv'
<1>1. UNCHANGED <<storeVars, advising>> /\ UNCHANGED rest BY DEF Detect
<1>2. Remembered BY <1>1, RestRemembers
<1>3. PICK c : c = [Absent EXCEPT !.status = "EDUCATIONAL", !.plan = plan] OBVIOUS
<1>4. c \in Candidate /\ c.receipt = "none" BY <1>3, FreshCandidate
<1>5. objs' = [objs EXCEPT ![i] = c] /\ minted' = minted \cup {i} BY <1>3 DEF Detect
<1>6. PICK more \in SUBSET Ids :
        scan' \in {[scan EXCEPT !.pc = "suppressed", !.id = i], [scan EXCEPT !.pc = "add", !.id = i],
                  [scan EXCEPT !.deferred = more]}
  <2>1. scan.deferred \cup {i} \in SUBSET Ids BY DEF Inv, ScanInv, ScanType, Scans
  <2> QED BY <2>1 DEF Detect
<1>7. scan.pc = "detect" BY DEF Detect, InScan
<1>8. /\ ScanType'
      /\ scan'.pc \in {"suppressed", "add"} => scan'.id = i
      /\ scan'.pc \in {"suppressed", "add", "detect"}
  BY <1>6, <1>7 DEF Inv, ScanInv, ScanType, Scans
<1>9. objs' \in [Ids -> Candidate] /\ \A j \in Ids : Good(objs[j], j)'
  BY <1>2, <1>4, <1>5 DEF Inv, ScanInv, Remembered, Good, Seen, Known
<1>10. minted' \subseteq Ids /\ advising' \subseteq Ids BY <1>1, <1>5 DEF Inv, ScanInv
<1>11. ScanInv' BY <1>8, <1>9, <1>10 DEF ScanInv
<1> QED BY <1>1, <1>2, <1>11, StoreUnchanged, ScanStep DEF Inv

LEMMA AddKeeps == ASSUME Inv, Add PROVE Inv'
<1>1. UNCHANGED <<objs, minted>> /\ UNCHANGED rest BY DEF Add
<1>2. Remembered BY <1>1, RestRemembers
<1>3. scan.pc = "add" /\ scan' = [scan EXCEPT !.pc = "educate"] BY DEF Add, InScan
<1>4. PICK i \in Ids : i = scan.id BY <1>3 DEF Inv, ScanInv
<1>5. PICK c : c = objs[i] OBVIOUS
<1>6. Good(c, i)' BY <1>2, <1>5 DEF Inv, ScanInv, Good, Seen, Known, Remembered
<1>7. Insert("scan", i, c) BY <1>4, <1>5 DEF Add
<1>8. StoreInv' BY <1>2, <1>6, <1>7, StoreInsert DEF Inv, Threads
<1>9. ScanType' /\ scan'.pc = "educate" /\ scan'.id = i
  BY <1>3, <1>4 DEF Inv, ScanInv, ScanType, Scans
<1>10. advising' \subseteq Ids BY <1>4 DEF Inv, ScanInv, Add
<1>11. ScanInv' BY <1>1, <1>2, <1>9, <1>10 DEF Inv, ScanInv, Remembered, Good, Seen, Known
<1> QED BY <1>1, <1>8, <1>11, ScanStep

\* The steps back to the detections that write nothing.
LEMMA BackKeeps == ASSUME Inv, AddRefused \/ AlertFails \/ LastDetection PROVE Inv'
<1>1. UNCHANGED <<storeVars, objs, minted, advising>> /\ UNCHANGED rest
  BY DEF AddRefused, AlertFails, LastDetection
<1>2. Remembered BY <1>1, RestRemembers
<1>3. ScanType' /\ scan'.pc \in {"detect", "retry"}
  <2>1. CASE AddRefused BY <2>1 DEF AddRefused, BackToDetect, Inv, ScanInv, ScanType, Scans
  <2>2. CASE LastDetection BY <2>2 DEF LastDetection, Inv, ScanInv, ScanType, Scans
  <2>3. CASE AlertFails
    <3>1. scan.id \in Ids BY <2>3 DEF AlertFails, InScan, Inv, ScanInv
    <3>2. PICK s : s = AfterPost(PerSetup) OBVIOUS
    <3>3. /\ s \in Scans
      BY <3>2, SpentTyped DEF Inv, ScanInv, ScanType, Scans, AfterPost
    <3>4. PICK more \in SUBSET Ids : scan' = [s EXCEPT !.pc = "detect", !.id = 0, !.deferred = more]
      <4>1. /\ s.deferred \in SUBSET Ids
            /\ s.deferred \cup {scan.id} \in SUBSET Ids
        BY <3>1, <3>3 DEF Scans
      <4>2. scan' = [s EXCEPT !.pc = "detect", !.id = 0, !.deferred =
                       IF scan.pc = "educate" THEN s.deferred \cup {scan.id} ELSE s.deferred]
        BY <2>3, <3>2 DEF AlertFails
      <4> QED BY <4>1, <4>2
    <3> QED BY <3>3, <3>4 DEF ScanType, Scans
  <2> QED BY <2>1, <2>2, <2>3
<1>4. ScanInv' BY <1>1, <1>2, <1>3, ScanMoves DEF Inv
<1> QED BY <1>1, <1>2, <1>4, StoreUnchanged, ScanStep DEF Inv

\* The alert goes out and its object is written.
LEMMA PostedKeeps ==
    ASSUME Inv, UNCHANGED <<minted, advising>>, UNCHANGED rest, NEW i \in Ids,
           Update("scan", i, [objs[i] EXCEPT !.alerted = TRUE]),
           objs' = [objs EXCEPT ![i] = [objs[i] EXCEPT !.alerted = TRUE]],
           ScanType', scan'.pc \in {"detect", "retry"}
    PROVE  Inv'
<1>1. Remembered BY RestRemembers
<1>2. PICK c : c = [objs[i] EXCEPT !.alerted = TRUE] OBVIOUS
<1>3. Good(objs[i], i) BY DEF Inv, ScanInv
<1>4. c \in Candidate /\ (c.receipt # "none" => Known(i)) BY <1>2, <1>3, SetFields DEF Good, Like
<1>5. Good(c, i)' BY <1>1, <1>4 DEF Good, Seen, Known, Remembered
<1>6. StoreInv' BY <1>1, <1>2, <1>5, StoreUpdate DEF Inv, Threads
<1>7. objs' = [objs EXCEPT ![i] = c] BY <1>2
<1>8. objs' \in [Ids -> Candidate] /\ \A j \in Ids : Good(objs[j], j)'
  BY <1>1, <1>4, <1>7 DEF Inv, ScanInv, Remembered, Good, Seen, Known
<1>9. ScanInv' BY <1>8 DEF Inv, ScanInv
<1> QED BY <1>6, <1>9, ScanStep

LEMMA AlertKeeps == ASSUME Inv, Alert PROVE Inv'
<1>1. PICK i \in Ids : i = scan.id BY DEF Alert, InScan, Inv, ScanInv
<1>2. ScanType' /\ scan'.pc = "detect"
  <2>1. PICK s : s = Spent OBVIOUS
  <2>2. s \in Scans
    BY <2>1, SpentTyped DEF Alert, Inv, ScanInv
  <2>3. scan' = [s EXCEPT !.pc = "detect", !.id = 0] BY <2>1 DEF Alert
  <2> QED BY <2>2, <2>3 DEF ScanType, Scans
<1> QED BY <1>1, <1>2, PostedKeeps DEF Alert

LEMMA RetryKeeps == ASSUME Inv, NEW i \in Ids, Retry(i) PROVE Inv'
<1>1. UNCHANGED <<minted, advising>> /\ UNCHANGED rest BY DEF Retry
<1>2. Remembered BY <1>1, RestRemembers
<1>3. PICK s \in {Spent, scan} : scan' = [s EXCEPT !.deferred = s.deferred \ {i}]
                                 /\ s \in Scans
                                 /\ s.pc = "retry"
  <2>1. scan.pc = "retry" /\ Spent.pc = scan.pc
    BY DEF Retry, InScan, Inv, ScanInv, ScanType, Scans, Spent
  <2>2. \E share : \/ BudgetOk(share) /\ scan' = [Spent EXCEPT !.deferred = @ \ {i}]
                   \/ scan' = [scan EXCEPT !.deferred = @ \ {i}]
    BY DEF Retry, AfterPost
  <2> QED BY <2>1, <2>2, SpentTyped DEF Inv, ScanInv, ScanType, Scans
<1>4. ScanType' /\ scan'.pc = "retry" BY <1>3 DEF ScanType, Scans
<1>5. CASE Update("scan", i, [objs[i] EXCEPT !.alerted = TRUE])
           /\ objs' = [objs EXCEPT ![i] = [objs[i] EXCEPT !.alerted = TRUE]]
  BY <1>1, <1>4, <1>5, PostedKeeps
<1>6. CASE SetStatus("scan", i, "UNPOSTED") /\ UNCHANGED objs
  <2>1. StoreInv' BY <1>2, <1>6, StoreSetStatus DEF Inv, Threads, Statuses, Resolved
  <2>2. ScanInv' BY <1>1, <1>2, <1>4, <1>6, ScanMoves DEF Inv
  <2> QED BY <1>1, <2>1, <2>2, ScanStep
<1> QED BY <1>5, <1>6 DEF Retry

LEMMA EndScanKeeps == ASSUME Inv, EndScan PROVE Inv'
<1>1. UNCHANGED <<minted, advising>> /\ UNCHANGED rest BY DEF EndScan
<1>2. Remembered BY <1>1, RestRemembers
<1>3. PICK old \in SUBSET Deletable : Cleanup(old) BY DEF EndScan
<1>4. old \in SUBSET Ids BY <1>3 DEF Deletable
<1>5. StoreInv' BY <1>2, <1>3, <1>4, StoreCleanup DEF Inv
<1>6. Absent \in Candidate /\ Absent.receipt = "none" BY FreshCandidate
<1>7. scan' = ScanIdle
      /\ objs' = [i \in Ids |-> IF i \in advising THEN objs[i] ELSE Absent]
  BY DEF EndScan
<1>8. ScanType' /\ scan'.pc = "idle" BY <1>6, <1>7 DEF ScanType, Scans, ScanIdle
<1>9. objs' \in [Ids -> Candidate] /\ \A j \in Ids : Good(objs[j], j)'
  BY <1>2, <1>6, <1>7 DEF Inv, ScanInv, Remembered, Good, Seen, Known
<1>10. ScanInv' BY <1>1, <1>8, <1>9 DEF Inv, ScanInv
<1> QED BY <1>1, <1>5, <1>10, ScanStep

LEMMA AdviseKeeps == ASSUME Inv, NEW i \in Ids, Advise(i) PROVE Inv'
<1>1. UNCHANGED <<scan, minted>> /\ UNCHANGED rest BY DEF Advise
<1>2. Remembered BY <1>1, RestRemembers
<1>3. PICK c : c = objs[i] OBVIOUS
<1>4. Good(c, i)' BY <1>2, <1>3 DEF Inv, ScanInv, Good, Seen, Known, Remembered
<1>5. Update("advisor", i, c) \/ UNCHANGED storeVars BY <1>3 DEF Advise
<1>6. StoreInv' BY <1>2, <1>4, <1>5, StoreUpdate, StoreUnchanged DEF Inv, Threads
<1>7. Absent \in Candidate /\ Absent.receipt = "none" BY FreshCandidate
<1>8. objs' = objs \/ objs' = [objs EXCEPT ![i] = Absent] BY DEF Advise
<1>9. objs' \in [Ids -> Candidate] /\ \A j \in Ids : Good(objs[j], j)'
  BY <1>2, <1>7, <1>8 DEF Inv, ScanInv, Remembered, Good, Seen, Known
<1>10. advising' \subseteq Ids BY DEF Inv, ScanInv, Advise
<1>11. ScanInv' BY <1>1, <1>2, <1>9, <1>10 DEF Inv, ScanInv, ScanType, Scans, Remembered, Good, Seen, Known
<1> QED BY <1>1, <1>6, <1>11, ScanStep

LEMMA ScanKeeps == ASSUME Inv, Scan PROVE Inv'
<1>1. ASSUME NEW t \in {"scan", "advisor"},
             CacheCandidate(t), UNCHANGED world, UNCHANGED rest
      PROVE  Inv'
  BY <1>1, CacheCandidateKeeps DEF Threads, rest
<1> QED BY <1>1, BeginScanKeeps, BackKeeps, EndScanKeeps, ReadHolderKeeps, ReadPriorKeeps,
           RetryKeeps, AdviseKeeps, DetectKeeps, RewriteKeeps, RewriteAgainKeeps, AddKeeps,
           AlertKeeps
    DEF Scan, Absorb, AbsorbNote, Supersede, Purge

-----------------------------------------------------------------------------
(* The world, and the theorems.                                               *)

LEMMA WorldKeeps == ASSUME Inv, World PROVE Inv'
<1>1. ASSUME NEW i \in Ids, TimeOut(i) PROVE Inv'
  <2>1. UNCHANGED <<monitor, signals, said, faults>> /\ UNCHANGED world
    BY <1>1 DEF TimeOut, rest
  <2>2. Remembered BY <2>1, Unchanged_Remembers
  <2>3. StoreInv'
    BY <1>1, <2>2 DEF TimeOut, Inv, StoreInv, StoreTypeOK, ScanInv, Remembered, Good, Seen, Known,
                      NoWrite
  <2>4. faults' \in [send : Nat, chart : Nat, db : Nat, crash : Nat, refresh : Nat]
    BY <2>1 DEF Inv, PublicInv
  <2> QED BY <2>1, <2>2, <2>3, <2>4, MonitorKept, ScanKept, PublicKept DEF Inv
<1>2. ASSUME NEW i \in Ids, NEW s \in {"CLOSED", "UNFILLED"}, Close(i, s) PROVE Inv'
  <2>1. UNCHANGED <<storeVars, monitor, world, said, faults>> BY <1>2 DEF Close
  <2>2. Remembered BY <2>1, Unchanged_Remembers
  <2>3. /\ signals' \in [Ids -> [state : SignalState, plan : 0..MaxPlan]]
        /\ \A j \in Ids : signals'[j].state = IF j = i THEN s ELSE signals[j].state
    BY <1>2, SignalSet DEF Close, Inv, SignalState
  <2>4. PublicInv' BY <1>2, <2>1, <2>3 DEF Close, Inv, PublicInv, Tracked, Seen, Known
  <2>5. MonitorInv'
    BY <2>1, <2>2, <2>3 DEF Inv, MonitorInv, MonitorType, InHand, Remembered, Good, Seen, Known
  <2> QED BY <2>1, <2>2, <2>4, <2>5, StoreUnchanged, ScanKept DEF Inv
<1>3. ASSUME Crash PROVE Inv'
  <2>1. UNCHANGED <<minted, signals, said>> BY <1>3 DEF Crash
  <2>2. Remembered BY <2>1, Unchanged_Remembers
  <2>3. Absent \in Candidate /\ Absent.receipt = "none" BY FreshCandidate
  <2>4. MonitorInv'
    BY <1>3, <2>3 DEF Crash, MonitorInv, MonitorType, MonitorIdle, InHand, Good
  <2>5. ScanInv'
    BY <1>3, <2>3 DEF Crash, Inv, ScanInv, ScanType, Scans, ScanIdle, Good
  <2>6. faults' \in [send : Nat, chart : Nat, db : Nat, crash : Nat, refresh : Nat]
    BY <1>3 DEF Crash, Inv, PublicInv
  <2> QED BY <1>3, <2>1, <2>2, <2>4, <2>5, <2>6, StoreCrashes, PublicKept DEF Crash, Inv
<1> QED BY <1>1, <1>2, <1>3 DEF World

LEMMA InitInv == Init => Inv
<1> SUFFICES ASSUME Init PROVE Inv OBVIOUS
<1>1. Absent \in Candidate /\ Absent.receipt = "none" BY FreshCandidate
<1>2. 0 \in 0..MaxPlan BY StoreAssumption
<1>3. StoreInv
  BY <1>1 DEF Init, StoreInit, StoreInv, StoreTypeOK, NoWrite, Good
<1>4. MonitorInv
  BY <1>1 DEF Init, MonitorIdle, MonitorInv, MonitorType, InHand, Good
<1>5. ScanInv
  BY <1>1 DEF Init, ScanIdle, ScanInv, ScanType, Scans, Good
<1>6. PublicInv
  BY <1>2 DEF Init, PublicInv, SignalState, Tracked, Seen, Known
<1> QED BY <1>3, <1>4, <1>5, <1>6 DEF Inv

LEMMA NextInv == Inv /\ [Next]_vars => Inv'
<1> SUFFICES ASSUME Inv, [Next]_vars PROVE Inv' OBVIOUS
<1>1. CASE UNCHANGED vars
  <2>1. UNCHANGED <<storeVars, world, signals, said, faults>> /\ UNCHANGED monitor
    BY <1>1 DEF vars, world
  <2>2. MonitorInv' BY <2>1, Unchanged_Remembers, MonitorKept DEF Inv
  <2> QED BY <2>1, <2>2, QuietStep
<1> QED BY <1>1, MonitorKeeps, ScanKeeps, WorldKeeps DEF Next

LEMMA Invariant == Spec => []Inv
BY InitInv, NextInv, PTL DEF Spec

\* Every variable keeps its type, for every number of candidates, budget and
\* fault.
THEOREM TypesKept == Spec => []TypeOK
<1>1. Inv => TypeOK
  BY DEF Inv, StoreInv, MonitorInv, MonitorType, ScanInv, ScanType, Scans, PublicInv, TypeOK
<1> QED BY <1>1, Invariant, PTL

\* A signal the trade monitors follow, or followed, was posted first, or its chart
\* was rendered and refused: no other failure, no restart and no older copy of its
\* candidate written back arms one (send_confirmed before
\* mark_confirmation_published).
THEOREM NeverArmedUntold == Spec => []ArmedWasAnnounced
<1>1. Inv => ArmedWasAnnounced BY DEF Inv, PublicInv, ArmedWasAnnounced, Seen, Known
<1> QED BY <1>1, Invariant, PTL

-----------------------------------------------------------------------------
(* Confirmation implements ConfirmedSignal.                                   *)

AbstractStage == [i \in Ids |-> StageOf[signals[i].state]]
AbstractTold == [i \in Ids |-> ToldOf(i)]

\* What the channel knows is what it was told, or refused to be.
LEMMA ToldKnown ==
    ASSUME PublicInv, NEW i \in Ids
    PROVE  /\ ToldOf(i) # "no" <=> Known(i)
           /\ ToldOf(i) = "yes" <=> Seen(i)
BY DEF PublicInv, ToldOf, Known, Seen

\* One signal moves in the table: the same move, alone, in the abstract one.
LEMMA MovesAlone ==
    ASSUME PublicInv, PublicInv', UNCHANGED said, NEW i \in Ids, NEW s \in SignalState,
           \A j \in Ids : signals'[j].state = IF j = i THEN s ELSE signals[j].state
    PROVE  /\ AbstractStage' = [AbstractStage EXCEPT ![i] = StageOf[s]]
           /\ AbstractTold' = AbstractTold
           /\ AbstractStage[i] = StageOf[signals[i].state]
           /\ AbstractTold[i] # "no" <=> Known(i)
<1>1. AbstractTold' = AbstractTold BY DEF AbstractTold, ToldOf
<1>2. AbstractStage' = [j \in Ids |-> StageOf[IF j = i THEN s ELSE signals[j].state]]
  BY DEF AbstractStage
<1>3. AbstractStage' = [AbstractStage EXCEPT ![i] = StageOf[s]]
  BY <1>2 DEF AbstractStage
<1> QED BY <1>1, <1>3, ToldKnown DEF AbstractStage, AbstractTold

\* What a step may do to the signals and the channel.
Quiet == UNCHANGED <<signals, said>>
Moved(i, from, to) ==
    /\ signals[i].state = from
    /\ \A j \in Ids : signals'[j].state = IF j = i THEN to ELSE signals[j].state
    /\ UNCHANGED said
Tells(i, word) ==
    /\ signals[i].state # "NONE"
    /\ UNCHANGED signals
    /\ \A j \in Ids : ToldOf(j)' = IF j = i THEN word ELSE ToldOf(j)
Effect ==
    \/ Quiet
    \/ \E i \in Ids :
         \/ Moved(i, "NONE", "AWAITING")
         \/ Moved(i, "AWAITING", "RELEASED")
         \/ Moved(i, "AWAITING", "CONFIRMED") /\ Known(i)
         \/ \E s \in {"CLOSED", "UNFILLED"} : Moved(i, "CONFIRMED", s)
         \/ Tells(i, "yes") \/ Tells(i, ToldOf(i))
         \/ ToldOf(i) = "no" /\ Tells(i, "refused")

LEMMA ReleaseEffect == ASSUME Inv, Release PROVE Effect
<1>1. PICK i \in Ids : i = monitor.id
  BY InHandFacts DEF Inv, InHand, Release, At
<1>2. \/ Quiet
      \/ /\ signals[i].state = "AWAITING" /\ UNCHANGED said
         /\ signals' = [signals EXCEPT ![i].state = "RELEASED"]
  BY <1>1 DEF Release, Released, Quiet
<1>3. ASSUME signals[i].state = "AWAITING" /\ UNCHANGED said,
             signals' = [signals EXCEPT ![i].state = "RELEASED"]
      PROVE  Moved(i, "AWAITING", "RELEASED")
  BY <1>3, SignalSet DEF Inv, SignalState, Moved
<1> QED BY <1>2, <1>3 DEF Effect

LEMMA StageEffect == ASSUME Inv, Stage PROVE Effect
<1>1. InHand /\ UNCHANGED said BY DEF Stage, At, InHand
<1>2. PICK i \in Ids : i = monitor.id BY <1>1, InHandFacts DEF Inv
<1>3. PICK plan \in 0..MaxPlan : plan = monitor.c.plan
  BY <1>1, InHandFacts DEF Inv, Candidate
<1>4. \/ UNCHANGED signals
      \/ /\ signals[i].state = "NONE"
         /\ signals' = [signals EXCEPT ![i] = [state |-> "AWAITING", plan |-> plan]]
  BY <1>2, <1>3 DEF Stage
<1>5. ASSUME signals[i].state = "NONE",
             signals' = [signals EXCEPT ![i] = [state |-> "AWAITING", plan |-> plan]]
      PROVE  Moved(i, "NONE", "AWAITING")
  BY <1>1, <1>5, SignalSet DEF Inv, SignalState, Moved
<1> QED BY <1>1, <1>4, <1>5 DEF Effect, Quiet

LEMMA MarkEffect == ASSUME Inv, Mark PROVE Effect
<1>1. InHand /\ UNCHANGED said BY DEF Mark, At, InHand
<1>2. PICK i \in Ids : i = monitor.id BY <1>1, InHandFacts DEF Inv
<1>3. Known(i) BY <1>2 DEF Inv, MonitorInv, Mark, At
<1>4. \/ UNCHANGED signals
      \/ /\ signals[i].state = "AWAITING"
         /\ signals' = [signals EXCEPT ![i].state = "CONFIRMED"]
  BY <1>2 DEF Mark
<1>5. ASSUME signals[i].state = "AWAITING",
             signals' = [signals EXCEPT ![i].state = "CONFIRMED"]
      PROVE  Moved(i, "AWAITING", "CONFIRMED")
  BY <1>1, <1>5, SignalSet DEF Inv, SignalState, Moved
<1> QED BY <1>1, <1>3, <1>4, <1>5 DEF Effect, Quiet

LEMMA SendEffect == ASSUME Inv, Send \/ SendText \/ SendRefused PROVE Effect
<1>1. InHand /\ monitor.pc = "send" /\ UNCHANGED signals
  BY DEF Send, SendText, SendRefused, At, InHand
<1>2. PICK i \in Ids : i = monitor.id BY <1>1, InHandFacts DEF Inv
<1>3. signals[i].state # "NONE" BY <1>1, <1>2 DEF Inv, MonitorInv
<1>4. said \in [Ids -> [posts : Nat, text : BOOLEAN, plan : 0..MaxPlan, lost : BOOLEAN]]
  BY DEF Inv, PublicInv
<1>5. ASSUME NEW d \in Candidate, NEW s, s = Posted(i, d),
             said' = s \/ said' = [s EXCEPT ![i].text = TRUE]
      PROVE  Tells(i, "yes")
  <2>1. /\ s \in [Ids -> [posts : Nat, text : BOOLEAN, plan : 0..MaxPlan, lost : BOOLEAN]]
        /\ s[i].posts = said[i].posts + 1
        /\ \A j \in Ids \ {i} : s[j] = said[j]
    BY <1>5, PostedTyped DEF Inv
  <2>2. said'[i].posts = said[i].posts + 1 /\ \A j \in Ids \ {i} : said'[j] = said[j]
    BY <1>5, <2>1
  <2>3. said'[i].posts > 0 BY <1>4, <2>2
  <2> QED BY <1>1, <1>3, <2>2, <2>3 DEF Tells, ToldOf
<1>6. CASE Send
  <2>1. PICK d : d = Shown(monitor.c) OBVIOUS
  <2>2. d \in Candidate BY <1>1, <2>1, InHandFacts, Operators DEF Inv, Like
  <2>3. said' = said \/ said' = Posted(i, d) BY <1>2, <1>6, <2>1 DEF Send
  <2> QED BY <1>1, <1>5, <2>2, <2>3 DEF Effect, Quiet
<1>7. CASE SendText
  <2>1. PICK d \in Candidate : d = monitor.c BY <1>1, InHandFacts DEF Inv
  <2>2. PICK s : s = Posted(i, d) OBVIOUS
  <2>3. said' = [s EXCEPT ![i].text = TRUE] BY <1>2, <1>7, <2>1, <2>2 DEF SendText
  <2> QED BY <1>5, <2>2, <2>3 DEF Effect
<1>8. CASE SendRefused
  <2>1. said' = [said EXCEPT ![i].lost = TRUE] BY <1>2, <1>8 DEF SendRefused
  <2>2. /\ said'[i].posts = said[i].posts /\ said'[i].lost
        /\ \A j \in Ids \ {i} : said'[j] = said[j]
    BY <1>4, <2>1
  <2>3. \A j \in Ids \ {i} : ToldOf(j)' = ToldOf(j) BY <2>2 DEF ToldOf
  <2>4. CASE ToldOf(i) = "no"
    <3>1. ToldOf(i)' = "refused" BY <1>4, <2>2, <2>4 DEF ToldOf
    <3> QED BY <1>1, <1>3, <2>3, <2>4, <3>1 DEF Effect, Tells
  <2>5. CASE ToldOf(i) # "no"
    <3>1. ToldOf(i)' = ToldOf(i) BY <1>4, <2>2, <2>5 DEF ToldOf
    <3>2. Tells(i, ToldOf(i)) BY <1>1, <1>3, <2>3, <3>1 DEF Tells
    <3> QED BY <3>2 DEF Effect
  <2> QED BY <2>4, <2>5
<1> QED BY <1>6, <1>7, <1>8

LEMMA StepEffect == ASSUME Inv, [Next]_vars PROVE Effect
<1>1. CASE UNCHANGED vars BY <1>1 DEF vars, Effect, Quiet
<1>2. CASE Monitor
  <2>1. CASE BeginPass \/ (\E i \in Ids : Pick(i)) \/ SkipUnpriced \/ Heal \/ Reject \/ Confirm
             \/ Veto \/ DropTwin \/ DisarmStale \/ RefuseStage \/ Gate \/ FollowUp
             \/ SendFails \/ KeepReceipt \/ Final \/ PassFault
    BY <2>1 DEF BeginPass, Pick, SkipUnpriced, Heal, Reject, Confirm, Veto, DropTwin, DisarmStale,
                RefuseStage, Gate, FollowUp, SendFails, KeepReceipt, Final, PassFault, Effect,
                Quiet
  <2>2. CASE Expire \/ Invalidate \/ LosePremise
    BY <2>2 DEF Expire, Invalidate, LosePremise, CloseChain, Effect, Quiet
  <2>3. CASE CacheCandidate("monitor") /\ UNCHANGED <<monitor, world, signals, said, faults>>
    BY <2>3 DEF Effect, Quiet
  <2> QED BY <1>2, <2>1, <2>2, <2>3, ReleaseEffect, StageEffect, MarkEffect, SendEffect
       DEF Monitor
<1>3. CASE Scan
  <2>1. UNCHANGED rest \/ UNCHANGED <<monitor, signals, said>>
    BY <1>3 DEF Scan, BeginScan, LastDetection, EndScan, ReadHolder, ReadPrior, Retry, Advise,
                Detect, Absorb, AbsorbNote, Supersede, Purge, Rewrite, RewriteAgain, Add,
                AddRefused, Alert, AlertFails
  <2> QED BY <2>1 DEF rest, Effect, Quiet
<1>4. CASE World
  <2>1. ASSUME NEW i \in Ids, NEW s \in {"CLOSED", "UNFILLED"}, Close(i, s)
        PROVE  Moved(i, "CONFIRMED", s)
    BY <2>1, SignalSet DEF Close, Inv, SignalState, Moved
  <2>2. ASSUME NEW i \in Ids, TimeOut(i) PROVE Quiet
    BY <2>2 DEF TimeOut, rest, Quiet
  <2>3. ASSUME Crash PROVE Quiet BY <2>3 DEF Crash, Quiet
  <2> QED BY <1>4, <2>1, <2>2, <2>3 DEF World, Effect
<1> QED BY <1>1, <1>2, <1>3, <1>4 DEF Next

LEMMA AbstractInit == Init => Abstract!Init
<1> SUFFICES ASSUME Init PROVE Abstract!Init OBVIOUS
<1>1. \A i \in Ids : StageOf[signals[i].state] = "none" BY DEF Init, StageOf
<1>2. \A i \in Ids : ToldOf(i) = "no" BY DEF Init, ToldOf
<1> QED BY <1>1, <1>2 DEF Abstract!Init

LEMMA AbstractStep == ASSUME Inv, Inv', Effect PROVE [Abstract!Next]_(Abstract!vars)
<1>1. CASE Quiet BY <1>1 DEF Quiet, Abstract!vars, ToldOf
<1>2. ASSUME NEW i \in Ids, NEW from, NEW to \in SignalState, Moved(i, from, to)
      PROVE  /\ Abstract!Move(i, StageOf[from], StageOf[to])
             /\ AbstractTold' = AbstractTold
             /\ AbstractTold[i] # "no" <=> Known(i)
  BY <1>2, MovesAlone DEF Inv, Moved, Abstract!Move, AbstractStage
<1>3. ASSUME NEW i \in Ids, Moved(i, "NONE", "AWAITING") PROVE Abstract!Stage(i)
  BY <1>2, <1>3 DEF SignalState, StageOf, Abstract!Stage, AbstractTold
<1>4. ASSUME NEW i \in Ids, Moved(i, "AWAITING", "RELEASED") PROVE Abstract!Release(i)
  BY <1>2, <1>4 DEF SignalState, StageOf, Abstract!Release, AbstractTold
<1>5. ASSUME NEW i \in Ids, Moved(i, "AWAITING", "CONFIRMED"), Known(i) PROVE Abstract!Arm(i)
  BY <1>2, <1>5 DEF SignalState, StageOf, Abstract!Arm, AbstractTold
<1>6. ASSUME NEW i \in Ids, NEW s \in {"CLOSED", "UNFILLED"}, Moved(i, "CONFIRMED", s)
      PROVE  Abstract!End(i)
  BY <1>2, <1>6 DEF SignalState, StageOf, Abstract!End, AbstractTold
<1>7. ASSUME NEW i \in Ids, NEW word, Tells(i, word)
      PROVE  /\ UNCHANGED AbstractStage /\ AbstractStage[i] # "none"
             /\ AbstractTold[i] = ToldOf(i)
             /\ AbstractTold' = [AbstractTold EXCEPT ![i] = word]
  <2>1. UNCHANGED AbstractStage BY <1>7 DEF Tells, AbstractStage
  <2>2. AbstractStage[i] # "none"
    BY <1>7 DEF Tells, AbstractStage, StageOf, Inv, PublicInv, SignalState
  <2>3. AbstractTold' = [j \in Ids |-> IF j = i THEN word ELSE ToldOf(j)]
    BY <1>7 DEF Tells, AbstractTold
  <2> QED BY <2>1, <2>2, <2>3 DEF AbstractTold
<1>8. ASSUME NEW i \in Ids, Tells(i, "yes") PROVE Abstract!Announce(i)
  BY <1>7, <1>8 DEF Abstract!Announce, AbstractStage, AbstractTold
<1>9. ASSUME NEW i \in Ids, ToldOf(i) = "no", Tells(i, "refused") PROVE Abstract!PassOver(i)
  BY <1>7, <1>9 DEF Abstract!PassOver, AbstractStage, AbstractTold
<1>10. ASSUME NEW i \in Ids, Tells(i, ToldOf(i)) PROVE UNCHANGED Abstract!vars
  <2>1. \A j \in Ids : ToldOf(j)' = ToldOf(j) BY <1>10 DEF Tells
  <2> QED BY <1>10, <2>1 DEF Tells, Abstract!vars
<1> QED BY <1>1, <1>3, <1>4, <1>5, <1>6, <1>8, <1>9, <1>10 DEF Effect, Abstract!Next

\* Whatever fails, crashes or overwrites a candidate: staged, posted or its refusal
\* passed over, armed, in this order, and once armed or withdrawn never staged again.
THEOREM SignalImplemented == Spec => ImplementsSignal
<1>1. Inv /\ Inv' /\ [Next]_vars => [Abstract!Next]_(Abstract!vars)
  BY StepEffect, AbstractStep
<1> QED BY AbstractInit, Invariant, <1>1, PTL DEF Spec, ImplementsSignal, Abstract!Spec

-----------------------------------------------------------------------------
(* What holds as long as the database answers and the process lives: no        *)
(* exception leaves a signal half way, so only the pass's own candidate is.    *)

Flight == {"gate", "send", "receipt", "mark"}

\* A signal staged and posted is about to be armed; what is about to be posted is
\* not armed; and while nothing hindered a post, only the candidate in flight is staged.
FlightInv ==
    /\ \A i \in Ids : signals[i].state = "AWAITING" /\ said[i].posts > 0 =>
          monitor.id = i /\ monitor.pc \in {"receipt", "mark"}
    /\ monitor.pc = "send" => signals[monitor.id].state \notin {"CONFIRMED", "CLOSED"}
    /\ \A i \in Ids : said[i].posts > 0 => signals[i].state # "NONE"
    /\ OneAnnouncement
    /\ Unhindered => \A i \in Ids :
          /\ signals[i].state # "RELEASED"
          /\ signals[i].state = "AWAITING" => monitor.id = i /\ monitor.pc \in Flight

\* The database answers every call and the process is not restarted.
Sound == MaxDbFails = 0 /\ MaxCrashes = 0

\* A step that leaves signals, posts and what hindered them alone, outside a flight.
Away ==
    /\ UNCHANGED <<signals, said>> /\ (Unhindered' <=> Unhindered)
    /\ UNCHANGED monitor \/ (monitor.pc \notin Flight /\ monitor'.pc \notin Flight)

\* Neither the database nor the process fails.
LEMMA NoOutage == ASSUME Sound, Inv PROVE ~DbFault /\ ~Crash
<1>1. faults.db \in Nat /\ faults.crash \in Nat  BY DEF Inv, PublicInv
<1> QED BY <1>1 DEF Sound, DbFault, Crash

\* The next candidate is not in flight.
LEMMA NextGrounded == ASSUME MonitorInv, NextCandidate PROVE monitor'.pc \in {"idle", "pick"}
BY DEF MonitorInv, MonitorType, NextCandidate, MonitorIdle

\* The one in hand goes where it is sent.
LEMMA HandPlaced ==
    ASSUME MonitorInv, NEW pc, NEW c, Hand(pc, c)
    PROVE  monitor'.pc = pc /\ monitor'.id = monitor.id
BY DEF MonitorInv, MonitorType, Hand

\* The steps that matter here.
LEMMA FlightSteps ==
    ASSUME Sound, Inv, [Next]_vars
    PROVE  \/ Away \/ Release \/ Stage \/ Gate \/ FollowUp \/ Send \/ SendRefused \/ SendText \/ SendFails
           \/ KeepReceipt \/ Mark
           \/ \E i \in Ids : Close(i, "CLOSED") \/ Close(i, "UNFILLED")
<1>0. MonitorInv  BY DEF Inv
<1>1. CASE UNCHANGED vars  BY <1>1 DEF vars, Away, Unhindered
<1>2. CASE BeginPass
  BY <1>2 DEF BeginPass, At, MonitorIdle, Away, Flight, Unhindered
<1>3. ASSUME NEW i \in Ids, Pick(i) PROVE Away
  <2>1. monitor'.pc = "judge"  BY <1>0, <1>3 DEF Pick, MonitorInv, MonitorType
  <2> QED BY <1>3, <2>1 DEF Pick, At, Away, Flight, Unhindered
<1>4. CASE SkipUnpriced \/ DropTwin \/ DisarmStale \/ Final
  <2>1. NextCandidate /\ monitor.pc \in {"judge", "stage", "final"}
        /\ UNCHANGED <<signals, said, faults>>
    BY <1>4 DEF SkipUnpriced, DropTwin, DisarmStale, Final, At
  <2> QED BY <1>0, <2>1, NextGrounded DEF Away, Flight, Unhindered
<1>5. CASE Expire \/ Invalidate \/ LosePremise \/ Heal \/ Reject \/ Confirm \/ Veto \/ RefuseStage
  <2>1. /\ \E pc \in {"release", "judge", "final", "stage"}, c \in {monitor'.c} : Hand(pc, c)
        /\ monitor.pc \in {"judge", "stage"}
        /\ UNCHANGED <<signals, said, faults>>
    BY <1>5 DEF Expire, Invalidate, LosePremise, CloseChain, Heal, Reject, Confirm, Veto,
                RefuseStage, At, Hand
  <2> QED BY <1>0, <2>1, HandPlaced DEF Away, Flight, Unhindered
<1>6. CASE CacheCandidate("monitor") /\ UNCHANGED <<monitor, world, signals, said, faults>>
  BY <1>6 DEF Away, Unhindered
<1>7. ~PassFault  BY NoOutage DEF PassFault
<1>8. CASE Scan
  <2>1. UNCHANGED <<monitor, signals, said>> /\ (Unhindered' <=> Unhindered)
    BY <1>8 DEF Scan, BeginScan, LastDetection, EndScan, ReadHolder, ReadPrior, Retry, Advise,
                Detect, Absorb, AbsorbNote, Supersede, Purge, Rewrite, RewriteAgain, Add,
                AddRefused, Alert, AlertFails, rest, Inv, PublicInv, Unhindered
  <2> QED BY <2>1 DEF Away
<1>9. CASE World
  <2>1. ASSUME NEW i \in Ids, TimeOut(i) PROVE Away  BY <2>1 DEF TimeOut, rest, Away, Unhindered
  <2> QED BY <1>9, <2>1, NoOutage DEF World
<1> QED BY <1>1, <1>2, <1>3, <1>4, <1>5, <1>6, <1>7, <1>8, <1>9 DEF Next, Monitor

\* One lemma for the steps of a flight: what each writes.
LEMMA FlightWrites ==
    ASSUME Sound, Inv,
           Stage \/ Gate \/ FollowUp \/ Send \/ SendRefused \/ SendText \/ SendFails
             \/ KeepReceipt \/ Mark,
           NEW i \in Ids, i = monitor.id
    PROVE  /\ monitor'.id = i
           /\ \/ /\ monitor.pc = "stage" /\ monitor'.pc = "gate" /\ UNCHANGED <<said, faults>>
                 /\ \/ UNCHANGED signals
                    \/ /\ signals[i].state = "NONE" /\ ~AtCapacity /\ ~Twin(monitor.c.plan)
                       /\ signals' = [signals EXCEPT ![i] =
                                         [state |-> "AWAITING", plan |-> monitor.c.plan]]
              \/ /\ monitor.pc = "gate" /\ UNCHANGED <<signals, said, faults>>
                 /\ \/ monitor'.pc = "final" /\ Published(i)
                    \/ monitor'.pc = "send" /\ ~Published(i)
              \/ /\ monitor.pc = "send" /\ monitor'.pc = "receipt" /\ UNCHANGED signals
                 /\ UNCHANGED faults \/ ~Unhindered'
                 /\ \/ \A j \in Ids : said'[j].posts = said[j].posts
                    \/ \A j \in Ids :
                          said'[j].posts = IF j = i THEN said[j].posts + 1 ELSE said[j].posts
              \/ /\ monitor.pc = "send" /\ monitor'.pc = "final" /\ UNCHANGED <<signals, said>>
                 /\ ~Unhindered'
              \/ monitor.pc = "receipt" /\ monitor'.pc = "mark" /\ UNCHANGED <<signals, said, faults>>
              \/ /\ monitor.pc = "mark" /\ monitor'.pc = "final" /\ UNCHANGED <<said, faults>>
                 /\ signals' = IF signals[i].state = "AWAITING"
                               THEN [signals EXCEPT ![i].state = "CONFIRMED"] ELSE signals
<1>0. /\ MonitorInv
      /\ said \in [Ids -> [posts : Nat, text : BOOLEAN, plan : 0..MaxPlan, lost : BOOLEAN]]
      /\ faults \in [send : Nat, chart : Nat, db : Nat, crash : Nat, refresh : Nat]
  BY DEF Inv, PublicInv
<1>1. CASE Stage
  <2>1. monitor'.pc = "gate" /\ monitor'.id = i  BY <1>0, <1>1, HandPlaced DEF Stage
  <2> QED BY <1>1, <2>1 DEF Stage, At
<1>2. CASE Gate
  <2>1. \/ monitor'.pc = "final" /\ monitor'.id = i /\ Published(i)
        \/ monitor'.pc = "send" /\ monitor'.id = i /\ ~Published(i)
    BY <1>0, <1>2, HandPlaced DEF Gate
  <2> QED BY <1>2, <2>1 DEF Gate, At
<1>3. CASE Send \/ SendRefused \/ SendText
  <2>1. PICK d \in Candidate, r \in Receipts :
          Like(d, monitor.c) /\ Hand("receipt", Sent(d, r))
    BY <1>3, PostFacts
  <2>2. monitor'.pc = "receipt" /\ monitor'.id = i  BY <1>0, <2>1, HandPlaced
  <2>3. monitor.pc = "send" /\ UNCHANGED signals
    BY <1>3 DEF Send, SendRefused, SendText, At
  <2>4. CASE Send
    <3>1. UNCHANGED faults  BY <2>4 DEF Send
    <3>2. PICK e : e = Shown(monitor.c)  OBVIOUS
    <3>3. e \in Candidate  BY <2>4, <3>2, InHandFacts, Operators DEF Inv, Send, At, InHand, Like
    <3>4. said' = said \/ said' = Posted(i, e)  BY <2>4, <3>2 DEF Send
    <3>5. said' = said \/ \A j \in Ids :
            said'[j].posts = IF j = i THEN said[j].posts + 1 ELSE said[j].posts
      BY <3>3, <3>4, PostedTyped DEF Inv
    <3> QED BY <2>2, <2>3, <3>1, <3>5
  <2>5. CASE SendRefused
    <3>1. said' = [said EXCEPT ![i].lost = TRUE]  BY <2>5 DEF SendRefused
    <3>2. \A j \in Ids : said'[j].posts = said[j].posts  BY <1>0, <3>1
    <3>3. ~Unhindered'  BY <1>0, <2>5 DEF SendRefused, Refused, Unhindered
    <3> QED BY <2>2, <2>3, <3>2, <3>3
  <2>6. CASE SendText
    <3>1. PICK e \in Candidate : e = monitor.c
      BY <2>6, InHandFacts DEF Inv, SendText, At, InHand
    <3>2. PICK s : s = Posted(i, e)  OBVIOUS
    <3>3. /\ s \in [Ids -> [posts : Nat, text : BOOLEAN, plan : 0..MaxPlan, lost : BOOLEAN]]
          /\ \A j \in Ids : s[j].posts = IF j = i THEN said[j].posts + 1 ELSE said[j].posts
      BY <3>2, PostedTyped DEF Inv
    <3>4. said' = [s EXCEPT ![i].text = TRUE]  BY <2>6, <3>1, <3>2 DEF SendText
    <3>5. \A j \in Ids : said'[j].posts = IF j = i THEN said[j].posts + 1 ELSE said[j].posts
      BY <3>3, <3>4
    <3>6. ~Unhindered'  BY <1>0, <2>6 DEF SendText, Unrendered, Unhindered
    <3> QED BY <2>2, <2>3, <3>5, <3>6
  <2> QED BY <1>3, <2>4, <2>5, <2>6
<1>4. CASE SendFails
  <2>1. monitor'.pc = "final" /\ monitor'.id = i  BY <1>0, <1>4, HandPlaced DEF SendFails
  <2>2. faults' \in {Refused(faults), Unrendered(faults), Refused(Unrendered(faults))}
    BY <1>4 DEF SendFails
  <2>3. ~Unhindered'
    <3>1. ASSUME NEW f \in [send : Nat, chart : Nat, db : Nat, crash : Nat, refresh : Nat]
          PROVE  Refused(f).send # 0 /\ Unrendered(f).chart # 0
                 /\ Unrendered(f) \in [send : Nat, chart : Nat, db : Nat, crash : Nat, refresh : Nat]
      BY DEF Refused, Unrendered
    <3> QED BY <1>0, <2>2, <3>1 DEF Unhindered
  <2> QED BY <1>0, <1>4, <2>1, <2>3 DEF SendFails, At
<1>7. CASE FollowUp
  <2>1. monitor'.pc = "final" /\ monitor'.id = i  BY <1>0, <1>7, HandPlaced DEF FollowUp
  <2> QED BY <1>7, <2>1 DEF FollowUp, At
<1>5. CASE KeepReceipt
  <2>1. monitor'.pc = "mark" /\ monitor'.id = i  BY <1>0, <1>5, HandPlaced DEF KeepReceipt
  <2> QED BY <1>5, <2>1 DEF KeepReceipt, At
<1>6. CASE Mark
  <2>1. monitor'.pc = "final" /\ monitor'.id = i  BY <1>0, <1>6, HandPlaced DEF Mark
  <2>2. UNCHANGED faults  BY <1>6, NoOutage DEF Mark
  <2> QED BY <1>6, <2>1, <2>2 DEF Mark, At
<1> QED BY <1>1, <1>2, <1>3, <1>4, <1>5, <1>6, <1>7

\* Every step keeps the flight in order.
LEMMA FlightNext == ASSUME Sound, Inv, Inv', FlightInv, [Next]_vars PROVE FlightInv'
<1>0. /\ signals \in [Ids -> [state : SignalState, plan : 0..MaxPlan]]
      /\ said \in [Ids -> [posts : Nat, text : BOOLEAN, plan : 0..MaxPlan, lost : BOOLEAN]]
      /\ MonitorInv
  BY DEF Inv, PublicInv
<1>1. CASE Away
  BY <1>1 DEF Away, FlightInv, OneAnnouncement, Flight
<1>2. CASE Release
  <2>1. PICK i \in Ids : i = monitor.id  BY <1>2, InHandFacts DEF Inv, InHand, Release, At
  <2>2. /\ monitor.pc = "release" /\ monitor'.pc \in {"idle", "pick"} /\ UNCHANGED said
        /\ signals' = Released(i) /\ UNCHANGED faults
    BY <1>0, <1>2, <2>1, NextGrounded, NoOutage DEF Release, At
  <2>3. \A j \in Ids : signals[j].state = "AWAITING" => said[j].posts = 0 /\ ~Unhindered
    BY <1>0, <2>2 DEF FlightInv, Unhindered, Flight
  <2>4. \A j \in Ids : signals'[j].state = signals[j].state
            \/ (signals[j].state = "AWAITING" /\ signals'[j].state = "RELEASED")
    BY <1>0, <2>1, <2>2 DEF Released
  <2> QED BY <2>2, <2>3, <2>4 DEF FlightInv, Unhindered, OneAnnouncement
<1>3. CASE Stage \/ Gate \/ FollowUp \/ Send \/ SendRefused \/ SendText \/ SendFails
           \/ KeepReceipt \/ Mark
  <2>1. PICK i \in Ids : i = monitor.id
    BY <1>3, InHandFacts DEF Inv, InHand, Stage, Gate, FollowUp, Send, SendRefused, SendText, SendFails,
           KeepReceipt, Mark, At
  <2>2. monitor'.id = i  BY <1>3, <2>1, FlightWrites
  <2>3. CASE monitor.pc = "stage"
    <3>1. /\ monitor'.pc = "gate" /\ UNCHANGED <<said, faults>>
          /\ UNCHANGED signals \/ (/\ signals[i].state = "NONE"
                                   /\ \A j \in Ids : signals'[j].state =
                                         IF j = i THEN "AWAITING" ELSE signals[j].state)
      BY <1>0, <1>3, <2>1, <2>3, FlightWrites
    <3>2. said[i].posts > 0 => signals[i].state # "NONE"  BY DEF FlightInv, Unhindered
    <3>3. \A j \in Ids : signals[j].state = "AWAITING" => said[j].posts = 0 /\ ~Unhindered
      BY <1>0, <2>3 DEF FlightInv, Unhindered, Flight
    <3>4. \A j \in Ids : said'[j] = said[j] /\ (\/ signals'[j].state = signals[j].state
                                               \/ /\ j = i /\ signals[j].state = "NONE"
                                                  /\ signals'[j].state = "AWAITING")
      BY <3>1
    <3>5. \A j \in Ids : signals[j].state = "NONE" => said[j].posts = 0 /\ ~(said[j].posts > 1)
      BY <1>0 DEF FlightInv, Inv, PublicInv
    <3>6. \A j \in Ids : signals'[j].state = "AWAITING" => said'[j].posts = 0
      BY <3>3, <3>4, <3>5
    <3>7. \A j \in Ids : said'[j].posts > 0 => signals'[j].state # "NONE"
      BY <3>4, <3>5 DEF FlightInv
    <3>8. OneAnnouncement'  BY <3>4, <3>5 DEF FlightInv, OneAnnouncement
    <3>9. ASSUME Unhindered', NEW j \in Ids
          PROVE  /\ signals'[j].state # "RELEASED"
                 /\ signals'[j].state = "AWAITING" => monitor'.id = j /\ monitor'.pc \in Flight
      <4>1. Unhindered  BY <3>1, <3>9 DEF Unhindered
      <4> QED BY <2>2, <3>1, <3>3, <3>4, <4>1 DEF FlightInv, Flight
    <3> QED BY <3>1, <3>6, <3>7, <3>8, <3>9 DEF FlightInv
  <2>4. CASE monitor.pc = "gate"
    <3>1. /\ UNCHANGED <<signals, said, faults>>
          /\ \/ monitor'.pc = "final" /\ Published(i)
             \/ monitor'.pc = "send" /\ ~Published(i)
      BY <1>3, <2>1, <2>4, FlightWrites
    <3> QED BY <2>1, <2>2, <2>4, <3>1 DEF FlightInv, Unhindered, OneAnnouncement, Flight, Published
  <2>5. CASE monitor.pc = "send"
    <3>1. signals[i].state \notin {"CONFIRMED", "CLOSED", "NONE"}
      BY <2>1, <2>5 DEF FlightInv, Unhindered, Inv, MonitorInv
    <3>2. CASE monitor'.pc = "receipt"
      <4>1. /\ UNCHANGED signals
            /\ UNCHANGED faults \/ ~Unhindered'
            /\ \/ \A j \in Ids : said'[j].posts = said[j].posts
               \/ \A j \in Ids :
                     said'[j].posts = IF j = i THEN said[j].posts + 1 ELSE said[j].posts
        BY <1>3, <2>1, <2>5, <3>2, FlightWrites
      <4>2. signals[i].state \in {"AWAITING", "RELEASED", "UNFILLED"}
        BY <1>0, <3>1 DEF SignalState
      <4>3. signals[i].state = "AWAITING" => said[i].posts = 0
        BY <1>0, <2>5 DEF FlightInv, Unhindered
      <4>4. \A j \in Ids : signals[j].state = "AWAITING" /\ j # i => ~(said[j].posts > 0)
        BY <2>1, <2>5 DEF FlightInv
      <4>5. \A j \in Ids : j # i => said'[j].posts = said[j].posts  BY <4>1
      <4>6. said'[i].posts > 1 => signals[i].state \in {"RELEASED", "UNFILLED"}
        BY <1>0, <4>1, <4>2, <4>3 DEF FlightInv, OneAnnouncement
      <4>7. OneAnnouncement'
        <5>1. ASSUME NEW j \in Ids, said'[j].posts > 1
              PROVE  signals'[j].state \in {"RELEASED", "UNFILLED"}
          <6>1. CASE j = i  BY <4>1, <4>6, <5>1, <6>1
          <6>2. CASE j # i  BY <4>1, <4>5, <5>1, <6>2 DEF FlightInv, OneAnnouncement
          <6> QED BY <6>1, <6>2
        <5> QED BY <5>1 DEF OneAnnouncement
      <4>8. /\ \A j \in Ids : signals'[j].state = "AWAITING" /\ said'[j].posts > 0 => j = i
            /\ \A j \in Ids : said'[j].posts > 0 => signals'[j].state # "NONE"
        BY <4>1, <4>2, <4>4, <4>5 DEF FlightInv
      <4>9. ASSUME Unhindered', NEW j \in Ids
            PROVE  /\ signals'[j].state # "RELEASED"
                   /\ signals'[j].state = "AWAITING" => monitor'.id = j /\ monitor'.pc \in Flight
        <5>1. Unhindered  BY <4>1, <4>9 DEF Unhindered
        <5> QED BY <2>1, <2>2, <3>2, <4>1, <5>1 DEF FlightInv, Flight
      <4> QED BY <2>2, <3>2, <4>7, <4>8, <4>9 DEF FlightInv
    <3>3. CASE monitor'.pc # "receipt"
      <4>1. monitor'.pc = "final" /\ UNCHANGED <<signals, said>> /\ ~Unhindered'
        BY <1>3, <2>1, <2>5, <3>3, FlightWrites
      <4> QED BY <2>1, <2>2, <2>5, <4>1 DEF FlightInv, Unhindered, OneAnnouncement
    <3> QED BY <3>2, <3>3
  <2>6. CASE monitor.pc = "receipt"
    <3>1. monitor'.pc = "mark" /\ UNCHANGED <<signals, said, faults>>
      BY <1>3, <2>1, <2>6, FlightWrites
    <3> QED BY <2>1, <2>2, <2>6, <3>1 DEF FlightInv, Unhindered, OneAnnouncement, Flight
  <2>7. CASE monitor.pc = "mark"
    <3>1. /\ monitor'.pc = "final" /\ UNCHANGED <<said, faults>>
          /\ \A j \in Ids : signals'[j].state =
                IF j = i /\ signals[j].state = "AWAITING" THEN "CONFIRMED" ELSE signals[j].state
      BY <1>0, <1>3, <2>1, <2>7, FlightWrites
    <3>2. \A j \in Ids : signals'[j].state # "AWAITING" \/ (j # i /\ signals'[j].state = signals[j].state)
      BY <3>1
    <3>3. \A j \in Ids : said'[j] = said[j] /\ (signals'[j].state = signals[j].state
                            \/ (signals[j].state = "AWAITING" /\ signals'[j].state = "CONFIRMED"))
      BY <3>1
    <3>4. OneAnnouncement'  BY <3>3 DEF FlightInv, OneAnnouncement
    <3>5. \A j \in Ids : said'[j].posts > 0 => signals'[j].state # "NONE"
      BY <3>3 DEF FlightInv
    <3>6. \A j \in Ids : signals'[j].state = "AWAITING" => ~(said'[j].posts > 0)
      BY <2>1, <3>2, <3>3 DEF FlightInv
    <3>7. Unhindered' => \A j \in Ids : signals'[j].state \notin {"RELEASED", "AWAITING"}
      <4>1. Unhindered' <=> Unhindered  BY <3>1 DEF Unhindered
      <4> QED BY <2>1, <3>2, <3>3, <4>1 DEF FlightInv
    <3> QED BY <3>1, <3>4, <3>5, <3>6, <3>7 DEF FlightInv
  <2> QED BY <1>3, <2>1, <2>3, <2>4, <2>5, <2>6, <2>7, FlightWrites
<1>4. ASSUME NEW i \in Ids, NEW s \in {"CLOSED", "UNFILLED"}, Close(i, s) PROVE FlightInv'
  <2>1. /\ signals[i].state = "CONFIRMED" /\ UNCHANGED <<monitor, said, faults>>
        /\ \A j \in Ids : signals'[j].state = IF j = i THEN s ELSE signals[j].state
    BY <1>0, <1>4 DEF Close
  <2>2. monitor.pc = "send" => monitor.id \in Ids /\ monitor.id # i
    BY <2>1 DEF FlightInv, Unhindered, Inv, MonitorInv, InHand
  <2> QED BY <1>4, <2>1, <2>2 DEF FlightInv, Unhindered, OneAnnouncement
<1> QED BY <1>1, <1>2, <1>3, <1>4, FlightSteps

LEMMA FlightInit == Init => FlightInv
BY DEF Init, FlightInv, OneAnnouncement, MonitorIdle

-----------------------------------------------------------------------------
(* Whoever is about to be armed has room: while nothing hindered a post, only  *)
(* the candidate in flight is staged and nobody takes its place.               *)

RoomInv ==
    /\ IsFiniteSet(OpenSignals)
    /\ Unhindered =>
          /\ CapacityKept
          /\ NoTwins
          /\ \A i \in Ids : signals[i].state = "AWAITING" => ~AtCapacity /\ ~Twin(signals[i].plan)

\* What a step does to the signals table, told row by row.
Row(j, state, plan) == signals'[j].state = state /\ signals'[j].plan = plan
Kept(j) == Row(j, signals[j].state, signals[j].plan)
Others(i) == \A j \in Ids \ {i} : Kept(j)
RoomEffect ==
    \/ \A j \in Ids : Kept(j)
    \/ \A j \in Ids : Kept(j) \/ (signals[j].state = "AWAITING" /\ Row(j, "RELEASED", signals[j].plan))
    \/ \E i \in Ids : \E plan : /\ signals[i].state = "NONE" /\ ~AtCapacity /\ ~Twin(plan)
                                /\ Row(i, "AWAITING", plan) /\ Others(i)
                                /\ monitor.pc = "stage"
    \/ \E i \in Ids : /\ signals[i].state = "AWAITING"
                      /\ Row(i, "CONFIRMED", signals[i].plan) /\ Others(i)
                      /\ i = monitor.id
    \/ \E i \in Ids, s \in {"CLOSED", "UNFILLED"} :
          signals[i].state = "CONFIRMED" /\ Row(i, s, signals[i].plan) /\ Others(i)

LEMMA RoomSteps ==
    ASSUME Sound, Inv, [Next]_vars
    PROVE  RoomEffect /\ (Unhindered' => Unhindered)
<1>0. /\ signals \in [Ids -> [state : SignalState, plan : 0..MaxPlan]]
      /\ MonitorInv
  BY DEF Inv, PublicInv
<1>1. CASE Away
  BY <1>1 DEF Away, RoomEffect, Kept, Row
<1>2. CASE Release
  <2>1. PICK i \in Ids : i = monitor.id  BY <1>2, InHandFacts DEF Inv, InHand, Release, At
  <2>2. signals' = Released(i) /\ UNCHANGED faults  BY <1>2, <2>1, NoOutage DEF Release
  <2>3. \A j \in Ids : Kept(j) \/ (signals[j].state = "AWAITING" /\ Row(j, "RELEASED", signals[j].plan))
    BY <1>0, <2>1, <2>2 DEF Released, Kept, Row
  <2> QED BY <2>2, <2>3 DEF RoomEffect, Unhindered
<1>3. CASE Stage \/ Gate \/ FollowUp \/ Send \/ SendRefused \/ SendText \/ SendFails
           \/ KeepReceipt \/ Mark
  <2>1. PICK i \in Ids : i = monitor.id
    BY <1>3, InHandFacts DEF Inv, InHand, Stage, Gate, FollowUp, Send, SendRefused, SendText, SendFails,
           KeepReceipt, Mark, At
  <2>2. PICK plan : plan = monitor.c.plan  OBVIOUS
  <2>3. /\ Unhindered' => Unhindered
        /\ \/ UNCHANGED signals
           \/ /\ monitor.pc = "stage" /\ signals[i].state = "NONE" /\ ~AtCapacity /\ ~Twin(plan)
              /\ signals' = [signals EXCEPT ![i] = [state |-> "AWAITING", plan |-> plan]]
           \/ signals[i].state = "AWAITING" /\ signals' = [signals EXCEPT ![i].state = "CONFIRMED"]
    BY <1>3, <2>1, <2>2, FlightWrites DEF Unhindered
  <2>4. CASE UNCHANGED signals  BY <2>3, <2>4 DEF RoomEffect, Kept, Row
  <2>5. CASE signals' = [signals EXCEPT ![i] = [state |-> "AWAITING", plan |-> plan]]
             /\ monitor.pc = "stage" /\ signals[i].state = "NONE" /\ ~AtCapacity /\ ~Twin(plan)
    <3>1. Row(i, "AWAITING", plan) /\ Others(i)  BY <1>0, <2>5 DEF Row, Others, Kept
    <3> QED BY <2>3, <2>5, <3>1 DEF RoomEffect
  <2>6. CASE signals[i].state = "AWAITING" /\ signals' = [signals EXCEPT ![i].state = "CONFIRMED"]
    <3>1. Row(i, "CONFIRMED", signals[i].plan) /\ Others(i)  BY <1>0, <2>6 DEF Row, Others, Kept
    <3> QED BY <2>1, <2>3, <2>6, <3>1 DEF RoomEffect
  <2> QED BY <2>3, <2>4, <2>5, <2>6
<1>4. ASSUME NEW i \in Ids, NEW s \in {"CLOSED", "UNFILLED"}, Close(i, s)
      PROVE  RoomEffect /\ (Unhindered' => Unhindered)
  <2>1. signals[i].state = "CONFIRMED" /\ UNCHANGED faults
        /\ Row(i, s, signals[i].plan) /\ Others(i)
    BY <1>0, <1>4 DEF Close, Row, Others, Kept
  <2> QED BY <2>1 DEF RoomEffect, Unhindered
<1> QED BY <1>1, <1>2, <1>3, <1>4, FlightSteps

\* The set of open signals follows the rows.
LEMMA OpenMoves ==
    ASSUME NEW i \in Ids, Others(i), IsFiniteSet(OpenSignals)
    PROVE  /\ IsFiniteSet(OpenSignals') /\ IsFiniteSet(OpenSignals)
           /\ signals[i].state # "CONFIRMED" /\ signals'[i].state = "CONFIRMED" =>
                 Cardinality(OpenSignals') = Cardinality(OpenSignals) + 1
           /\ signals[i].state = "CONFIRMED" /\ signals'[i].state # "CONFIRMED" =>
                 Cardinality(OpenSignals') = Cardinality(OpenSignals) - 1
           /\ signals[i].state # "CONFIRMED" /\ signals'[i].state # "CONFIRMED" =>
                 OpenSignals' = OpenSignals
           /\ Cardinality(OpenSignals) \in Nat
<1>1. \A j \in Ids \ {i} : j \in OpenSignals' <=> j \in OpenSignals
  BY DEF Others, Kept, Row, OpenSignals
<1>2. (i \in OpenSignals <=> signals[i].state = "CONFIRMED")
      /\ (i \in OpenSignals' <=> signals'[i].state = "CONFIRMED")
  BY DEF OpenSignals
<1>3. OpenSignals \subseteq Ids /\ OpenSignals' \subseteq Ids  BY DEF OpenSignals
<1>4. i \in OpenSignals' => OpenSignals' = OpenSignals \cup {i}  BY <1>1, <1>3
<1>5. i \notin OpenSignals' => OpenSignals' = OpenSignals \ {i}  BY <1>1, <1>3
<1>6. /\ IsFiniteSet(OpenSignals \cup {i})
      /\ i \notin OpenSignals => Cardinality(OpenSignals \cup {i}) = Cardinality(OpenSignals) + 1
  BY FS_AddElement
<1>7. /\ IsFiniteSet(OpenSignals \ {i})
      /\ i \in OpenSignals => Cardinality(OpenSignals \ {i}) = Cardinality(OpenSignals) - 1
  BY FS_RemoveElement
<1>8. Cardinality(OpenSignals) \in Nat  BY FS_CardinalityType
<1>9. i \notin OpenSignals => OpenSignals \ {i} = OpenSignals  OBVIOUS
<1> QED BY <1>2, <1>4, <1>5, <1>6, <1>7, <1>8, <1>9

LEMMA RoomNext == ASSUME Sound, Inv, FlightInv, RoomInv, [Next]_vars PROVE RoomInv'
<1>0. /\ RoomEffect /\ (Unhindered' => Unhindered)
      /\ IsFiniteSet(OpenSignals) /\ Cap \in Nat
  BY RoomSteps, ConfirmationAssumption DEF RoomInv, Unhindered
<1>1. CASE \A j \in Ids : Kept(j)
  <2>1. OpenSignals' = OpenSignals  BY <1>1 DEF OpenSignals, Kept, Row
  <2> QED BY <1>0, <1>1, <2>1
       DEF RoomInv, Unhindered, CapacityKept, NoTwins, AtCapacity, Twin, Kept, Row
<1>2. CASE \A j \in Ids : Kept(j) \/ (signals[j].state = "AWAITING"
                                      /\ Row(j, "RELEASED", signals[j].plan))
  <2>1. OpenSignals' = OpenSignals  BY <1>2 DEF OpenSignals, Kept, Row
  <2> QED BY <1>0, <1>2, <2>1
       DEF RoomInv, Unhindered, CapacityKept, NoTwins, AtCapacity, Twin, Kept, Row
<1>3. ASSUME NEW i \in Ids, NEW plan,
             signals[i].state = "NONE", ~AtCapacity, ~Twin(plan),
             Row(i, "AWAITING", plan), Others(i), monitor.pc = "stage"
      PROVE  RoomInv'
  <2>1. OpenSignals' = OpenSignals  BY <1>0, <1>3, OpenMoves DEF Row
  <2>2. Unhindered => \A j \in Ids : signals[j].state # "AWAITING"
    BY <1>3 DEF FlightInv, Unhindered, Flight
  <2>3. /\ \A j \in Ids : signals'[j].state = IF j = i THEN "AWAITING" ELSE signals[j].state
        /\ \A j \in Ids : signals'[j].plan = IF j = i THEN plan ELSE signals[j].plan
    BY <1>3 DEF Row, Others, Kept
  <2>4. Unhindered => CapacityKept /\ NoTwins  BY DEF RoomInv, Unhindered
  <2>5. Unhindered' => CapacityKept'  BY <1>0, <2>1, <2>4 DEF CapacityKept
  <2>6. Unhindered' => NoTwins'  BY <1>0, <2>3, <2>4 DEF NoTwins
  <2>7. ~AtCapacity'  BY <1>3, <2>1 DEF AtCapacity
  <2>8. ~\E j \in Ids : signals'[j].state \in {"CONFIRMED", "CLOSED"} /\ signals'[j].plan = plan
    BY <1>3, <2>3 DEF Twin
  <2>9. ASSUME Unhindered', NEW j \in Ids, signals'[j].state = "AWAITING"
        PROVE  ~Twin(signals[j].plan)'
    BY <1>0, <2>2, <2>3, <2>8, <2>9 DEF Twin
  <2> QED BY <1>0, <2>1, <2>5, <2>6, <2>7, <2>9 DEF RoomInv, Unhindered
<1>4. ASSUME NEW i \in Ids, signals[i].state = "AWAITING", i = monitor.id,
             Row(i, "CONFIRMED", signals[i].plan), Others(i)
      PROVE  RoomInv'
  <2>1. /\ IsFiniteSet(OpenSignals') /\ Cardinality(OpenSignals) \in Nat
        /\ Cardinality(OpenSignals') = Cardinality(OpenSignals) + 1
    BY <1>0, <1>4, OpenMoves DEF Row
  <2>2. Unhindered => \A j \in Ids : signals[j].state = "AWAITING" => j = i
    BY <1>4 DEF FlightInv, Unhindered
  <2>3. /\ \A j \in Ids : signals'[j].state = IF j = i THEN "CONFIRMED" ELSE signals[j].state
        /\ \A j \in Ids : signals'[j].plan = signals[j].plan
    BY <1>4 DEF Row, Others, Kept
  <2>4. Unhindered => NoTwins /\ ~AtCapacity /\ ~Twin(signals[i].plan)
    BY <1>4 DEF RoomInv, Unhindered
  <2>5. Unhindered' => CapacityKept'
    BY <1>0, <2>1, <2>4 DEF CapacityKept, AtCapacity
  <2>6. Unhindered' => NoTwins'
    BY <1>0, <2>3, <2>4 DEF NoTwins, Twin
  <2>7. Unhindered' => \A j \in Ids : signals'[j].state # "AWAITING"
    BY <1>0, <2>2, <2>3
  <2> QED BY <2>1, <2>5, <2>6, <2>7 DEF RoomInv, Unhindered
<1>5. ASSUME NEW i \in Ids, NEW s \in {"CLOSED", "UNFILLED"},
             signals[i].state = "CONFIRMED", Row(i, s, signals[i].plan), Others(i)
      PROVE  RoomInv'
  <2>1. /\ IsFiniteSet(OpenSignals') /\ Cardinality(OpenSignals) \in Nat
        /\ Cardinality(OpenSignals') = Cardinality(OpenSignals) - 1
    BY <1>0, <1>5, OpenMoves DEF Row
  <2>2. /\ \A j \in Ids : signals'[j].state = IF j = i THEN s ELSE signals[j].state
        /\ \A j \in Ids : signals'[j].plan = signals[j].plan
    BY <1>5 DEF Row, Others, Kept
  <2>3. Unhindered' => CapacityKept'
    BY <1>0, <2>1 DEF CapacityKept, RoomInv
  <2>4. \A plan : (\E j \in Ids : signals'[j].state \in {"CONFIRMED", "CLOSED"}
                                  /\ signals'[j].plan = plan) => Twin(plan)
    BY <1>5, <2>2 DEF Twin
  <2>5. Unhindered' => NoTwins'
    BY <1>0, <1>5, <2>2 DEF NoTwins, RoomInv
  <2>6. ASSUME Unhindered', NEW j \in Ids, signals'[j].state = "AWAITING"
        PROVE  ~AtCapacity' /\ ~Twin(signals[j].plan)'
    <3>1. signals[j].state = "AWAITING" /\ ~AtCapacity /\ ~Twin(signals[j].plan)
      BY <1>0, <2>2, <2>6 DEF RoomInv, Unhindered
    <3>2. ~AtCapacity'  BY <1>0, <2>1, <3>1 DEF AtCapacity
    <3>3. ~Twin(signals[j].plan)'  BY <2>2, <2>4, <3>1 DEF Twin
    <3> QED BY <3>2, <3>3
  <2> QED BY <2>1, <2>3, <2>5, <2>6 DEF RoomInv, Unhindered
<1> QED BY <1>0, <1>1, <1>2, <1>3, <1>4, <1>5 DEF RoomEffect

LEMMA RoomInit == Init => RoomInv
<1> SUFFICES ASSUME Init PROVE RoomInv  OBVIOUS
<1>1. OpenSignals = {}  BY DEF Init, OpenSignals
<1>2. IsFiniteSet(OpenSignals) /\ Cardinality(OpenSignals) = 0  BY <1>1, FS_EmptySet
<1>3. \A i \in Ids : signals[i].state = "NONE"  BY DEF Init
<1> QED BY <1>2, <1>3, ConfirmationAssumption DEF RoomInv, Unhindered, CapacityKept, NoTwins

LEMMA FlightHolds == ASSUME Sound PROVE Spec => [](Inv /\ FlightInv /\ RoomInv)
<1>1. Init => FlightInv /\ RoomInv  BY FlightInit, RoomInit
<1>2. Inv /\ Inv' /\ FlightInv /\ RoomInv /\ [Next]_vars => FlightInv' /\ RoomInv'
  BY FlightNext, RoomNext
<1> QED BY Invariant, <1>1, <1>2, PTL DEF Spec

-----------------------------------------------------------------------------

\* While the database answers and the process lives, for any number of
\* candidates and however the pass, the scan and the advisor write over each
\* other: until a post is refused or waits for its chart, every confirmation the
\* channel saw is tracked, or the pass that posted it is about to arm it (send_confirmed before
\* mark_confirmation_published).
THEOREM AnnouncedTracked == ASSUME Sound PROVE Spec => []AnnouncedIsTracked
<1>1. Inv /\ FlightInv => AnnouncedIsTracked
  BY DEF Inv, PublicInv, FlightInv, AnnouncedIsTracked, Tracked, SignalState
<1> QED BY FlightHolds, <1>1, PTL

\* Under the same hypothesis, whatever posts fail: a confirmation is posted
\* again only when its signal was withdrawn or ended unfilled, never while
\* it is followed or after it closed with a result (send_confirmed).
THEOREM AnnouncedOnce == ASSUME Sound PROVE Spec => []OneAnnouncement
<1>1. FlightInv => OneAnnouncement  BY DEF FlightInv
<1> QED BY FlightHolds, <1>1, PTL

\* Under the same hypothesis, for every cap: until a post is refused or waits for
\* its chart (when the signal stays staged) the number of armed signals without a result never exceeds it, although the cap is read
\* when a signal is staged and the signal is armed only after its post
\* (save_confirmed_signal, mark_confirmation_published).
THEOREM CapKept == ASSUME Sound PROVE Spec => [](Unhindered => CapacityKept)
<1>1. RoomInv => (Unhindered => CapacityKept)  BY DEF RoomInv
<1> QED BY FlightHolds, <1>1, PTL

\* Under the same hypothesis: until a post is refused or waits for its chart no
\* two confirmed signals carry the same points, although the repetition is looked for when a signal
\* is staged (recent_geometry_duplicate).
THEOREM TwinsKeptOut == ASSUME Sound PROVE Spec => [](Unhindered => NoTwins)
<1>1. RoomInv => (Unhindered => NoTwins)  BY DEF RoomInv
<1> QED BY FlightHolds, <1>1, PTL

-----------------------------------------------------------------------------
(* A candidate is CONFIRMED, in any copy, only when its signal is armed or     *)
(* was, but for the one the pass is about to stage and post.                   *)

Backed(c, i) == c.status = "CONFIRMED" => Tracked(i)

BackedStore ==
    /\ \A i \in Ids : /\ table[i].status = "CONFIRMED" => Tracked(i)
                      /\ Backed(table[i].c, i) /\ Backed(cache.rows[i], i)
    /\ \A t \in Threads : pending[t].id \in Ids => Backed(pending[t].c, pending[t].id)
BackedPass ==
    /\ \A i \in Ids : Backed(monitor.copies[i], i)
    /\ InHand /\ monitor.pc \notin {"stage", "gate", "send"} => Backed(monitor.c, monitor.id)
BackedScan ==
    /\ \A i \in Ids : Backed(objs[i], i)
    /\ scan.pc \in {"absorb", "note", "supersede", "purge"} => Backed(scan.c, scan.prior)
BackedInv == BackedStore /\ BackedPass /\ BackedScan

\* A tracked signal stays tracked.
StayTracked == \A i \in Ids : Tracked(i) => Tracked(i)'

LEMMA StepTracks == ASSUME Inv, [Next]_vars PROVE StayTracked
<1>1. Effect  BY StepEffect
<1> QED BY <1>1 DEF Effect, Quiet, Moved, Tells, StayTracked, Tracked

LEMMA AbsentBacked == \A i : Backed(Absent, i)
BY DEF Backed, Absent

\* What a write leaves: the rows of others, and the candidate written.
LEMMA BackedWrite ==
    ASSUME StoreInv, BackedStore, StayTracked, NEW t \in Threads, NEW i \in Ids, NEW c,
           Backed(c, i)', Update(t, i, c) \/ Insert(t, i, c)
    PROVE  BackedStore'
<1>0. /\ table \in [Ids -> [status : {"NONE", "CONFIRMED"} \cup Live \cup Resolved, c : Candidate]]
      /\ pending \in [Threads -> [id : Ids \cup {0}, c : Candidate]]
  BY DEF StoreInv, StoreTypeOK
<1>1. /\ table' \in {table, [table EXCEPT ![i] = [status |-> c.status, c |-> c]]}
      /\ pending' = [pending EXCEPT ![t] = [id |-> i, c |-> c]]
      /\ UNCHANGED cache
  BY DEF Update, Insert
<1>2. ASSUME NEW j \in Ids
      PROVE  /\ table'[j].status = "CONFIRMED" => Tracked(j)'
             /\ Backed(table[j].c, j)' /\ Backed(cache.rows[j], j)'
  <2>1. \/ table'[j] = table[j]
        \/ j = i /\ table'[j].status = c.status /\ table'[j].c = c
    BY <1>0, <1>1
  <2> QED BY <1>1, <2>1 DEF BackedStore, Backed, StayTracked
<1>3. ASSUME NEW u \in Threads, pending'[u].id \in Ids
      PROVE  Backed(pending[u].c, pending[u].id)'
  <2>1. \/ pending'[u] = pending[u]
        \/ pending'[u].id = i /\ pending'[u].c = c
    BY <1>0, <1>1
  <2> QED BY <1>3, <2>1 DEF BackedStore, Backed, StayTracked
<1> QED BY <1>2, <1>3 DEF BackedStore

LEMMA BackedSetStatus ==
    ASSUME StoreInv, BackedStore, StayTracked, NEW t \in Threads, NEW i \in Ids,
           NEW s \in Resolved, SetStatus(t, i, s)
    PROVE  BackedStore'
<1>0. table[i].c \in Candidate  BY DEF StoreInv, StoreTypeOK
<1>1. PICK c : c = [table[i].c EXCEPT !.status = s]  OBVIOUS
<1>2. c.status = s  BY <1>0, <1>1 DEF Candidate
<1>3. CASE UNCHANGED storeVars
  BY <1>3 DEF BackedStore, Backed, StayTracked, storeVars
<1>4. CASE ~UNCHANGED storeVars
  <2>1. table[i].status # "NONE"  BY <1>4 DEF SetStatus
  <2>2. Update(t, i, c)  BY <1>1, <1>2, <2>1 DEF SetStatus, Update
  <2>3. Backed(c, i)'  BY <1>2 DEF Backed, Resolved
  <2> QED BY <2>2, <2>3, BackedWrite
<1> QED BY <1>3, <1>4

\* The other steps of the store move copies it has.
LEMMA BackedMoves ==
    ASSUME StoreInv, BackedStore, StayTracked,
           \/ UNCHANGED <<table, cache, pending>>
           \/ \E t \in Threads : CacheCandidate(t)
           \/ \E refresh \in BOOLEAN : Load(refresh)
           \/ \E old \in SUBSET Ids : Cleanup(old)
           \/ StoreCrash
    PROVE  BackedStore'
<1>1. CASE UNCHANGED <<table, cache, pending>>
  BY <1>1 DEF BackedStore, Backed, StayTracked
<1>2. ASSUME NEW t \in Threads, CacheCandidate(t) PROVE BackedStore'
  <2>0. cache \in [loaded : BOOLEAN, rows : [Ids -> Candidate]]
        /\ pending \in [Threads -> [id : Ids \cup {0}, c : Candidate]] /\ UNCHANGED table
    BY <1>2 DEF StoreInv, StoreTypeOK, CacheCandidate
  <2>1. PICK i \in Ids, c \in Candidate : i = pending[t].id /\ c = pending[t].c /\ Backed(c, i)
    BY <1>2 DEF StoreInv, Good, CacheCandidate, Settled, BackedStore
  <2>2. \A j \in Ids : cache'.rows[j] \in {cache.rows[j], Absent} \/ (j = i /\ cache'.rows[j] = c)
    BY <1>2, <2>0, <2>1 DEF CacheCandidate
  <2>3. \A j \in Ids : Backed(cache.rows[j], j)'
    BY <2>1, <2>2, AbsentBacked DEF BackedStore, Backed, StayTracked
  <2>4. \A u \in Threads : pending'[u] = pending[u] \/ pending'[u].id = 0
    BY <1>2, <2>0 DEF CacheCandidate, NoWrite
  <2>5. \A u \in Threads : pending'[u].id \in Ids => Backed(pending[u].c, pending[u].id)'
    BY <2>4, StoreAssumption DEF BackedStore, Backed, StayTracked
  <2> QED BY <2>0, <2>3, <2>5 DEF BackedStore, Backed, StayTracked
<1>3. ASSUME NEW refresh \in BOOLEAN, Load(refresh) PROVE BackedStore'
  <2>1. \A j \in Ids : Snapshot(refresh)[j] \in {cache.rows[j], table[j].c, Absent}
    BY DEF Snapshot
  <2>2. \A j \in Ids : Backed(cache.rows[j], j)'
    BY <1>3, <2>1, AbsentBacked DEF Load, BackedStore, Backed, StayTracked
  <2> QED BY <1>3, <2>2 DEF Load, BackedStore, Backed, StayTracked
<1>4. ASSUME NEW old \in SUBSET Ids, Cleanup(old) PROVE BackedStore'
  <2>0. table \in [Ids -> [status : {"NONE", "CONFIRMED"} \cup Live \cup Resolved, c : Candidate]]
    BY DEF StoreInv, StoreTypeOK
  <2>1. \A j \in Ids : /\ table'[j].c \in {table[j].c, Absent}
                       /\ table'[j].status \in {table[j].status, "NONE", "EXPIRED"}
    BY <1>4, <2>0 DEF Cleanup
  <2>2. \A j \in Ids : cache'.rows[j] = Absent  BY <1>4 DEF Cleanup
  <2>3. UNCHANGED pending  BY <1>4 DEF Cleanup
  <2> QED BY <2>1, <2>2, <2>3, AbsentBacked DEF BackedStore, Backed, StayTracked
<1>5. CASE StoreCrash
  BY <1>5, AbsentBacked, StoreAssumption
     DEF StoreCrash, NoWrite, BackedStore, Backed, StayTracked
<1> QED BY <1>1, <1>2, <1>3, <1>4, <1>5

\* The candidate handed on.
LEMMA BackedHand ==
    ASSUME Inv, BackedPass, StayTracked, InHand, NEW pc, NEW c, Hand(pc, c),
           pc \notin {"stage", "gate", "send"} => Backed(c, monitor.id)'
    PROVE  BackedPass'
<1>1. /\ monitor'.pc = pc /\ monitor'.c = c /\ monitor'.id = monitor.id
      /\ monitor'.copies = monitor.copies
  BY DEF Inv, MonitorInv, MonitorType, Hand
<1> QED BY <1>1 DEF BackedPass, Backed, StayTracked, Inv, MonitorInv, InHand

LEMMA BackedNext ==
    ASSUME Inv, BackedPass, StayTracked, NextCandidate
    PROVE  BackedPass'
<1>1. monitor'.pc \in {"idle", "pick"}
  BY DEF Inv, MonitorInv, MonitorType, NextCandidate, MonitorIdle
<1>2. \A i \in Ids : monitor'.copies[i] \in {monitor.copies[i], Absent}
  BY DEF Inv, MonitorInv, MonitorType, NextCandidate, MonitorIdle
<1> QED BY <1>1, <1>2, AbsentBacked DEF BackedPass, Backed, StayTracked, InHand

\* The statuses the operators leave.
LEMMA StatusOf ==
    ASSUME NEW c \in Candidate
    PROVE  /\ Enforced(c).status = c.status
           /\ Shown(c).status = c.status
           /\ Frozen(c).status = c.status
           /\ Unstaged(c).status # "CONFIRMED"
           /\ \A d \in Watched(c) : d \in Candidate /\ d.status \in {c.status, "APPROACHING"}
           /\ \A plan : [c EXCEPT !.plan = plan].status = c.status
           /\ \A s : [c EXCEPT !.status = s].status = s
           /\ NotSent(c).status = "APPROACHING"
           /\ \A r : Sent(c, r).status = "APPROACHING"
           /\ \A s, b : [c EXCEPT !.status = s, !.complete = b].status = s
           /\ [c EXCEPT !.staged = TRUE].status = c.status
           /\ [c EXCEPT !.alerted = TRUE].status = c.status
           /\ \A plan, moved : Absorbed(c, plan, moved).status \in {c.status, "EDUCATIONAL"}
<1>1. Frozen(c).status = c.status /\ Frozen(c) \in Candidate
  BY Operators DEF Frozen, Candidate, Like
<1>2. \A w : Warned(c, w).status = "APPROACHING" /\ Warned(Frozen(c), w).status = "APPROACHING"
  BY <1>1 DEF Warned, Candidate
<1>3. \A d \in Watched(c) : d \in Candidate  BY Operators DEF Like
<1>4. ASSUME NEW d \in Watched(c) PROVE d.status \in {c.status, "APPROACHING"}
  <2>1. d = c \/ d = Frozen(c) \/ \E w : d = Warned(c, w) \/ d = Warned(Frozen(c), w)
    BY DEF Watched
  <2> QED BY <1>1, <1>2, <2>1
<1>5. Enforced(c).status = c.status /\ Shown(c).status = c.status
  BY DEF Enforced, Shown, Candidate
<1>6. Unstaged(c).status # "CONFIRMED"  BY DEF Unstaged, Candidate
<1>7. ASSUME NEW plan, NEW moved
      PROVE  Absorbed(c, plan, moved).status \in {c.status, "EDUCATIONAL"}
  BY DEF Absorbed, Candidate
<1>8. NotSent(c).status = "APPROACHING" /\ \A r : Sent(c, r).status = "APPROACHING"
  BY DEF NotSent, Sent, Candidate
<1> QED BY <1>1, <1>3, <1>4, <1>5, <1>6, <1>7, <1>8 DEF Candidate

\* The pass, while no engine of a setup vetoes after the verdict.
LEMMA BackedMonitor ==
    ASSUME ~OwnEngine, Inv, BackedInv, StayTracked, Monitor
    PROVE  BackedStore' /\ BackedPass'
<1>0. StoreInv /\ MonitorInv /\ BackedStore /\ BackedPass /\ "monitor" \in Threads
  BY DEF Inv, BackedInv, Threads
<1>1. CASE BeginPass
  <2>1. PICK refresh \in BOOLEAN : Load(refresh)
          /\ monitor' = [MonitorIdle EXCEPT !.pc = "pick", !.todo = Active(Snapshot(refresh)),
                           !.copies = [i \in Ids |-> IF i \in Active(Snapshot(refresh))
                                                     THEN Snapshot(refresh)[i] ELSE Absent]]
    BY <1>1 DEF BeginPass
  <2>2. \A i \in Ids : Snapshot(refresh)[i] \in {cache.rows[i], table[i].c, Absent}
    BY DEF Snapshot
  <2>3. monitor'.pc = "pick" /\ \A i \in Ids : monitor'.copies[i] \in {Snapshot(refresh)[i], Absent}
    BY <2>1 DEF MonitorIdle
  <2>4. BackedPass'
    BY <2>2, <2>3, <1>0, AbsentBacked DEF BackedPass, BackedStore, Backed, StayTracked, InHand
  <2> QED BY <1>0, <2>1, <2>4, BackedMoves
<1>2. ASSUME NEW i \in Ids, Pick(i) PROVE BackedStore' /\ BackedPass'
  <2>1. BackedStore'  BY <1>0, <1>2, BackedMoves DEF Pick, storeVars
  <2>2. /\ monitor'.id = i /\ monitor'.c = Enforced(monitor.copies[i])
        /\ \A j \in Ids : monitor'.copies[j] \in {monitor.copies[j], Absent}
    BY <1>0, <1>2 DEF Pick, MonitorInv, MonitorType
  <2>3. Enforced(monitor.copies[i]).status = monitor.copies[i].status
    BY <1>0, StatusOf DEF MonitorInv, MonitorType
  <2> QED BY <1>0, <2>1, <2>2, <2>3, AbsentBacked DEF BackedPass, Backed, StayTracked
<1>3. CASE SkipUnpriced \/ Release \/ (PassFault /\ NextCandidate)
  <2>1. UNCHANGED storeVars /\ NextCandidate
    BY <1>3 DEF SkipUnpriced, Release, PassFault
  <2> QED BY <1>0, <2>1, BackedNext, BackedMoves DEF storeVars
<1>4. CASE CacheCandidate("monitor") /\ UNCHANGED <<monitor, world, signals, said, faults>>
  <2>1. BackedStore'  BY <1>0, <1>4, BackedMoves
  <2> QED BY <1>4, <2>1, <1>0 DEF BackedPass, Backed, StayTracked, InHand, MonitorInv
<1>5. ASSUME InHand, NEW c \in Candidate, NEW pc, UNCHANGED storeVars, Hand(pc, c),
             pc \notin {"stage", "gate", "send"} => Backed(c, monitor.id)'
      PROVE  BackedStore' /\ BackedPass'
  BY <1>0, <1>5, BackedHand, BackedMoves DEF storeVars
<1>6. ASSUME InHand, NEW c \in Candidate, Update("monitor", monitor.id, c),
             NextCandidate \/ \E pc : Hand(pc, c), Backed(c, monitor.id)
      PROVE  BackedStore' /\ BackedPass'
  <2>1. PICK i \in Ids : i = monitor.id  BY <1>0, <1>6, InHandFacts
  <2>2. Backed(c, i) /\ Backed(c, i)'  BY <1>6, <2>1 DEF Backed, StayTracked
  <2>3. BackedStore'  BY <1>0, <1>6, <2>1, <2>2, BackedWrite
  <2>4. CASE NextCandidate  BY <1>0, <2>3, <2>4, BackedNext
  <2>5. ASSUME NEW pc, Hand(pc, c) PROVE BackedPass'
    <3>1. monitor'.id = i  BY <1>0, <2>1, <2>5 DEF Hand, MonitorInv, MonitorType
    <3>2. Backed(c, monitor.id)'  BY <2>2, <3>1 DEF Backed, Tracked
    <3> QED BY <1>0, <1>6, <2>5, <3>2, BackedHand
  <2> QED BY <1>6, <2>3, <2>4, <2>5
<1>7. InHand => monitor.c \in Candidate /\ monitor.id \in Ids  BY <1>0, InHandFacts
<1>8. CASE Heal
  <2>1. PICK p \in IF monitor.c.frozen = 0 THEN Plans ELSE {monitor.c.plan} :
          LET c == [monitor.c EXCEPT !.plan = p] IN
          Update("monitor", monitor.id, c) /\ Hand("judge", c)
    BY <1>8 DEF Heal
  <2>2. PICK c : c = [monitor.c EXCEPT !.plan = p]  OBVIOUS
  <2>3. InHand /\ monitor.pc = "judge"  BY <1>8 DEF Heal, At, InHand
  <2>4. p \in 0..MaxPlan  BY <1>7, <2>1, <2>3, StoreAssumption DEF Plans, Candidate
  <2>5. c \in Candidate /\ c.status = monitor.c.status
    BY <1>7, <2>2, <2>3, <2>4 DEF Candidate
  <2>6. Backed(c, monitor.id)  BY <1>0, <2>3, <2>5 DEF BackedPass, Backed
  <2> QED BY <1>6, <2>1, <2>2, <2>3, <2>5, <2>6
<1>9. CASE Expire \/ Invalidate \/ LosePremise
  <2>1. PICK s \in {"EXPIRED", "CANCELLED"} : CloseChain(s)
    BY <1>9 DEF Expire, Invalidate, LosePremise
  <2>2. InHand  BY <1>9 DEF Expire, Invalidate, LosePremise, At, InHand
  <2>3. PICK c : c = [monitor.c EXCEPT !.status = s]  OBVIOUS
  <2>4. c \in Candidate /\ c.status = s  BY <1>7, <2>2, <2>3 DEF Candidate, Resolved
  <2>5. Update("monitor", monitor.id, c) /\ Hand("release", c)  BY <2>1, <2>3 DEF CloseChain
  <2> QED BY <1>6, <2>2, <2>4, <2>5 DEF Backed
<1>10. CASE DropTwin \/ DisarmStale
  <2>1. InHand /\ NextCandidate  BY <1>10 DEF DropTwin, DisarmStale, At, InHand
  <2>2. PICK c : c \in {[monitor.c EXCEPT !.status = "CANCELLED"],
                        [monitor.c EXCEPT !.status = "APPROACHING", !.complete = FALSE]}
                 /\ Update("monitor", monitor.id, c)
    BY <1>10 DEF DropTwin, DisarmStale
  <2>3. c \in Candidate /\ c.status # "CONFIRMED"
    BY <1>7, <2>1, <2>2 DEF Candidate, Live, Resolved
  <2> QED BY <1>6, <2>1, <2>2, <2>3 DEF Backed
<1>11. CASE KeepReceipt
  <2>1. InHand /\ monitor.pc = "receipt"  BY <1>11 DEF KeepReceipt, At, InHand
  <2>2. Backed(monitor.c, monitor.id)  BY <1>0, <2>1 DEF BackedPass
  <2>3. PICK c : c = monitor.c  OBVIOUS
  <2> QED BY <1>6, <1>7, <1>11, <2>1, <2>2, <2>3 DEF KeepReceipt
<1>12. CASE Final
  <2>1. InHand /\ monitor.pc = "final" /\ NextCandidate  BY <1>12 DEF Final, At, InHand
  <2>2. Backed(monitor.c, monitor.id)  BY <1>0, <2>1 DEF BackedPass
  <2>3. PICK c : c = monitor.c  OBVIOUS
  <2>4. UNCHANGED storeVars \/ Update("monitor", monitor.id, c)  BY <1>12, <2>3 DEF Final
  <2>5. CASE UNCHANGED storeVars
    BY <1>0, <2>1, <2>5, BackedNext, BackedMoves DEF storeVars
  <2>6. CASE Update("monitor", monitor.id, c)  BY <1>6, <1>7, <2>1, <2>2, <2>3, <2>6
  <2> QED BY <2>4, <2>5, <2>6
<1>13. CASE Reject
  <2>1. PICK d \in Watched(monitor.c), plan \in NewPlans(monitor.c) :
          Hand("final", [d EXCEPT !.plan = plan])
    BY <1>13 DEF Reject
  <2>2. PICK c : c = [d EXCEPT !.plan = plan]  OBVIOUS
  <2>3. InHand /\ monitor.pc = "judge" /\ UNCHANGED storeVars  BY <1>13 DEF Reject, At, InHand
  <2>4. c \in Candidate  BY <1>7, <2>2, <2>3, Operators DEF Like
  <2>5. c.status \in {monitor.c.status, "APPROACHING"}
    <3>1. d \in Candidate /\ d.status \in {monitor.c.status, "APPROACHING"}
      BY <1>7, <2>3, StatusOf
    <3> QED BY <2>2, <3>1, StatusOf
  <2>6. monitor'.id = monitor.id  BY <1>0, <2>1 DEF Hand, MonitorInv, MonitorType
  <2>7. Backed(c, monitor.id)'
    BY <1>0, <1>7, <2>3, <2>5, <2>6 DEF BackedPass, Backed, StayTracked, Tracked
  <2> QED BY <1>5, <2>1, <2>2, <2>3, <2>4, <2>7
<1>14. CASE Confirm
  <2>1. PICK d \in Watched(monitor.c), plan \in NewPlans(monitor.c) :
          Hand("stage", Frozen(Confirmed(d, plan)))
    BY <1>14 DEF Confirm
  <2>2. InHand /\ UNCHANGED storeVars  BY <1>14 DEF Confirm, At, InHand
  <2>3. PICK c : c = Frozen(Confirmed(d, plan))  OBVIOUS
  <2>4. Hand("stage", c)  BY <2>1, <2>3
  <2> QED BY <1>0, <2>2, <2>4, BackedHand, BackedMoves DEF storeVars
<1>15. CASE Stage
  <2>1. InHand /\ UNCHANGED storeVars  BY <1>15 DEF Stage, At, InHand
  <2>2. PICK c : c = [monitor.c EXCEPT !.staged = TRUE]  OBVIOUS
  <2>3. Hand("gate", c)  BY <1>15, <2>2 DEF Stage
  <2> QED BY <1>0, <2>1, <2>3, BackedHand, BackedMoves DEF storeVars
<1>16. CASE RefuseStage \/ (PassFault /\ ~NextCandidate) \/ SendFails
  <2>1. InHand /\ UNCHANGED storeVars
    BY <1>16 DEF RefuseStage, PassFault, SendFails, At, InHand
  <2>2. PICK c : /\ c \in {Unstaged(monitor.c), [monitor.c EXCEPT !.status = "APPROACHING"],
                           NotSent(Shown(monitor.c)), NotSent(Attempted(Shown(monitor.c)))}
                 /\ Hand("final", c)
    BY <1>16 DEF RefuseStage, PassFault, SendFails
  <2>3. c.status # "CONFIRMED"
    <3>1. Shown(monitor.c) \in Candidate /\ monitor.c \in Candidate
      BY <1>7, <2>1, Operators DEF Like
    <3>2. Unstaged(monitor.c).status # "CONFIRMED"  BY <3>1, StatusOf
    <3>3. PICK d \in Candidate : d = Shown(monitor.c)  BY <3>1
    <3>4. PICK e \in Candidate : e = Attempted(d)  BY Operators DEF Like
    <3>5. NotSent(d).status = "APPROACHING" /\ NotSent(e).status = "APPROACHING"
      BY StatusOf
    <3>6. [monitor.c EXCEPT !.status = "APPROACHING"].status = "APPROACHING"
      BY <3>1, StatusOf
    <3> QED BY <2>2, <3>2, <3>3, <3>4, <3>5, <3>6
  <2>4. Backed(c, monitor.id)'  BY <2>3 DEF Backed
  <2> QED BY <1>0, <2>1, <2>2, <2>4, BackedHand, BackedMoves DEF storeVars
<1>17. CASE Gate
  <2>1. InHand /\ UNCHANGED storeVars /\ UNCHANGED signals  BY <1>17 DEF Gate, At, InHand
  <2>2. CASE Published(monitor.id)
    <3>1. PICK c : c = [monitor.c EXCEPT !.status = "CONFIRMED"]  OBVIOUS
    <3>2. Hand("final", c)  BY <1>17, <2>2, <3>1 DEF Gate
    <3>3. monitor'.id = monitor.id  BY <1>0, <3>2 DEF Hand, MonitorInv, MonitorType
    <3>4. Backed(c, monitor.id)'  BY <2>1, <2>2, <3>3 DEF Backed, Tracked, Published
    <3> QED BY <1>0, <2>1, <3>2, <3>4, BackedHand, BackedMoves DEF storeVars
  <2>3. CASE ~Published(monitor.id)
    <3>1. PICK c : c = monitor.c  OBVIOUS
    <3>2. Hand("send", c)  BY <1>17, <2>3, <3>1 DEF Gate
    <3> QED BY <1>0, <2>1, <3>2, BackedHand, BackedMoves DEF storeVars
  <2> QED BY <2>2, <2>3
<1>18. CASE Send \/ SendRefused \/ SendText
  <2>1. InHand /\ UNCHANGED storeVars
    BY <1>18 DEF Send, SendRefused, SendText, At, InHand
  <2>2. PICK i \in Ids : i = monitor.id  BY <1>7, <2>1
  <2>3. PICK d \in Candidate, r \in Receipts :
          Like(d, monitor.c) /\ Hand("receipt", Sent(d, r))
    BY <1>18, <2>2, PostFacts
  <2>4. PICK c : c = Sent(d, r)  OBVIOUS
  <2>5. Backed(c, monitor.id)'  BY <2>4, StatusOf DEF Backed
  <2> QED BY <1>0, <2>1, <2>3, <2>4, <2>5, BackedHand, BackedMoves DEF storeVars
<1>20. CASE FollowUp
  <2>1. PICK c : c = [monitor.c EXCEPT !.status = "CONFIRMED", !.receipt = "chart"]  OBVIOUS
  <2>2. InHand /\ Update("monitor", monitor.id, c) /\ Hand("final", c)
    BY <1>20, <2>1 DEF FollowUp, At, InHand
  <2>3. c \in Candidate  BY <1>7, <2>1, <2>2 DEF Candidate, Receipts
  <2>4. Backed(c, monitor.id)  BY <1>20 DEF FollowUp, Backed, Tracked, Published
  <2> QED BY <1>6, <2>2, <2>3, <2>4
<1>19. CASE Mark
  <2>1. InHand /\ UNCHANGED storeVars /\ monitor.pc = "mark"  BY <1>19 DEF Mark, At, InHand
  <2>2. PICK i \in Ids : i = monitor.id  BY <1>0, <2>1, InHandFacts
  <2>3. PICK c : /\ Hand("final", c)
                 /\ \/ c = monitor.c
                    \/ signals[i].state \in {"AWAITING", "CONFIRMED"}
    BY <1>19, <2>2 DEF Mark
  <2>4. signals[i].state \in {"AWAITING", "CONFIRMED"} => Tracked(i)'
    <3>1. signals \in [Ids -> [state : SignalState, plan : 0..MaxPlan]]  BY DEF Inv, PublicInv
    <3>2. signals' = IF signals[i].state = "AWAITING"
                     THEN [signals EXCEPT ![i].state = "CONFIRMED"] ELSE signals
      BY <1>19, <2>2 DEF Mark
    <3> QED BY <3>1, <3>2 DEF Tracked
  <2>5. monitor'.id = i  BY <1>0, <2>2, <2>3 DEF Hand, MonitorInv, MonitorType
  <2>6. Backed(c, monitor.id)'
    BY <1>0, <2>1, <2>2, <2>3, <2>4, <2>5 DEF BackedPass, Backed, StayTracked, Tracked
  <2> QED BY <1>0, <2>1, <2>3, <2>6, BackedHand, BackedMoves DEF storeVars
<1> QED BY <1>1, <1>2, <1>3, <1>4, <1>8, <1>9, <1>10, <1>11, <1>12, <1>13, <1>14, <1>15, <1>16,
           <1>17, <1>18, <1>19, <1>20 DEF Monitor, Veto

\* The scan and the advisor write copies they read, and candidates they made.
LEMMA BackedScans ==
    ASSUME Inv, BackedInv, StayTracked, Scan
    PROVE  BackedInv'
<1>0. /\ StoreInv /\ BackedStore /\ BackedPass /\ BackedScan
      /\ scan \in Scans /\ objs \in [Ids -> Candidate]
      /\ {"scan", "advisor"} \subseteq Threads
      /\ \A i \in Ids : table[i].c \in Candidate /\ objs[i] \in Candidate
  BY DEF Inv, BackedInv, ScanInv, ScanType, StoreInv, StoreTypeOK, Threads
<1>1. BackedPass'
  <2>1. UNCHANGED monitor
    BY DEF Scan, BeginScan, LastDetection, EndScan, ReadHolder, ReadPrior, Retry, Advise, Detect,
           Absorb, AbsorbNote, Supersede, Purge, Rewrite, RewriteAgain, Add, AddRefused, Alert,
           AlertFails, rest
  <2> QED BY <1>0, <2>1 DEF BackedPass, Backed, StayTracked, InHand, Inv, MonitorInv
<1>2. ASSUME UNCHANGED storeVars PROVE BackedStore'
  BY <1>0, <1>2, BackedMoves DEF storeVars
\* the scan keeps, or drops, the copy it has read
<1>3. ASSUME UNCHANGED objs,
             scan'.pc \in {"absorb", "note", "supersede", "purge"} =>
                /\ scan.pc \in {"absorb", "note", "supersede", "purge"}
                /\ scan'.c = scan.c /\ scan'.prior = scan.prior
      PROVE  BackedScan'
  <2>1. scan.pc \in {"absorb", "note", "supersede", "purge"} => scan.prior \in Ids
    BY DEF Inv, ScanInv
  <2> QED BY <1>0, <1>3, <2>1 DEF BackedScan, Backed, StayTracked
<1>4. CASE BeginScan \/ LastDetection \/ AddRefused \/ AlertFails
  <2>1. UNCHANGED storeVars /\ UNCHANGED objs
    BY <1>4 DEF BeginScan, LastDetection, AddRefused, AlertFails
  <2>2. scan'.pc \in {"detect", "retry"}
    BY <1>0, <1>4 DEF BeginScan, LastDetection, AddRefused, AlertFails, BackToDetect, ScanIdle,
                      AfterPost, Spent, Scans
  <2> QED BY <1>1, <1>2, <1>3, <2>1, <2>2 DEF BackedInv
<1>5. CASE EndScan
  <2>1. PICK old \in SUBSET Ids : Cleanup(old)  BY <1>5 DEF EndScan, Deletable
  <2>2. scan'.pc = "idle" /\ \A i \in Ids : objs'[i] \in {objs[i], Absent}
    BY <1>5 DEF EndScan, ScanIdle
  <2>3. BackedScan'
    BY <1>0, <2>2, AbsentBacked DEF BackedScan, Backed, StayTracked
  <2>4. BackedStore'  BY <1>0, <2>1, BackedMoves
  <2> QED BY <1>1, <2>3, <2>4 DEF BackedInv
<1>6. ASSUME NEW h \in Ids, ReadHolder(h) \/ ReadPrior(h) PROVE BackedInv'
  <2>1. PICK c, pc : Copy(h, c, pc) /\ c.status \in {table[h].c.status, "EDUCATIONAL", "SUPERSEDED"}
    <3>1. CASE ReadPrior(h)
      <4>1. PICK c : c = [table[h].c EXCEPT !.status = "SUPERSEDED"]  OBVIOUS
      <4>2. c.status = "SUPERSEDED"  BY <1>0, <4>1 DEF Candidate
      <4> QED BY <3>1, <4>1, <4>2 DEF ReadPrior
    <3>2. CASE ReadHolder(h)
      <4>1. PICK plan \in Plans, moved \in BOOLEAN :
              Copy(h, Absorbed(table[h].c, plan, moved), "absorb")
        BY <3>2 DEF ReadHolder
      <4>2. Absorbed(table[h].c, plan, moved).status \in {table[h].c.status, "EDUCATIONAL"}
        BY <1>0, StatusOf
      <4> QED BY <4>1, <4>2
    <3> QED BY <1>6, <3>1, <3>2
  <2>2. UNCHANGED storeVars /\ UNCHANGED objs /\ scan'.prior = h /\ scan'.c = c
    BY <1>0, <1>6, <2>1 DEF Copy, ReadHolder, ReadPrior, Scans
  <2>3. Backed(c, h)  BY <1>0, <2>1 DEF BackedStore, Backed
  <2>4. BackedScan'  BY <1>0, <2>2, <2>3 DEF BackedScan, Backed, StayTracked, Tracked
  <2> QED BY <1>1, <1>2, <2>2, <2>4 DEF BackedInv
<1>7. ASSUME NEW pc \in {"absorb", "note", "supersede", "purge"}, NEW next,
             Rewrite(pc, next) \/ (RewriteAgain(pc, next) /\ next \in {"detect", "add"})
      PROVE  BackedInv'
  <2>1. PICK h \in Ids : h = scan.prior  BY <1>7 DEF Rewrite, RewriteAgain, InScan, Inv, ScanInv
  <2>2. PICK c : c = scan.c  OBVIOUS
  <2>3. scan.pc = pc  BY <1>7 DEF Rewrite, RewriteAgain, InScan
  <2>4. Backed(c, h) /\ Backed(c, h)'
    BY <1>0, <2>1, <2>2, <2>3 DEF BackedScan, Backed, StayTracked
  <2>5. Update("scan", h, c) \/ UNCHANGED storeVars
    BY <1>7, <2>1, <2>2 DEF Rewrite, RewriteAgain
  <2>6. BackedStore'  BY <1>0, <1>2, <2>4, <2>5, BackedWrite
  <2>7. UNCHANGED objs /\ \/ scan'.c = scan.c /\ scan'.prior = scan.prior
                          \/ scan'.pc \in {"detect", "add"}
    BY <1>0, <1>7 DEF Rewrite, RewriteAgain, Scans
  <2>8. BackedScan'  BY <1>3, <2>3, <2>7
  <2> QED BY <1>1, <2>6, <2>8 DEF BackedInv
<1>8. ASSUME NEW i \in Ids, NEW plan \in Plans, Detect(i, plan) PROVE BackedInv'
  <2>1. PICK c : c = [Absent EXCEPT !.status = "EDUCATIONAL", !.plan = plan]  OBVIOUS
  <2>2. c.status = "EDUCATIONAL"  BY <2>1 DEF Absent
  <2>3. objs' = [objs EXCEPT ![i] = c] /\ UNCHANGED storeVars  BY <1>8, <2>1 DEF Detect
  <2>4. scan'.pc \in {"detect", "suppressed", "add"}
    BY <1>0, <1>8 DEF Detect, InScan, Scans
  <2>5. BackedScan'
    BY <1>0, <2>2, <2>3, <2>4 DEF BackedScan, Backed, StayTracked
  <2> QED BY <1>1, <1>2, <2>3, <2>5 DEF BackedInv
<1>9. CASE Add
  <2>1. PICK i \in Ids : i = scan.id  BY <1>9 DEF Add, InScan, Inv, ScanInv
  <2>2. PICK c : c = objs[i]  OBVIOUS
  <2>3. Insert("scan", i, c) /\ Backed(c, i)'
    BY <1>0, <1>9, <2>1, <2>2 DEF Add, BackedScan, Backed, StayTracked
  <2>4. BackedStore'  BY <1>0, <2>3, BackedWrite
  <2>5. UNCHANGED objs /\ scan'.pc = "educate"  BY <1>0, <1>9 DEF Add, Scans
  <2> QED BY <1>1, <1>3, <2>4, <2>5 DEF BackedInv
\* an object is posted and written
<1>10. ASSUME NEW i \in Ids, Update("scan", i, [objs[i] EXCEPT !.alerted = TRUE]),
              objs' = [objs EXCEPT ![i] = [objs[i] EXCEPT !.alerted = TRUE]],
              scan'.pc \in {"detect", "retry"}
       PROVE  BackedInv'
  <2>1. PICK c : c = [objs[i] EXCEPT !.alerted = TRUE]  OBVIOUS
  <2>2. c.status = objs[i].status  BY <1>0, <2>1, StatusOf
  <2>3. Backed(c, i)'  BY <1>0, <2>2 DEF BackedScan, Backed, StayTracked
  <2>4. Update("scan", i, c) /\ objs' = [objs EXCEPT ![i] = c]  BY <1>10, <2>1
  <2>5. BackedStore'  BY <1>0, <2>3, <2>4, BackedWrite
  <2>6. BackedScan'  BY <1>0, <1>10, <2>3, <2>4 DEF BackedScan, Backed, StayTracked
  <2> QED BY <1>1, <2>5, <2>6 DEF BackedInv
<1>11. CASE Alert
  <2>1. PICK i \in Ids : i = scan.id  BY <1>11 DEF Alert, InScan, Inv, ScanInv
  <2>2. scan'.pc = "detect"  BY <1>0, <1>11 DEF Alert, Spent, Scans
  <2> QED BY <1>10, <1>11, <2>1, <2>2 DEF Alert
<1>12. ASSUME NEW i \in Ids, Retry(i) PROVE BackedInv'
  <2>1. scan'.pc = "retry"  BY <1>0, <1>12 DEF Retry, InScan, AfterPost, Spent, Scans
  <2>2. CASE SetStatus("scan", i, "UNPOSTED") /\ UNCHANGED objs
    <3>1. BackedStore'  BY <1>0, <2>2, BackedSetStatus DEF Resolved
    <3> QED BY <1>1, <1>3, <2>1, <2>2, <3>1 DEF BackedInv
  <2> QED BY <1>10, <1>12, <2>1, <2>2 DEF Retry
<1>13. ASSUME NEW i \in Ids, Advise(i) PROVE BackedInv'
  <2>1. PICK c : c = objs[i]  OBVIOUS
  <2>2. Backed(c, i)'  BY <1>0, <2>1 DEF BackedScan, Backed, StayTracked
  <2>3. Update("advisor", i, c) \/ UNCHANGED storeVars  BY <1>13, <2>1 DEF Advise
  <2>4. BackedStore'  BY <1>0, <1>2, <2>2, <2>3, BackedWrite
  <2>5. UNCHANGED scan /\ \A j \in Ids : objs'[j] \in {objs[j], Absent}
    BY <1>0, <1>13 DEF Advise
  <2>6. scan.pc \in {"absorb", "note", "supersede", "purge"} => scan.prior \in Ids
    BY DEF Inv, ScanInv
  <2>7. BackedScan'
    BY <1>0, <2>5, <2>6, AbsentBacked DEF BackedScan, Backed, StayTracked
  <2> QED BY <1>1, <2>4, <2>7 DEF BackedInv
<1>14. ASSUME NEW t \in {"scan", "advisor"}, CacheCandidate(t), UNCHANGED world
       PROVE  BackedInv'
  <2>1. BackedStore'  BY <1>0, <1>14, BackedMoves
  <2>2. BackedScan'  BY <1>3, <1>14 DEF world
  <2> QED BY <1>1, <2>1, <2>2 DEF BackedInv
<1> QED BY <1>4, <1>5, <1>6, <1>7, <1>8, <1>9, <1>11, <1>12, <1>13, <1>14
        DEF Scan, Absorb, AbsorbNote, Supersede, Purge

LEMMA BackedSteps ==
    ASSUME ~OwnEngine, Inv, BackedInv, [Next]_vars
    PROVE  BackedInv'
<1>0. StayTracked /\ StoreInv /\ BackedStore /\ BackedPass /\ BackedScan
  BY StepTracks DEF BackedInv, Inv
<1>1. ASSUME UNCHANGED world PROVE BackedScan'
  <2>1. scan.pc \in {"absorb", "note", "supersede", "purge"} => scan.prior \in Ids
    BY DEF Inv, ScanInv
  <2> QED BY <1>0, <1>1, <2>1 DEF world, BackedScan, Backed, StayTracked
<1>2. ASSUME UNCHANGED monitor PROVE BackedPass'
  BY <1>0, <1>2 DEF BackedPass, Backed, StayTracked, InHand, Inv, MonitorInv
<1>3. CASE Monitor
  <2>1. UNCHANGED world
    BY <1>3 DEF Monitor, BeginPass, Pick, SkipUnpriced, Expire, Invalidate, LosePremise, CloseChain,
                Heal, Release, Reject, Confirm, Veto, DropTwin, DisarmStale, Stage, RefuseStage,
                Gate, FollowUp, Send, SendRefused, SendText, SendFails, KeepReceipt, Mark, Final,
                PassFault
  <2> QED BY <1>0, <1>1, <1>3, <2>1, BackedMonitor DEF BackedInv
<1>4. CASE Scan  BY <1>0, <1>4, BackedScans
<1>5. CASE UNCHANGED vars
  BY <1>0, <1>1, <1>2, <1>5, BackedMoves DEF vars, storeVars, world, BackedInv
<1>6. ASSUME NEW i \in Ids, TimeOut(i) \/ Close(i, "CLOSED") \/ Close(i, "UNFILLED")
      PROVE  BackedInv'
  BY <1>0, <1>1, <1>2, <1>6, BackedMoves DEF TimeOut, Close, rest, storeVars, BackedInv
<1>7. CASE Crash
  <2>1. BackedStore'  BY <1>0, <1>7, BackedMoves DEF Crash
  <2>2. monitor' = MonitorIdle /\ scan' = ScanIdle /\ objs' = [i \in Ids |-> Absent]
    BY <1>7 DEF Crash
  <2>3. BackedPass' /\ BackedScan'
    <3>1. BackedPass'  BY <2>2 DEF MonitorIdle, Absent, BackedPass, Backed, InHand
    <3>2. BackedScan'  BY <2>2 DEF ScanIdle, Absent, BackedScan, Backed
    <3> QED BY <3>1, <3>2
  <2> QED BY <2>1, <2>3 DEF BackedInv
<1> QED BY <1>3, <1>4, <1>5, <1>6, <1>7 DEF Next, World

\* As long as no setup has an engine of its own, for any number of candidates
\* and whatever fails, restarts or is overwritten by an older copy: the store
\* has a candidate as CONFIRMED only when its signal is armed or was
\* (mark_confirmation_published before the final update_candidate).
THEOREM RowsTracked == ASSUME ~OwnEngine PROVE Spec => []ConfirmedRowIsTracked
<1>1. Init => BackedInv
  <2> SUFFICES ASSUME Init PROVE BackedInv  OBVIOUS
  <2> QED BY AbsentBacked, StoreAssumption
         DEF Init, StoreInit, MonitorIdle, ScanIdle, NoWrite, BackedInv, BackedStore, BackedPass,
             BackedScan, InHand
<1>2. Inv /\ BackedInv /\ [Next]_vars => BackedInv'  BY BackedSteps
<1>3. BackedInv => ConfirmedRowIsTracked  BY DEF BackedInv, BackedStore, ConfirmedRowIsTracked
<1> QED BY Invariant, <1>1, <1>2, <1>3, PTL DEF Spec

-----------------------------------------------------------------------------
(* The pass alone: its candidates are alerted and watched, no advisory call is *)
(* in flight and no scan finds anything new. Only then does a receipt, or a    *)
(* plan, once written stay in the store: the scan and the advisor write older  *)
(* copies back, and both properties below fail with either of them.            *)

PassAlone == ~Advised /\ MaxRefreshes = 0
WatchedFrom(ids) == WatchedInit(ids) /\ [][Next]_vars
WatchedSpec == WatchedFrom(Ids)

AloneInv ==
    /\ minted = Ids /\ advising = {} /\ scan.pc = "idle"
    /\ pending["scan"] = NoWrite /\ pending["advisor"] = NoWrite
    /\ InHand => monitor.id \notin monitor.todo

\* The pipeline met later is in a state the invariant allows.
LEMMA WatchedInv == ASSUME NEW ids \in SUBSET Ids, WatchedInit(ids) PROVE Inv
<1>0. PICK plans \in [ids -> Plans] :
        LET c == [i \in Ids |-> IF i \notin ids THEN Absent
                               ELSE [Absent EXCEPT !.status = "EDUCATIONAL", !.alerted = TRUE,
                                                   !.plan = plans[i]]] IN
        /\ table = [i \in Ids |-> [status |-> c[i].status, c |-> c[i]]]
        /\ objs = [i \in Ids |-> IF i \in advising THEN c[i] ELSE Absent]
  BY DEF WatchedInit
<1> DEFINE c == [i \in Ids |-> IF i \notin ids THEN Absent
                              ELSE [Absent EXCEPT !.status = "EDUCATIONAL", !.alerted = TRUE,
                                                  !.plan = plans[i]]]
<1>1. Absent \in Candidate /\ Absent.receipt = "none"  BY FreshCandidate
<1>2. ASSUME NEW i \in Ids PROVE c[i] \in Candidate /\ c[i].receipt = "none"
  <2>1. CASE i \in ids
    <3>1. PICK p \in 0..MaxPlan : p = plans[i]  BY <2>1, StoreAssumption DEF Plans
    <3>2. c[i] = [Absent EXCEPT !.status = "EDUCATIONAL", !.alerted = TRUE, !.plan = p]
      BY <2>1, <3>1
    <3>3. PICK d : d = [Absent EXCEPT !.status = "EDUCATIONAL", !.alerted = TRUE, !.plan = p]
      OBVIOUS
    <3>4. d \in Candidate /\ d.receipt = "none"
      <4>1. PICK a \in Candidate : a = Absent /\ a.receipt = "none"  BY <1>1
      <4>2. d = [a EXCEPT !.status = "EDUCATIONAL", !.alerted = TRUE, !.plan = p]  BY <3>3, <4>1
      <4> QED BY <4>1, <4>2 DEF Candidate, Live
    <3>5. c[i] = d  BY <3>2, <3>3, Zenon
    <3> QED BY <3>4, <3>5
  <2>2. CASE i \notin ids
    <3>1. c[i] = Absent  BY <2>2
    <3> QED BY <1>1, <3>1
  <2> QED BY <2>1, <2>2
<1>3. c \in [Ids -> Candidate]  BY <1>2
<1>4. /\ table = [i \in Ids |-> [status |-> c[i].status, c |-> c[i]]]
      /\ objs = [i \in Ids |-> IF i \in advising THEN c[i] ELSE Absent]
  BY <1>0
<1> HIDE DEF c
<1>5. /\ cache = [loaded |-> FALSE, rows |-> [i \in Ids |-> Absent]]
      /\ pending = [t \in Threads |-> NoWrite] /\ expired = {}
      /\ monitor = MonitorIdle /\ scan = ScanIdle /\ minted = ids /\ advising \subseteq ids
      /\ signals = [i \in Ids |-> [state |-> "NONE", plan |-> 0]]
      /\ said = [i \in Ids |-> [posts |-> 0, text |-> FALSE, plan |-> 0, lost |-> FALSE]]
      /\ faults = [send |-> 0, chart |-> 0, db |-> 0, crash |-> 0, refresh |-> 0]
  BY DEF WatchedInit
<1>6. StoreInv
  <2>1. \A i \in Ids : c[i].status \in {"NONE", "CONFIRMED"} \cup Live \cup Resolved
    BY <1>2 DEF Candidate
  <2>2. table \in [Ids -> [status : {"NONE", "CONFIRMED"} \cup Live \cup Resolved,
                           c : Candidate]]
    BY <1>2, <1>4, <2>1
  <2> QED BY <1>1, <1>2, <1>4, <1>5, <2>2 DEF StoreInv, StoreTypeOK, NoWrite, Good
<1>7. MonitorInv  BY <1>1, <1>5 DEF MonitorIdle, MonitorInv, MonitorType, InHand, Good
<1>8. ScanInv
  BY <1>1, <1>2, <1>4, <1>5 DEF ScanIdle, ScanInv, ScanType, Scans, Good
<1>9. PublicInv
  BY <1>5, StoreAssumption DEF PublicInv, SignalState, Tracked, Seen, Known
<1> QED BY <1>6, <1>7, <1>8, <1>9 DEF Inv

\* Nobody but the pass and the world takes a step.
LEMMA AloneSteps ==
    ASSUME PassAlone, Inv, AloneInv, [Next]_vars
    PROVE  Monitor \/ World \/ UNCHANGED vars
<1>1. faults.refresh \in Nat  BY DEF Inv, PublicInv
<1>2. ~Scan
  BY <1>1 DEF Scan, BeginScan, LastDetection, EndScan, ReadHolder, ReadPrior, Retry, Advise, Detect,
              Absorb, AbsorbNote, Supersede, Purge, Rewrite, RewriteAgain, Add, AddRefused, Alert,
              AlertFails, InScan, AloneInv, PassAlone, CacheCandidate, Settled
<1> QED BY <1>2 DEF Next

-----------------------------------------------------------------------------
(* What a step of the pass does to its own fields.                            *)

LEMMA HandFields ==
    ASSUME Inv, NEW pc, NEW c, Hand(pc, c)
    PROVE  /\ monitor'.pc = pc /\ monitor'.c = c /\ monitor'.id = monitor.id
           /\ monitor'.todo = monitor.todo /\ monitor'.copies = monitor.copies
           /\ monitor'.was = monitor.was
BY DEF Inv, MonitorInv, MonitorType, Hand

LEMMA NextFields ==
    ASSUME Inv, NextCandidate
    PROVE  /\ monitor'.pc \in {"idle", "pick"} /\ monitor'.todo = monitor.todo
           /\ \A i \in monitor.todo : monitor'.copies[i] = monitor.copies[i]
           /\ \A i \in Ids : monitor'.copies[i] \in {monitor.copies[i], Absent}
BY DEF Inv, MonitorInv, MonitorType, NextCandidate, MonitorIdle

LEMMA PickFields ==
    ASSUME Inv, NEW i \in Ids, Pick(i)
    PROVE  /\ monitor'.pc = "judge" /\ monitor'.id = i /\ monitor'.todo = monitor.todo \ {i}
           /\ monitor'.c = Enforced(monitor.copies[i]) /\ monitor'.was = monitor.copies[i]
           /\ \A j \in Ids : monitor'.copies[j] = IF j = i THEN Absent ELSE monitor.copies[j]
BY DEF Inv, MonitorInv, MonitorType, Pick

\* A pass begins with the snapshot: rows that are not there are not picked.
LEMMA BeginFields ==
    ASSUME Inv, BeginPass
    PROVE  /\ monitor.pc = "idle" /\ monitor'.pc = "pick" /\ monitor'.todo \subseteq Ids
           /\ pending["monitor"] = NoWrite /\ UNCHANGED <<table, pending>>
           /\ \A i \in Ids : /\ \/ cache'.rows[i] = cache.rows[i] /\ cache.loaded
                                \/ /\ cache'.rows[i] = table[i].c
                                   /\ table[i].status # "NONE" /\ table[i].status \in Live
                                \/ cache'.rows[i] = Absent
                             /\ monitor'.copies[i] \in {cache'.rows[i], Absent}
                             /\ i \in monitor'.todo => /\ monitor'.copies[i] = cache'.rows[i]
                                                       /\ cache'.rows[i].status # "NONE"
                                                       /\ cache'.rows[i].status \in Live
<1>1. PICK refresh \in BOOLEAN : Load(refresh)
          /\ monitor' = [MonitorIdle EXCEPT !.pc = "pick", !.todo = Active(Snapshot(refresh)),
                           !.copies = [i \in Ids |-> IF i \in Active(Snapshot(refresh))
                                                     THEN Snapshot(refresh)[i] ELSE Absent]]
  BY DEF BeginPass
<1>2. PICK rows : rows = Snapshot(refresh)  OBVIOUS
<1>3. PICK todo : todo = Active(rows)  OBVIOUS
<1>4. monitor' = [MonitorIdle EXCEPT !.pc = "pick", !.todo = todo,
                    !.copies = [i \in Ids |-> IF i \in todo THEN rows[i] ELSE Absent]]
  BY <1>1, <1>2, <1>3
<1>5. monitor'.pc = "pick" /\ monitor'.todo = todo
      /\ \A i \in Ids : monitor'.copies[i] = IF i \in todo THEN rows[i] ELSE Absent
  BY <1>4 DEF MonitorIdle
<1>6. cache'.rows = rows /\ UNCHANGED <<table, pending>>  BY <1>1, <1>2 DEF Load
<1>7. \A i \in Ids : \/ rows[i] = cache.rows[i] /\ cache.loaded
                     \/ /\ rows[i] = table[i].c
                        /\ table[i].status # "NONE" /\ table[i].status \in Live
                     \/ rows[i] = Absent
  BY <1>2 DEF Snapshot, LiveRows, Live
<1>8. /\ todo \subseteq Ids
      /\ \A i \in todo : rows[i].status # "NONE" /\ rows[i].status \in Live
  BY <1>3 DEF Active, Live
<1>9. monitor.pc = "idle" /\ pending["monitor"] = NoWrite  BY DEF BeginPass, At, Settled
<1> QED BY <1>5, <1>6, <1>7, <1>8, <1>9

LEMMA WriteFields ==
    ASSUME Inv, NEW i \in Ids, NEW c, Update("monitor", i, c)
    PROVE  /\ \A j \in Ids \ {i} : table'[j] = table[j]
           /\ \/ table'[i].c = c
              \/ table'[i].status = "NONE"
           /\ pending'["monitor"].id = i /\ pending'["monitor"].c = c /\ UNCHANGED cache
           /\ \A t \in Threads \ {"monitor"} : pending'[t] = pending[t]
BY DEF Inv, StoreInv, StoreTypeOK, Update, Threads

LEMMA CacheFields ==
    ASSUME Inv, CacheCandidate("monitor")
    PROVE  /\ pending'["monitor"] = NoWrite /\ UNCHANGED table
           /\ \A t \in Threads \ {"monitor"} : pending'[t] = pending[t]
           /\ cache'.loaded = cache.loaded
           /\ \A i \in Ids : IF i = pending["monitor"].id
                             THEN cache.loaded => cache'.rows[i] \in {pending["monitor"].c, Absent}
                             ELSE cache'.rows[i] = cache.rows[i]
           /\ ~cache.loaded => cache' = cache
BY DEF Inv, StoreInv, StoreTypeOK, CacheCandidate, Threads

\* What the pass does to the candidate in hand, it does to no other.
LEMMA AloneNext == ASSUME PassAlone, Inv, AloneInv, [Next]_vars PROVE AloneInv'
<1>1. CASE UNCHANGED vars
  BY <1>1 DEF vars, storeVars, AloneInv, InHand
<1>2. CASE World
  <2>1. ASSUME NEW i \in Ids, TimeOut(i) \/ Close(i, "CLOSED") \/ Close(i, "UNFILLED")
        PROVE  AloneInv'
    BY <2>1 DEF TimeOut, Close, world, rest, storeVars, AloneInv, InHand
  <2>2. CASE Crash
    BY <2>2 DEF Crash, StoreCrash, MonitorIdle, ScanIdle, Threads, AloneInv, InHand
  <2> QED BY <1>2, <2>1, <2>2 DEF World
<1>3. CASE Monitor
  <2>1. UNCHANGED world
    BY <1>3 DEF Monitor, BeginPass, Pick, SkipUnpriced, Expire, Invalidate, LosePremise, CloseChain,
                Heal, Release, Reject, Confirm, Veto, DropTwin, DisarmStale, Stage, RefuseStage,
                Gate, FollowUp, Send, SendRefused, SendText, SendFails, KeepReceipt, Mark, Final,
                PassFault
  <2>2. pending \in [Threads -> [id : Ids \cup {0}, c : Candidate]]
    BY DEF Inv, StoreInv, StoreTypeOK
  <2>3. \/ UNCHANGED pending
        \/ \E w : pending' = [pending EXCEPT !["monitor"] = w]
    BY <1>3 DEF Monitor, BeginPass, Pick, SkipUnpriced, Expire, Invalidate, LosePremise, CloseChain,
                Heal, Release, Reject, Confirm, Veto, DropTwin, DisarmStale, Stage, RefuseStage,
                Gate, FollowUp, Send, SendRefused, SendText, SendFails, KeepReceipt, Mark, Final,
                PassFault, storeVars, Load,
                Update, CacheCandidate
  <2>4. pending'["scan"] = pending["scan"] /\ pending'["advisor"] = pending["advisor"]
    BY <2>2, <2>3 DEF Threads
  <2>5. InHand' => monitor'.id \notin monitor'.todo
    <3>1. CASE NextCandidate \/ BeginPass
      <4>1. monitor'.pc \in {"idle", "pick"}  BY <3>1, NextFields, BeginFields
      <4> QED BY <4>1 DEF InHand
    <3>2. ASSUME NEW i \in Ids, Pick(i) PROVE monitor'.id \notin monitor'.todo
      BY <3>2, PickFields
    <3>3. ASSUME NEW pc, NEW c, Hand(pc, c), InHand PROVE monitor'.id \notin monitor'.todo
      BY <3>3, HandFields DEF AloneInv
    <3>4. CASE UNCHANGED monitor  BY <3>4 DEF AloneInv, InHand
    <3>5. \/ NextCandidate \/ BeginPass \/ (\E i \in Ids : Pick(i)) \/ UNCHANGED monitor
          \/ InHand /\ \E pc, c : Hand(pc, c)
      BY <1>3 DEF Monitor, SkipUnpriced, Expire, Invalidate, LosePremise, CloseChain,
                  Heal, Release, Reject, Confirm, Veto, DropTwin, DisarmStale, Stage, RefuseStage,
                  Gate, FollowUp, Send, SendRefused, SendText, SendFails, KeepReceipt, Mark, Final,
                PassFault, At, InHand
    <3> QED BY <3>1, <3>2, <3>3, <3>4, <3>5
  <2> QED BY <2>1, <2>4, <2>5 DEF AloneInv, world
<1> QED BY <1>1, <1>2, <1>3, AloneSteps

LEMMA AloneInit == ASSUME PassAlone, WatchedInit(Ids) PROVE Inv /\ AloneInv
<1>1. Inv  BY WatchedInv
<1>2. /\ minted = Ids /\ scan = ScanIdle /\ monitor = MonitorIdle
      /\ pending = [t \in Threads |-> NoWrite]
      /\ advising \in IF Advised THEN SUBSET Ids ELSE {{}}
  BY DEF WatchedInit
<1>3. AloneInv
  BY <1>2 DEF PassAlone, AloneInv, ScanIdle, MonitorIdle, InHand, Threads
<1> QED BY <1>1, <1>3

LEMMA AloneHolds == ASSUME PassAlone PROVE WatchedSpec => [](Inv /\ AloneInv)
<1>1. WatchedInit(Ids) => Inv /\ AloneInv  BY AloneInit
<1>2. Inv /\ AloneInv /\ [Next]_vars => (Inv /\ AloneInv)'  BY AloneNext, NextInv
<1> QED BY <1>1, <1>2, PTL DEF WatchedSpec, WatchedFrom

-----------------------------------------------------------------------------
(* One fault, one post: what the channel saw stays on every copy that can be   *)
(* judged again. Only a receipt that was not written yet lives in the hand     *)
(* alone, and the fault that keeps it from being written is the one allowed.   *)

Hold(i) == InHand /\ monitor.id = i
Owed(i) == pending["monitor"].id = i

Calm == faults.crash = 0 /\ faults.db < 2

\* Posted, and with its chart.
Charted(i) == Seen(i) /\ ~said[i].text

\* Posted in this visit, or posted and failed to write it.
Late(i) == /\ Hold(i) /\ monitor.was.receipt # "chart"
           /\ \/ monitor.pc = "receipt"
              \/ monitor.pc = "final" /\ faults.db = 1

OnceAt(i) ==
    /\ said[i].posts <= 1 \/ said[i].text
    /\ Hold(i) /\ monitor.was.receipt = "chart" => monitor.c.receipt = "chart"
    /\ Charted(i) =>
        /\ i \in monitor.todo => monitor.copies[i].receipt = "chart"
        /\ Hold(i) => monitor.c.receipt = "chart"
        /\ Owed(i) => pending["monitor"].c.receipt = "chart"
        /\ table[i].c.receipt = "chart" \/ table[i].status = "NONE" \/ Late(i)
        /\ cache.loaded =>
             \/ cache.rows[i].receipt = "chart" \/ cache.rows[i].status = "NONE"
             \/ Owed(i) \/ Late(i)
OnceInv == Calm => \A i \in Ids : OnceAt(i)

LEMMA SettledOwesNone == ASSUME Settled("monitor"), NEW i \in Ids PROVE ~Owed(i)
BY StoreAssumption DEF Settled, Owed, NoWrite

\* The pass goes on with nothing written.
LEMMA OnceDrop ==
    ASSUME Inv, Settled("monitor"), NextCandidate, UNCHANGED <<table, cache, pending, said>>,
           NEW i \in Ids, OnceAt(i), ~Late(i)
    PROVE  OnceAt(i)'
<1>1. ~Hold(i)' /\ ~Late(i)'  BY NextFields DEF Hold, Late, InHand
<1>2. monitor'.todo = monitor.todo
      /\ (i \in monitor.todo => monitor'.copies[i] = monitor.copies[i])
  BY NextFields
<1> QED BY <1>1, <1>2 DEF OnceAt, Charted, Seen, Owed

\* The candidate in hand is written.
LEMMA OnceWrite ==
    ASSUME Inv, AloneInv, Settled("monitor"), InHand, NEW c, Update("monitor", monitor.id, c),
           Charted(monitor.id) => c.receipt = "chart",
           monitor.was.receipt = "chart" => c.receipt = "chart", NextCandidate \/ \E pc : Hand(pc, c),
           UNCHANGED said, NEW i \in Ids, OnceAt(i)
    PROVE  OnceAt(i)'
<1>0. PICK h \in Ids : h = monitor.id  BY InHandFacts DEF Inv
<1>1. /\ table'[i] = table[i] \/ i = h
      /\ (i = h => table'[i].c = c \/ table'[i].status = "NONE")
      /\ pending'["monitor"].id = h /\ pending'["monitor"].c = c /\ UNCHANGED cache
  BY <1>0, WriteFields
<1>2. h \notin monitor.todo  BY <1>0 DEF AloneInv
<1>3. /\ monitor'.todo = monitor.todo
      /\ (i \in monitor.todo => monitor'.copies[i] = monitor.copies[i])
      /\ Hold(i)' => i = h /\ monitor'.c = c /\ monitor'.was = monitor.was
  <2>1. CASE NextCandidate  BY <2>1, NextFields DEF Hold, InHand
  <2>2. CASE \E pc : Hand(pc, c)  BY <1>0, <2>2, HandFields DEF Hold, InHand
  <2> QED BY <2>1, <2>2
<1>4. ~Owed(i)  BY SettledOwesNone
<1>5. i # h => ~Late(i)  BY <1>0 DEF Late, Hold
<1> QED BY <1>0, <1>1, <1>2, <1>3, <1>4, <1>5 DEF OnceAt, Charted, Seen, Owed

\* The candidate in hand changes and is not written.
LEMMA OnceHand ==
    ASSUME Inv, AloneInv, Settled("monitor"), InHand, NEW pc, NEW c, Hand(pc, c),
           UNCHANGED <<table, cache, pending>>, NEW i \in Ids, OnceAt(i),
           i # monitor.id => said'[i] = said[i],
           monitor.was.receipt = "chart" => c.receipt = "chart",
           i = monitor.id => /\ said'[i].posts <= 1 \/ said'[i].text
                             /\ Charted(i)' => /\ c.receipt = "chart"
                                               /\ Late(i)' \/ (Charted(i) /\ ~Late(i))
    PROVE  OnceAt(i)'
<1>0. PICK h \in Ids : h = monitor.id  BY InHandFacts DEF Inv
<1>1. /\ monitor'.c = c /\ monitor'.id = h /\ monitor'.todo = monitor.todo
      /\ monitor'.copies = monitor.copies /\ monitor'.was = monitor.was
  BY <1>0, HandFields
<1>2. h \notin monitor.todo /\ ~Owed(i) /\ ~Owed(i)'
  BY <1>0, SettledOwesNone DEF AloneInv, Owed
<1>3. CASE i = h
  BY <1>0, <1>1, <1>2, <1>3 DEF OnceAt, Charted, Seen
<1>4. CASE i # h
  <2>1. ~Late(i) /\ ~Hold(i)'  BY <1>0, <1>1, <1>4 DEF Late, Hold
  <2> QED BY <1>0, <1>1, <1>2, <1>4, <2>1 DEF OnceAt, Charted, Seen
<1> QED BY <1>3, <1>4

LEMMA OnceBegin == ASSUME Inv, BeginPass, NEW i \in Ids, OnceAt(i) PROVE OnceAt(i)'
<1>1. ~InHand /\ ~Owed(i) /\ ~InHand' /\ UNCHANGED said
  BY BeginFields, SettledOwesNone DEF InHand, BeginPass, At
<1>2. ~Hold(i) /\ ~Late(i) /\ ~Hold(i)' /\ ~Late(i)'  BY <1>1 DEF Hold, Late
<1>3. Absent.status = "NONE"  BY DEF Absent
<1>4. /\ UNCHANGED <<table, pending>>
      /\ \/ cache'.rows[i] = cache.rows[i] /\ cache.loaded
         \/ cache'.rows[i] = table[i].c /\ table[i].status # "NONE"
         \/ cache'.rows[i] = Absent
      /\ i \in monitor'.todo => /\ monitor'.copies[i] = cache'.rows[i]
                                /\ cache'.rows[i].status # "NONE"
  BY BeginFields
<1> QED BY <1>1, <1>2, <1>3, <1>4 DEF OnceAt, Charted, Seen, Owed

LEMMA OncePick == ASSUME Inv, NEW h \in Ids, Pick(h), NEW i \in Ids, OnceAt(i) PROVE OnceAt(i)'
<1>1. /\ monitor'.pc = "judge" /\ monitor'.id = h /\ monitor'.todo = monitor.todo \ {h}
      /\ monitor'.c = Enforced(monitor.copies[h]) /\ monitor'.was = monitor.copies[h]
      /\ i # h => monitor'.copies[i] = monitor.copies[i]
  BY PickFields
<1>2. Enforced(monitor.copies[h]).receipt = monitor.copies[h].receipt
  BY Operators DEF Inv, MonitorInv, MonitorType, Like
<1>3. monitor.pc = "pick" /\ h \in monitor.todo /\ UNCHANGED <<table, cache, pending, said>>
  BY DEF Pick, At, storeVars
<1>4. ~Late(i) /\ ~Late(i)'  BY <1>1, <1>3 DEF Late, Hold, InHand
<1>5. Hold(i)' => i = h  BY <1>1 DEF Hold
<1> QED BY <1>1, <1>2, <1>3, <1>4, <1>5 DEF OnceAt, Charted, Seen, Owed

LEMMA OnceCache ==
    ASSUME Inv, CacheCandidate("monitor"), UNCHANGED <<monitor, said, faults>>,
           NEW i \in Ids, OnceAt(i)
    PROVE  OnceAt(i)'
<1>1. /\ pending'["monitor"] = NoWrite /\ UNCHANGED table /\ cache'.loaded = cache.loaded
      /\ IF Owed(i) THEN cache.loaded => cache'.rows[i] \in {pending["monitor"].c, Absent}
                    ELSE cache'.rows[i] = cache.rows[i]
  BY CacheFields DEF Owed
<1>2. Absent.status = "NONE"  BY DEF Absent
<1>3. ~Owed(i)'  BY <1>1, StoreAssumption DEF Owed, NoWrite
<1>4. (Hold(i)' <=> Hold(i)) /\ (Late(i)' <=> Late(i))  BY DEF Hold, Late, InHand
<1> QED BY <1>1, <1>2, <1>3, <1>4 DEF OnceAt, Charted, Seen

\* Faults are counted, never forgotten.
LEMMA FaultsGrow ==
    ASSUME Inv, [Next]_vars
    PROVE  /\ faults'.db \in {faults.db, faults.db + 1}
           /\ faults'.crash \in {faults.crash, faults.crash + 1}
<1>0. faults \in [send : Nat, chart : Nat, db : Nat, crash : Nat, refresh : Nat]
  BY DEF Inv, PublicInv
<1>1. \/ UNCHANGED faults
      \/ faults' = [faults EXCEPT !.db = @ + 1]
      \/ faults' \in {Refused(faults), Unrendered(faults), Refused(Unrendered(faults))}
      \/ faults' = [faults EXCEPT !.crash = @ + 1]
      \/ faults' = [faults EXCEPT !.refresh = @ + 1]
  <2>1. CASE Monitor
    BY <2>1 DEF Monitor, BeginPass, Pick, SkipUnpriced, Expire, Invalidate, LosePremise, CloseChain,
                Heal, Release, Reject, Confirm, Veto, DropTwin, DisarmStale, Stage, RefuseStage,
                Gate, FollowUp, Send, SendRefused, SendText, SendFails, KeepReceipt, Mark, Final,
                PassFault, DbFault
  <2>2. CASE Scan
    BY <2>2 DEF Scan, BeginScan, LastDetection, EndScan, ReadHolder, ReadPrior, Retry, Advise,
                Detect, Absorb, AbsorbNote, Supersede, Purge, Rewrite, RewriteAgain, Add,
                AddRefused, Alert, AlertFails, rest
  <2>3. CASE World \/ UNCHANGED vars
    BY <2>3 DEF World, TimeOut, Close, Crash, rest, vars
  <2> QED BY <2>1, <2>2, <2>3 DEF Next
<1>2. ASSUME NEW f \in [send : Nat, chart : Nat, db : Nat, crash : Nat, refresh : Nat]
      PROVE  /\ Refused(f).db = f.db /\ Refused(f).crash = f.crash
             /\ Unrendered(f).db = f.db /\ Unrendered(f).crash = f.crash
             /\ Unrendered(f) \in [send : Nat, chart : Nat, db : Nat, crash : Nat, refresh : Nat]
  BY DEF Refused, Unrendered
<1>3. CASE faults' \in {Refused(faults), Unrendered(faults), Refused(Unrendered(faults))}
  <2>1. PICK u \in [send : Nat, chart : Nat, db : Nat, crash : Nat, refresh : Nat] :
          u = Unrendered(faults) /\ u.db = faults.db /\ u.crash = faults.crash
    BY <1>0, <1>2
  <2>2. Refused(u).db = u.db /\ Refused(u).crash = u.crash  BY <1>2
  <2>3. Refused(faults).db = faults.db /\ Refused(faults).crash = faults.crash  BY <1>0, <1>2
  <2> QED BY <1>3, <2>1, <2>2, <2>3
<1> QED BY <1>0, <1>1, <1>3

\* A step of the pass begins it, picks a candidate, has one in hand or pays the
\* cache what it owes.
LEMMA MonitorHands ==
    ASSUME Monitor
    PROVE  \/ BeginPass \/ (\E j \in Ids : Pick(j)) \/ (InHand /\ Settled("monitor"))
           \/ CacheCandidate("monitor") /\ UNCHANGED <<monitor, world, signals, said, faults>>
BY DEF Monitor, SkipUnpriced, Expire, Invalidate, LosePremise,
       Heal, Release, Reject, Confirm, Veto, DropTwin, DisarmStale, Stage, RefuseStage,
       Gate, FollowUp, Send, SendRefused, SendText, SendFails, KeepReceipt, Mark, Final,
       PassFault, At, InHand

\* The pass with a candidate in hand.
LEMMA OnceHandled ==
    ASSUME Inv, AloneInv, OnceInv, Calm, Calm', Monitor, InHand, Settled("monitor"), NEW i \in Ids
    PROVE  OnceAt(i)'
<1>0. /\ \A j \in Ids : OnceAt(j)
      /\ \A j \in Ids : ~Owed(j)
  BY SettledOwesNone DEF OnceInv
<1>1. PICK h \in Ids : h = monitor.id /\ monitor.c \in Candidate /\ monitor.was \in Candidate
  BY InHandFacts DEF Inv
<1>2. /\ Charted(h) => monitor.c.receipt = "chart"
      /\ monitor.was.receipt = "chart" => monitor.c.receipt = "chart"
  BY <1>0, <1>1 DEF OnceAt, Hold
\* nothing is written, and the channel sees nothing
<1>3. ASSUME NEW c, NEW pc, Hand(pc, c), UNCHANGED storeVars, UNCHANGED said,
             c.receipt = monitor.c.receipt, ~Late(h) \/ Late(h)'
      PROVE  OnceAt(i)'
  BY <1>0, <1>1, <1>2, <1>3, OnceHand DEF storeVars, OnceAt, Charted, Seen
<1>4. ASSUME NEW c, Update("monitor", h, c), NextCandidate \/ \E pc : Hand(pc, c),
             UNCHANGED said, c.receipt = monitor.c.receipt
      PROVE  OnceAt(i)'
  BY <1>0, <1>1, <1>2, <1>4, OnceWrite
<1>5. ASSUME NextCandidate, UNCHANGED storeVars, UNCHANGED said, ~Late(h) PROVE OnceAt(i)'
  <2>1. ~Late(i)  BY <1>1, <1>5 DEF Late, Hold
  <2> QED BY <1>0, <1>5, <2>1, OnceDrop DEF storeVars
<1>6. monitor.pc \notin {"receipt", "final"} => ~Late(h)  BY DEF Late
<1>7. CASE SkipUnpriced \/ Release
  BY <1>5, <1>6, <1>7 DEF SkipUnpriced, Release, At
<1>8. CASE Heal
  <2>1. PICK p : LET c == [monitor.c EXCEPT !.plan = p] IN
                 Update("monitor", monitor.id, c) /\ Hand("judge", c)
    BY <1>8 DEF Heal
  <2>2. PICK c : c = [monitor.c EXCEPT !.plan = p]  OBVIOUS
  <2>3. c.receipt = monitor.c.receipt  BY <1>1, <2>2 DEF Candidate
  <2> QED BY <1>1, <1>4, <1>8, <2>1, <2>2, <2>3 DEF Heal
<1>9. CASE Expire \/ Invalidate \/ LosePremise
  <2>1. PICK s : CloseChain(s)  BY <1>9 DEF Expire, Invalidate, LosePremise
  <2>2. PICK c : c = [monitor.c EXCEPT !.status = s]  OBVIOUS
  <2>3. c.receipt = monitor.c.receipt  BY <1>1, <2>2 DEF Candidate
  <2> QED BY <1>1, <1>4, <2>1, <2>2, <2>3 DEF CloseChain
<1>10. CASE DropTwin \/ DisarmStale
  <2>1. PICK c : c \in {[monitor.c EXCEPT !.status = "CANCELLED"],
                        [monitor.c EXCEPT !.status = "APPROACHING", !.complete = FALSE]}
                 /\ Update("monitor", monitor.id, c)
    BY <1>10 DEF DropTwin, DisarmStale
  <2>2. c.receipt = monitor.c.receipt  BY <1>1, <2>1 DEF Candidate
  <2> QED BY <1>1, <1>4, <1>10, <2>1, <2>2 DEF DropTwin, DisarmStale
<1>11. CASE Reject \/ Confirm \/ Veto
  <2>0. PICK d \in Watched(monitor.c), plan \in NewPlans(monitor.c) :
          \E pc, c : Hand(pc, c) /\ c \in {[d EXCEPT !.plan = plan], Confirmed(d, plan),
                                           Frozen(Confirmed(d, plan))}
    BY <1>11 DEF Reject, Confirm, Veto
  <2>1. PICK pc, c : Hand(pc, c) /\ c \in {[d EXCEPT !.plan = plan], Confirmed(d, plan),
                                           Frozen(Confirmed(d, plan))}
    BY <2>0
  <2>2. Like([d EXCEPT !.plan = plan], monitor.c) /\ Like(Confirmed(d, plan), monitor.c)
    BY <1>1, Operators
  <2>3. c.receipt = monitor.c.receipt  BY <2>1, <2>2, Operators DEF Like
  <2> QED BY <1>3, <1>6, <1>11, <2>1, <2>3 DEF Reject, Confirm, Veto, At
<1>12. CASE Stage
  <2>1. PICK c : c = [monitor.c EXCEPT !.staged = TRUE]  OBVIOUS
  <2>2. c.receipt = monitor.c.receipt  BY <1>1, <2>1 DEF Candidate
  <2> QED BY <1>3, <1>6, <1>12, <2>1, <2>2 DEF Stage, At
<1>13. CASE RefuseStage
  <2>1. PICK c : c = Unstaged(monitor.c)  OBVIOUS
  <2>2. c.receipt = monitor.c.receipt  BY <1>1, <2>1, Operators DEF Like
  <2> QED BY <1>3, <1>6, <1>13, <2>1, <2>2 DEF RefuseStage, At
<1>14. CASE Gate \/ Mark
  <2>1. PICK pc, c : Hand(pc, c) /\ c \in {monitor.c, [monitor.c EXCEPT !.status = "CONFIRMED"]}
    BY <1>14 DEF Gate, Mark
  <2>2. c.receipt = monitor.c.receipt  BY <1>1, <2>1 DEF Candidate
  <2> QED BY <1>3, <1>6, <1>14, <2>1, <2>2 DEF Gate, Mark, At
<1>15. CASE Send
  <2>1. PICK s \in Candidate : s = Shown(monitor.c) /\ s.receipt = monitor.c.receipt
    BY <1>1, Operators DEF Like
  <2>2. PICK c : c = Sent(s, "chart")  OBVIOUS
  <2>3. c.receipt = "chart"  BY <2>1, <2>2, Operators DEF Receipts
  <2>4. /\ monitor.pc = "send" /\ UNCHANGED storeVars /\ UNCHANGED faults /\ Hand("receipt", c)
        /\ said' = IF s.receipt = "chart" THEN said ELSE Posted(h, s)
    BY <1>1, <1>15, <2>1, <2>2 DEF Send, At
  <2>5. CASE s.receipt = "chart"
    <3>1. c.receipt = monitor.c.receipt /\ UNCHANGED said  BY <2>1, <2>4, <2>5, <2>3
    <3> QED BY <1>3, <1>6, <2>4, <3>1
  <2>6. CASE s.receipt # "chart"
    <3>1. ~Charted(h) /\ monitor.was.receipt # "chart"  BY <1>2, <2>1, <2>6
    <3>2. /\ said'[h].posts = said[h].posts + 1 /\ said'[h].text = said[h].text
          /\ \A j \in Ids \ {h} : said'[j] = said[j]
      BY <2>4, <2>6, PostedTyped DEF Inv
    <3>3. said'[h].posts = 1 \/ said'[h].text
      BY <3>1, <3>2 DEF Charted, Seen, Inv, PublicInv
    <3>4. monitor'.pc = "receipt" /\ monitor'.id = h /\ monitor'.was = monitor.was
      BY <1>1, <2>4, HandFields
    <3>5. Late(h)'  BY <3>1, <3>4 DEF Late, Hold, InHand
    <3> QED BY <1>0, <1>1, <2>4, <2>3, <3>2, <3>3, <3>5, OnceHand DEF storeVars
  <2> QED BY <2>5, <2>6
\* an attempt that posts no chart: no chart was posted
<1>21. ASSUME NEW c, NEW pc, Hand(pc, c), UNCHANGED storeVars, monitor.c.receipt # "chart",
              \A j \in Ids \ {h} : said'[j] = said[j],
              UNCHANGED said \/ said'[h].text \/ said'[h] = [said[h] EXCEPT !.lost = TRUE]
       PROVE  OnceAt(i)'
  <2>1. ~Charted(h) /\ monitor.was.receipt # "chart"  BY <1>2, <1>21
  <2>2. said[h] \in [posts : Nat, text : BOOLEAN, plan : 0..MaxPlan, lost : BOOLEAN]
    BY DEF Inv, PublicInv
  <2>3. ~Charted(h)'  BY <1>21, <2>1, <2>2 DEF Charted, Seen
  <2>4. said'[h].posts <= 1 \/ said'[h].text
    BY <1>0, <1>1, <1>21, <2>2 DEF OnceAt
  <2> QED BY <1>0, <1>1, <1>21, <2>1, <2>3, <2>4, OnceHand DEF storeVars
<1>22. CASE SendRefused
  <2>1. said' = [said EXCEPT ![h].lost = TRUE]  BY <1>1, <1>22 DEF SendRefused
  <2>2. /\ said'[h] = [said[h] EXCEPT !.lost = TRUE]
        /\ \A j \in Ids \ {h} : said'[j] = said[j]
    BY <2>1 DEF Inv, PublicInv
  <2>3. /\ UNCHANGED storeVars /\ monitor.c.receipt # "chart"
        /\ \E c : Hand("receipt", c)
    BY <1>22 DEF SendRefused
  <2> QED BY <1>21, <2>2, <2>3
<1>23. CASE SendText
  <2>1. PICK s : s = Posted(h, monitor.c)  OBVIOUS
  <2>2. /\ s \in [Ids -> [posts : Nat, text : BOOLEAN, plan : 0..MaxPlan, lost : BOOLEAN]]
        /\ \A j \in Ids \ {h} : s[j] = said[j]
    BY <1>1, <2>1, PostedTyped DEF Inv
  <2>3. said' = [s EXCEPT ![h].text = TRUE]  BY <1>1, <1>23, <2>1 DEF SendText
  <2>4. said'[h].text /\ \A j \in Ids \ {h} : said'[j] = said[j]  BY <2>2, <2>3
  <2>5. /\ UNCHANGED storeVars /\ monitor.c.receipt # "chart"
        /\ \E c : Hand("receipt", c)
    BY <1>23 DEF SendText, TextDue
  <2> QED BY <1>21, <2>4, <2>5
<1>16. CASE SendFails
  <2>1. UNCHANGED storeVars /\ UNCHANGED said /\ \E c : Hand("final", c)
    BY <1>16 DEF SendFails
  <2>2. Shown(monitor.c).receipt = monitor.c.receipt
    BY <1>1, Operators DEF Like
  <2>3. monitor.c.receipt # "chart"  BY <1>16, <2>2 DEF SendFails, Reply
  <2> QED BY <1>21, <2>1, <2>3
<1>24. CASE FollowUp
  <2>1. PICK c : c = [monitor.c EXCEPT !.status = "CONFIRMED", !.receipt = "chart"]  OBVIOUS
  <2>2. c.receipt = "chart"  BY <1>1, <2>1 DEF Candidate
  <2>3. Update("monitor", h, c) /\ Hand("final", c) /\ UNCHANGED said
    BY <1>1, <1>24, <2>1 DEF FollowUp
  <2> QED BY <1>0, <1>1, <2>2, <2>3, OnceWrite
<1>17. CASE KeepReceipt
  <2>1. PICK c : c = monitor.c  OBVIOUS
  <2> QED BY <1>1, <1>4, <1>17, <2>1 DEF KeepReceipt
<1>18. CASE Final
  <2>1. PICK c : c = monitor.c  OBVIOUS
  <2>2. NextCandidate /\ UNCHANGED said  BY <1>18 DEF Final
  <2>3. CASE monitor.c = monitor.was
    <3>1. UNCHANGED storeVars  BY <1>18, <2>3 DEF Final
    <3>2. CASE ~Late(h)  BY <1>5, <2>2, <3>1, <3>2
    <3>3. CASE Late(h)
      <4>1. monitor.c.receipt # "chart" /\ ~Charted(h)  BY <1>2, <2>3, <3>3 DEF Late
      <4>2. ~Charted(h)'  BY <2>2, <4>1 DEF Charted, Seen
      <4>3. /\ monitor'.todo = monitor.todo /\ ~Hold(i)' /\ ~Late(i)'
            /\ (i \in monitor.todo => monitor'.copies[i] = monitor.copies[i])
        BY <2>2, NextFields DEF Hold, Late, InHand
      <4>4. i # h => ~Late(i)  BY <1>1 DEF Late, Hold
      <4> QED BY <1>0, <2>2, <3>1, <4>2, <4>3, <4>4 DEF OnceAt, Charted, Seen, Owed, storeVars
    <3> QED BY <3>2, <3>3
  <2>4. CASE monitor.c # monitor.was
    BY <1>1, <1>4, <1>18, <2>1, <2>4 DEF Final
  <2> QED BY <2>3, <2>4
<1>19. CASE PassFault
  <2>1. /\ faults.db = 0 /\ faults'.db = 1
        /\ UNCHANGED storeVars /\ UNCHANGED said
    <3>1. faults' = [faults EXCEPT !.db = @ + 1] /\ faults.db \in Nat /\ faults'.db = faults.db + 1
      BY <1>19 DEF PassFault, DbFault, Inv, PublicInv
    <3> QED BY <1>19, <3>1 DEF PassFault, Calm
  <2>2. ~Late(h) \/ monitor.pc = "receipt"  BY <2>1 DEF Late
  <2>3. CASE monitor.pc \in {"judge", "stage", "send", "final"} /\ NextCandidate
    BY <1>5, <2>1, <2>2, <2>3
  <2>4. CASE monitor.pc = "stage" /\ Hand("final", Unstaged(monitor.c))
    <3>1. PICK c : c = Unstaged(monitor.c) /\ c.receipt = monitor.c.receipt
      BY <1>1, Operators DEF Like
    <3> QED BY <1>3, <1>6, <2>1, <2>4, <3>1
  <2>5. CASE Hand("final", [monitor.c EXCEPT !.status = "APPROACHING"])
    <3>0. PICK c : c = [monitor.c EXCEPT !.status = "APPROACHING"]  OBVIOUS
    <3>1. c.receipt = monitor.c.receipt  BY <1>1, <3>0 DEF Candidate
    <3>2. monitor'.pc = "final" /\ monitor'.id = h /\ monitor'.was = monitor.was
      BY <1>1, <2>5, HandFields
    <3>3. Late(h) => Late(h)'  BY <2>1, <3>2 DEF Late, Hold, InHand
    <3> QED BY <1>3, <2>1, <2>5, <3>0, <3>1, <3>3
  <2> QED BY <1>19, <2>3, <2>4, <2>5 DEF PassFault
<1>20. ~BeginPass /\ (\A j \in Ids : ~Pick(j)) /\ ~CacheCandidate("monitor")
  BY DEF BeginPass, Pick, At, InHand, CacheCandidate
<1> QED BY <1>7, <1>8, <1>9, <1>10, <1>11, <1>12, <1>13, <1>14, <1>15, <1>16, <1>17, <1>18,
           <1>19, <1>20, <1>22, <1>23, <1>24 DEF Monitor

LEMMA OnceNext == ASSUME PassAlone, Inv, AloneInv, OnceInv, [Next]_vars PROVE OnceInv'
<1> SUFFICES ASSUME Calm', NEW i \in Ids PROVE OnceAt(i)'
  BY DEF OnceInv
<1>0. faults \in [send : Nat, chart : Nat, db : Nat, crash : Nat, refresh : Nat]  BY DEF Inv, PublicInv
<1>1. Calm  BY <1>0, FaultsGrow DEF Calm
<1>2. OnceAt(i)  BY <1>1 DEF OnceInv
<1>3. ASSUME UNCHANGED <<monitor, table, cache, pending, said, faults>> PROVE OnceAt(i)'
  BY <1>2, <1>3 DEF OnceAt, Charted, Seen, Hold, Owed, Late, InHand
<1>4. CASE UNCHANGED vars  BY <1>3, <1>4 DEF vars, storeVars
<1>5. CASE World
  <2>1. ASSUME NEW j \in Ids, TimeOut(j) \/ Close(j, "CLOSED") \/ Close(j, "UNFILLED")
        PROVE  OnceAt(i)'
    BY <1>3, <2>1 DEF TimeOut, Close, rest, storeVars
  <2>2. ~Crash
    <3> SUFFICES ASSUME Crash PROVE FALSE  OBVIOUS
    <3>1. faults'.crash = faults.crash + 1  BY <1>0 DEF Crash
    <3> QED BY <1>0, <1>1, <3>1 DEF Calm
  <2> QED BY <1>5, <2>1, <2>2 DEF World
<1>6. CASE Monitor
  <2>1. CASE BeginPass  BY <1>2, <2>1, OnceBegin
  <2>2. ASSUME NEW j \in Ids, Pick(j) PROVE OnceAt(i)'  BY <1>2, <2>2, OncePick
  <2>3. CASE CacheCandidate("monitor") /\ UNCHANGED <<monitor, world, signals, said, faults>>
    BY <1>2, <2>3, OnceCache
  <2>4. CASE InHand /\ Settled("monitor")  BY <1>1, <1>6, <2>4, OnceHandled
  <2>5. \/ BeginPass \/ (\E j \in Ids : Pick(j)) \/ (InHand /\ Settled("monitor"))
        \/ CacheCandidate("monitor") /\ UNCHANGED <<monitor, world, signals, said, faults>>
    BY <1>6, MonitorHands
  <2> QED BY <2>1, <2>2, <2>3, <2>4, <2>5
<1> QED BY <1>4, <1>5, <1>6, AloneSteps

LEMMA OnceInit == ASSUME WatchedInit(Ids) PROVE OnceInv
<1>1. said = [i \in Ids |-> [posts |-> 0, text |-> FALSE, plan |-> 0, lost |-> FALSE]]  BY DEF WatchedInit
<1>2. \A i \in Ids : said[i].posts = 0  BY <1>1
<1>3. \A i \in Ids : ~Hold(i)
  <2>1. monitor = MonitorIdle  BY DEF WatchedInit
  <2> QED BY <2>1 DEF MonitorIdle, Hold, InHand
<1> QED BY <1>2, <1>3 DEF OnceInv, OnceAt, Charted, Seen

-----------------------------------------------------------------------------
(* No fault, no second post: with the database sound and no restart, what was  *)
(* posted is armed before its candidate leaves the hand, and the row of an     *)
(* armed signal is never watched again. That holds of a text posted without    *)
(* its chart too, which no receipt keeps from being posted again.              *)

Lossless == faults.db = 0 /\ faults.crash = 0

\* Armed, or released.
Over(i) == signals[i].state \notin {"NONE", "AWAITING"}

\* No pass can find the row.
Shut(i) == /\ table[i].status \notin Live
           /\ Owed(i) => pending["monitor"].c.status \notin Live
           /\ cache.loaded /\ ~Owed(i) => cache.rows[i].status \notin Live

GoneAt(i) ==
    /\ said[i].posts <= 1
    /\ Seen(i) => Over(i) \/ (Hold(i) /\ monitor.pc \in {"receipt", "mark"})
    /\ Over(i) => /\ i \notin monitor.todo
                  /\ IF Hold(i) THEN monitor.pc = "final" /\ monitor.c.status \notin Live
                     ELSE Shut(i)
    /\ Hold(i) => /\ monitor.was.status \in Live
                  /\ monitor.pc = "release" => Shut(i)
    /\ i \in monitor.todo => monitor.copies[i].status \in Live
GoneInv == Lossless => \A i \in Ids : GoneAt(i)

\* A candidate that is not in hand: the step is about another.
LEMMA GoneAway ==
    ASSUME Inv, InHand, NEW i \in Ids, i # monitor.id, GoneAt(i), ~Owed(i), ~Owed(i)',
           said'[i] = said[i], signals'[i] = signals[i], table'[i] = table[i], UNCHANGED cache,
           NextCandidate \/ \E pc, c : Hand(pc, c)
    PROVE  GoneAt(i)'
<1>1. /\ monitor'.todo = monitor.todo
      /\ (i \in monitor.todo => monitor'.copies[i] = monitor.copies[i])
      /\ ~Hold(i) /\ ~Hold(i)'
  <2>1. CASE NextCandidate  BY <2>1, NextFields DEF Hold, InHand
  <2>2. CASE \E pc, c : Hand(pc, c)  BY <2>2, HandFields DEF Hold
  <2> QED BY <2>1, <2>2
<1> QED BY <1>1 DEF GoneAt, Seen, Over, Shut

\* The candidate in hand stays there.
LEMMA GoneStay ==
    ASSUME Inv, AloneInv, InHand, NEW h \in Ids, h = monitor.id, GoneAt(h), NEW pc, NEW c, Hand(pc, c),
           said'[h].posts <= 1,
           Seen(h)' => Over(h)' \/ pc \in {"receipt", "mark"},
           Over(h)' => pc = "final" /\ c.status \notin Live,
           pc = "release" => Shut(h)',
           pc \notin {"idle", "pick"}
    PROVE  GoneAt(h)'
<1>1. /\ monitor'.pc = pc /\ monitor'.c = c /\ monitor'.id = h /\ monitor'.todo = monitor.todo
      /\ monitor'.was = monitor.was
  BY HandFields
<1>2. h \notin monitor.todo  BY DEF AloneInv
<1>3. Hold(h) /\ Hold(h)'  BY <1>1 DEF Hold, InHand
<1> QED BY <1>1, <1>2, <1>3 DEF GoneAt

\* The candidate in hand is left.
LEMMA GoneLeave ==
    ASSUME Inv, AloneInv, InHand, NEW h \in Ids, h = monitor.id, NextCandidate, said'[h].posts <= 1,
           Seen(h)' => Over(h)', Over(h)' => Shut(h)'
    PROVE  GoneAt(h)'
<1>1. h \notin monitor'.todo /\ ~Hold(h)'  BY NextFields DEF AloneInv, Hold, InHand
<1> QED BY <1>1 DEF GoneAt

LEMMA GoneBegin == ASSUME Inv, BeginPass, NEW i \in Ids, GoneAt(i) PROVE GoneAt(i)'
<1>1. ~InHand /\ ~Owed(i) /\ ~InHand' /\ UNCHANGED said /\ UNCHANGED signals
  BY BeginFields, SettledOwesNone DEF InHand, BeginPass, At
<1>2. ~Hold(i) /\ ~Hold(i)'  BY <1>1 DEF Hold
<1>3. Absent.status \notin Live  BY DEF Absent, Live
<1>4. /\ UNCHANGED <<table, pending>>
      /\ \/ cache'.rows[i] = cache.rows[i] /\ cache.loaded
         \/ cache'.rows[i] = table[i].c /\ table[i].status \in Live
         \/ cache'.rows[i] = Absent
      /\ i \in monitor'.todo => /\ monitor'.copies[i] = cache'.rows[i]
                                /\ cache'.rows[i].status \in Live
  BY BeginFields
<1>5. Over(i) => cache'.rows[i].status \notin Live  BY <1>1, <1>2, <1>3, <1>4 DEF GoneAt, Shut
<1> QED BY <1>1, <1>2, <1>4, <1>5 DEF GoneAt, Shut, Seen, Over, Owed

LEMMA GonePick == ASSUME Inv, NEW h \in Ids, Pick(h), NEW i \in Ids, GoneAt(i) PROVE GoneAt(i)'
<1>1. /\ monitor'.pc = "judge" /\ monitor'.id = h /\ monitor'.todo = monitor.todo \ {h}
      /\ monitor'.was = monitor.copies[h]
      /\ i # h => monitor'.copies[i] = monitor.copies[i]
  BY PickFields
<1>2. /\ monitor.pc = "pick" /\ h \in monitor.todo
      /\ UNCHANGED <<table, cache, pending, said, signals>>
  BY DEF Pick, At, storeVars
<1>3. ~Hold(i) /\ (Hold(i)' <=> i = h)  BY <1>1, <1>2 DEF Hold, InHand
<1> QED BY <1>1, <1>2, <1>3 DEF GoneAt, Shut, Seen, Over, Owed

LEMMA GoneCache ==
    ASSUME Inv, CacheCandidate("monitor"), UNCHANGED <<monitor, said, signals>>,
           NEW i \in Ids, GoneAt(i)
    PROVE  GoneAt(i)'
<1>1. /\ pending'["monitor"] = NoWrite /\ UNCHANGED table /\ cache'.loaded = cache.loaded
      /\ IF Owed(i) THEN cache.loaded => cache'.rows[i] \in {pending["monitor"].c, Absent}
                    ELSE cache'.rows[i] = cache.rows[i]
  BY CacheFields DEF Owed
<1>2. Absent.status \notin Live  BY DEF Absent, Live
<1>3. ~Owed(i)'  BY <1>1, StoreAssumption DEF Owed, NoWrite
<1>4. Hold(i)' <=> Hold(i)  BY DEF Hold, InHand
<1>5. Shut(i) => Shut(i)'  BY <1>1, <1>2, <1>3 DEF Shut
<1> QED BY <1>4, <1>5 DEF GoneAt, Seen, Over

\* A write of the candidate in hand that is not live shuts its row.
LEMMA Shuts ==
    ASSUME Inv, NEW h \in Ids, NEW c, c.status \notin Live, Update("monitor", h, c)
    PROVE  Shut(h)'
<1>1. table'[h] = IF table[h].status = "NONE" THEN table[h] ELSE [status |-> c.status, c |-> c]
  BY DEF Update, Inv, StoreInv, StoreTypeOK
<1>2. table'[h].status \notin Live  BY <1>1 DEF Live
<1>3. pending'["monitor"].id = h /\ pending'["monitor"].c = c  BY WriteFields
<1> QED BY <1>2, <1>3 DEF Shut, Owed

\* What the step does elsewhere.
LEMMA GoneElsewhere ==
    ASSUME Inv, Monitor, InHand, Settled("monitor"), Lossless, Lossless'
    PROVE  /\ ~DbFault
           /\ NextCandidate \/ \E pc, c : Hand(pc, c)
           /\ \A i \in Ids \ {monitor.id} :
                 /\ said'[i] = said[i] /\ signals'[i] = signals[i] /\ table'[i] = table[i]
                 /\ ~Owed(i) /\ ~Owed(i)'
           /\ UNCHANGED cache
<1>1. ~DbFault
  <2> SUFFICES ASSUME DbFault PROVE FALSE  OBVIOUS
  <2>1. faults' = [faults EXCEPT !.db = @ + 1] /\ faults.db \in Nat  BY DEF DbFault, Inv, PublicInv
  <2>2. faults'.db = faults.db + 1  BY <2>1 DEF Inv, PublicInv
  <2> QED BY <2>1, <2>2 DEF Lossless
<1>2. PICK h \in Ids : h = monitor.id  BY InHandFacts DEF Inv
<1>3. ~BeginPass /\ (\A j \in Ids : ~Pick(j)) /\ ~CacheCandidate("monitor") /\ ~PassFault
  BY <1>1 DEF BeginPass, Pick, At, InHand, CacheCandidate, PassFault
<1>4. NextCandidate \/ \E pc, c : Hand(pc, c)
  BY <1>3 DEF Monitor, SkipUnpriced, Expire, Invalidate, LosePremise, CloseChain,
              Heal, Release, Reject, Confirm, Veto, DropTwin, DisarmStale, Stage, RefuseStage,
              Gate, FollowUp, Send, SendRefused, SendText, SendFails, KeepReceipt, Mark, Final
<1>5. UNCHANGED storeVars \/ \E c : Update("monitor", monitor.id, c)
  BY <1>3 DEF Monitor, SkipUnpriced, Expire, Invalidate, LosePremise, CloseChain,
              Heal, Release, Reject, Confirm, Veto, DropTwin, DisarmStale, Stage, RefuseStage,
              Gate, FollowUp, Send, SendRefused, SendText, SendFails, KeepReceipt, Mark, Final
<1>6. \/ UNCHANGED said
      \/ \E c : said' = Posted(monitor.id, c)
      \/ said' = [said EXCEPT ![monitor.id].lost = TRUE]
      \/ \E c : said' = [Posted(monitor.id, c) EXCEPT ![monitor.id].text = TRUE]
  BY <1>3 DEF Monitor, SkipUnpriced, Expire, Invalidate, LosePremise, CloseChain,
              Heal, Release, Reject, Confirm, Veto, DropTwin, DisarmStale, Stage, RefuseStage,
              Gate, FollowUp, Send, SendRefused, SendText, SendFails, KeepReceipt, Mark, Final
<1>7. \/ UNCHANGED signals
      \/ signals' = [signals EXCEPT ![monitor.id].state = "RELEASED"]
      \/ \E r : signals' = [signals EXCEPT ![monitor.id] = r]
      \/ signals' = [signals EXCEPT ![monitor.id].state = "CONFIRMED"]
  BY <1>3 DEF Monitor, SkipUnpriced, Expire, Invalidate, LosePremise, CloseChain,
              Heal, Release, Released, Reject, Confirm, Veto, DropTwin, DisarmStale, Stage,
              RefuseStage, Gate, FollowUp, Send, SendRefused, SendText, SendFails, KeepReceipt, Mark,
              Final
<1>8. ASSUME NEW i \in Ids \ {monitor.id}
      PROVE  said'[i] = said[i] /\ signals'[i] = signals[i] /\ table'[i] = table[i]
             /\ ~Owed(i) /\ ~Owed(i)' /\ UNCHANGED cache
  <2>1. said'[i] = said[i]  BY <1>6 DEF Posted, Inv, PublicInv
  <2>2. signals'[i] = signals[i]  BY <1>7 DEF Inv, PublicInv
  <2>3. ~Owed(i)  BY SettledOwesNone
  <2>4. table'[i] = table[i] /\ ~Owed(i)' /\ UNCHANGED cache
    <3>1. CASE UNCHANGED storeVars  BY <2>3, <3>1 DEF storeVars, Owed
    <3>2. CASE \E c : Update("monitor", monitor.id, c)  BY <1>2, <3>2, WriteFields DEF Owed
    <3> QED BY <1>5, <3>1, <3>2
  <2> QED BY <2>1, <2>2, <2>3, <2>4
<1>9. UNCHANGED cache  BY <1>2, <1>5, WriteFields DEF storeVars
<1> QED BY <1>1, <1>4, <1>8, <1>9

LEMMA GoneHandled ==
    ASSUME Inv, AloneInv, GoneInv, Lossless, Lossless', Monitor, InHand, Settled("monitor"),
           NEW i \in Ids
    PROVE  GoneAt(i)'
<1>0. /\ \A j \in Ids : GoneAt(j)
      /\ ~DbFault
  BY GoneElsewhere DEF GoneInv
<1>1. PICK h \in Ids : h = monitor.id /\ monitor.c \in Candidate /\ monitor.was \in Candidate
  BY InHandFacts DEF Inv
<1>2. CASE i # h
  BY <1>0, <1>1, <1>2, GoneElsewhere, GoneAway
<1>3. ASSUME i = h PROVE GoneAt(h)'
  <2>0. said \in [Ids -> [posts : Nat, text : BOOLEAN, plan : 0..MaxPlan, lost : BOOLEAN]]
        /\ signals \in [Ids -> [state : SignalState, plan : 0..MaxPlan]]
    BY DEF Inv, PublicInv
  <2>1. /\ GoneAt(h) /\ Hold(h) /\ said[h].posts <= 1
        /\ Seen(h) => Over(h) \/ monitor.pc \in {"receipt", "mark"}
        /\ Over(h) => monitor.pc = "final" /\ monitor.c.status \notin Live
        /\ monitor.was.status \in Live
    BY <1>0, <1>1 DEF GoneAt, Hold
  <2>2. monitor.pc \notin {"receipt", "mark", "final"} => ~Seen(h) /\ ~Over(h)  BY <2>1
  <2>3. "CANCELLED" \notin Live /\ "EXPIRED" \notin Live /\ "CONFIRMED" \notin Live  BY DEF Live
  \* before anything is posted
  <2>4. ASSUME NEW pc, NEW c, Hand(pc, c), pc \in {"judge", "stage", "gate", "send", "final"},
               UNCHANGED said, UNCHANGED signals, monitor.pc \notin {"receipt", "mark", "final"}
        PROVE  GoneAt(h)'
    <3>1. ~Seen(h)' /\ ~Over(h)' /\ said'[h].posts <= 1  BY <2>1, <2>2, <2>4 DEF Seen, Over
    <3> QED BY <1>1, <2>1, <2>4, <3>1, GoneStay
  <2>5. ASSUME NextCandidate, UNCHANGED said, UNCHANGED signals,
               monitor.pc \notin {"receipt", "mark", "final"}
        PROVE  GoneAt(h)'
    <3>1. ~Seen(h)' /\ ~Over(h)' /\ said'[h].posts <= 1  BY <2>1, <2>2, <2>5 DEF Seen, Over
    <3> QED BY <1>1, <2>1, <2>5, <3>1, GoneLeave
  <2>6. CASE Heal \/ Reject \/ Confirm \/ Veto \/ RefuseStage \/ SendFails
    <3>1. /\ \E pc \in {"judge", "stage", "final"} : \E c : Hand(pc, c)
          /\ UNCHANGED said /\ UNCHANGED signals /\ monitor.pc \in {"judge", "stage", "send"}
      BY <2>6 DEF Heal, Reject, Confirm, Veto, RefuseStage, SendFails, At
    <3> QED BY <2>4, <3>1
  <2>7. CASE Gate
    <3>1. ~Published(monitor.id)  BY <1>1, <2>2, <2>7 DEF Gate, At, Over, Published
    <3> QED BY <2>4, <2>7, <3>1 DEF Gate, At
  <2>8. CASE SkipUnpriced \/ DropTwin \/ DisarmStale
    BY <2>5, <2>8 DEF SkipUnpriced, DropTwin, DisarmStale, At
  <2>9. CASE Expire \/ Invalidate \/ LosePremise
    <3>1. PICK s \in {"EXPIRED", "CANCELLED"} : CloseChain(s) /\ monitor.pc = "judge"
      BY <2>9 DEF Expire, Invalidate, LosePremise, At
    <3>2. PICK c : c = [monitor.c EXCEPT !.status = s]  OBVIOUS
    <3>3. c.status \notin Live  BY <1>1, <2>3, <3>1, <3>2 DEF Candidate
    <3>4. /\ Update("monitor", h, c) /\ Hand("release", c)
          /\ UNCHANGED said /\ UNCHANGED signals
      BY <1>1, <3>1, <3>2 DEF CloseChain
    <3>5. Shut(h)'  BY <3>3, <3>4, Shuts
    <3>6. ~Seen(h)' /\ ~Over(h)' /\ said'[h].posts <= 1  BY <2>1, <2>2, <3>1, <3>4 DEF Seen, Over
    <3> QED BY <1>1, <2>1, <3>4, <3>5, <3>6, GoneStay
  <2>10. CASE Release
    <3>1. /\ monitor.pc = "release" /\ NextCandidate
          /\ UNCHANGED <<table, cache, pending>> /\ UNCHANGED said
      BY <2>10 DEF Release, At, storeVars
    <3>2. Shut(h)  BY <2>1, <3>1 DEF GoneAt
    <3>3. Shut(h)'  BY <3>1, <3>2 DEF Shut, Owed
    <3>4. ~Seen(h)' /\ said'[h].posts <= 1  BY <2>1, <2>2, <3>1 DEF Seen
    <3> QED BY <1>1, <3>1, <3>3, <3>4, GoneLeave
  <2>11. CASE Stage
    <3>1. /\ monitor.pc = "stage" /\ UNCHANGED said /\ \E c : Hand("gate", c)
          /\ \/ UNCHANGED signals
             \/ \E p : signals' = [signals EXCEPT ![h] = [state |-> "AWAITING", plan |-> p]]
      BY <1>1, <2>11 DEF Stage, At
    <3>2. ~Over(h)'  BY <2>0, <2>2, <3>1 DEF Over
    <3>3. ~Seen(h)' /\ said'[h].posts <= 1  BY <2>1, <2>2, <3>1 DEF Seen
    <3> QED BY <1>1, <2>1, <3>1, <3>2, <3>3, GoneStay
  <2>12. CASE Send \/ SendRefused \/ SendText
    <3>1. /\ monitor.pc = "send" /\ UNCHANGED signals /\ \E c : Hand("receipt", c)
          /\ \/ UNCHANGED said
             \/ \E c : said' = Posted(h, c)
             \/ said' = [said EXCEPT ![h].lost = TRUE]
             \/ said' = [Posted(h, monitor.c) EXCEPT ![h].text = TRUE]
      BY <1>1, <2>12 DEF Send, SendRefused, SendText, At
    <3>2. said[h].posts = 0 /\ ~Over(h)'  BY <2>0, <2>2, <3>1 DEF Seen, Over
    <3>3. said'[h].posts <= 1
      <4>1. CASE UNCHANGED said  BY <3>2, <4>1
      <4>2. ASSUME NEW c, said' = Posted(h, c) PROVE said'[h].posts <= 1
        BY <2>0, <3>2, <4>2 DEF Posted
      <4>3. CASE said' = [said EXCEPT ![h].lost = TRUE]  BY <2>0, <3>2, <4>3
      <4>4. CASE said' = [Posted(h, monitor.c) EXCEPT ![h].text = TRUE]
        <5>1. PICK s : s = Posted(h, monitor.c)  OBVIOUS
        <5>2. /\ s \in [Ids -> [posts : Nat, text : BOOLEAN, plan : 0..MaxPlan, lost : BOOLEAN]]
              /\ s[h].posts = said[h].posts + 1
          BY <1>1, <5>1, PostedTyped DEF Inv
        <5> QED BY <3>2, <4>4, <5>1, <5>2
      <4> QED BY <3>1, <4>1, <4>2, <4>3, <4>4
    <3> QED BY <1>1, <2>1, <3>1, <3>2, <3>3, GoneStay
  <2>13. CASE KeepReceipt
    <3>1. /\ monitor.pc = "receipt" /\ UNCHANGED said /\ UNCHANGED signals
          /\ Hand("mark", monitor.c)
      BY <2>13 DEF KeepReceipt, At
    <3>2. ~Over(h)' /\ said'[h].posts <= 1  BY <2>1, <3>1 DEF Over
    <3> QED BY <1>1, <2>1, <3>1, <3>2, GoneStay
  <2>14. CASE Mark
    <3>1. monitor.pc = "mark" /\ UNCHANGED said  BY <2>14 DEF Mark, At
    <3>2. signals[h].state = "AWAITING"
      BY <1>1, <2>1, <3>1 DEF Over, Inv, MonitorInv
    <3>3. PICK c : c = [monitor.c EXCEPT !.status = "CONFIRMED"]  OBVIOUS
    <3>4. c.status \notin Live  BY <1>1, <2>3, <3>3 DEF Candidate
    <3>5. /\ signals' = [signals EXCEPT ![h].state = "CONFIRMED"]
          /\ Hand("final", c)
      BY <1>0, <1>1, <2>14, <3>2, <3>3 DEF Mark
    <3>6. Over(h)' /\ said'[h].posts <= 1  BY <2>0, <2>1, <3>1, <3>5 DEF Over
    <3> QED BY <1>1, <2>1, <3>4, <3>5, <3>6, GoneStay
  <2>15. CASE Final
    <3>1. /\ monitor.pc = "final" /\ NextCandidate /\ UNCHANGED said /\ UNCHANGED signals
      BY <2>15 DEF Final, At
    <3>2. (Seen(h)' => Over(h)') /\ said'[h].posts <= 1 /\ (Over(h)' => Over(h))
      BY <2>1, <3>1 DEF Seen, Over
    <3>3. Over(h) => Shut(h)'
      <4> SUFFICES ASSUME Over(h) PROVE Shut(h)'  OBVIOUS
      <4>1. monitor.c # monitor.was /\ monitor.c.status \notin Live  BY <2>1
      <4>2. Update("monitor", h, monitor.c)  BY <1>1, <2>15, <4>1 DEF Final
      <4> QED BY <4>1, <4>2, Shuts
    <3> QED BY <1>1, <3>1, <3>2, <3>3, GoneLeave
  <2>16. ~FollowUp /\ ~PassFault
    BY <1>0, <1>1, <2>2 DEF FollowUp, At, Over, Published, PassFault
  <2>17. ~BeginPass /\ (\A j \in Ids : ~Pick(j)) /\ ~CacheCandidate("monitor")
    BY DEF BeginPass, Pick, At, InHand, CacheCandidate
  <2> QED BY <2>6, <2>7, <2>8, <2>9, <2>10, <2>11, <2>12, <2>13, <2>14, <2>15, <2>16, <2>17
          DEF Monitor
<1> QED BY <1>2, <1>3

LEMMA GoneNext == ASSUME PassAlone, Inv, AloneInv, GoneInv, [Next]_vars PROVE GoneInv'
<1> SUFFICES ASSUME Lossless', NEW i \in Ids PROVE GoneAt(i)'
  BY DEF GoneInv
<1>0. faults \in [send : Nat, chart : Nat, db : Nat, crash : Nat, refresh : Nat]  BY DEF Inv, PublicInv
<1>1. Lossless  BY <1>0, FaultsGrow DEF Lossless
<1>2. GoneAt(i)  BY <1>1 DEF GoneInv
<1>3. CASE UNCHANGED vars
  BY <1>2, <1>3 DEF vars, storeVars, GoneAt, Seen, Over, Shut, Hold, Owed, InHand
<1>4. CASE World
  <2>1. ASSUME NEW j \in Ids, TimeOut(j) PROVE GoneAt(i)'
    BY <1>2, <2>1 DEF TimeOut, rest, GoneAt, Seen, Over, Shut, Hold, Owed, InHand
  <2>2. ASSUME NEW j \in Ids, NEW s \in {"CLOSED", "UNFILLED"}, Close(j, s) PROVE GoneAt(i)'
    <3>1. Over(i)' <=> Over(i)  BY <2>2 DEF Close, Over, Inv, PublicInv
    <3> QED BY <1>2, <2>2, <3>1 DEF Close, storeVars, GoneAt, Seen, Shut, Hold, Owed, InHand
  <2>3. ~Crash
    <3> SUFFICES ASSUME Crash PROVE FALSE  OBVIOUS
    <3>1. faults'.crash = faults.crash + 1  BY <1>0 DEF Crash
    <3> QED BY <1>0, <1>1, <3>1 DEF Lossless
  <2> QED BY <1>4, <2>1, <2>2, <2>3 DEF World
<1>5. CASE Monitor
  <2>1. CASE BeginPass  BY <1>2, <2>1, GoneBegin
  <2>2. ASSUME NEW j \in Ids, Pick(j) PROVE GoneAt(i)'  BY <1>2, <2>2, GonePick
  <2>3. CASE CacheCandidate("monitor") /\ UNCHANGED <<monitor, world, signals, said, faults>>
    BY <1>2, <2>3, GoneCache
  <2>4. CASE InHand /\ Settled("monitor")  BY <1>1, <1>5, <2>4, GoneHandled
  <2>5. \/ BeginPass \/ (\E j \in Ids : Pick(j)) \/ (InHand /\ Settled("monitor"))
        \/ CacheCandidate("monitor") /\ UNCHANGED <<monitor, world, signals, said, faults>>
    BY <1>5, MonitorHands
  <2> QED BY <2>1, <2>2, <2>3, <2>4, <2>5
<1> QED BY <1>3, <1>4, <1>5, AloneSteps

LEMMA GoneInit == ASSUME WatchedInit(Ids) PROVE GoneInv
<1>1. said = [i \in Ids |-> [posts |-> 0, text |-> FALSE, plan |-> 0, lost |-> FALSE]]
      /\ signals = [i \in Ids |-> [state |-> "NONE", plan |-> 0]] /\ monitor = MonitorIdle
  BY DEF WatchedInit
<1>2. \A i \in Ids : ~Hold(i) /\ i \notin monitor.todo  BY <1>1 DEF MonitorIdle, Hold, InHand
<1>3. \A i \in Ids : said[i].posts = 0 /\ ~Over(i)  BY <1>1 DEF Over
<1> QED BY <1>2, <1>3 DEF GoneInv, GoneAt, Seen

\* The pass by itself, for any number of candidates and of plans, whatever posts
\* and charts fail, with or without an engine of the setup: two posts of one
\* confirmation need a restart or two failures of the database, the second while
\* the pass still holds the receipt the first kept from being written
\* (send_confirmed, then update_candidate); one failure is enough when a post was
\* a text without its chart (send_confirmed asks for confirmation_chart_sent).
THEOREM PostedOnce == ASSUME PassAlone PROVE WatchedSpec => []OneFaultOnePost
<1>1. WatchedInit(Ids) => OnceInv /\ GoneInv  BY OnceInit, GoneInit
<1>2. Inv /\ AloneInv /\ OnceInv /\ GoneInv /\ [Next]_vars => (OnceInv /\ GoneInv)'
  BY OnceNext, GoneNext
<1>3. Inv /\ OnceInv /\ GoneInv => OneFaultOnePost
  <2> SUFFICES ASSUME Inv, OnceInv, GoneInv PROVE OneFaultOnePost  OBVIOUS
  <2>1. /\ faults \in [send : Nat, chart : Nat, db : Nat, crash : Nat, refresh : Nat]
        /\ said \in [Ids -> [posts : Nat, text : BOOLEAN, plan : 0..MaxPlan, lost : BOOLEAN]]
    BY DEF Inv, PublicInv
  <2>2. ASSUME NEW i \in Ids, said[i].posts > 1, faults.crash = 0, faults.db <= 1,
               faults.db = 0 \/ ~said[i].text
        PROVE  FALSE
    <3>1. Calm  BY <2>1, <2>2 DEF Calm
    <3>2. said[i].posts <= 1 \/ said[i].text  BY <3>1 DEF OnceInv, OnceAt
    <3>3. faults.db = 0 => said[i].posts <= 1  BY <2>2 DEF GoneInv, GoneAt, Lossless
    <3> QED BY <2>1, <2>2, <3>2, <3>3
  <2> QED BY <2>1, <2>2 DEF OneFaultOnePost
<1> QED BY AloneHolds, <1>1, <1>2, <1>3, PTL DEF WatchedSpec, WatchedFrom

-----------------------------------------------------------------------------
(* The plan the channel saw is the plan that was staged. Once its signal is    *)
(* staged, every copy of a candidate carries the plan of the signal and the    *)
(* complete confirmation that keeps every later verdict from moving it; only   *)
(* the store may be behind, while the staged candidate is still in hand.       *)

Staged(i) == signals[i].state # "NONE"

\* A frozen plan is the plan of a complete confirmation.
Firm(c, i) == (c.staged => Staged(i)) /\ (c.frozen # 0 => c.complete /\ c.plan = c.frozen)
Same(c, i) == Staged(i) => c.complete /\ c.plan = signals[i].plan

\* Staged in this visit, and not written since.
Unsaved(i) == /\ Hold(i) /\ monitor.pc \in {"gate", "send", "receipt", "mark", "final"}
              /\ monitor.c.staged /\ ~monitor.was.staged

PlanAt(i) ==
    /\ Seen(i) => Staged(i) /\ said[i].plan = signals[i].plan
    /\ Firm(table[i].c, i) /\ Firm(cache.rows[i], i) /\ Firm(monitor.copies[i], i)
    /\ i \in monitor.todo => Same(monitor.copies[i], i)
    /\ Owed(i) => Firm(pending["monitor"].c, i) /\ Same(pending["monitor"].c, i)
    /\ Hold(i) => /\ Firm(monitor.c, i) /\ Same(monitor.c, i)
                  /\ monitor.was.staged => Staged(i)
                  /\ monitor.pc = "stage" => monitor.c.complete
                  /\ monitor.pc \in {"gate", "send", "receipt", "mark"} => monitor.c.staged
    /\ Same(table[i].c, i) \/ table[i].status = "NONE" \/ Unsaved(i)
    /\ cache.loaded =>
         Same(cache.rows[i], i) \/ cache.rows[i].status = "NONE" \/ Owed(i) \/ Unsaved(i)
PlanInv == Lossless => \A i \in Ids : PlanAt(i)

\* The signals keep whether they are staged, and with which plan.
PlansKept == \A i \in Ids : /\ Staged(i)' <=> Staged(i)
                            /\ Staged(i) => signals'[i].plan = signals[i].plan

LEMMA FirmKept ==
    ASSUME PlansKept
    PROVE  \A i \in Ids : \A c : (Firm(c, i) => Firm(c, i)') /\ (Same(c, i) => Same(c, i)')
BY DEF PlansKept, Firm, Same

LEMMA AbsentFirm == \A i : Firm(Absent, i)
BY DEF Firm, Absent

\* Two copies that differ in what the plan does not depend on.
Alike(d, c) == d.complete = c.complete /\ d.staged = c.staged /\ d.plan = c.plan /\ d.frozen = c.frozen

LEMMA AlikeFirm ==
    ASSUME NEW c, NEW d, Alike(d, c), NEW i
    PROVE  (Firm(c, i) => Firm(d, i)) /\ (Same(c, i) => Same(d, i))
BY DEF Alike, Firm, Same

LEMMA AlikeOperators ==
    ASSUME NEW c \in Candidate
    PROVE  /\ \A s : Alike([c EXCEPT !.status = s], c)
           /\ Alike(Unstaged(c), c) /\ Alike(NotSent(c), c) /\ Alike(Attempted(c), c)
           /\ \A r : Alike(Sent(c, r), c)
           /\ \A i : Firm(c, i) => Alike(Enforced(c), c) /\ Alike(Shown(c), c)
<1>1. \A s : Alike([c EXCEPT !.status = s], c)  BY DEF Alike, Candidate
<1>2. Alike(Unstaged(c), c) /\ Alike(NotSent(c), c) /\ Alike(Attempted(c), c)
  BY DEF Alike, Candidate, Unstaged, NotSent, Attempted
<1>3. \A r : Alike(Sent(c, r), c)  BY DEF Alike, Candidate, Sent
<1>4. ASSUME NEW i, Firm(c, i) PROVE Alike(Enforced(c), c) /\ Alike(Shown(c), c)
  <2>1. Alike(Enforced(c), c)  BY <1>4 DEF Alike, Candidate, Enforced, Firm
  <2> QED BY <2>1 DEF Shown, Alike
<1> QED BY <1>1, <1>2, <1>3, <1>4

-----------------------------------------------------------------------------

LEMMA PlanDrop ==
    ASSUME Inv, Settled("monitor"), NextCandidate, UNCHANGED <<table, cache, pending, said>>,
           PlansKept, NEW i \in Ids, PlanAt(i), ~Unsaved(i)
    PROVE  PlanAt(i)'
<1>1. ~Hold(i)' /\ ~Unsaved(i)'  BY NextFields DEF Hold, Unsaved, InHand
<1>2. /\ monitor'.todo = monitor.todo /\ monitor'.copies[i] \in {monitor.copies[i], Absent}
      /\ i \in monitor.todo => monitor'.copies[i] = monitor.copies[i]
  BY NextFields
<1>3. Firm(monitor'.copies[i], i)  BY <1>2, AbsentFirm DEF PlanAt
<1>4. PICK t, r, p, m : t = table[i].c /\ r = cache.rows[i] /\ p = pending["monitor"].c
                        /\ m = monitor'.copies[i]
  OBVIOUS
<1>5. /\ Firm(t, i)' /\ Firm(r, i)' /\ Firm(m, i)' /\ ~Owed(i) /\ ~Owed(i)'
      /\ Same(t, i) => Same(t, i)'
      /\ Same(r, i) => Same(r, i)'
      /\ Same(m, i) => Same(m, i)'
  BY <1>3, <1>4, FirmKept, SettledOwesNone DEF PlanAt, Owed
<1>6. Seen(i)' => Staged(i)' /\ said'[i].plan = signals'[i].plan
  BY DEF PlanAt, Seen, PlansKept
<1> QED BY <1>1, <1>2, <1>4, <1>5, <1>6 DEF PlanAt

LEMMA PlanWrite ==
    ASSUME Inv, AloneInv, Settled("monitor"), InHand, PlansKept,
           NEW c, Update("monitor", monitor.id, c), Firm(c, monitor.id), Same(c, monitor.id),
           \/ NextCandidate
           \/ \E pc \in {"judge", "release", "final"} : Hand(pc, c)
           \/ Hand("mark", c) /\ c.staged,
           UNCHANGED said, NEW i \in Ids, PlanAt(i)
    PROVE  PlanAt(i)'
<1>0. PICK h \in Ids : h = monitor.id  BY InHandFacts DEF Inv
<1>1. /\ table'[i] = table[i] \/ i = h
      /\ (i = h => table'[i].c = c \/ table'[i].status = "NONE")
      /\ \A j \in Ids : table'[j].c \in {table[j].c, c}
      /\ pending'["monitor"].id = h /\ pending'["monitor"].c = c /\ UNCHANGED cache
  <2>1. table \in [Ids -> [status : {"NONE", "CONFIRMED"} \cup Live \cup Resolved, c : Candidate]]
    BY DEF Inv, StoreInv, StoreTypeOK
  <2>2. \A j \in Ids : table'[j].c \in {table[j].c, c}  BY <1>0, <2>1 DEF Update
  <2> QED BY <1>0, <2>2, WriteFields
<1>2. h \notin monitor.todo /\ ~Owed(i)  BY <1>0, SettledOwesNone DEF AloneInv
<1>3. /\ monitor'.todo = monitor.todo /\ monitor'.copies[i] \in {monitor.copies[i], Absent}
      /\ (i \in monitor.todo => monitor'.copies[i] = monitor.copies[i])
      /\ Hold(i)' => /\ i = h /\ monitor'.c = c /\ monitor'.was = monitor.was
                     /\ monitor'.pc \in {"judge", "release", "final"} \/ (monitor'.pc = "mark" /\ c.staged)
  <2>1. CASE NextCandidate  BY <2>1, NextFields DEF Hold, InHand
  <2>2. CASE \E pc \in {"judge", "release", "final"} : Hand(pc, c)
    BY <1>0, <2>2, HandFields DEF Hold, InHand
  <2>3. CASE Hand("mark", c) /\ c.staged  BY <1>0, <2>3, HandFields DEF Hold, InHand
  <2> QED BY <2>1, <2>2, <2>3
<1>4. PICK t, r, m : t = table[i].c /\ r = cache.rows[i] /\ m = monitor'.copies[i]  OBVIOUS
<1>5. Firm(c, h)' /\ Same(c, h)'  BY <1>0, FirmKept DEF PlansKept, Firm, Same
<1>6. /\ Firm(t, i)' /\ Firm(r, i)' /\ Firm(m, i)'
      /\ Same(t, i) => Same(t, i)'
      /\ Same(r, i) => Same(r, i)'
      /\ Same(m, i) => Same(m, i)'
  <2>1. Firm(t, i) /\ Firm(r, i) /\ Firm(m, i)  BY <1>3, <1>4, AbsentFirm DEF PlanAt
  <2> QED BY <2>1, FirmKept
<1>7. Seen(i)' => Staged(i)' /\ said'[i].plan = signals'[i].plan
  BY DEF PlanAt, Seen, PlansKept
<1>8. i # h => ~Unsaved(i)  BY <1>0 DEF Unsaved, Hold
<1>9. Hold(i)' /\ monitor.was.staged => Staged(i)'
  BY <1>0, <1>3 DEF PlanAt, PlansKept, Hold
<1>10. CASE i = h
  <2>1. Owed(i)' /\ pending'["monitor"].c = c  BY <1>1, <1>10 DEF Owed
  <2>2. Firm(table[i].c, i)' /\ (Same(table[i].c, i)' \/ table'[i].status = "NONE")
    BY <1>1, <1>4, <1>5, <1>6, <1>10 DEF Firm, Same
  <2> QED BY <1>1, <1>2, <1>3, <1>4, <1>5, <1>6, <1>7, <1>9, <1>10, <2>1, <2>2 DEF PlanAt
<1>11. CASE i # h
  <2>1. ~Owed(i)' /\ ~Hold(i)' /\ table'[i] = table[i]  BY <1>1, <1>3, <1>11 DEF Owed
  <2> QED BY <1>1, <1>2, <1>3, <1>4, <1>6, <1>7, <1>8, <1>11, <2>1 DEF PlanAt
<1> QED BY <1>10, <1>11

LEMMA PlanHand ==
    ASSUME Inv, AloneInv, Settled("monitor"), InHand, NEW pc, NEW c, Hand(pc, c),
           UNCHANGED <<table, cache, pending>>, NEW i \in Ids, PlanAt(i),
           i # monitor.id => UNCHANGED <<said[i], signals[i]>>,
           i = monitor.id =>
               /\ Firm(c, i)' /\ Same(c, i)' /\ (Staged(i) => Staged(i)')
               /\ pc = "stage" => c.complete
               /\ pc \in {"gate", "send", "receipt", "mark"} => c.staged
               /\ Unsaved(i)' \/ (~Unsaved(i) /\ (Staged(i)' => Staged(i)
                                                  /\ signals'[i].plan = signals[i].plan))
               /\ Seen(i)' => Staged(i)' /\ said'[i].plan = signals'[i].plan
    PROVE  PlanAt(i)'
<1>0. PICK h \in Ids : h = monitor.id  BY InHandFacts DEF Inv
<1>1. /\ monitor'.c = c /\ monitor'.id = h /\ monitor'.todo = monitor.todo /\ monitor'.pc = pc
      /\ monitor'.copies = monitor.copies /\ monitor'.was = monitor.was
  BY <1>0, HandFields
<1>2. h \notin monitor.todo /\ ~Owed(i) /\ ~Owed(i)'
  BY <1>0, SettledOwesNone DEF AloneInv, Owed
<1>3. CASE i = h
  <2>1. Hold(i)  BY <1>0, <1>3 DEF Hold
  <2>2. /\ Firm(table[i].c, i)' /\ Firm(cache.rows[i], i)' /\ Firm(monitor.copies[i], i)'
    BY <1>0, <1>1, <1>3 DEF PlanAt, Firm
  <2>3. ~Unsaved(i)' => /\ Same(table[i].c, i) => Same(table[i].c, i)'
                        /\ Same(cache.rows[i], i) => Same(cache.rows[i], i)'
    BY <1>0, <1>3 DEF Same
  <2>4. /\ Firm(monitor.c, i)' /\ Same(monitor.c, i)'
        /\ monitor'.was.staged => Staged(i)'
    BY <1>0, <1>1, <1>3, <2>1 DEF PlanAt, Firm, Same
  <2> QED BY <1>0, <1>1, <1>2, <1>3, <2>2, <2>3, <2>4 DEF PlanAt
<1>4. CASE i # h
  <2>1. ~Unsaved(i) /\ ~Hold(i)'  BY <1>0, <1>1, <1>4 DEF Unsaved, Hold
  <2>2. said'[i] = said[i] /\ signals'[i] = signals[i]  BY <1>0, <1>4
  <2> QED BY <1>0, <1>1, <1>2, <1>4, <2>1, <2>2 DEF PlanAt, Seen, Staged, Firm, Same
<1> QED BY <1>3, <1>4

LEMMA PlanBegin ==
    ASSUME Inv, BeginPass, PlansKept, NEW i \in Ids, PlanAt(i)
    PROVE  PlanAt(i)'
<1>1. ~InHand /\ ~Owed(i) /\ ~InHand' /\ UNCHANGED said
  BY BeginFields, SettledOwesNone DEF InHand, BeginPass, At
<1>2. ~Unsaved(i) /\ ~Hold(i)' /\ ~Unsaved(i)'  BY <1>1 DEF Hold, Unsaved
<1>3. Absent.status = "NONE"  BY DEF Absent
<1>4. /\ UNCHANGED <<table, pending>>
      /\ \/ cache'.rows[i] = cache.rows[i] /\ cache.loaded
         \/ cache'.rows[i] = table[i].c /\ table[i].status # "NONE"
         \/ cache'.rows[i] = Absent
      /\ monitor'.copies[i] \in {cache'.rows[i], Absent}
      /\ i \in monitor'.todo => /\ monitor'.copies[i] = cache'.rows[i]
                                /\ cache'.rows[i].status # "NONE"
  BY BeginFields
<1>5. PICK t, r, m : t = table[i].c /\ r = cache'.rows[i] /\ m = monitor'.copies[i]  OBVIOUS
<1>6. Firm(t, i) /\ Firm(r, i) /\ Firm(m, i)  BY <1>4, <1>5, AbsentFirm DEF PlanAt
<1>7. (Same(t, i) \/ table[i].status = "NONE") /\ (Same(r, i) \/ r.status = "NONE")
  BY <1>1, <1>2, <1>3, <1>4, <1>5 DEF PlanAt
<1>8. /\ Firm(t, i)' /\ Firm(r, i)' /\ Firm(m, i)'
      /\ Same(t, i) => Same(t, i)'
      /\ Same(r, i) => Same(r, i)'
  BY <1>6, FirmKept
<1>9. ~Owed(i)'  BY <1>1, <1>4 DEF Owed
<1>10. Seen(i)' => Staged(i)' /\ said'[i].plan = signals'[i].plan
  BY <1>1 DEF PlanAt, Seen, PlansKept
<1> QED BY <1>1, <1>2, <1>4, <1>5, <1>7, <1>8, <1>9, <1>10 DEF PlanAt

LEMMA PlanPick ==
    ASSUME Inv, NEW h \in Ids, Pick(h), PlansKept, NEW i \in Ids, PlanAt(i), PlanAt(h)
    PROVE  PlanAt(i)'
<1>1. /\ monitor'.pc = "judge" /\ monitor'.id = h /\ monitor'.todo = monitor.todo \ {h}
      /\ monitor'.c = Enforced(monitor.copies[h]) /\ monitor'.was = monitor.copies[h]
      /\ monitor'.copies[i] = IF i = h THEN Absent ELSE monitor.copies[i]
  BY PickFields
<1>2. monitor.pc = "pick" /\ h \in monitor.todo /\ UNCHANGED <<table, cache, pending, said>>
  BY DEF Pick, At, storeVars
<1>3. PICK m \in Candidate : m = monitor.copies[h] /\ Firm(m, h) /\ Same(m, h)
  BY <1>2 DEF PlanAt, Inv, MonitorInv, MonitorType
<1>4. PICK c : c = Enforced(m) /\ Firm(c, h) /\ Same(c, h)
  BY <1>3, AlikeOperators, AlikeFirm
<1>5. ~Unsaved(i) /\ ~Unsaved(i)' /\ ~Hold(i)  BY <1>1, <1>2 DEF Unsaved, Hold, InHand
<1>6. Hold(i)' => i = h  BY <1>1 DEF Hold
<1>7. PICK t, r, p, n : t = table[i].c /\ r = cache.rows[i] /\ p = pending["monitor"].c
                        /\ n = monitor'.copies[i]
  OBVIOUS
<1>8. Firm(t, i) /\ Firm(r, i) /\ Firm(n, i)  BY <1>1, <1>7, AbsentFirm DEF PlanAt
<1>9. ~Owed(i) /\ ~Owed(i)'  BY <1>2, SettledOwesNone DEF Pick, At, Owed
<1>10. /\ Firm(t, i)' /\ Firm(r, i)' /\ Firm(n, i)' /\ Firm(c, h)' /\ Same(c, h)'
       /\ Same(t, i) => Same(t, i)'
       /\ Same(r, i) => Same(r, i)'
       /\ Same(n, i) => Same(n, i)'
  BY <1>4, <1>8, FirmKept
<1>11. Seen(i)' => Staged(i)' /\ said'[i].plan = signals'[i].plan
  BY <1>2 DEF PlanAt, Seen, PlansKept
<1>12. Hold(i)' => /\ monitor'.c = c /\ Firm(monitor.c, i)' /\ Same(monitor.c, i)'
                   /\ monitor'.was.staged => Staged(i)'
  <2>1. i = h => Firm(monitor.c, i)' /\ Same(monitor.c, i)'
    BY <1>1, <1>3, <1>4, <1>10 DEF Firm, Same
  <2> QED BY <1>1, <1>3, <1>4, <1>6, <2>1 DEF PlansKept, Firm
<1> QED BY <1>1, <1>2, <1>5, <1>7, <1>9, <1>10, <1>11, <1>12 DEF PlanAt

LEMMA PlanCache ==
    ASSUME Inv, CacheCandidate("monitor"), UNCHANGED <<monitor, said, signals>>,
           NEW i \in Ids, PlanAt(i)
    PROVE  PlanAt(i)'
<1>1. /\ pending'["monitor"] = NoWrite /\ UNCHANGED table /\ cache'.loaded = cache.loaded
      /\ IF Owed(i) THEN cache.loaded => cache'.rows[i] \in {pending["monitor"].c, Absent}
                    ELSE cache'.rows[i] = cache.rows[i]
      /\ ~cache.loaded => cache' = cache
  BY CacheFields DEF Owed
<1>2. Absent.status = "NONE"  BY DEF Absent
<1>3. ~Owed(i)'  BY <1>1, StoreAssumption DEF Owed, NoWrite
<1>4. /\ Hold(i)' <=> Hold(i)
      /\ Unsaved(i)' <=> Unsaved(i)
      /\ Seen(i)' <=> Seen(i)
      /\ Staged(i)' <=> Staged(i)
  BY DEF Hold, Unsaved, InHand, Seen, Staged
<1>5. cache'.rows[i] \in {cache.rows[i], pending["monitor"].c, Absent}  BY <1>1
<1>6. PICK r : r = cache'.rows[i] /\ Firm(r, i)
  <2>1. CASE Owed(i)  BY <1>5, <2>1, AbsentFirm DEF PlanAt
  <2>2. CASE ~Owed(i)  BY <1>1, <2>2 DEF PlanAt
  <2> QED BY <2>1, <2>2
<1>7. cache.loaded => Same(r, i) \/ r.status = "NONE" \/ Unsaved(i)
  BY <1>1, <1>2, <1>6 DEF PlanAt
<1>8. Firm(cache.rows[i], i)' /\ (cache'.loaded =>
         Same(cache.rows[i], i)' \/ cache'.rows[i].status = "NONE" \/ Unsaved(i)')
  BY <1>1, <1>4, <1>6, <1>7 DEF Firm, Same
<1>9. /\ Firm(table[i].c, i)' <=> Firm(table[i].c, i)
      /\ Same(table[i].c, i)' <=> Same(table[i].c, i)
      /\ Firm(monitor.copies[i], i)' <=> Firm(monitor.copies[i], i)
      /\ Same(monitor.copies[i], i)' <=> Same(monitor.copies[i], i)
      /\ Firm(monitor.c, i)' <=> Firm(monitor.c, i)
      /\ Same(monitor.c, i)' <=> Same(monitor.c, i)
  BY <1>1 DEF Firm, Same, Staged
<1> QED BY <1>1, <1>3, <1>4, <1>8, <1>9 DEF PlanAt

\* Only the staging of a signal gives it a plan.
LEMMA StatePlans ==
    ASSUME Inv, NEW h \in Ids, NEW s \in SignalState \ {"NONE"},
           \/ UNCHANGED signals
           \/ Staged(h) /\ signals' = [signals EXCEPT ![h].state = s]
    PROVE  PlansKept /\ \A j \in Ids \ {h} : signals'[j] = signals[j]
<1>0. signals \in [Ids -> [state : SignalState, plan : 0..MaxPlan]]  BY DEF Inv, PublicInv
<1>1. CASE UNCHANGED signals  BY <1>1 DEF PlansKept, Staged
<1>2. CASE Staged(h) /\ signals' = [signals EXCEPT ![h].state = s]
  <2>1. signals'[h].state = s /\ signals'[h].plan = signals[h].plan  BY <1>0, <1>2
  <2>2. \A j \in Ids \ {h} : signals'[j] = signals[j]  BY <1>0, <1>2
  <2> QED BY <1>2, <2>1, <2>2 DEF PlansKept, Staged
<1> QED BY <1>1, <1>2

\* A verdict moves a plan only while nothing is frozen and nothing is staged.
LEMMA VerdictPlans ==
    ASSUME ~ChartWatch, NEW c \in Candidate, NEW h, Firm(c, h), Same(c, h),
           NEW d \in Watched(c), NEW plan \in NewPlans(c), NEW e,
           \/ e = [d EXCEPT !.plan = plan] /\ ~c.complete
           \/ e = Confirmed(d, plan)
           \/ e = Frozen(Confirmed(d, plan))
    PROVE  Firm(e, h) /\ Same(e, h)
<1>1. d \in Candidate /\ d.complete = c.complete /\ d.staged = c.staged /\ d.frozen = c.frozen
      /\ (c.complete => d = c)
  BY Operators DEF Watched, Warned, Candidate, Like
<1>2. c.complete => plan = c.plan  BY DEF NewPlans
<1>3. c.frozen # 0 => c.complete /\ c.plan = c.frozen  BY DEF Firm
<1>4. CASE e = [d EXCEPT !.plan = plan] /\ ~c.complete
  <2>1. e.staged = c.staged /\ e.frozen = c.frozen  BY <1>1, <1>4 DEF Candidate
  <2> QED BY <1>3, <1>4, <2>1 DEF Firm, Same
<1>5. PICK f : f = Confirmed(d, plan)  OBVIOUS
<1>6. f.complete /\ f.plan = plan /\ f.staged = c.staged /\ f.frozen = c.frozen
  BY <1>1, <1>5 DEF Confirmed, Candidate
<1>7. Firm(f, h) /\ Same(f, h)  BY <1>2, <1>3, <1>6 DEF Firm, Same
<1>8. CASE e = Frozen(f)
  <2>1. Confirmed(d, plan) \in Candidate  BY Operators DEF Like
  <2>2. e.complete /\ e.plan = plan /\ e.staged = c.staged
        /\ e.frozen = IF f.frozen = 0 THEN plan ELSE f.frozen
    BY <1>5, <1>6, <1>8, <2>1 DEF Frozen, Candidate
  <2> QED BY <1>2, <1>3, <1>6, <2>2 DEF Firm, Same
<1> QED BY <1>4, <1>5, <1>6, <1>7, <1>8

LEMMA PlanHandled ==
    ASSUME ~ChartWatch, ~Stale, Inv, AloneInv, PlanInv, Lossless, Lossless', Monitor, InHand,
           Settled("monitor"), NEW i \in Ids
    PROVE  PlanAt(i)'
<1>0. \A j \in Ids : PlanAt(j)  BY DEF PlanInv
<1>1. PICK h \in Ids : h = monitor.id /\ monitor.c \in Candidate /\ Hold(h)
  BY InHandFacts DEF Inv, Hold
<1>2. /\ Firm(monitor.c, h) /\ Same(monitor.c, h)
      /\ monitor.was.staged => Staged(h)
      /\ monitor.pc = "stage" => monitor.c.complete
      /\ monitor.pc \in {"gate", "send", "receipt", "mark"} => monitor.c.staged
  BY <1>0, <1>1 DEF PlanAt
<1>3. ~DbFault
  <2> SUFFICES ASSUME DbFault PROVE FALSE  OBVIOUS
  <2>1. faults'.db = faults.db + 1  BY DEF DbFault, Inv, PublicInv
  <2> QED BY <2>1 DEF Lossless
\* nothing is written
<1>4. ASSUME NEW c, NEW pc, Hand(pc, c), UNCHANGED storeVars, UNCHANGED said, PlansKept,
             \A j \in Ids \ {h} : signals'[j] = signals[j], Firm(c, h), Same(c, h),
             pc = "stage" => c.complete,
             pc \in {"gate", "send", "receipt", "mark"} => c.staged,
             ~Unsaved(h) \/ (pc \in {"gate", "send", "receipt", "mark", "final"} /\ c.staged)
      PROVE  PlanAt(i)'
  <2>1. Firm(c, h)' /\ Same(c, h)'  BY <1>4 DEF PlansKept, Firm, Same
  <2>2. Seen(h)' => Staged(h)' /\ said'[h].plan = signals'[h].plan
    BY <1>0, <1>4 DEF PlanAt, Seen, PlansKept
  <2>3. Unsaved(h) => Unsaved(h)'
    <3>1. monitor'.pc = pc /\ monitor'.c = c /\ monitor'.id = h /\ monitor'.was = monitor.was
      BY <1>1, <1>4, HandFields
    <3> QED BY <1>4, <3>1 DEF Unsaved, Hold, InHand
  <2>4. UNCHANGED <<table, cache, pending>>  BY <1>4 DEF storeVars
  <2>5. (Staged(h)' <=> Staged(h)) /\ (Staged(h) => signals'[h].plan = signals[h].plan)
    BY <1>4 DEF PlansKept
  <2>6. i # h => UNCHANGED <<said[i], signals[i]>>  BY <1>4
  <2> QED BY <1>0, <1>1, <1>4, <2>1, <2>2, <2>3, <2>4, <2>5, <2>6, PlanHand
<1>5. ASSUME UNCHANGED signals PROVE PlansKept /\ \A j \in Ids \ {h} : signals'[j] = signals[j]
  BY <1>5 DEF PlansKept, Staged
<1>6. ASSUME NEW c, Update("monitor", h, c), Firm(c, h), Same(c, h),
             UNCHANGED said, UNCHANGED signals,
             \/ NextCandidate
             \/ \E pc \in {"judge", "release", "final"} : Hand(pc, c)
             \/ Hand("mark", c) /\ c.staged
      PROVE  PlanAt(i)'
  BY <1>0, <1>1, <1>5, <1>6, PlanWrite
<1>7. ASSUME NextCandidate, UNCHANGED storeVars, UNCHANGED said, PlansKept, ~Unsaved(h)
      PROVE  PlanAt(i)'
  <2>1. ~Unsaved(i)  BY <1>1, <1>7 DEF Unsaved, Hold
  <2> QED BY <1>0, <1>7, <2>1, PlanDrop DEF storeVars
<1>8. monitor.pc \notin {"gate", "send", "receipt", "mark", "final"} => ~Unsaved(h)  BY DEF Unsaved
<1>9. CASE SkipUnpriced
  BY <1>5, <1>7, <1>8, <1>9 DEF SkipUnpriced, At
<1>10. CASE Release
  <2>1. signals' = Released(h) /\ monitor.pc = "release" /\ NextCandidate
        /\ UNCHANGED storeVars /\ UNCHANGED said
    BY <1>1, <1>3, <1>10 DEF Release, At
  <2>2. UNCHANGED signals \/ (Staged(h) /\ signals' = [signals EXCEPT ![h].state = "RELEASED"])
    BY <2>1 DEF Released, Staged
  <2>3. "RELEASED" \in SignalState \ {"NONE"}  BY DEF SignalState
  <2> QED BY <1>7, <1>8, <2>1, <2>2, <2>3, StatePlans
<1>11. CASE Heal
  <2>1. PICK p : LET c == [monitor.c EXCEPT !.plan = p] IN
                 Update("monitor", monitor.id, c) /\ Hand("judge", c)
    BY <1>11 DEF Heal
  <2>2. PICK c : c = [monitor.c EXCEPT !.plan = p]  OBVIOUS
  <2>3. c.staged = monitor.c.staged /\ c.frozen = monitor.c.frozen /\ ~monitor.c.complete
    BY <1>1, <1>11, <2>2 DEF Candidate, Heal
  <2>4. Firm(c, h) /\ Same(c, h)  BY <1>2, <2>3 DEF Firm, Same
  <2> QED BY <1>1, <1>6, <1>11, <2>1, <2>2, <2>4 DEF Heal
<1>12. CASE Expire \/ Invalidate \/ LosePremise
  <2>1. PICK s : CloseChain(s)  BY <1>12 DEF Expire, Invalidate, LosePremise
  <2>2. PICK c : c = [monitor.c EXCEPT !.status = s]  OBVIOUS
  <2>3. Firm(c, h) /\ Same(c, h)  BY <1>1, <1>2, <2>2, AlikeOperators, AlikeFirm
  <2> QED BY <1>1, <1>6, <2>1, <2>2, <2>3 DEF CloseChain
<1>13. CASE DropTwin
  <2>1. PICK c : c = [monitor.c EXCEPT !.status = "CANCELLED"]  OBVIOUS
  <2>2. Firm(c, h) /\ Same(c, h)  BY <1>1, <1>2, <2>1, AlikeOperators, AlikeFirm
  <2> QED BY <1>1, <1>6, <1>13, <2>1, <2>2 DEF DropTwin
<1>14. CASE Reject \/ Confirm \/ Veto
  <2>0. PICK d \in Watched(monitor.c), plan \in NewPlans(monitor.c) :
          \E pc, c : Hand(pc, c) /\ \/ c = [d EXCEPT !.plan = plan] /\ ~monitor.c.complete
                                       /\ pc = "final"
                                    \/ c = Confirmed(d, plan) /\ pc = "final"
                                    \/ c = Frozen(Confirmed(d, plan)) /\ pc = "stage"
    BY <1>14 DEF Reject, Confirm, Veto
  <2>1. PICK pc, c : Hand(pc, c) /\ \/ c = [d EXCEPT !.plan = plan] /\ ~monitor.c.complete
                                       /\ pc = "final"
                                    \/ c = Confirmed(d, plan) /\ pc = "final"
                                    \/ c = Frozen(Confirmed(d, plan)) /\ pc = "stage"
    BY <2>0
  <2>2. Firm(c, h) /\ Same(c, h)  BY <1>1, <1>2, <2>1, VerdictPlans
  <2>3. pc = "stage" => c.complete
    <3>1. Confirmed(d, plan) \in Candidate  BY <1>1, Operators DEF Like
    <3>2. d \in Candidate  BY <1>1, Operators DEF Like
    <3>4. Confirmed(d, plan).complete  BY <3>2 DEF Confirmed, Candidate
    <3>3. Frozen(Confirmed(d, plan)).complete  BY <3>1, <3>4 DEF Frozen, Candidate
    <3> QED BY <2>1, <3>3
  <2> QED BY <1>4, <1>5, <1>8, <1>14, <2>1, <2>2, <2>3 DEF Reject, Confirm, Veto, At
<1>15. CASE Stage
  <2>1. PICK c : c = [monitor.c EXCEPT !.staged = TRUE]  OBVIOUS
  <2>2. c.staged /\ c.complete /\ c.plan = monitor.c.plan /\ c.frozen = monitor.c.frozen
    BY <1>1, <1>2, <1>15, <2>1 DEF Candidate, Stage, At
  <2>3. Hand("gate", c) /\ UNCHANGED storeVars /\ UNCHANGED said /\ monitor.pc = "stage"
    BY <1>15, <2>1 DEF Stage, At
  <2>4. CASE Staged(h)
    <3>1. UNCHANGED signals  BY <1>1, <1>15, <2>4 DEF Stage, Staged
    <3>2. Firm(c, h) /\ Same(c, h)  BY <1>2, <2>2, <2>4 DEF Firm, Same
    <3> QED BY <1>4, <1>5, <1>8, <2>2, <2>3, <3>1, <3>2
  <2>5. CASE ~Staged(h)
    <3>1. signals' = [signals EXCEPT ![h] = [state |-> "AWAITING", plan |-> monitor.c.plan]]
      BY <1>1, <1>15, <2>5 DEF Stage, Staged
    <3>2. /\ signals'[h].state = "AWAITING" /\ signals'[h].plan = c.plan
          /\ \A j \in Ids \ {h} : signals'[j] = signals[j]
      BY <2>2, <3>1 DEF Inv, PublicInv
    <3>3. Staged(h)' /\ Firm(c, h)' /\ Same(c, h)'
      BY <1>2, <2>2, <3>2 DEF Staged, Firm, Same
    <3>4. monitor'.pc = "gate" /\ monitor'.c = c /\ monitor'.id = h /\ monitor'.was = monitor.was
      BY <1>1, <2>3, HandFields
    <3>5. Unsaved(h)'  BY <1>2, <2>2, <2>5, <3>4 DEF Unsaved, Hold, InHand
    <3>6. ~Seen(h)'  BY <1>0, <2>3, <2>5 DEF PlanAt, Seen
    <3>7. UNCHANGED <<table, cache, pending>>  BY <2>3 DEF storeVars
    <3>8. i # h => UNCHANGED <<said[i], signals[i]>>  BY <2>3, <3>2
    <3> QED BY <1>0, <1>1, <2>2, <2>3, <3>3, <3>5, <3>6, <3>7, <3>8, PlanHand
  <2> QED BY <2>4, <2>5
<1>16. CASE RefuseStage
  <2>1. PICK c : c = Unstaged(monitor.c)  OBVIOUS
  <2>2. Firm(c, h) /\ Same(c, h)  BY <1>1, <1>2, <2>1, AlikeOperators, AlikeFirm
  <2> QED BY <1>4, <1>5, <1>8, <1>16, <2>1, <2>2 DEF RefuseStage, At
<1>17. ASSUME NEW s, NEW pc \in {"send", "final", "receipt", "mark"},
              monitor.pc \in {"gate", "send", "receipt", "mark"}, UNCHANGED storeVars,
              UNCHANGED said, PlansKept, \A j \in Ids \ {h} : signals'[j] = signals[j],
              NEW c, c \in {monitor.c, [monitor.c EXCEPT !.status = s]}, Hand(pc, c)
       PROVE  PlanAt(i)'
  <2>1. Firm(c, h) /\ Same(c, h) /\ c.staged
    <3>1. Alike([monitor.c EXCEPT !.status = s], monitor.c)  BY <1>1, AlikeOperators
    <3>2. Alike(monitor.c, monitor.c)  BY DEF Alike
    <3>3. Alike(c, monitor.c)  BY <1>17, <3>1, <3>2
    <3> QED BY <1>2, <1>17, <3>3, AlikeFirm DEF Alike
  <2> QED BY <1>4, <1>17, <2>1
<1>18. CASE Gate
  BY <1>5, <1>17, <1>18 DEF Gate, At
<1>19. CASE Mark
  <2>1. monitor.pc = "mark" /\ UNCHANGED storeVars /\ UNCHANGED said
    BY <1>19 DEF Mark, At
  <2>2. UNCHANGED signals \/ (Staged(h) /\ signals' = [signals EXCEPT ![h].state = "CONFIRMED"])
    BY <1>1, <1>19 DEF Mark, Staged
  <2>3. "CONFIRMED" \in SignalState \ {"NONE"}  BY DEF SignalState
  <2>4. PICK c : Hand("final", c) /\ c \in {monitor.c, [monitor.c EXCEPT !.status = "CONFIRMED"]}
    BY <1>19 DEF Mark
  <2> QED BY <1>17, <2>1, <2>2, <2>3, <2>4, StatePlans
\* an attempt to send
<1>20. ASSUME NEW s \in Candidate, Alike(s, monitor.c), NEW pc \in {"receipt", "final"},
              NEW c, Alike(c, s), Hand(pc, c), At("send"), UNCHANGED storeVars, UNCHANGED signals,
              \A j \in Ids \ {h} : said'[j] = said[j],
              \/ said'[h].plan = s.plan
              \/ said'[h].plan = said[h].plan /\ said'[h].posts = said[h].posts
       PROVE  PlanAt(i)'
  <2>1. Firm(s, h) /\ Same(s, h) /\ s.staged /\ monitor.pc = "send"
    BY <1>2, <1>20, AlikeFirm DEF Alike, At
  <2>2. Firm(c, h) /\ Same(c, h) /\ c.staged
    BY <1>20, <2>1, AlikeFirm DEF Alike
  <2>3. Staged(h)  BY <1>1, <2>1 DEF Inv, MonitorInv, Staged
  <2>4. Seen(h)' => Staged(h)' /\ said'[h].plan = signals'[h].plan
    BY <1>0, <1>20, <2>1, <2>3 DEF PlanAt, Same, Staged, Seen
  <2>5. Firm(c, h)' /\ Same(c, h)'  BY <1>20, <2>2 DEF Firm, Same, Staged
  <2>6. monitor'.pc = pc /\ monitor'.c = c /\ monitor'.id = h /\ monitor'.was = monitor.was
    BY <1>1, <1>20, HandFields
  <2>7. Unsaved(h) => Unsaved(h)'  BY <2>2, <2>6 DEF Unsaved, Hold, InHand
  <2>8. UNCHANGED <<table, cache, pending>>  BY <1>20 DEF storeVars
  <2>9. i # h => UNCHANGED <<said[i], signals[i]>>  BY <1>20
  <2>10. (Staged(h)' <=> Staged(h)) /\ signals'[h].plan = signals[h].plan  BY <1>20 DEF Staged
  <2> QED BY <1>0, <1>1, <1>20, <2>2, <2>4, <2>5, <2>7, <2>8, <2>9, <2>10, PlanHand
<1>30. Alike(monitor.c, monitor.c)  BY DEF Alike
<1>25. CASE Send
  <2>1. PICK s \in Candidate : s = Shown(monitor.c) /\ Alike(s, monitor.c)
    BY <1>1, <1>2, Operators, AlikeOperators DEF Like
  <2>2. PICK c : c = Sent(s, "chart") /\ Alike(c, s)  BY AlikeOperators
  <2>3. /\ At("send") /\ Hand("receipt", c) /\ UNCHANGED storeVars /\ UNCHANGED signals
        /\ UNCHANGED said \/ said' = Posted(h, s)
    BY <1>1, <1>25, <2>1, <2>2 DEF Send
  <2>4. CASE UNCHANGED said  BY <1>20, <2>1, <2>2, <2>3, <2>4
  <2>5. CASE said' = Posted(h, s)
    <3>1. said'[h].plan = s.plan /\ \A j \in Ids \ {h} : said'[j] = said[j]
      BY <2>5, PostedTyped DEF Inv
    <3> QED BY <1>20, <2>1, <2>2, <2>3, <3>1
  <2> QED BY <2>3, <2>4, <2>5
<1>26. CASE SendRefused
  <2>1. PICK r : /\ At("send") /\ Hand("receipt", Sent(monitor.c, r))
                 /\ UNCHANGED storeVars /\ UNCHANGED signals
                 /\ said' = [said EXCEPT ![h].lost = TRUE]
    BY <1>1, <1>26 DEF SendRefused
  <2>2. PICK c : c = Sent(monitor.c, r) /\ Alike(c, monitor.c)  BY <1>1, AlikeOperators
  <2>3. /\ said'[h].plan = said[h].plan /\ said'[h].posts = said[h].posts
        /\ \A j \in Ids \ {h} : said'[j] = said[j]
    BY <2>1 DEF Inv, PublicInv
  <2> QED BY <1>1, <1>20, <1>30, <2>1, <2>2, <2>3
<1>27. CASE SendText
  <2>1. PICK a \in Candidate : a = Attempted(monitor.c) /\ Alike(a, monitor.c)
    BY <1>1, Operators, AlikeOperators DEF Like
  <2>2. PICK c : c = Sent(a, "text") /\ Alike(c, a)  BY AlikeOperators
  <2>3. Alike(c, monitor.c)  BY <2>1, <2>2 DEF Alike
  <2>4. PICK s : s = Posted(h, monitor.c)  OBVIOUS
  <2>5. /\ s \in [Ids -> [posts : Nat, text : BOOLEAN, plan : 0..MaxPlan, lost : BOOLEAN]]
        /\ s[h].plan = monitor.c.plan /\ \A j \in Ids \ {h} : s[j] = said[j]
    BY <1>1, <2>4, PostedTyped DEF Inv
  <2>6. /\ At("send") /\ Hand("receipt", c) /\ UNCHANGED storeVars /\ UNCHANGED signals
        /\ said' = [s EXCEPT ![h].text = TRUE]
    BY <1>1, <1>27, <2>1, <2>2, <2>4 DEF SendText
  <2>7. said'[h].plan = monitor.c.plan /\ \A j \in Ids \ {h} : said'[j] = said[j]
    BY <2>5, <2>6
  <2> QED BY <1>1, <1>20, <1>30, <2>3, <2>6, <2>7
<1>28. CASE SendFails
  <2>1. PICK s \in Candidate : s = Shown(monitor.c) /\ Alike(s, monitor.c)
    BY <1>1, <1>2, Operators, AlikeOperators DEF Like
  <2>2. PICK a \in Candidate : a = Attempted(s) /\ Alike(a, s)
    BY Operators, AlikeOperators DEF Like
  <2>3. Alike(NotSent(s), s) /\ Alike(NotSent(a), a)  BY AlikeOperators
  <2>4. PICK c \in {NotSent(s), NotSent(a)} :
          At("send") /\ Hand("final", c) /\ UNCHANGED <<storeVars, signals, said>>
    BY <1>28, <2>1, <2>2 DEF SendFails
  <2>5. Alike(c, s)  BY <2>2, <2>3, <2>4 DEF Alike
  <2> QED BY <1>20, <2>1, <2>4, <2>5
<1>29. CASE FollowUp
  <2>1. PICK c : c = [monitor.c EXCEPT !.status = "CONFIRMED", !.receipt = "chart"]  OBVIOUS
  <2>2. Alike(c, monitor.c)  BY <1>1, <2>1 DEF Alike, Candidate
  <2>3. Firm(c, h) /\ Same(c, h)  BY <1>2, <2>2, AlikeFirm
  <2>4. /\ Update("monitor", h, c) /\ Hand("final", c)
        /\ UNCHANGED said /\ UNCHANGED signals
    BY <1>1, <1>29, <2>1 DEF FollowUp
  <2> QED BY <1>6, <2>3, <2>4
<1>21. CASE KeepReceipt
  <2>1. PICK c : c = monitor.c  OBVIOUS
  <2>2. c.staged  BY <1>2, <1>21, <2>1 DEF KeepReceipt, At
  <2> QED BY <1>1, <1>2, <1>6, <1>21, <2>1, <2>2 DEF KeepReceipt
<1>22. CASE Final
  <2>1. PICK c : c = monitor.c  OBVIOUS
  <2>2. NextCandidate /\ UNCHANGED said /\ UNCHANGED signals  BY <1>22 DEF Final
  <2>3. CASE monitor.c = monitor.was
    <3>1. UNCHANGED storeVars /\ ~Unsaved(h)  BY <1>22, <2>3 DEF Final, Unsaved
    <3> QED BY <1>5, <1>7, <2>2, <3>1
  <2>4. CASE monitor.c # monitor.was
    BY <1>1, <1>2, <1>6, <1>22, <2>1, <2>2, <2>4 DEF Final
  <2> QED BY <2>3, <2>4
<1>23. ~BeginPass /\ (\A j \in Ids : ~Pick(j)) /\ ~CacheCandidate("monitor")
  BY DEF BeginPass, Pick, At, InHand, CacheCandidate
<1>24. ~DisarmStale /\ ~PassFault  BY <1>3 DEF DisarmStale, PassFault
<1> QED BY <1>9, <1>10, <1>11, <1>12, <1>13, <1>14, <1>15, <1>16, <1>18, <1>19, <1>21,
           <1>22, <1>23, <1>24, <1>25, <1>26, <1>27, <1>28, <1>29 DEF Monitor

LEMMA PlanNext ==
    ASSUME PassAlone, ~ChartWatch, ~Stale, Inv, AloneInv, PlanInv, [Next]_vars
    PROVE  PlanInv'
<1> SUFFICES ASSUME Lossless', NEW i \in Ids PROVE PlanAt(i)'
  BY DEF PlanInv
<1>0. /\ faults \in [send : Nat, chart : Nat, db : Nat, crash : Nat, refresh : Nat]
      /\ signals \in [Ids -> [state : SignalState, plan : 0..MaxPlan]]
  BY DEF Inv, PublicInv
<1>1. Lossless  BY <1>0, FaultsGrow DEF Lossless
<1>2. \A j \in Ids : PlanAt(j)  BY <1>1 DEF PlanInv
<1>3. ASSUME UNCHANGED <<monitor, table, cache, pending, said>>, PlansKept PROVE PlanAt(i)'
  <2>1. PICK t, r, p, m, c : t = table[i].c /\ r = cache.rows[i] /\ p = pending["monitor"].c
                             /\ m = monitor.copies[i] /\ c = monitor.c
    OBVIOUS
  <2>2. \A k \in {t, r, p, m, c} : (Firm(k, i) => Firm(k, i)') /\ (Same(k, i) => Same(k, i)')
    BY <1>3, FirmKept
  <2>3. /\ Staged(i)' <=> Staged(i)
        /\ Staged(i) => signals'[i].plan = signals[i].plan
    BY <1>3 DEF PlansKept
  <2>4. /\ Hold(i)' <=> Hold(i)
        /\ Owed(i)' <=> Owed(i)
        /\ Unsaved(i)' <=> Unsaved(i)
        /\ Seen(i)' <=> Seen(i)
    BY <1>3 DEF Hold, Owed, Unsaved, Seen, InHand
  <2>5. PlanAt(i)  BY <1>2
  <2> QED BY <1>3, <2>1, <2>2, <2>3, <2>4, <2>5 DEF PlanAt
<1>4. UNCHANGED signals => PlansKept  BY DEF PlansKept, Staged
<1>5. CASE UNCHANGED vars  BY <1>3, <1>4, <1>5 DEF vars, storeVars
<1>6. CASE World
  <2>1. ASSUME NEW j \in Ids, TimeOut(j) PROVE PlanAt(i)'
    BY <1>3, <1>4, <2>1 DEF TimeOut, rest
  <2>2. ASSUME NEW j \in Ids, NEW s \in {"CLOSED", "UNFILLED"}, Close(j, s) PROVE PlanAt(i)'
    <3>1. Staged(j) /\ signals' = [signals EXCEPT ![j].state = s]  BY <2>2 DEF Close, Staged
    <3>2. s \in SignalState \ {"NONE"}  BY DEF SignalState
    <3>3. PlansKept  BY <3>1, <3>2, StatePlans
    <3> QED BY <1>3, <2>2, <3>3 DEF Close, storeVars
  <2>3. ~Crash
    <3> SUFFICES ASSUME Crash PROVE FALSE  OBVIOUS
    <3>1. faults'.crash = faults.crash + 1  BY <1>0 DEF Crash
    <3> QED BY <1>0, <3>1 DEF Lossless
  <2> QED BY <1>6, <2>1, <2>2, <2>3 DEF World
<1>7. CASE Monitor
  <2>1. CASE BeginPass
    <3>1. UNCHANGED signals  BY <2>1 DEF BeginPass
    <3> QED BY <1>2, <1>4, <2>1, <3>1, PlanBegin
  <2>2. ASSUME NEW j \in Ids, Pick(j) PROVE PlanAt(i)'
    <3>1. UNCHANGED signals  BY <2>2 DEF Pick
    <3> QED BY <1>2, <1>4, <2>2, <3>1, PlanPick
  <2>3. CASE CacheCandidate("monitor") /\ UNCHANGED <<monitor, world, signals, said, faults>>
    BY <1>2, <2>3, PlanCache
  <2>4. CASE InHand /\ Settled("monitor")  BY <1>1, <1>7, <2>4, PlanHandled
  <2>5. \/ BeginPass \/ (\E j \in Ids : Pick(j)) \/ (InHand /\ Settled("monitor"))
        \/ CacheCandidate("monitor") /\ UNCHANGED <<monitor, world, signals, said, faults>>
    BY <1>7, MonitorHands
  <2> QED BY <2>1, <2>2, <2>3, <2>4, <2>5
<1> QED BY <1>5, <1>6, <1>7, AloneSteps

LEMMA PlanInit == ASSUME WatchedInit(Ids) PROVE PlanInv
<1>1. /\ said = [i \in Ids |-> [posts |-> 0, text |-> FALSE, plan |-> 0, lost |-> FALSE]]
      /\ signals = [i \in Ids |-> [state |-> "NONE", plan |-> 0]]
      /\ cache = [loaded |-> FALSE, rows |-> [i \in Ids |-> Absent]]
      /\ pending = [t \in Threads |-> NoWrite] /\ monitor = MonitorIdle
  BY DEF WatchedInit
<1>2. PICK plans \in [Ids -> Plans] :
        LET c == [i \in Ids |-> IF i \notin Ids THEN Absent
                               ELSE [Absent EXCEPT !.status = "EDUCATIONAL", !.alerted = TRUE,
                                                   !.plan = plans[i]]] IN
        table = [i \in Ids |-> [status |-> c[i].status, c |-> c[i]]]
  BY DEF WatchedInit
<1> SUFFICES ASSUME NEW i \in Ids PROVE PlanAt(i)
  BY DEF PlanInv
<1>3. /\ ~Seen(i) /\ ~Staged(i) /\ cache.rows[i] = Absent /\ ~cache.loaded
  BY <1>1 DEF Seen, Staged
<1>4. monitor.copies[i] = Absent /\ monitor.todo = {} /\ ~Hold(i)
  BY <1>1 DEF MonitorIdle, Hold, InHand
<1>5. ~Owed(i)  BY <1>1, StoreAssumption DEF Owed, NoWrite, Threads
<1>6. PICK d : d = [Absent EXCEPT !.status = "EDUCATIONAL", !.alerted = TRUE, !.plan = plans[i]]
               /\ d = table[i].c
  BY <1>2
<1>7. ~d.staged /\ d.frozen = 0  BY <1>6 DEF Absent
<1>8. Firm(d, i) /\ Same(d, i)  BY <1>3, <1>7 DEF Firm, Same
<1> QED BY <1>3, <1>4, <1>5, <1>6, <1>8, AbsentFirm DEF PlanAt

\* The pass by itself, when neither a stage-B chart nor a candle too old is
\* possible, for any number of candidates and of plans, whatever posts fail and
\* are retried later, with or without an engine of the setup, as long as the
\* database keeps what is written and the process lives: the plan the channel
\* saw is the plan in the signals table (freeze_confirmed_snapshot).
THEOREM PlanTold ==
    ASSUME PassAlone, ~ChartWatch, ~Stale
    PROVE  WatchedSpec => []PlanAsAnnounced
<1>1. WatchedInit(Ids) => PlanInv  BY PlanInit
<1>2. Inv /\ AloneInv /\ PlanInv /\ [Next]_vars => PlanInv'  BY PlanNext
<1>3. Inv /\ PlanInv => PlanAsAnnounced
  <2> SUFFICES ASSUME Inv, PlanInv, NEW i \in Ids, said[i].posts = 1, Lossless
               PROVE  said[i].plan = signals[i].plan
    BY DEF PlanAsAnnounced, Lossless
  <2>1. PlanAt(i) /\ Seen(i)  BY DEF PlanInv, Seen
  <2> QED BY <2>1 DEF PlanAt
<1> QED BY AloneHolds, <1>1, <1>2, <1>3, PTL DEF WatchedSpec, WatchedFrom

-----------------------------------------------------------------------------
(* The same, for a pipeline met with candidates under watch already, whichever *)
(* and with whichever plans and advisory calls in flight.                      *)

LEMMA WatchedMet ==
    ASSUME NEW ids \in SUBSET Ids, WatchedInit(ids)
    PROVE  BackedInv /\ FlightInv /\ RoomInv /\ Abstract!Init
<1>0. PICK plans \in [ids -> Plans] :
        LET c == [i \in Ids |-> IF i \notin ids THEN Absent
                               ELSE [Absent EXCEPT !.status = "EDUCATIONAL", !.alerted = TRUE,
                                                   !.plan = plans[i]]] IN
        /\ table = [i \in Ids |-> [status |-> c[i].status, c |-> c[i]]]
        /\ objs = [i \in Ids |-> IF i \in advising THEN c[i] ELSE Absent]
  BY DEF WatchedInit
<1>1. /\ cache = [loaded |-> FALSE, rows |-> [i \in Ids |-> Absent]]
      /\ pending = [t \in Threads |-> NoWrite]
      /\ monitor = MonitorIdle /\ scan = ScanIdle
      /\ signals = [i \in Ids |-> [state |-> "NONE", plan |-> 0]]
      /\ said = [i \in Ids |-> [posts |-> 0, text |-> FALSE, plan |-> 0, lost |-> FALSE]]
  BY DEF WatchedInit
<1>2. \A i \in Ids : signals[i].state = "NONE" /\ said[i].posts = 0 /\ ~said[i].lost  BY <1>1
<1>3. ASSUME NEW i \in Ids
      PROVE  /\ table[i].status # "CONFIRMED" /\ table[i].c.status # "CONFIRMED"
             /\ objs[i].status # "CONFIRMED"
  <2>1. Absent.status = "NONE"  BY DEF Absent
  <2>2. \A p : [Absent EXCEPT !.status = "EDUCATIONAL", !.alerted = TRUE, !.plan = p].status
                 = "EDUCATIONAL"
    BY DEF Absent
  <2>3. PICK d : d = IF i \notin ids THEN Absent
                     ELSE [Absent EXCEPT !.status = "EDUCATIONAL", !.alerted = TRUE, !.plan = plans[i]]
    OBVIOUS
  <2>4. table[i] = [status |-> d.status, c |-> d] /\ objs[i] \in {d, Absent}
    BY <1>0, <2>3
  <2>5. d.status # "CONFIRMED"  BY <2>1, <2>2, <2>3
  <2> QED BY <2>1, <2>4, <2>5
<1>4. BackedStore
  BY <1>1, <1>3, AbsentBacked, StoreAssumption DEF NoWrite, BackedStore, Backed
<1>5. BackedPass /\ BackedScan
  BY <1>1, <1>3, AbsentBacked DEF MonitorIdle, ScanIdle, BackedPass, BackedScan, Backed, InHand
<1>6. FlightInv  BY <1>1, <1>2 DEF FlightInv, OneAnnouncement, MonitorIdle
<1>7. RoomInv
  <2>1. OpenSignals = {}  BY <1>2 DEF OpenSignals
  <2>2. IsFiniteSet(OpenSignals) /\ Cardinality(OpenSignals) = 0  BY <2>1, FS_EmptySet
  <2> QED BY <1>2, <2>2, ConfirmationAssumption DEF RoomInv, CapacityKept, NoTwins
<1>8. Abstract!Init
  <2>1. \A i \in Ids : StageOf[signals[i].state] = "none" BY <1>2 DEF StageOf
  <2>2. \A i \in Ids : ToldOf(i) = "no" BY <1>2 DEF ToldOf
  <2> QED BY <2>1, <2>2 DEF Abstract!Init
<1> QED BY <1>4, <1>5, <1>6, <1>7, <1>8 DEF BackedInv

\* From a watched pipeline too, with no hypothesis: the types are kept, no
\* signal is armed before it was posted or its chart refused, and the life of
\* every signal is the promised one.
THEOREM WatchedPromises ==
    ASSUME NEW ids \in SUBSET Ids
    PROVE  WatchedFrom(ids) => [](TypeOK /\ ArmedWasAnnounced) /\ ImplementsSignal
<1>1. WatchedInit(ids) => Inv /\ Abstract!Init  BY WatchedInv, WatchedMet
<1>2. Inv => TypeOK /\ ArmedWasAnnounced
  BY DEF Inv, StoreInv, MonitorInv, MonitorType, ScanInv, ScanType, Scans, PublicInv, TypeOK,
         ArmedWasAnnounced, Seen, Known
<1>3. Inv /\ Inv' /\ [Next]_vars => [Abstract!Next]_(Abstract!vars)
  BY StepEffect, AbstractStep
<1> QED BY <1>1, <1>2, <1>3, NextInv, PTL DEF WatchedFrom, ImplementsSignal, Abstract!Spec

\* From a watched pipeline too, while no setup has an engine of its own: only
\* candidates whose signal is armed or was are stored as CONFIRMED.
THEOREM WatchedRows ==
    ASSUME ~OwnEngine, NEW ids \in SUBSET Ids
    PROVE  WatchedFrom(ids) => []ConfirmedRowIsTracked
<1>1. WatchedInit(ids) => Inv /\ BackedInv  BY WatchedInv, WatchedMet
<1>2. Inv /\ BackedInv /\ [Next]_vars => BackedInv'  BY BackedSteps
<1>3. BackedInv => ConfirmedRowIsTracked  BY DEF BackedInv, BackedStore, ConfirmedRowIsTracked
<1> QED BY NextInv, <1>1, <1>2, <1>3, PTL DEF WatchedFrom

\* From a watched pipeline too, while the database answers and the process
\* lives: none is announced again while it is followed, and until a post is
\* refused or waits for its chart announced confirmations are tracked and the
\* cap and the difference of the points hold.
THEOREM WatchedSound ==
    ASSUME Sound, NEW ids \in SUBSET Ids
    PROVE  WatchedFrom(ids) => [](/\ AnnouncedIsTracked /\ OneAnnouncement
                                  /\ Unhindered => CapacityKept /\ NoTwins)
<1>1. WatchedInit(ids) => Inv /\ FlightInv /\ RoomInv  BY WatchedInv, WatchedMet
<1>2. Inv /\ Inv' /\ FlightInv /\ RoomInv /\ [Next]_vars => FlightInv' /\ RoomInv'
  BY FlightNext, RoomNext
<1>3. Inv /\ FlightInv /\ RoomInv =>
        AnnouncedIsTracked /\ OneAnnouncement /\ (Unhindered => CapacityKept /\ NoTwins)
  BY DEF Inv, PublicInv, FlightInv, RoomInv, AnnouncedIsTracked, Tracked, SignalState
<1> QED BY NextInv, <1>1, <1>2, <1>3, PTL DEF WatchedFrom
==============================================================================
