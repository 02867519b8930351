----------------------------- MODULE SpotJourney -----------------------------
(* The spot lane: the life of one (symbol, timeframe) from the first warning   *)
(* of a pattern over the confirmation to the last target. Three threads drive  *)
(* it: the spot pass, the recheck inside the monitor cycle, and the line watch *)
(* on live prices. They share nothing but maps of the key-value store, read    *)
(* whole and written back whole, and post to one Telegram channel.             *)
(* The read-modify-write of one key without Telegram in between is one step.   *)
EXTENDS Naturals, FiniteSets

CONSTANTS
    Shapes,      \* the exact geometries (fingerprints) the detectors may draw
    Codes,       \* the public codes that may be minted
    Stages,      \* the stages of a warning, out of those STAGE_RANK knows
    Sides,       \* the sides of a shape under watch: HIGH, LOW
    Rungs,       \* targets of a position, three in the code
    ChartCap,    \* spot_chain_chart_cap
    Others,      \* the threads running beside the spot pass
    MaxUpsets    \* refused posts, windows that run out and restarts, in all

ASSUME SpotAssumption ==
    /\ 0 \notin Shapes \cup Codes
    /\ Stages \subseteq {"TOUCH", "NEAR_BREAK", "RETEST", "BREAK_DOWN", "BREAK_UP"}
    /\ Sides \subseteq {"HIGH", "LOW"}
    /\ Others \subseteq {"recheck", "watch"}
    /\ {Rungs, ChartCap, MaxUpsets} \subseteq Nat
    /\ Rungs \in 1..3

Publishers == {"pass", "recheck"} \cap ({"pass"} \cup Others)
Lanes == {"pass"} \cup Others

\* STAGE_RANK.
Rank == [TOUCH |-> 1, NEAR_BREAK |-> 2, RETEST |-> 3, BREAK_DOWN |-> 3, BREAK_UP |-> 4]
Breaks == {"BREAK_UP", "BREAK_DOWN"} \cap Stages
HitSlot_FromZero == <<"h0", "h1", "h2">>
HitSlot == <<"h1", "h2", "h3">>
Slots == {"s1", "s2", "s3", "s4", "h1", "h2", "h3"}
StageSides(stage) == CASE stage = "BREAK_UP" -> {"HIGH"}
                       [] stage = "BREAK_DOWN" -> {"LOW"}
                       [] OTHER -> {"HIGH", "LOW"}

VARIABLES
    ledger,      \* spot_chain|SYM|TF: the journey of the current code
    stamps,      \* spot_published: confirmed geometries inside their window
    marker,      \* spot_tf_position: this timeframe has its position
    positions,   \* spot_positions
    retired,     \* spot_retired_patterns
    spoken,      \* spot_alerts: the highest stage rank told per signature
    locks,       \* spot_break_lock
    pinned,      \* spot_urgent_watch holds this timeframe
    edges,       \* line_watch: the watched edges
    lane,        \* per thread, where it is and what it has in hand
    found,       \* per publisher, the candidates still to judge, with their code
    due,         \* the rungs the hit pass still expects, from its snapshot
    copy,        \* the registry as the line watch read it
    used,        \* codes minted
    told,        \* what the channel saw under a code
    posted,      \* who confirmed which geometry inside its stamp's window
    faults

kv == <<ledger, stamps, marker, positions, retired, spoken, locks, pinned, edges>>
local == <<lane, found, due, copy>>
seen == <<told, posted>>
vars == <<kv, local, used, seen, faults>>

EmptyLedger == [code |-> 0, charts |-> 0, slots |-> {}, claims |-> {}, stale |-> {},
                charted |-> {}, head |-> FALSE, old |-> FALSE]
Idle == [pc |-> "idle", shape |-> 0, code |-> 0, stage |-> "none", side |-> "none",
         slot |-> "none", chart |-> FALSE, books |-> FALSE, rung |-> 0]
NoEdge == [on |-> FALSE, state |-> "none", j1 |-> "free", j2 |-> "free"]

Journey == [code : Codes \cup {0}, charts : Nat, slots : SUBSET Slots, claims : SUBSET Slots,
            stale : SUBSET Slots, charted : SUBSET Stages, head : BOOLEAN, old : BOOLEAN]
Position == [state : {"none", "open", "closed"}, hits : SUBSET (1..Rungs),
             shape : Shapes \cup {0}]
Edge == [on : BOOLEAN, state : {"none", "below", "near", "above"},
         j1 : {"free", "pending", "done"}, j2 : {"free", "pending", "done"}]
Task == [pc : {"idle", "judge", "post", "stamp", "mark", "book", "open", "alert", "rewrite",
              "send", "record", "speak", "hits", "hit", "score", "commit", "close", "free",
              "reset", "edges"},
         shape : Shapes \cup {0}, code : Codes \cup {0}, stage : Stages \cup {"none"},
         side : Sides \cup {"none"}, slot : Slots \cup {"none"}, chart : BOOLEAN, books : BOOLEAN,
         rung : 0..Rungs]
Told == [charts : Nat, confirmed : BOOLEAN, rungs : SUBSET (1..Rungs),
         drawn : SUBSET (Lanes \X Stages)]

TypeOK ==
    /\ ledger \in Journey
    /\ stamps \subseteq Shapes
    /\ marker \in BOOLEAN
    /\ positions \in [Codes -> Position]
    /\ retired \subseteq Shapes
    /\ spoken \in [Shapes \X Sides -> 0..4]
    /\ locks \subseteq Breaks
    /\ pinned \in BOOLEAN
    /\ edges \in [Sides -> Edge]
    /\ lane \in [Lanes -> Task]
    /\ found \in [Publishers -> [Shapes -> Codes \cup {0}]]
    /\ due \in [Codes -> 0..Rungs]
    /\ copy \in [rows : [Sides -> Edge], changed : BOOLEAN, left : SUBSET Sides]
    /\ used \subseteq Codes
    /\ told \in [Codes -> Told]
    /\ posted \subseteq Publishers \X Shapes
    /\ faults \in [upsets : 0..MaxUpsets, crashed : BOOLEAN]

Nothing == [s \in Shapes |-> 0]
NoCopy == [rows |-> [s \in Sides |-> NoEdge], changed |-> FALSE, left |-> {}]

Init ==
    /\ ledger = EmptyLedger
    /\ stamps = {} /\ marker = FALSE /\ retired = {} /\ locks = {} /\ pinned = FALSE
    /\ positions = [c \in Codes |-> [state |-> "none", hits |-> {}, shape |-> 0]]
    /\ spoken = [sig \in Shapes \X Sides |-> 0]
    /\ edges = [s \in Sides |-> NoEdge]
    /\ lane = [l \in Lanes |-> Idle]
    /\ found = [l \in Publishers |-> Nothing]
    /\ due = [c \in Codes |-> 0]
    /\ copy = NoCopy
    /\ used = {}
    /\ told = [c \in Codes |-> [charts |-> 0, confirmed |-> FALSE, rungs |-> {}, drawn |-> {}]]
    /\ posted = {}
    /\ faults = [upsets |-> 0, crashed |-> FALSE]

At(l, pc) == lane[l].pc = pc
Go(l, pc) == lane' = [lane EXCEPT ![l].pc = pc]
Drop(l, pc) == lane' = [lane EXCEPT ![l] = [Idle EXCEPT !.pc = pc]]

Upset(crashed) ==
    /\ faults.upsets < MaxUpsets
    /\ faults' = [upsets |-> faults.upsets + 1, crashed |-> faults.crashed \/ crashed]
Refused == Upset(FALSE)

\* _spot_journey_slot, and the pending claim its taker writes.
SlotFree(slot) == /\ slot \notin ledger.slots
                  /\ slot \notin ledger.claims \ ledger.stale
                  /\ ledger.charts < ChartCap
Claim(slot) == ledger' = [ledger EXCEPT !.claims = @ \cup {slot}, !.stale = @ \ {slot}]

-----------------------------------------------------------------------------
(* Confirmations, by the spot pass and by the recheck.                        *)

\* build_spot_candidate: a confirmation carries the code of the current
\* journey, a fresh one when there is none.
Named(shapes, codes) ==
    /\ codes \in [Shapes -> Codes \cup {0}]
    /\ \A s \in Shapes : (codes[s] # 0) = (s \in shapes)
    /\ IF ledger.code # 0 THEN \A s \in shapes : codes[s] = ledger.code
       ELSE /\ \A s \in shapes : codes[s] \notin used
            /\ \A s, t \in shapes : s # t => codes[s] # codes[t]

Find(l, shapes) == \E codes \in [Shapes -> Codes \cup {0}] :
    /\ Named(shapes, codes)
    /\ found' = [found EXCEPT ![l] = codes]
    /\ used' = used \cup {codes[s] : s \in shapes}

\* What the detectors hand on for the timeframe: each its strongest break or none.
\* The timeframe's own close at the break, for slow timeframes the first close
\* of a faster frame, a close one frame below the shape, and TOHOM one below that.
Strongest == {{}} \cup {{s} : s \in Shapes}
OwnCloses == Strongest
LongFrameCloses == Strongest
UrgentCloses == Strongest
EarlyCloses == Strongest
PassFinds == {own \cup long : own \in OwnCloses, long \in LongFrameCloses}
RecheckFinds == {early \cup urgent \cup own :
                    early \in EarlyCloses, urgent \in UrgentCloses, own \in OwnCloses}

\* line_watch.upsert: an edge that moved starts its own journey again.
Upserted(e, moved) == IF moved /\ e.on THEN [e EXCEPT !.j1 = "free", !.j2 = "free"]
                      ELSE [e EXCEPT !.on = TRUE]

\* run_spot_scan fetches and detects; a warned shape pins its timeframe for
\* the recheck and its edge for the line watch.
PassBegin == \E shapes \in PassFinds :
    /\ At("pass", "idle")
    /\ Find("pass", shapes)
    /\ Go("pass", "judge")
    /\ \/ UNCHANGED <<pinned, edges>>
       \/ \E s \in Sides, moved \in BOOLEAN :
             /\ pinned' = TRUE
             /\ edges' = [edges EXCEPT ![s] = Upserted(@, moved)]
    /\ UNCHANGED <<ledger, stamps, marker, positions, retired, spoken, locks, due, copy,
                   seen, faults>>

\* _spot_urgent_recheck, while the timeframe is pinned.
RecheckBegin == \E shapes \in RecheckFinds \ {{}} :
    /\ At("recheck", "idle")
    /\ pinned
    /\ Find("recheck", shapes)
    /\ Go("recheck", "judge")
    /\ UNCHANGED <<kv, due, copy, seen, faults>>

\* The guards of both lanes, read before the chart is drawn.
Blocked_Unstamped(s) == s \in retired \/ marker
Blocked(s) == s \in retired \/ s \in stamps \/ marker

\* A candidate that is blocked, out of slots or without a chart is passed over.
\* Only the recheck's second loop does not open a position.
Judge(l, s) ==
    /\ At(l, "judge")
    /\ found[l][s] # 0
    /\ found' = [found EXCEPT ![l][s] = 0]
    /\ \/ UNCHANGED lane
       \/ /\ ~Blocked(s)
          /\ \E books \in IF l = "pass" THEN {TRUE} ELSE BOOLEAN :
                lane' = [lane EXCEPT ![l] = [Idle EXCEPT !.pc = "post", !.shape = s,
                                                         !.code = found[l][s], !.books = books]]
    /\ UNCHANGED <<kv, due, copy, used, seen, faults>>

\* A refused confirmation leaves no marker behind.
Missed_Marked(l) == Go(l, "stamp")
Missed(l) == Drop(l, "judge")

\* tf_channel_publish_confirmed: a refused photo falls back to the text.
Post(l) ==
    LET t == lane[l] IN
    /\ At(l, "post")
    /\ \/ \E photo \in BOOLEAN :
             /\ IF photo THEN UNCHANGED faults ELSE Refused
             /\ told' = [told EXCEPT ![t.code].confirmed = TRUE,
                                     ![t.code].charts = @ + IF photo THEN 1 ELSE 0]
             /\ posted' = posted \cup {<<l, t.shape>>}
             /\ Go(l, "stamp")
       \/ Refused /\ Missed(l) /\ UNCHANGED seen
    /\ UNCHANGED <<kv, found, due, copy, used>>

\* The markers, only after the post: _spot_stamp, _spot_tf_position_commit.
Stamp(l) ==
    /\ At(l, "stamp")
    /\ stamps' = stamps \cup {lane[l].shape}
    /\ Go(l, "mark")
    /\ UNCHANGED <<ledger, marker, positions, retired, spoken, locks, pinned, edges,
                   found, due, copy, used, seen, faults>>

Mark(l) ==
    /\ At(l, "mark")
    /\ marker' = TRUE
    /\ IF lane[l].books THEN Go(l, "book") ELSE Drop(l, "judge")
    /\ UNCHANGED <<ledger, stamps, positions, retired, spoken, locks, pinned, edges,
                   found, due, copy, used, seen, faults>>

\* _spot_confirm_book: chart four of whatever journey the ledger holds now,
Book(l) ==
    /\ At(l, "book")
    /\ ledger' = IF ledger.code = 0 THEN ledger
                 ELSE [ledger EXCEPT !.slots = @ \cup {"s4"}, !.charts = @ + 1,
                                     !.head = TRUE, !.old = FALSE]
    /\ Go(l, "open")
    /\ UNCHANGED <<stamps, marker, positions, retired, spoken, locks, pinned, edges,
                   found, due, copy, used, seen, faults>>

\* and spot_position_open, which writes over a position of the same code.
Open(l) ==
    LET t == lane[l] IN
    /\ At(l, "open")
    /\ positions' = [positions EXCEPT ![t.code] =
                        [state |-> "open", hits |-> {}, shape |-> t.shape]]
    /\ Drop(l, "judge")
    /\ UNCHANGED <<ledger, stamps, marker, retired, spoken, locks, pinned, edges,
                   found, due, copy, used, seen, faults>>

Publish(l) ==
    \/ \E s \in Shapes : Judge(l, s)
    \/ Post(l) \/ Stamp(l) \/ Mark(l) \/ Book(l) \/ Open(l)

\* The pass goes on with its warnings, the recheck is done.
Judged(l) ==
    /\ At(l, "judge")
    /\ found[l] = Nothing
    /\ Go(l, IF l = "pass" THEN "alert" ELSE "idle")
    /\ UNCHANGED <<kv, found, due, copy, used, seen, faults>>

-----------------------------------------------------------------------------
(* Warnings: the ladder of the spot pass and the edges of the line watch go   *)
(* through one sender, send_spot_alert, and one ledger.                       *)

\* The warnings a scan of the timeframe may hand on.
Warned == {w \in Shapes \X Stages \X Sides : w[3] \in StageSides(w[2])}

\* The slot the pass wants: s1 for the first warning, then s3 for a break and
\* s2 for the rest; a journey without its s1 tries that first.
Wanted(stage) ==
    IF ledger.charts = 0 \/ ("s1" \notin ledger.slots /\ SlotFree("s1")) THEN "s1"
    ELSE IF stage \in Breaks THEN "s3" ELSE "s2"

\* The ladder only climbs; a break waits for its lock, an upward one also for
\* the stamps of the timeframe. A chart that cannot be drawn leaves the claim.
Alert(s, stage, side) ==
    LET slot == Wanted(stage) IN
    /\ At("pass", "alert")
    /\ s \notin retired /\ stage \notin locks
    /\ stage = "BREAK_UP" => stamps = {}
    /\ Rank[stage] > spoken[<<s, side>>]
    /\ SlotFree(slot)
    /\ Claim(slot)
    /\ \/ UNCHANGED lane
       \/ lane' = [lane EXCEPT !["pass"] = [Idle EXCEPT !.pc = "rewrite", !.shape = s,
                       !.stage = stage, !.side = side, !.slot = slot, !.chart = TRUE]]
    /\ UNCHANGED <<stamps, marker, positions, retired, spoken, locks, pinned, edges,
                   found, due, copy, used, seen, faults>>

\* send_spot_alert, before the post: a journey without a code, or silent for
\* five days, starts anew, and the ledger is written back with the fields the
\* sender knows. The slots, their claims and the chart counter are not among them.
Charted_Forgets(charted) == {}
Charted(charted) == charted
Rewrite(l) ==
    LET t == lane[l]
        fresh == ledger.code = 0 \/ ledger.old
        charted == IF fresh THEN {} ELSE Charted(ledger.charted)
        head == ledger.head /\ ~fresh
    IN
    /\ At(l, "rewrite")
    /\ \E code \in IF fresh THEN Codes \ used ELSE {ledger.code} :
          /\ used' = used \cup {code}
          /\ ledger' = [EmptyLedger EXCEPT !.code = code, !.charted = charted, !.head = head]
          /\ lane' = [lane EXCEPT ![l].pc = "send", ![l].code = code,
                          ![l].chart = @ /\ t.stage \notin charted
                                         /\ ~(head /\ t.stage = "RETEST")]
    /\ UNCHANGED <<stamps, marker, positions, retired, spoken, locks, pinned, edges,
                   found, due, copy, seen, faults>>

Home(l) == IF l = "pass" THEN "alert" ELSE "edges"

Send(l) ==
    LET t == lane[l] IN
    /\ At(l, "send")
    /\ \/ /\ told' = IF t.chart
                     THEN [told EXCEPT ![t.code].charts = @ + 1,
                                       ![t.code].drawn = @ \cup {<<l, t.stage>>}]
                     ELSE told
          /\ Go(l, "record")
          /\ UNCHANGED faults
       \/ Refused /\ Drop(l, Home(l)) /\ UNCHANGED told
    /\ UNCHANGED <<kv, found, due, copy, used, posted>>

\* and after it, onto whatever journey the ledger holds by now.
Record(l) ==
    LET t == lane[l]
        grown == IF t.chart /\ ledger.charts < ChartCap THEN ledger.charts + 1
                 ELSE ledger.charts
    IN
    /\ At(l, "record")
    /\ ledger' = IF ledger.code = 0 THEN ledger
                 ELSE [ledger EXCEPT !.slots = @ \cup {t.slot}, !.head = TRUE, !.old = FALSE,
                           !.charts = grown,
                           !.charted = @ \cup IF t.chart THEN {t.stage} ELSE {}]
    /\ IF l = "pass" THEN Go(l, "speak") /\ UNCHANGED copy
       ELSE /\ Drop(l, "edges")
            /\ copy' = IF t.slot = "s1" THEN [copy EXCEPT !.rows[t.side].j1 = "done"]
                       ELSE [copy EXCEPT !.rows[t.side].j2 = "done"]
    /\ UNCHANGED <<stamps, marker, positions, retired, spoken, locks, pinned, edges,
                   found, due, used, seen, faults>>

\* spot_alert_commit and spot_break_lock_commit.
Speak ==
    LET t == lane["pass"] IN
    /\ At("pass", "speak")
    /\ spoken' = [spoken EXCEPT ![<<t.shape, t.side>>] = Rank[t.stage]]
    /\ locks' = locks \cup ({t.stage} \cap Breaks)
    /\ Drop("pass", "alert")
    /\ UNCHANGED <<ledger, stamps, marker, positions, retired, pinned, edges,
                   found, due, copy, used, seen, faults>>

-----------------------------------------------------------------------------
(* The hit pass, at the end of the spot pass.                                 *)

\* spot_hit_scan: the first rung not yet hit, and no later one.
NextRungs_Any(hits) == 1..Rungs \ hits
NextRungs(hits) == {r \in 1..Rungs \ hits : \A q \in 1..Rungs \ hits : r <= q}

AlertsDone ==
    /\ At("pass", "alert")
    /\ due' \in {next \in [Codes -> 0..Rungs] : \A c \in Codes :
                    next[c] \in IF positions[c].state = "open"
                               THEN NextRungs(positions[c].hits) ELSE {0}}
    /\ Go("pass", "hits")
    /\ UNCHANGED <<kv, found, copy, used, seen, faults>>

\* The price is or is not past the rung; a chart needs the slot of the hit.
Hit(c) ==
    LET slot == HitSlot[due[c]]
        free == SlotFree(slot)
    IN
    /\ At("pass", "hits")
    /\ due[c] # 0
    /\ due' = [due EXCEPT ![c] = 0]
    /\ \/ UNCHANGED lane
       \/ \E chart \in IF free THEN BOOLEAN ELSE {FALSE} :
             lane' = [lane EXCEPT !["pass"] = [Idle EXCEPT !.pc = "hit", !.code = c,
                         !.rung = due[c], !.slot = IF free THEN slot ELSE "none", !.chart = chart]]
    /\ UNCHANGED <<kv, found, copy, used, seen, faults>>

SendHit ==
    LET t == lane["pass"] IN
    /\ At("pass", "hit")
    /\ \/ /\ told' = [told EXCEPT ![t.code].rungs = @ \cup {t.rung},
                                  ![t.code].charts = @ + IF t.chart THEN 1 ELSE 0]
          /\ Go("pass", "score")
          /\ UNCHANGED faults
       \/ Refused /\ Drop("pass", "hits") /\ UNCHANGED told
    /\ UNCHANGED <<kv, found, due, copy, used, posted>>

\* The end of send_spot_hit, without the cap of send_spot_alert.
Score ==
    LET t == lane["pass"] IN
    /\ At("pass", "score")
    /\ ledger' = IF ledger.code = 0 THEN ledger
                 ELSE [ledger EXCEPT !.slots = @ \cup ({t.slot} \ {"none"}), !.head = TRUE,
                           !.old = FALSE, !.charts = @ + IF t.chart THEN 1 ELSE 0]
    /\ Go("pass", "commit")
    /\ UNCHANGED <<stamps, marker, positions, retired, spoken, locks, pinned, edges,
                   found, due, copy, used, seen, faults>>

\* spot_position_commit; the last rung closes the position and releases it.
Released_Never(all) == FALSE
Released(all) == all
Commit ==
    LET t == lane["pass"]
        hits == positions[t.code].hits \cup {t.rung}
        all == hits = 1..Rungs
    IN
    /\ At("pass", "commit")
    /\ positions' = [positions EXCEPT ![t.code].hits = hits,
                         ![t.code].state = IF all THEN "closed" ELSE @]
    /\ IF Released(all) THEN Go("pass", "close") ELSE Drop("pass", "hits")
    /\ UNCHANGED <<ledger, stamps, marker, retired, spoken, locks, pinned, edges,
                   found, due, copy, used, seen, faults>>

\* _release_terminal_spot_event: close the position the store has now and retire
\* its shape,
Close ==
    LET c == lane["pass"].code IN
    /\ At("pass", "close")
    /\ positions' = [positions EXCEPT ![c].state = "closed"]
    /\ retired' = retired \cup {positions[c].shape}
    /\ Go("pass", "free")
    /\ UNCHANGED <<ledger, stamps, marker, spoken, locks, pinned, edges,
                   found, due, copy, used, seen, faults>>

\* free the timeframe,
Free ==
    /\ At("pass", "free")
    /\ marker' = FALSE
    /\ Go("pass", "reset")
    /\ UNCHANGED <<ledger, stamps, positions, retired, spoken, locks, pinned, edges,
                   found, due, copy, used, seen, faults>>

\* and drop the journey, the pin and the edges.
Reset ==
    /\ At("pass", "reset")
    /\ ledger' = IF ledger.code = lane["pass"].code THEN EmptyLedger ELSE ledger
    /\ pinned' = FALSE
    /\ edges' = [s \in Sides |-> NoEdge]
    /\ Drop("pass", "hits")
    /\ UNCHANGED <<stamps, marker, positions, retired, spoken, locks,
                   found, due, copy, used, seen, faults>>

HitsDone ==
    /\ At("pass", "hits")
    /\ \A c \in Codes : due[c] = 0
    /\ Go("pass", "idle")
    /\ UNCHANGED <<kv, found, due, copy, used, seen, faults>>

-----------------------------------------------------------------------------
(* The line watch, line_watch.run_once: the registry is read whole, every      *)
(* edge judged against the ticker, and the registry written whole.             *)

WatchBegin ==
    /\ At("watch", "idle")
    /\ \E s \in Sides : edges[s].on
    /\ copy' = [rows |-> edges, changed |-> FALSE, left |-> {s \in Sides : edges[s].on}]
    /\ Go("watch", "edges")
    /\ UNCHANGED <<kv, found, due, used, seen, faults>>

\* _evaluate: landing on the edge is a touch, leaving it or crossing a break.
\* The event's own time is written to a throw-away copy: nothing dedups by it.
Crossing(prev, zone) ==
    IF prev = zone THEN "none"
    ELSE IF zone = "near" THEN "TOUCH"
    ELSE IF prev = "none" THEN "none"
    ELSE IF zone = "above" THEN "BREAK_UP" ELSE "BREAK_DOWN"

\* A touch may take s1; a break s2, once s1 was told or ever claimed. The
\* pending mark of a post that was refused counts for ten minutes more.
Takes(edge, kind, slot) ==
    /\ SlotFree(slot)
    /\ \/ slot = "s1" /\ kind = "TOUCH" /\ edge.j1 # "done"
       \/ /\ slot = "s2" /\ kind \in Breaks /\ edge.j2 # "done"
          /\ "s1" \in ledger.slots \cup ledger.claims
EdgeSlots(edge, kind) ==
    LET fit == {slot \in {"s1", "s2"} : Takes(edge, kind, slot)}
        mark == [s1 |-> edge.j1, s2 |-> edge.j2]
    IN fit \cup {slot \in {"none"} : \A taken \in fit : mark[taken] = "pending"}

WatchEdge(s, zone) == \E slot \in EdgeSlots(copy.rows[s], Crossing(copy.rows[s].state, zone)) :
    LET edge == copy.rows[s]
        kind == Crossing(edge.state, zone)
    IN
    /\ At("watch", "edges")
    /\ s \in copy.left
    /\ kind \in Stages \cup {"none"}
    /\ copy' = [rows |-> [copy.rows EXCEPT ![s] =
                    [edge EXCEPT !.state = zone,
                                 !.j1 = IF slot = "s1" THEN "pending" ELSE @,
                                 !.j2 = IF slot = "s2" THEN "pending" ELSE @]],
                changed |-> copy.changed \/ zone # edge.state,
                left |-> copy.left \ {s}]
    /\ IF slot = "none" THEN UNCHANGED <<lane, ledger>>
       ELSE /\ Claim(slot)
            /\ \E chart \in IF slot = "s1" /\ pinned THEN BOOLEAN ELSE {FALSE} :
                 lane' = [lane EXCEPT !["watch"] = [Idle EXCEPT !.pc = "rewrite",
                             !.stage = kind, !.side = s, !.slot = slot, !.chart = chart]]
    /\ UNCHANGED <<stamps, marker, positions, retired, spoken, locks, pinned, edges,
                   found, due, used, seen, faults>>

WatchEnd ==
    /\ At("watch", "edges")
    /\ copy.left = {}
    /\ edges' = IF copy.changed THEN copy.rows ELSE edges
    /\ copy' = NoCopy
    /\ Drop("watch", "idle")
    /\ UNCHANGED <<ledger, stamps, marker, positions, retired, spoken, locks, pinned,
                   found, due, used, seen, faults>>

-----------------------------------------------------------------------------
(* Windows that run out, and a restart of the process.                        *)

Aged == Upset(FALSE)

MarkerExpires ==
    /\ marker /\ Aged
    /\ marker' = FALSE
    /\ UNCHANGED <<ledger, stamps, positions, retired, spoken, locks, pinned, edges,
                   local, used, seen>>

\* A stamp outlives every publication under way by hours.
StampExpires(s) ==
    /\ s \in stamps /\ Aged
    /\ \A l \in Publishers : lane[l].pc \in {"post", "stamp"} => lane[l].shape # s
    /\ stamps' = stamps \ {s}
    /\ posted' = {p \in posted : p[2] # s}
    /\ UNCHANGED <<ledger, marker, positions, retired, spoken, locks, pinned, edges,
                   local, used, told>>

PinExpires ==
    /\ pinned /\ Aged
    /\ pinned' = FALSE
    /\ UNCHANGED <<ledger, stamps, marker, positions, retired, spoken, locks, edges,
                   local, used, seen>>

LockExpires(stage) ==
    /\ stage \in locks /\ Aged
    /\ locks' = locks \ {stage}
    /\ UNCHANGED <<ledger, stamps, marker, positions, retired, spoken, pinned, edges,
                   local, used, seen>>

\* The cooldown of the last stage told, and the ten minutes of a claim.
Cools(sig) ==
    /\ spoken[sig] \in 1..3 /\ Aged
    /\ spoken' = [spoken EXCEPT ![sig] = @ - 1]
    /\ UNCHANGED <<ledger, stamps, marker, positions, retired, locks, pinned, edges,
                   local, used, seen>>

ClaimStale(slot) ==
    /\ slot \in ledger.claims \ ledger.stale /\ Aged
    /\ ledger' = [ledger EXCEPT !.stale = @ \cup {slot}]
    /\ UNCHANGED <<stamps, marker, positions, retired, spoken, locks, pinned, edges,
                   local, used, seen>>

\* Five days of silence.
LedgerAges ==
    /\ ledger.code # 0 /\ ~ledger.old /\ Aged
    /\ ledger' = [ledger EXCEPT !.old = TRUE]
    /\ UNCHANGED <<stamps, marker, positions, retired, spoken, locks, pinned, edges,
                   local, used, seen>>

\* A confirmation whose stamp was not yet written is forgotten.
Crash ==
    /\ Upset(TRUE)
    /\ lane' = [l \in Lanes |-> Idle]
    /\ found' = [l \in Publishers |-> Nothing]
    /\ due' = [c \in Codes |-> 0]
    /\ copy' = NoCopy
    /\ posted' = posted \ {<<l, lane[l].shape>> : l \in {m \in Publishers : At(m, "stamp")}}
    /\ UNCHANGED <<kv, used, told>>

-----------------------------------------------------------------------------
Pass ==
    \/ PassBegin \/ Publish("pass") \/ Judged("pass")
    \/ \E w \in Warned : Alert(w[1], w[2], w[3])
    \/ Rewrite("pass") \/ Send("pass") \/ Record("pass") \/ Speak \/ AlertsDone
    \/ (\E c \in Codes : Hit(c)) \/ SendHit \/ Score \/ Commit
    \/ Close \/ Free \/ Reset \/ HitsDone

Recheck ==
    /\ "recheck" \in Lanes
    /\ RecheckBegin \/ Publish("recheck") \/ Judged("recheck")

Watch ==
    /\ "watch" \in Lanes
    /\ \/ WatchBegin \/ WatchEnd
       \/ \E s \in Sides, zone \in {"below", "near", "above"} : WatchEdge(s, zone)
       \/ Rewrite("watch") \/ Send("watch") \/ Record("watch")

Age ==
    \/ MarkerExpires \/ PinExpires \/ LedgerAges
    \/ \E s \in Shapes : StampExpires(s)
    \/ \E stage \in Breaks : LockExpires(stage)
    \/ \E sig \in Shapes \X Sides : Cools(sig)
    \/ \E slot \in Slots : ClaimStale(slot)

Next == Pass \/ Recheck \/ Watch \/ Age \/ Crash

Spec == Init /\ [][Next]_vars

-----------------------------------------------------------------------------
\* Every dedup marker stands for a post: a stamp for a confirmation of that
\* geometry, a position for a confirmation under its code. Written before the
\* post, one refused photo would mute the geometry for its whole window.
MarkersFollowPosts ==
    /\ stamps \subseteq {p[2] : p \in posted}
    /\ \A c \in Codes : positions[c].state # "none" => told[c].confirmed

\* A thread confirms a geometry at most once inside its stamp's window, also
\* when the 24 hours of the timeframe's marker end before the 36 of the stamp.
OncePerLane ==
    [][\A l \in Publishers : At(l, "post") /\ lane'[l].pc = "stamp"
          => <<l, lane[l].shape>> \notin posted]_vars

\* The channel sees the targets of a code in order and after its confirmation,
\* whatever is refused, lost in a restart, or opened again under that code.
RungsInOrder ==
    \A c \in Codes : \A r \in told[c].rungs :
        told[c].confirmed /\ 1..r \subseteq told[c].rungs

\* Unless the process dies in between, a position that closed leaves its
\* geometry retired: it is never traded a second time.
ClosedIsRetired ==
    ~faults.crashed => \A c \in Codes : positions[c].state = "closed" =>
        \/ positions[c].shape \in retired
        \/ At("pass", "close") /\ lane["pass"].code = c

\* Unless the process dies in between, a thread charts a stage of a journey
\* once, though send_spot_alert writes the ledger on both sides of the post.
ChartOnce ==
    [][\A l \in Lanes : At(l, "send") /\ lane'[l].pc = "record" /\ lane[l].chart
          => faults.crashed \/ <<l, lane[l].stage>> \notin told[lane[l].code].drawn]_vars

\* One unique code never shows more than seven charts in all.
SevenCharts == \A c \in Codes : told[c].charts <= 7
=============================================================================
