---------------------------- MODULE Confirmation ----------------------------
(* The road of a candidate to a published confirmation: the discovery scan    *)
(* mints and announces candidates, the monitor pass judges them, stages the   *)
(* confirmed one in the signals table, posts it and only then arms it, while  *)
(* the Gemini advisor writes its note back whenever its call returns. All of  *)
(* them share the store of CandidateStore.                                    *)
(* Monitor passes exclude each other (_CANDIDATE_MONITOR_LOCK), so the main   *)
(* loop's pass and the daemon's are one process here. One (symbol, setup,     *)
(* trigger timeframe) is modelled: the key of every seat and of the cap.      *)
EXTENDS CandidateStore

CONSTANTS
    Cap,          \* max_signals_per_symbol_trigger
    Seats,        \* chains_per_symbol_setup_24h: concurrent live chains
    EduMax,       \* education_max_per_scan
    PerSetup,     \* education_max_per_setup_per_scan, doubled in the retry
    Advised,      \* GEMINI_API_KEY is set
    OwnEngine,    \* <SETUP>_OWN_ENGINE_ENABLED
    ChartEnabled, \* SETTINGS.chart_enabled: without it no chart is rendered
    ChartWatch,   \* the chart of the final watch can be fetched and rendered
    Stale,        \* a confirming candle may be too old when it is judged
    Expires,      \* the run may outlive expires_at
    MaxSendFails, MaxChartFails, MaxDbFails, MaxCrashes,    \* faults a run may meet
    MaxRefreshes                            \* detections in the zone of a live chain

ASSUME ConfirmationAssumption ==
    /\ {Cap, Seats, EduMax, PerSetup, MaxSendFails, MaxChartFails, MaxDbFails,
        MaxCrashes, MaxRefreshes} \subseteq Nat
    /\ {Advised, OwnEngine, ChartEnabled, ChartWatch, Stale, Expires} \subseteq BOOLEAN
    /\ ChartWatch => ChartEnabled

VARIABLES
    monitor,    \* the pass: where it is, the copies it took, the one in hand
    scan,       \* the discovery scan: where it is, its budgets, its queue
    objs,       \* the candidate objects the scan made, shared with the advisor
    minted,     \* ids the detectors have used
    advising,   \* ids whose advisory call is in flight
    signals,    \* the signals table: the state of a confirmation and its plan
    said,       \* what the channel saw: confirmations posted, whether as a text
                \* alone, the plan of the last; whether it refused one that passes
                \* for published ("lost")
    faults      \* faults met so far, and refreshes seen

vars == <<storeVars, monitor, scan, objs, minted, advising, signals, said, faults>>

world == <<scan, objs, minted, advising>>        \* what the monitor never touches

\* A signal row: absent, staged, armed, closed with a result, or cancelled
\* before ("RELEASED") or after ("UNFILLED") it was armed.
SignalState == {"NONE", "AWAITING", "CONFIRMED", "CLOSED", "RELEASED", "UNFILLED"}

MonitorIdle == [pc |-> "idle", todo |-> {}, copies |-> [i \in Ids |-> Absent],
                id |-> 0, c |-> Absent, was |-> Absent]
ScanIdle == [pc |-> "idle", id |-> 0, prior |-> 0, c |-> Absent, left |-> 0,
             used |-> 0, deferred |-> {}]

TypeOK ==
    /\ StoreTypeOK
    /\ monitor \in [pc : {"idle", "pick", "judge", "release", "stage", "gate", "send",
                          "receipt", "mark", "final"},
                    todo : SUBSET Ids, copies : [Ids -> Candidate],
                    id : Ids \cup {0}, c : Candidate, was : Candidate]
    /\ scan \in [pc : {"idle", "detect", "absorb", "note", "add", "supersede", "purge",
                       "educate", "suppressed", "retry"},
                 id : Ids \cup {0}, prior : Ids \cup {0}, c : Candidate,
                 left : Nat, used : Nat, deferred : SUBSET Ids]
    /\ objs \in [Ids -> Candidate]
    /\ minted \subseteq Ids
    /\ advising \subseteq Ids
    /\ signals \in [Ids -> [state : SignalState, plan : 0..MaxPlan]]
    /\ said \in [Ids -> [posts : Nat, text : BOOLEAN, plan : 0..MaxPlan, lost : BOOLEAN]]
    /\ faults \in [send : Nat, chart : Nat, db : Nat, crash : Nat, refresh : Nat]

Init ==
    /\ StoreInit
    /\ monitor = MonitorIdle
    /\ scan = ScanIdle
    /\ objs = [i \in Ids |-> Absent]
    /\ minted = {}
    /\ advising = {}
    /\ signals = [i \in Ids |-> [state |-> "NONE", plan |-> 0]]
    /\ said = [i \in Ids |-> [posts |-> 0, text |-> FALSE, plan |-> 0, lost |-> FALSE]]
    /\ faults = [send |-> 0, chart |-> 0, db |-> 0, crash |-> 0, refresh |-> 0]

\* The same pipeline met later: the candidates of ids are alerted and watched,
\* their advisory calls may still be in flight, no scan is under way.
WatchedInit(ids) == \E plans \in [ids -> Plans] :
    LET c == [i \in Ids |-> IF i \notin ids THEN Absent
                           ELSE [Absent EXCEPT !.status = "EDUCATIONAL", !.alerted = TRUE,
                                               !.plan = plans[i]]] IN
    /\ table = [i \in Ids |-> [status |-> c[i].status, c |-> c[i]]]
    /\ cache = [loaded |-> FALSE, rows |-> [i \in Ids |-> Absent]]
    /\ pending = [t \in Threads |-> NoWrite]
    /\ expired = {}
    /\ monitor = MonitorIdle
    /\ scan = ScanIdle
    /\ advising \in IF Advised THEN SUBSET ids ELSE {{}}
    /\ objs = [i \in Ids |-> IF i \in advising THEN c[i] ELSE Absent]
    /\ minted = ids
    /\ signals = [i \in Ids |-> [state |-> "NONE", plan |-> 0]]
    /\ said = [i \in Ids |-> [posts |-> 0, text |-> FALSE, plan |-> 0, lost |-> FALSE]]
    /\ faults = [send |-> 0, chart |-> 0, db |-> 0, crash |-> 0, refresh |-> 0]

-----------------------------------------------------------------------------
(* The signals table.                                                        *)

\* has_open_pre_tp1_signal: armed and without a result yet.
OpenSignals == {i \in Ids : signals[i].state = "CONFIRMED"}
AtCapacity_OffByOne == Cardinality(OpenSignals) > Cap
AtCapacity == Cardinality(OpenSignals) >= Cap

\* recent_geometry_duplicate: a confirmed row, open or closed, with this plan.
Twin_OpenOnly(plan) == \E i \in OpenSignals : signals[i].plan = plan
Twin(plan) == \E i \in Ids : signals[i].state \in {"CONFIRMED", "CLOSED"}
                             /\ signals[i].plan = plan

Tracked(i) == signals[i].state \in {"CONFIRMED", "CLOSED", "UNFILLED"}

\* is_confirmation_published.
Published(i) == signals[i].state \in {"CONFIRMED", "CLOSED"}

\* The trade monitors close an armed signal or cancel it unfilled.
Close(i, state) ==
    /\ signals[i].state = "CONFIRMED"
    /\ signals' = [signals EXCEPT ![i].state = state]
    /\ UNCHANGED <<storeVars, monitor, world, said, faults>>

-----------------------------------------------------------------------------
(* The monitor pass (monitor_candidates). A step ends where the pass talks    *)
(* to the database or to Telegram; other threads run in between.              *)

DbFault == /\ faults.db < MaxDbFails
           /\ faults' = [faults EXCEPT !.db = @ + 1]

\* Once one component of the confirmation is public the pass will not let it
\* expire or be invalidated.
InProgress(c) == c.complete /\ c.receipt # "none"

\* The candidate in hand becomes c and the pass goes on at pc.
Hand(pc, c) == monitor' = [monitor EXCEPT !.pc = pc, !.c = c]

\* On to the next candidate; the pass ends with the last.
NextCandidate ==
    monitor' = IF monitor.todo = {} THEN MonitorIdle
               ELSE [monitor EXCEPT !.pc = "pick", !.id = 0, !.c = Absent, !.was = Absent]

At(pc) == monitor.pc = pc /\ Settled("monitor")

BeginPass == \E refresh \in BOOLEAN :
    /\ At("idle")
    /\ Load(refresh)
    /\ LET rows == Snapshot(refresh) IN
       /\ Active(rows) # {}
       /\ monitor' = [MonitorIdle EXCEPT !.pc = "pick", !.todo = Active(rows),
                        !.copies = [i \in Ids |-> IF i \in Active(rows) THEN rows[i] ELSE Absent]]
    /\ UNCHANGED <<world, signals, said, faults>>

\* enforce_confirmed_snapshot: a frozen plan is put back before anything looks
\* at it.
Enforced(c) == IF c.frozen # 0 THEN [c EXCEPT !.plan = c.frozen] ELSE c

Pick(i) ==
    /\ At("pick")
    /\ i \in monitor.todo
    /\ monitor' = [monitor EXCEPT !.pc = "judge", !.todo = @ \ {i},
                     !.copies[i] = Absent, !.id = i,
                     !.c = Enforced(monitor.copies[i]), !.was = monitor.copies[i]]
    /\ UNCHANGED <<storeVars, world, signals, said, faults>>

\* No price and nothing public: the candidate waits for the next pass.
SkipUnpriced ==
    /\ At("judge")
    /\ ~InProgress(monitor.c)
    /\ NextCandidate
    /\ UNCHANGED <<storeVars, world, signals, said, faults>>

\* Before the verdict a pass may write its copy as it is (a live-break note), or
\* with the stop of a plan nothing froze lifted out of the zone.
Heal ==
    /\ At("judge")
    /\ ~monitor.c.complete
    /\ \E p \in IF monitor.c.frozen = 0 THEN Plans ELSE {monitor.c.plan} :
          LET c == [monitor.c EXCEPT !.plan = p] IN
          /\ Update("monitor", monitor.id, c)
          /\ Hand("judge", c)
    /\ UNCHANGED <<world, signals, said, faults>>

\* The chain is over: the row is written first, the staged signal is released
\* in a transaction of its own.
CloseChain(status) ==
    LET c == [monitor.c EXCEPT !.status = status] IN
    /\ Update("monitor", monitor.id, c)
    /\ Hand("release", c)
    /\ UNCHANGED <<world, signals, said, faults>>

Expire ==
    /\ At("judge")
    /\ ~InProgress(monitor.c)
    /\ monitor.id \in expired
    /\ CloseChain("EXPIRED")

\* is_invalidated, for the market's reasons; also after it was complete.
Invalidate ==
    /\ At("judge")
    /\ ~InProgress(monitor.c)
    /\ CloseChain("CANCELLED")

\* The break was reclaimed or the zone is out of reach: only before the
\* technical confirmation is complete, whatever is public.
LosePremise ==
    /\ At("judge")
    /\ ~monitor.c.complete
    /\ CloseChain("CANCELLED")

\* cancel_staged_confirmation; its failure is swallowed.
Released_AnyState(i) == [signals EXCEPT ![i].state = "RELEASED"]
Released(i) == IF signals[i].state = "AWAITING"
               THEN [signals EXCEPT ![i].state = "RELEASED"] ELSE signals

Release ==
    /\ At("release")
    /\ \/ signals' = Released(monitor.id) /\ UNCHANGED faults
       \/ DbFault /\ UNCHANGED signals
    /\ NextCandidate
    /\ UNCHANGED <<storeVars, world, said>>

\* freeze_confirmed_snapshot.
Frozen(c) == IF c.frozen = 0 THEN [c EXCEPT !.frozen = c.plan] ELSE c

\* The final watch, before the verdict. Stage A is a text, once; stage B
\* freezes the plan, renders its chart and posts it, each of which may fail.
Warned(c, stage) == [c EXCEPT !.warned = stage, !.status = "APPROACHING"]
Watched(c) ==
    {c} \cup IF c.complete THEN {} ELSE
        {Warned(c, IF c.warned = 2 THEN 2 ELSE 1)}
        \cup IF ChartWatch /\ c.warned < 2 THEN {Frozen(c), Warned(Frozen(c), 2)} ELSE {}

\* What a verdict leaves: both engines move the entry to the close they judge,
\* a frozen plan included (only the targets of a frozen plan stay); a retry of a
\* complete confirmation moves nothing.
NewPlans_Rebased(c) == Plans
NewPlans(c) == IF c.complete THEN {c.plan} ELSE Plans

Reject ==
    /\ At("judge")
    /\ ~monitor.c.complete
    /\ \E c \in Watched(monitor.c), plan \in NewPlans(monitor.c) :
          Hand("final", [c EXCEPT !.plan = plan])
    /\ UNCHANGED <<storeVars, world, signals, said, faults>>

Confirmed(c, plan) == [c EXCEPT !.status = "CONFIRMED", !.complete = TRUE, !.plan = plan]

Confirm ==
    /\ At("judge")
    /\ \E c \in Watched(monitor.c), plan \in NewPlans(monitor.c) :
          Hand("stage", Frozen(Confirmed(c, plan)))
    /\ UNCHANGED <<storeVars, world, signals, said, faults>>

\* The setup's own engine says wait after the verdict has stamped the
\* candidate: it goes to the final write as it is.
Veto ==
    /\ OwnEngine
    /\ At("judge")
    /\ \E c \in Watched(monitor.c), plan \in NewPlans(monitor.c) :
          Hand("final", Confirmed(c, plan))
    /\ UNCHANGED <<storeVars, world, signals, said, faults>>

\* The points repeat a confirmed signal: cancelled without a word.
DropTwin ==
    /\ At("stage")
    /\ ~monitor.c.staged
    /\ Twin(monitor.c.plan)
    /\ Update("monitor", monitor.id, [monitor.c EXCEPT !.status = "CANCELLED"])
    /\ NextCandidate
    /\ UNCHANGED <<world, signals, said, faults>>

\* _r62_reset_stale: the confirming candle is too old, the chain is disarmed
\* and stays under watch.
DisarmStale ==
    /\ Stale
    /\ At("stage")
    /\ (~monitor.c.staged => ~Twin(monitor.c.plan))
    /\ Update("monitor", monitor.id,
              [monitor.c EXCEPT !.status = "APPROACHING", !.complete = FALSE])
    /\ NextCandidate
    /\ UNCHANGED <<world, signals, said, faults>>

\* save_confirmed_signal stages the signal; a row that exists is left as it
\* is, an occupied cap or a twin refuses it.
Stage ==
    LET i == monitor.id IN
    /\ At("stage")
    /\ (~monitor.c.staged => ~Twin(monitor.c.plan))
    /\ \/ signals[i].state # "NONE" /\ UNCHANGED signals
       \/ /\ signals[i].state = "NONE"
          /\ ~AtCapacity
          /\ ~Twin(monitor.c.plan)
          /\ signals' = [signals EXCEPT ![i] = [state |-> "AWAITING", plan |-> monitor.c.plan]]
    /\ Hand("gate", [monitor.c EXCEPT !.staged = TRUE])
    /\ UNCHANGED <<storeVars, world, said, faults>>

\* The stage failed: a chain staged before is retried, a new one is cancelled.
Unstaged_Rejected(c) == [c EXCEPT !.status = "REJECTED"]
Unstaged(c) == IF c.staged \/ InProgress(monitor.was) THEN [c EXCEPT !.status = "APPROACHING"]
               ELSE [c EXCEPT !.status = "CANCELLED"]

\* The cap, a twin, or the portfolio guard at any time.
RefuseStage ==
    /\ At("stage")
    /\ (~monitor.c.staged => ~Twin(monitor.c.plan))
    /\ signals[monitor.id].state = "NONE"
    /\ Hand("final", Unstaged(monitor.c))
    /\ UNCHANGED <<storeVars, world, signals, said, faults>>

Gate_Blind ==
    /\ At("gate")
    /\ Hand("send", monitor.c)
    /\ UNCHANGED <<storeVars, world, signals, said, faults>>
Gate ==
    /\ At("gate")
    /\ IF Published(monitor.id) THEN Hand("final", [monitor.c EXCEPT !.status = "CONFIRMED"])
       ELSE Hand("send", monitor.c)
    /\ UNCHANGED <<storeVars, world, signals, said, faults>>

\* The signal is armed already, by its text: the chart is put under it when it
\* can be rendered, and the candidate is written (send_confirmed_photo_followup).
FollowUp ==
    LET c == [monitor.c EXCEPT !.status = "CONFIRMED", !.receipt = "chart"] IN
    /\ At("gate")
    /\ Published(monitor.id)
    /\ monitor.c.receipt = "text"
    /\ ChartEnabled
    /\ Update("monitor", monitor.id, c)
    /\ Hand("final", c)
    /\ UNCHANGED <<world, signals, said, faults>>

(* send_confirmed. After a stage-B chart the post is a reply to it, with the   *)
(* levels frozen there, and renders nothing. Any other post waits for a chart  *)
(* of its own, for TextAfter attempts; then the text goes alone. Only a chart  *)
(* that was posted is not posted again.                                        *)

Reply(c) == c.warned = 2 /\ c.receipt = "none"
Shown(c) == IF Reply(c) THEN Enforced(c) ELSE c
Posted(i, c) == [said EXCEPT ![i].posts = @ + 1, ![i].plan = c.plan]

\* It returned True: the pass stores the flags, and goes on to arm the signal.
Sent(c, receipt) == [c EXCEPT !.receipt = receipt, !.status = "APPROACHING"]

\* It returned False: to be retried.
NotSent_Confirmed(c) == [c EXCEPT !.status = "CONFIRMED"]
NotSent(c) == [c EXCEPT !.status = "APPROACHING"]

Attempted(c) == [c EXCEPT !.tries = IF @ < TextAfter THEN @ + 1 ELSE @]

\* What Telegram refuses and what cannot be fetched, rendered or worded; a
\* chart that is switched off never is.
Refused(f) == [f EXCEPT !.send = @ + 1]
CanRefuse == faults.send < MaxSendFails
Unrendered(f) == [f EXCEPT !.chart = IF ChartEnabled THEN @ + 1 ELSE 1]
CanFailToRender == ChartEnabled => faults.chart < MaxChartFails

\* The reply or the chart is posted, or the chart was before.
Send_Confirmed == LET c == Shown(monitor.c) IN
    /\ At("send")
    /\ Reply(c) \/ ChartEnabled \/ c.receipt = "chart"
    /\ said' = IF c.receipt = "chart" THEN said ELSE Posted(monitor.id, c)
    /\ Hand("receipt", [Sent(c, "chart") EXCEPT !.status = "CONFIRMED"])
    /\ UNCHANGED <<storeVars, world, signals, faults>>
Send_Repeats == LET c == Shown(monitor.c) IN
    /\ At("send")
    /\ Reply(c) \/ ChartEnabled \/ c.receipt = "chart"
    /\ said' = Posted(monitor.id, c)
    /\ Hand("receipt", Sent(c, "chart"))
    /\ UNCHANGED <<storeVars, world, signals, faults>>
Send == LET c == Shown(monitor.c) IN
    /\ At("send")
    /\ Reply(c) \/ ChartEnabled \/ c.receipt = "chart"
    /\ said' = IF c.receipt = "chart" THEN said ELSE Posted(monitor.id, c)
    /\ Hand("receipt", Sent(c, "chart"))
    /\ UNCHANGED <<storeVars, world, signals, faults>>

\* The rendered chart is refused: that is printed, and the confirmation passes
\* for published.
SendRefused == LET c == monitor.c IN
    /\ At("send")
    /\ ~Reply(c) /\ ChartEnabled /\ c.receipt # "chart"
    /\ CanRefuse
    /\ faults' = Refused(faults)
    /\ said' = [said EXCEPT ![monitor.id].lost = TRUE]
    /\ Hand("receipt", Sent(c, IF c.receipt = "none" THEN "lost" ELSE c.receipt))
    /\ UNCHANGED <<storeVars, world, signals>>

\* The last attempt to render fails and the text is posted alone.
TextDue(c) == ~Reply(c) /\ c.receipt = "none" /\ Attempted(c).tries = TextAfter

SendText == LET c == monitor.c IN
    /\ At("send")
    /\ TextDue(c)
    /\ CanFailToRender
    /\ faults' = Unrendered(faults)
    /\ said' = [Posted(monitor.id, c) EXCEPT ![monitor.id].text = TRUE]
    /\ Hand("receipt", Sent(Attempted(c), "text"))
    /\ UNCHANGED <<storeVars, world, signals>>

\* The reply is refused, the chart is not rendered and the text is not due, or
\* the text is refused.
SendFails_Armed ==
    LET c == Shown(monitor.c) IN
    /\ At("send")
    /\ \/ Reply(c) /\ CanRefuse /\ faults' = Refused(faults)
       \/ ~Reply(c) /\ CanFailToRender /\ faults' = Unrendered(faults)
    /\ Hand("mark", c)
    /\ UNCHANGED <<storeVars, world, signals, said>>
SendFails ==
    LET c == Shown(monitor.c) IN
    /\ At("send")
    /\ \/ /\ Reply(c)
          /\ CanRefuse
          /\ faults' = Refused(faults)
          /\ Hand("final", NotSent(c))
       \/ /\ ~Reply(c) /\ c.receipt # "chart"
          /\ CanFailToRender
          /\ \/ ~TextDue(c) /\ faults' = Unrendered(faults)
             \/ TextDue(c) /\ CanRefuse /\ faults' = Refused(Unrendered(faults))
          /\ Hand("final", NotSent(Attempted(c)))
    /\ UNCHANGED <<storeVars, world, signals, said>>

\* The receipts are made durable before the gate is opened.
KeepReceipt ==
    /\ At("receipt")
    /\ Update("monitor", monitor.id, monitor.c)
    /\ Hand("mark", monitor.c)
    /\ UNCHANGED <<world, signals, said, faults>>

\* mark_confirmation_published: an ineligible row raises, and so may
\* record_telegram_event after the commit; either way the chain is retried.
Mark ==
    LET i == monitor.id
        eligible == signals[i].state \in {"AWAITING", "CONFIRMED"} IN
    /\ At("mark")
    /\ signals' = IF signals[i].state = "AWAITING"
                  THEN [signals EXCEPT ![i].state = "CONFIRMED"] ELSE signals
    /\ \/ /\ eligible
          /\ Hand("final", [monitor.c EXCEPT !.status = "CONFIRMED"])
          /\ UNCHANGED faults
       \/ /\ ~eligible
          /\ Hand("final", monitor.c)
          /\ UNCHANGED faults
       \/ eligible /\ DbFault /\ Hand("final", monitor.c)
    /\ UNCHANGED <<storeVars, world, said>>

\* The final write, only of a candidate that changed.
Final ==
    /\ At("final")
    /\ IF monitor.c = monitor.was THEN UNCHANGED storeVars
       ELSE Update("monitor", monitor.id, monitor.c)
    /\ NextCandidate
    /\ UNCHANGED <<world, signals, said, faults>>

\* An exception under the pass, of the database or, at the send step, of the
\* ladder or the caption: where it goes depends on who catches it.
PassFault ==
    /\ Settled("monitor")
    /\ DbFault
    /\ \/ /\ \/ monitor.pc \in {"judge", "stage", "final"}
             \/ monitor.pc = "send" /\ ~Reply(monitor.c)
          /\ NextCandidate
       \/ /\ monitor.pc = "stage"
          /\ Hand("final", Unstaged(monitor.c))
       \/ /\ monitor.pc \in {"gate", "receipt", "mark"}
          /\ Hand("final", [monitor.c EXCEPT !.status = "APPROACHING"])
    /\ UNCHANGED <<storeVars, world, signals, said>>

Monitor ==
    \/ BeginPass
    \/ \E i \in Ids : Pick(i)
    \/ SkipUnpriced \/ Expire \/ Invalidate \/ Heal \/ LosePremise
    \/ Release \/ Reject \/ Confirm \/ Veto \/ DropTwin \/ DisarmStale
    \/ Stage \/ RefuseStage \/ Gate \/ FollowUp
    \/ Send \/ SendRefused \/ SendText \/ SendFails
    \/ KeepReceipt \/ Mark \/ Final \/ PassFault
    \/ CacheCandidate("monitor") /\ UNCHANGED <<monitor, world, signals, said, faults>>

-----------------------------------------------------------------------------
(* The discovery scan (run_discovery_scan) on the main thread. It takes no    *)
(* lock the monitor takes.                                                    *)

rest == <<monitor, signals, said, faults>>       \* what the scan never touches

InScan(pc) == scan.pc = pc /\ Settled("scan")

\* Scans go on for ever; only one that can find something is of interest.
BeginScan ==
    /\ InScan("idle")
    /\ minted # Ids \/ faults.refresh < MaxRefreshes
    /\ scan' = [ScanIdle EXCEPT !.pc = "detect", !.left = EduMax]
    /\ UNCHANGED <<storeVars, objs, minted, advising, rest>>

\* _budget_ok: the setup's share, doubled in the retry, and the pool.
BudgetOk(share) == scan.used < share /\ scan.left > 0

\* The scan reads a live row of its own lineage or zone to rewrite it later.
Copy(h, c, pc) ==
    /\ h \in LiveRows
    /\ scan' = [scan EXCEPT !.pc = pc, !.prior = h, !.c = c]
    /\ UNCHANGED storeVars

\* absorb_update_into_chain: a public chain keeps its plan, a zone that moved
\* re-arms the final watch and drops the frozen plan.
Absorbed(c, plan, moved) ==
    LET rearmed == IF moved /\ c.warned > 0
                   THEN [c EXCEPT !.warned = 0, !.status = "EDUCATIONAL", !.frozen = 0]
                   ELSE c
    IN IF c.warned > 0 \/ c.alerted THEN rearmed ELSE [rearmed EXCEPT !.plan = plan]

\* A detection in the zone of a live chain refreshes that chain.
ReadHolder(h) ==
    /\ InScan("detect")
    /\ faults.refresh < MaxRefreshes
    /\ faults' = [faults EXCEPT !.refresh = @ + 1]
    /\ \E plan \in Plans, moved \in BOOLEAN :
          Copy(h, Absorbed(table[h].c, plan, moved), "absorb")
    /\ UNCHANGED <<objs, minted, advising, monitor, signals, said>>

\* The first write of a copy, and the second one after the Telegram calls.
Rewrite(pc, next) ==
    /\ InScan(pc)
    /\ Update("scan", scan.prior, scan.c)
    /\ scan' = [scan EXCEPT !.pc = next]
    /\ UNCHANGED <<objs, minted, advising, rest>>

RewriteAgain(pc, next) ==
    /\ InScan(pc)
    /\ \/ Update("scan", scan.prior, scan.c) \/ UNCHANGED storeVars
    /\ scan' = [scan EXCEPT !.pc = next, !.prior = 0, !.c = Absent]
    /\ UNCHANGED <<objs, minted, advising, rest>>

Absorb == Rewrite("absorb", "note")
AbsorbNote == RewriteAgain("note", "detect")

\* A detection of a new zone: a free seat, and then the cap decides whether it
\* is a candidate or only an alert, the budget whether it waits.
Detect(i, plan) ==
    /\ InScan("detect")
    /\ i \notin minted
    /\ Cardinality(LiveRows) < Seats
    /\ minted' = minted \cup {i}
    /\ objs' = [objs EXCEPT ![i] = [Absent EXCEPT !.status = "EDUCATIONAL", !.plan = plan]]
    /\ scan' = IF AtCapacity THEN [scan EXCEPT !.pc = "suppressed", !.id = i]
               ELSE IF BudgetOk(PerSetup) THEN [scan EXCEPT !.pc = "add", !.id = i]
               ELSE [scan EXCEPT !.deferred = @ \cup {i}]
    /\ UNCHANGED <<storeVars, advising, rest>>

\* supersede_alert_lineage, and the deletion of the prior's posts.
ReadPrior(h) ==
    /\ InScan("add")
    /\ Copy(h, [table[h].c EXCEPT !.status = "SUPERSEDED"], "supersede")
    /\ UNCHANGED <<objs, minted, advising, rest>>

Supersede == Rewrite("supersede", "purge")
Purge == RewriteAgain("purge", "add")

BackToDetect == scan' = [scan EXCEPT !.pc = "detect", !.id = 0]

\* add_candidate, then the advisory call leaves with the same object.
Add ==
    LET i == scan.id IN
    /\ InScan("add")
    /\ Insert("scan", i, objs[i])
    /\ scan' = [scan EXCEPT !.pc = "educate"]
    /\ advising' = IF Advised THEN advising \cup {i} ELSE advising
    /\ UNCHANGED <<objs, minted, rest>>

\* add_candidate found a live row of the lineage.
AddRefused ==
    /\ InScan("add")
    /\ LiveRows # {}
    /\ BackToDetect
    /\ UNCHANGED <<storeVars, objs, minted, advising, rest>>

Spent == [scan EXCEPT !.left = @ - 1, !.used = @ + 1]

\* _educate: the alert is rendered and posted, then its message id is written
\* with the whole object, row or no row.
Alert ==
    LET i == scan.id
        c == [objs[i] EXCEPT !.alerted = TRUE] IN
    /\ InScan("educate") \/ InScan("suppressed")
    /\ BudgetOk(PerSetup)
    /\ Update("scan", i, c)
    /\ objs' = [objs EXCEPT ![i] = c]
    /\ scan' = [Spent EXCEPT !.pc = "detect", !.id = 0]
    /\ UNCHANGED <<minted, advising, rest>>

\* The post failed and its budget is spent: a candidate waits for the end of
\* the scan, an alert of a full setup is forgotten.
AfterPost(share) == IF BudgetOk(share) THEN Spent ELSE scan

AlertFails ==
    /\ InScan("educate") \/ InScan("suppressed")
    /\ scan' = [AfterPost(PerSetup) EXCEPT !.pc = "detect", !.id = 0,
                  !.deferred = IF scan.pc = "educate" THEN @ \cup {scan.id} ELSE @]
    /\ UNCHANGED <<storeVars, objs, minted, advising, rest>>

LastDetection ==
    /\ InScan("detect")
    /\ scan' = [scan EXCEPT !.pc = "retry"]
    /\ UNCHANGED <<storeVars, objs, minted, advising, rest>>

\* The retry at the end of the scan: one more post, or UNPOSTED.
Retry(i) ==
    LET c == [objs[i] EXCEPT !.alerted = TRUE] IN
    /\ InScan("retry")
    /\ i \in scan.deferred
    /\ \/ /\ BudgetOk(2 * PerSetup)
          /\ Update("scan", i, c)
          /\ objs' = [objs EXCEPT ![i] = c]
          /\ scan' = [Spent EXCEPT !.deferred = @ \ {i}]
       \/ /\ SetStatus("scan", i, "UNPOSTED")
          /\ scan' = [AfterPost(2 * PerSetup) EXCEPT !.deferred = @ \ {i}]
          /\ UNCHANGED objs
    /\ UNCHANGED <<minted, advising, rest>>

\* Resolved rows old enough to go are of no thread's concern any more.
InUse == advising \cup {monitor.id} \cup monitor.todo
Deletable == {i \in Ids : table[i].status \in Resolved \cup {"CONFIRMED"}} \ InUse

EndScan == \E old \in SUBSET Deletable :
    /\ InScan("retry")
    /\ scan.deferred = {}
    /\ Cleanup(old)
    /\ scan' = ScanIdle
    /\ objs' = [i \in Ids |-> IF i \in advising THEN objs[i] ELSE Absent]
    /\ UNCHANGED <<minted, advising, rest>>

\* The advisory call returns: its text goes out with the whole object, as the
\* scan last left it. A failed call writes nothing.
Advise(i) ==
    /\ i \in advising
    /\ Settled("advisor")
    /\ \/ Update("advisor", i, objs[i]) \/ UNCHANGED storeVars
    /\ advising' = advising \ {i}
    /\ objs' = IF scan.pc = "idle" THEN [objs EXCEPT ![i] = Absent] ELSE objs
    /\ UNCHANGED <<scan, minted, rest>>

Scan ==
    \/ BeginScan \/ LastDetection \/ EndScan
    \/ \E i \in Ids : ReadHolder(i) \/ ReadPrior(i) \/ Retry(i) \/ Advise(i)
    \/ \E i \in Ids, plan \in Plans : Detect(i, plan)
    \/ Absorb \/ AbsorbNote \/ Supersede \/ Purge
    \/ Add \/ AddRefused \/ Alert \/ AlertFails
    \/ \E t \in {"scan", "advisor"} :
          CacheCandidate(t) /\ UNCHANGED <<world, rest>>

-----------------------------------------------------------------------------
(* The world.                                                                 *)

TimeOut(i) ==
    /\ Expires
    /\ i \in minted \ expired
    /\ expired' = expired \cup {i}
    /\ UNCHANGED <<table, cache, pending, world, rest>>

\* The process dies and restarts: only the database and the channel remember.
Crash ==
    /\ faults.crash < MaxCrashes
    /\ faults' = [faults EXCEPT !.crash = @ + 1]
    /\ StoreCrash
    /\ monitor' = MonitorIdle
    /\ scan' = ScanIdle
    /\ objs' = [i \in Ids |-> Absent]
    /\ advising' = {}
    /\ UNCHANGED <<minted, signals, said>>

World ==
    \/ \E i \in Ids : TimeOut(i) \/ Close(i, "CLOSED") \/ Close(i, "UNFILLED")
    \/ Crash

Next == Monitor \/ Scan \/ World

Spec == Init /\ [][Next]_vars

\* Both loops that run a monitor pass sleep and start again for ever.
Fairness == WF_vars(Monitor)

-----------------------------------------------------------------------------
(* What the pipeline promises.                                                *)

\* A signal is armed only after its confirmation was posted, or after the channel
\* refused a rendered chart, which passes for published: no other failure, crash
\* or older copy arms one.
ArmedWasAnnounced == \A i \in Ids :
    Tracked(i) => said[i].posts > 0 \/ said[i].lost

\* No post was refused and none waited for its chart.
Unhindered == faults.send = 0 /\ faults.chart = 0

\* Every posted confirmation is tracked, or the pass is about to arm it,
\* whatever older copy another thread writes back. Only while no post failed or
\* waited for its chart: after that a withdrawn chain can be written back by an
\* older copy of the advisor or the scan, and its signal, posted then, is never
\* armed.
AnnouncedIsTracked == \A i \in Ids :
    said[i].posts > 0 /\ Unhindered =>
        \/ Tracked(i)
        \/ monitor.id = i /\ monitor.pc \in {"receipt", "mark"}

\* A signal the trade monitors follow, or followed to a result, was posted
\* once; only one that was withdrawn can be posted again by an older copy.
OneAnnouncement == \A i \in Ids :
    said[i].posts > 1 => signals[i].state \in {"RELEASED", "UNFILLED"}

\* However often a post fails and is retried, the plan the channel saw is the
\* plan that was staged and will be traded, as long as the database keeps what
\* the pass wrote. It is so only for a plan nothing froze before it was
\* confirmed: neither a stage-B chart nor a confirmation disarmed for its age.
PlanAsAnnounced == \A i \in Ids :
    said[i].posts = 1 /\ faults.db = 0 /\ faults.crash = 0
        => said[i].plan = signals[i].plan

\* A candidate is stored as confirmed only when its signal is armed or was, in
\* a chain whose setup has no engine of its own: that veto leaves it CONFIRMED.
ConfirmedRowIsTracked == \A i \in Ids :
    table[i].status = "CONFIRMED" => Tracked(i)

\* A failing database call by itself never posts a confirmation twice, unless it
\* went out as a text: the chart rendered for the retry is then a second post.
OneFaultOnePost == \A i \in Ids :
    said[i].posts > 1 =>
        \/ faults.crash > 0 \/ faults.db > 1
        \/ faults.db > 0 /\ said[i].text

\* A confirmation of which something is public, or passes for it, is finished
\* once a chart can be rendered again, unless it was disarmed for its age.
PublicIsFinished == \A i \in Ids :
    table[i].status \in Live /\ InProgress(table[i].c)
        ~> Tracked(i) \/ ~table[i].c.complete

\* The cap of open positions holds across staging, posting and arming.
CapacityKept == Cardinality(OpenSignals) <= Cap

\* Two confirmed signals never carry the same points.
NoTwins == \A i, j \in Ids :
    i # j /\ {signals[i].state, signals[j].state} \subseteq {"CONFIRMED", "CLOSED"}
        => signals[i].plan # signals[j].plan
=============================================================================
