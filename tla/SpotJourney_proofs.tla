-------------------------- MODULE SpotJourney_proofs --------------------------
(* The spot lane, for any number of geometries, codes, stages and sides, any   *)
(* number of refused posts, expired windows and restarts, with the recheck and *)
(* the line watch running or not.                                              *)
EXTENDS SpotJourney, TLAPS

\* What a thread holds at each of its steps.
Steps == {"idle", "judge", "post", "stamp", "mark", "book", "open", "alert", "rewrite",
          "send", "record", "speak", "hits", "hit", "score", "commit", "close", "free",
          "reset", "edges"}
Holds(t, pc) ==
    /\ pc \in {"post", "stamp", "mark", "book", "open"} =>
          t.shape \in Shapes /\ t.code \in Codes
    /\ pc \in {"rewrite", "send", "record", "speak"} =>
          t.slot \in Slots /\ t.stage \in Stages
    /\ pc \in {"send", "record"} => t.code \in Codes
    /\ pc \in {"hit", "score", "commit"} => t.rung \in 1..Rungs
    /\ pc \in {"hit", "score", "commit", "close", "free", "reset"} => t.code \in Codes
TaskOK(t) == t \in Task /\ Holds(t, t.pc)

Rests == {"idle", "judge", "alert", "hits", "edges"}
Trades == {"hit", "score", "commit", "close"}

\* A target is looked for, told and booked only for a position there is.
PositionOK ==
    /\ \A c \in Codes : positions[c].state # "none" => positions[c].shape \in Shapes
    /\ \A c \in Codes : due[c] # 0 => positions[c].state # "none"
    /\ lane["pass"].pc \in Trades => positions[lane["pass"].code].state # "none"

TypeInv == TypeOK /\ (\A l \in Lanes : TaskOK(lane[l])) /\ PositionOK

-----------------------------------------------------------------------------
(* The constants, and the edits of what a thread has in hand.                  *)

\* Which thread may publish.
LEMMA Threads ==
    /\ "pass" \in Lanes /\ "pass" \in Publishers
    /\ Publishers \subseteq Lanes
    /\ "recheck" \in Lanes => "recheck" \in Publishers
BY DEF Lanes, Publishers

\* What the constants allow: stages have a rank, targets a slot.
LEMMA Constants ==
    /\ Rungs \in Nat /\ ChartCap \in Nat /\ MaxUpsets \in Nat
    /\ 0 \notin Codes /\ 0 \notin Shapes
    /\ Breaks \subseteq Stages /\ "none" \notin Stages
    /\ \A stage \in Stages : Rank[stage] \in 0..4
    /\ \A r \in 1..Rungs : HitSlot[r] \in Slots
    /\ {"s1", "s2", "s3"} \subseteq Slots /\ "none" \notin Slots
<1>1. ASSUME NEW stage \in Stages PROVE Rank[stage] \in 0..4 /\ stage # "none"
  <2>1. stage \in {"TOUCH", "NEAR_BREAK", "RETEST", "BREAK_DOWN", "BREAK_UP"}
    BY SpotAssumption
  <2>2. Rank[stage] \in 1..4  BY <2>1 DEF Rank
  <2> QED BY <2>1, <2>2
<1>2. ASSUME NEW r \in 1..Rungs PROVE HitSlot[r] \in Slots
  <2>1. r = 1 \/ r = 2 \/ r = 3  BY SpotAssumption
  <2> QED BY <2>1 DEF HitSlot, Slots
<1>3. Breaks \subseteq Stages  BY DEF Breaks
<1>4. "none" \notin Slots /\ {"s1", "s2", "s3"} \subseteq Slots  BY DEF Slots
<1> QED BY <1>1, <1>2, <1>3, <1>4, SpotAssumption

\* The records nothing is in.
LEMMA Empty ==
    /\ Idle \in Task /\ TaskOK(Idle) /\ EmptyLedger \in Journey /\ NoEdge \in Edge
    /\ NoCopy \in [rows : [Sides -> Edge], changed : BOOLEAN, left : SUBSET Sides]
    /\ Nothing \in [Shapes -> Codes \cup {0}]
<1>1. NoEdge \in Edge  BY DEF NoEdge, Edge
<1>2. EmptyLedger \in Journey  BY DEF EmptyLedger, Journey
<1>3. Idle \in Task
  <2>1. 0 \in 0..Rungs  BY Constants
  <2> QED BY <2>1 DEF Idle, Task
<1>4. TaskOK(Idle)  BY <1>3 DEF Idle, TaskOK, Holds
<1> QED BY <1>1, <1>2, <1>3, <1>4 DEF NoCopy, Nothing

\* A thread that takes a task it may hold leaves every thread with one.
LEMMA Moved ==
    ASSUME TypeInv, NEW l \in Lanes, NEW t, TaskOK(t), lane' = [lane EXCEPT ![l] = t]
    PROVE  /\ lane' \in [Lanes -> Task] /\ \A k \in Lanes : TaskOK(lane'[k])
           /\ lane'[l] = t /\ \A k \in Lanes : k # l => lane'[k] = lane[k]
BY DEF TypeInv, TypeOK, TaskOK

\* The step of a task changes, the rest of it stays.
SameTask(n, t) ==
    /\ n.shape = t.shape /\ n.code = t.code /\ n.stage = t.stage /\ n.side = t.side
    /\ n.slot = t.slot /\ n.chart = t.chart /\ n.books = t.books /\ n.rung = t.rung

\* A task whose step changes holds what the new step asks for.
LEMMA Stepped ==
    ASSUME NEW t \in Task, NEW pc \in Steps, Holds(t, pc)
    PROVE  LET n == [t EXCEPT !.pc = pc] IN TaskOK(n) /\ n.pc = pc /\ SameTask(n, t)
<1> DEFINE n == [t EXCEPT !.pc = pc]
<1>1. n \in Task  BY DEF Task, Steps
<1>2. n.pc = pc /\ SameTask(n, t)  BY DEF Task, SameTask
<1> HIDE DEF n
<1>3. Holds(n, pc)  BY <1>2 DEF SameTask, Holds
<1> QED BY <1>1, <1>2, <1>3 DEF TaskOK, n

\* A thread goes on to its next step with the task it has.
LEMMA Went ==
    ASSUME TypeInv, NEW l \in Lanes, NEW pc \in Steps, Go(l, pc), Holds(lane[l], pc)
    PROVE  /\ lane' \in [Lanes -> Task] /\ \A k \in Lanes : TaskOK(lane'[k])
           /\ lane'[l].pc = pc /\ SameTask(lane'[l], lane[l])
           /\ \A k \in Lanes : k # l => lane'[k] = lane[k]
<1> DEFINE n == [lane[l] EXCEPT !.pc = pc]
<1>1. lane[l] \in Task  BY DEF TypeInv, TypeOK
<1>2. TaskOK(n) /\ n.pc = pc /\ SameTask(n, lane[l])  BY <1>1, Stepped
<1>3. lane' = [lane EXCEPT ![l] = n]  BY DEF Go
<1> HIDE DEF n
<1> QED BY <1>2, <1>3, Moved

\* Between two tasks a thread may hold anything.
LEMMA Resting == ASSUME NEW t PROVE \A pc \in Rests : Holds(t, pc) /\ pc \in Steps
BY DEF Rests, Holds, Steps

\* A thread that gives up its task holds none.
LEMMA Dropped ==
    ASSUME TypeInv, NEW l \in Lanes, NEW pc \in Rests, Drop(l, pc)
    PROVE  /\ lane' \in [Lanes -> Task] /\ \A k \in Lanes : TaskOK(lane'[k])
           /\ lane'[l] = [Idle EXCEPT !.pc = pc] /\ lane'[l].pc = pc
           /\ \A k \in Lanes : k # l => lane'[k] = lane[k]
<1>1. TaskOK([Idle EXCEPT !.pc = pc]) /\ [Idle EXCEPT !.pc = pc].pc = pc
  BY Empty, Resting, Stepped
<1>2. lane' = [lane EXCEPT ![l] = [Idle EXCEPT !.pc = pc]]  BY DEF Drop
<1> QED BY <1>1, <1>2, Moved

\* The positions and what is due of them stay in order while neither is written
\* and the spot pass takes up no target.
LEMMA PositionKept ==
    ASSUME TypeInv, UNCHANGED <<positions, due>>,
           \/ lane'["pass"] = lane["pass"]
           \/ lane'["pass"].pc \notin Trades
           \/ /\ lane["pass"].pc \in Trades
              /\ lane'["pass"].code = lane["pass"].code
    PROVE  PositionOK'
BY DEF TypeInv, PositionOK

\* So they do while one thread takes up something else.
LEMMA PositionUntouched ==
    ASSUME TypeInv, UNCHANGED <<positions, due>>, NEW l \in Lanes,
           lane'[l].pc \notin Trades, \A k \in Lanes : k # l => lane'[k] = lane[k]
    PROVE  PositionOK'
<1>1. lane'["pass"] = lane["pass"] \/ lane'["pass"].pc \notin Trades  BY Threads
<1> QED BY <1>1, PositionKept

-----------------------------------------------------------------------------
(* Confirmations keep the types.                                              *)

\* Nothing is known when the process is first started.
LEMMA TypeInit == Init => TypeInv
<1> SUFFICES ASSUME Init PROVE TypeInv  OBVIOUS
<1>1. \A l \in Lanes : lane[l] = Idle  BY DEF Init
<1>2. TypeOK
  <2>1. positions \in [Codes -> Position]  BY Constants DEF Init, Position
  <2>2. told \in [Codes -> Told]  BY DEF Init, Told
  <2>3. due \in [Codes -> 0..Rungs]  BY Constants DEF Init
  <2>6. spoken \in [Shapes \X Sides -> 0..4]
    <3>1. 0 \in 0..4  OBVIOUS
    <3> QED BY <3>1, Zenon DEF Init
  <2>4. faults \in [upsets : 0..MaxUpsets, crashed : BOOLEAN]  BY Constants DEF Init
  <2>5. lane \in [Lanes -> Task]  BY <1>1, Empty DEF Init
  <2> QED BY <2>1, <2>2, <2>3, <2>4, <2>5, <2>6, Empty DEF Init, TypeOK
<1> QED BY <1>1, <1>2, Threads, Empty DEF Init, TypeInv, PositionOK, Idle, Trades

\* A fault is counted up to its bound.
LEMMA FaultsTyped ==
    ASSUME TypeInv, NEW b \in BOOLEAN, UNCHANGED faults \/ Upset(b)
    PROVE  faults' \in [upsets : 0..MaxUpsets, crashed : BOOLEAN]
<1>1. faults \in [upsets : 0..MaxUpsets, crashed : BOOLEAN]  BY DEF TypeInv, TypeOK
<1>2. CASE Upset(b)
  <2>1. faults.upsets + 1 \in 0..MaxUpsets  BY <1>1, <1>2, Constants DEF Upset
  <2>2. (faults.crashed \/ b) \in BOOLEAN  OBVIOUS
  <2> QED BY <1>2, <2>1, <2>2 DEF Upset
<1> QED BY <1>1, <1>2

\* build_spot_candidate hands out typed codes.
LEMMA FindTyped ==
    ASSUME TypeInv, NEW l \in Publishers, NEW shapes \in SUBSET Shapes, Find(l, shapes)
    PROVE  /\ found' \in [Publishers -> [Shapes -> Codes \cup {0}]]
           /\ used' \subseteq Codes
<1>1. PICK codes \in [Shapes -> Codes \cup {0}] :
        /\ Named(shapes, codes)
        /\ found' = [found EXCEPT ![l] = codes]
        /\ used' = used \cup {codes[s] : s \in shapes}
  BY DEF Find
<1>2. {codes[s] : s \in shapes} \subseteq Codes
  BY <1>1, Constants DEF Named
<1> QED BY <1>1, <1>2 DEF TypeInv, TypeOK

\* The pass finds geometries, and may register an edge of one.
LEMMA TypePassBegin == ASSUME TypeInv, PassBegin PROVE TypeInv'
<1>1. PICK shapes \in PassFinds : Find("pass", shapes)  BY DEF PassBegin
<1>0. shapes \in SUBSET Shapes  BY DEF PassFinds, OwnCloses, LongFrameCloses, Strongest
<1>2. Go("pass", "judge")  BY DEF PassBegin
<1>3. /\ found' \in [Publishers -> [Shapes -> Codes \cup {0}]]
      /\ used' \subseteq Codes
  BY <1>0, <1>1, FindTyped, Threads
<1>4. /\ lane' \in [Lanes -> Task] /\ \A k \in Lanes : TaskOK(lane'[k])
      /\ lane'["pass"].pc = "judge"
  BY <1>2, Threads, Resting, Went DEF Rests
<1>5. pinned' \in BOOLEAN /\ edges' \in [Sides -> Edge]
  <2>1. ASSUME NEW e \in Edge, NEW moved \in BOOLEAN PROVE Upserted(e, moved) \in Edge
    BY DEF Upserted, Edge
  <2>2. pinned \in BOOLEAN /\ edges \in [Sides -> Edge]  BY DEF TypeInv, TypeOK
  <2>3. CASE UNCHANGED <<pinned, edges>>  BY <2>2, <2>3
  <2>4. ASSUME NEW s \in Sides, NEW moved \in BOOLEAN, pinned' = TRUE,
               edges' = [edges EXCEPT ![s] = Upserted(@, moved)]
        PROVE  pinned' \in BOOLEAN /\ edges' \in [Sides -> Edge]
    BY <2>1, <2>2, <2>4
  <2> QED BY <2>3, <2>4 DEF PassBegin
<1>6. PositionOK'
  BY <1>4, PositionKept DEF PassBegin, Trades
<1> QED BY <1>3, <1>4, <1>5, <1>6 DEF PassBegin, TypeInv, TypeOK, seen

\* The recheck finds the geometries of its open candle.
LEMMA TypeRecheckBegin == ASSUME TypeInv, "recheck" \in Lanes, RecheckBegin PROVE TypeInv'
<1>1. PICK shapes \in RecheckFinds : Find("recheck", shapes)  BY DEF RecheckBegin
<1>2. shapes \in SUBSET Shapes
  BY DEF RecheckFinds, OwnCloses, UrgentCloses, EarlyCloses, Strongest
<1>3. /\ found' \in [Publishers -> [Shapes -> Codes \cup {0}]]
      /\ used' \subseteq Codes
  BY <1>1, <1>2, FindTyped, Threads
<1>5. /\ lane' \in [Lanes -> Task] /\ \A k \in Lanes : TaskOK(lane'[k])
      /\ lane'["pass"] = lane["pass"]
  BY Threads, Resting, Went DEF RecheckBegin, Rests
<1>6. PositionOK'  BY <1>5, PositionKept DEF RecheckBegin, kv
<1> QED BY <1>3, <1>5, <1>6 DEF RecheckBegin, TypeInv, TypeOK, kv, seen

\* A geometry is taken up under the code it was found with.
LEMMA TypeJudge ==
    ASSUME TypeInv, NEW l \in Publishers, NEW s \in Shapes, Judge(l, s) PROVE TypeInv'
<1>0. l \in Lanes /\ found[l] \in [Shapes -> Codes \cup {0}] /\ found[l][s] \in Codes
  <2>1. found[l] \in [Shapes -> Codes \cup {0}]  BY DEF TypeInv, TypeOK
  <2> QED BY <2>1, Threads DEF Judge
<1>1. found' \in [Publishers -> [Shapes -> Codes \cup {0}]]
  BY <1>0 DEF Judge, TypeInv, TypeOK
<1>2. CASE UNCHANGED lane
  <2>1. PositionOK'  BY <1>2, PositionKept DEF Judge, kv
  <2> QED BY <1>1, <1>2, <2>1 DEF Judge, TypeInv, TypeOK, kv, seen
<1>3. ASSUME NEW books \in BOOLEAN,
             lane' = [lane EXCEPT ![l] = [Idle EXCEPT !.pc = "post", !.shape = s,
                                              !.code = found[l][s], !.books = books]]
      PROVE  TypeInv'
  <2> DEFINE t == [Idle EXCEPT !.pc = "post", !.shape = s, !.code = found[l][s],
                               !.books = books]
  <2>1. t \in Task /\ t.pc = "post" /\ t.shape = s /\ t.code = found[l][s]
    BY <1>0, Empty DEF Task, Idle
  <2>2. TaskOK(t)  BY <2>1, <1>0 DEF TaskOK, Holds
  <2> HIDE DEF t
  <2>3. /\ lane' \in [Lanes -> Task] /\ \A k \in Lanes : TaskOK(lane'[k])
        /\ lane'[l] = t /\ \A k \in Lanes : k # l => lane'[k] = lane[k]
    BY <1>0, <1>3, <2>2, Moved DEF t
  <2>4. PositionOK'
    BY <2>1, <2>3, <1>0, PositionUntouched DEF Judge, kv, Trades
  <2> QED BY <1>1, <2>3, <2>4 DEF Judge, TypeInv, TypeOK, kv, seen
<1> QED BY <1>2, <1>3 DEF Judge

\* The post of a confirmation, delivered, without its chart or refused.
LEMMA TypePost == ASSUME TypeInv, NEW l \in Publishers, Post(l) PROVE TypeInv'
<1>0. /\ l \in Lanes /\ TaskOK(lane[l]) /\ lane[l].pc = "post"
      /\ lane[l].shape \in Shapes /\ lane[l].code \in Codes
  BY Threads DEF TypeInv, Post, At, TaskOK, Holds
<1>1. faults' \in [upsets : 0..MaxUpsets, crashed : BOOLEAN]
  BY FaultsTyped DEF Post, Refused
<1>2. posted' \subseteq Publishers \X Shapes
  <2>1. posted \subseteq Publishers \X Shapes  BY DEF TypeInv, TypeOK
  <2>2. <<l, lane[l].shape>> \in Publishers \X Shapes  BY <1>0
  <2> QED BY <2>1, <2>2 DEF Post, seen
<1>3. told' \in [Codes -> Told]
  <2>1. ASSUME NEW photo \in BOOLEAN,
               told' = [told EXCEPT ![lane[l].code].confirmed = TRUE,
                                    ![lane[l].code].charts = @ + IF photo THEN 1 ELSE 0]
        PROVE  told' \in [Codes -> Told]
    <3> DEFINE n == told[lane[l].code].charts + IF photo THEN 1 ELSE 0
    <3>1. told[lane[l].code] \in Told  BY <1>0 DEF TypeInv, TypeOK
    <3>2. n \in Nat  BY <3>1 DEF Told
    <3>3. told' = [told EXCEPT ![lane[l].code] =
                     [told[lane[l].code] EXCEPT !.confirmed = TRUE, !.charts = n]]
      BY <2>1, <1>0 DEF TypeInv, TypeOK
    <3> HIDE DEF n
    <3>4. [told[lane[l].code] EXCEPT !.confirmed = TRUE, !.charts = n] \in Told
      BY <3>1, <3>2 DEF Told
    <3> QED BY <3>3, <3>4 DEF TypeInv, TypeOK
  <2> QED BY <2>1 DEF Post, seen, TypeInv, TypeOK
<1>4. /\ lane' \in [Lanes -> Task] /\ \A k \in Lanes : TaskOK(lane'[k])
      /\ lane'[l].pc \in {"stamp", "judge"} /\ \A k \in Lanes : k # l => lane'[k] = lane[k]
  <2>1. CASE Go(l, "stamp")
    <3>1. "stamp" \in Steps /\ Holds(lane[l], "stamp")  BY <1>0 DEF Holds, Steps
    <3> QED BY <1>0, <2>1, <3>1, Went
  <2>2. CASE Drop(l, "judge")
    BY <1>0, <2>2, Dropped DEF Idle, Rests
  <2> QED BY <2>1, <2>2 DEF Post, Missed
<1>5. PositionOK'
  BY <1>4, <1>0, PositionUntouched DEF Post, kv, Trades
<1> QED BY <1>1, <1>2, <1>3, <1>4, <1>5 DEF Post, TypeInv, TypeOK, kv

\* The stamp of a posted geometry.
LEMMA TypeStamp == ASSUME TypeInv, NEW l \in Publishers, Stamp(l) PROVE TypeInv'
<1>0. /\ l \in Lanes /\ lane[l] \in Task /\ TaskOK(lane[l]) /\ lane[l].shape \in Shapes
      /\ lane[l].code \in Codes
  BY Threads DEF TypeInv, Stamp, At, TaskOK, Holds
<1>1. "mark" \in Steps /\ Holds(lane[l], "mark")  BY <1>0 DEF Holds, Steps
<1>2. /\ lane' \in [Lanes -> Task] /\ \A k \in Lanes : TaskOK(lane'[k])
      /\ lane'[l].pc = "mark" /\ \A k \in Lanes : k # l => lane'[k] = lane[k]
  BY <1>0, <1>1, Went DEF Stamp
<1>3. PositionOK'  BY <1>2, <1>0, PositionUntouched DEF Stamp, Trades
<1> QED BY <1>0, <1>2, <1>3 DEF Stamp, TypeInv, TypeOK, seen

\* The marker of the symbol.
LEMMA TypeMark == ASSUME TypeInv, NEW l \in Publishers, Mark(l) PROVE TypeInv'
<1>0. /\ l \in Lanes /\ lane[l] \in Task /\ TaskOK(lane[l]) /\ lane[l].shape \in Shapes
      /\ lane[l].code \in Codes
  BY Threads DEF TypeInv, Mark, At, TaskOK, Holds
<1>1. "book" \in Steps /\ Holds(lane[l], "book")  BY <1>0 DEF Holds, Steps
<1>2. /\ lane' \in [Lanes -> Task] /\ \A k \in Lanes : TaskOK(lane'[k])
      /\ lane'[l].pc \in {"book", "judge"} /\ \A k \in Lanes : k # l => lane'[k] = lane[k]
  <2>1. CASE Go(l, "book")  BY <1>0, <1>1, <2>1, Went
  <2>2. CASE Drop(l, "judge")  BY <1>0, <2>2, Dropped DEF Idle, Rests
  <2> QED BY <2>1, <2>2 DEF Mark
<1>3. PositionOK'  BY <1>2, <1>0, PositionUntouched DEF Mark, Trades
<1> QED BY <1>2, <1>3 DEF Mark, TypeInv, TypeOK, seen

\* The fourth chart, on the ledger the symbol has by now.
LEMMA TypeBook == ASSUME TypeInv, NEW l \in Publishers, Book(l) PROVE TypeInv'
<1>0. /\ l \in Lanes /\ lane[l] \in Task /\ TaskOK(lane[l]) /\ lane[l].shape \in Shapes
      /\ lane[l].code \in Codes
  BY Threads DEF TypeInv, Book, At, TaskOK, Holds
<1>1. "open" \in Steps /\ Holds(lane[l], "open")  BY <1>0 DEF Holds, Steps
<1>2. /\ lane' \in [Lanes -> Task] /\ \A k \in Lanes : TaskOK(lane'[k])
      /\ lane'[l].pc = "open" /\ \A k \in Lanes : k # l => lane'[k] = lane[k]
  BY <1>0, <1>1, Went DEF Book
<1>3. PositionOK'  BY <1>2, <1>0, PositionUntouched DEF Book, Trades
<1>4. ledger' \in Journey
  <2>1. ledger \in Journey  BY DEF TypeInv, TypeOK
  <2>2. ledger.slots \cup {"s4"} \in SUBSET Slots /\ ledger.charts + 1 \in Nat
    BY <2>1 DEF Journey, Slots
  <2>3. [ledger EXCEPT !.slots = @ \cup {"s4"}, !.charts = @ + 1, !.head = TRUE,
                       !.old = FALSE] \in Journey
    BY <2>1, <2>2 DEF Journey
  <2> QED BY <2>1, <2>3 DEF Book
<1> QED BY <1>2, <1>3, <1>4 DEF Book, TypeInv, TypeOK, seen

\* The position of a confirmed code.
LEMMA TypeOpen == ASSUME TypeInv, NEW l \in Publishers, Open(l) PROVE TypeInv'
<1>0. /\ l \in Lanes /\ TaskOK(lane[l]) /\ lane[l].shape \in Shapes
      /\ lane[l].code \in Codes
  BY Threads DEF TypeInv, Open, At, TaskOK, Holds
<1>1. /\ lane' \in [Lanes -> Task] /\ \A k \in Lanes : TaskOK(lane'[k])
      /\ lane'[l].pc = "judge" /\ \A k \in Lanes : k # l => lane'[k] = lane[k]
  BY <1>0, Dropped DEF Open, Idle, Rests
<1> DEFINE o == [state |-> "open", hits |-> {}, shape |-> lane[l].shape]
<1>2. o \in Position /\ o.state # "none" /\ o.shape \in Shapes  BY <1>0 DEF Position
<1>3. positions' = [positions EXCEPT ![lane[l].code] = o]  BY DEF Open
<1> HIDE DEF o
<1>4. positions' \in [Codes -> Position]  BY <1>2, <1>3 DEF TypeInv, TypeOK
<1>5. PositionOK'
  <2>1. \A c \in Codes : positions'[c] = IF c = lane[l].code THEN o ELSE positions[c]
    BY <1>3 DEF TypeInv, TypeOK
  <2>2. due' = due  BY DEF Open
  <2>3. ASSUME lane'["pass"].pc \in Trades
        PROVE  lane'["pass"] = lane["pass"] /\ lane["pass"].code \in Codes
    <3>1. lane'["pass"] = lane["pass"]  BY <2>3, <1>1, Threads DEF Trades
    <3>2. TaskOK(lane["pass"])  BY Threads DEF TypeInv
    <3> QED BY <2>3, <3>1, <3>2 DEF Trades, TaskOK, Holds
  <2> QED BY <1>2, <2>1, <2>2, <2>3 DEF TypeInv, PositionOK
<1> QED BY <1>1, <1>4, <1>5 DEF Open, TypeInv, TypeOK, seen

\* The end of the confirmations of a pass.
LEMMA TypeJudged == ASSUME TypeInv, NEW l \in Publishers, Judged(l) PROVE TypeInv'
<1>1. l \in Lanes /\ (IF l = "pass" THEN "alert" ELSE "idle") \in {"alert", "idle"}
  BY Threads
<1>2. /\ lane' \in [Lanes -> Task] /\ \A k \in Lanes : TaskOK(lane'[k])
      /\ lane'[l].pc \in {"alert", "idle"} /\ \A k \in Lanes : k # l => lane'[k] = lane[k]
  BY <1>1, Resting, Went DEF Judged, Rests
<1>3. PositionOK'  BY <1>2, <1>1, PositionUntouched DEF Judged, kv, Trades
<1> QED BY <1>2, <1>3 DEF Judged, TypeInv, TypeOK, kv, seen

-----------------------------------------------------------------------------
(* So do warnings and targets.                                                *)

\* A warning takes its slot of the ledger.
LEMMA TypeAlert ==
    ASSUME TypeInv, NEW s \in Shapes, NEW stage \in Stages, NEW side \in Sides,
           Alert(s, stage, side)
    PROVE  TypeInv'
<1> DEFINE slot == Wanted(stage)
           t == [Idle EXCEPT !.pc = "rewrite", !.shape = s, !.stage = stage,
                             !.side = side, !.slot = slot, !.chart = TRUE]
<1>1. slot \in Slots  BY DEF Wanted, Slots
<1>2. ledger' \in Journey
  <2>1. ledger \in Journey  BY DEF TypeInv, TypeOK
  <2> QED BY <1>1, <2>1 DEF Alert, Claim, Journey
<1> HIDE DEF slot
<1>3. t \in Task /\ t.pc = "rewrite" /\ t.stage = stage /\ t.slot = slot
  BY <1>1, Empty DEF Task, Idle
<1>4. TaskOK(t)  BY <1>1, <1>3 DEF TaskOK, Holds
<1> HIDE DEF t
<1>5. CASE UNCHANGED lane
  <2>1. PositionOK'  BY <1>5, PositionKept DEF Alert
  <2> QED BY <1>2, <1>5, <2>1 DEF Alert, TypeInv, TypeOK, seen
<1>6. CASE lane' = [lane EXCEPT !["pass"] = t]
  <2>1. /\ lane' \in [Lanes -> Task] /\ \A k \in Lanes : TaskOK(lane'[k])
        /\ lane'["pass"].pc = "rewrite"
    BY <1>3, <1>4, <1>6, Threads, Moved
  <2>2. PositionOK'  BY <2>1, PositionKept DEF Alert, Trades
  <2> QED BY <1>2, <2>1, <2>2 DEF Alert, TypeInv, TypeOK, seen
<1> QED BY <1>5, <1>6 DEF Alert, slot, t

\* A warning rewrites the ledger under the code it goes out with.
LEMMA TypeRewrite == ASSUME TypeInv, NEW l \in Lanes, Rewrite(l) PROVE TypeInv'
<1> DEFINE fresh == ledger.code = 0 \/ ledger.old
           charted == IF fresh THEN {} ELSE Charted(ledger.charted)
           head == ledger.head /\ ~fresh
           asks == lane[l].stage \notin charted /\ ~(head /\ lane[l].stage = "RETEST")
<1>0. /\ ledger \in Journey /\ used \subseteq Codes /\ lane[l] \in Task
      /\ lane[l].slot \in Slots /\ lane[l].stage \in Stages /\ lane[l].pc = "rewrite"
  BY DEF TypeInv, TypeOK, TaskOK, Holds, Rewrite, At
<1>1. PICK code \in IF fresh THEN Codes \ used ELSE {ledger.code} :
        /\ used' = used \cup {code}
        /\ ledger' = [EmptyLedger EXCEPT !.code = code, !.charted = charted, !.head = head]
        /\ lane' = [lane EXCEPT ![l].pc = "send", ![l].code = code, ![l].chart = @ /\ asks]
  BY DEF Rewrite
<1>2. code \in Codes  BY <1>0, <1>1 DEF Journey
<1>3. charted \in SUBSET Stages /\ head \in BOOLEAN  BY <1>0 DEF Journey, Charted
<1>4. asks \in BOOLEAN  OBVIOUS
<1> HIDE DEF charted, head, asks
<1>5. ledger' \in Journey  BY <1>1, <1>2, <1>3, Empty DEF Journey, EmptyLedger
<1> DEFINE t == [lane[l] EXCEPT !.pc = "send", !.code = code, !.chart = @ /\ asks]
<1>6. lane' = [lane EXCEPT ![l] = t]  BY <1>1
<1>7. /\ t \in Task /\ t.pc = "send" /\ t.code = code
      /\ t.slot = lane[l].slot /\ t.stage = lane[l].stage
  <2>1. lane[l].chart \in BOOLEAN  BY <1>0 DEF Task
  <2>2. (lane[l].chart /\ asks) \in BOOLEAN  BY <1>4, <2>1
  <2> QED BY <1>0, <1>2, <2>2 DEF Task
<1> HIDE DEF t
<1>8. TaskOK(t)  BY <1>0, <1>2, <1>7 DEF TaskOK, Holds
<1>9. /\ lane' \in [Lanes -> Task] /\ \A k \in Lanes : TaskOK(lane'[k])
      /\ lane'[l].pc = "send" /\ \A k \in Lanes : k # l => lane'[k] = lane[k]
  BY <1>6, <1>7, <1>8, Moved
<1>10. PositionOK'  BY <1>9, PositionUntouched DEF Rewrite, Trades
<1>11. used' \subseteq Codes  BY <1>0, <1>1, <1>2
<1> QED BY <1>5, <1>9, <1>10, <1>11 DEF Rewrite, TypeInv, TypeOK, seen

\* The warning goes out, or is refused.
LEMMA TypeSend == ASSUME TypeInv, NEW l \in Lanes, Send(l) PROVE TypeInv'
<1>0. /\ TaskOK(lane[l]) /\ lane[l].pc = "send" /\ lane[l].code \in Codes
      /\ lane[l].slot \in Slots /\ lane[l].stage \in Stages
  BY DEF TypeInv, Send, At, TaskOK, Holds
<1>1. faults' \in [upsets : 0..MaxUpsets, crashed : BOOLEAN]
  BY FaultsTyped DEF Send, Refused
<1>2. told' \in [Codes -> Told]
  <2> DEFINE old == told[lane[l].code]
             n == [old EXCEPT !.charts = @ + 1, !.drawn = @ \cup {<<l, lane[l].stage>>}]
  <2>1. old \in Told  BY <1>0 DEF TypeInv, TypeOK
  <2>2. old.charts + 1 \in Nat /\ old.drawn \cup {<<l, lane[l].stage>>} \in SUBSET (Lanes \X Stages)
    BY <1>0, <2>1 DEF Told
  <2>3. n \in Told  BY <2>1, <2>2 DEF Told
  <2>4. told' = told \/ told' = [told EXCEPT ![lane[l].code] = n]
    BY <1>0 DEF Send, TypeInv, TypeOK
  <2> HIDE DEF n
  <2> QED BY <2>3, <2>4 DEF TypeInv, TypeOK
<1>3. /\ lane' \in [Lanes -> Task] /\ \A k \in Lanes : TaskOK(lane'[k])
      /\ lane'[l].pc \in {"record", "alert", "edges"}
      /\ \A k \in Lanes : k # l => lane'[k] = lane[k]
  <2>1. CASE Go(l, "record")
    <3>1. "record" \in Steps /\ Holds(lane[l], "record")  BY <1>0 DEF Holds, Steps
    <3> QED BY <2>1, <3>1, Went
  <2>2. CASE Drop(l, Home(l))
    <3>1. Home(l) \in {"alert", "edges"} /\ Home(l) \in Rests  BY DEF Home, Rests
    <3> QED BY <2>2, <3>1, Dropped
  <2> QED BY <2>1, <2>2 DEF Send
<1>4. PositionOK'  BY <1>3, PositionUntouched DEF Send, kv, Trades
<1> QED BY <1>1, <1>2, <1>3, <1>4 DEF Send, TypeInv, TypeOK, kv

\* A warning that went out is recorded on the ledger there is by now.
LEMMA TypeRecord == ASSUME TypeInv, NEW l \in Lanes, Record(l) PROVE TypeInv'
<1>0. /\ ledger \in Journey /\ lane[l].pc = "record" /\ lane[l].code \in Codes
      /\ lane[l].slot \in Slots /\ lane[l].stage \in Stages
  BY DEF TypeInv, TypeOK, Record, At, TaskOK, Holds
<1>1. ledger' \in Journey
  <2> DEFINE grown == IF lane[l].chart /\ ledger.charts < ChartCap THEN ledger.charts + 1
                      ELSE ledger.charts
             slots == ledger.slots \cup {lane[l].slot}
             charted == ledger.charted \cup IF lane[l].chart THEN {lane[l].stage} ELSE {}
  <2>1. grown \in Nat /\ slots \in SUBSET Slots /\ charted \in SUBSET Stages
    BY <1>0 DEF Journey
  <2>2. ledger' = ledger \/ ledger' = [ledger EXCEPT !.slots = slots, !.head = TRUE,
                                          !.old = FALSE, !.charts = grown, !.charted = charted]
    BY DEF Record
  <2> HIDE DEF grown, slots, charted
  <2> QED BY <1>0, <2>1, <2>2 DEF Journey
<1>2. /\ lane' \in [Lanes -> Task] /\ \A k \in Lanes : TaskOK(lane'[k])
      /\ lane'[l].pc \in {"speak", "edges"}
      /\ \A k \in Lanes : k # l => lane'[k] = lane[k]
  <2>1. CASE Go(l, "speak")
    <3>1. "speak" \in Steps /\ Holds(lane[l], "speak")  BY <1>0 DEF Holds, Steps
    <3> QED BY <2>1, <3>1, Went
  <2>2. CASE Drop(l, "edges")
    <3>1. "edges" \in Rests  BY DEF Rests
    <3> QED BY <2>2, <3>1, Dropped
  <2> QED BY <2>1, <2>2 DEF Record
<1>3. copy' \in [rows : [Sides -> Edge], changed : BOOLEAN, left : SUBSET Sides]
  <2> DEFINE r == copy.rows[lane[l].side]
  <2>1. copy \in [rows : [Sides -> Edge], changed : BOOLEAN, left : SUBSET Sides]
    BY DEF TypeInv, TypeOK
  <2>2. copy' \in {copy, [copy EXCEPT !.rows = [@ EXCEPT ![lane[l].side].j1 = "done"]],
                         [copy EXCEPT !.rows = [@ EXCEPT ![lane[l].side].j2 = "done"]]}
    BY DEF Record
  <2>3. [copy.rows EXCEPT ![lane[l].side].j1 = "done"] \in [Sides -> Edge]
    BY ZenonT(40), <2>1 DEF Edge
  <2>4. [copy.rows EXCEPT ![lane[l].side].j2 = "done"] \in [Sides -> Edge]
    BY ZenonT(40), <2>1 DEF Edge
  <2> QED BY <2>1, <2>2, <2>3, <2>4
<1>4. PositionOK'  BY <1>2, PositionUntouched DEF Record, Trades
<1> QED BY <1>1, <1>2, <1>3, <1>4 DEF Record, TypeInv, TypeOK, seen

\* The pass remembers the strongest stage it spoke of.
LEMMA TypeSpeak == ASSUME TypeInv, Speak PROVE TypeInv'
<1>0. lane["pass"].pc = "speak" /\ lane["pass"].stage \in Stages
  BY Threads DEF TypeInv, Speak, At, TaskOK, Holds
<1>1. spoken' \in [Shapes \X Sides -> 0..4]
  <2>1. Rank[lane["pass"].stage] \in 0..4  BY <1>0, Constants
  <2> DEFINE r == Rank[lane["pass"].stage]
             sig == <<lane["pass"].shape, lane["pass"].side>>
  <2>2. spoken' = [spoken EXCEPT ![sig] = r]  BY DEF Speak
  <2> HIDE DEF r, sig
  <2>3. spoken \in [Shapes \X Sides -> 0..4]  BY DEF TypeInv, TypeOK
  <2> QED BY <2>1, <2>2, <2>3 DEF r
<1>2. locks' \subseteq Breaks  BY DEF Speak, TypeInv, TypeOK
<1>3. /\ lane' \in [Lanes -> Task] /\ \A k \in Lanes : TaskOK(lane'[k])
      /\ lane'["pass"].pc = "alert"
  BY Threads, Dropped DEF Speak, Rests, Idle
<1>4. PositionOK'  BY <1>3, PositionKept DEF Speak, Trades
<1> QED BY <1>1, <1>2, <1>3, <1>4 DEF Speak, TypeInv, TypeOK, seen

\* The end of the warnings: what is due of every open position is read.
LEMMA TypeAlertsDone == ASSUME TypeInv, AlertsDone PROVE TypeInv'
<1>1. due' \in [Codes -> 0..Rungs] /\ \A c \in Codes : due'[c] # 0 => positions[c].state = "open"
  BY DEF AlertsDone
<1>2. /\ lane' \in [Lanes -> Task] /\ \A k \in Lanes : TaskOK(lane'[k])
      /\ lane'["pass"].pc = "hits"
  BY Threads, Resting, Went DEF AlertsDone, Rests
<1>3. PositionOK'
  BY <1>1, <1>2 DEF AlertsDone, kv, Trades, TypeInv, PositionOK
<1> QED BY <1>1, <1>2, <1>3 DEF AlertsDone, TypeInv, TypeOK, kv, seen

\* A target that is due is taken up.
LEMMA TypeHit == ASSUME TypeInv, NEW c \in Codes, Hit(c) PROVE TypeInv'
<1> DEFINE slot == HitSlot[due[c]]
           free == SlotFree(slot)
<1>0. due \in [Codes -> 0..Rungs] /\ due[c] \in 1..Rungs
  <2>1. due \in [Codes -> 0..Rungs]  BY DEF TypeInv, TypeOK
  <2>2. Rungs \in Nat /\ due[c] # 0  BY Constants DEF Hit
  <2> QED BY <2>1, <2>2
<1>1. due' \in [Codes -> 0..Rungs] /\ \A k \in Codes : due'[k] # 0 => due[k] # 0
  <2>1. due' = [due EXCEPT ![c] = 0]  BY DEF Hit
  <2>2. 0 \in 0..Rungs  BY Constants
  <2> QED BY <1>0, <2>1, <2>2
<1>2. CASE UNCHANGED lane
  <2>1. PositionOK'  BY <1>1, <1>2 DEF Hit, kv, TypeInv, PositionOK
  <2> QED BY <1>1, <1>2, <2>1 DEF Hit, TypeInv, TypeOK, kv, seen
<1>3. ASSUME NEW chart \in BOOLEAN,
             lane' = [lane EXCEPT !["pass"] = [Idle EXCEPT !.pc = "hit", !.code = c,
                        !.rung = due[c], !.slot = IF free THEN slot ELSE "none",
                        !.chart = chart]]
      PROVE  TypeInv'
  <2> DEFINE taken == IF free THEN slot ELSE "none"
             t == [Idle EXCEPT !.pc = "hit", !.code = c, !.rung = due[c], !.slot = taken,
                               !.chart = chart]
  <2>1. taken \in Slots \cup {"none"}  BY <1>0, Constants
  <2> HIDE DEF taken
  <2>2. t \in Task /\ t.pc = "hit" /\ t.code = c /\ t.rung = due[c]
    BY <1>0, <2>1, Empty DEF Task, Idle
  <2> HIDE DEF t
  <2>3. TaskOK(t)  BY <1>0, <2>2 DEF TaskOK, Holds
  <2>4. /\ lane' \in [Lanes -> Task] /\ \A k \in Lanes : TaskOK(lane'[k])
        /\ lane'["pass"].code = c
    BY <1>3, <2>2, <2>3, Threads, Moved DEF t, taken
  <2>5. PositionOK'
    BY <1>0, <1>1, <2>4 DEF Hit, kv, TypeInv, PositionOK
  <2> QED BY <1>1, <2>4, <2>5 DEF Hit, TypeInv, TypeOK, kv, seen
<1> QED BY <1>2, <1>3 DEF Hit

\* The post of a target, delivered or refused.
LEMMA TypeSendHit == ASSUME TypeInv, SendHit PROVE TypeInv'
<1> DEFINE t == lane["pass"]
<1>0. /\ TaskOK(t) /\ t.pc = "hit" /\ t.code \in Codes /\ t.rung \in 1..Rungs
  BY Threads DEF TypeInv, SendHit, At, TaskOK, Holds
<1>1. faults' \in [upsets : 0..MaxUpsets, crashed : BOOLEAN]
  BY FaultsTyped DEF SendHit, Refused
<1>2. told' \in [Codes -> Told]
  <2> DEFINE old == told[t.code]
             n == [old EXCEPT !.rungs = @ \cup {t.rung},
                              !.charts = @ + IF t.chart THEN 1 ELSE 0]
  <2>1. old \in Told  BY <1>0 DEF TypeInv, TypeOK
  <2>2. old.charts + (IF t.chart THEN 1 ELSE 0) \in Nat /\ old.rungs \cup {t.rung} \in SUBSET (1..Rungs)
    BY <1>0, <2>1 DEF Told
  <2>3. n \in Told  BY <2>1, <2>2 DEF Told
  <2>4. told' = told \/ told' = [told EXCEPT ![t.code] = n]
    BY <1>0 DEF SendHit, TypeInv, TypeOK
  <2> HIDE DEF n
  <2> QED BY <2>3, <2>4 DEF TypeInv, TypeOK
<1>3. CASE Go("pass", "score")
  <2>1. "score" \in Steps /\ Holds(t, "score")  BY <1>0 DEF Holds, Steps
  <2>2. /\ lane' \in [Lanes -> Task] /\ \A k \in Lanes : TaskOK(lane'[k])
        /\ lane'["pass"].code = t.code
    BY <1>3, <2>1, Threads, Went DEF SameTask
  <2>3. PositionOK'  BY <1>0, <2>2, PositionKept DEF SendHit, kv, Trades
  <2> QED BY <1>1, <1>2, <2>2, <2>3 DEF SendHit, TypeInv, TypeOK, kv
<1>4. CASE Drop("pass", "hits")
  <2>1. /\ lane' \in [Lanes -> Task] /\ \A k \in Lanes : TaskOK(lane'[k])
        /\ lane'["pass"].pc = "hits"
    BY <1>4, Threads, Dropped DEF Rests
  <2>2. PositionOK'  BY <2>1, PositionKept DEF SendHit, kv, Trades
  <2> QED BY <1>1, <1>2, <2>1, <2>2 DEF SendHit, TypeInv, TypeOK, kv
<1> QED BY <1>3, <1>4 DEF SendHit

\* A told target is recorded on the ledger.
LEMMA TypeScore == ASSUME TypeInv, Score PROVE TypeInv'
<1> DEFINE t == lane["pass"]
<1>0. /\ t \in Task /\ TaskOK(t) /\ t.pc = "score" /\ t.code \in Codes /\ t.rung \in 1..Rungs
  BY Threads DEF TypeInv, Score, At, TaskOK, Holds
<1>1. ledger' \in Journey
  <2> DEFINE slots == ledger.slots \cup ({t.slot} \ {"none"})
             charts == ledger.charts + IF t.chart THEN 1 ELSE 0
  <2>1. ledger \in Journey  BY DEF TypeInv, TypeOK
  <2>2. slots \in SUBSET Slots /\ charts \in Nat  BY <1>0, <2>1 DEF Journey, Task
  <2>3. ledger' = ledger \/ ledger' = [ledger EXCEPT !.slots = slots, !.head = TRUE,
                                          !.old = FALSE, !.charts = charts]
    BY DEF Score
  <2> HIDE DEF slots, charts
  <2> QED BY <2>1, <2>2, <2>3 DEF Journey
<1>2. "commit" \in Steps /\ Holds(t, "commit")  BY <1>0 DEF Holds, Steps
<1>3. /\ lane' \in [Lanes -> Task] /\ \A k \in Lanes : TaskOK(lane'[k])
      /\ lane'["pass"].code = t.code
  BY <1>2, Threads, Went DEF Score, SameTask
<1>4. PositionOK'  BY <1>0, <1>3, PositionKept DEF Score, Trades
<1> QED BY <1>1, <1>3, <1>4 DEF Score, TypeInv, TypeOK, seen

\* Booking a target changes no shape and leaves no position open that was not.
LEMMA CommitTyped ==
    ASSUME TypeInv, Commit
    PROVE  /\ positions' \in [Codes -> Position]
           /\ \A c \in Codes : /\ positions'[c].shape = positions[c].shape
                               /\ positions[c].state # "none" => positions'[c].state # "none"
                               /\ positions[c].state = "none" => positions'[c].state = "none"
<1> DEFINE t == lane["pass"]
           old == positions[t.code]
           hits == old.hits \cup {t.rung}
           state == IF hits = 1..Rungs THEN "closed" ELSE old.state
           n == [old EXCEPT !.hits = hits, !.state = state]
<1>1. /\ t.code \in Codes /\ t.rung \in 1..Rungs /\ old.state # "none"
      /\ positions \in [Codes -> Position] /\ old \in Position
  BY Threads DEF TypeInv, TypeOK, PositionOK, Trades, Commit, At, TaskOK, Holds
<1>2. hits \in SUBSET (1..Rungs) /\ state \in {"open", "closed"}
  BY <1>1 DEF Position
<1>3. positions' = [positions EXCEPT ![t.code] = n]  BY <1>1 DEF Commit
<1> HIDE DEF hits, state
<1>4. n \in Position /\ n.shape = old.shape /\ n.state # "none"
  BY <1>1, <1>2 DEF Position
<1> HIDE DEF n
<1> QED BY <1>1, <1>3, <1>4

\* A told target is recorded on the position.
LEMMA TypeCommit == ASSUME TypeInv, Commit PROVE TypeInv'
<1> DEFINE t == lane["pass"]
<1>0. /\ TaskOK(t) /\ t.pc = "commit" /\ t.code \in Codes
  BY Threads DEF TypeInv, Commit, At, TaskOK, Holds
<1>1. due' = due /\ positions[t.code].state # "none"
  BY <1>0 DEF Commit, TypeInv, PositionOK, Trades
<1>2. CASE Go("pass", "close")
  <2>1. "close" \in Steps /\ Holds(t, "close")  BY <1>0 DEF Holds, Steps
  <2>2. /\ lane' \in [Lanes -> Task] /\ \A k \in Lanes : TaskOK(lane'[k])
        /\ lane'["pass"].code = t.code
    BY <1>2, <2>1, Threads, Went DEF SameTask
  <2>3. PositionOK'  BY <1>0, <1>1, <2>2, CommitTyped DEF TypeInv, PositionOK
  <2> QED BY <2>2, <2>3, CommitTyped DEF Commit, TypeInv, TypeOK, seen
<1>3. CASE Drop("pass", "hits")
  <2>1. /\ lane' \in [Lanes -> Task] /\ \A k \in Lanes : TaskOK(lane'[k])
        /\ lane'["pass"].pc = "hits"
    BY <1>3, Threads, Dropped DEF Rests
  <2>2. PositionOK'  BY <1>1, <2>1, CommitTyped DEF TypeInv, PositionOK, Trades
  <2> QED BY <2>1, <2>2, CommitTyped DEF Commit, TypeInv, TypeOK, seen
<1> QED BY <1>2, <1>3 DEF Commit

\* The last target closes the position.
LEMMA TypeClose == ASSUME TypeInv, Close PROVE TypeInv'
<1> DEFINE t == lane["pass"]
           n == [positions[t.code] EXCEPT !.state = "closed"]
<1>0. /\ TaskOK(t) /\ t.pc = "close" /\ t.code \in Codes
      /\ positions \in [Codes -> Position] /\ positions[t.code] \in Position
      /\ positions[t.code].state # "none" /\ positions[t.code].shape \in Shapes
  BY Threads DEF TypeInv, TypeOK, PositionOK, Trades, Close, At, TaskOK, Holds
<1>1. positions' = [positions EXCEPT ![t.code] = n]  BY DEF Close
<1>2. n \in Position /\ n.state = "closed" /\ n.shape = positions[t.code].shape
  BY <1>0 DEF Position
<1> HIDE DEF n
<1>3. /\ positions' \in [Codes -> Position]
      /\ \A c \in Codes : positions'[c] = IF c = t.code THEN n ELSE positions[c]
  BY <1>0, <1>1, <1>2
<1>4. retired' \subseteq Shapes  BY <1>0 DEF Close, TypeInv, TypeOK
<1>5. "free" \in Steps /\ Holds(t, "free")  BY <1>0 DEF Holds, Steps
<1>6. /\ lane' \in [Lanes -> Task] /\ \A k \in Lanes : TaskOK(lane'[k])
      /\ lane'["pass"].pc = "free"
  BY <1>5, Threads, Went DEF Close
<1>7. PositionOK'  BY <1>0, <1>2, <1>3, <1>6 DEF Close, Trades, TypeInv, PositionOK
<1> QED BY <1>3, <1>4, <1>6, <1>7 DEF Close, TypeInv, TypeOK, seen

\* Its geometry is retired.
LEMMA TypeFree == ASSUME TypeInv, Free PROVE TypeInv'
<1>0. TaskOK(lane["pass"]) /\ lane["pass"].code \in Codes
  BY Threads DEF TypeInv, Free, At, TaskOK, Holds
<1>1. "reset" \in Steps /\ Holds(lane["pass"], "reset")  BY <1>0 DEF Holds, Steps
<1>2. /\ lane' \in [Lanes -> Task] /\ \A k \in Lanes : TaskOK(lane'[k])
      /\ lane'["pass"].pc = "reset"
  BY <1>1, Threads, Went DEF Free
<1>3. PositionOK'  BY <1>2, PositionKept DEF Free, Trades
<1> QED BY <1>2, <1>3 DEF Free, TypeInv, TypeOK, seen

\* The journey of the symbol ends.
LEMMA TypeReset == ASSUME TypeInv, Reset PROVE TypeInv'
<1>1. /\ lane' \in [Lanes -> Task] /\ \A k \in Lanes : TaskOK(lane'[k])
      /\ lane'["pass"].pc = "hits"
  BY Threads, Dropped DEF Reset, Rests
<1>2. ledger' \in Journey  BY Empty DEF Reset, TypeInv, TypeOK
<1>3. edges' \in [Sides -> Edge]  BY Empty DEF Reset
<1>4. PositionOK'  BY <1>1, PositionKept DEF Reset, Trades
<1> QED BY <1>1, <1>2, <1>3, <1>4 DEF Reset, TypeInv, TypeOK, seen

\* The end of a pass.
LEMMA TypeHitsDone == ASSUME TypeInv, HitsDone PROVE TypeInv'
<1>1. /\ lane' \in [Lanes -> Task] /\ \A k \in Lanes : TaskOK(lane'[k])
      /\ lane'["pass"].pc = "idle"
  BY Threads, Resting, Went DEF HitsDone, Rests
<1>2. PositionOK'  BY <1>1, PositionKept DEF HitsDone, kv, Trades
<1> QED BY <1>1, <1>2 DEF HitsDone, TypeInv, TypeOK, kv, seen

-----------------------------------------------------------------------------
(* The line watch, the windows and a restart.                                 *)

\* The line watch copies the registry.
LEMMA TypeWatchBegin == ASSUME TypeInv, "watch" \in Lanes, WatchBegin PROVE TypeInv'
<1>1. /\ lane' \in [Lanes -> Task] /\ \A k \in Lanes : TaskOK(lane'[k])
      /\ lane'["watch"].pc = "edges" /\ lane'["pass"] = lane["pass"]
  BY Threads, Resting, Went DEF WatchBegin, Rests
<1>2. copy' \in [rows : [Sides -> Edge], changed : BOOLEAN, left : SUBSET Sides]
  <2>1. edges \in [Sides -> Edge]  BY DEF TypeInv, TypeOK
  <2>2. {s \in Sides : edges[s].on} \in SUBSET Sides  OBVIOUS
  <2> QED BY <2>1, <2>2 DEF WatchBegin
<1>3. PositionOK'  BY <1>1, PositionKept DEF WatchBegin, kv
<1> QED BY <1>1, <1>2, <1>3 DEF WatchBegin, TypeInv, TypeOK, kv, seen

\* The line watch judges one edge of its copy.
LEMMA TypeWatchEdge ==
    ASSUME TypeInv, "watch" \in Lanes, NEW s \in Sides, NEW zone \in {"below", "near", "above"},
           WatchEdge(s, zone)
    PROVE  TypeInv'
<1> DEFINE edge == copy.rows[s]
           kind == Crossing(edge.state, zone)
<1>1. PICK slot \in EdgeSlots(edge, kind) :
        /\ s \in copy.left
        /\ kind \in Stages \cup {"none"}
        /\ copy' = [rows |-> [copy.rows EXCEPT ![s] =
                        [edge EXCEPT !.state = zone,
                                     !.j1 = IF slot = "s1" THEN "pending" ELSE @,
                                     !.j2 = IF slot = "s2" THEN "pending" ELSE @]],
                    changed |-> copy.changed \/ zone # edge.state,
                    left |-> copy.left \ {s}]
        /\ IF slot = "none" THEN UNCHANGED <<lane, ledger>>
           ELSE /\ Claim(slot)
                /\ \E chart \in IF slot = "s1" /\ pinned THEN BOOLEAN ELSE {FALSE} :
                     lane' = [lane EXCEPT !["watch"] = [Idle EXCEPT !.pc = "rewrite",
                                 !.stage = kind, !.side = s, !.slot = slot, !.chart = chart]]
  BY DEF WatchEdge
<1>2. /\ UNCHANGED <<stamps, marker, positions, retired, spoken, locks, pinned, edges,
                     found, due, used, seen, faults>>
      /\ copy \in [rows : [Sides -> Edge], changed : BOOLEAN, left : SUBSET Sides]
      /\ ledger \in Journey /\ edge \in Edge
  BY DEF WatchEdge, TypeInv, TypeOK
<1>3. copy' \in [rows : [Sides -> Edge], changed : BOOLEAN, left : SUBSET Sides]
  <2> DEFINE a == IF slot = "s1" THEN "pending" ELSE edge.j1
             b == IF slot = "s2" THEN "pending" ELSE edge.j2
             e == [edge EXCEPT !.state = zone, !.j1 = a, !.j2 = b]
             changed == copy.changed \/ zone # edge.state
  <2>1. a \in {"free", "pending", "done"} /\ b \in {"free", "pending", "done"}
    BY <1>2 DEF Edge
  <2>2. copy' = [rows |-> [copy.rows EXCEPT ![s] = e], changed |-> changed,
                 left |-> copy.left \ {s}]
    BY <1>1
  <2>3. changed \in BOOLEAN  BY <1>2
  <2> HIDE DEF a, b, changed
  <2>4. e \in Edge  BY <1>2, <2>1 DEF Edge
  <2> HIDE DEF e
  <2> QED BY <1>2, <2>2, <2>3, <2>4
<1>4. slot # "none" => slot \in {"s1", "s2"} /\ kind \in Stages
  BY <1>1, Constants DEF EdgeSlots, Takes
<1> HIDE DEF kind, edge
<1>5. CASE slot = "none"
  <2>1. PositionOK'  BY <1>1, <1>2, <1>5, PositionKept
  <2> QED BY <1>1, <1>2, <1>3, <1>5, <2>1 DEF TypeInv, TypeOK, seen
<1>6. CASE slot # "none"
  <2>1. PICK chart \in BOOLEAN :
          lane' = [lane EXCEPT !["watch"] = [Idle EXCEPT !.pc = "rewrite",
                                 !.stage = kind, !.side = s, !.slot = slot, !.chart = chart]]
    BY <1>1, <1>6
  <2> DEFINE t == [Idle EXCEPT !.pc = "rewrite", !.stage = kind, !.side = s, !.slot = slot,
                               !.chart = chart]
  <2>2. slot \in Slots /\ kind \in Stages  BY <1>4, <1>6, Constants
  <2>3. t \in Task /\ t.pc = "rewrite" /\ t.stage = kind /\ t.slot = slot
    BY <2>2, Empty DEF Task, Idle
  <2> HIDE DEF t
  <2>4. TaskOK(t)  BY <2>2, <2>3 DEF TaskOK, Holds
  <2>5. /\ lane' \in [Lanes -> Task] /\ \A k \in Lanes : TaskOK(lane'[k])
        /\ lane'["pass"] = lane["pass"]
    BY <2>1, <2>4, Threads, Moved DEF t
  <2>6. ledger' \in Journey
    <3>1. Claim(slot)  BY <1>1, <1>6
    <3>2. ledger.claims \cup {slot} \in SUBSET Slots /\ ledger.stale \ {slot} \in SUBSET Slots
      BY <1>2, <2>2 DEF Journey
    <3> QED BY <1>2, <3>1, <3>2 DEF Claim, Journey
  <2>7. PositionOK'  BY <1>2, <2>5, PositionKept
  <2> QED BY <1>2, <1>3, <2>5, <2>6, <2>7 DEF TypeInv, TypeOK, seen
<1> QED BY <1>5, <1>6

\* The line watch writes its copy back.
LEMMA TypeWatchEnd == ASSUME TypeInv, "watch" \in Lanes, WatchEnd PROVE TypeInv'
<1>1. /\ lane' \in [Lanes -> Task] /\ \A k \in Lanes : TaskOK(lane'[k])
      /\ lane'["pass"] = lane["pass"]
  BY Threads, Dropped DEF WatchEnd, Rests
<1>2. edges' \in [Sides -> Edge]  BY DEF WatchEnd, TypeInv, TypeOK
<1>3. PositionOK'  BY <1>1, PositionKept DEF WatchEnd
<1> QED BY <1>1, <1>2, <1>3, Empty DEF WatchEnd, TypeInv, TypeOK, seen

\* A window expires.
LEMMA TypeAge == ASSUME TypeInv, Age PROVE TypeInv'
<1>1. faults' \in [upsets : 0..MaxUpsets, crashed : BOOLEAN]
  BY FaultsTyped DEF Age, Aged, MarkerExpires, PinExpires, LedgerAges, StampExpires, LockExpires,
     Cools, ClaimStale
<1>2. UNCHANGED <<positions, retired, edges, lane, found, due, copy, used, told>>
  BY DEF Age, MarkerExpires, PinExpires, LedgerAges, StampExpires, LockExpires,
     Cools, ClaimStale, local, seen
<1>3. ledger' \in Journey
  <2>1. ledger \in Journey  BY DEF TypeInv, TypeOK
  <2>2. CASE LedgerAges  BY <2>1, <2>2 DEF LedgerAges, Journey
  <2>3. ASSUME NEW slot \in Slots, ClaimStale(slot) PROVE ledger' \in Journey
    BY <2>1, <2>3 DEF ClaimStale, Journey
  <2> QED BY <2>1, <2>2, <2>3
      DEF Age, MarkerExpires, PinExpires, StampExpires, LockExpires, Cools
<1>4. spoken' \in [Shapes \X Sides -> 0..4]
  <2>1. spoken \in [Shapes \X Sides -> 0..4]  BY DEF TypeInv, TypeOK
  <2>2. ASSUME NEW sig \in Shapes \X Sides, Cools(sig)
        PROVE  spoken' \in [Shapes \X Sides -> 0..4]
    <3> DEFINE r == spoken[sig] - 1
    <3>1. r \in 0..4  BY <2>2 DEF Cools
    <3>2. spoken' = [spoken EXCEPT ![sig] = r]  BY <2>2 DEF Cools
    <3> HIDE DEF r
    <3> QED BY <2>1, <3>1, <3>2
  <2> QED BY <2>1, <2>2
      DEF Age, MarkerExpires, PinExpires, LedgerAges, StampExpires, LockExpires, ClaimStale
<1>5. /\ stamps' \subseteq stamps /\ posted' \subseteq posted /\ locks' \subseteq locks
      /\ marker' \in {marker, FALSE} /\ pinned' \in {pinned, FALSE}
  BY DEF Age, MarkerExpires, PinExpires, LedgerAges, StampExpires, LockExpires,
     Cools, ClaimStale, seen
<1>6. PositionOK'  BY <1>2, PositionKept
<1> QED BY <1>1, <1>2, <1>3, <1>4, <1>5, <1>6 DEF TypeInv, TypeOK

\* A restart empties the hands of every thread and the caches.
LEMMA TypeCrash == ASSUME TypeInv, Crash PROVE TypeInv'
<1>1. faults' \in [upsets : 0..MaxUpsets, crashed : BOOLEAN]  BY FaultsTyped DEF Crash
<1>2. /\ lane' \in [Lanes -> Task] /\ \A k \in Lanes : TaskOK(lane'[k])
      /\ lane'["pass"] = Idle
  BY Empty, Threads DEF Crash
<1>3. lane'["pass"].pc \notin Trades  BY <1>2 DEF Idle, Trades
<1>4. due' \in [Codes -> 0..Rungs] /\ \A c \in Codes : due'[c] = 0
  <2>1. 0 \in 0..Rungs  BY Constants
  <2> QED BY <2>1 DEF Crash
<1>5. PositionOK'  BY <1>3, <1>4 DEF Crash, kv, TypeInv, PositionOK
<1>6. found' \in [Publishers -> [Shapes -> Codes \cup {0}]] /\ posted' \subseteq posted
  BY Empty DEF Crash
<1> QED BY <1>1, <1>2, <1>4, <1>5, <1>6, Empty DEF Crash, TypeInv, TypeOK, kv

\* Every step keeps the types.
LEMMA TypeNext == TypeInv /\ [Next]_vars => TypeInv'
<1> SUFFICES ASSUME TypeInv, [Next]_vars PROVE TypeInv'  OBVIOUS
<1>1. ASSUME NEW l \in Publishers, Publish(l) PROVE TypeInv'
  BY <1>1, TypeJudge, TypePost, TypeStamp, TypeMark, TypeBook, TypeOpen DEF Publish
<1>2. CASE Pass
  <2>1. ASSUME NEW w \in Warned, Alert(w[1], w[2], w[3]) PROVE TypeInv'
    <3>1. w[1] \in Shapes /\ w[2] \in Stages /\ w[3] \in Sides  BY DEF Warned
    <3> QED BY <2>1, <3>1, TypeAlert
  <2> QED BY <1>1, <1>2, <2>1, Threads, TypePassBegin, TypeJudged, TypeRewrite, TypeSend,
       TypeRecord, TypeSpeak, TypeAlertsDone, TypeHit, TypeSendHit, TypeScore, TypeCommit,
       TypeClose, TypeFree, TypeReset, TypeHitsDone
     DEF Pass
<1>3. CASE Recheck
  BY <1>1, <1>3, Threads, TypeRecheckBegin, TypeJudged DEF Recheck
<1>4. CASE Watch
  BY <1>4, TypeWatchBegin, TypeWatchEnd, TypeWatchEdge, TypeRewrite, TypeSend, TypeRecord DEF Watch
<1>5. CASE Age  BY <1>5, TypeAge
<1>6. CASE Crash  BY <1>6, TypeCrash
<1>7. CASE UNCHANGED vars
  BY <1>7 DEF vars, kv, local, seen, TypeInv, TypeOK, PositionOK
<1> QED BY <1>2, <1>3, <1>4, <1>5, <1>6, <1>7 DEF Next

-----------------------------------------------------------------------------
(* What the markers, the positions and the targets told owe to each other.     *)

Confirming == {"post", "stamp", "mark", "book", "open"}

\* A post of a thread is remembered by the stamp, or the thread is about to write
\* it; a thread about to post has not posted; and a stamp outlives its thread.
StampInv ==
    /\ \A l \in Publishers, s \in Shapes : <<l, s>> \in posted =>
          s \in stamps \/ (lane[l].pc = "stamp" /\ lane[l].shape = s)
    /\ \A l \in Publishers : lane[l].pc = "post" => <<l, lane[l].shape>> \notin posted
    /\ \A l \in Publishers : lane[l].pc = "stamp" => <<l, lane[l].shape>> \in posted
    /\ \A s \in stamps : \E l \in Publishers :
          <<l, s>> \in posted /\ ~(lane[l].pc = "stamp" /\ lane[l].shape = s)

\* What a thread still has to write down for its post, the channel has seen.
ConfirmInv ==
    /\ \A l \in Publishers : lane[l].pc \in Confirming \ {"post"} => told[lane[l].code].confirmed
    /\ \A c \in Codes : positions[c].state # "none" => told[c].confirmed

\* A target that is booked was told, one that is due comes after those told.
RungInv ==
    /\ RungsInOrder
    /\ \A c \in Codes : positions[c].hits \subseteq told[c].rungs
    /\ \A c \in Codes : due[c] # 0 => \A r \in 1..Rungs : r < due[c] => r \in told[c].rungs
    /\ lane["pass"].pc = "hit" =>
          \A r \in 1..Rungs : r < lane["pass"].rung => r \in told[lane["pass"].code].rungs
    /\ lane["pass"].pc \in {"score", "commit"} =>
          lane["pass"].rung \in told[lane["pass"].code].rungs

Inv == TypeInv /\ StampInv /\ ConfirmInv /\ RungInv /\ ClosedIsRetired

\* A step that neither confirms nor trades.
Busy == Confirming \cup Trades
Calm ==
    /\ UNCHANGED <<positions, due, stamps, posted, retired>>
    /\ \A c \in Codes : told'[c].confirmed = told[c].confirmed /\ told'[c].rungs = told[c].rungs
    /\ \A l \in Publishers : \/ lane'[l] = lane[l]
                             \/ lane[l].pc \notin Busy /\ lane'[l].pc \notin Busy
    /\ faults.crashed => faults'.crashed

\* A step that neither confirms nor trades leaves the invariant alone.
LEMMA CalmKeeps == ASSUME Inv, Calm, TypeInv' PROVE Inv'
<1>1. StampInv'
  <2>1. \A l \in Publishers : \A pc \in {"post", "stamp"} :
          /\ lane'[l].pc = pc <=> lane[l].pc = pc
          /\ lane[l].pc = pc => lane'[l].shape = lane[l].shape
    BY DEF Calm, Busy, Confirming
  <2>2. posted' = posted /\ stamps' = stamps  BY DEF Calm
  <2> QED BY <2>1, <2>2 DEF Inv, StampInv
<1>2. ConfirmInv'
  BY Threads DEF Inv, ConfirmInv, Calm, Busy, Confirming, TypeInv, TypeOK, TaskOK, Holds
<1>3. RungInv'
  BY Threads DEF Inv, RungInv, RungsInOrder, Calm, Busy, Trades, TypeInv, TypeOK, TaskOK, Holds
<1>4. ClosedIsRetired'
  BY Threads DEF Inv, ClosedIsRetired, Calm, Busy, Trades, At
<1> QED BY <1>1, <1>2, <1>3, <1>4 DEF Inv

\* Nothing has been posted when the process is first started.
LEMMA InvInit == Init => Inv
<1> SUFFICES ASSUME Init PROVE Inv  OBVIOUS
<1>1. TypeInv  BY TypeInit
<1>2. \A l \in Lanes : lane[l].pc = "idle"  BY DEF Init, Idle
<1>3. \A c \in Codes : positions[c].state = "none" /\ positions[c].hits = {} /\ due[c] = 0
                       /\ told[c].rungs = {}
  BY DEF Init
<1>4. StampInv  BY <1>2, Threads DEF Init, StampInv
<1>5. ConfirmInv  BY <1>2, <1>3, Threads DEF ConfirmInv, Confirming
<1>6. RungInv /\ ClosedIsRetired
  BY <1>2, <1>3, Threads DEF RungInv, RungsInOrder, ClosedIsRetired
<1> QED BY <1>1, <1>4, <1>5, <1>6 DEF Inv

\* A restart is not forgotten.
LEMMA CrashKept == ASSUME NEW b \in BOOLEAN, Upset(b), faults.crashed PROVE faults'.crashed
<1> DEFINE c == faults.crashed \/ b
<1>1. faults' = [upsets |-> faults.upsets + 1, crashed |-> c]  BY DEF Upset
<1>2. c = TRUE  OBVIOUS
<1> HIDE DEF c
<1> QED BY <1>1, <1>2

\* Most steps are calm.
LEMMA CalmSteps ==
    ASSUME Inv
    PROVE  /\ PassBegin => Calm
           /\ "recheck" \in Lanes /\ RecheckBegin => Calm
           /\ \A l \in Publishers : Judged(l) => Calm
           /\ \A s \in Shapes, stage \in Stages, side \in Sides : Alert(s, stage, side) => Calm
           /\ \A l \in Lanes : Rewrite(l) \/ Send(l) \/ Record(l) => Calm
           /\ Speak \/ Free \/ Reset \/ HitsDone => Calm
           /\ "watch" \in Lanes /\ (WatchBegin \/ WatchEnd) => Calm
           /\ "watch" \in Lanes => \A s \in Sides, zone \in {"below", "near", "above"} :
                 WatchEdge(s, zone) => Calm
           /\ Age /\ ~(\E s \in Shapes : StampExpires(s)) => Calm
<1>0. /\ TypeInv /\ lane \in [Lanes -> Task] /\ told \in [Codes -> Told]
      /\ \A l \in Lanes : lane[l].pc = "send" => lane[l].code \in Codes
  BY DEF Inv, TypeInv, TypeOK, TaskOK, Holds
<1> USE DEF Busy, Confirming, Trades, At
<1>1. PassBegin => Calm
  BY <1>0, Threads DEF PassBegin, Go, Calm, seen
<1>2. "recheck" \in Lanes /\ RecheckBegin => Calm
  BY <1>0, Threads DEF RecheckBegin, Go, Calm, seen, kv
<1>3. ASSUME NEW l \in Publishers, Judged(l) PROVE Calm
  BY <1>0, <1>3, Threads DEF Judged, Go, Calm, seen, kv
<1>4. ASSUME NEW s \in Shapes, NEW stage \in Stages, NEW side \in Sides, Alert(s, stage, side)
      PROVE  Calm
  <2>1. \A k \in Lanes : k # "pass" => lane'[k] = lane[k]
    BY <1>0, <1>4 DEF Alert
  <2>2. lane' = lane \/ lane'["pass"].pc = "rewrite"
    BY <1>0, <1>4, Threads DEF Alert, Idle
  <2> QED BY <1>4, <2>1, <2>2, Threads DEF Alert, Calm, seen
<1>5. ASSUME NEW l \in Lanes, Rewrite(l) PROVE Calm
  <2>1. /\ \A k \in Lanes : k # l => lane'[k] = lane[k]
        /\ lane'[l].pc = "send"
    BY <1>0, <1>5 DEF Rewrite, Task
  <2> QED BY <1>5, <2>1, Threads DEF Rewrite, Calm, seen
<1>6. ASSUME NEW l \in Lanes, Send(l) PROVE Calm
  <2>1. /\ \A k \in Lanes : k # l => lane'[k] = lane[k]
        /\ lane'[l].pc \in {"record", "alert", "edges"}
    BY <1>0, <1>6 DEF Send, Go, Drop, Home, Task, Idle
  <2>2. \A c \in Codes : told'[c].confirmed = told[c].confirmed /\ told'[c].rungs = told[c].rungs
    BY <1>0, <1>6 DEF Send, Told
  <2>3. faults.crashed => faults'.crashed  BY <1>6, CrashKept DEF Send, Refused
  <2> QED BY <1>6, <2>1, <2>2, <2>3, Threads DEF Send, Calm, kv
<1>7. ASSUME NEW l \in Lanes, Record(l) PROVE Calm
  <2>1. /\ \A k \in Lanes : k # l => lane'[k] = lane[k]
        /\ lane'[l].pc \in {"speak", "edges"}
    BY <1>0, <1>7 DEF Record, Go, Drop, Task, Idle
  <2> QED BY <1>7, <2>1, Threads DEF Record, Calm, seen
<1>8. Speak => Calm
  BY <1>0, Threads DEF Speak, Drop, Idle, Calm, seen
<1>9. Free => Calm
  BY <1>0, Threads DEF Free, Go, Calm, seen
<1>10. Reset => Calm
  BY <1>0, Threads DEF Reset, Drop, Idle, Calm, seen
<1>11. HitsDone => Calm
  BY <1>0, Threads DEF HitsDone, Go, Calm, seen, kv
<1>12. "watch" \in Lanes /\ WatchBegin => Calm
  BY <1>0, Threads DEF WatchBegin, Go, Calm, seen, kv
<1>13. "watch" \in Lanes /\ WatchEnd => Calm
  BY <1>0, Threads DEF WatchEnd, Drop, Idle, Calm, seen
<1>14. ASSUME "watch" \in Lanes, NEW s \in Sides, NEW zone \in {"below", "near", "above"},
              WatchEdge(s, zone)
       PROVE  Calm
  <2>1. /\ \A k \in Lanes : k # "watch" => lane'[k] = lane[k]
        /\ lane' = lane \/ lane'["watch"].pc = "rewrite"
        /\ At("watch", "edges")
    BY ZenonT(40), <1>0, <1>14 DEF WatchEdge, Idle
  <2> QED BY <1>14, <2>1, Threads DEF WatchEdge, Calm, seen
<1>15. ASSUME Age, ~(\E s \in Shapes : StampExpires(s)) PROVE Calm
  <2>1. UNCHANGED <<positions, due, retired, lane, told, stamps, posted>>
    BY <1>15 DEF Age, MarkerExpires, PinExpires, LedgerAges, LockExpires,
     Cools, ClaimStale, local, seen
  <2>2. faults.crashed => faults'.crashed
    BY <1>15, CrashKept DEF Age, MarkerExpires, PinExpires, LedgerAges, LockExpires,
     Cools, ClaimStale, Aged
  <2> QED BY <2>1, <2>2 DEF Calm
<1> QED BY <1>1, <1>2, <1>3, <1>4, <1>5, <1>6, <1>7, <1>8, <1>9, <1>10, <1>11, <1>12, <1>13,
           <1>14, <1>15

-----------------------------------------------------------------------------
(* The steps that confirm, one thread beside the other.                        *)

\* While a confirmation goes on, targets and released positions are as they were.
LEMMA Confirmed ==
    ASSUME Inv, NEW l \in Publishers, lane[l].pc \in Confirming \cup Rests,
           lane'[l].pc \in Confirming \cup Rests,
           \A k \in Lanes : k # l => lane'[k] = lane[k],
           UNCHANGED <<positions, due, retired>>,
           \A c \in Codes : /\ told'[c].rungs = told[c].rungs
                            /\ told[c].confirmed => told'[c].confirmed,
           faults.crashed => faults'.crashed
    PROVE  RungInv' /\ ClosedIsRetired'
<1>1. /\ lane["pass"].pc \in Trades => lane'["pass"] = lane["pass"]
      /\ lane'["pass"].pc \in Trades => lane'["pass"] = lane["pass"]
  BY Threads DEF Confirming, Rests, Trades
<1>2. lane["pass"].pc \in Trades => lane["pass"].code \in Codes
  BY Threads DEF Inv, TypeInv, TaskOK, Holds, Trades
<1>3. RungInv'  BY <1>1, <1>2 DEF Inv, RungInv, RungsInOrder, Trades
<1>4. ClosedIsRetired'  BY <1>1 DEF Inv, ClosedIsRetired, At, Trades
<1> QED BY <1>3, <1>4

\* A geometry that is taken up has no post inside its stamp's window.
LEMMA InvJudge == ASSUME Inv, NEW l \in Publishers, NEW s \in Shapes, Judge(l, s) PROVE Inv'
<1>0. /\ l \in Lanes /\ TypeInv' /\ lane[l].pc = "judge" /\ lane \in [Lanes -> Task]
      /\ UNCHANGED <<stamps, posted, positions, retired, due, told, faults>>
  BY Threads, TypeJudge DEF Inv, TypeInv, TypeOK, Judge, At, kv, seen
<1>1. CASE UNCHANGED lane
  <2>1. Calm  BY <1>0, <1>1 DEF Calm
  <2> QED BY <1>0, <2>1, CalmKeeps
<1>2. CASE lane' # lane
  <2>1. /\ s \notin stamps
        /\ lane'[l].pc = "post" /\ lane'[l].shape = s
        /\ \A k \in Lanes : k # l => lane'[k] = lane[k]
    BY ZenonT(40), <1>0, <1>2 DEF Judge, Blocked, Idle
  <2>2. <<l, s>> \notin posted  BY <1>0, <2>1 DEF Inv, StampInv
  <2>3. StampInv'
    <3>1. \A k \in Publishers : /\ lane'[k].pc = "stamp" <=> lane[k].pc = "stamp"
                                /\ lane[k].pc = "stamp" => lane'[k] = lane[k]
      BY <1>0, <2>1, Threads
    <3>2. \A k \in Publishers : lane'[k].pc = "post" => <<k, lane'[k].shape>> \notin posted
      BY <1>0, <2>1, <2>2, Threads DEF Inv, StampInv
    <3> QED BY <1>0, <3>1, <3>2 DEF Inv, StampInv
  <2>4. ConfirmInv'
    BY <1>0, <2>1, Threads DEF Inv, ConfirmInv, Confirming
  <2>5. RungInv' /\ ClosedIsRetired'
    BY <1>0, <2>1, Confirmed DEF Confirming, Rests
  <2> QED BY <1>0, <2>3, <2>4, <2>5 DEF Inv
<1> QED BY <1>1, <1>2

\* What a post writes: the task of the thread, the channel, and who posted.
LEMMA PostMoves ==
    ASSUME TypeInv, NEW l \in Publishers, Post(l)
    PROVE  \/ Missed(l) /\ UNCHANGED seen
           \/ \E n \in Nat :
                 /\ Go(l, "stamp") /\ posted' = posted \cup {<<l, lane[l].shape>>}
                 /\ told' = [told EXCEPT ![lane[l].code] =
                       [@ EXCEPT !.confirmed = TRUE, !.charts = n]]
<1>1. told \in [Codes -> Told] /\ lane[l].code \in Codes
  BY Threads DEF TypeInv, TypeOK, TaskOK, Holds, Post, At
<1>2. ASSUME NEW photo \in BOOLEAN,
             told' = [told EXCEPT ![lane[l].code].confirmed = TRUE,
                                  ![lane[l].code].charts = @ + IF photo THEN 1 ELSE 0]
      PROVE  \E n \in Nat : told' = [told EXCEPT ![lane[l].code] =
                                        [@ EXCEPT !.confirmed = TRUE, !.charts = n]]
  <2> DEFINE n == told[lane[l].code].charts + IF photo THEN 1 ELSE 0
  <2>1. n \in Nat  BY <1>1 DEF Told
  <2>2. told' = [told EXCEPT ![lane[l].code] =
                   [told[lane[l].code] EXCEPT !.confirmed = TRUE, !.charts = n]]
    BY <1>1, <1>2
  <2> QED BY <2>1, <2>2
<1> QED BY <1>2 DEF Post, At

\* The post comes before the stamp, and tells before anything is written.
LEMMA InvPost == ASSUME Inv, NEW l \in Publishers, Post(l) PROVE Inv'
<1>0. /\ l \in Lanes /\ TypeInv' /\ lane[l].pc = "post" /\ lane \in [Lanes -> Task]
      /\ lane[l].code \in Codes /\ lane[l].shape \in Shapes /\ told \in [Codes -> Told]
      /\ UNCHANGED <<stamps, positions, retired, due>>
  BY Threads, TypePost DEF Inv, TypeInv, TypeOK, TaskOK, Holds, Post, At, kv
<1>1. /\ \A k \in Lanes : k # l => lane'[k] = lane[k]
      /\ lane'[l].pc \in {"stamp", "judge"}
  <2>1. Go(l, "stamp") \/ Drop(l, "judge")  BY PostMoves DEF Inv, Missed
  <2>2. CASE Go(l, "stamp")  BY <1>0, <2>2 DEF Go, Task
  <2>3. CASE Drop(l, "judge")  BY <1>0, <2>3 DEF Drop, Idle
  <2> QED BY <2>1, <2>2, <2>3
<1>2. \A c \in Codes : /\ told'[c].rungs = told[c].rungs
                       /\ told[c].confirmed => told'[c].confirmed
  <2>1. CASE UNCHANGED seen  BY <2>1 DEF seen
  <2>2. ASSUME NEW n \in Nat,
               told' = [told EXCEPT ![lane[l].code] =
                   [@ EXCEPT !.confirmed = TRUE, !.charts = n]]
        PROVE  \A c \in Codes : /\ told'[c].rungs = told[c].rungs
                                /\ told[c].confirmed => told'[c].confirmed
    BY <1>0, <2>2 DEF Told
  <2> QED BY <2>1, <2>2, PostMoves DEF Inv
<1>3. faults.crashed => faults'.crashed  BY CrashKept DEF Post, Refused
<1>4. RungInv' /\ ClosedIsRetired'
  BY <1>0, <1>1, <1>2, <1>3, Confirmed DEF Confirming, Rests
<1>5. CASE Missed(l) /\ UNCHANGED seen
  <2>1. told' = told /\ posted' = posted  BY <1>5 DEF seen
  <2>2. lane'[l].pc = "judge"  BY <1>0, <1>5 DEF Missed, Drop, Idle
  <2>3. StampInv'
    <3>1. \A k \in Publishers : /\ lane'[k].pc = "stamp" <=> lane[k].pc = "stamp"
                                /\ lane[k].pc = "stamp" => lane'[k] = lane[k]
                                /\ lane'[k].pc = "post" => lane'[k] = lane[k]
      BY <1>0, <1>1, <2>2, Threads
    <3> QED BY <1>0, <2>1, <3>1 DEF Inv, StampInv
  <2>4. ConfirmInv'  BY <1>0, <1>1, <2>1, <2>2, Threads DEF Inv, ConfirmInv, Confirming
  <2> QED BY <1>0, <1>4, <2>3, <2>4 DEF Inv
<1>6. CASE ~(Missed(l) /\ UNCHANGED seen)
  <2>1. /\ lane'[l].pc = "stamp" /\ lane'[l].shape = lane[l].shape
        /\ lane'[l].code = lane[l].code
        /\ posted' = posted \cup {<<l, lane[l].shape>>}
        /\ told'[lane[l].code].confirmed
    <3>1. PICK n \in Nat :
            /\ Go(l, "stamp") /\ posted' = posted \cup {<<l, lane[l].shape>>}
            /\ told' = [told EXCEPT ![lane[l].code] =
                  [@ EXCEPT !.confirmed = TRUE, !.charts = n]]
      BY <1>6, PostMoves DEF Inv
    <3>2. told'[lane[l].code].confirmed  BY <1>0, <3>1 DEF Told
    <3> QED BY <1>0, <3>1, <3>2 DEF Go, Task
  <2>2. <<l, lane[l].shape>> \notin posted  BY <1>0 DEF Inv, StampInv
  <2>3. StampInv'
    <3>1. \A k \in Publishers, s \in Shapes : <<k, s>> \in posted' =>
             s \in stamps \/ (lane'[k].pc = "stamp" /\ lane'[k].shape = s)
      BY <1>0, <1>1, <2>1, Threads DEF Inv, StampInv
    <3>2. \A k \in Publishers : /\ lane'[k].pc = "post" => <<k, lane'[k].shape>> \notin posted'
                                /\ lane'[k].pc = "stamp" => <<k, lane'[k].shape>> \in posted'
      BY <1>0, <1>1, <2>1, Threads DEF Inv, StampInv
    <3>3. ASSUME NEW s \in stamps
          PROVE  \E k \in Publishers :
                    <<k, s>> \in posted' /\ ~(lane'[k].pc = "stamp" /\ lane'[k].shape = s)
      <4>1. PICK k \in Publishers :
              <<k, s>> \in posted /\ ~(lane[k].pc = "stamp" /\ lane[k].shape = s)
        BY DEF Inv, StampInv
      <4>2. ~(lane'[k].pc = "stamp" /\ lane'[k].shape = s)
        BY <1>1, <2>1, <2>2, <4>1, Threads
      <4> QED BY <2>1, <4>1, <4>2
    <3> QED BY <1>0, <3>1, <3>2, <3>3 DEF StampInv
  <2>4. ConfirmInv'
    <3>1. \A k \in Publishers : lane[k].pc \in Confirming => lane[k].code \in Codes
      BY Threads DEF Inv, TypeInv, TaskOK, Holds, Confirming
    <3>2. \A k \in Publishers : lane'[k].pc \in Confirming \ {"post"} =>
             told'[lane'[k].code].confirmed
      BY <1>1, <1>2, <2>1, <3>1, Threads DEF Inv, ConfirmInv, Confirming
    <3> QED BY <1>0, <1>2, <3>2 DEF Inv, ConfirmInv
  <2> QED BY <1>0, <1>4, <2>3, <2>4 DEF Inv
<1> QED BY <1>5, <1>6

\* The stamp follows the post of its own thread.
LEMMA InvStamp == ASSUME Inv, NEW l \in Publishers, Stamp(l) PROVE Inv'
<1>0. /\ l \in Lanes /\ TypeInv' /\ lane[l].pc = "stamp" /\ lane \in [Lanes -> Task]
      /\ UNCHANGED <<posted, told, positions, retired, due, faults>>
      /\ stamps' = stamps \cup {lane[l].shape}
  BY Threads, TypeStamp DEF Inv, TypeInv, TypeOK, Stamp, At, seen
<1>1. /\ \A k \in Lanes : k # l => lane'[k] = lane[k]
      /\ lane'[l].pc = "mark" /\ lane'[l].code = lane[l].code
  BY <1>0 DEF Stamp, Go, Task
<1>2. RungInv' /\ ClosedIsRetired'
  BY <1>0, <1>1, Confirmed DEF Confirming, Rests
<1>3. StampInv'
  <2>1. \A k \in Publishers, s \in Shapes : <<k, s>> \in posted =>
           s \in stamps' \/ (lane'[k].pc = "stamp" /\ lane'[k].shape = s)
    BY <1>0, <1>1, Threads DEF Inv, StampInv
  <2>2. \A k \in Publishers : /\ lane'[k].pc = "post" => <<k, lane'[k].shape>> \notin posted
                              /\ lane'[k].pc = "stamp" => <<k, lane'[k].shape>> \in posted
    BY <1>0, <1>1, Threads DEF Inv, StampInv
  <2>3. <<l, lane[l].shape>> \in posted  BY <1>0 DEF Inv, StampInv
  <2>4. \A s \in stamps' : \E k \in Publishers :
           <<k, s>> \in posted /\ ~(lane'[k].pc = "stamp" /\ lane'[k].shape = s)
    BY <1>0, <1>1, <2>3, Threads DEF Inv, StampInv
  <2> QED BY <1>0, <2>1, <2>2, <2>4 DEF StampInv
<1>4. ConfirmInv'
  BY <1>0, <1>1, Threads DEF Inv, ConfirmInv, Confirming
<1> QED BY <1>0, <1>2, <1>3, <1>4 DEF Inv

\* Booking and opening leave the stamps and the posts alone.
LEMMA StampKept ==
    ASSUME Inv, NEW l \in Publishers, UNCHANGED <<posted, stamps>>,
           lane[l].pc \notin {"post", "stamp"}, lane'[l].pc \notin {"post", "stamp"},
           \A k \in Lanes : k # l => lane'[k] = lane[k]
    PROVE  StampInv'
<1>1. \A k \in Publishers : \A pc \in {"post", "stamp"} :
        /\ lane'[k].pc = pc <=> lane[k].pc = pc
        /\ lane[k].pc = pc => lane'[k].shape = lane[k].shape
  BY Threads
<1> QED BY <1>1 DEF Inv, StampInv

\* The marker follows the post.
LEMMA InvMark == ASSUME Inv, NEW l \in Publishers, Mark(l) PROVE Inv'
<1>0. /\ l \in Lanes /\ TypeInv' /\ lane[l].pc = "mark" /\ lane \in [Lanes -> Task]
      /\ UNCHANGED <<posted, stamps, told, positions, retired, due, faults>>
  BY Threads, TypeMark DEF Inv, TypeInv, TypeOK, Mark, At, seen
<1>1. /\ \A k \in Lanes : k # l => lane'[k] = lane[k]
      /\ lane'[l].pc = "judge" \/ (lane'[l].pc = "book" /\ lane'[l].code = lane[l].code)
  BY <1>0 DEF Mark, Go, Drop, Idle, Task
<1>2. RungInv' /\ ClosedIsRetired'
  BY <1>0, <1>1, Confirmed DEF Confirming, Rests
<1>3. StampInv'  BY <1>0, <1>1, StampKept
<1>4. ConfirmInv'
  BY <1>0, <1>1, Threads DEF Inv, ConfirmInv, Confirming
<1> QED BY <1>0, <1>2, <1>3, <1>4 DEF Inv

\* So does the fourth chart.
LEMMA InvBook == ASSUME Inv, NEW l \in Publishers, Book(l) PROVE Inv'
<1>0. /\ l \in Lanes /\ TypeInv' /\ lane[l].pc = "book" /\ lane \in [Lanes -> Task]
      /\ UNCHANGED <<posted, stamps, told, positions, retired, due, faults>>
  BY Threads, TypeBook DEF Inv, TypeInv, TypeOK, Book, At, seen
<1>1. /\ \A k \in Lanes : k # l => lane'[k] = lane[k]
      /\ lane'[l].pc = "open" /\ lane'[l].code = lane[l].code
  BY <1>0 DEF Book, Go, Task
<1>2. RungInv' /\ ClosedIsRetired'
  BY <1>0, <1>1, Confirmed DEF Confirming, Rests
<1>3. StampInv'  BY <1>0, <1>1, StampKept
<1>4. ConfirmInv'
  BY <1>0, <1>1, Threads DEF Inv, ConfirmInv, Confirming
<1> QED BY <1>0, <1>2, <1>3, <1>4 DEF Inv

\* A position opened over one of its code starts with no target hit.
LEMMA InvOpen == ASSUME Inv, NEW l \in Publishers, Open(l) PROVE Inv'
<1> DEFINE o == [state |-> "open", hits |-> {}, shape |-> lane[l].shape]
<1>0. /\ l \in Lanes /\ TypeInv' /\ lane[l].pc = "open" /\ lane \in [Lanes -> Task]
      /\ lane[l].code \in Codes
      /\ \A c \in Codes : positions'[c] = IF c = lane[l].code THEN o ELSE positions[c]
      /\ UNCHANGED <<posted, stamps, told, retired, due, faults>>
  BY Threads, TypeOpen DEF Inv, TypeInv, TypeOK, TaskOK, Holds, Open, At, seen
<1>1. /\ \A k \in Lanes : k # l => lane'[k] = lane[k]
      /\ lane'[l].pc = "judge"
  BY <1>0 DEF Open, Drop, Idle
<1>2. /\ lane["pass"].pc \in Trades => lane'["pass"] = lane["pass"]
      /\ lane'["pass"].pc \in Trades => lane'["pass"] = lane["pass"]
  BY <1>0, <1>1, Threads DEF Trades
<1>3. StampInv'  BY <1>0, <1>1, StampKept
<1>4. ConfirmInv'
  <2>1. told[lane[l].code].confirmed  BY <1>0 DEF Inv, ConfirmInv, Confirming
  <2> QED BY <1>0, <1>1, <2>1, Threads DEF Inv, ConfirmInv, Confirming
<1>5. RungInv'
  <2>1. \A c \in Codes : positions'[c].hits \subseteq told[c].rungs
    BY <1>0 DEF Inv, RungInv
  <2> QED BY <1>0, <1>2, <2>1 DEF Inv, RungInv, RungsInOrder, Trades
<1>6. ClosedIsRetired'
  BY <1>0, <1>2 DEF Inv, ClosedIsRetired, At, Trades
<1> QED BY <1>0, <1>3, <1>4, <1>5, <1>6 DEF Inv

-----------------------------------------------------------------------------
(* The hit pass, the end of a window and a restart.                           *)

\* The spot pass at its targets is not confirming, and the other threads stay.
LEMMA Trading ==
    ASSUME Inv, lane["pass"].pc \in Trades \cup Rests, lane'["pass"].pc \in Trades \cup Rests,
           \A k \in Lanes : k # "pass" => lane'[k] = lane[k],
           UNCHANGED <<stamps, posted>>,
           \A c \in Codes : /\ told[c].confirmed => told'[c].confirmed
                            /\ positions'[c].state # "none" => positions[c].state # "none"
    PROVE  StampInv' /\ ConfirmInv'
<1>1. StampInv'  BY Threads, StampKept DEF Trades, Rests
<1>2. \A l \in Publishers : lane'[l].pc \in Confirming => lane'[l] = lane[l]
  BY Threads DEF Confirming, Trades, Rests
<1>3. \A l \in Publishers : lane[l].pc \in Confirming => lane[l].code \in Codes
  BY Threads DEF Inv, TypeInv, TaskOK, Holds, Confirming
<1>4. ConfirmInv'  BY <1>2, <1>3 DEF Inv, ConfirmInv
<1> QED BY <1>1, <1>4

\* The hit pass asks for the first target not yet hit: those before it were told.
LEMMA InvAlertsDone == ASSUME Inv, AlertsDone PROVE Inv'
<1>0. /\ TypeInv /\ TypeInv' /\ lane["pass"].pc = "alert" /\ lane \in [Lanes -> Task]
      /\ positions \in [Codes -> Position]
      /\ UNCHANGED <<posted, stamps, told, positions, retired, faults>>
  BY Threads, TypeAlertsDone DEF Inv, TypeInv, TypeOK, AlertsDone, At, kv, seen
<1>1. /\ \A k \in Lanes : k # "pass" => lane'[k] = lane[k]
      /\ lane'["pass"].pc = "hits"
  BY <1>0, Threads DEF AlertsDone, Go
<1>2. StampInv' /\ ConfirmInv'  BY <1>0, <1>1, Trading DEF Trades, Rests
<1>3. ASSUME NEW c \in Codes, due'[c] # 0, NEW r \in 1..Rungs, r < due'[c]
      PROVE  r \in told[c].rungs
  <2>1. due'[c] \in NextRungs(positions[c].hits)  BY <1>3 DEF AlertsDone
  <2>2. r \in positions[c].hits  BY <1>3, <2>1, Constants DEF NextRungs
  <2> QED BY <2>2 DEF Inv, RungInv
<1>4. RungInv'  BY <1>0, <1>1, <1>3 DEF Inv, RungInv, RungsInOrder
<1>5. ClosedIsRetired'  BY <1>0, <1>1 DEF Inv, ClosedIsRetired, At
<1> QED BY <1>0, <1>2, <1>4, <1>5 DEF Inv

\* A target is taken up only after those below it were told.
LEMMA InvHit == ASSUME Inv, NEW c \in Codes, Hit(c) PROVE Inv'
<1>0. /\ TypeInv' /\ lane["pass"].pc = "hits" /\ lane \in [Lanes -> Task]
      /\ due' = [due EXCEPT ![c] = 0] /\ due \in [Codes -> 0..Rungs] /\ due[c] # 0
      /\ UNCHANGED <<posted, stamps, told, positions, retired, faults>>
  BY Threads, TypeHit DEF Inv, TypeInv, TypeOK, Hit, At, kv, seen
<1>1. /\ \A k \in Lanes : k # "pass" => lane'[k] = lane[k]
      /\ \/ lane'["pass"].pc = "hits"
         \/ /\ lane'["pass"].pc = "hit" /\ lane'["pass"].code = c
            /\ lane'["pass"].rung = due[c]
  <2>1. CASE UNCHANGED lane  BY <1>0, <2>1
  <2>2. ASSUME NEW slot, NEW chart,
               lane' = [lane EXCEPT !["pass"] = [Idle EXCEPT !.pc = "hit", !.code = c,
                           !.rung = due[c], !.slot = slot, !.chart = chart]]
        PROVE  /\ \A k \in Lanes : k # "pass" => lane'[k] = lane[k]
               /\ lane'["pass"].pc = "hit" /\ lane'["pass"].code = c
               /\ lane'["pass"].rung = due[c]
    BY <1>0, <2>2, Threads DEF Idle
  <2> QED BY <2>1, <2>2 DEF Hit
<1>2. StampInv' /\ ConfirmInv'  BY <1>0, <1>1, Trading DEF Trades, Rests
<1>3. RungInv'  BY <1>0, <1>1 DEF Inv, RungInv, RungsInOrder
<1>4. ClosedIsRetired'  BY <1>0, <1>1 DEF Inv, ClosedIsRetired, At
<1> QED BY <1>0, <1>2, <1>3, <1>4 DEF Inv

\* A told target extends the rungs told of its code by the next one.
LEMMA InvSendHit == ASSUME Inv, SendHit PROVE Inv'
<1> DEFINE t == lane["pass"]
<1>0. /\ TypeInv' /\ t.pc = "hit" /\ lane \in [Lanes -> Task] /\ told \in [Codes -> Told]
      /\ t.code \in Codes /\ t.rung \in 1..Rungs
      /\ UNCHANGED <<posted, stamps, due, positions, retired>>
  BY Threads, TypeSendHit DEF Inv, TypeInv, TypeOK, TaskOK, Holds, SendHit, At, kv
<1>1. /\ \A k \in Lanes : k # "pass" => lane'[k] = lane[k]
      /\ lane'["pass"].pc \in {"score", "hits"} /\ t.pc = "hit"
  <2>1. Go("pass", "score") \/ Drop("pass", "hits")  BY DEF SendHit
  <2>2. CASE Go("pass", "score")  BY <1>0, <2>2, Threads DEF Go, Task
  <2>3. CASE Drop("pass", "hits")  BY <1>0, <2>3, Threads DEF Drop, Idle
  <2> QED BY <1>0, <2>1, <2>2, <2>3
<1>2. /\ \A c \in Codes : /\ told'[c].confirmed = told[c].confirmed
                          /\ told[c].rungs \subseteq told'[c].rungs
                          /\ told'[c].rungs \subseteq told[c].rungs \cup
                                IF c = t.code THEN {t.rung} ELSE {}
      /\ Go("pass", "score") => t.rung \in told'[t.code].rungs
  <2>1. CASE told' = told /\ Drop("pass", "hits")
    BY <1>0, <2>1, Threads DEF Go, Drop, Idle
  <2>2. CASE told' = [told EXCEPT ![t.code].rungs = @ \cup {t.rung},
                                  ![t.code].charts = @ + IF t.chart THEN 1 ELSE 0]
    BY <1>0, <2>2 DEF Told
  <2> QED BY <2>1, <2>2 DEF SendHit
<1>3. StampInv' /\ ConfirmInv'  BY <1>0, <1>1, <1>2, Trading DEF Trades, Rests
<1>4. \A r \in 1..Rungs : r < t.rung => r \in told[t.code].rungs
  BY <1>0 DEF Inv, RungInv
<1>5. told[t.code].confirmed  BY <1>0 DEF Inv, ConfirmInv, TypeInv, PositionOK, Trades
<1>6. RungsInOrder'
  <2> SUFFICES ASSUME NEW c \in Codes, NEW r \in told'[c].rungs
               PROVE  told'[c].confirmed /\ 1..r \subseteq told'[c].rungs
    BY DEF RungsInOrder
  <2>1. CASE r \in told[c].rungs
    <3>1. told[c].confirmed /\ 1..r \subseteq told[c].rungs
      BY <2>1 DEF Inv, RungInv, RungsInOrder
    <3> QED BY <1>2, <3>1
  <2>2. CASE r \notin told[c].rungs
    <3>1. c = t.code /\ r = t.rung  BY <1>2, <2>2
    <3>2. \A q \in 1..r : q = r \/ (q \in 1..Rungs /\ q < r)
      BY <1>0, <3>1, Constants
    <3> QED BY <1>2, <1>4, <1>5, <3>1, <3>2
  <2> QED BY <2>1, <2>2
<1>7. RungInv'
  <2>1. CASE Go("pass", "score")
    <3>1. lane'["pass"].code = t.code /\ lane'["pass"].rung = t.rung /\ lane'["pass"].pc = "score"
      BY <1>0, <2>1, Threads DEF Go, Task
    <3> QED BY <1>0, <1>2, <1>6, <2>1, <3>1 DEF Inv, RungInv
  <2>2. CASE Drop("pass", "hits")
    <3>1. lane'["pass"].pc = "hits"  BY <1>0, <2>2, Threads DEF Drop, Idle
    <3> QED BY <1>0, <1>2, <1>6, <3>1 DEF Inv, RungInv
  <2> QED BY <2>1, <2>2 DEF SendHit
<1>8. ClosedIsRetired'
  <2>1. faults.crashed => faults'.crashed  BY CrashKept DEF SendHit, Refused
  <2> QED BY <1>0, <1>1, <2>1 DEF Inv, ClosedIsRetired, At
<1> QED BY <1>0, <1>3, <1>7, <1>8 DEF Inv

\* The ledger forgets nothing of a told target.
LEMMA InvScore == ASSUME Inv, Score PROVE Inv'
<1>0. /\ TypeInv' /\ lane["pass"].pc = "score" /\ lane \in [Lanes -> Task]
      /\ UNCHANGED <<posted, stamps, told, positions, due, retired, faults>>
  BY Threads, TypeScore DEF Inv, TypeInv, TypeOK, Score, At, seen
<1>1. /\ \A k \in Lanes : k # "pass" => lane'[k] = lane[k]
      /\ lane'["pass"].pc = "commit" /\ lane'["pass"].code = lane["pass"].code
      /\ lane'["pass"].rung = lane["pass"].rung
  BY <1>0, Threads DEF Score, Go, Task
<1>2. StampInv' /\ ConfirmInv'  BY <1>0, <1>1, Trading DEF Trades, Rests
<1>3. RungInv'  BY <1>0, <1>1 DEF Inv, RungInv, RungsInOrder
<1>4. ClosedIsRetired'  BY <1>0, <1>1 DEF Inv, ClosedIsRetired, At
<1> QED BY <1>0, <1>2, <1>3, <1>4 DEF Inv

\* A position records only targets that were told.
LEMMA InvCommit == ASSUME Inv, Commit PROVE Inv'
<1> DEFINE t == lane["pass"]
<1>0. /\ TypeInv /\ TypeInv' /\ t.pc = "commit" /\ lane \in [Lanes -> Task]
      /\ positions \in [Codes -> Position]
      /\ t.code \in Codes /\ t.rung \in told[t.code].rungs
      /\ UNCHANGED <<posted, stamps, due, told, retired, faults>>
  BY Threads, TypeCommit
  DEF Inv, TypeInv, TypeOK, TaskOK, Holds, RungInv, Commit, At, seen
<1>1. /\ \A k \in Lanes : k # "pass" => lane'[k] = lane[k]
      /\ \/ lane'["pass"].pc = "close" /\ lane'["pass"].code = t.code
         \/ lane'["pass"].pc = "hits"
  BY <1>0, Threads DEF Commit, Go, Drop, Idle, Task
<1>2. StampInv' /\ ConfirmInv'
  BY <1>0, <1>1, CommitTyped, Trading DEF Trades, Rests
<1> DEFINE hits == positions[t.code].hits \cup {t.rung}
           state == IF hits = 1..Rungs THEN "closed" ELSE positions[t.code].state
           n == [positions[t.code] EXCEPT !.hits = hits, !.state = state]
<1>3. positions' = [positions EXCEPT ![t.code] = n]  BY <1>0 DEF Commit
<1>4. /\ Go("pass", "close") <=> hits = 1..Rungs
      /\ hits # 1..Rungs => state = positions[t.code].state
  BY <1>0, Threads DEF Commit, Released, Go, Drop, Idle
<1>5. positions[t.code].hits \subseteq told[t.code].rungs  BY <1>0 DEF Inv, RungInv
<1>6. hits \subseteq told[t.code].rungs  BY <1>0, <1>5
<1> HIDE DEF hits, state
<1>7. /\ \A c \in Codes : positions'[c] = IF c = t.code THEN n ELSE positions[c]
      /\ n.hits = hits /\ n.state = state
  BY <1>0, <1>3 DEF Position
<1> HIDE DEF n
<1>8. RungInv'
  <2>1. \A c \in Codes : positions'[c].hits \subseteq told[c].rungs
    BY <1>6, <1>7 DEF Inv, RungInv
  <2> QED BY <1>0, <1>1, <2>1 DEF Inv, RungInv, RungsInOrder
<1>9. ClosedIsRetired'
  <2> SUFFICES ASSUME ~faults'.crashed, NEW c \in Codes, positions'[c].state = "closed"
               PROVE  \/ positions'[c].shape \in retired'
                      \/ lane'["pass"].pc = "close" /\ lane'["pass"].code = c
    BY DEF ClosedIsRetired, At
  <2>1. positions'[c].shape = positions[c].shape  BY CommitTyped DEF Inv
  <2>2. CASE positions[c].state = "closed"
    BY <1>0, <2>1, <2>2 DEF Inv, ClosedIsRetired, At
  <2>3. CASE positions[c].state # "closed"
    <3>1. c = t.code /\ hits = 1..Rungs  BY <1>4, <1>7, <2>3
    <3>2. lane'["pass"].pc = "close"  BY <1>0, <1>4, <3>1, Threads DEF Go, Task
    <3> QED BY <1>1, <3>1, <3>2
  <2> QED BY <2>2, <2>3
<1> QED BY <1>0, <1>2, <1>8, <1>9 DEF Inv

\* A position is closed by the thread that retires its geometry.
LEMMA InvClose == ASSUME Inv, Close PROVE Inv'
<1> DEFINE t == lane["pass"]
           n == [positions[t.code] EXCEPT !.state = "closed"]
<1>0. /\ TypeInv /\ TypeInv' /\ t.pc = "close" /\ lane \in [Lanes -> Task]
      /\ positions \in [Codes -> Position] /\ t.code \in Codes
      /\ positions[t.code].state # "none"
      /\ UNCHANGED <<posted, stamps, due, told, faults>>
      /\ retired' = retired \cup {positions[t.code].shape}
      /\ positions' = [positions EXCEPT ![t.code] = n]
  BY Threads, TypeClose
  DEF Inv, TypeInv, TypeOK, TaskOK, Holds, PositionOK, Trades, Close, At, seen
<1>1. /\ \A k \in Lanes : k # "pass" => lane'[k] = lane[k]
      /\ lane'["pass"].pc = "free"
  BY <1>0, Threads DEF Close, Go, Task
<1>2. /\ \A c \in Codes : positions'[c] = IF c = t.code THEN n ELSE positions[c]
      /\ n.hits = positions[t.code].hits /\ n.shape = positions[t.code].shape
  BY <1>0 DEF Position
<1> HIDE DEF n
<1>3. StampInv'
  BY <1>0, <1>1, Threads, StampKept
<1>4. ConfirmInv'
  <2>1. \A l \in Publishers : lane'[l].pc \in Confirming => lane'[l] = lane[l]
    BY <1>1, Threads DEF Confirming
  <2> QED BY <1>0, <1>2, <2>1 DEF Inv, ConfirmInv
<1>5. RungInv'
  <2>1. \A c \in Codes : positions'[c].hits \subseteq told[c].rungs
    BY <1>2 DEF Inv, RungInv
  <2> QED BY <1>0, <1>1, <2>1 DEF Inv, RungInv, RungsInOrder
<1>6. ClosedIsRetired'  BY <1>0, <1>1, <1>2 DEF Inv, ClosedIsRetired, At
<1> QED BY <1>0, <1>3, <1>4, <1>5, <1>6 DEF Inv

\* An expired stamp opens the window of its geometry again.
LEMMA InvStampExpires == ASSUME Inv, NEW s \in Shapes, Age, StampExpires(s) PROVE Inv'
<1>0. /\ TypeInv' /\ UNCHANGED <<positions, retired, due, lane, told>>
      /\ stamps' = stamps \ {s} /\ posted' = {p \in posted : p[2] # s}
      /\ \A l \in Publishers : lane[l].pc \in {"post", "stamp"} => lane[l].shape # s
  BY TypeAge DEF Inv, StampExpires, local
<1>1. faults.crashed => faults'.crashed  BY CrashKept DEF StampExpires, Aged
<1>2. \A l \in Publishers, r \in Shapes : <<l, r>> \in posted' <=> <<l, r>> \in posted /\ r # s
  BY <1>0
<1>3. StampInv'
  <2>1. \A l \in Publishers, r \in Shapes : <<l, r>> \in posted' =>
           r \in stamps' \/ (lane'[l].pc = "stamp" /\ lane'[l].shape = r)
    BY <1>0, <1>2 DEF Inv, StampInv
  <2>2. \A l \in Publishers : lane[l].pc \in {"post", "stamp"} => lane[l].shape \in Shapes
    BY Threads DEF Inv, TypeInv, TaskOK, Holds
  <2>3. \A l \in Publishers : /\ lane'[l].pc = "post" => <<l, lane'[l].shape>> \notin posted'
                              /\ lane'[l].pc = "stamp" => <<l, lane'[l].shape>> \in posted'
    BY <1>0, <1>2, <2>2 DEF Inv, StampInv
  <2>4. stamps \subseteq Shapes  BY DEF Inv, TypeInv, TypeOK
  <2>5. \A r \in stamps' : \E l \in Publishers :
           <<l, r>> \in posted' /\ ~(lane'[l].pc = "stamp" /\ lane'[l].shape = r)
    BY <1>0, <1>2, <2>4 DEF Inv, StampInv
  <2> QED BY <2>1, <2>3, <2>5 DEF StampInv
<1>4. ConfirmInv'  BY <1>0 DEF Inv, ConfirmInv
<1>5. RungInv'  BY <1>0 DEF Inv, RungInv, RungsInOrder
<1>6. ClosedIsRetired'  BY <1>0, <1>1 DEF Inv, ClosedIsRetired, At
<1> QED BY <1>0, <1>3, <1>4, <1>5, <1>6 DEF Inv

\* A restart leaves the store as it is.
LEMMA InvCrash == ASSUME Inv, Crash PROVE Inv'
<1>0. /\ TypeInv' /\ UNCHANGED <<positions, stamps, retired, told>>
      /\ \A l \in Lanes : lane'[l].pc = "idle"
      /\ \A c \in Codes : due'[c] = 0
      /\ posted' = posted \ {<<l, lane[l].shape>> : l \in {m \in Publishers : lane[m].pc = "stamp"}}
  BY TypeCrash DEF Inv, Crash, Idle, kv, At
<1>1. faults'.crashed
  <2> DEFINE c == faults.crashed \/ TRUE
  <2>1. faults' = [upsets |-> faults.upsets + 1, crashed |-> c]  BY DEF Crash, Upset
  <2>2. c = TRUE  OBVIOUS
  <2> HIDE DEF c
  <2> QED BY <2>1, <2>2
<1>2. \A l \in Publishers, s \in Shapes :
        <<l, s>> \in posted' <=> <<l, s>> \in posted /\ ~(lane[l].pc = "stamp" /\ lane[l].shape = s)
  BY <1>0
<1>3. StampInv'
  <2>1. stamps \subseteq Shapes  BY DEF Inv, TypeInv, TypeOK
  <2>2. \A l \in Publishers, s \in Shapes : <<l, s>> \in posted' => s \in stamps
    BY <1>2 DEF Inv, StampInv
  <2>3. \A s \in stamps : \E l \in Publishers : <<l, s>> \in posted'
    BY <1>2, <2>1 DEF Inv, StampInv
  <2> QED BY <1>0, <2>2, <2>3, Threads DEF StampInv
<1>4. ConfirmInv'  BY <1>0, Threads DEF Inv, ConfirmInv, Confirming
<1>5. RungInv'  BY <1>0, Threads DEF Inv, RungInv, RungsInOrder
<1>6. ClosedIsRetired'  BY <1>1 DEF ClosedIsRetired
<1> QED BY <1>0, <1>3, <1>4, <1>5, <1>6 DEF Inv

\* Every step keeps the invariant.
LEMMA InvNext == Inv /\ [Next]_vars => Inv'
<1> SUFFICES ASSUME Inv, [Next]_vars PROVE Inv'  OBVIOUS
<1>0. TypeInv'  BY TypeNext DEF Inv
<1>1. ASSUME NEW l \in Publishers, Publish(l) PROVE Inv'
  BY <1>1, InvJudge, InvPost, InvStamp, InvMark, InvBook, InvOpen DEF Publish
<1>2. CASE Pass
  <2>1. ASSUME NEW w \in Warned, Alert(w[1], w[2], w[3]) PROVE Calm
    <3>1. w[1] \in Shapes /\ w[2] \in Stages /\ w[3] \in Sides  BY DEF Warned
    <3> QED BY <2>1, <3>1, CalmSteps
  <2>2. CASE Calm  BY <1>0, <2>2, CalmKeeps
  <2> QED BY <1>1, <1>2, <2>1, <2>2, Threads, CalmSteps, InvAlertsDone, InvHit, InvSendHit,
       InvScore, InvCommit, InvClose
     DEF Pass
<1>3. CASE Recheck
  BY <1>0, <1>1, <1>3, Threads, CalmSteps, CalmKeeps DEF Recheck
<1>4. CASE Watch
  BY <1>0, <1>4, CalmSteps, CalmKeeps DEF Watch
<1>5. CASE Age
  BY <1>0, <1>5, CalmSteps, CalmKeeps, InvStampExpires
<1>6. CASE Crash  BY <1>6, InvCrash
<1>7. CASE UNCHANGED vars
  <2>1. Calm  BY <1>7 DEF vars, kv, local, seen, Calm
  <2> QED BY <1>0, <2>1, CalmKeeps
<1> QED BY <1>2, <1>3, <1>4, <1>5, <1>6, <1>7 DEF Next

\* The invariant the properties follow from.
THEOREM SpotInv == Spec => []Inv
BY InvInit, InvNext, PTL DEF Spec

-----------------------------------------------------------------------------
(* The charts of the warnings.                                                *)

Alerting == {"send", "record"}

\* A stage a thread drew is on the ledger of its journey, or the thread is about
\* to write it there; no code is used for two journeys.
ChartInv ==
    /\ ledger.code # 0 => ledger.code \in used
    /\ \A c \in Codes : told[c].drawn # {} => c \in used
    /\ \A l \in Lanes : lane[l].pc \in Alerting => lane[l].code \in used
    /\ \A l \in Lanes, stage \in Stages, c \in Codes : <<l, stage>> \in told[c].drawn =>
          \/ faults.crashed \/ ledger.code # c \/ stage \in ledger.charted
          \/ /\ lane[l].pc = "record" /\ lane[l].chart
             /\ lane[l].code = c /\ lane[l].stage = stage
    /\ \A l \in Lanes : lane[l].pc = "send" /\ lane[l].chart =>
          faults.crashed \/ <<l, lane[l].stage>> \notin told[lane[l].code].drawn

\* A step that draws no warning and leaves the journey its code and its stages.
Still ==
    /\ ledger'.code = ledger.code /\ ledger'.charted = ledger.charted
    /\ used \subseteq used'
    /\ \A c \in Codes : told'[c].drawn = told[c].drawn
    /\ \A l \in Lanes : \/ lane'[l] = lane[l]
                        \/ lane[l].pc \notin Alerting /\ lane'[l].pc \notin Alerting
    /\ faults.crashed => faults'.crashed

\* A step that draws nothing and leaves the ledger's journey alone.
LEMMA StillKeeps == ASSUME TypeInv, ChartInv, Still PROVE ChartInv'
<1>1. \A l \in Lanes : lane[l].pc \in Alerting => lane[l].code \in Codes /\ lane[l].stage \in Stages
  BY DEF TypeInv, TaskOK, Holds, Alerting
<1>2. /\ ledger'.code # 0 => ledger'.code \in used'
      /\ \A c \in Codes : told'[c].drawn # {} => c \in used'
      /\ \A l \in Lanes : lane'[l].pc \in Alerting => lane'[l].code \in used'
  BY DEF ChartInv, Still
<1>3. \A l \in Lanes, stage \in Stages, c \in Codes : <<l, stage>> \in told'[c].drawn =>
          \/ faults'.crashed \/ ledger'.code # c \/ stage \in ledger'.charted
          \/ /\ lane'[l].pc = "record" /\ lane'[l].chart
             /\ lane'[l].code = c /\ lane'[l].stage = stage
  BY DEF ChartInv, Still, Alerting
<1>4. \A l \in Lanes : lane'[l].pc = "send" /\ lane'[l].chart =>
          faults'.crashed \/ <<l, lane'[l].stage>> \notin told'[lane'[l].code].drawn
  BY <1>1 DEF ChartInv, Still, Alerting
<1> QED BY <1>2, <1>3, <1>4 DEF ChartInv

\* Every step is still but those of the warnings, the reset and the restart.
LEMMA StillSteps ==
    ASSUME TypeInv
    PROVE  /\ PassBegin => Still
           /\ "recheck" \in Lanes /\ RecheckBegin => Still
           /\ \A l \in Publishers : Publish(l) \/ Judged(l) => Still
           /\ \A s \in Shapes, stage \in Stages, side \in Sides : Alert(s, stage, side) => Still
           /\ Speak \/ AlertsDone \/ SendHit \/ Score \/ Commit \/ Close \/ Free \/ HitsDone => Still
           /\ \A c \in Codes : Hit(c) => Still
           /\ "watch" \in Lanes /\ (WatchBegin \/ WatchEnd) => Still
           /\ "watch" \in Lanes => \A s \in Sides, zone \in {"below", "near", "above"} :
                 WatchEdge(s, zone) => Still
           /\ Age => Still
<1>0. /\ lane \in [Lanes -> Task] /\ told \in [Codes -> Told] /\ ledger \in Journey
      /\ \A l \in Lanes : lane[l].pc \in {"post", "hit"} => lane[l].code \in Codes
  BY DEF TypeInv, TypeOK, TaskOK, Holds
<1> USE DEF Alerting, At
<1>1. PassBegin => Still
  BY <1>0, Threads DEF PassBegin, Find, Go, Still, seen
<1>2. "recheck" \in Lanes /\ RecheckBegin => Still
  BY <1>0, Threads DEF RecheckBegin, Find, Go, Still, seen, kv
<1>3. ASSUME NEW l \in Publishers, NEW s \in Shapes, Judge(l, s) PROVE Still
  <2>1. l \in Lanes /\ lane[l].pc = "judge" /\ \A k \in Lanes : k # l => lane'[k] = lane[k]
    BY <1>0, <1>3, Threads DEF Judge
  <2>2. lane' = lane \/ lane'[l].pc = "post"  BY <1>0, <1>3, <2>1 DEF Judge, Idle
  <2> QED BY <1>3, <2>1, <2>2 DEF Judge, Still, seen, kv
<1>4. ASSUME NEW l \in Publishers, Post(l) PROVE Still
  <2>1. /\ l \in Lanes /\ lane[l].pc = "post" /\ \A k \in Lanes : k # l => lane'[k] = lane[k]
        /\ lane'[l].pc \in {"stamp", "judge"}
    <3>1. l \in Lanes /\ lane[l].pc = "post" /\ (Go(l, "stamp") \/ Drop(l, "judge"))
      BY <1>4, Threads DEF Post, Missed
    <3>2. CASE Go(l, "stamp")  BY <1>0, <3>1, <3>2 DEF Go, Task
    <3>3. CASE Drop(l, "judge")  BY <1>0, <3>1, <3>3 DEF Drop, Idle
    <3> QED BY <3>1, <3>2, <3>3
  <2>2. \A c \in Codes : told'[c].drawn = told[c].drawn
    <3>1. CASE UNCHANGED seen  BY <3>1 DEF seen
    <3>2. ASSUME NEW n \in Nat,
                 told' = [told EXCEPT ![lane[l].code] =
                     [@ EXCEPT !.confirmed = TRUE, !.charts = n]]
          PROVE  \A c \in Codes : told'[c].drawn = told[c].drawn
      BY <1>0, <2>1, <3>2 DEF Told
    <3> QED BY <1>4, <3>1, <3>2, PostMoves
  <2>3. faults.crashed => faults'.crashed  BY <1>4, CrashKept DEF Post, Refused
  <2> QED BY <1>4, <2>1, <2>2, <2>3 DEF Post, Still, kv
<1>5. ASSUME NEW l \in Publishers, Stamp(l) PROVE Still
  BY <1>0, <1>5, Threads DEF Stamp, Go, Still, seen
<1>6. ASSUME NEW l \in Publishers, Mark(l) PROVE Still
  <2>1. l \in Lanes /\ lane[l].pc = "mark" /\ (Go(l, "book") \/ Drop(l, "judge"))
    BY <1>6, Threads DEF Mark
  <2>2. \A k \in Lanes : k # l => lane'[k] = lane[k]  BY <1>0, <2>1 DEF Go, Drop
  <2>3. lane'[l].pc \in {"book", "judge"}  BY <1>0, <2>1 DEF Go, Drop, Idle, Task
  <2> QED BY <1>6, <2>1, <2>2, <2>3 DEF Mark, Still, seen
<1>7. ASSUME NEW l \in Publishers, Book(l) PROVE Still
  <2>1. ledger'.code = ledger.code /\ ledger'.charted = ledger.charted
    BY <1>0, <1>7 DEF Book, Journey
  <2> QED BY <1>0, <1>7, <2>1, Threads DEF Book, Go, Still, seen
<1>8. ASSUME NEW l \in Publishers, Open(l) PROVE Still
  BY <1>0, <1>8, Threads DEF Open, Drop, Idle, Still, seen
<1>9. ASSUME NEW l \in Publishers, Judged(l) PROVE Still
  BY <1>0, <1>9, Threads DEF Judged, Go, Still, seen, kv
<1>10. ASSUME NEW s \in Shapes, NEW stage \in Stages, NEW side \in Sides, Alert(s, stage, side)
       PROVE  Still
  <2>1. \A k \in Lanes : k # "pass" => lane'[k] = lane[k]
    BY <1>0, <1>10 DEF Alert
  <2>2. lane' = lane \/ lane'["pass"].pc = "rewrite"
    BY <1>0, <1>10, Threads DEF Alert, Idle
  <2>3. ledger'.code = ledger.code /\ ledger'.charted = ledger.charted
    BY <1>0, <1>10 DEF Alert, Claim, Journey
  <2> QED BY <1>10, <2>1, <2>2, <2>3, Threads DEF Alert, Still, seen
<1>11. Speak => Still
  BY <1>0, Threads DEF Speak, Drop, Idle, Still, seen
<1>12. AlertsDone => Still
  BY <1>0, Threads DEF AlertsDone, Go, Still, kv, seen
<1>13. ASSUME NEW c \in Codes, Hit(c) PROVE Still
  <2>1. \A k \in Lanes : k # "pass" => lane'[k] = lane[k]
    BY <1>0, <1>13 DEF Hit
  <2>2. lane' = lane \/ lane'["pass"].pc = "hit"
    BY ZenonT(40), <1>0, <1>13, Threads DEF Hit, Idle
  <2> QED BY <1>13, <2>1, <2>2, Threads DEF Hit, Still, kv, seen
<1>14. ASSUME SendHit PROVE Still
  <2>1. Go("pass", "score") \/ Drop("pass", "hits")  BY <1>14 DEF SendHit
  <2>2. \A k \in Lanes : k # "pass" => lane'[k] = lane[k]  BY <1>0, <2>1 DEF Go, Drop
  <2>3. lane'["pass"].pc \in {"score", "hits"}  BY <1>0, <2>1, Threads DEF Go, Drop, Idle, Task
  <2>4. \A c \in Codes : told'[c].drawn = told[c].drawn
    BY <1>0, <1>14, Threads DEF SendHit, Told
  <2>5. faults.crashed => faults'.crashed  BY <1>14, CrashKept DEF SendHit, Refused
  <2> QED BY <1>14, <2>2, <2>3, <2>4, <2>5, Threads DEF SendHit, Still, kv
<1>15. ASSUME Score PROVE Still
  <2>1. ledger'.code = ledger.code /\ ledger'.charted = ledger.charted
    BY <1>0, <1>15 DEF Score, Journey
  <2> QED BY <1>0, <1>15, <2>1, Threads DEF Score, Go, Still, seen
<1>16. ASSUME Commit PROVE Still
  <2>1. Go("pass", "close") \/ Drop("pass", "hits")  BY <1>16 DEF Commit
  <2>2. \A k \in Lanes : k # "pass" => lane'[k] = lane[k]  BY <1>0, <2>1 DEF Go, Drop
  <2>3. lane'["pass"].pc \in {"close", "hits"}  BY <1>0, <2>1, Threads DEF Go, Drop, Idle, Task
  <2> QED BY <1>16, <2>2, <2>3, Threads DEF Commit, Still, seen
<1>17. Close => Still  BY <1>0, Threads DEF Close, Go, Still, seen
<1>18. Free => Still  BY <1>0, Threads DEF Free, Go, Still, seen
<1>19. HitsDone => Still  BY <1>0, Threads DEF HitsDone, Go, Still, seen, kv
<1>20. "watch" \in Lanes /\ WatchBegin => Still
  BY <1>0, Threads DEF WatchBegin, Go, Still, seen, kv
<1>21. "watch" \in Lanes /\ WatchEnd => Still
  BY <1>0, Threads DEF WatchEnd, Drop, Idle, Still, seen
<1>22. ASSUME "watch" \in Lanes, NEW s \in Sides, NEW zone \in {"below", "near", "above"},
              WatchEdge(s, zone)
       PROVE  Still
  <2>1. /\ \A k \in Lanes : k # "watch" => lane'[k] = lane[k]
        /\ lane' = lane \/ lane'["watch"].pc = "rewrite"
        /\ At("watch", "edges")
    BY ZenonT(40), <1>0, <1>22 DEF WatchEdge, Idle
  <2>2. ledger'.code = ledger.code /\ ledger'.charted = ledger.charted
    BY <1>0, <1>22 DEF WatchEdge, Claim, Journey
  <2> QED BY <1>22, <2>1, <2>2, Threads DEF WatchEdge, Still, seen
<1>23. ASSUME Age PROVE Still
  <2>1. /\ UNCHANGED <<lane, used, told>>
        /\ faults.crashed => faults'.crashed
    BY <1>23, CrashKept DEF Age, MarkerExpires, PinExpires, LedgerAges, StampExpires, LockExpires,
       Cools, ClaimStale, Aged, local, seen
  <2>2. ledger'.code = ledger.code /\ ledger'.charted = ledger.charted
    BY <1>0, <1>23 DEF Age, MarkerExpires, PinExpires, LedgerAges, StampExpires, LockExpires,
       Cools, ClaimStale, Journey
  <2> QED BY <2>1, <2>2 DEF Still
<1> QED
  BY <1>1, <1>2, <1>3, <1>4, <1>5, <1>6, <1>7, <1>8, <1>9, <1>10, <1>11, <1>12, <1>13, <1>14,
     <1>15, <1>16, <1>17, <1>18, <1>19, <1>20, <1>21, <1>22, <1>23
  DEF Publish

\* A warning that starts a journey takes a code nothing was drawn under; one of
\* a running journey is drawn only when the ledger does not name its stage.
LEMMA ChartRewrite == ASSUME TypeInv, ChartInv, NEW l \in Lanes, Rewrite(l) PROVE ChartInv'
<1> DEFINE fresh == ledger.code = 0 \/ ledger.old
           charted == IF fresh THEN {} ELSE Charted(ledger.charted)
           head == ledger.head /\ ~fresh
           asks == lane[l].stage \notin charted /\ ~(head /\ lane[l].stage = "RETEST")
<1>0. /\ ledger \in Journey /\ lane \in [Lanes -> Task] /\ lane[l].pc = "rewrite"
      /\ lane[l].stage \in Stages
      /\ \A k \in Lanes : lane[k].pc \in Alerting => lane[k].code \in Codes
  BY DEF TypeInv, TypeOK, TaskOK, Holds, Rewrite, At, Alerting
<1>1. PICK code \in IF fresh THEN Codes \ used ELSE {ledger.code} :
        /\ used' = used \cup {code}
        /\ ledger' = [EmptyLedger EXCEPT !.code = code, !.charted = charted, !.head = head]
        /\ lane' = [lane EXCEPT ![l].pc = "send", ![l].code = code, ![l].chart = @ /\ asks]
  BY DEF Rewrite
<1>2. /\ code \in Codes
      /\ fresh => code \notin used
      /\ ~fresh => code = ledger.code /\ code \in used /\ charted = ledger.charted
  BY <1>0, <1>1 DEF Journey, Charted, ChartInv
<1>3. ledger'.code = code /\ ledger'.charted = charted /\ used \subseteq used' /\ code \in used'
  BY <1>1 DEF EmptyLedger
<1>4. /\ \A k \in Lanes : k # l => lane'[k] = lane[k]
      /\ lane'[l].pc = "send" /\ lane'[l].code = code /\ lane'[l].stage = lane[l].stage
      /\ lane'[l].chart = (lane[l].chart /\ asks)
  BY <1>0, <1>1 DEF Task
<1>5. lane'[l].chart => lane[l].stage \notin charted  BY <1>4
<1> HIDE DEF charted, head, asks, fresh
<1>6. told' = told /\ faults' = faults  BY DEF Rewrite, seen
<1>7. /\ \A c \in Codes : told'[c].drawn # {} => c \in used'
      /\ \A k \in Lanes : lane'[k].pc \in Alerting => lane'[k].code \in used'
  BY <1>3, <1>4, <1>6 DEF ChartInv
<1>8. ASSUME NEW k \in Lanes, NEW stage \in Stages, NEW c \in Codes,
             <<k, stage>> \in told[c].drawn, ~faults.crashed, c = code, stage \notin charted
      PROVE  /\ lane'[k].pc = "record" /\ lane'[k].chart
             /\ lane'[k].code = c /\ lane'[k].stage = stage
  <2>1. c \in used  BY <1>8 DEF ChartInv
  <2>2. c = ledger.code /\ stage \notin ledger.charted  BY <1>2, <1>8, <2>1
  <2>3. /\ lane[k].pc = "record" /\ lane[k].chart
        /\ lane[k].code = c /\ lane[k].stage = stage
    BY <1>8, <2>2 DEF ChartInv
  <2> QED BY <1>0, <1>4, <2>3
<1>9. ASSUME NEW k \in Lanes, lane'[k].pc = "send", lane'[k].chart, ~faults.crashed
      PROVE  <<k, lane'[k].stage>> \notin told[lane'[k].code].drawn
  <2>1. CASE k = l
    <3>1. lane'[k].code = code /\ lane'[k].stage = lane[l].stage /\ lane[l].stage \notin charted
      BY <1>4, <1>5, <1>9, <2>1
    <3>2. lane'[k].pc # "record"  BY <1>9
    <3> QED BY <1>0, <1>2, <1>8, <1>9, <3>1, <3>2
  <2>2. CASE k # l  BY <1>4, <1>9, <2>2 DEF ChartInv
  <2> QED BY <2>1, <2>2
<1>10. \A k \in Lanes, stage \in Stages, c \in Codes : <<k, stage>> \in told'[c].drawn =>
          \/ faults'.crashed \/ ledger'.code # c \/ stage \in ledger'.charted
          \/ /\ lane'[k].pc = "record" /\ lane'[k].chart
             /\ lane'[k].code = c /\ lane'[k].stage = stage
  BY <1>3, <1>6, <1>8
<1>11. \A k \in Lanes : lane'[k].pc = "send" /\ lane'[k].chart =>
          faults'.crashed \/ <<k, lane'[k].stage>> \notin told'[lane'[k].code].drawn
  BY <1>6, <1>9
<1>12. ledger'.code \in used'  BY <1>3
<1> QED BY <1>7, <1>10, <1>11, <1>12 DEF ChartInv

\* A warning that is drawn is about to be recorded.
LEMMA ChartSend == ASSUME TypeInv, ChartInv, NEW l \in Lanes, Send(l) PROVE ChartInv'
<1>0. /\ lane \in [Lanes -> Task] /\ told \in [Codes -> Told] /\ lane[l].pc = "send"
      /\ lane[l].stage \in Stages /\ lane[l].code \in Codes /\ lane[l].code \in used
      /\ UNCHANGED <<ledger, used>>
  BY DEF TypeInv, TypeOK, TaskOK, Holds, Send, At, ChartInv, Alerting, kv
<1>1. faults.crashed => faults'.crashed  BY CrashKept DEF Send, Refused
<1>2. \A k \in Lanes : lane[k].pc \in Alerting => lane[k].code \in Codes /\ lane[k].stage \in Stages
  BY DEF TypeInv, TaskOK, Holds, Alerting
<1>3. CASE Go(l, "record")
  <2>1. /\ \A k \in Lanes : k # l => lane'[k] = lane[k]
        /\ lane'[l].pc = "record" /\ lane'[l].chart = lane[l].chart
        /\ lane'[l].code = lane[l].code /\ lane'[l].stage = lane[l].stage
    BY <1>0, <1>3 DEF Go, Task
  <2>2. \A c \in Codes : told'[c].drawn =
           IF lane[l].chart /\ c = lane[l].code THEN told[c].drawn \cup {<<l, lane[l].stage>>}
           ELSE told[c].drawn
    <3>1. ~Drop(l, Home(l))  BY <1>0, <2>1 DEF Drop, Idle, Home
    <3>2. CASE lane[l].chart
      <4> DEFINE n == told[lane[l].code].charts + 1
                 d == told[lane[l].code].drawn \cup {<<l, lane[l].stage>>}
      <4>1. told' = [told EXCEPT ![lane[l].code] =
                       [told[lane[l].code] EXCEPT !.charts = n, !.drawn = d]]
        BY <1>0, <3>1, <3>2 DEF Send
      <4> HIDE DEF n, d
      <4>2. \A c \in Codes : told'[c].drawn = IF c = lane[l].code THEN d ELSE told[c].drawn
        BY <1>0, <4>1 DEF Told
      <4> QED BY <3>2, <4>2 DEF d
    <3>3. CASE ~lane[l].chart  BY <3>1, <3>3 DEF Send
    <3> QED BY <3>2, <3>3
  <2>3. /\ ledger'.code # 0 => ledger'.code \in used'
        /\ \A c \in Codes : told'[c].drawn # {} => c \in used'
        /\ \A k \in Lanes : lane'[k].pc \in Alerting => lane'[k].code \in used'
    BY ZenonT(40), <1>0, <2>1, <2>2 DEF ChartInv, Alerting
  <2>4. \A k \in Lanes, stage \in Stages, c \in Codes : <<k, stage>> \in told'[c].drawn =>
          \/ faults'.crashed \/ ledger'.code # c \/ stage \in ledger'.charted
          \/ /\ lane'[k].pc = "record" /\ lane'[k].chart
             /\ lane'[k].code = c /\ lane'[k].stage = stage
    <3> SUFFICES ASSUME NEW k \in Lanes, NEW stage \in Stages, NEW c \in Codes,
                        <<k, stage>> \in told'[c].drawn
                 PROVE  \/ faults'.crashed \/ ledger.code # c \/ stage \in ledger.charted
                        \/ /\ lane'[k].pc = "record" /\ lane'[k].chart
                           /\ lane'[k].code = c /\ lane'[k].stage = stage
      BY <1>0
    <3>1. CASE <<k, stage>> \in told[c].drawn
      <4>1. \/ faults.crashed \/ ledger.code # c \/ stage \in ledger.charted
            \/ /\ lane[k].pc = "record" /\ lane[k].chart
               /\ lane[k].code = c /\ lane[k].stage = stage
        BY <3>1 DEF ChartInv
      <4>2. lane[k].pc = "record" => k # l  BY <1>0
      <4> QED BY <1>1, <2>1, <4>1, <4>2
    <3>2. CASE <<k, stage>> \notin told[c].drawn
      <4>1. lane[l].chart /\ c = lane[l].code  BY <2>2, <3>2
      <4>2. <<k, stage>> \in {<<l, lane[l].stage>>}  BY <2>2, <3>2, <4>1
      <4>3. <<k, stage>> = <<l, lane[l].stage>>  BY <4>2
      <4>4. k = l /\ stage = lane[l].stage  BY <4>3
      <4> QED BY <2>1, <4>1, <4>4
    <3> QED BY <3>1, <3>2
  <2>5. \A k \in Lanes : lane'[k].pc = "send" /\ lane'[k].chart =>
          faults'.crashed \/ <<k, lane'[k].stage>> \notin told'[lane'[k].code].drawn
    <3> SUFFICES ASSUME NEW k \in Lanes, lane'[k].pc = "send", lane'[k].chart, ~faults.crashed
                 PROVE  <<k, lane'[k].stage>> \notin told'[lane'[k].code].drawn
      BY <1>1
    <3>1. k # l /\ lane'[k] = lane[k]  BY <2>1
    <3>2. <<k, lane[k].stage>> \notin told[lane[k].code].drawn  BY <3>1 DEF ChartInv
    <3>3. lane[k].code \in Codes  BY <1>2, <3>1 DEF Alerting
    <3>4. <<k, lane[k].stage>> # <<l, lane[l].stage>>  BY <3>1
    <3>5. told'[lane[k].code].drawn \subseteq
            told[lane[k].code].drawn \cup {<<l, lane[l].stage>>}
      BY <2>2, <3>3
    <3> QED BY <3>1, <3>2, <3>4, <3>5
  <2> QED BY <2>3, <2>4, <2>5 DEF ChartInv
<1>4. CASE ~Go(l, "record")
  <2>1. told' = told /\ Drop(l, Home(l))  BY <1>4 DEF Send
  <2>2. /\ \A k \in Lanes : k # l => lane'[k] = lane[k]
        /\ lane'[l].pc \in {"alert", "edges"}
    BY <1>0, <2>1 DEF Drop, Home, Idle
  <2>3. /\ ledger'.code # 0 => ledger'.code \in used'
        /\ \A c \in Codes : told'[c].drawn # {} => c \in used'
        /\ \A k \in Lanes : lane'[k].pc \in Alerting => lane'[k].code \in used'
    BY <1>0, <2>1, <2>2 DEF ChartInv, Alerting
  <2>4. \A k \in Lanes, stage \in Stages, c \in Codes : <<k, stage>> \in told'[c].drawn =>
          \/ faults'.crashed \/ ledger'.code # c \/ stage \in ledger'.charted
          \/ /\ lane'[k].pc = "record" /\ lane'[k].chart
             /\ lane'[k].code = c /\ lane'[k].stage = stage
    BY <1>0, <1>1, <2>1, <2>2 DEF ChartInv
  <2>5. \A k \in Lanes : lane'[k].pc = "send" /\ lane'[k].chart =>
          faults'.crashed \/ <<k, lane'[k].stage>> \notin told'[lane'[k].code].drawn
    BY <1>0, <1>1, <1>2, <2>1, <2>2 DEF ChartInv, Alerting
  <2> QED BY <2>3, <2>4, <2>5 DEF ChartInv
<1> QED BY <1>3, <1>4

\* Once recorded its stage is on the ledger of its journey.
LEMMA ChartRecord == ASSUME TypeInv, ChartInv, NEW l \in Lanes, Record(l) PROVE ChartInv'
<1>0. /\ lane \in [Lanes -> Task] /\ ledger \in Journey /\ lane[l].pc = "record"
      /\ UNCHANGED <<used, told, faults>>
  BY DEF TypeInv, TypeOK, Record, At, seen
<1>1. /\ \A k \in Lanes : k # l => lane'[k] = lane[k]
      /\ lane'[l].pc \in {"speak", "edges"}
  BY <1>0 DEF Record, Go, Drop, Idle, Task
<1>2. /\ ledger'.code = ledger.code /\ ledger.charted \subseteq ledger'.charted
      /\ ledger.code # 0 /\ lane[l].chart => lane[l].stage \in ledger'.charted
  BY <1>0 DEF Record, Journey
<1>3. /\ ledger'.code # 0 => ledger'.code \in used'
      /\ \A c \in Codes : told'[c].drawn # {} => c \in used'
      /\ \A k \in Lanes : lane'[k].pc \in Alerting => lane'[k].code \in used'
  BY <1>0, <1>1, <1>2 DEF ChartInv, Alerting
<1>4. \A k \in Lanes, stage \in Stages, c \in Codes : <<k, stage>> \in told'[c].drawn =>
          \/ faults'.crashed \/ ledger'.code # c \/ stage \in ledger'.charted
          \/ /\ lane'[k].pc = "record" /\ lane'[k].chart
             /\ lane'[k].code = c /\ lane'[k].stage = stage
  BY <1>0, <1>1, <1>2, Constants DEF ChartInv
<1>5. \A k \in Lanes : lane'[k].pc = "send" /\ lane'[k].chart =>
          faults'.crashed \/ <<k, lane'[k].stage>> \notin told'[lane'[k].code].drawn
  BY <1>0, <1>1 DEF ChartInv
<1> QED BY <1>3, <1>4, <1>5 DEF ChartInv

\* No later journey has the code of one that ended.
LEMMA ChartReset == ASSUME TypeInv, ChartInv, Reset PROVE ChartInv'
<1>0. /\ lane \in [Lanes -> Task] /\ lane["pass"].pc = "reset"
      /\ UNCHANGED <<used, told, faults>>
      /\ ledger' = EmptyLedger \/ ledger' = ledger
  BY DEF TypeInv, TypeOK, Reset, At, seen
<1>1. /\ \A k \in Lanes : k # "pass" => lane'[k] = lane[k]
      /\ lane'["pass"].pc = "hits"
  BY <1>0, Threads DEF Reset, Drop, Idle
<1>2. ledger'.code = 0 \/ ledger' = ledger  BY <1>0 DEF EmptyLedger
<1>3. /\ ledger'.code # 0 => ledger'.code \in used'
      /\ \A c \in Codes : told'[c].drawn # {} => c \in used'
      /\ \A k \in Lanes : lane'[k].pc \in Alerting => lane'[k].code \in used'
  BY <1>0, <1>1, <1>2 DEF ChartInv, Alerting
<1>4. \A k \in Lanes, stage \in Stages, c \in Codes : <<k, stage>> \in told'[c].drawn =>
          \/ faults'.crashed \/ ledger'.code # c \/ stage \in ledger'.charted
          \/ /\ lane'[k].pc = "record" /\ lane'[k].chart
             /\ lane'[k].code = c /\ lane'[k].stage = stage
  BY <1>0, <1>1, <1>2, Constants DEF ChartInv
<1>5. \A k \in Lanes : lane'[k].pc = "send" /\ lane'[k].chart =>
          faults'.crashed \/ <<k, lane'[k].stage>> \notin told'[lane'[k].code].drawn
  BY <1>0, <1>1 DEF ChartInv
<1> QED BY <1>3, <1>4, <1>5 DEF ChartInv

\* A restart ends what ChartOnce promises.
LEMMA ChartCrash == ASSUME TypeInv, ChartInv, Crash PROVE ChartInv'
<1>1. UNCHANGED <<ledger, used, told>> /\ \A l \in Lanes : lane'[l].pc = "idle"
  BY DEF Crash, Idle, kv
<1>2. faults'.crashed
  <2> DEFINE c == faults.crashed \/ TRUE
  <2>1. faults' = [upsets |-> faults.upsets + 1, crashed |-> c]  BY DEF Crash, Upset
  <2>2. c = TRUE  OBVIOUS
  <2> HIDE DEF c
  <2> QED BY <2>1, <2>2
<1> QED BY <1>1, <1>2 DEF ChartInv, Alerting

\* Every step keeps the invariant of the charts.
LEMMA ChartNext == TypeInv /\ ChartInv /\ [Next]_vars => ChartInv'
<1> SUFFICES ASSUME TypeInv, ChartInv, [Next]_vars PROVE ChartInv'  OBVIOUS
<1>1. CASE Still  BY <1>1, StillKeeps
<1>2. CASE Pass
  <2>1. ASSUME NEW w \in Warned, Alert(w[1], w[2], w[3]) PROVE Still
    <3>1. w[1] \in Shapes /\ w[2] \in Stages /\ w[3] \in Sides  BY DEF Warned
    <3> QED BY <2>1, <3>1, StillSteps
  <2> QED BY <1>1, <1>2, <2>1, Threads, StillSteps, ChartRewrite, ChartSend, ChartRecord,
       ChartReset
     DEF Pass
<1>3. CASE Recheck  BY <1>1, <1>3, Threads, StillSteps DEF Recheck
<1>4. CASE Watch
  BY <1>1, <1>4, StillSteps, ChartRewrite, ChartSend, ChartRecord DEF Watch
<1>5. CASE Age  BY <1>1, <1>5, StillSteps
<1>6. CASE Crash  BY <1>6, ChartCrash
<1>7. CASE UNCHANGED vars
  BY <1>1, <1>7 DEF vars, kv, local, seen, Still
<1> QED BY <1>2, <1>3, <1>4, <1>5, <1>6, <1>7 DEF Next

-----------------------------------------------------------------------------
(* The properties, for every value of the constants.                          *)

\* Every variable keeps its type, whatever is refused, expires or restarts.
THEOREM SpotTyped == Spec => []TypeOK
<1>1. TypeInv => TypeOK  BY DEF TypeInv
<1> QED BY TypeInit, TypeNext, <1>1, PTL DEF Spec

\* A stamp or a position is never written before the post it stands for.
THEOREM SpotMarkers == Spec => []MarkersFollowPosts
<1>1. Inv => MarkersFollowPosts
  <2> SUFFICES ASSUME Inv PROVE MarkersFollowPosts  OBVIOUS
  <2>1. stamps \subseteq {p[2] : p \in posted}
    <3> SUFFICES ASSUME NEW s \in stamps PROVE s \in {p[2] : p \in posted}  OBVIOUS
    <3>1. PICK l \in Publishers : <<l, s>> \in posted  BY DEF Inv, StampInv
    <3>2. <<l, s>>[2] = s  OBVIOUS
    <3> QED BY <3>1, <3>2
  <2> QED BY <2>1 DEF Inv, ConfirmInv, MarkersFollowPosts
<1> QED BY InvInit, InvNext, <1>1, PTL DEF Spec

\* The channel sees the targets of a code in order and after its confirmation.
THEOREM SpotRungs == Spec => []RungsInOrder
<1>1. Inv => RungsInOrder  BY DEF Inv, RungInv
<1> QED BY InvInit, InvNext, <1>1, PTL DEF Spec

\* While the process lives, a closed position leaves its geometry retired.
THEOREM SpotRetired == Spec => []ClosedIsRetired
<1>1. Inv => ClosedIsRetired  BY DEF Inv
<1> QED BY InvInit, InvNext, <1>1, PTL DEF Spec

\* A thread confirms a geometry at most once inside its stamp's window.
THEOREM SpotOncePerLane == Spec => OncePerLane
<1>1. Inv => [\A l \in Publishers : At(l, "post") /\ lane'[l].pc = "stamp"
                 => <<l, lane[l].shape>> \notin posted]_vars
  BY DEF Inv, StampInv, At
<1> QED BY InvInit, InvNext, <1>1, PTL DEF Spec, OncePerLane

\* A thread charts a stage of a journey once, unless the process died.
THEOREM SpotChartOnce == Spec => ChartOnce
<1>1. Init => ChartInv
  <2> SUFFICES ASSUME Init PROVE ChartInv  OBVIOUS
  <2>1. /\ \A l \in Lanes : lane[l].pc = "idle"
        /\ \A c \in Codes : told[c].drawn = {}
        /\ ledger.code = 0
    BY DEF Init, Idle, EmptyLedger
  <2> QED BY <2>1 DEF ChartInv, Alerting
<1>2. ChartInv => [\A l \in Lanes : At(l, "send") /\ lane'[l].pc = "record" /\ lane[l].chart
          => faults.crashed \/ <<l, lane[l].stage>> \notin told[lane[l].code].drawn]_vars
  BY DEF ChartInv, At
<1> QED BY <1>1, <1>2, TypeInit, TypeNext, ChartNext, PTL DEF Spec, ChartOnce
=============================================================================
