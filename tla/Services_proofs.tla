--------------------------- MODULE Services_proofs ---------------------------
(***************************************************************************)
(* Proofs about the services around a project: the cron jobs (Schedules),  *)
(* the table of nodes (Cluster), deploy keys and installation tokens       *)
(* (Repositories), what billing meters (Metering), the clean-up of images  *)
(* (Images) and the sessions of the dashboard (Console).                   *)
(***************************************************************************)
EXTENDS MCServices, Resources_proofs, SequenceTheorems, WellFoundedInduction

-----------------------------------------------------------------------------
(* Schedules: the invariant                                                *)

ScheduleRecords == [expr : Expr, image : BOOLEAN, next : Nat, made : BOOLEAN]
ScheduleCopies  == [id : ScheduleIds, expr : Expr, image : BOOLEAN, next : Nat]
TickerRecords   == [step : {"idle", "read", "fire"}, now : Times, left : SUBSET ScheduleIds,
                    due : SUBSET ScheduleCopies, current : ScheduleCopies \cup {NoCopy},
                    gone : SUBSET ScheduleIds]

SchedulesTyped ==
    /\ clock \in Times
    /\ schedule \in [ScheduleIds -> ScheduleRecords]
    /\ index \subseteq ScheduleIds
    /\ ticker \in TickerRecords /\ ticker.now <= clock
    /\ DOMAIN triggers \subseteq ScheduleIds \X Nat

\* The pass of the ticker: one copy for each schedule, read in this pass from
\* an index that had it.
PassFits ==
    /\ ticker.step = "idle" => ticker.left = {} /\ ticker.due = {} /\ ticker.current = NoCopy
    /\ ticker.current # NoCopy =>
           ticker.left = {} /\ ticker.current.id \in index \cup ticker.gone
    /\ ticker.current.next <= ticker.now
    /\ ticker.left \subseteq index \cup ticker.gone
    /\ \A c \in ticker.due : /\ c.id \notin ticker.left /\ c.next <= ticker.now
                             /\ c.id \in index \cup ticker.gone
    /\ \A c, d \in ticker.due : c.id = d.id => c = d

\* A schedule that has fired for minute t is being marked, or has moved on.
HasMoved(s, t) ==
    \/ ticker.current.id = s /\ ticker.current.next = t
    \/ schedule[s].next = 0 \/ schedule[s].next > t

FiredOnce(s, t) ==
    <<s, t>> \in DOMAIN triggers \ interrupted =>
        /\ triggers[<<s, t>>] = 1
        /\ t <= ticker.now
        /\ HasMoved(s, t)
        /\ \A c \in ticker.due : ~(c.id = s /\ c.next = t)

SchedulesInv ==
    /\ SchedulesTyped
    /\ PassFits
    /\ \A s \in ScheduleIds, t \in Nat : FiredOnce(s, t)

-----------------------------------------------------------------------------
(* Schedules: every step keeps the invariant                               *)

\* The next run is in the future, whatever the expression says.
LEMMA NextRunIsLater ==
    ASSUME NEW e \in Expr, NEW t \in Nat
    PROVE  NextRun(e, t) \in Nat /\ NextRun(e, t) > t
<1>1. e.min \in Int /\ e.hour \in Int
  BY DEF Expr
<1>2. t \div 60 \in Nat /\ (t \div 60) * 60 + 60 > t
  OBVIOUS
<1>3. t \div 1440 \in Nat /\ (t \div 1440) * 1440 + 1440 > t
  OBVIOUS
<1>4. CASE e.kind = "hourly"
  BY <1>2, <1>4 DEF NextRun, Hour
<1>5. CASE e.kind = "daily"
  BY <1>3, <1>5 DEF NextRun, Day
<1>6. CASE e.kind = "every"
  BY <1>1, <1>6 DEF NextRun, Hour
<1>7. CASE e.kind = "at"
  <2> DEFINE min  == IF e.min \in 0 .. 59 THEN e.min ELSE 0
             hour == IF e.hour \in 0 .. 23 THEN e.hour ELSE 0
             base == (t \div 1440) * 1440
  <2>1. min \in Nat /\ hour \in Nat
    BY <1>1
  <2>2. base \in Nat /\ base + 1440 > t
    BY <1>3
  <2>3. NextRun(e, t) = IF base + hour * 60 + min > t THEN base + hour * 60 + min
                                                      ELSE base + hour * 60 + min + 1440
    BY <1>7 DEF NextRun, Hour, Day
  <2> HIDE DEF min, hour, base
  <2> QED
    BY <2>1, <2>2, <2>3
<1>8. CASE e.kind \notin {"hourly", "daily", "every", "at"}
  BY <1>8 DEF NextRun, Hour
<1> QED
  BY <1>4, <1>5, <1>6, <1>7, <1>8

LEMMA NoCopyRecord == NoCopy.id = 0 /\ NoCopy.next = 0 /\ NoCopy \notin ScheduleCopies /\ 0 \notin ScheduleIds
<1>1. 0 \notin ScheduleIds
  BY SchedulesAssumption DEF SchedulesAssumption, ScheduleIds
<1>2. NoCopy.id = 0 /\ NoCopy.next = 0
  BY DEF NoCopy
<1> QED
  BY <1>1, <1>2 DEF ScheduleCopies

LEMMA IdlingRecord ==
    ASSUME NEW now \in Times
    PROVE  LET k == [Idling EXCEPT !.now = now]
           IN  /\ k \in TickerRecords /\ k.step = "idle" /\ k.now = now
               /\ k.left = {} /\ k.due = {} /\ k.current = NoCopy
  BY SchedulesAssumption DEF SchedulesAssumption, Idling, TickerRecords

LEMMA TimesAreNat == Times \subseteq Nat /\ 0 \in Times
  BY SchedulesAssumption DEF SchedulesAssumption

\* The invariant does not depend on jobs, jobber and starts.
LEMMA ScheduleFrame ==
    ASSUME SchedulesInv, clock' \in Times, clock <= clock',
           UNCHANGED <<schedule, index, ticker, triggers, interrupted>>
    PROVE  SchedulesInv'
<1>1. SchedulesTyped'
  <2>1. ticker.now \in Nat /\ clock \in Nat /\ clock' \in Nat /\ ticker.now <= clock
    BY TimesAreNat DEF SchedulesInv, SchedulesTyped, TickerRecords
  <2>2. ticker.now <= clock'
    BY <2>1
  <2> QED
    BY <2>2 DEF SchedulesInv, SchedulesTyped
<1>2. PassFits'
  BY DEF SchedulesInv, PassFits
<1>3. \A s \in ScheduleIds, t \in Nat : FiredOnce(s, t)'
  BY DEF SchedulesInv, FiredOnce, HasMoved
<1> QED
  BY <1>1, <1>2, <1>3 DEF SchedulesInv

LEMMA SchedulesInvTyped ==
    ASSUME SchedulesInv
    PROVE  /\ clock \in Nat /\ clock \in Times
           /\ ticker \in TickerRecords /\ ticker.now \in Nat /\ ticker.now \in Times
           /\ ticker.now <= clock
           /\ schedule \in [ScheduleIds -> ScheduleRecords]
           /\ \A c \in ticker.due : c \in ScheduleCopies /\ c.id \in ScheduleIds /\ c.next \in Nat
           /\ ticker.current.next \in Nat
<1>1. SchedulesTyped
  BY DEF SchedulesInv
<1>2. clock \in Nat /\ ticker.now \in Nat /\ ticker.now \in Times
  BY <1>1, TimesAreNat DEF SchedulesTyped, TickerRecords
<1>3. \A c \in ticker.due : c \in ScheduleCopies /\ c.id \in ScheduleIds /\ c.next \in Nat
  BY <1>1 DEF SchedulesTyped, TickerRecords, ScheduleCopies
<1>4. ticker.current.next \in Nat
  BY <1>1, NoCopyRecord DEF SchedulesTyped, TickerRecords, ScheduleCopies
<1> QED
  BY <1>1, <1>2, <1>3, <1>4 DEF SchedulesTyped

LEMMA SchedulesInitially == SchedulesInit => SchedulesInv
<1> SUFFICES ASSUME SchedulesInit PROVE SchedulesInv
  OBVIOUS
<1> USE DEF SchedulesInit
<1>1. Absent \in ScheduleRecords
  BY DEF Absent, ScheduleRecords, Expr
<1>2. Idling \in TickerRecords /\ Idling.now = 0 /\ Idling.step = "idle" /\ Idling.left = {}
      /\ Idling.due = {} /\ Idling.current = NoCopy
  BY TimesAreNat DEF Idling, TickerRecords
<1>3. triggers = << >> /\ DOMAIN triggers = {}
  OBVIOUS
<1>4. SchedulesTyped
  BY <1>1, <1>2, <1>3, TimesAreNat DEF SchedulesTyped
<1>5. PassFits
  BY <1>2, NoCopyRecord DEF PassFits
<1>6. \A s \in ScheduleIds, t \in Nat : FiredOnce(s, t)
  BY <1>3 DEF FiredOnce
<1> QED
  BY <1>4, <1>5, <1>6 DEF SchedulesInv

LEMMA PassKeeps == SchedulesInv /\ Pass => SchedulesInv'
<1> SUFFICES ASSUME SchedulesInv, Pass PROVE SchedulesInv'
  OBVIOUS
<1>1. clock' \in Times /\ clock <= clock'
  <2>1. PICK t \in Times : t > clock /\ clock' = t
    BY DEF Pass
  <2>2. t \in Nat /\ clock \in Nat
    BY TimesAreNat, SchedulesInvTyped
  <2> QED
    BY <2>1, <2>2
<1> QED
  BY <1>1, ScheduleFrame DEF Pass

LEMMA JobsKeep == SchedulesInv /\ (ReadJob \/ RunJob) => SchedulesInv'
<1> SUFFICES ASSUME SchedulesInv, ReadJob \/ RunJob PROVE SchedulesInv'
  OBVIOUS
<1>1. UNCHANGED <<clock, schedule, index, ticker, triggers, interrupted>>
  BY DEF ReadJob, RunJob
<1>2. clock' \in Times /\ clock <= clock'
  BY <1>1, SchedulesInvTyped
<1> QED
  BY <1>1, <1>2, ScheduleFrame

\* What a row that moves forward, or goes, leaves true of the triggers.
LEMMA RowMoves ==
    ASSUME SchedulesInv, NEW s \in ScheduleIds, NEW next \in Nat,
           next = 0 \/ next > ticker.now,
           \A r \in ScheduleIds : r # s => schedule'[r].next = schedule[r].next,
           schedule'[s].next = next,
           UNCHANGED <<triggers, interrupted>>,
           ticker'.now = ticker.now, ticker'.due = ticker.due,
           \/ ticker'.current = ticker.current
           \/ ticker.current.id = s
    PROVE  \A r \in ScheduleIds, t \in Nat : FiredOnce(r, t)'
<1> SUFFICES ASSUME NEW r \in ScheduleIds, NEW t \in Nat,
                    <<r, t>> \in DOMAIN triggers \ interrupted
             PROVE  /\ triggers[<<r, t>>] = 1 /\ t <= ticker.now
                    /\ HasMoved(r, t)'
                    /\ \A c \in ticker.due : ~(c.id = r /\ c.next = t)
  BY DEF FiredOnce
<1>1. /\ triggers[<<r, t>>] = 1 /\ t <= ticker.now /\ HasMoved(r, t)
      /\ \A c \in ticker.due : ~(c.id = r /\ c.next = t)
  BY DEF SchedulesInv, FiredOnce
<1>2. HasMoved(r, t)'
  <2>1. CASE r = s
    <3>1. ticker.now \in Nat
      BY SchedulesInvTyped
    <3> QED
      BY <1>1, <2>1, <3>1 DEF HasMoved
  <2>2. CASE r # s
    BY <1>1, <2>2 DEF HasMoved
  <2> QED
    BY <2>1, <2>2
<1> QED
  BY <1>1, <1>2

LEMMA CreateScheduleKeeps ==
    ASSUME SchedulesInv, NEW s \in ScheduleIds, NEW e \in Exprs, NEW image \in BOOLEAN,
           CreateSchedule(s, e, image)
    PROVE  SchedulesInv'
<1> DEFINE next == NextRun(e, clock)
<1>1. e \in Expr /\ next \in Nat /\ next > clock
  BY NextRunIsLater, SchedulesInvTyped, SchedulesAssumption DEF SchedulesAssumption
<1>2. next > ticker.now
  BY <1>1, SchedulesInvTyped
<1>3. schedule' = [schedule EXCEPT ![s] = [expr |-> e, image |-> image, made |-> TRUE, next |-> next]]
  BY DEF CreateSchedule
<1>4. UNCHANGED <<clock, ticker, triggers, interrupted>> /\ index' = index \cup {s}
  BY DEF CreateSchedule
<1> HIDE DEF next
<1>5. schedule' \in [ScheduleIds -> ScheduleRecords]
  BY <1>1, <1>3, SchedulesInvTyped DEF ScheduleRecords
<1>6. SchedulesTyped'
  BY <1>4, <1>5 DEF SchedulesInv, SchedulesTyped
<1>7. PassFits'
  BY <1>4 DEF SchedulesInv, PassFits
<1>8. \A r \in ScheduleIds, t \in Nat : FiredOnce(r, t)'
  <2>1. schedule'[s].next = next /\ \A r \in ScheduleIds : r # s => schedule'[r].next = schedule[r].next
    BY <1>3, SchedulesInvTyped
  <2> QED
    BY <1>1, <1>2, <1>4, <2>1, RowMoves
<1> QED
  BY <1>6, <1>7, <1>8 DEF SchedulesInv

LEMMA DeleteScheduleKeeps ==
    ASSUME SchedulesInv, NEW s \in ScheduleIds, DeleteSchedule(s)
    PROVE  SchedulesInv'
<1> DEFINE gone == IF ticker.step = "idle" THEN {} ELSE ticker.gone \cup {s}
<1>1. /\ schedule' = [schedule EXCEPT ![s].next = 0]
      /\ ticker' = [ticker EXCEPT !.gone = gone]
      /\ index' = index \ {s}
      /\ UNCHANGED <<clock, triggers, interrupted>>
  <2>1. ticker' = [ticker EXCEPT !.gone = IF ticker.step = "idle" THEN {} ELSE @ \cup {s}]
    BY DEF DeleteSchedule
  <2>2. ticker' = [ticker EXCEPT !.gone = gone]
    BY <2>1, SchedulesInvTyped DEF TickerRecords
  <2> QED
    BY <2>2 DEF DeleteSchedule
<1>2. gone \subseteq ScheduleIds
  BY SchedulesInvTyped DEF TickerRecords
<1>3. ticker.step # "idle" => index \cup ticker.gone \subseteq index' \cup gone
  BY <1>1
<1> HIDE DEF gone
<1>4. /\ ticker' \in TickerRecords
      /\ ticker'.step = ticker.step /\ ticker'.now = ticker.now /\ ticker'.left = ticker.left
      /\ ticker'.due = ticker.due /\ ticker'.current = ticker.current /\ ticker'.gone = gone
  BY <1>1, <1>2, SchedulesInvTyped DEF TickerRecords
<1>5. schedule' \in [ScheduleIds -> ScheduleRecords]
  BY <1>1, SchedulesInvTyped DEF ScheduleRecords
<1>6. SchedulesTyped'
  BY <1>1, <1>4, <1>5 DEF SchedulesInv, SchedulesTyped
<1>7. PassFits'
  <2>1. CASE ticker.step = "idle"
    BY <1>1, <1>4, <2>1 DEF SchedulesInv, PassFits
  <2>2. CASE ticker.step # "idle"
    BY <1>1, <1>3, <1>4, <2>2 DEF SchedulesInv, PassFits
  <2> QED
    BY <2>1, <2>2
<1>8. \A r \in ScheduleIds, t \in Nat : FiredOnce(r, t)'
  <2>1. schedule'[s].next = 0 /\ \A r \in ScheduleIds : r # s => schedule'[r].next = schedule[r].next
    BY <1>1, SchedulesInvTyped DEF ScheduleRecords
  <2>2. 0 \in Nat
    OBVIOUS
  <2> QED
    BY <1>1, <1>4, <2>1, <2>2, RowMoves
<1> QED
  BY <1>6, <1>7, <1>8 DEF SchedulesInv

\* Steps of the ticker that leave the rows and the triggers alone.
LEMMA TickerMoves ==
    ASSUME SchedulesInv, UNCHANGED <<clock, schedule, index, triggers>>,
           ticker' \in TickerRecords, ticker'.now <= clock, ticker.now <= ticker'.now,
           PassFits',
           \A s \in ScheduleIds, t \in Nat :
               <<s, t>> \in DOMAIN triggers \ interrupted' =>
                   /\ <<s, t>> \notin interrupted
                   /\ HasMoved(s, t)'
                   /\ \A c \in ticker'.due : ~(c.id = s /\ c.next = t)
    PROVE  SchedulesInv'
<1>1. SchedulesTyped'
  BY DEF SchedulesInv, SchedulesTyped
<1>2. ASSUME NEW s \in ScheduleIds, NEW t \in Nat
      PROVE  FiredOnce(s, t)'
  <2> SUFFICES ASSUME <<s, t>> \in DOMAIN triggers \ interrupted'
               PROVE  /\ triggers[<<s, t>>] = 1 /\ t <= ticker'.now /\ HasMoved(s, t)'
                      /\ \A c \in ticker'.due : ~(c.id = s /\ c.next = t)
    BY DEF FiredOnce
  <2>1. triggers[<<s, t>>] = 1 /\ t <= ticker.now
    BY DEF SchedulesInv, FiredOnce
  <2>2. ticker.now \in Nat /\ ticker'.now \in Nat
    BY SchedulesInvTyped, TimesAreNat DEF TickerRecords
  <2>3. t <= ticker'.now
    BY <2>1, <2>2
  <2> QED
    BY <2>1, <2>3
<1> QED
  BY <1>1, <1>2 DEF SchedulesInv

LEMMA StartPassKeeps == SchedulesInv /\ StartPass => SchedulesInv'
<1> SUFFICES ASSUME SchedulesInv, StartPass PROVE SchedulesInv'
  OBVIOUS
<1>1. PICK now \in Times :
        /\ ticker.step = "idle" /\ ticker.now < now /\ now <= clock
        /\ ticker' = [Idling EXCEPT !.step = "read", !.now = now, !.left = index]
        /\ UNCHANGED <<clock, schedule, index, triggers, interrupted>>
  BY DEF StartPass
<1>2. now \in Nat /\ index \subseteq ScheduleIds /\ 0 \in Times
  BY TimesAreNat DEF SchedulesInv, SchedulesTyped
<1>3. /\ ticker' \in TickerRecords /\ ticker'.step = "read" /\ ticker'.now = now
      /\ ticker'.left = index /\ ticker'.due = {} /\ ticker'.current = NoCopy
  BY <1>1, <1>2 DEF Idling, TickerRecords
<1>4. PassFits'
  BY <1>1, <1>2, <1>3, NoCopyRecord DEF PassFits
<1>5. ticker.current = NoCopy
  BY <1>1 DEF SchedulesInv, PassFits
<1>6. ticker'.now <= clock /\ ticker.now <= ticker'.now
  BY <1>1, <1>2, <1>3, SchedulesInvTyped
<1>7. ASSUME NEW s \in ScheduleIds, NEW t \in Nat, <<s, t>> \in DOMAIN triggers \ interrupted
      PROVE  HasMoved(s, t)'
  BY <1>1, <1>3, <1>5, <1>7, NoCopyRecord DEF SchedulesInv, FiredOnce, HasMoved
<1> QED
  BY <1>1, <1>3, <1>4, <1>6, <1>7, TickerMoves

LEMMA ReadDueKeeps ==
    ASSUME SchedulesInv, NEW s \in ScheduleIds, ReadDue(s)
    PROVE  SchedulesInv'
<1> DEFINE due == schedule[s].next # 0 /\ schedule[s].next <= ticker.now
           copy == CopyOf(s)
           new == IF due THEN ticker.due \cup {copy} ELSE ticker.due
<1>1. /\ ticker.step = "read" /\ s \in ticker.left
      /\ ticker' = [ticker EXCEPT !.left = ticker.left \ {s}, !.due = new]
      /\ UNCHANGED <<clock, schedule, index, triggers, interrupted>>
  <2>1. ticker' = [ticker EXCEPT !.left = @ \ {s}, !.due = IF due THEN @ \cup {CopyOf(s)} ELSE @]
    BY DEF ReadDue
  <2>2. ticker' = [ticker EXCEPT !.left = ticker.left \ {s}, !.due = new]
    BY <2>1, SchedulesInvTyped DEF TickerRecords
  <2> QED
    BY <2>2 DEF ReadDue
<1>2. copy \in ScheduleCopies /\ copy.id = s /\ copy.next = schedule[s].next
  BY SchedulesInvTyped DEF CopyOf, ScheduleCopies, ScheduleRecords
<1>3. \A c \in new : c \in ticker.due \/ (due /\ c = copy)
  OBVIOUS
<1>4. new \subseteq ScheduleCopies
  BY <1>2, SchedulesInvTyped
<1>5. ticker.current = NoCopy
  BY <1>1 DEF SchedulesInv, PassFits
<1> HIDE DEF new, copy
<1>6. /\ ticker' \in TickerRecords /\ ticker'.step = "read" /\ ticker'.now = ticker.now
      /\ ticker'.left = ticker.left \ {s} /\ ticker'.due = new /\ ticker'.current = NoCopy
      /\ ticker'.gone = ticker.gone
  BY <1>1, <1>4, <1>5, SchedulesInvTyped DEF TickerRecords
<1>7. PassFits'
  <2>1. \A c \in new : /\ c.id \notin ticker.left \ {s} /\ c.next <= ticker.now
                       /\ c.id \in index \cup ticker.gone
    BY <1>1, <1>2, <1>3 DEF SchedulesInv, PassFits
  <2>2. \A c, d \in new : c.id = d.id => c = d
    BY <1>1, <1>2, <1>3 DEF SchedulesInv, PassFits
  <2>3. ticker.left \ {s} \subseteq index \cup ticker.gone /\ NoCopy.next <= ticker.now
    BY <1>5 DEF SchedulesInv, PassFits
  <2> QED
    BY <1>1, <1>6, <2>1, <2>2, <2>3 DEF PassFits
<1>8. ASSUME NEW r \in ScheduleIds, NEW t \in Nat, <<r, t>> \in DOMAIN triggers \ interrupted
      PROVE  HasMoved(r, t)' /\ \A c \in new : ~(c.id = r /\ c.next = t)
  <2>1. schedule[r].next = 0 \/ schedule[r].next > t
    BY <1>5, <1>8, NoCopyRecord DEF SchedulesInv, FiredOnce, HasMoved
  <2>2. \A c \in ticker.due : ~(c.id = r /\ c.next = t)
    BY <1>8 DEF SchedulesInv, FiredOnce
  <2>3. ~(due /\ copy.id = r /\ copy.next = t)
    BY <1>2, <2>1
  <2> QED
    BY <1>1, <1>3, <2>1, <2>2, <2>3 DEF HasMoved
<1>9. ticker'.now <= clock /\ ticker.now <= ticker'.now
  BY <1>6, SchedulesInvTyped
<1> QED
  BY <1>1, <1>6, <1>7, <1>8, <1>9, TickerMoves

\* The pass is over, or lost: a run that was not marked is interrupted.
LEMMA PassEnds ==
    ASSUME SchedulesInv, ticker' = [Idling EXCEPT !.now = ticker.now],
           UNCHANGED <<clock, schedule, index, triggers>>,
           interrupted' = IF ticker.current # NoCopy
                          THEN interrupted \cup {<<ticker.current.id, ticker.current.next>>}
                          ELSE interrupted
    PROVE  SchedulesInv'
<1>1. /\ ticker' \in TickerRecords /\ ticker'.step = "idle" /\ ticker'.now = ticker.now
      /\ ticker'.left = {} /\ ticker'.due = {} /\ ticker'.current = NoCopy
  BY IdlingRecord, SchedulesInvTyped
<1>2. PassFits'
  BY <1>1, NoCopyRecord, SchedulesInvTyped DEF PassFits
<1>3. ASSUME NEW s \in ScheduleIds, NEW t \in Nat, <<s, t>> \in DOMAIN triggers \ interrupted'
      PROVE  <<s, t>> \notin interrupted /\ HasMoved(s, t)'
  <2>1. <<s, t>> \notin interrupted /\ ~(ticker.current.id = s /\ ticker.current.next = t)
    BY <1>3, NoCopyRecord
  <2> QED
    BY <1>3, <2>1 DEF SchedulesInv, FiredOnce, HasMoved
<1>4. ticker'.now <= clock /\ ticker.now <= ticker'.now
  BY <1>1, SchedulesInvTyped
<1> QED
  BY <1>1, <1>2, <1>3, <1>4, TickerMoves

LEMMA EndPassKeeps == SchedulesInv /\ EndPass => SchedulesInv'
  BY PassEnds DEF EndPass

LEMMA CrashSchedulerKeeps == SchedulesInv /\ CrashScheduler => SchedulesInv'
  BY PassEnds DEF CrashScheduler

LEMMA PublishTriggerKeeps ==
    ASSUME SchedulesInv, NEW c \in ticker.due, PublishTrigger(c)
    PROVE  SchedulesInv'
<1> DEFINE x == <<c.id, c.next>>
<1>1. /\ ticker.step # "idle" /\ ticker.left = {} /\ ticker.current = NoCopy
      /\ ticker' = [ticker EXCEPT !.step = "fire", !.current = c, !.due = ticker.due \ {c}]
      /\ UNCHANGED <<clock, schedule, index, interrupted>>
  <2>1. ticker' = [ticker EXCEPT !.step = "fire", !.current = c, !.due = @ \ {c}]
    BY DEF PublishTrigger
  <2>2. ticker' = [ticker EXCEPT !.step = "fire", !.current = c, !.due = ticker.due \ {c}]
    BY <2>1, SchedulesInvTyped DEF TickerRecords
  <2> QED
    BY <2>2 DEF PublishTrigger
<1>2. c \in ScheduleCopies /\ c.id \in ScheduleIds /\ c.next \in Nat /\ c # NoCopy
  BY SchedulesInvTyped, NoCopyRecord
<1>3. /\ ticker' \in TickerRecords /\ ticker'.step = "fire" /\ ticker'.now = ticker.now
      /\ ticker'.left = {} /\ ticker'.due = ticker.due \ {c} /\ ticker'.current = c
      /\ ticker'.gone = ticker.gone
  BY <1>1, <1>2, SchedulesInvTyped DEF TickerRecords
<1>4. PassFits'
  BY <1>1, <1>2, <1>3 DEF SchedulesInv, PassFits
<1>5. \A d \in ticker.due \ {c} : d.id # c.id
  BY DEF SchedulesInv, PassFits
<1>6. ASSUME NEW s \in ScheduleIds, NEW t \in Nat, <<s, t>> \in DOMAIN triggers \ interrupted
      PROVE  <<s, t>> # x /\ HasMoved(s, t)'
  BY <1>1, <1>2, <1>3, <1>6, NoCopyRecord DEF SchedulesInv, FiredOnce, HasMoved
<1>7. CASE UNCHANGED triggers
  <2>1. ticker'.now <= clock /\ ticker.now <= ticker'.now
    BY <1>3, SchedulesInvTyped
  <2>2. ASSUME NEW s \in ScheduleIds, NEW t \in Nat, <<s, t>> \in DOMAIN triggers \ interrupted
        PROVE  \A d \in ticker'.due : ~(d.id = s /\ d.next = t)
    BY <1>3, <2>2 DEF SchedulesInv, FiredOnce
  <2> QED
    BY <1>1, <1>3, <1>4, <1>6, <1>7, <2>1, <2>2, TickerMoves
<1>8. CASE triggers' = [y \in DOMAIN triggers \cup {x} |->
                           IF y = x THEN TimesPublished(x) + 1 ELSE triggers[y]]
  <2>1. x \in DOMAIN triggers => x \in interrupted
    BY <1>6, <1>2
  <2>2. x \notin interrupted => triggers'[x] = 1
    BY <1>8, <2>1 DEF TimesPublished
  <2>3. DOMAIN triggers' = DOMAIN triggers \cup {x}
    BY <1>8
  <2>4. SchedulesTyped'
    BY <1>1, <1>2, <1>3, <2>3 DEF SchedulesInv, SchedulesTyped
  <2>5. ASSUME NEW s \in ScheduleIds, NEW t \in Nat PROVE FiredOnce(s, t)'
    <3> SUFFICES ASSUME <<s, t>> \in DOMAIN triggers' \ interrupted
                 PROVE  /\ triggers'[<<s, t>>] = 1 /\ t <= ticker.now /\ HasMoved(s, t)'
                        /\ \A d \in ticker.due \ {c} : ~(d.id = s /\ d.next = t)
      BY <1>1, <1>3 DEF FiredOnce
    <3>1. CASE <<s, t>> = x
      <4>1. s = c.id /\ t = c.next
        BY <3>1
      <4>2. t <= ticker.now
        BY <4>1 DEF SchedulesInv, PassFits
      <4>3. HasMoved(s, t)'
        BY <1>3, <4>1 DEF HasMoved
      <4> QED
        BY <1>5, <2>2, <3>1, <4>1, <4>2, <4>3
    <3>2. CASE <<s, t>> # x
      <4>1. <<s, t>> \in DOMAIN triggers \ interrupted /\ triggers'[<<s, t>>] = triggers[<<s, t>>]
        BY <1>8, <2>3, <3>2
      <4>2. FiredOnce(s, t)
        BY DEF SchedulesInv
      <4> QED
        BY <1>6, <4>1, <4>2 DEF FiredOnce
    <3> QED
      BY <3>1, <3>2
  <2> QED
    BY <1>4, <2>4, <2>5 DEF SchedulesInv
<1> QED
  BY <1>7, <1>8 DEF PublishTrigger

LEMMA MarkRunKeeps == SchedulesInv /\ MarkRun => SchedulesInv'
<1> SUFFICES ASSUME SchedulesInv, MarkRun PROVE SchedulesInv'
  OBVIOUS
<1>1. PICK c : c = ticker.current
  OBVIOUS
<1>2. /\ c # NoCopy /\ ticker' = [ticker EXCEPT !.current = NoCopy]
      /\ UNCHANGED <<clock, index, triggers>>
      /\ \/ /\ schedule' = [schedule EXCEPT ![c.id].next = NextRun(c.expr, ticker.now)]
            /\ UNCHANGED interrupted
         \/ interrupted' = interrupted \cup {<<c.id, c.next>>} /\ UNCHANGED schedule
  BY <1>1 DEF MarkRun
<1>3. c \in ScheduleCopies /\ c.id \in ScheduleIds /\ c.next \in Nat /\ c.expr \in Expr
  BY <1>1, <1>2, SchedulesInvTyped DEF TickerRecords, ScheduleCopies
<1>4. /\ ticker' \in TickerRecords /\ ticker'.now = ticker.now /\ ticker'.step = ticker.step
      /\ ticker'.left = ticker.left /\ ticker'.due = ticker.due /\ ticker'.gone = ticker.gone
      /\ ticker'.current = NoCopy
  BY <1>2, SchedulesInvTyped DEF TickerRecords
<1>5. PassFits'
  BY <1>2, <1>4, NoCopyRecord, SchedulesInvTyped DEF SchedulesInv, PassFits
<1>6. CASE schedule' = [schedule EXCEPT ![c.id].next = NextRun(c.expr, ticker.now)] /\ UNCHANGED interrupted
  <2> DEFINE next == NextRun(c.expr, ticker.now)
  <2>1. next \in Nat /\ next > ticker.now
    BY <1>3, NextRunIsLater, SchedulesInvTyped
  <2> HIDE DEF next
  <2>2. /\ schedule' \in [ScheduleIds -> ScheduleRecords] /\ schedule'[c.id].next = next
        /\ \A r \in ScheduleIds : r # c.id => schedule'[r].next = schedule[r].next
    <3>1. schedule' = [schedule EXCEPT ![c.id].next = next]
      BY <1>6 DEF next
    <3> QED
      BY <1>3, <2>1, <3>1, SchedulesInvTyped DEF ScheduleRecords
  <2>3. \A r \in ScheduleIds, t \in Nat : FiredOnce(r, t)'
    BY <1>1, <1>2, <1>3, <1>4, <1>6, <2>1, <2>2, RowMoves
  <2>4. SchedulesTyped'
    BY <1>2, <1>4, <2>2 DEF SchedulesInv, SchedulesTyped
  <2> QED
    BY <1>5, <2>3, <2>4 DEF SchedulesInv
<1>7. CASE interrupted' = interrupted \cup {<<c.id, c.next>>} /\ UNCHANGED schedule
  <2>1. ASSUME NEW s \in ScheduleIds, NEW t \in Nat, <<s, t>> \in DOMAIN triggers \ interrupted'
        PROVE  /\ <<s, t>> \notin interrupted /\ HasMoved(s, t)'
               /\ \A d \in ticker.due : ~(d.id = s /\ d.next = t)
    <3>1. <<s, t>> \notin interrupted /\ ~(c.id = s /\ c.next = t)
      BY <1>7, <2>1
    <3> QED
      BY <1>1, <1>7, <2>1, <3>1 DEF SchedulesInv, FiredOnce, HasMoved
  <2>2. ticker'.now <= clock /\ ticker.now <= ticker'.now
    BY <1>4, SchedulesInvTyped
  <2> QED
    BY <1>2, <1>4, <1>5, <1>7, <2>1, <2>2, TickerMoves
<1> QED
  BY <1>2, <1>6, <1>7

LEMMA SchedulesStep == SchedulesInv /\ [SchedulesNext]_scheduleVars => SchedulesInv'
<1> SUFFICES ASSUME SchedulesInv, [SchedulesNext]_scheduleVars PROVE SchedulesInv'
  OBVIOUS
<1>1. CASE UNCHANGED scheduleVars
  <2>1. UNCHANGED <<clock, schedule, index, ticker, triggers, interrupted>>
    BY <1>1 DEF scheduleVars
  <2>2. clock' \in Times /\ clock <= clock'
    BY <2>1, SchedulesInvTyped
  <2> QED
    BY <2>1, <2>2, ScheduleFrame
<1>2. CASE SchedulesNext
  BY <1>2, PassKeeps, CreateScheduleKeeps, DeleteScheduleKeeps, StartPassKeeps, ReadDueKeeps,
     PublishTriggerKeeps, MarkRunKeeps, EndPassKeeps, JobsKeep, CrashSchedulerKeeps
     DEF SchedulesNext
<1> QED
  BY <1>1, <1>2

LEMMA SchedulesInvariant == SchedulesSpec => []SchedulesInv
  BY SchedulesInitially, SchedulesStep, PTL DEF SchedulesSpec

\* A schedule is triggered once for each time it is due, whatever deletions,
\* slow passes and late ticks come between; only a pass that died, or could not
\* write the next run, lets it be triggered for the same time again
\* (cronTicker, Due, MarkRun).
THEOREM TriggeredOnce == SchedulesSpec => []OncePerDueTime
<1>1. SchedulesInv => OncePerDueTime
  <2> SUFFICES ASSUME SchedulesInv, NEW x \in DOMAIN triggers, x \notin interrupted
               PROVE  ~(triggers[x] > 1)
    BY DEF OncePerDueTime
  <2>1. PICK s \in ScheduleIds, t \in Nat : x = <<s, t>>
    BY DEF SchedulesInv, SchedulesTyped
  <2> QED
    BY <2>1 DEF SchedulesInv, FiredOnce
<1> QED
  BY <1>1, SchedulesInvariant, PTL

\* A schedule deleted before a pass began is not triggered by that pass, although
\* the SET of the pass before may have brought its key back: the pass reads the
\* index, which MarkRun does not write.
THEOREM DeletedStaysSilent == SchedulesSpec => []DeletedIsSilent
<1>1. SchedulesInv => DeletedIsSilent
  BY DEF SchedulesInv, PassFits, DeletedIsSilent
<1> QED
  BY <1>1, SchedulesInvariant, PTL

-----------------------------------------------------------------------------
(* Schedules: the types                                                    *)

\* What the invariant does not say: the stream of triggers and the jobs started.
JobsTyped ==
    /\ jobs \in Seq(ScheduleCopies) /\ Len(jobs) <= MaxTriggers
    /\ starts \in 0..MaxTriggers

LEMMA JobsStayTyped ==
    ASSUME SchedulesInv, JobsTyped, [SchedulesNext]_scheduleVars
    PROVE  JobsTyped'
<1>1. Len(jobs) \in Nat /\ MaxTriggers \in Nat /\ starts \in Nat
  BY LenProperties, SchedulesAssumption DEF JobsTyped, SchedulesAssumption
<1>2. CASE UNCHANGED <<jobs, starts>>
  BY <1>2 DEF JobsTyped
<1>3. ASSUME NEW c \in ticker.due, PublishTrigger(c)
      PROVE  JobsTyped'
  <2>1. CASE Len(jobs) + starts < MaxTriggers /\ jobs' = Append(jobs, c)
    <3>1. jobs' \in Seq(ScheduleCopies) /\ Len(jobs') = Len(jobs) + 1
      BY <2>1, SchedulesInvTyped, AppendProperties DEF JobsTyped
    <3> QED
      BY <1>1, <1>3, <2>1, <3>1 DEF JobsTyped, PublishTrigger
  <2> QED
    BY <1>2, <1>3, <2>1 DEF PublishTrigger
<1>4. CASE ReadJob
  <2>1. jobs' \in Seq(ScheduleCopies) /\ Len(jobs') = Len(jobs) - 1
    BY <1>4, HeadTailProperties DEF JobsTyped, ReadJob
  <2> QED
    BY <1>1, <1>4, <2>1 DEF JobsTyped, ReadJob
<1>5. CASE RunJob
  BY <1>1, <1>5 DEF JobsTyped, RunJob
<1>6. CASE Pass \/ StartPass \/ MarkRun \/ EndPass \/ CrashScheduler \/ UNCHANGED scheduleVars
  BY <1>2, <1>6 DEF Pass, StartPass, MarkRun, EndPass, CrashScheduler, scheduleVars
<1>7. ASSUME NEW s \in ScheduleIds,
             \/ \E e \in Exprs, image \in BOOLEAN : CreateSchedule(s, e, image)
             \/ DeleteSchedule(s) \/ ReadDue(s)
      PROVE  JobsTyped'
  BY <1>2, <1>7 DEF CreateSchedule, DeleteSchedule, ReadDue
<1> QED
  BY <1>3, <1>4, <1>5, <1>6, <1>7 DEF SchedulesNext

\* Every variable of the cron jobs keeps its type.
THEOREM SchedulesTypesKept == SchedulesSpec => []SchedulesTypeOK
<1>1. SchedulesInit => JobsTyped
  <2> SUFFICES ASSUME SchedulesInit PROVE JobsTyped
    OBVIOUS
  <2>1. jobs = <<>> /\ starts = 0 /\ MaxTriggers \in Nat
    BY SchedulesAssumption DEF SchedulesInit, SchedulesAssumption
  <2> QED
    BY <2>1, EmptySeq DEF JobsTyped
<1>2. SchedulesInv /\ JobsTyped => SchedulesTypeOK
  <2> SUFFICES ASSUME SchedulesInv, JobsTyped PROVE SchedulesTypeOK
    OBVIOUS
  <2>1. \A s \in ScheduleIds : schedule[s].next \in Nat
    BY SchedulesInvTyped DEF ScheduleRecords
  <2>2. ticker \in TickerRecords /\ index \subseteq ScheduleIds /\ PassFits
    BY DEF SchedulesInv, SchedulesTyped
  <2>3. \A c \in ticker.due \cup {ticker.current} : c.next <= ticker.now
    BY <2>2 DEF PassFits
  <2> QED
    BY <2>1, <2>2, <2>3, SchedulesInvTyped DEF SchedulesTypeOK, JobsTyped, TickerRecords
<1> QED
  BY <1>1, <1>2, SchedulesInvariant, SchedulesStep, SchedulesInitially, JobsStayTyped, PTL DEF SchedulesSpec

-----------------------------------------------------------------------------
(* Cluster: the invariant                                                  *)

NodeRecords == [status : {"absent", "ready", "draining", "offline"},
                mem : Units, cpu : Units, loads : SUBSET Loads]

ClusterTyped ==
    /\ node \in [NodeIds -> NodeRecords]
    /\ overdue \subseteq NodeIds
    /\ registered \in [Loads -> Nat]
    /\ evacuated \in [Loads -> Nat]

\* The nodes a workload is on.
On(w) == {n \in NodeIds : w \in node[n].loads}

\* What has been evacuated and what could still be, of what was registered.
Evacuable(w) == evacuated[w] + Cardinality(On(w)) <= registered[w]

ClusterInv == ClusterTyped /\ \A w \in Loads : Evacuable(w)

-----------------------------------------------------------------------------
(* Cluster: every step keeps the invariant                                 *)

LEMMA OnFinite ==
    ASSUME NEW w
    PROVE  IsFiniteSet(On(w)) /\ Cardinality(On(w)) \in Nat
<1>1. IsFiniteSet(NodeIds) /\ On(w) \subseteq NodeIds
  BY ClusterAssumption DEF ClusterAssumption, On
<1> QED
  BY <1>1, FS_Subset, FS_CardinalityType

LEMMA UnitsFacts ==
    /\ MaxUnits \in Nat /\ Units \subseteq Nat /\ 0 \in Units
    /\ \A c \in Detections : c.mem \in Units /\ c.cpu \in Units
<1>1. MaxUnits \in Nat /\ MaxUnits \div 5 \in Nat /\ MaxUnits \div 5 <= MaxUnits
  BY ClusterAssumption DEF ClusterAssumption
<1>2. ASSUME NEW a \in 0 .. MaxUnits + 1, NEW l \in 0 .. MaxUnits + 1
      PROVE  DetectSystemCapacity(a, l).mem \in Units /\ DetectSystemCapacity(a, l).cpu \in Units
  BY <1>1 DEF DetectSystemCapacity, Units
<1> QED
  BY <1>1, <1>2 DEF Detections, Units

\* The nodes keep what is placed on them, or lose some of it.
LEMMA LoadsStay ==
    ASSUME ClusterInv, node' \in [NodeIds -> NodeRecords], overdue' \subseteq NodeIds,
           \A n \in NodeIds : node'[n].loads \subseteq node[n].loads,
           UNCHANGED <<registered, evacuated>>
    PROVE  ClusterInv'
<1>1. ClusterTyped'
  BY DEF ClusterInv, ClusterTyped
<1>2. ASSUME NEW w \in Loads PROVE Evacuable(w)'
  <2>1. On(w)' \subseteq On(w)
    BY DEF On
  <2>2. PICK now : now = On(w)'
    OBVIOUS
  <2>3. now \subseteq On(w)
    BY <2>1, <2>2
  <2>4. Cardinality(now) \in Nat /\ Cardinality(now) <= Cardinality(On(w))
    BY <2>3, OnFinite, FS_Subset, FS_CardinalityType
  <2>5. evacuated[w] \in Nat /\ registered[w] \in Nat /\ Cardinality(On(w)) \in Nat
    BY OnFinite DEF ClusterInv, ClusterTyped
  <2> QED
    BY <2>2, <2>4, <2>5 DEF ClusterInv, Evacuable
<1> QED
  BY <1>1, <1>2 DEF ClusterInv

LEMMA ClusterInitially == ClusterInit => ClusterInv
<1> SUFFICES ASSUME ClusterInit PROVE ClusterInv
  OBVIOUS
<1>1. PICK c \in Detections :
          node = [n \in NodeIds |-> IF n = LocalNode
                                    THEN [status |-> "ready", mem |-> c.mem, cpu |-> c.cpu, loads |-> {}]
                                    ELSE NoNode]
  BY DEF ClusterInit
<1>2. ClusterTyped
  BY <1>1, UnitsFacts DEF ClusterInit, ClusterTyped, NodeRecords, NoNode
<1>3. ASSUME NEW w \in Loads PROVE Evacuable(w)
  <2>1. On(w) = {}
    BY <1>1 DEF On, NoNode
  <2>2. evacuated[w] = 0 /\ registered[w] = 0
    BY DEF ClusterInit
  <2> QED
    BY <2>1, <2>2, FS_EmptySet DEF Evacuable
<1> QED
  BY <1>2, <1>3 DEF ClusterInv

LEMMA RegisterNodeKeeps ==
    ASSUME ClusterInv, NEW n \in NodeIds, NEW loads \in SUBSET Loads, RegisterNode(n, loads)
    PROVE  ClusterInv'
<1>1. /\ node' = [node EXCEPT ![n] = [status |-> "ready", mem |-> 0, cpu |-> 0, loads |-> loads]]
      /\ registered' = [w \in Loads |-> IF w \in loads THEN registered[w] + 1 ELSE registered[w]]
      /\ UNCHANGED evacuated /\ overdue' \subseteq overdue
  BY DEF RegisterNode
<1>2. ClusterTyped'
  BY <1>1, UnitsFacts DEF ClusterInv, ClusterTyped, NodeRecords
<1>3. ASSUME NEW w \in Loads PROVE Evacuable(w)'
  <2>1. PICK now : now = On(w)'
    OBVIOUS
  <2>2. now \subseteq On(w) \cup {n} /\ (w \notin loads => now \subseteq On(w))
    BY <1>1, <2>1 DEF ClusterInv, ClusterTyped, On
  <2>3. IsFiniteSet(On(w)) /\ Cardinality(On(w)) \in Nat
    BY OnFinite
  <2>4. /\ IsFiniteSet(On(w) \cup {n}) /\ Cardinality(On(w) \cup {n}) \in Nat
        /\ Cardinality(On(w) \cup {n}) <= Cardinality(On(w)) + 1
    <3>1. /\ IsFiniteSet(On(w) \cup {n})
          /\ \/ Cardinality(On(w) \cup {n}) = Cardinality(On(w))
             \/ Cardinality(On(w) \cup {n}) = Cardinality(On(w)) + 1
      BY <2>3, FS_AddElement
    <3> QED
      BY <2>3, <3>1
  <2>5. Cardinality(now) \in Nat /\ Cardinality(now) <= Cardinality(On(w) \cup {n})
    BY <2>2, <2>4, FS_Subset, FS_CardinalityType
  <2>6. w \notin loads => Cardinality(now) <= Cardinality(On(w))
    BY <2>2, <2>3, FS_Subset
  <2>7. evacuated[w] \in Nat /\ registered[w] \in Nat /\ Evacuable(w)
    BY DEF ClusterInv, ClusterTyped
  <2>8. evacuated'[w] = evacuated[w]
        /\ registered'[w] = IF w \in loads THEN registered[w] + 1 ELSE registered[w]
    BY <1>1
  <2>9. evacuated'[w] + Cardinality(now) <= registered'[w]
    BY <2>3, <2>4, <2>5, <2>6, <2>7, <2>8 DEF Evacuable
  <2> QED
    BY <2>1, <2>9 DEF Evacuable
<1> QED
  BY <1>2, <1>3 DEF ClusterInv

LEMMA EvacuateKeeps == ClusterInv /\ EvacuateOfflineNodes => ClusterInv'
<1> SUFFICES ASSUME ClusterInv, EvacuateOfflineNodes PROVE ClusterInv'
  OBVIOUS
<1> DEFINE times(w) == Cardinality({n \in Dying : w \in node[n].loads})
<1>1. /\ node' = [n \in NodeIds |-> IF n \in Dying
                                    THEN [status |-> "offline", mem |-> 0, cpu |-> 0, loads |-> {}]
                                    ELSE node[n]]
      /\ evacuated' = [w \in Loads |-> evacuated[w] + times(w)]
      /\ UNCHANGED <<overdue, registered>>
  BY DEF EvacuateOfflineNodes
<1>2. Dying \subseteq NodeIds
  BY DEF Dying, ClusterInv, ClusterTyped
<1>3. ASSUME NEW w \in Loads
      PROVE  times(w) \in Nat /\ Evacuable(w)'
  <2>1. PICK lost : lost = {n \in Dying : w \in node[n].loads}
    OBVIOUS
  <2>2. PICK now : now = On(w)'
    OBVIOUS
  <2>3. now \cap lost = {} /\ now \cup lost = On(w)
    <3>1. \A n \in NodeIds : n \in now <=> n \notin Dying /\ w \in node[n].loads
      BY <1>1, <2>2 DEF On
    <3>2. now \subseteq NodeIds
      BY <2>2 DEF On
    <3> QED
      BY <1>2, <2>1, <3>1, <3>2 DEF On
  <2>4. IsFiniteSet(now) /\ IsFiniteSet(lost)
    BY <2>3, OnFinite, FS_Subset
  <2>5. Cardinality(now) \in Nat /\ Cardinality(lost) \in Nat
    BY <2>4, FS_CardinalityType
  <2>6. Cardinality(On(w)) = Cardinality(now) + Cardinality(lost)
    <3>1. Cardinality(now \cup lost)
            = Cardinality(now) + Cardinality(lost) - Cardinality(now \cap lost)
      BY <2>4, FS_Union
    <3> QED
      <4>1. Cardinality(now \cap lost) = 0
        BY <2>3, FS_EmptySet
      <4>2. Cardinality(now \cup lost) = Cardinality(now) + Cardinality(lost)
        BY <2>5, <3>1, <4>1
      <4> QED
        BY <2>3, <4>2
  <2>7. evacuated'[w] = evacuated[w] + Cardinality(lost) /\ registered'[w] = registered[w]
    BY <1>1, <2>1
  <2>8. evacuated[w] \in Nat /\ registered[w] \in Nat /\ Evacuable(w)
    BY DEF ClusterInv, ClusterTyped
  <2>9. evacuated'[w] + Cardinality(now) <= registered'[w]
    BY <2>5, <2>6, <2>7, <2>8 DEF Evacuable
  <2> QED
    BY <2>1, <2>2, <2>5, <2>9 DEF Evacuable
<1>4. node' \in [NodeIds -> NodeRecords]
  BY <1>1, UnitsFacts DEF ClusterInv, ClusterTyped, NodeRecords
<1>5. evacuated' \in [Loads -> Nat]
  <2>1. \A w \in Loads : times(w) \in Nat /\ evacuated[w] \in Nat
    BY <1>3 DEF ClusterInv, ClusterTyped
  <2> HIDE DEF times
  <2> QED
    BY <1>1, <2>1
<1>6. ClusterTyped'
  BY <1>1, <1>4, <1>5 DEF ClusterInv, ClusterTyped
<1> QED
  BY <1>3, <1>6 DEF ClusterInv

\* The operations that change one node and leave its workloads.
LEMMA OneNodeChanges ==
    ASSUME ClusterInv, NEW n \in NodeIds, NEW r \in NodeRecords,
           r.loads = node[n].loads, node' = [node EXCEPT ![n] = r],
           overdue' \subseteq NodeIds, UNCHANGED <<registered, evacuated>>
    PROVE  ClusterInv'
<1>1. node \in [NodeIds -> NodeRecords]
  BY DEF ClusterInv, ClusterTyped
<1>2. node' \in [NodeIds -> NodeRecords] /\ \A m \in NodeIds : node'[m].loads = node[m].loads
  BY <1>1
<1> QED
  BY <1>2, LoadsStay

LEMMA StatusSteps ==
    ASSUME ClusterInv, NEW n \in NodeIds, Heartbeat(n) \/ ToggleDrain(n) \/ DrainNode(n)
    PROVE  ClusterInv'
<1>1. node[n] \in NodeRecords /\ overdue \subseteq NodeIds /\ node \in [NodeIds -> NodeRecords]
  BY DEF ClusterInv, ClusterTyped
<1>2. PICK status \in {"ready", "draining", "offline", "absent"} :
          node' = [node EXCEPT ![n].status = status]
  <2>1. node[n].status \in {"ready", "draining", "offline", "absent"}
    BY <1>1 DEF NodeRecords
  <2> QED
    BY <1>1, <2>1 DEF Heartbeat, ToggleDrain, DrainNode, NodeRecords
<1> DEFINE r == [node[n] EXCEPT !.status = status]
<1>3. r \in NodeRecords /\ r.loads = node[n].loads /\ node' = [node EXCEPT ![n] = r]
  BY <1>1, <1>2 DEF NodeRecords
<1>4. overdue' \subseteq NodeIds /\ UNCHANGED <<registered, evacuated>>
  BY <1>1 DEF Heartbeat, ToggleDrain, DrainNode
<1> HIDE DEF r
<1> QED
  BY <1>3, <1>4, OneNodeChanges

LEMMA CapacitySteps ==
    ASSUME ClusterInv,
           \/ \E c \in Detections : UpdateNodeCapacity(c)
           \/ \E n \in NodeIds, mem, cpu \in Units :
                  \E label \in {AnyLabel, NodeLabels[n]} : SelectPlacementNode(n, mem, cpu, label)
    PROVE  ClusterInv'
<1>1. PICK n \in NodeIds, mem \in Units, cpu \in Units :
          /\ node' = [node EXCEPT ![n].mem = mem, ![n].cpu = cpu]
          /\ overdue' \subseteq overdue /\ UNCHANGED <<registered, evacuated>>
  <2>1. ASSUME NEW c \in Detections, UpdateNodeCapacity(c)
        PROVE  /\ node' = [node EXCEPT ![LocalNode].mem = c.mem, ![LocalNode].cpu = c.cpu]
               /\ overdue' \subseteq overdue /\ UNCHANGED <<registered, evacuated>>
               /\ LocalNode \in NodeIds /\ c.mem \in Units /\ c.cpu \in Units
    BY <2>1, UnitsFacts, ClusterAssumption DEF UpdateNodeCapacity, ClusterAssumption
  <2>2. ASSUME NEW n \in NodeIds, NEW mem \in Units, NEW cpu \in Units,
               NEW label, SelectPlacementNode(n, mem, cpu, label)
        PROVE  /\ node' = [node EXCEPT ![n].mem = node[n].mem + mem, ![n].cpu = node[n].cpu + cpu]
               /\ overdue' \subseteq overdue /\ UNCHANGED <<registered, evacuated>>
               /\ node[n].mem + mem \in Units /\ node[n].cpu + cpu \in Units
    <3>1. /\ node' = [node EXCEPT ![n].mem = @ + mem, ![n].cpu = @ + cpu]
          /\ overdue' = overdue /\ UNCHANGED <<registered, evacuated>>
          /\ MaxUnits - node[n].mem >= mem /\ MaxUnits - node[n].cpu >= cpu
      BY <2>2 DEF SelectPlacementNode, Fits
    <3>2. node \in [NodeIds -> NodeRecords] /\ node[n].mem \in Units /\ node[n].cpu \in Units
      BY DEF ClusterInv, ClusterTyped, NodeRecords
    <3>3. node[n].mem + mem \in Units /\ node[n].cpu + cpu \in Units
      BY <3>1, <3>2, UnitsFacts DEF Units
    <3> QED
      BY <3>1, <3>2, <3>3 DEF NodeRecords
  <2>3. CASE \E c \in Detections : UpdateNodeCapacity(c)
    <3>1. PICK c \in Detections : UpdateNodeCapacity(c)
      BY <2>3
    <3> QED
      BY <2>1, <3>1
  <2>4. CASE \E n \in NodeIds, mem, cpu \in Units :
                \E label \in {AnyLabel, NodeLabels[n]} : SelectPlacementNode(n, mem, cpu, label)
    <3>1. PICK n \in NodeIds, mem \in Units, cpu \in Units :
             \E label \in {AnyLabel, NodeLabels[n]} : SelectPlacementNode(n, mem, cpu, label)
      BY <2>4
    <3>2. PICK label \in {AnyLabel, NodeLabels[n]} : SelectPlacementNode(n, mem, cpu, label)
      BY <3>1
    <3>3. /\ node' = [node EXCEPT ![n].mem = node[n].mem + mem, ![n].cpu = node[n].cpu + cpu]
          /\ overdue' \subseteq overdue /\ UNCHANGED <<registered, evacuated>>
          /\ node[n].mem + mem \in Units /\ node[n].cpu + cpu \in Units
      BY <2>2, <3>2
    <3> QED
      BY <3>3
  <2> QED
    BY <2>3, <2>4
<1>2. node[n] \in NodeRecords /\ overdue \subseteq NodeIds /\ node \in [NodeIds -> NodeRecords]
  BY DEF ClusterInv, ClusterTyped
<1> DEFINE r == [node[n] EXCEPT !.mem = mem, !.cpu = cpu]
<1>3. r \in NodeRecords /\ r.loads = node[n].loads /\ node' = [node EXCEPT ![n] = r]
  BY <1>1, <1>2 DEF NodeRecords
<1>4. overdue' \subseteq NodeIds
  BY <1>1, <1>2
<1> HIDE DEF r
<1> QED
  BY <1>1, <1>3, <1>4, OneNodeChanges

LEMMA ClusterStep == ClusterInv /\ [ClusterNext]_clusterVars => ClusterInv'
<1> SUFFICES ASSUME ClusterInv, [ClusterNext]_clusterVars PROVE ClusterInv'
  OBVIOUS
<1>1. ASSUME UNCHANGED clusterVars \/ \E n \in NodeIds : Miss(n) PROVE ClusterInv'
  <2>1. UNCHANGED <<node, registered, evacuated>> /\ overdue' \subseteq NodeIds
    BY <1>1 DEF clusterVars, Miss, ClusterInv, ClusterTyped
  <2> QED
    BY <2>1, LoadsStay DEF ClusterInv, ClusterTyped
<1>2. ASSUME NEW n \in NodeIds, NEW mem \in Units, NEW cpu \in Units,
             NEW label \in {AnyLabel, NodeLabels[n]}, SelectPlacementNode(n, mem, cpu, label)
      PROVE  ClusterInv'
  BY <1>2, CapacitySteps
<1>3. ASSUME NEW c \in Detections, UpdateNodeCapacity(c) PROVE ClusterInv'
  BY <1>3, CapacitySteps
<1> QED
  BY <1>1, <1>2, <1>3, RegisterNodeKeeps, StatusSteps, EvacuateKeeps DEF ClusterNext

LEMMA ClusterInvariant == ClusterSpec => []ClusterInv
  BY ClusterInitially, ClusterStep, PTL DEF ClusterSpec

\* No order of placements, detections, registrations and evacuations hands out
\* more than a node has, and a workload is never returned to be placed again more
\* often than a node registered with it (SelectPlacementNode, RegisterNode,
\* EvacuateOfflineNodes).
THEOREM ClusterAccounts == ClusterSpec => []NodesAccountFor
<1>1. ClusterInv => NodesAccountFor
  <2> SUFFICES ASSUME ClusterInv PROVE NodesAccountFor
    OBVIOUS
  <2>1. \A n \in NodeIds : node[n].mem \in Units /\ node[n].cpu \in Units
    BY DEF ClusterInv, ClusterTyped, NodeRecords
  <2>2. \A w \in Loads : evacuated[w] <= registered[w]
    BY OnFinite DEF ClusterInv, ClusterTyped, Evacuable
  <2> QED
    BY <2>1, <2>2 DEF NodesAccountFor
<1> QED
  BY <1>1, ClusterInvariant, PTL

-----------------------------------------------------------------------------
(* Cluster: the types                                                      *)

\* A workload is registered only below the bound.
RegistersFit == registered \in [Loads -> 0..MaxRegisters]

LEMMA RegistrationsBounded ==
    ASSUME ClusterInv, RegistersFit, [ClusterNext]_clusterVars
    PROVE  RegistersFit'
<1>1. ASSUME NEW n \in NodeIds, NEW loads \in SUBSET Loads, RegisterNode(n, loads)
      PROVE  RegistersFit'
  <2>1. MaxRegisters \in Nat
    BY ClusterAssumption DEF ClusterAssumption
  <2>2. \A w \in Loads : (IF w \in loads THEN registered[w] + 1 ELSE registered[w]) \in 0..MaxRegisters
    BY <1>1, <2>1 DEF RegisterNode, RegistersFit
  <2> QED
    BY <1>1, <2>2 DEF RegisterNode, RegistersFit
<1>2. CASE ClusterNext /\ ~\E n \in NodeIds, loads \in SUBSET Loads : RegisterNode(n, loads)
  BY <1>2 DEF ClusterNext, Heartbeat, ToggleDrain, DrainNode, Miss, SelectPlacementNode,
              UpdateNodeCapacity, EvacuateOfflineNodes, RegistersFit
<1> QED
  BY <1>1, <1>2 DEF clusterVars, RegistersFit

\* Every variable of the table of nodes keeps its type.
THEOREM ClusterTypesKept == ClusterSpec => []ClusterTypeOK
<1>1. ClusterInit => RegistersFit
  BY ClusterAssumption DEF ClusterInit, ClusterAssumption, RegistersFit
<1>2. ClusterInv /\ RegistersFit => ClusterTypeOK
  <2>1. Units \subseteq Int
    BY UnitsFacts
  <2> QED
    BY <2>1 DEF ClusterInv, ClusterTyped, NodeRecords, RegistersFit, ClusterTypeOK
<1>3. ClusterInv /\ [ClusterNext]_clusterVars => ClusterInv'
  BY ClusterStep
<1> QED
  BY <1>1, <1>2, <1>3, ClusterInitially, RegistrationsBounded, PTL DEF ClusterSpec

-----------------------------------------------------------------------------
(* Repositories: the invariant.  The rows of installations and connected   *)
(* repositories are not in it: what they say decides who calls GitHub, not *)
(* which token or which key is used.                                       *)

RequestRecords ==
    [at : {"idle", "forget", "find", "insert installation", "mint", "call", "insert key", "fetch key"},
     org : RepoOrgs \cup {NoRepoOrg}, gh : GitHubIds \cup {NoInstall},
     key : Nat, life : Lives, waited : BOOLEAN]

KeysTyped ==
    /\ deployKey \in [RepoOrgs -> Nat] /\ keysMade \in Nat
    /\ installState \in RepoOrgs \cup {NoRepoOrg}
    /\ repoCaller \in [RepoCallers -> RequestRecords]
    /\ shown \in [RepoOrgs -> SUBSET Nat]

\* A request that generated a pair finds one when it fetches; a request that
\* calls GitHub has a young token, or one that aged once.
RequestFits(r) ==
    /\ r.at = "insert key" => r.org \in RepoOrgs /\ r.key # 0
    /\ r.at = "fetch key" => r.org \in RepoOrgs /\ deployKey[r.org] # 0
    /\ r.at = "call" => r.life = IF r.waited THEN "old" ELSE "young"
    /\ r.waited => r.at = "call"

ShownFits(o) == 0 \notin shown[o] /\ shown[o] \subseteq {deployKey[o]}

RepositoriesInv ==
    /\ KeysTyped
    /\ \A c \in RepoCallers : RequestFits(repoCaller[c])
    /\ \A o \in RepoOrgs : ShownFits(o)

-----------------------------------------------------------------------------
(* Repositories: every step keeps the invariant                            *)

LEMMA OffDutyFits ==
    /\ OffDuty \in RequestRecords /\ RequestFits(OffDuty)
    /\ OffDuty.waited = FALSE /\ OffDuty.at = "idle" /\ OffDuty.life = "young"
  BY DEF OffDuty, RequestRecords, RequestFits, Lives

\* Keys are added and replaced, never taken away.
LEMMA RequestStaysFit ==
    ASSUME NEW r, RequestFits(r), \A o \in RepoOrgs : deployKey[o] # 0 => deployKey'[o] # 0
    PROVE  RequestFits(r)'
  BY DEF RequestFits

\* One request moves on and the rows of keys are left alone.
LEMMA RequestMoves ==
    ASSUME RepositoriesInv, NEW c \in RepoCallers, NEW r \in RequestRecords, RequestFits(r),
           repoCaller' = [repoCaller EXCEPT ![c] = r],
           installState' \in RepoOrgs \cup {NoRepoOrg},
           UNCHANGED deployKey, keysMade' \in Nat, UNCHANGED shown
    PROVE  RepositoriesInv'
<1>1. repoCaller \in [RepoCallers -> RequestRecords]
  BY DEF RepositoriesInv, KeysTyped
<1>2. /\ repoCaller' \in [RepoCallers -> RequestRecords]
      /\ \A d \in RepoCallers : repoCaller'[d] = IF d = c THEN r ELSE repoCaller[d]
  BY <1>1
<1>3. \A d \in RepoCallers : RequestFits(repoCaller[d])
  BY DEF RepositoriesInv
<1>4. ASSUME NEW d \in RepoCallers PROVE RequestFits(repoCaller[d])'
  <2>1. PICK q : q = repoCaller'[d]
    OBVIOUS
  <2>2. RequestFits(q)
    BY <1>2, <1>3, <2>1
  <2>3. RequestFits(q)'
    BY <2>2, RequestStaysFit
  <2> QED
    BY <2>1, <2>3 DEF RequestFits
<1> QED
  BY <1>2, <1>4 DEF RepositoriesInv, KeysTyped, ShownFits

LEMMA RequestRetires ==
    ASSUME RepositoriesInv, NEW c \in RepoCallers, Retire(c),
           installState' \in RepoOrgs \cup {NoRepoOrg}, UNCHANGED <<deployKey, keysMade, shown>>
    PROVE  RepositoriesInv'
  BY OffDutyFits, RequestMoves DEF Retire, Move, RepositoriesInv, KeysTyped

\* No request moves.
LEMMA RequestsStay ==
    ASSUME RepositoriesInv, installState' \in RepoOrgs \cup {NoRepoOrg},
           UNCHANGED <<deployKey, keysMade, shown, repoCaller>>
    PROVE  RepositoriesInv'
  BY DEF RepositoriesInv, KeysTyped, ShownFits, RequestFits

LEMMA RepositoriesInitially == RepositoriesInit => RepositoriesInv
  BY OffDutyFits DEF RepositoriesInit, RepositoriesInv, KeysTyped, ShownFits

LEMMA RequestTyped ==
    ASSUME RepositoriesInv, NEW c \in RepoCallers
    PROVE  /\ repoCaller \in [RepoCallers -> RequestRecords]
           /\ repoCaller[c] \in RequestRecords /\ RequestFits(repoCaller[c])
           /\ installState \in RepoOrgs \cup {NoRepoOrg} /\ keysMade \in Nat
           /\ deployKey \in [RepoOrgs -> Nat] /\ shown \in [RepoOrgs -> SUBSET Nat]
  BY DEF RepositoriesInv, KeysTyped

LEMMA RowStepsKeep ==
    ASSUME RepositoriesInv,
           \/ StateExpires
           \/ \E o \in RepoOrgs : InstallStart(o)
           \/ \E o \in RepoOrgs, n \in RepoNames :
                 \/ DisconnectRepo(o, n)
                 \/ \E g \in GitHubIds \cup {NoInstall} : ConnectRepo(o, n, g)
    PROVE  RepositoriesInv'
<1>1. UNCHANGED <<deployKey, keysMade, shown, repoCaller>> /\ installState' \in RepoOrgs \cup {NoRepoOrg}
  BY DEF StateExpires, InstallStart, DisconnectRepo, ConnectRepo, RepositoriesInv, KeysTyped
<1> QED
  BY <1>1, RequestsStay

LEMMA InstallingKeeps ==
    ASSUME RepositoriesInv, NEW c \in RepoCallers,
           \/ \E o \in RepoOrgs, g \in GitHubIds, sent \in BOOLEAN : InstallCallback(c, o, g, sent)
           \/ \E g \in GitHubIds : GitHubSetup(c, g)
           \/ ForgetState(c) \/ UpsertInstallation(c) \/ InsertInstallation(c)
    PROVE  RepositoriesInv'
<1>1. UNCHANGED <<deployKey, keysMade, shown>> /\ installState' \in RepoOrgs \cup {NoRepoOrg}
  BY RequestTyped DEF InstallCallback, GitHubSetup, ForgetState, UpsertInstallation, InsertInstallation
<1>2. CASE UNCHANGED repoCaller
  BY <1>1, <1>2, RequestsStay
<1>3. CASE Retire(c)
  BY <1>1, <1>3, RequestRetires
<1>4. CASE \E org \in RepoOrgs \cup {NoRepoOrg}, gh \in GitHubIds, at \in {"find", "forget"} :
               Move(c, [OffDuty EXCEPT !.at = at, !.org = org, !.gh = gh])
  <2>1. PICK org \in RepoOrgs \cup {NoRepoOrg}, gh \in GitHubIds, at \in {"find", "forget"} :
               Move(c, [OffDuty EXCEPT !.at = at, !.org = org, !.gh = gh])
    BY <1>4
  <2> DEFINE r == [OffDuty EXCEPT !.at = at, !.org = org, !.gh = gh]
  <2>2. r \in RequestRecords /\ RequestFits(r)
    BY DEF OffDuty, RequestRecords, RequestFits, Lives
  <2>3. repoCaller' = [repoCaller EXCEPT ![c] = r]
    BY <2>1 DEF Move
  <2> HIDE DEF r
  <2> QED
    BY <1>1, <2>2, <2>3, RequestTyped, RequestMoves
<1>5. CASE \E at \in {"find", "insert installation"} :
               repoCaller[c].at \in {"forget", "find"} /\ Move(c, [repoCaller[c] EXCEPT !.at = at])
  <2>1. PICK at \in {"find", "insert installation"} :
               repoCaller[c].at \in {"forget", "find"} /\ Move(c, [repoCaller[c] EXCEPT !.at = at])
    BY <1>5
  <2> DEFINE r == [repoCaller[c] EXCEPT !.at = at]
  <2>2. r \in RequestRecords /\ RequestFits(r)
    BY <2>1, RequestTyped DEF RequestRecords, RequestFits
  <2>3. repoCaller' = [repoCaller EXCEPT ![c] = r]
    BY <2>1 DEF Move
  <2> HIDE DEF r
  <2> QED
    BY <1>1, <2>2, <2>3, RequestTyped, RequestMoves
<1> QED
  <2>1. ASSUME NEW o \in RepoOrgs, NEW g \in GitHubIds, NEW sent \in BOOLEAN, InstallCallback(c, o, g, sent)
        PROVE  UNCHANGED repoCaller \/ Move(c, [OffDuty EXCEPT !.at = "find", !.org = o, !.gh = g])
    BY <2>1 DEF InstallCallback
  <2>2. ASSUME NEW g \in GitHubIds, GitHubSetup(c, g)
        PROVE  /\ installState \in RepoOrgs \cup {NoRepoOrg}
               /\ Move(c, [OffDuty EXCEPT !.at = "forget", !.org = installState, !.gh = g])
    BY <2>2, RequestTyped DEF GitHubSetup
  <2>3. ForgetState(c) => repoCaller[c].at = "forget" /\ Move(c, [repoCaller[c] EXCEPT !.at = "find"])
    BY DEF ForgetState
  <2>4. UpsertInstallation(c) => /\ repoCaller[c].at = "find"
                                 /\ \/ Retire(c)
                                    \/ Move(c, [repoCaller[c] EXCEPT !.at = "insert installation"])
    BY DEF UpsertInstallation
  <2>5. InsertInstallation(c) => Retire(c)
    BY DEF InsertInstallation
  <2>6. CASE \E o \in RepoOrgs, g \in GitHubIds, sent \in BOOLEAN : InstallCallback(c, o, g, sent)
    <3>1. PICK o \in RepoOrgs, g \in GitHubIds, sent \in BOOLEAN : InstallCallback(c, o, g, sent)
      BY <2>6
    <3>2. UNCHANGED repoCaller \/ Move(c, [OffDuty EXCEPT !.at = "find", !.org = o, !.gh = g])
      BY <2>1, <3>1
    <3> QED
      BY <1>2, <1>4, <3>2
  <2>7. CASE \E g \in GitHubIds : GitHubSetup(c, g)
    BY <1>4, <2>2, <2>7
  <2> QED
    BY <1>3, <1>5, <2>3, <2>4, <2>5, <2>6, <2>7

LEMMA CallingKeeps ==
    ASSUME RepositoriesInv, NEW c \in RepoCallers,
           \/ \E o \in RepoOrgs : ListAvailableRepos(c, o)
           \/ \E n \in RepoNames : InternalCommitStatus(c, n)
           \/ MintToken(c) \/ CallGitHub(c)
    PROVE  RepositoriesInv'
<1>1. UNCHANGED <<deployKey, keysMade, shown>> /\ installState' \in RepoOrgs \cup {NoRepoOrg}
  BY RequestTyped DEF ListAvailableRepos, InternalCommitStatus, MintToken, CallGitHub
<1>2. CASE Retire(c)
  BY <1>1, <1>2, RequestRetires
<1>3. CASE \E gh \in GitHubIds : TakeToken(c, gh)
  <2>1. PICK gh \in GitHubIds : TakeToken(c, gh)
    BY <1>3
  <2>2. PICK r : /\ repoCaller' = [repoCaller EXCEPT ![c] = r]
                 /\ \/ r = [OffDuty EXCEPT !.at = "call", !.gh = gh, !.life = "young"]
                    \/ r = [OffDuty EXCEPT !.at = "mint", !.gh = gh]
    BY <2>1 DEF TakeToken, CachedToken, Move
  <2>3. r \in RequestRecords /\ RequestFits(r)
    <3>1. CASE r = [OffDuty EXCEPT !.at = "call", !.gh = gh, !.life = "young"]
      BY <3>1 DEF OffDuty, RequestRecords, RequestFits, Lives
    <3>2. CASE r = [OffDuty EXCEPT !.at = "mint", !.gh = gh]
      BY <3>2 DEF OffDuty, RequestRecords, RequestFits, Lives
    <3> QED
      BY <2>2, <3>1, <3>2
  <2> QED
    BY <1>1, <2>2, <2>3, RequestTyped, RequestMoves
<1>4. CASE MintToken(c) /\ ~Retire(c)
  <2> DEFINE r == [repoCaller[c] EXCEPT !.at = "call", !.life = "young"]
  <2>1. repoCaller[c].at = "mint" /\ repoCaller' = [repoCaller EXCEPT ![c] = r]
    BY <1>4 DEF MintToken, Move
  <2>2. r \in RequestRecords /\ RequestFits(r)
    BY <2>1, RequestTyped DEF RequestRecords, RequestFits, Lives
  <2> HIDE DEF r
  <2> QED
    BY <1>1, <2>1, <2>2, RequestTyped, RequestMoves
<1>5. CallGitHub(c) => Retire(c)
  BY DEF CallGitHub
<1>6. ASSUME NEW o \in RepoOrgs, ListAvailableRepos(c, o) PROVE \E gh \in GitHubIds : TakeToken(c, gh)
  BY <1>6 DEF ListAvailableRepos
<1>7. ASSUME NEW n \in RepoNames, InternalCommitStatus(c, n) PROVE \E gh \in GitHubIds : TakeToken(c, gh)
  BY <1>7 DEF InternalCommitStatus
<1> QED
  BY <1>2, <1>3, <1>4, <1>5, <1>6, <1>7

LEMMA TokensAgeKeeps == RepositoriesInv /\ TokensAge => RepositoriesInv'
<1> SUFFICES ASSUME RepositoriesInv, TokensAge PROVE RepositoriesInv'
  OBVIOUS
<1>1. /\ UNCHANGED <<deployKey, keysMade, installState, shown>>
      /\ repoCaller' = [c \in RepoCallers |->
                          IF repoCaller[c].at = "call"
                          THEN [repoCaller[c] EXCEPT !.life = Aged(@), !.waited = TRUE]
                          ELSE repoCaller[c]]
      /\ \A c \in RepoCallers : ~repoCaller[c].waited
  BY DEF TokensAge
<1>2. ASSUME NEW c \in RepoCallers
      PROVE  repoCaller'[c] \in RequestRecords /\ RequestFits(repoCaller[c])'
  <2>1. PICK r : r = repoCaller[c]
    OBVIOUS
  <2>2. r \in RequestRecords /\ RequestFits(r) /\ ~r.waited
    BY <1>1, <2>1, RequestTyped
  <2>3. CASE r.at # "call"
    BY <1>1, <2>1, <2>2, <2>3 DEF RequestFits
  <2>4. CASE r.at = "call"
    <3>1. r.life = "young"
      BY <2>2, <2>4 DEF RequestFits
    <3>2. repoCaller'[c] = [r EXCEPT !.life = Aged("young"), !.waited = TRUE]
      BY <1>1, <2>1, <2>2, <2>4, <3>1 DEF RequestRecords
    <3>3. Aged("young") = "old"
      BY DEF Aged
    <3> QED
      BY <2>2, <2>4, <3>2, <3>3 DEF RequestRecords, RequestFits, Lives
  <2> QED
    BY <2>3, <2>4
<1>3. repoCaller' \in [RepoCallers -> RequestRecords]
  <2>1. repoCaller' = [c \in RepoCallers |-> repoCaller'[c]]
    BY <1>1
  <2> QED
    BY <1>2, <2>1
<1> QED
  BY <1>1, <1>2, <1>3 DEF RepositoriesInv, KeysTyped, ShownFits

LEMMA GetDeployKeyKeeps ==
    ASSUME RepositoriesInv, NEW c \in RepoCallers, NEW o \in RepoOrgs, GetDeployKey(c, o)
    PROVE  RepositoriesInv'
<1>1. CASE deployKey[o] # 0
  <2>1. /\ shown' = [shown EXCEPT ![o] = shown[o] \cup {deployKey[o]}]
        /\ UNCHANGED <<deployKey, keysMade, installState, repoCaller>>
    BY <1>1, RequestTyped DEF GetDeployKey, Show
  <2>2. shown' \in [RepoOrgs -> SUBSET Nat]
    BY <2>1, RequestTyped
  <2>3. \A p \in RepoOrgs : ShownFits(p)'
    BY <1>1, <2>1, RequestTyped DEF ShownFits, RepositoriesInv
  <2> QED
    BY <2>1, <2>2, <2>3 DEF RepositoriesInv, KeysTyped, RequestFits
<1>2. CASE deployKey[o] = 0
  <2> DEFINE r == [OffDuty EXCEPT !.at = "insert key", !.org = o, !.key = keysMade + 1]
  <2>1. r \in RequestRecords /\ RequestFits(r)
    <3>1. PICK k : k = keysMade + 1
      OBVIOUS
    <3>2. k \in Nat /\ k # 0
      BY <3>1, RequestTyped
    <3>3. r = [OffDuty EXCEPT !.at = "insert key", !.org = o, !.key = k]
      BY <3>1
    <3> QED
      BY <3>2, <3>3 DEF OffDuty, RequestRecords, RequestFits, Lives
  <2>2. /\ repoCaller' = [repoCaller EXCEPT ![c] = r]
        /\ keysMade' \in Nat /\ UNCHANGED <<deployKey, installState, shown>>
    BY <1>2, RequestTyped DEF GetDeployKey, Move
  <2> HIDE DEF r
  <2> QED
    BY <2>1, <2>2, RequestMoves, RequestTyped
<1> QED
  BY <1>1, <1>2

LEMMA InsertKeyKeeps ==
    ASSUME RepositoriesInv, NEW c \in RepoCallers, InsertKey(c)
    PROVE  RepositoriesInv'
<1>1. PICK q : q = repoCaller[c]
  OBVIOUS
<1>2. q \in RequestRecords /\ RequestFits(q) /\ q.at = "insert key" /\ q.org \in RepoOrgs /\ q.key # 0
      /\ q.key \in Nat
  BY <1>1, RequestTyped DEF InsertKey, RequestFits, RequestRecords
<1> DEFINE r == [q EXCEPT !.at = "fetch key"]
<1>3. /\ deployKey' = [deployKey EXCEPT ![q.org] = IF deployKey[q.org] = 0 THEN q.key ELSE deployKey[q.org]]
      /\ repoCaller' = [repoCaller EXCEPT ![c] = r]
      /\ UNCHANGED <<keysMade, installState, shown>>
  BY <1>1, <1>2, RequestTyped DEF InsertKey, Move
<1>4. /\ deployKey' \in [RepoOrgs -> Nat] /\ deployKey'[q.org] # 0
      /\ \A o \in RepoOrgs : deployKey[o] # 0 => deployKey'[o] = deployKey[o]
  BY <1>2, <1>3, RequestTyped
<1>5. r \in RequestRecords /\ r.at = "fetch key" /\ r.org = q.org /\ ~r.waited
  BY <1>2 DEF RequestRecords, RequestFits
<1> HIDE DEF r
<1>6. /\ repoCaller' \in [RepoCallers -> RequestRecords]
      /\ \A d \in RepoCallers : repoCaller'[d] = IF d = c THEN r ELSE repoCaller[d]
  BY <1>3, <1>5, RequestTyped
<1>7. ASSUME NEW d \in RepoCallers PROVE RequestFits(repoCaller[d])'
  <2>1. CASE d = c
    BY <1>2, <1>4, <1>5, <1>6, <2>1 DEF RequestFits
  <2>2. CASE d # c
    <3>1. PICK p : p = repoCaller[d]
      OBVIOUS
    <3>2. RequestFits(p)'
      BY <1>4, <3>1, RequestTyped, RequestStaysFit
    <3> QED
      BY <1>6, <2>2, <3>1, <3>2 DEF RequestFits
  <2> QED
    BY <2>1, <2>2
<1>8. ASSUME NEW o \in RepoOrgs PROVE ShownFits(o)'
  BY <1>3, <1>4 DEF RepositoriesInv, ShownFits
<1> QED
  BY <1>3, <1>4, <1>6, <1>7, <1>8 DEF RepositoriesInv, KeysTyped

LEMMA FetchKeyKeeps ==
    ASSUME RepositoriesInv, NEW c \in RepoCallers, FetchKey(c)
    PROVE  RepositoriesInv'
<1>1. PICK o : o = repoCaller[c].org
  OBVIOUS
<1>2. o \in RepoOrgs /\ deployKey[o] # 0
  BY <1>1, RequestTyped DEF FetchKey, RequestFits
<1>3. /\ shown' = [shown EXCEPT ![o] = shown[o] \cup {deployKey[o]}]
      /\ repoCaller' = [repoCaller EXCEPT ![c] = OffDuty]
      /\ UNCHANGED <<deployKey, keysMade, installState>>
  BY <1>1, <1>2, RequestTyped DEF FetchKey, Show, Retire, Move
<1>4. shown' \in [RepoOrgs -> SUBSET Nat] /\ \A p \in RepoOrgs : ShownFits(p)'
  BY <1>2, <1>3, RequestTyped DEF ShownFits, RepositoriesInv
<1>5. repoCaller' \in [RepoCallers -> RequestRecords]
  BY <1>3, RequestTyped, OffDutyFits
<1>6. \A d \in RepoCallers : RequestFits(repoCaller[d])'
  BY <1>3, RequestTyped, OffDutyFits DEF RequestFits
<1> QED
  BY <1>3, <1>4, <1>5, <1>6 DEF RepositoriesInv, KeysTyped

LEMMA RotateDeployKeyKeeps ==
    ASSUME RepositoriesInv, NEW o \in RepoOrgs, RotateDeployKey(o)
    PROVE  RepositoriesInv'
<1>1. /\ keysMade \in Nat /\ deployKey \in [RepoOrgs -> Nat] /\ shown \in [RepoOrgs -> SUBSET Nat]
  BY DEF RepositoriesInv, KeysTyped
<1>2. /\ keysMade' = keysMade + 1
      /\ deployKey' = [deployKey EXCEPT ![o] = keysMade + 1]
      /\ shown' = [shown EXCEPT ![o] = {keysMade + 1}]
      /\ UNCHANGED <<installState, repoCaller>>
  BY DEF RotateDeployKey
<1>3. KeysTyped'
  BY <1>1, <1>2 DEF RepositoriesInv, KeysTyped
<1>4. \A p \in RepoOrgs : deployKey[p] # 0 => deployKey'[p] # 0
  BY <1>1, <1>2
<1>5. ASSUME NEW c \in RepoCallers PROVE RequestFits(repoCaller[c])'
  <2>1. PICK r : r = repoCaller[c]
    OBVIOUS
  <2>2. RequestFits(r)'
    BY <1>4, <2>1, RequestTyped, RequestStaysFit
  <2> QED
    BY <1>2, <2>1, <2>2
<1>6. \A p \in RepoOrgs : ShownFits(p)'
  BY <1>1, <1>2 DEF RepositoriesInv, ShownFits
<1> QED
  BY <1>3, <1>5, <1>6 DEF RepositoriesInv

LEMMA RepositoriesStep == RepositoriesInv /\ [RepositoriesNext]_repoVars => RepositoriesInv'
<1> SUFFICES ASSUME RepositoriesInv, [RepositoriesNext]_repoVars PROVE RepositoriesInv'
  OBVIOUS
<1>1. CASE UNCHANGED repoVars
  BY <1>1, RequestsStay DEF repoVars, RepositoriesInv, KeysTyped
<1>2. CASE GitHubNext
  BY <1>2, RowStepsKeep, TokensAgeKeeps, InstallingKeeps, CallingKeeps DEF GitHubNext
<1>3. CASE DeployKeyNext
  BY <1>3, RotateDeployKeyKeeps, GetDeployKeyKeeps, InsertKeyKeeps, FetchKeyKeeps DEF DeployKeyNext
<1> QED
  BY <1>1, <1>2, <1>3 DEF RepositoriesNext

LEMMA RepositoriesInvariant == RepositoriesSpec => []RepositoriesInv
  BY RepositoriesInitially, RepositoriesStep, PTL DEF RepositoriesSpec

\* However many first requests for a project's deploy key race each other and a
\* rotation, everybody who was shown one since the last rotation was shown the
\* one the builds clone with (GetDeployKey, RotateDeployKey).
THEOREM DeployKeysWork == RepositoriesSpec => []ShownKeysWork
<1>1. RepositoriesInv => ShownKeysWork
  BY DEF RepositoriesInv, ShownFits, ShownKeysWork
<1> QED
  BY <1>1, RepositoriesInvariant, PTL

\* No request goes to GitHub with a token that has expired: what the cache hands
\* out has more than two minutes left and the call takes less (InstallationToken).
THEOREM TokensLastTheCall == RepositoriesSpec => []TokensOutliveCalls
<1>1. RepositoriesInv => TokensOutliveCalls
  BY DEF RepositoriesInv, RequestFits, TokensOutliveCalls
<1> QED
  BY <1>1, RepositoriesInvariant, PTL

-----------------------------------------------------------------------------
(* Repositories: the types                                                 *)

Descends == {ss \in Nat \X Nat : ss[1] < ss[2]}

LEMMA DescentEnds == IsWellFoundedOn(Descends, Nat)
  BY NatLessThanWellFounded DEF OpToRel, Descends

\* Some rows of a table, if there are any, have a newest one.
LEMMA NewestExists ==
    ASSUME NEW n \in Nat, NEW found, found \subseteq 1..n, found # {}
    PROVE  Max(found) \in found
<1> DEFINE ages == {n - i : i \in found}
<1>1. ages \subseteq Nat /\ ages # {}
  <2>1. \A i \in found : n - i \in Nat
    OBVIOUS
  <2> QED
    BY <2>1
<1>2. PICK x \in ages : \A y \in ages : ~(<<y, x>> \in Descends)
  BY <1>1, DescentEnds, WFMin
<1>3. PICK m \in found : x = n - m
  BY <1>2
<1>4. ASSUME NEW j \in found PROVE m >= j
  <2>1. n - j \in ages /\ n - j \in Nat /\ n - m \in Nat
    BY <1>1
  <2>2. ~(n - j < n - m)
    BY <1>2, <1>3, <2>1 DEF Descends
  <2>3. n \in Int /\ j \in Int /\ m \in Int
    OBVIOUS
  <2> QED
    BY <2>2, <2>3
<1> QED
  BY <1>4 DEF Max

InstallationRows == [org : RepoOrgs, gh : GitHubIds]
ConnectedRows    == [org : RepoOrgs, gh : GitHubIds \cup {NoInstall}, name : RepoNames]
RequestRows      == [at   : {"idle", "forget", "find", "insert installation", "mint", "call",
                             "insert key", "fetch key"},
                     org  : RepoOrgs \cup {NoRepoOrg}, gh : GitHubIds \cup {NoInstall},
                     key  : 0..MaxKeys, life : Lives, waited : BOOLEAN]

\* The types, and: a request that installs the App knows for whom, and which.
RepositoriesTyped ==
    /\ RepositoriesTypeOK
    /\ \A c \in RepoCallers :
           repoCaller[c].at \in {"forget", "find", "insert installation"} =>
               repoCaller[c].org \in RepoOrgs /\ repoCaller[c].gh \in GitHubIds

LEMMA RepositoriesRecords ==
    ASSUME RepositoriesTyped
    PROVE  /\ installed \in Seq(InstallationRows) /\ connected \in Seq(ConnectedRows)
           /\ deployKey \in [RepoOrgs -> 0..MaxKeys] /\ keysMade \in 0..MaxKeys /\ MaxKeys \in Nat
           /\ installState \in RepoOrgs \cup {NoRepoOrg}
           /\ tokens \in [GitHubIds -> Lives \cup {"none"}]
           /\ repoCaller \in [RepoCallers -> RequestRows]
           /\ \A c \in RepoCallers : repoCaller[c] \in RequestRows
           /\ shown \in [RepoOrgs -> SUBSET (1..MaxKeys)]
<1>1. MaxKeys \in Nat
  BY RepositoriesAssumption DEF RepositoriesAssumption
<1>2. RepositoriesTypeOK
  BY DEF RepositoriesTyped
<1> QED
  BY <1>1, <1>2 DEF RepositoriesTypeOK, InstallationRows, ConnectedRows, RequestRows

\* One request moves on to a record that fits it.
LEMMA RequestStepTyped ==
    ASSUME RepositoriesTyped, NEW c, NEW r \in RequestRows, Move(c, r),
           r.at \in {"forget", "find", "insert installation"} => r.org \in RepoOrgs /\ r.gh \in GitHubIds
    PROVE  /\ repoCaller' \in [RepoCallers -> RequestRows]
           /\ \A d \in RepoCallers :
                  repoCaller'[d].at \in {"forget", "find", "insert installation"} =>
                      repoCaller'[d].org \in RepoOrgs /\ repoCaller'[d].gh \in GitHubIds
<1>1. /\ repoCaller' \in [RepoCallers -> RequestRows]
      /\ \A d \in RepoCallers : repoCaller'[d] = IF d = c THEN r ELSE repoCaller[d]
  BY RepositoriesRecords DEF Move
<1> QED
  BY <1>1 DEF RepositoriesTyped

\* A request goes on, or is over, and no row changes.
LEMMA RequestOnlyTyped ==
    ASSUME RepositoriesTyped, NEW c, NEW r \in RequestRows, Move(c, r),
           r.at \in {"forget", "find", "insert installation"} => r.org \in RepoOrgs /\ r.gh \in GitHubIds,
           installState' \in RepoOrgs \cup {NoRepoOrg},
           tokens' \in [GitHubIds -> Lives \cup {"none"}],
           UNCHANGED <<installed, connected, deployKey, keysMade, shown>>
    PROVE  RepositoriesTyped'
  BY RequestStepTyped DEF RepositoriesTyped, RepositoriesTypeOK, RequestRows

LEMMA OffDutyTyped == OffDuty \in RequestRows /\ OffDuty.at = "idle"
  BY RepositoriesAssumption DEF RepositoriesAssumption, OffDuty, RequestRows, Lives

\* What the store is asked for is of a row, or nothing.
LEMMA StoreAnswers ==
    ASSUME RepositoriesTyped
    PROVE  /\ \A org : LatestInstallation(org) \in GitHubIds \cup {NoInstall}
           /\ \A name : ResolveInstallationIDForRepo(name) \in GitHubIds \cup {NoInstall}
<1>1. /\ \A i \in DOMAIN installed : installed[i] \in InstallationRows
      /\ \A i \in DOMAIN connected : connected[i] \in ConnectedRows
      /\ DOMAIN installed = 1..Len(installed) /\ Len(installed) \in Nat
      /\ DOMAIN connected = 1..Len(connected) /\ Len(connected) \in Nat
  BY RepositoriesRecords, LenProperties, ElementOfSeq
<1>2. ASSUME NEW org PROVE LatestInstallation(org) \in GitHubIds \cup {NoInstall}
  <2> DEFINE mine == {i \in DOMAIN installed : installed[i].org = org}
  <2>1. mine # {} => Max(mine) \in DOMAIN installed
    BY <1>1, NewestExists
  <2> QED
    BY <1>1, <2>1 DEF LatestInstallation, Newest, InstallationRows
<1>3. ASSUME NEW name PROVE ResolveInstallationIDForRepo(name) \in GitHubIds \cup {NoInstall}
  <2> DEFINE named == {i \in DOMAIN connected : connected[i].name = name /\ connected[i].gh # NoInstall}
  <2>1. named # {} => Max(named) \in DOMAIN connected
    BY <1>1, NewestExists
  <2> QED
    BY <1>1, <2>1 DEF ResolveInstallationIDForRepo, Newest, ConnectedRows
<1> QED
  BY <1>2, <1>3

LEMMA InstallingTyped ==
    ASSUME RepositoriesTyped, NEW c \in RepoCallers,
           \/ \E o \in RepoOrgs, g \in GitHubIds, sent \in BOOLEAN : InstallCallback(c, o, g, sent)
           \/ \E g \in GitHubIds : GitHubSetup(c, g)
           \/ ForgetState(c) \/ UpsertInstallation(c) \/ InsertInstallation(c)
    PROVE  RepositoriesTyped'
<1>1. PICK old : old = repoCaller[c]
  OBVIOUS
<1>2. old \in RequestRows
  BY <1>1, RepositoriesRecords
<1>3. old.at \in {"forget", "find", "insert installation"} => old.org \in RepoOrgs /\ old.gh \in GitHubIds
  BY <1>1 DEF RepositoriesTyped
<1>4. UNCHANGED <<connected, deployKey, keysMade, tokens, shown>>
  BY DEF InstallCallback, GitHubSetup, ForgetState, UpsertInstallation, InsertInstallation
<1>5. ASSUME NEW o \in RepoOrgs, NEW g \in GitHubIds, NEW sent \in BOOLEAN, InstallCallback(c, o, g, sent)
      PROVE  RepositoriesTyped'
  <2>1. installState' \in RepoOrgs \cup {NoRepoOrg} /\ UNCHANGED installed
    BY <1>5, RepositoriesRecords DEF InstallCallback
  <2>2. CASE UNCHANGED repoCaller
    BY <1>4, <2>1, <2>2 DEF RepositoriesTyped, RepositoriesTypeOK
  <2>3. CASE Move(c, [OffDuty EXCEPT !.at = "find", !.org = o, !.gh = g])
    <3> DEFINE r == [OffDuty EXCEPT !.at = "find", !.org = o, !.gh = g]
    <3>1. r \in RequestRows /\ r.org = o /\ r.gh = g
      BY OffDutyTyped DEF OffDuty, RequestRows
    <3> HIDE DEF r
    <3> QED
      BY <1>4, <2>1, <2>3, <3>1, RequestOnlyTyped, RepositoriesRecords DEF r
  <2> QED
    BY <1>5, <2>2, <2>3 DEF InstallCallback
<1>6. ASSUME NEW g \in GitHubIds, GitHubSetup(c, g)
      PROVE  RepositoriesTyped'
  <2> DEFINE r == [OffDuty EXCEPT !.at = "forget", !.org = installState, !.gh = g]
  <2>1. installState \in RepoOrgs /\ UNCHANGED <<installed, installState>> /\ Move(c, r)
    BY <1>6, RepositoriesRecords DEF GitHubSetup
  <2>2. r \in RequestRows /\ r.org = installState /\ r.gh = g
    BY <2>1, OffDutyTyped DEF OffDuty, RequestRows
  <2> HIDE DEF r
  <2> QED
    BY <1>4, <2>1, <2>2, RequestOnlyTyped, RepositoriesRecords
<1>7. CASE ForgetState(c)
  <2> DEFINE r == [old EXCEPT !.at = "find"]
  <2>1. /\ Move(c, r) /\ UNCHANGED installed /\ installState' \in RepoOrgs \cup {NoRepoOrg}
        /\ old.at = "forget"
    BY <1>1, <1>7 DEF ForgetState
  <2>2. r \in RequestRows /\ r.org = old.org /\ r.gh = old.gh
    BY <1>2 DEF RequestRows
  <2> HIDE DEF r
  <2> QED
    BY <1>3, <1>4, <2>1, <2>2, RequestOnlyTyped, RepositoriesRecords
<1>8. CASE UpsertInstallation(c)
  <2>1. UNCHANGED <<installed, installState>> /\ old.at = "find"
    BY <1>1, <1>8 DEF UpsertInstallation
  <2>2. CASE Move(c, OffDuty)
    BY <1>4, <2>1, <2>2, RequestOnlyTyped, RepositoriesRecords, OffDutyTyped
  <2>3. CASE Move(c, [old EXCEPT !.at = "insert installation"])
    <3> DEFINE r == [old EXCEPT !.at = "insert installation"]
    <3>1. r \in RequestRows /\ r.org = old.org /\ r.gh = old.gh
      BY <1>2 DEF RequestRows
    <3> HIDE DEF r
    <3> QED
      BY <1>3, <1>4, <2>1, <2>3, <3>1, RequestOnlyTyped, RepositoriesRecords DEF r
  <2> QED
    BY <1>1, <1>8, <2>2, <2>3 DEF UpsertInstallation, Retire
<1>9. CASE InsertInstallation(c)
  <2>1. Move(c, OffDuty) /\ UNCHANGED installState
    BY <1>9 DEF InsertInstallation, Retire
  <2>2. PICK new : new = [org |-> old.org, gh |-> old.gh]
    OBVIOUS
  <2>3. new \in InstallationRows /\ (installed' = installed \/ installed' = Append(installed, new))
    BY <1>1, <1>3, <1>9, <2>2 DEF InsertInstallation, CreateInstallation, InstallationRows
  <2>4. installed' \in Seq(InstallationRows)
    <3>1. installed \in Seq(InstallationRows)
      BY RepositoriesRecords
    <3> QED
      BY <2>3, <3>1, AppendProperties
  <2>5. /\ repoCaller' \in [RepoCallers -> RequestRows]
        /\ \A d \in RepoCallers :
               repoCaller'[d].at \in {"forget", "find", "insert installation"} =>
                   repoCaller'[d].org \in RepoOrgs /\ repoCaller'[d].gh \in GitHubIds
    BY <2>1, OffDutyTyped, RequestStepTyped
  <2> QED
    BY <1>4, <2>1, <2>4, <2>5 DEF RepositoriesTyped, RepositoriesTypeOK, InstallationRows, RequestRows
<1> QED
  BY <1>5, <1>6, <1>7, <1>8, <1>9

LEMMA ConnectingTyped ==
    ASSUME RepositoriesTyped, NEW o \in RepoOrgs, NEW n \in RepoNames,
           DisconnectRepo(o, n) \/ \E g \in GitHubIds \cup {NoInstall} : ConnectRepo(o, n, g)
    PROVE  RepositoriesTyped'
<1>1. UNCHANGED <<installed, deployKey, keysMade, installState, tokens, repoCaller, shown>>
  BY DEF DisconnectRepo, ConnectRepo
<1>2. ASSUME NEW g \in GitHubIds \cup {NoInstall}, ConnectRepo(o, n, g)
      PROVE  connected' \in Seq(ConnectedRows)
  <2>1. PICK gh : gh = IF g = NoInstall THEN LatestInstallation(o) ELSE g
    OBVIOUS
  <2>2. PICK new : new = [org |-> o, gh |-> gh, name |-> n]
    OBVIOUS
  <2>3. new \in ConnectedRows
    BY <2>1, <2>2, StoreAnswers DEF ConnectedRows
  <2>4. connected' = connected \/ connected' = Append(connected, new)
    BY <1>2, <2>1, <2>2 DEF ConnectRepo, InsertRepo
  <2>5. connected \in Seq(ConnectedRows)
    BY RepositoriesRecords
  <2> QED
    BY <2>3, <2>4, <2>5, AppendProperties
<1>3. ASSUME DisconnectRepo(o, n)
      PROVE  connected' \in Seq(ConnectedRows)
  <2>1. PICK i \in DOMAIN connected : connected' = RemoveAt(connected, i)
    BY <1>3 DEF DisconnectRepo, DeleteRepo
  <2>2. /\ connected \in Seq(ConnectedRows) /\ Len(connected) \in Nat /\ i \in 1..Len(connected)
        /\ \A j \in 1..Len(connected) : connected[j] \in ConnectedRows
    BY <2>1, RepositoriesRecords, LenProperties, ElementOfSeq
  <2>3. SubSeq(connected, 1, i - 1) \in Seq(ConnectedRows)
    BY <2>2, SubSeqProperties
  <2>4. SubSeq(connected, i + 1, Len(connected)) \in Seq(ConnectedRows)
    BY <2>2, SubSeqProperties
  <2> QED
    BY <2>1, <2>3, <2>4, ConcatProperties DEF RemoveAt
<1>4. connected' \in Seq(ConnectedRows)
  BY <1>2, <1>3
<1> QED
  BY <1>1, <1>4 DEF RepositoriesTyped, RepositoriesTypeOK, ConnectedRows

LEMMA CallingTyped ==
    ASSUME RepositoriesTyped, NEW c \in RepoCallers,
           \/ \E o \in RepoOrgs : ListAvailableRepos(c, o)
           \/ \E n \in RepoNames : InternalCommitStatus(c, n)
           \/ MintToken(c) \/ CallGitHub(c)
    PROVE  RepositoriesTyped'
<1>1. PICK old : old = repoCaller[c]
  OBVIOUS
<1>2. old \in RequestRows
  BY <1>1, RepositoriesRecords
<1>3. UNCHANGED <<installed, connected, deployKey, keysMade, shown, installState>>
  BY DEF ListAvailableRepos, InternalCommitStatus, MintToken, CallGitHub
<1>4. ASSUME NEW g \in GitHubIds, TakeToken(c, g), UNCHANGED tokens
      PROVE  RepositoriesTyped'
  <2>1. ASSUME NEW r \in RequestRows, r.at \in {"call", "mint"}, Move(c, r)
        PROVE  RepositoriesTyped'
    BY <1>3, <1>4, <2>1, RequestOnlyTyped, RepositoriesRecords
  <2>2. CASE CachedToken(g) # "none"
    <3> DEFINE r == [OffDuty EXCEPT !.at = "call", !.gh = g, !.life = "young"]
    <3>1. Move(c, r)
      BY <1>4, <2>2 DEF TakeToken, CachedToken
    <3>2. r \in RequestRows /\ r.at = "call"
      BY OffDutyTyped DEF OffDuty, RequestRows, Lives
    <3> HIDE DEF r
    <3> QED
      BY <2>1, <3>1, <3>2
  <2>3. CASE CachedToken(g) = "none"
    <3> DEFINE r == [OffDuty EXCEPT !.at = "mint", !.gh = g]
    <3>1. Move(c, r)
      BY <1>4, <2>3 DEF TakeToken
    <3>2. r \in RequestRows /\ r.at = "mint"
      BY OffDutyTyped DEF OffDuty, RequestRows
    <3> HIDE DEF r
    <3> QED
      BY <2>1, <3>1, <3>2
  <2> QED
    BY <2>2, <2>3
<1>5. CASE MintToken(c)
  <2> DEFINE r == [old EXCEPT !.at = "call", !.life = "young"]
  <2>1. r \in RequestRows /\ r.at = "call"
    BY <1>2 DEF RequestRows, Lives
  <2>2. tokens' \in [GitHubIds -> Lives \cup {"none"}]
    BY <1>5, RepositoriesRecords DEF MintToken, Lives
  <2>3. Move(c, r) \/ Move(c, OffDuty)
    BY <1>1, <1>5 DEF MintToken, Retire
  <2> HIDE DEF r
  <2> QED
    BY <1>3, <2>1, <2>2, <2>3, RequestOnlyTyped, RepositoriesRecords, OffDutyTyped
<1>6. CASE CallGitHub(c)
  BY <1>3, <1>6, RequestOnlyTyped, RepositoriesRecords, OffDutyTyped DEF CallGitHub, Retire
<1> QED
  BY <1>4, <1>5, <1>6 DEF ListAvailableRepos, InternalCommitStatus

LEMMA TokensAgeTyped == RepositoriesTyped /\ TokensAge => RepositoriesTyped'
<1> SUFFICES ASSUME RepositoriesTyped, TokensAge PROVE RepositoriesTyped'
  OBVIOUS
<1>1. \A life \in Lives : Aged(life) \in Lives
  BY DEF Lives, Aged
<1>2. tokens' \in [GitHubIds -> Lives \cup {"none"}]
  BY <1>1, RepositoriesRecords DEF TokensAge, Aged
<1>3. ASSUME NEW c \in RepoCallers
      PROVE  /\ repoCaller'[c] \in RequestRows /\ repoCaller'[c].at = repoCaller[c].at
             /\ repoCaller'[c].org = repoCaller[c].org /\ repoCaller'[c].gh = repoCaller[c].gh
  <2>1. PICK old : old = repoCaller[c]
    OBVIOUS
  <2>2. old \in RequestRows
    BY <2>1, RepositoriesRecords
  <2>3. repoCaller'[c] \in {old, [old EXCEPT !.life = Aged(old.life), !.waited = TRUE]}
    BY <2>1, <2>2 DEF TokensAge, RequestRows
  <2> QED
    BY <1>1, <2>1, <2>2, <2>3 DEF RequestRows
<1>4. repoCaller' = [c \in RepoCallers |-> repoCaller'[c]]
  BY DEF TokensAge
<1>5. repoCaller' \in [RepoCallers -> RequestRows]
  BY <1>3, <1>4
<1> QED
  BY <1>2, <1>3, <1>5 DEF TokensAge, RepositoriesTyped, RepositoriesTypeOK, RequestRows

LEMMA DeployKeyTyped ==
    ASSUME RepositoriesInv, RepositoriesTyped, DeployKeyNext
    PROVE  RepositoriesTyped'
<1>1. UNCHANGED <<installed, connected, installState, tokens>>
  BY DEF DeployKeyNext, RotateDeployKey, GetDeployKey, InsertKey, FetchKey
<1>2. ASSUME NEW o \in RepoOrgs, RotateDeployKey(o)
      PROVE  RepositoriesTyped'
  <2>1. PICK k : k = keysMade + 1
    OBVIOUS
  <2>2. k \in 1..MaxKeys /\ keysMade' = k
    BY <1>2, <2>1, RepositoriesRecords DEF RotateDeployKey
  <2>3. deployKey' \in [RepoOrgs -> 0..MaxKeys] /\ shown' \in [RepoOrgs -> SUBSET (1..MaxKeys)]
        /\ keysMade' \in 0..MaxKeys
    <3>1. deployKey' = [deployKey EXCEPT ![o] = k] /\ shown' = [shown EXCEPT ![o] = {k}]
      BY <1>2, <2>1 DEF RotateDeployKey
    <3> QED
      BY <2>2, <3>1, RepositoriesRecords
  <2> QED
    BY <1>1, <1>2, <2>3 DEF RotateDeployKey, RepositoriesTyped, RepositoriesTypeOK
<1>3. ASSUME NEW c \in RepoCallers, NEW o \in RepoOrgs, GetDeployKey(c, o)
      PROVE  RepositoriesTyped'
  <2>1. CASE deployKey[o] # 0
    <3>1. deployKey[o] \in 1..MaxKeys
      BY <2>1, RepositoriesRecords
    <3>2. shown' \in [RepoOrgs -> SUBSET (1..MaxKeys)]
      BY <1>3, <2>1, <3>1, RepositoriesRecords DEF GetDeployKey, Show
    <3> QED
      BY <1>1, <1>3, <2>1, <3>2 DEF GetDeployKey, RepositoriesTyped, RepositoriesTypeOK
  <2>2. CASE deployKey[o] = 0
    <3>1. PICK k : k = keysMade + 1
      OBVIOUS
    <3> DEFINE r == [OffDuty EXCEPT !.at = "insert key", !.org = o, !.key = k]
    <3>2. k \in 0..MaxKeys /\ keysMade' = k /\ Move(c, r) /\ UNCHANGED <<deployKey, shown>>
      BY <1>3, <2>2, <3>1, RepositoriesRecords DEF GetDeployKey
    <3>3. r \in RequestRows /\ r.at = "insert key"
      BY <3>2, OffDutyTyped DEF OffDuty, RequestRows
    <3> HIDE DEF r
    <3>4. /\ repoCaller' \in [RepoCallers -> RequestRows]
          /\ \A d \in RepoCallers :
                 repoCaller'[d].at \in {"forget", "find", "insert installation"} =>
                     repoCaller'[d].org \in RepoOrgs /\ repoCaller'[d].gh \in GitHubIds
      BY <3>2, <3>3, RequestStepTyped
    <3> QED
      BY <1>1, <3>2, <3>4 DEF RepositoriesTyped, RepositoriesTypeOK, RequestRows
  <2> QED
    BY <2>1, <2>2
<1>4. ASSUME NEW c \in RepoCallers, InsertKey(c)
      PROVE  RepositoriesTyped'
  <2>1. PICK old : old = repoCaller[c]
    OBVIOUS
  <2>2. old \in RequestRows
    BY <2>1, RepositoriesRecords
  <2> DEFINE r == [old EXCEPT !.at = "fetch key"]
  <2>3. Move(c, r) /\ UNCHANGED <<keysMade, shown>>
    BY <1>4, <2>1 DEF InsertKey
  <2>4. r \in RequestRows /\ r.at = "fetch key"
    BY <2>2 DEF RequestRows
  <2> HIDE DEF r
  <2>5. deployKey' \in [RepoOrgs -> 0..MaxKeys]
    <3>1. old.key \in 0..MaxKeys
      BY <2>2 DEF RequestRows
    <3>2. deployKey' = [deployKey EXCEPT ![old.org] = IF @ = 0 THEN old.key ELSE @]
      BY <1>4, <2>1 DEF InsertKey
    <3> QED
      BY <3>1, <3>2, RepositoriesRecords
  <2>6. /\ repoCaller' \in [RepoCallers -> RequestRows]
        /\ \A d \in RepoCallers :
               repoCaller'[d].at \in {"forget", "find", "insert installation"} =>
                   repoCaller'[d].org \in RepoOrgs /\ repoCaller'[d].gh \in GitHubIds
    BY <2>3, <2>4, RequestStepTyped
  <2> QED
    BY <1>1, <2>3, <2>5, <2>6 DEF RepositoriesTyped, RepositoriesTypeOK, RequestRows
<1>5. ASSUME NEW c \in RepoCallers, FetchKey(c)
      PROVE  RepositoriesTyped'
  <2>1. PICK o : o = repoCaller[c].org
    OBVIOUS
  <2>2. o \in RepoOrgs /\ deployKey[o] # 0
    BY <1>5, <2>1, RequestTyped DEF FetchKey, RequestFits
  <2>3. deployKey[o] \in 1..MaxKeys
    BY <2>2, RepositoriesRecords
  <2>4. shown' \in [RepoOrgs -> SUBSET (1..MaxKeys)] /\ Move(c, OffDuty) /\ UNCHANGED <<deployKey, keysMade>>
    BY <1>5, <2>1, <2>2, <2>3, RepositoriesRecords DEF FetchKey, Show, Retire
  <2>5. /\ repoCaller' \in [RepoCallers -> RequestRows]
        /\ \A d \in RepoCallers :
               repoCaller'[d].at \in {"forget", "find", "insert installation"} =>
                   repoCaller'[d].org \in RepoOrgs /\ repoCaller'[d].gh \in GitHubIds
    BY <2>4, OffDutyTyped, RequestStepTyped
  <2> QED
    BY <1>1, <2>4, <2>5 DEF RepositoriesTyped, RepositoriesTypeOK, RequestRows
<1> QED
  BY <1>2, <1>3, <1>4, <1>5 DEF DeployKeyNext

\* Every variable of the repository service keeps its type: what it looks up among
\* its rows is of a row, and no request installs the App for nobody.
THEOREM RepositoriesTypesKept == RepositoriesSpec => []RepositoriesTypeOK
<1>1. RepositoriesInit => RepositoriesTyped
  <2> SUFFICES ASSUME RepositoriesInit PROVE RepositoriesTyped
    OBVIOUS
  <2>1. installed = <<>> /\ connected = <<>> /\ repoCaller = [c \in RepoCallers |-> OffDuty]
    BY DEF RepositoriesInit
  <2>2. installed \in Seq(InstallationRows) /\ connected \in Seq(ConnectedRows)
    BY <2>1, EmptySeq
  <2>3. repoCaller \in [RepoCallers -> RequestRows] /\ \A c \in RepoCallers : repoCaller[c].at = "idle"
    BY <2>1, OffDutyTyped
  <2>4. /\ deployKey \in [RepoOrgs -> 0..MaxKeys] /\ keysMade \in 0..MaxKeys
        /\ installState \in RepoOrgs \cup {NoRepoOrg} /\ tokens \in [GitHubIds -> Lives \cup {"none"}]
        /\ shown \in [RepoOrgs -> SUBSET (1..MaxKeys)]
    BY RepositoriesAssumption DEF RepositoriesAssumption, RepositoriesInit
  <2> QED
    BY <2>2, <2>3, <2>4 DEF RepositoriesTyped, RepositoriesTypeOK, InstallationRows, ConnectedRows, RequestRows
<1>2. RepositoriesInv /\ RepositoriesTyped /\ [RepositoriesNext]_repoVars => RepositoriesTyped'
  <2> SUFFICES ASSUME RepositoriesInv, RepositoriesTyped, [RepositoriesNext]_repoVars
               PROVE  RepositoriesTyped'
    OBVIOUS
  <2>1. CASE UNCHANGED repoVars
    BY <2>1 DEF repoVars, RepositoriesTyped, RepositoriesTypeOK
  <2>2. CASE StateExpires \/ \E o \in RepoOrgs : InstallStart(o)
    BY <2>2 DEF StateExpires, InstallStart, RepositoriesTyped, RepositoriesTypeOK
  <2>3. CASE GitHubNext
    BY <2>2, <2>3, TokensAgeTyped, ConnectingTyped, InstallingTyped, CallingTyped DEF GitHubNext
  <2> QED
    BY <2>1, <2>3, DeployKeyTyped DEF RepositoriesNext
<1>3. RepositoriesTyped => RepositoriesTypeOK
  BY DEF RepositoriesTyped
<1> QED
  BY <1>1, <1>2, <1>3, RepositoriesInvariant, RepositoriesInitially, RepositoriesStep, PTL DEF RepositoriesSpec

-----------------------------------------------------------------------------
(* Metering: the invariant                                                 *)

MeteringTyped ==
    /\ entryKind \in Seq(PublishedKinds) /\ Len(entryKind) <= MaxEntries
    /\ unread \in [Topics -> Seq(1..MaxEntries)]
    /\ batch \in Seq(1..MaxEntries)
    /\ handled \in BOOLEAN /\ (handled => batch # <<>>)
    /\ usage \in [1..MaxEntries -> Nat]

Ascending(q) == \A i, j \in 1..Len(q) : i < j => q[i] < q[j]

\* Entry e has been published and not metered.
Unmetered(e) == e <= Len(entryKind) /\ usage[e] = 0

\* What a topic holds unread: entries not metered, each one once.
TopicWaits(t) == /\ Ascending(unread[t])
                 /\ \A i \in 1..Len(unread[t]) : Unmetered(unread[t][i])

\* What the consumer holds: entries not metered but the one it has handled.
BatchWaits == /\ Ascending(batch)
              /\ \A i \in 1..Len(batch) : /\ batch[i] <= Len(entryKind)
                                          /\ (i > 1 \/ ~handled) => Unmetered(batch[i])

\* No entry is in two places: once read, it is never read again.
Apart ==
    /\ \A t \in Topics : \A i \in 1..Len(unread[t]), j \in 1..Len(batch) : unread[t][i] # batch[j]
    /\ \A t, u \in Topics : \A i \in 1..Len(unread[t]), j \in 1..Len(unread[u]) :
           t # u => unread[t][i] # unread[u][j]

MeteredOnce == \A e \in 1..MaxEntries : usage[e] = 0 \/ (usage[e] = 1 /\ e <= Len(entryKind))

MeteringInv ==
    /\ MeteringTyped
    /\ \A t \in Topics : TopicWaits(t)
    /\ BatchWaits
    /\ Apart
    /\ MeteredOnce

-----------------------------------------------------------------------------
(* Metering: every step keeps the invariant                                *)

LEMMA MeteringTypes ==
    ASSUME MeteringInv
    PROVE  /\ entryKind \in Seq(PublishedKinds) /\ Len(entryKind) \in Nat /\ Len(entryKind) <= MaxEntries
           /\ unread \in [Topics -> Seq(1..MaxEntries)]
           /\ batch \in Seq(1..MaxEntries) /\ Len(batch) \in Nat
           /\ \A i \in 1..Len(batch) : batch[i] \in 1..MaxEntries
           /\ \A t \in Topics : /\ unread[t] \in Seq(1..MaxEntries) /\ Len(unread[t]) \in Nat
                                /\ \A i \in 1..Len(unread[t]) : unread[t][i] \in 1..MaxEntries
           /\ usage \in [1..MaxEntries -> Nat]
           /\ MaxEntries \in Nat /\ BatchSize \in Nat
<1>1. MaxEntries \in Nat /\ BatchSize \in Nat
  BY MeteringAssumption DEF MeteringAssumption
<1>2. MeteringTyped
  BY DEF MeteringInv
<1>3. ASSUME NEW q \in Seq(1..MaxEntries)
      PROVE  Len(q) \in Nat /\ \A i \in 1..Len(q) : q[i] \in 1..MaxEntries
  BY LenProperties, ElementOfSeq
<1>4. Len(entryKind) \in Nat
  BY <1>2, LenProperties DEF MeteringTyped
<1> QED
  BY <1>1, <1>2, <1>3, <1>4 DEF MeteringTyped

LEMMA MeteringInitially == MeteringInit => MeteringInv
<1> SUFFICES ASSUME MeteringInit PROVE MeteringInv
  OBVIOUS
<1>1. /\ entryKind = <<>> /\ unread = [t \in Topics |-> <<>>] /\ batch = <<>> /\ handled = FALSE
      /\ usage = [e \in 1..MaxEntries |-> 0]
  BY DEF MeteringInit
<1>2. MaxEntries \in Nat
  BY MeteringAssumption DEF MeteringAssumption
<1>3. MeteringTyped
  <2>1. <<>> \in Seq(PublishedKinds) /\ <<>> \in Seq(1..MaxEntries) /\ Len(<<>>) = 0
    BY EmptySeq
  <2>2. unread \in [Topics -> Seq(1..MaxEntries)]
    BY <1>1, <2>1
  <2>3. usage \in [1..MaxEntries -> Nat]
    BY <1>1
  <2> QED
    <3>1. entryKind \in Seq(PublishedKinds) /\ batch \in Seq(1..MaxEntries)
      BY <1>1, <2>1
    <3>2. Len(entryKind) <= MaxEntries
      BY <1>1, <1>2, <2>1
    <3>3. handled = FALSE
      BY <1>1
    <3> QED
      BY <2>2, <2>3, <3>1, <3>2, <3>3 DEF MeteringTyped
<1> QED
  BY <1>1, <1>3 DEF MeteringInv, TopicWaits, BatchWaits, Apart, MeteredOnce, Ascending

\* Logging, metrics, plans and the requests that meter by themselves.
LEMMA MeteringFrame ==
    ASSUME MeteringInv, UNCHANGED <<entryKind, unread, batch, handled, usage>>
    PROVE  MeteringInv'
  BY DEF MeteringInv, MeteringTyped, TopicWaits, BatchWaits, Apart, MeteredOnce, Ascending, Unmetered

LEMMA OtherRecords ==
    LoggingNext \/ MetricsNext \/ IngestEvent \/ (\E p \in PlanIds : SetPlan(p)) \/ UNCHANGED meteringVars
    => UNCHANGED <<entryKind, unread, batch, handled, usage>>
  BY DEF LoggingNext, MetricsNext, SendLogs, IngestLine, AnswerLogs, ReadSummary, IngestSample,
         UpsertTarget, IngestEvent, SetPlan, meteringVars, billingVars

LEMMA PublishKeeps ==
    ASSUME MeteringInv, NEW entry \in PublishedKinds, Publish(entry[1], entry[2])
    PROVE  MeteringInv'
<1>1. PICK topic : topic = entry[1]
  OBVIOUS
<1>2. topic \in Topics /\ <<entry[1], entry[2]>> = entry
  <2>1. CASE entry = <<"jp.deploy", "ready">>
    BY <1>1, <2>1 DEF Topics
  <2>2. CASE entry = <<"jp.deploy", "other status">>
    BY <1>1, <2>2 DEF Topics
  <2>3. CASE entry = <<"jp.deploy", "build outcome">>
    BY <1>1, <2>3 DEF Topics
  <2>4. CASE entry = <<"jp.build", "build.queued">>
    BY <1>1, <2>4 DEF Topics
  <2> QED
    BY <2>1, <2>2, <2>3, <2>4 DEF PublishedKinds
<1>3. PICK new : new = Len(entryKind) + 1
  OBVIOUS
<1>4. /\ Len(entryKind) < MaxEntries
      /\ entryKind' = Append(entryKind, entry)
      /\ unread' = [unread EXCEPT ![topic] = Append(unread[topic], new)]
      /\ UNCHANGED <<batch, handled, usage>>
  BY <1>1, <1>2, <1>3, MeteringTypes DEF Publish
<1>5. new \in 1..MaxEntries /\ entryKind' \in Seq(PublishedKinds) /\ Len(entryKind') = new
      /\ new = Len(entryKind) + 1
  BY <1>3, <1>4, MeteringTypes, AppendProperties
<1>6. PICK q : q = Append(unread[topic], new)
  OBVIOUS
<1>7. /\ q \in Seq(1..MaxEntries) /\ Len(q) = Len(unread[topic]) + 1
      /\ \A i \in 1..Len(unread[topic]) : q[i] = unread[topic][i]
      /\ q[Len(q)] = new
  BY <1>2, <1>5, <1>6, MeteringTypes, AppendProperties
<1>8. /\ unread' \in [Topics -> Seq(1..MaxEntries)] /\ unread'[topic] = q
      /\ \A t \in Topics : t # topic => unread'[t] = unread[t]
  BY <1>2, <1>4, <1>6, <1>7, MeteringTypes
<1>9. /\ \A i \in 1..Len(q) : i \in 1..Len(unread[topic]) \/ i = Len(q)
      /\ Len(q) \in Nat /\ Len(unread[topic]) \in Nat
  BY <1>2, <1>7, MeteringTypes
<1>10. \A t \in Topics : \A i \in 1..Len(unread[t]) : unread[t][i] < new
  BY <1>5, MeteringTypes DEF MeteringInv, TopicWaits, Unmetered
<1>11. \A j \in 1..Len(batch) : batch[j] < new
  BY <1>5, MeteringTypes DEF MeteringInv, BatchWaits
<1>12. usage[new] = 0
  BY <1>5, MeteringTypes DEF MeteringInv, MeteredOnce
<1>13. \A e \in 1..MaxEntries : Unmetered(e) => Unmetered(e)'
  BY <1>4, <1>5, MeteringTypes DEF Unmetered
<1>14. MeteringTyped'
  BY <1>4, <1>5, <1>8 DEF MeteringInv, MeteringTyped
<1>15. ASSUME NEW t \in Topics PROVE TopicWaits(t)'
  <2>1. CASE t = topic
    <3>1. Ascending(q)
      <4> SUFFICES ASSUME NEW i \in 1..Len(q), NEW j \in 1..Len(q), i < j PROVE q[i] < q[j]
        BY DEF Ascending
      <4>1. i \in 1..Len(unread[topic])
        BY <1>9
      <4>2. CASE j \in 1..Len(unread[topic])
        BY <1>2, <1>7, <4>1, <4>2 DEF MeteringInv, TopicWaits, Ascending
      <4>3. CASE j = Len(q)
        BY <1>2, <1>7, <1>10, <4>1, <4>3
      <4> QED
        BY <1>9, <4>2, <4>3
    <3>2. ASSUME NEW i \in 1..Len(q) PROVE Unmetered(q[i])'
      <4>1. CASE i \in 1..Len(unread[topic])
        <5>1. q[i] = unread[topic][i] /\ q[i] \in 1..MaxEntries
          BY <1>2, <1>7, <4>1, MeteringTypes
        <5>2. Unmetered(q[i])
          BY <1>2, <4>1, <5>1 DEF MeteringInv, TopicWaits
        <5>3. PICK e \in 1..MaxEntries : e = q[i]
          BY <5>1
        <5>4. Unmetered(e)'
          BY <1>13, <5>2, <5>3
        <5> QED
          BY <5>3, <5>4 DEF Unmetered
      <4>2. CASE i = Len(q)
        BY <1>4, <1>5, <1>7, <1>12, <4>2 DEF Unmetered
      <4> QED
        BY <1>9, <4>1, <4>2
    <3> QED
      BY <1>8, <2>1, <3>1, <3>2 DEF TopicWaits, Ascending, Unmetered
  <2>2. CASE t # topic
    <3>1. unread'[t] = unread[t] /\ TopicWaits(t)
      BY <1>8, <2>2 DEF MeteringInv
    <3>2. usage' = usage /\ Len(entryKind) \in Nat /\ Len(entryKind') = Len(entryKind) + 1
      BY <1>4, <1>5, MeteringTypes
    <3>3. ASSUME NEW i \in 1..Len(unread[t])
          PROVE  unread[t][i] <= Len(entryKind') /\ usage'[unread[t][i]] = 0
      <4>1. unread[t][i] \in 1..MaxEntries
        BY MeteringTypes
      <4>2. unread[t][i] <= Len(entryKind) /\ usage[unread[t][i]] = 0
        BY <3>1 DEF TopicWaits, Unmetered
      <4> QED
        BY <3>2, <4>1, <4>2
    <3> QED
      BY <3>1, <3>3 DEF TopicWaits, Ascending, Unmetered
  <2> QED
    BY <2>1, <2>2
<1>16. BatchWaits'
  <2>1. \A i \in 1..Len(batch) : batch[i] <= Len(entryKind')
    BY <1>5, <1>11, MeteringTypes
  <2> QED
    BY <1>4, <2>1 DEF MeteringInv, BatchWaits, Ascending, Unmetered
<1>17. Apart'
  <2>1. ASSUME NEW t \in Topics, NEW i \in 1..Len(unread'[t])
        PROVE  (i \in 1..Len(unread[t]) /\ unread'[t][i] = unread[t][i]) \/ (t = topic /\ unread'[t][i] = new)
    BY <1>7, <1>8, <1>9
  <2>2. ASSUME NEW t \in Topics, NEW i \in 1..Len(unread'[t]), NEW j \in 1..Len(batch)
        PROVE  unread'[t][i] # batch[j]
    <3>1. batch[j] # new
      BY <1>5, <1>11, MeteringTypes
    <3>2. CASE i \in 1..Len(unread[t]) /\ unread'[t][i] = unread[t][i]
      BY <3>2 DEF MeteringInv, Apart
    <3> QED
      BY <2>1, <3>1, <3>2
  <2>3. ASSUME NEW t \in Topics, NEW u \in Topics, t # u,
               NEW i \in 1..Len(unread'[t]), NEW j \in 1..Len(unread'[u])
        PROVE  unread'[t][i] # unread'[u][j]
    <3>1. (i \in 1..Len(unread[t]) /\ unread'[t][i] = unread[t][i]) \/ (t = topic /\ unread'[t][i] = new)
      BY <2>1
    <3>2. (j \in 1..Len(unread[u]) /\ unread'[u][j] = unread[u][j]) \/ (u = topic /\ unread'[u][j] = new)
      BY <2>1
    <3>3. i \in 1..Len(unread[t]) => unread[t][i] # new
      BY <1>5, <1>10, MeteringTypes
    <3>4. j \in 1..Len(unread[u]) => unread[u][j] # new
      BY <1>5, <1>10, MeteringTypes
    <3> QED
      BY <2>3, <3>1, <3>2, <3>3, <3>4 DEF MeteringInv, Apart
  <2> QED
    <3>1. \A t \in Topics : \A i \in 1..Len(unread'[t]), j \in 1..Len(batch') : unread'[t][i] # batch'[j]
      BY <1>4, <2>2
    <3> QED
      BY <2>3, <3>1 DEF Apart
<1>18. MeteredOnce'
  BY <1>4, <1>5, MeteringTypes DEF MeteringInv, MeteredOnce
<1> QED
  BY <1>14, <1>15, <1>16, <1>17, <1>18 DEF MeteringInv

LEMMA ReadBatchKeeps ==
    ASSUME MeteringInv, NEW topic \in Topics, ReadBatch(topic)
    PROVE  MeteringInv'
<1>1. PICK q : q = unread[topic]
  OBVIOUS
<1>2. PICK n : n = IF Len(unread[topic]) < BatchSize THEN Len(unread[topic]) ELSE BatchSize
  OBVIOUS
<1>3. /\ batch = <<>> /\ n > 0
      /\ batch' = SubSeq(q, 1, n)
      /\ unread' = [unread EXCEPT ![topic] = SubSeq(q, n + 1, Len(q))]
      /\ UNCHANGED <<entryKind, handled, usage>>
  <2>1. unread' = [unread EXCEPT ![topic] = SubSeq(@, n + 1, Len(@))]
    BY <1>2 DEF ReadBatch
  <2> QED
    BY <1>1, <1>2, <2>1, MeteringTypes DEF ReadBatch
<1>4. q \in Seq(1..MaxEntries) /\ Len(q) \in Nat /\ n \in 1..Len(q) /\ \A i \in 1..Len(q) : q[i] \in 1..MaxEntries
  <2>1. q \in Seq(1..MaxEntries) /\ Len(q) \in Nat /\ BatchSize \in Nat
    BY <1>1, MeteringTypes
  <2>2. n \in 1..Len(q)
    BY <1>1, <1>2, <1>3, <2>1
  <2> QED
    BY <2>1, <2>2, ElementOfSeq
<1>5. PICK head, rest : head = SubSeq(q, 1, n) /\ rest = SubSeq(q, n + 1, Len(q))
  OBVIOUS
<1>6. /\ head \in Seq(1..MaxEntries) /\ Len(head) = n
      /\ \A i \in 1..n : head[i] = q[i]
  <2>1. 1 \in Int /\ n \in Int /\ \A i \in 1..n : q[i] \in 1..MaxEntries
    BY <1>4
  <2>2. /\ head \in Seq(1..MaxEntries) /\ Len(head) = IF 1 <= n THEN n - 1 + 1 ELSE 0
        /\ \A i \in 1..n - 1 + 1 : head[i] = q[1 + i - 1]
    BY <1>5, <2>1, SubSeqProperties
  <2> QED
    BY <1>4, <2>2
<1>7. /\ rest \in Seq(1..MaxEntries) /\ Len(rest) = Len(q) - n
      /\ \A i \in 1..Len(q) - n : rest[i] = q[n + i]
  <2>1. n + 1 \in Int /\ Len(q) \in Int /\ \A i \in n + 1..Len(q) : q[i] \in 1..MaxEntries
    BY <1>4
  <2>2. /\ rest \in Seq(1..MaxEntries)
        /\ Len(rest) = IF n + 1 <= Len(q) THEN Len(q) - (n + 1) + 1 ELSE 0
        /\ \A i \in 1..Len(q) - (n + 1) + 1 : rest[i] = q[n + 1 + i - 1]
    BY <1>5, <2>1, SubSeqProperties
  <2> QED
    BY <1>4, <2>2
<1>8. ~handled
  BY <1>3 DEF MeteringInv, MeteringTyped
<1>9. /\ unread' \in [Topics -> Seq(1..MaxEntries)] /\ unread'[topic] = rest
      /\ \A t \in Topics : t # topic => unread'[t] = unread[t]
      /\ batch' = head
  BY <1>3, <1>5, <1>7, MeteringTypes
<1>10. Ascending(q) /\ \A i \in 1..Len(q) : Unmetered(q[i])
  BY <1>1 DEF MeteringInv, TopicWaits
<1>11. Ascending(head) /\ Ascending(rest)
  <2>1. \A i \in 1..Len(head) : i \in 1..Len(q) /\ head[i] = q[i]
    BY <1>4, <1>6
  <2>2. \A i \in 1..Len(rest) : i \in Nat /\ n + i \in 1..Len(q) /\ rest[i] = q[n + i]
    BY <1>4, <1>7
  <2>3. Ascending(head)
    BY <1>10, <2>1 DEF Ascending
  <2>4. ASSUME NEW i \in 1..Len(rest), NEW j \in 1..Len(rest), i < j PROVE rest[i] < rest[j]
    <3>1. n + i < n + j
      BY <1>4, <2>2, <2>4
    <3> QED
      BY <1>10, <2>2, <3>1 DEF Ascending
  <2> QED
    BY <2>3, <2>4 DEF Ascending
<1>12. /\ \A i \in 1..Len(head) : Unmetered(head[i])
       /\ \A i \in 1..Len(rest) : Unmetered(rest[i])
  <2>1. \A i \in 1..Len(head) : i \in 1..Len(q) /\ head[i] = q[i]
    BY <1>4, <1>6
  <2>2. \A i \in 1..Len(rest) : n + i \in 1..Len(q) /\ rest[i] = q[n + i]
    BY <1>4, <1>7
  <2> QED
    BY <1>10, <2>1, <2>2
<1>13. \A i \in 1..Len(rest), j \in 1..Len(head) : rest[i] # head[j]
  <2> SUFFICES ASSUME NEW i \in 1..Len(rest), NEW j \in 1..Len(head) PROVE rest[i] # head[j]
    OBVIOUS
  <2>1. rest[i] = q[n + i] /\ head[j] = q[j] /\ n + i \in 1..Len(q) /\ j \in 1..Len(q) /\ j < n + i
    BY <1>4, <1>6, <1>7
  <2>2. q[j] < q[n + i] /\ q[j] \in Nat
    BY <1>4, <1>10, <2>1 DEF Ascending
  <2> QED
    BY <1>4, <2>1, <2>2
<1>14. MeteringTyped'
  BY <1>3, <1>6, <1>8, <1>9 DEF MeteringInv, MeteringTyped
<1>15. ASSUME NEW t \in Topics PROVE TopicWaits(t)'
  <2>1. TopicWaits(t)
    BY DEF MeteringInv
  <2>2. usage' = usage /\ entryKind' = entryKind /\ unread'[t] \in {unread[t], rest}
    BY <1>3, <1>9
  <2>3. CASE unread'[t] = unread[t]
    BY <2>1, <2>2, <2>3 DEF TopicWaits, Ascending, Unmetered
  <2>4. CASE unread'[t] = rest
    BY <1>11, <1>12, <2>2, <2>4 DEF TopicWaits, Ascending, Unmetered
  <2> QED
    BY <2>2, <2>3, <2>4
<1>16. BatchWaits'
  BY <1>3, <1>8, <1>9, <1>11, <1>12 DEF BatchWaits, Ascending, Unmetered
<1>17. Apart'
  <2>1. \A i \in 1..Len(rest) : \E k \in 1..Len(q) : rest[i] = q[k]
    <3> SUFFICES ASSUME NEW i \in 1..Len(rest) PROVE \E k \in 1..Len(q) : rest[i] = q[k]
      OBVIOUS
    <3>1. n + i \in 1..Len(q) /\ rest[i] = q[n + i]
      BY <1>4, <1>7
    <3> QED
      BY <3>1
  <2>2. \A i \in 1..Len(head) : \E k \in 1..Len(q) : head[i] = q[k]
    BY <1>4, <1>6
  <2>3. \A u \in Topics : u # topic => \A k \in 1..Len(q), j \in 1..Len(unread[u]) : q[k] # unread[u][j]
    BY <1>1 DEF MeteringInv, Apart
  <2>4. ASSUME NEW t \in Topics, NEW i \in 1..Len(unread'[t]), NEW j \in 1..Len(head)
        PROVE  unread'[t][i] # head[j]
    <3>1. CASE t = topic
      <4>1. unread'[t] = rest
        BY <1>9, <3>1
      <4> QED
        BY <1>13, <4>1
    <3>2. CASE t # topic
      <4>1. unread'[t] = unread[t]
        BY <1>9, <3>2
      <4>2. PICK k \in 1..Len(q) : head[j] = q[k]
        BY <2>2
      <4> QED
        BY <2>3, <3>2, <4>1, <4>2
    <3> QED
      BY <3>1, <3>2
  <2>5. ASSUME NEW t \in Topics, NEW u \in Topics, t # u,
               NEW i \in 1..Len(unread'[t]), NEW j \in 1..Len(unread'[u])
        PROVE  unread'[t][i] # unread'[u][j]
    <3>1. CASE t = topic
      <4>1. u # topic /\ unread'[u] = unread[u] /\ unread'[t] = rest
        BY <1>9, <2>5, <3>1
      <4> QED
        BY <2>1, <2>3, <4>1
    <3>2. CASE u = topic
      <4>1. t # topic /\ unread'[t] = unread[t] /\ unread'[u] = rest
        BY <1>9, <2>5, <3>2
      <4> QED
        BY <2>1, <2>3, <4>1
    <3>3. CASE t # topic /\ u # topic
      <4>1. unread'[t] = unread[t] /\ unread'[u] = unread[u]
        BY <1>9, <3>3
      <4> QED
        BY <2>5, <4>1 DEF MeteringInv, Apart
    <3> QED
      BY <3>1, <3>2, <3>3
  <2>6. \A t \in Topics : \A i \in 1..Len(unread'[t]), j \in 1..Len(batch') :
           unread'[t][i] # batch'[j]
    BY <1>9, <2>4
  <2> QED
    BY <2>5, <2>6 DEF Apart
<1>18. MeteredOnce'
  BY <1>3 DEF MeteringInv, MeteredOnce
<1> QED
  BY <1>14, <1>15, <1>16, <1>17, <1>18 DEF MeteringInv

LEMMA HandleEntryKeeps == MeteringInv /\ HandleEntry => MeteringInv'
<1> SUFFICES ASSUME MeteringInv, HandleEntry PROVE MeteringInv'
  OBVIOUS
<1>1. PICK e : e = batch[1]
  OBVIOUS
<1>2. /\ batch # <<>> /\ ~handled /\ handled' /\ handled' \in BOOLEAN
      /\ usage' = usage \/ usage' = [usage EXCEPT ![e] = usage[e] + 1]
      /\ UNCHANGED <<entryKind, unread, batch>>
  <2>1. Head(batch) = e
    BY <1>1, MeteringTypes DEF HandleEntry
  <2>2. Len(batch) > 0 /\ e \in 1..MaxEntries
    BY <1>1, MeteringTypes DEF HandleEntry
  <2> QED
    BY <2>1, <2>2, MeteringTypes DEF HandleEntry, InsertUsage
<1>3. Len(batch) > 0 /\ e \in 1..MaxEntries /\ Unmetered(e)
  BY <1>1, <1>2, MeteringTypes DEF MeteringInv, BatchWaits
<1>4. /\ usage' \in [1..MaxEntries -> Nat]
      /\ usage'[e] \in {0, 1}
      /\ \A f \in 1..MaxEntries : f # e => usage'[f] = usage[f]
  <2>1. usage \in [1..MaxEntries -> Nat] /\ usage[e] = 0
    BY <1>3, MeteringTypes DEF Unmetered
  <2> QED
    <3>1. CASE usage' = usage
      BY <1>3, <2>1, <3>1
    <3>2. CASE usage' = [usage EXCEPT ![e] = usage[e] + 1]
      BY <1>3, <2>1, <3>2
    <3> QED
      BY <1>2, <3>1, <3>2
<1>5. MeteringTyped'
  BY <1>2, <1>4 DEF MeteringInv, MeteringTyped
<1>6. ASSUME NEW t \in Topics PROVE TopicWaits(t)'
  <2>1. TopicWaits(t)
    BY DEF MeteringInv
  <2>2. \A i \in 1..Len(unread[t]) : unread[t][i] # e /\ unread[t][i] \in 1..MaxEntries
    BY <1>1, <1>3, MeteringTypes DEF MeteringInv, Apart
  <2> QED
    BY <1>2, <1>4, <2>1, <2>2 DEF TopicWaits, Ascending, Unmetered
<1>7. BatchWaits'
  <2>1. \A i \in 1..Len(batch) : i > 1 => batch[i] # e /\ batch[i] \in 1..MaxEntries
    <3> SUFFICES ASSUME NEW i \in 1..Len(batch), i > 1 PROVE batch[i] # e /\ batch[i] \in 1..MaxEntries
      OBVIOUS
    <3>1. batch[1] < batch[i] /\ batch[i] \in 1..MaxEntries
      <4>1. Ascending(batch)
        BY DEF MeteringInv, BatchWaits
      <4>2. 1 \in 1..Len(batch) /\ 1 < i
        BY <1>3, MeteringTypes
      <4> QED
        BY <4>1, <4>2, MeteringTypes DEF Ascending
    <3>2. batch[1] = e /\ e \in Nat
      BY <1>1, <1>3, MeteringTypes
    <3> QED
      BY <3>1, <3>2
  <2> QED
    BY <1>2, <1>4, <2>1 DEF MeteringInv, BatchWaits, Ascending, Unmetered
<1>8. MeteredOnce'
  BY <1>2, <1>3, <1>4 DEF MeteringInv, MeteredOnce, Unmetered
<1> QED
  BY <1>2, <1>5, <1>6, <1>7, <1>8 DEF MeteringInv, Apart

\* The consumer drops the first n entries of its batch.
Dropped(n) == /\ batch' \in Seq(1..MaxEntries) /\ Len(batch') = Len(batch) - n
              /\ \A i \in 1..Len(batch') : batch'[i] = batch[n + i]
              /\ handled' = FALSE /\ UNCHANGED <<entryKind, unread, usage>>

LEMMA BatchShrinks ==
    ASSUME MeteringInv, NEW n \in Nat, n > 0, n <= Len(batch), Dropped(n)
    PROVE  MeteringInv'
<1> USE DEF Dropped
<1>1. MeteringTyped'
  BY DEF MeteringInv, MeteringTyped
<1>2. \A i \in 1..Len(batch') : n + i \in 1..Len(batch) /\ (n + i > 1 \/ ~handled)
  BY MeteringTypes
<1>3. BatchWaits'
  <2>1. \A i \in 1..Len(batch') : batch'[i] <= Len(entryKind) /\ Unmetered(batch'[i])
    BY <1>2 DEF MeteringInv, BatchWaits
  <2>2. Ascending(batch')
    <3> SUFFICES ASSUME NEW i \in 1..Len(batch'), NEW j \in 1..Len(batch'), i < j
                 PROVE  batch'[i] < batch'[j]
      BY DEF Ascending
    <3>1. n + i \in 1..Len(batch) /\ n + j \in 1..Len(batch) /\ n + i < n + j
      BY <1>2, MeteringTypes
    <3> QED
      BY <3>1 DEF MeteringInv, BatchWaits, Ascending
  <2> QED
    BY <2>1, <2>2 DEF BatchWaits, Unmetered, Ascending
<1>4. Apart'
  BY <1>2 DEF MeteringInv, Apart
<1> QED
  BY <1>1, <1>3, <1>4 DEF MeteringInv, TopicWaits, MeteredOnce, Ascending, Unmetered

LEMMA AckEntryKeeps == MeteringInv /\ AckEntry => MeteringInv'
<1> SUFFICES ASSUME MeteringInv, AckEntry PROVE MeteringInv'
  OBVIOUS
<1>1. batch # <<>> /\ batch' = Tail(batch) /\ handled' = FALSE /\ UNCHANGED <<entryKind, unread, usage>>
  BY DEF AckEntry, MeteringInv, MeteringTyped
<1>2. /\ batch' \in Seq(1..MaxEntries) /\ Len(batch') = Len(batch) - 1
      /\ \A i \in 1..Len(batch') : batch'[i] = batch[i + 1]
  BY <1>1, MeteringTypes, HeadTailProperties
<1>3. Len(batch) > 0
  BY <1>1, MeteringTypes
<1>4. 1 \in Nat /\ 1 > 0 /\ 1 <= Len(batch) /\ Dropped(1)
  BY <1>1, <1>2, <1>3, MeteringTypes DEF Dropped
<1> QED
  BY <1>4, BatchShrinks

LEMMA BillingCrashKeeps == MeteringInv /\ BillingCrash => MeteringInv'
<1> SUFFICES ASSUME MeteringInv, BillingCrash PROVE MeteringInv'
  OBVIOUS
<1>1. batch # <<>> /\ batch' = <<>> /\ handled' = FALSE /\ UNCHANGED <<entryKind, unread, usage>>
  BY DEF BillingCrash
<1>2. Len(batch) \in Nat /\ Len(batch) > 0
  BY <1>1, MeteringTypes
<1>3. batch' \in Seq(1..MaxEntries) /\ Len(batch') = 0
  BY <1>1, EmptySeq
<1>4. Dropped(Len(batch))
  BY <1>1, <1>2, <1>3 DEF Dropped
<1> QED
  BY <1>2, <1>4, BatchShrinks

LEMMA MeteringStep == MeteringInv /\ [MeteringNext]_meteringVars => MeteringInv'
<1> SUFFICES ASSUME MeteringInv, [MeteringNext]_meteringVars PROVE MeteringInv'
  OBVIOUS
<1>1. CASE LoggingNext \/ MetricsNext \/ IngestEvent \/ (\E p \in PlanIds : SetPlan(p))
           \/ UNCHANGED meteringVars
  BY <1>1, OtherRecords, MeteringFrame
<1>2. CASE BillingNext /\ ~IngestEvent /\ ~(\E p \in PlanIds : SetPlan(p))
  BY <1>2, PublishKeeps, ReadBatchKeeps, HandleEntryKeeps, AckEntryKeeps, BillingCrashKeeps DEF BillingNext
<1> QED
  BY <1>1, <1>2 DEF MeteringNext

LEMMA MeteringInvariant == MeteringSpec => []MeteringInv
  BY MeteringInitially, MeteringStep, PTL DEF MeteringSpec

\* A stream entry is billed at most once, whatever crashes and failed inserts come
\* between reading, inserting and acknowledging: an entry read by the consumer is
\* in no place from which it could be read again (Run, handle, Ack).
THEOREM EntriesMeteredOnce == MeteringSpec => []MeteredAtMostOnce
<1>1. MeteringInv => MeteredAtMostOnce
  <2> SUFFICES ASSUME MeteringInv, NEW e \in DOMAIN entryKind PROVE usage[e] <= 1
    BY DEF MeteredAtMostOnce
  <2>1. e \in 1..MaxEntries
    BY MeteringTypes
  <2> QED
    BY <2>1, MeteringTypes DEF MeteringInv, MeteredOnce
<1> QED
  BY <1>1, MeteringInvariant, PTL

-----------------------------------------------------------------------------
(* Metering: the types                                                     *)

\* The bounds of what billing, logging and metrics record.
MeteringBounded ==
    /\ Len(batch) <= BatchSize
    /\ apiUsage \in 0..MaxApiUsage
    /\ plan \in PlanIds \cup {"none"}
    /\ logLines \in [LogRequests -> Nat]
    /\ ingest \in [LogRequests -> [answer : {"unsent", "none", "failed", "created"}, left : 0..MaxLines]]
    /\ samples \in 0..MaxSamples
    /\ targets \in 0..MaxTargets

LEMMA MeteringNumbers ==
    /\ MaxLines \in Nat /\ MaxApiUsage \in Nat /\ MaxSamples \in Nat /\ MaxTargets \in Nat
    /\ BatchSize \in Nat /\ "free" \in PlanIds
  BY MeteringAssumption DEF MeteringAssumption

LEMMA BillingBounded ==
    ASSUME MeteringInv, MeteringBounded, BillingNext
    PROVE  MeteringBounded'
<1> USE MeteringNumbers
<1>1. ASSUME NEW topic \in Topics, ReadBatch(topic)
      PROVE  Len(batch') <= BatchSize
  <2>1. PICK q : q = unread[topic]
    OBVIOUS
  <2>2. PICK n : n = IF Len(q) < BatchSize THEN Len(q) ELSE BatchSize
    OBVIOUS
  <2>3. n \in Nat /\ n > 0 /\ n <= BatchSize /\ n <= Len(q) /\ batch' = SubSeq(q, 1, n)
    BY <1>1, <2>1, <2>2, MeteringTypes DEF ReadBatch
  <2>4. \A i \in 1..n : q[i] \in 1..MaxEntries
    BY <2>1, <2>3, MeteringTypes
  <2>5. Len(batch') = n
    BY <2>3, <2>4, SubSeqProperties
  <2> QED
    BY <2>3, <2>5
<1>2. CASE AckEntry
  <2>1. batch # <<>> /\ batch' = Tail(batch)
    BY <1>2 DEF AckEntry, MeteringInv, MeteringTyped
  <2>2. Len(batch') = Len(batch) - 1
    BY <2>1, MeteringTypes, HeadTailProperties
  <2>3. Len(batch') <= BatchSize
    BY <2>2, MeteringTypes DEF MeteringBounded
  <2> QED
    BY <1>2, <2>3 DEF AckEntry, MeteringBounded, recordVars
<1>3. CASE BillingCrash
  BY <1>3, EmptySeq DEF BillingCrash, MeteringBounded, recordVars
<1>4. ASSUME NEW p \in PlanIds, SetPlan(p)
      PROVE  MeteringBounded'
  BY <1>4 DEF SetPlan, MeteringBounded, recordVars
<1>5. CASE IngestEvent
  BY <1>5 DEF IngestEvent, MeteringBounded, recordVars
<1>6. ASSUME NEW topic, NEW kind, Publish(topic, kind)
      PROVE  MeteringBounded'
  BY <1>6 DEF Publish, MeteringBounded, recordVars
<1>7. CASE HandleEntry
  BY <1>7 DEF HandleEntry, MeteringBounded, recordVars
<1>8. ASSUME NEW topic \in Topics, ReadBatch(topic)
      PROVE  MeteringBounded'
  BY <1>1, <1>8 DEF ReadBatch, MeteringBounded, recordVars
<1> QED
  BY <1>2, <1>3, <1>4, <1>5, <1>6, <1>7, <1>8 DEF BillingNext

LEMMA LoggingBounded ==
    ASSUME MeteringBounded, LoggingNext
    PROVE  MeteringBounded'
<1>1. PICK r \in LogRequests : SendLogs(r) \/ IngestLine(r) \/ AnswerLogs(r)
  BY DEF LoggingNext
<1>2. UNCHANGED <<batch, apiUsage, plan, samples, targets>>
  BY <1>1 DEF SendLogs, IngestLine, AnswerLogs, billingVars
<1> DEFINE Answers == [answer : {"unsent", "none", "failed", "created"}, left : 0..MaxLines]
<1>3. ingest \in [LogRequests -> Answers] /\ logLines \in [LogRequests -> Nat] /\ MaxLines \in Nat
  BY MeteringNumbers DEF MeteringBounded
<1>4. logLines' \in [LogRequests -> Nat]
  BY <1>1, <1>3 DEF SendLogs, IngestLine, AnswerLogs
<1>5. \E a \in Answers : ingest' = [ingest EXCEPT ![r] = a]
  <2>1. CASE SendLogs(r)
    <3>1. [answer |-> "none", left |-> MaxLines] \in Answers
      BY <1>3
    <3> QED
      BY <2>1, <3>1 DEF SendLogs
  <2>2. CASE AnswerLogs(r)
    <3>1. ingest' = [ingest EXCEPT ![r] = [ingest[r] EXCEPT !.answer = "created"]]
      BY <2>2 DEF AnswerLogs
    <3> QED
      BY <1>3, <3>1
  <2>3. CASE IngestLine(r)
    <3>1. CASE FailLine(r)
      <4>1. [answer |-> "failed", left |-> 0] \in Answers
        BY <1>3
      <4> QED
        BY <3>1, <4>1 DEF FailLine
    <3>2. CASE ingest' = [ingest EXCEPT ![r].left = @ - 1]
      <4>1. ingest' = [ingest EXCEPT ![r] = [ingest[r] EXCEPT !.left = ingest[r].left - 1]]
        BY <3>2
      <4>2. ingest[r].left - 1 \in 0..MaxLines
        BY <1>3, <2>3 DEF IngestLine
      <4> QED
        BY <1>3, <4>1, <4>2
    <3> QED
      BY <2>3, <3>1, <3>2 DEF IngestLine
  <2> QED
    BY <1>1, <2>1, <2>2, <2>3
<1>6. ingest' \in [LogRequests -> Answers]
  BY <1>3, <1>5
<1> QED
  BY <1>2, <1>4, <1>6 DEF MeteringBounded

LEMMA MetricsBounded ==
    ASSUME MeteringBounded, MetricsNext
    PROVE  MeteringBounded'
<1> USE MeteringNumbers
<1>1. UNCHANGED <<batch, apiUsage, plan, logLines, ingest>>
  BY DEF MetricsNext, ReadSummary, IngestSample, UpsertTarget, billingVars
<1>2. samples' \in 0..MaxSamples
  <2>1. \A n \in 0..4 : Sampled(n) => samples' \in 0..MaxSamples
    BY DEF Sampled, MeteringBounded
  <2> QED
    BY <2>1 DEF MetricsNext, ReadSummary, SeedSimulate, IngestSample, UpsertTarget, MeteringBounded
<1>3. targets' \in 0..MaxTargets
  BY DEF MetricsNext, ReadSummary, IngestSample, UpsertTarget, MeteringBounded
<1> QED
  BY <1>1, <1>2, <1>3 DEF MeteringBounded

\* Every variable of billing, logging and metrics keeps its type.
THEOREM MeteringTypesKept == MeteringSpec => []MeteringTypeOK
<1>1. MeteringInit => MeteringBounded
  <2> SUFFICES ASSUME MeteringInit PROVE MeteringBounded
    OBVIOUS
  <2>1. batch = <<>> /\ Len(<<>>) = 0
    BY EmptySeq DEF MeteringInit
  <2> QED
    BY <2>1, MeteringNumbers DEF MeteringInit, MeteringBounded
<1>2. MeteringInv /\ MeteringBounded /\ [MeteringNext]_meteringVars => MeteringBounded'
  <2>1. MeteringBounded /\ UNCHANGED meteringVars => MeteringBounded'
    BY DEF MeteringBounded, meteringVars
  <2> QED
    BY <2>1, BillingBounded, LoggingBounded, MetricsBounded DEF MeteringNext
<1>3. MeteringInv /\ MeteringBounded => MeteringTypeOK
  BY MeteringNumbers DEF MeteringInv, MeteringTyped, MeteringBounded, MeteringTypeOK, GetPlan
<1> QED
  BY <1>1, <1>2, <1>3, MeteringInvariant, MeteringInitially, MeteringStep, PTL DEF MeteringSpec

-----------------------------------------------------------------------------
(* Images: the invariant                                                   *)

ImageRecords   == [project : ImageProjects \cup {"none"}, tag : ImageTags \cup {"none"}, at : Nat]
CleanupRecords == [at : {"idle", "protect", "scan", "delete"}, cutoff : Nat,
                   keep : SUBSET ((ImageProjects \cup {"none"}) \X (ImageTags \cup {"none"})),
                   ids : SUBSET ImageIds]

ImagesTyped ==
    /\ images \in [ImageIds -> ImageRecords]
    /\ imageCount \in Nat /\ imageClock \in Nat
    /\ \A i \in ImageIds : i > imageCount => images[i] = Unregistered
    /\ cleaner \in [Cleaners -> CleanupRecords]

\* A row that is not the newest of its project.
Outdated(i) == \E j \in Rows : j > i /\ images[j].project = images[i].project

\* A clean-up that has looked at the newest rows deletes outdated rows only: what
\* it does not keep and is old enough is outdated, and stays so, because no
\* clean-up deletes a newest row.
CleanupFits(k) ==
    /\ k.cutoff <= imageClock
    /\ k.at = "scan" =>
           \A i \in Rows : images[i].at < k.cutoff /\ RefOf(i) \notin k.keep => Outdated(i)
    /\ k.at # "delete" => k.ids = {}
    /\ \A i \in k.ids : i <= imageCount /\ (i \in Rows => Outdated(i))

ImagesInv == ImagesTyped /\ \A c \in Cleaners : CleanupFits(cleaner[c])

-----------------------------------------------------------------------------
(* Images: every step keeps the invariant                                  *)

LEMMA NoCleanupRecord ==
    /\ NoCleanup \in CleanupRecords /\ NoCleanup.at = "idle" /\ NoCleanup.cutoff = 0 /\ NoCleanup.ids = {}
  BY DEF NoCleanup, CleanupRecords

LEMMA ImagesTypes ==
    ASSUME ImagesInv
    PROVE  /\ images \in [ImageIds -> ImageRecords]
           /\ imageCount \in Nat /\ imageClock \in Nat /\ MaxImages \in Nat
           /\ \A i \in ImageIds : i > imageCount => images[i] = Unregistered
           /\ \A i \in ImageIds : i \in Nat /\ images[i].at \in Nat
           /\ cleaner \in [Cleaners -> CleanupRecords]
           /\ \A i \in Rows : i \in ImageIds /\ i <= imageCount
<1>1. MaxImages \in Nat /\ \A i \in ImageIds : i \in Nat
  BY ImagesAssumption DEF ImagesAssumption, ImageIds
<1> QED
  BY <1>1 DEF ImagesInv, ImagesTyped, ImageRecords, Rows

LEMMA ImagesInitially == ImagesInit => ImagesInv
<1> SUFFICES ASSUME ImagesInit PROVE ImagesInv
  OBVIOUS
<1>1. Unregistered \in ImageRecords
  BY DEF Unregistered, ImageRecords
<1>2. ImagesTyped
  BY <1>1, NoCleanupRecord DEF ImagesInit, ImagesTyped
<1>3. CleanupFits(NoCleanup)
  BY NoCleanupRecord DEF ImagesInit, CleanupFits
<1> QED
  BY <1>2, <1>3 DEF ImagesInv, ImagesInit

\* One clean-up moves on; no row changes.
LEMMA CleanupMoves ==
    ASSUME ImagesInv, UNCHANGED <<images, imageCount, imageClock>>,
           NEW c, NEW k \in CleanupRecords, CleanupFits(k),
           cleaner' = [cleaner EXCEPT ![c] = k]
    PROVE  ImagesInv'
<1>1. /\ cleaner' \in [Cleaners -> CleanupRecords]
      /\ \A d \in Cleaners : cleaner'[d] = IF d = c THEN k ELSE cleaner[d]
  BY DEF ImagesInv, ImagesTyped
<1>2. ImagesTyped'
  BY <1>1 DEF ImagesInv, ImagesTyped
<1>3. \A j : CleanupFits(j) => CleanupFits(j)'
  BY DEF CleanupFits, Outdated, Rows, RefOf
<1>4. ASSUME NEW d \in Cleaners PROVE CleanupFits(cleaner[d])'
  <2>1. PICK j : j = cleaner'[d]
    OBVIOUS
  <2>2. CleanupFits(j)
    BY <1>1, <2>1 DEF ImagesInv
  <2>3. CleanupFits(j)'
    BY <1>3, <2>2
  <2> QED
    BY <2>1, <2>3 DEF CleanupFits
<1> QED
  BY <1>2, <1>4 DEF ImagesInv

\* No clean-up moves, and no row changes.
LEMMA CleanupsStay ==
    ASSUME ImagesInv, UNCHANGED <<images, imageCount, cleaner>>,
           imageClock' \in Nat, imageClock <= imageClock'
    PROVE  ImagesInv'
<1>1. ImagesTyped'
  BY DEF ImagesInv, ImagesTyped
<1>2. ASSUME NEW d \in Cleaners PROVE CleanupFits(cleaner[d])'
  <2>1. PICK j : j = cleaner[d]
    OBVIOUS
  <2>2. CleanupFits(j) /\ j.cutoff \in Nat /\ imageClock \in Nat
    BY <2>1, ImagesTypes DEF ImagesInv, CleanupRecords
  <2>3. j.cutoff <= imageClock'
    BY <2>2 DEF CleanupFits
  <2> QED
    BY <2>1, <2>2, <2>3 DEF CleanupFits, Outdated, Rows, RefOf
<1> QED
  BY <1>1, <1>2 DEF ImagesInv

LEMMA CleanupStarts ==
    ASSUME ImagesInv, NEW c, NEW hours \in Nat,
           NEW keep \in SUBSET ((ImageProjects \cup {"none"}) \X (ImageTags \cup {"none"})),
           CleanupOrphans(c, hours, keep), UNCHANGED <<images, imageCount, imageClock>>
    PROVE  ImagesInv'
<1> DEFINE k == [NoCleanup EXCEPT !.at = "protect", !.cutoff = Cutoff(hours), !.keep = keep]
<1>1. Cutoff(hours) \in Nat /\ Cutoff(hours) <= imageClock
  BY ImagesTypes, ImagesAssumption DEF ImagesAssumption, Cutoff
<1>2. k \in CleanupRecords /\ CleanupFits(k)
  BY <1>1 DEF NoCleanup, CleanupRecords, CleanupFits
<1>3. cleaner' = [cleaner EXCEPT ![c] = k]
  BY DEF CleanupOrphans
<1> HIDE DEF k
<1> QED
  BY <1>2, <1>3, CleanupMoves

LEMMA CleanupEnds ==
    ASSUME ImagesInv, NEW c, cleaner' = [cleaner EXCEPT ![c] = NoCleanup],
           UNCHANGED <<images, imageCount, imageClock>>
    PROVE  ImagesInv'
<1>1. CleanupFits(NoCleanup)
  BY NoCleanupRecord, ImagesTypes DEF CleanupFits
<1> QED
  BY <1>1, NoCleanupRecord, CleanupMoves

LEMMA ProtectKeeps ==
    ASSUME ImagesInv, NEW c \in Cleaners, Protect(c)
    PROVE  ImagesInv'
<1>1. PICK old : old = cleaner[c]
  OBVIOUS
<1>2. old \in CleanupRecords /\ CleanupFits(old) /\ old.at = "protect"
  BY <1>1, ImagesTypes DEF ImagesInv, Protect
<1> DEFINE k == [old EXCEPT !.at = "scan", !.keep = old.keep \cup LatestRefs]
<1>3. cleaner' = [cleaner EXCEPT ![c] = k] /\ UNCHANGED <<images, imageCount, imageClock>>
  BY <1>1, <1>2, ImagesTypes DEF Protect, CleanupRecords
<1>4. LatestRefs \subseteq (ImageProjects \cup {"none"}) \X (ImageTags \cup {"none"})
  BY ImagesTypes DEF LatestRefs, NewestOfProjects, RefOf, Rows, ImageRecords
<1>5. k \in CleanupRecords /\ k.at = "scan" /\ k.cutoff = old.cutoff /\ k.ids = old.ids
      /\ LatestRefs \subseteq k.keep
  BY <1>2, <1>4 DEF CleanupRecords
<1>6. \A i \in Rows : RefOf(i) \notin LatestRefs => Outdated(i)
  <2> SUFFICES ASSUME NEW i \in Rows, RefOf(i) \notin LatestRefs PROVE Outdated(i)
    OBVIOUS
  <2>1. i \notin NewestOfProjects
    BY DEF LatestRefs
  <2>2. PICK j \in Rows : images[j].project = images[i].project /\ ~(j <= i)
    BY <2>1 DEF NewestOfProjects
  <2>3. i \in Nat /\ j \in Nat
    BY ImagesTypes
  <2> QED
    BY <2>2, <2>3 DEF Outdated
<1> HIDE DEF k
<1>7. CleanupFits(k)
  BY <1>2, <1>5, <1>6 DEF CleanupFits
<1> QED
  BY <1>3, <1>5, <1>7, CleanupMoves

LEMMA ScanKeeps ==
    ASSUME ImagesInv, NEW c \in Cleaners, Scan(c)
    PROVE  ImagesInv'
<1>1. PICK old : old = cleaner[c]
  OBVIOUS
<1>2. old \in CleanupRecords /\ CleanupFits(old) /\ old.at = "scan"
  BY <1>1, ImagesTypes DEF ImagesInv, Scan
<1>3. PICK ids : ids = Orphans(old.cutoff, old.keep)
  OBVIOUS
<1> DEFINE k == [old EXCEPT !.at = "delete", !.ids = ids]
<1>4. cleaner' = [cleaner EXCEPT ![c] = k] /\ UNCHANGED <<images, imageCount, imageClock>>
  BY <1>1, <1>2, <1>3, ImagesTypes DEF Scan, CleanupRecords
<1>5. ids \subseteq ImageIds /\ \A i \in ids : i <= imageCount /\ Outdated(i)
  BY <1>2, <1>3, ImagesTypes DEF Orphans, CleanupFits, Rows
<1>6. k \in CleanupRecords /\ k.at = "delete" /\ k.cutoff = old.cutoff /\ k.ids = ids
  BY <1>2, <1>5 DEF CleanupRecords
<1> HIDE DEF k
<1>7. CleanupFits(k)
  BY <1>2, <1>5, <1>6 DEF CleanupFits
<1> QED
  BY <1>4, <1>6, <1>7, CleanupMoves

LEMMA DeleteOrphanKeeps ==
    ASSUME ImagesInv, NEW c \in Cleaners, DeleteOrphan(c)
    PROVE  ImagesInv' /\ \A i \in NewestOfProjects : images'[i] # Unregistered
<1>1. PICK old : old = cleaner[c]
  OBVIOUS
<1>2. old \in CleanupRecords /\ CleanupFits(old) /\ old.at = "delete"
  BY <1>1, ImagesTypes DEF ImagesInv, DeleteOrphan
<1>3. PICK x \in old.ids : /\ cleaner' = [cleaner EXCEPT ![c].ids = @ \ {x}]
                           /\ images' \in {images, [images EXCEPT ![x] = Unregistered]}
  BY <1>1 DEF DeleteOrphan
<1> DEFINE k == [old EXCEPT !.ids = old.ids \ {x}]
<1>4. cleaner' = [cleaner EXCEPT ![c] = k] /\ UNCHANGED <<imageCount, imageClock>>
  BY <1>1, <1>2, <1>3, ImagesTypes DEF CleanupRecords, DeleteOrphan
<1>5. k \in CleanupRecords /\ k.at = "delete" /\ k.cutoff = old.cutoff /\ k.ids \subseteq old.ids
  BY <1>2 DEF CleanupRecords
<1> HIDE DEF k
<1>6. CleanupFits(k)
  BY <1>2, <1>5 DEF CleanupFits
<1>7. CASE images' = images
  <2>1. ImagesInv'
    BY <1>4, <1>5, <1>6, <1>7, CleanupMoves
  <2> QED
    BY <1>7, <2>1 DEF NewestOfProjects, Rows
<1>8. CASE images' = [images EXCEPT ![x] = Unregistered]
  <2>1. x \in ImageIds /\ x \in Nat /\ (x \in Rows => Outdated(x))
    BY <1>2, ImagesTypes DEF CleanupRecords, CleanupFits
  <2>2. /\ images' \in [ImageIds -> ImageRecords]
        /\ images'[x] = Unregistered
        /\ \A i \in ImageIds : i # x => images'[i] = images[i]
    BY <1>8, <2>1, ImagesTypes DEF Unregistered, ImageRecords
  <2>3. /\ Rows' = Rows \ {x}
        /\ \A i \in Rows' : i \in Rows /\ i # x /\ images'[i] = images[i] /\ RefOf(i)' = RefOf(i)
    BY <2>2 DEF Rows, RefOf
  <2>4. ASSUME NEW i \in Rows', Outdated(i) PROVE Outdated(i)'
    <3>1. PICK j \in Rows : j > i /\ images[j].project = images[i].project
      BY <2>4 DEF Outdated
    <3>2. CASE j # x
      BY <2>3, <3>1, <3>2 DEF Outdated
    <3>3. CASE j = x
      <4>1. PICK l \in Rows : l > x /\ images[l].project = images[x].project
        BY <2>1, <3>3 DEF Outdated
      <4>2. l # x /\ l > i /\ images[l].project = images[i].project
        <5>1. i \in Nat /\ j \in Nat /\ l \in Nat
          BY <2>3, ImagesTypes
        <5> QED
          BY <2>1, <3>1, <3>3, <4>1, <5>1
      <4>3. l \in Rows' /\ images'[l] = images[l] /\ images'[i] = images[i]
        BY <2>3, <4>2
      <4> QED
        BY <4>2, <4>3 DEF Outdated
    <3> QED
      BY <3>2, <3>3
  <2>5. ASSUME NEW j \in CleanupRecords, CleanupFits(j) PROVE CleanupFits(j)'
    <3>1. j.cutoff <= imageClock' /\ (j.at # "delete" => j.ids = {})
      BY <1>4, <2>5 DEF CleanupFits
    <3>2. \A i \in j.ids : i <= imageCount' /\ (i \in Rows' => Outdated(i)')
      BY <1>4, <2>3, <2>4, <2>5 DEF CleanupFits
    <3>3. j.at = "scan" =>
            \A i \in Rows' : images'[i].at < j.cutoff /\ RefOf(i)' \notin j.keep => Outdated(i)'
      BY <2>3, <2>4, <2>5 DEF CleanupFits
    <3> QED
      BY <3>1, <3>2, <3>3 DEF CleanupFits
  <2>6. /\ cleaner' \in [Cleaners -> CleanupRecords]
        /\ \A d \in Cleaners : cleaner'[d] = IF d = c THEN k ELSE cleaner[d]
    BY <1>4, <1>5, ImagesTypes
  <2>7. ASSUME NEW d \in Cleaners PROVE CleanupFits(cleaner[d])'
    <3>1. PICK j : j = cleaner'[d]
      OBVIOUS
    <3>2. j \in CleanupRecords /\ CleanupFits(j)
      BY <1>5, <1>6, <2>6, <3>1, ImagesTypes DEF ImagesInv
    <3>3. CleanupFits(j)'
      BY <2>5, <3>2
    <3> QED
      BY <3>1, <3>3 DEF CleanupFits
  <2>8. ImagesTyped'
    BY <1>4, <2>2, <2>6 DEF ImagesInv, ImagesTyped
  <2>9. ASSUME NEW i \in NewestOfProjects PROVE images'[i] # Unregistered
    <3>1. i \in Rows /\ \A j \in Rows : images[j].project = images[i].project => j <= i
      BY DEF NewestOfProjects
    <3>2. i # x
      <4> SUFFICES ASSUME i = x PROVE FALSE
        OBVIOUS
      <4>1. PICK j \in Rows : j > i /\ images[j].project = images[i].project
        BY <2>1, <3>1 DEF Outdated
      <4>2. j <= i /\ i \in Nat /\ j \in Nat
        BY <3>1, <4>1, ImagesTypes
      <4> QED
        BY <4>1, <4>2
    <3> QED
      BY <2>2, <3>1, <3>2 DEF Rows
  <2> QED
    BY <2>7, <2>8, <2>9 DEF ImagesInv
<1> QED
  BY <1>3, <1>7, <1>8

LEMMA InternalCreateKeeps ==
    ASSUME ImagesInv, NEW p \in ImageProjects, NEW tag \in ImageTags, InternalCreate(p, tag)
    PROVE  ImagesInv' /\ \A i \in NewestOfProjects : images'[i] # Unregistered
<1>1. PICK new : new = imageCount + 1
  OBVIOUS
<1>2. PICK row : row = [project |-> p, tag |-> tag, at |-> imageClock]
  OBVIOUS
<1>3. /\ imageCount < MaxImages /\ imageCount' = new /\ new = imageCount + 1
      /\ images' = [images EXCEPT ![new] = row]
      /\ UNCHANGED <<imageClock, cleaner>>
  BY <1>1, <1>2 DEF InternalCreate, InsertImage
<1>4. new \in ImageIds /\ new \in Nat /\ new > imageCount /\ images[new] = Unregistered /\ new \notin Rows
  BY <1>3, ImagesTypes DEF ImageIds, Rows
<1>5. row \in ImageRecords /\ row.at = imageClock
  BY <1>2, ImagesTypes DEF ImageRecords
<1>6. /\ images' \in [ImageIds -> ImageRecords]
      /\ images'[new] = row
      /\ \A i \in ImageIds : i # new => images'[i] = images[i]
  BY <1>3, <1>4, <1>5, ImagesTypes
<1>7. \A i \in Rows : i \in Rows' /\ i # new /\ images'[i] = images[i] /\ RefOf(i)' = RefOf(i)
  BY <1>4, <1>6 DEF Rows, RefOf
<1>8. \A i \in Rows' : i \in Rows \/ i = new
  BY <1>6 DEF Rows
<1>9. \A i \in Rows : Outdated(i) => Outdated(i)'
  BY <1>7 DEF Outdated
<1>10. ASSUME NEW j \in CleanupRecords, CleanupFits(j) PROVE CleanupFits(j)'
  <2>1. j.cutoff <= imageClock' /\ (j.at # "delete" => j.ids = {}) /\ j.cutoff \in Nat /\ imageClock \in Nat
    BY <1>3, <1>10, ImagesTypes DEF CleanupFits, CleanupRecords
  <2>2. ~(row.at < j.cutoff)
    BY <1>3, <1>5, <2>1
  <2>3. j.at = "scan" =>
          \A i \in Rows' : images'[i].at < j.cutoff /\ RefOf(i)' \notin j.keep => Outdated(i)'
    BY <1>6, <1>7, <1>8, <1>9, <1>10, <2>2 DEF CleanupFits
  <2>4. ASSUME NEW i \in j.ids PROVE i <= imageCount' /\ (i \in Rows' => Outdated(i)')
    <3>1. i <= imageCount /\ (i \in Rows => Outdated(i)) /\ i \in Nat /\ imageCount \in Nat
      BY <1>10, ImagesTypes DEF CleanupFits, CleanupRecords
    <3>2. i # new /\ i <= imageCount'
      BY <1>3, <3>1
    <3> QED
      BY <1>8, <1>9, <3>1, <3>2
  <2> QED
    BY <2>1, <2>3, <2>4 DEF CleanupFits
<1>11. ASSUME NEW d \in Cleaners PROVE CleanupFits(cleaner[d])'
  <2>1. PICK j : j = cleaner[d]
    OBVIOUS
  <2>2. j \in CleanupRecords /\ CleanupFits(j)
    BY <2>1, ImagesTypes DEF ImagesInv
  <2>3. CleanupFits(j)'
    BY <1>10, <2>2
  <2> QED
    BY <1>3, <2>1, <2>3 DEF CleanupFits
<1>12. ImagesTyped'
  BY <1>3, <1>6, ImagesTypes DEF ImagesInv, ImagesTyped
<1> QED
  BY <1>7, <1>11, <1>12 DEF ImagesInv, NewestOfProjects, Rows

LEMMA ImagesStep ==
    ASSUME ImagesInv, [ImagesNext]_imageVars
    PROVE  ImagesInv' /\ \A i \in NewestOfProjects : images'[i] # Unregistered
<1>1. CASE UNCHANGED <<images, imageCount, imageClock, cleaner>>
  BY <1>1, CleanupsStay, ImagesTypes DEF NewestOfProjects, Rows
<1>2. CASE ImageTick
  BY <1>2, CleanupsStay, ImagesTypes DEF ImageTick, NewestOfProjects, Rows
<1>3. CASE RunOrphanImageCleanup
  <2>1. DefaultHours \in Nat /\ CleanupOrphans("scheduler", DefaultHours, {})
        /\ UNCHANGED <<images, imageCount, imageClock>>
    BY <1>3, ImagesAssumption DEF ImagesAssumption, RunOrphanImageCleanup
  <2> QED
    BY <2>1, CleanupStarts DEF NewestOfProjects, Rows
<1>4. ASSUME NEW c \in Cleaners, NEW h \in Hours, NEW keep \in {{}, ImageProjects \X ImageTags},
             OperatorCleans(c, h, keep)
      PROVE  ImagesInv' /\ images' = images
  <2>1. h \in Nat /\ CleanupOrphans(c, h, keep) /\ UNCHANGED <<images, imageCount, imageClock>>
    BY <1>4, ImagesAssumption DEF ImagesAssumption, OperatorCleans
  <2>2. keep \in SUBSET ((ImageProjects \cup {"none"}) \X (ImageTags \cup {"none"}))
    OBVIOUS
  <2> QED
    BY <2>1, <2>2, CleanupStarts
<1>5. ASSUME NEW c, cleaner' = [cleaner EXCEPT ![c] = NoCleanup],
             UNCHANGED <<images, imageCount, imageClock>>
      PROVE  ImagesInv' /\ images' = images
  BY <1>5, CleanupEnds
<1>6. images' = images => \A i \in NewestOfProjects : images'[i] # Unregistered
  BY DEF NewestOfProjects, Rows
<1>7. ASSUME NEW c \in Cleaners, Protect(c) \/ Scan(c) \/ CleanupAnswers(c)
      PROVE  ImagesInv' /\ images' = images
  BY <1>5, <1>7, ProtectKeeps, ScanKeeps DEF Protect, Scan, CleanupAnswers
<1>8. CASE SchedulerCrash
  BY <1>5, <1>6, <1>8 DEF SchedulerCrash
<1>9. PublishCleanup \/ ReadCleanup \/ CleanupDone \/ UNCHANGED imageVars
      => UNCHANGED <<images, imageCount, imageClock, cleaner>>
  BY DEF PublishCleanup, ReadCleanup, CleanupDone, imageVars
<1> QED
  BY <1>1, <1>2, <1>3, <1>4, <1>6, <1>7, <1>8, <1>9, InternalCreateKeeps, DeleteOrphanKeeps DEF ImagesNext

\* However the clean-ups of the scheduler and of operators overlap with each other
\* and with builds that register images, no step deletes the newest row of a
\* project (DeleteOrphans).
THEOREM NewestImageKept == ImagesSpec => NewestImageStays
<1>1. ImagesInv /\ [ImagesNext]_imageVars => ImagesInv'
  BY ImagesStep
<1>2. ImagesInv /\ [ImagesNext]_imageVars
      => [\A i \in NewestOfProjects : images'[i] # Unregistered]_imageVars
  BY ImagesStep
<1> QED
  BY ImagesInitially, <1>1, <1>2, PTL DEF ImagesSpec, NewestImageStays

-----------------------------------------------------------------------------
(* Images: the types                                                       *)

References  == ImageProjects \X ImageTags
ImageRows   == [project : ImageProjects, tag : ImageTags, at : 0..MaxImageClock] \cup {Unregistered}
CleanupRows == [at : {"idle", "protect", "scan", "delete"}, cutoff : 0..MaxImageClock,
                keep : SUBSET References, ids : SUBSET ImageIds]

\* The part of the types that the rows and the clean-ups have.
RowsTyped ==
    /\ images \in [ImageIds -> ImageRows]
    /\ imageCount \in 0..MaxImages
    /\ imageClock \in 0..MaxImageClock
    /\ cleaner \in [Cleaners -> CleanupRows]

\* And the part that the stream of clean-up requests has.
RoundsTyped ==
    /\ cleanups \in Seq({"orphan_images", "preview"})
    /\ cleaning \in {"orphan_images", "preview", NoEntry}
    /\ rounds \in 0..MaxCleanups

LEMMA ImageNumbers ==
    MaxImages \in Nat /\ DefaultHours \in Nat /\ MaxImageClock \in Nat /\ MaxCleanups \in Nat
    /\ Hours \subseteq Nat
  BY ImagesAssumption DEF ImagesAssumption

LEMMA NoCleanupTyped == NoCleanup \in CleanupRows
  BY ImageNumbers DEF NoCleanup, CleanupRows

\* What a clean-up protects are references of rows that are there.
LEMMA RefsTyped ==
    ASSUME RowsTyped
    PROVE  LatestRefs \subseteq References
<1>1. ASSUME NEW i \in Rows PROVE RefOf(i) \in References
  BY DEF RowsTyped, Rows, RefOf, ImageRows, References
<1> QED
  BY <1>1 DEF LatestRefs, NewestOfProjects

LEMMA CleanupStartsTyped ==
    ASSUME RowsTyped, NEW c, NEW hours \in Nat, NEW keep \in SUBSET References,
           CleanupOrphans(c, hours, keep), UNCHANGED <<images, imageCount, imageClock>>
    PROVE  RowsTyped'
<1> DEFINE k == [NoCleanup EXCEPT !.at = "protect", !.cutoff = Cutoff(hours), !.keep = keep]
<1>1. Cutoff(hours) \in 0..MaxImageClock
  BY ImageNumbers DEF RowsTyped, Cutoff
<1>2. k \in CleanupRows
  BY <1>1 DEF NoCleanup, CleanupRows
<1>3. cleaner' = [cleaner EXCEPT ![c] = k]
  BY DEF CleanupOrphans
<1> HIDE DEF k
<1> QED
  BY <1>2, <1>3 DEF RowsTyped

LEMMA CleanupStepsTyped ==
    ASSUME RowsTyped, NEW c \in Cleaners,
           Protect(c) \/ Scan(c) \/ DeleteOrphan(c) \/ CleanupAnswers(c)
    PROVE  RowsTyped'
<1>1. PICK old : old = cleaner[c]
  OBVIOUS
<1>2. old \in CleanupRows
  BY <1>1 DEF RowsTyped
<1>3. CASE Protect(c)
  <2> DEFINE k == [old EXCEPT !.at = "scan", !.keep = old.keep \cup LatestRefs]
  <2>1. cleaner' = [cleaner EXCEPT ![c] = k] /\ UNCHANGED <<images, imageCount, imageClock>>
    BY <1>1, <1>2, <1>3 DEF Protect, RowsTyped, CleanupRows
  <2>2. k \in CleanupRows
    BY <1>2, RefsTyped DEF CleanupRows
  <2> HIDE DEF k
  <2> QED
    BY <2>1, <2>2 DEF RowsTyped
<1>4. CASE Scan(c)
  <2> DEFINE k == [old EXCEPT !.at = "delete", !.ids = Orphans(old.cutoff, old.keep)]
  <2>1. cleaner' = [cleaner EXCEPT ![c] = k] /\ UNCHANGED <<images, imageCount, imageClock>>
    BY <1>1, <1>2, <1>4 DEF Scan, RowsTyped, CleanupRows
  <2>2. k \in CleanupRows
    BY <1>2 DEF CleanupRows, Orphans, Rows
  <2> HIDE DEF k
  <2> QED
    BY <2>1, <2>2 DEF RowsTyped
<1>5. CASE DeleteOrphan(c)
  <2>1. PICK i \in old.ids :
            /\ cleaner' = [cleaner EXCEPT ![c].ids = @ \ {i}]
            /\ images' \in {images, [images EXCEPT ![i] = Unregistered]}
    BY <1>1, <1>5 DEF DeleteOrphan
  <2> DEFINE k == [old EXCEPT !.ids = old.ids \ {i}]
  <2>2. cleaner' = [cleaner EXCEPT ![c] = k] /\ UNCHANGED <<imageCount, imageClock>>
    BY <1>1, <1>2, <1>5, <2>1 DEF DeleteOrphan, RowsTyped, CleanupRows
  <2>3. k \in CleanupRows
    BY <1>2 DEF CleanupRows
  <2>4. images' \in [ImageIds -> ImageRows]
    BY <2>1 DEF RowsTyped, ImageRows
  <2> HIDE DEF k
  <2> QED
    BY <2>2, <2>3, <2>4 DEF RowsTyped
<1>6. CASE CleanupAnswers(c)
  BY <1>6, NoCleanupTyped DEF CleanupAnswers, RowsTyped
<1> QED
  BY <1>3, <1>4, <1>5, <1>6

LEMMA RowsStayTyped ==
    ASSUME RowsTyped, [ImagesNext]_imageVars
    PROVE  RowsTyped'
<1>1. CASE UNCHANGED <<images, imageCount, imageClock, cleaner>>
  BY <1>1 DEF RowsTyped
<1>2. CASE ImageTick
  BY <1>2, ImageNumbers DEF ImageTick, RowsTyped
<1>3. CASE RunOrphanImageCleanup
  BY <1>3, ImageNumbers, CleanupStartsTyped DEF RunOrphanImageCleanup
<1>4. CASE SchedulerCrash
  BY <1>4, NoCleanupTyped DEF SchedulerCrash, RowsTyped
<1>5. ASSUME NEW p \in ImageProjects, NEW tag \in ImageTags, InternalCreate(p, tag)
      PROVE  RowsTyped'
  <2>1. imageCount' \in 0..MaxImages
    BY <1>5, ImageNumbers DEF InternalCreate, InsertImage, RowsTyped
  <2>2. [project |-> p, tag |-> tag, at |-> imageClock] \in ImageRows
    BY DEF RowsTyped, ImageRows
  <2> QED
    BY <1>5, <2>1, <2>2 DEF InternalCreate, InsertImage, RowsTyped
<1>6. ASSUME NEW c \in Cleaners, NEW h \in Hours, NEW keep \in {{}, ImageProjects \X ImageTags},
             OperatorCleans(c, h, keep)
      PROVE  RowsTyped'
  BY <1>6, ImageNumbers, CleanupStartsTyped DEF OperatorCleans, References
<1>7. PublishCleanup \/ ReadCleanup \/ CleanupDone \/ UNCHANGED imageVars
      => UNCHANGED <<images, imageCount, imageClock, cleaner>>
  BY DEF PublishCleanup, ReadCleanup, CleanupDone, imageVars
<1> QED
  BY <1>1, <1>2, <1>3, <1>4, <1>5, <1>6, <1>7, CleanupStepsTyped DEF ImagesNext

LEMMA RoundsStayTyped ==
    ASSUME RoundsTyped, [ImagesNext]_imageVars
    PROVE  RoundsTyped'
<1>1. CASE UNCHANGED <<cleanups, cleaning, rounds>>
  BY <1>1 DEF RoundsTyped
<1>2. CASE PublishCleanup
  <2> DEFINE Types == {"orphan_images", "preview"}
  <2>1. PICK sent \in {<<"orphan_images", "preview">>, <<"orphan_images">>, <<"preview">>, <<>>} :
            cleanups' = cleanups \o sent
    BY <1>2 DEF PublishCleanup
  <2>2. sent \in Seq(Types)
    <3>1. /\ <<"orphan_images", "preview">> \in Seq(Types) /\ <<"orphan_images">> \in Seq(Types)
          /\ <<"preview">> \in Seq(Types)
      OBVIOUS
    <3>2. <<>> \in Seq(Types)
      BY EmptySeq
    <3> QED
      BY <2>1, <3>1, <3>2
  <2>3. cleanups' \in Seq(Types)
    BY <2>1, <2>2, ConcatProperties DEF RoundsTyped
  <2> QED
    BY <1>2, <2>3, ImageNumbers DEF PublishCleanup, RoundsTyped
<1>3. CASE ReadCleanup
  <2>1. Head(cleanups) \in {"orphan_images", "preview"} /\ Tail(cleanups) \in Seq({"orphan_images", "preview"})
    BY <1>3, HeadTailProperties DEF ReadCleanup, RoundsTyped
  <2> QED
    BY <1>3, <2>1 DEF ReadCleanup, RoundsTyped
<1>4. CASE CleanupDone \/ SchedulerCrash
  BY <1>4 DEF CleanupDone, SchedulerCrash, RoundsTyped
<1>5. ASSUME NEW c \in Cleaners, CleanupAnswers(c)
      PROVE  RoundsTyped'
  BY <1>5 DEF CleanupAnswers, RoundsTyped
<1>6. CASE ImageTick \/ RunOrphanImageCleanup \/ UNCHANGED imageVars
  BY <1>1, <1>6 DEF ImageTick, RunOrphanImageCleanup, imageVars
<1>7. ASSUME NEW p \in ImageProjects, NEW tag \in ImageTags, InternalCreate(p, tag)
      PROVE  RoundsTyped'
  BY <1>1, <1>7 DEF InternalCreate
<1>8. ASSUME NEW c \in Cleaners,
             \/ Protect(c) \/ Scan(c) \/ DeleteOrphan(c)
             \/ \E h \in Hours, keep \in {{}, ImageProjects \X ImageTags} : OperatorCleans(c, h, keep)
      PROVE  RoundsTyped'
  BY <1>1, <1>8 DEF Protect, Scan, DeleteOrphan, OperatorCleans
<1> QED
  BY <1>2, <1>3, <1>4, <1>5, <1>6, <1>7, <1>8 DEF ImagesNext

\* Every variable of the clean-up keeps its type: no row without a project and a
\* tag is stored, and a clean-up keeps references that images have had.
THEOREM ImagesTypesKept == ImagesSpec => []ImagesTypeOK
<1>1. ImagesInit => RowsTyped /\ RoundsTyped
  BY ImageNumbers, NoCleanupTyped, EmptySeq DEF ImagesInit, RowsTyped, RoundsTyped, ImageRows
<1>2. RowsTyped /\ RoundsTyped => ImagesTypeOK
  BY DEF RowsTyped, RoundsTyped, ImageRows, CleanupRows, References, ImagesTypeOK
<1> QED
  BY <1>1, <1>2, RowsStayTyped, RoundsStayTyped, PTL DEF ImagesSpec

-----------------------------------------------------------------------------
(* Console: the invariant                                                  *)

PageRecords    == [at : {"idle", "get", "me", "logout"}, pair : Nat, again : BOOLEAN, waits : BOOLEAN]
PromiseRecords == [at : {"none", "asked", "issued", "refused"}, pair : Nat]
ProcessRecords == [at : {"ended", "loaded", "save"}, pair : Nat, again : BOOLEAN]

ConsoleTyped ==
    /\ pairs \in Nat
    /\ goodRefresh \subseteq 1..pairs
    /\ local \in 0..pairs /\ file \in 0..pairs
    /\ page \in [PageRequests -> PageRecords]
    /\ refreshing \in [Tabs -> PromiseRecords]
    /\ \A t \in Tabs : refreshing[t].pair <= pairs
    /\ process \in [Processes -> ProcessRecords]
    /\ \A p \in Processes : process[p].pair <= pairs
    /\ mishap \in BOOLEAN

\* The browser and the command line have pairs of their own.
OfCli(k) == k = file \/ \E p \in Processes : k = process[p].pair
ClientsApart ==
    /\ OfCli(local) => local = 0
    /\ \A t \in Tabs : OfCli(refreshing[t].pair) => refreshing[t].pair = 0

\* A refresh that was sent has a refresh token that is good, and the pair it is
\* answered is newer than the one it replaces.
PromiseFits(q) ==
    /\ q.at = "asked" => q.pair \in goodRefresh /\ local \in {0, q.pair}
    /\ q.at = "issued" => q.pair \in goodRefresh /\ local < q.pair
    /\ q.at # "refused"

\* As long as nothing went wrong one tab at most refreshes, and a pair that no tab
\* refreshes can be refreshed.
InOrder ==
    /\ \A t, u \in Tabs : t # u => refreshing[t] = NoPromise \/ refreshing[u] = NoPromise
    /\ \A t \in Tabs : PromiseFits(refreshing[t])
    /\ (\A t \in Tabs : refreshing[t] = NoPromise) => local = 0 \/ local \in goodRefresh

ConsoleInv == ConsoleTyped /\ ClientsApart /\ (~mishap => InOrder)

\* A step that takes tokens away without a mishap is a logout.
TokensStay ==
    (local' # local /\ ~mishap')
    => \/ local' > local
       \/ \E r \in PageRequests : page[r].at = "logout" /\ page'[r] = NoRequest

-----------------------------------------------------------------------------
(* Console: every step keeps the invariant                                 *)

LEMMA ConsoleRecords ==
    /\ NoRequest \in PageRecords
    /\ NoPromise \in PromiseRecords /\ NoPromise.at = "none" /\ NoPromise.pair = 0
    /\ Ended \in ProcessRecords /\ Ended.pair = 0
  BY DEF NoRequest, PageRecords, NoPromise, PromiseRecords, Ended, ProcessRecords

LEMMA ConsoleTypes ==
    ASSUME ConsoleInv
    PROVE  /\ pairs \in Nat /\ local \in Nat /\ file \in Nat /\ local <= pairs /\ file <= pairs
           /\ goodRefresh \subseteq Nat /\ (\A k \in goodRefresh : k # 0 /\ k <= pairs)
           /\ page \in [PageRequests -> PageRecords]
           /\ refreshing \in [Tabs -> PromiseRecords]
           /\ \A t \in Tabs : refreshing[t].pair \in Nat /\ refreshing[t].pair <= pairs
           /\ process \in [Processes -> ProcessRecords]
           /\ \A p \in Processes : process[p].pair \in Nat /\ process[p].pair <= pairs
           /\ mishap \in BOOLEAN
           /\ TabOf \in [PageRequests -> Tabs]
  BY ConsoleAssumption DEF ConsoleAssumption, ConsoleInv, ConsoleTyped, PromiseRecords, ProcessRecords

LEMMA ConsoleInitially == ConsoleInit => ConsoleInv
<1> SUFFICES ASSUME ConsoleInit PROVE ConsoleInv
  OBVIOUS
<1>1. ConsoleTyped
  <2>1. pairs = 0 /\ goodRefresh = {} /\ local = 0 /\ file = 0 /\ mishap = FALSE
    BY DEF ConsoleInit
  <2>2. page \in [PageRequests -> PageRecords]
    BY ConsoleRecords DEF ConsoleInit
  <2>3. refreshing \in [Tabs -> PromiseRecords] /\ \A t \in Tabs : refreshing[t].pair = 0
    BY ConsoleRecords DEF ConsoleInit
  <2>4. process \in [Processes -> ProcessRecords] /\ \A p \in Processes : process[p].pair = 0
    BY ConsoleRecords DEF ConsoleInit
  <2> QED
    <3>1. /\ pairs \in Nat /\ goodRefresh \subseteq 1..pairs /\ local \in 0..pairs /\ file \in 0..pairs
          /\ \A t \in Tabs : refreshing[t].pair <= pairs
          /\ \A p \in Processes : process[p].pair <= pairs
      BY <2>1, <2>3, <2>4
    <3>2. mishap \in BOOLEAN
      BY <2>1
    <3> QED
      BY <2>2, <2>3, <2>4, <3>1, <3>2 DEF ConsoleTyped
<1>2. ClientsApart /\ InOrder
  BY ConsoleRecords DEF ConsoleInit, ClientsApart, OfCli, InOrder, PromiseFits
<1> QED
  BY <1>1, <1>2 DEF ConsoleInv

\* The browser's requests come and go; what is stored stays or goes.
LEMMA PageMoves ==
    ASSUME ConsoleInv, UNCHANGED <<pairs, goodRefresh, refreshing, file, process>>,
           page' \in [PageRequests -> PageRecords], local' \in {local, 0}, mishap' \in BOOLEAN,
           mishap => mishap'
    PROVE  ConsoleInv'
<1>1. ConsoleTyped'
  BY ConsoleTypes DEF ConsoleInv, ConsoleTyped
<1>2. ClientsApart'
  BY DEF ConsoleInv, ClientsApart, OfCli
<1>3. InOrder => InOrder'
  <2> SUFFICES ASSUME InOrder PROVE InOrder'
    OBVIOUS
  <2>1. ASSUME NEW t \in Tabs PROVE PromiseFits(refreshing[t])'
    <3>1. PromiseFits(refreshing[t])
      BY DEF InOrder
    <3>2. refreshing[t].pair \in goodRefresh => 0 < refreshing[t].pair
      BY ConsoleTypes
    <3> QED
      BY <3>1, <3>2 DEF PromiseFits
  <2> QED
    BY <2>1 DEF InOrder
<1> QED
  BY <1>1, <1>2, <1>3 DEF ConsoleInv

\* The command line moves: it may use up a pair of its own, and get a new one.
LEMMA CliMoves ==
    ASSUME ConsoleInv, UNCHANGED <<local, page, refreshing, mishap>>,
           pairs' \in Nat, pairs <= pairs',
           file' \in 0..pairs', process' \in [Processes -> ProcessRecords],
           \A p \in Processes : process'[p].pair <= pairs',
           goodRefresh' \subseteq 1..pairs',
           \A k \in goodRefresh : k \in goodRefresh' \/ OfCli(k),
           \A k \in 1..pairs : OfCli(k)' => OfCli(k)
    PROVE  ConsoleInv'
<1>1. ConsoleTyped'
  <2>1. local \in 0..pairs' /\ \A t \in Tabs : refreshing[t].pair <= pairs'
    BY ConsoleTypes
  <2> QED
    BY <2>1 DEF ConsoleInv, ConsoleTyped
<1>2. ClientsApart'
  <2>1. local # 0 => local \in 1..pairs
    BY ConsoleTypes
  <2>2. \A t \in Tabs : refreshing[t].pair # 0 => refreshing[t].pair \in 1..pairs
    BY ConsoleTypes
  <2>3. OfCli(local)' => local = 0
    BY <2>1 DEF ConsoleInv, ClientsApart, OfCli
  <2>4. \A t \in Tabs : OfCli(refreshing[t].pair)' => refreshing[t].pair = 0
    BY <2>2 DEF ConsoleInv, ClientsApart, OfCli
  <2> QED
    BY <2>3, <2>4 DEF ClientsApart, OfCli
<1>3. InOrder => InOrder'
  <2> SUFFICES ASSUME InOrder PROVE InOrder'
    OBVIOUS
  <2>1. local \in goodRefresh => local \in goodRefresh'
    BY ConsoleTypes DEF ConsoleInv, ClientsApart
  <2>2. \A t \in Tabs : refreshing[t].pair \in goodRefresh => refreshing[t].pair \in goodRefresh'
    BY ConsoleTypes DEF ConsoleInv, ClientsApart
  <2>3. \A t \in Tabs : PromiseFits(refreshing[t])'
    BY <2>2 DEF InOrder, PromiseFits
  <2> QED
    BY <2>1, <2>3 DEF InOrder
<1> QED
  BY <1>1, <1>2, <1>3 DEF ConsoleInv

LEMMA ExpiryKeeps == ConsoleInv /\ Expiry => ConsoleInv' /\ TokensStay
<1> SUFFICES ASSUME ConsoleInv, Expiry PROVE ConsoleInv' /\ TokensStay
  OBVIOUS
<1>1. UNCHANGED <<pairs, goodRefresh, refreshing, file, process, local, mishap, page>>
  BY DEF Expiry, AccessExpires, browserVars, cliVars
<1> QED
  BY <1>1, PageMoves, ConsoleTypes DEF TokensStay

LEMMA BrowserLoginKeeps == ConsoleInv /\ BrowserLogin => ConsoleInv' /\ TokensStay
<1> SUFFICES ASSUME ConsoleInv, BrowserLogin PROVE ConsoleInv' /\ TokensStay
  OBVIOUS
<1>1. /\ local = 0 /\ local' = pairs + 1 /\ pairs' = pairs + 1
      /\ goodRefresh' = (goodRefresh \ {0}) \cup {pairs + 1}
      /\ mishap' = (mishap \/ \E u \in Tabs : refreshing[u] # NoPromise)
      /\ UNCHANGED <<page, refreshing, file, process>>
  BY DEF BrowserLogin, Issue, cliVars
<1>2. mishap' \in BOOLEAN /\ (~mishap' => ~mishap /\ \A u \in Tabs : refreshing[u] = NoPromise)
  BY <1>1, ConsoleTypes
<1>3. ConsoleTyped'
  <2>1. pairs' \in Nat /\ goodRefresh' \subseteq 1..pairs' /\ local' \in 0..pairs' /\ file' \in 0..pairs'
    BY <1>1, ConsoleTypes
  <2>2. \A t \in Tabs : refreshing[t].pair <= pairs'
    BY <1>1, ConsoleTypes
  <2>3. \A p \in Processes : process[p].pair <= pairs'
    BY <1>1, ConsoleTypes
  <2> QED
    BY <1>1, <1>2, <2>1, <2>2, <2>3, ConsoleTypes DEF ConsoleTyped
<1>4. ClientsApart'
  <2>1. ~OfCli(pairs + 1)
    BY ConsoleTypes DEF OfCli
  <2> QED
    BY <1>1, <2>1 DEF ConsoleInv, ClientsApart, OfCli
<1>5. ~mishap' => InOrder'
  BY <1>1, <1>2, ConsoleRecords DEF InOrder, PromiseFits
<1>6. TokensStay
  BY <1>1, ConsoleTypes DEF TokensStay
<1> QED
  BY <1>3, <1>4, <1>5, <1>6 DEF ConsoleInv

LEMMA SendPageKeeps ==
    ASSUME ConsoleInv, NEW r \in PageRequests, NEW kind \in {"get", "me", "logout"}, SendPage(r, kind)
    PROVE  ConsoleInv' /\ TokensStay
<1>1. page' \in [PageRequests -> PageRecords]
  BY ConsoleTypes DEF SendPage, SetPage, NoRequest, PageRecords
<1>2. UNCHANGED <<pairs, goodRefresh, refreshing, file, process, local, mishap>>
  BY DEF SendPage, cliVars
<1> QED
  BY <1>1, <1>2, PageMoves, ConsoleTypes DEF TokensStay

\* A request that is over clears the tokens at a logout or after a mishap.
LEMMA FinishKeeps ==
    ASSUME ConsoleInv, NEW r \in PageRequests, NEW failed \in BOOLEAN, Finish(r, failed),
           UNCHANGED <<pairs, goodRefresh, refreshing, file, process>>
    PROVE  ConsoleInv' /\ TokensStay
<1>1. /\ page' = [page EXCEPT ![r] = NoRequest]
      /\ local' \in {local, 0}
      /\ local' # local => page[r].at = "logout" \/ (page[r].at = "me" /\ failed)
      /\ mishap' = (mishap \/ (page[r].at = "me" /\ failed))
  BY DEF Finish, SetPage
<1>2. page' \in [PageRequests -> PageRecords] /\ page'[r] = NoRequest
  BY <1>1, ConsoleRecords, ConsoleTypes
<1>3. mishap' \in BOOLEAN /\ (mishap => mishap') /\ (page[r].at = "me" /\ failed => mishap')
  BY <1>1, ConsoleTypes
<1> QED
  BY <1>1, <1>2, <1>3, PageMoves DEF TokensStay

LEMMA PageAnsweredKeeps ==
    ASSUME ConsoleInv, NEW r \in PageRequests, PageAnswered(r)
    PROVE  ConsoleInv' /\ TokensStay
<1>1. UNCHANGED <<pairs, goodRefresh, refreshing, file, process>>
  BY DEF PageAnswered, cliVars
<1>2. PICK failed \in BOOLEAN : Finish(r, failed)
  BY DEF PageAnswered
<1> QED
  BY <1>1, <1>2, FinishKeeps

LEMMA PageRefusedKeeps ==
    ASSUME ConsoleInv, NEW r \in PageRequests, PageRefused(r)
    PROVE  ConsoleInv' /\ TokensStay
<1>1. PICK t : t = TabOf[r]
  OBVIOUS
<1>2. t \in Tabs
  BY <1>1, ConsoleTypes
<1>3. UNCHANGED <<pairs, goodRefresh, file, process>>
  BY DEF PageRefused, cliVars
<1>4. CASE page[r].again
  BY <1>3, <1>4, FinishKeeps DEF PageRefused
<1>5. CASE ~page[r].again /\ refreshing[t] = NoPromise /\ local = 0
  <2>1. page' = [page EXCEPT ![r] = NoRequest] /\ UNCHANGED <<local, refreshing, mishap>>
    BY <1>1, <1>5 DEF PageRefused, SetPage
  <2>2. page' \in [PageRequests -> PageRecords]
    BY <2>1, ConsoleTypes, ConsoleRecords
  <2> QED
    BY <1>3, <2>1, <2>2, PageMoves, ConsoleTypes DEF TokensStay
<1>6. CASE ~page[r].again /\ ~(refreshing[t] = NoPromise /\ local = 0)
  <2>1. /\ page' = [page EXCEPT ![r] = [page[r] EXCEPT !.again = TRUE, !.waits = TRUE]]
        /\ EnsureRefreshed(t)
        /\ mishap' = (mishap \/ \E u \in Tabs \ {t} : refreshing[u] # NoPromise)
        /\ UNCHANGED local
    BY <1>1, <1>6 DEF PageRefused, SetPage
  <2>2. page' \in [PageRequests -> PageRecords]
    BY <2>1, ConsoleTypes DEF PageRecords
  <2>3. mishap' \in BOOLEAN /\ (~mishap' => ~mishap /\ \A u \in Tabs : u # t => refreshing[u] = NoPromise)
    BY <2>1, ConsoleTypes
  <2>4. CASE UNCHANGED refreshing
    BY <1>3, <2>1, <2>2, <2>3, <2>4, PageMoves DEF TokensStay
  <2>5. CASE refreshing[t] = NoPromise /\ local # 0
             /\ refreshing' = [refreshing EXCEPT ![t] = [at |-> "asked", pair |-> local]]
    <3>1. PICK q : q = [at |-> "asked", pair |-> local]
      OBVIOUS
    <3>2. q \in PromiseRecords /\ q.at = "asked" /\ q.pair = local
      BY <3>1, ConsoleTypes DEF PromiseRecords
    <3>3. /\ refreshing' \in [Tabs -> PromiseRecords]
          /\ \A u \in Tabs : refreshing'[u] = IF u = t THEN q ELSE refreshing[u]
      BY <2>5, <3>1, <3>2, ConsoleTypes
    <3>4. ConsoleTyped'
      <4>1. \A u \in Tabs : refreshing'[u].pair <= pairs
        BY <3>2, <3>3, ConsoleTypes
      <4> QED
        BY <1>3, <2>1, <2>2, <2>3, <3>3, <4>1 DEF ConsoleInv, ConsoleTyped
    <3>5. ClientsApart'
      BY <1>3, <2>1, <3>2, <3>3 DEF ConsoleInv, ClientsApart, OfCli
    <3>6. ASSUME ~mishap' PROVE InOrder'
      <4>1. InOrder /\ \A u \in Tabs : refreshing[u] = NoPromise
        BY <2>3, <2>5, <3>6 DEF ConsoleInv
      <4>2. local \in goodRefresh
        BY <2>5, <4>1 DEF InOrder
      <4>3. PromiseFits(q)'
        BY <1>3, <2>1, <3>2, <4>2 DEF PromiseFits
      <4>4. \A u \in Tabs : u # t => refreshing'[u] = NoPromise
        BY <3>3, <4>1
      <4>5. refreshing'[t] = q /\ q # NoPromise
        BY <1>2, <3>2, <3>3, ConsoleRecords
      <4>6. \A u \in Tabs : PromiseFits(refreshing[u])'
        BY <4>3, <4>4, <4>5, ConsoleRecords DEF PromiseFits
      <4> QED
        BY <1>2, <4>4, <4>5, <4>6 DEF InOrder
    <3> QED
      BY <2>1, <3>4, <3>5, <3>6 DEF ConsoleInv, TokensStay
  <2> QED
    BY <2>1, <2>4, <2>5 DEF EnsureRefreshed
<1> QED
  BY <1>4, <1>5, <1>6

LEMMA RefreshAskedKeeps ==
    ASSUME ConsoleInv, NEW t \in Tabs, RefreshAsked(t)
    PROVE  ConsoleInv' /\ TokensStay
<1>1. PICK old : old = refreshing[t]
  OBVIOUS
<1>2. /\ old \in PromiseRecords /\ old.at = "asked" /\ old.pair \in Nat /\ old # NoPromise
      /\ UNCHANGED <<local, page, mishap, file, process>>
  BY <1>1, ConsoleTypes, ConsoleRecords DEF RefreshAsked, PromiseRecords, cliVars
<1>3. CASE old.pair \in goodRefresh
  <2>1. PICK new : new = pairs + 1
    OBVIOUS
  <2>2. PICK q : q = [at |-> "issued", pair |-> new]
    OBVIOUS
  <2>3. /\ pairs' = new /\ new = pairs + 1
        /\ goodRefresh' = (goodRefresh \ {old.pair}) \cup {new}
        /\ refreshing' = [refreshing EXCEPT ![t] = q]
    BY <1>1, <1>3, <2>1, <2>2 DEF RefreshAsked, Issue
  <2>4. q \in PromiseRecords /\ q.at = "issued" /\ q.pair = new /\ new \in Nat /\ new > pairs /\ q # NoPromise
    BY <2>1, <2>2, ConsoleTypes, ConsoleRecords DEF PromiseRecords
  <2>5. /\ refreshing' \in [Tabs -> PromiseRecords]
        /\ \A u \in Tabs : refreshing'[u] = IF u = t THEN q ELSE refreshing[u]
    BY <2>3, <2>4, ConsoleTypes
  <2>6. ConsoleTyped'
    <3>1. pairs' \in Nat /\ goodRefresh' \subseteq 1..pairs' /\ local \in 0..pairs' /\ file \in 0..pairs'
      BY <2>3, <2>4, ConsoleTypes
    <3>2. \A u \in Tabs : refreshing'[u].pair <= pairs'
      BY <2>3, <2>4, <2>5, ConsoleTypes
    <3>3. \A p \in Processes : process[p].pair <= pairs'
      BY <2>3, <2>4, ConsoleTypes
    <3> QED
      BY <1>2, <2>5, <3>1, <3>2, <3>3, ConsoleTypes DEF ConsoleTyped
  <2>7. ClientsApart'
    <3>1. ~OfCli(new)
      BY <2>4, ConsoleTypes DEF OfCli
    <3> QED
      BY <1>2, <2>4, <2>5, <3>1 DEF ConsoleInv, ClientsApart, OfCli
  <2>8. ASSUME ~mishap PROVE InOrder'
    <3>1. InOrder
      BY <2>8 DEF ConsoleInv
    <3>2. \A u \in Tabs : u # t => refreshing[u] = NoPromise /\ refreshing'[u] = NoPromise
      BY <1>1, <1>2, <2>5, <3>1 DEF InOrder
    <3>3. PromiseFits(q)'
      <4>1. local < new /\ new \in goodRefresh'
        BY <2>3, <2>4, ConsoleTypes
      <4> QED
        BY <1>2, <2>4, <4>1 DEF PromiseFits
    <3>4. refreshing'[t] = q
      BY <2>5
    <3>5. \A u \in Tabs : PromiseFits(refreshing[u])'
      BY <3>2, <3>3, <3>4, ConsoleRecords DEF PromiseFits
    <3> QED
      BY <2>4, <3>2, <3>4, <3>5 DEF InOrder
  <2> QED
    BY <1>2, <2>6, <2>7, <2>8 DEF ConsoleInv, TokensStay
<1>4. CASE old.pair \notin goodRefresh
  <2>1. mishap
    BY <1>1, <1>2, <1>4 DEF ConsoleInv, InOrder, PromiseFits
  <2> DEFINE q == [old EXCEPT !.at = "refused"]
  <2>2. UNCHANGED <<pairs, goodRefresh>> /\ refreshing' = [refreshing EXCEPT ![t] = q]
    BY <1>1, <1>4 DEF RefreshAsked, NoIssue
  <2>3. q \in PromiseRecords /\ q.pair = old.pair
    BY <1>2 DEF PromiseRecords
  <2> HIDE DEF q
  <2>4. /\ refreshing' \in [Tabs -> PromiseRecords]
        /\ \A u \in Tabs : refreshing'[u].pair = refreshing[u].pair
    BY <1>1, <2>2, <2>3, ConsoleTypes
  <2> QED
    BY <1>2, <2>1, <2>2, <2>4 DEF ConsoleInv, ConsoleTyped, ClientsApart, OfCli, TokensStay
<1> QED
  BY <1>3, <1>4

LEMMA RefreshEndsKeeps ==
    ASSUME ConsoleInv, NEW t \in Tabs, RefreshEnds(t)
    PROVE  ConsoleInv' /\ TokensStay
<1>1. PICK old : old = refreshing[t]
  OBVIOUS
<1>2. /\ old \in PromiseRecords /\ old # NoPromise /\ old.pair \in Nat
      /\ refreshing' = [refreshing EXCEPT ![t] = NoPromise]
      /\ UNCHANGED <<pairs, goodRefresh, file, process>>
  BY <1>1, ConsoleTypes DEF RefreshEnds, PromiseRecords, cliVars
<1>3. /\ refreshing' \in [Tabs -> PromiseRecords]
      /\ \A u \in Tabs : refreshing'[u] = IF u = t THEN NoPromise ELSE refreshing[u]
  BY <1>2, ConsoleTypes, ConsoleRecords
<1>4. \/ old.at = "issued" /\ local' = old.pair /\ UNCHANGED mishap
      \/ old.at = "refused" /\ local' = 0 /\ UNCHANGED mishap
      \/ local' = 0 /\ mishap' = TRUE
  BY <1>1 DEF RefreshEnds
<1>5. mishap' \in BOOLEAN /\ (mishap => mishap')
  <2>1. mishap \in BOOLEAN
    BY ConsoleTypes
  <2>2. mishap' = mishap \/ mishap' = TRUE
    BY <1>4
  <2>3. CASE mishap' = mishap
    BY <2>1, <2>3
  <2>4. CASE mishap' = TRUE
    BY <2>4
  <2> QED
    BY <2>2, <2>3, <2>4
<1>6. page' \in [PageRequests -> PageRecords]
  <2>1. ASSUME NEW ok \in BOOLEAN, NEW k \in Nat, Resume(t, ok, k)
        PROVE  page' \in [PageRequests -> PageRecords]
    <3>1. \A r \in PageRequests : page[r] \in PageRecords
      BY ConsoleTypes
    <3>2. \A r \in PageRequests : [page[r] EXCEPT !.waits = FALSE, !.pair = k] \in PageRecords
      BY <3>1 DEF PageRecords
    <3> QED
      BY <2>1, <3>1, <3>2, ConsoleRecords DEF Resume
  <2>2. Resume(t, TRUE, old.pair) \/ Resume(t, FALSE, 0)
    BY <1>1 DEF RefreshEnds
  <2> QED
    BY <1>2, <2>1, <2>2
<1>7. ConsoleTyped'
  <2>1. local' \in 0..pairs
    BY <1>1, <1>2, <1>4, ConsoleTypes
  <2>2. \A u \in Tabs : refreshing'[u].pair <= pairs
    BY <1>3, ConsoleTypes, ConsoleRecords
  <2> QED
    BY <1>2, <1>3, <1>5, <1>6, <2>1, <2>2 DEF ConsoleInv, ConsoleTyped
<1>8. ClientsApart'
  <2>1. local' = 0 \/ local' = old.pair
    BY <1>4
  <2> QED
    BY <1>1, <1>2, <1>3, <2>1, ConsoleRecords DEF ConsoleInv, ClientsApart, OfCli
<1>9. ASSUME ~mishap' PROVE InOrder' /\ local' > local
  <2>1. ~mishap /\ InOrder
    BY <1>5, <1>9 DEF ConsoleInv
  <2>2. PromiseFits(old) /\ \A u \in Tabs : u # t => refreshing[u] = NoPromise
    BY <1>1, <1>2, <2>1 DEF InOrder
  <2>3. local' = old.pair /\ old.pair \in goodRefresh /\ local < old.pair
    BY <1>4, <1>9, <2>2 DEF PromiseFits
  <2>4. \A u \in Tabs : refreshing'[u] = NoPromise
    BY <1>3, <2>2
  <2> QED
    BY <1>2, <2>3, <2>4, ConsoleRecords, ConsoleTypes DEF InOrder, PromiseFits
<1> QED
  BY <1>7, <1>8, <1>9 DEF ConsoleInv, TokensStay

LEMMA CliKeeps ==
    ASSUME ConsoleInv, NEW p \in Processes,
           CliStart(p) \/ CliLogin(p) \/ CliLogout(p) \/ CliConfigure(p) \/ CliRequest(p) \/ CliSave(p)
    PROVE  ConsoleInv' /\ TokensStay
<1>1. UNCHANGED <<local, page, refreshing, mishap>>
  BY DEF CliStart, CliLogin, CliLogout, CliConfigure, CliRequest, CliSave, browserVars
<1>2. PICK old : old = process[p]
  OBVIOUS
<1>3. old \in ProcessRecords /\ old.pair \in Nat /\ old.pair <= pairs
  BY <1>2, ConsoleTypes
\* The process takes a pair that is the command line's, or none.
<1>4. ASSUME NEW q \in ProcessRecords, q.pair = 0 \/ OfCli(q.pair),
             process' = [process EXCEPT ![p] = q], file' \in {file, old.pair},
             UNCHANGED <<pairs, goodRefresh>>
      PROVE  ConsoleInv'
  <2>1. /\ process' \in [Processes -> ProcessRecords]
        /\ \A r \in Processes : process'[r] = IF r = p THEN q ELSE process[r]
    BY <1>4, ConsoleTypes
  <2>2. q.pair <= pairs
    BY <1>4, ConsoleTypes DEF OfCli
  <2>3. \A r \in Processes : process'[r].pair <= pairs
    BY <2>1, <2>2, ConsoleTypes
  <2>4. \A k \in 1..pairs : OfCli(k)' => OfCli(k)
    BY <1>2, <1>4, <2>1 DEF OfCli
  <2>5. file' \in 0..pairs
    BY <1>3, <1>4, ConsoleTypes
  <2>6. pairs' \in Nat /\ pairs <= pairs' /\ goodRefresh' \subseteq 1..pairs'
    BY <1>4, ConsoleTypes
  <2> QED
    BY <1>1, <1>4, <2>1, <2>3, <2>4, <2>5, <2>6, CliMoves
\* The process gets a new pair for one of its own, or for a login.
<1>5. ASSUME NEW again \in BOOLEAN, NEW used, used = 0 \/ used = old.pair, Issue(used),
             process' = [process EXCEPT ![p] = [at |-> "save", pair |-> pairs + 1, again |-> again]],
             UNCHANGED file
      PROVE  ConsoleInv'
  <2>1. PICK q : q = [at |-> "save", pair |-> pairs + 1, again |-> again]
    OBVIOUS
  <2>2. q \in ProcessRecords /\ q.pair = pairs + 1
    BY <2>1, ConsoleTypes DEF ProcessRecords
  <2>3. /\ process' \in [Processes -> ProcessRecords]
        /\ \A r \in Processes : process'[r] = IF r = p THEN q ELSE process[r]
    BY <1>5, <2>1, <2>2, ConsoleTypes
  <2>4. pairs' = pairs + 1 /\ goodRefresh' = (goodRefresh \ {used}) \cup {pairs + 1}
    BY <1>5 DEF Issue
  <2>5. pairs' \in Nat /\ pairs <= pairs' /\ file' \in 0..pairs' /\ goodRefresh' \subseteq 1..pairs'
    BY <1>5, <2>4, ConsoleTypes
  <2>6. \A r \in Processes : process'[r].pair <= pairs'
    BY <2>2, <2>3, <2>4, ConsoleTypes
  <2>7. \A k \in goodRefresh : k \in goodRefresh' \/ OfCli(k)
    BY <1>2, <1>5, <2>4, ConsoleTypes DEF OfCli
  <2>8. \A k \in 1..pairs : OfCli(k)' => OfCli(k)
    BY <1>5, <2>2, <2>3, ConsoleTypes DEF OfCli
  <2> QED
    BY <1>1, <2>3, <2>5, <2>6, <2>7, <2>8, CliMoves
<1>6. ConsoleInv'
  <2>1. CASE CliStart(p)
    <3> DEFINE q == [at |-> "loaded", pair |-> file, again |-> FALSE]
    <3>1. q \in ProcessRecords /\ OfCli(q.pair)
      BY ConsoleTypes DEF ProcessRecords, OfCli
    <3>2. process' = [process EXCEPT ![p] = q] /\ UNCHANGED <<file, pairs, goodRefresh>>
      BY <2>1 DEF CliStart, SetProcess
    <3> HIDE DEF q
    <3> QED
      BY <1>4, <3>1, <3>2
  <2>2. CASE CliLogin(p)
    BY <1>5, <2>2 DEF CliLogin, SetProcess
  <2>3. CASE CliLogout(p)
    <3> DEFINE q == [at |-> "save", pair |-> 0, again |-> TRUE]
    <3>1. q \in ProcessRecords /\ q.pair = 0
      BY DEF ProcessRecords
    <3>2. process' = [process EXCEPT ![p] = q] /\ UNCHANGED <<file, pairs, goodRefresh>>
      BY <2>3 DEF CliLogout, SetProcess
    <3> HIDE DEF q
    <3> QED
      BY <1>4, <3>1, <3>2
  <2>4. CASE CliConfigure(p)
    <3> DEFINE q == [old EXCEPT !.at = "save", !.again = TRUE]
    <3>1. q \in ProcessRecords /\ OfCli(q.pair)
      BY <1>2, <1>3 DEF ProcessRecords, OfCli
    <3>2. process' = [process EXCEPT ![p] = q] /\ UNCHANGED <<file, pairs, goodRefresh>>
      BY <1>2, <2>4 DEF CliConfigure, SetProcess
    <3> HIDE DEF q
    <3> QED
      BY <1>4, <3>1, <3>2
  <2>5. CASE CliRequest(p)
    <3>1. CASE SetProcess(p, Ended) /\ NoIssue
      <4>1. process' = [process EXCEPT ![p] = Ended] /\ UNCHANGED <<file, pairs, goodRefresh>>
        BY <2>5, <3>1 DEF CliRequest, SetProcess, NoIssue
      <4> QED
        BY <1>4, <4>1, ConsoleRecords
    <3>2. CASE Issue(old.pair) /\ SetProcess(p, [at |-> "save", pair |-> pairs + 1, again |-> FALSE])
      BY <1>5, <2>5, <3>2 DEF CliRequest, SetProcess
    <3> QED
      BY <1>2, <2>5, <3>1, <3>2 DEF CliRequest
  <2>6. CASE CliSave(p)
    <3> DEFINE q == IF old.again THEN Ended ELSE [old EXCEPT !.at = "loaded", !.again = TRUE]
    <3>1. q \in ProcessRecords /\ (q.pair = 0 \/ OfCli(q.pair))
      BY <1>2, <1>3, ConsoleRecords DEF ProcessRecords, OfCli
    <3>2. process' = [process EXCEPT ![p] = q] /\ file' = old.pair /\ UNCHANGED <<pairs, goodRefresh>>
      BY <1>2, <2>6 DEF CliSave, Save, SetProcess
    <3> HIDE DEF q
    <3> QED
      BY <1>4, <3>1, <3>2
  <2> QED
    BY <2>1, <2>2, <2>3, <2>4, <2>5, <2>6
<1> QED
  BY <1>1, <1>6 DEF TokensStay

LEMMA ConsoleStep ==
    ASSUME ConsoleInv, [ConsoleNext]_consoleVars
    PROVE  ConsoleInv' /\ TokensStay
<1>1. CASE UNCHANGED consoleVars
  <2>1. UNCHANGED <<pairs, goodRefresh, refreshing, file, process, local, mishap, page>>
    BY <1>1 DEF consoleVars, browserVars, cliVars
  <2> QED
    BY <2>1, PageMoves, ConsoleTypes DEF TokensStay
<1>2. CASE BrowserNext
  BY <1>2, ExpiryKeeps, BrowserLoginKeeps, SendPageKeeps, PageAnsweredKeeps, PageRefusedKeeps,
     RefreshAskedKeeps, RefreshEndsKeeps DEF BrowserNext
<1>3. CASE CliNext
  BY <1>3, ExpiryKeeps, CliKeeps DEF CliNext
<1> QED
  BY <1>1, <1>2, <1>3 DEF ConsoleNext

\* The dashboard does not sign its user out on its own, however many requests of a
\* tab meet an expired access token at once: the tab refreshes once, with a token
\* that nobody else has used (ensureRefreshed, refreshAccessToken).
THEOREM DashboardKeepsTokens == ConsoleSpec => KeepsItsTokens
<1>1. ConsoleInv /\ [ConsoleNext]_consoleVars => ConsoleInv'
  BY ConsoleStep
<1>2. ConsoleInv /\ [ConsoleNext]_consoleVars => [TokensStay]_consoleVars
  BY ConsoleStep
<1>3. [][TokensStay]_consoleVars => KeepsItsTokens
  BY DEF TokensStay, KeepsItsTokens
<1> QED
  BY ConsoleInitially, <1>1, <1>2, <1>3, PTL DEF ConsoleSpec

-----------------------------------------------------------------------------
(* Console: the types                                                      *)

\* What the invariant of the console leaves out of the types.
ConsoleBounded ==
    /\ pairs <= MaxPairs
    /\ goodAccess \subseteq 1..pairs
    /\ \A r \in PageRequests : page[r].pair <= pairs

\* Pairs are numbered as they are issued; an access token is of a pair issued.
LEMMA PairsIssued ==
    ASSUME ConsoleInv, ConsoleBounded, [ConsoleNext]_consoleVars
    PROVE  /\ pairs' \in Nat /\ pairs <= pairs' /\ pairs' <= MaxPairs
           /\ goodAccess' \subseteq 1..pairs'
<1>1. MaxPairs \in Nat /\ pairs \in Nat
  BY ConsoleTypes, ConsoleAssumption DEF ConsoleAssumption
<1>2. CASE pairs' = pairs /\ goodAccess' \subseteq goodAccess
  BY <1>1, <1>2 DEF ConsoleBounded
<1>3. ASSUME NEW used, Issue(used)
      PROVE  /\ pairs' \in Nat /\ pairs <= pairs' /\ pairs' <= MaxPairs
             /\ goodAccess' \subseteq 1..pairs'
  BY <1>1, <1>3 DEF Issue, ConsoleBounded
<1>4. CASE UNCHANGED <<pairs, goodAccess, goodRefresh>>
  BY <1>2, <1>4
<1>5. CASE Expiry
  BY <1>2, <1>5 DEF Expiry, AccessExpires
<1>6. CASE BrowserNext /\ ~Expiry
  BY <1>3, <1>4, <1>6 DEF BrowserNext, BrowserLogin, RefreshAsked, NoIssue, RefreshEnds, SendPage,
     PageAnswered, PageRefused
<1>7. CASE CliNext /\ ~Expiry
  BY <1>3, <1>4, <1>7 DEF CliNext, CliStart, CliLogin, CliLogout, CliConfigure, CliRequest, NoIssue, CliSave
<1> QED
  BY <1>4, <1>5, <1>6, <1>7 DEF ConsoleNext, consoleVars

\* A request of the dashboard carries a pair that was issued.
LEMMA PagePairs ==
    ASSUME ConsoleInv, ConsoleBounded, [ConsoleNext]_consoleVars, NEW r \in PageRequests
    PROVE  page'[r].pair <= pairs
<1>1. /\ page \in [PageRequests -> PageRecords]
      /\ page[r].pair \in Nat /\ page[r].pair <= pairs /\ local <= pairs /\ pairs \in Nat
      /\ \A t \in Tabs : refreshing[t].pair <= pairs
  BY ConsoleTypes DEF PageRecords, ConsoleBounded
<1>2. NoRequest.pair <= pairs
  BY <1>1 DEF NoRequest
<1>3. CASE page' = page
  BY <1>1, <1>3
<1>4. ASSUME NEW s \in PageRequests, NEW k, SetPage(s, k), s = r => k.pair <= pairs
      PROVE  page'[r].pair <= pairs
  BY <1>1, <1>4 DEF SetPage
<1>5. ASSUME NEW s \in PageRequests, NEW failed, Finish(s, failed)
      PROVE  page'[r].pair <= pairs
  BY <1>2, <1>4, <1>5 DEF Finish
<1>6. ASSUME NEW s \in PageRequests, NEW kind, SendPage(s, kind)
      PROVE  page'[r].pair <= pairs
  <2>1. [NoRequest EXCEPT !.at = kind, !.pair = local].pair = local
    BY DEF NoRequest
  <2> QED
    BY <1>1, <1>4, <1>6, <2>1 DEF SendPage
<1>7. ASSUME NEW s \in PageRequests, PageRefused(s)
      PROVE  page'[r].pair <= pairs
  <2>1. s = r => [page[s] EXCEPT !.again = TRUE, !.waits = TRUE].pair <= pairs
    BY <1>1 DEF PageRecords
  <2> QED
    BY <1>2, <1>4, <1>5, <1>7, <2>1 DEF PageRefused
<1>8. ASSUME NEW t \in Tabs, RefreshEnds(t)
      PROVE  page'[r].pair <= pairs
  <2>1. ASSUME NEW ok, NEW k, k <= pairs, Resume(t, ok, k)
        PROVE  page'[r].pair <= pairs
    <3>1. [page[r] EXCEPT !.waits = FALSE, !.pair = k].pair = k
      BY <1>1 DEF PageRecords
    <3> QED
      BY <1>1, <1>2, <2>1, <3>1 DEF Resume
  <2>2. 0 <= pairs
    BY <1>1
  <2> QED
    BY <1>1, <1>8, <2>1, <2>2 DEF RefreshEnds
<1>9. ASSUME NEW p \in Processes,
             CliStart(p) \/ CliLogin(p) \/ CliLogout(p) \/ CliConfigure(p) \/ CliRequest(p) \/ CliSave(p)
      PROVE  page' = page
  BY <1>9 DEF CliStart, CliLogin, CliLogout, CliConfigure, CliRequest, CliSave, browserVars
<1>10. CASE Expiry \/ BrowserLogin \/ (\E t \in Tabs : RefreshAsked(t)) \/ UNCHANGED consoleVars
  BY <1>3, <1>10 DEF Expiry, AccessExpires, BrowserLogin, RefreshAsked, consoleVars, browserVars
<1>11. \A s \in PageRequests : PageAnswered(s) => \E failed : Finish(s, failed)
  BY DEF PageAnswered
<1> QED
  BY <1>3, <1>5, <1>6, <1>7, <1>8, <1>9, <1>10, <1>11 DEF ConsoleNext, BrowserNext, CliNext

\* Every variable of the clients keeps its type.
THEOREM ConsoleTypesKept == ConsoleSpec => []ConsoleTypeOK
<1>1. ConsoleInit => ConsoleBounded
  BY ConsoleAssumption DEF ConsoleAssumption, ConsoleInit, ConsoleBounded, NoRequest
<1>2. ConsoleInv /\ [ConsoleNext]_consoleVars => ConsoleInv'
  BY ConsoleStep
<1>3. ConsoleInv /\ ConsoleBounded /\ [ConsoleNext]_consoleVars => ConsoleBounded'
  <2> SUFFICES ASSUME ConsoleInv, ConsoleBounded, [ConsoleNext]_consoleVars PROVE ConsoleBounded'
    OBVIOUS
  <2>1. /\ pairs' \in Nat /\ pairs <= pairs' /\ pairs' <= MaxPairs /\ goodAccess' \subseteq 1..pairs'
        /\ pairs \in Nat
    BY PairsIssued, ConsoleTypes
  <2>2. ConsoleInv'
    BY <1>2
  <2>3. ASSUME NEW r \in PageRequests PROVE page'[r].pair <= pairs'
    <3>1. page'[r].pair \in Nat
      BY <2>2 DEF ConsoleInv, ConsoleTyped, PageRecords
    <3>2. page'[r].pair <= pairs
      BY PagePairs
    <3> QED
      BY <2>1, <3>1, <3>2
  <2> QED
    BY <2>1, <2>3 DEF ConsoleBounded
<1>4. ConsoleInv /\ ConsoleBounded => ConsoleTypeOK
  <2> SUFFICES ASSUME ConsoleInv, ConsoleBounded PROVE ConsoleTypeOK
    OBVIOUS
  <2>1. pairs \in 0..MaxPairs
    BY ConsoleTypes, ConsoleAssumption DEF ConsoleAssumption, ConsoleBounded
  <2>2. page \in [PageRequests ->
                   [at : {"idle", "get", "me", "logout"}, pair : 0..pairs, again : BOOLEAN, waits : BOOLEAN]]
    <3>1. \A r \in PageRequests : page[r] \in PageRecords /\ page[r].pair \in 0..pairs
      BY ConsoleTypes DEF ConsoleBounded, PageRecords
    <3> QED
      BY <3>1, ConsoleTypes DEF PageRecords
  <2>3. refreshing \in [Tabs -> [at : {"none", "asked", "issued", "refused"}, pair : 0..pairs]]
    <3>1. \A t \in Tabs : refreshing[t] \in PromiseRecords /\ refreshing[t].pair \in 0..pairs
      BY ConsoleTypes DEF PromiseRecords
    <3> QED
      BY <3>1, ConsoleTypes DEF PromiseRecords
  <2>4. process \in [Processes -> [at : {"ended", "loaded", "save"}, pair : 0..pairs, again : BOOLEAN]]
    <3>1. \A p \in Processes : process[p] \in ProcessRecords /\ process[p].pair \in 0..pairs
      BY ConsoleTypes DEF ProcessRecords
    <3> QED
      BY <3>1, ConsoleTypes DEF ProcessRecords
  <2> QED
    BY <2>1, <2>2, <2>3, <2>4 DEF ConsoleInv, ConsoleTyped, ConsoleBounded, ConsoleTypeOK
<1> QED
  BY <1>1, <1>2, <1>3, <1>4, ConsoleInitially, PTL DEF ConsoleSpec

-----------------------------------------------------------------------------
(* The components together                                                 *)

\* A step of the whole is a step of one component, and leaves the others alone.
LEMMA ServicesSteps ==
    [ServicesNext]_ServicesVars
    => /\ [ProvisioningNext]_provisionVars
       /\ [BucketsNext]_bucketVars
       /\ [DomainsNext]_domainVars
       /\ [SchedulesNext]_scheduleVars
       /\ [ClusterNext]_clusterVars
       /\ [RepositoriesNext]_repoVars
       /\ [ImagesNext]_imageVars
       /\ [MeteringNext]_meteringVars
       /\ [ConsoleNext]_consoleVars
  BY DEF ServicesNext, ServicesVars, RepositoriesNext, MeteringNext, ConsoleNext

LEMMA ServicesStart ==
    ServicesInit => /\ ProvisioningInit /\ BucketsInit /\ DomainsInit /\ SchedulesInit /\ ClusterInit
                    /\ RepositoriesInit /\ ImagesInit /\ MeteringInit /\ ConsoleInit
  BY DEF ServicesInit

\* What the services do together is, for each of them, what it does alone: nothing
\* one of them does touches what another keeps, and so every theorem about one of
\* them is a theorem about the whole.
THEOREM ServicesImplementComponents ==
    ServicesSpec => /\ ProvisioningSpec /\ BucketsSpec /\ DomainsSpec /\ SchedulesSpec /\ ClusterSpec
                    /\ RepositoriesSpec /\ ImagesSpec /\ MeteringSpec /\ ConsoleSpec
  BY ServicesSteps, ServicesStart, PTL
  DEF ServicesSpec, ProvisioningSpec, BucketsSpec, DomainsSpec, SchedulesSpec, ClusterSpec,
      RepositoriesSpec, ImagesSpec, MeteringSpec, ConsoleSpec

\* The services and the clients keep their types together.
THEOREM ServicesTypes == ServicesSpec => []ServicesTypesOK
<1>1. /\ ProvisioningTypeOK /\ BucketsTypeOK /\ DomainsTypeOK /\ SchedulesTypeOK /\ ClusterTypeOK
      /\ RepositoriesTypeOK /\ ImagesTypeOK /\ MeteringTypeOK /\ ConsoleTypeOK
      => ServicesTypesOK
  BY DEF ServicesTypesOK
<1> QED
  BY <1>1, ServicesImplementComponents, ProvisioningTypes, BucketsTypes, DomainsTypes,
     SchedulesTypesKept, ClusterTypesKept, RepositoriesTypesKept, ImagesTypesKept,
     MeteringTypesKept, ConsoleTypesKept, PTL
=============================================================================
