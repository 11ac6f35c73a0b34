------------------------------ MODULE Schedules ------------------------------
(***************************************************************************)
(* The scheduler's cron jobs: schedules kept in Redis as one key each and  *)
(* an index of their ids, a ticker that publishes a trigger for each one   *)
(* that is due, and the consumer of jp.jobs that starts it on the runtime. *)
(*                                                                         *)
(* The ticker works on copies: between the read of a schedule and the SET  *)
(* that moves it to its next run, the schedule may be deleted, the Redis   *)
(* call may fail and the scheduler may die.                                *)
(***************************************************************************)
EXTENDS Integers, Sequences

CONSTANTS MaxSchedules, \* the schedules of a behaviour
          Exprs,        \* the cron expressions people write
          Times,        \* the minutes at which something is looked at
          MaxTriggers,  \* bound on the triggers of a behaviour
          CronFaults    \* "publish", "mark", "start": that call fails; "crash"

ScheduleIds == 1 .. MaxSchedules

\* An expression, read the way NextRun reads it: what is not a number is 0.
Expr == [kind : {"hourly", "daily", "every", "at", "other"}, min : Int, hour : Int]

ASSUME SchedulesAssumption ==
    /\ MaxSchedules \in Nat
    /\ Exprs \subseteq Expr
    /\ Times \subseteq Nat /\ 0 \in Times
    /\ MaxTriggers \in Nat
    /\ CronFaults \subseteq {"publish", "mark", "start", "crash"}

VARIABLES
    clock,        \* the time, in minutes
    schedule,     \* the keys jp:cron:<id>
    index,        \* the set jp:cron:index
    ticker,       \* the pass of cronTicker
    jobs,         \* the stream jp.jobs from the consumer's cursor on
    jobber,       \* the trigger jobsConsumer is working on
    triggers,     \* by schedule and due time: how often it was published
    starts,       \* how many jobs the runtime was asked to start
    interrupted   \* the due times whose run could not be marked

scheduleVars == <<clock, schedule, index, ticker, jobs, jobber, triggers, starts, interrupted>>

Absent  == [expr |-> [kind |-> "other", min |-> 0, hour |-> 0], image |-> FALSE,
            next |-> 0, made |-> FALSE]
NoCopy  == [id |-> 0, expr |-> Absent.expr, image |-> FALSE, next |-> 0]
Idling  == [step |-> "idle", now |-> 0, left |-> {}, due |-> {}, current |-> NoCopy, gone |-> {}]

-----------------------------------------------------------------------------
(* NextRun                                                                 *)

Hour == 60
Day  == 1440

\* The next run of expression e after minute t.
NextRun(e, t) ==
    CASE e.kind = "hourly" -> (t \div Hour) * Hour + Hour
      [] e.kind = "daily"  -> (t \div Day) * Day + Day
      [] e.kind = "every"  -> t + (IF e.min > 0 THEN e.min ELSE Hour)
      [] e.kind = "at"     ->
             LET min  == IF e.min \in 0 .. 59 THEN e.min ELSE 0
                 hour == IF e.hour \in 0 .. 23 THEN e.hour ELSE 0
                 cand == (t \div Day) * Day + hour * Hour + min
             IN  IF cand > t THEN cand ELSE cand + Day
      [] OTHER             -> t + Hour

-----------------------------------------------------------------------------

SchedulesTypeOK ==
    /\ clock \in Times
    /\ \A s \in ScheduleIds : schedule[s].next \in Nat
    /\ index \subseteq ScheduleIds
    /\ ticker.step \in {"idle", "read", "fire"}
    /\ ticker.now \in Times /\ ticker.now <= clock
    /\ ticker.left \subseteq ScheduleIds
    /\ \A c \in ticker.due \cup {ticker.current} : c.next <= ticker.now
    /\ Len(jobs) <= MaxTriggers
    /\ starts \in 0 .. MaxTriggers

SchedulesInit ==
    /\ clock       = 0
    /\ schedule    = [s \in ScheduleIds |-> Absent]
    /\ index       = {}
    /\ ticker      = Idling
    /\ jobs        = <<>>
    /\ jobber      = NoCopy
    /\ triggers    = [x \in {} |-> 0]
    /\ starts      = 0
    /\ interrupted = {}

\* Time passes to the next moment of interest.
Pass ==
    /\ \E t \in Times : /\ t > clock /\ \A u \in Times : u <= clock \/ u >= t
                        /\ clock' = t
    /\ UNCHANGED <<schedule, index, ticker, jobs, jobber, triggers, starts, interrupted>>

-----------------------------------------------------------------------------
(* Create, Delete                                                          *)

\* An empty image is allowed: such a schedule starts nothing.
CreateSchedule(s, e, image) ==
    /\ ~schedule[s].made
    /\ \A r \in ScheduleIds : r < s => schedule[r].made
    /\ schedule' = [schedule EXCEPT ![s] = [expr |-> e, image |-> image, made |-> TRUE,
                                            next |-> NextRun(e, clock)]]
    /\ index' = index \cup {s}
    /\ UNCHANGED <<clock, ticker, jobs, jobber, triggers, starts, interrupted>>

\* The key and the entry in the index; a pass that has its copy keeps it.  (No
\* run is ever due at minute 0, which stands for the key that is not there.)
DeleteSchedule(s) ==
    /\ schedule[s].next # 0
    /\ schedule' = [schedule EXCEPT ![s].next = 0]
    /\ index' = index \ {s}
    /\ ticker' = [ticker EXCEPT !.gone = IF ticker.step = "idle" THEN {} ELSE @ \cup {s}]
    /\ UNCHANGED <<clock, jobs, jobber, triggers, starts, interrupted>>

-----------------------------------------------------------------------------
(* The ticker.  Its tick may have waited in the channel while a pass ran.  *)

\* Mutant: the keys are scanned, not the index.
StartPassOnKeys ==
    \E now \in Times :
        /\ ticker.step = "idle" /\ ticker.now < now /\ now <= clock
        /\ ticker' = [Idling EXCEPT !.step = "read", !.now = now,
                                    !.left = {s \in ScheduleIds : schedule[s].next # 0}]
        /\ UNCHANGED <<clock, schedule, index, jobs, jobber, triggers, starts, interrupted>>

\* Due: the ids in the index ...
StartPass ==
    \E now \in Times :
        /\ ticker.step = "idle" /\ ticker.now < now /\ now <= clock
        /\ ticker' = [Idling EXCEPT !.step = "read", !.now = now, !.left = index]
        /\ UNCHANGED <<clock, schedule, index, jobs, jobber, triggers, starts, interrupted>>

CopyOf(s) == [id |-> s, expr |-> schedule[s].expr, image |-> schedule[s].image,
              next |-> schedule[s].next]

\* Mutant: a copy of each one, whatever its time.
ReadAnyTime(s) ==
    /\ ticker.step = "read" /\ s \in ticker.left
    /\ ticker' = [ticker EXCEPT !.left = @ \ {s}, !.due = @ \cup {CopyOf(s)}]
    /\ UNCHANGED <<clock, schedule, index, jobs, jobber, triggers, starts, interrupted>>

\* ... and a copy of each one whose time has come.
ReadDue(s) ==
    LET due == schedule[s].next # 0 /\ schedule[s].next <= ticker.now IN
    /\ ticker.step = "read" /\ s \in ticker.left
    /\ ticker' = [ticker EXCEPT !.left = @ \ {s}, !.due = IF due THEN @ \cup {CopyOf(s)} ELSE @]
    /\ UNCHANGED <<clock, schedule, index, jobs, jobber, triggers, starts, interrupted>>

TimesPublished(x) == IF x \in DOMAIN triggers THEN triggers[x] ELSE 0

\* The trigger, whose failure is not looked at ...
PublishTrigger(c) ==
    LET x == <<c.id, c.next>> IN
    /\ ticker.step # "idle" /\ ticker.left = {} /\ ticker.current = NoCopy /\ c \in ticker.due
    /\ ticker' = [ticker EXCEPT !.step = "fire", !.current = c, !.due = @ \ {c}]
    /\ \/ /\ Len(jobs) + starts < MaxTriggers
          /\ jobs' = Append(jobs, c)
          /\ triggers' = [y \in DOMAIN triggers \cup {x} |->
                              IF y = x THEN TimesPublished(x) + 1 ELSE triggers[y]]
       \/ "publish" \in CronFaults /\ UNCHANGED <<jobs, triggers>>
    /\ UNCHANGED <<clock, schedule, index, jobber, starts, interrupted>>

\* Mutant: the copy is put back as it was read.
MarkRunUnmoved ==
    /\ ticker.current # NoCopy
    /\ ticker' = [ticker EXCEPT !.current = NoCopy]
    /\ UNCHANGED <<clock, schedule, index, jobs, jobber, triggers, starts, interrupted>>

\* ... and the SET of the copy with its next run, which brings the key of a
\* schedule deleted since back to life, though not into the index.
MarkRun ==
    LET c == ticker.current IN
    /\ c # NoCopy
    /\ ticker' = [ticker EXCEPT !.current = NoCopy]
    /\ \/ /\ schedule' = [schedule EXCEPT ![c.id].next = NextRun(c.expr, ticker.now)]
          /\ UNCHANGED interrupted
       \/ /\ "mark" \in CronFaults
          /\ interrupted' = interrupted \cup {<<c.id, c.next>>}
          /\ UNCHANGED schedule
    /\ UNCHANGED <<clock, index, jobs, jobber, triggers, starts>>

EndPass ==
    /\ ticker.step # "idle" /\ ticker.left = {} /\ ticker.due = {} /\ ticker.current = NoCopy
    /\ ticker' = [Idling EXCEPT !.now = ticker.now]
    /\ UNCHANGED <<clock, schedule, index, jobs, jobber, triggers, starts, interrupted>>

-----------------------------------------------------------------------------
(* The consumer of jp.jobs                                                 *)

ReadJob ==
    /\ jobber = NoCopy /\ jobs # <<>>
    /\ jobber' = Head(jobs) /\ jobs' = Tail(jobs)
    /\ UNCHANGED <<clock, schedule, index, ticker, triggers, starts, interrupted>>

\* Without an image there is nothing to start.  The answer of the runtime is
\* not looked at: the message is acknowledged.
RunJob ==
    /\ jobber # NoCopy
    /\ jobber' = NoCopy
    /\ \/ jobber.image /\ starts < MaxTriggers /\ starts' = starts + 1
       \/ (~jobber.image \/ "start" \in CronFaults) /\ UNCHANGED starts
    /\ UNCHANGED <<clock, schedule, index, ticker, jobs, triggers, interrupted>>

\* The pass and the message in hand are lost.
CrashScheduler ==
    LET c == ticker.current IN
    /\ "crash" \in CronFaults
    /\ ticker.step # "idle" \/ jobber # NoCopy
    /\ ticker' = [Idling EXCEPT !.now = ticker.now]
    /\ jobber' = NoCopy
    /\ interrupted' = IF c # NoCopy THEN interrupted \cup {<<c.id, c.next>>} ELSE interrupted
    /\ UNCHANGED <<clock, schedule, index, jobs, triggers, starts>>

SchedulesNext ==
    \/ Pass
    \/ \E s \in ScheduleIds : \/ \E e \in Exprs, image \in BOOLEAN : CreateSchedule(s, e, image)
                              \/ DeleteSchedule(s) \/ ReadDue(s)
    \/ StartPass \/ MarkRun \/ EndPass
    \/ \E c \in ticker.due : PublishTrigger(c)
    \/ ReadJob \/ RunJob \/ CrashScheduler

SchedulesSpec == SchedulesInit /\ [][SchedulesNext]_scheduleVars

-----------------------------------------------------------------------------
(* Properties                                                              *)

\* A schedule fires once for each time it is due, unless the pass that fired it
\* died, or failed, before it had marked the run.
OncePerDueTime ==
    \A x \in DOMAIN triggers : triggers[x] > 1 => x \in interrupted

\* A schedule that was deleted before a pass began does not fire in that pass,
\* although a slow pass before it may have brought its key back.
DeletedIsSilent ==
    \A c \in ticker.due \cup {ticker.current} :
        c # NoCopy => c.id \in index \cup ticker.gone
=============================================================================
