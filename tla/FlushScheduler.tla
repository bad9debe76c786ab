---------------------------- MODULE FlushScheduler ----------------------------
(***************************************************************************)
(* requestFlush and startFlush of                                          *)
(* plugins/replication/src/HttpSwrDbPlugin.ts: who may start a flush of    *)
(* the unsynced queue, and which flush answers whom.                       *)
(*                                                                         *)
(* flushInFlight is cleared, the follow-up is started and callers go on in *)
(* reactions of promises, so the order of the microtasks decides.  Jobs    *)
(* are the microtasks queued, in order; a reaction of an unsettled promise *)
(* waits with its flush.                                                   *)
(***************************************************************************)
EXTENDS Naturals, Sequences

CONSTANTS
  Callers,    \* the timer, the online event and the application's calls
  MaxFlushes  \* bound on flushes started

ASSUME FlushesAssumption == MaxFlushes \in Nat

VARIABLES
  flushes,   \* each flush started: "waiting" out the interval, "reading" the
             \* queue and sending it, or "settled"
  inFlight,  \* flushInFlight: a flush, or 0
  followUp,  \* flushQueued: is it set, and who awaits it
  reactions, \* for each flush: the jobs its settling queues
  jobs,      \* the microtasks queued
  asked,     \* [Callers -> BOOLEAN]: awaits an answer
  begun,     \* history: [Callers -> the flushes begun when it asked]
  destroyed, \* isDestroyed
  jumped     \* history: a caller started a flush ahead of the follow-up

schedulerVars == <<flushes, inFlight, followUp, reactions, jobs, asked, begun, destroyed, jumped>>

Flushes == 1..MaxFlushes
Steps == {"waiting", "reading", "settled"}
NoFollowUp == [set |-> FALSE, who |-> <<>>]

Job(do, f, who) == [do |-> do, flush |-> f, who |-> who]
Answers(f, who) == [n \in DOMAIN who |-> Job("answer", f, <<who[n]>>)]

SchedulerInit ==
  /\ flushes = <<>> /\ inFlight = 0 /\ followUp = NoFollowUp
  /\ reactions = <<>> /\ jobs = <<>>
  /\ asked = [c \in Callers |-> FALSE] /\ begun = [c \in Callers |-> {}]
  /\ destroyed = FALSE /\ jumped = FALSE

-----------------------------------------------------------------------------
\* The steps a flush may start in: the interval is waited out first, and a
\* destroyed plugin settles at once.
FirstSteps == {"waiting", IF destroyed THEN "settled" ELSE "reading"}

\* startFlush: after clears come the reactions of those it is returned to.
\* Before and after it, other jobs are queued.
StartFlush(before, callers, after) ==
  \E step \in FirstSteps :
    LET f == Len(flushes) + 1
        mine == <<Job("pass to clear", f, <<>>)>> \o Answers(f, callers)
        now == IF step = "settled" THEN mine ELSE <<>>
    IN  /\ flushes' = Append(flushes, step)
        /\ inFlight' = f
        /\ reactions' = Append(reactions, IF step = "settled" THEN <<>> ELSE mine)
        /\ jobs' = before \o now \o after

\* A reaction of flush f: queued now if f is settled, else when it settles.
React(f, job, rest) ==
  IF flushes[f] = "settled"
    THEN jobs' = Append(rest, job) /\ UNCHANGED reactions
    ELSE reactions' = [reactions EXCEPT ![f] = Append(@, job)] /\ jobs' = rest

\* (variant) a flush that waits out the interval is not in flight yet.
BusyReading == inFlight # 0 /\ flushes[inFlight] # "waiting"

Busy == inFlight # 0

\* (variant) a caller that comes during a flush is given that flush.
AwaitRunning(c, rest) ==
  React(inFlight, Job("answer", inFlight, <<c>>), rest) /\ UNCHANGED followUp

\* A caller that comes during a flush awaits the follow-up.
AwaitFollowUp(c, rest) ==
  /\ followUp' = [set |-> TRUE, who |-> Append(followUp.who, c)]
  /\ IF followUp.set THEN jobs' = rest /\ UNCHANGED reactions
     ELSE React(inFlight, Job("pass to follow", inFlight, <<>>), rest)

\* requestFlush by c, with rest the microtasks still queued.
Request(c, rest) ==
  /\ Len(flushes) + (IF followUp.set THEN 1 ELSE 0) < MaxFlushes
  /\ asked' = [asked EXCEPT ![c] = TRUE]
  /\ begun' = [begun EXCEPT ![c] = {f \in DOMAIN flushes : flushes[f] # "waiting"}]
  /\ IF Busy
       THEN AwaitFollowUp(c, rest) /\ UNCHANGED <<flushes, inFlight, jumped>>
       ELSE /\ StartFlush(rest, <<c>>, <<>>)
            /\ jumped' = (jumped \/ followUp.set)
            /\ UNCHANGED followUp
  /\ UNCHANGED destroyed

\* A timer, an event or the application asks from a task of its own.
AskForFlush(c) == jobs = <<>> /\ ~asked[c] /\ Request(c, <<>>)

\* (variant) destroy clears the interval's timer with the background one.
TimerOfTheLiving(f) == flushes[f] = "waiting" /\ ~destroyed

\* The timer of the interval runs on when the plugin is destroyed.
Timer(f) == flushes[f] = "waiting"

\* The interval is over.
Wake(f) ==
  /\ jobs = <<>> /\ Timer(f)
  /\ flushes' = [flushes EXCEPT ![f] = IF destroyed THEN "settled" ELSE "reading"]
  /\ IF destroyed
       THEN jobs' = reactions[f] /\ reactions' = [reactions EXCEPT ![f] = <<>>]
       ELSE UNCHANGED <<jobs, reactions>>
  /\ UNCHANGED <<inFlight, followUp, asked, begun, destroyed, jumped>>

\* flushUnsynced is done, or has failed.
Settle(f) ==
  /\ flushes[f] = "reading"
  /\ flushes' = [flushes EXCEPT ![f] = "settled"]
  /\ jobs' = jobs \o reactions[f]
  /\ reactions' = [reactions EXCEPT ![f] = <<>>]
  /\ UNCHANGED <<inFlight, followUp, asked, begun, destroyed, jumped>>

Destroy ==
  /\ jobs = <<>> /\ ~destroyed
  /\ destroyed' = TRUE
  /\ UNCHANGED <<flushes, inFlight, followUp, reactions, jobs, asked, begun, jumped>>

-----------------------------------------------------------------------------
(* Microtasks.                                                              *)

Runs(do) == jobs # <<>> /\ Head(jobs).do = do
Rest == Tail(jobs)

\* The catch in front of clearing or following passes the outcome on.
Pass ==
  /\ \/ Runs("pass to clear") /\ jobs' = Append(Rest, Job("clear", Head(jobs).flush, <<>>))
     \/ Runs("pass to follow") /\ jobs' = Append(Rest, Job("follow", Head(jobs).flush, <<>>))
  /\ UNCHANGED <<flushes, inFlight, followUp, reactions, asked, begun, destroyed, jumped>>

Clear ==
  /\ Runs("clear")
  /\ inFlight' = IF inFlight = Head(jobs).flush THEN 0 ELSE inFlight
  /\ jobs' = Rest
  /\ UNCHANGED <<flushes, followUp, reactions, asked, begun, destroyed, jumped>>

\* The follow-up starts; the promise its callers hold adopts it.
Follow ==
  /\ Runs("follow")
  /\ followUp' = NoFollowUp
  /\ StartFlush(Rest, <<>>, <<Job("adopt", Len(flushes) + 1, followUp.who)>>)
  /\ UNCHANGED <<asked, begun, destroyed, jumped>>

Adopt ==
  /\ Runs("adopt")
  /\ React(Head(jobs).flush, [Head(jobs) EXCEPT !.do = "resolve"], Rest)
  /\ UNCHANGED <<flushes, inFlight, followUp, asked, begun, destroyed, jumped>>

Resolve ==
  /\ Runs("resolve")
  /\ jobs' = Rest \o Answers(Head(jobs).flush, Head(jobs).who)
  /\ UNCHANGED <<flushes, inFlight, followUp, reactions, asked, begun, destroyed, jumped>>

\* A caller goes on, done or asking again.
GoOn ==
  /\ Runs("answer")
  /\ LET c == Head(jobs).who[1]
     IN  \/ /\ asked' = [asked EXCEPT ![c] = FALSE]
            /\ jobs' = Rest
            /\ UNCHANGED <<flushes, inFlight, followUp, reactions, begun, destroyed, jumped>>
         \/ Request(c, Rest)

Microtask == Pass \/ Clear \/ Follow \/ Adopt \/ Resolve \/ GoOn

SchedulerNext ==
  \/ \E c \in Callers : AskForFlush(c)
  \/ \E f \in DOMAIN flushes : Wake(f) \/ Settle(f)
  \/ Destroy
  \/ Microtask

\* Microtasks run, timers fire, and a flush ends: every request of it has a
\* timeout and its retries are counted.
SchedulerFairness ==
  /\ WF_schedulerVars(Microtask)
  /\ \A f \in Flushes : WF_schedulerVars(f \in DOMAIN flushes /\ (Wake(f) \/ Settle(f)))

SchedulerSpec == SchedulerInit /\ [][SchedulerNext]_schedulerVars /\ SchedulerFairness

-----------------------------------------------------------------------------
(* Properties.                                                              *)

AllJobs(f) == {jobs[n] : n \in DOMAIN jobs} \cup
              (IF f \in DOMAIN reactions THEN {reactions[f][n] : n \in DOMAIN reactions[f]} ELSE {})

\* Every variable has its type, and flushQueued is set exactly while the start
\* of one follow-up is queued or awaits the flush in front of it.
SchedulerTypeOK ==
  /\ flushes \in Seq(Steps) /\ Len(flushes) <= MaxFlushes
  /\ inFlight \in {0} \cup DOMAIN flushes
  /\ followUp.set \in BOOLEAN /\ followUp.who \in Seq(Callers)
  /\ Len(reactions) = Len(flushes)
  /\ asked \in [Callers -> BOOLEAN] /\ begun \in [Callers -> SUBSET Flushes]
  /\ {destroyed, jumped} \subseteq BOOLEAN
  /\ followUp.set = \E f \in Flushes : \E j \in AllJobs(f) :
                      j.do \in {"pass to follow", "follow"}

Reading == {f \in DOMAIN flushes : flushes[f] = "reading"}

\* "Two flushes never overlap" (HttpSwrDbPlugin.ts:460).
FlushesNeverOverlap == \A f, g \in Reading : f = g

\* They overlap in one way only: a caller that is answered between the clearing
\* of flushInFlight and the start of the follow-up asks again.
OverlapOnlyByJumping == jumped \/ FlushesNeverOverlap

\* "Sync now" means this write went out: whoever asks is answered by a flush
\* that had not begun to read the queue when it asked.
AnsweredByALaterFlush ==
  \A f \in Flushes : \A j \in AllJobs(f) : \A n \in DOMAIN j.who : j.flush \notin begun[j.who[n]]

\* Whoever asks is answered, whatever becomes of the flush.
EveryoneAnswered == \A c \in Callers : asked[c] ~> ~asked[c]
=============================================================================
