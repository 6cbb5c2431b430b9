---------------------- MODULE AsyncIntervalScheduler ----------------------
(***************************************************************************)
(* packages/nodejs/src/async-interval-scheduler.ts                         *)
(*                                                                         *)
(* The scheduler re-runs an asynchronous function: every start() that      *)
(* finds the scheduler stopped enters a new poll loop, which awaits the    *)
(* function, sleeps for what is left of the interval and looks at          *)
(* isRunning again.  A loop is not a value in the code (it is the          *)
(* suspended promise of pollExecutionIfRunning); here each one has an      *)
(* identity, so that two of them can be alive at once.                     *)
(*                                                                         *)
(* Time is counted in ticks; elapsed[l] is the time since the loop took    *)
(* startTime, saturating at the interval, because the code only asks       *)
(* whether the interval is over.                                           *)
(***************************************************************************)
EXTENDS Naturals

CONSTANTS
    Loops,                 \* identities for poll loops; a bound on how many are alive
    PollingIntervalInMs,   \* options.pollingIntervalInMs, in ticks
    NoTimeout              \* runningTimeoutId before the first setTimeout

ASSUME IntervalAssumption == PollingIntervalInMs \in Nat \ {0}
ASSUME NoTimeoutAssumption == NoTimeout \notin Loops

VARIABLES
    isRunning,
    runningTimeoutId,      \* the loop that called setTimeout last
    loop,                  \* where each loop is suspended
    elapsed                \* time since the loop's startTime

vars == <<isRunning, runningTimeoutId, loop, elapsed>>

LoopState == {"idle", "executing", "sleeping"}

TypeOK ==
    /\ isRunning \in BOOLEAN
    /\ runningTimeoutId \in Loops \cup {NoTimeout}
    /\ loop \in [Loops -> LoopState]
    /\ elapsed \in [Loops -> 0..PollingIntervalInMs]

Init ==
    /\ isRunning = FALSE
    /\ runningTimeoutId = NoTimeout
    /\ loop = [l \in Loops |-> "idle"]
    /\ elapsed = [l \in Loops |-> 0]

---------------------------------------------------------------------------

\* Mutant of LoopHead: while (true).
LoopHeadUnchecked(l) ==
    /\ loop' = [loop EXCEPT ![l] = "executing"]
    /\ elapsed' = [elapsed EXCEPT ![l] = 0]

(* The head of the while loop: run the function again, or leave.           *)
LoopHead(l) ==
    /\ loop' = [loop EXCEPT ![l] = IF isRunning THEN "executing" ELSE "idle"]
    /\ elapsed' = [elapsed EXCEPT ![l] = 0]

(* start(): not awaited, so the caller goes on while the new loop is in    *)
(* its first execution.                                                    *)
Start(l) ==
    /\ ~isRunning
    /\ loop[l] = "idle"
    /\ isRunning' = TRUE
    /\ loop' = [loop EXCEPT ![l] = "executing"]
    /\ elapsed' = [elapsed EXCEPT ![l] = 0]
    /\ UNCHANGED runningTimeoutId

(* stop(): clears the last timer only.  A loop whose timer is cleared is   *)
(* never resumed: its promise stays pending and is collected.              *)
Stop ==
    /\ isRunning' = FALSE
    /\ IF runningTimeoutId \in Loops /\ loop[runningTimeoutId] = "sleeping"
       THEN /\ loop' = [loop EXCEPT ![runningTimeoutId] = "idle"]
            /\ elapsed' = [elapsed EXCEPT ![runningTimeoutId] = 0]
       ELSE UNCHANGED <<loop, elapsed>>
    /\ UNCHANGED runningTimeoutId

\* Mutant of RemainingTimeInMs: one tick too few.
RemainingTimeInMsShort(l) == PollingIntervalInMs - elapsed[l] - 1

RemainingTimeInMs(l) == PollingIntervalInMs - elapsed[l]

(* functionToExecute() resolves, or rejects and is caught: the loop goes   *)
(* to sleep for the rest of the interval whether or not stop() was called  *)
(* in the meantime, or looks at isRunning at once if nothing is left.      *)
FnSettles(l) ==
    /\ loop[l] = "executing"
    /\ IF RemainingTimeInMs(l) > 0
       THEN /\ loop' = [loop EXCEPT ![l] = "sleeping"]
            /\ runningTimeoutId' = l
            /\ UNCHANGED elapsed
       ELSE /\ LoopHead(l)
            /\ UNCHANGED runningTimeoutId
    /\ UNCHANGED isRunning

\* Mutant of TimerFires: the promise around setTimeout is never resolved.
TimerFiresUnresolved(l) ==
    /\ loop[l] = "sleeping"
    /\ RemainingTimeInMs(l) < 0
    /\ LoopHead(l)
    /\ UNCHANGED <<isRunning, runningTimeoutId>>

TimerFires(l) ==
    /\ loop[l] = "sleeping"
    /\ RemainingTimeInMs(l) = 0
    /\ LoopHead(l)
    /\ UNCHANGED <<isRunning, runningTimeoutId>>

Tick ==
    /\ elapsed' = [l \in Loops |->
                     IF loop[l] # "idle" /\ elapsed[l] < PollingIntervalInMs
                     THEN elapsed[l] + 1 ELSE elapsed[l]]
    /\ UNCHANGED <<isRunning, runningTimeoutId, loop>>

Next ==
    \/ \E l \in Loops : Start(l)
    \/ Stop
    \/ \E l \in Loops : FnSettles(l)
    \/ \E l \in Loops : TimerFires(l)
    \/ Tick

Spec == Init /\ [][Next]_vars

(* Timers fire, time passes, and the scheduled function settles: it only   *)
(* awaits HTTP requests, which answer or fail.  start and stop are calls   *)
(* of the application and are never owed.                                  *)
Fairness ==
    /\ WF_vars(Tick)
    /\ \A l \in Loops : WF_vars(FnSettles(l)) /\ WF_vars(TimerFires(l))

FairSpec == Spec /\ Fairness

---------------------------------------------------------------------------

Alive(l) == loop[l] # "idle"

(* While the scheduler is running some loop is alive to poll: stop() can   *)
(* only ever kill the loop together with isRunning, and an execution that  *)
(* fails (async-interval-scheduler.ts:41-45) does not end the loop.        *)
AliveWhileRunning == isRunning => \E l \in Loops : Alive(l)

(* A loop starts its next execution no sooner than one interval after it   *)
(* started the previous one, however long the function took (lines 46-50), *)
(* and no execution starts while the scheduler is stopped, whichever of    *)
(* the loops left over from earlier starts wakes up (line 39).             *)
BeginsExecution(l) ==
    /\ loop'[l] = "executing"
    /\ \/ loop[l] # "executing"
       \/ elapsed'[l] < elapsed[l]

RateLimited ==
    [][\A l \in Loops : BeginsExecution(l) =>
            /\ isRunning'
            /\ Alive(l) => elapsed[l] = PollingIntervalInMs]_vars

(* A scheduler that is stopped for good drains: every loop, also the ones  *)
(* that earlier stop() calls did not reach, comes to its end.              *)
StopDrains == <>[](~isRunning) => <>[](\A l \in Loops : ~Alive(l))

(* A scheduler that is left running polls again and again.                 *)
KeepsPolling ==
    <>[]isRunning => []<><<\E l \in Loops : BeginsExecution(l)>>_vars

===========================================================================
