------------------------------ MODULE ThreadProofs ------------------------------
(***************************************************************************)
(* The native threads of the runtime, for every number of applications,    *)
(* timers, sensors, clients, connections and descriptors.                  *)
(* The timer thread posts only to modules that were not freed, and sleeps  *)
(* without an end only when nothing runs or a signal tells it otherwise.   *)
(* The sensor thread reads a sensor as often as its clients ask for.       *)
(* A connection is closed once, whoever gets to it first: the argument     *)
(* follows a node from the party that opens it to the one that unlinked it.*)
(***************************************************************************)
EXTENDS TimerThread, SensorManager, ConnectionManager, TLAPS

\* The walk has nodes of the list only, and is at one of them exactly while it
\* handles its timers.  A node of the list is of a module that was not freed; the
\* timers of an application without one do not run.
WalkInv ==
  /\ loop \in {"callback", "post"} => found \in contexts /\ expired \subseteq
          TimersOf(found)
  /\ loop \notin {"callback", "post"} => found = NoApp /\ expired = {}
  /\ Held => unscanned \subseteq contexts
  /\ loop \in {"computed", "wait"} => unscanned = {}
  /\ \A a \in contexts : life[a] \in {"listed", "unlisted", "queueless"}
  /\ \A t \in AppTimer : life[TimerOwner[t]] = "new" => left[t] = Idle

\* The thread knows of the context, or is going to be told.
Covered(a) ==
  \/ \A t \in TimersOf(a) : left[t] = Idle
  \/ (signals \cup unheard) \cap TimersOf(a) # {}

\* While no timer was found to run, those the walk has passed are covered, until a
\* signal is heard.
SleepInv ==
  loop # "start" /\ msToExpiry = Idle /\ (loop = "wait" => ~signalled) =>
    \A a \in contexts \ (unscanned \cup {found}) : Covered(a)

TimerInv == TimerTypeOK /\ WalkInv /\ SleepInv

LEMMA TimerTypes ==
  ASSUME TimerInv, TimerNext
  PROVE  TimerTypeOK'
<1> USE TimerAssumption DEF TimerInv, TimerTypeOK, Idle, TimersOf, LeastOf
<1>1. ASSUME Begin
      PROVE  TimerTypeOK'
  BY <1>1 DEF Begin
<1>2. ASSUME NextExpiry
      PROVE  TimerTypeOK'
  BY <1>2 DEF NextExpiry
<1>3. ASSUME EndWalk
      PROVE  TimerTypeOK'
  BY <1>3 DEF EndWalk
<1>4. ASSUME Sleep
      PROVE  TimerTypeOK'
  BY <1>4 DEF Sleep
<1>5. ASSUME WakeUp
      PROVE  TimerTypeOK'
  BY <1>5 DEF WakeUp
<1>6. ASSUME NEW a \in TimerApp, CheckTimers(a)
      PROVE  TimerTypeOK'
  BY <1>6 DEF CheckTimers
<1>7. ASSUME NEW t \in AppTimer, LookupModule(t)
      PROVE  TimerTypeOK'
  BY <1>7 DEF LookupModule, CallbackFrame
<1>8. ASSUME NEW t \in AppTimer, LookupNoModule(t)
      PROVE  TimerTypeOK'
  BY <1>8 DEF LookupNoModule, CallbackReturns, CallbackFrame
<1>9. ASSUME NEW t \in AppTimer, PostExpiry(t)
      PROVE  TimerTypeOK'
  BY <1>9 DEF PostExpiry, CallbackReturns, CallbackFrame
<1>10. ASSUME Tick
      PROVE  TimerTypeOK'
  BY <1>10 DEF Tick, TimerFrame
<1>11. ASSUME NEW a \in TimerApp, CreateContext(a)
      PROVE  TimerTypeOK'
  BY <1>11 DEF CreateContext, TimerFrame
<1>12. ASSUME NEW a \in TimerApp, DeleteModule(a)
      PROVE  TimerTypeOK'
  BY <1>12 DEF DeleteModule, TimerFrame
<1>13. ASSUME NEW a \in TimerApp, DestroyContext(a)
      PROVE  TimerTypeOK'
  BY <1>13 DEF DestroyContext, TimerFrame
<1>14. ASSUME NEW t \in AppTimer, CancelTimer(t)
      PROVE  TimerTypeOK'
  BY <1>14 DEF CancelTimer, TimerFrame
<1>15. ASSUME NEW t \in AppTimer, Wakeup(t)
      PROVE  TimerTypeOK'
  BY <1>15 DEF Wakeup, TimerFrame
<1>16. ASSUME NEW t \in AppTimer, NEW i \in 1 .. MaxInterval, StartTimer(t, i)
      PROVE  TimerTypeOK'
  BY <1>16 DEF StartTimer, TimerFrame
<1>17. QED
  BY <1>1, <1>2, <1>3, <1>4, <1>5, <1>6, <1>7, <1>8, <1>9, <1>10, <1>11, <1>12, <1>13,
     <1>14, <1>15, <1>16 DEF TimerNext, TimerLoop

LEMMA WalkKept ==
  ASSUME TimerInv, TimerNext
  PROVE  WalkInv'
<1> USE TimerAssumption DEF TimerInv, TimerTypeOK, WalkInv, Held, NoApp, TimersOf
<1>1. ASSUME Begin
      PROVE  WalkInv'
  BY <1>1 DEF Begin
<1>2. ASSUME NextExpiry
      PROVE  WalkInv'
  BY <1>2 DEF NextExpiry
<1>3. ASSUME EndWalk
      PROVE  WalkInv'
  BY <1>3 DEF EndWalk
<1>4. ASSUME Sleep
      PROVE  WalkInv'
  BY <1>4 DEF Sleep
<1>5. ASSUME WakeUp
      PROVE  WalkInv'
  BY <1>5 DEF WakeUp
<1>6. ASSUME NEW a \in TimerApp, CheckTimers(a)
      PROVE  WalkInv'
  BY <1>6 DEF CheckTimers
<1>7. ASSUME NEW t \in AppTimer, LookupModule(t)
      PROVE  WalkInv'
  BY <1>7 DEF LookupModule, CallbackFrame
<1>8. ASSUME NEW t \in AppTimer, LookupNoModule(t)
      PROVE  WalkInv'
  BY <1>8 DEF LookupNoModule, CallbackReturns, CallbackFrame
<1>9. ASSUME NEW t \in AppTimer, PostExpiry(t)
      PROVE  WalkInv'
  BY <1>9 DEF PostExpiry, CallbackReturns, CallbackFrame
<1>10. ASSUME Tick
      PROVE  WalkInv'
  BY <1>10 DEF Tick, TimerFrame, Idle
<1>11. ASSUME NEW a \in TimerApp, CreateContext(a)
      PROVE  WalkInv'
  BY <1>11 DEF CreateContext, TimerFrame
<1>12. ASSUME NEW a \in TimerApp, DeleteModule(a)
      PROVE  WalkInv'
  BY <1>12 DEF DeleteModule, TimerFrame
<1>13. ASSUME NEW a \in TimerApp, DestroyContext(a)
      PROVE  WalkInv'
  BY <1>13 DEF DestroyContext, TimerFrame
<1>14. ASSUME NEW t \in AppTimer, CancelTimer(t)
      PROVE  WalkInv'
  BY <1>14 DEF CancelTimer, TimerFrame
<1>15. ASSUME NEW t \in AppTimer, Wakeup(t)
      PROVE  WalkInv'
  BY <1>15 DEF Wakeup, TimerFrame
<1>16. ASSUME NEW t \in AppTimer, NEW i \in 1 .. MaxInterval, StartTimer(t, i)
      PROVE  WalkInv'
  BY <1>16 DEF StartTimer, TimerFrame
<1>17. QED
  BY <1>1, <1>2, <1>3, <1>4, <1>5, <1>6, <1>7, <1>8, <1>9, <1>10, <1>11, <1>12, <1>13,
     <1>14, <1>15, <1>16 DEF TimerNext, TimerLoop

LEMMA SleepKept ==
  ASSUME TimerInv, TimerNext
  PROVE  SleepInv'
<1> USE TimerAssumption DEF TimerInv, TimerTypeOK, WalkInv, SleepInv, Covered, Held,
        TimersOf, Idle, LeastOf, NoApp
<1>1. ASSUME Begin
      PROVE  SleepInv'
  BY <1>1 DEF Begin
<1>2. ASSUME NextExpiry
      PROVE  SleepInv'
  BY <1>2 DEF NextExpiry
<1>3. ASSUME EndWalk
      PROVE  SleepInv'
  BY <1>3 DEF EndWalk
<1>4. ASSUME Sleep
      PROVE  SleepInv'
  BY <1>4 DEF Sleep
<1>5. ASSUME WakeUp
      PROVE  SleepInv'
  BY <1>5 DEF WakeUp
<1>6. ASSUME NEW a \in TimerApp, CheckTimers(a)
      PROVE  SleepInv'
  BY <1>6 DEF CheckTimers
<1>7. ASSUME NEW t \in AppTimer, LookupModule(t)
      PROVE  SleepInv'
  BY <1>7 DEF LookupModule, CallbackFrame
<1>8. ASSUME NEW t \in AppTimer, LookupNoModule(t)
      PROVE  SleepInv'
  BY <1>8 DEF LookupNoModule, CallbackReturns, CallbackFrame
<1>9. ASSUME NEW t \in AppTimer, PostExpiry(t)
      PROVE  SleepInv'
  BY <1>9 DEF PostExpiry, CallbackReturns, CallbackFrame
<1>10. ASSUME Tick
      PROVE  SleepInv'
  BY <1>10 DEF Tick, TimerFrame
<1>11. ASSUME NEW a \in TimerApp, CreateContext(a)
      PROVE  SleepInv'
  BY <1>11 DEF CreateContext, TimerFrame
<1>12. ASSUME NEW a \in TimerApp, DeleteModule(a)
      PROVE  SleepInv'
  BY <1>12 DEF DeleteModule, TimerFrame
<1>13. ASSUME NEW a \in TimerApp, DestroyContext(a)
      PROVE  SleepInv'
  BY <1>13 DEF DestroyContext, TimerFrame
<1>14. ASSUME NEW t \in AppTimer, CancelTimer(t)
      PROVE  SleepInv'
  BY <1>14 DEF CancelTimer, TimerFrame
<1>15. ASSUME NEW t \in AppTimer, Wakeup(t)
      PROVE  SleepInv'
  <2>1. loop \in {"start", "computed", "wait"}
    BY <1>15 DEF Wakeup
  <2>2. CASE loop = "start"
    BY <1>15, <2>2 DEF Wakeup, TimerFrame
  <2>3. CASE loop = "computed"
    <3>1. signals' \cup unheard' = signals \cup unheard
      BY <1>15, <2>3 DEF Wakeup
    <3>2. QED
      BY <1>15, <2>3, <3>1 DEF Wakeup, TimerFrame
  <2>4. CASE loop = "wait"
    BY <1>15, <2>4 DEF Wakeup, TimerFrame
  <2>5. QED
    BY <2>1, <2>2, <2>3, <2>4
<1>16. ASSUME NEW t \in AppTimer, NEW i \in 1 .. MaxInterval, StartTimer(t, i)
      PROVE  SleepInv'
  BY <1>16 DEF StartTimer, TimerFrame
<1>17. QED
  BY <1>1, <1>2, <1>3, <1>4, <1>5, <1>6, <1>7, <1>8, <1>9, <1>10, <1>11, <1>12, <1>13,
     <1>14, <1>15, <1>16 DEF TimerNext, TimerLoop

LEMMA TimerInvariant == TimerSpec => []TimerInv
<1>1. TimerInit => TimerInv
  <2> SUFFICES ASSUME TimerInit
               PROVE  TimerInv
    OBVIOUS
  <2>1. TimerTypeOK
    <3>1. Idle \in 0 .. Idle
      BY TimerAssumption DEF Idle
    <3>2. QED
      BY <3>1 DEF TimerInit, TimerTypeOK
  <2>2. WalkInv
    BY TimerAssumption DEF TimerInit, WalkInv, Held
  <2>3. SleepInv
    BY DEF TimerInit, SleepInv
  <2>4. QED
    BY <2>1, <2>2, <2>3 DEF TimerInv
<1>2. TimerInv /\ [TimerNext]_timerVars => TimerInv'
  <2> SUFFICES ASSUME TimerInv, [TimerNext]_timerVars
               PROVE  TimerInv'
    OBVIOUS
  <2>1. CASE TimerNext
    BY <2>1, TimerTypes, WalkKept, SleepKept DEF TimerInv
  <2>2. CASE UNCHANGED timerVars
    BY <2>2 DEF timerVars, loopVars, TimerInv, TimerTypeOK, WalkInv, SleepInv, Held,
                Covered, TimersOf
  <2>3. QED
    BY <2>1, <2>2
<1>3. QED
  BY <1>1, <1>2, PTL DEF TimerSpec

\* The variables of the timer thread have their types (timer_wrapper.c).
THEOREM TimerTypeCorrect == TimerSpec => []TimerTypeOK
BY TimerInvariant, PTL DEF TimerInv

\* The module the timer thread found is not freed before it posted to it, because the
\* thread has the mutex that the destruction of its timers waits for.
THEOREM ModuleOutlivesCallback == TimerSpec => []CallbackModuleKept
<1>1. TimerInv => CallbackModuleKept
  BY DEF TimerInv, TimerTypeOK, WalkInv, CallbackModuleKept
<1>2. QED
  BY <1>1, TimerInvariant, PTL

\* The thread sleeps without an end only when no timer runs, or its signal is on the
\* way, was heard, or came between the computation and the sleep.
THEOREM SleepsOnlyWithoutTimers == TimerSpec => []NoTimerSleptThrough
<1>1. TimerInv => NoTimerSleptThrough
  BY TimerAssumption DEF TimerInv, TimerTypeOK, WalkInv, SleepInv, Covered,
     NoTimerSleptThrough, NoApp, TimersOf
<1>2. QED
  BY <1>1, TimerInvariant, PTL

-----------------------------------------------------------------------------
(* The sensor manager.                                                     *)

\* The calls that end with a read interval stored.
Refreshing == {"open", "configure", "close", "store"}

CallShape ==
  /\ DOMAIN clients = Sensor /\ DOMAIN readInterval = Sensor
  /\ interval \in [Sensor -> [SensorApp -> Intervals]]
  /\ DOMAIN call = SensorApp
  /\ \A a \in SensorApp :
       /\ DOMAIN call[a] = {"at", "on", "value", "fresh"}
       /\ call[a].at \in {"idle", "wakeup", "add"} \cup Refreshing
       /\ call[a].at # "idle" => call[a].on \in Sensor
       /\ call[a].at = "idle" => call[a].on = Nobody

\* What a call computed is what it will store, unless the list changed since.
FreshIsLeast ==
  \A a \in SensorApp, s \in Sensor :
    call[a].at = "store" /\ call[a].on = s /\ call[a].fresh => call[a].value = Least(s)

\* An interval that is not the least is on its way, or one of the known slips.
LeastIsComing ==
  \A s \in Sensor :
    \/ s \in overtaken \cup uncovered \/ clients[s] = <<>>
    \/ \E a \in SensorApp : call[a].on = s /\ call[a].at \in Refreshing
    \/ readInterval[s] = Least(s)

SensorInv == CallShape /\ FreshIsLeast /\ LeastIsComing

\* Least depends on the list of the sensor and on what its clients ask for.
LEMMA LeastKept ==
  ASSUME NEW s \in Sensor, clients'[s] = clients[s], interval'[s] = interval[s]
  PROVE  Least(s)' = Least(s)
  BY DEF Least, Opened

LEMMA IntervalsKept ==
  ASSUME SensorInv, UNCHANGED <<clients, interval>>
  PROVE  \A s \in Sensor : Least(s)' = Least(s) /\ (clients'[s] = <<>> <=> clients[s] = <<>>)
  BY LeastKept

\* A step of the sensor thread, or of time.
LEMMA ReadingKeeps ==
  ASSUME SensorInv,
         UNCHANGED <<listVars, readInterval, call, overtaken, uncovered>>
  PROVE  SensorInv'
<1>1. \A s \in Sensor : Least(s)' = Least(s)
  BY IntervalsKept DEF listVars
<1>2. CallShape'
  BY DEF SensorInv, CallShape, listVars
<1>3. FreshIsLeast'
  BY <1>1 DEF SensorInv, FreshIsLeast, CallShape, Refreshing
<1>4. LeastIsComing'
  BY <1>1 DEF SensorInv, LeastIsComing, listVars
<1>5. QED
  BY <1>2, <1>3, <1>4 DEF SensorInv

\* A change of the list of one sensor.
LEMMA ListChangeKeeps ==
  ASSUME SensorInv, NEW a \in SensorApp, NEW s \in Sensor,
         NEW at \in {"open", "configure", "close"}, ListChanges(a, s, at),
         DOMAIN clients' = Sensor, interval' \in [Sensor -> [SensorApp -> Intervals]],
         \A r \in Sensor : r # s => clients'[r] = clients[r] /\ interval'[r] = interval[r]
  PROVE  SensorInv'
<1>1. /\ DOMAIN call' = SensorApp
      /\ DOMAIN call'[a] = {"at", "on", "value", "fresh"}
      /\ call'[a].at = at /\ call'[a].on = s
  BY DEF ListChanges, Idling
<1>2. \A b \in SensorApp : b # a =>
         /\ DOMAIN call'[b] = {"at", "on", "value", "fresh"}
         /\ call'[b].at = call[b].at /\ call'[b].on = call[b].on
         /\ call'[b].value = call[b].value
         /\ call'[b].fresh => call[b].fresh /\ ~(call[b].at = "store" /\ call[b].on = s)
  BY DEF ListChanges, SensorInv, CallShape
<1>3. /\ \A r \in Sensor : r # s => Least(r)' = Least(r)
      /\ call[a].at = "idle" /\ UNCHANGED <<readInterval, overtaken, uncovered>>
  BY LeastKept DEF ListChanges
<1>4. CallShape'
  BY <1>1, <1>2, <1>3 DEF SensorInv, CallShape, Refreshing
<1>5. FreshIsLeast'
  BY <1>1, <1>2, <1>3 DEF SensorInv, FreshIsLeast, CallShape
<1>6. LeastIsComing'
  <2> SUFFICES ASSUME NEW r \in Sensor
               PROVE  \/ r \in overtaken' \cup uncovered' \/ clients'[r] = <<>>
                      \/ \E b \in SensorApp : call'[b].on = r /\ call'[b].at \in Refreshing
                      \/ readInterval'[r] = Least(r)'
    BY DEF LeastIsComing
  <2>1. CASE r = s
    BY <1>1, <2>1 DEF Refreshing
  <2>2. CASE r # s
    BY <1>2, <1>3, <2>2 DEF SensorInv, LeastIsComing, CallShape, Refreshing
  <2>3. QED
    BY <2>1, <2>2
<1>7. QED
  BY <1>4, <1>5, <1>6 DEF SensorInv

\* A call goes on from one place to the next.
LEMMA CallGoesOn ==
  ASSUME SensorInv, NEW a \in SensorApp, NEW to,
         call' = [call EXCEPT ![a] = to],
         DOMAIN to = {"at", "on", "value", "fresh"},
         to.at \in {"idle", "wakeup", "add"} \cup Refreshing,
         IF to.at = "idle" THEN to.on = Nobody ELSE to.on \in Sensor
  PROVE  /\ call'[a] = to /\ \A b \in SensorApp : b # a => call'[b] = call[b]
         /\ DOMAIN call' = SensorApp
         /\ \A b \in SensorApp :
              /\ DOMAIN call'[b] = {"at", "on", "value", "fresh"}
              /\ call'[b].at \in {"idle", "wakeup", "add"} \cup Refreshing
              /\ call'[b].at # "idle" => call'[b].on \in Sensor
              /\ call'[b].at = "idle" => call'[b].on = Nobody
<1>1. DOMAIN call = SensorApp
  BY DEF SensorInv, CallShape
<1>2. call'[a] = to /\ DOMAIN call' = SensorApp /\ \A b \in SensorApp : b # a => call'[b] = call[b]
  BY <1>1
<1>3. QED
  BY <1>2 DEF SensorInv, CallShape

LEMMA RefreshKeeps ==
  ASSUME SensorInv, NEW a \in SensorApp, Refresh(a)
  PROVE  SensorInv'
<1> DEFINE to == [call[a] EXCEPT !.at = "store", !.value = Least(call[a].on)]
<1>1. /\ DOMAIN call[a] = {"at", "on", "value", "fresh"} /\ DOMAIN call = SensorApp
      /\ call[a].on \in Sensor /\ call[a].at \in Refreshing
  BY DEF Refresh, SensorInv, CallShape, Refreshing
<1>2. /\ call' = [call EXCEPT ![a] = to]
      /\ UNCHANGED <<listVars, readInterval, overtaken, uncovered>>
  BY DEF Refresh
<1>3. /\ DOMAIN to = {"at", "on", "value", "fresh"} /\ to.at = "store" /\ to.on = call[a].on
      /\ to.value = Least(call[a].on) /\ to.fresh = call[a].fresh
  BY <1>1
<1> HIDE DEF to
<1>4. /\ call'[a] = to /\ \A b \in SensorApp : b # a => call'[b] = call[b]
      /\ DOMAIN call' = SensorApp
      /\ \A b \in SensorApp :
           /\ DOMAIN call'[b] = {"at", "on", "value", "fresh"}
           /\ call'[b].at \in {"idle", "wakeup", "add"} \cup Refreshing
           /\ call'[b].at # "idle" => call'[b].on \in Sensor
           /\ call'[b].at = "idle" => call'[b].on = Nobody
  BY <1>1, <1>2, <1>3, CallGoesOn DEF Refreshing
<1>5. \A s \in Sensor : Least(s)' = Least(s)
  BY <1>2, IntervalsKept DEF listVars
<1>6. CallShape'
  BY <1>2, <1>4 DEF SensorInv, CallShape, listVars
<1>7. FreshIsLeast'
  <2> SUFFICES ASSUME NEW b \in SensorApp, NEW s \in Sensor,
                      call'[b].at = "store", call'[b].on = s, call'[b].fresh
               PROVE  call'[b].value = Least(s)'
    BY DEF FreshIsLeast
  <2>1. CASE b = a
    BY <1>3, <1>4, <1>5, <2>1
  <2>2. CASE b # a
    BY <1>4, <1>5, <2>2 DEF SensorInv, FreshIsLeast
  <2>3. QED
    BY <2>1, <2>2
<1>8. LeastIsComing'
  <2> SUFFICES ASSUME NEW r \in Sensor
               PROVE  \/ r \in overtaken' \cup uncovered' \/ clients'[r] = <<>>
                      \/ \E b \in SensorApp : call'[b].on = r /\ call'[b].at \in Refreshing
                      \/ readInterval'[r] = Least(r)'
    BY DEF LeastIsComing
  <2>1. \A b \in SensorApp : call[b].on = r /\ call[b].at \in Refreshing
           => call'[b].on = r /\ call'[b].at \in Refreshing
    BY <1>3, <1>4 DEF Refreshing
  <2>2. QED
    BY <1>2, <1>5, <2>1 DEF SensorInv, LeastIsComing, listVars
<1>9. QED
  BY <1>6, <1>7, <1>8 DEF SensorInv

\* A call that has stored its interval, or adds its handle.
LEMMA CallStored ==
  ASSUME SensorInv, NEW a \in SensorApp, NEW to,
         call' = [call EXCEPT ![a] = to], UNCHANGED listVars,
         DOMAIN readInterval' = Sensor,
         DOMAIN to = {"at", "on", "value", "fresh"},
         to.at \in {"idle", "wakeup", "add"},
         IF to.at = "idle" THEN to.on = Nobody ELSE to.on \in Sensor
  PROVE  /\ CallShape' /\ FreshIsLeast'
         /\ \A b \in SensorApp : b # a => call'[b] = call[b]
         /\ \A s \in Sensor : Least(s)' = Least(s)
<1>1. /\ call'[a] = to /\ \A b \in SensorApp : b # a => call'[b] = call[b]
      /\ DOMAIN call' = SensorApp
      /\ \A b \in SensorApp :
           /\ DOMAIN call'[b] = {"at", "on", "value", "fresh"}
           /\ call'[b].at \in {"idle", "wakeup", "add"} \cup Refreshing
           /\ call'[b].at # "idle" => call'[b].on \in Sensor
           /\ call'[b].at = "idle" => call'[b].on = Nobody
  BY CallGoesOn
<1>2. \A s \in Sensor : Least(s)' = Least(s)
  BY IntervalsKept DEF listVars
<1>3. CallShape'
  BY <1>1 DEF SensorInv, CallShape, listVars
<1>4. FreshIsLeast'
  BY <1>1, <1>2 DEF SensorInv, FreshIsLeast
<1>5. QED
  BY <1>1, <1>2, <1>3, <1>4

LEMMA StoreKeeps ==
  ASSUME SensorInv, NEW a \in SensorApp, StoreInterval(a)
  PROVE  SensorInv'
<1> DEFINE to == [call[a] EXCEPT !.at = "wakeup"]
           s  == call[a].on
<1>1. /\ DOMAIN call[a] = {"at", "on", "value", "fresh"} /\ s \in Sensor
      /\ DOMAIN readInterval = Sensor /\ call[a].at = "store"
  BY DEF StoreInterval, SensorInv, CallShape
<1>2. /\ call' = [call EXCEPT ![a] = to] /\ UNCHANGED listVars
      /\ readInterval' = [readInterval EXCEPT ![s] = call[a].value]
      /\ IF call[a].fresh THEN overtaken' = overtaken \ {s} /\ uncovered' = uncovered \ {s}
                          ELSE overtaken' = overtaken \cup {s} /\ uncovered' = uncovered
  BY DEF StoreInterval
<1>3. DOMAIN to = {"at", "on", "value", "fresh"} /\ to.at = "wakeup" /\ to.on = s
  BY <1>1
<1>4. call[a].fresh => call[a].value = Least(s)
  BY <1>1 DEF SensorInv, FreshIsLeast
<1> HIDE DEF to, s
<1>5. /\ CallShape' /\ FreshIsLeast'
      /\ \A b \in SensorApp : b # a => call'[b] = call[b]
      /\ \A r \in Sensor : Least(r)' = Least(r)
  BY <1>1, <1>2, <1>3, CallStored
<1>6. LeastIsComing'
  <2> SUFFICES ASSUME NEW r \in Sensor
               PROVE  \/ r \in overtaken' \cup uncovered' \/ clients'[r] = <<>>
                      \/ \E b \in SensorApp : call'[b].on = r /\ call'[b].at \in Refreshing
                      \/ readInterval'[r] = Least(r)'
    BY DEF LeastIsComing
  <2>1. CASE r = s
    BY <1>1, <1>2, <1>4, <1>5, <2>1
  <2>2. CASE r # s
    <3>1. \A b \in SensorApp : call[b].on = r => call'[b] = call[b]
      BY <1>5, <2>2 DEF s
    <3>2. /\ r \in overtaken' \cup uncovered' <=> r \in overtaken \cup uncovered
          /\ readInterval'[r] = readInterval[r]
      BY <1>1, <1>2, <2>2
    <3>3. QED
      BY <1>2, <1>5, <3>1, <3>2 DEF SensorInv, LeastIsComing, listVars
  <2>3. QED
    BY <2>1, <2>2
<1>7. QED
  BY <1>5, <1>6 DEF SensorInv

\* The end of a call, in two steps: its interval was stored.
LEMMA EndCallKeeps ==
  ASSUME SensorInv, NEW a \in SensorApp, Signal(a) \/ AddHandle(a)
  PROVE  SensorInv'
<1>1. /\ DOMAIN call[a] = {"at", "on", "value", "fresh"} /\ call[a].on \in Sensor
      /\ call[a].at \notin Refreshing /\ DOMAIN readInterval = Sensor
  BY DEF Signal, AddHandle, SensorInv, CallShape, Refreshing
<1> DEFINE onward == [call[a] EXCEPT !.at = "add"]
<1>2. PICK to \in {Idling, onward} : call' = [call EXCEPT ![a] = to]
  BY DEF Signal, AddHandle
<1>3. /\ DOMAIN to = {"at", "on", "value", "fresh"} /\ to.at \in {"idle", "add"}
      /\ IF to.at = "idle" THEN to.on = Nobody ELSE to.on \in Sensor
  <2>1. CASE to = Idling
    BY <2>1 DEF Idling
  <2>2. CASE to = onward
    BY <1>1, <2>2
  <2>3. QED
    BY <2>1, <2>2
<1>4. UNCHANGED <<listVars, readInterval, overtaken, uncovered>>
  BY DEF Signal, AddHandle
<1>5. /\ CallShape' /\ FreshIsLeast'
      /\ \A b \in SensorApp : b # a => call'[b] = call[b]
      /\ \A r \in Sensor : Least(r)' = Least(r)
  BY <1>1, <1>2, <1>3, <1>4, CallStored
<1>6. LeastIsComing'
  <2> SUFFICES ASSUME NEW r \in Sensor
               PROVE  \/ r \in overtaken' \cup uncovered' \/ clients'[r] = <<>>
                      \/ \E b \in SensorApp : call'[b].on = r /\ call'[b].at \in Refreshing
                      \/ readInterval'[r] = Least(r)'
    BY DEF LeastIsComing
  <2>1. \A b \in SensorApp : call[b].at \in Refreshing => call'[b] = call[b]
    BY <1>1, <1>5
  <2>2. QED
    BY <1>4, <1>5, <2>1 DEF SensorInv, LeastIsComing, listVars
<1>7. QED
  BY <1>5, <1>6 DEF SensorInv

LEMMA CallKeeps ==
  ASSUME SensorInv, NEW a \in SensorApp, NEW s \in Sensor,
         \/ Open(a, s) \/ Close(a, s)
         \/ \E i \in Intervals : Configure(a, s, i)
  PROVE  SensorInv'
<1>1. DOMAIN clients = Sensor /\ interval \in [Sensor -> [SensorApp -> Intervals]]
  BY DEF SensorInv, CallShape
<1>2. PICK at \in {"open", "configure", "close"} : ListChanges(a, s, at)
  BY DEF Open, Close, Configure
<1>3. /\ DOMAIN clients' = Sensor
      /\ \A r \in Sensor : r # s => clients'[r] = clients[r]
  BY <1>1 DEF Open, Close, Configure
<1>4. \/ \E i \in Intervals : interval' = [interval EXCEPT ![s][a] = i]
      \/ interval' = interval
  BY SensorAssumption DEF Open, Close, Configure
<1>5. /\ interval' \in [Sensor -> [SensorApp -> Intervals]]
      /\ \A r \in Sensor : r # s => interval'[r] = interval[r]
  BY <1>1, <1>4
<1>6. QED
  BY <1>2, <1>3, <1>5, ListChangeKeeps

\* What a cleanup changes is excused, and the others see nothing of it.
LEMMA SensorCleanupKeeps ==
  ASSUME SensorInv, NEW a \in SensorApp, Cleanup(a)
  PROVE  SensorInv'
<1>1. /\ UNCHANGED <<interval, readInterval, overtaken>>
      /\ clients' = [s \in Sensor |-> RemoveFirst(clients[s], a)]
      /\ uncovered' = uncovered \cup {s \in Sensor : a \in Opened(s)}
      /\ call' = [b \in SensorApp |->
           [call[b] EXCEPT !.fresh = @ /\ ~(call[b].at = "store" /\ a \in Opened(call[b].on))]]
  BY DEF Cleanup
<1>2. \A s \in Sensor : a \notin Opened(s) => clients'[s] = clients[s]
  <2> SUFFICES ASSUME NEW s \in Sensor, a \notin Opened(s)
               PROVE  RemoveFirst(clients[s], a) = clients[s]
    BY <1>1
  <2>1. ~\E i \in DOMAIN clients[s] : clients[s][i] = a
    BY DEF Opened, ToSet
  <2>2. QED
    BY <2>1 DEF RemoveFirst
<1>3. \A s \in Sensor : a \notin Opened(s) => Least(s)' = Least(s)
  BY <1>1, <1>2, LeastKept
<1>4. \A b \in SensorApp :
         /\ DOMAIN call'[b] = {"at", "on", "value", "fresh"}
         /\ call'[b].at = call[b].at /\ call'[b].on = call[b].on
         /\ call'[b].value = call[b].value
         /\ call'[b].fresh => call[b].fresh /\ ~(call[b].at = "store" /\ a \in Opened(call[b].on))
  BY <1>1 DEF SensorInv, CallShape
<1>5. CallShape'
  <2>1. DOMAIN clients' = Sensor
    BY <1>1
  <2>2. DOMAIN call' = SensorApp
    BY <1>1
  <2>3. UNCHANGED <<interval, readInterval>>
    BY <1>1
  <2>4. QED
    BY <1>4, <2>1, <2>2, <2>3 DEF SensorInv, CallShape
<1>6. FreshIsLeast'
  BY <1>3, <1>4 DEF SensorInv, FreshIsLeast
<1>7. LeastIsComing'
  <2> SUFFICES ASSUME NEW r \in Sensor
               PROVE  \/ r \in overtaken' \cup uncovered' \/ clients'[r] = <<>>
                      \/ \E b \in SensorApp : call'[b].on = r /\ call'[b].at \in Refreshing
                      \/ readInterval'[r] = Least(r)'
    BY DEF LeastIsComing
  <2>1. readInterval'[r] = readInterval[r] /\ overtaken' = overtaken
    BY <1>1
  <2>2. \A b \in SensorApp : call'[b].at = call[b].at /\ call'[b].on = call[b].on
    BY <1>4
  <2>3. CASE a \in Opened(r)
    BY <1>1, <2>3
  <2>4. CASE a \notin Opened(r)
    <3>1. r \in uncovered => r \in uncovered'
      BY <1>1
    <3>2. QED
      BY <1>2, <1>3, <2>1, <2>2, <2>4, <3>1 DEF SensorInv, LeastIsComing
  <2>5. QED
    BY <2>3, <2>4
<1>8. QED
  BY <1>5, <1>6, <1>7 DEF SensorInv

\* Whatever applications open, configure and close at the same time, the read interval
\* of a sensor is the least its clients ask for once no call for it is on its way,
\* but for the two listed slips: a slower call stored what it computed before the
\* list changed, or a client went with its application (refresh_read_interval
\* computes under the lock of the sensor and stores without it).
THEOREM SensorReadsAtLeast == SensorSpec => []LeastIsRead
<1>1. SensorInit => SensorInv
  BY SensorAssumption DEF SensorInit, SensorInv, CallShape, FreshIsLeast, LeastIsComing,
     Idling, Refreshing
<1>2. SensorInv /\ [SensorNext]_sensorVars => SensorInv'
  <2> SUFFICES ASSUME SensorInv, [SensorNext]_sensorVars
               PROVE  SensorInv'
    OBVIOUS
  <2>1. CASE UNCHANGED sensorVars
    BY <2>1, ReadingKeeps DEF sensorVars
  <2>2. CASE ReadingThread \/ SensorTick
    <3>1. UNCHANGED <<listVars, readInterval, call, overtaken, uncovered>>
      BY <2>2 DEF ReadingThread, SensorTick, ReaderFrame, StartCheck, CallClient,
         CallFreedClient, EndSensor, EndCheck, StartWait, EndWait, SkipSensor, NotYetDue,
         ReadSensor, ReadNothing, BeginRead
    <3>2. QED
      BY <3>1, ReadingKeeps
  <2>3. QED
    BY <2>1, <2>2, CallKeeps, RefreshKeeps, StoreKeeps, EndCallKeeps, SensorCleanupKeeps
       DEF SensorNext
<1>3. SensorInv => LeastIsRead
  BY DEF SensorInv, CallShape, LeastIsComing, LeastIsRead, Refreshing
<1>4. QED
  BY <1>1, <1>2, <1>3, PTL DEF SensorSpec

-----------------------------------------------------------------------------
(* Connections.                                                            *)

NodeState == {"none", "listed", "unlinked", "freed"}
Node  == [st : NodeState, app : ConnApp \cup {""}, type : ConnType, fd : Fd \cup {NoFd}]
Place == [at : {"idle", "connect", "watch", "fail", "use", "unlinked", "fdClosed"},
          node : 0 .. MaxHandle]
Event == [handle : Handle, kind : {"data", "closed"}, from : 0 .. MaxHandle]

ConnShape ==
  /\ conn \in [Handle -> Node] /\ handleMax \in 0 .. MaxHandle
  /\ socket \in [Fd -> 0 .. MaxHandle] /\ watched \subseteq Handle /\ batch \subseteq Handle
  /\ peer \in [Handle -> {"quiet", "data", "hangup"}]
  /\ doing \in [ConnApp -> Place] /\ conns \in [ConnApp -> SUBSET Handle]
  /\ inbox \in [ConnApp -> SUBSET Event]
  /\ gone \subseteq ConnApp /\ touched \in BOOLEAN
  /\ poll \in [at : {"idle", "close", "unlinked", "fdClosed"}, node : 0 .. MaxHandle]

\* Nodes anyone knows were added, and an application knows its own only.
Added == 1 .. handleMax

KnownInv ==
  /\ \A h \in Handle : h \in Added <=> conn[h].st # "none"
  /\ \A h \in Added : conn[h].app \in ConnApp
  /\ \A a \in ConnApp : \A h \in conns[a] : h \in Added /\ conn[h].app = a
  /\ \A a \in ConnApp : doing[a].at # "idle" =>
        doing[a].node \in Added /\ conn[doing[a].node].app = a
  /\ poll.at # "idle" => poll.node \in Added
  /\ watched \cup batch \subseteq Added
  /\ \A f \in Fd : socket[f] \in 0 .. handleMax
  /\ \A a \in ConnApp : \A e \in inbox[a] : e.handle \in Added

\* A node that is being opened is in the list, and only the application that opens
\* it has heard of it.
Opening(a) == doing[a].at \in {"connect", "watch", "fail"}

OpeningInv ==
  \A a \in ConnApp : Opening(a) =>
    /\ Listed(doing[a].node)
    /\ doing[a].node \notin watched \cup batch \cup conns[a]
    /\ poll.at # "idle" => poll.node # doing[a].node
    /\ \A e \in inbox[a] : e.handle # doing[a].node

\* The descriptor of a node is the socket of that node.
HasSocket(h) == conn[h].fd \in Fd /\ Stream(h) = h
NoSocket(h) == \A f \in Fd : socket[f] # h

SocketInv ==
  /\ \A h \in Handle : Listed(h) =>
        \/ HasSocket(h)
        \/ \E a \in ConnApp : doing[a].at \in {"connect", "fail"} /\ doing[a].node = h
  /\ \A a \in ConnApp : doing[a].at \in {"connect", "fail"} => NoSocket(doing[a].node)
  /\ \A a \in ConnApp : doing[a].at = "watch" => HasSocket(doing[a].node)
  /\ \A a \in ConnApp : doing[a].at = "unlinked" => HasSocket(doing[a].node)
  /\ \A a \in ConnApp : doing[a].at = "fdClosed" => NoSocket(doing[a].node)
  /\ poll.at = "unlinked" => HasSocket(poll.node)
  /\ poll.at = "fdClosed" => NoSocket(poll.node)
  /\ \A h \in watched : HasSocket(h)
  /\ \A h \in batch : conn[h].fd \in Fd
  /\ \A f \in Fd : socket[f] # 0 => conn[socket[f]].st # "freed" /\ conn[socket[f]].fd = f

\* A node the library still has was unlinked by the polling thread, which is
\* still at it.
HeardInv ==
  /\ \A a \in ConnApp : \A h \in conns[a] : conn[h].st = "unlinked" =>
        poll.at \in {"unlinked", "fdClosed"} /\ poll.node = h
  /\ \A a \in ConnApp : \A e \in inbox[a] : e.handle \in conns[a] => e.from = e.handle

ConnInv == ConnShape /\ KnownInv /\ OpeningInv /\ OneCloser /\ SocketInv /\ HeardInv

\* The effect of the steps, field by field.
NodeBecomes(h, s) == \A g \in Handle :
  /\ conn'[g].st = IF g = h THEN s ELSE conn[g].st
  /\ conn'[g].app = conn[g].app /\ conn'[g].type = conn[g].type /\ conn'[g].fd = conn[g].fd
ThreadGoes(a, where, h) == \A b \in ConnApp :
  /\ doing'[b].at = IF b = a THEN where ELSE doing[b].at
  /\ doing'[b].node = IF b = a THEN h ELSE doing[b].node
SocketCloses(f) == \A g \in Fd : socket'[g] = IF g = f THEN 0 ELSE socket[g]
Hears(h) == \A a \in ConnApp : \A e \in inbox'[a] :
  e \in inbox[a] \/ (e.handle = h /\ e.from = Stream(h) /\ conn[h].app = a)

LEMMA StateSet ==
  ASSUME ConnShape, NEW h \in Handle, NEW s \in NodeState,
         conn' = [conn EXCEPT ![h].st = s]
  PROVE  conn' \in [Handle -> Node] /\ NodeBecomes(h, s)
<1>1. conn \in [Handle -> Node] /\ conn[h] \in Node
  BY DEF ConnShape
<1> DEFINE n == [conn[h] EXCEPT !.st = s]
<1>2. /\ n \in Node /\ n.st = s
      /\ n.app = conn[h].app /\ n.type = conn[h].type /\ n.fd = conn[h].fd
  BY <1>1 DEF Node
<1>3. conn' = [conn EXCEPT ![h] = n]
  OBVIOUS
<1> HIDE DEF n
<1>4. QED
  BY <1>1, <1>2, <1>3 DEF NodeBecomes

LEMMA DescriptorSet ==
  ASSUME ConnShape, NEW h \in Handle, NEW f \in Fd,
         conn' = [conn EXCEPT ![h].fd = f]
  PROVE  /\ conn' \in [Handle -> Node]
         /\ \A g \in Handle :
              /\ conn'[g].fd = IF g = h THEN f ELSE conn[g].fd
              /\ conn'[g].app = conn[g].app /\ conn'[g].type = conn[g].type
              /\ conn'[g].st = conn[g].st
<1>1. conn \in [Handle -> Node] /\ conn[h] \in Node
  BY DEF ConnShape
<1> DEFINE n == [conn[h] EXCEPT !.fd = f]
<1>2. /\ n \in Node /\ n.fd = f
      /\ n.app = conn[h].app /\ n.type = conn[h].type /\ n.st = conn[h].st
  BY <1>1 DEF Node
<1>3. conn' = [conn EXCEPT ![h] = n]
  OBVIOUS
<1> HIDE DEF n
<1>4. QED
  BY <1>1, <1>2, <1>3

LEMMA ThreadSet ==
  ASSUME ConnShape, NEW a \in ConnApp, NEW h \in 0 .. MaxHandle,
         NEW where \in {"idle", "connect", "watch", "fail", "use", "unlinked", "fdClosed"},
         Goes(a, where, h)
  PROVE  doing' \in [ConnApp -> Place] /\ ThreadGoes(a, where, h)
<1>1. doing \in [ConnApp -> Place] /\ At(where, h) \in Place
  BY DEF ConnShape, Place, At
<1>2. At(where, h).at = where /\ At(where, h).node = h
  BY DEF At
<1>3. doing' = [doing EXCEPT ![a] = At(where, h)]
  BY DEF Goes
<1> HIDE DEF At
<1>4. QED
  BY <1>1, <1>2, <1>3 DEF ThreadGoes

LEMMA ThreadRests ==
  ASSUME ConnShape, NEW a \in ConnApp, Rests(a)
  PROVE  doing' \in [ConnApp -> Place] /\ ThreadGoes(a, "idle", 0)
<1>1. Goes(a, "idle", 0) /\ 0 \in 0 .. MaxHandle
  BY ConnAssumption DEF Rests, Goes, At, Nowhere
<1>2. QED
  BY <1>1, ThreadSet

LEMMA SocketClosed ==
  ASSUME ConnShape, NEW f, socket' = Closed(f)
  PROVE  socket' \in [Fd -> 0 .. MaxHandle] /\ SocketCloses(f)
<1>1. socket \in [Fd -> 0 .. MaxHandle] /\ 0 \in 0 .. MaxHandle
  BY ConnAssumption DEF ConnShape
<1>2. socket' = [socket EXCEPT ![f] = 0]
  BY DEF Closed
<1>3. QED
  BY <1>1, <1>2 DEF SocketCloses

LEMMA EventPosted ==
  ASSUME ConnShape, KnownInv, NEW h \in Added, NEW kind \in {"data", "closed"},
         Stream(h) \in 0 .. MaxHandle, Post(h, kind)
  PROVE  inbox' \in [ConnApp -> SUBSET Event] /\ Hears(h)
<1> DEFINE new == [handle |-> h, kind |-> kind, from |-> Stream(h)]
<1>1. h \in Handle /\ conn[h].app \in ConnApp /\ inbox \in [ConnApp -> SUBSET Event]
  BY ConnAssumption DEF ConnShape, KnownInv, Added, Handle
<1>2. new \in Event /\ new.handle = h /\ new.from = Stream(h)
  BY <1>1 DEF Event
<1>3. inbox' = IF conn[h].app \in gone THEN inbox
               ELSE [inbox EXCEPT ![conn[h].app] = @ \cup {new}]
  BY DEF Post
<1> HIDE DEF new
<1>4. QED
  <2> DEFINE owner == conn[h].app
  <2>1. CASE owner \in gone
    BY <1>1, <1>3, <2>1 DEF Hears
  <2>2. CASE owner \notin gone
    <3>1. inbox' = [inbox EXCEPT ![owner] = inbox[owner] \cup {new}]
      BY <1>3, <2>2
    <3>2. inbox' \in [ConnApp -> SUBSET Event]
      BY <1>1, <1>2, <3>1
    <3>3. ASSUME NEW a \in ConnApp, NEW x \in inbox'[a]
          PROVE  x \in inbox[a] \/ (x = new /\ owner = a)
      BY <1>1, <3>1, <3>3
    <3>4. QED
      BY <1>2, <3>2, <3>3 DEF Hears
  <2>3. QED
    BY <2>1, <2>2

CloseFound(a, h) == CloseConnection(a, h) /\ Listed(h)
CloseMissing(a, h) == CloseConnection(a, h) /\ ~Listed(h)

\* What the invariant says of nodes and descriptors as values.
LEMMA Values ==
  ASSUME ConnShape, KnownInv
  PROVE  /\ handleMax \in Nat /\ Added \subseteq Handle /\ 0 \notin Handle
         /\ \A h \in Handle : conn[h].st \in NodeState
         /\ \A f \in Fd : socket[f] \in Added \cup {0}
         /\ \A a \in ConnApp : doing[a].node \in 0 .. MaxHandle
         /\ poll.node \in 0 .. MaxHandle /\ Handle \subseteq 0 .. MaxHandle
         /\ NoFd \notin Fd
<1>1. /\ handleMax \in Nat /\ Added \subseteq Handle /\ 0 \notin Handle /\ NoFd \notin Fd
      /\ \A f \in Fd : socket[f] \in Added \cup {0}
      /\ Handle \subseteq 0 .. MaxHandle
  BY ConnAssumption DEF ConnShape, KnownInv, Added, Handle
<1>2. \A h \in Handle : conn[h].st \in NodeState
  BY DEF ConnShape, Node
<1>3. /\ \A a \in ConnApp : doing[a].node \in 0 .. MaxHandle
      /\ poll.node \in 0 .. MaxHandle
  BY DEF ConnShape, Place
<1>4. QED
  BY <1>1, <1>2, <1>3

\* The nodes that threads are at.
LEMMA Nodes ==
  ASSUME ConnShape, KnownInv
  PROVE  /\ \A a \in ConnApp : doing[a].at # "idle" => doing[a].node \in Handle
         /\ poll.at # "idle" => poll.node \in Handle
BY Values DEF KnownInv

LEMMA EpollWaitStep ==
  ASSUME ConnInv, EpollWait
  PROVE  ConnInv'
<1>1. /\ poll.at = "idle"
      /\ batch' \subseteq watched
      /\ UNCHANGED <<conn, handleMax, socket, watched, peer, doing, conns, gone, inbox,
                     poll, touched>>
  BY Values, Nodes, ConnAssumption DEF ConnInv, EpollWait, kernel, nodeVars, appSide,
                                       PollFrame
<1>2. ConnShape'
  BY <1>1, Values, Nodes, SMTT(60) DEF ConnInv, ConnShape
<1>3. KnownInv'
  BY <1>1, Values, Nodes, SMTT(60) DEF ConnInv, KnownInv, Added
<1>4. OpeningInv'
  BY <1>1, Values, Nodes, SMTT(60) DEF ConnInv, KnownInv, OpeningInv, Opening, Listed
<1>5. OneCloser'
  BY <1>1, Values, Nodes, SMTT(60) DEF ConnInv, KnownInv, OpeningInv, Opening, OneCloser, Listed
<1>6. SocketInv'
  BY <1>1, Values, Nodes, SMTT(60) DEF ConnInv, KnownInv, OpeningInv, Opening, OneCloser,
                             SocketInv, HasSocket, NoSocket, Stream, Listed
<1>7. HeardInv'
  BY <1>1, Values, Nodes, SMTT(60) DEF ConnInv, KnownInv, OpeningInv, Opening, OneCloser,
                             SocketInv, HasSocket, NoSocket, Stream, HeardInv, Listed,
                             NodeState
<1>8. QED
  BY <1>2, <1>3, <1>4, <1>5, <1>6, <1>7 DEF ConnInv

LEMMA PollTouchesFreedStep ==
  ASSUME ConnInv, PollTouchesFreed
  PROVE  ConnInv'
<1>1. /\ poll.at = "idle"
      /\ batch' \subseteq batch
      /\ touched' \in BOOLEAN
      /\ UNCHANGED <<conn, handleMax, socket, watched, peer, doing, conns, gone, inbox,
                     poll>>
  BY Values, Nodes, ConnAssumption DEF ConnInv, PollTouchesFreed, kernel, nodeVars,
                                       appSide, PollFrame
<1>2. ConnShape'
  BY <1>1, Values, Nodes, SMTT(60) DEF ConnInv, ConnShape
<1>3. KnownInv'
  BY <1>1, Values, Nodes, SMTT(60) DEF ConnInv, KnownInv, Added
<1>4. OpeningInv'
  BY <1>1, Values, Nodes, SMTT(60) DEF ConnInv, KnownInv, OpeningInv, Opening, Listed
<1>5. OneCloser'
  BY <1>1, Values, Nodes, SMTT(60) DEF ConnInv, KnownInv, OpeningInv, Opening, OneCloser, Listed
<1>6. SocketInv'
  BY <1>1, Values, Nodes, SMTT(60) DEF ConnInv, KnownInv, OpeningInv, Opening, OneCloser,
                             SocketInv, HasSocket, NoSocket, Stream, Listed
<1>7. HeardInv'
  BY <1>1, Values, Nodes, SMTT(60) DEF ConnInv, KnownInv, OpeningInv, Opening, OneCloser,
                             SocketInv, HasSocket, NoSocket, Stream, HeardInv, Listed,
                             NodeState
<1>8. QED
  BY <1>2, <1>3, <1>4, <1>5, <1>6, <1>7 DEF ConnInv

LEMMA PollCloseStep ==
  ASSUME ConnInv, PollClose
  PROVE  ConnInv'
<1>1. /\ poll.at = "close"
      /\ Listed(poll.node)
      /\ poll.node \in Handle
      /\ conn' = [conn EXCEPT ![poll.node].st = "unlinked"]
      /\ poll' \in [at : {"idle", "close", "unlinked", "fdClosed"}, node : 0 .. MaxHandle]
      /\ poll'.at = "unlinked"
      /\ poll'.node = poll.node
      /\ UNCHANGED <<handleMax, socket, watched, peer, doing, conns, gone, inbox,
                     batch, touched>>
  BY Values, Nodes, ConnAssumption DEF ConnInv, PollClose, Listed, At, Nowhere, kernel,
                                       nodeVars, appSide, PollFrame
<1>2. conn' \in [Handle -> Node] /\ NodeBecomes(poll.node, "unlinked")
  BY <1>1, StateSet DEF ConnInv, NodeState
<1>3. ConnShape'
  BY <1>1, <1>2, Values, Nodes, SMTT(60) DEF ConnInv, ConnShape, NodeBecomes
<1>4. KnownInv'
  BY <1>1, <1>2, Values, Nodes, SMTT(60) DEF ConnInv, KnownInv, Added, NodeBecomes
<1>5. OpeningInv'
  BY <1>1, <1>2, Values, Nodes, SMTT(60) DEF ConnInv, KnownInv, OpeningInv, Opening, Listed,
                                   NodeBecomes
<1>6. OneCloser'
  BY <1>1, <1>2, Values, Nodes, SMTT(60) DEF ConnInv, KnownInv, OpeningInv, Opening, OneCloser,
                                   Listed, NodeBecomes
<1>7. SocketInv'
  BY <1>1, <1>2, Values, Nodes, SMTT(60) DEF ConnInv, KnownInv, OpeningInv, Opening, OneCloser,
                                   SocketInv, HasSocket, NoSocket, Stream, Listed,
                                   NodeBecomes
<1>8. HeardInv'
  BY <1>1, <1>2, Values, Nodes, SMTT(60) DEF ConnInv, KnownInv, OpeningInv, Opening, OneCloser,
                                   SocketInv, HasSocket, NoSocket, Stream, HeardInv,
                                   Listed, NodeState, NodeBecomes
<1>9. QED
  BY <1>3, <1>4, <1>5, <1>6, <1>7, <1>8 DEF ConnInv

LEMMA PollCloseMissingStep ==
  ASSUME ConnInv, PollCloseMissing
  PROVE  ConnInv'
<1>1. /\ poll.at = "close"
      /\ poll' \in [at : {"idle", "close", "unlinked", "fdClosed"}, node : 0 .. MaxHandle]
      /\ poll'.at = "idle"
      /\ poll'.node = 0
      /\ touched' \in BOOLEAN
      /\ UNCHANGED <<conn, handleMax, socket, watched, peer, doing, conns, gone, inbox,
                     batch>>
  BY Values, Nodes, ConnAssumption DEF ConnInv, PollCloseMissing, ConnShape, At,
                                       Nowhere, kernel, nodeVars, appSide, PollFrame
<1>2. ConnShape'
  BY <1>1, Values, Nodes, SMTT(60) DEF ConnInv, ConnShape
<1>3. KnownInv'
  BY <1>1, Values, Nodes, SMTT(60) DEF ConnInv, KnownInv, Added
<1>4. OpeningInv'
  BY <1>1, Values, Nodes, SMTT(60) DEF ConnInv, KnownInv, OpeningInv, Opening, Listed
<1>5. OneCloser'
  BY <1>1, Values, Nodes, SMTT(60) DEF ConnInv, KnownInv, OpeningInv, Opening, OneCloser, Listed
<1>6. SocketInv'
  BY <1>1, Values, Nodes, SMTT(60) DEF ConnInv, KnownInv, OpeningInv, Opening, OneCloser,
                             SocketInv, HasSocket, NoSocket, Stream, Listed
<1>7. HeardInv'
  BY <1>1, Values, Nodes, SMTT(60) DEF ConnInv, KnownInv, OpeningInv, Opening, OneCloser,
                             SocketInv, HasSocket, NoSocket, Stream, HeardInv, Listed,
                             NodeState
<1>8. QED
  BY <1>2, <1>3, <1>4, <1>5, <1>6, <1>7 DEF ConnInv

LEMMA PollCloseDescriptorStep ==
  ASSUME ConnInv, PollCloseDescriptor
  PROVE  ConnInv'
<1>1. /\ poll.at = "unlinked"
      /\ poll.node \in Handle
      /\ socket' = Closed(conn[poll.node].fd)
      /\ watched' = watched \ {poll.node}
      /\ poll' \in [at : {"idle", "close", "unlinked", "fdClosed"}, node : 0 .. MaxHandle]
      /\ poll'.at = "fdClosed"
      /\ poll'.node = poll.node
      /\ UNCHANGED <<conn, handleMax, peer, doing, conns, gone, inbox, batch, touched>>
  BY Values, Nodes, ConnAssumption DEF ConnInv, PollCloseDescriptor, At, Nowhere,
                                       kernel, nodeVars, appSide, PollFrame
<1>2. socket' \in [Fd -> 0 .. MaxHandle] /\ SocketCloses(conn[poll.node].fd)
  BY <1>1, SocketClosed DEF ConnInv
<1>3. ConnShape'
  BY <1>1, <1>2, Values, Nodes, SMTT(60) DEF ConnInv, ConnShape, SocketCloses
<1>4. KnownInv'
  BY <1>1, <1>2, Values, Nodes, SMTT(60) DEF ConnInv, KnownInv, Added, SocketCloses
<1>5. OpeningInv'
  BY <1>1, <1>2, Values, Nodes, SMTT(60) DEF ConnInv, KnownInv, OpeningInv, Opening, Listed,
                                   SocketCloses
<1>6. OneCloser'
  BY <1>1, <1>2, Values, Nodes, SMTT(60) DEF ConnInv, KnownInv, OpeningInv, Opening, OneCloser,
                                   Listed, SocketCloses
<1>7. SocketInv'
  <2>1. (\A n \in Handle : Listed(n) =>
          \/ HasSocket(n)
          \/ \E b \in ConnApp : doing[b].at \in {"connect", "fail"} /\ doing[b].node = n)'
    BY <1>1, <1>2, Values, Nodes, SMTT(60)
       DEF ConnInv, KnownInv, OpeningInv, Opening, OneCloser, SocketInv, HasSocket,
           NoSocket, Stream, Listed, SocketCloses
  <2>2. (\A b \in ConnApp : doing[b].at \in {"connect", "fail"} => NoSocket(doing[b].node))'
    BY <1>1, <1>2, Values, Nodes, SMTT(60)
       DEF ConnInv, KnownInv, OpeningInv, Opening, OneCloser, SocketInv, HasSocket,
           NoSocket, Stream, Listed, SocketCloses
  <2>3. (\A b \in ConnApp : doing[b].at = "watch" => HasSocket(doing[b].node))'
    BY <1>1, <1>2, Values, Nodes, SMTT(60)
       DEF ConnInv, KnownInv, OpeningInv, Opening, OneCloser, SocketInv, HasSocket,
           NoSocket, Stream, Listed, SocketCloses
  <2>4. (\A b \in ConnApp : doing[b].at = "unlinked" => HasSocket(doing[b].node))'
    BY <1>1, <1>2, Values, Nodes, SMTT(60)
       DEF ConnInv, KnownInv, OpeningInv, Opening, OneCloser, SocketInv, HasSocket,
           NoSocket, Stream, Listed, SocketCloses
  <2>5. (\A b \in ConnApp : doing[b].at = "fdClosed" => NoSocket(doing[b].node))'
    BY <1>1, <1>2, Values, Nodes, SMTT(60)
       DEF ConnInv, KnownInv, OpeningInv, Opening, OneCloser, SocketInv, HasSocket,
           NoSocket, Stream, Listed, SocketCloses
  <2>6. (poll.at = "unlinked" => HasSocket(poll.node))'
    BY <1>1, <1>2, Values, Nodes, SMTT(60)
       DEF ConnInv, KnownInv, OpeningInv, Opening, OneCloser, SocketInv, HasSocket,
           NoSocket, Stream, Listed, SocketCloses
  <2>7. (poll.at = "fdClosed" => NoSocket(poll.node))'
    BY <1>1, <1>2, Values, Nodes, SMTT(60)
       DEF ConnInv, KnownInv, OpeningInv, Opening, OneCloser, SocketInv, HasSocket,
           NoSocket, Stream, Listed, SocketCloses
  <2>8. (\A n \in watched : HasSocket(n))'
    BY <1>1, <1>2, Values, Nodes, SMTT(60)
       DEF ConnInv, KnownInv, OpeningInv, Opening, OneCloser, SocketInv, HasSocket,
           NoSocket, Stream, Listed, SocketCloses
  <2>9. (\A n \in batch : conn[n].fd \in Fd)'
    BY <1>1, <1>2, Values, Nodes, SMTT(60)
       DEF ConnInv, KnownInv, OpeningInv, Opening, OneCloser, SocketInv, HasSocket,
           NoSocket, Stream, Listed, SocketCloses
  <2>10. (\A d \in Fd : socket[d] # 0 => conn[socket[d]].st # "freed" /\ conn[socket[d]].fd = d)'
    BY <1>1, <1>2, Values, Nodes, SMTT(60)
       DEF ConnInv, KnownInv, OpeningInv, Opening, OneCloser, SocketInv, HasSocket,
           NoSocket, Stream, Listed, SocketCloses
  <2>11. QED
    BY <2>1, <2>2, <2>3, <2>4, <2>5, <2>6, <2>7, <2>8, <2>9, <2>10 DEF SocketInv
<1>8. HeardInv'
  BY <1>1, <1>2, Values, Nodes, SMTT(60) DEF ConnInv, KnownInv, OpeningInv, Opening, OneCloser,
                                   SocketInv, HasSocket, NoSocket, Stream, HeardInv,
                                   Listed, NodeState, SocketCloses
<1>9. QED
  BY <1>3, <1>4, <1>5, <1>6, <1>7, <1>8 DEF ConnInv

LEMMA PollFreeStep ==
  ASSUME ConnInv, PollFree
  PROVE  ConnInv'
<1>1. /\ poll.at = "fdClosed"
      /\ poll.node \in Handle
      /\ conn' = [conn EXCEPT ![poll.node].st = "freed"]
      /\ poll' \in [at : {"idle", "close", "unlinked", "fdClosed"}, node : 0 .. MaxHandle]
      /\ poll'.at = "idle"
      /\ poll'.node = 0
      /\ UNCHANGED <<handleMax, socket, watched, peer, doing, conns, gone, inbox,
                     batch, touched>>
  BY Values, Nodes, ConnAssumption DEF ConnInv, PollFree, At, Nowhere, kernel, nodeVars,
                                       appSide, PollFrame
<1>2. conn' \in [Handle -> Node] /\ NodeBecomes(poll.node, "freed")
  BY <1>1, StateSet DEF ConnInv, NodeState
<1>3. ConnShape'
  BY <1>1, <1>2, Values, Nodes, SMTT(60) DEF ConnInv, ConnShape, NodeBecomes
<1>4. KnownInv'
  BY <1>1, <1>2, Values, Nodes, SMTT(60) DEF ConnInv, KnownInv, Added, NodeBecomes
<1>5. OpeningInv'
  BY <1>1, <1>2, Values, Nodes, SMTT(60) DEF ConnInv, KnownInv, OpeningInv, Opening, Listed,
                                   NodeBecomes
<1>6. OneCloser'
  BY <1>1, <1>2, Values, Nodes, SMTT(60) DEF ConnInv, KnownInv, OpeningInv, Opening, OneCloser,
                                   Listed, NodeBecomes
<1>7. SocketInv'
  BY <1>1, <1>2, Values, Nodes, SMTT(60) DEF ConnInv, KnownInv, OpeningInv, Opening, OneCloser,
                                   SocketInv, HasSocket, NoSocket, Stream, Listed,
                                   NodeBecomes
<1>8. HeardInv'
  BY <1>1, <1>2, Values, Nodes, SMTT(60) DEF ConnInv, KnownInv, OpeningInv, Opening, OneCloser,
                                   SocketInv, HasSocket, NoSocket, Stream, HeardInv,
                                   Listed, NodeState, NodeBecomes
<1>9. QED
  BY <1>3, <1>4, <1>5, <1>6, <1>7, <1>8 DEF ConnInv

LEMMA PollReceivesStep ==
  ASSUME ConnInv, NEW h \in Handle, PollReceives(h)
  PROVE  ConnInv'
<1>1. /\ poll.at = "idle"
      /\ h \in batch
      /\ conn[h].st # "freed"
      /\ Post(h, "data")
      /\ batch' = batch \ {h}
      /\ peer' \in [Handle -> {"quiet", "data", "hangup"}]
      /\ UNCHANGED <<conn, handleMax, socket, watched, doing, conns, gone, poll,
                     touched>>
  BY Values, Nodes, ConnAssumption DEF ConnInv, PollReceives, ConnShape, kernel,
                                       nodeVars, appSide, PollFrame
<1>2. Stream(h) \in 0 .. MaxHandle
  BY <1>1 DEF ConnInv, ConnShape, SocketInv, Stream
<1>3. inbox' \in [ConnApp -> SUBSET Event] /\ Hears(h)
  BY <1>1, <1>2, EventPosted DEF ConnInv, KnownInv
<1>4. ConnShape'
  BY <1>1, <1>2, <1>3, Values, Nodes, SMTT(60) DEF ConnInv, ConnShape, Hears
<1>5. KnownInv'
  BY <1>1, <1>2, <1>3, Values, Nodes, SMTT(60) DEF ConnInv, KnownInv, Added, Hears
<1>6. OpeningInv'
  BY <1>1, <1>2, <1>3, Values, Nodes, SMTT(60) DEF ConnInv, KnownInv, OpeningInv, Opening, Listed,
                                         Hears
<1>7. OneCloser'
  BY <1>1, <1>2, <1>3, Values, Nodes, SMTT(60) DEF ConnInv, KnownInv, OpeningInv, Opening,
                                         OneCloser, Listed, Hears
<1>8. SocketInv'
  BY <1>1, <1>2, <1>3, Values, Nodes, SMTT(60) DEF ConnInv, KnownInv, OpeningInv, Opening,
                                         OneCloser, SocketInv, HasSocket, NoSocket,
                                         Stream, Listed, Hears
<1>9. HeardInv'
  BY <1>1, <1>2, <1>3, Values, Nodes, SMTT(60) DEF ConnInv, KnownInv, OpeningInv, Opening,
                                         OneCloser, SocketInv, HasSocket, NoSocket,
                                         Stream, HeardInv, Listed, NodeState, Hears
<1>10. QED
  BY <1>4, <1>5, <1>6, <1>7, <1>8, <1>9 DEF ConnInv

LEMMA PollDisconnectedStep ==
  ASSUME ConnInv, NEW h \in Handle, PollDisconnected(h)
  PROVE  ConnInv'
<1>1. /\ poll.at = "idle"
      /\ h \in batch
      /\ conn[h].st # "freed"
      /\ Post(h, "closed")
      /\ batch' = batch \ {h}
      /\ poll' \in [at : {"idle", "close", "unlinked", "fdClosed"}, node : 0 .. MaxHandle]
      /\ poll'.at = "close"
      /\ poll'.node = h
      /\ UNCHANGED <<conn, handleMax, socket, watched, peer, doing, conns, gone,
                     touched>>
  BY Values, Nodes, ConnAssumption DEF ConnInv, PollDisconnected, NothingReceived, At,
                                       Nowhere, kernel, nodeVars, appSide, PollFrame
<1>2. Stream(h) \in 0 .. MaxHandle
  BY <1>1 DEF ConnInv, ConnShape, SocketInv, Stream
<1>3. inbox' \in [ConnApp -> SUBSET Event] /\ Hears(h)
  BY <1>1, <1>2, EventPosted DEF ConnInv, KnownInv
<1>4. ConnShape'
  BY <1>1, <1>2, <1>3, Values, Nodes, SMTT(60) DEF ConnInv, ConnShape, Hears
<1>5. KnownInv'
  BY <1>1, <1>2, <1>3, Values, Nodes, SMTT(60) DEF ConnInv, KnownInv, Added, Hears
<1>6. OpeningInv'
  BY <1>1, <1>2, <1>3, Values, Nodes, SMTT(60) DEF ConnInv, KnownInv, OpeningInv, Opening, Listed,
                                         Hears
<1>7. OneCloser'
  BY <1>1, <1>2, <1>3, Values, Nodes, SMTT(60) DEF ConnInv, KnownInv, OpeningInv, Opening,
                                         OneCloser, Listed, Hears
<1>8. SocketInv'
  BY <1>1, <1>2, <1>3, Values, Nodes, SMTT(60) DEF ConnInv, KnownInv, OpeningInv, Opening,
                                         OneCloser, SocketInv, HasSocket, NoSocket,
                                         Stream, Listed, Hears
<1>9. HeardInv'
  BY <1>1, <1>2, <1>3, Values, Nodes, SMTT(60) DEF ConnInv, KnownInv, OpeningInv, Opening,
                                         OneCloser, SocketInv, HasSocket, NoSocket,
                                         Stream, HeardInv, Listed, NodeState, Hears
<1>10. QED
  BY <1>4, <1>5, <1>6, <1>7, <1>8, <1>9 DEF ConnInv

LEMMA PollNothingStep ==
  ASSUME ConnInv, NEW h \in Handle, PollNothing(h)
  PROVE  ConnInv'
<1>1. /\ batch' \subseteq batch
      /\ UNCHANGED <<conn, handleMax, socket, watched, peer, doing, conns, gone, inbox,
                     poll, touched>>
  BY Values, Nodes, ConnAssumption DEF ConnInv, PollNothing, NothingReceived, kernel,
                                       nodeVars, appSide, PollFrame
<1>2. ConnShape'
  BY <1>1, Values, Nodes, SMTT(60) DEF ConnInv, ConnShape
<1>3. KnownInv'
  BY <1>1, Values, Nodes, SMTT(60) DEF ConnInv, KnownInv, Added
<1>4. OpeningInv'
  BY <1>1, Values, Nodes, SMTT(60) DEF ConnInv, KnownInv, OpeningInv, Opening, Listed
<1>5. OneCloser'
  BY <1>1, Values, Nodes, SMTT(60) DEF ConnInv, KnownInv, OpeningInv, Opening, OneCloser, Listed
<1>6. SocketInv'
  BY <1>1, Values, Nodes, SMTT(60) DEF ConnInv, KnownInv, OpeningInv, Opening, OneCloser,
                             SocketInv, HasSocket, NoSocket, Stream, Listed
<1>7. HeardInv'
  BY <1>1, Values, Nodes, SMTT(60) DEF ConnInv, KnownInv, OpeningInv, Opening, OneCloser,
                             SocketInv, HasSocket, NoSocket, Stream, HeardInv, Listed,
                             NodeState
<1>8. QED
  BY <1>2, <1>3, <1>4, <1>5, <1>6, <1>7 DEF ConnInv

LEMMA OpenConnectionStep ==
  ASSUME ConnInv, NEW a \in ConnApp, NEW type \in ConnType, OpenConnection(a, type)
  PROVE  ConnInv'
<1>1. /\ doing[a].at = "idle"
      /\ handleMax' = handleMax + 1
      /\ handleMax' \in Handle
      /\ handleMax' \notin Added
      /\ Added' = Added \cup {handleMax'}
      /\ handleMax' \in 0 .. MaxHandle
      /\ conn' = [conn EXCEPT ![handleMax'] =
           [st |-> "listed", app |-> a, type |-> type, fd |-> NoFd]]
      /\ doing' = [doing EXCEPT ![a] = At("connect", handleMax')]
      /\ UNCHANGED <<socket, watched, peer, conns, gone, inbox, poll, batch, touched>>
  BY Values, Nodes, ConnAssumption DEF ConnInv, OpenConnection, AddConnection, Goes,
                                       Free, ConnShape, Handle, Added, kernel, nodeVars,
                                       appSide, PollFrame
<1>2. /\ conn' \in [Handle -> Node]
      /\ \A g \in Handle : g # handleMax' => conn'[g] = conn[g]
      /\ conn'[handleMax'].st = "listed" /\ conn'[handleMax'].app = a
  <2> DEFINE n == [st |-> "listed", app |-> a, type |-> type, fd |-> NoFd]
  <2>1. n \in Node /\ n.st = "listed" /\ n.app = a
    BY DEF Node, NodeState
  <2>2. conn' = [conn EXCEPT ![handleMax'] = n] /\ conn \in [Handle -> Node]
    BY <1>1 DEF ConnInv, ConnShape
  <2> HIDE DEF n
  <2>3. QED
    BY <1>1, <2>1, <2>2
<1>3. doing' \in [ConnApp -> Place] /\ ThreadGoes(a, "connect", handleMax')
  BY <1>1, ThreadSet DEF ConnInv, Goes
<1>4. ConnShape'
  BY <1>1, <1>2, <1>3, Values, Nodes, SMTT(60) DEF ConnInv, ConnShape, ThreadGoes
<1>5. KnownInv'
  BY <1>1, <1>2, <1>3, Values, Nodes, SMTT(60) DEF ConnInv, KnownInv, Added, ThreadGoes
<1>6. OpeningInv'
  BY <1>1, <1>2, <1>3, Values, Nodes, SMTT(60) DEF ConnInv, KnownInv, OpeningInv, Opening, Listed,
                                         ThreadGoes
<1>7. OneCloser'
  BY <1>1, <1>2, <1>3, Values, Nodes, SMTT(60) DEF ConnInv, KnownInv, OpeningInv, Opening,
                                         OneCloser, Listed, ThreadGoes
<1>8. SocketInv'
  BY <1>1, <1>2, <1>3, Values, Nodes, SMTT(60) DEF ConnInv, KnownInv, OpeningInv, Opening,
                                         OneCloser, SocketInv, HasSocket, NoSocket,
                                         Stream, Listed, ThreadGoes
<1>9. HeardInv'
  BY <1>1, <1>2, <1>3, Values, Nodes, SMTT(60) DEF ConnInv, KnownInv, OpeningInv, Opening,
                                         OneCloser, SocketInv, HasSocket, NoSocket,
                                         Stream, HeardInv, Listed, NodeState, ThreadGoes
<1>10. QED
  BY <1>4, <1>5, <1>6, <1>7, <1>8, <1>9 DEF ConnInv

LEMMA ConnectedStep ==
  ASSUME ConnInv, NEW a \in ConnApp, NEW f \in Fd, Connected(a, f)
  PROVE  ConnInv'
<1>1. /\ doing[a].at = "connect"
      /\ doing[a].node \in Handle
      /\ doing[a].node \in 0 .. MaxHandle
      /\ socket[f] = 0
      /\ conn' = [conn EXCEPT ![doing[a].node].fd = f]
      /\ Goes(a, "watch", doing[a].node)
      /\ socket' \in [Fd -> 0 .. MaxHandle]
      /\ \A g \in Fd : socket'[g] = IF g = f THEN doing[a].node ELSE socket[g]
      /\ UNCHANGED <<handleMax, watched, peer, conns, gone, inbox, poll, batch,
                     touched>>
  BY Values, Nodes, ConnAssumption DEF ConnInv, Connected, ConnShape, kernel, nodeVars,
                                       appSide, PollFrame
<1>2. doing' \in [ConnApp -> Place] /\ ThreadGoes(a, "watch", doing[a].node)
  BY <1>1, ThreadSet DEF ConnInv
<1>3. /\ conn' \in [Handle -> Node]
      /\ \A g \in Handle :
           /\ conn'[g].fd = IF g = doing[a].node THEN f ELSE conn[g].fd
           /\ conn'[g].app = conn[g].app /\ conn'[g].st = conn[g].st
  BY <1>1, DescriptorSet DEF ConnInv
<1>4. ConnShape'
  BY <1>1, <1>2, <1>3, Values, Nodes, SMTT(60) DEF ConnInv, ConnShape, ThreadGoes
<1>5. KnownInv'
  BY <1>1, <1>2, <1>3, Values, Nodes, SMTT(60) DEF ConnInv, KnownInv, Added, ThreadGoes
<1>6. OpeningInv'
  BY <1>1, <1>2, <1>3, Values, Nodes, SMTT(60) DEF ConnInv, KnownInv, OpeningInv, Opening, Listed,
                                         ThreadGoes
<1>7. OneCloser'
  BY <1>1, <1>2, <1>3, Values, Nodes, SMTT(60) DEF ConnInv, KnownInv, OpeningInv, Opening,
                                         OneCloser, Listed, ThreadGoes
<1>8. SocketInv'
  <2>1. (\A n \in Handle : Listed(n) =>
          \/ HasSocket(n)
          \/ \E b \in ConnApp : doing[b].at \in {"connect", "fail"} /\ doing[b].node = n)'
    BY <1>1, <1>2, <1>3, Values, Nodes, SMTT(60)
       DEF ConnInv, KnownInv, OpeningInv, Opening, OneCloser, SocketInv, HasSocket,
           NoSocket, Stream, Listed, ThreadGoes
  <2>2. (\A b \in ConnApp : doing[b].at \in {"connect", "fail"} => NoSocket(doing[b].node))'
    BY <1>1, <1>2, <1>3, Values, Nodes, SMTT(60)
       DEF ConnInv, KnownInv, OpeningInv, Opening, OneCloser, SocketInv, HasSocket,
           NoSocket, Stream, Listed, ThreadGoes
  <2>3. (\A b \in ConnApp : doing[b].at = "watch" => HasSocket(doing[b].node))'
    BY <1>1, <1>2, <1>3, Values, Nodes, SMTT(60)
       DEF ConnInv, KnownInv, OpeningInv, Opening, OneCloser, SocketInv, HasSocket,
           NoSocket, Stream, Listed, ThreadGoes
  <2>4. (\A b \in ConnApp : doing[b].at = "unlinked" => HasSocket(doing[b].node))'
    BY <1>1, <1>2, <1>3, Values, Nodes, SMTT(60)
       DEF ConnInv, KnownInv, OpeningInv, Opening, OneCloser, SocketInv, HasSocket,
           NoSocket, Stream, Listed, ThreadGoes
  <2>5. (\A b \in ConnApp : doing[b].at = "fdClosed" => NoSocket(doing[b].node))'
    BY <1>1, <1>2, <1>3, Values, Nodes, SMTT(60)
       DEF ConnInv, KnownInv, OpeningInv, Opening, OneCloser, SocketInv, HasSocket,
           NoSocket, Stream, Listed, ThreadGoes
  <2>6. (poll.at = "unlinked" => HasSocket(poll.node))'
    BY <1>1, <1>2, <1>3, Values, Nodes, SMTT(60)
       DEF ConnInv, KnownInv, OpeningInv, Opening, OneCloser, SocketInv, HasSocket,
           NoSocket, Stream, Listed, ThreadGoes
  <2>7. (poll.at = "fdClosed" => NoSocket(poll.node))'
    BY <1>1, <1>2, <1>3, Values, Nodes, SMTT(60)
       DEF ConnInv, KnownInv, OpeningInv, Opening, OneCloser, SocketInv, HasSocket,
           NoSocket, Stream, Listed, ThreadGoes
  <2>8. (\A n \in watched : HasSocket(n))'
    BY <1>1, <1>2, <1>3, Values, Nodes, SMTT(60)
       DEF ConnInv, KnownInv, OpeningInv, Opening, OneCloser, SocketInv, HasSocket,
           NoSocket, Stream, Listed, ThreadGoes
  <2>9. (\A n \in batch : conn[n].fd \in Fd)'
    BY <1>1, <1>2, <1>3, Values, Nodes, SMTT(60)
       DEF ConnInv, KnownInv, OpeningInv, Opening, OneCloser, SocketInv, HasSocket,
           NoSocket, Stream, Listed, ThreadGoes
  <2>10. (\A d \in Fd : socket[d] # 0 => conn[socket[d]].st # "freed" /\ conn[socket[d]].fd = d)'
    BY <1>1, <1>2, <1>3, Values, Nodes, SMTT(60)
       DEF ConnInv, KnownInv, OpeningInv, Opening, OneCloser, SocketInv, HasSocket,
           NoSocket, Stream, Listed, ThreadGoes
  <2>11. QED
    BY <2>1, <2>2, <2>3, <2>4, <2>5, <2>6, <2>7, <2>8, <2>9, <2>10 DEF SocketInv
<1>9. HeardInv'
  BY <1>1, <1>2, <1>3, Values, Nodes, SMTT(60) DEF ConnInv, KnownInv, OpeningInv, Opening,
                                         OneCloser, SocketInv, HasSocket, NoSocket,
                                         Stream, HeardInv, Listed, NodeState, ThreadGoes
<1>10. QED
  BY <1>4, <1>5, <1>6, <1>7, <1>8, <1>9 DEF ConnInv

LEMMA WatchStep ==
  ASSUME ConnInv, NEW a \in ConnApp, Watch(a)
  PROVE  ConnInv'
<1>1. /\ doing[a].at = "watch"
      /\ doing[a].node \in Handle
      /\ watched' = watched \cup {doing[a].node}
      /\ conns' \in [ConnApp -> SUBSET Handle]
      /\ \A b \in ConnApp : conns'[b] = IF b = a THEN conns[b] \cup {doing[a].node} ELSE conns[b]
      /\ Rests(a)
      /\ UNCHANGED <<conn, handleMax, socket, peer, gone, inbox, poll, batch, touched>>
  BY Values, Nodes, ConnAssumption DEF ConnInv, Watch, ConnShape, kernel, nodeVars,
                                       appSide, PollFrame
<1>2. doing' \in [ConnApp -> Place] /\ ThreadGoes(a, "idle", 0)
  BY <1>1, ThreadRests DEF ConnInv
<1>3. ConnShape'
  BY <1>1, <1>2, Values, Nodes, SMTT(60) DEF ConnInv, ConnShape, ThreadGoes
<1>4. KnownInv'
  BY <1>1, <1>2, Values, Nodes, SMTT(60) DEF ConnInv, KnownInv, Added, ThreadGoes
<1>5. OpeningInv'
  BY <1>1, <1>2, Values, Nodes, SMTT(60) DEF ConnInv, KnownInv, OpeningInv, Opening, Listed,
                                   ThreadGoes
<1>6. OneCloser'
  BY <1>1, <1>2, Values, Nodes, SMTT(60) DEF ConnInv, KnownInv, OpeningInv, Opening, OneCloser,
                                   Listed, ThreadGoes
<1>7. SocketInv'
  BY <1>1, <1>2, Values, Nodes, SMTT(60) DEF ConnInv, KnownInv, OpeningInv, Opening, OneCloser,
                                   SocketInv, HasSocket, NoSocket, Stream, Listed,
                                   ThreadGoes
<1>8. HeardInv'
  BY <1>1, <1>2, Values, Nodes, SMTT(60) DEF ConnInv, KnownInv, OpeningInv, Opening, OneCloser,
                                   SocketInv, HasSocket, NoSocket, Stream, HeardInv,
                                   Listed, NodeState, ThreadGoes
<1>9. QED
  BY <1>3, <1>4, <1>5, <1>6, <1>7, <1>8 DEF ConnInv

LEMMA WatchFailsStep ==
  ASSUME ConnInv, NEW a \in ConnApp, WatchFails(a)
  PROVE  ConnInv'
<1>1. /\ doing[a].at = "watch"
      /\ doing[a].node \in Handle
      /\ doing[a].node \in 0 .. MaxHandle
      /\ socket' = Closed(conn[doing[a].node].fd)
      /\ Goes(a, "fail", doing[a].node)
      /\ UNCHANGED <<conn, handleMax, watched, peer, conns, gone, inbox, poll, batch,
                     touched>>
  BY Values, Nodes, ConnAssumption DEF ConnInv, WatchFails, kernel, nodeVars, appSide,
                                       PollFrame
<1>2. socket' \in [Fd -> 0 .. MaxHandle] /\ SocketCloses(conn[doing[a].node].fd)
  BY <1>1, SocketClosed DEF ConnInv
<1>3. doing' \in [ConnApp -> Place] /\ ThreadGoes(a, "fail", doing[a].node)
  BY <1>1, ThreadSet DEF ConnInv
<1>4. ConnShape'
  BY <1>1, <1>2, <1>3, Values, Nodes, SMTT(60) DEF ConnInv, ConnShape, ThreadGoes, SocketCloses
<1>5. KnownInv'
  BY <1>1, <1>2, <1>3, Values, Nodes, SMTT(60) DEF ConnInv, KnownInv, Added, ThreadGoes,
                                         SocketCloses
<1>6. OpeningInv'
  BY <1>1, <1>2, <1>3, Values, Nodes, SMTT(60) DEF ConnInv, KnownInv, OpeningInv, Opening, Listed,
                                         ThreadGoes, SocketCloses
<1>7. OneCloser'
  BY <1>1, <1>2, <1>3, Values, Nodes, SMTT(60) DEF ConnInv, KnownInv, OpeningInv, Opening,
                                         OneCloser, Listed, ThreadGoes, SocketCloses
<1>8. SocketInv'
  <2>1. (\A n \in Handle : Listed(n) =>
          \/ HasSocket(n)
          \/ \E b \in ConnApp : doing[b].at \in {"connect", "fail"} /\ doing[b].node = n)'
    BY <1>1, <1>2, <1>3, Values, Nodes, SMTT(60)
       DEF ConnInv, KnownInv, OpeningInv, Opening, OneCloser, SocketInv, HasSocket,
           NoSocket, Stream, Listed, ThreadGoes, SocketCloses
  <2>2. (\A b \in ConnApp : doing[b].at \in {"connect", "fail"} => NoSocket(doing[b].node))'
    BY <1>1, <1>2, <1>3, Values, Nodes, SMTT(60)
       DEF ConnInv, KnownInv, OpeningInv, Opening, OneCloser, SocketInv, HasSocket,
           NoSocket, Stream, Listed, ThreadGoes, SocketCloses
  <2>3. (\A b \in ConnApp : doing[b].at = "watch" => HasSocket(doing[b].node))'
    BY <1>1, <1>2, <1>3, Values, Nodes, SMTT(60)
       DEF ConnInv, KnownInv, OpeningInv, Opening, OneCloser, SocketInv, HasSocket,
           NoSocket, Stream, Listed, ThreadGoes, SocketCloses
  <2>4. (\A b \in ConnApp : doing[b].at = "unlinked" => HasSocket(doing[b].node))'
    BY <1>1, <1>2, <1>3, Values, Nodes, SMTT(60)
       DEF ConnInv, KnownInv, OpeningInv, Opening, OneCloser, SocketInv, HasSocket,
           NoSocket, Stream, Listed, ThreadGoes, SocketCloses
  <2>5. (\A b \in ConnApp : doing[b].at = "fdClosed" => NoSocket(doing[b].node))'
    BY <1>1, <1>2, <1>3, Values, Nodes, SMTT(60)
       DEF ConnInv, KnownInv, OpeningInv, Opening, OneCloser, SocketInv, HasSocket,
           NoSocket, Stream, Listed, ThreadGoes, SocketCloses
  <2>6. (poll.at = "unlinked" => HasSocket(poll.node))'
    BY <1>1, <1>2, <1>3, Values, Nodes, SMTT(60)
       DEF ConnInv, KnownInv, OpeningInv, Opening, OneCloser, SocketInv, HasSocket,
           NoSocket, Stream, Listed, ThreadGoes, SocketCloses
  <2>7. (poll.at = "fdClosed" => NoSocket(poll.node))'
    BY <1>1, <1>2, <1>3, Values, Nodes, SMTT(60)
       DEF ConnInv, KnownInv, OpeningInv, Opening, OneCloser, SocketInv, HasSocket,
           NoSocket, Stream, Listed, ThreadGoes, SocketCloses
  <2>8. (\A n \in watched : HasSocket(n))'
    BY <1>1, <1>2, <1>3, Values, Nodes, SMTT(60)
       DEF ConnInv, KnownInv, OpeningInv, Opening, OneCloser, SocketInv, HasSocket,
           NoSocket, Stream, Listed, ThreadGoes, SocketCloses
  <2>9. (\A n \in batch : conn[n].fd \in Fd)'
    BY <1>1, <1>2, <1>3, Values, Nodes, SMTT(60)
       DEF ConnInv, KnownInv, OpeningInv, Opening, OneCloser, SocketInv, HasSocket,
           NoSocket, Stream, Listed, ThreadGoes, SocketCloses
  <2>10. (\A d \in Fd : socket[d] # 0 => conn[socket[d]].st # "freed" /\ conn[socket[d]].fd = d)'
    BY <1>1, <1>2, <1>3, Values, Nodes, SMTT(60)
       DEF ConnInv, KnownInv, OpeningInv, Opening, OneCloser, SocketInv, HasSocket,
           NoSocket, Stream, Listed, ThreadGoes, SocketCloses
  <2>11. QED
    BY <2>1, <2>2, <2>3, <2>4, <2>5, <2>6, <2>7, <2>8, <2>9, <2>10 DEF SocketInv
<1>9. HeardInv'
  BY <1>1, <1>2, <1>3, Values, Nodes, SMTT(60) DEF ConnInv, KnownInv, OpeningInv, Opening,
                                         OneCloser, SocketInv, HasSocket, NoSocket,
                                         Stream, HeardInv, Listed, NodeState,
                                         ThreadGoes, SocketCloses
<1>10. QED
  BY <1>4, <1>5, <1>6, <1>7, <1>8, <1>9 DEF ConnInv

LEMMA ConnectFailsStep ==
  ASSUME ConnInv, NEW a \in ConnApp, ConnectFails(a)
  PROVE  ConnInv'
<1>1. /\ doing[a].at = "connect"
      /\ doing[a].node \in 0 .. MaxHandle
      /\ Goes(a, "fail", doing[a].node)
      /\ UNCHANGED <<conn, handleMax, socket, watched, peer, conns, gone, inbox, poll,
                     batch, touched>>
  BY Values, Nodes, ConnAssumption DEF ConnInv, ConnectFails, kernel, nodeVars, appSide,
                                       PollFrame
<1>2. doing' \in [ConnApp -> Place] /\ ThreadGoes(a, "fail", doing[a].node)
  BY <1>1, ThreadSet DEF ConnInv
<1>3. ConnShape'
  BY <1>1, <1>2, Values, Nodes, SMTT(60) DEF ConnInv, ConnShape, ThreadGoes
<1>4. KnownInv'
  BY <1>1, <1>2, Values, Nodes, SMTT(60) DEF ConnInv, KnownInv, Added, ThreadGoes
<1>5. OpeningInv'
  BY <1>1, <1>2, Values, Nodes, SMTT(60) DEF ConnInv, KnownInv, OpeningInv, Opening, Listed,
                                   ThreadGoes
<1>6. OneCloser'
  BY <1>1, <1>2, Values, Nodes, SMTT(60) DEF ConnInv, KnownInv, OpeningInv, Opening, OneCloser,
                                   Listed, ThreadGoes
<1>7. SocketInv'
  BY <1>1, <1>2, Values, Nodes, SMTT(60) DEF ConnInv, KnownInv, OpeningInv, Opening, OneCloser,
                                   SocketInv, HasSocket, NoSocket, Stream, Listed,
                                   ThreadGoes
<1>8. HeardInv'
  BY <1>1, <1>2, Values, Nodes, SMTT(60) DEF ConnInv, KnownInv, OpeningInv, Opening, OneCloser,
                                   SocketInv, HasSocket, NoSocket, Stream, HeardInv,
                                   Listed, NodeState, ThreadGoes
<1>9. QED
  BY <1>3, <1>4, <1>5, <1>6, <1>7, <1>8 DEF ConnInv

LEMMA OpenFailsStep ==
  ASSUME ConnInv, NEW a \in ConnApp, OpenFails(a)
  PROVE  ConnInv'
<1>1. /\ doing[a].at = "fail"
      /\ doing[a].node \in Handle
      /\ conn' = [conn EXCEPT ![doing[a].node].st = "freed"]
      /\ Rests(a)
      /\ UNCHANGED <<handleMax, socket, watched, peer, conns, gone, inbox, poll, batch,
                     touched>>
  BY Values, Nodes, ConnAssumption DEF ConnInv, OpenFails, kernel, nodeVars, appSide,
                                       PollFrame
<1>2. conn' \in [Handle -> Node] /\ NodeBecomes(doing[a].node, "freed")
  BY <1>1, StateSet DEF ConnInv, NodeState
<1>3. doing' \in [ConnApp -> Place] /\ ThreadGoes(a, "idle", 0)
  BY <1>1, ThreadRests DEF ConnInv
<1>4. ConnShape'
  BY <1>1, <1>2, <1>3, Values, Nodes, SMTT(60) DEF ConnInv, ConnShape, NodeBecomes, ThreadGoes
<1>5. KnownInv'
  BY <1>1, <1>2, <1>3, Values, Nodes, SMTT(60) DEF ConnInv, KnownInv, Added, NodeBecomes,
                                         ThreadGoes
<1>6. OpeningInv'
  BY <1>1, <1>2, <1>3, Values, Nodes, SMTT(60) DEF ConnInv, KnownInv, OpeningInv, Opening, Listed,
                                         NodeBecomes, ThreadGoes
<1>7. OneCloser'
  BY <1>1, <1>2, <1>3, Values, Nodes, SMTT(60) DEF ConnInv, KnownInv, OpeningInv, Opening,
                                         OneCloser, Listed, NodeBecomes, ThreadGoes
<1>8. SocketInv'
  BY <1>1, <1>2, <1>3, Values, Nodes, SMTT(60) DEF ConnInv, KnownInv, OpeningInv, Opening,
                                         OneCloser, SocketInv, HasSocket, NoSocket,
                                         Stream, Listed, NodeBecomes, ThreadGoes
<1>9. HeardInv'
  BY <1>1, <1>2, <1>3, Values, Nodes, SMTT(60) DEF ConnInv, KnownInv, OpeningInv, Opening,
                                         OneCloser, SocketInv, HasSocket, NoSocket,
                                         Stream, HeardInv, Listed, NodeState,
                                         NodeBecomes, ThreadGoes
<1>10. QED
  BY <1>4, <1>5, <1>6, <1>7, <1>8, <1>9 DEF ConnInv

LEMMA CloseFoundStep ==
  ASSUME ConnInv, NEW a \in ConnApp, NEW h \in Handle, CloseFound(a, h)
  PROVE  ConnInv'
<1>1. /\ doing[a].at = "idle"
      /\ h \in conns[a]
      /\ Listed(h)
      /\ h \in 0 .. MaxHandle
      /\ conns' \in [ConnApp -> SUBSET Handle]
      /\ \A b \in ConnApp : conns'[b] = IF b = a THEN conns[b] \ {h} ELSE conns[b]
      /\ conn' = [conn EXCEPT ![h].st = "unlinked"]
      /\ Goes(a, "unlinked", h)
      /\ UNCHANGED <<handleMax, socket, watched, peer, gone, inbox, poll, batch,
                     touched>>
  BY Values, Nodes, ConnAssumption DEF ConnInv, CloseFound, CloseConnection, ConnShape,
                                       Free, kernel, nodeVars, appSide, PollFrame
<1>2. conn' \in [Handle -> Node] /\ NodeBecomes(h, "unlinked")
  BY <1>1, StateSet DEF ConnInv, NodeState
<1>3. doing' \in [ConnApp -> Place] /\ ThreadGoes(a, "unlinked", h)
  BY <1>1, ThreadSet DEF ConnInv
<1>4. ConnShape'
  BY <1>1, <1>2, <1>3, Values, Nodes, SMTT(60) DEF ConnInv, ConnShape, NodeBecomes, ThreadGoes
<1>5. KnownInv'
  BY <1>1, <1>2, <1>3, Values, Nodes, SMTT(60) DEF ConnInv, KnownInv, Added, NodeBecomes,
                                         ThreadGoes
<1>6. OpeningInv'
  BY <1>1, <1>2, <1>3, Values, Nodes, SMTT(60) DEF ConnInv, KnownInv, OpeningInv, Opening, Listed,
                                         NodeBecomes, ThreadGoes
<1>7. OneCloser'
  BY <1>1, <1>2, <1>3, Values, Nodes, SMTT(60) DEF ConnInv, KnownInv, OpeningInv, Opening,
                                         OneCloser, Listed, NodeBecomes, ThreadGoes
<1>8. SocketInv'
  BY <1>1, <1>2, <1>3, Values, Nodes, SMTT(60) DEF ConnInv, KnownInv, OpeningInv, Opening,
                                         OneCloser, SocketInv, HasSocket, NoSocket,
                                         Stream, Listed, NodeBecomes, ThreadGoes
<1>9. HeardInv'
  BY <1>1, <1>2, <1>3, Values, Nodes, SMTT(60) DEF ConnInv, KnownInv, OpeningInv, Opening,
                                         OneCloser, SocketInv, HasSocket, NoSocket,
                                         Stream, HeardInv, Listed, NodeState,
                                         NodeBecomes, ThreadGoes
<1>10. QED
  BY <1>4, <1>5, <1>6, <1>7, <1>8, <1>9 DEF ConnInv

LEMMA CloseMissingStep ==
  ASSUME ConnInv, NEW a \in ConnApp, NEW h \in Handle, CloseMissing(a, h)
  PROVE  ConnInv'
<1>1. /\ conns' \in [ConnApp -> SUBSET Handle]
      /\ \A b \in ConnApp : conns'[b] \subseteq conns[b]
      /\ UNCHANGED <<conn, handleMax, socket, watched, peer, doing, gone, inbox, poll,
                     batch, touched>>
  BY Values, Nodes, ConnAssumption DEF ConnInv, CloseMissing, CloseConnection,
                                       ConnShape, Free, kernel, nodeVars, appSide,
                                       PollFrame
<1>2. ConnShape'
  BY <1>1, Values, Nodes, SMTT(60) DEF ConnInv, ConnShape
<1>3. KnownInv'
  BY <1>1, Values, Nodes, SMTT(60) DEF ConnInv, KnownInv, Added
<1>4. OpeningInv'
  BY <1>1, Values, Nodes, SMTT(60) DEF ConnInv, KnownInv, OpeningInv, Opening, Listed
<1>5. OneCloser'
  BY <1>1, Values, Nodes, SMTT(60) DEF ConnInv, KnownInv, OpeningInv, Opening, OneCloser, Listed
<1>6. SocketInv'
  BY <1>1, Values, Nodes, SMTT(60) DEF ConnInv, KnownInv, OpeningInv, Opening, OneCloser,
                             SocketInv, HasSocket, NoSocket, Stream, Listed
<1>7. HeardInv'
  BY <1>1, Values, Nodes, SMTT(60) DEF ConnInv, KnownInv, OpeningInv, Opening, OneCloser,
                             SocketInv, HasSocket, NoSocket, Stream, HeardInv, Listed,
                             NodeState
<1>8. QED
  BY <1>2, <1>3, <1>4, <1>5, <1>6, <1>7 DEF ConnInv

LEMMA FindForUseStep ==
  ASSUME ConnInv, NEW a \in ConnApp, NEW h \in Handle, FindForUse(a, h)
  PROVE  ConnInv'
<1>1. /\ doing[a].at = "idle"
      /\ h \in conns[a]
      /\ h \in 0 .. MaxHandle
      /\ Goes(a, "use", h)
      /\ UNCHANGED <<conn, handleMax, socket, watched, peer, conns, gone, inbox, poll,
                     batch, touched>>
  BY Values, Nodes, ConnAssumption DEF ConnInv, FindForUse, Free, kernel, nodeVars,
                                       appSide, PollFrame
<1>2. doing' \in [ConnApp -> Place] /\ ThreadGoes(a, "use", h)
  BY <1>1, ThreadSet DEF ConnInv
<1>3. ConnShape'
  BY <1>1, <1>2, Values, Nodes, SMTT(60) DEF ConnInv, ConnShape, ThreadGoes
<1>4. KnownInv'
  BY <1>1, <1>2, Values, Nodes, SMTT(60) DEF ConnInv, KnownInv, Added, ThreadGoes
<1>5. OpeningInv'
  BY <1>1, <1>2, Values, Nodes, SMTT(60) DEF ConnInv, KnownInv, OpeningInv, Opening, Listed,
                                   ThreadGoes
<1>6. OneCloser'
  BY <1>1, <1>2, Values, Nodes, SMTT(60) DEF ConnInv, KnownInv, OpeningInv, Opening, OneCloser,
                                   Listed, ThreadGoes
<1>7. SocketInv'
  BY <1>1, <1>2, Values, Nodes, SMTT(60) DEF ConnInv, KnownInv, OpeningInv, Opening, OneCloser,
                                   SocketInv, HasSocket, NoSocket, Stream, Listed,
                                   ThreadGoes
<1>8. HeardInv'
  BY <1>1, <1>2, Values, Nodes, SMTT(60) DEF ConnInv, KnownInv, OpeningInv, Opening, OneCloser,
                                   SocketInv, HasSocket, NoSocket, Stream, HeardInv,
                                   Listed, NodeState, ThreadGoes
<1>9. QED
  BY <1>3, <1>4, <1>5, <1>6, <1>7, <1>8 DEF ConnInv

LEMMA CloseDescriptorStep ==
  ASSUME ConnInv, NEW a \in ConnApp, CloseDescriptor(a)
  PROVE  ConnInv'
<1>1. /\ doing[a].at = "unlinked"
      /\ doing[a].node \in Handle
      /\ doing[a].node \in 0 .. MaxHandle
      /\ socket' = Closed(conn[doing[a].node].fd)
      /\ watched' = watched \ {doing[a].node}
      /\ Goes(a, "fdClosed", doing[a].node)
      /\ UNCHANGED <<conn, handleMax, peer, conns, gone, inbox, poll, batch, touched>>
  BY Values, Nodes, ConnAssumption DEF ConnInv, CloseDescriptor, kernel, nodeVars,
                                       appSide, PollFrame
<1>2. socket' \in [Fd -> 0 .. MaxHandle] /\ SocketCloses(conn[doing[a].node].fd)
  BY <1>1, SocketClosed DEF ConnInv
<1>3. doing' \in [ConnApp -> Place] /\ ThreadGoes(a, "fdClosed", doing[a].node)
  BY <1>1, ThreadSet DEF ConnInv
<1>4. ConnShape'
  BY <1>1, <1>2, <1>3, Values, Nodes, SMTT(60) DEF ConnInv, ConnShape, ThreadGoes, SocketCloses
<1>5. KnownInv'
  BY <1>1, <1>2, <1>3, Values, Nodes, SMTT(60) DEF ConnInv, KnownInv, Added, ThreadGoes,
                                         SocketCloses
<1>6. OpeningInv'
  BY <1>1, <1>2, <1>3, Values, Nodes, SMTT(60) DEF ConnInv, KnownInv, OpeningInv, Opening, Listed,
                                         ThreadGoes, SocketCloses
<1>7. OneCloser'
  BY <1>1, <1>2, <1>3, Values, Nodes, SMTT(60) DEF ConnInv, KnownInv, OpeningInv, Opening,
                                         OneCloser, Listed, ThreadGoes, SocketCloses
<1>8. SocketInv'
  <2>1. (\A n \in Handle : Listed(n) =>
          \/ HasSocket(n)
          \/ \E b \in ConnApp : doing[b].at \in {"connect", "fail"} /\ doing[b].node = n)'
    BY <1>1, <1>2, <1>3, Values, Nodes, SMTT(60)
       DEF ConnInv, KnownInv, OpeningInv, Opening, OneCloser, SocketInv, HasSocket,
           NoSocket, Stream, Listed, ThreadGoes, SocketCloses
  <2>2. (\A b \in ConnApp : doing[b].at \in {"connect", "fail"} => NoSocket(doing[b].node))'
    BY <1>1, <1>2, <1>3, Values, Nodes, SMTT(60)
       DEF ConnInv, KnownInv, OpeningInv, Opening, OneCloser, SocketInv, HasSocket,
           NoSocket, Stream, Listed, ThreadGoes, SocketCloses
  <2>3. (\A b \in ConnApp : doing[b].at = "watch" => HasSocket(doing[b].node))'
    BY <1>1, <1>2, <1>3, Values, Nodes, SMTT(60)
       DEF ConnInv, KnownInv, OpeningInv, Opening, OneCloser, SocketInv, HasSocket,
           NoSocket, Stream, Listed, ThreadGoes, SocketCloses
  <2>4. (\A b \in ConnApp : doing[b].at = "unlinked" => HasSocket(doing[b].node))'
    BY <1>1, <1>2, <1>3, Values, Nodes, SMTT(60)
       DEF ConnInv, KnownInv, OpeningInv, Opening, OneCloser, SocketInv, HasSocket,
           NoSocket, Stream, Listed, ThreadGoes, SocketCloses
  <2>5. (\A b \in ConnApp : doing[b].at = "fdClosed" => NoSocket(doing[b].node))'
    BY <1>1, <1>2, <1>3, Values, Nodes, SMTT(60)
       DEF ConnInv, KnownInv, OpeningInv, Opening, OneCloser, SocketInv, HasSocket,
           NoSocket, Stream, Listed, ThreadGoes, SocketCloses
  <2>6. (poll.at = "unlinked" => HasSocket(poll.node))'
    BY <1>1, <1>2, <1>3, Values, Nodes, SMTT(60)
       DEF ConnInv, KnownInv, OpeningInv, Opening, OneCloser, SocketInv, HasSocket,
           NoSocket, Stream, Listed, ThreadGoes, SocketCloses
  <2>7. (poll.at = "fdClosed" => NoSocket(poll.node))'
    BY <1>1, <1>2, <1>3, Values, Nodes, SMTT(60)
       DEF ConnInv, KnownInv, OpeningInv, Opening, OneCloser, SocketInv, HasSocket,
           NoSocket, Stream, Listed, ThreadGoes, SocketCloses
  <2>8. (\A n \in watched : HasSocket(n))'
    BY <1>1, <1>2, <1>3, Values, Nodes, SMTT(60)
       DEF ConnInv, KnownInv, OpeningInv, Opening, OneCloser, SocketInv, HasSocket,
           NoSocket, Stream, Listed, ThreadGoes, SocketCloses
  <2>9. (\A n \in batch : conn[n].fd \in Fd)'
    BY <1>1, <1>2, <1>3, Values, Nodes, SMTT(60)
       DEF ConnInv, KnownInv, OpeningInv, Opening, OneCloser, SocketInv, HasSocket,
           NoSocket, Stream, Listed, ThreadGoes, SocketCloses
  <2>10. (\A d \in Fd : socket[d] # 0 => conn[socket[d]].st # "freed" /\ conn[socket[d]].fd = d)'
    BY <1>1, <1>2, <1>3, Values, Nodes, SMTT(60)
       DEF ConnInv, KnownInv, OpeningInv, Opening, OneCloser, SocketInv, HasSocket,
           NoSocket, Stream, Listed, ThreadGoes, SocketCloses
  <2>11. QED
    BY <2>1, <2>2, <2>3, <2>4, <2>5, <2>6, <2>7, <2>8, <2>9, <2>10 DEF SocketInv
<1>9. HeardInv'
  BY <1>1, <1>2, <1>3, Values, Nodes, SMTT(60) DEF ConnInv, KnownInv, OpeningInv, Opening,
                                         OneCloser, SocketInv, HasSocket, NoSocket,
                                         Stream, HeardInv, Listed, NodeState,
                                         ThreadGoes, SocketCloses
<1>10. QED
  BY <1>4, <1>5, <1>6, <1>7, <1>8, <1>9 DEF ConnInv

LEMMA FreeNodeStep ==
  ASSUME ConnInv, NEW a \in ConnApp, FreeNode(a)
  PROVE  ConnInv'
<1>1. /\ doing[a].at = "fdClosed"
      /\ doing[a].node \in Handle
      /\ conn' = [conn EXCEPT ![doing[a].node].st = "freed"]
      /\ Rests(a)
      /\ UNCHANGED <<handleMax, socket, watched, peer, conns, gone, inbox, poll, batch,
                     touched>>
  BY Values, Nodes, ConnAssumption DEF ConnInv, FreeNode, kernel, nodeVars, appSide,
                                       PollFrame
<1>2. conn' \in [Handle -> Node] /\ NodeBecomes(doing[a].node, "freed")
  BY <1>1, StateSet DEF ConnInv, NodeState
<1>3. doing' \in [ConnApp -> Place] /\ ThreadGoes(a, "idle", 0)
  BY <1>1, ThreadRests DEF ConnInv
<1>4. ConnShape'
  BY <1>1, <1>2, <1>3, Values, Nodes, SMTT(60) DEF ConnInv, ConnShape, NodeBecomes, ThreadGoes
<1>5. KnownInv'
  BY <1>1, <1>2, <1>3, Values, Nodes, SMTT(60) DEF ConnInv, KnownInv, Added, NodeBecomes,
                                         ThreadGoes
<1>6. OpeningInv'
  BY <1>1, <1>2, <1>3, Values, Nodes, SMTT(60) DEF ConnInv, KnownInv, OpeningInv, Opening, Listed,
                                         NodeBecomes, ThreadGoes
<1>7. OneCloser'
  BY <1>1, <1>2, <1>3, Values, Nodes, SMTT(60) DEF ConnInv, KnownInv, OpeningInv, Opening,
                                         OneCloser, Listed, NodeBecomes, ThreadGoes
<1>8. SocketInv'
  BY <1>1, <1>2, <1>3, Values, Nodes, SMTT(60) DEF ConnInv, KnownInv, OpeningInv, Opening,
                                         OneCloser, SocketInv, HasSocket, NoSocket,
                                         Stream, Listed, NodeBecomes, ThreadGoes
<1>9. HeardInv'
  BY <1>1, <1>2, <1>3, Values, Nodes, SMTT(60) DEF ConnInv, KnownInv, OpeningInv, Opening,
                                         OneCloser, SocketInv, HasSocket, NoSocket,
                                         Stream, HeardInv, Listed, NodeState,
                                         NodeBecomes, ThreadGoes
<1>10. QED
  BY <1>4, <1>5, <1>6, <1>7, <1>8, <1>9 DEF ConnInv

LEMMA UseNodeStep ==
  ASSUME ConnInv, NEW a \in ConnApp, UseNode(a)
  PROVE  ConnInv'
<1>1. /\ doing[a].at = "use"
      /\ touched' \in BOOLEAN
      /\ Rests(a)
      /\ UNCHANGED <<conn, handleMax, socket, watched, peer, conns, gone, inbox, poll,
                     batch>>
  BY Values, Nodes, ConnAssumption DEF ConnInv, UseNode, ConnShape, kernel, nodeVars,
                                       appSide, PollFrame
<1>2. doing' \in [ConnApp -> Place] /\ ThreadGoes(a, "idle", 0)
  BY <1>1, ThreadRests DEF ConnInv
<1>3. ConnShape'
  BY <1>1, <1>2, Values, Nodes, SMTT(60) DEF ConnInv, ConnShape, ThreadGoes
<1>4. KnownInv'
  BY <1>1, <1>2, Values, Nodes, SMTT(60) DEF ConnInv, KnownInv, Added, ThreadGoes
<1>5. OpeningInv'
  BY <1>1, <1>2, Values, Nodes, SMTT(60) DEF ConnInv, KnownInv, OpeningInv, Opening, Listed,
                                   ThreadGoes
<1>6. OneCloser'
  BY <1>1, <1>2, Values, Nodes, SMTT(60) DEF ConnInv, KnownInv, OpeningInv, Opening, OneCloser,
                                   Listed, ThreadGoes
<1>7. SocketInv'
  BY <1>1, <1>2, Values, Nodes, SMTT(60) DEF ConnInv, KnownInv, OpeningInv, Opening, OneCloser,
                                   SocketInv, HasSocket, NoSocket, Stream, Listed,
                                   ThreadGoes
<1>8. HeardInv'
  BY <1>1, <1>2, Values, Nodes, SMTT(60) DEF ConnInv, KnownInv, OpeningInv, Opening, OneCloser,
                                   SocketInv, HasSocket, NoSocket, Stream, HeardInv,
                                   Listed, NodeState, ThreadGoes
<1>9. QED
  BY <1>3, <1>4, <1>5, <1>6, <1>7, <1>8 DEF ConnInv

LEMMA CleanupConnectionsStep ==
  ASSUME ConnInv, NEW a \in ConnApp, CleanupConnections(a)
  PROVE  ConnInv'
<1>1. /\ doing[a].at = "idle"
      /\ gone' \subseteq ConnApp
      /\ watched' = watched \ Of(a)
      /\ conns' \in [ConnApp -> SUBSET Handle]
      /\ \A b \in ConnApp : conns'[b] = IF b = a THEN {} ELSE conns[b]
      /\ inbox' \in [ConnApp -> SUBSET Event]
      /\ \A b \in ConnApp : inbox'[b] = IF b = a THEN {} ELSE inbox[b]
      /\ socket' \in [Fd -> 0 .. MaxHandle]
      /\ \A f \in Fd : socket'[f] = IF \E h \in Of(a) : conn[h].fd = f THEN 0 ELSE socket[f]
      /\ conn' = [h \in Handle |-> IF h \in Of(a) THEN [conn[h] EXCEPT !.st = "freed"]
                                    ELSE conn[h]]
      /\ UNCHANGED <<handleMax, peer, doing, poll, batch, touched>>
  BY Values, Nodes, ConnAssumption DEF ConnInv, CleanupConnections, ConnShape, Free, Of,
                                       kernel, nodeVars, appSide, PollFrame
<1>2. /\ conn' \in [Handle -> Node]
      /\ \A g \in Handle :
           /\ conn'[g].st = IF g \in Of(a) THEN "freed" ELSE conn[g].st
           /\ conn'[g].app = conn[g].app /\ conn'[g].type = conn[g].type
           /\ conn'[g].fd = conn[g].fd
  <2>1. ASSUME NEW g \in Handle
        PROVE  LET n == [conn[g] EXCEPT !.st = "freed"] IN
               /\ n \in Node /\ n.st = "freed" /\ n.app = conn[g].app
               /\ n.type = conn[g].type /\ n.fd = conn[g].fd
    BY ZenonT(30) DEF ConnInv, ConnShape, Node, NodeState
  <2>2. \A g \in Handle : conn'[g] = IF g \in Of(a) THEN [conn[g] EXCEPT !.st = "freed"]
                                      ELSE conn[g]
    BY <1>1
  <2>3. \A g \in Handle : conn[g] \in Node
    BY DEF ConnInv, ConnShape
  <2>4. conn' \in [Handle -> Node]
    BY <1>1, <2>1, <2>3
  <2>5. QED
    BY <2>1, <2>2, <2>4
<1>3. \A f \in Fd : socket'[f] = IF socket[f] \in Of(a) THEN 0 ELSE socket[f]
  <2>1. \A g \in Of(a) : HasSocket(g)
    BY <1>1, Values DEF ConnInv, KnownInv, SocketInv, Of, Listed
  <2>2. \A f \in Fd : socket[f] \in Of(a) => conn[socket[f]].fd = f
    BY Values DEF ConnInv, SocketInv, Of
  <2>3. QED
    BY <1>1, <2>1, <2>2 DEF HasSocket, Stream
<1>4. ConnShape'
  BY <1>1, <1>2, <1>3, Values, Nodes, SMTT(60) DEF ConnInv, ConnShape, Of
<1>5. KnownInv'
  <2>1. (\A n \in Handle : n \in Added <=> conn[n].st # "none")'
    BY <1>1, <1>2, Values DEF ConnInv, KnownInv, Added, Of, Listed
  <2>2. (\A n \in Added : conn[n].app \in ConnApp)'
    BY <1>1, <1>2, Values DEF ConnInv, KnownInv, Added
  <2>3. (\A b \in ConnApp : \A n \in conns[b] : n \in Added /\ conn[n].app = b)'
    BY <1>1, <1>2, Values DEF ConnInv, KnownInv, Added
  <2>4. (\A f \in Fd : socket[f] \in 0 .. handleMax)'
    BY <1>1, Values DEF ConnInv, KnownInv
  <2>5. (\A b \in ConnApp : \A e \in inbox[b] : e.handle \in Added)'
    BY <1>1 DEF ConnInv, KnownInv, Added
  <2>6. QED
    BY <1>1, <1>2, <2>1, <2>2, <2>3, <2>4, <2>5, Values, Nodes, SMTT(60) DEF ConnInv, KnownInv, Added
<1>6. OpeningInv'
  BY <1>1, <1>2, <1>3, Values, Nodes, SMTT(60) DEF ConnInv, KnownInv, OpeningInv, Opening, Listed,
                                         Of
<1>7. OneCloser'
  BY <1>1, <1>2, <1>3, Values, Nodes, SMTT(60) DEF ConnInv, KnownInv, OpeningInv, Opening,
                                         OneCloser, Listed, Of
<1>8. SocketInv'
  <2>1. (\A n \in Handle : Listed(n) =>
          \/ HasSocket(n)
          \/ \E b \in ConnApp : doing[b].at \in {"connect", "fail"} /\ doing[b].node = n)'
    BY <1>1, <1>2, <1>3, Values, Nodes, SMTT(60)
       DEF ConnInv, KnownInv, OpeningInv, Opening, OneCloser, SocketInv, HasSocket,
           NoSocket, Stream, Listed, Of
  <2>2. (\A b \in ConnApp : doing[b].at \in {"connect", "fail"} => NoSocket(doing[b].node))'
    BY <1>1, <1>2, <1>3, Values, Nodes, SMTT(60)
       DEF ConnInv, KnownInv, OpeningInv, Opening, OneCloser, SocketInv, HasSocket,
           NoSocket, Stream, Listed, Of
  <2>3. (\A b \in ConnApp : doing[b].at = "watch" => HasSocket(doing[b].node))'
    BY <1>1, <1>2, <1>3, Values, Nodes, SMTT(60)
       DEF ConnInv, KnownInv, OpeningInv, Opening, OneCloser, SocketInv, HasSocket,
           NoSocket, Stream, Listed, Of
  <2>4. (\A b \in ConnApp : doing[b].at = "unlinked" => HasSocket(doing[b].node))'
    BY <1>1, <1>2, <1>3, Values, Nodes, SMTT(60)
       DEF ConnInv, KnownInv, OpeningInv, Opening, OneCloser, SocketInv, HasSocket,
           NoSocket, Stream, Listed, Of
  <2>5. (\A b \in ConnApp : doing[b].at = "fdClosed" => NoSocket(doing[b].node))'
    BY <1>1, <1>2, <1>3, Values, Nodes, SMTT(60)
       DEF ConnInv, KnownInv, OpeningInv, Opening, OneCloser, SocketInv, HasSocket,
           NoSocket, Stream, Listed, Of
  <2>6. (poll.at = "unlinked" => HasSocket(poll.node))'
    BY <1>1, <1>2, <1>3, Values, Nodes, SMTT(60)
       DEF ConnInv, KnownInv, OpeningInv, Opening, OneCloser, SocketInv, HasSocket,
           NoSocket, Stream, Listed, Of
  <2>7. (poll.at = "fdClosed" => NoSocket(poll.node))'
    BY <1>1, <1>2, <1>3, Values, Nodes, SMTT(60)
       DEF ConnInv, KnownInv, OpeningInv, Opening, OneCloser, SocketInv, HasSocket,
           NoSocket, Stream, Listed, Of
  <2>8. (\A n \in watched : HasSocket(n))'
    BY <1>1, <1>2, <1>3, Values, Nodes, SMTT(60)
       DEF ConnInv, KnownInv, OpeningInv, Opening, OneCloser, SocketInv, HasSocket,
           NoSocket, Stream, Listed, Of
  <2>9. (\A n \in batch : conn[n].fd \in Fd)'
    BY <1>1, <1>2, <1>3, Values, Nodes, SMTT(60)
       DEF ConnInv, KnownInv, OpeningInv, Opening, OneCloser, SocketInv, HasSocket,
           NoSocket, Stream, Listed, Of
  <2>10. (\A d \in Fd : socket[d] # 0 => conn[socket[d]].st # "freed" /\ conn[socket[d]].fd = d)'
    BY <1>1, <1>2, <1>3, Values, Nodes, SMTT(60)
       DEF ConnInv, KnownInv, OpeningInv, Opening, OneCloser, SocketInv, HasSocket,
           NoSocket, Stream, Listed, Of
  <2>11. QED
    BY <2>1, <2>2, <2>3, <2>4, <2>5, <2>6, <2>7, <2>8, <2>9, <2>10 DEF SocketInv
<1>9. HeardInv'
  BY <1>1, <1>2, <1>3, Values, Nodes, SMTT(60) DEF ConnInv, KnownInv, OpeningInv, Opening,
                                         OneCloser, SocketInv, HasSocket, NoSocket,
                                         Stream, HeardInv, Listed, Of, NodeState
<1>10. QED
  BY <1>4, <1>5, <1>6, <1>7, <1>8, <1>9 DEF ConnInv

LEMMA OnConnectionDataStep ==
  ASSUME ConnInv, NEW a \in ConnApp, NEW e \in inbox[a], OnConnectionData(a, e)
  PROVE  ConnInv'
<1>1. /\ inbox' \in [ConnApp -> SUBSET Event]
      /\ \A b \in ConnApp : inbox'[b] \subseteq inbox[b]
      /\ UNCHANGED <<conn, handleMax, socket, watched, peer, doing, conns, gone, poll,
                     batch, touched>>
  BY Values, Nodes, ConnAssumption DEF ConnInv, OnConnectionData, ConnShape, kernel,
                                       nodeVars, appSide, PollFrame
<1>2. ConnShape'
  BY <1>1, Values, Nodes, SMTT(60) DEF ConnInv, ConnShape
<1>3. KnownInv'
  BY <1>1, Values, Nodes, SMTT(60) DEF ConnInv, KnownInv, Added
<1>4. OpeningInv'
  BY <1>1, Values, Nodes, SMTT(60) DEF ConnInv, KnownInv, OpeningInv, Opening, Listed
<1>5. OneCloser'
  BY <1>1, Values, Nodes, SMTT(60) DEF ConnInv, KnownInv, OpeningInv, Opening, OneCloser, Listed
<1>6. SocketInv'
  BY <1>1, Values, Nodes, SMTT(60) DEF ConnInv, KnownInv, OpeningInv, Opening, OneCloser,
                             SocketInv, HasSocket, NoSocket, Stream, Listed
<1>7. HeardInv'
  BY <1>1, Values, Nodes, SMTT(60) DEF ConnInv, KnownInv, OpeningInv, Opening, OneCloser,
                             SocketInv, HasSocket, NoSocket, Stream, HeardInv, Listed,
                             NodeState
<1>8. QED
  BY <1>2, <1>3, <1>4, <1>5, <1>6, <1>7 DEF ConnInv

LEMMA PeerActsStep ==
  ASSUME ConnInv, NEW h \in Handle, NEW what \in {"data", "hangup"}, PeerActs(h, what)
  PROVE  ConnInv'
<1>1. /\ peer' \in [Handle -> {"quiet", "data", "hangup"}]
      /\ UNCHANGED <<conn, handleMax, socket, watched, doing, conns, gone, inbox, poll,
                     batch, touched>>
  BY Values, Nodes, ConnAssumption DEF ConnInv, PeerActs, ConnShape, kernel, nodeVars,
                                       appSide, PollFrame
<1>2. ConnShape'
  BY <1>1, Values, Nodes, SMTT(60) DEF ConnInv, ConnShape
<1>3. KnownInv'
  BY <1>1, Values, Nodes, SMTT(60) DEF ConnInv, KnownInv, Added
<1>4. OpeningInv'
  BY <1>1, Values, Nodes, SMTT(60) DEF ConnInv, KnownInv, OpeningInv, Opening, Listed
<1>5. OneCloser'
  BY <1>1, Values, Nodes, SMTT(60) DEF ConnInv, KnownInv, OpeningInv, Opening, OneCloser, Listed
<1>6. SocketInv'
  BY <1>1, Values, Nodes, SMTT(60) DEF ConnInv, KnownInv, OpeningInv, Opening, OneCloser,
                             SocketInv, HasSocket, NoSocket, Stream, Listed
<1>7. HeardInv'
  BY <1>1, Values, Nodes, SMTT(60) DEF ConnInv, KnownInv, OpeningInv, Opening, OneCloser,
                             SocketInv, HasSocket, NoSocket, Stream, HeardInv, Listed,
                             NodeState
<1>8. QED
  BY <1>2, <1>3, <1>4, <1>5, <1>6, <1>7 DEF ConnInv

LEMMA ConnInvariant == ConnSpec => []ConnInv
<1>1. ConnInit => ConnInv
  <2> SUFFICES ASSUME ConnInit
               PROVE  ConnInv
    OBVIOUS
  <2>1. ConnShape
    <3>0. 0 \in 0 .. MaxHandle
      BY ConnAssumption
    <3>1. conn \in [Handle -> Node]
      BY DEF ConnInit, Node, NodeState, ConnType
    <3>2. doing \in [ConnApp -> Place]
      BY <3>0 DEF ConnInit, Nowhere, Place
    <3>3. poll \in [at : {"idle", "close", "unlinked", "fdClosed"}, node : 0 .. MaxHandle]
      BY <3>0 DEF ConnInit, Nowhere
    <3>4. QED
      BY <3>0, <3>1, <3>2, <3>3 DEF ConnInit, ConnShape
  <2>2. \A h \in Handle : conn[h].st = "none"
    BY DEF ConnInit
  <2>3. poll.at = "idle" /\ \A a \in ConnApp : doing[a].at = "idle" /\ conns[a] = {}
    BY DEF ConnInit, Nowhere
  <2>4. handleMax = 0 /\ watched = {} /\ batch = {} /\ \A f \in Fd : socket[f] = 0
    BY DEF ConnInit
  <2>5. \A a \in ConnApp : inbox[a] = {}
    BY DEF ConnInit
  <2>6. KnownInv
    BY <2>2, <2>3, <2>4, <2>5 DEF KnownInv, Added
  <2>7. OpeningInv /\ OneCloser
    BY <2>3 DEF OpeningInv, Opening, OneCloser
  <2>8. SocketInv /\ HeardInv
    BY <2>2, <2>3, <2>4, <2>5 DEF SocketInv, HeardInv, Listed
  <2>9. QED
    BY <2>1, <2>6, <2>7, <2>8 DEF ConnInv
<1>2. ConnInv /\ [ConnNext]_connVars => ConnInv'
  <2> SUFFICES ASSUME ConnInv, [ConnNext]_connVars
               PROVE  ConnInv'
    OBVIOUS
  <2>1. ASSUME EpollWait
        PROVE  ConnInv'
    BY <2>1, EpollWaitStep
  <2>2. ASSUME PollTouchesFreed
        PROVE  ConnInv'
    BY <2>2, PollTouchesFreedStep
  <2>3. ASSUME PollClose
        PROVE  ConnInv'
    BY <2>3, PollCloseStep
  <2>4. ASSUME PollCloseMissing
        PROVE  ConnInv'
    BY <2>4, PollCloseMissingStep
  <2>5. ASSUME PollCloseDescriptor
        PROVE  ConnInv'
    BY <2>5, PollCloseDescriptorStep
  <2>6. ASSUME PollFree
        PROVE  ConnInv'
    BY <2>6, PollFreeStep
  <2>7. ASSUME NEW h \in Handle, PollReceives(h)
        PROVE  ConnInv'
    BY <2>7, PollReceivesStep
  <2>8. ASSUME NEW h \in Handle, PollDisconnected(h)
        PROVE  ConnInv'
    BY <2>8, PollDisconnectedStep
  <2>9. ASSUME NEW h \in Handle, PollNothing(h)
        PROVE  ConnInv'
    BY <2>9, PollNothingStep
  <2>10. ASSUME NEW a \in ConnApp, NEW type \in ConnType, OpenConnection(a, type)
        PROVE  ConnInv'
    BY <2>10, OpenConnectionStep
  <2>11. ASSUME NEW a \in ConnApp, NEW f \in Fd, Connected(a, f)
        PROVE  ConnInv'
    BY <2>11, ConnectedStep
  <2>12. ASSUME NEW a \in ConnApp, Watch(a)
        PROVE  ConnInv'
    BY <2>12, WatchStep
  <2>13. ASSUME NEW a \in ConnApp, WatchFails(a)
        PROVE  ConnInv'
    BY <2>13, WatchFailsStep
  <2>14. ASSUME NEW a \in ConnApp, ConnectFails(a)
        PROVE  ConnInv'
    BY <2>14, ConnectFailsStep
  <2>15. ASSUME NEW a \in ConnApp, OpenFails(a)
        PROVE  ConnInv'
    BY <2>15, OpenFailsStep
  <2>16. ASSUME NEW a \in ConnApp, NEW h \in Handle, CloseFound(a, h)
        PROVE  ConnInv'
    BY <2>16, CloseFoundStep
  <2>17. ASSUME NEW a \in ConnApp, NEW h \in Handle, CloseMissing(a, h)
        PROVE  ConnInv'
    BY <2>17, CloseMissingStep
  <2>18. ASSUME NEW a \in ConnApp, NEW h \in Handle, FindForUse(a, h)
        PROVE  ConnInv'
    BY <2>18, FindForUseStep
  <2>19. ASSUME NEW a \in ConnApp, CloseDescriptor(a)
        PROVE  ConnInv'
    BY <2>19, CloseDescriptorStep
  <2>20. ASSUME NEW a \in ConnApp, FreeNode(a)
        PROVE  ConnInv'
    BY <2>20, FreeNodeStep
  <2>21. ASSUME NEW a \in ConnApp, UseNode(a)
        PROVE  ConnInv'
    BY <2>21, UseNodeStep
  <2>22. ASSUME NEW a \in ConnApp, CleanupConnections(a)
        PROVE  ConnInv'
    BY <2>22, CleanupConnectionsStep
  <2>23. ASSUME NEW a \in ConnApp, NEW e \in inbox[a], OnConnectionData(a, e)
        PROVE  ConnInv'
    BY <2>23, OnConnectionDataStep
  <2>24. ASSUME NEW h \in Handle, NEW what \in {"data", "hangup"}, PeerActs(h, what)
        PROVE  ConnInv'
    BY <2>24, PeerActsStep
  <2>25. CASE UNCHANGED connVars
    BY <2>25 DEF connVars, nodeVars, kernel, appSide, ConnInv, ConnShape, KnownInv, Added,
       OpeningInv, Opening, OneCloser, SocketInv, HasSocket, NoSocket, Stream, HeardInv, Listed
  <2>26. ASSUME NEW a \in ConnApp, ConnAppNext(a)
        PROVE  ConnInv'
    BY <2>10, <2>11, <2>12, <2>13, <2>14, <2>15, <2>16, <2>17, <2>18, <2>19, <2>20,
       <2>21, <2>22, <2>23, <2>26
       DEF ConnAppNext, CloseFound, CloseMissing
  <2>27. QED
    BY <2>1, <2>2, <2>3, <2>4, <2>5, <2>6, <2>7, <2>8, <2>9, <2>24, <2>25, <2>26 DEF ConnNext, Polling
<1>3. QED
  BY <1>1, <1>2, PTL DEF ConnSpec

\* Every node is unlinked once: who unlinked it closes and frees it, though the
\* application and the polling thread may both have found it (connection_mgr.c).
THEOREM NodesCloseOnce == ConnSpec => []OneCloser
BY ConnInvariant, PTL DEF ConnInv

\* Every open descriptor belongs to one node that is still to be freed, and a node
\* that epoll watches has its own socket, though descriptors are used again.
THEOREM DescriptorsAreOwned == ConnSpec => []DescriptorHasOwner
<1>1. ConnInv => DescriptorHasOwner
  BY DEF ConnInv, SocketInv, HasSocket, DescriptorHasOwner
<1>2. QED
  BY <1>1, ConnInvariant, PTL

\* What a handler is called with came from the peer of its own connection.
THEOREM HandlersHearTheirPeer == ConnSpec => []HandlerHearsPeer
<1>1. ConnInv => HandlerHearsPeer
  BY DEF ConnInv, HeardInv, HandlerHearsPeer
<1>2. QED
  BY <1>1, ConnInvariant, PTL
=============================================================================
