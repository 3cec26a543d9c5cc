---------------------------- MODULE SensorManager ----------------------------
(***************************************************************************)
(* Sensors (app-framework/sensor): runtime_sensor.c, its reference thread  *)
(* in sensor_mgr_ref.c and the application library sensor.c.               *)
(*                                                                         *)
(* A sensor has a list of clients, one per application that opened it, and *)
(* a read interval, the least its clients ask for.  A call of an           *)
(* application changes the list under the lock of the sensor, computes the *)
(* interval under the lock, stores it without, and signals the sensor      *)
(* thread.  That thread reads the sensors that are due and walks their     *)
(* clients without any lock.  The manager removes the client of an         *)
(* application that is uninstalled.                                        *)
(***************************************************************************)
EXTENDS Naturals, Sequences, SequencesExt, FiniteSets, FiniteSetsExt

CONSTANTS
  SensorApp,        \* applications
  Sensor,           \* sensors of g_sys_sensors
  DefaultInterval,  \* default_interval of every sensor
  Intervals,        \* what an application may configure, 0 included
  MaxWait,          \* the wait when nothing is to be read (5000 ms)
  MaxSensorCalls,   \* bound: calls of the applications
  Nobody            \* a null pointer

ASSUME SensorAssumption ==
  /\ DefaultInterval \in Intervals /\ Intervals \subseteq 0 .. MaxWait
  /\ MaxWait \in Nat \ {0} /\ MaxSensorCalls \in Nat
  /\ Nobody \notin SensorApp \cup Sensor

VARIABLES
  clients,       \* the list of clients of each sensor, first one first
  interval,      \* the interval of each client
  readInterval,  \* read_interval of each sensor
  elapsed,       \* time since it was read, up to MaxWait
  handles,       \* the nodes of g_sensors, in each application
  call,          \* the native call each application is in
  made,          \* how many calls were made
  reader,        \* where the sensor thread is
  unvisited,     \* the sensors check_sensor_timers has not reached
  reading,       \* the sensor it reads
  client,        \* the client it calls, or Nobody
  nextCheck,     \* ms_to_next_check, then what is left of the wait
  awake,         \* the condition was signalled while the thread waits
  removed,       \* applications uninstalled
  overtaken,     \* history: sensors whose interval was stored over a newer one
  uncovered,     \* history: sensors whose client a cleanup removed
  usedFreed      \* history: the thread followed a client that was freed

readVars == <<reader, unvisited, reading, client, nextCheck>>
listVars   == <<clients, interval>>
sensorVars == <<listVars, readInterval, elapsed, handles, call, made, readVars, awake,
                removed, overtaken, uncovered, usedFreed>>

Idling == [at |-> "idle", on |-> Nobody, value |-> 0, fresh |-> TRUE]
NoCheck == MaxWait + 1     \* UINT32_MAX

SensorTypeOK ==
  /\ clients \in [Sensor -> Seq(SensorApp)]
  /\ \A s \in Sensor : IsInjective(clients[s])
  /\ interval \in [Sensor -> [SensorApp -> Intervals]]
  /\ readInterval \in [Sensor -> Intervals]
  /\ elapsed \in [Sensor -> 0 .. MaxWait]
  /\ handles \in [SensorApp -> SUBSET Sensor]
  /\ \A a \in SensorApp :
       /\ call[a].at \in {"idle", "open", "configure", "close", "store", "wakeup", "add"}
       /\ call[a].on \in Sensor \cup {Nobody} /\ call[a].value \in Intervals
  /\ made \in 0 .. MaxSensorCalls
  /\ reader \in {"start", "visit", "walk", "computed", "wait"}
  /\ unvisited \subseteq Sensor /\ reading \in Sensor \cup {Nobody}
  /\ client \in SensorApp \cup {Nobody} /\ nextCheck \in 0 .. NoCheck
  /\ awake \in BOOLEAN /\ removed \subseteq SensorApp
  /\ overtaken \subseteq Sensor /\ uncovered \subseteq Sensor /\ usedFreed \in BOOLEAN

SensorInit ==
  /\ clients = [s \in Sensor |-> <<>>]
  /\ interval = [s \in Sensor |-> [a \in SensorApp |-> DefaultInterval]]
  /\ readInterval = [s \in Sensor |-> 0] /\ elapsed = [s \in Sensor |-> MaxWait]
  /\ handles = [a \in SensorApp |-> {}] /\ call = [a \in SensorApp |-> Idling]
  /\ made = 0
  /\ reader = "start" /\ unvisited = {} /\ reading = Nobody /\ client = Nobody
  /\ nextCheck = NoCheck /\ awake = FALSE /\ removed = {}
  /\ overtaken = {} /\ uncovered = {} /\ usedFreed = FALSE

Opened(s) == ToSet(clients[s])
Least(s) == IF clients[s] = <<>> THEN DefaultInterval
            ELSE Min({interval[s][a] : a \in Opened(s)})

-----------------------------------------------------------------------------
(* Calls of the applications.                                              *)

CallFrame == <<elapsed, readVars, removed, usedFreed>>

\* The list of s changes under its lock: what others computed is no longer fresh.
ListChanges(a, s, at) ==
  /\ call[a].at = "idle" /\ a \notin removed /\ made < MaxSensorCalls
  /\ made' = made + 1
  /\ call' = [b \in SensorApp |->
       IF b = a THEN [Idling EXCEPT !.at = at, !.on = s]
       ELSE [call[b] EXCEPT !.fresh = @ /\ ~(call[b].at = "store" /\ call[b].on = s)]]
  /\ UNCHANGED <<readInterval, awake, overtaken, uncovered, CallFrame>>

\* wasm_sensor_open: a second open by the same application is refused.
Open(a, s) ==
  /\ a \notin Opened(s)
  /\ clients' = [clients EXCEPT ![s] = <<a>> \o @]
  /\ interval' = [interval EXCEPT ![s][a] = DefaultInterval]
  /\ ListChanges(a, s, "open") /\ UNCHANGED handles

\* wasm_sensor_config, of a sensor the application opened.
Configure(a, s, i) ==
  /\ s \in handles[a] /\ a \in Opened(s)
  /\ interval' = [interval EXCEPT ![s][a] = i]
  /\ ListChanges(a, s, "configure") /\ UNCHANGED <<clients, handles>>

\* The node of the library is removed.
ForgetHandle(a, s) == handles' = [handles EXCEPT ![a] = @ \ {s}]

\* sensor_close: wasm_sensor_close, then the node.
Close(a, s) ==
  /\ s \in handles[a]
  /\ clients' = [clients EXCEPT ![s] = RemoveFirst(@, a)]
  /\ ForgetHandle(a, s)
  /\ ListChanges(a, s, "close") /\ UNCHANGED interval

\* Slip: only the first client counts.
RefreshFirst(a) ==
  /\ call[a].at \in {"open", "configure", "close"}
  /\ LET s == call[a].on IN
       call' = [call EXCEPT ![a].at = "store",
                  ![a].value = IF clients[s] = <<>> THEN DefaultInterval
                               ELSE interval[s][Head(clients[s])]]
  /\ UNCHANGED <<listVars, readInterval, handles, awake, overtaken, uncovered, made, CallFrame>>

\* refresh_read_interval computes the least interval under the lock ...
Refresh(a) ==
  /\ call[a].at \in {"open", "configure", "close"}
  /\ call' = [call EXCEPT ![a].at = "store", ![a].value = Least(call[a].on)]
  /\ UNCHANGED <<listVars, readInterval, handles, awake, overtaken, uncovered, made, CallFrame>>

\* ... and stores it without.
StoreInterval(a) ==
  /\ call[a].at = "store"
  /\ LET s == call[a].on IN
       /\ readInterval' = [readInterval EXCEPT ![s] = call[a].value]
       /\ overtaken' = IF call[a].fresh THEN overtaken \ {s} ELSE overtaken \cup {s}
       /\ uncovered' = IF call[a].fresh THEN uncovered \ {s} ELSE uncovered
  /\ call' = [call EXCEPT ![a].at = "wakeup"]
  /\ UNCHANGED <<listVars, handles, awake, made, CallFrame>>

\* reschedule_sensor_read: cond is signalled without its mutex.
Signal(a) ==
  /\ call[a].at = "wakeup"
  /\ awake' = (awake \/ reader = "wait")
  /\ call' = [call EXCEPT ![a] =
       IF call[a].on \in handles[a] \/ a \notin Opened(call[a].on)
       THEN Idling ELSE [@ EXCEPT !.at = "add"]]
  /\ UNCHANGED <<listVars, readInterval, handles, overtaken, uncovered, made,
                 CallFrame>>

\* sensor_open adds its node; without memory for it, nothing closes the client.
AddHandle(a) ==
  /\ call[a].at = "add"
  /\ \/ handles' = [handles EXCEPT ![a] = @ \cup {call[a].on}]
     \/ UNCHANGED handles
  /\ call' = [call EXCEPT ![a] = Idling]
  /\ UNCHANGED <<listVars, readInterval, awake, overtaken, uncovered, made,
                 CallFrame>>

\* The thread of an application has ended; sensor_cleanup_callback removes its
\* clients and leaves the intervals as they are.
Cleanup(a) ==
  /\ call[a].at = "idle" /\ a \notin removed
  /\ removed' = removed \cup {a}
  /\ clients' = [s \in Sensor |-> RemoveFirst(clients[s], a)]
  /\ uncovered' = uncovered \cup {s \in Sensor : a \in Opened(s)}
  /\ call' = [b \in SensorApp |->
       [call[b] EXCEPT !.fresh = @ /\ ~(call[b].at = "store" /\ a \in Opened(call[b].on))]]
  /\ handles' = [handles EXCEPT ![a] = {}]
  /\ UNCHANGED <<interval, readInterval, elapsed, made, readVars, awake, overtaken, usedFreed>>

-----------------------------------------------------------------------------
(* The sensor thread.                                                      *)

ReaderFrame ==
  UNCHANGED <<listVars, readInterval, handles, call, made, removed, overtaken, uncovered>>

StartCheck ==
  /\ reader = "start" /\ reader' = "visit"
  /\ unvisited' = Sensor /\ nextCheck' = NoCheck
  /\ ReaderFrame /\ UNCHANGED <<elapsed, reading, client, awake, usedFreed>>

\* A sensor without clients or without an interval is skipped.
SkipSensor(s) ==
  /\ reader = "visit" /\ s \in unvisited
  /\ readInterval[s] = 0 \/ clients[s] = <<>>
  /\ unvisited' = unvisited \ {s}
  /\ ReaderFrame /\ UNCHANGED <<elapsed, reader, reading, client, nextCheck, awake, usedFreed>>

NotYetDue(s) ==
  /\ reader = "visit" /\ s \in unvisited
  /\ clients[s] # <<>> /\ elapsed[s] < readInterval[s]
  /\ unvisited' = unvisited \ {s}
  /\ nextCheck' = Min({nextCheck, readInterval[s] - elapsed[s]})
  /\ ReaderFrame /\ UNCHANGED <<elapsed, reader, reading, client, awake, usedFreed>>

IsDue(s) ==
  /\ reader = "visit" /\ s \in unvisited
  /\ clients[s] # <<>> /\ readInterval[s] > 0 /\ elapsed[s] >= readInterval[s]

BeginRead(s) ==
  /\ unvisited' = unvisited \ {s} /\ reading' = s /\ reader' = "walk"
  /\ ReaderFrame /\ UNCHANGED <<elapsed, nextCheck, awake, usedFreed>>

\* The sensor is read and gives data: the walk starts at its first client.
ReadSensor(s) == IsDue(s) /\ client' = Head(clients[s]) /\ BeginRead(s)

\* It gives none: nobody is called, and the sensor counts as read.
ReadNothing(s) == IsDue(s) /\ client' = Nobody /\ BeginRead(s)

\* client_callback posts to the module, and client->next is followed.
CallClient ==
  /\ reader = "walk" /\ client \in Opened(reading)
  /\ client' = LET i == SelectInSeq(clients[reading], LAMBDA b : b = client) IN
       IF i = Len(clients[reading]) THEN Nobody ELSE clients[reading][i + 1]
  /\ ReaderFrame /\ UNCHANGED <<elapsed, reader, unvisited, reading, nextCheck, awake, usedFreed>>

\* The client was freed meanwhile: what is called and followed is undefined.
CallFreedClient ==
  /\ reader = "walk" /\ client # Nobody /\ client \notin Opened(reading)
  /\ client' \in Opened(reading) \cup {Nobody} /\ usedFreed' = TRUE
  /\ ReaderFrame /\ UNCHANGED <<elapsed, reader, unvisited, reading, nextCheck, awake>>

EndSensor ==
  /\ reader = "walk" /\ client = Nobody
  /\ elapsed' = [elapsed EXCEPT ![reading] = 0]
  /\ nextCheck' = Min({nextCheck, readInterval[reading]})
  /\ reading' = Nobody /\ reader' = "visit"
  /\ ReaderFrame /\ UNCHANGED <<unvisited, client, awake, usedFreed>>

\* Slip: with nothing to read the thread waits for a signal.
EndCheckForever ==
  /\ reader = "visit" /\ unvisited = {} /\ reader' = "computed"
  /\ ReaderFrame
  /\ UNCHANGED <<elapsed, unvisited, reading, client, nextCheck, awake, usedFreed>>

\* thread_sensor_check: with nothing to read it waits for five seconds.
EndCheck ==
  /\ reader = "visit" /\ unvisited = {} /\ reader' = "computed"
  /\ nextCheck' = IF nextCheck = NoCheck THEN MaxWait ELSE nextCheck
  /\ ReaderFrame /\ UNCHANGED <<elapsed, unvisited, reading, client, awake, usedFreed>>

StartWait ==
  /\ reader = "computed" /\ reader' = "wait" /\ awake' = FALSE
  /\ ReaderFrame /\ UNCHANGED <<elapsed, unvisited, reading, client, nextCheck, usedFreed>>

EndWait ==
  /\ reader = "wait" /\ (awake \/ nextCheck = 0) /\ reader' = "start"
  /\ ReaderFrame /\ UNCHANGED <<elapsed, unvisited, reading, client, nextCheck, awake, usedFreed>>

\* Time passes while the thread waits or is about to.
SensorTick ==
  /\ reader \in {"computed", "wait"}
  /\ elapsed' = [s \in Sensor |-> Min({elapsed[s] + 1, MaxWait})]
  /\ nextCheck' = IF reader = "wait" /\ nextCheck \in 1 .. MaxWait
                  THEN nextCheck - 1 ELSE nextCheck
  /\ ReaderFrame /\ UNCHANGED <<reader, unvisited, reading, client, awake, usedFreed>>

ReadingThread ==
  \/ StartCheck \/ CallClient \/ CallFreedClient \/ EndSensor \/ EndCheck
  \/ StartWait \/ EndWait
  \/ \E s \in Sensor : SkipSensor(s) \/ NotYetDue(s) \/ ReadSensor(s) \/ ReadNothing(s)

SensorNext ==
  \/ ReadingThread \/ SensorTick
  \/ \E a \in SensorApp :
       Refresh(a) \/ StoreInterval(a) \/ Signal(a) \/ AddHandle(a) \/ Cleanup(a)
  \/ \E a \in SensorApp, s \in Sensor : Open(a, s) \/ Close(a, s)
  \/ \E a \in SensorApp, s \in Sensor, i \in Intervals : Configure(a, s, i)

\* Time does not stop while the thread keeps coming back to its wait.
SensorFairness == WF_sensorVars(ReadingThread) /\ SF_sensorVars(SensorTick)

SensorSpec == SensorInit /\ [][SensorNext]_sensorVars /\ SensorFairness

-----------------------------------------------------------------------------
\* When no call is on its way to refresh it, the read interval is the least its
\* clients ask for, unless a slower call stored an older one over it, or a client
\* was removed with its application.
LeastIsRead ==
  \A s \in Sensor :
    s \in overtaken \cup uncovered \/ clients[s] = <<>>
      \/ (\E a \in SensorApp : call[a].on = s /\ call[a].at # "add")
      \/ readInterval[s] = Least(s)

\* A client of a sensor that has an interval is called again and again, though the
\* signal that tells the thread of it may come before the thread waits. The sensor is
\* assumed to work: it does not give nothing for ever, however often it is read.
ClientServed ==
  \A s \in Sensor :
    SF_sensorVars(ReadSensor(s)) =>
      \A a \in SensorApp :
        a \in Opened(s) ~>
          \/ reading = s /\ client = a
          \/ a \notin Opened(s) \/ readInterval[s] = 0 \/ usedFreed
=============================================================================
