------------------------------ MODULE MCProgress ------------------------------
(***************************************************************************)
(* Instances for TLC of the parts with threads that wait: the timer thread *)
(* of the runtime, its sensor thread, the threads that write to the host,  *)
(* and the host's tool.  They share no state in the code: a behaviour is   *)
(* one of a single part, the others stay as they begin.                    *)
(***************************************************************************)
EXTENDS TimerThread, SensorManager, HostSession, HostTool

VARIABLE part   \* the part this behaviour is of

Parts4 == {"timers", "sensors", "session", "tool"}

progressVars == <<part, timerVars, sensorVars, sessionVars, toolVars>>

\* An owner for each timer: two applications.
OwnerOfTimer == [t \in AppTimer |-> IF t = 1 THEN "p" ELSE "q"]

Init ==
  /\ part \in Parts4
  /\ TimerInit /\ SensorInit /\ SessionInit /\ ToolInit
  /\ part = "session" \/ ~uart

Next ==
  /\ UNCHANGED part
  /\ \/ part = "timers" /\ TimerNext /\ UNCHANGED <<sensorVars, sessionVars, toolVars>>
     \/ part = "sensors" /\ SensorNext /\ UNCHANGED <<timerVars, sessionVars, toolVars>>
     \/ part = "session" /\ SessionNext /\ UNCHANGED <<timerVars, sensorVars, toolVars>>
     \/ part = "tool" /\ ToolNext /\ UNCHANGED <<timerVars, sensorVars, sessionVars>>

\* The fairness of each part, for the behaviours of it.
Fairness ==
  /\ WF_timerVars(part = "timers" /\ TimerLoop)
  /\ WF_timerVars(part = "timers" /\ Tick)
  /\ \A t \in AppTimer : WF_timerVars(part = "timers" /\ Wakeup(t))
  /\ WF_sensorVars(part = "sensors" /\ ReadingThread)
  /\ SF_sensorVars(part = "sensors" /\ SensorTick)
  /\ \A t \in Talker : WF_sessionVars(part = "session" /\ SendStep(t))
  /\ WF_toolVars(part = "tool" /\ SendPart)
  /\ WF_toolVars(part = "tool" /\ ToolStepsOn)
  /\ WF_toolVars(part = "tool" /\ Second)

Spec == Init /\ [][Next]_progressVars /\ Fairness
===============================================================================
