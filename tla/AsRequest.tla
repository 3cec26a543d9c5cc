------------------------------ MODULE AsRequest ------------------------------
(***************************************************************************)
(* The transactions of the AssemblyScript application library              *)
(* (assembly-script/wamr_app_lib/request.ts, timer.ts).                    *)
(*                                                                         *)
(* A request is a transaction in a list and one timer of the library       *)
(* watches the first of them. Unlike the C library, an answer leaves its   *)
(* transaction in the list, and a time-out removes, with the transactions  *)
(* that expired, the last of those that did not: splice(-1, 1). It tells   *)
(* those that expired from the others in two passes over the list, each    *)
(* with a reading of the clock for every transaction: one that expires in  *)
(* between is in neither list, and its handler hears nothing.              *)
(*                                                                         *)
(* The application takes one message at a time; the clock of the runtime   *)
(* is a signed number of AsWrap values and goes on while handlers run.     *)
(* Ids count up and do not wrap, and what is new goes to the end of the    *)
(* list, so the list is the set of its ids: the first is the least and the *)
(* last the greatest.                                                      *)
(***************************************************************************)
EXTENDS Integers, Sequences, FiniteSetsExt

CONSTANTS
  MaxAsked,    \* bound: requests the application sends
  MaxClock,    \* bound: the end of time
  AsBegin,     \* the time at which the application starts
  AsTimeout,   \* TRANSACTION_TIMEOUT_MS
  AsWrap       \* values of a clock reading

ASSUME AsAssumption ==
  /\ {MaxAsked, MaxClock, AsBegin, AsTimeout} \subseteq Nat
  /\ AsWrap \in Nat \ {0} /\ AsTimeout < AsWrap /\ AsBegin <= MaxClock

AsMid   == 1 .. MaxAsked
AsTimer == 1 .. MaxAsked
AsNone  == 0
AsOff   == AsWrap

VARIABLES
  clock,           \* time, of which a reading shows a part
  transactionList, \* transaction_list: the ids of the requests
  askedAt,         \* history: when each request was sent
  asked,           \* g_mid: how many were sent
  transTimer,      \* g_trans_timer
  timerList,       \* timer_list: the ids in it
  runsFor,         \* what each native timer has to run, or AsOff
  timersMade,      \* how many timers there are
  asInbox,         \* the queue of the application
  unanswered,      \* requests that will perhaps be answered
  untested,        \* in transaction_timeout_handler: still to be asked is_expire,
  unkept,          \* and not_expire
  expiring,        \* expired, in transaction_timeout_handler; {AsNone} outside
  told             \* history: how often each handler was told of a time-out

asTimerVars == <<transTimer, timerList, runsFor, timersMade>>
filterVars  == <<untested, unkept>>
asVars == <<clock, transactionList, askedAt, asked, asTimerVars, asInbox, unanswered,
            filterVars, expiring, told>>

AtRest == expiring = {AsNone}

AsInit ==
  /\ clock = AsBegin
  /\ transactionList = {} /\ askedAt = [m \in AsMid |-> 0] /\ asked = 0
  /\ transTimer = AsNone /\ timerList = {} /\ timersMade = 0
  /\ runsFor = [t \in AsTimer |-> AsOff]
  /\ asInbox = <<>> /\ unanswered = {} /\ expiring = {AsNone}
  /\ untested = {} /\ unkept = {}
  /\ told = [m \in AsMid |-> 0]

-----------------------------------------------------------------------------
(* Outside the application.                                                *)

ClockTicks ==
  /\ clock < MaxClock
  /\ \A t \in AsTimer : runsFor[t] # 0
  /\ clock' = clock + 1
  /\ runsFor' = [t \in AsTimer |-> IF runsFor[t] = AsOff THEN AsOff ELSE runsFor[t] - 1]
  /\ UNCHANGED <<transactionList, askedAt, asked, transTimer, timerList, timersMade,
                 asInbox, unanswered, filterVars, expiring, told>>

TimerExpires(t) ==
  /\ runsFor[t] = 0
  /\ runsFor' = [runsFor EXCEPT ![t] = AsOff]
  /\ asInbox' = Append(asInbox, [kind |-> "timer", of |-> t])
  /\ UNCHANGED <<clock, transactionList, askedAt, asked, transTimer, timerList,
                 timersMade, unanswered, filterVars, expiring, told>>

AnswerArrives(m) ==
  /\ m \in unanswered /\ unanswered' = unanswered \ {m}
  /\ asInbox' = Append(asInbox, [kind |-> "response", of |-> m])
  /\ UNCHANGED <<clock, transactionList, askedAt, asked, asTimerVars, filterVars, expiring, told>>

-----------------------------------------------------------------------------
(* The library.                                                            *)

\* What now() gives at a time.
Reading(time) == ((time + AsWrap \div 2) % AsWrap) - AsWrap \div 2

\* The milliseconds since a request, as is_expire and the others compute them.
Passed(m) ==
  LET now == Reading(clock)
      time == Reading(askedAt[m])
  IN IF now < time THEN now + (AsWrap - 1 - time) + 1 ELSE now - time

\* Variant: the timer runs for the whole time-out again.
RestartForWhole(m) == [runsFor EXCEPT ![transTimer] = AsTimeout]

\* timer_restart for what a transaction has left, which the runtime takes for an
\* unsigned number.
RestartFor(m) == [runsFor EXCEPT ![transTimer] = (AsTimeout - Passed(m)) % AsWrap]

\* timer_cancel: the native timer stops and the timer leaves timer_list, but
\* g_trans_timer stays as it is.
Cancelled ==
  /\ runsFor' = IF transTimer = AsNone THEN runsFor ELSE [runsFor EXCEPT ![transTimer] = AsOff]
  /\ timerList' = timerList \ {transTimer}
  /\ UNCHANGED <<transTimer, timersMade>>

\* do_request with transaction_add; only a transaction that is alone gets a timer.
Ask(list) ==
  /\ asked < MaxAsked /\ asked' = asked + 1
  /\ transactionList' = list \cup {asked'}
  /\ askedAt' = [askedAt EXCEPT ![asked'] = clock]
  /\ unanswered' = unanswered \cup {asked'}

\* setTimeout
SetTimeout ==
  /\ timersMade' = timersMade + 1 /\ transTimer' = timersMade'
  /\ timerList' = timerList \cup {timersMade'}
  /\ runsFor' = [runsFor EXCEPT ![timersMade'] = AsTimeout]

TimerForNew(list) == IF list = {} THEN SetTimeout ELSE UNCHANGED asTimerVars

\* post, get, put or del
Request ==
  /\ AtRest
  /\ Ask(transactionList) /\ TimerForNew(transactionList)
  /\ UNCHANGED <<clock, asInbox, filterVars, expiring, told>>

Taken(kind, of) ==
  /\ AtRest /\ asInbox # <<>> /\ Head(asInbox) = [kind |-> kind, of |-> of]
  /\ asInbox' = Tail(asInbox)

\* on_response: the timer is set for the second transaction, and the handler may
\* send a request.
Answer(m) ==
  /\ Taken("response", m)
  /\ IF transactionList # {} /\ Min(transactionList) = m
     THEN IF transactionList # {m}
          THEN runsFor' = RestartFor(Min(transactionList \ {m}))
               /\ UNCHANGED <<transTimer, timerList, timersMade>>
          ELSE Cancelled
     ELSE UNCHANGED asTimerVars
  /\ \/ m \in transactionList /\ Ask(transactionList)
     \/ UNCHANGED <<transactionList, askedAt, asked, unanswered>>
  /\ UNCHANGED <<clock, filterVars, expiring, told>>

\* on_timer_callback for a timer that is not, or no longer, in timer_list.
NoSuchTimer(t) ==
  /\ Taken("timer", t) /\ t \notin timerList
  /\ UNCHANGED <<clock, transactionList, askedAt, asked, asTimerVars, unanswered,
                 filterVars, expiring, told>>

\* transaction_timeout_handler: its two passes over the list begin.
TimeOut(t) ==
  /\ Taken("timer", t) /\ t \in timerList
  /\ untested' = transactionList /\ unkept' = transactionList /\ expiring' = {}
  /\ UNCHANGED <<clock, transactionList, askedAt, asked, asTimerVars, unanswered, told>>

\* The first pass: is_expire reads the clock for a transaction.
TestExpired ==
  LET m == Min(untested) IN
  /\ untested # {} /\ untested' = untested \ {m}
  /\ expiring' = IF Passed(m) >= AsTimeout THEN expiring \cup {m} ELSE expiring
  /\ UNCHANGED <<clock, transactionList, askedAt, asked, asTimerVars, asInbox, unanswered,
                 unkept, told>>

\* The second: not_expire reads it again, and who has expired meanwhile is dropped.
KeepOthers ==
  LET m == Min(unkept) IN
  /\ untested = {} /\ unkept # {} /\ unkept' = unkept \ {m}
  /\ transactionList' = IF Passed(m) < AsTimeout THEN transactionList ELSE transactionList \ {m}
  /\ UNCHANGED <<clock, askedAt, asked, asTimerVars, asInbox, unanswered, untested, expiring,
                 told>>

Filtered == ~AtRest /\ untested = {} /\ unkept = {}

\* transaction_remove: indexOf gives -1 for what is not in the list, and splice then
\* removes the last.
Removed(list, m) == IF m \in list \/ list = {} THEN list \ {m} ELSE list \ {Max(list)}

\* A handler is called and may send a request, which transaction_remove then removes.
TellExpired ==
  LET m == Min(expiring) IN
  /\ Filtered /\ expiring # {}
  /\ told' = [told EXCEPT ![m] = @ + 1]
  /\ expiring' = expiring \ {m}
  /\ \/ /\ asked < MaxAsked /\ asked' = asked + 1
        /\ askedAt' = [askedAt EXCEPT ![asked'] = clock]
        /\ unanswered' = unanswered \cup {asked'}
        /\ TimerForNew(transactionList)
        /\ transactionList' = Removed(transactionList \cup {asked'}, m)
     \/ /\ transactionList' = Removed(transactionList, m)
        /\ UNCHANGED <<askedAt, asked, asTimerVars, unanswered>>
  /\ UNCHANGED <<clock, asInbox, filterVars>>

\* The clock is read again: after slow handlers the first of the list may be late, and
\* its negative rest is a long time for the timer.
EndTimeOut ==
  /\ Filtered /\ expiring = {} /\ expiring' = {AsNone}
  /\ IF transactionList # {}
     THEN runsFor' = RestartFor(Min(transactionList))
          /\ UNCHANGED <<transTimer, timerList, timersMade>>
     ELSE Cancelled
  /\ UNCHANGED <<clock, transactionList, askedAt, asked, asInbox, unanswered, filterVars, told>>

AsNext ==
  \/ ClockTicks \/ Request \/ TestExpired \/ KeepOthers \/ TellExpired \/ EndTimeOut
  \/ \E t \in AsTimer : TimerExpires(t) \/ NoSuchTimer(t) \/ TimeOut(t)
  \/ \E m \in AsMid : AnswerArrives(m) \/ Answer(m)

AsSpec == AsInit /\ [][AsNext]_asVars

-----------------------------------------------------------------------------
\* A handler is told of a time-out once at most and not before its time, though the
\* timer was set for another transaction or the clock went from its greatest number
\* to its least; and as long as the library has its timer in timer_list, no request
\* without an answer waits in the list beyond its time, whatever was answered,
\* expired or lost before. What is left out is a timer restarted for longer than the
\* time-out: handlers so slow that the next request was late when they were done made
\* its interval negative (EndTimeOut), and that request waits for the clock to come
\* round. A request that expires between the two passes is not in the list, and
\* nobody is told.
ToldInTime ==
  /\ \A m \in AsMid : told[m] <= 1 /\ (told[m] = 1 => clock - askedAt[m] >= AsTimeout)
  /\ /\ AtRest /\ asInbox = <<>> /\ transTimer \in timerList /\ \A t \in AsTimer : runsFor[t] # 0
     /\ runsFor[transTimer] \notin AsTimeout + 1 .. AsWrap - 1
     => \A m \in transactionList \cap unanswered : clock - askedAt[m] < AsTimeout
=============================================================================
