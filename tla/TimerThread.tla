----------------------------- MODULE TimerThread -----------------------------
(***************************************************************************)
(* The timer thread (app-framework/base/native/timer_wrapper.c).  Every    *)
(* application has a context of timers in g_timer_ctx_list.  One thread    *)
(* walks the list with its mutex held, posts the timers that are due, lets *)
(* the mutex go, takes it again and sleeps for as long as it computed.     *)
(* Applications start and cancel their timers meanwhile, and a timer that  *)
(* becomes the first of its context signals the thread.                    *)
(*                                                                         *)
(* The timers of a context are the runtime's (sys_create_timer,            *)
(* check_app_timers); they appear as the library uses them: left[t] is     *)
(* what timer t still has to run.                                          *)
(***************************************************************************)
EXTENDS Integers, FiniteSets

CONSTANTS
  TimerApp,       \* the applications
  AppTimer,       \* their timers
  TimerOwner,     \* the application of each timer
  Periodic,       \* the timers that start again when they are due
  MaxInterval     \* bound: the longest interval

Idle == MaxInterval + 1   \* a timer that does not run, a wait without an end
NoApp == "none"

ASSUME TimerAssumption ==
  /\ MaxInterval \in Nat \ {0}
  /\ TimerOwner \in [AppTimer -> TimerApp]
  /\ Periodic \subseteq AppTimer
  /\ NoApp \notin TimerApp

VARIABLES
  contexts,    \* the owners of the nodes of g_timer_ctx_list
  left,        \* what a timer has to run, or Idle
  loop,        \* where the timer thread is
  unscanned,   \* contexts the walk has not reached
  expired,     \* timers of the present context that are due, not yet posted
  found,       \* the module wasm_timer_callback looked up
  msToExpiry,  \* ms_to_expiry, and then what is left of the wait
  signals,     \* timers whose start still has to signal the thread
  signalled,   \* the condition was signalled while the thread waits
  unheard,     \* history: signals that met no waiter since the wait was computed
  life         \* the module of an application, as far as the thread meets it

loopVars  == <<loop, unscanned, expired, found, msToExpiry>>
timerVars == <<contexts, left, loopVars, signals, signalled, unheard, life>>

TimersOf(a) == {t \in AppTimer : TimerOwner[t] = a}

\* The thread holds g_timer_ctx_list_mutex while it walks.
Held == loop \in {"walk", "callback", "post", "next"}

TimerTypeOK ==
  /\ contexts \subseteq TimerApp
  /\ left \in [AppTimer -> 0 .. Idle]
  /\ loop \in {"start", "walk", "callback", "post", "next", "computed", "wait"}
  /\ unscanned \subseteq TimerApp /\ expired \subseteq AppTimer
  /\ found \in TimerApp \cup {NoApp}
  /\ msToExpiry \in 0 .. Idle
  /\ signals \subseteq AppTimer /\ signalled \in BOOLEAN /\ unheard \subseteq AppTimer
  /\ life \in [TimerApp -> {"new", "listed", "unlisted", "queueless", "freed"}]

TimerInit ==
  /\ contexts = {} /\ left = [t \in AppTimer |-> Idle]
  /\ loop = "start" /\ unscanned = {} /\ expired = {} /\ found = NoApp
  /\ msToExpiry = Idle
  /\ signals = {} /\ signalled = FALSE /\ unheard = {}
  /\ life = [a \in TimerApp |-> "new"]

-----------------------------------------------------------------------------
(* The timer thread.                                                       *)

Begin ==
  /\ loop = "start" /\ loop' = "walk"
  /\ unscanned' = contexts /\ msToExpiry' = Idle /\ unheard' = {}
  /\ UNCHANGED <<contexts, left, expired, found, signals, signalled, life>>

\* check_app_timers takes the timers of a context that are due out of its list.
CheckTimers(a) ==
  /\ loop = "walk" /\ a \in unscanned
  /\ unscanned' = unscanned \ {a}
  /\ expired' = {t \in TimersOf(a) : left[t] = 0}
  /\ left' = [t \in AppTimer |-> IF t \in expired' THEN Idle ELSE left[t]]
  /\ found' = a /\ loop' = "callback"
  /\ UNCHANGED <<contexts, msToExpiry, signals, signalled, unheard, life>>

CallbackFrame ==
  UNCHANGED <<contexts, unscanned, found, msToExpiry, signals, signalled, unheard, life>>

\* The callback of a timer is over; a periodic one runs again.
CallbackReturns(t) ==
  /\ expired' = expired \ {t} /\ loop' = "callback"
  /\ left' = IF t \in Periodic THEN [left EXCEPT ![t] = MaxInterval] ELSE left
  /\ CallbackFrame

\* wasm_timer_callback looks the module up.
LookupModule(t) ==
  /\ loop = "callback" /\ t \in expired /\ life[found] = "listed"
  /\ loop' = "post"
  /\ UNCHANGED <<left, expired>> /\ CallbackFrame

\* Without a module it returns.
LookupNoModule(t) ==
  /\ loop = "callback" /\ t \in expired /\ life[found] # "listed"
  /\ CallbackReturns(t)

\* It posts the expiry to the queue of the module.
PostExpiry(t) ==
  /\ loop = "post" /\ t \in expired
  /\ CallbackReturns(t)

LeastOf(next) == msToExpiry' \in next /\ \A y \in next : msToExpiry' <= y

\* Slip: the last context decides, though it may have no timer that runs.
NextExpiryLast ==
  /\ loop = "callback" /\ expired = {}
  /\ LeastOf({Idle} \cup {left[t] : t \in TimersOf(found)})
  /\ found' = NoApp /\ loop' = "walk"
  /\ UNCHANGED <<contexts, left, unscanned, expired, signals, signalled, unheard, life>>

\* The expiry check_app_timers returns is kept when it is the earliest.
NextExpiry ==
  /\ loop = "callback" /\ expired = {}
  /\ LeastOf({msToExpiry} \cup {left[t] : t \in TimersOf(found)})
  /\ found' = NoApp /\ loop' = "walk"
  /\ UNCHANGED <<contexts, left, unscanned, expired, signals, signalled, unheard, life>>

EndWalk ==
  /\ loop = "walk" /\ unscanned = {} /\ loop' = "computed"
  /\ UNCHANGED <<contexts, left, unscanned, expired, found, msToExpiry, signals,
                 signalled, unheard, life>>

\* The mutex is taken again only now, and given up by os_cond_reltimedwait.
Sleep ==
  /\ loop = "computed" /\ loop' = "wait"
  /\ signalled' = FALSE
  /\ UNCHANGED <<contexts, left, unscanned, expired, found, msToExpiry, signals,
                 unheard, life>>

WakeUp ==
  /\ loop = "wait" /\ (signalled \/ msToExpiry = 0) /\ loop' = "start"
  /\ UNCHANGED <<contexts, left, unscanned, expired, found, msToExpiry, signals,
                 signalled, unheard, life>>

-----------------------------------------------------------------------------
(* The applications and the manager.                                       *)

TimerFrame == UNCHANGED <<loop, unscanned, expired, found>>

\* create_wasm_timer_ctx, during the installation of the application.
CreateContext(a) ==
  /\ life[a] = "new" /\ ~Held
  /\ contexts' = contexts \cup {a}
  /\ life' = [life EXCEPT ![a] = "listed"]
  /\ TimerFrame /\ UNCHANGED <<left, msToExpiry, signals, signalled, unheard>>

\* wasm_create_timer or wasm_timer_restart: a timer that becomes the first of its
\* context is going to signal the thread.
StartTimer(t, interval) ==
  /\ life[TimerOwner[t]] = "listed" /\ signals \cap TimersOf(TimerOwner[t]) = {}
  /\ t \notin expired
  /\ left' = [left EXCEPT ![t] = interval]
  /\ signals' = IF \A s \in TimersOf(TimerOwner[t]) \ {t} : interval < left[s]
                THEN signals \cup {t} ELSE signals
  /\ TimerFrame /\ UNCHANGED <<contexts, msToExpiry, signalled, unheard, life>>

\* wasm_timer_cancel.
CancelTimer(t) ==
  /\ life[TimerOwner[t]] = "listed" /\ t \notin expired
  /\ signals \cap TimersOf(TimerOwner[t]) = {}
  /\ left[t] # Idle
  /\ left' = [left EXCEPT ![t] = Idle]
  /\ TimerFrame /\ UNCHANGED <<contexts, msToExpiry, signals, signalled, unheard, life>>

\* Slip: a signal nobody waits for is thought to have been noticed.
WakeupOnce(t) ==
  /\ t \in signals /\ ~Held
  /\ signals' = signals \ {t}
  /\ UNCHANGED <<signalled, unheard>>
  /\ TimerFrame /\ UNCHANGED <<contexts, left, msToExpiry, life>>

\* wakeup_modules_timer_thread: a signal is heard by a thread that waits.
Wakeup(t) ==
  /\ t \in signals /\ ~Held
  /\ signals' = signals \ {t}
  /\ signalled' = (signalled \/ loop = "wait")
  /\ unheard' = IF loop = "computed" THEN unheard \cup {t} ELSE unheard
  /\ TimerFrame /\ UNCHANGED <<contexts, left, msToExpiry, life>>

\* Slip: the mutex of the list is not taken.
DestroyContextUnlocked(a) ==
  /\ life[a] = "queueless"
  /\ contexts' = contexts \ {a} /\ unscanned' = unscanned \ {a}
  /\ left' = [t \in AppTimer |-> IF t \in TimersOf(a) THEN Idle ELSE left[t]]
  /\ life' = [life EXCEPT ![a] = "freed"]
  /\ UNCHANGED <<loop, expired, found, msToExpiry, signals, signalled, unheard>>

\* destroy_module_timer_ctx, and then APP_MGR_FREE.
DestroyContext(a) ==
  /\ life[a] = "queueless" /\ ~Held
  /\ contexts' = contexts \ {a}
  /\ left' = [t \in AppTimer |-> IF t \in TimersOf(a) THEN Idle ELSE left[t]]
  /\ life' = [life EXCEPT ![a] = "freed"]
  /\ TimerFrame /\ UNCHANGED <<msToExpiry, signals, signalled, unheard>>

\* app_manager_del_module_data, whose thread has ended: the module leaves the list,
\* release_module destroys its queue, and only then its timers.
DeleteModule(a) ==
  /\ life[a] \in {"listed", "unlisted"} /\ signals \cap TimersOf(a) = {}
  /\ life' = [life EXCEPT ![a] = IF @ = "listed" THEN "unlisted" ELSE "queueless"]
  /\ TimerFrame
  /\ UNCHANGED <<contexts, left, msToExpiry, signals, signalled, unheard>>

\* Time passes for the timers that run and for a thread that waits.
Tick ==
  /\ \/ \E t \in AppTimer : left[t] \in 1 .. MaxInterval
     \/ loop = "wait" /\ msToExpiry \in 1 .. MaxInterval
  /\ left' = [t \in AppTimer |-> IF left[t] \in 1 .. MaxInterval THEN left[t] - 1
                                 ELSE left[t]]
  /\ msToExpiry' = IF loop = "wait" /\ msToExpiry \in 1 .. MaxInterval
                   THEN msToExpiry - 1 ELSE msToExpiry
  /\ TimerFrame /\ UNCHANGED <<contexts, signals, signalled, unheard, life>>

TimerLoop ==
  \/ Begin \/ NextExpiry \/ EndWalk \/ Sleep \/ WakeUp
  \/ \E a \in TimerApp : CheckTimers(a)
  \/ \E t \in AppTimer : LookupModule(t) \/ LookupNoModule(t) \/ PostExpiry(t)

TimerNext ==
  \/ TimerLoop \/ Tick
  \/ \E a \in TimerApp : CreateContext(a) \/ DeleteModule(a) \/ DestroyContext(a)
  \/ \E t \in AppTimer : CancelTimer(t) \/ Wakeup(t)
  \/ \E t \in AppTimer, i \in 1 .. MaxInterval : StartTimer(t, i)

TimerFairness ==
  /\ WF_timerVars(TimerLoop) /\ WF_timerVars(Tick)
  /\ \A t \in AppTimer : WF_timerVars(Wakeup(t))

TimerSpec == TimerInit /\ [][TimerNext]_timerVars /\ TimerFairness

-----------------------------------------------------------------------------
\* The module the timer thread looked up is not freed before it posted: the thread
\* has the mutex of the list, which destroy_module_timer_ctx needs first.  (Its queue
\* is destroyed earlier, without the mutex.)
CallbackModuleKept == loop = "post" => life[found] # "freed" /\ found \in contexts

\* The thread sleeps without an end only when no timer of a context runs, unless the
\* signal of that timer is on its way, was heard, or came before the sleep.
NoTimerSleptThrough ==
  loop = "wait" /\ msToExpiry = Idle /\ ~signalled =>
    \A a \in contexts : \A t \in TimersOf(a) :
      left[t] = Idle \/ signals \cap TimersOf(a) # {} \/ unheard \cap TimersOf(a) # {}

\* A timer that runs is due, stopped or started again, if no signal was lost
\* between the computation of the wait and the sleep.
TimerServed ==
  \A t \in AppTimer : left[t] = 0 ~> left[t] # 0 \/ unheard # {}
=============================================================================
