------------------------------ MODULE AppRequest ------------------------------
(***************************************************************************)
(* The request library of an application (app-framework/base/app): each    *)
(* request it sends is a transaction, kept in a list until its response or *)
(* its time-out, and one timer of the library watches the first of them.   *)
(*                                                                         *)
(* The code runs in the thread of the application, one message of its      *)
(* queue at a time; while it runs, time passes, the native timer posts its *)
(* expiry to the queue, and the receivers of the requests post responses.  *)
(* Clock readings are 32 bits wide in the code and wrap around at Wrap     *)
(* here.  The thread is at "spin" when it never leaves transaction_add.    *)
(***************************************************************************)
EXTENDS Integers, Sequences, SequencesExt, FiniteSetsExt

CONSTANTS
  MaxReq,    \* bound: requests the application sends
  MaxTime,   \* bound: the end of time
  Begin,     \* the time at which the application starts
  Timeout,   \* TRANSACTION_TIMEOUT_MS
  Wrap,      \* values of a clock reading
  QueueCap,  \* capacity of the queue of the application
  SendFrom,  \* the callbacks that send requests
  TickAt     \* where time may pass while the thread is there

Mid     == 1 .. MaxReq
Timer   == 1 .. MaxReq
NoMid   == 0
NoTimer == 0
Off     == Wrap
Place   == {"idle", "response", "timeout", "spin"}

ASSUME TimeAssumption ==
  /\ {MaxReq, MaxTime, Begin, Timeout, QueueCap} \subseteq Nat
  /\ Wrap \in Nat \ {0} /\ Timeout < Wrap /\ Begin <= MaxTime

ASSUME PlaceAssumption ==
  SendFrom \subseteq Place \ {"spin"} /\ TickAt \subseteq Place

VARIABLES
  now,           \* time, of which the clock shows a part
  transactions,  \* g_transactions
  timer,         \* g_trans_timer
  left,          \* what each native timer has to run, or Off
  nextTimer,     \* the timer wasm_create_timer gives next
  nextMid,       \* the id init_request gives next
  queue,         \* the queue of the application
  pending,       \* requests that will perhaps be answered
  at,            \* the library callback the thread is in
  current,       \* the transaction whose handler runs
  expired,       \* the list of the same name in transaction_timeout_handler
  sent,          \* history: when each request was sent
  ended          \* history: what each handler was called with

timerVars == <<timer, left, nextTimer>>
appVars   == <<at, current, expired>>
vars == <<now, transactions, timerVars, nextMid, queue, pending, appVars, sent, ended>>

Transaction == [mid : Mid, time : 0 .. Wrap - 1]
QueueItem   == [kind : {"timer"}, id : Timer] \cup [kind : {"response"}, id : Mid]

TypeOK ==
  /\ now \in Begin .. MaxTime
  /\ transactions \in Seq(Transaction)
  /\ timer \in Timer \cup {NoTimer}
  /\ left \in [Timer -> 0 .. Off]
  /\ nextTimer \in 1 .. MaxReq + 1 /\ nextMid \in 1 .. MaxReq + 1
  /\ queue \in Seq(QueueItem)
  /\ pending \subseteq Mid
  /\ at \in Place /\ current \in Mid \cup {NoMid} /\ expired \in Seq(Mid)
  /\ sent \in [Mid -> Nat]
  /\ ended \in [Mid -> Seq({"response", "timeout"})]

Init ==
  /\ now = Begin
  /\ transactions = <<>>
  /\ timer = NoTimer /\ left = [t \in Timer |-> Off] /\ nextTimer = 1
  /\ nextMid = 1
  /\ queue = <<>> /\ pending = {}
  /\ at = "idle" /\ current = NoMid /\ expired = <<>>
  /\ sent = [m \in Mid |-> 0]
  /\ ended = [m \in Mid |-> <<>>]

Clock == now % Wrap

\* bh_post_msg: a full queue refuses the message.
Posted(q, item) == IF Len(q) < QueueCap THEN Append(q, item) ELSE q

-----------------------------------------------------------------------------
(* Outside the application.                                                *)

\* The timer thread posts an expiry before time goes on.
Tick ==
  /\ now < MaxTime /\ at \in TickAt
  /\ \A t \in Timer : left[t] # 0
  /\ now' = now + 1
  /\ left' = [t \in Timer |-> IF left[t] = Off THEN Off ELSE left[t] - 1]
  /\ UNCHANGED <<transactions, timer, nextTimer, nextMid, queue, pending, appVars,
                 sent, ended>>

\* wasm_timer_callback, for a timer that runs once.
Fire(t) ==
  /\ left[t] = 0
  /\ left' = [left EXCEPT ![t] = Off]
  /\ queue' = Posted(queue, [kind |-> "timer", id |-> t])
  /\ UNCHANGED <<now, transactions, timer, nextTimer, nextMid, pending, appVars,
                 sent, ended>>

\* The response to a request arrives, at any time or never.
Respond(m) ==
  /\ m \in pending
  /\ pending' = pending \ {m}
  /\ queue' = Posted(queue, [kind |-> "response", id |-> m])
  /\ UNCHANGED <<now, transactions, timerVars, nextMid, appVars, sent, ended>>

-----------------------------------------------------------------------------
(* The library.                                                            *)

\* Slip: a clock that wrapped around is taken for one that stands still.
ElapsedUnwrapped(tr) == IF Clock < tr.time THEN 0 ELSE Clock - tr.time

Elapsed(tr) == (Clock - tr.time) % Wrap

\* api_timer_restart for what the transaction has left; the difference is
\* unsigned.  Without a timer the id is read through a null pointer, which is an
\* address of the linear memory, and no running timer of the library has it.
Rearm(tr) ==
  /\ left' = IF timer = NoTimer THEN left
             ELSE [left EXCEPT ![timer] = (Timeout - Elapsed(tr)) % Wrap]
  /\ UNCHANGED <<timer, nextTimer>>

\* api_timer_cancel and the reset of g_trans_timer.
CancelTimer ==
  /\ left' = IF timer = NoTimer THEN left ELSE [left EXCEPT ![timer] = Off]
  /\ timer' = NoTimer
  /\ UNCHANGED nextTimer

\* api_timer_create, started at once.
CreateTimer ==
  /\ timer' = nextTimer
  /\ left' = [left EXCEPT ![nextTimer] = Timeout]
  /\ nextTimer' = nextTimer + 1

\* transaction_add, and the timer when the new transaction is the first one.
\* The loop of transaction_add does not advance: with two transactions in the
\* list it never ends.
AddTransaction(tr) ==
  \/ /\ Len(transactions) < 2
     /\ transactions' = Append(transactions, tr)
     /\ IF transactions = <<>> /\ timer = NoTimer
        THEN CreateTimer ELSE UNCHANGED timerVars
     /\ pending' = pending \cup {tr.mid}
     /\ UNCHANGED at
  \/ /\ Len(transactions) >= 2
     /\ at' = "spin"
     /\ UNCHANGED <<transactions, timerVars, pending>>

\* api_send_request, from the handler of a transaction or from any other
\* callback of the application, which starts when the library is idle.
SendRequest ==
  /\ at \in SendFrom
  /\ at = "timeout" => current # NoMid
  /\ nextMid \in Mid
  /\ nextMid' = nextMid + 1
  /\ sent' = [sent EXCEPT ![nextMid] = now]
  /\ AddTransaction([mid |-> nextMid, time |-> Clock])
  /\ UNCHANGED <<now, queue, current, expired, ended>>

\* Calling the response handler of a transaction.
Call(m, how) ==
  /\ current' = m
  /\ ended' = [ended EXCEPT ![m] = Append(@, how)]

Take(kind, id) ==
  /\ at = "idle"
  /\ queue # <<>> /\ Head(queue) = [kind |-> kind, id |-> id]
  /\ queue' = Tail(queue)

IndexOf(m) == {k \in DOMAIN transactions : transactions[k].mid = m}

\* on_response for an id that no transaction has.
OnUnknownResponse(m) ==
  /\ Take("response", m)
  /\ IndexOf(m) = {}
  /\ UNCHANGED <<now, transactions, timerVars, nextMid, pending, appVars, sent, ended>>

\* on_response, up to the call of the handler.
OnResponse(m) ==
  /\ Take("response", m)
  /\ \E k \in IndexOf(m) :
        \/ k > 1 /\ UNCHANGED timerVars
        \/ k = 1 /\ Len(transactions) > 1 /\ Rearm(transactions[2])
        \/ k = 1 /\ Len(transactions) = 1 /\ CancelTimer
  /\ Call(m, "response")
  /\ at' = "response"
  /\ UNCHANGED <<now, transactions, nextMid, pending, expired, sent>>

\* Slip: the transaction stays in the list.
ResponseReturnsKeeping ==
  /\ at = "response"
  /\ at' = "idle" /\ current' = NoMid
  /\ UNCHANGED <<now, transactions, timerVars, nextMid, queue, pending, expired, sent,
                 ended>>

\* The handler returned: transaction_remove.
ResponseReturns ==
  /\ at = "response"
  /\ \E k \in IndexOf(current) : transactions' = RemoveAt(transactions, k)
  /\ at' = "idle" /\ current' = NoMid
  /\ UNCHANGED <<now, timerVars, nextMid, queue, pending, expired, sent, ended>>

\* Slip: every transaction is taken for expired.
ExpiredAll(n) == n = Len(transactions)

\* The first n transactions of the list have expired, and the next one has not.
ExpiredUpTo(n) ==
  /\ \A k \in 1 .. n : Elapsed(transactions[k]) >= Timeout
  /\ n < Len(transactions) => Elapsed(transactions[n + 1]) < Timeout

\* transaction_timeout_handler, up to the first call of a handler: the expired
\* transactions move to a list of their own, the last one first.
OnTimer ==
  /\ Take("timer", timer)
  /\ \E n \in 0 .. Len(transactions) :
        /\ ExpiredUpTo(n)
        /\ expired' = [k \in 1 .. n |-> transactions[n + 1 - k].mid]
        /\ transactions' = SubSeq(transactions, n + 1, Len(transactions))
  /\ at' = "timeout"
  /\ UNCHANGED <<now, timerVars, nextMid, pending, current, sent, ended>>

\* on_timer_callback for a timer that was cancelled meanwhile.
OnCancelledTimer(t) ==
  /\ Take("timer", t)
  /\ t # timer
  /\ UNCHANGED <<now, transactions, timerVars, nextMid, pending, appVars, sent, ended>>

CallExpired ==
  /\ at = "timeout" /\ expired # <<>>
  /\ Call(Head(expired), "timeout")
  /\ expired' = Tail(expired)
  /\ UNCHANGED <<now, transactions, timerVars, nextMid, queue, pending, at, sent>>

\* The end of transaction_timeout_handler, which reads the clock again.
TimeoutReturns ==
  /\ at = "timeout" /\ expired = <<>>
  /\ IF transactions # <<>> THEN Rearm(transactions[1]) ELSE CancelTimer
  /\ at' = "idle" /\ current' = NoMid
  /\ UNCHANGED <<now, transactions, nextMid, queue, pending, expired, sent, ended>>

Next ==
  \/ Tick
  \/ \E t \in Timer : Fire(t) \/ OnCancelledTimer(t)
  \/ \E m \in Mid : Respond(m) \/ OnResponse(m) \/ OnUnknownResponse(m)
  \/ SendRequest
  \/ ResponseReturns \/ OnTimer \/ CallExpired \/ TimeoutReturns

Spec == Init /\ [][Next]_vars

-----------------------------------------------------------------------------
(* Properties.                                                             *)

\* The handler of a request is called at most once, though a response may come
\* after the time-out, or wait in the queue while the timer expires.
HandledOnce == \A m \in Mid : Len(ended[m]) <= 1

\* Once the application has worked off its queue and the timer thread has posted
\* what is due, no request is older than the time-out: the timer was set for
\* the right transaction whatever ended before, and over the wrap of the clock.
OnTime ==
  (at = "idle" /\ queue = <<>> /\ \A t \in Timer : left[t] # 0)
  => \A k \in DOMAIN transactions : now - sent[transactions[k].mid] < Timeout

\* No handler is told of a time-out before its time, although the timer may have
\* been set for a transaction that has ended.
NeverEarly ==
  [][\A m \in Mid :
       ended'[m] = Append(ended[m], "timeout") => now - sent[m] >= Timeout]_vars

\* What comments of the code say, and the code does not do.

\* "new transaction is added to the tail of the list" (request.c).
AddedToTail ==
  [][nextMid' # nextMid
       => transactions' # <<>> /\ Last(transactions').mid = nextMid]_vars

\* "stop the timer since there is no more transactions" (request.c): between two
\* callbacks a library without a timer has no transaction.
NoTimerNoTransaction ==
  at = "idle" /\ timer = NoTimer => transactions = <<>>

\* "restart the timer according to the first transaction" (request.c): when the
\* time-outs were handled, the timer ends no later than the first transaction left.
TimerForFirst ==
  [][(at = "timeout" /\ at' = "idle" /\ transactions # <<>>)
       => now + left'[timer] <= Max({now, sent[transactions[1].mid] + Timeout})]_vars
=============================================================================
