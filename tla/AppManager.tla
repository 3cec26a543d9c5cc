------------------------------ MODULE AppManager ------------------------------
(***************************************************************************)
(* The application manager of the WAMR application framework               *)
(* (src/app-mgr/app-manager).  Three kinds of threads share its state:     *)
(*                                                                         *)
(*   - the host thread, which reads requests from the link and dispatches  *)
(*     them (aee_host_msg_callback, am_dispatch_request);                  *)
(*   - the application manager thread, which serves the management queue   *)
(*     one request at a time (app_manager_queue_callback);                 *)
(*   - one thread per installed application (wasm_app_routine), which      *)
(*     serves the queue of its module and calls the native API.            *)
(*                                                                         *)
(* A thread that sends to a module first looks the module up under         *)
(* module_data_list_lock and then, the lock released, posts to the queue   *)
(* of the module it found: two steps here, because an uninstall can run    *)
(* in between, and a later installation can get the memory of the module   *)
(* that was freed.  A call on the resource list or the event list is one   *)
(* step; URLs are such that none is a prefix of another one.               *)
(***************************************************************************)
EXTENDS Naturals, Sequences, FiniteSets

CONSTANTS
  Name,          \* names of applications
  Url,           \* URLs an application may register as resources
  Event,         \* URLs of events
  Applets,       \* the event "/applets"
  Host,          \* ID_HOST
  MaxId,         \* bound: modules ever added to the list
  MaxMid,        \* bound: requests the host sends
  MaxCalls,      \* bound: native calls one application makes
  MaxApps,       \* MAX_APP_INSTALLATIONS
  MaxResources,  \* RESOURCE_REGISTRATION_NUM_MAX
  QueueCap,      \* capacity of a message queue
  Requests,      \* what the host may ask
  AppEvents,     \* the events applications use
  AppNames,      \* the applications that applications send requests to by name
  Failures,      \* the steps of an installation that may fail, and the event
                 \* that tells the host of the list
  NoName

Id  == 1 .. MaxId
Mid == 1 .. MaxMid
NoId  == 0
NoMid == 0

ManagementOp == {"install", "uninstall", "query", "subscribe", "unsubscribe",
                 "invalid", "foreign"}
HostOp   == ManagementOp \cup {"app", "resource"}
Request  == [op : HostOp, arg : Name \cup Event \cup Url \cup {NoName}]
NoRequest == [op |-> "none", arg |-> NoName]
Step     == {"build", "timers", "thread", "announce"}

ASSUME BoundsAssumption ==
  /\ MaxId \in Nat /\ MaxMid \in Nat /\ MaxCalls \in Nat
  /\ MaxApps \in Nat /\ MaxResources \in Nat /\ QueueCap \in Nat

ASSUME PartyAssumption ==
  /\ Host \notin 0 .. MaxId
  /\ Applets \in Event
  /\ NoName \notin Name

ASSUME RequestAssumption ==
  /\ Requests \subseteq Request
  /\ \A r \in Requests :
        /\ r.op \in {"install", "uninstall", "app"} => r.arg \in Name
        /\ r.op \in {"subscribe", "unsubscribe"} => r.arg \in Event
        /\ r.op = "resource" => r.arg \in Url
  /\ AppEvents \subseteq Event
  /\ AppNames \subseteq Name
  /\ Failures \subseteq Step

VARIABLES
  listed,       \* modules in module_data_list
  name,         \* m_data->module_name
  addr,         \* where m_data is: the id of the module the memory was first for
  released,     \* modules freed by release_module
  nextId,       \* module_id_max
  queue,        \* m_data->queue
  exitFlag,     \* queue->exit_loop_run
  thr,          \* where the thread of the application is
  handling,     \* the message its callback is working on
  calls,        \* native calls it has made
  resources,    \* g_resources
  subscribers,  \* g_events
  out,          \* deliveries a thread has still to make
  ptr,          \* the module a thread has looked up and will post to
  mgrQueue,     \* g_app_mgr_queue
  mgr,          \* where the application manager thread is
  asked,        \* history: what the host asked
  answers,      \* history: the responses the host received
  hostView,     \* history: what the host may take for the list, if anything: the
                \* last "/applets" event since it subscribed, unless that is one
                \* of an application or the manager could not send its own
  crashed       \* a use of freed memory ended the process

modVars  == <<listed, name, addr, released, nextId>>
appVars  == <<exitFlag, thr, handling, calls>>
regVars  == <<resources, subscribers>>
sendVars == <<out, ptr>>
mgrVars  == <<mgrQueue, mgr>>
hostVars == <<asked, answers, hostView>>
vars == <<modVars, queue, appVars, regVars, sendVars, mgrVars, hostVars, crashed>>

Party    == Id \cup {Host}
Thread   == Party
Message  == [kind : {"request", "response", "event", "applets"}, from : Party,
             mid : Mid \cup {NoMid}]
NoMessage == [kind |-> "none", from |-> Host, mid |-> NoMid]
Delivery == [to : Party, msg : Message]
Status   == {"created", "deleted", "content", "error", "app"}
MgrPc    == {"idle", "build", "timers", "thread", "join", "resources",
             "events", "delete", "announce", "answer"}
ThreadPc == {"none", "start", "init", "loop", "wait", "busy", "destroy",
             "exited"}

ModTypeOK ==
  /\ listed \subseteq Id
  /\ name \in [Id -> Name \cup {NoName}]
  /\ addr \in [Id -> Id]
  /\ released \subseteq Id
  /\ nextId \in 1 .. MaxId + 1

AppTypeOK ==
  /\ exitFlag \in [Id -> BOOLEAN]
  /\ thr \in [Id -> ThreadPc]
  /\ handling \in [Id -> Message \cup {NoMessage}]
  /\ calls \in [Id -> Nat]

RegTypeOK ==
  /\ resources \subseteq [url : Url, owner : Id]
  /\ subscribers \subseteq [event : Event, who : Party]

SendTypeOK ==
  /\ out \in [Thread -> SUBSET Delivery]
  /\ ptr \in [Thread -> Id \cup {NoId}]
  /\ queue \in [Id -> Seq(Message)]

MgrTypeOK ==
  /\ mgrQueue \in Seq(Mid)
  /\ mgr \in [pc : MgrPc, mid : Mid \cup {NoMid}, id : Id \cup {NoId}]

HostTypeOK ==
  /\ asked \in [Mid -> Requests \cup {NoRequest}]
  /\ answers \in [Mid -> Seq(Status)]
  /\ hostView \in SUBSET SUBSET Name
  /\ crashed \in BOOLEAN

TypeOK == ModTypeOK /\ AppTypeOK /\ RegTypeOK /\ SendTypeOK /\ MgrTypeOK /\ HostTypeOK

Init ==
  /\ listed = {} /\ released = {} /\ nextId = 1
  /\ name = [i \in Id |-> NoName]
  /\ addr = [i \in Id |-> i]
  /\ queue = [i \in Id |-> <<>>]
  /\ exitFlag = [i \in Id |-> FALSE]
  /\ thr = [i \in Id |-> "none"]
  /\ handling = [i \in Id |-> NoMessage]
  /\ calls = [i \in Id |-> 0]
  /\ resources = {} /\ subscribers = {}
  /\ out = [t \in Thread |-> {}]
  /\ ptr = [t \in Thread |-> NoId]
  /\ mgrQueue = <<>>
  /\ mgr = [pc |-> "idle", mid |-> NoMid, id |-> NoId]
  /\ asked = [m \in Mid |-> NoRequest]
  /\ answers = [m \in Mid |-> <<>>]
  /\ hostView = {}
  /\ crashed = FALSE

\* Slip: the result of strcmp taken for a truth value.
LookupOther(n) == {i \in listed : name[i] # n}

\* module_data_list_lookup: the modules of the list with this name.
Lookup(n) == {i \in listed : name[i] = n}

Names(ids) == {name[i] : i \in ids}

\* event_is_registered.
EventIsRegistered(e) == \E s \in subscribers : s.event = e

\* send_response_to_host, send_error_response_to_host.
Answer(m, status) == answers' = [answers EXCEPT ![m] = Append(@, status)]

-----------------------------------------------------------------------------
(* The host thread.                                                        *)

HostIdle == out[Host] = {}

\* The host numbers its requests 1, 2, ...
Ask(m, r) ==
  /\ HostIdle
  /\ asked[m] = NoRequest
  /\ \A k \in 1 .. m - 1 : asked[k] # NoRequest
  /\ asked' = [asked EXCEPT ![m] = r]

\* A management request is cloned to the queue of the application manager;
\* when the queue is full the post fails and nobody is told.
AskManagement(m, r) ==
  /\ Ask(m, r)
  /\ r.op \in ManagementOp
  /\ mgrQueue' = IF Len(mgrQueue) < QueueCap THEN Append(mgrQueue, m) ELSE mgrQueue
  /\ UNCHANGED <<modVars, queue, appVars, regVars, sendVars, mgr, answers,
                 hostView, crashed>>

\* A request for an application by name.
AskApp(m, r) ==
  /\ Ask(m, r)
  /\ r.op = "app"
  /\ \/ /\ Lookup(r.arg) = {}
        /\ Answer(m, "error")
        /\ UNCHANGED out
     \/ \E i \in Lookup(r.arg) :
           /\ out' = [out EXCEPT ![Host] =
                {[to |-> i, msg |-> [kind |-> "request", from |-> Host, mid |-> m]]}]
           /\ UNCHANGED answers
  /\ UNCHANGED <<modVars, queue, appVars, regVars, ptr, mgrVars, hostView, crashed>>

\* am_dispatch_request: the registered handler of the URL, if there is one.
Dispatch(t, u, msg) ==
  out' = [out EXCEPT ![t] =
            {[to |-> r.owner, msg |-> msg] : r \in {q \in resources : q.url = u}}]

\* A request for a resource; without a handler it is dropped.
AskResource(m, r) ==
  /\ Ask(m, r)
  /\ r.op = "resource"
  /\ Dispatch(Host, r.arg, [kind |-> "request", from |-> Host, mid |-> m])
  /\ UNCHANGED <<modVars, queue, appVars, regVars, ptr, mgrVars, answers,
                 hostView, crashed>>

-----------------------------------------------------------------------------
(* Sending to a module: module_request_handler, am_send_response.          *)

\* Slip: the result of the lookup is not tested.
LookupUntested(t) ==
  /\ ptr[t] = NoId
  /\ \E d \in out[t] : ptr' = [ptr EXCEPT ![t] = d.to]
  /\ UNCHANGED <<modVars, queue, appVars, regVars, out, mgrVars, hostVars, crashed>>

\* The module is in the list: its address is kept, the lock released.
LookupFound(t) ==
  /\ ptr[t] = NoId
  /\ \E d \in out[t] : d.to \in listed /\ ptr' = [ptr EXCEPT ![t] = d.to]
  /\ UNCHANGED <<modVars, queue, appVars, regVars, out, mgrVars, hostVars, crashed>>

\* It is not: a request or an event is dropped, or goes to the host when the
\* host is the subscriber, though an application calls its event "/applets"; a
\* response goes to the host, which reads it as the answer to its request when
\* it is one.
LookupMissing(t) ==
  /\ ptr[t] = NoId
  /\ \E d \in out[t] :
        /\ d.to \notin listed
        /\ out' = [out EXCEPT ![t] = @ \ {d}]
        /\ IF d.msg.kind = "response" /\ d.msg.mid # NoMid
           THEN Answer(d.msg.mid, "app")
           ELSE UNCHANGED answers
        /\ hostView' = IF d.msg.kind = "applets" /\ d.to = Host THEN {} ELSE hostView
  /\ UNCHANGED <<modVars, queue, appVars, regVars, ptr, mgrVars, asked, crashed>>

\* The modules that were added and not freed, and have the memory of module i.
Tenants(i) == {j \in 1 .. nextId - 1 : addr[j] = addr[i] /\ j \notin released}

\* bh_post_msg2 on the queue of the module at the address that was looked up.  A
\* full queue refuses the message.  When the module has been freed meanwhile, a
\* later one that has its memory gets the message; else the post uses freed
\* memory: the message is lost or the process ends.
Post(t) ==
  /\ ptr[t] # NoId
  /\ LET i == ptr[t] IN
     \E d \in out[t] :
        /\ d.to = i
        /\ out' = [out EXCEPT ![t] = @ \ {d}]
        /\ ptr' = [ptr EXCEPT ![t] = NoId]
        /\ \/ \E j \in Tenants(i) :
                 /\ queue' = IF Len(queue[j]) < QueueCap
                             THEN [queue EXCEPT ![j] = Append(@, d.msg)]
                             ELSE queue
                 /\ UNCHANGED crashed
           \/ Tenants(i) = {} /\ crashed' \in BOOLEAN /\ UNCHANGED queue
  /\ UNCHANGED <<modVars, appVars, regVars, mgrVars, hostVars>>

Send(t) == LookupFound(t) \/ LookupMissing(t) \/ Post(t)

-----------------------------------------------------------------------------
(* The application manager thread: app_manager_queue_callback.             *)

Idle == [pc |-> "idle", mid |-> NoMid, id |-> NoId]

\* Slip: the message stays in the queue.
TakeKeeping(m, r) ==
  /\ mgr.pc = "idle"
  /\ mgrQueue # <<>>
  /\ m = Head(mgrQueue)
  /\ r = asked[m]
  /\ mgrQueue' = mgrQueue

\* The request at the head of the queue is m, and it asks for r.
Take(m, r) ==
  /\ mgr.pc = "idle"
  /\ mgrQueue # <<>>
  /\ m = Head(mgrQueue)
  /\ r = asked[m]
  /\ mgrQueue' = Tail(mgrQueue)

\* Slip: the limit is checked as if the new application were counted.
RefusedAbove(r) ==
  \/ r.op = "invalid"
  \/ r.op = "install" /\ (Cardinality(listed) > MaxApps \/ Lookup(r.arg) # {})
  \/ r.op = "uninstall" /\ Lookup(r.arg) = {}
  \/ r.op = "query" /\ r.arg \in Name /\ Lookup(r.arg) = {}

\* Whether the request is answered with an error before it changes anything.
Refused(r) ==
  \/ r.op = "invalid"
  \/ r.op = "install" /\ (Cardinality(listed) >= MaxApps \/ Lookup(r.arg) # {})
  \/ r.op = "uninstall" /\ Lookup(r.arg) = {}
  \/ r.op = "query" /\ r.arg \in Name /\ Lookup(r.arg) = {}

Refuse(m, r) ==
  /\ Take(m, r)
  /\ Refused(r)
  /\ Answer(m, "error")
  /\ UNCHANGED <<modVars, queue, appVars, regVars, sendVars, mgr, asked,
                 hostView, crashed>>

\* app_manager_query_applets.
Query(m, r) ==
  /\ Take(m, r)
  /\ r.op = "query" /\ ~Refused(r)
  /\ Answer(m, "content")
  /\ UNCHANGED <<modVars, queue, appVars, regVars, sendVars, mgr, asked,
                 hostView, crashed>>

\* An uninstallation under a module type without an interface, or with that of
\* libraries, whose operations return false: no handler, no response.
Foreign(m, r) ==
  /\ Take(m, r)
  /\ r.op = "foreign"
  /\ UNCHANGED <<modVars, queue, appVars, regVars, sendVars, mgr, hostVars, crashed>>

\* event_handle_event_request for the host; a new subscription to "/applets"
\* forgets what earlier events said.
Subscribe(m, r) ==
  /\ Take(m, r)
  /\ \/ /\ r.op = "subscribe"
        /\ subscribers' = subscribers \cup {[event |-> r.arg, who |-> Host]}
     \/ /\ r.op = "unsubscribe"
        /\ subscribers' = subscribers \ {[event |-> r.arg, who |-> Host]}
  /\ hostView' = IF r.arg = Applets THEN {} ELSE hostView
  /\ Answer(m, "content")
  /\ UNCHANGED <<modVars, queue, appVars, resources, sendVars, mgr, asked, crashed>>

\* The checks of an installation passed.
BeginInstall(m, r) ==
  /\ Take(m, r)
  /\ r.op = "install" /\ ~Refused(r)
  /\ mgr' = [pc |-> "build", mid |-> m, id |-> NoId]
  /\ UNCHANGED <<modVars, queue, appVars, regVars, sendVars, hostVars, crashed>>

\* Loading, instantiation, or an allocation failed before the module was added.
BuildFails ==
  /\ mgr.pc = "build" /\ "build" \in Failures
  /\ Answer(mgr.mid, "error")
  /\ mgr' = Idle
  /\ UNCHANGED <<modVars, queue, appVars, regVars, sendVars, mgrQueue, asked,
                 hostView, crashed>>

\* Memory for a new module: new, or what a freed one had and none of the list has.  A
\* freed module that stays in the list is taken to stay as it is.
FreeMemory == {nextId} \cup ({addr[i] : i \in released} \ {addr[i] : i \in listed})

\* module_data_list_add.
AddModule ==
  /\ mgr.pc = "build" /\ nextId \in Id
  /\ nextId' = nextId + 1
  /\ listed' = listed \cup {nextId}
  /\ name' = [name EXCEPT ![nextId] = asked[mgr.mid].arg]
  /\ \E a \in FreeMemory : addr' = [addr EXCEPT ![nextId] = a]
  /\ mgr' = [mgr EXCEPT !.pc = "timers", !.id = nextId]
  /\ UNCHANGED <<released, queue, appVars, regVars, sendVars, mgrQueue,
                 hostVars, crashed>>

\* Slip: success is reported before the thread is created.
TimersCreatedDone ==
  /\ mgr.pc = "timers"
  /\ mgr' = [mgr EXCEPT !.pc = "announce"]
  /\ UNCHANGED <<modVars, queue, appVars, regVars, sendVars, mgrQueue, hostVars,
                 crashed>>

TimersCreated ==
  /\ mgr.pc = "timers"
  /\ mgr' = [mgr EXCEPT !.pc = "thread"]
  /\ UNCHANGED <<modVars, queue, appVars, regVars, sendVars, mgrQueue, hostVars,
                 crashed>>

\* create_wasm_timer_ctx failed: the module is freed and stays in the list, where
\* it is taken to keep the name and the id it had.
TimersFail ==
  /\ mgr.pc = "timers" /\ "timers" \in Failures
  /\ released' = released \cup {mgr.id}
  /\ Answer(mgr.mid, "error")
  /\ mgr' = Idle
  /\ UNCHANGED <<listed, name, addr, nextId, queue, appVars, regVars, sendVars,
                 mgrQueue, asked, hostView, crashed>>

ThreadCreated ==
  /\ mgr.pc = "thread"
  /\ thr' = [thr EXCEPT ![mgr.id] = "start"]
  /\ mgr' = [mgr EXCEPT !.pc = "announce"]
  /\ UNCHANGED <<modVars, queue, exitFlag, handling, calls, regVars, sendVars,
                 mgrQueue, hostVars, crashed>>

\* Slip: the module is freed and stays in the list.
ThreadFailsListed ==
  /\ mgr.pc = "thread" /\ "thread" \in Failures
  /\ released' = released \cup {mgr.id}
  /\ queue' = [queue EXCEPT ![mgr.id] = <<>>]
  /\ Answer(mgr.mid, "error")
  /\ mgr' = Idle
  /\ UNCHANGED <<listed, name, addr, nextId, appVars, regVars, sendVars, mgrQueue,
                 asked, hostView, crashed>>

\* Slip: the error path is not left after the response.
ThreadFailsThrough ==
  /\ mgr.pc = "thread" /\ "thread" \in Failures
  /\ listed' = listed \ {mgr.id}
  /\ Answer(mgr.mid, "error")
  /\ mgr' = [mgr EXCEPT !.pc = "announce"]
  /\ UNCHANGED <<name, addr, released, nextId, queue, appVars, regVars, sendVars,
                 mgrQueue, asked, hostView, crashed>>

\* os_thread_create failed: the module leaves the list and is freed.
ThreadFails ==
  /\ mgr.pc = "thread" /\ "thread" \in Failures
  /\ listed' = listed \ {mgr.id}
  /\ released' = released \cup {mgr.id}
  /\ queue' = [queue EXCEPT ![mgr.id] = <<>>]
  /\ Answer(mgr.mid, "error")
  /\ mgr' = Idle
  /\ UNCHANGED <<name, addr, nextId, appVars, regVars, sendVars, mgrQueue, asked,
                 hostView, crashed>>

\* Slip: the thread is joined without being told to leave its loop.
BeginUninstallSilent(m, r) ==
  /\ Take(m, r)
  /\ r.op = "uninstall"
  /\ \E i \in Lookup(r.arg) : mgr' = [pc |-> "join", mid |-> m, id |-> i]
  /\ UNCHANGED <<modVars, queue, appVars, regVars, sendVars, hostVars, crashed>>

\* The application to uninstall is told to leave its loop.  The queue of a
\* freed module may be anything: the process ends, or the join waits for ever.
BeginUninstall(m, r) ==
  /\ Take(m, r)
  /\ r.op = "uninstall"
  /\ \E i \in Lookup(r.arg) :
        /\ exitFlag' = [exitFlag EXCEPT ![i] = TRUE]
        /\ mgr' = [pc |-> "join", mid |-> m, id |-> i]
        /\ crashed' \in (IF i \in released THEN BOOLEAN ELSE {crashed})
  /\ UNCHANGED <<modVars, queue, thr, handling, calls, regVars, sendVars, hostVars>>

\* Slip: the thread is not waited for.
JoinedAtOnce == mgr.id # NoId

\* os_thread_join.
Joined == thr[mgr.id] = "exited"

Join ==
  /\ mgr.pc = "join" /\ Joined
  /\ mgr' = [mgr EXCEPT !.pc = "resources"]
  /\ UNCHANGED <<modVars, queue, appVars, regVars, sendVars, mgrQueue, hostVars,
                 crashed>>

\* Slip: the registrations of the others are removed.
CleanupOtherResources ==
  /\ mgr.pc = "resources"
  /\ resources' = {r \in resources : r.owner = mgr.id}
  /\ mgr' = [mgr EXCEPT !.pc = "events"]
  /\ UNCHANGED <<modVars, queue, appVars, subscribers, sendVars, mgrQueue,
                 hostVars, crashed>>

\* am_cleanup_registeration.
CleanupResources ==
  /\ mgr.pc = "resources"
  /\ resources' = {r \in resources : r.owner # mgr.id}
  /\ mgr' = [mgr EXCEPT !.pc = "events"]
  /\ UNCHANGED <<modVars, queue, appVars, subscribers, sendVars, mgrQueue,
                 hostVars, crashed>>

\* Slip: the scan of the events stops at one that others subscribed to.
CleanupFirstEvent ==
  /\ mgr.pc = "events"
  /\ subscribers' = IF \E s \in subscribers : s.who # mgr.id
                    THEN subscribers
                    ELSE {s \in subscribers : s.who # mgr.id}
  /\ mgr' = [mgr EXCEPT !.pc = "delete"]
  /\ UNCHANGED <<modVars, queue, appVars, resources, sendVars, mgrQueue,
                 hostVars, crashed>>

\* am_unregister_event(NULL, id).
CleanupEvents ==
  /\ mgr.pc = "events"
  /\ subscribers' = {s \in subscribers : s.who # mgr.id}
  /\ mgr' = [mgr EXCEPT !.pc = "delete"]
  /\ UNCHANGED <<modVars, queue, appVars, resources, sendVars, mgrQueue,
                 hostVars, crashed>>

\* app_manager_del_module_data.
DeleteModule ==
  /\ mgr.pc = "delete"
  /\ listed' = listed \ {mgr.id}
  /\ released' = released \cup {mgr.id}
  /\ queue' = [queue EXCEPT ![mgr.id] = <<>>]
  /\ mgr' = [mgr EXCEPT !.pc = "announce"]
  /\ UNCHANGED <<name, addr, nextId, appVars, regVars, sendVars, mgrQueue, hostVars,
                 crashed>>

\* app_manager_post_applets_update_event: to the host, whoever subscribed; without
\* memory nothing is sent, and nobody is told.
Announce ==
  /\ mgr.pc = "announce"
  /\ \/ ~EventIsRegistered(Applets) /\ UNCHANGED hostView
     \/ EventIsRegistered(Applets) /\ hostView' = {Names(listed)}
     \/ EventIsRegistered(Applets) /\ "announce" \in Failures /\ hostView' = {}
  /\ mgr' = [mgr EXCEPT !.pc = "answer"]
  /\ UNCHANGED <<modVars, queue, appVars, regVars, sendVars, mgrQueue, asked,
                 answers, crashed>>

AnswerDone ==
  /\ mgr.pc = "answer"
  /\ Answer(mgr.mid, IF asked[mgr.mid].op = "install" THEN "created" ELSE "deleted")
  /\ mgr' = Idle
  /\ UNCHANGED <<modVars, queue, appVars, regVars, sendVars, mgrQueue, asked,
                 hostView, crashed>>

Serve ==
  \E m \in Mid : \E r \in Requests :
     \/ Refuse(m, r) \/ Query(m, r) \/ Foreign(m, r) \/ Subscribe(m, r)
     \/ BeginInstall(m, r) \/ BeginUninstall(m, r)

Manager ==
  \/ Serve
  \/ BuildFails \/ AddModule \/ TimersCreated \/ TimersFail
  \/ ThreadCreated \/ ThreadFails
  \/ Join \/ CleanupResources \/ CleanupEvents \/ DeleteModule
  \/ Announce \/ AnswerDone

-----------------------------------------------------------------------------
(* The thread of an application: wasm_app_routine.                         *)

\* Sent everything its native calls had to send.
Quiet(i) == out[i] = {}

Goto(i, from, to) == thr[i] = from /\ thr' = [thr EXCEPT ![i] = to]

AppFrame == <<modVars, regVars, sendVars, mgrVars, hostVars, crashed>>

\* on_init is called; without one the thread ends at once.
AppStart(i) ==
  /\ Goto(i, "start", "init") \/ Goto(i, "start", "exited")
  /\ UNCHANGED <<queue, exitFlag, handling, calls, AppFrame>>

\* on_init returns and the loop is entered, or raises an exception.
AppInitReturns(i) ==
  /\ Quiet(i)
  /\ Goto(i, "init", "loop") \/ Goto(i, "init", "destroy")
  /\ UNCHANGED <<queue, exitFlag, handling, calls, AppFrame>>

\* bh_queue_enter_loop_run tests the exit flag, then waits for a message.
AppTestExit(i) ==
  /\ Goto(i, "loop", IF exitFlag[i] THEN "destroy" ELSE "wait")
  /\ UNCHANGED <<queue, exitFlag, handling, calls, AppFrame>>

\* app_instance_queue_callback starts on the next message.
AppGet(i) ==
  /\ Goto(i, "wait", "busy")
  /\ queue[i] # <<>>
  /\ handling' = [handling EXCEPT ![i] = Head(queue[i])]
  /\ queue' = [queue EXCEPT ![i] = Tail(@)]
  /\ UNCHANGED <<exitFlag, calls, AppFrame>>

\* bh_queue_exit_loop_run wakes a thread that waits on an empty queue.
AppWake(i) ==
  /\ exitFlag[i] /\ queue[i] = <<>>
  /\ Goto(i, "wait", "loop")
  /\ UNCHANGED <<queue, exitFlag, handling, calls, AppFrame>>

AppReturns(i) ==
  /\ Quiet(i)
  /\ Goto(i, "busy", "loop")
  /\ handling' = [handling EXCEPT ![i] = NoMessage]
  /\ UNCHANGED <<queue, exitFlag, calls, AppFrame>>

\* on_destroy returns and the thread ends.
AppDestroyReturns(i) ==
  /\ Quiet(i)
  /\ Goto(i, "destroy", "exited")
  /\ UNCHANGED <<queue, exitFlag, handling, calls, AppFrame>>

AppRuns(i) ==
  \/ AppStart(i) \/ AppInitReturns(i) \/ AppTestExit(i) \/ AppGet(i)
  \/ AppWake(i) \/ AppReturns(i) \/ AppDestroyReturns(i)

\* A native call from a callback of the application.
NativeCall(i) ==
  /\ thr[i] \in {"init", "busy", "destroy"}
  /\ Quiet(i)
  /\ calls[i] < MaxCalls
  /\ calls' = [calls EXCEPT ![i] = @ + 1]
  /\ UNCHANGED <<modVars, queue, exitFlag, thr, ptr, mgrVars, hostVars, crashed>>

\* am_register_resource: refused for a URL in use, or beyond the quota.
MayRegister(i, u) ==
  /\ \A r \in resources : r.url # u
  /\ Cardinality({r \in resources : r.owner = i}) < MaxResources

RegisterResource(i, u) ==
  /\ NativeCall(i)
  /\ resources' = IF MayRegister(i, u)
                  THEN resources \cup {[url |-> u, owner |-> i]} ELSE resources
  /\ UNCHANGED <<subscribers, handling, out>>

\* am_register_event.
SubscribeEvent(i, e) ==
  /\ NativeCall(i)
  /\ subscribers' = subscribers \cup {[event |-> e, who |-> i]}
  /\ UNCHANGED <<resources, handling, out>>

\* wasm_post_request: a request is dispatched as from the host.
PostRequest(i, u) ==
  /\ NativeCall(i)
  /\ Dispatch(i, u, [kind |-> "request", from |-> i, mid |-> NoMid])
  /\ UNCHANGED <<regVars, handling>>

\* wasm_post_request: a request for an application by name; for an unknown name
\* the host gets an error that answers none of its requests.
PostToApp(i, n) ==
  /\ NativeCall(i)
  /\ out' = [out EXCEPT ![i] =
       {[to |-> j, msg |-> [kind |-> "request", from |-> i, mid |-> NoMid]] :
          j \in Lookup(n)}]
  /\ UNCHANGED <<regVars, handling>>

\* wasm_post_request: an event goes to each of its subscribers.
PublishEvent(i, e) ==
  /\ NativeCall(i)
  /\ out' = [out EXCEPT ![i] =
       {[to |-> s.who, msg |-> [kind |-> IF e = Applets THEN "applets" ELSE "event",
                                from |-> i, mid |-> NoMid]] :
          s \in {q \in subscribers : q.event = e}}]
  /\ UNCHANGED <<regVars, handling>>

\* wasm_response_send: the application answers the request it works on, once.
Respond(i) ==
  /\ NativeCall(i)
  /\ thr[i] = "busy" /\ handling[i].kind = "request"
  /\ out' = [out EXCEPT ![i] =
       {[to |-> handling[i].from,
         msg |-> [kind |-> "response", from |-> i, mid |-> handling[i].mid]]}]
  /\ handling' = [handling EXCEPT ![i] = NoMessage]
  /\ UNCHANGED regVars

AppCalls(i) ==
  \/ \E u \in Url : RegisterResource(i, u) \/ PostRequest(i, u)
  \/ \E n \in AppNames : PostToApp(i, n)
  \/ \E e \in AppEvents : SubscribeEvent(i, e) \/ PublishEvent(i, e)
  \/ Respond(i)

-----------------------------------------------------------------------------
Next ==
  /\ ~crashed
  /\ \/ \E m \in Mid : \E r \in Requests :
           AskManagement(m, r) \/ AskApp(m, r) \/ AskResource(m, r)
     \/ \E t \in Thread : Send(t)
     \/ Manager
     \/ \E i \in Id : AppRuns(i) \/ AppCalls(i)

Spec == Init /\ [][Next]_vars

(***************************************************************************)
(* Every thread keeps running, and a callback of an application returns;   *)
(* nothing obliges the host to ask or an application to make calls.        *)
(***************************************************************************)
Fairness ==
  /\ WF_vars(~crashed /\ Manager)
  /\ \A t \in Thread : WF_vars(~crashed /\ Send(t))
  /\ \A i \in Id : WF_vars(~crashed /\ AppRuns(i))

FairSpec == Spec /\ Fairness

-----------------------------------------------------------------------------
(* Properties.                                                             *)

\* A request of the host is answered at most once, whichever of the error
\* paths of the manager, of the dispatcher or of an application it takes.
AnsweredOnce == \A m \in Mid : Len(answers[m]) <= 1

\* The installation limit and the uniqueness of names survive failed
\* installations and removals: what wasm_app_module_install checked against
\* the list at its start still holds when it adds the module.
WithinLimit ==
  /\ Cardinality(listed) <= MaxApps
  /\ \A i, j \in listed : name[i] = name[j] => i = j

\* Once a module is freed, by an uninstallation or by a failed installation,
\* its thread has ended or was never created, and it owns neither a resource nor
\* a subscription, even those its on_destroy made while the manager was waiting.
FreedIsGone ==
  \A i \in released :
     /\ thr[i] \in {"none", "exited"}
     /\ \A r \in resources : r.owner # i
     /\ \A s \in subscribers : s.who # i

\* Between two requests the host's picture of the installed applications, the
\* last "/applets" event since it subscribed, is the list.  What is left out is a
\* picture that an application drew by an event of that name, and one that is old
\* because the manager had no memory for the next event (hostView).
HostViewCurrent ==
  (mgr.pc = "idle" /\ hostView # {}
     /\ [event |-> Applets, who |-> Host] \in subscribers)
  => hostView = {Names(listed)}

\* A request for an application is handled by the application that had the name,
\* although the module is found by name, then by id, then by address; or, when that
\* one was freed after it was found, by the one that has its memory, and no other.
RightRecipient ==
  \A i \in Id :
     (handling[i].kind = "request" /\ handling[i].from = Host
        /\ asked[handling[i].mid].op = "app")
     => \E k \in Id :
          /\ name[k] = asked[handling[i].mid].arg
          /\ k = i \/ (k \in released /\ addr[k] = addr[i])

\* The code of an application never runs again once its module was freed, nor
\* does a module that left the list come back to it.
NoReturn ==
  [][\A i \in released :
       /\ thr'[i] = thr[i]
       /\ i \in released'
       /\ i \notin listed => i \notin listed']_vars

\* A management request that reached the queue is answered, unless the use of
\* a freed module ends the process; module types that have no interface are
\* the ones whose requests nobody answers.
ManagementAnswered ==
  \A m \in Mid :
     (\E k \in DOMAIN mgrQueue : mgrQueue[k] = m /\ asked[m].op # "foreign")
     ~> (answers[m] # <<>> \/ crashed)

\* What the comments of the code promise, and the code does not keep.

\* "only when thread is created it is the flag of installation success"
\* (module_wasm_app.c): between requests, a module of the list has a thread.
InstalledHasThread ==
  mgr.pc = "idle" => \A i \in listed : thr[i] # "none"

\* "if the receiver is not any of modules, just forward it to the host"
\* (resource_reg.c): a response about to be posted has a receiver.
ResponseHasReceiver ==
  \A t \in Thread : \A d \in out[t] :
     d.msg.kind = "response" /\ ptr[t] = d.to => d.to \in listed

-----------------------------------------------------------------------------
(***************************************************************************)
(* What the manager promises to the host: module AppletService.  An        *)
(* application is there from the creation of its thread to the removal of  *)
(* its module.                                                             *)
(***************************************************************************)
Running == {i \in listed : thr[i] # "none"}

Service == INSTANCE AppletService
  WITH applets <- Names(Running),
       done <- {m \in Mid : mgr.pc \in {"announce", "answer"} /\ m = mgr.mid},
       wish <- asked, reply <- answers

ServiceSpec == Service!Spec
=============================================================================
