--------------------------- MODULE AppManagerProofs ---------------------------
(***************************************************************************)
(* Theorems about AppManager, for every value of its constants.  The first *)
(* lemmas say which steps write which variables; every later proof goes    *)
(* through the writers of the variables its formula speaks of.             *)
(***************************************************************************)
EXTENDS AppManager, FiniteSetTheorems, TLAPS

HostAction(m, r) == AskManagement(m, r) \/ AskApp(m, r) \/ AskResource(m, r)

\* The host thread writes its own deliveries, the queue of the manager and the
\* history of the requests.
LEMMA HostFrame ==
  ASSUME NEW m \in Mid, NEW r \in Requests, HostAction(m, r)
  PROVE  UNCHANGED <<modVars, queue, appVars, regVars, ptr, mgr, hostView, crashed>>
<1>1. CASE AskManagement(m, r)
  BY <1>1 DEF AskManagement, sendVars
<1>2. CASE AskApp(m, r)
  BY <1>2 DEF AskApp, mgrVars
<1>3. CASE AskResource(m, r)
  BY <1>3 DEF AskResource, mgrVars
<1>4. QED
  BY <1>1, <1>2, <1>3 DEF HostAction

\* Sending writes queues, deliveries, and the responses the host receives; an event
\* of an application may spoil the host's picture of the list.
LEMMA SendFrame ==
  ASSUME NEW t \in Thread, Send(t)
  PROVE  /\ UNCHANGED <<modVars, appVars, regVars, mgrVars, asked>>
         /\ hostView' = hostView \/ hostView' = {}
BY DEF Send, LookupFound, LookupMissing, Post, hostVars

\* Taking a request from the queue changes no module, application or resource.
LEMMA ServeFrame ==
  ASSUME Serve
  PROVE  UNCHANGED <<modVars, queue, thr, handling, calls, resources, sendVars, asked>>
BY DEF Serve, Refuse, Query, Foreign, Subscribe, BeginInstall, BeginUninstall,
       appVars, regVars, hostVars

\* The manager makes no delivery to an application.
LEMMA ManagerFrame ==
  ASSUME Manager
  PROVE  UNCHANGED <<sendVars, asked, handling, calls>>
BY ServeFrame DEF Manager, BuildFails, AddModule, TimersCreated, TimersFail,
       ThreadCreated, ThreadFails, Join, CleanupResources, CleanupEvents,
       DeleteModule, Announce, AnswerDone, appVars, hostVars

\* A thread that runs writes its own state and its queue.
LEMMA AppRunsFrame ==
  ASSUME NEW i \in Id, AppRuns(i)
  PROVE  UNCHANGED <<exitFlag, calls, AppFrame>>
BY DEF AppRuns, AppStart, AppInitReturns, AppTestExit, AppGet, AppWake,
       AppReturns, AppDestroyReturns, AppFrame

\* A native call writes the registrations and the deliveries of its thread.
LEMMA AppCallsFrame ==
  ASSUME NEW i \in Id, AppCalls(i)
  PROVE  UNCHANGED <<modVars, queue, exitFlag, thr, ptr, mgrVars, hostVars, crashed>>
BY DEF AppCalls, NativeCall, RegisterResource, SubscribeEvent, PostRequest, PostToApp,
       PublishEvent, Respond

\* The modules are written by the manager alone, in four places.
LEMMA ModWriters ==
  ASSUME [Next]_vars
  PROVE  UNCHANGED modVars \/ AddModule \/ TimersFail \/ ThreadFails \/ DeleteModule
<1>1. ASSUME Manager
      PROVE  UNCHANGED modVars \/ AddModule \/ TimersFail \/ ThreadFails \/ DeleteModule
  BY <1>1, ServeFrame DEF Manager, BuildFails, TimersCreated, ThreadCreated, Join,
       CleanupResources, CleanupEvents, Announce, AnswerDone
<1>2. QED
  BY <1>1, HostFrame, SendFrame, AppRunsFrame, AppCallsFrame
     DEF Next, HostAction, AppFrame, vars

\* The threads are written by the manager, which creates them, and by
\* themselves.
LEMMA ThreadWriters ==
  ASSUME [Next]_vars
  PROVE  \/ UNCHANGED thr
         \/ ThreadCreated
         \/ \E i \in Id : AppRuns(i)
<1>1. ASSUME Manager
      PROVE  UNCHANGED thr \/ ThreadCreated
  BY <1>1, ServeFrame DEF Manager, BuildFails, AddModule, TimersCreated, TimersFail,
       ThreadFails, Join, CleanupResources, CleanupEvents, DeleteModule, Announce,
       AnswerDone, appVars
<1>2. QED
  BY <1>1, HostFrame, SendFrame, AppCallsFrame
     DEF Next, HostAction, appVars, vars

\* The exit flag of an application is raised by an uninstallation only.
LEMMA ExitWriters ==
  ASSUME [Next]_vars
  PROVE  \/ UNCHANGED exitFlag
         \/ \E m \in Mid : \E r \in Requests : BeginUninstall(m, r)
<1>1. ASSUME Manager
      PROVE  \/ UNCHANGED exitFlag
             \/ \E m \in Mid : \E r \in Requests : BeginUninstall(m, r)
  BY <1>1 DEF Manager, Serve, Refuse, Query, Foreign, Subscribe, BeginInstall,
       BuildFails, AddModule, TimersCreated, TimersFail, ThreadCreated,
       ThreadFails, Join, CleanupResources, CleanupEvents, DeleteModule, Announce,
       AnswerDone, appVars
<1>2. QED
  BY <1>1, HostFrame, SendFrame, AppRunsFrame, AppCallsFrame
     DEF Next, HostAction, appVars, vars

\* The resource list is written by native calls and by the cleanup.
LEMMA ResourceWriters ==
  ASSUME [Next]_vars
  PROVE  \/ UNCHANGED resources
         \/ CleanupResources
         \/ \E i \in Id : \E u \in Url : RegisterResource(i, u)
<1>1. ASSUME Manager
      PROVE  UNCHANGED resources \/ CleanupResources
  BY <1>1, ServeFrame DEF Manager, BuildFails, AddModule, TimersCreated, TimersFail,
       ThreadCreated, ThreadFails, Join, CleanupEvents, DeleteModule, Announce,
       AnswerDone, regVars
<1>2. ASSUME NEW i \in Id, AppCalls(i)
      PROVE  UNCHANGED resources \/ \E u \in Url : RegisterResource(i, u)
  BY <1>2 DEF AppCalls, SubscribeEvent, PostRequest, PostToApp, PublishEvent, Respond, regVars
<1>3. QED
  BY <1>1, <1>2, HostFrame, SendFrame, AppRunsFrame
     DEF Next, HostAction, AppFrame, regVars, vars

\* The event list is written by native calls, by the host's requests and by
\* the cleanup.
LEMMA SubscriberWriters ==
  ASSUME [Next]_vars
  PROVE  \/ UNCHANGED subscribers
         \/ CleanupEvents
         \/ \E m \in Mid : \E r \in Requests : Subscribe(m, r)
         \/ \E i \in Id : \E e \in Event : SubscribeEvent(i, e)
<1>1. ASSUME Manager
      PROVE  \/ UNCHANGED subscribers \/ CleanupEvents
             \/ \E m \in Mid : \E r \in Requests : Subscribe(m, r)
  BY <1>1 DEF Manager, Serve, Refuse, Query, Foreign, BeginInstall, BeginUninstall,
       BuildFails, AddModule, TimersCreated, TimersFail, ThreadCreated,
       ThreadFails, Join, CleanupResources, DeleteModule, Announce,
       AnswerDone, regVars
<1>2. ASSUME NEW i \in Id, AppCalls(i)
      PROVE  UNCHANGED subscribers \/ \E e \in Event : SubscribeEvent(i, e)
  BY <1>2, RequestAssumption DEF AppCalls, RegisterResource, PostRequest, PostToApp,
       PublishEvent, Respond, regVars
<1>3. QED
  BY <1>1, <1>2, HostFrame, SendFrame, AppRunsFrame
     DEF Next, HostAction, AppFrame, regVars, vars

-----------------------------------------------------------------------------
(* Type correctness, group of variables by group of variables.             *)

\* What the manager knows of the request it is serving and of its module.
ServingOK ==
  /\ mgr.pc # "idle" => mgr.mid \in Mid /\ asked[mgr.mid] \in Requests
  /\ mgr.pc \in {"build", "timers", "thread"} => asked[mgr.mid].op = "install"
  /\ mgr.pc \notin {"idle", "build"} => mgr.id \in Id
  /\ \A i \in listed : name[i] \in Name

TypeInv == TypeOK /\ ServingOK

LEMMA NoRequestIsNone == NoRequest \notin Requests
BY RequestAssumption DEF NoRequest, Request, HostOp, ManagementOp

LEMMA ModType ==
  ASSUME TypeInv, [Next]_vars
  PROVE  ModTypeOK'
<1> USE DEF TypeInv, TypeOK, ModTypeOK
<1>1. CASE UNCHANGED modVars
  BY <1>1 DEF modVars
<1>2. CASE AddModule
  <2>1. nextId' \in 1 .. MaxId + 1
    BY <1>2, BoundsAssumption DEF AddModule, Id
  <2>2. asked[mgr.mid].arg \in Name
    BY <1>2, RequestAssumption DEF AddModule, ServingOK
  <2>3. addr' \in [Id -> Id]
    BY <1>2 DEF AddModule, FreeMemory
  <2>4. QED
    BY <1>2, <2>1, <2>2, <2>3 DEF AddModule
<1>3. CASE TimersFail
  BY <1>3 DEF TimersFail, ServingOK
<1>4. CASE ThreadFails
  BY <1>4 DEF ThreadFails, ServingOK
<1>5. CASE DeleteModule
  BY <1>5 DEF DeleteModule, ServingOK
<1>6. QED
  BY <1>1, <1>2, <1>3, <1>4, <1>5, ModWriters

LEMMA AppType ==
  ASSUME TypeInv, [Next]_vars
  PROVE  AppTypeOK'
<1> USE DEF TypeInv, TypeOK
<1>1. (thr \in [Id -> ThreadPc])'
  <2>1. CASE UNCHANGED thr
    BY <2>1 DEF AppTypeOK
  <2>2. CASE ThreadCreated
    BY <2>2 DEF ThreadCreated, AppTypeOK, ThreadPc
  <2>3. ASSUME NEW i \in Id, AppRuns(i)
        PROVE  (thr \in [Id -> ThreadPc])'
    BY <2>3 DEF AppRuns, AppStart, AppInitReturns, AppTestExit, AppGet, AppWake,
       AppReturns, AppDestroyReturns, Goto, AppTypeOK, ThreadPc
  <2>4. QED
    BY <2>1, <2>2, <2>3, ThreadWriters
<1>2. (exitFlag \in [Id -> BOOLEAN])'
  BY ExitWriters DEF AppTypeOK, BeginUninstall
<1>3. (handling \in [Id -> Message \cup {NoMessage}])'
  <2>1. ASSUME NEW i \in Id, AppRuns(i)
        PROVE  (handling \in [Id -> Message \cup {NoMessage}])'
    <3>1. CASE AppGet(i)
      <4>1. Head(queue[i]) \in Message
        BY <3>1 DEF AppGet, SendTypeOK
      <4>2. QED
        BY <3>1, <4>1 DEF AppGet, AppTypeOK
    <3>2. CASE AppReturns(i)
      BY <3>2 DEF AppReturns, AppTypeOK
    <3>3. QED
      BY <2>1, <3>1, <3>2 DEF AppRuns, AppStart, AppInitReturns, AppTestExit,
         AppWake, AppDestroyReturns, AppTypeOK
  <2>2. ASSUME NEW i \in Id, AppCalls(i)
        PROVE  (handling \in [Id -> Message \cup {NoMessage}])'
    BY <2>2 DEF AppCalls, RegisterResource, SubscribeEvent, PostRequest, PostToApp,
       PublishEvent, Respond, AppTypeOK
  <2>3. CASE UNCHANGED handling
    BY <2>3 DEF AppTypeOK
  <2>4. QED
    BY <2>1, <2>2, <2>3, HostFrame, SendFrame, ManagerFrame
       DEF Next, HostAction, appVars, vars
<1>4. (calls \in [Id -> Nat])'
  <2>1. ASSUME NEW i \in Id, AppCalls(i)
        PROVE  (calls \in [Id -> Nat])'
    <3>1. calls' = [calls EXCEPT ![i] = @ + 1]
      BY <2>1 DEF AppCalls, RegisterResource, SubscribeEvent, PostRequest, PostToApp,
         PublishEvent, Respond, NativeCall
    <3>2. QED
      BY <3>1 DEF AppTypeOK
  <2>2. CASE UNCHANGED calls
    BY <2>2 DEF AppTypeOK
  <2>3. QED
    BY <2>1, <2>2, HostFrame, SendFrame, ManagerFrame, AppRunsFrame
       DEF Next, HostAction, appVars, vars
<1>5. QED
  BY <1>1, <1>2, <1>3, <1>4 DEF AppTypeOK

LEMMA RegType ==
  ASSUME TypeInv, [Next]_vars
  PROVE  RegTypeOK'
<1> USE DEF TypeInv, TypeOK
<1>1. (resources \subseteq [url : Url, owner : Id])'
  BY ResourceWriters DEF RegTypeOK, CleanupResources, RegisterResource
<1>2. (subscribers \subseteq [event : Event, who : Party])'
  <2>1. ASSUME NEW m \in Mid, NEW r \in Requests, Subscribe(m, r)
        PROVE  (subscribers \subseteq [event : Event, who : Party])'
    BY <2>1, RequestAssumption DEF Subscribe, RegTypeOK, Party
  <2>2. ASSUME NEW i \in Id, NEW e \in Event, SubscribeEvent(i, e)
        PROVE  (subscribers \subseteq [event : Event, who : Party])'
    BY <2>2 DEF SubscribeEvent, RegTypeOK, Party
  <2>3. QED
    BY <2>1, <2>2, SubscriberWriters DEF RegTypeOK, CleanupEvents
<1>3. QED
  BY <1>1, <1>2 DEF RegTypeOK

\* A module that has memory is one that was added.
LEMMA TenantsAdded ==
  ASSUME TypeInv, NEW i
  PROVE  Tenants(i) \subseteq Id
BY BoundsAssumption DEF Tenants, TypeInv, TypeOK, ModTypeOK, Id

LEMMA SendType ==
  ASSUME TypeInv, [Next]_vars
  PROVE  SendTypeOK'
<1> USE DEF TypeInv, TypeOK, SendTypeOK
<1>1. ASSUME NEW m \in Mid, NEW r \in Requests, HostAction(m, r)
      PROVE  SendTypeOK'
  <2>1. CASE AskManagement(m, r)
    BY <2>1 DEF AskManagement, sendVars
  <2>2. CASE AskApp(m, r)
    <3>1. ASSUME NEW i \in Lookup(r.arg)
          PROVE  [to |-> i, msg |-> [kind |-> "request", from |-> Host, mid |-> m]]
                   \in Delivery
      BY DEF Lookup, ModTypeOK, Delivery, Message, Party
    <3>2. out' \in [Thread -> SUBSET Delivery]
      BY <2>2, <3>1 DEF AskApp, Thread, Party
    <3>3. QED
      BY <2>2, <3>2 DEF AskApp
  <2>3. CASE AskResource(m, r)
    <3>1. ASSUME NEW q \in resources
          PROVE  [to |-> q.owner, msg |-> [kind |-> "request", from |-> Host, mid |-> m]]
                   \in Delivery
      BY DEF RegTypeOK, Delivery, Message, Party
    <3>2. out' \in [Thread -> SUBSET Delivery]
      BY <2>3, <3>1 DEF AskResource, Dispatch, Thread, Party
    <3>3. QED
      BY <2>3, <3>2 DEF AskResource
  <2>4. QED
    BY <1>1, <2>1, <2>2, <2>3 DEF HostAction
<1>2. ASSUME NEW t \in Thread, Send(t)
      PROVE  SendTypeOK'
  <2>1. CASE LookupFound(t)
    BY <2>1 DEF LookupFound, ModTypeOK
  <2>2. CASE LookupMissing(t)
    BY <2>2 DEF LookupMissing
  <2>3. CASE Post(t)
    <3>1. PICK d \in out[t] :
             /\ out' = [out EXCEPT ![t] = @ \ {d}]
             /\ ptr' = [ptr EXCEPT ![t] = NoId]
             /\ \/ queue' = queue
                \/ \E j \in Tenants(ptr[t]) : queue' = [queue EXCEPT ![j] = Append(@, d.msg)]
      BY <2>3 DEF Post
    <3>2. d.msg \in Message
      BY <3>1 DEF Delivery
    <3>3. ASSUME NEW j \in Tenants(ptr[t])
          PROVE  [queue EXCEPT ![j] = Append(@, d.msg)] \in [Id -> Seq(Message)]
      <4>1. j \in Id
        BY <3>3, TenantsAdded
      <4>2. Append(queue[j], d.msg) \in Seq(Message)
        BY <3>2, <4>1
      <4>3. QED
        BY <4>2
    <3>4. queue' \in [Id -> Seq(Message)]
      BY <3>1, <3>3
    <3>5. QED
      BY <3>1, <3>4
  <2>4. QED
    BY <1>2, <2>1, <2>2, <2>3 DEF Send
<1>3. ASSUME Manager
      PROVE  SendTypeOK'
  <2>1. UNCHANGED queue \/ queue' = [queue EXCEPT ![mgr.id] = <<>>]
    BY <1>3, ServeFrame DEF Manager, BuildFails, AddModule, TimersCreated, TimersFail,
       ThreadCreated, ThreadFails, Join, CleanupResources, CleanupEvents,
       DeleteModule, Announce, AnswerDone
  <2>2. <<>> \in Seq(Message)
    OBVIOUS
  <2>3. queue' \in [Id -> Seq(Message)]
    BY <2>1, <2>2
  <2>4. QED
    BY <1>3, <2>3, ManagerFrame DEF sendVars
<1>4. ASSUME NEW i \in Id, AppRuns(i)
      PROVE  SendTypeOK'
  <2>1. queue' \in {queue, [queue EXCEPT ![i] = Tail(@)]}
    BY <1>4 DEF AppRuns, AppStart, AppInitReturns, AppTestExit, AppGet, AppWake,
       AppReturns, AppDestroyReturns
  <2>2. queue' \in [Id -> Seq(Message)]
    <3>1. CASE AppGet(i)
      BY <3>1 DEF AppGet
    <3>2. CASE queue' = queue
      BY <3>2
    <3>3. QED
      BY <1>4, <3>1, <3>2 DEF AppRuns, AppStart, AppInitReturns, AppTestExit,
         AppWake, AppReturns, AppDestroyReturns
  <2>3. QED
    BY <1>4, <2>2, AppRunsFrame DEF AppFrame, sendVars
<1>5. ASSUME NEW i \in Id, AppCalls(i)
      PROVE  SendTypeOK'
  <2>1. i \in Thread /\ i \in Party
    BY DEF Thread, Party
  <2>2. ASSUME NEW u \in Url, PostRequest(i, u)
        PROVE  (out \in [Thread -> SUBSET Delivery])'
    <3>1. ASSUME NEW q \in resources
          PROVE  [to |-> q.owner, msg |-> [kind |-> "request", from |-> i, mid |-> NoMid]]
                   \in Delivery
      BY <2>1 DEF RegTypeOK, Delivery, Message, Party
    <3>2. QED
      BY <2>2, <2>1, <3>1 DEF PostRequest, Dispatch
  <2>3. ASSUME NEW e \in AppEvents, PublishEvent(i, e)
        PROVE  (out \in [Thread -> SUBSET Delivery])'
    <3>1. ASSUME NEW s \in subscribers
          PROVE  [to |-> s.who, msg |-> [kind |-> IF e = Applets THEN "applets" ELSE "event",
                                         from |-> i, mid |-> NoMid]] \in Delivery
      BY <2>1 DEF RegTypeOK, Delivery, Message, Party
    <3>2. QED
      BY <2>3, <2>1, <3>1 DEF PublishEvent
  <2>4. ASSUME NEW n \in AppNames, PostToApp(i, n)
        PROVE  (out \in [Thread -> SUBSET Delivery])'
    <3>1. ASSUME NEW j \in Lookup(n)
          PROVE  [to |-> j, msg |-> [kind |-> "request", from |-> i, mid |-> NoMid]]
                   \in Delivery
      BY <2>1 DEF Lookup, ModTypeOK, Delivery, Message, Party
    <3>2. QED
      BY <2>4, <2>1, <3>1 DEF PostToApp
  <2>5. ASSUME Respond(i)
        PROVE  (out \in [Thread -> SUBSET Delivery])'
    <3>1. handling[i] \in Message
      BY <2>5 DEF Respond, AppTypeOK, NoMessage, Message
    <3>2. [to |-> handling[i].from,
           msg |-> [kind |-> "response", from |-> i, mid |-> handling[i].mid]] \in Delivery
      BY <2>1, <3>1 DEF Delivery, Message
    <3>3. QED
      BY <2>5, <2>1, <3>2 DEF Respond
  <2>6. (out \in [Thread -> SUBSET Delivery])'
    BY <1>5, <2>4, <2>2, <2>3, <2>5 DEF AppCalls, RegisterResource, SubscribeEvent
  <2>7. QED
    BY <1>5, <2>6, AppCallsFrame
<1>6. QED
  BY <1>1, <1>2, <1>3, <1>4, <1>5 DEF Next, HostAction, sendVars, vars

\* What the host asked is never rewritten.
LEMMA AskedStays ==
  ASSUME TypeInv, [Next]_vars, NEW k \in Mid, asked[k] \in Requests
  PROVE  asked'[k] = asked[k]
<1>1. ASSUME NEW m \in Mid, NEW r \in Requests, HostAction(m, r)
      PROVE  asked'[k] = asked[k]
  <2>1. asked' = [asked EXCEPT ![m] = r] /\ asked[m] = NoRequest
    BY <1>1 DEF HostAction, AskManagement, AskApp, AskResource, Ask
  <2>2. k # m
    BY <2>1, NoRequestIsNone
  <2>3. QED
    BY <2>1, <2>2 DEF TypeInv, TypeOK, HostTypeOK
<1>2. QED
  BY <1>1, SendFrame, ManagerFrame, AppRunsFrame, AppCallsFrame
     DEF Next, HostAction, AppFrame, hostVars, vars

\* The queue of the manager is written by the host and by the manager.
LEMMA MgrQueueType ==
  ASSUME TypeInv, [Next]_vars
  PROVE  mgrQueue' \in Seq(Mid)
<1> USE DEF TypeInv, TypeOK, MgrTypeOK
<1>1. ASSUME NEW m \in Mid, NEW r \in Requests, HostAction(m, r)
      PROVE  mgrQueue' \in Seq(Mid)
  BY <1>1 DEF HostAction, AskManagement, AskApp, AskResource, mgrVars
<1>2. ASSUME NEW m \in Mid, NEW r \in Requests, Take(m, r)
      PROVE  mgrQueue' \in Seq(Mid)
  BY <1>2 DEF Take
<1>3. ASSUME Manager
      PROVE  mgrQueue' \in Seq(Mid)
  BY <1>2, <1>3 DEF Manager, Serve, Refuse, Query, Foreign, Subscribe,
     BeginInstall, BeginUninstall, BuildFails, AddModule, TimersCreated, TimersFail,
     ThreadCreated, ThreadFails, Join, CleanupResources, CleanupEvents,
     DeleteModule, Announce, AnswerDone
<1>4. QED
  BY <1>1, <1>3, SendFrame, AppRunsFrame, AppCallsFrame
     DEF Next, HostAction, AppFrame, mgrVars, vars

\* The steps of the manager that leave its place as it is.
LEMMA MgrWriters ==
  ASSUME [Next]_vars
  PROVE  UNCHANGED mgr \/ Manager
BY HostFrame, SendFrame, AppRunsFrame, AppCallsFrame
   DEF Next, HostAction, AppFrame, mgrVars, vars

\* The record mgr stays well formed.
LEMMA MgrRecord ==
  ASSUME TypeInv, Manager
  PROVE  /\ (mgr \in [pc : MgrPc, mid : Mid \cup {NoMid}, id : Id \cup {NoId}])'
         /\ mgr'.pc # "idle" => mgr'.mid \in Mid /\ asked[mgr'.mid] \in Requests
         /\ mgr'.pc \in {"build", "timers", "thread"} => asked[mgr'.mid].op = "install"
         /\ mgr'.pc \notin {"idle", "build"} => mgr'.id \in Id
<1> DEFINE Goal ==
         /\ mgr' \in [pc : MgrPc, mid : Mid \cup {NoMid}, id : Id \cup {NoId}]
         /\ mgr'.pc # "idle" => mgr'.mid \in Mid /\ asked[mgr'.mid] \in Requests
         /\ mgr'.pc \in {"build", "timers", "thread"} => asked[mgr'.mid].op = "install"
         /\ mgr'.pc \notin {"idle", "build"} => mgr'.id \in Id
<1> SUFFICES Goal
  OBVIOUS
<1>0. /\ mgr \in [pc : MgrPc, mid : Mid \cup {NoMid}, id : Id \cup {NoId}]
      /\ ServingOK
  BY DEF TypeInv, TypeOK, MgrTypeOK
<1>1. CASE mgr' = mgr
  BY <1>0, <1>1 DEF ServingOK
<1>2. CASE mgr' = Idle
  BY <1>2 DEF Idle, MgrPc
<1>3. ASSUME NEW m \in Mid, NEW r \in Requests, BeginInstall(m, r)
      PROVE  Goal
  <2>1. mgr' = [pc |-> "build", mid |-> m, id |-> NoId] /\ asked[m] = r /\ r.op = "install"
    BY <1>3 DEF BeginInstall, Take
  <2>2. QED
    BY <2>1 DEF MgrPc
<1>4. ASSUME NEW m \in Mid, NEW r \in Requests, BeginUninstall(m, r)
      PROVE  Goal
  <2>1. PICK i \in listed : mgr' = [pc |-> "join", mid |-> m, id |-> i]
    BY <1>4 DEF BeginUninstall, Lookup
  <2>2. i \in Id /\ asked[m] = r
    BY <1>4 DEF BeginUninstall, Take, TypeInv, TypeOK, ModTypeOK
  <2>3. QED
    BY <2>1, <2>2 DEF MgrPc
<1>5. CASE AddModule
  <2>1. /\ mgr.pc = "build" /\ nextId \in Id
        /\ mgr' = [mgr EXCEPT !.pc = "timers", !.id = nextId]
    BY <1>5 DEF AddModule
  <2>2. QED
    BY <1>0, <2>1 DEF ServingOK, MgrPc
<1>6. CASE TimersCreated
  BY <1>0, <1>6 DEF TimersCreated, ServingOK, MgrPc
<1>7. CASE /\ mgr.pc \in {"thread", "delete", "join", "resources", "events", "announce"}
           /\ \E p \in {"resources", "events", "delete", "announce", "answer"} :
                 mgr' = [mgr EXCEPT !.pc = p]
  BY <1>0, <1>7 DEF ServingOK, MgrPc
<1>8. ASSUME Serve
      PROVE  Goal
  BY <1>1, <1>3, <1>4, <1>8 DEF Serve, Refuse, Query, Foreign, Subscribe
<1>9. QED
  BY <1>2, <1>5, <1>6, <1>7, <1>8 DEF Manager, BuildFails, TimersFail, ThreadCreated,
     ThreadFails, Join, CleanupResources, CleanupEvents, DeleteModule, Announce,
     AnswerDone

\* Every listed module has the name of an application.
LEMMA ListedNamed ==
  ASSUME TypeInv, [Next]_vars
  PROVE  (\A i \in listed : name[i] \in Name)'
<1> USE DEF TypeInv, TypeOK, ModTypeOK, ServingOK
<1>1. CASE UNCHANGED modVars
  BY <1>1 DEF modVars
<1>2. CASE AddModule
  <2>1. asked[mgr.mid].arg \in Name
    BY <1>2, RequestAssumption DEF AddModule
  <2>2. QED
    BY <1>2, <2>1 DEF AddModule
<1>3. CASE TimersFail \/ ThreadFails \/ DeleteModule
  BY <1>3 DEF TimersFail, ThreadFails, DeleteModule
<1>4. QED
  BY <1>1, <1>2, <1>3, ModWriters

LEMMA MgrType ==
  ASSUME TypeInv, [Next]_vars
  PROVE  MgrTypeOK' /\ ServingOK'
<1>1. CASE UNCHANGED mgr
  <2>1. (mgr.pc # "idle" => mgr.mid \in Mid /\ asked[mgr.mid] \in Requests)'
    BY <1>1, AskedStays DEF TypeInv, ServingOK
  <2>2. (mgr.pc \in {"build", "timers", "thread"} => asked[mgr.mid].op = "install")'
    BY <1>1, AskedStays DEF TypeInv, ServingOK
  <2>3. QED
    BY <1>1, <2>1, <2>2, MgrQueueType, ListedNamed
       DEF TypeInv, TypeOK, MgrTypeOK, ServingOK
<1>2. CASE Manager
  BY <1>2, MgrRecord, ManagerFrame, MgrQueueType, ListedNamed DEF MgrTypeOK, ServingOK
<1>3. QED
  BY <1>1, <1>2, MgrWriters

\* A response of the manager or of a thread is appended to the others.
LEMMA AnswersType ==
  ASSUME TypeInv, [Next]_vars
  PROVE  answers' \in [Mid -> Seq(Status)]
<1>0. answers \in [Mid -> Seq(Status)]
  BY DEF TypeInv, TypeOK, HostTypeOK
<1>1. ASSUME NEW m \in Mid, NEW s \in Status, Answer(m, s)
      PROVE  answers' \in [Mid -> Seq(Status)]
  BY <1>0, <1>1 DEF Answer
<1>2. /\ "created" \in Status /\ "deleted" \in Status /\ "content" \in Status
      /\ "error" \in Status /\ "app" \in Status
  BY DEF Status
<1>3. ASSUME NEW m \in Mid, NEW r \in Requests, HostAction(m, r)
      PROVE  answers' \in [Mid -> Seq(Status)]
  BY <1>0, <1>1, <1>2, <1>3 DEF HostAction, AskManagement, AskApp, AskResource
<1>4. ASSUME NEW t \in Thread, LookupMissing(t)
      PROVE  answers' \in [Mid -> Seq(Status)]
  <2>1. ASSUME NEW d \in out[t]
        PROVE  d.msg.mid \in Mid \cup {NoMid}
    BY DEF TypeInv, TypeOK, SendTypeOK, Delivery, Message
  <2>2. QED
    BY <1>0, <1>1, <1>2, <1>4, <2>1 DEF LookupMissing
<1>5. ASSUME NEW t \in Thread, Send(t)
      PROVE  answers' \in [Mid -> Seq(Status)]
  BY <1>0, <1>4, <1>5 DEF Send, LookupFound, Post, hostVars
<1>6. ASSUME Serve
      PROVE  answers' \in [Mid -> Seq(Status)]
  BY <1>0, <1>1, <1>2, <1>6 DEF Serve, Refuse, Query, Foreign, Subscribe,
     BeginInstall, BeginUninstall, hostVars
<1>7. ASSUME BuildFails \/ TimersFail \/ ThreadFails \/ AnswerDone
      PROVE  answers' \in [Mid -> Seq(Status)]
  <2>1. mgr.mid \in Mid
    BY <1>7 DEF BuildFails, TimersFail, ThreadFails, AnswerDone, TypeInv, ServingOK
  <2>2. QED
    BY <1>1, <1>2, <1>7, <2>1 DEF BuildFails, TimersFail, ThreadFails, AnswerDone
<1>8. ASSUME Manager
      PROVE  answers' \in [Mid -> Seq(Status)]
  BY <1>0, <1>6, <1>7, <1>8 DEF Manager, AddModule, TimersCreated, ThreadCreated,
     Join, CleanupResources, CleanupEvents, DeleteModule, Announce, hostVars
<1>9. QED
  BY <1>0, <1>3, <1>5, <1>8, AppRunsFrame, AppCallsFrame
     DEF Next, HostAction, AppFrame, hostVars, vars

\* An "/applets" event carries names of applications.
LEMMA HostViewType ==
  ASSUME TypeInv, [Next]_vars
  PROVE  hostView' \in SUBSET SUBSET Name
<1>0. hostView \in SUBSET SUBSET Name
  BY DEF TypeInv, TypeOK, HostTypeOK
<1>1. CASE Announce
  <2>1. Names(listed) \in SUBSET Name
    BY DEF Names, TypeInv, ServingOK
  <2>2. QED
    BY <1>0, <1>1, <2>1 DEF Announce
<1>2. CASE Serve
  BY <1>0, <1>2 DEF Serve, Refuse, Query, Foreign, Subscribe, BeginInstall,
     BeginUninstall, hostVars
<1>3. CASE Manager
  BY <1>0, <1>1, <1>2, <1>3 DEF Manager, BuildFails, AddModule, TimersCreated,
     TimersFail, ThreadCreated, ThreadFails, Join, CleanupResources, CleanupEvents,
     DeleteModule, AnswerDone, hostVars
<1>4. ASSUME NEW t \in Thread, Send(t)
      PROVE  hostView' \in SUBSET SUBSET Name
  BY <1>0, <1>4, SendFrame
<1>5. QED
  BY <1>0, <1>3, <1>4, HostFrame, AppRunsFrame, AppCallsFrame
     DEF Next, HostAction, AppFrame, hostVars, vars

LEMMA HostType ==
  ASSUME TypeInv, [Next]_vars
  PROVE  HostTypeOK'
<1> USE DEF TypeInv, TypeOK, HostTypeOK
<1>1. asked' \in [Mid -> Requests \cup {NoRequest}]
  <2>1. ASSUME NEW m \in Mid, NEW r \in Requests, HostAction(m, r)
        PROVE  asked' \in [Mid -> Requests \cup {NoRequest}]
    <3>1. asked' = [asked EXCEPT ![m] = r]
      BY <2>1 DEF HostAction, AskManagement, AskApp, AskResource, Ask
    <3>2. QED
      BY <3>1
  <2>2. QED
    BY <2>1, SendFrame, ManagerFrame, AppRunsFrame, AppCallsFrame
       DEF Next, HostAction, AppFrame, hostVars, vars
<1>2. crashed' \in BOOLEAN
  <2>1. ASSUME NEW t \in Thread, Send(t)
        PROVE  crashed' \in BOOLEAN
    BY <2>1 DEF Send, LookupFound, LookupMissing, Post
  <2>2. ASSUME Manager
        PROVE  crashed' \in BOOLEAN
    BY <2>2 DEF Manager, Serve, Refuse, Query, Foreign, Subscribe, BeginInstall,
       BeginUninstall, BuildFails, AddModule, TimersCreated, TimersFail,
       ThreadCreated, ThreadFails, Join, CleanupResources, CleanupEvents,
       DeleteModule, Announce, AnswerDone
  <2>3. QED
    BY <2>1, <2>2, HostFrame, AppRunsFrame, AppCallsFrame
       DEF Next, HostAction, AppFrame, vars
<1>3. QED
  BY <1>1, <1>2, AnswersType, HostViewType

\* Initially no module exists and nothing was asked.
LEMMA TypeInit ==
  ASSUME Init
  PROVE  TypeInv
<1>1. ModTypeOK /\ AppTypeOK
  BY BoundsAssumption DEF Init, ModTypeOK, AppTypeOK, ThreadPc
<1>2. RegTypeOK /\ SendTypeOK
  BY DEF Init, RegTypeOK, SendTypeOK
<1>3. MgrTypeOK /\ ServingOK
  BY DEF Init, MgrTypeOK, ServingOK, MgrPc
<1>4. HostTypeOK
  <2>1. answers \in [Mid -> Seq(Status)]
    BY DEF Init
  <2>2. asked \in [Mid -> Requests \cup {NoRequest}]
    BY DEF Init
  <2>3. QED
    BY <2>1, <2>2 DEF Init, HostTypeOK
<1>5. QED
  BY <1>1, <1>2, <1>3, <1>4 DEF TypeInv, TypeOK

\* TypeInv is inductive.
THEOREM TypeInvariance == Spec => []TypeInv
<1>1. Init => TypeInv
  BY TypeInit
<1>2. TypeInv /\ [Next]_vars => TypeInv'
  BY ModType, AppType, RegType, SendType, MgrType, HostType DEF TypeInv, TypeOK
<1>3. QED
  BY <1>1, <1>2, PTL DEF Spec

\* Every variable keeps its type: whatever the schedule, the manager works on
\* a module that exists, a post goes to the queue of one, and a response answers
\* a request of the host.
THEOREM TypeCorrect == Spec => []TypeOK
<1>1. TypeInv => TypeOK
  BY DEF TypeInv
<1>2. QED
  BY <1>1, TypeInvariance, PTL

-----------------------------------------------------------------------------
(* The end of a module: FreedIsGone and NoReturn.  Neither is inductive:   *)
(* whether a freed module may still own something depends on how far the   *)
(* manager has come with it, which LifeInv says.                           *)

\* The module has neither a resource nor a subscription.
NoResource(i) == \A r \in resources : r.owner # i
NoSubscription(i) == \A s \in subscribers : s.who # i

\* A module that was not added yet is nowhere; one without a thread owns nothing.
FreshIsNowhere ==
  \A i \in Id :
     /\ i >= nextId => i \notin listed /\ i \notin released /\ thr[i] = "none"
     /\ thr[i] = "none" => NoResource(i) /\ NoSubscription(i)

\* A module being installed has no thread and was not freed.
InstallingIsNew ==
  mgr.pc \in {"timers", "thread"} =>
     thr[mgr.id] = "none" /\ mgr.id \notin released /\ mgr.id < nextId

\* A module being removed has no thread any more, and what was cleaned up
\* stays clean.
RemovingIsEnded ==
  /\ mgr.pc \in {"resources", "events", "delete"} => thr[mgr.id] = "exited"
  /\ mgr.pc \in {"events", "delete"} => NoResource(mgr.id)
  /\ mgr.pc = "delete" => NoSubscription(mgr.id)

LifeInv == FreshIsNowhere /\ InstallingIsNew /\ RemovingIsEnded /\ FreedIsGone

-----------------------------------------------------------------------------
(* What no step does to a module that has no thread.                       *)

\* Only the manager gives a module a thread, and an ended thread stays ended.
LEMMA DeadStays ==
  ASSUME TypeInv, [Next]_vars, NEW i \in Id, thr[i] \in {"none", "exited"}
  PROVE  thr'[i] = thr[i] \/ (ThreadCreated /\ mgr.id = i)
<1>1. CASE ThreadCreated
  BY <1>1 DEF ThreadCreated, TypeInv, TypeOK, AppTypeOK
<1>2. ASSUME NEW j \in Id, AppRuns(j)
      PROVE  thr'[i] = thr[i]
  <2>1. /\ thr[j] \notin {"none", "exited"}
        /\ \E p \in ThreadPc : thr' = [thr EXCEPT ![j] = p]
    BY <1>2 DEF AppRuns, AppStart, AppInitReturns, AppTestExit, AppGet, AppWake,
       AppReturns, AppDestroyReturns, Goto, ThreadPc
  <2>2. QED
    BY <2>1
<1>3. QED
  BY <1>1, <1>2, ThreadWriters

\* A registration is a native call, and a native call needs a thread.
LEMMA ResourcesKept ==
  ASSUME [Next]_vars, NEW i \in Id, thr[i] \in {"none", "exited"}, NoResource(i)
  PROVE  NoResource(i)'
<1>1. ASSUME NEW j \in Id, NEW u \in Url, RegisterResource(j, u)
      PROVE  NoResource(i)'
  <2>1. j # i
    BY <1>1 DEF RegisterResource, NativeCall
  <2>2. QED
    BY <1>1, <2>1 DEF RegisterResource, NoResource
<1>2. CASE CleanupResources
  BY <1>2 DEF CleanupResources, NoResource
<1>3. QED
  BY <1>1, <1>2, ResourceWriters DEF NoResource

\* The host subscribes under an id that no module has.
LEMMA SubscriptionsKept ==
  ASSUME [Next]_vars, NEW i \in Id, thr[i] \in {"none", "exited"}, NoSubscription(i)
  PROVE  NoSubscription(i)'
<1>1. ASSUME NEW j \in Id, NEW e \in Event, SubscribeEvent(j, e)
      PROVE  NoSubscription(i)'
  <2>1. j # i
    BY <1>1 DEF SubscribeEvent, NativeCall
  <2>2. QED
    BY <1>1, <2>1 DEF SubscribeEvent, NoSubscription
<1>2. ASSUME NEW m \in Mid, NEW r \in Requests, Subscribe(m, r)
      PROVE  NoSubscription(i)'
  <2>1. Host # i
    BY PartyAssumption, BoundsAssumption DEF Id
  <2>2. QED
    BY <1>2, <2>1 DEF Subscribe, NoSubscription
<1>3. CASE CleanupEvents
  BY <1>3 DEF CleanupEvents, NoSubscription
<1>4. QED
  BY <1>1, <1>2, <1>3, SubscriberWriters DEF NoSubscription

-----------------------------------------------------------------------------
(* Each conjunct of LifeInv is preserved.                                  *)

LEMMA FreshStep ==
  ASSUME TypeInv, LifeInv, [Next]_vars
  PROVE  FreshIsNowhere'
<1> USE DEF TypeInv, TypeOK, LifeInv
<1>1. ASSUME NEW i \in Id, i >= nextId'
      PROVE  i \notin listed' /\ i \notin released'
  <2>1. CASE UNCHANGED modVars
    BY <1>1, <2>1 DEF modVars, FreshIsNowhere
  <2>2. CASE AddModule
    <3>1. i >= nextId /\ i # nextId
      BY <1>1, <2>2 DEF AddModule, Id
    <3>2. QED
      BY <2>2, <3>1 DEF AddModule, FreshIsNowhere
  <2>3. CASE TimersFail \/ ThreadFails
    <3>1. i >= nextId /\ i # mgr.id
      BY <1>1, <2>3 DEF TimersFail, ThreadFails, InstallingIsNew, Id, ModTypeOK
    <3>2. QED
      BY <2>3, <3>1 DEF TimersFail, ThreadFails, FreshIsNowhere
  <2>4. CASE DeleteModule
    <3>1. i >= nextId /\ thr[mgr.id] = "exited" /\ mgr.id \in Id
      BY <1>1, <2>4 DEF DeleteModule, RemovingIsEnded, ServingOK
    <3>2. i # mgr.id
      BY <3>1 DEF FreshIsNowhere
    <3>3. QED
      BY <2>4, <3>1, <3>2 DEF DeleteModule, FreshIsNowhere
  <2>5. QED
    BY <2>1, <2>2, <2>3, <2>4, ModWriters
<1>2. ASSUME NEW i \in Id, i >= nextId'
      PROVE  thr'[i] = "none"
  <2>1. i >= nextId
    BY <1>2, ModWriters DEF modVars, AddModule, TimersFail, ThreadFails, DeleteModule,
       ModTypeOK, Id
  <2>2. thr[i] = "none"
    BY <2>1 DEF FreshIsNowhere
  <2>3. ~(ThreadCreated /\ mgr.id = i)
    BY <2>1 DEF ThreadCreated, InstallingIsNew, Id, ModTypeOK
  <2>4. QED
    BY <2>2, <2>3, DeadStays
<1>3. ASSUME NEW i \in Id, thr'[i] = "none"
      PROVE  NoResource(i)' /\ NoSubscription(i)'
  <2>1. thr[i] = "none"
    <3>1. CASE ThreadCreated
      BY <1>3, <3>1 DEF ThreadCreated, AppTypeOK
    <3>2. ASSUME NEW j \in Id, AppRuns(j)
          PROVE  thr[i] = "none"
      <4>1. \E p \in ThreadPc \ {"none"} : thr' = [thr EXCEPT ![j] = p]
        BY <3>2 DEF AppRuns, AppStart, AppInitReturns, AppTestExit, AppGet, AppWake,
           AppReturns, AppDestroyReturns, Goto, ThreadPc
      <4>2. QED
        BY <1>3, <4>1 DEF AppTypeOK
    <3>3. QED
      BY <1>3, <3>1, <3>2, ThreadWriters
  <2>2. QED
    BY <2>1, ResourcesKept, SubscriptionsKept DEF FreshIsNowhere
<1>4. QED
  BY <1>1, <1>2, <1>3 DEF FreshIsNowhere, NoResource, NoSubscription

LEMMA InstallingStep ==
  ASSUME TypeInv, LifeInv, [Next]_vars
  PROVE  InstallingIsNew'
<1> USE DEF TypeInv, TypeOK, LifeInv
<1>1. CASE UNCHANGED mgr
  <2>1. ~ThreadCreated /\ ~TimersFail /\ ~ThreadFails /\ ~DeleteModule /\ ~AddModule
    <3>1. mgr'.pc = mgr.pc /\ mgr \in [pc : MgrPc, mid : Mid \cup {NoMid}, id : Id \cup {NoId}]
      BY <1>1 DEF MgrTypeOK
    <3>2. ~ThreadCreated /\ ~DeleteModule /\ ~AddModule
      BY <3>1 DEF ThreadCreated, DeleteModule, AddModule
    <3>3. ~TimersFail /\ ~ThreadFails
      BY <3>1 DEF TimersFail, ThreadFails, Idle
    <3>4. QED
      BY <3>2, <3>3
  <2>2. UNCHANGED modVars
    BY <2>1, ModWriters
  <2>3. QED
    BY <1>1, <2>1, <2>2, DeadStays DEF InstallingIsNew, ServingOK, modVars
<1>2. CASE AddModule
  <2>1. thr[nextId] = "none" /\ nextId \notin released /\ nextId \in Id
    BY <1>2 DEF AddModule, FreshIsNowhere, Id
  <2>2. mgr'.id = nextId /\ UNCHANGED <<thr, released>> /\ nextId' = nextId + 1
    BY <1>2 DEF AddModule, appVars, MgrTypeOK
  <2>3. QED
    BY <2>1, <2>2 DEF InstallingIsNew, Id
<1>3. CASE TimersCreated
  BY <1>3 DEF TimersCreated, InstallingIsNew, modVars, appVars, MgrTypeOK
<1>4. CASE Serve
  BY <1>1, <1>4 DEF Serve, Refuse, Query, Foreign, Subscribe, BeginInstall,
     BeginUninstall, InstallingIsNew
<1>5. CASE mgr'.pc \notin {"timers", "thread"}
  BY <1>5 DEF InstallingIsNew
<1>6. QED
  BY <1>1, <1>2, <1>3, <1>4, <1>5, MgrWriters DEF Manager, BuildFails, TimersFail,
     ThreadCreated, ThreadFails, Join, CleanupResources, CleanupEvents, DeleteModule,
     Announce, AnswerDone, Idle, MgrTypeOK

LEMMA RemovingStep ==
  ASSUME TypeInv, LifeInv, [Next]_vars
  PROVE  RemovingIsEnded'
<1> USE DEF TypeInv, TypeOK, LifeInv
<1>1. CASE UNCHANGED mgr
  <2>1. ~ThreadCreated
    BY <1>1 DEF ThreadCreated, MgrTypeOK
  <2>2. ASSUME mgr.pc \in {"resources", "events", "delete"}
        PROVE  mgr.id \in Id /\ thr[mgr.id] = "exited" /\ thr'[mgr.id] = "exited"
    BY <2>1, <2>2, DeadStays DEF RemovingIsEnded, ServingOK
  <2>3. QED
    BY <1>1, <2>2, ResourcesKept, SubscriptionsKept
       DEF RemovingIsEnded, NoResource, NoSubscription
<1>2. CASE Join
  BY <1>2 DEF Join, Joined, RemovingIsEnded, appVars, MgrTypeOK
<1>3. CASE CleanupResources
  BY <1>3 DEF CleanupResources, RemovingIsEnded, NoResource, appVars, MgrTypeOK
<1>4. CASE CleanupEvents
  BY <1>4 DEF CleanupEvents, RemovingIsEnded, NoResource, NoSubscription, appVars,
     MgrTypeOK
<1>5. CASE Serve
  BY <1>1, <1>5 DEF Serve, Refuse, Query, Foreign, Subscribe, BeginInstall,
     BeginUninstall, RemovingIsEnded
<1>6. CASE mgr'.pc \notin {"resources", "events", "delete"}
  BY <1>6 DEF RemovingIsEnded
<1>7. CASE BuildFails \/ TimersFail \/ ThreadFails \/ AnswerDone
  BY <1>6, <1>7 DEF BuildFails, TimersFail, ThreadFails, AnswerDone, Idle
<1>8. CASE AddModule \/ TimersCreated \/ ThreadCreated \/ DeleteModule \/ Announce
  BY <1>6, <1>8 DEF AddModule, TimersCreated, ThreadCreated, DeleteModule, Announce,
     MgrTypeOK
<1>9. QED
  BY <1>1, <1>2, <1>3, <1>4, <1>5, <1>7, <1>8, MgrWriters DEF Manager

LEMMA FreedStep ==
  ASSUME TypeInv, LifeInv, [Next]_vars
  PROVE  FreedIsGone'
<1> USE DEF TypeInv, TypeOK, LifeInv
<1>1. ASSUME NEW i \in released'
      PROVE  /\ i \in Id /\ thr[i] \in {"none", "exited"}
             /\ NoResource(i) /\ NoSubscription(i)
             /\ ~(ThreadCreated /\ mgr.id = i)
  <2>1. CASE i \in released
    BY <2>1 DEF FreedIsGone, ModTypeOK, NoResource, NoSubscription, ThreadCreated,
       InstallingIsNew
  <2>2. CASE (TimersFail \/ ThreadFails) /\ i = mgr.id
    BY <2>2 DEF TimersFail, ThreadFails, InstallingIsNew, FreshIsNowhere, ServingOK,
       ThreadCreated, Idle, MgrTypeOK
  <2>3. CASE DeleteModule /\ i = mgr.id
    BY <2>3 DEF DeleteModule, RemovingIsEnded, ServingOK, ThreadCreated
  <2>4. QED
    BY <1>1, <2>1, <2>2, <2>3, ModWriters
       DEF modVars, AddModule, TimersFail, ThreadFails, DeleteModule
<1>2. QED
  BY <1>1, DeadStays, ResourcesKept, SubscriptionsKept
     DEF FreedIsGone, NoResource, NoSubscription

\* LifeInv is inductive, relative to the types.
LEMMA LifeInvariance == Spec => []LifeInv
<1>1. Init => LifeInv
  BY DEF Init, LifeInv, FreshIsNowhere, InstallingIsNew, RemovingIsEnded, FreedIsGone,
     NoResource, NoSubscription
<1>2. TypeInv /\ LifeInv /\ [Next]_vars => LifeInv'
  BY FreshStep, InstallingStep, RemovingStep, FreedStep DEF LifeInv
<1>3. QED
  BY <1>1, <1>2, TypeInvariance, PTL DEF Spec

\* For any number of applications, requests and native calls: a freed module has
\* no thread, no resource and no subscription.
THEOREM FreedAlwaysGone == Spec => []FreedIsGone
<1>1. LifeInv => FreedIsGone
  BY DEF LifeInv
<1>2. QED
  BY <1>1, LifeInvariance, PTL

\* No step gives a freed module a thread, or brings back to the list a module
\* that left it.
LEMMA NoReturnStep ==
  ASSUME TypeInv, LifeInv, [Next]_vars, NEW i \in released
  PROVE  /\ thr'[i] = thr[i]
         /\ i \in released'
         /\ i \notin listed => i \notin listed'
<1> USE DEF TypeInv, TypeOK, LifeInv
<1>1. i \in Id /\ i < nextId
  BY DEF ModTypeOK, FreshIsNowhere, Id
<1>2. thr'[i] = thr[i]
  BY <1>1, DeadStays DEF FreedIsGone, ThreadCreated, InstallingIsNew
<1>3. i \in released'
  BY ModWriters DEF modVars, AddModule, TimersFail, ThreadFails, DeleteModule
<1>4. i \notin listed => i \notin listed'
  BY <1>1, ModWriters DEF modVars, AddModule, TimersFail, ThreadFails, DeleteModule,
     ModTypeOK, Id
<1>5. QED
  BY <1>2, <1>3, <1>4

\* Once freed, a module stays so for ever: its thread does not run again and its
\* id is not given to another module of the list.
THEOREM NeverReturns == Spec => NoReturn
<1>1. TypeInv /\ LifeInv /\ [Next]_vars =>
        [\A i \in released :
           /\ thr'[i] = thr[i]
           /\ i \in released'
           /\ i \notin listed => i \notin listed']_vars
  BY NoReturnStep
<1>2. QED
  BY <1>1, TypeInvariance, LifeInvariance, PTL DEF Spec, NoReturn

-----------------------------------------------------------------------------
(* What an installation was promised when it was accepted, and what the    *)
(* host knows of it: WithinLimit is an invariant, and HostViewCurrent is   *)
(* one when no installation fails at its timers.                           *)

\* The steps after which an installation was just accepted.
LEMMA BuildWriters ==
  ASSUME TypeInv, [Next]_vars, mgr'.pc = "build"
  PROVE  \/ UNCHANGED mgr
         \/ \E m \in Mid : \E r \in Requests : BeginInstall(m, r)
<1>1. mgr \in [pc : MgrPc, mid : Mid \cup {NoMid}, id : Id \cup {NoId}]
  BY DEF TypeInv, TypeOK, MgrTypeOK
<1>2. CASE Serve
  BY <1>2 DEF Serve, Refuse, Query, Foreign, Subscribe, BeginUninstall
<1>3. CASE BuildFails \/ TimersFail \/ ThreadFails \/ AnswerDone
  BY <1>3 DEF BuildFails, TimersFail, ThreadFails, AnswerDone, Idle
<1>4. CASE AddModule \/ TimersCreated \/ ThreadCreated \/ Join \/ CleanupResources
            \/ CleanupEvents \/ DeleteModule \/ Announce
  BY <1>1, <1>4 DEF AddModule, TimersCreated, ThreadCreated, Join, CleanupResources,
     CleanupEvents, DeleteModule, Announce
<1>5. QED
  BY <1>2, <1>3, <1>4, MgrWriters DEF Manager

\* A step of another thread does not change the list, and what the host saw it
\* leaves or spoils.
LEMMA OthersFrame ==
  ASSUME [Next]_vars
  PROVE  \/ Manager
         \/ UNCHANGED <<modVars, mgr>> /\ (hostView' = hostView \/ hostView' = {})
BY HostFrame, SendFrame, AppRunsFrame, AppCallsFrame
   DEF Next, HostAction, AppFrame, mgrVars, hostVars, vars

-----------------------------------------------------------------------------
(* The limit and the names.                                                *)

\* What wasm_app_module_install checked still holds when the module is added.
AcceptedIsFree ==
  mgr.pc = "build" =>
    /\ Cardinality(listed) < MaxApps
    /\ \A i \in listed : name[i] # asked[mgr.mid].arg

LimitInv == WithinLimit /\ AcceptedIsFree

LEMMA ListedFinite ==
  ASSUME TypeInv
  PROVE  IsFiniteSet(listed) /\ Cardinality(listed) \in Nat
<1>1. IsFiniteSet(Id)
  BY BoundsAssumption, FS_Interval DEF Id
<1>2. listed \subseteq Id
  BY DEF TypeInv, TypeOK, ModTypeOK
<1>3. QED
  BY <1>1, <1>2, FS_Subset, FS_CardinalityType

LEMMA AcceptedStep ==
  ASSUME TypeInv, LimitInv, [Next]_vars, UNCHANGED modVars
  PROVE  AcceptedIsFree'
<1> SUFFICES ASSUME mgr'.pc = "build"
             PROVE  /\ Cardinality(listed) < MaxApps
                    /\ \A i \in listed : name[i] # asked'[mgr'.mid].arg
  BY DEF AcceptedIsFree, modVars
<1>1. CASE UNCHANGED mgr
  <2>1. asked'[mgr.mid] = asked[mgr.mid]
    BY <1>1, AskedStays DEF TypeInv, ServingOK
  <2>2. QED
    BY <1>1, <2>1 DEF LimitInv, AcceptedIsFree
<1>2. ASSUME NEW m \in Mid, NEW r \in Requests, BeginInstall(m, r)
      PROVE  /\ Cardinality(listed) < MaxApps
             /\ \A i \in listed : name[i] # asked'[mgr'.mid].arg
  <2>1. mgr'.mid = m /\ asked'[m] = r
    BY <1>2 DEF BeginInstall, Take, hostVars
  <2>2. ~(Cardinality(listed) >= MaxApps) /\ Lookup(r.arg) = {}
    BY <1>2 DEF BeginInstall, Refused
  <2>3. QED
    BY <2>1, <2>2, ListedFinite, BoundsAssumption DEF Lookup
<1>3. QED
  BY <1>1, <1>2, BuildWriters

LEMMA LimitStep ==
  ASSUME TypeInv, LifeInv, LimitInv, [Next]_vars
  PROVE  LimitInv'
<1>1. CASE UNCHANGED modVars
  BY <1>1, AcceptedStep DEF LimitInv, WithinLimit, modVars
<1>2. CASE AddModule
  <2>1. /\ mgr.pc = "build" /\ nextId \in Id /\ listed' = listed \cup {nextId}
        /\ name' = [name EXCEPT ![nextId] = asked[mgr.mid].arg]
        /\ mgr'.pc = "timers"
    BY <1>2 DEF AddModule, TypeInv, TypeOK, MgrTypeOK
  <2>2. nextId \notin listed
    BY <2>1 DEF LifeInv, FreshIsNowhere, Id
  <2>3. Cardinality(listed') = Cardinality(listed) + 1
    BY <2>1, <2>2, ListedFinite, FS_AddElement
  <2>4. Cardinality(listed') <= MaxApps
    BY <2>1, <2>3, ListedFinite, BoundsAssumption DEF LimitInv, AcceptedIsFree
  <2>5. ASSUME NEW i \in listed', NEW j \in listed', name'[i] = name'[j]
        PROVE  i = j
    <3>1. listed \subseteq Id /\ name \in [Id -> Name \cup {NoName}]
      BY DEF TypeInv, TypeOK, ModTypeOK
    <3>2. name'[nextId] = asked[mgr.mid].arg
      BY <2>1, <3>1
    <3>3. ASSUME NEW k \in listed
          PROVE  name'[k] = name[k] /\ name'[k] # name'[nextId]
      BY <2>1, <2>2, <3>1, <3>2 DEF LimitInv, AcceptedIsFree
    <3>4. QED
      BY <2>1, <2>5, <3>3 DEF LimitInv, WithinLimit
  <2>6. QED
    BY <2>1, <2>4, <2>5 DEF LimitInv, WithinLimit, AcceptedIsFree
<1>3. CASE TimersFail \/ ThreadFails \/ DeleteModule
  <2>1. listed' \subseteq listed /\ name' = name /\ mgr'.pc # "build"
    BY <1>3 DEF TimersFail, ThreadFails, DeleteModule, Idle, TypeInv, TypeOK, MgrTypeOK
  <2>2. Cardinality(listed') <= Cardinality(listed) /\ Cardinality(listed') \in Nat
    BY <2>1, ListedFinite, FS_Subset, FS_CardinalityType
  <2>3. Cardinality(listed') <= MaxApps
    BY <2>2, ListedFinite, BoundsAssumption DEF LimitInv, WithinLimit
  <2>4. QED
    BY <2>1, <2>3 DEF LimitInv, WithinLimit, AcceptedIsFree
<1>4. QED
  BY <1>1, <1>2, <1>3, ModWriters

LEMMA LimitInvariance == Spec => []LimitInv
<1>1. Init => LimitInv
  <2>1. Cardinality({}) = 0
    BY FS_EmptySet
  <2>2. QED
    BY <2>1, BoundsAssumption DEF Init, LimitInv, WithinLimit, AcceptedIsFree
<1>2. TypeInv /\ LifeInv /\ LimitInv /\ [Next]_vars => LimitInv'
  BY LimitStep
<1>3. QED
  BY <1>1, <1>2, TypeInvariance, LifeInvariance, PTL DEF Spec

\* For any number of applications and requests, and whatever installations
\* fail: the limit is kept and no two modules of the list share a name.
THEOREM LimitKept == Spec => []WithinLimit
<1>1. LimitInv => WithinLimit
  BY DEF LimitInv
<1>2. QED
  BY <1>1, LimitInvariance, PTL

-----------------------------------------------------------------------------
(* What the host knows.                                                    *)

HostSubscribed == [event |-> Applets, who |-> Host] \in subscribers

\* The last "/applets" event is about the list as it is, or as it was before the
\* module that is being installed; it is behind until the next one is sent.
HostViewFollows ==
  hostView # {} /\ HostSubscribed =>
    /\ mgr.pc \in {"timers", "thread"} => hostView = {Names(listed \ {mgr.id})}
    /\ mgr.pc \notin {"timers", "thread", "announce"} => hostView = {Names(listed)}

\* The host subscribes by requests only, and a subscription starts afresh.
LEMMA HostSubscribes ==
  ASSUME [Next]_vars, HostSubscribed', hostView' # {}
  PROVE  HostSubscribed
<1>1. ASSUME NEW i \in Id, NEW e \in Event, SubscribeEvent(i, e)
      PROVE  HostSubscribed
  <2>1. Host # i
    BY PartyAssumption, BoundsAssumption DEF Id
  <2>2. QED
    BY <1>1, <2>1 DEF SubscribeEvent, HostSubscribed
<1>2. ASSUME NEW m \in Mid, NEW r \in Requests, Subscribe(m, r)
      PROVE  HostSubscribed
  <2>1. r.arg # Applets
    BY <1>2 DEF Subscribe
  <2>2. QED
    BY <1>2, <2>1 DEF Subscribe, HostSubscribed
<1>3. CASE CleanupEvents
  BY <1>3 DEF CleanupEvents, HostSubscribed
<1>4. QED
  BY <1>1, <1>2, <1>3, SubscriberWriters DEF HostSubscribed

\* Taking a request changes the host's view only by forgetting it.
LEMMA ServeView ==
  ASSUME Serve
  PROVE  /\ mgr.pc = "idle" /\ mgr'.pc \in {"idle", "build", "join"}
         /\ hostView' = hostView \/ hostView' = {}
BY DEF Serve, Refuse, Query, Foreign, Subscribe, BeginInstall, BeginUninstall, Take,
   hostVars

LEMMA AddedNames ==
  ASSUME TypeInv, LifeInv, AddModule
  PROVE  Names(listed \ {mgr.id})' = Names(listed)
<1>1. /\ nextId \in Id /\ listed' = listed \cup {nextId} /\ mgr'.id = nextId
      /\ \A i \in listed : i # nextId => name'[i] = name[i]
  BY DEF AddModule, TypeInv, TypeOK, MgrTypeOK, ModTypeOK
<1>2. nextId \notin listed
  BY <1>1 DEF LifeInv, FreshIsNowhere, Id
<1>3. QED
  BY <1>1, <1>2 DEF Names

LEMMA ViewStep ==
  ASSUME "timers" \notin Failures, TypeInv, LifeInv, HostViewFollows, [Next]_vars
  PROVE  HostViewFollows'
<1> SUFFICES ASSUME hostView' # {}, HostSubscribed'
             PROVE  /\ mgr'.pc \in {"timers", "thread"} =>
                         hostView' = {Names(listed \ {mgr.id})'}
                    /\ mgr'.pc \notin {"timers", "thread", "announce"} =>
                         hostView' = {Names(listed)'}
  BY DEF HostViewFollows, Names
<1>1. HostSubscribed
  BY HostSubscribes
<1>2. mgr \in [pc : MgrPc, mid : Mid \cup {NoMid}, id : Id \cup {NoId}]
  BY DEF TypeInv, TypeOK, MgrTypeOK
<1>3. CASE UNCHANGED <<modVars, mgr>> /\ (hostView' = hostView \/ hostView' = {})
  BY <1>1, <1>3 DEF HostViewFollows, Names, modVars
<1>4. CASE Serve
  BY <1>1, <1>4, ServeView, ServeFrame DEF HostViewFollows, Names, modVars
<1>5. CASE AddModule
  <2>1. hostView' = hostView /\ mgr.pc = "build" /\ mgr'.pc = "timers"
    BY <1>2, <1>5 DEF AddModule, hostVars
  <2>2. QED
    BY <1>1, <1>5, <2>1, AddedNames DEF HostViewFollows
<1>6. CASE TimersCreated
  BY <1>1, <1>2, <1>6 DEF TimersCreated, HostViewFollows, Names, modVars, hostVars
<1>7. CASE ThreadFails
  <2>1. /\ hostView' = hostView /\ mgr.pc = "thread" /\ mgr'.pc = "idle"
        /\ listed' = listed \ {mgr.id} /\ name' = name
    BY <1>7 DEF ThreadFails, Idle
  <2>2. QED
    BY <1>1, <2>1 DEF HostViewFollows, Names
<1>8. CASE Announce
  <2>1. EventIsRegistered(Applets)
    BY <1>1 DEF EventIsRegistered, HostSubscribed
  <2>2. /\ hostView' = {Names(listed)} /\ mgr'.pc = "answer"
        /\ listed' = listed /\ name' = name
    BY <1>2, <1>8, <2>1 DEF Announce, modVars
  <2>3. QED
    BY <2>2 DEF Names
<1>9. CASE ThreadCreated \/ DeleteModule
  <2>1. mgr'.pc = "announce"
    BY <1>2, <1>9 DEF ThreadCreated, DeleteModule
  <2>2. QED
    BY <2>1
<1>10. CASE BuildFails \/ Join \/ CleanupResources \/ CleanupEvents \/ AnswerDone
  <2>1. /\ hostView' = hostView /\ UNCHANGED <<listed, name>>
        /\ mgr.pc \notin {"timers", "thread", "announce"}
        /\ mgr'.pc \notin {"timers", "thread", "announce"}
    BY <1>2, <1>10 DEF BuildFails, Join, CleanupResources, CleanupEvents, AnswerDone,
       Idle, modVars, hostVars
  <2>2. QED
    BY <1>1, <2>1 DEF HostViewFollows, Names
<1>11. QED
  BY <1>3, <1>4, <1>5, <1>6, <1>7, <1>8, <1>9, <1>10, OthersFrame DEF Manager, TimersFail

\* When the timers of an installation cannot fail, what a subscribed host was
\* last told is the list, whenever the manager is between two requests; unless
\* the last event was an application's own of that name, or the manager had no
\* memory for its own, when hostView says nothing.
THEOREM HostViewKept ==
  ASSUME "timers" \notin Failures
  PROVE  Spec => []HostViewCurrent
<1>1. Init => HostViewFollows
  BY DEF Init, HostViewFollows
<1>2. TypeInv /\ LifeInv /\ HostViewFollows /\ [Next]_vars => HostViewFollows'
  BY ViewStep
<1>3. HostViewFollows => HostViewCurrent
  BY DEF HostViewFollows, HostSubscribed, HostViewCurrent
<1>4. QED
  BY <1>1, <1>2, <1>3, TypeInvariance, LifeInvariance, PTL DEF Spec
===============================================================================
