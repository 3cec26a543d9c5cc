-------------------------- MODULE AppManagerAnswers --------------------------
(***************************************************************************)
(* The answers to the host, for every value of the constants: AnsweredOnce *)
(* and RightRecipient are invariants of AppManager.  A request that is not *)
(* answered is in one place at most: the queue of the manager, the request *)
(* the manager works on, a delivery a thread has to make, the queue of an  *)
(* application, or the message an application handles.  Every answer       *)
(* takes it from the place where it is.                                    *)
(***************************************************************************)
EXTENDS AppManagerProofs

\* Request m, or the response to it, is a delivery that thread t has to make;
\* is the k-th message in the queue of module i; is what module i handles.
Sending(t, d, m)  == d \in out[t] /\ d.msg.mid = m
Queued(i, k, m)   == k \in 1 .. Len(queue[i]) /\ queue[i][k].mid = m
Handling(i, m)    == handling[i].mid = m
Waiting(k, m)     == k \in 1 .. Len(mgrQueue) /\ mgrQueue[k] = m
Serving(m)        == mgr.pc # "idle" /\ mgr.mid = m

\* A handler is registered for a URL at most once.
HandlersUnique == \A q, r \in resources : q.url = r.url => q = r

\* A request travels to the applications in one copy.
SentOnce(m) ==
  /\ \A t, v \in Thread : \A d, e : Sending(t, d, m) /\ Sending(v, e, m) => t = v /\ d = e
  /\ \A t \in Thread, i \in Id : \A d, k : ~(Sending(t, d, m) /\ Queued(i, k, m))
  /\ \A t \in Thread, i \in Id : \A d : ~(Sending(t, d, m) /\ Handling(i, m))

HeldOnce(m) ==
  /\ \A i, j \in Id : \A k, l : Queued(i, k, m) /\ Queued(j, l, m) => i = j /\ k = l
  /\ \A i, j \in Id : \A k : ~(Queued(i, k, m) /\ Handling(j, m))
  /\ \A i, j \in Id : Handling(i, m) /\ Handling(j, m) => i = j

\* What may be on its way to an application, and what to the manager: requests
\* that were asked, are of the right kind, and have no answer.
OnItsWay(m) == answers[m] = <<>> /\ asked[m].op \in {"app", "resource"}
InCharge(m) == answers[m] = <<>> /\ asked[m].op \in ManagementOp

CarriedOpen(m) ==
  /\ \A t \in Thread : \A d : Sending(t, d, m) => OnItsWay(m)
  /\ \A i \in Id : \A k : Queued(i, k, m) => OnItsWay(m)
  /\ \A i \in Id : Handling(i, m) => OnItsWay(m)

ManagedOnce(m) ==
  /\ \A k : Waiting(k, m) => InCharge(m) /\ ~Serving(m)
  /\ \A k, l : Waiting(k, m) /\ Waiting(l, m) => k = l
  /\ Serving(m) => InCharge(m)

UnaskedOpen(m) == asked[m] = NoRequest => answers[m] = <<>>

OnceInv ==
  /\ HandlersUnique
  /\ AnsweredOnce
  /\ \A m \in Mid : SentOnce(m) /\ HeldOnce(m) /\ CarriedOpen(m)
                      /\ ManagedOnce(m) /\ UnaskedOpen(m)

\* A request of the host for an application, sent to module i, which has the name.
ForModule(i, msg) ==
  (msg.kind = "request" /\ msg.from = Host) =>
     /\ msg.mid \in Mid
     /\ asked[msg.mid].op = "app" => name[i] = asked[msg.mid].arg

\* Module i has the name, or the memory of a freed one that had it.
StandsFor(i, n) ==
  /\ i < nextId
  /\ \E k \in Id : name[k] = n /\ (k = i \/ (k \in released /\ addr[k] = addr[i]))

\* Such a request, held by module i.
HeldBy(i, msg) ==
  (msg.kind = "request" /\ msg.from = Host) =>
     /\ msg.mid \in Mid
     /\ asked[msg.mid].op = "app" => StandsFor(i, asked[msg.mid].arg)

\* Wherever such a request is, it is on its way to the module with the name, or
\* with one that stands for it.
RecipientInv ==
  /\ \A i \in Id : i >= nextId => name[i] = NoName
  /\ \A t \in Thread : \A d \in out[t] : d.to \in Id => ForModule(d.to, d.msg)
  /\ \A i \in Id : \A k \in 1 .. Len(queue[i]) : HeldBy(i, queue[i][k])
  /\ \A i \in Id : HeldBy(i, handling[i])

\* Two modules that were not freed do not share memory; that new memory is theirs
\* alone rests on where all the memory given so far is.
MemoryInv ==
  /\ \A i \in Id : i < nextId => i \in listed \cup released /\ addr[i] < nextId
  /\ \A i, j \in Id :
        (i < nextId /\ j < nextId /\ i \notin released /\ j \notin released
           /\ addr[i] = addr[j]) => i = j

-----------------------------------------------------------------------------
(* The parts of the invariant, step by step.                               *)

Carried(m) == SentOnce(m) /\ HeldOnce(m) /\ CarriedOpen(m)
Managed(m) == ManagedOnce(m) /\ UnaskedOpen(m) /\ Len(answers[m]) <= 1

\* Nothing but what the answer to a request depends on.
Kept(m) == answers'[m] = answers[m] /\ asked'[m] = asked[m]

LEMMA HandlersStep ==
  ASSUME HandlersUnique, [Next]_vars
  PROVE  HandlersUnique'
<1>1. ASSUME NEW i \in Id, NEW u \in Url, RegisterResource(i, u)
      PROVE  HandlersUnique'
  BY <1>1 DEF RegisterResource, MayRegister, HandlersUnique
<1>2. QED
  BY <1>1, ResourceWriters DEF HandlersUnique, CleanupResources

\* A step that leaves the deliveries and the messages of the applications where
\* they are, and answers no request that is on its way to one.
LEMMA CarriedStays ==
  ASSUME NEW m \in Mid, Carried(m), UNCHANGED <<out, queue, handling>>,
         Kept(m) \/ ~OnItsWay(m)
  PROVE  Carried(m)'
BY DEF Carried, SentOnce, HeldOnce, CarriedOpen, Sending, Queued, Handling, OnItsWay, Kept

\* A step that takes messages away, and answers no request that is on its way.
LEMMA CarriedLess ==
  ASSUME NEW m \in Mid, Carried(m), Kept(m) \/ ~OnItsWay(m),
         \A t \in Thread : out'[t] \subseteq out[t],
         \A i \in Id, k \in Nat : Queued(i, k, m)' => Queued(i, k, m),
         \A i \in Id : Handling(i, m)' => Handling(i, m)
  PROVE  Carried(m)'
<1>1. \A t \in Thread : \A d : Sending(t, d, m)' => Sending(t, d, m)
  BY DEF Sending
<1>2. \A i \in Id : \A k : Queued(i, k, m)' => k \in Nat
  BY DEF Queued
<1>3. \A i \in Id : \A k : Queued(i, k, m)' => Queued(i, k, m)
  BY <1>2
<1>4. SentOnce(m)'
  BY <1>1, <1>3 DEF Carried, SentOnce
<1>5. HeldOnce(m)'
  BY <1>3 DEF Carried, HeldOnce
<1>6. CarriedOpen(m)'
  <2>1. CASE Kept(m)
    <3>1. OnItsWay(m) => OnItsWay(m)'
      BY <2>1 DEF Kept, OnItsWay
    <3>2. QED
      BY <1>1, <1>3, <3>1 DEF Carried, CarriedOpen
  <2>2. CASE ~OnItsWay(m)
    BY <1>1, <1>3, <2>2 DEF Carried, CarriedOpen
  <2>3. QED
    BY <2>1, <2>2
<1>7. QED
  BY <1>4, <1>5, <1>6 DEF Carried

\* A new request is delivered in one copy, and nothing was sent for it before.
LEMMA AskDeliver ==
  ASSUME TypeInv, OnceInv, NEW n \in Mid, NEW r \in Requests, NEW m \in Mid,
         Ask(n, r), UNCHANGED <<queue, handling>>,
         \A t \in Thread \ {Host} : out'[t] = out[t],
         \A d \in out'[Host] : d.msg.mid = n,
         \A d, e \in out'[Host] : d = e,
         out'[Host] # {} => r.op \in {"app", "resource"} /\ answers'[n] = answers[n],
         \A k \in Mid \ {n} : answers'[k] = answers[k]
  PROVE  Carried(m)'
<1>1. asked[n] = NoRequest /\ asked' = [asked EXCEPT ![n] = r] /\ out[Host] = {}
  BY DEF Ask, HostIdle
<1>2. asked \in [Mid -> Requests \cup {NoRequest}]
  BY DEF TypeInv, TypeOK, HostTypeOK
<1>3. Carried(m) /\ Carried(n) /\ answers[n] = <<>>
  BY <1>1 DEF OnceInv, Carried, UnaskedOpen
<1>4. ~OnItsWay(n)
  BY <1>1 DEF OnItsWay, NoRequest
<1>5. CASE m # n
  <2>1. Kept(m)
    BY <1>1, <1>2, <1>5 DEF Kept
  <2>2. \A t \in Thread : \A d : Sending(t, d, m)' => Sending(t, d, m)
    BY <1>5 DEF Sending
  <2>3. \A i \in Id : \A k : Queued(i, k, m)' => Queued(i, k, m)
    BY DEF Queued
  <2>4. \A i \in Id : Handling(i, m)' => Handling(i, m)
    BY DEF Handling
  <2>5. OnItsWay(m) => OnItsWay(m)'
    BY <2>1 DEF OnItsWay, Kept
  <2>6. SentOnce(m)'
    BY <1>3, <2>2, <2>3, <2>4 DEF Carried, SentOnce
  <2>7. HeldOnce(m)'
    BY <1>3, <2>3, <2>4 DEF Carried, HeldOnce
  <2>8. CarriedOpen(m)'
    BY <1>3, <2>2, <2>3, <2>4, <2>5 DEF Carried, CarriedOpen
  <2>9. QED
    BY <2>6, <2>7, <2>8 DEF Carried
<1>6. CASE m = n
  <2>1. \A i \in Id : \A k : ~Queued(i, k, n)'
    BY <1>3, <1>4 DEF Queued, Carried, CarriedOpen
  <2>2. \A i \in Id : ~Handling(i, n)'
    BY <1>3, <1>4 DEF Handling, Carried, CarriedOpen
  <2>3. \A t \in Thread : \A d : Sending(t, d, n)' => t = Host /\ d \in out'[Host]
    <3>1. \A t \in Thread : \A d : ~Sending(t, d, n)
      BY <1>3, <1>4 DEF Carried, CarriedOpen
    <3>2. QED
      BY <3>1 DEF Sending
  <2>4. \A t \in Thread : \A d : Sending(t, d, n)' => OnItsWay(n)'
    <3>1. asked'[n] = r
      BY <1>1, <1>2
    <3>2. QED
      BY <1>3, <2>3, <3>1 DEF OnItsWay
  <2>5. SentOnce(n)'
    BY <2>1, <2>2, <2>3 DEF SentOnce
  <2>6. HeldOnce(n)' /\ CarriedOpen(n)'
    BY <2>1, <2>2, <2>4 DEF HeldOnce, CarriedOpen
  <2>7. QED
    BY <1>6, <2>5, <2>6 DEF Carried
<1>7. QED
  BY <1>5, <1>6

LEMMA HostCarried ==
  ASSUME TypeInv, OnceInv, NEW n \in Mid, NEW r \in Requests, HostAction(n, r),
         NEW m \in Mid
  PROVE  Carried(m)'
<1>1. UNCHANGED <<queue, handling>>
  BY HostFrame DEF appVars
<1>2. Ask(n, r)
  BY DEF HostAction, AskManagement, AskApp, AskResource
<1>3. /\ out \in [Thread -> SUBSET Delivery] /\ Host \in Thread
      /\ answers \in [Mid -> Seq(Status)] /\ out[Host] = {}
  BY <1>2 DEF TypeInv, TypeOK, SendTypeOK, HostTypeOK, Thread, Party, Ask, HostIdle
<1>4. CASE AskManagement(n, r)
  <2>1. out' = out /\ answers' = answers
    BY <1>4 DEF AskManagement, sendVars
  <2>2. QED
    BY <1>1, <1>2, <1>3, <2>1, AskDeliver
<1>5. CASE AskApp(n, r)
  <2>1. CASE Answer(n, "error") /\ UNCHANGED out
    BY <1>1, <1>2, <1>3, <2>1, AskDeliver DEF Answer
  <2>2. ASSUME NEW i \in Lookup(r.arg),
               out' = [out EXCEPT ![Host] =
                 {[to |-> i, msg |-> [kind |-> "request", from |-> Host, mid |-> n]]}],
               UNCHANGED answers
        PROVE  Carried(m)'
    BY <1>1, <1>2, <1>3, <1>5, <2>2, AskDeliver DEF AskApp
  <2>3. QED
    BY <1>5, <2>1, <2>2 DEF AskApp
<1>6. CASE AskResource(n, r)
  <2>1. /\ out' = [out EXCEPT ![Host] =
             {[to |-> q.owner, msg |-> [kind |-> "request", from |-> Host, mid |-> n]] :
                q \in {p \in resources : p.url = r.arg}}]
        /\ answers' = answers /\ r.op = "resource"
    BY <1>6 DEF AskResource, Dispatch
  <2>2. \A q, p \in resources : q.url = r.arg /\ p.url = r.arg => q = p
    BY DEF OnceInv, HandlersUnique
  <2>3. \A d, e \in out'[Host] : d = e
    BY <1>3, <2>1, <2>2
  <2>4. \A d \in out'[Host] : d.msg.mid = n
    BY <1>3, <2>1
  <2>5. QED
    BY <1>1, <1>2, <1>3, <2>1, <2>3, <2>4, AskDeliver
<1>7. QED
  BY <1>4, <1>5, <1>6 DEF HostAction

\* A message that is in no queue and handled by nobody goes from the deliveries
\* of a thread to the end of a queue.
LEMMA PostCarried ==
  ASSUME TypeInv, OnceInv, NEW m \in Mid, Kept(m), UNCHANGED handling,
         NEW t \in Thread, NEW i \in Id, NEW d \in out[t],
         out' = [out EXCEPT ![t] = @ \ {d}],
         queue' = [queue EXCEPT ![i] = Append(@, d.msg)]
  PROVE  Carried(m)'
<1>1. /\ out \in [Thread -> SUBSET Delivery] /\ queue \in [Id -> Seq(Message)]
      /\ d.msg \in Message
  BY DEF TypeInv, TypeOK, SendTypeOK, Delivery
<1>2. Carried(m)
  BY DEF OnceInv, Carried
<1>3. \A v \in Thread : \A e : Sending(v, e, m)' => Sending(v, e, m) /\ ~(v = t /\ e = d)
  BY <1>1 DEF Sending
<1>4. Len(queue[i]) \in Nat
  BY <1>1
<1>5. \A j \in Id : \A k :
         Queued(j, k, m)' =>
           \/ Queued(j, k, m)
           \/ j = i /\ k = Len(queue[i]) + 1 /\ Sending(t, d, m)
  <2>1. ASSUME NEW j \in Id, NEW k, Queued(j, k, m)'
        PROVE  \/ Queued(j, k, m)
               \/ j = i /\ k = Len(queue[i]) + 1 /\ Sending(t, d, m)
    <3>1. CASE j # i
      BY <1>1, <2>1, <3>1 DEF Queued
    <3>2. CASE j = i
      <4>1. queue'[j] = Append(queue[i], d.msg)
        BY <1>1, <3>2
      <4>2. /\ Len(Append(queue[i], d.msg)) = Len(queue[i]) + 1
            /\ \A l \in 1 .. Len(queue[i]) : Append(queue[i], d.msg)[l] = queue[i][l]
            /\ Append(queue[i], d.msg)[Len(queue[i]) + 1] = d.msg
        BY <1>1
      <4>3. k \in 1 .. Len(queue[i]) + 1 /\ Append(queue[i], d.msg)[k].mid = m
        BY <2>1, <4>1, <4>2 DEF Queued
      <4>4. CASE k \in 1 .. Len(queue[i])
        BY <3>2, <4>2, <4>3, <4>4 DEF Queued
      <4>5. CASE k = Len(queue[i]) + 1
        BY <3>2, <4>2, <4>3, <4>5 DEF Sending
      <4>6. QED
        BY <1>4, <4>3, <4>4, <4>5
    <3>3. QED
      BY <3>1, <3>2
  <2>2. QED
    BY <2>1
<1>6. \A j \in Id : Handling(j, m)' => Handling(j, m)
  BY DEF Handling
<1>7. OnItsWay(m) => OnItsWay(m)'
  BY DEF OnItsWay, Kept
<1>8. SentOnce(m)'
  BY <1>2, <1>3, <1>5, <1>6 DEF Carried, SentOnce
<1>9. HeldOnce(m)'
  BY <1>2, <1>5, <1>6 DEF Carried, HeldOnce, SentOnce
<1>10. CarriedOpen(m)'
  BY <1>2, <1>3, <1>5, <1>6, <1>7 DEF Carried, CarriedOpen
<1>11. QED
  BY <1>8, <1>9, <1>10 DEF Carried

LEMMA SendCarried ==
  ASSUME TypeInv, OnceInv, NEW t \in Thread, Send(t), NEW m \in Mid
  PROVE  Carried(m)' /\ (Kept(m) \/ (OnItsWay(m) /\ Len(answers'[m]) <= 1
                                       /\ asked' = asked))
<1>1. UNCHANGED <<handling, asked>>
  BY SendFrame DEF appVars
<1>2. /\ out \in [Thread -> SUBSET Delivery] /\ queue \in [Id -> Seq(Message)]
      /\ answers \in [Mid -> Seq(Status)]
  BY DEF TypeInv, TypeOK, SendTypeOK, HostTypeOK
<1>3. Carried(m)
  BY DEF OnceInv, Carried
<1>4. CASE LookupFound(t)
  <2>1. Kept(m) /\ UNCHANGED <<out, queue>>
    BY <1>4 DEF LookupFound, Kept, hostVars
  <2>2. QED
    BY <1>1, <1>3, <2>1, CarriedStays
<1>5. CASE LookupMissing(t)
  <2>1. PICK d \in out[t] :
           /\ out' = [out EXCEPT ![t] = @ \ {d}]
           /\ IF d.msg.kind = "response" /\ d.msg.mid # NoMid
              THEN Answer(d.msg.mid, "app") ELSE UNCHANGED answers
    BY <1>5 DEF LookupMissing
  <2>2. queue' = queue
    BY <1>5 DEF LookupMissing
  <2>3. \A v \in Thread : out'[v] \subseteq out[v]
    BY <1>2, <2>1
  <2>4. CASE Kept(m)
    <3>1. Carried(m)'
      BY <1>1, <1>3, <2>2, <2>3, <2>4, CarriedLess DEF Queued, Handling
    <3>2. QED
      BY <2>4, <3>1
  <2>5. CASE ~Kept(m)
    <3>1. d.msg.mid = m /\ answers'[m] = Append(answers[m], "app")
      BY <1>1, <1>2, <2>1, <2>5 DEF Kept, Answer
    <3>2. Sending(t, d, m)
      BY <3>1 DEF Sending
    <3>3. OnItsWay(m)
      BY <1>3, <3>2 DEF Carried, CarriedOpen
    <3>4. Len(answers'[m]) <= 1
      BY <3>1, <3>3 DEF OnItsWay
    <3>5. \A v \in Thread : \A e : ~Sending(v, e, m)'
      BY <1>2, <1>3, <2>1, <3>2 DEF Carried, SentOnce, Sending
    <3>6. \A i \in Id : \A k : ~Queued(i, k, m)'
      BY <1>3, <2>2, <3>2 DEF Carried, SentOnce, Queued
    <3>7. \A i \in Id : ~Handling(i, m)'
      BY <1>1, <1>3, <3>2 DEF Carried, SentOnce, Handling
    <3>8. Carried(m)'
      BY <3>5, <3>6, <3>7 DEF Carried, SentOnce, HeldOnce, CarriedOpen
    <3>9. QED
      BY <1>1, <3>3, <3>4, <3>8
  <2>6. QED
    BY <2>4, <2>5
<1>6. CASE Post(t)
  <2>1. PICK d \in out[t] :
           /\ out' = [out EXCEPT ![t] = @ \ {d}]
           /\ \/ queue' = queue
              \/ \E j \in Tenants(ptr[t]) : queue' = [queue EXCEPT ![j] = Append(@, d.msg)]
    BY <1>6 DEF Post
  <2>2. Kept(m)
    BY <1>6 DEF Post, Kept, hostVars
  <2>3. CASE queue' = queue
    <3>1. \A v \in Thread : out'[v] \subseteq out[v]
      BY <1>2, <2>1
    <3>2. QED
      BY <1>1, <1>3, <2>2, <2>3, <3>1, CarriedLess DEF Queued, Handling
  <2>4. ASSUME NEW j \in Tenants(ptr[t]), queue' = [queue EXCEPT ![j] = Append(@, d.msg)]
        PROVE  Carried(m)' /\ Kept(m)
    <3>1. j \in Id
      BY <2>4, TenantsAdded
    <3>2. QED
      BY <1>1, <2>1, <2>2, <2>4, <3>1, PostCarried
  <2>5. QED
    BY <2>1, <2>3, <2>4
<1>7. QED
  BY <1>4, <1>5, <1>6 DEF Send

-----------------------------------------------------------------------------
(* The manager.                                                            *)

\* What a step of the manager does with the requests it has: it takes the first
\* one of its queue, goes on with the one it serves, or answers one and is idle.
Begins(n) ==
  /\ mgr.pc = "idle" /\ Waiting(1, n) /\ mgrQueue' = Tail(mgrQueue)
  /\ \/ answers' = answers /\ (mgr' = mgr \/ mgr'.mid = n)
     \/ mgr' = mgr /\ \E s \in Status : Answer(n, s)

GoesOn ==
  mgr.pc # "idle" /\ mgrQueue' = mgrQueue /\ answers' = answers /\ mgr'.mid = mgr.mid

Ends ==
  /\ mgr.pc # "idle" /\ mgrQueue' = mgrQueue /\ mgr'.pc = "idle"
  /\ \E s \in Status : Answer(mgr.mid, s)

LEMMA ManagerMoves ==
  ASSUME TypeInv, Manager
  PROVE  GoesOn \/ Ends \/ \E n \in Mid : Begins(n)
<1>0. /\ mgr \in [pc : MgrPc, mid : Mid \cup {NoMid}, id : Id \cup {NoId}]
      /\ mgrQueue \in Seq(Mid)
      /\ "created" \in Status /\ "deleted" \in Status /\ "content" \in Status
      /\ "error" \in Status
  BY DEF TypeInv, TypeOK, MgrTypeOK, Status
<1>1. ASSUME NEW n \in Mid, NEW r \in Requests,
             \/ Refuse(n, r) \/ Query(n, r) \/ Foreign(n, r) \/ Subscribe(n, r)
             \/ BeginInstall(n, r) \/ BeginUninstall(n, r)
      PROVE  Begins(n)
  <2>1. Take(n, r)
    BY <1>1 DEF Refuse, Query, Foreign, Subscribe, BeginInstall, BeginUninstall
  <2>2. mgr.pc = "idle" /\ Waiting(1, n) /\ mgrQueue' = Tail(mgrQueue)
    BY <1>0, <2>1 DEF Take, Waiting
  <2>3. \/ answers' = answers /\ (mgr' = mgr \/ mgr'.mid = n)
        \/ mgr' = mgr /\ \E s \in Status : Answer(n, s)
    BY <1>0, <1>1 DEF Refuse, Query, Foreign, Subscribe, BeginInstall, BeginUninstall,
       hostVars
  <2>4. QED
    BY <2>2, <2>3 DEF Begins
<1>2. CASE AddModule \/ TimersCreated \/ ThreadCreated \/ Join \/ CleanupResources
            \/ CleanupEvents \/ DeleteModule \/ Announce
  BY <1>0, <1>2 DEF GoesOn, AddModule, TimersCreated, ThreadCreated, Join,
     CleanupResources, CleanupEvents, DeleteModule, Announce, hostVars
<1>3. CASE BuildFails \/ TimersFail \/ ThreadFails \/ AnswerDone
  BY <1>0, <1>3 DEF Ends, BuildFails, TimersFail, ThreadFails, AnswerDone, Idle
<1>4. QED
  BY <1>1, <1>2, <1>3 DEF Manager, Serve

LEMMA ManagerAnswers ==
  ASSUME TypeInv, OnceInv, Manager, NEW m \in Mid
  PROVE  Managed(m)' /\ (Kept(m) \/ InCharge(m))
<1>0. /\ mgr \in [pc : MgrPc, mid : Mid \cup {NoMid}, id : Id \cup {NoId}]
      /\ mgrQueue \in Seq(Mid) /\ answers \in [Mid -> Seq(Status)]
      /\ asked' = asked
  BY ManagerFrame DEF TypeInv, TypeOK, MgrTypeOK, HostTypeOK
<1>1. ManagedOnce(m) /\ UnaskedOpen(m) /\ Len(answers[m]) <= 1
  BY DEF OnceInv, AnsweredOnce
<1>2. ASSUME NEW n \in Mid, Begins(n)
      PROVE  Managed(m)' /\ (Kept(m) \/ InCharge(m))
  <2>1. \A k : Waiting(k, m)' => k \in Nat /\ k > 0 /\ Waiting(k + 1, m)
    BY <1>0, <1>2 DEF Begins, Waiting
  <2>2. Waiting(1, n) /\ ManagedOnce(n)
    BY <1>2 DEF Begins, OnceInv
  <2>3. \A k : ~Waiting(k, n)'
    <3>1. ASSUME NEW k, Waiting(k, n)'
          PROVE  FALSE
      <4>1. k \in Nat /\ k > 0 /\ Waiting(k + 1, n)
        BY <1>0, <1>2, <3>1 DEF Begins, Waiting
      <4>2. k + 1 = 1
        BY <2>2, <4>1 DEF ManagedOnce
      <4>3. QED
        BY <4>1, <4>2
    <3>2. QED
      BY <3>1
  <2>4. InCharge(n)
    BY <2>2 DEF ManagedOnce
  <2>5. Serving(m)' => m = n
    BY <1>2 DEF Begins, Serving
  <2>6. m # n => answers'[m] = answers[m]
    BY <1>0, <1>2 DEF Begins, Answer
  <2>7. CASE m # n
    <3>1. Kept(m) /\ (InCharge(m) => InCharge(m)')
      BY <1>0, <2>6, <2>7 DEF Kept, InCharge
    <3>2. \A k : Waiting(k, m)' => InCharge(m)' /\ ~Serving(m)'
      BY <1>1, <2>1, <2>5, <2>7, <3>1 DEF ManagedOnce
    <3>3. ASSUME NEW k, NEW l, Waiting(k, m)', Waiting(l, m)'
          PROVE  k = l
      <4>1. k + 1 = l + 1 /\ k \in Nat /\ l \in Nat
        BY <1>1, <2>1, <3>3 DEF ManagedOnce
      <4>2. QED
        BY <4>1
    <3>4. ManagedOnce(m)'
      BY <2>5, <2>7, <3>2, <3>3 DEF ManagedOnce
    <3>5. UnaskedOpen(m)' /\ Len(answers'[m]) <= 1
      BY <1>1, <3>1 DEF UnaskedOpen, Kept
    <3>6. QED
      BY <3>1, <3>4, <3>5 DEF Managed
  <2>8. CASE m = n
    <3>1. answers[n] = <<>> /\ asked[n] # NoRequest
      BY <2>4 DEF InCharge, NoRequest, ManagementOp
    <3>2. CASE answers' = answers
      <4>1. Kept(m) /\ InCharge(m)'
        BY <1>0, <2>4, <2>8, <3>2 DEF Kept, InCharge
      <4>2. QED
        BY <1>1, <2>3, <2>4, <2>8, <3>1, <3>2, <4>1 DEF Managed, ManagedOnce, UnaskedOpen
    <3>3. ASSUME mgr' = mgr, NEW s \in Status, Answer(n, s)
          PROVE  Managed(m)' /\ (Kept(m) \/ InCharge(m))
      <4>1. answers'[n] = Append(<<>>, s)
        BY <1>0, <3>1, <3>3 DEF Answer
      <4>2. Len(answers'[n]) <= 1
        BY <4>1
      <4>3. ~Serving(n)'
        BY <1>2, <3>3 DEF Begins, Serving
      <4>4. UnaskedOpen(n)'
        BY <1>0, <3>1 DEF UnaskedOpen
      <4>5. QED
        BY <2>3, <2>4, <2>8, <4>2, <4>3, <4>4 DEF Managed, ManagedOnce
    <3>4. QED
      BY <1>2, <3>2, <3>3 DEF Begins
  <2>9. QED
    BY <2>7, <2>8
<1>3. CASE GoesOn
  <2>1. Kept(m) /\ (InCharge(m) => InCharge(m)')
    BY <1>0, <1>3 DEF GoesOn, Kept, InCharge
  <2>2. Serving(m)' => Serving(m)
    BY <1>3 DEF GoesOn, Serving
  <2>3. \A k : Waiting(k, m)' => Waiting(k, m)
    BY <1>3 DEF GoesOn, Waiting
  <2>4. ManagedOnce(m)'
    BY <1>1, <2>1, <2>2, <2>3 DEF ManagedOnce
  <2>5. QED
    BY <1>1, <2>1, <2>4 DEF Managed, UnaskedOpen, Kept
<1>4. CASE Ends
  <2>1. PICK s \in Status : answers' = [answers EXCEPT ![mgr.mid] = Append(@, s)]
    BY <1>4 DEF Ends, Answer
  <2>2. mgr.mid \in Mid /\ Serving(mgr.mid) /\ ~Serving(m)'
    BY <1>4 DEF Ends, Serving, TypeInv, ServingOK
  <2>3. InCharge(mgr.mid) /\ \A k : ~Waiting(k, mgr.mid)
    BY <2>2 DEF OnceInv, ManagedOnce
  <2>4. \A k : Waiting(k, m)' => Waiting(k, m)
    BY <1>4 DEF Ends, Waiting
  <2>5. CASE m # mgr.mid
    <3>1. Kept(m) /\ (InCharge(m) => InCharge(m)')
      BY <1>0, <2>1, <2>2, <2>5 DEF Kept, InCharge
    <3>2. QED
      BY <1>1, <2>2, <2>4, <3>1 DEF Managed, ManagedOnce, UnaskedOpen, Kept
  <2>6. CASE m = mgr.mid
    <3>1. answers[m] = <<>> /\ asked[m] # NoRequest
      BY <2>3, <2>6 DEF InCharge, NoRequest, ManagementOp
    <3>2. answers'[m] = Append(<<>>, s)
      BY <1>0, <2>1, <2>2, <2>6, <3>1
    <3>3. Len(answers'[m]) <= 1
      BY <3>2
    <3>4. UnaskedOpen(m)'
      BY <1>0, <3>1 DEF UnaskedOpen
    <3>5. QED
      BY <2>2, <2>3, <2>4, <2>6, <3>3, <3>4 DEF Managed, ManagedOnce
  <2>7. QED
    BY <2>5, <2>6
<1>5. QED
  BY <1>2, <1>3, <1>4, ManagerMoves

LEMMA ManagerCarried ==
  ASSUME TypeInv, OnceInv, Manager, NEW m \in Mid
  PROVE  Carried(m)'
<1>1. UNCHANGED <<out, handling>>
  BY ManagerFrame DEF sendVars
<1>2. UNCHANGED queue \/ queue' = [queue EXCEPT ![mgr.id] = <<>>]
  BY ServeFrame DEF Manager, BuildFails, AddModule, TimersCreated, TimersFail,
     ThreadCreated, ThreadFails, Join, CleanupResources, CleanupEvents,
     DeleteModule, Announce, AnswerDone
<1>3. queue \in [Id -> Seq(Message)]
  BY DEF TypeInv, TypeOK, SendTypeOK
<1>4. \A i \in Id, k \in Nat : Queued(i, k, m)' => Queued(i, k, m)
  BY <1>2, <1>3 DEF Queued
<1>5. Kept(m) \/ ~OnItsWay(m)
  BY ManagerAnswers DEF InCharge, OnItsWay, ManagementOp
<1>6. Carried(m)
  BY DEF OnceInv, Carried
<1>7. \A t \in Thread : out'[t] \subseteq out[t]
  BY <1>1
<1>8. \A i \in Id : Handling(i, m)' => Handling(i, m)
  BY <1>1 DEF Handling
<1>9. QED
  BY <1>4, <1>5, <1>6, <1>7, <1>8, CarriedLess

-----------------------------------------------------------------------------
(* The applications.                                                       *)

LEMMA GetCarried ==
  ASSUME TypeInv, OnceInv, NEW i \in Id, AppGet(i), NEW m \in Mid, Kept(m)
  PROVE  Carried(m)'
<1>1. /\ handling \in [Id -> Message \cup {NoMessage}] /\ queue \in [Id -> Seq(Message)]
  BY DEF TypeInv, TypeOK, AppTypeOK, SendTypeOK
<1>2. /\ queue[i] # <<>> /\ out' = out
      /\ handling' = [handling EXCEPT ![i] = Head(queue[i])]
      /\ queue' = [queue EXCEPT ![i] = Tail(queue[i])]
  BY DEF AppGet, AppFrame, sendVars
<1>3. Carried(m)
  BY DEF OnceInv, Carried
<1>4. \A j \in Id : Handling(j, m)' => \/ j # i /\ Handling(j, m)
                                       \/ j = i /\ Queued(i, 1, m)
  BY <1>1, <1>2 DEF Handling, Queued
<1>5. \A j \in Id : \A k : Queued(j, k, m)' =>
         \/ j # i /\ Queued(j, k, m)
         \/ j = i /\ k \in Nat /\ k > 0 /\ Queued(i, k + 1, m)
  <2>1. ASSUME NEW k, Queued(i, k, m)'
        PROVE  k \in Nat /\ k > 0 /\ Queued(i, k + 1, m)
    <3>1. queue'[i] = Tail(queue[i])
      BY <1>1, <1>2
    <3>2. k \in 1 .. Len(Tail(queue[i])) /\ Tail(queue[i])[k].mid = m
      BY <2>1, <3>1 DEF Queued
    <3>3. Len(Tail(queue[i])) = Len(queue[i]) - 1 /\ Len(queue[i]) \in Nat
      BY <1>1, <1>2
    <3>4. k \in Nat /\ k > 0 /\ k + 1 \in 1 .. Len(queue[i])
      BY <3>2, <3>3
    <3>5. Tail(queue[i])[k] = queue[i][k + 1]
      BY <1>1, <1>2, <3>2, <3>4
    <3>6. QED
      BY <3>2, <3>4, <3>5 DEF Queued
  <2>2. ASSUME NEW j \in Id, NEW k, Queued(j, k, m)', j # i
        PROVE  Queued(j, k, m)
    BY <1>1, <1>2, <2>2 DEF Queued
  <2>3. QED
    BY <2>1, <2>2
<1>6. \A t \in Thread : \A d : Sending(t, d, m)' => Sending(t, d, m)
  BY <1>2 DEF Sending
<1>7. OnItsWay(m) => OnItsWay(m)'
  BY DEF OnItsWay, Kept
<1>8. SentOnce(m)'
  BY <1>3, <1>4, <1>5, <1>6 DEF Carried, SentOnce
<1>9. HeldOnce(m)'
  <2>1. ASSUME NEW j \in Id, NEW k, NEW h \in Id, NEW l, Queued(j, k, m)', Queued(h, l, m)'
        PROVE  j = h /\ k = l
    <3>1. \E v, w : /\ Queued(j, v, m) /\ Queued(h, w, m)
                    /\ v = IF j = i THEN k + 1 ELSE k
                    /\ w = IF h = i THEN l + 1 ELSE l
                    /\ j = i => k \in Nat
                    /\ h = i => l \in Nat
      BY <1>5, <2>1
    <3>2. QED
      BY <1>3, <3>1 DEF Carried, HeldOnce
  <2>2. ASSUME NEW j \in Id, NEW k, NEW h \in Id, Queued(j, k, m)', Handling(h, m)'
        PROVE  FALSE
    <3>1. CASE Queued(i, 1, m)
      <4>1. \/ j # i /\ Queued(j, k, m)
            \/ j = i /\ k > 0 /\ k \in Nat /\ Queued(i, k + 1, m)
        BY <1>5, <2>2
      <4>2. QED
        BY <1>3, <3>1, <4>1 DEF Carried, HeldOnce
    <3>2. CASE ~Queued(i, 1, m)
      <4>1. Handling(h, m)
        BY <1>4, <2>2, <3>2
      <4>2. \E v : Queued(j, v, m)
        BY <1>5, <2>2
      <4>3. QED
        BY <1>3, <4>1, <4>2 DEF Carried, HeldOnce
    <3>3. QED
      BY <3>1, <3>2
  <2>3. \A j, h \in Id : Handling(j, m)' /\ Handling(h, m)' => j = h
    BY <1>3, <1>4 DEF Carried, HeldOnce
  <2>4. QED
    BY <2>1, <2>2, <2>3 DEF HeldOnce
<1>10. CarriedOpen(m)'
  BY <1>3, <1>4, <1>5, <1>6, <1>7 DEF Carried, CarriedOpen
<1>11. QED
  BY <1>8, <1>9, <1>10 DEF Carried

LEMMA RunsCarried ==
  ASSUME TypeInv, OnceInv, NEW i \in Id, AppRuns(i), NEW m \in Mid
  PROVE  Carried(m)'
<1>1. Kept(m) /\ out' = out
  BY AppRunsFrame DEF AppFrame, hostVars, sendVars, Kept
<1>2. Carried(m)
  BY DEF OnceInv, Carried
<1>3. CASE AppGet(i)
  BY <1>1, <1>3, GetCarried
<1>4. CASE AppReturns(i)
  <2>1. queue' = queue /\ handling' = [handling EXCEPT ![i] = NoMessage]
    BY <1>4 DEF AppReturns
  <2>2. handling \in [Id -> Message \cup {NoMessage}]
    BY DEF TypeInv, TypeOK, AppTypeOK
  <2>3. \A j \in Id : Handling(j, m)' => Handling(j, m)
    BY <2>1, <2>2 DEF Handling, NoMessage, NoMid, Mid
  <2>4. \A j \in Id, k \in Nat : Queued(j, k, m)' => Queued(j, k, m)
    BY <2>1 DEF Queued
  <2>5. QED
    BY <1>1, <1>2, <2>3, <2>4, CarriedLess
<1>5. CASE UNCHANGED <<queue, handling>>
  BY <1>1, <1>2, <1>5, CarriedStays
<1>6. QED
  BY <1>3, <1>4, <1>5 DEF AppRuns, AppStart, AppInitReturns, AppTestExit, AppWake,
     AppDestroyReturns

\* The response of an application takes the place of the request it answers.
LEMMA RespondCarried ==
  ASSUME TypeInv, OnceInv, NEW i \in Id, Respond(i), NEW m \in Mid
  PROVE  Carried(m)'
<1>1. /\ out' = [out EXCEPT ![i] =
           {[to |-> handling[i].from,
             msg |-> [kind |-> "response", from |-> i, mid |-> handling[i].mid]]}]
      /\ handling' = [handling EXCEPT ![i] = NoMessage]
      /\ queue' = queue /\ out[i] = {} /\ Kept(m)
  BY DEF Respond, NativeCall, Quiet, hostVars, Kept
<1>2. /\ out \in [Thread -> SUBSET Delivery]
      /\ handling \in [Id -> Message \cup {NoMessage}] /\ i \in Thread
  BY DEF TypeInv, TypeOK, SendTypeOK, AppTypeOK, Thread, Party
<1>3. Carried(m)
  BY DEF OnceInv, Carried
<1>4. \A t \in Thread : \A d : Sending(t, d, m)' =>
         \/ t # i /\ Sending(t, d, m)
         \/ t = i /\ d \in out'[i] /\ Handling(i, m)
  BY <1>1, <1>2 DEF Sending, Handling
<1>5. \A d, e \in out'[i] : d = e
  BY <1>1, <1>2
<1>6. \A j \in Id : Handling(j, m)' => j # i /\ Handling(j, m)
  BY <1>1, <1>2 DEF Handling, NoMessage, NoMid, Mid
<1>7. \A j \in Id : \A k : Queued(j, k, m)' => Queued(j, k, m)
  BY <1>1 DEF Queued
<1>8. OnItsWay(m) => OnItsWay(m)'
  BY <1>1 DEF OnItsWay, Kept
<1>9. SentOnce(m)'
  BY <1>3, <1>4, <1>5, <1>6, <1>7 DEF Carried, SentOnce, HeldOnce
<1>10. HeldOnce(m)'
  BY <1>3, <1>6, <1>7 DEF Carried, HeldOnce
<1>11. CarriedOpen(m)'
  BY <1>3, <1>4, <1>6, <1>7, <1>8 DEF Carried, CarriedOpen
<1>12. QED
  BY <1>9, <1>10, <1>11 DEF Carried

\* What an application sends on its own account answers no request of the host.
LEMMA CallsOwn ==
  ASSUME NEW i \in Id, AppCalls(i), ~Respond(i)
  PROVE  /\ UNCHANGED <<queue, handling>>
         /\ \/ out' = out
            \/ \E s : /\ out' = [out EXCEPT ![i] = s]
                      /\ \A d \in s : d.msg.mid = NoMid /\ d.msg.from = i
<1> DEFINE Own(s) == /\ out' = [out EXCEPT ![i] = s]
                     /\ \A d \in s : d.msg.mid = NoMid /\ d.msg.from = i
           Goal == UNCHANGED <<queue, handling>> /\ (out' = out \/ \E s : Own(s))
<1> SUFFICES Goal
  OBVIOUS
<1>1. ASSUME NEW u \in Url, PostRequest(i, u)
      PROVE  Goal
  <2>1. Own({[to |-> r.owner, msg |-> [kind |-> "request", from |-> i, mid |-> NoMid]] :
               r \in {q \in resources : q.url = u}})
    BY <1>1 DEF PostRequest, Dispatch
  <2>2. UNCHANGED <<queue, handling>>
    BY <1>1 DEF PostRequest, NativeCall
  <2> HIDE DEF Own
  <2>3. QED
    BY <2>1, <2>2
<1>2. ASSUME NEW n \in AppNames, PostToApp(i, n)
      PROVE  Goal
  <2>1. Own({[to |-> j, msg |-> [kind |-> "request", from |-> i, mid |-> NoMid]] :
               j \in Lookup(n)})
    BY <1>2 DEF PostToApp
  <2>2. UNCHANGED <<queue, handling>>
    BY <1>2 DEF PostToApp, NativeCall
  <2> HIDE DEF Own
  <2>3. QED
    BY <2>1, <2>2
<1>3. ASSUME NEW e \in AppEvents, PublishEvent(i, e)
      PROVE  Goal
  <2>1. Own({[to |-> x.who, msg |-> [kind |-> IF e = Applets THEN "applets" ELSE "event",
                                     from |-> i, mid |-> NoMid]] :
               x \in {q \in subscribers : q.event = e}})
    BY <1>3 DEF PublishEvent
  <2>2. UNCHANGED <<queue, handling>>
    BY <1>3 DEF PublishEvent, NativeCall
  <2> HIDE DEF Own
  <2>3. QED
    BY <2>1, <2>2
<1>4. ASSUME NEW u \in Url, RegisterResource(i, u)
      PROVE  Goal
  BY <1>4 DEF RegisterResource, NativeCall
<1>5. ASSUME NEW e \in AppEvents, SubscribeEvent(i, e)
      PROVE  Goal
  BY <1>5 DEF SubscribeEvent, NativeCall
<1> HIDE DEF Goal
<1>6. QED
  BY <1>1, <1>2, <1>3, <1>4, <1>5 DEF AppCalls

LEMMA CallsCarried ==
  ASSUME TypeInv, OnceInv, NEW i \in Id, AppCalls(i), NEW m \in Mid
  PROVE  Carried(m)'
<1>1. Kept(m)
  BY AppCallsFrame DEF hostVars, Kept
<1>2. Carried(m)
  BY DEF OnceInv, Carried
<1>3. CASE Respond(i)
  BY <1>3, RespondCarried
<1>4. CASE ~Respond(i)
  <2>1. CASE out' = out
    BY <1>1, <1>2, <1>4, <2>1, CallsOwn, CarriedStays
  <2>2. ASSUME NEW s, out' = [out EXCEPT ![i] = s], \A d \in s : d.msg.mid = NoMid
        PROVE  Carried(m)'
    <3>1. out \in [Thread -> SUBSET Delivery]
      BY DEF TypeInv, TypeOK, SendTypeOK
    <3>2. \A t \in Thread : \A d : Sending(t, d, m)' => Sending(t, d, m)
      BY <2>2, <3>1 DEF Sending, NoMid, Mid
    <3>3. \A j \in Id : \A k : Queued(j, k, m)' => Queued(j, k, m)
      BY <1>4, CallsOwn DEF Queued
    <3>4. \A j \in Id : Handling(j, m)' => Handling(j, m)
      BY <1>4, CallsOwn DEF Handling
    <3>5. OnItsWay(m) => OnItsWay(m)'
      BY <1>1 DEF OnItsWay, Kept
    <3>6. SentOnce(m)' /\ HeldOnce(m)'
      BY <1>2, <3>2, <3>3, <3>4 DEF Carried, SentOnce, HeldOnce
    <3>7. CarriedOpen(m)'
      BY <1>2, <3>2, <3>3, <3>4, <3>5 DEF Carried, CarriedOpen
    <3>8. QED
      BY <3>6, <3>7 DEF Carried
  <2>3. QED
    BY <1>4, <2>1, <2>2, CallsOwn
<1>5. QED
  BY <1>3, <1>4

-----------------------------------------------------------------------------
(* The invariant.                                                          *)

LEMMA ManagedStays ==
  ASSUME NEW m \in Mid, Managed(m), UNCHANGED <<mgrQueue, mgr>>,
         asked'[m] = asked[m], Kept(m) \/ (~InCharge(m) /\ Len(answers'[m]) <= 1),
         asked[m] # NoRequest \/ Kept(m)
  PROVE  Managed(m)'
<1>1. \A k : Waiting(k, m)' <=> Waiting(k, m)
  BY DEF Waiting
<1>2. Serving(m)' <=> Serving(m)
  BY DEF Serving
<1>3. Kept(m) => (InCharge(m)' <=> InCharge(m))
  BY DEF InCharge, Kept
<1>4. ManagedOnce(m)'
  BY <1>1, <1>2, <1>3 DEF Managed, ManagedOnce
<1>5. UnaskedOpen(m)' /\ Len(answers'[m]) <= 1
  BY DEF Managed, UnaskedOpen, Kept
<1>6. QED
  BY <1>4, <1>5 DEF Managed

LEMMA LenOne ==
  ASSUME NEW s \in Status
  PROVE  Len(Append(<<>>, s)) = 1
<1>1. <<>> \in Seq(Status)
  OBVIOUS
<1>2. QED
  BY <1>1

LEMMA HostManaged ==
  ASSUME TypeInv, OnceInv, NEW n \in Mid, NEW r \in Requests, HostAction(n, r),
         NEW m \in Mid
  PROVE  Managed(m)'
<1>0. /\ mgrQueue \in Seq(Mid) /\ answers \in [Mid -> Seq(Status)]
      /\ asked \in [Mid -> Requests \cup {NoRequest}] /\ mgr' = mgr
  BY HostFrame DEF TypeInv, TypeOK, MgrTypeOK, HostTypeOK
<1>1. asked[n] = NoRequest /\ asked' = [asked EXCEPT ![n] = r]
  BY DEF HostAction, AskManagement, AskApp, AskResource, Ask
<1>2. Managed(m) /\ ManagedOnce(n) /\ answers[n] = <<>>
  BY <1>1 DEF OnceInv, AnsweredOnce, Managed, UnaskedOpen
<1>3. (\A k : ~Waiting(k, n)) /\ ~Serving(n)
  BY <1>1, <1>2 DEF ManagedOnce, InCharge, NoRequest, ManagementOp
<1>4. asked'[n] # NoRequest
  BY <1>0, <1>1, NoRequestIsNone
<1>5. CASE AskManagement(n, r)
  <2>1. /\ mgrQueue' \in {mgrQueue, Append(mgrQueue, n)} /\ answers' = answers
        /\ r.op \in ManagementOp
    BY <1>5 DEF AskManagement
  <2>2. \A k : Waiting(k, m)' => Waiting(k, m) \/ (m = n /\ k = Len(mgrQueue) + 1)
    <3>1. CASE mgrQueue' = mgrQueue
      BY <3>1 DEF Waiting
    <3>2. CASE mgrQueue' = Append(mgrQueue, n)
      <4>1. /\ Len(mgrQueue') = Len(mgrQueue) + 1 /\ Len(mgrQueue) \in Nat
            /\ \A k \in 1 .. Len(mgrQueue) : mgrQueue'[k] = mgrQueue[k]
            /\ mgrQueue'[Len(mgrQueue) + 1] = n
        BY <1>0, <3>2
      <4>2. QED
        BY <4>1 DEF Waiting
    <3>3. QED
      BY <2>1, <3>1, <3>2
  <2>3. Serving(m)' <=> Serving(m)
    BY <1>0 DEF Serving
  <2>4. CASE m = n
    <3>1. InCharge(n)'
      BY <1>0, <1>1, <1>2, <2>1 DEF InCharge
    <3>2. ManagedOnce(n)'
      BY <1>3, <2>2, <2>3, <2>4, <3>1 DEF ManagedOnce
    <3>3. QED
      BY <1>2, <1>4, <2>1, <2>4, <3>2 DEF Managed, UnaskedOpen
  <2>5. CASE m # n
    <3>1. asked'[m] = asked[m]
      BY <1>0, <1>1, <2>5
    <3>2. InCharge(m)' <=> InCharge(m)
      BY <2>1, <3>1 DEF InCharge
    <3>3. ManagedOnce(m)'
      BY <1>2, <2>2, <2>3, <2>5, <3>2 DEF Managed, ManagedOnce
    <3>4. QED
      BY <1>2, <2>1, <3>1, <3>3 DEF Managed, UnaskedOpen
  <2>6. QED
    BY <2>4, <2>5
<1>6. CASE AskApp(n, r) \/ AskResource(n, r)
  <2>1. mgrQueue' = mgrQueue /\ (answers' = answers \/ Answer(n, "error"))
    BY <1>6 DEF AskApp, AskResource, mgrVars
  <2>2. answers'[m] = answers[m] \/ m = n
    BY <1>0, <2>1 DEF Answer
  <2>3. CASE m # n
    <3>1. Kept(m) /\ asked'[m] = asked[m]
      BY <1>0, <1>1, <2>2, <2>3 DEF Kept
    <3>2. QED
      BY <1>0, <1>2, <2>1, <3>1, ManagedStays
  <2>4. CASE m = n
    <3>1. Len(answers'[n]) <= 1
      <4>1. \E s \in Status : answers'[n] = <<>> \/ answers'[n] = Append(<<>>, s)
        BY <1>0, <1>2, <2>1 DEF Answer, Status
      <4>2. PICK s \in Status : answers'[n] = <<>> \/ answers'[n] = Append(<<>>, s)
        BY <4>1
      <4>3. CASE answers'[n] = <<>>
        BY <4>3
      <4>4. CASE answers'[n] = Append(<<>>, s)
        BY <4>4, LenOne
      <4>5. QED
        BY <4>2, <4>3, <4>4
    <3>2. (\A k : ~Waiting(k, n)') /\ ~Serving(n)'
      BY <1>0, <1>3, <2>1 DEF Waiting, Serving
    <3>3. QED
      BY <1>4, <2>4, <3>1, <3>2 DEF Managed, ManagedOnce, UnaskedOpen
  <2>5. QED
    BY <2>3, <2>4
<1>7. QED
  BY <1>5, <1>6 DEF HostAction

LEMMA OnceStep ==
  ASSUME TypeInv, OnceInv, [Next]_vars
  PROVE  OnceInv'
<1> SUFFICES ASSUME NEW m \in Mid
             PROVE  Carried(m)' /\ Managed(m)'
  BY HandlersStep DEF OnceInv, AnsweredOnce, Carried, Managed
<1>1. Carried(m) /\ Managed(m)
  BY DEF OnceInv, AnsweredOnce, Carried, Managed
<1>2. ASSUME NEW n \in Mid, NEW r \in Requests, HostAction(n, r)
      PROVE  Carried(m)' /\ Managed(m)'
  BY <1>2, HostCarried, HostManaged
<1>3. ASSUME NEW t \in Thread, Send(t)
      PROVE  Carried(m)' /\ Managed(m)'
  <2>1. /\ Carried(m)'
        /\ Kept(m) \/ (OnItsWay(m) /\ Len(answers'[m]) <= 1 /\ asked' = asked)
    BY <1>3, SendCarried
  <2>2. OnItsWay(m) => ~InCharge(m) /\ asked[m] # NoRequest
    BY DEF OnItsWay, InCharge, ManagementOp, NoRequest
  <2>3. UNCHANGED <<mgrQueue, mgr, asked>>
    BY <1>3, SendFrame DEF mgrVars
  <2>4. QED
    BY <1>1, <2>1, <2>2, <2>3, ManagedStays
<1>4. ASSUME Manager
      PROVE  Carried(m)' /\ Managed(m)'
  BY <1>4, ManagerCarried, ManagerAnswers
<1>5. ASSUME NEW i \in Id, AppRuns(i) \/ AppCalls(i)
      PROVE  Carried(m)' /\ Managed(m)'
  <2>1. UNCHANGED <<mgrQueue, mgr>> /\ Kept(m) /\ asked'[m] = asked[m]
    BY <1>5, AppRunsFrame, AppCallsFrame DEF AppFrame, mgrVars, hostVars, Kept
  <2>2. QED
    BY <1>1, <1>5, <2>1, RunsCarried, CallsCarried, ManagedStays
<1>6. CASE UNCHANGED vars
  <2>1. UNCHANGED <<out, queue, handling, mgrQueue, mgr, asked, answers>>
    BY <1>6 DEF vars, sendVars, appVars, mgrVars, hostVars
  <2>2. QED
    BY <1>1, <2>1, CarriedStays, ManagedStays DEF Kept
<1>7. QED
  BY <1>2, <1>3, <1>4, <1>5, <1>6 DEF Next, HostAction

LEMMA OnceInvariance == Spec => []OnceInv
<1>1. Init => OnceInv
  BY DEF Init, OnceInv, HandlersUnique, AnsweredOnce, SentOnce, HeldOnce, CarriedOpen,
     ManagedOnce, UnaskedOpen, Sending, Queued, Handling, Waiting, Serving, Thread, Party,
     NoMessage, NoMid, Mid
<1>2. TypeInv /\ OnceInv /\ [Next]_vars => OnceInv'
  BY OnceStep
<1>3. QED
  BY <1>1, <1>2, TypeInvariance, PTL DEF Spec

\* However the requests, the queues, the threads of the applications and the
\* removals interleave, the host gets at most one response to a request: an
\* error path of the manager or of the dispatcher never answers what another
\* thread still carries, and an application that responded holds nothing.
THEOREM NeverAnsweredTwice == Spec => []AnsweredOnce
<1>1. OnceInv => AnsweredOnce
  BY DEF OnceInv
<1>2. QED
  BY <1>1, OnceInvariance, PTL

-----------------------------------------------------------------------------
(* The recipient of a request for an application.                          *)

\* A name once given stays, and so does what a carried request asks.
LEMMA NamesStay ==
  ASSUME TypeInv, RecipientInv, [Next]_vars, NEW i \in Id, name[i] # NoName
  PROVE  name'[i] = name[i]
<1>1. CASE AddModule
  <2>1. /\ nextId \in Id /\ name' = [name EXCEPT ![nextId] = asked[mgr.mid].arg]
        /\ name \in [Id -> Name \cup {NoName}]
    BY <1>1 DEF AddModule, TypeInv, TypeOK, ModTypeOK
  <2>2. i # nextId
    BY <2>1 DEF RecipientInv, Id
  <2>3. QED
    BY <2>1, <2>2
<1>2. QED
  BY <1>1, ModWriters DEF modVars, TimersFail, ThreadFails, DeleteModule

LEMMA FreshNames ==
  ASSUME TypeInv, RecipientInv, [Next]_vars
  PROVE  (\A i \in Id : i >= nextId => name[i] = NoName)'
<1>1. CASE AddModule
  BY <1>1 DEF AddModule, TypeInv, TypeOK, ModTypeOK, RecipientInv, Id
<1>2. QED
  BY <1>1, ModWriters DEF modVars, TimersFail, ThreadFails, DeleteModule, RecipientInv

\* Such a request stays the request of the module it was sent to.
LEMMA ForModuleStays ==
  ASSUME TypeInv, RecipientInv, [Next]_vars, NEW i \in Id, NEW msg,
         ForModule(i, msg), msg.mid \in Mid => asked[msg.mid] # NoRequest
  PROVE  ForModule(i, msg)'
<1> SUFFICES ASSUME msg.kind = "request", msg.from = Host
             PROVE  /\ msg.mid \in Mid
                    /\ asked'[msg.mid].op = "app" => name'[i] = asked'[msg.mid].arg
  BY DEF ForModule
<1>1. msg.mid \in Mid /\ (asked[msg.mid].op = "app" => name[i] = asked[msg.mid].arg)
  BY DEF ForModule
<1>2. asked[msg.mid] \in Requests
  BY <1>1 DEF TypeInv, TypeOK, HostTypeOK
<1>3. asked'[msg.mid] = asked[msg.mid]
  BY <1>1, <1>2, AskedStays
<1>4. asked[msg.mid].op = "app" => name[i] # NoName
  BY <1>1, <1>2, RequestAssumption, PartyAssumption
<1>5. QED
  BY <1>1, <1>3, <1>4, NamesStay

\* Memory once given to a module stays where it is, and a freed module stays freed.
LEMMA MemoryStays ==
  ASSUME TypeInv, [Next]_vars
  PROVE  /\ released \subseteq released'
         /\ \A i \in Id : i < nextId => i < nextId' /\ addr'[i] = addr[i]
<1>1. CASE AddModule
  BY <1>1 DEF AddModule, TypeInv, TypeOK, ModTypeOK, Id
<1>2. QED
  BY <1>1, ModWriters DEF modVars, TimersFail, ThreadFails, DeleteModule

LEMMA MemoryStep ==
  ASSUME TypeInv, LifeInv, MemoryInv, [Next]_vars
  PROVE  MemoryInv'
<1>0. /\ listed \subseteq Id /\ released \subseteq Id /\ addr \in [Id -> Id]
      /\ nextId \in Nat
  BY BoundsAssumption DEF TypeInv, TypeOK, ModTypeOK
<1>1. CASE UNCHANGED modVars
  BY <1>1 DEF modVars, MemoryInv
<1>2. CASE AddModule
  <2>1. /\ nextId \in Id /\ nextId' = nextId + 1 /\ listed' = listed \cup {nextId}
        /\ released' = released
    BY <1>2 DEF AddModule
  <2>2. PICK a \in FreeMemory : addr' = [addr EXCEPT ![nextId] = a]
    BY <1>2 DEF AddModule
  <2>3. \A i \in released : i < nextId
    BY <1>0 DEF LifeInv, FreshIsNowhere, Id
  <2>4. a < nextId + 1 /\ (a = nextId \/ \A i \in listed : addr[i] # a)
    BY <1>0, <2>2, <2>3 DEF FreeMemory, MemoryInv, Id
  <2>5. \A i \in Id : i < nextId' => i = nextId \/ i < nextId
    BY <1>0, <2>1 DEF Id
  <2>6. addr'[nextId] = a /\ \A i \in Id : i < nextId => addr'[i] = addr[i]
    BY <1>0, <2>1, <2>2 DEF Id
  <2>7. \A i \in Id : i < nextId /\ i \notin released => addr[i] # a
    BY <1>0, <2>4 DEF MemoryInv, Id
  <2>8. ASSUME NEW i \in Id, i < nextId'
        PROVE  i \in listed' \cup released' /\ addr'[i] < nextId'
    BY <1>0, <2>1, <2>4, <2>5, <2>6, <2>8 DEF MemoryInv, Id
  <2>9. ASSUME NEW i \in Id, NEW j \in Id, i < nextId', j < nextId',
               i \notin released', j \notin released', addr'[i] = addr'[j]
        PROVE  i = j
    BY <2>1, <2>5, <2>6, <2>7, <2>9 DEF MemoryInv
  <2>10. QED
    BY <2>8, <2>9 DEF MemoryInv
<1>3. CASE TimersFail \/ ThreadFails \/ DeleteModule
  <2>1. /\ UNCHANGED <<addr, nextId>> /\ released' = released \cup {mgr.id}
        /\ listed' = listed \/ listed' = listed \ {mgr.id}
    BY <1>3 DEF TimersFail, ThreadFails, DeleteModule
  <2>2. QED
    BY <2>1 DEF MemoryInv
<1>4. QED
  BY <1>1, <1>2, <1>3, ModWriters

LEMMA MemoryInvariance == Spec => []MemoryInv
<1>1. Init => MemoryInv
  BY DEF Init, MemoryInv, Id
<1>2. TypeInv /\ LifeInv /\ MemoryInv /\ [Next]_vars => MemoryInv'
  BY MemoryStep
<1>3. QED
  BY <1>1, <1>2, TypeInvariance, LifeInvariance, PTL DEF Spec

\* A module goes on standing for a name.
LEMMA StandsStays ==
  ASSUME TypeInv, RecipientInv, [Next]_vars, NEW i \in Id, NEW n, n # NoName,
         StandsFor(i, n)
  PROVE  StandsFor(i, n)'
<1>1. PICK k \in Id : name[k] = n /\ (k = i \/ (k \in released /\ addr[k] = addr[i]))
  BY DEF StandsFor
<1>2. i < nextId /\ k < nextId
  BY <1>1, BoundsAssumption DEF StandsFor, RecipientInv, TypeInv, TypeOK, ModTypeOK, Id
<1>3. name'[k] = n
  BY <1>1, NamesStay
<1>4. /\ i < nextId' /\ addr'[i] = addr[i] /\ addr'[k] = addr[k]
      /\ k \in released => k \in released'
  BY <1>2, MemoryStays
<1>5. QED
  BY <1>1, <1>3, <1>4 DEF StandsFor

LEMMA HeldByStays ==
  ASSUME TypeInv, RecipientInv, [Next]_vars, NEW i \in Id, NEW msg,
         HeldBy(i, msg), msg.mid \in Mid => asked[msg.mid] # NoRequest
  PROVE  HeldBy(i, msg)'
<1> SUFFICES ASSUME msg.kind = "request", msg.from = Host
             PROVE  /\ msg.mid \in Mid
                    /\ asked'[msg.mid].op = "app" => StandsFor(i, asked[msg.mid].arg)'
  BY DEF HeldBy
<1>1. msg.mid \in Mid /\ (asked[msg.mid].op = "app" => StandsFor(i, asked[msg.mid].arg))
  BY DEF HeldBy
<1>2. asked[msg.mid] \in Requests
  BY <1>1 DEF TypeInv, TypeOK, HostTypeOK
<1>3. asked'[msg.mid] = asked[msg.mid]
  BY <1>1, <1>2, AskedStays
<1>4. ASSUME asked[msg.mid].op = "app", NEW n, n = asked[msg.mid].arg
      PROVE  StandsFor(i, n)'
  <2>1. n # NoName
    BY <1>2, <1>4, RequestAssumption, PartyAssumption
  <2>2. QED
    BY <1>1, <1>4, <2>1, StandsStays
<1>5. QED
  BY <1>1, <1>3, <1>4 DEF StandsFor

\* A request that is posted to the memory of the module with the name gets into
\* the queue of that module, or of one that stands for it.
LEMMA PostedIsHeld ==
  ASSUME TypeInv, RecipientInv, MemoryInv, NEW p \in Id, NEW i \in Tenants(p), NEW msg,
         ForModule(p, msg), msg.mid \in Mid => asked[msg.mid] # NoRequest
  PROVE  HeldBy(i, msg)
<1> SUFFICES ASSUME msg.kind = "request", msg.from = Host
             PROVE  /\ msg.mid \in Mid
                    /\ asked[msg.mid].op = "app" => StandsFor(i, asked[msg.mid].arg)
  BY DEF HeldBy
<1>1. msg.mid \in Mid /\ (asked[msg.mid].op = "app" => name[p] = asked[msg.mid].arg)
  BY DEF ForModule
<1>2. asked[msg.mid] \in Requests
  BY <1>1 DEF TypeInv, TypeOK, HostTypeOK
<1>3. i \in Id /\ i < nextId /\ addr[i] = addr[p] /\ i \notin released
  BY TenantsAdded, BoundsAssumption DEF Tenants, TypeInv, TypeOK, ModTypeOK, Id
<1>4. ASSUME asked[msg.mid].op = "app"
      PROVE  StandsFor(i, asked[msg.mid].arg)
  <2>1. name[p] = asked[msg.mid].arg /\ name[p] # NoName
    BY <1>1, <1>2, <1>4, RequestAssumption, PartyAssumption
  <2>2. p < nextId
    BY <2>1, BoundsAssumption DEF RecipientInv, TypeInv, TypeOK, ModTypeOK, Id
  <2>3. p = i \/ p \in released
    BY <1>3, <2>2 DEF MemoryInv
  <2>4. QED
    BY <1>3, <2>1, <2>3 DEF StandsFor
<1>5. QED
  BY <1>1, <1>4

\* What is sent, queued or handled was asked for.
LEMMA CarriedAsked ==
  ASSUME OnceInv, NEW m \in Mid,
         \/ \E t \in Thread : \E d : Sending(t, d, m)
         \/ \E i \in Id : \E k : Queued(i, k, m)
         \/ \E i \in Id : Handling(i, m)
  PROVE  asked[m] # NoRequest
BY DEF OnceInv, CarriedOpen, OnItsWay, NoRequest

LEMMA SentStays ==
  ASSUME TypeInv, OnceInv, RecipientInv, [Next]_vars, NEW t \in Thread, NEW d \in out[t],
         d.to \in Id
  PROVE  ForModule(d.to, d.msg)'
<1>1. d.msg.mid \in Mid => asked[d.msg.mid] # NoRequest
  BY CarriedAsked DEF Sending
<1>2. QED
  BY <1>1, ForModuleStays DEF RecipientInv

LEMMA QueuedStays ==
  ASSUME TypeInv, OnceInv, RecipientInv, [Next]_vars, NEW i \in Id,
         NEW k \in 1 .. Len(queue[i]), NEW msg, msg = queue[i][k]
  PROVE  HeldBy(i, msg)'
<1>1. msg.mid \in Mid => asked[msg.mid] # NoRequest
  BY CarriedAsked DEF Queued
<1>2. HeldBy(i, msg)
  BY DEF RecipientInv
<1>3. QED
  BY <1>1, <1>2, HeldByStays

LEMMA HandledStays ==
  ASSUME TypeInv, OnceInv, RecipientInv, [Next]_vars, NEW i \in Id,
         NEW msg, msg = handling[i]
  PROVE  HeldBy(i, msg)'
<1>1. msg.mid \in Mid => asked[msg.mid] # NoRequest
  BY CarriedAsked DEF Handling
<1>2. HeldBy(i, msg)
  BY DEF RecipientInv
<1>3. QED
  BY <1>1, <1>2, HeldByStays

\* Where the deliveries, the queued and the handled messages of a step come from.
LEMMA NewDeliveries ==
  ASSUME TypeInv, OnceInv, RecipientInv, [Next]_vars, NEW t \in Thread, NEW d \in out'[t]
  PROVE  d \in out[t] \/ (d.to \in Id => ForModule(d.to, d.msg)')
<1>0. out \in [Thread -> SUBSET Delivery] /\ asked \in [Mid -> Requests \cup {NoRequest}]
  BY DEF TypeInv, TypeOK, SendTypeOK, HostTypeOK
<1>1. ASSUME NEW n \in Mid, NEW r \in Requests, HostAction(n, r)
      PROVE  d \in out[t] \/ (d.to \in Id => ForModule(d.to, d.msg)')
  <2>1. asked' = [asked EXCEPT ![n] = r]
    BY <1>1 DEF HostAction, AskManagement, AskApp, AskResource, Ask
  <2>2. asked'[n] = r /\ name' = name
    BY <1>0, <1>1, <2>1, HostFrame DEF modVars
  <2>3. CASE AskManagement(n, r)
    BY <2>3 DEF AskManagement, sendVars
  <2>4. CASE AskApp(n, r)
    <3>1. \/ out' = out
          \/ \E i \in Lookup(r.arg) : out' = [out EXCEPT ![Host] =
                {[to |-> i, msg |-> [kind |-> "request", from |-> Host, mid |-> n]]}]
      BY <2>4 DEF AskApp
    <3>2. ASSUME NEW i \in Lookup(r.arg), out' = [out EXCEPT ![Host] =
                {[to |-> i, msg |-> [kind |-> "request", from |-> Host, mid |-> n]]}]
          PROVE  d \in out[t] \/ ForModule(d.to, d.msg)'
      <4>1. d \in out[t] \/ (d.to = i /\ d.msg.mid = n)
        BY <1>0, <3>2
      <4>2. name[i] = r.arg
        BY DEF Lookup
      <4>3. QED
        BY <2>2, <4>1, <4>2 DEF ForModule
    <3>3. QED
      BY <3>1, <3>2
  <2>5. CASE AskResource(n, r)
    <3>1. out' = [out EXCEPT ![Host] =
             {[to |-> q.owner, msg |-> [kind |-> "request", from |-> Host, mid |-> n]] :
                q \in {p \in resources : p.url = r.arg}}]
      BY <2>5 DEF AskResource, Dispatch
    <3>2. d \in out[t] \/ d.msg.mid = n
      BY <1>0, <3>1
    <3>3. r.op # "app"
      BY <2>5 DEF AskResource
    <3>4. QED
      BY <2>2, <3>2, <3>3 DEF ForModule
  <2>6. QED
    BY <1>1, <2>3, <2>4, <2>5 DEF HostAction
<1>2. ASSUME NEW u \in Thread, Send(u)
      PROVE  d \in out[t]
  BY <1>0, <1>2 DEF Send, LookupFound, LookupMissing, Post
<1>3. ASSUME NEW i \in Id, AppCalls(i)
      PROVE  d \in out[t] \/ ForModule(d.to, d.msg)'
  <2>1. CASE Respond(i)
    <3>1. d \in out[t] \/ d.msg.kind = "response"
      BY <1>0, <2>1 DEF Respond
    <3>2. QED
      BY <3>1 DEF ForModule
  <2>2. CASE ~Respond(i)
    <3>1. i # Host
      BY PartyAssumption, BoundsAssumption DEF Id
    <3>2. \/ out' = out
          \/ \E s : /\ out' = [out EXCEPT ![i] = s]
                    /\ \A e \in s : e.msg.mid = NoMid /\ e.msg.from = i
      BY <1>3, <2>2, CallsOwn
    <3>3. d \in out[t] \/ d.msg.from = i
      BY <1>0, <3>2
    <3>4. QED
      BY <3>1, <3>3 DEF ForModule
  <2>3. QED
    BY <2>1, <2>2
<1>4. QED
  BY <1>1, <1>2, <1>3, ManagerFrame, AppRunsFrame
     DEF Next, HostAction, AppFrame, sendVars, vars

LEMMA NewQueued ==
  ASSUME TypeInv, [Next]_vars, NEW i \in Id, NEW k \in 1 .. Len(queue'[i])
  PROVE  \/ \E l \in 1 .. Len(queue[i]) : queue'[i][k] = queue[i][l]
         \/ \E t \in Thread : \E d \in out[t] :
               d.to \in Id /\ i \in Tenants(d.to) /\ queue'[i][k] = d.msg
<1>0. queue \in [Id -> Seq(Message)] /\ out \in [Thread -> SUBSET Delivery]
  BY DEF TypeInv, TypeOK, SendTypeOK
<1>1. ASSUME NEW u \in Thread, Send(u)
      PROVE  \/ \E l \in 1 .. Len(queue[i]) : queue'[i][k] = queue[i][l]
             \/ \E t \in Thread : \E d \in out[t] :
                   d.to \in Id /\ i \in Tenants(d.to) /\ queue'[i][k] = d.msg
  <2>1. CASE queue' = queue
    BY <2>1
  <2>2. CASE queue' # queue
    <3>0. PICK d \in out[u] :
             /\ d.to \in Id
             /\ \E j \in Tenants(d.to) : queue' = [queue EXCEPT ![j] = Append(@, d.msg)]
      BY <1>1, <2>2 DEF Send, LookupFound, LookupMissing, Post, TypeInv, TypeOK, SendTypeOK
    <3>1. PICK j \in Tenants(d.to) : queue' = [queue EXCEPT ![j] = Append(@, d.msg)]
      BY <3>0
    <3>2. d.msg \in Message
      BY <1>0, <3>1 DEF Delivery
    <3>3. CASE j # i
      BY <1>0, <3>1, <3>3
    <3>4. CASE j = i
      <4>1. queue'[i] = Append(queue[i], d.msg) /\ Len(queue[i]) \in Nat
        BY <1>0, <3>1, <3>4
      <4>2. /\ Len(queue'[i]) = Len(queue[i]) + 1
            /\ \A l \in 1 .. Len(queue[i]) : queue'[i][l] = queue[i][l]
            /\ queue'[i][Len(queue[i]) + 1] = d.msg
        BY <1>0, <3>2, <4>1
      <4>3. k \in 1 .. Len(queue[i]) \/ k = Len(queue[i]) + 1
        BY <4>1, <4>2
      <4>4. QED
        BY <3>0, <3>4, <4>2, <4>3
    <3>5. QED
      BY <3>3, <3>4
  <2>3. QED
    BY <2>1, <2>2
<1>2. ASSUME Manager
      PROVE  \E l \in 1 .. Len(queue[i]) : queue'[i][k] = queue[i][l]
  <2>1. UNCHANGED queue \/ queue' = [queue EXCEPT ![mgr.id] = <<>>]
    BY <1>2, ServeFrame DEF Manager, BuildFails, AddModule, TimersCreated, TimersFail,
       ThreadCreated, ThreadFails, Join, CleanupResources, CleanupEvents,
       DeleteModule, Announce, AnswerDone
  <2>2. queue'[i] = queue[i]
    BY <1>0, <2>1
  <2>3. QED
    BY <2>2
<1>3. ASSUME NEW j \in Id, AppRuns(j)
      PROVE  \E l \in 1 .. Len(queue[i]) : queue'[i][k] = queue[i][l]
  <2>1. CASE queue' = queue
    BY <2>1
  <2>2. CASE queue' # queue
    <3>1. queue' = [queue EXCEPT ![j] = Tail(@)] /\ queue[j] # <<>>
      BY <1>3, <2>2 DEF AppRuns, AppStart, AppInitReturns, AppTestExit, AppGet, AppWake,
         AppReturns, AppDestroyReturns
    <3>2. CASE i # j
      BY <1>0, <3>1, <3>2
    <3>3. CASE i = j
      <4>1. queue'[i] = Tail(queue[i]) /\ queue[i] # <<>> /\ queue[i] \in Seq(Message)
        BY <1>0, <3>1, <3>3
      <4>2. /\ Len(Tail(queue[i])) = Len(queue[i]) - 1 /\ Len(queue[i]) \in Nat
            /\ k \in 1 .. Len(Tail(queue[i]))
        BY <4>1
      <4>3. k + 1 \in 1 .. Len(queue[i]) /\ Tail(queue[i])[k] = queue[i][k + 1]
        BY <4>1, <4>2
      <4>4. QED
        BY <4>1, <4>3
    <3>4. QED
      BY <3>2, <3>3
  <2>3. QED
    BY <2>1, <2>2
<1>4. CASE queue' = queue
  BY <1>4
<1>5. QED
  BY <1>1, <1>2, <1>3, <1>4, HostFrame, AppCallsFrame DEF Next, HostAction, vars

LEMMA NewHandled ==
  ASSUME TypeInv, [Next]_vars, NEW i \in Id
  PROVE  \/ handling'[i] = handling[i]
         \/ handling'[i] = NoMessage
         \/ \E k \in 1 .. Len(queue[i]) : handling'[i] = queue[i][k]
<1>0. /\ queue \in [Id -> Seq(Message)] /\ handling \in [Id -> Message \cup {NoMessage}]
  BY DEF TypeInv, TypeOK, SendTypeOK, AppTypeOK
<1>1. ASSUME NEW j \in Id, AppGet(j)
      PROVE  \/ handling'[i] = handling[i]
             \/ \E k \in 1 .. Len(queue[i]) : handling'[i] = queue[i][k]
  <2>1. handling' = [handling EXCEPT ![j] = Head(queue[j])] /\ queue[j] # <<>>
    BY <1>1 DEF AppGet
  <2>2. Head(queue[j]) = queue[j][1] /\ 1 \in 1 .. Len(queue[j])
    BY <1>0, <2>1
  <2>3. QED
    BY <1>0, <2>1, <2>2
<1>2. ASSUME NEW j \in Id, AppRuns(j), ~AppGet(j)
      PROVE  handling'[i] = handling[i] \/ handling'[i] = NoMessage
  BY <1>0, <1>2 DEF AppRuns, AppStart, AppInitReturns, AppTestExit, AppWake, AppReturns,
     AppDestroyReturns
<1>3. ASSUME NEW j \in Id, AppCalls(j)
      PROVE  handling'[i] = handling[i] \/ handling'[i] = NoMessage
  BY <1>0, <1>3, CallsOwn DEF Respond
<1>4. CASE handling' = handling
  BY <1>4
<1>5. QED
  BY <1>1, <1>2, <1>3, <1>4, HostFrame, SendFrame, ManagerFrame
     DEF Next, HostAction, appVars, vars

LEMMA RecipientStep ==
  ASSUME TypeInv, OnceInv, MemoryInv, RecipientInv, [Next]_vars
  PROVE  RecipientInv'
<1>1. ASSUME NEW t \in Thread, NEW d \in out'[t], d.to \in Id
      PROVE  ForModule(d.to, d.msg)'
  BY <1>1, NewDeliveries, SentStays
<1>2. ASSUME NEW i \in Id, NEW k \in 1 .. Len(queue'[i])
      PROVE  HeldBy(i, queue[i][k])'
  <2>1. ASSUME NEW msg, msg = queue'[i][k]
        PROVE  HeldBy(i, msg)'
    <3>1. CASE \E l \in 1 .. Len(queue[i]) : msg = queue[i][l]
      BY <3>1, QueuedStays
    <3>2. ASSUME NEW t \in Thread, NEW d \in out[t], d.to \in Id, i \in Tenants(d.to),
                 msg = d.msg
          PROVE  HeldBy(i, msg)'
      <4>1. msg.mid \in Mid => asked[msg.mid] # NoRequest
        BY <3>2, CarriedAsked DEF Sending
      <4>2. HeldBy(i, msg)
        BY <3>2, <4>1, PostedIsHeld DEF RecipientInv
      <4>3. QED
        BY <4>1, <4>2, HeldByStays
    <3>3. QED
      BY <2>1, <3>1, <3>2, NewQueued
  <2>2. QED
    BY <2>1 DEF HeldBy, StandsFor
<1>3. ASSUME NEW i \in Id
      PROVE  HeldBy(i, handling[i])'
  <2>1. ASSUME NEW msg, msg = handling'[i]
        PROVE  HeldBy(i, msg)'
    <3>1. CASE msg = handling[i]
      BY <3>1, HandledStays
    <3>2. CASE msg = NoMessage
      BY <3>2 DEF HeldBy, NoMessage
    <3>3. CASE \E k \in 1 .. Len(queue[i]) : msg = queue[i][k]
      BY <3>3, QueuedStays
    <3>4. QED
      BY <2>1, <3>1, <3>2, <3>3, NewHandled
  <2>2. QED
    BY <2>1 DEF HeldBy, StandsFor
<1>4. QED
  BY <1>1, <1>2, <1>3, FreshNames DEF RecipientInv

\* A request for an application is handled by the application that had its name,
\* however long it was on its way and whatever was installed and removed since; or
\* by the one that has the memory of it, and then only when it was freed: an id is
\* never given twice, and two modules share memory only when one of them is freed.
THEOREM AlwaysRightRecipient == Spec => []RightRecipient
<1>1. Init => RecipientInv
  BY DEF Init, RecipientInv, ForModule, HeldBy, NoMessage, Thread, Party
<1>2. TypeInv /\ OnceInv /\ MemoryInv /\ RecipientInv /\ [Next]_vars => RecipientInv'
  BY RecipientStep
<1>3. RecipientInv => RightRecipient
  BY DEF RecipientInv, HeldBy, StandsFor, RightRecipient
<1>4. QED
  BY <1>1, <1>2, <1>3, TypeInvariance, OnceInvariance, MemoryInvariance, PTL DEF Spec

-----------------------------------------------------------------------------
(***************************************************************************)
(* AppManager implements AppletService.  The names in the abstract set are *)
(* those of the modules that have a thread, so an installation takes       *)
(* effect when the thread is created and a removal when the module leaves  *)
(* the list; that no other step changes the set, and that these two steps  *)
(* are made for an open request of the right kind, is what WorkInv says.   *)
(***************************************************************************)

\* The module the manager works on is in the list under the requested name.
WorkInv ==
  /\ mgr.pc \in {"timers", "thread"} =>
        mgr.id \in listed /\ name[mgr.id] = asked[mgr.mid].arg
  /\ mgr.pc \in {"join", "resources", "events", "delete"} =>
        /\ mgr.id \in listed /\ name[mgr.id] = asked[mgr.mid].arg
        /\ asked[mgr.mid].op = "uninstall"

LEMMA WorkStep ==
  ASSUME TypeInv, LifeInv, WorkInv, [Next]_vars
  PROVE  WorkInv'
<1>0. /\ mgr \in [pc : MgrPc, mid : Mid \cup {NoMid}, id : Id \cup {NoId}]
      /\ name \in [Id -> Name \cup {NoName}]
  BY DEF TypeInv, TypeOK, MgrTypeOK, ModTypeOK
<1>1. CASE UNCHANGED <<modVars, mgr>>
  <2>1. mgr.pc # "idle" => asked'[mgr.mid] = asked[mgr.mid]
    BY AskedStays DEF TypeInv, ServingOK
  <2>2. QED
    BY <1>1, <2>1 DEF WorkInv, modVars
<1>2. ASSUME Manager
      PROVE  asked' = asked
  BY <1>2, ManagerFrame
<1>3. ASSUME NEW m \in Mid, NEW r \in Requests,
             \/ Refuse(m, r) \/ Query(m, r) \/ Foreign(m, r) \/ Subscribe(m, r)
             \/ BeginInstall(m, r)
      PROVE  WorkInv'
  <2>1. mgr.pc = "idle" /\ mgr'.pc \in {"idle", "build"}
    BY <1>0, <1>3 DEF Refuse, Query, Foreign, Subscribe, BeginInstall, Take
  <2>2. QED
    BY <2>1 DEF WorkInv
<1>4. ASSUME NEW m \in Mid, NEW r \in Requests, BeginUninstall(m, r)
      PROVE  WorkInv'
  <2>1. /\ r = asked[m] /\ r.op = "uninstall" /\ asked' = asked
        /\ UNCHANGED <<listed, name>>
    BY <1>4 DEF BeginUninstall, Take, modVars, hostVars
  <2>2. PICK i \in Lookup(r.arg) : mgr' = [pc |-> "join", mid |-> m, id |-> i]
    BY <1>4 DEF BeginUninstall
  <2>3. i \in listed /\ name[i] = r.arg
    BY <2>2 DEF Lookup
  <2>4. QED
    BY <2>1, <2>2, <2>3 DEF WorkInv
<1>5. CASE AddModule
  <2>1. /\ mgr'.pc = "timers" /\ mgr'.id = nextId /\ mgr'.mid = mgr.mid
        /\ nextId \in listed' /\ name'[nextId] = asked[mgr.mid].arg /\ asked' = asked
    BY <1>0, <1>5 DEF AddModule, hostVars
  <2>2. QED
    BY <2>1 DEF WorkInv
<1>6. CASE TimersCreated \/ Join \/ CleanupResources \/ CleanupEvents
  <2>1. /\ mgr'.id = mgr.id /\ mgr'.mid = mgr.mid /\ UNCHANGED <<listed, name, asked>>
        /\ \/ mgr.pc = "timers" /\ mgr'.pc = "thread"
           \/ mgr.pc \in {"join", "resources", "events"}
                /\ mgr'.pc \in {"resources", "events", "delete"}
    BY <1>0, <1>6 DEF TimersCreated, Join, CleanupResources, CleanupEvents, modVars, hostVars
  <2>2. QED
    BY <2>1 DEF WorkInv
<1>7. CASE BuildFails \/ TimersFail \/ ThreadCreated \/ ThreadFails \/ DeleteModule
            \/ Announce \/ AnswerDone
  <2>1. mgr'.pc \in {"idle", "announce", "answer"}
    BY <1>0, <1>7 DEF BuildFails, TimersFail, ThreadCreated, ThreadFails, DeleteModule,
       Announce, AnswerDone, Idle
  <2>2. QED
    BY <2>1 DEF WorkInv
<1>8. QED
  BY <1>1, <1>3, <1>4, <1>5, <1>6, <1>7, OthersFrame DEF Manager, Serve

LEMMA WorkInvariance == Spec => []WorkInv
<1>1. Init => WorkInv
  BY DEF Init, WorkInv
<1>2. TypeInv /\ LifeInv /\ WorkInv /\ [Next]_vars => WorkInv'
  BY WorkStep
<1>3. QED
  BY <1>1, <1>2, TypeInvariance, LifeInvariance, PTL DEF Spec

ServiceInv == TypeInv /\ LifeInv /\ LimitInv /\ OnceInv /\ WorkInv

\* The abstract state: the names, and the requests that took effect.
InService == Names(Running)
Effected  == {m \in Mid : mgr.pc \in {"announce", "answer"} /\ m = mgr.mid}

\* A thread is created by the manager only, and never goes away.
LEMMA ThreadStays ==
  ASSUME ServiceInv, [Next]_vars, ~ThreadCreated, NEW i \in Id
  PROVE  thr'[i] = "none" <=> thr[i] = "none"
<1>0. thr \in [Id -> ThreadPc]
  BY DEF ServiceInv, TypeInv, TypeOK, AppTypeOK
<1>1. ASSUME NEW j \in Id, AppRuns(j)
      PROVE  thr'[i] = "none" <=> thr[i] = "none"
  BY <1>0, <1>1 DEF AppRuns, AppStart, AppInitReturns, AppTestExit, AppGet, AppWake,
     AppReturns, AppDestroyReturns, Goto
<1>2. QED
  BY <1>1, ThreadWriters

\* Adding a module and the failures of an installation do not touch the modules
\* that have a thread.
LEMMA ServiceStays ==
  ASSUME ServiceInv, [Next]_vars, ~ThreadCreated, ~DeleteModule
  PROVE  InService' = InService
<1>0. listed \subseteq Id /\ name \in [Id -> Name \cup {NoName}]
  BY DEF ServiceInv, TypeInv, TypeOK, ModTypeOK
<1>1. CASE UNCHANGED modVars
  <2>1. Running' = Running
    BY <1>0, <1>1, ThreadStays DEF Running, modVars
  <2>2. QED
    BY <1>1, <2>1 DEF InService, Names, modVars
<1>2. CASE AddModule
  <2>1. /\ nextId \in Id /\ listed' = listed \cup {nextId} /\ thr[nextId] = "none"
        /\ nextId \notin listed /\ \A i \in listed : name'[i] = name[i]
    BY <1>0, <1>2 DEF AddModule, ServiceInv, LifeInv, FreshIsNowhere, Id
  <2>2. Running' = Running /\ Running \subseteq listed
    BY <1>0, <2>1, ThreadStays DEF Running
  <2>3. QED
    BY <2>1, <2>2 DEF InService, Names
<1>3. CASE TimersFail
  <2>1. UNCHANGED <<listed, name>>
    BY <1>3 DEF TimersFail
  <2>2. Running' = Running
    BY <1>0, <2>1, ThreadStays DEF Running
  <2>3. QED
    BY <2>1, <2>2 DEF InService, Names
<1>4. CASE ThreadFails
  <2>1. listed' = listed \ {mgr.id} /\ name' = name /\ thr[mgr.id] = "none"
    BY <1>4 DEF ThreadFails, ServiceInv, LifeInv, InstallingIsNew
  <2>2. Running' = Running
    BY <1>0, <2>1, ThreadStays DEF Running
  <2>3. QED
    BY <2>1, <2>2 DEF InService, Names
<1>5. QED
  BY <1>1, <1>2, <1>3, <1>4, ModWriters

\* The module of the abstract specification has its own name for Cardinality.
LEMMA SameCardinality ==
  ASSUME NEW S
  PROVE  Service!Cardinality(S) = Cardinality(S)
BY DEF Service!Cardinality, Cardinality

\* The creation of the thread is the abstract installation.
LEMMA InstallMaps ==
  ASSUME ServiceInv, [Next]_vars, ThreadCreated
  PROVE  \E m \in Mid : Service!Install(m)
<1>0. /\ listed \subseteq Id /\ name \in [Id -> Name \cup {NoName}]
      /\ mgr \in [pc : MgrPc, mid : Mid \cup {NoMid}, id : Id \cup {NoId}]
      /\ thr \in [Id -> ThreadPc]
  BY DEF ServiceInv, TypeInv, TypeOK, ModTypeOK, AppTypeOK, MgrTypeOK
<1>1. /\ mgr.pc = "thread" /\ mgr.mid \in Mid /\ mgr.id \in listed
      /\ name[mgr.id] = asked[mgr.mid].arg /\ thr[mgr.id] = "none"
      /\ asked[mgr.mid].op = "install" /\ answers[mgr.mid] = <<>>
  <2>1. mgr.pc = "thread" /\ Serving(mgr.mid) /\ mgr.mid \in Mid
    BY DEF ThreadCreated, Serving, ServiceInv, TypeInv, ServingOK
  <2>2. InCharge(mgr.mid)
    BY <2>1 DEF ServiceInv, OnceInv, ManagedOnce
  <2>3. QED
    BY <2>1, <2>2 DEF ServiceInv, WorkInv, InCharge, LifeInv, InstallingIsNew, TypeInv,
       ServingOK
<1>2. /\ thr' = [thr EXCEPT ![mgr.id] = "start"] /\ mgr' = [mgr EXCEPT !.pc = "announce"]
      /\ UNCHANGED <<listed, name, asked, answers>>
  BY DEF ThreadCreated, modVars, hostVars
<1>3. Running' = Running \cup {mgr.id} /\ Running \subseteq listed \ {mgr.id}
  BY <1>0, <1>1, <1>2 DEF Running
<1>4. InService' = InService \cup {asked[mgr.mid].arg}
  BY <1>1, <1>2, <1>3 DEF InService, Names
<1>5. asked[mgr.mid].arg \notin InService
  BY <1>1, <1>3 DEF InService, Names, ServiceInv, LimitInv, WithinLimit
<1>6. Cardinality(InService) < MaxApps
  <2>1. /\ IsFiniteSet(listed) /\ Cardinality(listed) \in Nat
        /\ Cardinality(listed) <= MaxApps
    BY ListedFinite DEF ServiceInv, LimitInv, WithinLimit
  <2>2. /\ IsFiniteSet(listed \ {mgr.id})
        /\ Cardinality(listed \ {mgr.id}) = Cardinality(listed) - 1
    BY <1>1, <2>1, FS_RemoveElement
  <2>3. /\ IsFiniteSet(Running) /\ Cardinality(Running) \in Nat
        /\ Cardinality(Running) <= Cardinality(listed) - 1
    BY <1>3, <2>2, FS_Subset, FS_CardinalityType
  <2>4. /\ Cardinality(InService) <= Cardinality(Running)
        /\ Cardinality(InService) \in Nat
    <3>1. [i \in Running |-> name[i]] \in Surjection(Running, InService)
      BY DEF InService, Names, Surjection
    <3>2. QED
      BY <2>3, <3>1, FS_Surjection, FS_CardinalityType
  <2>5. QED
    BY <2>1, <2>3, <2>4, BoundsAssumption
<1>7. Effected = {} /\ Effected' = {mgr.mid}
  BY <1>0, <1>1, <1>2 DEF Effected
<1>8. Service!Cardinality(InService) < MaxApps
  BY <1>6, SameCardinality
<1>9. QED
  BY <1>1, <1>2, <1>4, <1>5, <1>7, <1>8 DEF Service!Install, Service!Open, InService,
     Effected

\* The removal from the list is the abstract uninstallation.
LEMMA UninstallMaps ==
  ASSUME ServiceInv, [Next]_vars, DeleteModule
  PROVE  \E m \in Mid : Service!Uninstall(m)
<1>0. /\ listed \subseteq Id /\ name \in [Id -> Name \cup {NoName}]
      /\ mgr \in [pc : MgrPc, mid : Mid \cup {NoMid}, id : Id \cup {NoId}]
  BY DEF ServiceInv, TypeInv, TypeOK, ModTypeOK, MgrTypeOK
<1>1. /\ mgr.pc = "delete" /\ mgr.mid \in Mid /\ mgr.id \in listed
      /\ name[mgr.id] = asked[mgr.mid].arg /\ thr[mgr.id] = "exited"
      /\ asked[mgr.mid].op = "uninstall" /\ answers[mgr.mid] = <<>>
  <2>1. mgr.pc = "delete" /\ Serving(mgr.mid) /\ mgr.mid \in Mid
    BY DEF DeleteModule, Serving, ServiceInv, TypeInv, ServingOK
  <2>2. InCharge(mgr.mid)
    BY <2>1 DEF ServiceInv, OnceInv, ManagedOnce
  <2>3. QED
    BY <2>1, <2>2 DEF ServiceInv, WorkInv, InCharge, LifeInv, RemovingIsEnded
<1>2. /\ listed' = listed \ {mgr.id} /\ mgr' = [mgr EXCEPT !.pc = "announce"]
      /\ UNCHANGED <<name, thr, asked, answers>>
  BY DEF DeleteModule, appVars, hostVars
<1>3. Running' = Running \ {mgr.id} /\ mgr.id \in Running /\ Running \subseteq listed
  BY <1>0, <1>1, <1>2 DEF Running
<1>4. InService' = InService \ {asked[mgr.mid].arg}
  BY <1>1, <1>2, <1>3 DEF InService, Names, ServiceInv, LimitInv, WithinLimit
<1>5. asked[mgr.mid].arg \in InService
  BY <1>1, <1>3 DEF InService, Names
<1>6. Effected = {} /\ Effected' = {mgr.mid}
  BY <1>0, <1>1, <1>2 DEF Effected
<1>7. QED
  BY <1>1, <1>2, <1>4, <1>5, <1>6 DEF Service!Uninstall, Service!Open, InService, Effected

\* A request is asked, and at once refused when it is for an unknown application.
LEMMA AskMaps ==
  ASSUME ServiceInv, [Next]_vars, NEW n \in Mid, NEW r \in Requests, HostAction(n, r)
  PROVE  \E m \in Mid : Service!Ask(m)
<1>1. asked[n] = NoRequest /\ asked' = [asked EXCEPT ![n] = r] /\ r \in Request
  BY RequestAssumption DEF HostAction, AskManagement, AskApp, AskResource, Ask
<1>2. answers[n] = <<>> /\ answers \in [Mid -> Seq(Status)]
  BY <1>1 DEF ServiceInv, OnceInv, UnaskedOpen, TypeInv, TypeOK, HostTypeOK
<1>3. answers' = answers \/ answers' = [answers EXCEPT ![n] = <<"error">>]
  BY <1>2 DEF HostAction, AskManagement, AskApp, AskResource, Answer
<1>4. mgr' = mgr /\ ~ThreadCreated /\ ~DeleteModule
  <2>1. mgr' = mgr /\ asked' # asked
    BY <1>1, HostFrame, NoRequestIsNone DEF ServiceInv, TypeInv, TypeOK, HostTypeOK
  <2>2. QED
    BY <2>1 DEF ThreadCreated, DeleteModule, hostVars
<1>5. InService' = InService /\ Effected' = Effected
  BY <1>4, ServiceStays DEF Effected
<1>6. QED
  BY <1>1, <1>3, <1>5 DEF Service!Ask, InService, Effected

\* An answer that is not about an effect is to a request that had none.
LEMMA ReplyMaps ==
  ASSUME NEW m \in Mid, NEW s \in {"error", "content", "app"},
         answers[m] = <<>>, m \notin Effected, asked[m] # NoRequest,
         Answer(m, s), asked' = asked, InService' = InService, Effected' = Effected
  PROVE  \E k \in Mid : Service!Reply(k)
<1>1. answers' = [answers EXCEPT ![m] = <<s>>]
  BY DEF Answer
<1>2. QED
  BY <1>1 DEF Service!Reply, Service!Open, InService, Effected

\* Every answer but the last of an installation or a removal is such an answer.
LEMMA ServeMaps ==
  ASSUME ServiceInv, [Next]_vars, Serve
  PROVE  UNCHANGED <<InService, Effected, asked, answers>> \/ \E k \in Mid : Service!Reply(k)
<1>0. mgr \in [pc : MgrPc, mid : Mid \cup {NoMid}, id : Id \cup {NoId}]
  BY DEF ServiceInv, TypeInv, TypeOK, MgrTypeOK
<1>1. PICK n \in Mid, r \in Requests :
         \/ Refuse(n, r) \/ Query(n, r) \/ Foreign(n, r) \/ Subscribe(n, r)
         \/ BeginInstall(n, r) \/ BeginUninstall(n, r)
  BY DEF Serve
<1>2. mgr.pc = "idle" /\ mgr'.pc \in {"idle", "build", "join"} /\ Take(n, r)
  BY <1>1 DEF Refuse, Query, Foreign, Subscribe, BeginInstall, BeginUninstall, Take
<1>3. ~ThreadCreated /\ ~DeleteModule
  BY <1>2 DEF ThreadCreated, DeleteModule
<1>4. InService' = InService /\ Effected = {} /\ Effected' = {}
  BY <1>2, <1>3, ServiceStays DEF Effected
<1>5. asked' = asked
  BY ServeFrame
<1>6. InCharge(n)
  <2>1. Waiting(1, n)
    BY <1>2 DEF Take, Waiting, ServiceInv, TypeInv, TypeOK, MgrTypeOK
  <2>2. QED
    BY <2>1 DEF ServiceInv, OnceInv, ManagedOnce
<1>7. answers[n] = <<>> /\ asked[n] # NoRequest
  BY <1>6 DEF InCharge, NoRequest, ManagementOp
<1>8. answers' = answers \/ Answer(n, "error") \/ Answer(n, "content")
  BY <1>1 DEF Refuse, Query, Foreign, Subscribe, BeginInstall, BeginUninstall, hostVars
<1>9. QED
  BY <1>4, <1>5, <1>7, <1>8, ReplyMaps

\* The manager, when it works on a request.
LEMMA WorkMaps ==
  ASSUME ServiceInv, [Next]_vars, Manager, ~Serve, ~ThreadCreated, ~DeleteModule
  PROVE  \/ UNCHANGED <<InService, Effected, asked, answers>>
         \/ \E m \in Mid : Service!Reply(m) \/ Service!Confirm(m)
<1>0. mgr \in [pc : MgrPc, mid : Mid \cup {NoMid}, id : Id \cup {NoId}]
  BY DEF ServiceInv, TypeInv, TypeOK, MgrTypeOK
<1>1. asked' = asked /\ InService' = InService
  BY ManagerFrame, ServiceStays
<1>2. ASSUME mgr.pc # "idle"
      PROVE  mgr.mid \in Mid /\ answers[mgr.mid] = <<>> /\ asked[mgr.mid] # NoRequest
  <2>1. Serving(mgr.mid) /\ mgr.mid \in Mid
    BY <1>2 DEF Serving, ServiceInv, TypeInv, ServingOK
  <2>2. InCharge(mgr.mid)
    BY <2>1 DEF ServiceInv, OnceInv, ManagedOnce
  <2>3. QED
    BY <2>1, <2>2 DEF InCharge, NoRequest, ManagementOp
<1>3. CASE BuildFails \/ TimersFail \/ ThreadFails
  <2>1. /\ mgr.pc \in {"build", "timers", "thread"} /\ mgr'.pc = "idle"
        /\ Answer(mgr.mid, "error")
    BY <1>3 DEF BuildFails, TimersFail, ThreadFails, Idle
  <2>2. Effected = {} /\ Effected' = {}
    BY <2>1 DEF Effected
  <2>3. QED
    BY <1>1, <1>2, <2>1, <2>2, ReplyMaps
<1>4. CASE AddModule \/ TimersCreated \/ Join \/ CleanupResources \/ CleanupEvents
  <2>1. /\ mgr.pc \notin {"announce", "answer"} /\ mgr'.pc \notin {"announce", "answer"}
        /\ answers' = answers
    BY <1>0, <1>4 DEF AddModule, TimersCreated, Join, CleanupResources, CleanupEvents,
       hostVars
  <2>2. Effected = {} /\ Effected' = {}
    BY <2>1 DEF Effected
  <2>3. QED
    BY <1>1, <2>1, <2>2
<1>5. CASE Announce
  <2>1. mgr.pc = "announce" /\ mgr' = [mgr EXCEPT !.pc = "answer"] /\ answers' = answers
    BY <1>5 DEF Announce
  <2>2. Effected' = Effected
    BY <1>0, <2>1 DEF Effected
  <2>3. QED
    BY <1>1, <2>1, <2>2
<1>6. CASE AnswerDone
  <2>1. /\ mgr.pc = "answer" /\ mgr'.pc = "idle"
        /\ answers' = [answers EXCEPT ![mgr.mid] =
             Append(@, IF asked[mgr.mid].op = "install" THEN "created" ELSE "deleted")]
    BY <1>6 DEF AnswerDone, Idle, Answer
  <2>2. mgr.mid \in Mid /\ answers[mgr.mid] = <<>>
    BY <1>2, <2>1
  <2>3. Effected = {mgr.mid} /\ Effected' = {}
    BY <2>1, <2>2 DEF Effected
  <2>4. answers' = [answers EXCEPT ![mgr.mid] =
             <<IF asked[mgr.mid].op = "install" THEN "created" ELSE "deleted">>]
    BY <2>1, <2>2
  <2>5. QED
    BY <1>1, <2>2, <2>3, <2>4 DEF Service!Confirm, InService, Effected
<1>7. QED
  BY <1>3, <1>4, <1>5, <1>6 DEF Manager

\* A response that an application sends reaches the host as an answer.
LEMMA SendMaps ==
  ASSUME ServiceInv, [Next]_vars, NEW t \in Thread, Send(t)
  PROVE  UNCHANGED <<InService, Effected, asked, answers>> \/ \E k \in Mid : Service!Reply(k)
<1>1. UNCHANGED <<modVars, thr, mgr, asked>>
  BY SendFrame DEF appVars, mgrVars
<1>2. InService' = InService /\ Effected' = Effected
  BY <1>1 DEF InService, Running, Names, Effected, modVars
<1>3. CASE answers' # answers
  <2>1. PICK d \in out[t] : d.msg.mid # NoMid /\ Answer(d.msg.mid, "app")
    BY <1>3 DEF Send, LookupFound, LookupMissing, Post, hostVars
  <2>2. d.msg.mid \in Mid
    BY <2>1 DEF ServiceInv, TypeInv, TypeOK, SendTypeOK, Delivery, Message
  <2>3. OnItsWay(d.msg.mid)
    BY <2>2 DEF Sending, ServiceInv, OnceInv, CarriedOpen
  <2>4. d.msg.mid \notin Effected
    <3>1. ~InCharge(d.msg.mid)
      BY <2>3 DEF OnItsWay, InCharge, ManagementOp
    <3>2. ~Serving(d.msg.mid)
      BY <2>2, <3>1 DEF ServiceInv, OnceInv, ManagedOnce
    <3>3. QED
      BY <3>2 DEF Effected, Serving
  <2>5. answers[d.msg.mid] = <<>> /\ asked[d.msg.mid] # NoRequest
    BY <2>3 DEF OnItsWay, NoRequest
  <2>6. QED
    BY <1>1, <1>2, <2>1, <2>2, <2>4, <2>5, ReplyMaps
<1>4. QED
  BY <1>1, <1>2, <1>3

LEMMA ServiceStep ==
  ASSUME ServiceInv, [Next]_vars
  PROVE  [Service!Next]_(Service!vars)
<1>0. UNCHANGED <<InService, Effected, asked, answers>> => UNCHANGED Service!vars
  BY DEF Service!vars, InService, Effected
<1>1. ASSUME NEW n \in Mid, NEW r \in Requests, HostAction(n, r)
      PROVE  Service!Next
  BY <1>1, AskMaps DEF Service!Next
<1>2. ASSUME NEW t \in Thread, Send(t)
      PROVE  [Service!Next]_(Service!vars)
  BY <1>0, <1>2, SendMaps DEF Service!Next
<1>3. ASSUME Manager
      PROVE  [Service!Next]_(Service!vars)
  BY <1>0, <1>3, ServeMaps, WorkMaps, InstallMaps, UninstallMaps DEF Service!Next
<1>4. ASSUME UNCHANGED <<modVars, mgr, asked, answers>>, ~ThreadCreated, ~DeleteModule
      PROVE  UNCHANGED <<InService, Effected, asked, answers>>
  BY <1>4, ServiceStays DEF Effected
<1>5. ASSUME NEW i \in Id, AppRuns(i) \/ AppCalls(i)
      PROVE  UNCHANGED Service!vars
  <2>1. UNCHANGED <<modVars, mgr, asked, answers>>
    BY <1>5, AppRunsFrame, AppCallsFrame DEF AppFrame, mgrVars, hostVars
  <2>2. ~ThreadCreated /\ ~DeleteModule
    BY <2>1 DEF ThreadCreated, DeleteModule, ServiceInv, TypeInv, TypeOK, MgrTypeOK
  <2>3. QED
    BY <1>0, <1>4, <2>1, <2>2
<1>6. CASE UNCHANGED vars
  <2>1. UNCHANGED <<modVars, mgr, asked, answers, thr>>
    BY <1>6 DEF vars, mgrVars, hostVars, appVars
  <2>2. UNCHANGED <<InService, Effected, asked, answers>>
    BY <2>1 DEF InService, Running, Names, Effected, modVars
  <2>3. QED
    BY <1>0, <2>2
<1>7. QED
  BY <1>1, <1>2, <1>3, <1>5, <1>6 DEF Next, HostAction

\* The application manager, with all its threads, queues and error paths, is the
\* service of AppletService: the set of installed applications changes one at a
\* time, only for an open request that asks for it, within the limit, and
\* "created" and "deleted" are answered exactly to the requests that took effect.
THEOREM ImplementsService == Spec => ServiceSpec
<1>1. Init => Service!Init
  <2>1. ASSUME Init
        PROVE  /\ Names(Running) = {}
               /\ {m \in Mid : mgr.pc \in {"announce", "answer"} /\ m = mgr.mid} = {}
    BY <2>1 DEF Init, Running, Names
  <2>2. QED
    BY <2>1 DEF Init, Service!Init
<1>2. ServiceInv /\ [Next]_vars => [Service!Next]_(Service!vars)
  BY ServiceStep
<1>3. Spec => []ServiceInv
  <2>1. Spec => []LimitInv
    BY LimitInvariance
  <2>2. TypeInv /\ LifeInv /\ LimitInv /\ OnceInv /\ WorkInv => ServiceInv
    BY DEF ServiceInv
  <2>3. QED
    BY <2>1, <2>2, TypeInvariance, LifeInvariance, OnceInvariance, WorkInvariance, PTL
<1>4. QED
  BY <1>1, <1>2, <1>3, PTL DEF Spec, ServiceSpec, Service!Spec
=============================================================================
