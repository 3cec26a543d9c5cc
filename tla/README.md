# A TLA+ development for the WAMR application framework

The WAMR application framework runs on a device.  A *host* installs WebAssembly
applications on it over a link, queries and removes them, sends requests to them
and receives the events they publish.  On the device each application runs in a
thread of its own, with a message queue; the applications reach each other,
timers, sensors and connections through a native API.  This directory models that
framework, checks it with TLC, and proves part of it with TLAPS.

## 1. The system

| Component | State | Operations | Talks to |
|---|---|---|---|
| Application manager core (`app_manager.c`) | the management queue | `am_dispatch_request`, `app_manager_queue_callback`, the query, the `/applets` event | everything below |
| Module list (`module_utils.c`) | `module_data_list`, `module_id_max` | add, remove, lookup by name and by id, delete | read by all threads under `module_data_list_lock` |
| Resource registry (`resource_reg.c`) | `g_resources` (no lock) | register, clean up, dispatch a request, send a response | module queues, host |
| Event registry (`event.c`) | `g_events` (no lock) | subscribe, unsubscribe, publish, clean up | module queues, host |
| Messages to the host (`message.c`) | none | responses, error responses, events | host link |
| WASM life cycle (`module_wasm_app.c`) | one `module_data` per application: thread, queue, timers | install, uninstall, the routine of the application, its queue callback, reception of a binary | module list, registries, timers, sensors, connections |
| Native request API (`request_response.c`) | none | register a resource, subscribe, post a request, send a response | both registries |
| Native timers (`timer_wrapper.c`) | list of timer contexts, one timer thread | create, start, cancel, restart, expire | module queues |
| Application request library (`base/app/request.c`, `timer.c`) | transactions, resource handlers, timers | send, time out, receive a response | native API |
| Sensor manager (`runtime_sensor.c`) | sensors, their clients, a sensor thread | open, configure, close, read, cleanup | module queues |
| Connection manager (`connection_mgr.c`) | connections by handle, a polling thread | open, send, close, poll, cleanup | module queues |
| Host link (`app_manager_host.c`) | receive context, byte counters | receive a byte, send a message, the framing phases | application manager, reception of a binary |
| Codecs (`restful_utils.c`, `attr_container.c`) | none | pack and unpack, URL matching, attribute containers | all |
| Graphics wrappers (`wgl/native`, `wgl/app`) | the list of widgets with their owners and ids, event handlers | create, call, delete now, below, or later, events, cleanup | LVGL, module queues |
| Host connection of the samples (`samples/simple`) | one socket, `sock_lock`, or a serial line without a lock | accept, connect or open, read, write | host link |
| Start of the samples (six `iwasm_main`) | native libraries, what was started | start, run, undo | all |
| Simulated display (`samples/littlevgl`) | frame buffer, texture, three flags (no lock) | draw, copy, show, quit | applications, SDL |
| Host tool (`test-tools/host-tool`) | one operation, one connection, a receive context | parse, send, wait, reconnect | the runtime, over the link |
| AssemblyScript library (`assembly-script`) | transactions, one timer, handlers | as the C library | native API |
| Application store (`IoT-APP-Store-Demo`) | devices, views, three lists of applications | accept, command, read one answer, upload, add, remove | devices, browsers |

`PROJECT.json` lists these and the smaller ones, with what is and is not modelled.

Three kinds of threads meet in the core.  The *host thread* reads requests from
the link; a management request is copied to the queue of the application manager,
a request for an application is posted to the queue of its module.  The
*application manager thread* serves its queue one request at a time; installing
and uninstalling take it through a sequence of steps while all the others go on.
The *thread of each application* serves the queue of its module, calls the
handlers of the application, and executes the native calls these make: so it walks
the registries, looks modules up, and posts to the queues of others.

What is hard about it:

- *Check, unlock, use.*  A sender finds a module under the lock, releases it, and
  posts to the queue of the module it found; an uninstallation may free it between.
- *Removal of something alive.*  An uninstallation asks the thread to leave its
  loop, joins it, then removes its registrations.  The callback `on_destroy` of the
  application runs while the manager waits, and may register again.
- *Partial installations.*  An installation can fail at a dozen places, before and
  after the module is in the list.
- *Who answers.*  A request is answered by the manager, the dispatcher, or an
  application, on a success or an error path, and the host should get one answer.
- *What the host believes.*  The `/applets` event tells the host which applications
  there are; it is sent by a step of its own after the change.
- *Full queues.*  A post to a full queue is refused and the result is ignored.
- *Threads that wait.*  The timer and sensor threads compute how long to wait and
  then wait; what happens in between must not be slept through.
- *Things used again.*  Descriptors, clients of sensors, nodes of connections and
  widgets are freed by one party while another one holds them.
- *Streams.*  Bytes from the host are counted in two places; messages of several
  threads, answers that come late, and events share one connection.
- *Unlocked lists*, and ids and handles that wrap.

Section "hazards" of `PROJECT.json` lists each of them at its line.

What makes each component correct:

- core and life cycle: the limit and the uniqueness of names hold through failures;
  a freed module is gone from everywhere; its code never runs again; every request
  that reached the manager is answered, and none twice; the host's picture is the list;
- registries: a message is handled by the application that was addressed; nobody's
  registrations disappear with another application; nothing stays registered for a
  freed one;
- timers: a timer that was started expires, and not after its module is gone;
- request library: every request gets one answer or one time-out;
- sensors: the read interval serves every client; connections: a handle names at most
  one live connection, and its owner learns of its end;
- host link: after any message, valid or not, the receiver is at a frame boundary;
- codecs: what was packed is read back and nothing else is, URLs match as the
  comments of the helpers say, a container is a map from keys to values;
- widgets: the list names those that exist, and an uninstallation reaches all of one
  application;
- display: what was drawn is shown, though drawing and showing overlap;
- host tool and store: an answer is given for the request it answers, and everybody
  who waits stops waiting.

## 2. The modules

| Module | Contents |
|---|---|
| `AppManager.tla` | the core: module list, registries, manager thread, application threads, host thread, native request API |
| `AppletService.tla` | what the core promises the host, without modules, threads or queues |
| `MCAppManager.tla` | the requests the runs of the core use |
| `AppManagerProofs.tla` | the core proved: frame lemmas ("writers"), types, freed modules, the limit, what the host was told |
| `AppManagerAnswers.tla` | the core proved: one answer per request, the right recipient, the refinement of `AppletService` |
| `AppRequest.tla` | the request library of an application and its timer |
| `AppRequestProofs.tla` | the request libraries proved: one owner and one outcome of every request, never early, on time; of AssemblyScript the time-outs |
| `TimerThread.tla` | the timer thread of the runtime, its list of contexts, the calls of applications |
| `SensorManager.tla` | sensors, their clients and intervals, the sensor thread, the handles of an application |
| `HostSession.tla` | the connection to the host, or the serial line: one thread accepts and reads it, several write |
| `HostTool.tla` | one command line of the host tool, until its exit status |
| `HostProofs.tla` | the stream of messages, and the words and the exit status of the host tool, proved |
| `MCProgress.tla` | the four modules above for TLC |
| `ConnectionManager.tla` | connections, their descriptors, the polling thread, the handles of an application |
| `ThreadProofs.tla` | the timer thread, the sensor manager and the connections proved |
| `RestfulUtils.tla`, `AsPackets.tla` | packets, URLs, key-value pairs as operators, of the C and the AssemblyScript library |
| `RestfulCalls.tla` | calls of these over samples, against reference definitions |
| `AttrContainer.tla`, `KeyValueMap.tla` | attribute containers, and the map they implement |
| `CodecProofs.tla` | packets, URLs, attribute containers and the frames of the host link proved |
| `HostLink.tla` | what the host sends, byte by byte: the frames, and the reception of a binary |
| `GuiObjects.tla` | widgets, their list, deletion, handlers and events |
| `AsRequest.tla` | the requests of the AssemblyScript library and their timer |
| `AppStore.tla`, `AppCatalogue.tla` | the server of the application store, and its catalogue |
| `RuntimeMain.tla` | the start of the samples, six main programs, and its failures |
| `SdlDisplay.tla` | the frame buffer of the littlevgl sample, who draws into it and the thread that shows it |
| `SampleProofs.tla` | the start of the samples, the display, the widgets, the catalogue and the server of the store proved |
| `SequenceLemmas.tla` | what the proofs need about sequences: appending, removing, counting, least elements |
| `MCIntegrity.tla` | the parts from `ConnectionManager` on for TLC, and their samples |

### `AppManager`

State and code:

| Variable | Code |
|---|---|
| `listed`, `name`, `addr`, `nextId`, `released` | `module_data_list`, `m_data->module_name`, where `m_data` is in memory, `module_id_max`, and the modules `release_module` freed |
| `queue`, `exitFlag` | `m_data->queue`, its `exit_loop_run` |
| `thr`, `handling`, `calls` | where the thread is in `wasm_app_routine`, the message its callback has, how many native calls it made |
| `resources`, `subscribers` | `g_resources`; `g_events` and the clients of each event |
| `out`, `ptr` | what a thread still has to post from the call it is in; the `module_data *` it looked up |
| `mgrQueue`, `mgr` | `g_app_mgr_queue`; where the manager thread is, for which request and module |
| `asked`, `answers`, `hostView` | histories: requests, responses, and what the host may take for the list: the last `/applets` event since it subscribed, unless that is one of an application or the manager had no memory for its own |
| `crashed` | freed memory was used and the process ended |

Modules are named by their id.  A name may be used again after a removal, by a
module with another id, and so may the memory: `AddModule` takes new memory or that of
a freed module (`FreeMemory`).  Both make a stale lookup visible.

Actions of the manager thread: `Refuse`, `Query`, `Subscribe`, `Foreign` serve a
request in one step.  An installation is `BeginInstall` (the checks), `AddModule` or
`BuildFails` (everything before `module_data_list_add`), `TimersCreated` or
`TimersFail`, `ThreadCreated` or `ThreadFails`, `Announce`, `AnswerDone`.  An
uninstallation is `BeginUninstall` (the exit flag), `Join`, `CleanupResources`,
`CleanupEvents`, `DeleteModule`, `Announce`, `AnswerDone`.  Each lock region or
call that others can see is a step.

Actions of the thread of an application: `AppStart`, `AppInitReturns`,
`AppTestExit`, `AppGet`, `AppWake`, `AppReturns`, `AppDestroyReturns` follow
`wasm_app_routine` and the loop of the queue, and the native calls
`RegisterResource`, `SubscribeEvent`, `PostRequest`, `PostToApp`, `PublishEvent`,
`Respond` may come from any callback, `on_destroy` included.

A call that sends puts its deliveries in `out`; `LookupFound`, `LookupMissing` and
`Post` make them, in an order the model leaves open.  `Post` goes to an address: when
the module found there was freed meanwhile, a later one with its memory (`Tenants`) gets
the message; without one the message is lost or the process ends, for the code is
undefined there.  `Announce` may find no memory for its event and then sends nothing, and
`LookupMissing` also delivers an event of that name which an application published: in
both cases `hostView` says nothing any more.

What is abstracted, and what that assumes:

- Payloads, formats, and the reasons of an error response are left out; a response
  is one of `created`, `deleted`, `content`, `error`, or an answer of an application.
- No URL is a prefix of another one, so the order of `g_resources` does not matter.
- A call on an unlocked list is one step.  The walks that race on these lists are
  hazards of the list, to be modelled apart.
- The host numbers its requests; an application answers a request at most once and
  while it works on it.  The ids applications give their own requests are kept apart
  from the host's (`NoMid`): the code does not, and `PROJECT.json` has the hazard.
- Applications do not post management requests themselves.
- The queue of the wire to the host loses nothing and keeps the order.
- A module that was freed and stays in the list (`TimersFail`) is read by every later
  walk of the list.  The model takes the memory to keep the id and the name; only a
  post to such a module and its uninstallation may end the process.  What is said of
  states after such a failure is said under this assumption.
- `WATCHDOG_ENABLED` is off, as in the build.

### `AppletService`

The abstract state is the set of applications that are there and, for each request
of the host, its replies.  An installation takes effect in one step and is reported
later, and an application never appears twice or disappears without a request.
The refinement maps an application to a module of the list whose thread was created,
and the replies to `answers`.

### `AppRequest`

One application, seen from its request library.  The library runs in the thread of
the application, so between two messages of the queue it is idle; while a callback
runs, time passes and others post.

| Variable | Code |
|---|---|
| `transactions`, `timer` | `g_transactions` (a list here a sequence of id and start time), `g_trans_timer` |
| `left`, `nextTimer` | what the native timers still have to run, the id `wasm_create_timer` returns |
| `nextMid` | the counter of `init_request` |
| `queue`, `pending` | the queue of the module; the requests somebody may still answer |
| `at`, `current`, `expired` | the callback the thread is in, the transaction whose handler runs, the local list of `transaction_timeout_handler` |
| `now`, `sent`, `ended` | time, when each request was sent, what its handler was called with |

`SendRequest` is `api_send_request`; `OnResponse` and `ResponseReturns` are
`on_response` before and after the handler, `OnUnknownResponse` its early return;
`OnTimer`, `CallExpired` and `TimeoutReturns` are `transaction_timeout_handler` up to
the first handler, one call of a handler, and the end that sets the timer again;
`OnCancelledTimer` is an expiry whose timer was cancelled while it waited in the
queue.  `Tick`, `Fire` and `Respond` are the world outside.  A reading of the clock is
`now % Wrap`, as the code's is 32 bits wide, and differences are unsigned.

What is abstracted: failed allocations; the handlers of URLs and the timers an
application makes for itself; the packing of requests.  The timer thread is taken to
post an expiry before time goes on.  An expiry may wait in the queue for any time.
Without a timer `api_timer_restart` and `api_timer_cancel` read the id through a null
pointer: in the linear memory of an application that is an address as any other, and
what is there is not the id of a running timer of the library.  Each timer gets a
fresh native id.  The loop of `transaction_add` that does not end is taken as it is
written, and the thread stays at `spin`.

### `TimerThread`

`contexts` is `g_timer_ctx_list`; `loop` is where `thread_modulers_timer_check` is, with
`unscanned`, `expired`, `found` and `msToExpiry` its locals; `left` is what each timer
of the runtime's library has to run; `signals` holds timers whose start still has to
signal (the library calls `wakeup_modules_timer_thread` after it released its own
lock); `life` is the module, from the list to the freed memory.  The thread holds the
mutex of the list from `Begin` to `EndWalk`, releases it, computes the wait (`Sleep`)
and takes it again: between the two a signal finds no waiter, which `unheard`
remembers.  `DeleteModule` and `DestroyContext` are `release_module`, which destroys
the queue of a module before its context.

### `SensorManager`

`clients` and `interval` are the list of clients of a sensor, changed under its lock;
`readInterval` is computed by `Refresh` under the lock and stored by `StoreInterval`
without it; `Signal` wakes the thread.  The thread (`reader`, `unvisited`, `reading`,
`client`, `nextCheck`) walks the clients without the lock, and `CallFreedClient` is the
step onto one that was freed.  `AddHandle` and `ForgetHandle` are the list the
application library keeps, after the one call and before the other.  `overtaken` and
`uncovered` remember the two ways in which the interval is known to become wrong.  A
sensor that is due gives data (`ReadSensor`) and its clients are called, or gives none
(`ReadNothing`) and counts as read.

### `HostSession` and `HostTool`

A message to the host is two writes under `host_lock`, each after a `trylock` of
`sock_lock`; the reading thread holds `sock_lock` over `accept()`.  `peers` has, for
each connection, what its host has read.  In client mode SIGPIPE has its default
disposition and a write to a broken connection ends the process.  `uart` is the build for
a serial line: one connection, opened once and never again after it broke down, the
two writes of a message without `sock_lock` (`UartSend`, `UartSendFails`), and no SIGPIPE.
`ServerOption` and `OptionsEnd` are `parse_args`, after which the thread is created.

`HostTool` is `main` of the host tool, over TCP or a serial line (`Connects`): `stage` is
where it is, `op` the operation with the union of its arguments as three words, each holding the option that wrote it;
`inFlight` the parts of messages on the connection, `partialMsg` the receive context
across reads, `waited` the time since the start.  The runtime answers once at most, tells
events and late responses to other tools, and closes.

### `ConnectionManager`

`conn` are the nodes of `g_connections` and `socket` the descriptors the system gave
out, used again after they were closed.  Opening is `OpenConnection`, `Connected`,
`Watch`; closing is unlinking (`CloseConnection`), `CloseDescriptor`, `FreeNode`, by the
application, the polling thread (`PollClose`, `PollCloseDescriptor`, `PollFree`) or, as
one step under the lock, the cleanup of an application.  The polling thread takes its
nodes from a batch epoll filled earlier.  `FindForUse` and `UseNode` are sending and
configuring, whose node may have been freed between; `touched` says that it was, and
what follows is undefined in the code.

### `RestfulUtils`, `AsPackets`, `RestfulCalls`, `AttrContainer`

Packets and URLs are sequences of bytes, for the properties are about lengths,
slashes and separators.  The operators follow the functions of `restful_utils.c` and
`request.ts`; `RestfulCalls` chooses a sample and a call, and its properties compare
the results with definitions that say what the comments promise, over all strings up
to a length.  The C library compares the size of a packet with the sum of its lengths in
32 bits, which `SizeAgrees` says in two halves, since the numbers of TLC end at 2^31: lengths that
add up to 2^32 more than the size are taken, and the payload then begins behind the end
of the packet (`Overrun`; `Behind` is the byte read there).

A container is its list of entries, of a key and a value with a type, a size and a
contents word, with the counts the code keeps in the buffer: the number of entries
and the total length, from which `RoomLeft` decides whether the buffer grows and
where entries move (`Moved`, `Appended`, `Grown`).  It implements `KeyValueMap`, a map
with one operation that may refuse.

### `HostLink`

`wire` is what is left of the current frame.  `linkCtx` is the receive context of
`app_manager_host.c` and `loaderCtx` that of `module_wasm_app.c`; each byte is one step
through both, `OnNonStart` to `OnIgnoring` for the link and `Recv...` for the binary, with
every allocation free to fail.  `log` says what became of each frame.  Frames are
those of the host tool, with binaries of a few sections: bytecode and AOT, of known
and unknown types, with a wrong magic, version or order, empty, cut, and too long.
Numbers are exact up to 2^22, beyond any stream of the model.  `spoiled` says that one of
the four events happened after which the code keeps a context it should not.

### `GuiObjects`

`objs` is LVGL's tree, `nodes` the list of the runtime (a set here: it is only searched), `given` the ids an application
holds, `handlers` and `events` its own list and its queue, `halfway` a call between the
deletion and the forgetting of nodes, or in the search for a handler.  The native tables
and the functions of the application library are the constants `BtnDefs`, `BtnCalls` and
so on, with the number of arguments: `Show` is a call that changes no list, and
`Throw` one the table refuses.  `Del`, `Clean` and `DelAsync` with `AsyncDelete` are the
three deletions; what is below a widget (`Above`) is what every set with the widget and the
children of its members holds, without recursion.  `CleanedUp` is the loop of
`cleanup_object_list`, which deletes nodes without children in the list until none is left.  `wild` says that memory of a deleted
widget was used.

### `AsRequest`

As `AppRequest`, with what differs in TypeScript: an answer leaves its transaction in the
list, and a time-out removes with those that expired the last of those that did not,
since `splice` is called with index -1.  Ids count up and what is new goes to the end, so
the list is the set of its ids, of which the least is the first.  The clock is a signed
number.  The time-out handler is `TimeOut`, then for each transaction `TestExpired` and
`KeepOthers`, the two passes with a reading of the clock each, then `TellExpired` for each
handler and `EndTimeOut`; the clock goes on between all of them.

### `AppStore`, `AppCatalogue`, `RuntimeMain`, `SdlDisplay`

`AppStore` is the loop of `wasm_server.py` over its devices and views: one thread
(`server`) that, for a command, writes to a device and blocks until it read one message
(`Resume` with its results), and ends with an exception that is not an `OSError`.
A message without its end, or with the rest of an earlier one before it (`ReadGarbled`), is
told to the view too, with what it was garbled by (`ToldBehind`).
`AppCatalogue` is the three lists of the web application, changed one after the other.
`RuntimeMain` is `iwasm_main` of six programs.  `Program` gives for each the parts in the
order they are started, the label a failure of each goes to, and what is exited behind
each label; `step` walks the one list and then the other, and `up` counts how often each
part was started and not exited.  A part whose result nobody looks at has the label 0,
and `NeverExited` is what a program starts without having an exit for it.  The two gui
programs on Linux load the native libraries of their command line before
(`LoadNext`, `NotLoaded`, `RegisterFails`, `Loads`).

In `SdlDisplay` `tft_fb` is a column of pixels.  An application in one of the three drawing
functions writes the pixels of its area in any order (`DrawPixel`) and raises
`sdl_refr_qry` at the end (`QueryRefresh`); the thread of SDL takes the flag down
(`TakeQuery`), copies pixel by pixel (`UpdateTexture`) and shows the copy (`Present`).  The
flag is a plain variable in the code: that its writes and the pixels are seen in the
order they are made is an assumption of the model.

## 3. What the runs check

| Run | Instance | Checks |
|---|---|---|
| `lifecycle` | three names, three requests among install, uninstall and the subscriptions; installations that fail in the build or at the thread, and announcements without memory; applications that publish and subscribe to `/applets` in every callback | `AnsweredOnce`, `WithinLimit`, `FreedIsGone`, `HostViewCurrent`, and that the core implements `AppletService` |
| `traffic` | two applications, requests of the host by name and of everybody by URL, native calls, installations that fail at the timers or at the thread | `TypeOK`, `AnsweredOnce`, `FreedIsGone`, `RightRecipient`, `NoReturn` |
| `answered` | installations and removals with a management queue of one place, while applications publish and send requests to `a` by name | `ManagementAnswered`, under fairness |
| `requests` | four requests of one application, answered in any order, late or never, sent between callbacks or by a time-out handler | `HandledOnce`, `NeverEarly`, `OnTime` |
| `progress` | two applications with a timer each, one periodic; two applications and a sensor with intervals 0 and 2; two threads that send two messages to two hosts, in each mode; one command line with a time-out of two ticks | `CallbackModuleKept`, `NoTimerSleptThrough`, `LeastIsRead`, `StreamsWhole`, `OperationAsGiven`, `StatusIsOwn`, and under fairness `TimerServed`, `ClientServed`, `SendReturns`, `ToolEnds` |
| `integrity` | two handles and two descriptors; strings of two to five bytes; two keys and four values; two frames out of fifteen; two objects made by two applications; two devices and a view; three names; three requests; six programs and three libraries; two drawings of two applications on two pixels | `OneCloser`, `DescriptorHasOwner`, `HandlerHearsPeer`, `PacketsReadBack`, `UrlsMatchAsDocumented`, `KeyFoundIsFirst`, `FramesUnderstood`, `OneAnswerPerInstall`, `NodesNameWidgets`, `CleanupReachesAll`, `ToldInTime`, `AnswerIsForAsker`, `UploadedIsOffered`, `NothingLeftUp`, `DrawnIsShown`, and that a container is a map (`ContainerIsMap`) |
| `handlers` | one application with two objects | **violated**: `HandlerGetsSet` |
| `timers_fail` | installations that fail at the timers | **violated**: `InstalledHasThread` |
| `lost_response` | two applications, one of which sends the other a request and is removed | **violated**: `ResponseHasReceiver` |
| `third_request` | three requests | **violated**: `AddedToTail` |
| `chained_request` | requests sent by a response handler | **violated**: `NoTimerNoTransaction` |
| `slow_timeout` | two requests, and time that passes in a time-out handler | **violated**: `TimerForFirst` |

Bounds.  `MaxMid = 3` is an installation, its removal, and one request that meets
either, or two installations against the limit; `MaxId` is 2 or 3, so that a name
can come back under another id; `MaxApps = 2` lets the limit be reached;
`MaxResources = 1` makes the quota count; in `traffic` an
installation that fails at the thread, after its module was found by a request, leaves memory the
next installation can get before that request is posted; `MaxCalls` is what makes the state space
grow most, and two calls are a registration and a message, or a message from
`on_destroy` after one from a handler.  A management queue of one place makes posts
fail, and one of two makes requests wait behind each other.  `MaxId` stays below
the wrap of the ids.  Deadlock is not checked: with the host's requests used up and
the applications waiting for messages, the system stops as it should.

In the runs of `AppRequest` time starts at 14 and the clock wraps at 16, so that
requests are older than the wrap and younger, and a timer crosses it; a time-out of
two ticks leaves one between a request and its end.  Four requests are two
generations, since the list never holds more than two (see `third_request`).  The
queue of eight places is never full.  `requests` leaves out the two ways in which
`OnTime` is known to fail, which the runs `chained_request` and `slow_timeout` show:
no request is sent by a response handler (`SendFrom`), and no time passes in a
time-out handler (`TickAt`).  With a queue of two places `OnTime` fails too, when the
queue refuses the expiry of the timer; the hazard is listed.  Deadlock is not
checked: time ends, and so does the thread when it spins.

`progress` and `integrity` hold several parts each.  The parts share no state in the
code, or what they share is in the model of each: the timer thread has its own view of
the life of a module, the store its own devices.  A variable `part` says which one a
behaviour is of, and the others keep their initial values, so the state space is the
sum of those of the parts and each property speaks of its own.  Their bounds: two of
each thing that meets (applications at a timer list, closers at a connection, frames
after one another) and one more message than a party handles at a time.  Two handles
and two descriptors let a descriptor be used again; a second frame is what a
broken first one could damage; sections of 2, 3 and 130 bytes need one and two bytes of
length; five bytes hold two key-value pairs; `MaxObjects = 2` with inner widgets makes a
tree of several levels; a clock of 16 values that starts at 6 goes over its wrap from
the greatest number to the least.  Neither checks deadlock: bounded calls end.

Fairness.  The manager thread, the threads of the applications and the deliveries
of every thread are weakly fair: each is a thread the scheduler keeps running, and
a callback of an application is assumed to return, since nothing else ends it (the
watchdog is compiled out).  The host is never obliged to ask, nor an application to
call.  `ManagementAnswered` fails without the assumption on callbacks, and for
requests that met a full queue or a module type without an interface; these are
listed as hazards.

In `progress` the timer thread and the clock of the runtime are weakly fair, and so is
the signal of each timer that was started: a thread runs on, and who started a timer
is in the middle of a call.  The sensor thread is weakly fair and its clock strongly:
the thread returns to its wait again and again, and time must not stop because it was
awake in between.  `ClientServed` assumes of its sensor that it works: strong fairness of
`ReadSensor`, so that it does not give nothing for ever.  Of the talkers only the steps of a send that has begun are fair,
and of the reading thread nothing is assumed, so that it may stay in `accept()`.  The tool
sends, goes on, and its seconds pass; the runtime need do nothing.  In `handlers` an
application goes on with the call it is in: the counterexample is a search that runs
for ever.

### Findings

- `timers_fail`: when `create_wasm_timer_ctx` fails, `wasm_app_module_install` frees
  the module and leaves it in the list, without a thread, although a comment of the
  same function makes the creation of the thread the sign of success.  Removing that
  application later works on freed memory.
- `lost_response`: `am_send_response` says that a response whose receiver is no module
  goes to the host.  The receiver may be removed between the lookup and the post;
  then the response is posted to a freed queue.
- `third_request`: the loop in `transaction_add` that looks for the tail does not
  advance, so the third outstanding request of an application hangs its thread, and
  an uninstallation that waits for that thread.
- `chained_request`: the timer is stopped before the handler of the last response
  runs; a request sent by that handler is added behind the transaction that is being
  removed, is not the first of the list, and gets no timer.  It never times out.
- `slow_timeout`: `transaction_timeout_handler` reads the clock again after it called
  the handlers; if the first remaining transaction has expired by then, the time left
  underflows and the timer is set for nearly 2^32 ms.

- `handlers`: the loop in `lv_obj_set_event_cb` (`wgl_obj.c:85`) that looks for the node
  of an object does not advance.  With a handler set for one object, the call for another
  one never returns.

### What the properties leave out

Some properties are stated with an exception, because without it the code violates
them.  Each exception is a weakness of the code:

- `TimerServed`, `NoTimerSleptThrough`: a timer started between the computation of the
  wait and the wait itself signals nobody (`timer_wrapper.c:65`).
- `CallbackModuleKept` is about the module, not about its queue, which is destroyed
  before the mutex is taken.
- `LeastIsRead`: a slower call stores an older interval over a newer one, and the cleanup
  of an application leaves the interval as it was.
- `ClientServed`: the sensor thread may follow a client that was freed; and a sensor that
  gives nothing for ever has no client called (`runtime_sensor.c:393`).
- `HostViewCurrent`: an application may publish an event named `/applets`, which nothing
  checks (`request_response.c:44`, `event.c:174`), and the manager gives up without a word
  when it has no memory for its own (`app_manager.c:36`).
- `RightRecipient`: a message for a module that was freed between the lookup and the post
  goes to a module that has its memory, whoever that is (`resource_reg.c:31` and `:52`).
- `PacketsReadBack` is about packets that were packed and then damaged.  A packet made up so
  that its lengths agree with its size only in 32 bits is taken (`restful_utils.c:111`).
- `OperationAsGiven`: `-q` is not noted as an operation, so another one may follow it and
  read its words.
- `FramesUnderstood`: a request that cannot be unpacked, a payload that cannot be
  allocated, an install refused at its last byte, and a binary that is cut or
  too long leave a receive context as it was, and the next frame is read from there.
- `NodesNameWidgets`, `CleanupReachesAll`: an asynchronous deletion leaves the nodes of
  what it deleted, and a child the list does not know keeps its parent alive.
- `ToldInTime`: `timer_cancel` takes the timer of the library out of its list, and an expiry
  posted later finds none; handlers so slow that the next request is late when they are
  done make the rest of its time negative, and the timer waits for the clock to come round
  (`request.ts:156`); a request that expires between the two passes over the list is in
  neither of the two results, and nobody is told of it (`request.ts:146`).
- `AnswerIsForAsker`: with an event on the stream, each command of the store gets the answer
  to the one before.  What a view is told may be garbled: by a device that went in the
  middle of its message, or by the rest of an answer that was given up.
- `StreamsWhole`: a message begun on one connection may end on the next one.
- `NothingLeftUp`: the gui programs on Linux initialise the runtime twice and destroy it
  once; the display of the littlevgl program, and the timers and graphics of the Zephyr
  programs, are started and have no exit.

Read in the code on the way, and outside the properties:

- the host tool puts `/event/` before the URL of an unsubscription and `/event` before
  one of a subscription that begins with a slash, so `/alert` cannot be unsubscribed; its
  usage speaks of lists of URLs, which it sends as one URL;
- in the program that registers the function `add` of a library, `module_name` stays null,
  and no such library is ever registered;
- the serial line of the simple sample is not opened again after it broke down, and a baud
  rate it does not know is used as -1;
- `display_SDL_init` waits for ever when its thread cannot be created; `monitor_map` skips the
  wrong colours when an area begins left of the screen or above it; the mouse handler
  says that the button is down before it stores where;
- the gui sample registers the symbols of a library twice (`iwasm_main.c:210`) and writes
  behind the end of `argv` when its options were all taken (`:871`);
- an install that cannot be posted leaks its sections, which a comment says were
  destroyed (`module_wasm_app.c:1345`); the receive contexts are not reset when the host
  connects again;
- the flag of a constant container is not looked at by its setters; a second upload of a
  name overwrites the file; in client mode SIGPIPE ends the runtime; the reading thread
  of the samples starts before the application manager; several functions of
  `wgl_label.c` have no native counterpart.

## 4. What is proved

Every theorem holds for all values of the constants, under the named assumptions of
the modules (that bounds are numbers, that marks like `NoApp` are no applications) and
the hypotheses given here.  No theorem depends on the size of an instance.

**The core** (`AppManagerProofs`, `AppManagerAnswers`)

- `TypeCorrect`: `Spec => []TypeOK`.  `TypeOK` alone is not inductive: the manager's
  current request must be one that was asked, with a name where it needs one, and
  every module of the list must have a name.  `TypeInv` adds that (`ServingOK`).
- `FreedAlwaysGone`: `Spec => []FreedIsGone`.  The inductive invariant `LifeInv` adds
  that an id not yet given is in no registry and has no thread (`FreshIsNowhere`),
  that a module being installed has none either (`InstallingIsNew`), and that the
  thread of a module being removed has ended once it was joined, its resources are
  gone once these were cleaned up, and then its subscriptions (`RemovingIsEnded`).
  The argument is the order of the steps of an uninstallation: registrations are made
  by the thread of their owner only, so cleaning up after the join is final.
- `NeverReturns`: `Spec => NoReturn`, from the same invariant.
- `LimitKept`: `Spec => []WithinLimit`.  `AcceptedIsFree` adds what `BeginInstall`
  checked and the steps up to `AddModule` rely upon: while an installation is being
  built there is room in the list and its name is not there.  It holds because only the
  manager's own thread adds modules, and it is serving this request.  After a failure
  at the timers it relies on the assumption about freed modules above.
- `HostViewKept`: `Spec => []HostViewCurrent`, assuming that `"timers"` is not among
  the failures.  With it the property is false for the reason `timers_fail` shows: the
  failed module stays and is never announced.  The two exceptions of the property are in
  `hostView`, which is forgotten when an application publishes an event of that name or the
  manager could not send its own.  `HostViewFollows` says what the last
  event was in each state of the manager: the list, or the list without the change
  that is about to be announced.
- `NeverAnsweredTwice`: `Spec => []AnsweredOnce`.  `OnceInv` says where the one right to
  answer a request is: with the queue of the manager, with the manager, in a delivery
  on its way, in the queue of one application or in the hands of its thread, and in one
  of these places only; a request nobody has asked yet is nowhere.
- `AlwaysRightRecipient`: `Spec => []RightRecipient`, from `RecipientInv`: what is in the
  queue of a module was addressed to the name of that module, or of a freed one that had
  its memory (`HeldBy`, `StandsFor`), and what was looked up has the name it was looked up by.
  It rests on `MemoryInv`: two modules that were not freed never have the same memory, so
  that a message can go astray through the post to a freed module only.
- `ImplementsService`: `Spec => ServiceSpec`, step by step.  `ServiceInv` (over `WorkInv`)
  relates the request the manager serves to the applications that are running, so that
  the steps of an installation or a removal are one step of the service and stutters.

The proofs of the core do not open every action for every conjunct.  A *writer* lemma says, for
each group of variables, which actions change it; a conjunct is then preserved by
all other actions at once.

**The request library** (`AppRequestProofs`)

- `HandledAtMostOnce`: `Spec => []HandledOnce`.  In `OwnInv` a request that was sent and
  has no outcome belongs to the list, to the list of the expired ones, or to the handler
  that runs, and to one of them only (`ListOwns`, `ExpiredOwns`), and a request not yet
  sent has no outcome (`UnsentOpen`).
- `RequestTypes`: `Spec => []TypeOK`; there is a timer for each request at most, which is
  why the ids of timers stay in their range.
- `TimeoutNeverEarly`: `Spec => NeverEarly`, over any number of wraps.  `AgeInv` says that
  the time in the list is the wrapped time of sending; a difference of readings is then
  the age or less, never more, so what the code takes for expired is.
- `TimeoutsOnTime`: `Spec /\ []ClockSuffices => []OnTime`, if no response handler sends
  (`"response" \notin SendFrom`), no time passes in a time-out handler
  (`"timeout" \notin TickAt`) and the queue has two places for each request.  The first
  two exclude the failures that `chained_request` and `slow_timeout` show.  The third is
  what `RoomInv` needs: it counts what is queued and what is still to come, so that the
  expiry is never refused.  `ClockSuffices` says that no request stays in the list for
  a whole turn of the clock, 49 days in the code: after one its age reads as a young
  one.  Both bind the environment alone, and the run `requests` has states that meet
  them.  `WatchInv` says that there is one timer, that the list is in the order of
  sending, and in each place of the thread which transaction the timer is set for.
- `AsTimeOutsInTime`: `AsSpec => []ToldInTime`, for the library of AssemblyScript, if the
  run is shorter than one turn of the clock (`MaxClock - AsBegin < AsWrap`, 49 days in the
  code), whose wrap it may cross anywhere.  The clock goes on during the two passes over the
  list and the handlers.  A timer restarted for a negative time, after slow handlers, is
  the exception the property makes; a request that waited for a whole turn would
  read as a fresh one, and the code has nothing against that.  `AsTells` says that a handler
  that was told is of a request that is in neither list, `AsAnswers` that an answer comes
  once and to a request that was sent, and `AsWatched`, between two messages, that the timer is
  set for the first transaction, or for the second while the first is an answered one,
  or that its message is in the queue.  An answer that stays in the list is why there
  are these two cases.

**Threads that wait** (`ThreadProofs`)

- `TimerTypeCorrect`: `TimerSpec => []TimerTypeOK`.
- `ModuleOutlivesCallback`: `TimerSpec => []CallbackModuleKept`.  `WalkInv`: what the walk
  found or has yet to see is in the list of contexts while the mutex is held, and a
  context in the list is of a module that was not freed.
- `SleepsOnlyWithoutTimers`: `TimerSpec => []NoTimerSleptThrough`.  `SleepInv`: as long as
  the walk found no timer that runs, each context it has passed has none, or a signal for
  it is on the way, was given, or was lost in the window (`unheard`).
- `SensorReadsAtLeast`: `SensorSpec => []LeastIsRead`.  `LeastIsComing`: an interval that
  is not the least is being refreshed, or one of the two listed slips happened;
  `FreshIsLeast` says that a value about to be stored is the least unless the list
  changed since it was computed.

**Connections** (`ThreadProofs`).  `ConnInv` proves `NodesCloseOnce`,
`DescriptorsAreOwned` and `HandlersHearTheirPeer`.  `KnownInv`: who knows a node knows
one that was added, and an application only its own; `OpeningInv`: a node that is being
opened is known to its opener only; `OneCloser` is inductive with these, for unlinking
is done under the lock and whoever did it closes and frees; `SocketInv`: each node that
is not freed has its own socket from the call that made it to the one that closes it,
which is why a reused descriptor is nobody else's; `HeardInv`: a node the library still
has was unlinked by the polling thread at most, which is still at it.

**The host's side** (`HostProofs`)

- `MessagesStayWhole`: `SessionSpec => []StreamsWhole`.  `LocksHeld` says who holds
  `host_lock` and `sock_lock` at each place, `Descriptor` what `sockfd` is while the
  reading thread changes it, and `StreamEnd` that a stream ends with a payload or with
  the the header of the message whose payload the holder of `host_lock` writes next.  It
  covers the serial line, where `host_lock` alone keeps the messages apart.
- `ToolSendsAsGiven`: `ToolSpec => []OperationAsGiven`.  `CommandInv`: until an option names
  the operation it is an install without words, and then every word was written by an
  option of its own operation; without `-q`, as the property says.
- `ToolReportsOwnStatus`: `ToolSpec => []StatusIsOwn`.  `StatusInv` follows the response
  from the runtime through the parts on the connection and the receive context.

**The samples** (`SampleProofs`)

- `StartIsUndone`: `MainSpec => []NothingLeftUp`; `StartInv` says how often each part is up
  at every place of each of the six programs, `LibraryInv` that an open library is in the
  list.
- `NoDrawingLost`: `DisplaySpec => []DrawnIsShown`.  `DisplayInv` says of each pixel where it can
  differ from the next stage: while a drawing that has not raised the flag yet wrote it,
  while the flag is up, or while the copy has not reached it; the flag goes down
  before the copy, so nothing that was complete then is missed.
- `NodesAreWidgets`: `GuiSpec => []NodesNameWidgets`, and `CleanupsReachAll`:
  `GuiSpec => []CleanupReachesAll`, from one invariant.  `TreesOwned`: an application knows
  widgets nobody else knows, and a widget it knows is in one it knows, so that what one
  application deletes is not in the list for another; `HalfwayForgotten`: in the middle of
  a deletion the list has nothing any more of what is about to go.  That everything below
  a widget is reached is proved of the closed sets `Above` is defined with.
- `UploadsStayOffered`: `CatalogueSpec => []UploadedIsOffered`.  `NamesInv`: a name is
  uploaded once, so that what a removal takes out of one list it takes out of the others.
- `AnswersReachTheirAsker`: `StoreSpec => []AnswerIsForAsker`.  `WireInv`: until a device
  publishes, what is on its wire is the command the server waits for or the answer to it,
  behind the rest of one message at most that was given up; `ReadingInv`: the command is
  the one of the view the server reads for.  So also what is garbled is what is left of the
  view's own answer, cut by the end of the device or behind the rest of an earlier one.

**The codecs** (`CodecProofs`), for strings of any length

- `PacketsSurvive`: `RestfulSpec => []PacketsReadBack`, if the samples are requests and
  responses whose fields fit into the packet (`Request`, `Response`): bytes, 16 and 32
  bits, a URL without a 0 in it whose length fits into 16 bits, and a packet whose size
  is an `int`.  The argument follows the packet from front to back: `FrontParts` and
  `BackParts` say which bytes are at which offset, `TwoBytes` and `FourBytes` that a
  number is read back from its bytes, and `LengthsKept` that cutting a packet or making it
  longer leaves the lengths in it as they are, so that the size no longer agrees.  Another
  byte in a length changes the sum by less than 2^32, so the sizes do not agree in 32 bits
  either; another version is refused at once.
- `UrlsAreMatched`: `RestfulSpec => []UrlsMatchAsDocumented`.  `StartMatches` and `MatchIs`
  compare the two helpers with what their comments list, case by case of the slashes
  and the asterisk; `HandlerIs` does so for the list of handlers of the C library and
  for the one of the AssemblyScript library.
- `FirstKeyIsFound`: `RestfulSpec => []KeyFoundIsFirst`.  The loops of `find_key_value` are
  functions of the place they are at.  For each there is a closed form (`StopAt`,
  `FoundFrom`) that has the same equation, and what has that equation is the closed form,
  from the end of the buffer to its front (`DownFrom`).  `SkipBegins` and `NextBegins` say
  which pieces are left behind a place, `ValueIs` where the value ends.
- `ContainerImplementsMap`: `AttrSpec => ContainerIsMap`, if `Nothing` is neither a value
  nor a container (`NothingIsNull`).  The refinement needs `HoldsEachOnce`: no key is in
  the list twice, as `FindAttr` finds the first place only.  `Stores` says what a call
  that returns true leaves in the list, wherever the attribute was and wherever it is
  now; `SetStores` shows it of the three ways to store one, `SetPuts` that this is one
  step of the map.  Each step implements one step of `KeyValueMap` or a stutter.

**The link** (also in `CodecProofs`, whose lemmas about bytes it needs)

- `InstallsAnsweredOnce`: `LinkSpec => []OneAnswerPerInstall`, for frames of any length that
  hold the two leading bytes at their beginning only (`LeadingsLead`; a payload that holds
  them too can look like an install to a receiver that lost its place, for the link has no
  escape; of the fifteen frames of the run all but one satisfy it, which `SamplesLead` of
  `MCIntegrity` says).  `LinkInv`: the type of a frame is read at its third byte, and no
  answer was given to that frame before (`Unspent`); the type an abandoned message leaves in the
  context with its counter is not that of an install, swapped or not (`KnownType`), so that an
  install is received only while one is owed an answer (`Owed`); `ByteTaken` says of the
  seventeen phases of the receiver that an error ends the message and that a file is
  posted at its last byte only.

Only model-checked:

- `ManagementAnswered`, `TimerServed`, `ClientServed`, `SendReturns` and `ToolEnds`: liveness
  under fairness is beyond the prover.
- `FramesUnderstood` of `HostLink`: that the receiver finds in a binary the sections it was
  made of is an induction over the fold that puts them together.

Where a proof needs an induction over numbers, it takes the least or the greatest number for
which the claim fails (`LeastElement` of `SequenceLemmas`), since the induction theorems of
the library take an operator.

## 5. Plan

Done: the core and its abstract service, the request libraries, the threads that wait,
the link and its connection, connections, codecs, widgets, the host tool, the store and
the samples; and the theorems above.

Next:

1. `FramesUnderstood` for any list of frames, once `FileBytes` is a recursive function: at
   which byte of which section the receiver is, as a strengthening of the invariant.

Open in the model: the unlocked registries as linked lists walked in steps; the wrap of
module ids and of handles.

## 6. What is not modelled

The Jeff module type and the BLE messages drive a machine whose headers are not in the
repository; they are under `ENABLE_JEFF`, which no build file sets, and do not compile.
The watchdog is compiled out.  How LVGL draws a widget, the displays of the Zephyr
programs, the mouse and the baud rates are drivers.  The widgets that only have headers have no code.  `attr_container_dump`
and the logging print.  The WASI directory of an application is file names.  The
contents of the pages of the store, the small example applications and the SDK scripts
hold no state of the system.
The WebAssembly runtime itself is external: it appears as loading that succeeds or
fails, as callbacks, and as the timers and queues its library offers; so are the
kernel's sockets and LVGL's tree.
