------------------------------ MODULE AppStore ------------------------------
(***************************************************************************)
(* The application store of the IoT demonstration                          *)
(* (test-tools/IoT-APP-Store-Demo/wasm_django): the server the devices     *)
(* connect to (server/wasm_server.py) and the web views that command it    *)
(* (devices/views.py); AppCatalogue is their catalogue.                    *)
(*                                                                         *)
(* The server is one thread over select.  For a command it writes to a     *)
(* device and blocks until it has read one message, whatever message that  *)
(* is; it looks at the time only behind a byte.  An exception of Python    *)
(* that is not an OSError ends the thread.                                 *)
(***************************************************************************)
EXTENDS Naturals, Sequences, SequencesExt

CONSTANTS
  Device,       \* connections of devices, each made once
  View,         \* web views that may be running
  ViewOp,       \* what they may ask of one device: "query", "install", "uninstall"
  MaxCommands,  \* bound: commands to the devices, the query of a new one included
  MaxNews       \* bound: events the devices publish

ASSUME StoreAssumption ==
  /\ MaxCommands \in Nat /\ MaxNews \in Nat
  /\ ViewOp \subseteq {"query", "install", "uninstall"}
  /\ "accept" \notin View

VARIABLES
  link,      \* of each device: "absent", "knocking", "open", "hung up" or "closed"
  toDevice,  \* the commands it has not answered, oldest first
  fromDevice,\* the messages the server has not read, oldest first
  devices,   \* the list devices
  connDict,  \* conn_dict: it never shrinks
  commands,  \* history: what was asked of whom
  news,      \* how many events were published
  server,    \* what the thread does
  view,      \* where each web view is, and what it asked
  outcome    \* what a view was told, or will be

wireVars     == <<link, toDevice, fromDevice, news>>
storeVars    == <<wireVars, devices, connDict, commands, server, view, outcome>>

Selecting == [at |-> "select", on |-> "", for |-> "", all |-> 0]
ThreadEnded      == [Selecting EXCEPT !.at = "dead"]
Event     == 0
NoOutcome  == [kind |-> "none", of |-> 0, behind |-> 0]
Told(kind, id) == [kind |-> kind, of |-> id, behind |-> 0]
ToldBehind(id, rest) == [kind |-> "garbage", of |-> id, behind |-> rest]

StoreInit ==
  /\ link = [d \in Device |-> "absent"]
  /\ toDevice = [d \in Device |-> <<>>] /\ fromDevice = [d \in Device |-> <<>>]
  /\ devices = <<>> /\ connDict = {} /\ commands = <<>> /\ news = 0
  /\ server = Selecting
  /\ view = [v \in View |-> [at |-> "idle", op |-> "", on |-> ""]]
  /\ outcome = [v \in View |-> NoOutcome]

-----------------------------------------------------------------------------
(* The devices.                                                            *)

DeviceFrame == UNCHANGED <<devices, connDict, commands, server, view, outcome>>

DeviceConnects(d) ==
  /\ link[d] = "absent" /\ link' = [link EXCEPT ![d] = "knocking"]
  /\ UNCHANGED <<toDevice, fromDevice, news>> /\ DeviceFrame

DeviceAnswers(d) ==
  /\ link[d] = "open" /\ toDevice[d] # <<>>
  /\ toDevice' = [toDevice EXCEPT ![d] = Tail(@)]
  /\ fromDevice' = [fromDevice EXCEPT ![d] =
                      Append(@, [of |-> Head(toDevice[d]), is |-> "whole"])]
  /\ UNCHANGED <<link, news>> /\ DeviceFrame

\* An application of the device publishes an event the host subscribed to.
DevicePublishes(d) ==
  /\ link[d] = "open" /\ news < MaxNews /\ news' = news + 1
  /\ fromDevice' = [fromDevice EXCEPT ![d] = Append(@, [of |-> Event, is |-> "whole"])]
  /\ UNCHANGED <<link, toDevice>> /\ DeviceFrame

\* A device goes, perhaps in the middle of an answer.
DeviceHangsUp(d, cut) ==
  /\ link[d] = "open" /\ link' = [link EXCEPT ![d] = "hung up"]
  /\ cut => toDevice[d] # <<>>
  /\ fromDevice' = IF cut THEN [fromDevice EXCEPT ![d] =
                       Append(@, [of |-> Head(toDevice[d]), is |-> "start"])]
                   ELSE fromDevice
  /\ toDevice' = [toDevice EXCEPT ![d] = <<>>]
  /\ UNCHANGED news /\ DeviceFrame

-----------------------------------------------------------------------------
(* Commands.                                                               *)

Op(id)       == commands[id].op
Unlisted(d)  == RemoveFirst(devices, d)
MayCommand   == Len(commands) < MaxCommands

\* Request.send writes the request, and query, install or uninstall starts to read.
\* For all, the position in the list of devices is kept.
SendTo(d, op, for, all) ==
  /\ link[d] \in {"open", "hung up", "knocking"}
  /\ commands' = Append(commands, [op |-> op, on |-> d])
  /\ toDevice' = [toDevice EXCEPT ![d] =
       IF link[d] = "hung up" THEN @ ELSE Append(@, Len(commands'))]
  /\ server' = [at |-> "read", on |-> d, for |-> for, all |-> all]
  /\ UNCHANGED <<fromDevice, news, connDict>>

\* The socket is closed, or its peer is gone: the device leaves the list.
CannotSend(d) ==
  /\ link[d] \in {"hung up", "closed"}
  /\ devices' = Unlisted(d)

\* handler_recever accepts a device and queries it.
AcceptDevice(d) ==
  /\ server.at = "select" /\ link[d] = "knocking" /\ MayCommand
  /\ SendTo(d, "query", "accept", 0)
  /\ link' = [link EXCEPT ![d] = "open"]
  /\ UNCHANGED <<devices, view, outcome>>

\* A command of a view for one device.
Command(v) ==
  /\ server.at = "select" /\ view[v].at = "asked" /\ view[v].op # "query all" /\ MayCommand
  /\ view[v].on \in connDict
  /\ SendTo(view[v].on, view[v].op, v, 0)
  /\ view' = [view EXCEPT ![v].at = "served"]
  /\ UNCHANGED <<link, devices, outcome>>

Queue(v, what) ==
  /\ outcome' = [outcome EXCEPT ![v] = what]
  /\ view' = [view EXCEPT ![v].at = IF @ = "left" THEN @ ELSE "queued"]

CommandFails(v) ==
  /\ server.at = "select" /\ view[v].at = "asked" /\ view[v].op # "query all"
  /\ CannotSend(view[v].on) /\ view[v].on \in connDict
  /\ Queue(v, Told("fail", 0))
  /\ UNCHANGED <<wireVars, connDict, commands, server>>

\* A device that never connected: a query is told to fail, and for the rest there is
\* no answer at all.
CommandUnknown(v) ==
  /\ server.at = "select" /\ view[v].at = "asked" /\ view[v].op # "query all"
  /\ view[v].on \notin connDict
  /\ IF view[v].op = "query" THEN Queue(v, Told("fail", 0))
     ELSE view' = [view EXCEPT ![v].at = "forgotten"] /\ UNCHANGED outcome
  /\ UNCHANGED <<wireVars, devices, connDict, commands, server>>

StartAll(v) ==
  /\ server.at = "select" /\ view[v].at \in {"asked", "left"} /\ view[v].op = "query all"
  /\ outcome[v] = NoOutcome
  /\ server' = [at |-> "all", on |-> "", for |-> v, all |-> 1]
  /\ outcome' = [outcome EXCEPT ![v] = Told("list", 0)]
  /\ view' = [view EXCEPT ![v].at = IF @ = "left" THEN @ ELSE "served"]
  /\ UNCHANGED <<wireVars, devices, connDict, commands>>

\* The next device of the list, which a failure has made shorter.
NextOfAll ==
  /\ server.at = "all" /\ server.all <= Len(devices) /\ MayCommand
  /\ SendTo(devices[server.all], "query", server.for, server.all)
  /\ UNCHANGED <<link, devices, view, outcome>>

NextOfAllFails ==
  /\ server.at = "all" /\ server.all <= Len(devices)
  /\ CannotSend(devices[server.all])
  /\ server' = [server EXCEPT !.all = @ + 1]
  /\ UNCHANGED <<wireVars, connDict, commands, view, outcome>>

EndOfAll ==
  /\ server.at = "all" /\ server.all > Len(devices)
  /\ Queue(server.for, outcome[server.for])
  /\ server' = Selecting
  /\ UNCHANGED <<wireVars, devices, connDict, commands>>

\* What follows the result of a command: a new device is listed, the next one is
\* queried, or the view is answered. Of a list only an item that is not what was
\* asked for is kept.
Resume(result) ==
  IF server.for = "accept"
  THEN /\ IF result.kind = "fail" THEN UNCHANGED <<devices, connDict>>
          ELSE /\ devices' = Append(devices, server.on)
               /\ connDict' = connDict \cup {server.on}
       /\ server' = Selecting /\ UNCHANGED <<view, outcome>>
  ELSE IF server.all > 0
  THEN /\ server' = [server EXCEPT !.at = "all", !.all = @ + 1]
       /\ outcome' = [outcome EXCEPT ![server.for] = IF result.kind # "fail"
                        /\ result.of # Len(commands) THEN result ELSE @]
       /\ UNCHANGED <<view, devices, connDict>>
  ELSE /\ Queue(server.for, result) /\ server' = Selecting
       /\ UNCHANGED <<devices, connDict>>

Dies == server' = ThreadEnded /\ UNCHANGED <<view, outcome, devices, connDict>>
Current == Len(commands)
ReadFrame == UNCHANGED <<link, toDevice, news, commands>>

\* One message, and what the caller makes of it: an event is no attribute container,
\* and the bare success of another command may be none.
ReadMessage ==
  /\ server.at = "read"
  /\ fromDevice[server.on] # <<>> /\ Head(fromDevice[server.on]).is = "whole"
  /\ fromDevice' = [fromDevice EXCEPT ![server.on] = Tail(@)]
  /\ LET of == Head(fromDevice[server.on]).of
     IN IF of = Event THEN Dies
        ELSE \/ Resume(Told("reply", of))
             \/ Op(of) \notin {"query", Op(Current)} /\ Dies
  /\ ReadFrame

\* A message without its end, whose missing bytes are read as empty ones, or the rest
\* of one that was given up with another one behind it: it is no container, or one
\* with anything in it.
ReadGarbled ==
  /\ server.at = "read" /\ fromDevice[server.on] # <<>>
  /\ LET from == fromDevice[server.on]
     IN \/ /\ Head(from).is = "start"
           /\ fromDevice' = [fromDevice EXCEPT ![server.on] = Tail(@)]
           /\ Dies \/ Resume(Told("garbage", Head(from).of))
        \/ /\ Head(from).is = "rest" /\ Len(from) > 1
           /\ fromDevice' = [fromDevice EXCEPT ![server.on] = Tail(Tail(@))]
           /\ Dies \/ Resume(ToldBehind(from[2].of, Head(from).of))
  /\ ReadFrame

\* The device is gone: recv gives nothing, or nothing but the rest of a message,
\* until five seconds have passed. A reset instead leaves install and uninstall
\* without a message to look at.
ReadClosed ==
  /\ server.at = "read" /\ link[server.on] = "hung up"
  /\ \A i \in 1 .. Len(fromDevice[server.on]) : i = 1 /\ fromDevice[server.on][i].is = "rest"
  /\ fromDevice' = [fromDevice EXCEPT ![server.on] = <<>>]
  /\ \/ Resume(Told("fail", 0))
     \/ Op(Current) # "query" /\ Dies
  /\ ReadFrame

\* Variant: a device that says nothing for five seconds is given up.
ReadGivenUpEarly ==
  /\ server.at = "read"
  /\ Resume(Told("fail", 0))
  /\ ReadFrame /\ UNCHANGED fromDevice

\* Five seconds are over and the message has not come to its end.
ReadGivenUp ==
  /\ server.at = "read"
  /\ fromDevice[server.on] # <<>> /\ Head(fromDevice[server.on]).is = "whole"
  /\ fromDevice' = [fromDevice EXCEPT ![server.on] =
                      <<[Head(@) EXCEPT !.is = "rest"]>> \o Tail(@)]
  /\ Resume(Told("fail", 0))
  /\ ReadFrame

\* select finds something from a device nobody asked now: what there is is read and
\* passed over, unless it is no text.
PassOver(d) ==
  /\ server.at = "select" /\ link[d] \in {"open", "hung up"} /\ fromDevice[d] # <<>>
  /\ fromDevice' = [fromDevice EXCEPT ![d] = <<>>]
  /\ server' \in {Selecting, ThreadEnded}
  /\ UNCHANGED <<link, toDevice, news, devices, connDict, commands, view, outcome>>

\* The end of a device: it leaves the lists, but not conn_dict.
DropDevice(d) ==
  /\ server.at = "select" /\ link[d] = "hung up" /\ fromDevice[d] = <<>>
  /\ link' = [link EXCEPT ![d] = "closed"] /\ devices' = Unlisted(d)
  /\ UNCHANGED <<toDevice, fromDevice, news, connDict, commands, server, view, outcome>>

-----------------------------------------------------------------------------
(* The views.                                                              *)

ViewFrame == UNCHANGED <<wireVars, devices, connDict, commands, server>>

\* index asks for all devices; apps, appDownload and appDelete for one.
AskFor(v, op, d) ==
  /\ view[v].at = "idle"
  /\ view' = [view EXCEPT ![v] = [at |-> "asked", op |-> op, on |-> d]]
  /\ outcome' = [outcome EXCEPT ![v] = NoOutcome]
  /\ ViewFrame

\* handler_send
TellView(v) ==
  /\ server.at = "select" /\ view[v].at = "queued"
  /\ view' = [view EXCEPT ![v].at = "told"] /\ UNCHANGED outcome /\ ViewFrame

\* index waits for ten seconds.
GiveUp(v) ==
  /\ view[v].at \in {"asked", "served", "queued"} /\ view[v].op = "query all"
  /\ view' = [view EXCEPT ![v].at = "left"] /\ UNCHANGED outcome /\ ViewFrame

\* The view has closed its socket and the server sees it.
DropView(v) ==
  /\ server.at = "select"
  /\ view[v].at = "told" \/ (view[v].at = "left" /\ outcome[v] # NoOutcome)
  /\ view' = [view EXCEPT ![v] = [at |-> "idle", op |-> "", on |-> ""]]
  /\ outcome' = [outcome EXCEPT ![v] = NoOutcome] /\ ViewFrame

ServerStep ==
  \/ NextOfAll \/ NextOfAllFails \/ EndOfAll
  \/ ReadMessage \/ ReadGarbled \/ ReadClosed \/ ReadGivenUp
  \/ \E d \in Device : AcceptDevice(d) \/ PassOver(d) \/ DropDevice(d)
  \/ \E v \in View : \/ Command(v) \/ CommandFails(v) \/ CommandUnknown(v)
                     \/ StartAll(v) \/ TellView(v) \/ DropView(v)

StoreNext ==
  \/ ServerStep
  \/ \E d \in Device : \/ DeviceConnects(d) \/ DeviceAnswers(d)
                       \/ DevicePublishes(d) \/ \E cut \in BOOLEAN : DeviceHangsUp(d, cut)
  \/ \E v \in View, op \in ViewOp, d \in Device : AskFor(v, op, d)
  \/ \E v \in View : AskFor(v, "query all", "")
  \/ \E v \in View : GiveUp(v)

StoreSpec == StoreInit /\ [][StoreNext]_storeVars

-----------------------------------------------------------------------------
\* As long as no device publishes, whatever comes back from a device and is told to a
\* view, whole or garbled, is the answer of that device to what the view asked, though
\* devices answer late, hang up and leave half of a message behind. It is garbled only
\* if the device is gone and left out the end, or if the rest of the answer to an
\* earlier command of the same device, which was given up, comes before it. Behind an
\* event and a late answer the server gives each command the answer to the one before.
AnswerIsForAsker ==
  \A v \in View :
    LET o == outcome[v]
        d == view[v].on
    IN news = 0 /\ o.kind \in {"reply", "garbage"} =>
         /\ commands[o.of].op = view[v].op /\ commands[o.of].on = d
         /\ o.kind = "garbage" =>
              \/ link[d] \in {"hung up", "closed"}
              \/ o.behind \in 1 .. o.of - 1 /\ commands[o.behind].on = d
=============================================================================
