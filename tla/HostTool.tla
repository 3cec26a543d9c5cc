---- MODULE HostTool ----
(***************************************************************************)
(* The host tool: one command line, one request to the runtime, and the    *)
(* wait for its response and for events                                    *)
(* (test-tools/host-tool/src/main.c and transport.c).                      *)
(*                                                                         *)
(* A message from the runtime comes in two parts, its beginning and its    *)
(* rest, and one read returns any number of parts. Seconds pass on their   *)
(* own. The runtime answers the request at most once; it may also send     *)
(* events and late responses to earlier tools, and close the connection.   *)
(***************************************************************************)
EXTENDS Integers, Sequences

CONSTANTS
  ToolTimeout,  \* g_timeout_ms, in the ticks of the model
  AliveTime,    \* g_alive_time_ms
  MaxResend,    \* writes repeated when the buffer is full, 10 in the code
  MaxEvents,    \* messages besides the response, a bound of the model
  MaxLosses,    \* how often the runtime closes the connection, a bound
  NoneGiven     \* NULL

ASSUME ToolAssumption ==
  /\ ToolTimeout \in Nat \ {0} /\ AliveTime \in Nat
  /\ MaxResend \in Nat /\ MaxEvents \in Nat /\ MaxLosses \in Nat

VARIABLES
  stage,      \* where main() is
  op,         \* the operation: its type and the words of the info union
  parsedOp,   \* operation_parsed of parse_args
  queried,    \* an option -q came before that of the operation
  resends,    \* writes repeated for the part being sent
  inFlight,   \* parts of messages on the connection, not yet read
  hangup,     \* the runtime closed the connection behind them
  partialMsg, \* the receive context: a message whose beginning was read, or none
  isResponsed,
  waited,     \* total_elpased_ms, in ticks
  exitCode,   \* ret
  answered,   \* the runtime has answered
  extras,     \* other messages sent by the runtime
  losses      \* connections closed by the runtime

toolVars == <<stage, op, parsedOp, queried, resends, inFlight, hangup, partialMsg,
              isResponsed, waited, exitCode, answered, extras, losses>>

netVars  == <<inFlight, hangup, answered, extras, losses>>
waitVars == <<partialMsg, isResponsed, waited>>

TimeoutExit == 2
OwnStatus   == 69    \* the status of the response to this tool's request
LateStatus  == 65    \* that of a response to another one

ToolInit ==
  /\ stage = "parsing"
  /\ op = [type |-> "INSTALL", word |-> [i \in 1..3 |-> NoneGiven]]
  /\ parsedOp = FALSE /\ queried = FALSE
  /\ resends = 0
  /\ inFlight = <<>> /\ hangup = FALSE /\ partialMsg = NoneGiven
  /\ isResponsed = FALSE /\ waited = 0 /\ exitCode = -1
  /\ answered = FALSE /\ extras = 0 /\ losses = 0

(***************************************************************************)
(* parse_args. The infos of the operations are a union: the first word is  *)
(* the file, name or url, the second the name of an install, the type of   *)
(* an uninstall and the action of a request, the third the type of an      *)
(* install or the payload file. A word holds the option that wrote it.     *)
(***************************************************************************)
Operations == {"INSTALL", "UNINSTALL", "QUERY", "REQUEST", "REGISTER", "UNREGISTER"}

\* The word an option of its operation writes.
OperationWord == [o \in Operations |-> IF o = "INSTALL" THEN 2 ELSE 1]

\* The options that belong to an operation and are refused for another.
Attribute ==
  { [option |-> "file",    of |-> "INSTALL", word |-> 1],
    [option |-> "action",  of |-> "REQUEST", word |-> 2],
    [option |-> "payload", of |-> "REQUEST", word |-> 3] }

Parsing == stage = "parsing" /\ UNCHANGED <<resends, netVars, waitVars>>

Reject == stage' = "ended" /\ exitCode' = -1

\* Variant: the operation may be given again.
OperationOptionAgain(o) ==
  /\ Parsing
  /\ op' = [type |-> o, word |-> [op.word EXCEPT ![OperationWord[o]] = o]]
  /\ parsedOp' = (parsedOp \/ o # "QUERY")
  /\ queried' = (queried \/ o = "QUERY")
  /\ UNCHANGED <<stage, exitCode>>

\* CHECK_DUPLICATE_OPERATION, then the type and its word. A query is not noted as
\* an operation.
OperationOption(o) ==
  /\ Parsing
  /\ \/ /\ parsedOp
        /\ Reject
        /\ UNCHANGED <<op, parsedOp, queried>>
     \/ /\ ~parsedOp
        /\ op' = [type |-> o, word |-> [op.word EXCEPT ![OperationWord[o]] = o]]
        /\ parsedOp' = (o # "QUERY")
        /\ queried' = (queried \/ o = "QUERY")
        /\ UNCHANGED <<stage, exitCode>>

\* CHECK_ARGS_UNMATCH_OPERATION
AttributeOption(a) ==
  /\ Parsing
  /\ IF parsedOp /\ op.type = a.of
     THEN op' = [op EXCEPT !.word[a.word] = a.option] /\ UNCHANGED <<stage, exitCode>>
     ELSE Reject /\ UNCHANGED op
  /\ UNCHANGED <<parsedOp, queried>>

\* --type, for an install or an uninstall, parsed or not, else ignored.
TypeOption ==
  /\ Parsing
  /\ op' = CASE op.type = "INSTALL"   -> [op EXCEPT !.word[3] = "type"]
             [] op.type = "UNINSTALL" -> [op EXCEPT !.word[2] = "type"]
             [] OTHER -> op
  /\ UNCHANGED <<stage, exitCode, parsedOp, queried>>

\* -h, an option that is not known, a second one for the connection.
UsageOption ==
  /\ Parsing
  /\ Reject
  /\ UNCHANGED <<op, parsedOp, queried>>

\* What is mandatory for the operation.
Complete(o) ==
  CASE o.type = "INSTALL" -> o.word[1] # NoneGiven /\ o.word[2] # NoneGiven
    [] o.type = "QUERY"   -> TRUE
    [] o.type = "REQUEST" -> o.word[1] # NoneGiven /\ o.word[2] # NoneGiven
    [] OTHER -> o.word[1] # NoneGiven

\* tcp_init: connected, or the socket is closed again.
TcpInit(connected, refused) == connected \/ refused

\* uart_init: the line takes the settings and drops what came in before, or it is closed
\* again. Nothing is in flight when a connection is made.
UartInit(connected, refused) == connected \/ refused

\* init(), over one or the other: what follows makes no difference between them.
Connects(connected, refused) ==
  TcpInit(connected, refused) \/ UartInit(connected, refused)

\* The end of the options, and init(): the connection is made or the tool ends.
ParseEnd ==
  /\ Parsing
  /\ IF Complete(op)
     THEN Connects(stage' = "leading" /\ UNCHANGED exitCode, Reject)
     ELSE Reject
  /\ UNCHANGED <<op, parsedOp, queried>>

(***************************************************************************)
(* send_request: four parts. Each is repeated while the buffer is full.    *)
(***************************************************************************)
AfterPart == [leading |-> "type", type |-> "length", length |-> "payload", payload |-> "check"]

Sending == /\ stage \in DOMAIN AfterPart
           /\ UNCHANGED <<op, parsedOp, queried, netVars, waitVars>>

SendPart ==
  /\ Sending
  /\ stage' = AfterPart[stage]
  /\ resends' = 0
  /\ exitCode' = IF stage = "payload" THEN 0 ELSE exitCode

\* EAGAIN, a second later again, or the tool gives up.
SendAgain ==
  /\ Sending
  /\ IF resends = MaxResend THEN Reject /\ UNCHANGED resends
     ELSE resends' = resends + 1 /\ UNCHANGED <<stage, exitCode>>

\* The write fails otherwise, or a file that the request needs cannot be read.
SendFails ==
  /\ Sending
  /\ Reject
  /\ UNCHANGED resends

(***************************************************************************)
(* The loop of main: the time is checked, then the connection is read.     *)
(***************************************************************************)
Fixed == UNCHANGED <<op, parsedOp, queried, resends>>

CheckTime ==
  /\ stage = "check"
  /\ IF ~isResponsed /\ waited >= ToolTimeout
     THEN stage' = "ended" /\ exitCode' = TimeoutExit
     ELSE IF isResponsed /\ waited >= AliveTime
     THEN stage' = "ended" /\ UNCHANGED exitCode
     ELSE stage' = "select" /\ UNCHANGED exitCode
  /\ Fixed /\ UNCHANGED <<netVars, waitVars>>

\* on_imrt_link_byte_arrive over the part that ends a message: the rest of it, or,
\* where the rest is due, the beginning of another one, taken for its payload.
Completed(msg, part) ==
  IF part.first \/ part.msg # msg THEN [msg EXCEPT !.garbled = TRUE] ELSE msg

\* process_reply_data: what has come since the beginning of a message, up to the
\* part that completes it. The rest of a message without its beginning is skipped;
\* whatever follows the first complete message in the same read is not looked at.
Processed(parts, ctx) ==
  LET all    == IF ctx = NoneGiven THEN parts ELSE << [first |-> TRUE, msg |-> ctx] >> \o parts
      begins == {i \in DOMAIN all : all[i].first}
      i      == CHOOSE b \in begins : \A other \in begins : b <= other
  IN  IF begins = {}        THEN [msg |-> NoneGiven, ctx |-> NoneGiven]
      ELSE IF i = Len(all)  THEN [msg |-> NoneGiven, ctx |-> all[i].msg]
      ELSE [msg |-> Completed(all[i].msg, all[i + 1]), ctx |-> NoneGiven]

\* Variant: any response that can be unpacked.
IsOwnUnchecked(msg, legible) ==
  msg.kind = "response" /\ (~msg.garbled \/ legible)

\* A response with the id of the request. Of a garbled one the id and the status
\* may be legible or not.
IsOwn(msg, legible) ==
  msg.kind = "response" /\ msg.own /\ (~msg.garbled \/ legible)

ReadReply ==
  /\ stage = "select" /\ inFlight # <<>>
  /\ \E n \in 1..Len(inFlight), legible \in BOOLEAN :
       LET p == Processed(SubSeq(inFlight, 1, n), partialMsg)
           got == p.msg # NoneGiven /\ IsOwn(p.msg, legible)
       IN  /\ inFlight' = SubSeq(inFlight, n + 1, Len(inFlight))
           /\ partialMsg' = p.ctx
           /\ isResponsed' = (isResponsed \/ got)
           /\ exitCode' = IF got THEN p.msg.status ELSE exitCode
           /\ waited' = IF got /\ op.type \in {"REGISTER", "UNREGISTER"} THEN 0 ELSE waited
  /\ stage' = "check"
  /\ Fixed /\ UNCHANGED <<hangup, answered, extras, losses>>

\* The connection is gone: the descriptor is forgotten. What was read of a message
\* stays in the context.
ReadFails ==
  /\ stage = "select" /\ inFlight = <<>> /\ hangup
  /\ stage' = "down"
  /\ Fixed /\ UNCHANGED <<netVars, waitVars, exitCode>>

\* Nothing to read for a second.
SelectTimeout ==
  /\ stage = "select" /\ inFlight = <<>> /\ ~hangup
  /\ stage' = "check"
  /\ Fixed /\ UNCHANGED <<netVars, waitVars, exitCode>>

\* An error of select() other than an interruption ends the tool.
SelectFails ==
  /\ stage = "select"
  /\ Reject
  /\ Fixed /\ UNCHANGED <<netVars, waitVars>>

\* The loop without a connection: the time first, then init().
\* Variant: the time is only looked at when there is a connection.
ReconnectUntimed ==
  /\ stage = "down"
  /\ Connects(stage' = "select" /\ hangup' = FALSE,
              stage' = "sleep" /\ UNCHANGED hangup)
  /\ Fixed /\ UNCHANGED <<inFlight, answered, extras, losses, waitVars, exitCode>>

Reconnect ==
  /\ stage = "down"
  /\ IF \/ ~isResponsed /\ waited >= ToolTimeout
        \/ isResponsed /\ waited >= AliveTime
     THEN /\ stage' = "ended"
          /\ exitCode' = IF isResponsed THEN exitCode ELSE TimeoutExit
          /\ UNCHANGED hangup
     ELSE /\ Connects(stage' = "select" /\ hangup' = FALSE,
                      stage' = "sleep" /\ UNCHANGED hangup)
          /\ UNCHANGED exitCode
  /\ Fixed /\ UNCHANGED <<inFlight, answered, extras, losses, waitVars>>

\* A second later the loop goes on.
SleepEnds ==
  /\ stage = "sleep"
  /\ stage' = "down"
  /\ Fixed /\ UNCHANGED <<netVars, waitVars, exitCode>>

(***************************************************************************)
(* The runtime and the clock.                                              *)
(***************************************************************************)
Looping == stage \in {"check", "select", "down", "sleep"}
Linked  == stage \in {"check", "select"} /\ ~hangup

Message(kind, own, status) ==
  [kind |-> kind, own |-> own, status |-> status, garbled |-> FALSE]

Delivered(msg) ==
  inFlight' = inFlight \o << [first |-> TRUE,  msg |-> msg], [first |-> FALSE, msg |-> msg] >>

RuntimeAnswers ==
  /\ Linked /\ ~answered
  /\ Delivered(Message("response", TRUE, OwnStatus))
  /\ answered' = TRUE
  /\ UNCHANGED <<stage, exitCode, hangup, extras, losses, waitVars>> /\ Fixed

RuntimeTells ==
  /\ Linked /\ extras < MaxEvents
  /\ \/ Delivered(Message("event", FALSE, 0))
     \/ Delivered(Message("response", FALSE, LateStatus))
  /\ extras' = extras + 1
  /\ UNCHANGED <<stage, exitCode, hangup, answered, losses, waitVars>> /\ Fixed

RuntimeCloses ==
  /\ Linked /\ losses < MaxLosses
  /\ hangup' = TRUE
  /\ losses' = losses + 1
  /\ UNCHANGED <<stage, exitCode, inFlight, answered, extras, waitVars>> /\ Fixed

\* The tool looks at the time before the ticks it can count are over.
Second ==
  /\ Looping /\ waited <= ToolTimeout + AliveTime
  /\ waited' = waited + 1
  /\ UNCHANGED <<stage, exitCode, netVars, partialMsg, isResponsed>> /\ Fixed

\* A step of the loop.
ToolStepsOn ==
  CheckTime \/ ReadReply \/ ReadFails \/ SelectTimeout \/ Reconnect \/ SleepEnds

ToolStep ==
  \/ \E o \in Operations : OperationOption(o)
  \/ \E a \in Attribute : AttributeOption(a)
  \/ TypeOption \/ UsageOption \/ ParseEnd
  \/ SendPart \/ SendAgain \/ SendFails
  \/ ToolStepsOn \/ SelectFails

ToolNext ==
  \/ ToolStep \/ RuntimeAnswers \/ RuntimeTells \/ RuntimeCloses \/ Second

\* The tool runs, a buffer that is full is emptied or the
\* write fails, and time passes.
ToolFairness ==
  /\ WF_toolVars(SendPart)
  /\ WF_toolVars(ToolStepsOn)
  /\ WF_toolVars(Second)

ToolSpec == ToolInit /\ [][ToolNext]_toolVars /\ ToolFairness

(***************************************************************************)
(* Properties.                                                             *)
(***************************************************************************)
ToolTypeOK ==
  /\ stage \in {"parsing", "leading", "type", "length", "payload",
                "check", "select", "down", "sleep", "ended"}
  /\ op.type \in Operations
  /\ resends \in 0..MaxResend
  /\ exitCode \in {-1, 0, TimeoutExit, OwnStatus, LateStatus}
  /\ answered \in BOOLEAN

\* A command line is accepted for the operation it names, with words that options
\* of this operation wrote, unless -q came first: the infos share their memory, so
\* a word of another operation would be taken for the file or the url
\* (main.c:493 and :608).
OwnWords(type) ==
  CASE type = "INSTALL"   -> {"file", "INSTALL", "type"}
    [] type = "UNINSTALL" -> {"UNINSTALL", "type"}
    [] type = "REQUEST"   -> {"REQUEST", "action", "payload"}
    [] OTHER -> {type}

OperationAsGiven ==
  (stage \notin {"parsing", "ended"} /\ ~queried) =>
    /\ parsedOp
    /\ \A i \in 1..2 : op.word[i] \in OwnWords(op.type) \union {NoneGiven}

\* The exit status is the status of the response to this request, never that of
\* a late response to an earlier tool, and it is reported only if the runtime
\* answered (main.c:853). Tools share the runtime's one connection.
StatusIsOwn ==
  stage = "ended" =>
    /\ exitCode \in {-1, TimeoutExit, OwnStatus}
    /\ exitCode = OwnStatus => answered

\* A tool that took its command line ends, with or without a runtime that answers or
\* lets it connect, as long as time passes (main.c:797 and :811).
ToolEnds == (stage # "parsing") ~> (stage = "ended")
====
