---- MODULE HostLink ----
(***************************************************************************)
(* The link from the host, byte by byte: the framing of messages           *)
(* (app_manager_host.c, on_imrt_link_byte_arrive and                       *)
(* aee_host_msg_callback) and the receiver of WASM applications it feeds   *)
(* without buffering them (module_wasm_app.c,                              *)
(* wasm_app_module_on_install_request_byte_arrive).                        *)
(*                                                                         *)
(* The host writes frames, whole; reads may cut them anywhere, so bytes    *)
(* are handled one at a time. Any allocation may fail and so may the post  *)
(* to the manager's queue. What becomes of a frame is logged, to compare   *)
(* it with what the frame means.                                           *)
(***************************************************************************)
EXTENDS RestfulUtils, FiniteSets

CONSTANTS
  HostFrames,      \* what the host may send, see FrameAssumption
  MaxFrames,       \* how many frames it sends, a bound of the model
  SectionTypeMax,  \* the highest section type of this build, 11 to 14
  AotVersion,      \* AOT_CURRENT_VERSION
  PltSize          \* aot_get_plt_table_size()

\* LINK_MSG_TYPE
RequestPacket  == 2
InstallWasmApp == 4
Leadings       == <<18, 52>>

WasmMagic   == <<0, 97, 115, 109>>
AotMagic    == <<0, 97, 111, 116>>
WasmVersion == 1
AotText     == 2
AotTypes    == (0..5) \union {100}

\* Numbers of the loader and of the link are exact up to Huge, which stands for
\* itself and all above: the model's streams are shorter.
Huge == 2 ^ 22
Capped(n) == IF n > Huge THEN Huge ELSE n
Shifted(n, b) == Capped(n * 256 + b)

\* The bytes of the wire.
LittleBytes4(n) == Reverse(Bytes4(n))
Leb(n) == IF n < 128 THEN <<n>> ELSE <<128 + (n % 128), n \div 128>>

\* An application file, from its sections.
FileBytes(f) ==
  LET Sect(s, at) ==
        IF f.magic = AotMagic
        THEN [i \in 1..((4 - (at % 4)) % 4) |-> 0]
               \o LittleBytes4(s.id) \o LittleBytes4(Len(s.body)) \o s.body
        ELSE <<s.id>> \o Leb(Len(s.body)) \o s.body
  IN  FoldLeft(LAMBDA bytes, s : bytes \o Sect(s, Len(bytes)),
               f.magic \o LittleBytes4(f.version), f.sections) \o f.rest

\* A frame is a packet with a type, or a request to install a file. What the
\* request packet's version byte is, the frame says.
FramePayload(f) ==
  IF f.type = InstallWasmApp
  THEN [PackRequest([f.request EXCEPT !.payload = FileBytes(f.file)]) EXCEPT ![1] = f.ver]
  ELSE f.packet

\* send_request of the host tool
FrameBytes(f) ==
  LET payload == FramePayload(f)
  IN  Leadings \o Bytes2(f.type) \o Bytes4(Len(payload)) \o payload

ASSUME FrameAssumption ==
  /\ MaxFrames \in Nat /\ PltSize \in Nat /\ AotVersion \in 0..255
  /\ SectionTypeMax \in 11..14
  /\ \A f \in HostFrames :
       /\ f.type \in 0..50
       /\ f.type = InstallWasmApp =>
            /\ f.file.magic \in Seq(0..255) /\ Len(f.file.magic) = 4
            /\ \A i \in 1..Len(f.file.sections) : f.file.sections[i].body # <<>>

VARIABLES
  wire,       \* the bytes of the current frame still to be read
  frames,     \* the frames sent so far
  log,        \* for each of them what became of it, in order
  linkCtx,    \* recv_ctx of app_manager_host.c
  loaderCtx,  \* recv_ctx of module_wasm_app.c
  spoiled     \* an event after which the contexts are not what they should be

linkVars == <<wire, frames, log, linkCtx, loaderCtx, spoiled>>

ZeroLink ==
  [phase |-> "Non_Start", at |-> 0, type |-> 0, size |-> 0, payload |-> Null]

ZeroLoader ==
  [phase |-> "Req_Ver", at |-> 0, total |-> 0, mid |-> 0, urlLen |-> 0,
   magic |-> <<>>, sections |-> 0, id |-> 0, body |-> 0]

LinkInit ==
  /\ wire = <<>> /\ frames = <<>> /\ log = <<>>
  /\ linkCtx = ZeroLink /\ loaderCtx = ZeroLoader
  /\ spoiled = FALSE

(***************************************************************************)
(* The loader. Given its context, with the byte counted, each phase yields *)
(* the possible results: whether the byte was accepted, the context after  *)
(* it, and the event "error" (a response to the request), "posted" or      *)
(* "none". Sections counts those received and not given away.              *)
(***************************************************************************)
To(l, phase) == [l EXCEPT !.phase = phase, !.at = 0]
More(l)      == {[ok |-> TRUE, ctx |-> l, event |-> "none"]}

\* SEND_ERR_RESPONSE and the label fail: the sections are destroyed, the url is
\* freed, the context is zeroed.
\* Variant: the byte is accepted, and the receiver starts again with the next.
FailAccepted == {[ok |-> TRUE, ctx |-> ZeroLoader, event |-> "error"]}

Fail == {[ok |-> FALSE, ctx |-> ZeroLoader, event |-> "error"]}

\* With memory, or without.
Allocating(results) == results \union Fail

\* RECV_INTEGER of width bytes
RecvInteger(l, width, next) ==
  More(IF l.at + 1 = width THEN To(l, next) ELSE [l EXCEPT !.at = @ + 1])

RecvVer(l, ch) ==
  IF ch = PacketVersion THEN More([l EXCEPT !.phase = "Req_Action"])
  ELSE {[ok |-> FALSE, ctx |-> l, event |-> "none"]}

RecvMid(l, ch) ==
  LET m == [l EXCEPT !.mid = IF l.at = 0 THEN ch ELSE Shifted(@, ch)]
  IN  RecvInteger(m, 4, "Req_Sender")

RecvUrlLen(l, ch) ==
  LET m == [l EXCEPT !.urlLen = IF l.at = 0 THEN ch ELSE Shifted(@, ch), !.at = @ + 1]
  IN  IF m.at = 2 THEN Allocating(More(To(m, "Req_Payload_Len"))) ELSE More(m)

RecvUrl(l) ==
  More(IF l.at + 1 = l.urlLen THEN To(l, "App_Magic") ELSE [l EXCEPT !.at = @ + 1])

RecvMagic(l, ch) ==
  LET m == [l EXCEPT !.magic = Append(@, ch), !.at = @ + 1]
  IN  IF m.at < 4 THEN More(m)
      ELSE IF m.magic = WasmMagic THEN More(To(m, "Wasm_Version"))
      ELSE IF m.magic = AotMagic THEN More(To(m, "AOT_Version"))
      ELSE Fail

RecvVersion(l, ch, version, next) ==
  IF ch # LittleBytes4(version)[l.at + 1] THEN Fail ELSE RecvInteger(l, 4, next)

RecvSectionType(l, ch) ==
  IF ch > SectionTypeMax THEN Fail
  ELSE Allocating(More([To(l, "Wasm_Section_Size") EXCEPT
                          !.sections = @ + 1, !.id = ch, !.body = 0]))

\* One byte of a LEB128 number of at most five bytes.
RecvSectionSize(l, ch) ==
  LET bits == IF l.at >= 3 /\ ch % 128 # 0 THEN Huge ELSE (ch % 128) * 2 ^ (7 * l.at)
      m == [l EXCEPT !.body = Capped(@ + bits), !.at = @ + 1]
  IN  IF m.at > 5 THEN Fail
      ELSE IF ch < 128 THEN Allocating(More(To(m, "Wasm_Section_Content")))
      ELSE More(m)

\* The last byte of the file: module_wasm_app_handle_install_msg posts the
\* sections to the manager's queue and the context is zeroed. Without memory for
\* the request, or when the queue refuses it, an error is sent; the code takes the
\* sections for destroyed and returns with the context as it is.
HandleInstall(l) ==
  {[ok |-> TRUE, ctx |-> ZeroLoader, event |-> "posted"],
   [ok |-> FALSE, ctx |-> l, event |-> "error"]}

SectionEnd(l, size, next) ==
  IF l.total = size THEN HandleInstall(l) ELSE More(To(l, next))

RecvContent(l, size) ==
  LET m == [l EXCEPT !.at = @ + 1]
  IN  IF m.at # m.body THEN More(m) ELSE SectionEnd(m, size, "Wasm_Section_Type")

\* Behind a text section comes the table of the procedure linkage.
RecvAotContent(l, size) ==
  LET m == [l EXCEPT !.at = @ + 1]
      rounded == 4 * ((m.body + PltSize + 3) \div 4)
      s == IF m.id = AotText THEN [m EXCEPT !.body = rounded] ELSE m
  IN  IF m.at # m.body THEN More(m) ELSE SectionEnd(s, size, "AOT_Section_ID")

\* A new section starts at a multiple of 4 in the file, the bytes before are
\* skipped. 18 is the length of the fixed part of the request.
RecvAotId(l, ch) ==
  LET first == l.at = 0
      m == [l EXCEPT !.sections = @ + IF first THEN 1 ELSE 0,
                     !.id = IF first THEN ch ELSE Capped(@ + ch * 256 ^ l.at),
                     !.at = @ + 1]
      got == IF m.at < 4 THEN More(m)
             ELSE IF m.id \in AotTypes THEN More(To(m, "AOT_Section_Size"))
             ELSE Fail
  IN  IF first /\ (l.total - 1 - 18 - l.urlLen) % 4 # 0 THEN More(l)
      ELSE IF first THEN Allocating(got)
      ELSE got

RecvAotSize(l, ch) ==
  LET big == l.at = 3 /\ ch # 0
      m == [l EXCEPT !.body = IF l.at = 0 THEN ch
                              ELSE IF big THEN Huge ELSE Capped(@ + ch * 256 ^ l.at),
                     !.at = @ + 1]
  IN  IF m.at < 4 THEN More(m)
      ELSE Allocating(More(To(m, "AOT_Section_Content")))

\* wasm_app_module_on_install_request_byte_arrive: *received_size is l.total.
LoaderResults(l, ch, size) ==
  CASE l.phase = "Req_Ver"         -> RecvVer(l, ch)
    [] l.phase = "Req_Action"      -> More(To(l, "Req_Fmt"))
    [] l.phase = "Req_Fmt"         -> RecvInteger(l, 2, "Req_Mid")
    [] l.phase = "Req_Mid"         -> RecvMid(l, ch)
    [] l.phase = "Req_Sender"      -> RecvInteger(l, 4, "Req_Url_Len")
    [] l.phase = "Req_Url_Len"     -> RecvUrlLen(l, ch)
    [] l.phase = "Req_Payload_Len" -> RecvInteger(l, 4, "Req_Url")
    [] l.phase = "Req_Url"         -> RecvUrl(l)
    [] l.phase = "App_Magic"       -> RecvMagic(l, ch)
    [] l.phase = "Wasm_Version"    -> RecvVersion(l, ch, WasmVersion, "Wasm_Section_Type")
    [] l.phase = "Wasm_Section_Type"    -> RecvSectionType(l, ch)
    [] l.phase = "Wasm_Section_Size"    -> RecvSectionSize(l, ch)
    [] l.phase = "Wasm_Section_Content" -> RecvContent(l, size)
    [] l.phase = "AOT_Version"     -> RecvVersion(l, ch, AotVersion, "AOT_Section_ID")
    [] l.phase = "AOT_Section_ID"  -> RecvAotId(l, ch)
    [] l.phase = "AOT_Section_Size"     -> RecvAotSize(l, ch)
    [] l.phase = "AOT_Section_Content"  -> RecvAotContent(l, size)

\* Restarted before its first byte, the byte counted.
Counted(l) ==
  [l EXCEPT !.total = IF l.phase = "Req_Ver" THEN 1 ELSE @ + 1,
            !.at = IF l.phase = "Req_Ver" THEN 0 ELSE @]

(***************************************************************************)
(* The link, one action per phase.                                         *)
(***************************************************************************)
\* The host sends its next frame.
SendFrame(f) ==
  /\ wire = <<>>
  /\ Len(frames) < MaxFrames
  /\ wire' = FrameBytes(f)
  /\ frames' = Append(frames, f)
  /\ log' = Append(log, <<>>)
  /\ UNCHANGED <<linkCtx, loaderCtx, spoiled>>

Logged(event) ==
  IF event = "none" THEN log ELSE [log EXCEPT ![Len(log)] = Append(@, event)]

\* What every action of a phase does: it takes a byte.
Takes(phase) ==
  /\ linkCtx.phase = phase
  /\ wire # <<>>
  /\ wire' = Tail(wire)
  /\ UNCHANGED frames

Quiet == UNCHANGED <<log, loaderCtx, spoiled>>

OnNonStart ==
  /\ Takes("Non_Start")
  /\ linkCtx' = [linkCtx EXCEPT
       !.size = 0, !.payload = Null,
       !.phase = IF Head(wire) = Leadings[1] THEN "Leading" ELSE @]
  /\ Quiet

OnLeading ==
  /\ Takes("Leading")
  /\ linkCtx' = [linkCtx EXCEPT
       !.phase = IF Head(wire) = Leadings[2] THEN "Type" ELSE "Non_Start"]
  /\ Quiet

\* The byte whose bits are those of both.
Bit(n, w) == (n \div w) % 2
ByteOr(a, b) ==
  CHOOSE n \in 0..255 : \A w \in {1, 2, 4, 8, 16, 32, 64, 128} :
    Bit(n, w) = IF Bit(a, w) + Bit(b, w) = 0 THEN 0 ELSE 1

\* message_type = ch, then message_type |= ch << 8 and the bytes are swapped.
OnType ==
  /\ Takes("Type")
  /\ LET ch == Head(wire)
         type == linkCtx.type
     IN  linkCtx' = IF linkCtx.at = 0
                    THEN [linkCtx EXCEPT !.at = 1, !.type = ch]
                    ELSE [linkCtx EXCEPT
                            !.type = (type % 256) * 256 + ByteOr(type \div 256, ch),
                            !.phase = "Size", !.at = 0]
  /\ Quiet

\* The callback has the whole message: a request is unpacked and dispatched, with
\* the host as its sender, what else came with a payload is unexpected, and the
\* context is zeroed. A request that cannot be unpacked is left in the context.
MessageComplete(c) ==
  IF c.payload # Null /\ c.type = RequestPacket /\ UnpackRequest(c.payload) = Null
  THEN /\ linkCtx' = c
       /\ spoiled' = TRUE
       /\ UNCHANGED log
  ELSE /\ linkCtx' = ZeroLink
       /\ log' = Logged(IF c.payload = Null THEN "none"
                        ELSE IF c.type = RequestPacket THEN "dispatched" ELSE "unexpected")
       /\ UNCHANGED spoiled

\* The four bytes of the length; behind the last one the payload is allocated,
\* but for an application. Without memory only the phase is reset.
OnSize ==
  /\ Takes("Size")
  /\ LET size == Shifted(linkCtx.size, Head(wire))
         c == [linkCtx EXCEPT !.size = size, !.at = @ + 1]
         full == [c EXCEPT !.phase = "Payload", !.at = 0, !.payload = <<>>]
     IN  IF c.at < 4
         THEN linkCtx' = c /\ UNCHANGED <<log, spoiled>>
         ELSE IF size = 0
         THEN MessageComplete([c EXCEPT !.phase = "Non_Start", !.payload = Null])
         ELSE IF c.type = InstallWasmApp
         THEN linkCtx' = [full EXCEPT !.payload = Null] /\ UNCHANGED <<log, spoiled>>
         ELSE \/ linkCtx' = full /\ UNCHANGED <<log, spoiled>>
              \/ /\ linkCtx' = [c EXCEPT !.phase = "Non_Start", !.payload = Null]
                 /\ spoiled' = TRUE
                 /\ UNCHANGED log
  /\ UNCHANGED loaderCtx

OnPayload ==
  /\ Takes("Payload")
  /\ linkCtx.type # InstallWasmApp
  /\ LET c == [linkCtx EXCEPT !.payload = Append(@, Head(wire)), !.at = @ + 1]
     IN  IF c.at = c.size
         THEN MessageComplete([c EXCEPT !.phase = "Non_Start"])
         ELSE linkCtx' = c /\ UNCHANGED <<log, spoiled>>
  /\ UNCHANGED loaderCtx

\* A byte of an application goes to the loader. A refused install leaves the
\* loader where it was.
\* Variant: after a failure the rest of the message is not skipped.
InstallByteNotSkipped ==
  /\ Takes("Payload")
  /\ linkCtx.type = InstallWasmApp
  /\ LET c == [linkCtx EXCEPT !.at = @ + 1]
     IN  \E r \in LoaderResults(Counted(loaderCtx), Head(wire), c.size) :
           /\ loaderCtx' = r.ctx
           /\ log' = Logged(r.event)
           /\ linkCtx' = IF ~r.ok THEN [c EXCEPT !.phase = "Non_Start", !.at = 0]
                         ELSE IF Counted(loaderCtx).total = c.size THEN ZeroLink
                         ELSE c
           /\ spoiled' = (spoiled \/ (r.event = "error" /\ r.ctx # ZeroLoader))

InstallByte ==
  /\ Takes("Payload")
  /\ linkCtx.type = InstallWasmApp
  /\ LET c == [linkCtx EXCEPT !.at = @ + 1]
     IN  \E r \in LoaderResults(Counted(loaderCtx), Head(wire), c.size) :
           /\ loaderCtx' = r.ctx
           /\ log' = Logged(r.event)
           /\ linkCtx' = IF ~r.ok
                         THEN IF c.at < c.size THEN [c EXCEPT !.phase = "Ignoring"]
                              ELSE [c EXCEPT !.phase = "Non_Start", !.at = 0]
                         ELSE IF Counted(loaderCtx).total = c.size THEN ZeroLink
                         ELSE c
           /\ spoiled' = (spoiled \/ (r.event = "error" /\ r.ctx # ZeroLoader))

OnIgnoring ==
  /\ Takes("Ignoring")
  /\ linkCtx' = IF linkCtx.at + 1 = linkCtx.size THEN ZeroLink
                ELSE [linkCtx EXCEPT !.at = @ + 1]
  /\ Quiet

LinkNext ==
  \/ \E f \in HostFrames : SendFrame(f)
  \/ OnNonStart \/ OnLeading \/ OnType \/ OnSize \/ OnPayload \/ InstallByte \/ OnIgnoring

LinkSpec == LinkInit /\ [][LinkNext]_linkVars

(***************************************************************************)
(* Properties.                                                             *)
(***************************************************************************)
\* A file that ends inside a section, or goes on behind its last one.
CutFile(f) == f.type = InstallWasmApp /\ f.ver = PacketVersion /\ f.file.rest # <<>>

FileMeant(file) ==
  \/ /\ file.magic = WasmMagic /\ file.version = WasmVersion
     /\ \A i \in 1..Len(file.sections) : file.sections[i].id <= SectionTypeMax
  \/ /\ file.magic = AotMagic /\ file.version = AotVersion
     /\ \A i \in 1..Len(file.sections) : file.sections[i].id \in AotTypes

\* What may become of a frame: any install may run out of memory.
Outcomes(f) ==
  IF f.type = InstallWasmApp
  THEN IF f.ver # PacketVersion THEN {<<>>}
       ELSE IF FileMeant(f.file) THEN {<<"posted">>, <<"error">>} ELSE {<<"error">>}
  ELSE IF f.packet = <<>> THEN {<<>>}
  ELSE IF f.type # RequestPacket THEN {<<"unexpected">>}
  ELSE IF UnpackRequest(f.packet) = Null THEN {<<>>}
  ELSE {<<"dispatched">>}

\* Between two frames both contexts are as they were at the start, and every
\* frame had the one outcome it means: a request is dispatched, a file is posted
\* or answered with one error, at whatever byte it is refused, and a frame that
\* was refused half way never eats or breaks the next one. This holds until a
\* request cannot be unpacked or its payload not be allocated, an install is
\* refused at its last byte, or a file is cut (app_manager_host.c:147, :174, :241,
\* module_wasm_app.c:1349).
FramesUnderstood ==
  (wire = <<>> /\ ~spoiled /\ \A i \in 1..Len(frames) : ~CutFile(frames[i])) =>
    /\ linkCtx.phase = "Non_Start" /\ linkCtx.at = 0 /\ linkCtx.payload = Null
    /\ loaderCtx.phase = "Req_Ver" /\ loaderCtx.sections = 0
    /\ \A i \in 1..Len(frames) : log[i] \in Outcomes(frames[i])

\* A host that installs an application and waits gets one answer at most for each
\* install it sent, also when a context was spoiled: the error of the receiver or,
\* from the manager, that of the posted request (module_wasm_app.c:1339).
AnswersIn(logs) ==
  UNION {{<<i, j>> : j \in {k \in 1..Len(logs[i]) : logs[i][k] \in {"posted", "error"}}} :
           i \in 1..Len(logs)}
InstallsIn(sent) == {i \in 1..Len(sent) : sent[i].type = InstallWasmApp}
OneAnswerPerInstall == Cardinality(AnswersIn(log)) <= Cardinality(InstallsIn(frames))

\* The link has no escape: the two leading bytes may stand in a payload too. In the
\* frames of a host that avoids it they are at the beginning only.
LeadingsLead(f) ==
  LET bytes == FrameBytes(f)
  IN  /\ FramePayload(f) \in Seq(0..255)
      /\ \A i \in 2..(Len(bytes) - 1) : <<bytes[i], bytes[i + 1]>> # Leadings
====
