------------------------------ MODULE AsPackets ------------------------------
(***************************************************************************)
(* The packets as the AssemblyScript library writes and reads them         *)
(* (assembly-script/wamr_app_lib/request.ts): they go to, and come from,   *)
(* the C code of RestfulUtils. An Error that is thrown is Null. And the    *)
(* handler it finds for a request.                                         *)
(***************************************************************************)
EXTENDS RestfulUtils

AsPackRequest(r) ==
  <<PacketVersion, r.action>> \o Bytes2(r.fmt) \o Bytes4(r.mid) \o Bytes4(r.sender)
    \o Bytes2(Len(r.url) + 1) \o Bytes4(Len(r.payload)) \o Append(r.url, 0) \o r.payload

\* The size is compared, as in C, and the end of the URL is not looked at. What lies
\* behind the packet is cut off, but payload_len counts it.
AsUnpackRequest(packet) ==
  LET urlLen == Number2(packet, 12)
  IN IF \/ packet = <<>> \/ packet[1] # PacketVersion \/ Len(packet) < RequestFixPart
        \/ ~SizeAgrees(packet, RequestFixPart + urlLen, 14)
     THEN Null
     ELSE IF RequestFixPart + urlLen > Len(packet) THEN Overrun
     ELSE [action  |-> packet[2],
           fmt     |-> Number2(packet, 2),
           mid     |-> Number4(packet, 4),
           sender  |-> Number4(packet, 8),
           url     |-> Slice(packet, RequestFixPart, urlLen - 1),
           payload |-> Slice(packet, RequestFixPart + urlLen, Number4(packet, 14))]

AsPackResponse(r) ==
  <<PacketVersion, r.status>> \o Bytes2(r.fmt) \o Bytes4(r.mid) \o Bytes4(r.reciever)
    \o Bytes4(Len(r.payload)) \o r.payload

AsUnpackResponse(packet) ==
  IF \/ packet = <<>> \/ packet[1] # PacketVersion \/ Len(packet) < ResponseFixPart
     \/ ~SizeAgrees(packet, ResponseFixPart, 12)
  THEN Null
  ELSE [status   |-> packet[2],
        fmt      |-> Number2(packet, 2),
        mid      |-> Number4(packet, 4),
        reciever |-> Number4(packet, 8),
        payload  |-> SubSeq(packet, ResponseFixPart + 1, Len(packet))]

\* What split('/') gives first.
FirstPart(s) == LET i == SelectInSeq(s, LAMBDA c : c = Slash)
                IN IF i = 0 THEN s ELSE SubSeq(s, 1, i - 1)

AsCheckUrlStart(url, leading) == FirstPart(url) = FirstPart(leading)

\* The handlers of a type, in the order of resource_list: a URL that is registered
\* again has its handler replaced.
AsRegister(list, url) == IF Contains(list, url) THEN list ELSE Append(list, url)

\* The place of the handler on_request calls, 0 for none.
AsHandler(list, url) == SelectInSeq(list, LAMBDA u : AsCheckUrlStart(url, u))
==============================================================================
