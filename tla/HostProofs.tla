------------------------------ MODULE HostProofs ------------------------------
(***************************************************************************)
(* The host's side for every number of threads, messages, hosts, options   *)
(* and losses: what a host reads from the runtime is whole messages, and   *)
(* the host tool sends the operation it was given and exits with the       *)
(* status of its own response.                                             *)
(***************************************************************************)
EXTENDS HostSession, HostTool, SequenceLemmas, TLAPS

-----------------------------------------------------------------------------
(* The stream of messages.                                                 *)

Part == {"header", "payload"} \X Talker \X Nat
Peer == [open : BOOLEAN, connected : BOOLEAN, got : Seq(Part)]

TalkAt   == {"idle", "header", "payload", "writing header", "writing payload"}
Writing  == {"writing header", "writing payload"}
BodyNext == {"payload", "writing payload"}

SessionTypes ==
  /\ sockfd \in Nat /\ sockfd <= Len(peers)
  /\ peers \in Seq(Peer)
  /\ talk \in [Talker -> TalkAt]
  /\ sent \in [Talker -> Nat]
  /\ \A c \in 1 .. Len(peers) : ~peers[c].connected => peers[c].got = <<>>

\* Only the holder of host_lock is in the middle of a message, only the holder of
\* sock_lock writes, and a lock that is busy is held by one who writes or by the
\* reading thread around accept() and close().
LocksHeld ==
  /\ \A t \in Talker : talk[t] # "idle" => hostLock = t
  /\ \A t \in Talker : talk[t] \in Writing => sockLock = t
  /\ talk[Reader] # "idle" => readerAt = "handling"
  /\ readerAt \in {"accepting", "accepted", "closing"} => sockLock = Reader
  /\ \/ sockLock = "free"
     \/ sockLock \in Talker /\ talk[sockLock] \in Writing
     \/ readerAt \in {"accepting", "accepted", "closing"}

\* What the descriptor is while the reading thread changes it; the reading thread of a
\* serial line is in its own places.
Descriptor ==
  /\ readerAt \in {"arguments", "created", "unlocked", "accepting", "ended"} => sockfd = 0
  /\ readerAt \in {"connecting", "accepted", "reading", "handling", "hungup", "closing"}
       => sockfd # 0
  /\ readerAt = "accepted" => peers[sockfd].got = <<>>
  /\ readerAt \in {"hungup", "closing"} => ~peers[sockfd].open
  /\ uart => /\ readerAt \in {"arguments", "created", "reading", "handling", "ended"}
             /\ sockfd # 0 => peers[sockfd].connected

LastOf(got) == got[Len(got)]

\* The stream of the host that is connected ends with a payload, or with the header
\* of the message whose payload is the next thing anyone writes.
StreamEnd ==
  sockfd # 0 /\ peers[sockfd].open =>
    LET got == peers[sockfd].got IN
      /\ \/ got = <<>>
         \/ LastOf(got)[1] = "payload"
         \/ \E t \in Talker :
              talk[t] \in BodyNext /\ LastOf(got) = <<"header", t, sent[t]>>
      /\ \A t \in Talker :
           talk[t] \in BodyNext => got = <<>> \/ LastOf(got) = <<"header", t, sent[t]>>

SessionInv ==
  /\ SessionTypes
  /\ process = "running" => LocksHeld /\ Descriptor /\ StreamEnd
  /\ StreamsWhole

\* The connections after one of them changed, and after a new one.
LEMMA PeerChanged ==
  ASSUME peers \in Seq(Peer), NEW c \in 1 .. Len(peers), NEW p \in Peer,
         peers' = [peers EXCEPT ![c] = p]
  PROVE  /\ peers' \in Seq(Peer) /\ Len(peers') = Len(peers)
         /\ peers'[c] = p
         /\ \A d \in 1 .. Len(peers) : d # c => peers'[d] = peers[d]
  OBVIOUS

LEMMA PeerAdded ==
  ASSUME peers \in Seq(Peer), NEW p \in Peer, peers' = Append(peers, p)
  PROVE  /\ peers' \in Seq(Peer) /\ Len(peers') = Len(peers) + 1 /\ Len(peers) \in Nat
         /\ peers'[Len(peers) + 1] = p
         /\ \A d \in 1 .. Len(peers) : peers'[d] = peers[d]
  OBVIOUS

LEMMA PartAdded ==
  ASSUME NEW got \in Seq(Part), NEW x \in Part
  PROVE  /\ Append(got, x) \in Seq(Part) /\ Append(got, x) # <<>>
         /\ Len(Append(got, x)) = Len(got) + 1 /\ Len(got) \in Nat
         /\ Append(got, x)[Len(got) + 1] = x
         /\ \A i \in 1 .. Len(got) : Append(got, x)[i] = got[i]
         /\ got = <<>> <=> Len(got) = 0
  OBVIOUS

\* One of the connections, as StreamsWhole asks it.
Whole(got) ==
  \A i \in 1 .. (Len(got) - 1) :
     \/ got[i][1] = "header" /\ got[i + 1] = [got[i] EXCEPT ![1] = "payload"]
     \/ got[i][1] = "payload" /\ got[i + 1][1] = "header"

LEMMA WholeStreams == StreamsWhole <=> \A c \in 1 .. Len(peers) : Whole(peers[c].got)
  BY DEF StreamsWhole, Whole

LEMMA WholeGrows ==
  ASSUME NEW got \in Seq(Part), NEW t \in Talker, NEW n \in Nat, NEW at \in {"header", "payload"},
         Whole(got),
         \/ got = <<>>
         \/ at = "header" /\ LastOf(got)[1] = "payload"
         \/ at = "payload" /\ LastOf(got) = <<"header", t, n>>
  PROVE  Whole(Append(got, <<at, t, n>>))
<1> DEFINE x == <<at, t, n>>
           longer == Append(got, x)
<1>1. x \in Part /\ x[1] = at
  BY DEF Part
<1>2. at = "payload" => x = [<<"header", t, n>> EXCEPT ![1] = "payload"]
  OBVIOUS
<1> HIDE DEF x
<1>3. /\ Len(longer) = Len(got) + 1 /\ Len(got) \in Nat
      /\ longer[Len(got) + 1] = x
      /\ \A i \in 1 .. Len(got) : longer[i] = got[i]
      /\ got = <<>> <=> Len(got) = 0
  BY <1>1, PartAdded
<1> HIDE DEF longer
<1>4. ASSUME NEW i \in 1 .. (Len(longer) - 1)
      PROVE  \/ longer[i][1] = "header" /\ longer[i + 1] = [longer[i] EXCEPT ![1] = "payload"]
             \/ longer[i][1] = "payload" /\ longer[i + 1][1] = "header"
  <2>1. CASE i = Len(got)
    <3>1. longer[i] = LastOf(got) /\ longer[i + 1] = x /\ got # <<>>
      BY <1>3, <1>4, <2>1 DEF LastOf
    <3>2. CASE at = "header"
      BY <1>1, <3>1, <3>2
    <3>3. CASE at = "payload"
      <4>1. LastOf(got) = <<"header", t, n>>
        BY <3>1, <3>3
      <4>2. QED
        BY <1>2, <3>1, <3>3, <4>1
    <3>4. QED
      BY <3>2, <3>3
  <2>2. CASE i # Len(got)
    <3>1. i \in 1 .. (Len(got) - 1) /\ i \in 1 .. Len(got) /\ i + 1 \in 1 .. Len(got)
      BY <1>3, <1>4, <2>2
    <3>2. longer[i] = got[i] /\ longer[i + 1] = got[i + 1]
      BY <1>3, <3>1
    <3>3. QED
      BY <3>1, <3>2 DEF Whole
  <2>3. QED
    BY <2>1, <2>2
<1>5. QED
  BY <1>4 DEF Whole, longer, x

\* Steps that touch no connection and no message.
LEMMA SessionQuiet ==
  ASSUME SessionInv, process = "running", UNCHANGED <<peers, sockfd, talk, sent>>
  PROVE  SessionTypes' /\ StreamEnd' /\ StreamsWhole'
  BY DEF SessionInv, SessionTypes, StreamEnd, StreamsWhole

LEMMA ReaderMoves ==
  ASSUME SessionInv,
         \/ ServerOption \/ OptionsEnd \/ StartServer \/ StartClient \/ LockToAccept
         \/ UnlockAccepted \/ ReadBytes \/ Handled \/ ReadEnd \/ LockToClose \/ ConnectFails
         \/ StartUartFails
  PROVE  SessionInv'
<1>1. process = "running" /\ UNCHANGED <<peers, sockfd, talk, sent, hostLock>>
  BY DEF ServerOption, OptionsEnd, StartServer, StartClient, LockToAccept, UnlockAccepted,
     ReadBytes, Handled, ReadEnd, LockToClose, ConnectFails, StartUartFails, Reading, sendVars
<1>2. SessionTypes' /\ StreamEnd' /\ StreamsWhole'
  BY <1>1, SessionQuiet
<1>3. Descriptor'
  BY <1>1, SessionAssumption
     DEF ServerOption, OptionsEnd, StartServer, StartClient, LockToAccept, UnlockAccepted,
     ReadBytes, Handled, ReadEnd, LockToClose, ConnectFails, StartUartFails, Reading, GoReader, SessionInv, Descriptor
<1>4. LocksHeld'
  BY <1>1, SessionAssumption
     DEF ServerOption, OptionsEnd, StartServer, StartClient, LockToAccept, UnlockAccepted,
     ReadBytes, Handled, ReadEnd, LockToClose, ConnectFails, StartUartFails, Reading, GoReader, SessionInv, LocksHeld, SessionTypes,
     Writing, TalkAt
<1>5. QED
  BY <1>2, <1>3, <1>4 DEF SessionInv

\* Connections that come, with nothing read yet.
LEMMA NewConnection ==
  ASSUME SessionInv, process = "running", UNCHANGED <<talk, sent>>,
         NEW p \in Peer, p.got = <<>>,
         peers' = Append(peers, p), sockfd' = Len(peers) + 1
  PROVE  /\ SessionTypes' /\ StreamEnd' /\ StreamsWhole'
         /\ sockfd' # 0 /\ peers'[sockfd'].got = <<>>
<1>1. /\ peers' \in Seq(Peer) /\ Len(peers') = Len(peers) + 1 /\ Len(peers) \in Nat
      /\ peers'[Len(peers) + 1] = p
      /\ \A d \in 1 .. Len(peers) : peers'[d] = peers[d]
  BY PeerAdded DEF SessionInv, SessionTypes
<1>2. SessionTypes'
  BY <1>1 DEF SessionInv, SessionTypes
<1>3. peers'[sockfd'].got = <<>> /\ sockfd' # 0
  BY <1>1
<1>4. StreamEnd'
  BY <1>3 DEF StreamEnd
<1>5. \A c \in 1 .. Len(peers') : Whole(peers'[c].got)
  <2> SUFFICES ASSUME NEW c \in 1 .. Len(peers')
               PROVE  Whole(peers'[c].got)
    OBVIOUS
  <2>1. CASE c = Len(peers) + 1
    BY <1>1, <2>1 DEF Whole
  <2>2. CASE c \in 1 .. Len(peers)
    BY <1>1, <2>2, WholeStreams DEF SessionInv
  <2>3. QED
    BY <1>1, <2>1, <2>2
<1>6. StreamsWhole'
  BY <1>5 DEF StreamsWhole, Whole
<1>7. QED
  BY <1>2, <1>3, <1>4, <1>6

LEMMA SessionAccept ==
  ASSUME SessionInv, Accept \/ OpenSocket \/ StartUart
  PROVE  SessionInv'
<1>1. /\ process = "running" /\ process' = process /\ UNCHANGED <<talk, sent, hostLock, sockLock>>
      /\ sockfd' = Len(peers) + 1 /\ uart' = uart
  BY DEF Accept, OpenSocket, StartUart, Reading, sendVars
<1>2. PICK p \in Peer : /\ p.got = <<>> /\ peers' = Append(peers, p)
                        /\ p.connected \/ OpenSocket
  <2>1. <<>> \in Seq(Part)
    OBVIOUS
  <2>2. NewPeer \in Peer /\ [NewPeer EXCEPT !.connected = FALSE] \in Peer
    BY <2>1 DEF NewPeer, Peer
  <2>3. NewPeer.connected /\ NewPeer.got = <<>> /\ [NewPeer EXCEPT !.connected = FALSE].got = <<>>
    BY DEF NewPeer
  <2>4. QED
    BY <2>2, <2>3 DEF Accept, OpenSocket, StartUart
<1>3. /\ SessionTypes' /\ StreamEnd' /\ StreamsWhole'
      /\ sockfd' # 0 /\ peers'[sockfd'].got = <<>>
  BY <1>1, <1>2, NewConnection
<1>4. Descriptor'
  <2>1. OpenSocket => ~uart
    BY <1>1 DEF OpenSocket, Reading, SessionInv, Descriptor
  <2>2. Accept => ~uart
    BY <1>1 DEF Accept, Reading, SessionInv, Descriptor
  <2>3. uart => peers'[sockfd'].connected
    <3>1. peers \in Seq(Peer)
      BY DEF SessionInv, SessionTypes
    <3>2. peers'[Len(peers) + 1] = p
      BY <1>2, <3>1, PeerAdded
    <3>3. QED
      BY <1>1, <1>2, <2>1, <3>2
  <2>4. QED
    BY <1>1, <1>3, <2>1, <2>2, <2>3 DEF Accept, OpenSocket, StartUart, GoReader, Descriptor
<1>5. LocksHeld'
  BY <1>1, SessionAssumption
     DEF Accept, OpenSocket, StartUart, Reading, GoReader, SessionInv, LocksHeld, SessionTypes, Writing
<1>6. QED
  BY <1>3, <1>4, <1>5 DEF SessionInv

LEMMA SessionClose ==
  ASSUME SessionInv, CloseSocket \/ AcceptFails \/ UartEnd \/ OptionRefused
  PROVE  SessionInv'
<1>1. /\ process = "running" /\ sockfd' = 0 /\ UNCHANGED <<peers, talk, sent, hostLock>>
      /\ uart' = uart
  BY DEF CloseSocket, AcceptFails, UartEnd, OptionRefused, Reading, sendVars, SessionInv,
     Descriptor
<1>2. SessionTypes' /\ StreamEnd' /\ StreamsWhole'
  BY <1>1 DEF SessionInv, SessionTypes, StreamEnd, StreamsWhole
<1>3. CASE AcceptFails \/ OptionRefused
  BY <1>2, <1>3 DEF AcceptFails, OptionRefused, SessionInv
<1>4. CASE CloseSocket \/ UartEnd
  <2>1. Descriptor'
    BY <1>1, <1>4 DEF CloseSocket, UartEnd, Reading, GoReader, SessionInv, Descriptor
  <2>2. LocksHeld'
    BY <1>1, <1>4, SessionAssumption
       DEF CloseSocket, UartEnd, Reading, GoReader, SessionInv, LocksHeld, SessionTypes, Writing
  <2>3. QED
    BY <1>2, <2>1, <2>2 DEF SessionInv
<1>5. QED
  BY <1>3, <1>4

\* A host that answers the connection, or hangs up: nothing is read.
LEMMA PeerMoves ==
  ASSUME SessionInv, process = "running", UNCHANGED <<sockfd, talk, sent>>,
         NEW c \in 1 .. Len(peers), NEW p \in Peer,
         p.got = peers[c].got, p.open => peers[c].open,
         p.connected \/ p.got = <<>>,
         peers' = [peers EXCEPT ![c] = p]
  PROVE  /\ SessionTypes' /\ StreamEnd' /\ StreamsWhole'
         /\ \A d \in 1 .. Len(peers) :
              peers'[d].got = peers[d].got /\ (peers'[d].open => peers[d].open)
         /\ peers'[c] = p /\ \A d \in 1 .. Len(peers) : d # c => peers'[d] = peers[d]
<1>1. /\ peers' \in Seq(Peer) /\ Len(peers') = Len(peers)
      /\ peers'[c] = p
      /\ \A d \in 1 .. Len(peers) : d # c => peers'[d] = peers[d]
  BY PeerChanged DEF SessionInv, SessionTypes
<1>2. \A d \in 1 .. Len(peers) :
         peers'[d].got = peers[d].got /\ (peers'[d].open => peers[d].open)
  BY <1>1
<1>3. SessionTypes'
  BY <1>1, <1>2 DEF SessionInv, SessionTypes
<1>4. StreamEnd'
  <2>1. sockfd # 0 => sockfd \in 1 .. Len(peers)
    BY DEF SessionInv, SessionTypes
  <2>2. QED
    BY <1>2, <2>1 DEF SessionInv, StreamEnd
<1>5. StreamsWhole'
  BY <1>1, <1>2 DEF SessionInv, StreamsWhole
<1>6. QED
  BY <1>2, <1>3, <1>4, <1>5

LEMMA SessionConnect ==
  ASSUME SessionInv, Connect
  PROVE  SessionInv'
<1> DEFINE p == [peers[sockfd] EXCEPT !.connected = TRUE]
<1>1. /\ process = "running" /\ process' = process
      /\ UNCHANGED <<uart, sockfd, talk, sent, hostLock, sockLock>>
      /\ sockfd \in 1 .. Len(peers) /\ peers \in Seq(Peer)
  BY DEF Connect, Reading, sendVars, SessionInv, SessionTypes, Descriptor
<1>2. p \in Peer /\ p.got = peers[sockfd].got /\ p.open = peers[sockfd].open /\ p.connected
  <2>1. peers[sockfd] \in Peer
    BY <1>1
  <2>2. QED
    BY <2>1 DEF Peer
<1>3. peers' = [peers EXCEPT ![sockfd] = p]
  BY DEF Connect
<1> HIDE DEF p
<1>4. SessionTypes' /\ StreamEnd' /\ StreamsWhole'
  BY <1>1, <1>2, <1>3, PeerMoves
<1>5. Descriptor'
  BY <1>1 DEF Connect, Reading, GoReader, SessionInv, Descriptor
<1>6. LocksHeld'
  BY <1>1, SessionAssumption
     DEF Connect, Reading, GoReader, SessionInv, LocksHeld, SessionTypes, Writing
<1>7. QED
  BY <1>4, <1>5, <1>6 DEF SessionInv

LEMMA SessionHosts ==
  ASSUME SessionInv, Knock \/ HangUp
  PROVE  SessionInv'
<1>1. /\ process = "running" /\ process' = process
      /\ UNCHANGED <<uart, sockfd, talk, sent, hostLock, sockLock, readerAt>>
  BY DEF Knock, HangUp, sendVars, readerVars
<1>2. LocksHeld'
  BY <1>1 DEF SessionInv, LocksHeld
<1>3. CASE Knock
  <2>1. SessionTypes' /\ StreamEnd' /\ StreamsWhole' /\ Descriptor'
    BY <1>1, <1>3, SessionQuiet DEF Knock, SessionInv, Descriptor
  <2>2. QED
    BY <1>2, <2>1 DEF SessionInv
<1>4. CASE HangUp
  <2>1. PICK c \in 1 .. Len(peers) :
           peers[c].connected /\ peers' = [peers EXCEPT ![c].open = FALSE]
    BY <1>4 DEF HangUp
  <2> DEFINE p == [peers[c] EXCEPT !.open = FALSE]
  <2>2. p \in Peer /\ p.got = peers[c].got /\ ~p.open /\ p.connected
    <3>1. peers[c] \in Peer
      BY DEF SessionInv, SessionTypes
    <3>2. QED
      BY <2>1, <3>1 DEF Peer
  <2>3. peers' = [peers EXCEPT ![c] = p]
    BY <2>1
  <2> HIDE DEF p
  <2>4. /\ SessionTypes' /\ StreamEnd' /\ StreamsWhole'
        /\ \A d \in 1 .. Len(peers) :
             peers'[d].got = peers[d].got /\ (peers'[d].open => peers[d].open)
        /\ peers'[c] = p /\ \A d \in 1 .. Len(peers) : d # c => peers'[d] = peers[d]
    BY <1>1, <2>2, <2>3, PeerMoves
  <2>5. sockfd # 0 => sockfd \in 1 .. Len(peers)
    BY DEF SessionInv, SessionTypes
  <2>6. sockfd # 0 /\ peers[sockfd].connected => peers'[sockfd].connected
    BY <2>2, <2>4, <2>5
  <2>7. Descriptor'
    BY <1>1, <2>4, <2>5, <2>6 DEF SessionInv, Descriptor
  <2>8. QED
    BY <1>2, <2>4, <2>7 DEF SessionInv
<1>5. QED
  BY <1>3, <1>4

\* Nobody else is in the middle of a message.
LEMMA OneTalker ==
  ASSUME SessionInv, process = "running", NEW t \in Talker,
         talk[t] # "idle" \/ hostLock = "free"
  PROVE  \A u \in Talker : u # t => talk[u] = "idle"
  BY SessionAssumption DEF SessionInv, LocksHeld

LEMMA SessionTake ==
  ASSUME SessionInv, NEW t \in Talker, TakeHostLock(t)
  PROVE  SessionInv'
<1>1. /\ process = "running" /\ process' = process /\ talk[t] = "idle" /\ hostLock = "free"
      /\ hostLock' = t /\ talk' = [talk EXCEPT ![t] = "header"]
      /\ sent' = [sent EXCEPT ![t] = @ + 1]
      /\ (t = Reader => readerAt = "handling")
      /\ UNCHANGED <<uart, peers, sockfd, sockLock, readerAt>>
  BY DEF TakeHostLock, Talking, readerVars
<1>2. /\ talk' \in [Talker -> TalkAt] /\ sent' \in [Talker -> Nat]
      /\ talk'[t] = "header" /\ \A u \in Talker : u # t => talk'[u] = talk[u]
  <2>1. talk \in [Talker -> TalkAt] /\ "header" \in TalkAt
    BY DEF SessionInv, SessionTypes, TalkAt
  <2>2. sent \in [Talker -> Nat] /\ sent[t] + 1 \in Nat
    BY DEF SessionInv, SessionTypes
  <2>3. talk' \in [Talker -> TalkAt] /\ talk'[t] = "header"
    BY <1>1, <2>1
  <2>4. sent' \in [Talker -> Nat]
    BY <1>1, <2>2
  <2>5. QED
    BY <1>1, <2>1, <2>3, <2>4
<1>3. \A u \in Talker : talk[u] = "idle" /\ (u # t => talk'[u] = "idle")
  BY <1>1, <1>2, OneTalker
<1>4. SessionTypes' /\ StreamsWhole'
  BY <1>1, <1>2 DEF SessionInv, SessionTypes, StreamsWhole
<1>5. LocksHeld'
  BY <1>1, <1>2, <1>3, SessionAssumption DEF SessionInv, LocksHeld, Writing
<1>6. Descriptor'
  BY <1>1 DEF SessionInv, Descriptor
<1>7. StreamEnd'
  BY <1>1, <1>2, <1>3 DEF SessionInv, StreamEnd, BodyNext
<1>8. QED
  BY <1>4, <1>5, <1>6, <1>7 DEF SessionInv

\* A talker gives up or is done: it lets go of host_lock.
LEMMA TalkerDone ==
  ASSUME SessionInv, process = "running", NEW t \in Talker, talk[t] # "idle",
         talk' = [talk EXCEPT ![t] = "idle"], hostLock' = "free",
         UNCHANGED <<readerAt, sockfd>>,
         \/ UNCHANGED sockLock /\ talk[t] \notin Writing
         \/ sockLock' = "free" /\ talk[t] \in Writing
  PROVE  LocksHeld' /\ talk' \in [Talker -> TalkAt] /\ \A u \in Talker : talk'[u] = "idle"
<1>1. /\ talk' \in [Talker -> TalkAt] /\ talk'[t] = "idle"
      /\ \A u \in Talker : u # t => talk'[u] = talk[u]
  BY DEF SessionInv, SessionTypes, TalkAt
<1>2. \A u \in Talker : u # t => talk[u] = "idle"
  BY OneTalker
<1>3. \A u \in Talker : talk'[u] = "idle"
  BY <1>1, <1>2
<1>4. t = Reader => readerAt = "handling"
  BY DEF SessionInv, LocksHeld
<1>5. talk[t] \in Writing => sockLock = t
  BY DEF SessionInv, LocksHeld
<1>6. LocksHeld'
  BY <1>1, <1>2, <1>3, <1>4, <1>5, SessionAssumption DEF SessionInv, LocksHeld, Writing
<1>7. QED
  BY <1>1, <1>3, <1>6

\* What is left behind on the connection is never continued: when a header was
\* written to it, it is closed or replaced.
LEMMA SessionTryFails ==
  ASSUME SessionInv, NEW t \in Talker, NEW at \in {"header", "payload"}, TryFails(t, at)
  PROVE  SessionInv'
<1>1. /\ process = "running" /\ process' = process /\ talk[t] = at /\ sockLock # "free"
      /\ talk' = [talk EXCEPT ![t] = "idle"] /\ hostLock' = "free"
      /\ UNCHANGED <<uart, peers, sockfd, sockLock, readerAt, sent>>
  BY DEF TryFails, Talking, Proceed, readerVars
<1>2. talk[t] # "idle" /\ talk[t] \notin Writing
  BY <1>1 DEF Writing
<1>3. LocksHeld' /\ talk' \in [Talker -> TalkAt] /\ \A u \in Talker : talk'[u] = "idle"
  BY <1>1, <1>2, TalkerDone
<1>4. readerAt \in {"accepting", "accepted", "closing"}
  BY <1>1, <1>2, OneTalker DEF SessionInv, LocksHeld, Writing
<1>5. sockfd # 0 /\ peers[sockfd].open => peers[sockfd].got = <<>>
  BY <1>1, <1>4 DEF SessionInv, Descriptor
<1>6. StreamEnd'
  BY <1>1, <1>3, <1>5 DEF StreamEnd, BodyNext
<1>7. SessionTypes' /\ StreamsWhole' /\ Descriptor'
  BY <1>1, <1>3 DEF SessionInv, SessionTypes, StreamsWhole, Descriptor
<1>8. QED
  BY <1>3, <1>6, <1>7 DEF SessionInv

LEMMA SessionTryLock ==
  ASSUME SessionInv, NEW t \in Talker, NEW at \in {"header", "payload"}, TryLock(t, at)
  PROVE  SessionInv'
<1>1. /\ process = "running" /\ process' = process /\ talk[t] = at /\ sockLock = "free"
      /\ sockLock' = t
      /\ talk' = [talk EXCEPT ![t] = IF at = "header" THEN "writing header"
                                                      ELSE "writing payload"]
      /\ UNCHANGED <<uart, peers, sockfd, hostLock, readerAt, sent>>
  BY DEF TryLock, Talking, readerVars
<1>2. /\ talk' \in [Talker -> TalkAt] /\ talk'[t] \in Writing
      /\ talk'[t] \in BodyNext <=> talk[t] \in BodyNext
      /\ \A u \in Talker : u # t => talk'[u] = talk[u]
  BY <1>1 DEF SessionInv, SessionTypes, TalkAt, Writing, BodyNext
<1>3. talk[t] # "idle" /\ \A u \in Talker : u # t => talk[u] = "idle"
  BY <1>1, OneTalker
<1>4. SessionTypes' /\ StreamsWhole' /\ Descriptor'
  BY <1>1, <1>2 DEF SessionInv, SessionTypes, StreamsWhole, Descriptor
<1>5. LocksHeld'
  BY <1>1, <1>2, <1>3, SessionAssumption DEF SessionInv, LocksHeld, Writing
<1>6. \A u \in Talker : talk'[u] \in BodyNext <=> talk[u] \in BodyNext
  BY <1>2
<1>7. StreamEnd'
  BY <1>1, <1>6 DEF SessionInv, StreamEnd
<1>8. QED
  BY <1>4, <1>5, <1>7 DEF SessionInv

LEMMA SessionBroken ==
  ASSUME SessionInv, NEW t \in Talker, NEW at \in {"header", "payload"}, NEW writing \in Writing,
         \/ NoSocket(t, at, writing)
         \/ WriteBroken(t, at, writing)
  PROVE  SessionInv'
<1>1. /\ process = "running" /\ talk[t] = writing
      /\ talk' = [talk EXCEPT ![t] = "idle"] /\ hostLock' = "free" /\ sockLock' = "free"
      /\ UNCHANGED <<uart, peers, sockfd, readerAt, sent>>
      /\ sockfd = 0 \/ ~(peers[sockfd].connected /\ peers[sockfd].open)
  BY DEF NoSocket, WriteBroken, Unlocking, Talking, Proceed, readerVars
<1>2. talk[t] # "idle" /\ talk[t] \in Writing
  BY <1>1 DEF Writing
<1>3. LocksHeld' /\ talk' \in [Talker -> TalkAt] /\ \A u \in Talker : talk'[u] = "idle"
  BY <1>1, <1>2, TalkerDone
<1>4. sockfd # 0 /\ peers[sockfd].open => peers[sockfd].got = <<>>
  <2>1. sockfd # 0 => sockfd \in 1 .. Len(peers)
    BY DEF SessionInv, SessionTypes
  <2>2. QED
    BY <1>1, <2>1 DEF SessionInv, SessionTypes
<1>5. StreamEnd'
  BY <1>1, <1>3, <1>4 DEF StreamEnd, BodyNext
<1>6. SessionTypes' /\ StreamsWhole' /\ Descriptor'
  BY <1>1, <1>3 DEF SessionInv, SessionTypes, StreamsWhole, Descriptor
<1>7. QED
  BY <1>3, <1>5, <1>6 DEF SessionInv

WritingOf(at) == IF at = "header" THEN "writing header" ELSE "writing payload"

\* The write itself: the part goes to the end of what the host has read, unless the
\* host hung up, and fits there.
LEMMA WriteGoes ==
  ASSUME SessionInv, process = "running", sockfd # 0, peers[sockfd].connected,
         NEW t \in Talker, NEW at \in {"header", "payload"}, talk[t] \in {at, WritingOf(at)},
         peers' = IF peers[sockfd].open
                  THEN [peers EXCEPT ![sockfd].got = Append(@, <<at, t, sent[t]>>)]
                  ELSE peers
  PROVE  /\ peers' \in Seq(Peer) /\ Len(peers') = Len(peers)
         /\ \A c \in 1 .. Len(peers) : ~peers'[c].connected => peers'[c].got = <<>>
         /\ StreamsWhole'
         /\ peers'[sockfd].open =>
              /\ peers'[sockfd].got # <<>>
              /\ LastOf(peers'[sockfd].got) = <<at, t, sent[t]>>
         /\ \A c \in 1 .. Len(peers) : peers'[c].open => peers[c].open
         /\ peers'[sockfd].connected
<1>1. /\ sockfd \in 1 .. Len(peers) /\ peers \in Seq(Peer) /\ sent[t] \in Nat
      /\ \A c \in 1 .. Len(peers) : Whole(peers[c].got)
  <2>1. sockfd \in 1 .. Len(peers) /\ peers \in Seq(Peer) /\ sent[t] \in Nat
    BY DEF SessionInv, SessionTypes
  <2>2. \A c \in 1 .. Len(peers) : Whole(peers[c].got)
    BY WholeStreams DEF SessionInv
  <2>3. QED
    BY <2>1, <2>2
<1>2. CASE ~peers[sockfd].open
  <2>1. peers' = peers
    BY <1>2
  <2>2. StreamsWhole'
    <3>1. StreamsWhole /\ peers' = peers
      BY <2>1 DEF SessionInv
    <3>2. QED
      BY ONLY <3>1 DEF StreamsWhole
  <2>3. \A c \in 1 .. Len(peers) : ~peers[c].connected => peers[c].got = <<>>
    BY DEF SessionInv, SessionTypes
  <2>4. QED
    BY <1>1, <1>2, <2>1, <2>2, <2>3
<1>3. CASE peers[sockfd].open
  <2> DEFINE got == peers[sockfd].got
             x   == <<at, t, sent[t]>>
             p   == [peers[sockfd] EXCEPT !.got = Append(got, x)]
  <2>1. peers[sockfd] \in Peer /\ got \in Seq(Part) /\ x \in Part
    <3>1. peers[sockfd] \in Peer
      BY <1>1
    <3>2. x \in Part
      BY <1>1 DEF Part
    <3>3. QED
      BY <3>1, <3>2 DEF Peer
  <2>2. /\ Append(got, x) \in Seq(Part) /\ Append(got, x) # <<>>
        /\ LastOf(Append(got, x)) = x
    <3> HIDE DEF x, got
    <3>1. /\ Append(got, x) \in Seq(Part) /\ Append(got, x) # <<>>
          /\ Len(Append(got, x)) = Len(got) + 1 /\ Append(got, x)[Len(got) + 1] = x
      BY <2>1, PartAdded
    <3>2. QED
      BY <3>1 DEF LastOf
  <2>3. p \in Peer /\ p.got = Append(got, x) /\ p.open /\ p.connected
    BY <1>1, <1>3, <2>1, <2>2 DEF Peer
  <2>4. peers' = [peers EXCEPT ![sockfd] = p]
    BY <1>3
  <2>5. Whole(Append(got, x))
    <3>1. talk[t] # "idle"
      BY DEF WritingOf
    <3>2. \A u \in Talker : u # t => talk[u] = "idle"
      BY <1>1, <3>1, OneTalker
    <3>3. /\ \/ got = <<>>
             \/ LastOf(got)[1] = "payload"
             \/ \E u \in Talker :
                  talk[u] \in BodyNext /\ LastOf(got) = <<"header", u, sent[u]>>
          /\ talk[t] \in BodyNext => got = <<>> \/ LastOf(got) = <<"header", t, sent[t]>>
      BY <1>1, <1>3 DEF SessionInv, StreamEnd
    <3>4. CASE at = "header"
      <4>1. \A u \in Talker : talk[u] \notin BodyNext
        BY <1>1, <3>2, <3>4 DEF WritingOf, BodyNext
      <4>2. got = <<>> \/ LastOf(got)[1] = "payload"
        BY <3>3, <4>1
      <4>3. QED
        BY <1>1, <2>1, <3>4, <4>2, WholeGrows
    <3>5. CASE at = "payload"
      <4>1. talk[t] \in BodyNext
        BY <1>1, <3>5 DEF WritingOf, BodyNext
      <4>2. got = <<>> \/ LastOf(got) = <<"header", t, sent[t]>>
        BY <3>3, <4>1
      <4>3. QED
        BY <1>1, <2>1, <3>5, <4>2, WholeGrows
    <3>6. QED
      BY <3>4, <3>5
  <2> HIDE DEF p, x, got
  <2>6. /\ peers' \in Seq(Peer) /\ Len(peers') = Len(peers) /\ peers'[sockfd] = p
        /\ \A c \in 1 .. Len(peers) : c # sockfd => peers'[c] = peers[c]
    BY <1>1, <2>3, <2>4, PeerChanged
  <2>7. \A c \in 1 .. Len(peers) : Whole(peers'[c].got)
    BY <1>1, <2>3, <2>5, <2>6
  <2>8. StreamsWhole'
    BY <2>6, <2>7 DEF StreamsWhole, Whole
  <2>9. \A c \in 1 .. Len(peers) : ~peers'[c].connected => peers'[c].got = <<>>
    BY <2>3, <2>6 DEF SessionInv, SessionTypes
  <2>10. \A c \in 1 .. Len(peers) : peers'[c].open => peers[c].open
    BY <1>3, <2>6
  <2>11. LastOf(peers'[sockfd].got) = <<at, t, sent[t]>> /\ peers'[sockfd].got # <<>>
    BY <2>2, <2>3, <2>6 DEF x
  <2>12. QED
    BY <2>6, <2>8, <2>9, <2>10, <2>11
<1>4. QED
  BY <1>2, <1>3

LEMMA SessionWrite ==
  ASSUME SessionInv, NEW t \in Talker,
         NEW at \in {"header", "payload"}, NEW writing, writing = WritingOf(at),
         Write(t, at, writing)
  PROVE  SessionInv'
<1>1. /\ process = "running" /\ process' = process /\ talk[t] = writing /\ sockLock' = "free"
      /\ UNCHANGED <<uart, sockfd, readerAt, sent>>
      /\ talk[t] \in Writing /\ talk[t] # "idle"
      /\ sockfd # 0 /\ sockfd \in 1 .. Len(peers)
  <2>1. /\ process = "running" /\ process' = process /\ talk[t] = writing /\ sockLock' = "free"
        /\ UNCHANGED <<uart, sockfd, readerAt, sent>> /\ sockfd # 0
    BY DEF Write, Unlocking, Talking, Proceed, readerVars
  <2>2. talk[t] \in Writing /\ talk[t] # "idle"
    BY <2>1 DEF WritingOf, Writing
  <2>3. sockfd \in 1 .. Len(peers)
    BY <2>1 DEF SessionInv, SessionTypes
  <2>4. QED
    BY <2>1, <2>2, <2>3
<1>2. /\ peers' \in Seq(Peer) /\ Len(peers') = Len(peers)
      /\ \A c \in 1 .. Len(peers) : ~peers'[c].connected => peers'[c].got = <<>>
      /\ StreamsWhole'
      /\ peers'[sockfd].open =>
           /\ peers'[sockfd].got # <<>>
           /\ LastOf(peers'[sockfd].got) = <<at, t, sent[t]>>
      /\ \A c \in 1 .. Len(peers) : peers'[c].open => peers[c].open
      /\ peers'[sockfd].connected
  <2>1. /\ peers[sockfd].connected
        /\ peers' = IF peers[sockfd].open
                    THEN [peers EXCEPT ![sockfd].got = Append(@, <<at, t, sent[t]>>)]
                    ELSE peers
    BY DEF Write
  <2>2. QED
    BY <1>1, <2>1, WriteGoes
<1>3. \A u \in Talker : u # t => talk[u] = "idle"
  BY <1>1, OneTalker
<1>4. Descriptor'
  <2>1. readerAt # "accepted"
    BY <1>1, <1>3, SessionAssumption DEF SessionInv, LocksHeld
  <2>2. QED
    BY <1>1, <1>2, <2>1 DEF SessionInv, Descriptor
<1>5. CASE at = "payload"
  <2>1. talk' = [talk EXCEPT ![t] = "idle"] /\ hostLock' = "free"
    BY <1>5 DEF Write, Unlocking, Proceed
  <2>2. LocksHeld' /\ talk' \in [Talker -> TalkAt] /\ \A u \in Talker : talk'[u] = "idle"
    BY <1>1, <2>1, TalkerDone
  <2>3. SessionTypes'
    BY <1>1, <1>2, <2>2 DEF SessionInv, SessionTypes
  <2>4. StreamEnd'
    <3>1. peers'[sockfd].open => LastOf(peers'[sockfd].got)[1] = "payload"
      BY <1>2, <1>5
    <3>2. \A u \in Talker : talk'[u] \notin BodyNext
      BY <2>2 DEF BodyNext
    <3>3. QED
      BY <1>1, <3>1, <3>2 DEF StreamEnd
  <2>5. QED
    BY <1>2, <1>4, <2>2, <2>3, <2>4 DEF SessionInv
<1>6. CASE at = "header"
  <2>1. talk' = [talk EXCEPT ![t] = "payload"] /\ hostLock' = hostLock
    BY <1>6 DEF Write, Unlocking, Proceed
  <2>2. /\ talk' \in [Talker -> TalkAt] /\ talk'[t] = "payload"
        /\ \A u \in Talker : u # t => talk'[u] = "idle"
    BY <1>3, <2>1 DEF SessionInv, SessionTypes, TalkAt
  <2>3. SessionTypes'
    BY <1>1, <1>2, <2>2 DEF SessionInv, SessionTypes
  <2>4. StreamEnd'
    BY <1>1, <1>2, <1>6, <2>2 DEF StreamEnd, BodyNext
  <2>5. LocksHeld'
    <3>1. hostLock = t /\ sockLock = t /\ (t = Reader => readerAt = "handling")
      BY <1>1 DEF SessionInv, LocksHeld
    <3>2. readerAt \notin {"accepting", "accepted", "closing"}
      BY <1>1, <1>3, <3>1, SessionAssumption DEF SessionInv, LocksHeld
    <3>3. QED
      BY <1>1, <2>1, <2>2, <3>1, <3>2, SessionAssumption DEF LocksHeld, Writing
  <2>6. QED
    BY <1>2, <1>4, <2>3, <2>4, <2>5 DEF SessionInv
<1>7. QED
  BY <1>5, <1>6

\* The same without the lock: over the serial line.
LEMMA SessionUartSend ==
  ASSUME SessionInv, NEW t \in Talker, NEW at \in {"header", "payload"}, uart, UartSend(t, at)
  PROVE  SessionInv'
<1>1. /\ process = "running" /\ process' = process /\ talk[t] = at
      /\ UNCHANGED <<uart, sockfd, readerAt, sent, sockLock>>
      /\ talk[t] \notin Writing /\ talk[t] # "idle"
      /\ sockfd # 0 /\ sockfd \in 1 .. Len(peers) /\ peers[sockfd].open
      /\ peers[sockfd].connected
  <2>1. /\ process = "running" /\ process' = process /\ talk[t] = at
        /\ UNCHANGED <<uart, sockfd, readerAt, sent, sockLock>>
        /\ sockfd # 0 /\ peers[sockfd].open
    BY DEF UartSend, Talking, Proceed, readerVars
  <2>2. talk[t] \notin Writing /\ talk[t] # "idle"
    BY <2>1 DEF Writing
  <2>3. sockfd \in 1 .. Len(peers) /\ peers[sockfd].connected
    BY <2>1 DEF SessionInv, SessionTypes, Descriptor
  <2>4. QED
    BY <2>1, <2>2, <2>3
<1>2. /\ peers' \in Seq(Peer) /\ Len(peers') = Len(peers)
      /\ \A c \in 1 .. Len(peers) : ~peers'[c].connected => peers'[c].got = <<>>
      /\ StreamsWhole'
      /\ peers'[sockfd].open =>
           /\ peers'[sockfd].got # <<>>
           /\ LastOf(peers'[sockfd].got) = <<at, t, sent[t]>>
      /\ \A c \in 1 .. Len(peers) : peers'[c].open => peers[c].open
      /\ peers'[sockfd].connected
  <2>1. peers' = IF peers[sockfd].open
                 THEN [peers EXCEPT ![sockfd].got = Append(@, <<at, t, sent[t]>>)]
                 ELSE peers
    BY <1>1 DEF UartSend
  <2>2. QED
    BY <1>1, <2>1, WriteGoes
<1>3. \A u \in Talker : u # t => talk[u] = "idle"
  BY <1>1, OneTalker
<1>4. Descriptor'
  BY <1>1, <1>2 DEF SessionInv, Descriptor
<1>5. CASE at = "payload"
  <2>1. talk' = [talk EXCEPT ![t] = "idle"] /\ hostLock' = "free"
    BY <1>5 DEF UartSend, Proceed
  <2>2. LocksHeld' /\ talk' \in [Talker -> TalkAt] /\ \A u \in Talker : talk'[u] = "idle"
    BY <1>1, <2>1, TalkerDone
  <2>3. SessionTypes'
    BY <1>1, <1>2, <2>2 DEF SessionInv, SessionTypes
  <2>4. StreamEnd'
    <3>1. peers'[sockfd].open => LastOf(peers'[sockfd].got)[1] = "payload"
      BY <1>2, <1>5
    <3>2. \A u \in Talker : talk'[u] \notin BodyNext
      BY <2>2 DEF BodyNext
    <3>3. QED
      BY <1>1, <3>1, <3>2 DEF StreamEnd
  <2>5. QED
    BY <1>2, <1>4, <2>2, <2>3, <2>4 DEF SessionInv
<1>6. CASE at = "header"
  <2>1. talk' = [talk EXCEPT ![t] = "payload"] /\ hostLock' = hostLock
    BY <1>6 DEF UartSend, Proceed
  <2>2. /\ talk' \in [Talker -> TalkAt] /\ talk'[t] = "payload"
        /\ \A u \in Talker : u # t => talk'[u] = talk[u] /\ talk'[u] = "idle"
    BY <1>3, <2>1 DEF SessionInv, SessionTypes, TalkAt
  <2>3. SessionTypes'
    BY <1>1, <1>2, <2>2 DEF SessionInv, SessionTypes
  <2>4. StreamEnd'
    BY <1>1, <1>2, <1>6, <2>2 DEF StreamEnd, BodyNext
  <2>5. LocksHeld'
    <3>1. \A u \in Talker : talk'[u] = "idle" <=> talk[u] = "idle"
      BY <1>1, <2>2
    <3>2. \A u \in Talker : talk'[u] \in Writing <=> talk[u] \in Writing
      BY <1>1, <2>2 DEF Writing
    <3>3. QED
      BY <1>1, <2>1, <3>1, <3>2, SessionAssumption DEF SessionInv, LocksHeld
  <2>6. QED
    BY <1>2, <1>4, <2>3, <2>4, <2>5 DEF SessionInv
<1>7. QED
  BY <1>5, <1>6

LEMMA SessionUartSendFails ==
  ASSUME SessionInv, NEW t \in Talker, NEW at \in {"header", "payload"}, UartSendFails(t, at)
  PROVE  SessionInv'
<1>1. /\ process = "running" /\ talk[t] = at
      /\ talk' = [talk EXCEPT ![t] = "idle"] /\ hostLock' = "free"
      /\ UNCHANGED <<uart, peers, sockfd, sockLock, readerAt, sent, process>>
      /\ sockfd = 0 \/ ~peers[sockfd].open
  BY DEF UartSendFails, Talking, Proceed, readerVars
<1>2. talk[t] # "idle" /\ talk[t] \notin Writing
  BY <1>1 DEF Writing
<1>3. LocksHeld' /\ talk' \in [Talker -> TalkAt] /\ \A u \in Talker : talk'[u] = "idle"
  BY <1>1, <1>2, TalkerDone
<1>4. StreamEnd'
  BY <1>1 DEF StreamEnd
<1>5. SessionTypes' /\ StreamsWhole' /\ Descriptor'
  BY <1>1, <1>3 DEF SessionInv, SessionTypes, StreamsWhole, Descriptor
<1>6. QED
  BY <1>3, <1>4, <1>5 DEF SessionInv

LEMMA SessionSend ==
  ASSUME SessionInv, NEW t \in Talker, SendStep(t)
  PROVE  SessionInv'
<1>1. PICK at \in {"header", "payload"} :
         \/ uart /\ UartSend(t, at)
         \/ UartSendFails(t, at)
         \/ TryFails(t, at)
         \/ TryLock(t, at)
         \/ NoSocket(t, at, WritingOf(at))
         \/ Write(t, at, WritingOf(at))
         \/ WriteBroken(t, at, WritingOf(at))
  <2>1. PICK part \in {<<"header", "writing header">>, <<"payload", "writing payload">>} :
           \/ uart /\ UartSend(t, part[1])
           \/ UartSendFails(t, part[1])
           \/ TryFails(t, part[1])
           \/ TryLock(t, part[1])
           \/ NoSocket(t, part[1], part[2])
           \/ Write(t, part[1], part[2])
           \/ WriteBroken(t, part[1], part[2])
    BY DEF SendStep
  <2>2. CASE part = <<"header", "writing header">>
    <3>1. part[1] = "header" /\ part[2] = WritingOf("header")
      BY <2>2 DEF WritingOf
    <3>2. QED
      BY <2>1, <3>1
  <2>3. CASE part = <<"payload", "writing payload">>
    <3>1. part[1] = "payload" /\ part[2] = WritingOf("payload")
      BY <2>3 DEF WritingOf
    <3>2. QED
      BY <2>1, <3>1
  <2>4. QED
    BY <2>1, <2>2, <2>3
<1>2. WritingOf(at) \in Writing
  BY DEF WritingOf, Writing
<1>3. QED
  BY <1>1, <1>2, SessionTryFails, SessionTryLock, SessionBroken, SessionWrite,
     SessionUartSend, SessionUartSendFails

\* What a host reads is whole messages, however many threads send them and however
\* often hosts come and go: every header is followed by its own payload unless it is
\* the last thing read, every payload follows its header unless it is the first
\* (app_manager_host_send_msg under host_lock, host_send under sock_lock).
THEOREM MessagesStayWhole == SessionSpec => []StreamsWhole
<1>1. SessionInit => SessionInv
  <2> SUFFICES ASSUME SessionInit
               PROVE  SessionInv
    OBVIOUS
  <2>1. SessionTypes /\ StreamsWhole
    BY DEF SessionInit, SessionTypes, StreamsWhole, TalkAt
  <2>2. LocksHeld /\ Descriptor /\ StreamEnd
    BY SessionAssumption DEF SessionInit, LocksHeld, Descriptor, StreamEnd, Writing
  <2>3. QED
    BY <2>1, <2>2 DEF SessionInv
<1>2. SessionInv /\ [SessionNext]_sessionVars => SessionInv'
  <2> SUFFICES ASSUME SessionInv, [SessionNext]_sessionVars
               PROVE  SessionInv'
    OBVIOUS
  <2>1. CASE UNCHANGED sessionVars
    BY <2>1 DEF sessionVars, SessionInv, SessionTypes, LocksHeld, Descriptor, StreamEnd,
       StreamsWhole
  <2>2. CASE SessionNext
    BY <2>2, ReaderMoves, SessionAccept, SessionClose, SessionConnect, SessionHosts,
       SessionTake, SessionSend DEF SessionNext, ReaderStep
  <2>3. QED
    BY <2>1, <2>2
<1>3. SessionInv => StreamsWhole
  BY DEF SessionInv
<1>4. QED
  BY <1>1, <1>2, <1>3, PTL DEF SessionSpec

-----------------------------------------------------------------------------
(* The command line of the host tool.                                      *)

Word == Operations \cup {"file", "action", "payload", "type", NoneGiven}

\* Until an option names the operation it is an install without a file or a name;
\* from then on every word of it was written by an option of its own.
CommandInv ==
  /\ op \in [type : Operations, word : [1 .. 3 -> Word]]
  /\ ~queried =>
       /\ stage = "parsing" /\ ~parsedOp =>
            op.type = "INSTALL" /\ op.word[1] = NoneGiven /\ op.word[2] = NoneGiven
       /\ stage \notin {"parsing", "ended"} => parsedOp
       /\ stage # "ended" =>
            \A i \in 1 .. 2 : op.word[i] \in OwnWords(op.type) \cup {NoneGiven}

LEMMA OptionKeepsCommand ==
  ASSUME CommandInv, NEW o \in Operations, OperationOption(o)
  PROVE  CommandInv'
<1>1. CASE parsedOp /\ Reject /\ UNCHANGED <<op, parsedOp, queried>>
  BY <1>1 DEF CommandInv, Reject
<1>2. CASE /\ ~parsedOp
           /\ op' = [type |-> o, word |-> [op.word EXCEPT ![OperationWord[o]] = o]]
           /\ parsedOp' = (o # "QUERY")
           /\ queried' = (queried \/ o = "QUERY")
           /\ UNCHANGED <<stage, exitCode>>
  <2> DEFINE w == IF o = "INSTALL" THEN 2 ELSE 1
  <2>1. OperationWord[o] = w /\ w \in 1 .. 3 /\ o \in Word
    BY DEF OperationWord, Word
  <2>2. op.word \in [1 .. 3 -> Word] /\ stage = "parsing" /\ stage' = stage
    BY <1>2 DEF CommandInv, OperationOption, Parsing
  <2>3. /\ op'.type = o /\ op'.word \in [1 .. 3 -> Word]
        /\ op'.word[w] = o /\ \A i \in 1 .. 3 : i # w => op'.word[i] = op.word[i]
        /\ op' \in [type : Operations, word : [1 .. 3 -> Word]]
    BY <1>2, <2>1, <2>2
  <2>4. CASE o = "QUERY"
    BY <1>2, <2>2, <2>3, <2>4 DEF CommandInv
  <2>5. CASE o # "QUERY"
    <3>1. ASSUME ~queried
          PROVE  \A i \in 1 .. 2 : op'.word[i] \in OwnWords(op'.type) \cup {NoneGiven}
      <4>1. op.word[1] = NoneGiven /\ op.word[2] = NoneGiven
        BY <1>2, <2>2, <3>1 DEF CommandInv
      <4>2. o \in OwnWords(o)
        BY <2>5 DEF OwnWords, Operations
      <4>3. QED
        BY <2>3, <4>1, <4>2
    <3>2. QED
      BY <1>2, <2>2, <2>3, <2>5, <3>1 DEF CommandInv
  <2>6. QED
    BY <2>4, <2>5
<1>3. QED
  BY <1>1, <1>2 DEF OperationOption

\* A word that the operation's own option writes.
LEMMA WordWritten ==
  ASSUME CommandInv, stage = "parsing", UNCHANGED <<stage, parsedOp, queried>>,
         NEW i \in 1 .. 3, NEW word \in Word,
         op' = [op EXCEPT !.word[i] = word],
         ~queried => i = 3 \/ (parsedOp /\ word \in OwnWords(op.type))
  PROVE  CommandInv'
<1>1. op \in [type : Operations, word : [1 .. 3 -> Word]]
  BY DEF CommandInv
<1>2. /\ op' \in [type : Operations, word : [1 .. 3 -> Word]] /\ op'.type = op.type
      /\ op'.word[i] = word /\ \A j \in 1 .. 3 : j # i => op'.word[j] = op.word[j]
  BY <1>1
<1>3. QED
  BY <1>1, <1>2 DEF CommandInv

LEMMA AttributeKeepsCommand ==
  ASSUME CommandInv, NEW a \in Attribute, AttributeOption(a)
  PROVE  CommandInv'
<1>1. CASE parsedOp /\ op.type = a.of
  <2>1. /\ op' = [op EXCEPT !.word[a.word] = a.option]
        /\ stage = "parsing" /\ UNCHANGED <<stage, parsedOp, queried>>
    BY <1>1 DEF AttributeOption, Parsing
  <2>2. a.word \in 1 .. 3 /\ a.option \in Word /\ a.option \in OwnWords(a.of)
    BY DEF Attribute, Word, OwnWords
  <2>3. QED
    BY <1>1, <2>1, <2>2, WordWritten
<1>2. CASE ~(parsedOp /\ op.type = a.of)
  BY <1>2 DEF AttributeOption, Reject, CommandInv
<1>3. QED
  BY <1>1, <1>2

LEMMA TypeKeepsCommand ==
  ASSUME CommandInv, TypeOption
  PROVE  CommandInv'
<1>1. stage = "parsing" /\ UNCHANGED <<stage, parsedOp, queried>>
  BY DEF TypeOption, Parsing
<1>2. "type" \in Word
  BY DEF Word
<1>3. CASE op.type = "INSTALL"
  BY <1>1, <1>2, <1>3, WordWritten DEF TypeOption
<1>4. CASE op.type = "UNINSTALL"
  <2>1. op' = [op EXCEPT !.word[2] = "type"]
    BY <1>4 DEF TypeOption
  <2>2. ~queried => parsedOp
    BY <1>1, <1>4 DEF CommandInv
  <2>3. "type" \in OwnWords(op.type)
    BY <1>4 DEF OwnWords
  <2>4. QED
    BY <1>1, <1>2, <2>1, <2>2, <2>3, WordWritten
<1>5. CASE op.type \notin {"INSTALL", "UNINSTALL"}
  <2>1. op' = op
    BY <1>5 DEF TypeOption
  <2>2. QED
    BY <1>1, <2>1 DEF CommandInv
<1>6. QED
  BY <1>3, <1>4, <1>5

LEMMA ParseEndKeepsCommand ==
  ASSUME CommandInv, ParseEnd
  PROVE  CommandInv'
<1>1. stage = "parsing" /\ UNCHANGED <<op, parsedOp, queried>>
  BY DEF ParseEnd, Parsing
<1>2. CASE stage' = "ended"
  BY <1>1, <1>2 DEF CommandInv
<1>3. CASE stage' # "ended"
  <2>1. Complete(op)
    BY <1>3 DEF ParseEnd, Reject
  <2>2. ~queried => parsedOp
    BY <1>1, <2>1 DEF CommandInv, Complete
  <2>3. QED
    BY <1>1, <1>3, <2>2 DEF CommandInv
<1>4. QED
  BY <1>2, <1>3

\* The loops neither read the command line nor go back to it.
LEMMA CommandDone ==
  ASSUME CommandInv, UNCHANGED <<op, parsedOp, queried>>,
         \/ stage' \in {"ended", stage}
         \/ stage \notin {"parsing", "ended"} /\ stage' # "parsing"
  PROVE  CommandInv'
  BY DEF CommandInv

\* The tool sends the operation its command line named, with words that options of
\* this operation wrote: the infos of the operations share their memory
\* (CHECK_DUPLICATE_OPERATION and CHECK_ARGS_UNMATCH_OPERATION of parse_args).
THEOREM ToolSendsAsGiven == ToolSpec => []OperationAsGiven
<1>1. ToolInit => CommandInv
  BY DEF ToolInit, CommandInv, Operations, Word
<1>2. CommandInv /\ [ToolNext]_toolVars => CommandInv'
  <2> SUFFICES ASSUME CommandInv, [ToolNext]_toolVars
               PROVE  CommandInv'
    OBVIOUS
  <2>1. CASE UNCHANGED toolVars
    BY <2>1 DEF toolVars, CommandInv
  <2>2. CASE UsageOption
    BY <2>2, CommandDone DEF UsageOption, Reject
  <2>3. CASE SendPart \/ SendAgain \/ SendFails
    BY <2>3, CommandDone DEF SendPart, SendAgain, SendFails, Sending, AfterPart, Reject
  <2>4. CASE ToolStepsOn \/ SelectFails
    BY <2>4, CommandDone DEF ToolStepsOn, CheckTime, ReadReply, ReadFails, SelectTimeout,
       Reconnect, Connects, TcpInit, UartInit, SleepEnds, SelectFails, Reject, Fixed
  <2>5. CASE RuntimeAnswers \/ RuntimeTells \/ RuntimeCloses \/ Second
    <3>1. UNCHANGED <<stage, op, parsedOp, queried>>
      BY <2>5 DEF RuntimeAnswers, RuntimeTells, RuntimeCloses, Second, Fixed
    <3>2. QED
      BY <3>1, CommandDone
  <2>6. QED
    BY <2>1, <2>2, <2>3, <2>4, <2>5, OptionKeepsCommand, AttributeKeepsCommand,
       TypeKeepsCommand, ParseEndKeepsCommand DEF ToolNext, ToolStep
<1>3. CommandInv => OperationAsGiven
  BY DEF CommandInv, OperationAsGiven
<1>4. QED
  BY <1>1, <1>2, <1>3, PTL DEF ToolSpec

-----------------------------------------------------------------------------
(* The exit status of the host tool.                                       *)

OwnResponse == Message("response", TRUE, OwnStatus)

\* What the runtime sends, and the parts of it.
SentMessage == {OwnResponse, Message("event", FALSE, 0), Message("response", FALSE, LateStatus)}
SentPart    == [first : BOOLEAN, msg : SentMessage]

BeforeLoop == {"parsing", "leading", "type", "length", "payload"}

\* The own response is on its way, or begun, or reported, only after the answer; the
\* tool counts as answered only with the status of that response.
StatusInv ==
  /\ inFlight \in Seq(SentPart)
  /\ partialMsg \in SentMessage \cup {NoneGiven}
  /\ \A k \in 1 .. Len(inFlight) : inFlight[k].msg = OwnResponse => answered
  /\ partialMsg = OwnResponse /\ partialMsg # NoneGiven => answered
  /\ isResponsed => answered /\ stage \notin BeforeLoop
  /\ isResponsed /\ stage # "ended" => exitCode = OwnStatus
  /\ StatusIsOwn

\* What the receive context holds after a read, and what message it gave, was among
\* the parts that were read or begun before.
LEMMA ProcessedParts ==
  ASSUME NEW parts \in Seq(SentPart), NEW ctx \in SentMessage \cup {NoneGiven},
         NEW Known \in SUBSET SentMessage,
         \A k \in 1 .. Len(parts) : parts[k].msg \in Known,
         ctx # NoneGiven => ctx \in Known
  PROVE  /\ Processed(parts, ctx).ctx \in Known \cup {NoneGiven}
         /\ Processed(parts, ctx).msg # NoneGiven =>
              \E m \in Known :
                 Processed(parts, ctx).msg \in {m, [m EXCEPT !.garbled = TRUE]}
<1> DEFINE all    == IF ctx = NoneGiven THEN parts
                     ELSE << [first |-> TRUE, msg |-> ctx] >> \o parts
           begins == {i \in DOMAIN all : all[i].first}
           i      == CHOOSE b \in begins : \A other \in begins : b <= other
<1>1. /\ DOMAIN all = 1 .. Len(all) /\ Len(all) \in Nat
      /\ \A k \in 1 .. Len(all) : all[k].msg \in Known
  <2>1. CASE ctx = NoneGiven
    BY <2>1
  <2>2. CASE ctx # NoneGiven
    <3> DEFINE head == [first |-> TRUE, msg |-> ctx]
    <3>1. head \in SentPart /\ head.msg = ctx
      BY <2>2 DEF SentPart
    <3> HIDE DEF head
    <3>2. <<head>> \in Seq(SentPart) /\ Len(<<head>>) = 1 /\ <<head>>[1] = head
      BY <3>1
    <3>3. Len(parts) \in Nat
      OBVIOUS
    <3>4. /\ all = <<head>> \o parts
          /\ DOMAIN all = 1 .. Len(all) /\ Len(all) = Len(parts) + 1
          /\ all[1] = head
          /\ \A k \in 1 .. Len(parts) : all[k + 1] = parts[k]
      BY <2>2, <3>2 DEF head
    <3> HIDE DEF all
    <3>5. ASSUME NEW k \in 1 .. Len(all)
          PROVE  all[k].msg \in Known
      <4>1. CASE k = 1
        BY <2>2, <3>1, <3>4, <4>1
      <4>2. CASE k # 1
        <5>1. k - 1 \in 1 .. Len(parts) /\ k = (k - 1) + 1
          BY <3>3, <3>4, <4>2
        <5>2. all[k] = parts[k - 1]
          BY <3>4, <5>1
        <5>3. QED
          BY <5>1, <5>2
      <4>3. QED
        BY <4>1, <4>2
    <3>6. QED
      BY <3>3, <3>4, <3>5
  <2>3. QED
    BY <2>1, <2>2
<1>2. Processed(parts, ctx) =
        IF begins = {}        THEN [msg |-> NoneGiven, ctx |-> NoneGiven]
        ELSE IF i = Len(all)  THEN [msg |-> NoneGiven, ctx |-> all[i].msg]
        ELSE [msg |-> Completed(all[i].msg, all[i + 1]), ctx |-> NoneGiven]
  BY DEF Processed
<1> HIDE DEF all
<1>3. begins # {} => i \in begins
  <2>1. begins \in SUBSET Nat
    BY <1>1
  <2> HIDE DEF begins
  <2>2. begins # {} => \E b \in begins : \A other \in begins : b <= other
    BY <2>1, LeastElement
  <2>3. QED
    BY <2>2
<1>4. begins # {} => i \in 1 .. Len(all)
  BY <1>1, <1>3
<1> HIDE DEF i, begins
<1>5. CASE begins = {}
  BY <1>2, <1>5
<1>6. CASE begins # {} /\ i = Len(all)
  BY <1>1, <1>2, <1>4, <1>6
<1>7. CASE begins # {} /\ i # Len(all)
  <2>1. all[i].msg \in Known
    BY <1>1, <1>4, <1>7
  <2>2. Processed(parts, ctx) = [msg |-> Completed(all[i].msg, all[i + 1]), ctx |-> NoneGiven]
    BY <1>2, <1>7
  <2>3. Completed(all[i].msg, all[i + 1]) \in
          {all[i].msg, [all[i].msg EXCEPT !.garbled = TRUE]}
    BY DEF Completed
  <2>4. /\ Processed(parts, ctx).ctx = NoneGiven
        /\ Processed(parts, ctx).msg = Completed(all[i].msg, all[i + 1])
    BY <2>2
  <2>5. QED
    BY <2>1, <2>3, <2>4
<1>8. QED
  BY <1>5, <1>6, <1>7

\* A message taken for the response is the response, garbled or not.
LEMMA OwnOnly ==
  ASSUME NEW m \in SentMessage, NEW got \in {m, [m EXCEPT !.garbled = TRUE]},
         NEW legible \in BOOLEAN, IsOwn(got, legible)
  PROVE  m = OwnResponse /\ got.status = OwnStatus
  BY DEF SentMessage, OwnResponse, Message, IsOwn

LEMMA StatusRead ==
  ASSUME StatusInv, ReadReply
  PROVE  StatusInv'
<1>1. PICK n \in 1 .. Len(inFlight), legible \in BOOLEAN :
         LET p == Processed(SubSeq(inFlight, 1, n), partialMsg)
             got == p.msg # NoneGiven /\ IsOwn(p.msg, legible)
         IN  /\ inFlight' = SubSeq(inFlight, n + 1, Len(inFlight))
             /\ partialMsg' = p.ctx
             /\ isResponsed' = (isResponsed \/ got)
             /\ exitCode' = IF got THEN p.msg.status ELSE exitCode
  BY DEF ReadReply
<1> DEFINE parts == SubSeq(inFlight, 1, n)
           p     == Processed(parts, partialMsg)
           got   == p.msg # NoneGiven /\ IsOwn(p.msg, legible)
           Known == {m \in SentMessage : m = OwnResponse => answered}
<1>2. /\ stage = "select" /\ stage' = "check" /\ UNCHANGED answered
  BY DEF ReadReply
<1>3. inFlight \in Seq(SentPart) /\ Len(inFlight) \in Nat /\ n \in Nat /\ n <= Len(inFlight)
  BY DEF StatusInv
<1>4. /\ parts \in Seq(SentPart) /\ Len(parts) = n
      /\ \A k \in 1 .. n : parts[k] = inFlight[k]
  BY <1>3
<1>5. /\ inFlight' \in Seq(SentPart) /\ Len(inFlight') = Len(inFlight) - n
      /\ \A k \in 1 .. Len(inFlight') : inFlight'[k] = inFlight[k + n]
  BY <1>1, <1>3
<1>6. \A k \in 1 .. Len(inFlight) : inFlight[k].msg \in Known
  <2> TAKE k \in 1 .. Len(inFlight)
  <2>1. inFlight[k] \in SentPart
    BY <1>3
  <2>2. inFlight[k].msg \in SentMessage
    BY <2>1 DEF SentPart
  <2>3. QED
    BY <2>2 DEF StatusInv
<1>7. \A k \in 1 .. Len(parts) : parts[k].msg \in Known
  BY <1>3, <1>4, <1>6
<1>8. partialMsg # NoneGiven => partialMsg \in Known
  BY DEF StatusInv
<1> HIDE DEF parts, Known
<1>9. /\ p.ctx \in Known \cup {NoneGiven}
      /\ p.msg # NoneGiven => \E m \in Known : p.msg \in {m, [m EXCEPT !.garbled = TRUE]}
  <2>1. Known \in SUBSET SentMessage /\ partialMsg \in SentMessage \cup {NoneGiven}
    BY DEF Known, StatusInv
  <2>2. QED
    BY <1>4, <1>7, <1>8, <2>1, ProcessedParts
<1>10. got => p.msg.status = OwnStatus /\ answered
  <2> SUFFICES ASSUME got
               PROVE  p.msg.status = OwnStatus /\ answered
    OBVIOUS
  <2>1. PICK m \in Known : p.msg \in {m, [m EXCEPT !.garbled = TRUE]}
    BY <1>9
  <2>2. m \in SentMessage
    BY DEF Known
  <2>3. m = OwnResponse /\ p.msg.status = OwnStatus
    BY <2>1, <2>2, OwnOnly
  <2>4. QED
    BY <2>3 DEF Known
<1>11. /\ partialMsg' = p.ctx /\ isResponsed' = (isResponsed \/ got)
       /\ exitCode' = IF got THEN p.msg.status ELSE exitCode
  BY <1>1 DEF parts
<1> HIDE DEF p, got
<1>12. \A k \in 1 .. Len(inFlight') : inFlight'[k].msg = OwnResponse => answered
  <2> TAKE k \in 1 .. Len(inFlight')
  <2>1. k + n \in 1 .. Len(inFlight) /\ inFlight'[k] = inFlight[k + n]
    BY <1>3, <1>5
  <2>2. QED
    BY <2>1 DEF StatusInv
<1>13. /\ partialMsg' \in SentMessage \cup {NoneGiven}
       /\ partialMsg' = OwnResponse /\ partialMsg' # NoneGiven => answered
  BY <1>9, <1>11 DEF Known
<1>14. isResponsed' => answered /\ exitCode' = OwnStatus
  BY <1>2, <1>10, <1>11 DEF StatusInv
<1>15. QED
  BY <1>2, <1>5, <1>12, <1>13, <1>14 DEF StatusInv, BeforeLoop, StatusIsOwn

LEMMA StatusDelivered ==
  ASSUME StatusInv, RuntimeAnswers \/ RuntimeTells
  PROVE  StatusInv'
<1>1. PICK m \in SentMessage : Delivered(m) /\ (m = OwnResponse => answered')
  BY DEF RuntimeAnswers, RuntimeTells, SentMessage, OwnResponse, Message
<1> DEFINE begin == [first |-> TRUE,  msg |-> m]
           rest  == [first |-> FALSE, msg |-> m]
<1>2. begin \in SentPart /\ rest \in SentPart /\ begin.msg = m /\ rest.msg = m
  BY DEF SentPart
<1>3. inFlight' = inFlight \o <<begin, rest>>
  BY <1>1 DEF Delivered
<1> HIDE DEF begin, rest
<1>4. /\ <<begin, rest>> \in Seq(SentPart) /\ Len(<<begin, rest>>) = 2
      /\ <<begin, rest>>[1] = begin /\ <<begin, rest>>[2] = rest
  BY <1>2
<1>5. inFlight \in Seq(SentPart) /\ Len(inFlight) \in Nat
  BY DEF StatusInv
<1>6. /\ inFlight' \in Seq(SentPart) /\ Len(inFlight') = Len(inFlight) + 2
      /\ \A k \in 1 .. Len(inFlight) : inFlight'[k] = inFlight[k]
      /\ inFlight'[Len(inFlight) + 1] = begin /\ inFlight'[Len(inFlight) + 2] = rest
  BY <1>3, <1>4, <1>5
<1>7. /\ answered => answered'
      /\ UNCHANGED <<partialMsg, isResponsed, stage, exitCode>> /\ stage # "ended"
  <2>1. CASE RuntimeAnswers
    <3>1. answered' = TRUE /\ stage \in {"check", "select"}
          /\ UNCHANGED <<partialMsg, isResponsed, stage, exitCode>>
      BY <2>1 DEF RuntimeAnswers, Linked, waitVars
    <3>2. QED
      BY <3>1
  <2>2. CASE RuntimeTells
    <3>1. stage \in {"check", "select"}
          /\ UNCHANGED <<answered, partialMsg, isResponsed, stage, exitCode>>
      BY <2>2 DEF RuntimeTells, Linked, waitVars
    <3>2. QED
      BY <3>1
  <2>3. QED
    BY <2>1, <2>2
<1>8. \A k \in 1 .. Len(inFlight') : inFlight'[k].msg = OwnResponse => answered'
  <2> TAKE k \in 1 .. Len(inFlight')
  <2>1. CASE k \in 1 .. Len(inFlight)
    BY <1>6, <1>7, <2>1 DEF StatusInv
  <2>2. CASE k \in {Len(inFlight) + 1, Len(inFlight) + 2}
    BY <1>1, <1>2, <1>6, <2>2
  <2>3. QED
    BY <1>5, <1>6, <2>1, <2>2
<1>9. QED
  BY <1>6, <1>7, <1>8 DEF StatusInv, StatusIsOwn

\* The exit status is that of the response to the tool's own request, or says that
\* there was none, however many late responses and events come over the shared
\* connection, however they are cut into reads, and whatever connections are lost
\* (is_responsed in main of the host tool).
THEOREM ToolReportsOwnStatus == ToolSpec => []StatusIsOwn
<1>1. ToolInit => StatusInv
  BY DEF ToolInit, StatusInv, StatusIsOwn
<1>2. StatusInv /\ [ToolNext]_toolVars => StatusInv'
  <2> SUFFICES ASSUME StatusInv, [ToolNext]_toolVars
               PROVE  StatusInv'
    OBVIOUS
  <2>1. CASE UNCHANGED toolVars
    BY <2>1 DEF toolVars, StatusInv, StatusIsOwn
  <2>2. ASSUME UNCHANGED <<inFlight, answered, partialMsg, isResponsed>>,
               \/ stage' = "ended" /\ exitCode' \in {-1, TimeoutExit}
               \/ stage' = "ended" /\ isResponsed /\ stage # "ended" /\ exitCode' = exitCode
               \/ stage' # "ended" /\ stage # "ended" /\ exitCode' = exitCode
                  /\ (stage \in BeforeLoop \/ stage' \notin BeforeLoop)
               \/ stage \in BeforeLoop /\ stage' # "ended"
        PROVE  StatusInv'
    <3>1. StatusIsOwn'
      BY <2>2 DEF StatusInv, StatusIsOwn, TimeoutExit, OwnStatus
    <3>2. QED
      BY <2>2, <3>1 DEF StatusInv, BeforeLoop
  <2>3. CASE \/ \E o \in Operations : OperationOption(o)
             \/ \E a \in Attribute : AttributeOption(a)
             \/ TypeOption \/ UsageOption \/ ParseEnd
    BY <2>2, <2>3 DEF OperationOption, AttributeOption, TypeOption, UsageOption, ParseEnd,
       Parsing, Reject, Connects, TcpInit, UartInit, netVars, waitVars, BeforeLoop
  <2>4. CASE SendPart \/ SendAgain \/ SendFails
    BY <2>2, <2>4 DEF SendPart, SendAgain, SendFails, Sending, AfterPart, Reject, netVars,
       waitVars, BeforeLoop
  <2>5. CASE CheckTime \/ ReadFails \/ SelectTimeout \/ Reconnect \/ SleepEnds \/ SelectFails
    BY <2>2, <2>5 DEF CheckTime, ReadFails, SelectTimeout, Reconnect, Connects,
       TcpInit, UartInit, SleepEnds,
       SelectFails, Reject, netVars, waitVars, BeforeLoop
  <2>6. CASE RuntimeCloses \/ Second
    BY <2>2, <2>6 DEF RuntimeCloses, Second, Linked, Looping, netVars, waitVars, BeforeLoop
  <2>7. QED
    BY <2>1, <2>3, <2>4, <2>5, <2>6, StatusRead, StatusDelivered
       DEF ToolNext, ToolStep, ToolStepsOn
<1>3. StatusInv => StatusIsOwn
  BY DEF StatusInv
<1>4. QED
  BY <1>1, <1>2, <1>3, PTL DEF ToolSpec
=============================================================================
