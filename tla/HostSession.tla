---- MODULE HostSession ----
(***************************************************************************)
(* The runtime's end of the link to the host: one thread accepts or opens  *)
(* the connection and reads it, any thread writes messages to it           *)
(* (samples/simple/src/iwasm_main.c, its copy of the gui sample, and       *)
(* app_manager_host_send_msg in app_manager_host.c).                       *)
(*                                                                         *)
(* A message is two writes, its header and its payload. host_lock keeps a  *)
(* message of one thread from those of the others; sock_lock protects the  *)
(* descriptor, and in server mode its holder may sit in accept().          *)
(* Built for a serial line the program has one connection, the line, and   *)
(* no sock_lock.                                                           *)
(***************************************************************************)
EXTENDS Integers, Sequences

CONSTANTS
  Talker,     \* the threads that send messages
  Reader,     \* the one of them that reads the connection
  MaxSends,   \* messages of a talker, a bound of the model
  MaxPeers    \* hosts that ever connect, a bound of the model

ASSUME SessionAssumption ==
  /\ Reader \in Talker /\ MaxSends \in Nat /\ MaxPeers \in Nat
  /\ "free" \notin Talker   \* that of a lock nobody holds

VARIABLES
  uart,         \* CONNECTION_UART: built for a serial line
  serverMode,   \* server_mode
  sigpipeKills, \* the disposition of SIGPIPE is the default one
  readerAt,     \* where the reading thread is
  sockfd,       \* or uartfd: 0 for -1, else the index of a connection
  sockLock,     \* holder of sock_lock, or "free"
  hostLock,     \* holder of host_lock, or "free"
  peers,        \* the connections: state, and the parts their host has read
  knocking,     \* hosts that wait to be accepted (or, in client mode, listen)
  talk,         \* per talker: where in app_manager_host_send_msg it is
  sent,         \* per talker: the messages begun
  process       \* "running", or how it ended

sessionVars == <<uart, serverMode, sigpipeKills, readerAt, sockfd, sockLock, hostLock,
                 peers, knocking, talk, sent, process>>

readerVars == <<uart, serverMode, sigpipeKills, readerAt, sockfd>>
sendVars   == <<hostLock, talk, sent>>

SessionInit ==
  /\ uart \in BOOLEAN
  /\ serverMode = FALSE /\ sigpipeKills = TRUE /\ readerAt = "arguments"
  /\ sockfd = 0 /\ sockLock = "free" /\ hostLock = "free"
  /\ peers = <<>> /\ knocking = 0
  /\ talk = [t \in Talker |-> "idle"] /\ sent = [t \in Talker |-> 0]
  /\ process = "running"

Reading(at) == process = "running" /\ readerAt = at /\ UNCHANGED uart
GoReader(at) == readerAt' = at

(***************************************************************************)
(* parse_args, then the thread is created. Only the server ignores SIGPIPE.*)
(***************************************************************************)
ServerOption ==
  /\ Reading("arguments") /\ ~uart
  /\ serverMode' = TRUE
  /\ UNCHANGED <<sigpipeKills, readerAt, sockfd, sockLock, peers, knocking, sendVars, process>>

\* -h, or an option that this build has not.
OptionRefused ==
  /\ Reading("arguments")
  /\ process' = "exited"
  /\ UNCHANGED <<serverMode, sigpipeKills, readerAt, sockfd, sockLock, peers, knocking, sendVars>>

OptionsEnd ==
  /\ Reading("arguments")
  /\ GoReader("created")
  /\ UNCHANGED <<serverMode, sigpipeKills, sockfd, sockLock, peers, knocking, sendVars, process>>

StartServer ==
  /\ Reading("created") /\ ~uart /\ serverMode
  /\ sigpipeKills' = FALSE /\ GoReader("unlocked")
  /\ UNCHANGED <<serverMode, sockfd, sockLock, peers, knocking, sendVars, process>>

StartClient ==
  /\ Reading("created") /\ ~uart /\ ~serverMode
  /\ GoReader("opening")
  /\ UNCHANGED <<serverMode, sigpipeKills, sockfd, sockLock, peers, knocking, sendVars, process>>

(***************************************************************************)
(* Server mode: sock_lock is held over accept().                           *)
(***************************************************************************)
LockToAccept ==
  /\ Reading("unlocked") /\ sockLock = "free"
  /\ sockLock' = Reader /\ GoReader("accepting")
  /\ UNCHANGED <<serverMode, sigpipeKills, sockfd, peers, knocking, sendVars, process>>

NewPeer == [open |-> TRUE, connected |-> TRUE, got |-> <<>>]

Accept ==
  /\ Reading("accepting") /\ knocking > 0
  /\ knocking' = knocking - 1
  /\ peers' = Append(peers, NewPeer) /\ sockfd' = Len(peers) + 1
  /\ GoReader("accepted")
  /\ UNCHANGED <<serverMode, sigpipeKills, sockLock, sendVars, process>>

AcceptFails ==
  /\ Reading("accepting")
  /\ sockfd' = 0 /\ sockLock' = "free" /\ process' = "exited"
  /\ UNCHANGED <<serverMode, sigpipeKills, readerAt, peers, knocking, sendVars>>

UnlockAccepted ==
  /\ Reading("accepted")
  /\ sockLock' = "free" /\ GoReader("reading")
  /\ UNCHANGED <<serverMode, sigpipeKills, sockfd, peers, knocking, sendVars, process>>

(***************************************************************************)
(* Both modes: bytes read are handed to the application manager, whose     *)
(* handler may answer from this thread.                                    *)
(***************************************************************************)
ReadBytes ==
  /\ Reading("reading") /\ peers[sockfd].open
  /\ GoReader("handling")
  /\ UNCHANGED <<serverMode, sigpipeKills, sockfd, sockLock, peers, knocking, sendVars, process>>

Handled ==
  /\ Reading("handling") /\ talk[Reader] = "idle"
  /\ GoReader("reading")
  /\ UNCHANGED <<serverMode, sigpipeKills, sockfd, sockLock, peers, knocking, sendVars, process>>

ReadEnd ==
  /\ Reading("reading") /\ ~uart /\ ~peers[sockfd].open
  /\ GoReader(IF serverMode THEN "hungup" ELSE "opening")
  /\ UNCHANGED <<serverMode, sigpipeKills, sockfd, sockLock, peers, knocking, sendVars, process>>

LockToClose ==
  /\ Reading("hungup") /\ sockLock = "free"
  /\ sockLock' = Reader /\ GoReader("closing")
  /\ UNCHANGED <<serverMode, sigpipeKills, sockfd, peers, knocking, sendVars, process>>

\* The descriptor is closed and forgotten; a second later the next host is served.
CloseSocket ==
  /\ Reading("closing")
  /\ sockfd' = 0 /\ sockLock' = "free" /\ GoReader("unlocked")
  /\ UNCHANGED <<serverMode, sigpipeKills, peers, knocking, sendVars, process>>

(***************************************************************************)
(* Client mode: no lock. The old socket is closed, a new one stored before *)
(* it is connected; without a host the thread sleeps and begins again.     *)
(***************************************************************************)
OpenSocket ==
  /\ Reading("opening") /\ Len(peers) < MaxPeers
  /\ peers' = Append(peers, [NewPeer EXCEPT !.connected = FALSE])
  /\ sockfd' = Len(peers) + 1 /\ GoReader("connecting")
  /\ UNCHANGED <<serverMode, sigpipeKills, sockLock, knocking, sendVars, process>>

Connect ==
  /\ Reading("connecting") /\ knocking > 0
  /\ knocking' = knocking - 1
  /\ peers' = [peers EXCEPT ![sockfd].connected = TRUE]
  /\ GoReader("reading")
  /\ UNCHANGED <<serverMode, sigpipeKills, sockfd, sockLock, sendVars, process>>

ConnectFails ==
  /\ Reading("connecting") /\ knocking = 0
  /\ GoReader("opening")
  /\ UNCHANGED <<serverMode, sigpipeKills, sockfd, sockLock, peers, knocking, sendVars, process>>

(***************************************************************************)
(* The serial line: it is opened once, and given up when it breaks down.   *)
(***************************************************************************)
StartUart ==
  /\ Reading("created") /\ uart /\ Len(peers) < MaxPeers
  /\ peers' = Append(peers, NewPeer) /\ sockfd' = Len(peers) + 1
  /\ GoReader("reading")
  /\ UNCHANGED <<serverMode, sigpipeKills, sockLock, knocking, sendVars, process>>

\* There is no such device, or it does not take the settings: the thread ends.
StartUartFails ==
  /\ Reading("created") /\ uart
  /\ GoReader("ended")
  /\ UNCHANGED <<serverMode, sigpipeKills, sockfd, sockLock, peers, knocking, sendVars, process>>

UartEnd ==
  /\ Reading("reading") /\ uart /\ ~peers[sockfd].open
  /\ sockfd' = 0 /\ GoReader("ended")
  /\ UNCHANGED <<serverMode, sigpipeKills, sockLock, peers, knocking, sendVars, process>>

(***************************************************************************)
(* app_manager_host_send_msg and host_send. The reading thread sends only  *)
(* from the handler.                                                       *)
(***************************************************************************)
Talking(t, at) ==
  process = "running" /\ talk[t] = at /\ UNCHANGED <<readerVars, knocking>>

\* Variant: no host_lock.
TakeHostLockUnlocked(t) ==
  /\ Talking(t, "idle") /\ sent[t] < MaxSends
  /\ t = Reader => readerAt = "handling"
  /\ UNCHANGED hostLock
  /\ talk' = [talk EXCEPT ![t] = "header"] /\ sent' = [sent EXCEPT ![t] = @ + 1]
  /\ UNCHANGED <<sockLock, peers, process>>

TakeHostLock(t) ==
  /\ Talking(t, "idle") /\ sent[t] < MaxSends
  /\ t = Reader => readerAt = "handling"
  /\ hostLock = "free"
  /\ hostLock' = t
  /\ talk' = [talk EXCEPT ![t] = "header"] /\ sent' = [sent EXCEPT ![t] = @ + 1]
  /\ UNCHANGED <<sockLock, peers, process>>

\* What follows the write of one part: all of it was sent, or not.
Proceed(t, at, complete) ==
  /\ IF at = "header" /\ complete
     THEN talk' = [talk EXCEPT ![t] = "payload"] /\ UNCHANGED hostLock
     ELSE talk' = [talk EXCEPT ![t] = "idle"] /\ hostLock' = "free"
  /\ UNCHANGED sent

\* Variant: the thread waits for the lock.
TryFailsNever(t, at) == FALSE

\* The lock is busy: -1 is returned, nothing is sent.
TryFails(t, at) ==
  /\ Talking(t, at) /\ sockLock # "free"
  /\ Proceed(t, at, FALSE)
  /\ UNCHANGED <<sockLock, peers, process>>

TryLock(t, at) ==
  /\ Talking(t, at) /\ sockLock = "free"
  /\ sockLock' = t
  /\ talk' = [talk EXCEPT ![t] = IF at = "header" THEN "writing header" ELSE "writing payload"]
  /\ UNCHANGED <<hostLock, sent, peers, process>>

Unlocking(t, at, complete) == sockLock' = "free" /\ Proceed(t, at, complete)

NoSocket(t, at, writing) ==
  /\ Talking(t, writing) /\ sockfd = 0
  /\ Unlocking(t, at, FALSE)
  /\ UNCHANGED <<peers, process>>

Write(t, at, writing) ==
  /\ Talking(t, writing) /\ sockfd # 0
  /\ peers[sockfd].connected
  /\ peers' = IF peers[sockfd].open
              THEN [peers EXCEPT ![sockfd].got = Append(@, <<at, t, sent[t]>>)]
              ELSE peers
  /\ Unlocking(t, at, TRUE)
  /\ UNCHANGED process

\* The host is gone, or no host is connected yet: EPIPE, and the signal with it.
WriteBroken(t, at, writing) ==
  /\ Talking(t, writing) /\ sockfd # 0
  /\ ~(peers[sockfd].connected /\ peers[sockfd].open)
  /\ process' = IF sigpipeKills THEN "killed" ELSE process
  /\ Unlocking(t, at, FALSE)
  /\ UNCHANGED peers

\* uart_send: no lock, whoever opens or closes the line at the same time.
UartSend(t, at) ==
  /\ Talking(t, at) /\ sockfd # 0 /\ peers[sockfd].open
  /\ peers' = [peers EXCEPT ![sockfd].got = Append(@, <<at, t, sent[t]>>)]
  /\ Proceed(t, at, TRUE)
  /\ UNCHANGED <<sockLock, process>>

\* EBADF or EIO, without a signal.
UartSendFails(t, at) ==
  /\ Talking(t, at) /\ (sockfd # 0 => ~peers[sockfd].open)
  /\ Proceed(t, at, FALSE)
  /\ UNCHANGED <<sockLock, peers, process>>

SendStep(t) ==
  \E part \in {<<"header", "writing header">>, <<"payload", "writing payload">>} :
    \/ uart /\ UartSend(t, part[1])
    \/ uart /\ UartSendFails(t, part[1])
    \/ ~uart /\ TryFails(t, part[1])
    \/ ~uart /\ TryLock(t, part[1])
    \/ NoSocket(t, part[1], part[2])
    \/ Write(t, part[1], part[2])
    \/ WriteBroken(t, part[1], part[2])

(***************************************************************************)
(* The hosts. On a serial line nobody knocks, but the line may break down. *)
(***************************************************************************)
Knock ==
  /\ process = "running" /\ ~uart /\ Len(peers) + knocking < MaxPeers
  /\ knocking' = knocking + 1
  /\ UNCHANGED <<readerVars, sockLock, sendVars, peers, process>>

HangUp ==
  /\ process = "running"
  /\ \E c \in 1..Len(peers) :
       /\ peers[c].open /\ peers[c].connected
       /\ peers' = [peers EXCEPT ![c].open = FALSE]
  /\ UNCHANGED <<readerVars, sockLock, knocking, sendVars, process>>

ReaderStep ==
  \/ ServerOption \/ OptionsEnd \/ StartServer \/ StartClient
  \/ LockToAccept \/ Accept \/ UnlockAccepted
  \/ ReadBytes \/ Handled \/ ReadEnd \/ LockToClose \/ CloseSocket
  \/ OpenSocket \/ Connect \/ ConnectFails
  \/ StartUart \/ StartUartFails \/ UartEnd

SessionNext ==
  \/ ReaderStep \/ OptionRefused \/ AcceptFails
  \/ \E t \in Talker : TakeHostLock(t) \/ SendStep(t)
  \/ Knock \/ HangUp

\* Threads that send run on; of the reading thread nothing is assumed.
SessionFairness ==
  \A t \in Talker : WF_sessionVars(SendStep(t))

SessionSpec == SessionInit /\ [][SessionNext]_sessionVars /\ SessionFairness

(***************************************************************************)
(* Properties.                                                             *)
(***************************************************************************)

(***************************************************************************)
(* What a host reads is whole messages, whichever threads sent them and    *)
(* whenever the connection changed: every header is followed by its own    *)
(* payload unless it is the last thing read, and every payload follows its *)
(* header unless it is the first, the rest of a message begun on the       *)
(* connection before (app_manager_host_send_msg under host_lock).          *)
(***************************************************************************)
StreamsWhole ==
  \A c \in 1..Len(peers) :
    LET got == peers[c].got IN
      \A i \in 1..(Len(got) - 1) :
        \/ got[i][1] = "header" /\ got[i + 1] = [got[i] EXCEPT ![1] = "payload"]
        \/ got[i][1] = "payload" /\ got[i + 1][1] = "header"

(***************************************************************************)
(* A thread that has begun to send a message gets an answer, though the    *)
(* reading thread sits in accept() with sock_lock for as long as no host   *)
(* comes (the trylock of host_send).                                       *)
(***************************************************************************)
SendReturns ==
  \A t \in Talker : (talk[t] # "idle") ~> (talk[t] = "idle" \/ process # "running")
====
