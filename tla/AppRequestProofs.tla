--------------------------- MODULE AppRequestProofs ---------------------------
(***************************************************************************)
(* HandledOnce for every number of requests, every time-out and every      *)
(* width of the clock, wherever the application sends its requests: each   *)
(* transaction has one owner, which is the list, the list of the expired   *)
(* ones, or the handler that runs.  From the same invariant: no time-out   *)
(* comes early, and, for applications that do not do what the findings are *)
(* about, none comes late.                                                 *)
(*                                                                         *)
(* The second half is about the library of AssemblyScript: ToldInTime, for *)
(* its timer is set for the first transaction, or for the second when the  *)
(* first was answered, until the timer's message is in the queue.          *)
(***************************************************************************)
EXTENDS AppRequest, AsRequest, SequenceLemmas, FiniteSetTheorems, TLAPS

Outcome == {"response", "timeout"}

\* The shape of the data that transactions are followed through.
ShapeOK ==
  /\ nextMid \in Nat
  /\ transactions \in Seq([mid : Mid, time : Int])
  /\ expired \in Seq(Mid)
  /\ ended \in [Mid -> Seq(Outcome)]

\* The requests of the list are different ones, were sent, and their handlers
\* were not called, but for the one whose handler is running.
ListOwns ==
  /\ \A j, k \in DOMAIN transactions :
        transactions[j].mid = transactions[k].mid => j = k
  /\ \A k \in DOMAIN transactions :
        /\ transactions[k].mid < nextMid
        /\ \/ ended[transactions[k].mid] = <<>>
           \/ at \in {"response", "spin"} /\ transactions[k].mid = current

\* So are the expired ones, and none of them is in the list.
ExpiredOwns ==
  /\ \A j, k \in DOMAIN expired : expired[j] = expired[k] => j = k
  /\ \A k \in DOMAIN expired :
        /\ expired[k] < nextMid
        /\ ended[expired[k]] = <<>>
        /\ \A j \in DOMAIN transactions : transactions[j].mid # expired[k]

\* A request that was not sent has no outcome.
UnsentOpen == \A m \in Mid : m >= nextMid => ended[m] = <<>>

OwnInv == ShapeOK /\ ListOwns /\ ExpiredOwns /\ UnsentOpen /\ HandledOnce

LEMMA Elements ==
  ASSUME ShapeOK
  PROVE  /\ DOMAIN transactions = 1 .. Len(transactions) /\ Len(transactions) \in Nat
         /\ \A k \in DOMAIN transactions : transactions[k].mid \in Mid
         /\ DOMAIN expired = 1 .. Len(expired) /\ Len(expired) \in Nat
         /\ \A k \in DOMAIN expired : expired[k] \in Mid
<1>1. transactions \in Seq([mid : Mid, time : Int]) /\ expired \in Seq(Mid)
  BY DEF ShapeOK
<1>2. /\ DOMAIN transactions = 1 .. Len(transactions) /\ Len(transactions) \in Nat
      /\ DOMAIN expired = 1 .. Len(expired) /\ Len(expired) \in Nat
  BY <1>1, LenProperties
<1>3. \A k \in 1 .. Len(transactions) : transactions[k] \in [mid : Mid, time : Int]
  BY <1>1, ElementOfSeq
<1>4. \A k \in 1 .. Len(expired) : expired[k] \in Mid
  BY <1>1, ElementOfSeq
<1>5. QED
  BY <1>2, <1>3, <1>4

\* The steps that leave every transaction where it is.
LEMMA Elsewhere ==
  ASSUME OwnInv, at \notin {"response", "spin"},
         UNCHANGED <<transactions, nextMid, expired, ended>>
  PROVE  OwnInv'
BY DEF OwnInv, ShapeOK, ListOwns, ExpiredOwns, UnsentOpen, HandledOnce

LEMMA Environment ==
  ASSUME OwnInv, UNCHANGED <<transactions, nextMid, appVars, ended>>
  PROVE  OwnInv'
BY DEF OwnInv, ShapeOK, ListOwns, ExpiredOwns, UnsentOpen, HandledOnce, appVars

LEMMA ClockIsInteger ==
  ASSUME now \in Int
  PROVE  Clock \in Int
BY TimeAssumption DEF Clock

\* A request that is sent is new, and goes to the tail of the list or nowhere.
LEMMA SendStep ==
  ASSUME OwnInv, now \in Int, SendRequest
  PROVE  OwnInv'
<1> DEFINE tr == [mid |-> nextMid, time |-> Clock]
<1>1. /\ nextMid \in Mid /\ nextMid' = nextMid + 1
      /\ UNCHANGED <<current, expired, ended>>
      /\ AddTransaction(tr)
  BY DEF SendRequest
<1>2. tr \in [mid : Mid, time : Int] /\ tr.mid = nextMid
  BY <1>1, ClockIsInteger
<1>3. nextMid \in Nat /\ transactions \in Seq([mid : Mid, time : Int])
  BY DEF OwnInv, ShapeOK
<1>4. CASE transactions' = Append(transactions, tr) /\ at' = at
  <2>1. /\ transactions' \in Seq([mid : Mid, time : Int])
        /\ DOMAIN transactions' = 1 .. Len(transactions) + 1
        /\ \A k \in DOMAIN transactions : transactions'[k] = transactions[k]
        /\ transactions'[Len(transactions) + 1] = tr
        /\ DOMAIN transactions = 1 .. Len(transactions) /\ Len(transactions) \in Nat
    BY <1>2, <1>3, <1>4
  <2>2. ASSUME NEW k \in DOMAIN transactions'
        PROVE  \/ k \in DOMAIN transactions /\ transactions'[k] = transactions[k]
               \/ k = Len(transactions) + 1 /\ transactions'[k] = tr
    BY <2>1
  <2>3. ASSUME NEW k \in DOMAIN transactions
        PROVE  transactions[k].mid < nextMid /\ transactions[k].mid \in Mid
    BY Elements DEF OwnInv, ListOwns
  <2>4. ListOwns'
    <3>1. ASSUME NEW j \in DOMAIN transactions', NEW k \in DOMAIN transactions',
                 transactions'[j].mid = transactions'[k].mid
          PROVE  j = k
      BY <1>2, <1>3, <2>2, <2>3, <3>1, SMTT(30) DEF OwnInv, ListOwns, Mid
    <3>2. ASSUME NEW k \in DOMAIN transactions'
          PROVE  /\ transactions'[k].mid < nextMid'
                 /\ \/ ended[transactions'[k].mid] = <<>>
                    \/ at \in {"response", "spin"} /\ transactions'[k].mid = current
      BY <1>1, <1>2, <1>3, <2>2, <2>3 DEF OwnInv, ListOwns, UnsentOpen, Mid
    <3>3. QED
      BY <1>1, <1>4, <3>1, <3>2 DEF ListOwns
  <2>5. ExpiredOwns'
    <3>1. ASSUME NEW k \in DOMAIN expired, NEW j \in DOMAIN transactions'
          PROVE  transactions'[j].mid # expired[k]
      BY <1>2, <1>3, <2>2, Elements DEF OwnInv, ExpiredOwns, Mid
    <3>2. ASSUME NEW k \in DOMAIN expired
          PROVE  expired[k] < nextMid'
      BY <1>1, <1>3, Elements DEF OwnInv, ExpiredOwns, Mid
    <3>3. QED
      BY <1>1, <3>1, <3>2 DEF OwnInv, ExpiredOwns
  <2>6. ShapeOK'
    BY <1>1, <1>3, <2>1 DEF OwnInv, ShapeOK
  <2>7. UnsentOpen' /\ HandledOnce'
    BY <1>1, <1>3 DEF OwnInv, UnsentOpen, HandledOnce, Mid
  <2>8. QED
    BY <2>4, <2>5, <2>6, <2>7 DEF OwnInv
<1>5. CASE UNCHANGED transactions /\ at' = "spin"
  <2>1. at # "spin"
    BY PlaceAssumption DEF SendRequest
  <2>2. \A k \in DOMAIN transactions : transactions[k].mid \in Mid
    BY Elements DEF OwnInv
  <2>3. ListOwns'
    BY <1>1, <1>3, <1>5, <2>2 DEF OwnInv, ListOwns, Mid
  <2>4. ExpiredOwns'
    BY <1>1, <1>3, <1>5, Elements DEF OwnInv, ExpiredOwns, Mid
  <2>5. QED
    BY <1>1, <1>3, <1>5, <2>3, <2>4 DEF OwnInv, ShapeOK, UnsentOpen, HandledOnce, Mid
<1>6. QED
  BY <1>1, <1>4, <1>5 DEF AddTransaction

\* The outcome of one request is written, and it had none.
LEMMA CallStep ==
  ASSUME ShapeOK, UnsentOpen, HandledOnce, NEW m \in Mid, NEW how \in Outcome,
         m < nextMid, ended[m] = <<>>, Call(m, how), UNCHANGED nextMid
  PROVE  /\ ended' \in [Mid -> Seq(Outcome)]
         /\ \A q \in Mid : q # m => ended'[q] = ended[q]
         /\ UnsentOpen' /\ HandledOnce'
<1>1. ended' = [ended EXCEPT ![m] = Append(<<>>, how)]
  BY DEF Call
<1>2. Append(<<>>, how) \in Seq(Outcome) /\ Len(Append(<<>>, how)) = 1
  OBVIOUS
<1>3. /\ ended' \in [Mid -> Seq(Outcome)]
      /\ \A q \in Mid : q # m => ended'[q] = ended[q]
      /\ Len(ended'[m]) = 1
  BY <1>1, <1>2 DEF ShapeOK
<1>4. UnsentOpen'
  <2>1. ASSUME NEW q \in Mid, q >= nextMid
        PROVE  ended'[q] = <<>>
    <3>1. q # m
      BY <2>1 DEF ShapeOK, Mid
    <3>2. QED
      BY <1>3, <2>1, <3>1 DEF UnsentOpen
  <2>2. QED
    BY <2>1 DEF UnsentOpen
<1>5. HandledOnce'
  <2>1. ASSUME NEW q \in Mid
        PROVE  Len(ended'[q]) <= 1
    BY <1>3 DEF HandledOnce
  <2>2. QED
    BY <2>1 DEF HandledOnce
<1>6. QED
  BY <1>3, <1>4, <1>5

\* The handler of a transaction of the list is called.
LEMMA ResponseStep ==
  ASSUME OwnInv, NEW m \in Mid, OnResponse(m)
  PROVE  OwnInv'
<1>1. PICK k \in DOMAIN transactions : transactions[k].mid = m
  BY DEF OnResponse, IndexOf
<1>2. /\ at = "idle" /\ at' = "response" /\ current' = m
      /\ UNCHANGED <<transactions, nextMid, expired>>
      /\ Call(m, "response")
  BY DEF OnResponse, Take, Call
<1>3. m < nextMid /\ ended[m] = <<>>
  BY <1>1, <1>2 DEF OwnInv, ListOwns
<1>4. /\ ended' \in [Mid -> Seq(Outcome)]
      /\ \A q \in Mid : q # m => ended'[q] = ended[q]
      /\ UnsentOpen' /\ HandledOnce'
  BY <1>2, <1>3, CallStep DEF OwnInv, Outcome
<1>5. \A j \in DOMAIN transactions : transactions[j].mid \in Mid
  BY Elements DEF OwnInv
<1>6. ListOwns'
  BY <1>2, <1>4, <1>5 DEF OwnInv, ListOwns
<1>7. \A j \in DOMAIN expired : expired[j] \in Mid /\ expired[j] # m
  BY <1>1, Elements DEF OwnInv, ExpiredOwns
<1>8. ExpiredOwns'
  BY <1>2, <1>4, <1>7 DEF OwnInv, ExpiredOwns
<1>9. QED
  BY <1>2, <1>4, <1>6, <1>8 DEF OwnInv, ShapeOK

\* The transaction whose handler ran leaves the list.
LEMMA ResponseReturnsStep ==
  ASSUME OwnInv, ResponseReturns
  PROVE  OwnInv'
<1>1. PICK k \in DOMAIN transactions :
         transactions[k].mid = current /\ transactions' = RemoveAt(transactions, k)
  BY DEF ResponseReturns, IndexOf
<1>2. at' = "idle" /\ UNCHANGED <<nextMid, expired, ended>>
  BY DEF ResponseReturns
<1>3. transactions \in Seq([mid : Mid, time : Int])
  BY DEF OwnInv, ShapeOK
<1>4. DOMAIN transactions = 1 .. Len(transactions) /\ Len(transactions) \in Nat
  BY Elements DEF OwnInv
<1>5. /\ transactions' \in Seq([mid : Mid, time : Int])
      /\ Len(transactions') = Len(transactions) - 1
      /\ \A j \in 1 .. Len(transactions) - 1 :
            transactions'[j] = IF j < k THEN transactions[j] ELSE transactions[j + 1]
  BY <1>1, <1>3, <1>4, RemoveAtElements, ZenonT(30)
<1>6. DOMAIN transactions' = 1 .. Len(transactions) - 1
  BY <1>5
<1>7. ASSUME NEW j \in DOMAIN transactions'
      PROVE  \E i \in DOMAIN transactions :
                /\ i # k /\ i = IF j < k THEN j ELSE j + 1
                /\ transactions'[j] = transactions[i]
  BY <1>4, <1>5, <1>6
<1>8. ListOwns'
  <2>1. ASSUME NEW i \in DOMAIN transactions', NEW j \in DOMAIN transactions',
               transactions'[i].mid = transactions'[j].mid
        PROVE  i = j
    BY <1>4, <1>6, <1>7, <2>1 DEF OwnInv, ListOwns
  <2>2. ASSUME NEW j \in DOMAIN transactions'
        PROVE  transactions'[j].mid < nextMid /\ ended[transactions'[j].mid] = <<>>
    BY <1>1, <1>7 DEF OwnInv, ListOwns
  <2>3. QED
    BY <1>2, <2>1, <2>2 DEF ListOwns
<1>9. ExpiredOwns'
  BY <1>2, <1>7 DEF OwnInv, ExpiredOwns
<1>10. QED
  BY <1>2, <1>5, <1>8, <1>9 DEF OwnInv, ShapeOK, UnsentOpen, HandledOnce

\* The expired transactions go from one list to the other.
LEMMA TimerStep ==
  ASSUME OwnInv, OnTimer
  PROVE  OwnInv'
<1>1. PICK n \in 0 .. Len(transactions) :
         /\ expired' = [k \in 1 .. n |-> transactions[n + 1 - k].mid]
         /\ transactions' = SubSeq(transactions, n + 1, Len(transactions))
  BY DEF OnTimer
<1>2. at = "idle" /\ at' = "timeout" /\ UNCHANGED <<nextMid, ended>>
  BY DEF OnTimer, Take
<1>3. transactions \in Seq([mid : Mid, time : Int])
  BY DEF OwnInv, ShapeOK
<1>4. /\ DOMAIN transactions = 1 .. Len(transactions) /\ Len(transactions) \in Nat
      /\ \A k \in DOMAIN transactions :
            /\ transactions[k] \in [mid : Mid, time : Int]
            /\ transactions[k].mid \in Mid
            /\ transactions[k].mid < nextMid /\ ended[transactions[k].mid] = <<>>
  BY <1>2, <1>3, Elements, ElementOfSeq DEF OwnInv, ListOwns
<1>5. /\ transactions' \in Seq([mid : Mid, time : Int])
      /\ Len(transactions') = Len(transactions) - n
      /\ \A k \in 1 .. Len(transactions) - n : transactions'[k] = transactions[n + k]
  <2>1. n + 1 \in Int /\ Len(transactions) \in Int
    BY <1>4
  <2>2. \A i \in n + 1 .. Len(transactions) :
           transactions[i] \in [mid : Mid, time : Int]
    BY <1>4
  <2> DEFINE rest == SubSeq(transactions, n + 1, Len(transactions))
  <2>3. /\ rest \in Seq([mid : Mid, time : Int])
        /\ Len(rest) = IF n + 1 <= Len(transactions)
                       THEN Len(transactions) - (n + 1) + 1 ELSE 0
        /\ \A i \in 1 .. Len(transactions) - (n + 1) + 1 :
              rest[i] = transactions[n + 1 + i - 1]
    BY <2>1, <2>2, SubSeqProperties
  <2>4. transactions' = rest
    BY <1>1
  <2> HIDE DEF rest
  <2>5. Len(rest) = Len(transactions) - n
    <3>1. Len(transactions) \in Nat /\ n \in Int /\ n <= Len(transactions)
      BY <1>4
    <3>2. Len(rest) = IF n + 1 <= Len(transactions)
                      THEN Len(transactions) - (n + 1) + 1 ELSE 0
      BY <2>3
    <3>3. QED
      BY <3>1, <3>2
  <2>6. \A k \in 1 .. Len(transactions) - n : rest[k] = transactions[n + k]
    <3> SUFFICES ASSUME NEW k \in 1 .. Len(transactions) - n
                 PROVE  rest[k] = transactions[n + k]
      OBVIOUS
    <3>1. k \in 1 .. Len(transactions) - (n + 1) + 1 /\ n + 1 + k - 1 = n + k
      BY <1>4
    <3>2. QED
      BY <2>3, <3>1
  <2>7. QED
    BY <2>3, <2>4, <2>5, <2>6
<1>6. DOMAIN transactions' = 1 .. Len(transactions) - n
  BY <1>5, LenProperties
<1>7. /\ DOMAIN expired' = 1 .. n
      /\ \A k \in 1 .. n : expired'[k] = transactions[n + 1 - k].mid
  BY <1>1
<1>8. expired' \in Seq(Mid)
  <2>1. \A k \in 1 .. n : expired'[k] \in Mid
    <3> SUFFICES ASSUME NEW k \in 1 .. n
                 PROVE  expired'[k] \in Mid
      OBVIOUS
    <3>1. n + 1 - k \in DOMAIN transactions
      BY <1>4
    <3>2. QED
      BY <1>4, <1>7, <3>1
  <2>2. expired' \in [1 .. n -> Mid] /\ n \in Nat
    BY <1>1, <2>1
  <2>3. QED
    BY <2>2
<1>9. ListOwns'
  <2>1. ASSUME NEW i \in DOMAIN transactions', NEW j \in DOMAIN transactions',
               transactions'[i].mid = transactions'[j].mid
        PROVE  i = j
    <3>1. n + i \in DOMAIN transactions /\ n + j \in DOMAIN transactions
      BY <1>4, <1>6
    <3>2. transactions[n + i].mid = transactions[n + j].mid
      BY <1>5, <1>6, <2>1
    <3>3. n + i = n + j
      BY <3>1, <3>2 DEF OwnInv, ListOwns
    <3>4. QED
      BY <1>4, <1>6, <3>3
  <2>2. ASSUME NEW j \in DOMAIN transactions'
        PROVE  transactions'[j].mid < nextMid /\ ended[transactions'[j].mid] = <<>>
    <3>1. n + j \in DOMAIN transactions /\ transactions'[j] = transactions[n + j]
      BY <1>4, <1>5, <1>6
    <3>2. QED
      BY <1>4, <3>1
  <2>3. QED
    BY <1>2, <2>1, <2>2 DEF ListOwns
<1>10. ExpiredOwns'
  <2>1. ASSUME NEW i \in DOMAIN expired'
        PROVE  /\ n + 1 - i \in DOMAIN transactions
               /\ expired'[i] = transactions[n + 1 - i].mid
    BY <1>4, <1>7
  <2>2. ASSUME NEW i \in DOMAIN expired', NEW j \in DOMAIN expired',
               expired'[i] = expired'[j]
        PROVE  i = j
    <3>1. n + 1 - i = n + 1 - j
      BY <2>1, <2>2 DEF OwnInv, ListOwns
    <3>2. QED
      BY <1>7, <3>1
  <2>3. ASSUME NEW i \in DOMAIN expired'
        PROVE  /\ expired'[i] < nextMid /\ ended[expired'[i]] = <<>>
               /\ \A j \in DOMAIN transactions' : transactions'[j].mid # expired'[i]
    <3>1. expired'[i] < nextMid /\ ended[expired'[i]] = <<>>
      BY <1>4, <2>1
    <3>2. ASSUME NEW j \in DOMAIN transactions'
          PROVE  transactions'[j].mid # expired'[i]
      <4>1. n + j \in DOMAIN transactions /\ transactions'[j] = transactions[n + j]
        BY <1>4, <1>5, <1>6
      <4>2. n + j # n + 1 - i
        BY <1>6, <1>7
      <4>3. QED
        BY <2>1, <4>1, <4>2 DEF OwnInv, ListOwns
    <3>3. QED
      BY <3>1, <3>2
  <2>4. QED
    BY <1>2, <2>2, <2>3 DEF ExpiredOwns
<1>11. QED
  BY <1>2, <1>5, <1>8, <1>9, <1>10 DEF OwnInv, ShapeOK, UnsentOpen, HandledOnce

\* The handler of the first of the expired transactions is called.
LEMMA ExpiredStep ==
  ASSUME OwnInv, CallExpired
  PROVE  OwnInv'
<1> DEFINE m == Head(expired)
<1>1. /\ at = "timeout" /\ at' = "timeout" /\ expired # <<>>
      /\ expired' = Tail(expired) /\ Call(m, "timeout")
      /\ UNCHANGED <<transactions, nextMid>>
  BY DEF CallExpired
<1>2. expired \in Seq(Mid)
  BY DEF OwnInv, ShapeOK
<1>3. Len(expired) \in Nat \ {0} /\ DOMAIN expired = 1 .. Len(expired)
  BY <1>1, <1>2, EmptySeq, LenProperties
<1>4. m = expired[1] /\ 1 \in DOMAIN expired
  BY <1>2, <1>3
<1>5. /\ Tail(expired) \in Seq(Mid)
      /\ DOMAIN Tail(expired) = 1 .. Len(expired) - 1
      /\ \A k \in 1 .. Len(expired) - 1 : Tail(expired)[k] = expired[k + 1]
  BY <1>1, <1>2, HeadTailProperties, LenProperties
<1>6. m \in Mid /\ m < nextMid /\ ended[m] = <<>>
  BY <1>4, Elements DEF OwnInv, ExpiredOwns
<1> HIDE DEF m
<1>7. /\ ended' \in [Mid -> Seq(Outcome)]
      /\ \A q \in Mid : q # m => ended'[q] = ended[q]
      /\ UnsentOpen' /\ HandledOnce'
  BY <1>1, <1>6, CallStep DEF OwnInv, Outcome
<1>8. \A j \in DOMAIN transactions :
         transactions[j].mid \in Mid /\ transactions[j].mid # m
  BY <1>4, Elements DEF OwnInv, ExpiredOwns
<1>9. ListOwns'
  BY <1>1, <1>7, <1>8 DEF OwnInv, ListOwns
<1>10. ExpiredOwns'
  <2>1. ASSUME NEW k \in DOMAIN expired'
        PROVE  /\ k + 1 \in DOMAIN expired /\ expired'[k] = expired[k + 1]
               /\ expired'[k] \in Mid /\ expired'[k] # m
    <3>1. k + 1 \in DOMAIN expired /\ expired'[k] = expired[k + 1] /\ k + 1 # 1
      BY <1>1, <1>3, <1>5
    <3>2. QED
      BY <1>4, <3>1, Elements DEF OwnInv, ExpiredOwns
  <2>2. ASSUME NEW j \in DOMAIN expired', NEW k \in DOMAIN expired',
               expired'[j] = expired'[k]
        PROVE  j = k
    <3>1. j + 1 = k + 1
      BY <2>1, <2>2 DEF OwnInv, ExpiredOwns
    <3>2. QED
      BY <1>1, <1>3, <1>5, <3>1
  <2>3. ASSUME NEW k \in DOMAIN expired'
        PROVE  /\ expired'[k] < nextMid /\ ended'[expired'[k]] = <<>>
               /\ \A j \in DOMAIN transactions : transactions[j].mid # expired'[k]
    BY <1>7, <2>1 DEF OwnInv, ExpiredOwns
  <2>4. QED
    BY <1>1, <2>2, <2>3 DEF ExpiredOwns
<1>11. QED
  BY <1>1, <1>5, <1>7, <1>9, <1>10 DEF OwnInv, ShapeOK

LEMMA OwnInvariance == Spec => []OwnInv
<1> DEFINE Inv == OwnInv /\ now \in Int
<1>1. Init => Inv
  <2>1. ASSUME Init
        PROVE  Inv
    <3>1. ShapeOK
      BY <2>1 DEF Init, ShapeOK
    <3>2. now \in Int
      BY <2>1, TimeAssumption DEF Init
    <3>3. QED
      BY <2>1, <3>1, <3>2 DEF Init, OwnInv, ListOwns, ExpiredOwns, UnsentOpen, HandledOnce
  <2>2. QED
    BY <2>1
<1>2. Inv /\ [Next]_vars => Inv'
  <2> SUFFICES ASSUME OwnInv, now \in Int, [Next]_vars
               PROVE  OwnInv' /\ now' \in Int
    OBVIOUS
  <2>1. now' \in Int
    <3>1. now' = now \/ now' = now + 1
      BY DEF Next, vars, Tick, Fire, OnCancelledTimer, Respond, OnResponse,
         OnUnknownResponse, SendRequest, ResponseReturns, OnTimer, CallExpired,
         TimeoutReturns
    <3>2. QED
      BY <3>1
  <2>2. CASE UNCHANGED vars
    BY <2>2, Environment DEF vars
  <2>3. CASE Tick
    BY <2>3, Environment DEF Tick
  <2>4. ASSUME NEW t \in Timer, Fire(t)
        PROVE  OwnInv'
    BY <2>4, Environment DEF Fire
  <2>5. ASSUME NEW t \in Timer, OnCancelledTimer(t)
        PROVE  OwnInv'
    BY <2>5, Environment DEF OnCancelledTimer
  <2>6. ASSUME NEW m \in Mid, Respond(m) \/ OnUnknownResponse(m)
        PROVE  OwnInv'
    BY <2>6, Environment DEF Respond, OnUnknownResponse
  <2>7. CASE TimeoutReturns
    BY <2>7, Elsewhere DEF TimeoutReturns
  <2>8. QED
    BY <2>1, <2>2, <2>3, <2>4, <2>5, <2>6, <2>7, SendStep, ResponseStep,
       ResponseReturnsStep, TimerStep, ExpiredStep DEF Next
<1>3. Inv => OwnInv
  OBVIOUS
<1>4. QED
  BY <1>1, <1>2, <1>3, PTL DEF Spec

\* No handler of a request is called twice, for any number of requests and any
\* schedule of responses and time-outs.
THEOREM HandledAtMostOnce == Spec => []HandledOnce
<1>1. OwnInv => HandledOnce
  BY DEF OwnInv
<1>2. QED
  BY <1>1, OwnInvariance, PTL

-----------------------------------------------------------------------------
(* Type correctness.                                                       *)

\* Timers are created for requests, so there are no more of them.
TypeInv == TypeOK /\ nextTimer <= nextMid

LEMMA ModRange ==
  ASSUME NEW x \in Int
  PROVE  x % Wrap \in 0 .. Wrap - 1
BY TimeAssumption

LEMMA RestartType ==
  ASSUME TypeInv, NEW tr, Rearm(tr) \/ CancelTimer,
         tr \in Transaction \/ CancelTimer
  PROVE  /\ timer' \in Timer \cup {NoTimer}
         /\ left' \in [Timer -> 0 .. Off]
         /\ nextTimer' = nextTimer
<1>1. /\ timer \in Timer \cup {NoTimer} /\ left \in [Timer -> 0 .. Off] /\ now \in Int
      /\ Wrap \in Nat \ {0} /\ Timeout \in Nat /\ NoTimer \notin Timer
  BY TimeAssumption DEF TypeInv, TypeOK, NoTimer, Timer
<1>2. CASE CancelTimer
  <2>1. Off \in 0 .. Off
    BY <1>1 DEF Off
  <2>2. QED
    BY <1>1, <1>2, <2>1 DEF CancelTimer
<1>3. CASE Rearm(tr) /\ tr \in Transaction
  <2>1. Elapsed(tr) \in Int
    <3>1. now % Wrap \in Int /\ tr.time \in Int
      BY <1>1, <1>3, ModRange DEF Transaction
    <3>2. (now % Wrap) - tr.time \in Int
      BY <3>1
    <3>3. QED
      BY <1>1, <3>2, ModRange DEF Elapsed, Clock
  <2>2. (Timeout - Elapsed(tr)) % Wrap \in 0 .. Off
    BY <1>1, <2>1, ModRange DEF Off
  <2>3. QED
    BY <1>1, <1>3, <2>2 DEF Rearm
<1>4. QED
  BY <1>2, <1>3

LEMMA PostedType ==
  ASSUME NEW q \in Seq(QueueItem), NEW item \in QueueItem
  PROVE  Posted(q, item) \in Seq(QueueItem)
BY DEF Posted

LEMMA TakeType ==
  ASSUME TypeInv, NEW kind, NEW id, Take(kind, id)
  PROVE  queue' \in Seq(QueueItem)
BY DEF Take, TypeInv, TypeOK

LEMMA SendType ==
  ASSUME TypeInv, SendRequest
  PROVE  TypeInv'
<1> DEFINE tr == [mid |-> nextMid, time |-> Clock]
<1>1. /\ nextMid \in Mid /\ nextMid' = nextMid + 1 /\ sent' = [sent EXCEPT ![nextMid] = now]
      /\ AddTransaction(tr) /\ UNCHANGED <<now, queue, current, expired, ended>>
  BY DEF SendRequest
<1>2. MaxReq \in Nat /\ Begin \in Nat /\ Wrap \in Nat /\ Timeout \in Nat /\ Timeout < Wrap
  BY TimeAssumption
<1>3. tr \in Transaction /\ now \in Nat
  BY <1>1, <1>2, ModRange DEF Transaction, Clock, TypeInv, TypeOK
<1>4. sent' \in [Mid -> Nat] /\ nextMid' \in 1 .. MaxReq + 1
  BY <1>1, <1>2, <1>3 DEF TypeInv, TypeOK, Mid
<1>5. CASE UNCHANGED <<transactions, timerVars, pending>> /\ at' = "spin"
  BY <1>1, <1>2, <1>4, <1>5 DEF TypeInv, TypeOK, timerVars, Place
<1>6. CASE /\ transactions' = Append(transactions, tr) /\ UNCHANGED at
           /\ pending' = pending \cup {tr.mid}
           /\ CreateTimer \/ UNCHANGED timerVars
  <2>1. transactions' \in Seq(Transaction) /\ pending' \subseteq Mid
    BY <1>1, <1>3, <1>6 DEF TypeInv, TypeOK
  <2>2. /\ timer' \in Timer \cup {NoTimer} /\ left' \in [Timer -> 0 .. Off]
        /\ nextTimer' \in 1 .. MaxReq + 1 /\ nextTimer' <= nextMid'
    <3>1. CASE UNCHANGED timerVars
      BY <1>1, <1>2, <3>1 DEF TypeInv, TypeOK, timerVars
    <3>2. CASE CreateTimer
      <4>1. nextTimer \in Timer /\ Timeout \in 0 .. Off
        BY <1>1, <1>2 DEF TypeInv, TypeOK, Timer, Mid, Off
      <4>2. timer' = nextTimer /\ left' \in [Timer -> 0 .. Off]
        BY <3>2, <4>1 DEF CreateTimer, TypeInv, TypeOK
      <4>3. nextTimer' = nextTimer + 1
        BY <3>2 DEF CreateTimer
      <4>4. QED
        BY <1>1, <1>2, <4>1, <4>2, <4>3 DEF TypeInv, TypeOK, Timer
    <3>3. QED
      BY <1>6, <3>1, <3>2
  <2>3. QED
    BY <1>1, <1>4, <1>6, <2>1, <2>2 DEF TypeInv, TypeOK
<1>7. QED
  BY <1>1, <1>5, <1>6 DEF AddTransaction

LEMMA EnvironmentType ==
  ASSUME TypeInv,
         Tick \/ (\E t \in Timer : Fire(t)) \/ (\E m \in Mid : Respond(m))
  PROVE  TypeInv'
<1>1. CASE Tick
  <2>1. now' \in Begin .. MaxTime
    BY <1>1, TimeAssumption, SMTT(30) DEF Tick, TypeInv, TypeOK
  <2>2. left' \in [Timer -> 0 .. Off]
    <3>1. left \in [Timer -> 0 .. Wrap] /\ Wrap \in Nat
      BY TimeAssumption DEF TypeInv, TypeOK, Off
    <3>2. /\ \A t \in Timer : left[t] # 0
          /\ left' = [t \in Timer |-> IF left[t] = Wrap THEN Wrap ELSE left[t] - 1]
      BY <1>1 DEF Tick, Off
    <3>3. \A t \in Timer : (IF left[t] = Wrap THEN Wrap ELSE left[t] - 1) \in 0 .. Wrap
      BY <3>1, <3>2
    <3>4. QED
      BY <3>2, <3>3 DEF Off
  <2>3. QED
    BY <1>1, <2>1, <2>2 DEF Tick, TypeInv, TypeOK, appVars
<1>2. ASSUME NEW t \in Timer, Fire(t)
      PROVE  TypeInv'
  <2>1. [kind |-> "timer", id |-> t] \in QueueItem
    BY DEF QueueItem
  <2>2. queue' \in Seq(QueueItem)
    BY <1>2, <2>1, PostedType DEF Fire, TypeInv, TypeOK
  <2>3. left' \in [Timer -> 0 .. Off]
    BY <1>2, TimeAssumption DEF Fire, TypeInv, TypeOK, Off
  <2>4. QED
    BY <1>2, <2>2, <2>3 DEF Fire, TypeInv, TypeOK, appVars
<1>3. ASSUME NEW m \in Mid, Respond(m)
      PROVE  TypeInv'
  <2>1. [kind |-> "response", id |-> m] \in QueueItem
    BY DEF QueueItem
  <2>2. queue' \in Seq(QueueItem)
    BY <1>3, <2>1, PostedType DEF Respond, TypeInv, TypeOK
  <2>3. QED
    BY <1>3, <2>2 DEF Respond, TypeInv, TypeOK, appVars, timerVars
<1>4. QED
  BY <1>1, <1>2, <1>3

LEMMA CallType ==
  ASSUME TypeInv, NEW m \in Mid, NEW how \in Outcome, Call(m, how)
  PROVE  /\ ended' \in [Mid -> Seq({"response", "timeout"})]
         /\ current' \in Mid \cup {NoMid}
BY DEF Call, TypeInv, TypeOK, Outcome

LEMMA LibraryType ==
  ASSUME TypeInv,
         \/ \E t \in Timer : OnCancelledTimer(t)
         \/ \E m \in Mid : OnResponse(m) \/ OnUnknownResponse(m)
         \/ ResponseReturns \/ OnTimer \/ CallExpired \/ TimeoutReturns
  PROVE  TypeInv'
<1>0. /\ transactions \in Seq(Transaction) /\ expired \in Seq(Mid)
      /\ DOMAIN transactions = 1 .. Len(transactions) /\ Len(transactions) \in Nat
      /\ \A k \in DOMAIN transactions : transactions[k] \in Transaction
      /\ at \in Place /\ "idle" \in Place /\ "response" \in Place /\ "timeout" \in Place
  BY DEF TypeInv, TypeOK, Place
<1>1. ASSUME NEW id \in Mid, OnCancelledTimer(id) \/ OnUnknownResponse(id)
      PROVE  TypeInv'
  <2>1. queue' \in Seq(QueueItem)
    BY <1>1, TakeType DEF OnCancelledTimer, OnUnknownResponse
  <2>2. QED
    BY <1>1, <2>1 DEF OnCancelledTimer, OnUnknownResponse, TypeInv, TypeOK, appVars,
       timerVars
<1>2. ASSUME NEW m \in Mid, OnResponse(m)
      PROVE  TypeInv'
  <2>1. queue' \in Seq(QueueItem)
    BY <1>2, TakeType DEF OnResponse
  <2>2. ended' \in [Mid -> Seq({"response", "timeout"})] /\ current' \in Mid \cup {NoMid}
    BY <1>2, CallType DEF OnResponse, Outcome
  <2>3. /\ timer' \in Timer \cup {NoTimer} /\ left' \in [Timer -> 0 .. Off]
        /\ nextTimer' = nextTimer
    <3>1. PICK k \in IndexOf(m) :
             \/ k > 1 /\ UNCHANGED timerVars
             \/ k = 1 /\ Len(transactions) > 1 /\ Rearm(transactions[2])
             \/ k = 1 /\ Len(transactions) = 1 /\ CancelTimer
      BY <1>2 DEF OnResponse
    <3>3. CASE UNCHANGED timerVars
      BY <3>3 DEF timerVars, TypeInv, TypeOK
    <3>4. CASE Len(transactions) > 1 /\ Rearm(transactions[2])
      <4>1. transactions[2] \in Transaction
        BY <1>0, <3>4
      <4>2. QED
        BY <3>4, <4>1, RestartType
    <3>5. CASE CancelTimer
      BY <3>5, RestartType
    <3>6. QED
      BY <3>1, <3>3, <3>4, <3>5
  <2>4. QED
    BY <1>0, <1>2, <2>1, <2>2, <2>3 DEF OnResponse, TypeInv, TypeOK
<1>3. CASE ResponseReturns
  <2>1. transactions' \in Seq(Transaction)
    <3>1. PICK k \in IndexOf(current) : transactions' = RemoveAt(transactions, k)
      BY <1>3 DEF ResponseReturns
    <3>2. k \in 1 .. Len(transactions)
      BY <1>0 DEF IndexOf
    <3>3. QED
      BY <1>0, <3>1, <3>2, RemoveAtElements
  <2>2. QED
    BY <1>0, <1>3, <2>1 DEF ResponseReturns, TypeInv, TypeOK, timerVars
<1>4. CASE OnTimer
  <2>1. queue' \in Seq(QueueItem)
    BY <1>4, TakeType DEF OnTimer
  <2>2. PICK n \in 0 .. Len(transactions) :
           /\ expired' = [k \in 1 .. n |-> transactions[n + 1 - k].mid]
           /\ transactions' = SubSeq(transactions, n + 1, Len(transactions))
    BY <1>4 DEF OnTimer
  <2>3. transactions' \in Seq(Transaction)
    <3>1. n + 1 \in Int /\ Len(transactions) \in Int
      BY <1>0
    <3>2. \A i \in n + 1 .. Len(transactions) : transactions[i] \in Transaction
      BY <1>0
    <3>3. QED
      BY <2>2, <3>1, <3>2, SubSeqProperties
  <2>4. expired' \in Seq(Mid)
    <3>1. \A k \in 1 .. n : transactions[n + 1 - k].mid \in Mid
      <4> SUFFICES ASSUME NEW k \in 1 .. n
                   PROVE  transactions[n + 1 - k].mid \in Mid
        OBVIOUS
      <4>1. n + 1 - k \in DOMAIN transactions
        BY <1>0
      <4>2. transactions[n + 1 - k] \in Transaction
        BY <1>0, <4>1
      <4>3. QED
        BY <4>2 DEF Transaction
    <3>2. expired' \in [1 .. n -> Mid] /\ n \in Nat
      BY <2>2, <3>1
    <3>3. QED
      BY <3>2
  <2>5. QED
    BY <1>0, <1>4, <2>1, <2>3, <2>4 DEF OnTimer, TypeInv, TypeOK, timerVars
<1>5. CASE CallExpired
  <2>1. Head(expired) \in Mid /\ Tail(expired) \in Seq(Mid)
    BY <1>0, <1>5 DEF CallExpired
  <2>2. ended' \in [Mid -> Seq({"response", "timeout"})] /\ current' \in Mid \cup {NoMid}
    BY <1>5, <2>1, CallType DEF CallExpired, Outcome
  <2>3. QED
    BY <1>5, <2>1, <2>2 DEF CallExpired, TypeInv, TypeOK, timerVars
<1>6. CASE TimeoutReturns
  <2>1. /\ timer' \in Timer \cup {NoTimer} /\ left' \in [Timer -> 0 .. Off]
        /\ nextTimer' = nextTimer
    <3>1. CASE transactions = <<>>
      BY <1>6, <3>1, RestartType DEF TimeoutReturns
    <3>2. CASE transactions # <<>>
      <4>1. transactions[1] \in Transaction
        BY <1>0, <3>2
      <4>2. QED
        BY <1>6, <3>2, <4>1, RestartType DEF TimeoutReturns
    <3>3. QED
      BY <3>1, <3>2
  <2>2. QED
    BY <1>0, <1>6, <2>1 DEF TimeoutReturns, TypeInv, TypeOK
<1>7. QED
  BY <1>1, <1>2, <1>3, <1>4, <1>5, <1>6 DEF Timer, Mid

LEMMA TypeInvariance == Spec => []TypeInv
<1>1. Init => TypeInv
  BY TimeAssumption DEF Init, TypeInv, TypeOK, Timer, Mid, Place, Off
<1>2. TypeInv /\ [Next]_vars => TypeInv'
  <2> SUFFICES ASSUME TypeInv, [Next]_vars
               PROVE  TypeInv'
    OBVIOUS
  <2>1. CASE UNCHANGED vars
    BY <2>1 DEF TypeInv, TypeOK, vars, timerVars, appVars
  <2>2. CASE Next
    BY <2>2, SendType, EnvironmentType, LibraryType DEF Next
  <2>3. QED
    BY <2>1, <2>2
<1>3. QED
  BY <1>1, <1>2, PTL DEF Spec

\* Every variable of the request library keeps its type: the remaining time of a
\* timer, computed modulo the width of the clock, is one the timer can be set
\* to, and the timers it creates are never more than the requests.
THEOREM RequestTypes == Spec => []TypeOK
<1>1. TypeInv => TypeOK
  BY DEF TypeInv
<1>2. QED
  BY <1>1, TypeInvariance, PTL

-----------------------------------------------------------------------------
(* Time.  The clock of the library wraps around; the history sent does not. *)

\* What a clock of W values shows of two moments, b before a.
LEMMA ClockQuotient ==
  ASSUME NEW W \in Nat \ {0}, NEW a \in Nat
  PROVE  \E q \in Int, r \in 0 .. W - 1 : a = W * q + r /\ r = a % W
<1>1. a \div W \in Int /\ a % W \in 0 .. W - 1
  OBVIOUS
<1>2. ASSUME NEW q, q = a \div W, NEW r, r = a % W
      PROVE  a = W * q + r
  BY <1>2
<1>3. QED
  BY <1>1, <1>2

LEMMA ClockDifference ==
  ASSUME NEW W \in Nat \ {0}, NEW a \in Nat, NEW b \in Nat, b <= a
  PROVE  /\ ((a % W) - (b % W)) % W <= a - b
         /\ a - b < W => ((a % W) - (b % W)) % W = a - b
<1>1. PICK p \in Int, v \in 0 .. W - 1 : a = W * p + v /\ v = a % W
  BY ClockQuotient
<1>2. PICK q \in Int, w \in 0 .. W - 1 : b = W * q + w /\ w = b % W
  BY ClockQuotient
<1> DEFINE d == v - w
<1>3. d \in Int /\ -W < d /\ d < W
  OBVIOUS
<1>4. W * p - W * q = W * (p - q) /\ W * p \in Int /\ W * q \in Int
  OBVIOUS
<1>5. a - b = W * (p - q) + d
  BY <1>1, <1>2, <1>4
<1> HIDE DEF d
<1> DEFINE k == p - q
<1>6. k \in Int /\ a - b = W * k + d
  BY <1>5
<1> HIDE DEF k
<1>7. /\ k >= 1 => W * k >= W
      /\ k >= 2 => W * k >= W + W
      /\ k <= -1 => W * k <= -W
      /\ k = 0 => W * k = 0
      /\ k = 1 => W * k = W
      /\ W * k \in Int
  BY <1>6
<1>0. (a % W) - (b % W) = d
  BY <1>1, <1>2 DEF d
<1>8. CASE d >= 0
  <2>1. d % W = d
    BY <1>3, <1>8
  <2>2. k >= 0
    BY <1>3, <1>6, <1>7
  <2>3. QED
    BY <1>0, <1>3, <1>6, <1>7, <1>8, <2>1, <2>2 
<1>9. CASE d < 0
  <2>1. d % W = d + W
    BY <1>3, <1>9
  <2>2. k >= 1
    BY <1>3, <1>6, <1>7, <1>9
  <2>3. QED
    BY <1>0, <1>3, <1>6, <1>7, <1>9, <2>1, <2>2
<1>10. QED
  BY <1>3, <1>8, <1>9
\* What the library reads of the age of a transaction is never more than it is,
\* and is what it is as long as it is less than the width of the clock.
LEMMA ElapsedIs ==
  ASSUME TypeInv, NEW tr, NEW s \in Nat, tr.time = s % Wrap, s <= now
  PROVE  /\ Elapsed(tr) <= now - s
         /\ now - s < Wrap => Elapsed(tr) = now - s
<1>1. Wrap \in Nat \ {0} /\ now \in Nat
  BY TimeAssumption DEF TypeInv, TypeOK
<1>2. Elapsed(tr) = ((now % Wrap) - (s % Wrap)) % Wrap
  BY DEF Elapsed, Clock
<1>3. /\ ((now % Wrap) - (s % Wrap)) % Wrap <= now - s
      /\ now - s < Wrap => ((now % Wrap) - (s % Wrap)) % Wrap = now - s
  BY <1>1, ClockDifference
<1>4. QED
  BY <1>2, <1>3

\* A transaction knows when it was sent, and the expired ones are old enough.
AgeInv ==
  /\ \A k \in DOMAIN transactions :
        /\ transactions[k].time = sent[transactions[k].mid] % Wrap
        /\ sent[transactions[k].mid] <= now
  /\ \A k \in DOMAIN expired : now - sent[expired[k]] >= Timeout

LEMMA AgeStays ==
  ASSUME TypeInv, OwnInv, AgeInv, UNCHANGED <<transactions, expired, sent>>,
         now' \in Nat, now <= now'
  PROVE  AgeInv'
<1>1. /\ now \in Nat /\ Timeout \in Nat
      /\ \A m \in Mid : sent[m] \in Nat
      /\ \A k \in DOMAIN transactions : transactions[k].mid \in Mid
      /\ \A k \in DOMAIN expired : expired[k] \in Mid
  BY TimeAssumption, Elements DEF TypeInv, TypeOK, OwnInv
<1>2. QED
  BY <1>1 DEF AgeInv

LEMMA AgeSend ==
  ASSUME TypeInv, OwnInv, AgeInv, SendRequest
  PROVE  AgeInv'
<1>1. /\ nextMid \in Mid /\ sent' = [sent EXCEPT ![nextMid] = now] /\ sent \in [Mid -> Nat]
      /\ UNCHANGED <<now, expired>> /\ now \in Nat /\ transactions \in Seq(Transaction)
      /\ AddTransaction([mid |-> nextMid, time |-> now % Wrap])
  BY TimeAssumption, SMTT(30) DEF SendRequest, TypeInv, TypeOK, Clock
<1>2. /\ \A k \in DOMAIN transactions :
            transactions[k].mid \in Mid /\ transactions[k].mid # nextMid
      /\ \A k \in DOMAIN expired : expired[k] \in Mid /\ expired[k] # nextMid
  BY <1>1, Elements DEF OwnInv, ListOwns, ExpiredOwns, Mid
<1>3. sent'[nextMid] = now /\ \A m \in Mid : m # nextMid => sent'[m] = sent[m]
  BY <1>1
<1>4. \A k \in DOMAIN expired : now - sent'[expired[k]] >= Timeout
  BY <1>2, <1>3 DEF AgeInv
<1>5. CASE transactions' = transactions
  BY <1>1, <1>2, <1>3, <1>4, <1>5 DEF AgeInv
<1>6. CASE transactions' = Append(transactions, [mid |-> nextMid, time |-> now % Wrap])
  <2> DEFINE tr == [mid |-> nextMid, time |-> now % Wrap]
  <2>1. tr \in Transaction /\ tr.mid = nextMid /\ tr.time = now % Wrap
    BY <1>1, ModRange DEF Transaction
  <2> HIDE DEF tr
  <2>2. transactions' = Append(transactions, tr)
    BY <1>6 DEF tr
  <2>3. /\ DOMAIN transactions' = 1 .. Len(transactions) + 1
        /\ DOMAIN transactions = 1 .. Len(transactions) /\ Len(transactions) \in Nat
        /\ \A k \in 1 .. Len(transactions) : transactions'[k] = transactions[k]
        /\ transactions'[Len(transactions) + 1] = tr
    BY <1>1, <2>1, <2>2
  <2>4. ASSUME NEW k \in DOMAIN transactions'
        PROVE  /\ transactions'[k].time = sent'[transactions'[k].mid] % Wrap
               /\ sent'[transactions'[k].mid] <= now
    <3>1. CASE k \in DOMAIN transactions
      BY <1>2, <1>3, <2>3, <3>1 DEF AgeInv
    <3>2. CASE k = Len(transactions) + 1
      BY <1>1, <1>3, <2>1, <2>3, <3>2
    <3>3. QED
      BY <2>3, <3>1, <3>2
  <2>5. QED
    BY <1>1, <1>4, <2>4 DEF AgeInv
<1>7. QED
  BY <1>1, <1>5, <1>6 DEF AddTransaction

\* What stays in the list was in it.
LEMMA AgeRemove ==
  ASSUME TypeInv, OwnInv, AgeInv, ResponseReturns
  PROVE  AgeInv'
<1>1. PICK k \in DOMAIN transactions : transactions' = RemoveAt(transactions, k)
  BY DEF ResponseReturns, IndexOf
<1>2. UNCHANGED <<now, sent, expired>>
  BY DEF ResponseReturns
<1>3. /\ transactions \in Seq(Transaction) /\ Len(transactions) \in Nat
      /\ DOMAIN transactions = 1 .. Len(transactions)
  BY DEF TypeInv, TypeOK
<1>4. /\ transactions' \in Seq(Transaction)
      /\ Len(transactions') = Len(transactions) - 1
      /\ \A j \in 1 .. Len(transactions) - 1 :
            transactions'[j] = IF j < k THEN transactions[j] ELSE transactions[j + 1]
  BY <1>1, <1>3, RemoveAtElements
<1>5. DOMAIN transactions' = 1 .. Len(transactions) - 1
  BY <1>4
<1>6. \A j \in DOMAIN transactions' :
         \E i \in DOMAIN transactions : transactions'[j] = transactions[i]
  <2>1. ASSUME NEW j \in DOMAIN transactions'
        PROVE  \E i \in DOMAIN transactions :
                  /\ i = IF j < k THEN j ELSE j + 1
                  /\ transactions'[j] = transactions[i]
    BY <1>3, <1>4, <1>5
  <2>2. QED
    BY <2>1
<1>7. QED
  BY <1>2, <1>6 DEF AgeInv

\* What timer expiry does to the list and to the expired ones.
LEMMA Expiry ==
  ASSUME TypeInv, NEW n \in 0 .. Len(transactions),
         expired' = [k \in 1 .. n |-> transactions[n + 1 - k].mid],
         transactions' = SubSeq(transactions, n + 1, Len(transactions))
  PROVE  /\ DOMAIN transactions' = 1 .. Len(transactions) - n
         /\ \A k \in 1 .. Len(transactions) - n :
               transactions'[k] = transactions[n + k] /\ n + k \in DOMAIN transactions
         /\ DOMAIN expired' = 1 .. n
         /\ \A k \in 1 .. n : /\ n + 1 - k \in DOMAIN transactions /\ n + 1 - k <= n
                              /\ expired'[k] = transactions[n + 1 - k].mid
<1>1. /\ transactions \in Seq(Transaction) /\ Len(transactions) \in Nat
      /\ DOMAIN transactions = 1 .. Len(transactions)
      /\ \A i \in 1 .. Len(transactions) : transactions[i] \in Transaction
  BY DEF TypeInv, TypeOK
<1> DEFINE rest == SubSeq(transactions, n + 1, Len(transactions))
<1>2. n + 1 \in Int /\ Len(transactions) \in Int
      /\ \A i \in n + 1 .. Len(transactions) : transactions[i] \in Transaction
  BY <1>1
<1>3. /\ rest \in Seq(Transaction)
      /\ Len(rest) = IF n + 1 <= Len(transactions)
                     THEN Len(transactions) - (n + 1) + 1 ELSE 0
      /\ \A i \in 1 .. Len(transactions) - (n + 1) + 1 :
            rest[i] = transactions[n + 1 + i - 1]
  BY <1>2, SubSeqProperties
<1>4. transactions' = rest
  OBVIOUS
<1> HIDE DEF rest
<1>5. Len(rest) = Len(transactions) - n
  <2>1. Len(transactions) \in Nat /\ n \in Int /\ n <= Len(transactions)
    BY <1>1
  <2>2. Len(rest) = IF n + 1 <= Len(transactions)
                    THEN Len(transactions) - (n + 1) + 1 ELSE 0
    BY <1>3
  <2>3. QED
    BY <2>1, <2>2
<1>6. DOMAIN rest = 1 .. Len(transactions) - n
  BY <1>3, <1>5, LenProperties
<1>7. ASSUME NEW k \in 1 .. Len(transactions) - n
      PROVE  rest[k] = transactions[n + k] /\ n + k \in DOMAIN transactions
  <2>1. k \in 1 .. Len(transactions) - (n + 1) + 1 /\ n + 1 + k - 1 = n + k
    BY <1>1
  <2>2. rest[k] = transactions[n + k]
    BY <1>3, <2>1
  <2>3. n + k \in DOMAIN transactions
    BY <1>1
  <2>4. QED
    BY <2>2, <2>3
<1>8. ASSUME NEW k \in 1 .. n
      PROVE  /\ n + 1 - k \in DOMAIN transactions /\ n + 1 - k <= n
             /\ expired'[k] = transactions[n + 1 - k].mid
  BY <1>1
<1>9. QED
  BY <1>4, <1>6, <1>7, <1>8

LEMMA AgeTimer ==
  ASSUME TypeInv, OwnInv, AgeInv, OnTimer
  PROVE  AgeInv'
<1>1. PICK n \in 0 .. Len(transactions) :
         /\ ExpiredUpTo(n)
         /\ expired' = [k \in 1 .. n |-> transactions[n + 1 - k].mid]
         /\ transactions' = SubSeq(transactions, n + 1, Len(transactions))
  BY DEF OnTimer
<1>2. UNCHANGED <<now, sent>>
  BY DEF OnTimer
<1>3. /\ DOMAIN transactions' = 1 .. Len(transactions) - n
      /\ \A k \in 1 .. Len(transactions) - n :
            transactions'[k] = transactions[n + k] /\ n + k \in DOMAIN transactions
      /\ DOMAIN expired' = 1 .. n
      /\ \A k \in 1 .. n : /\ n + 1 - k \in DOMAIN transactions /\ n + 1 - k <= n
                           /\ expired'[k] = transactions[n + 1 - k].mid
  BY <1>1, Expiry
<1>4. ASSUME NEW j \in DOMAIN transactions, j <= n
      PROVE  now - sent[transactions[j].mid] >= Timeout
  <2>1. /\ j \in 1 .. n /\ transactions[j].mid \in Mid /\ sent \in [Mid -> Nat]
        /\ transactions[j] \in Transaction /\ now \in Nat /\ Wrap \in Nat \ {0}
        /\ Timeout \in Nat
    BY <1>4, Elements, TimeAssumption, SMTT(30) DEF TypeInv, TypeOK, OwnInv
  <2>2. Elapsed(transactions[j]) >= Timeout
    BY <1>1, <2>1 DEF ExpiredUpTo
  <2>3. Elapsed(transactions[j]) <= now - sent[transactions[j].mid]
    BY <2>1, ElapsedIs DEF AgeInv
  <2>4. Elapsed(transactions[j]) \in Int
    <3>1. transactions[j].time \in Int
      BY <2>1 DEF Transaction
    <3>2. now % Wrap \in Int
      BY <2>1, ModRange
    <3>3. (now % Wrap) - transactions[j].time \in Int
      BY <3>1, <3>2
    <3>4. QED
      BY <3>3, ModRange DEF Elapsed, Clock
  <2>5. QED
    BY <2>1, <2>2, <2>3, <2>4
<1>5. \A k \in DOMAIN expired' : now - sent[expired'[k]] >= Timeout
  BY <1>3, <1>4
<1>6. QED
  BY <1>2, <1>3, <1>5, ZenonT(30) DEF AgeInv

LEMMA AgeExpired ==
  ASSUME TypeInv, OwnInv, AgeInv, CallExpired
  PROVE  AgeInv'
<1>1. expired' = Tail(expired) /\ expired # <<>> /\ UNCHANGED <<now, sent, transactions>>
  BY DEF CallExpired
<1>2. expired \in Seq(Mid)
  BY DEF TypeInv, TypeOK
<1>3. \A k \in DOMAIN expired' : \E j \in DOMAIN expired : expired'[k] = expired[j]
  <2>1. /\ DOMAIN Tail(expired) = 1 .. Len(expired) - 1
        /\ \A k \in 1 .. Len(expired) - 1 : Tail(expired)[k] = expired[k + 1]
    BY <1>1, <1>2, HeadTailProperties, LenProperties
  <2>2. DOMAIN expired = 1 .. Len(expired) /\ Len(expired) \in Nat
    BY <1>2
  <2>3. QED
    BY <1>1, <2>1, <2>2
<1>4. QED
  BY <1>1, <1>3 DEF AgeInv

LEMMA AgeStep ==
  ASSUME TypeInv, OwnInv, AgeInv, [Next]_vars
  PROVE  AgeInv'
<1>0. now \in Nat
  BY TimeAssumption DEF TypeInv, TypeOK
<1>1. CASE Tick
  BY <1>0, <1>1, AgeStays DEF Tick, appVars
<1>2. CASE UNCHANGED <<transactions, expired, sent, now>>
  BY <1>0, <1>2, AgeStays
<1>3. QED
  BY <1>1, <1>2, AgeSend, AgeRemove, AgeTimer, AgeExpired
     DEF Next, vars, Fire, OnCancelledTimer, Respond, OnResponse, OnUnknownResponse,
         TimeoutReturns, appVars

LEMMA AgeInvariance == Spec => []AgeInv
<1>1. Init => AgeInv
  BY DEF Init, AgeInv
<1>2. TypeInv /\ OwnInv /\ AgeInv /\ [Next]_vars => AgeInv'
  BY AgeStep
<1>3. QED
  BY <1>1, <1>2, TypeInvariance, OwnInvariance, PTL DEF Spec

LEMMA NeverEarlyStep ==
  ASSUME TypeInv, AgeInv, [Next]_vars, NEW m \in Mid,
         ended'[m] = Append(ended[m], "timeout")
  PROVE  now - sent[m] >= Timeout
<1>0. ended \in [Mid -> Seq(Outcome)]
  BY DEF TypeInv, TypeOK, Outcome
<1>1. ended'[m] # ended[m]
  <2>1. Len(Append(ended[m], "timeout")) = Len(ended[m]) + 1 /\ Len(ended[m]) \in Nat
    BY <1>0 DEF Outcome
  <2>2. QED
    BY <2>1
<1>2. ASSUME NEW k \in Mid, OnResponse(k)
      PROVE  FALSE
  <2>1. ended' = [ended EXCEPT ![k] = Append(@, "response")]
    BY <1>2 DEF OnResponse, Call
  <2>2. ended'[m] = Append(ended[m], "response")
    BY <1>0, <1>1, <2>1
  <2>3. /\ Append(ended[m], "response")[Len(ended[m]) + 1] = "response"
        /\ Append(ended[m], "timeout")[Len(ended[m]) + 1] = "timeout"
    BY <1>0 DEF Outcome
  <2>4. QED
    BY <2>2, <2>3
<1>3. CASE CallExpired
  <2>1. /\ expired # <<>> /\ expired \in Seq(Mid)
        /\ ended' = [ended EXCEPT ![Head(expired)] = Append(@, "timeout")]
    BY <1>3 DEF CallExpired, Call, TypeInv, TypeOK
  <2>2. 1 \in DOMAIN expired /\ Head(expired) = expired[1] /\ Head(expired) \in Mid
    BY <2>1
  <2>3. m = Head(expired)
    BY <1>0, <1>1, <2>1, <2>2
  <2>4. QED
    BY <2>2, <2>3 DEF AgeInv
<1>4. ended' = ended \/ CallExpired \/ \E k \in Mid : OnResponse(k)
  BY DEF Next, vars, Tick, Fire, OnCancelledTimer, Respond, OnUnknownResponse,
     SendRequest, ResponseReturns, OnTimer, TimeoutReturns
<1>5. QED
  BY <1>1, <1>2, <1>3, <1>4

\* No handler is told of a time-out before the time-out is over, for any width
\* of the clock, however often it wrapped around and whatever was answered since
\* the timer was set: the age that transaction_timeout_handler computes from the
\* readings is never more than the real one.
THEOREM TimeoutNeverEarly == Spec => NeverEarly
<1>1. TypeInv /\ AgeInv /\ [Next]_vars =>
        [\A m \in Mid :
           ended'[m] = Append(ended[m], "timeout") => now - sent[m] >= Timeout]_vars
  BY NeverEarlyStep
<1>2. QED
  BY <1>1, TypeInvariance, AgeInvariance, PTL DEF Spec, NeverEarly

-----------------------------------------------------------------------------
(* No transaction is forgotten by the timer.                               *)

InQueue(t) == \E i \in DOMAIN queue : queue[i] = [kind |-> "timer", id |-> t]

\* The expiry of the timer comes in time for request m, or has come.
Watched(m) ==
  /\ timer # NoTimer
  /\ \/ InQueue(timer)
     \/ left[timer] # Off /\ now + left[timer] <= sent[m] + Timeout

OneTimer == \A t \in Timer : left[t] # Off => t = timer

OldestFirst ==
  \A j, k \in DOMAIN transactions :
     j <= k => sent[transactions[j].mid] <= sent[transactions[k].mid]

WatchedIdle ==
  at = "idle" =>
    /\ transactions = <<>> => timer = NoTimer
    /\ \A k \in DOMAIN transactions : Watched(transactions[k].mid)

\* While a handler runs its transaction is still in the list, and not watched.
WatchedAnswering ==
  at = "response" =>
    /\ \E k \in DOMAIN transactions : transactions[k].mid = current
    /\ Len(transactions) = 1 => timer = NoTimer
    /\ \A k \in DOMAIN transactions :
          transactions[k].mid # current => Watched(transactions[k].mid)

\* While the time-outs are handled nothing else gets too old.
YoungAtTimeout ==
  at = "timeout" =>
    /\ timer # NoTimer
    /\ \A k \in DOMAIN transactions : now - sent[transactions[k].mid] <= Timeout

WatchInv == /\ OneTimer /\ OldestFirst /\ Len(transactions) <= 2
            /\ WatchedIdle /\ WatchedAnswering /\ YoungAtTimeout

\* What is in the queue of the application and what may still come to it: every
\* request makes room for a response and an expiry.
Queued   == Len(queue)
Awaited  == Cardinality(pending)
Running  == IF \E t \in Timer : left[t] # Off THEN 1 ELSE 0
Handling == IF at = "timeout" THEN 1 ELSE 0

RoomInv ==
  Queued + Awaited + Running + Handling + 2 * (MaxReq + 1 - nextMid) <= 2 * MaxReq

\* No request in the list is older than a turn of the clock.
ClockSuffices == \A k \in DOMAIN transactions : now - sent[transactions[k].mid] < Wrap

LEMMA Counts ==
  ASSUME TypeInv
  PROVE  /\ queue \in Seq(QueueItem) /\ Len(queue) \in Nat
         /\ IsFiniteSet(pending) /\ Cardinality(pending) \in Nat
         /\ Running \in 0 .. 1 /\ Handling \in 0 .. 1
         /\ nextMid \in 1 .. MaxReq + 1 /\ MaxReq \in Nat
<1>1. IsFiniteSet(1 .. MaxReq) /\ pending \subseteq 1 .. MaxReq
  <2>1. 1 \in Int /\ MaxReq \in Int
    BY TimeAssumption
  <2>2. QED
    BY <2>1, FS_Interval DEF TypeInv, TypeOK, Mid
<1>2. IsFiniteSet(pending) /\ Cardinality(pending) \in Nat
  BY <1>1, FS_Subset, FS_CardinalityType
<1>3. QED
  BY <1>2, TimeAssumption DEF TypeInv, TypeOK, Running, Handling

LEMMA PostedItems ==
  ASSUME NEW q \in Seq(QueueItem), NEW item \in QueueItem
  PROVE  /\ Len(Posted(q, item)) <= Len(q) + 1
         /\ \A i \in DOMAIN q :
               \E j \in DOMAIN Posted(q, item) : Posted(q, item)[j] = q[i]
         /\ Len(q) < QueueCap =>
               \E j \in DOMAIN Posted(q, item) : Posted(q, item)[j] = item
<1>1. /\ DOMAIN q = 1 .. Len(q) /\ Len(q) \in Nat
      /\ DOMAIN Append(q, item) = 1 .. Len(q) + 1 /\ Len(Append(q, item)) = Len(q) + 1
      /\ \A i \in 1 .. Len(q) : Append(q, item)[i] = q[i]
      /\ Append(q, item)[Len(q) + 1] = item
  OBVIOUS
<1>2. CASE Len(q) < QueueCap
  BY <1>1, <1>2 DEF Posted
<1>3. CASE ~(Len(q) < QueueCap)
  BY <1>1, <1>3 DEF Posted
<1>4. QED
  BY <1>2, <1>3

LEMMA TakenItems ==
  ASSUME TypeInv, NEW kind, NEW id, Take(kind, id)
  PROVE  /\ Len(queue') = Len(queue) - 1
         /\ \A t \in Timer : (InQueue(t) /\ ~(kind = "timer" /\ id = t)) => InQueue(t)'
<1>1. /\ queue \in Seq(QueueItem) /\ queue # <<>> /\ queue' = Tail(queue)
      /\ Head(queue) = [kind |-> kind, id |-> id]
  BY DEF Take, TypeInv, TypeOK
<1>2. /\ DOMAIN queue = 1 .. Len(queue) /\ Len(queue) \in Nat /\ Len(queue) > 0
      /\ DOMAIN queue' = 1 .. Len(queue) - 1 /\ Len(queue') = Len(queue) - 1
      /\ \A i \in 1 .. Len(queue) - 1 : queue'[i] = queue[i + 1]
      /\ Head(queue) = queue[1]
  BY <1>1
<1>3. ASSUME NEW t \in Timer, NEW i \in DOMAIN queue,
             queue[i] = [kind |-> "timer", id |-> t], ~(kind = "timer" /\ id = t)
      PROVE  \E j \in DOMAIN queue' : queue'[j] = [kind |-> "timer", id |-> t]
  <2>1. i # 1
    BY <1>1, <1>2, <1>3
  <2>2. i - 1 \in 1 .. Len(queue) - 1 /\ (i - 1) + 1 = i
    BY <1>2, <2>1
  <2>3. queue'[i - 1] = queue[i]
    BY <1>2, <2>2
  <2>4. QED
    BY <1>2, <1>3, <2>2, <2>3
<1>4. QED
  BY <1>2, <1>3 DEF InQueue

LEMMA CardinalityGrows ==
  ASSUME NEW S, IsFiniteSet(S), NEW x
  PROVE  Cardinality(S) \in Nat /\ Cardinality(S \cup {x}) <= Cardinality(S) + 1
<1>1. Cardinality(S) \in Nat
  BY FS_CardinalityType
<1>2. Cardinality(S \cup {x}) = Cardinality(S) \/ Cardinality(S \cup {x}) = Cardinality(S) + 1
  BY FS_AddElement
<1>3. \A n \in Nat : n <= n + 1 /\ n + 1 <= n + 1
  OBVIOUS
<1>4. QED
  BY <1>1, <1>2, <1>3, Zenon

\* Every step leaves room for what may still be posted.
LEMMA RoomStep ==
  ASSUME TypeInv, OneTimer, RoomInv, [Next]_vars, TypeInv'
  PROVE  RoomInv'
<1>1. /\ Queued \in Nat /\ Awaited \in Nat /\ IsFiniteSet(pending)
      /\ Running \in 0 .. 1 /\ Handling \in 0 .. 1 /\ nextMid \in Nat /\ MaxReq \in Nat
      /\ queue \in Seq(QueueItem)
  BY Counts DEF Queued, Awaited
<1>2. /\ Queued' \in Nat /\ Awaited' \in Nat
      /\ Running' \in 0 .. 1 /\ Handling' \in 0 .. 1 /\ nextMid' \in Nat
  <2>1. 1 \in Int /\ MaxReq \in Int
    BY TimeAssumption
  <2>2. IsFiniteSet(1 .. MaxReq) /\ pending' \subseteq 1 .. MaxReq
    BY <2>1, FS_Interval DEF TypeInv, TypeOK, Mid
  <2>3. Awaited' \in Nat
    BY <2>2, FS_Subset, FS_CardinalityType DEF Awaited
  <2>4. QED
    BY <2>3 DEF TypeInv, TypeOK, Running, Handling, Queued
<1>0. /\ Queued' \in Int /\ Awaited' \in Int /\ Running' \in Int /\ Handling' \in Int
      /\ nextMid' \in Int
  BY <1>2
<1>3. CASE UNCHANGED vars
  BY <1>3 DEF vars, timerVars, appVars, RoomInv, Running, Handling, Queued, Awaited
<1>4. CASE Tick
  <2>1. Running' <= Running
    BY <1>1, <1>2, <1>4 DEF Tick, Running, Timer
  <2>2. QED
    BY <1>1, <1>2, <1>4, <2>1, SMTT(30) DEF Tick, RoomInv, Handling, appVars, Queued, Awaited
<1>5. ASSUME NEW t \in Timer, Fire(t)
      PROVE  RoomInv'
  <2>1. left[t] # Off /\ left' = [left EXCEPT ![t] = Off] /\ left \in [Timer -> 0 .. Off]
    BY <1>5, TimeAssumption DEF Fire, Off, TypeInv, TypeOK
  <2>2. Running = 1 /\ Running' = 0
    BY <2>1 DEF OneTimer, Running
  <2>3. [kind |-> "timer", id |-> t] \in QueueItem
    BY DEF QueueItem
  <2>4. Queued' <= Queued + 1
    BY <1>1, <1>5, <2>3, PostedItems DEF Fire, Queued
  <2>5. QED
    BY <1>1, <1>2, <1>5, <2>2, <2>4, SMTT(30) DEF Fire, RoomInv, Handling, appVars, Awaited
<1>6. ASSUME NEW m \in Mid, Respond(m)
      PROVE  RoomInv'
  <2>1. Awaited' = Awaited - 1
    BY <1>1, <1>6, FS_RemoveElement DEF Respond, Awaited
  <2>2. [kind |-> "response", id |-> m] \in QueueItem
    BY DEF QueueItem
  <2>3. Queued' <= Queued + 1
    BY <1>1, <1>6, <2>2, PostedItems DEF Respond, Queued
  <2>4. nextMid' = nextMid /\ Running' = Running /\ Handling' = Handling
    BY <1>6 DEF Respond, timerVars, appVars, Handling, Running
  <2>8. \A q, a, r, h, n \in Int :
            q <= Queued + 1 /\ a = Awaited - 1 /\ r = Running /\ h = Handling /\ n = nextMid
            => q + a + r + h + 2 * (MaxReq + 1 - n) <= 2 * MaxReq
    BY <1>1 DEF RoomInv
  <2>9. QED
    BY <1>0, <1>2, <2>1, <2>3, <2>4, <2>8, Zenon DEF RoomInv
<1>7. CASE SendRequest
  <2>1. nextMid' = nextMid + 1 /\ Queued' = Queued
    BY <1>7 DEF SendRequest, Queued
  <2>2. Awaited' <= Awaited + 1
    <3>1. pending' = pending \/ pending' = pending \cup {nextMid}
      BY <1>7 DEF SendRequest, AddTransaction
    <3>2. \A n \in Nat : n <= n + 1
      OBVIOUS
    <3>3. QED
      BY <1>1, <3>1, <3>2, CardinalityGrows, Zenon DEF Awaited
  <2>3. Handling' <= Handling
    BY <1>7 DEF SendRequest, AddTransaction, Handling
  <2>8. \A q, a, r, h, n \in Int :
            q = Queued /\ a <= Awaited + 1 /\ r \in 0 .. 1 /\ h <= Handling /\ n = nextMid + 1
            => q + a + r + h + 2 * (MaxReq + 1 - n) <= 2 * MaxReq
    BY <1>1 DEF RoomInv
  <2>9. QED
    BY <1>0, <1>2, <2>1, <2>2, <2>3, <2>8, Zenon DEF RoomInv
<1>8. ASSUME NEW kind, NEW id, Take(kind, id), UNCHANGED <<pending, nextMid>>,
             \/ Handling' <= Handling /\ (kind = "response" \/ UNCHANGED left)
             \/ UNCHANGED left
      PROVE  RoomInv'
  <2>1. Queued' = Queued - 1
    BY <1>8, TakenItems DEF Queued
  <2>2. Handling' <= Handling \/ Running' = Running
    BY <1>8 DEF Running
  <2>3. Awaited' = Awaited /\ nextMid' = nextMid
    BY <1>8 DEF Awaited
  <2>8. \A q, a, r, h, n \in Int :
            q = Queued - 1 /\ a = Awaited /\ r \in 0 .. 1 /\ h \in 0 .. 1 /\ n = nextMid
            /\ (h <= Handling \/ r = Running)
            => q + a + r + h + 2 * (MaxReq + 1 - n) <= 2 * MaxReq
    BY <1>1 DEF RoomInv
  <2>9. QED
    BY <1>0, <1>2, <2>1, <2>2, <2>3, <2>8, Zenon DEF RoomInv
<1>9. ASSUME NEW m \in Mid, OnResponse(m) \/ OnUnknownResponse(m)
      PROVE  RoomInv'
  <2>1. Take("response", m) /\ UNCHANGED <<pending, nextMid>>
    BY <1>9 DEF OnResponse, OnUnknownResponse
  <2>2. Handling' <= Handling
    BY <1>9 DEF OnResponse, OnUnknownResponse, Take, Handling, appVars
  <2>3. QED
    BY <1>8, <2>1, <2>2
<1>10. ASSUME NEW t \in Timer, OnCancelledTimer(t)
       PROVE  RoomInv'
  BY <1>8, <1>10 DEF OnCancelledTimer, timerVars
<1>11. CASE OnTimer
  BY <1>8, <1>11 DEF OnTimer, timerVars
<1>12. CASE ResponseReturns \/ CallExpired
  BY <1>12 DEF ResponseReturns, CallExpired, RoomInv, Running, Handling, timerVars,
     Queued, Awaited
<1>13. CASE TimeoutReturns
  <2>1. Handling = 1 /\ Handling' = 0
    BY <1>13 DEF TimeoutReturns, Handling
  <2>2. Queued' = Queued /\ Awaited' = Awaited /\ nextMid' = nextMid
    BY <1>13 DEF TimeoutReturns, Queued, Awaited
  <2>8. \A q, a, r, h, n \in Int :
            Handling = 1 /\ h = 0 /\ q = Queued /\ a = Awaited /\ r \in 0 .. 1 /\ n = nextMid
            => q + a + r + h + 2 * (MaxReq + 1 - n) <= 2 * MaxReq
    BY <1>1 DEF RoomInv
  <2>9. QED
    BY <1>0, <1>2, <2>1, <2>2, <2>8, Zenon DEF RoomInv
<1>14. QED
  BY <1>3, <1>4, <1>5, <1>6, <1>7, <1>9, <1>10, <1>11, <1>12, <1>13 DEF Next

\* Ages as the library computes them.
LEMMA Ages ==
  ASSUME TypeInv, OwnInv, AgeInv
  PROVE  /\ now \in Nat /\ Timeout \in Nat /\ Wrap \in Nat \ {0} /\ Timeout < Wrap
         /\ transactions \in Seq(Transaction)
         /\ DOMAIN transactions = 1 .. Len(transactions) /\ Len(transactions) \in Nat
         /\ \A k \in DOMAIN transactions :
               /\ transactions[k] \in Transaction /\ transactions[k].mid \in Mid
               /\ transactions[k].mid < nextMid
               /\ sent[transactions[k].mid] \in Nat
               /\ sent[transactions[k].mid] <= now
               /\ now - sent[transactions[k].mid] < Wrap =>
                     Elapsed(transactions[k]) = now - sent[transactions[k].mid]
<1>1. /\ now \in Nat /\ Timeout \in Nat /\ Wrap \in Nat \ {0} /\ Timeout < Wrap
      /\ transactions \in Seq(Transaction) /\ sent \in [Mid -> Nat]
  BY TimeAssumption DEF TypeInv, TypeOK
<1>2. /\ DOMAIN transactions = 1 .. Len(transactions) /\ Len(transactions) \in Nat
      /\ \A k \in DOMAIN transactions : transactions[k] \in Transaction
  BY <1>1
<1>3. ASSUME NEW k \in DOMAIN transactions
      PROVE  /\ transactions[k].mid \in Mid /\ transactions[k].mid < nextMid
             /\ sent[transactions[k].mid] \in Nat
             /\ sent[transactions[k].mid] <= now
             /\ now - sent[transactions[k].mid] < Wrap =>
                   Elapsed(transactions[k]) = now - sent[transactions[k].mid]
  <2>1. transactions[k].mid \in Mid /\ transactions[k].mid < nextMid
    BY <1>2 DEF Transaction, OwnInv, ListOwns
  <2>2. sent[transactions[k].mid] \in Nat
    BY <1>1, <2>1
  <2>3. /\ sent[transactions[k].mid] <= now
        /\ transactions[k].time = sent[transactions[k].mid] % Wrap
    BY DEF AgeInv
  <2>4. QED
    BY <2>1, <2>2, <2>3, ElapsedIs
<1>4. QED
  BY <1>1, <1>2, <1>3

\* The timer set again for a transaction that has not expired ends when it does.
LEMMA RearmedFor ==
  ASSUME TypeInv, OwnInv, AgeInv, ClockSuffices, OneTimer,
         NEW k \in DOMAIN transactions,
         now - sent[transactions[k].mid] <= Timeout,
         timer # NoTimer, Rearm(transactions[k])
  PROVE  /\ timer' = timer /\ OneTimer'
         /\ left'[timer] # Off
         /\ now + left'[timer] = sent[transactions[k].mid] + Timeout
<1> DEFINE age == now - sent[transactions[k].mid]
<1>1. /\ now \in Nat /\ Timeout \in Nat /\ Wrap \in Nat \ {0} /\ Timeout < Wrap
      /\ sent[transactions[k].mid] \in Nat /\ sent[transactions[k].mid] <= now
      /\ Elapsed(transactions[k]) = age
  BY Ages DEF ClockSuffices
<1>2. age \in 0 .. Timeout
  BY <1>1
<1>3. now - age = sent[transactions[k].mid]
  BY <1>1
<1> HIDE DEF age
<1>4. Timeout - age \in 0 .. Wrap - 1
  BY <1>1, <1>2
<1>5. (Timeout - age) % Wrap = Timeout - age
  BY <1>1, <1>4
<1>6. /\ timer \in Timer /\ left \in [Timer -> 0 .. Off]
      /\ timer' = timer /\ left' = [left EXCEPT ![timer] = Timeout - age]
  BY <1>1, <1>5 DEF Rearm, TypeInv, TypeOK
<1>7. left'[timer] = Timeout - age /\ \A t \in Timer : t # timer => left'[t] = left[t]
  BY <1>6
<1>8. left'[timer] # Off /\ now + left'[timer] = sent[transactions[k].mid] + Timeout
  BY <1>1, <1>2, <1>3, <1>4, <1>7 DEF Off
<1>9. OneTimer'
  BY <1>6, <1>7 DEF OneTimer
<1>10. QED
  BY <1>6, <1>8, <1>9

LEMMA CancelledTimer ==
  ASSUME TypeInv, OneTimer, CancelTimer
  PROVE  timer' = NoTimer /\ OneTimer'
<1>1. left \in [Timer -> 0 .. Off] /\ NoTimer \notin Timer
  BY DEF TypeInv, TypeOK, NoTimer, Timer
<1>2. QED
  BY <1>1 DEF CancelTimer, OneTimer

\* Steps that change neither the list nor which timer there is.
LEMMA WatchKept ==
  ASSUME OwnInv, WatchInv, UNCHANGED <<transactions, timer, at, current, sent>>,
         OneTimer', now' = now \/ at # "timeout",
         \A m \in Mid : Watched(m) => Watched(m)'
  PROVE  WatchInv'
<1>1. \A k \in DOMAIN transactions : transactions[k].mid \in Mid
  BY Elements DEF OwnInv
<1>2. WatchedIdle'
  BY <1>1 DEF WatchInv, WatchedIdle
<1>3. WatchedAnswering'
  BY <1>1 DEF WatchInv, WatchedAnswering
<1>4. YoungAtTimeout'
  BY DEF WatchInv, YoungAtTimeout
<1>5. QED
  BY <1>2, <1>3, <1>4 DEF WatchInv, OldestFirst

LEMMA WatchTick ==
  ASSUME TypeInv, OwnInv, WatchInv, Tick, "timeout" \notin TickAt
  PROVE  WatchInv'
<1>1. /\ now' = now + 1 /\ now \in Nat /\ Timeout \in Nat
      /\ \A t \in Timer : left[t] # 0 /\ left[t] \in 0 .. Off
      /\ \A t \in Timer : left'[t] = IF left[t] = Off THEN Off ELSE left[t] - 1
      /\ Off \in Nat /\ timer \in Timer \cup {NoTimer}
      /\ at # "timeout"
      /\ UNCHANGED <<transactions, timer, at, current, sent, queue>>
  BY TimeAssumption DEF Tick, TypeInv, TypeOK, Off, appVars
<1>2. OneTimer'
  BY <1>1 DEF WatchInv, OneTimer
<1>3. ASSUME NEW m \in Mid, Watched(m)
      PROVE  Watched(m)'
  <2>1. CASE InQueue(timer)
    BY <1>1, <1>3, <2>1 DEF Watched, InQueue
  <2>2. CASE left[timer] # Off /\ now + left[timer] <= sent[m] + Timeout
    <3>1. timer \in Timer
      BY <1>1, <1>3 DEF Watched
    <3>2. left'[timer] = left[timer] - 1 /\ left[timer] \in 0 .. Off
      BY <1>1, <2>2, <3>1
    <3>3. left'[timer] # Off /\ now' + left'[timer] = now + left[timer]
      BY <1>1, <3>2
    <3>4. QED
      BY <1>1, <1>3, <2>2, <3>3 DEF Watched
  <2>3. QED
    BY <1>3, <2>1, <2>2 DEF Watched
<1>4. QED
  BY <1>1, <1>2, <1>3, WatchKept

\* The expiry of the timer finds room in the queue.
LEMMA WatchFire ==
  ASSUME TypeInv, OwnInv, WatchInv, RoomInv, QueueCap >= 2 * MaxReq,
         NEW t \in Timer, Fire(t)
  PROVE  WatchInv'
<1>1. /\ left[t] = 0 /\ left' = [left EXCEPT ![t] = Off] /\ left \in [Timer -> 0 .. Off]
      /\ 0 # Off
      /\ UNCHANGED <<now, transactions, timer, at, current, sent>>
      /\ queue' = Posted(queue, [kind |-> "timer", id |-> t]) /\ queue \in Seq(QueueItem)
  BY TimeAssumption DEF Fire, TypeInv, TypeOK, Off, appVars
<1>2. t = timer
  BY <1>1 DEF WatchInv, OneTimer
<1>3. Len(queue) < QueueCap
  <2>1. Running = 1
    BY <1>1 DEF Running
  <2>2. /\ Queued \in Nat /\ Awaited \in Nat /\ Handling \in 0 .. 1
        /\ nextMid \in 1 .. MaxReq + 1 /\ MaxReq \in Nat /\ QueueCap \in Nat
    BY Counts, TimeAssumption DEF Queued, Awaited
  <2>3. Queued < 2 * MaxReq
    BY <2>1, <2>2 DEF RoomInv
  <2>4. QED
    BY <2>2, <2>3 DEF Queued
<1>4. [kind |-> "timer", id |-> t] \in QueueItem
  BY DEF QueueItem
<1>5. InQueue(timer)'
  BY <1>1, <1>2, <1>3, <1>4, PostedItems DEF InQueue
<1>6. OneTimer'
  BY <1>1 DEF WatchInv, OneTimer
<1>7. \A m \in Mid : Watched(m) => Watched(m)'
  BY <1>1, <1>5 DEF Watched
<1>8. QED
  BY <1>1, <1>6, <1>7, WatchKept

LEMMA WatchRespond ==
  ASSUME TypeInv, OwnInv, WatchInv, NEW m \in Mid, Respond(m)
  PROVE  WatchInv'
<1>1. /\ UNCHANGED <<now, transactions, timer, left, at, current, sent>>
      /\ queue' = Posted(queue, [kind |-> "response", id |-> m])
      /\ queue \in Seq(QueueItem)
      /\ [kind |-> "response", id |-> m] \in QueueItem
  BY DEF Respond, TypeInv, TypeOK, timerVars, appVars, QueueItem
<1>2. InQueue(timer) => InQueue(timer)'
  BY <1>1, PostedItems DEF InQueue
<1>3. OneTimer' /\ \A q \in Mid : Watched(q) => Watched(q)'
  BY <1>1, <1>2 DEF Watched, WatchInv, OneTimer
<1>4. QED
  BY <1>1, <1>3, WatchKept

\* A message that nobody waits for is taken out of the queue.
LEMMA WatchIgnored ==
  ASSUME TypeInv, OwnInv, WatchInv, NEW id,
         OnUnknownResponse(id) \/ OnCancelledTimer(id)
  PROVE  WatchInv'
<1>1. /\ UNCHANGED <<now, transactions, timer, left, at, current, sent>>
      /\ timer \in Timer \cup {NoTimer}
      /\ Take("response", id) \/ (Take("timer", id) /\ id # timer)
  <2>1. CASE OnUnknownResponse(id)
    <3>1. Take("response", id) /\ UNCHANGED <<now, transactions, timerVars, appVars, sent>>
      BY <2>1 DEF OnUnknownResponse
    <3>2. timer \in Timer \cup {NoTimer}
      BY DEF TypeInv, TypeOK
    <3>3. UNCHANGED <<now, transactions, timer, left, at, current, sent>>
      BY <3>1 DEF timerVars, appVars
    <3>4. Take("response", id) \/ (Take("timer", id) /\ id # timer)
      BY <3>1
    <3>5. QED
      BY <3>2, <3>3, <3>4
  <2>2. CASE OnCancelledTimer(id)
    BY <2>2 DEF OnCancelledTimer, TypeInv, TypeOK, timerVars, appVars
  <2>3. QED
    BY <2>1, <2>2
<1>2. timer \in Timer /\ InQueue(timer) => InQueue(timer)'
  BY <1>1, TakenItems DEF InQueue
<1>3. OneTimer' /\ \A q \in Mid : Watched(q) => Watched(q)'
  BY <1>1, <1>2 DEF Watched, WatchInv, OneTimer
<1>4. QED
  BY <1>1, <1>3, WatchKept

\* A new request is the last to expire, and the first of the list gets a timer.
LEMMA WatchSend ==
  ASSUME TypeInv, OwnInv, AgeInv, WatchInv, SendRequest, "response" \notin SendFrom
  PROVE  WatchInv'
<1> DEFINE tr == [mid |-> nextMid, time |-> Clock]
<1>1. /\ nextMid \in Mid /\ sent' = [sent EXCEPT ![nextMid] = now] /\ sent \in [Mid -> Nat]
      /\ UNCHANGED <<now, queue, current>> /\ at \in {"idle", "timeout"}
      /\ AddTransaction(tr)
  BY PlaceAssumption DEF SendRequest, TypeInv, TypeOK, Place
<1>2. tr \in Transaction /\ tr.mid = nextMid
  BY <1>1, TimeAssumption, ModRange DEF Transaction, Clock, TypeInv, TypeOK
<1> HIDE DEF tr
<1>3. /\ now \in Nat /\ Timeout \in Nat /\ Timeout < Wrap
      /\ transactions \in Seq(Transaction)
      /\ DOMAIN transactions = 1 .. Len(transactions) /\ Len(transactions) \in Nat
      /\ \A k \in DOMAIN transactions :
            /\ transactions[k].mid \in Mid /\ transactions[k].mid # nextMid
            /\ sent[transactions[k].mid] \in Nat /\ sent[transactions[k].mid] <= now
  BY <1>1, Ages DEF Mid
<1>4. /\ sent'[nextMid] = now
      /\ \A k \in DOMAIN transactions : sent'[transactions[k].mid] = sent[transactions[k].mid]
  BY <1>1, <1>3
<1>5. CASE UNCHANGED <<transactions, timerVars>> /\ at' = "spin"
  <2>1. OldestFirst'
    BY <1>3, <1>4, <1>5 DEF WatchInv, OldestFirst
  <2>2. QED
    BY <1>5, <2>1 DEF WatchInv, OneTimer, WatchedIdle, WatchedAnswering, YoungAtTimeout,
       timerVars
<1>6. CASE /\ Len(transactions) < 2 /\ transactions' = Append(transactions, tr) /\ at' = at
           /\ IF transactions = <<>> /\ timer = NoTimer
              THEN CreateTimer ELSE UNCHANGED timerVars
  <2>1. /\ DOMAIN transactions' = 1 .. Len(transactions) + 1
        /\ Len(transactions') = Len(transactions) + 1
        /\ \A k \in 1 .. Len(transactions) : transactions'[k] = transactions[k]
        /\ transactions'[Len(transactions) + 1] = tr
    BY <1>2, <1>3, <1>6
  <2>2. /\ \A k \in DOMAIN transactions :
              sent'[transactions'[k].mid] = sent[transactions[k].mid]
        /\ sent'[transactions'[Len(transactions) + 1].mid] = now
    BY <1>2, <1>3, <1>4, <2>1
  <2>3. \A j \in DOMAIN transactions' :
           j \in DOMAIN transactions \/ j = Len(transactions) + 1
    BY <1>3, <2>1
  <2>10. PICK e \in Nat : e = Len(transactions) + 1
    BY <1>3
  <2>4. OldestFirst'
    <3> SUFFICES ASSUME NEW j \in DOMAIN transactions', NEW k \in DOMAIN transactions',
                        j <= k
                 PROVE  sent'[transactions'[j].mid] <= sent'[transactions'[k].mid]
      BY DEF OldestFirst
    <3>1. CASE k \in DOMAIN transactions
      <4>1. j \in DOMAIN transactions
        BY <1>3, <2>3, <3>1
      <4>2. QED
        BY <2>2, <3>1, <4>1 DEF WatchInv, OldestFirst
    <3>2. CASE k = Len(transactions) + 1
      BY <1>3, <2>2, <2>3, <3>2
    <3>3. QED
      BY <2>3, <3>1, <3>2
  <2>5. Len(transactions') <= 2 /\ transactions' # <<>>
    BY <1>3, <1>6, <2>1
  <2>6. CASE at = "timeout"
    <3>1. UNCHANGED timerVars /\ timer # NoTimer
      BY <1>6, <2>6 DEF WatchInv, YoungAtTimeout
    <3>2. \A k \in DOMAIN transactions' : now - sent'[transactions'[k].mid] <= Timeout
      <4>1. \A k \in DOMAIN transactions : now - sent[transactions[k].mid] <= Timeout
        BY <2>6 DEF WatchInv, YoungAtTimeout
      <4>2. QED
        BY <1>3, <2>2, <2>3, <4>1
    <3>3. YoungAtTimeout'
      BY <1>1, <3>1, <3>2 DEF YoungAtTimeout, timerVars
    <3>4. OneTimer' /\ WatchedIdle' /\ WatchedAnswering'
      BY <1>6, <2>6, <3>1 DEF WatchInv, OneTimer, WatchedIdle, WatchedAnswering, timerVars
    <3>5. QED
      BY <2>4, <2>5, <3>3, <3>4 DEF WatchInv
  <2>7. CASE at = "idle"
    <3>1. WatchedAnswering' /\ YoungAtTimeout'
      BY <1>6, <2>7 DEF WatchedAnswering, YoungAtTimeout
    <3>2. CASE transactions = <<>>
      <4>1. timer = NoTimer /\ CreateTimer
        BY <1>6, <2>7, <3>2 DEF WatchInv, WatchedIdle
      <4>2. /\ nextTimer \in Timer /\ NoTimer \notin Timer /\ left \in [Timer -> 0 .. Off]
        BY <1>1, TimeAssumption DEF TypeInv, TypeOK, Timer, Mid, NoTimer
      <4>3. \A t \in Timer : left[t] = Off
        BY <4>1, <4>2 DEF WatchInv, OneTimer
      <4>4. timer' = nextTimer /\ left' = [left EXCEPT ![nextTimer] = Timeout]
        BY <4>1 DEF CreateTimer
      <4>5. OneTimer' /\ left'[timer'] = Timeout /\ timer' # NoTimer
        BY <4>2, <4>3, <4>4 DEF OneTimer
      <4>6. \A k \in DOMAIN transactions' : sent'[transactions'[k].mid] = now
        BY <1>3, <2>2, <2>3, <3>2
      <4>7. Timeout # Off
        BY <1>3, TimeAssumption DEF Off
      <4>8. \A k \in DOMAIN transactions' : Watched(transactions[k].mid)'
        BY <1>1, <1>3, <4>5, <4>6, <4>7 DEF Watched
      <4>9. QED
        BY <2>4, <2>5, <3>1, <4>5, <4>8 DEF WatchInv, WatchedIdle
    <3>3. CASE transactions # <<>>
      <4>1. UNCHANGED <<timer, left>>
        BY <1>6, <3>3 DEF timerVars
      <4>2. 1 \in DOMAIN transactions
        BY <1>3, <3>3
      <4>3. \A k \in DOMAIN transactions : Watched(transactions[k].mid)
        BY <2>7 DEF WatchInv, WatchedIdle
      <4>4. InQueue(timer)' <=> InQueue(timer)
        BY <1>1, <4>1 DEF InQueue
      <4>5. ASSUME NEW k \in DOMAIN transactions
            PROVE  Watched(transactions[k].mid)'
        BY <1>1, <2>2, <4>1, <4>3, <4>4 DEF Watched
      <4>6. Watched(transactions[e].mid)'
        <5>1. CASE InQueue(timer)
          BY <4>1, <4>2, <4>3, <4>4, <5>1 DEF Watched
        <5>2. CASE ~InQueue(timer)
          <6>1. /\ timer # NoTimer /\ left[timer] # Off
                /\ now + left[timer] <= sent[transactions[1].mid] + Timeout
            BY <4>2, <4>3, <5>2 DEF Watched
          <6>2. timer \in Timer /\ left[timer] \in Int
            BY <6>1, TimeAssumption DEF TypeInv, TypeOK, Off
          <6>3. now + left[timer] <= now + Timeout
            BY <1>3, <4>2, <6>1, <6>2
          <6>4. QED
            BY <1>1, <2>2, <2>10, <4>1, <6>1, <6>3 DEF Watched
        <5>3. QED
          BY <5>1, <5>2
      <4>7. \A k \in DOMAIN transactions' : Watched(transactions[k].mid)'
        BY <2>3, <2>10, <4>5, <4>6
      <4>8. OneTimer'
        BY <4>1 DEF WatchInv, OneTimer
      <4>9. QED
        BY <2>4, <2>5, <3>1, <4>7, <4>8 DEF WatchInv, WatchedIdle
    <3>4. QED
      BY <3>2, <3>3
  <2>8. QED
    BY <1>1, <2>6, <2>7
<1>7. QED
  BY <1>1, <1>5, <1>6 DEF AddTransaction

\* When the first of the list is answered the timer is set for the second one; it
\* may have gone off for the first meanwhile, and its expiry is then in the queue.
LEMMA WatchAnswer ==
  ASSUME TypeInv, OwnInv, AgeInv, ClockSuffices, WatchInv, NEW m \in Mid, OnResponse(m)
  PROVE  WatchInv'
<1>1. /\ at = "idle" /\ at' = "response" /\ current' = m
      /\ Take("response", m) /\ UNCHANGED <<now, transactions, sent>>
  BY DEF OnResponse, Take, Call
<1>2. PICK k \in DOMAIN transactions :
         /\ transactions[k].mid = m
         /\ \/ k > 1 /\ UNCHANGED timerVars
            \/ k = 1 /\ Len(transactions) > 1 /\ Rearm(transactions[2])
            \/ k = 1 /\ Len(transactions) = 1 /\ CancelTimer
  BY DEF OnResponse, IndexOf
<1>3. /\ now \in Nat /\ Timeout \in Nat
      /\ DOMAIN transactions = 1 .. Len(transactions) /\ Len(transactions) \in Nat
      /\ Len(transactions) <= 2
      /\ \A j \in DOMAIN transactions :
            /\ transactions[j].mid \in Mid
            /\ sent[transactions[j].mid] \in Nat /\ sent[transactions[j].mid] <= now
            /\ Watched(transactions[j].mid)
            /\ transactions[j].mid = m => j = k
  BY <1>1, <1>2, Ages DEF WatchInv, WatchedIdle, OwnInv, ListOwns
<1>4. timer # NoTimer /\ timer \in Timer
  BY <1>2, <1>3 DEF Watched, TypeInv, TypeOK
<1>5. InQueue(timer) => \E i \in DOMAIN queue' : queue'[i] = [kind |-> "timer", id |-> timer]
  BY <1>1, <1>4, TakenItems DEF InQueue
<1>6. OldestFirst' /\ Len(transactions') <= 2 /\ WatchedIdle' /\ YoungAtTimeout'
  BY <1>1 DEF WatchInv, OldestFirst, WatchedIdle, YoungAtTimeout
<1>7. \E j \in DOMAIN transactions' : transactions'[j].mid = current'
  BY <1>1, <1>2
<1>8. CASE k > 1 /\ UNCHANGED timerVars
  <2>1. Len(transactions) # 1 /\ OneTimer'
    BY <1>2, <1>3, <1>8 DEF WatchInv, OneTimer, timerVars
  <2>2. \A j \in DOMAIN transactions : Watched(transactions[j].mid)'
    BY <1>1, <1>3, <1>5, <1>8 DEF Watched, InQueue, timerVars
  <2>3. QED
    BY <1>1, <1>6, <1>7, <2>1, <2>2 DEF WatchInv, WatchedAnswering
<1>9. CASE k = 1 /\ Len(transactions) > 1 /\ Rearm(transactions[2])
  <2>1. /\ Len(transactions) # 1 /\ 2 \in DOMAIN transactions
        /\ \A j \in DOMAIN transactions : transactions[j].mid # m => j = 2
    BY <1>2, <1>3, <1>9
  <2>2. timer' = timer /\ OneTimer'
    <3>1. /\ timer' = timer /\ left \in [Timer -> 0 .. Off]
          /\ \E x : left' = [left EXCEPT ![timer] = x]
      BY <1>4, <1>9 DEF Rearm, TypeInv, TypeOK
    <3>2. QED
      BY <3>1 DEF WatchInv, OneTimer
  <2>3. Watched(transactions[2].mid)'
    <3>1. CASE InQueue(timer)
      BY <1>4, <1>5, <2>2, <3>1 DEF Watched, InQueue
    <3>2. CASE ~InQueue(timer)
      <4>1. now + left[timer] <= sent[transactions[2].mid] + Timeout
        BY <1>3, <2>1, <3>2 DEF Watched
      <4>2. left[timer] \in Nat
        BY <1>4, TimeAssumption DEF TypeInv, TypeOK, Off
      <4>3. now - sent[transactions[2].mid] <= Timeout
        BY <1>3, <2>1, <4>1, <4>2
      <4>4. left'[timer] # Off /\ now + left'[timer] = sent[transactions[2].mid] + Timeout
        BY <1>4, <1>9, <2>1, <4>3, RearmedFor DEF WatchInv
      <4>5. now + left'[timer] <= sent[transactions[2].mid] + Timeout
        BY <1>3, <2>1, <4>4
      <4>6. QED
        BY <1>1, <1>4, <2>2, <4>4, <4>5 DEF Watched
    <3>3. QED
      BY <3>1, <3>2
  <2>4. QED
    BY <1>1, <1>6, <1>7, <2>1, <2>2, <2>3 DEF WatchInv, WatchedAnswering
<1>10. CASE k = 1 /\ Len(transactions) = 1 /\ CancelTimer
  <2>1. timer' = NoTimer /\ OneTimer'
    BY <1>10, CancelledTimer DEF WatchInv
  <2>2. \A j \in DOMAIN transactions : transactions[j].mid = m
    BY <1>2, <1>3, <1>10
  <2>3. QED
    BY <1>1, <1>6, <1>7, <2>1, <2>2 DEF WatchInv, WatchedAnswering
<1>11. QED
  BY <1>2, <1>8, <1>9, <1>10

LEMMA WatchAnswered ==
  ASSUME TypeInv, OwnInv, WatchInv, ResponseReturns
  PROVE  WatchInv'
<1>1. /\ at = "response" /\ at' = "idle"
      /\ UNCHANGED <<now, timer, left, queue, sent>>
  BY DEF ResponseReturns, timerVars
<1>2. PICK k \in DOMAIN transactions :
         transactions[k].mid = current /\ transactions' = RemoveAt(transactions, k)
  BY DEF ResponseReturns, IndexOf
<1>3. /\ transactions \in Seq(Transaction) /\ Len(transactions) \in Nat
      /\ DOMAIN transactions = 1 .. Len(transactions)
  BY DEF TypeInv, TypeOK
<1>4. /\ transactions' \in Seq(Transaction)
      /\ Len(transactions') = Len(transactions) - 1
      /\ \A j \in 1 .. Len(transactions) - 1 :
            transactions'[j] = IF j < k THEN transactions[j] ELSE transactions[j + 1]
  BY <1>2, <1>3, RemoveAtElements
<1>5. DOMAIN transactions' = 1 .. Len(transactions) - 1
  BY <1>4
<1> DEFINE old(j) == IF j < k THEN j ELSE j + 1
<1>6. ASSUME NEW j \in DOMAIN transactions'
      PROVE  /\ old(j) \in DOMAIN transactions /\ old(j) # k
             /\ transactions'[j] = transactions[old(j)]
  BY <1>3, <1>4, <1>5
<1>7. \A i, j \in DOMAIN transactions' : i <= j => old(i) <= old(j)
  BY <1>3, <1>5
<1> HIDE DEF old
<1>8. OldestFirst'
  BY <1>1, <1>6, <1>7 DEF WatchInv, OldestFirst
<1>9. \A j \in DOMAIN transactions' : Watched(transactions[j].mid)'
  <2>1. \A j \in DOMAIN transactions : j # k => transactions[j].mid # current
    BY <1>2 DEF OwnInv, ListOwns
  <2>2. \A j \in DOMAIN transactions : j # k => Watched(transactions[j].mid)
    BY <1>1, <2>1 DEF WatchInv, WatchedAnswering
  <2>3. \A j \in DOMAIN transactions' : Watched(transactions'[j].mid)
    BY <1>6, <2>2
  <2>4. QED
    BY <1>1, <2>3 DEF Watched, InQueue
<1>10. transactions' = <<>> => timer' = NoTimer
  <2>1. ASSUME transactions' = <<>>
        PROVE  Len(transactions) = 1
    <3>1. Len(transactions') = 0
      BY <2>1
    <3>2. Len(transactions') = Len(transactions) - 1 /\ Len(transactions) \in Nat
      BY <1>3, <1>4
    <3>3. QED
      BY <3>1, <3>2
  <2>2. QED
    BY <1>1, <2>1 DEF WatchInv, WatchedAnswering
<1>11. Len(transactions') <= 2
  BY <1>3, <1>4 DEF WatchInv
<1>12. OneTimer' /\ WatchedAnswering' /\ YoungAtTimeout'
  BY <1>1 DEF WatchInv, OneTimer, WatchedAnswering, YoungAtTimeout
<1>13. QED
  BY <1>8, <1>9, <1>10, <1>11, <1>12 DEF WatchInv, WatchedIdle

\* The list is in the order of the start times, so nothing behind the first
\* transaction that has not expired has expired.
LEMMA WatchExpiry ==
  ASSUME TypeInv, OwnInv, AgeInv, ClockSuffices, WatchInv, OnTimer
  PROVE  WatchInv'
<1>1. /\ at' = "timeout" /\ UNCHANGED <<now, timer, left, sent>>
      /\ Take("timer", timer)
  BY DEF OnTimer, timerVars
<1>2. PICK n \in 0 .. Len(transactions) :
         /\ ExpiredUpTo(n)
         /\ expired' = [k \in 1 .. n |-> transactions[n + 1 - k].mid]
         /\ transactions' = SubSeq(transactions, n + 1, Len(transactions))
  BY DEF OnTimer
<1>3. /\ DOMAIN transactions' = 1 .. Len(transactions) - n
      /\ \A k \in 1 .. Len(transactions) - n :
            transactions'[k] = transactions[n + k] /\ n + k \in DOMAIN transactions
  BY <1>2, Expiry
<1>4. /\ now \in Nat /\ Timeout \in Nat
      /\ Len(transactions) \in Nat /\ DOMAIN transactions = 1 .. Len(transactions)
      /\ \A k \in DOMAIN transactions :
            /\ sent[transactions[k].mid] \in Nat
            /\ Elapsed(transactions[k]) = now - sent[transactions[k].mid]
  BY Ages DEF ClockSuffices
<1>5. timer # NoTimer
  <2>1. /\ queue \in Seq(QueueItem) /\ queue # <<>>
        /\ Head(queue) = [kind |-> "timer", id |-> timer]
    BY <1>1 DEF Take, TypeInv, TypeOK
  <2>2. [kind |-> "timer", id |-> timer] \in QueueItem
    BY <2>1
  <2>3. timer \in Timer \/ timer \in Mid
    BY <2>2 DEF QueueItem
  <2>4. QED
    BY <2>3 DEF Timer, Mid, NoTimer
<1>6. ASSUME NEW j \in DOMAIN transactions'
      PROVE  now - sent[transactions'[j].mid] <= Timeout
  <2>1. n + 1 \in DOMAIN transactions /\ n + j \in DOMAIN transactions
        /\ n + 1 <= n + j /\ n < Len(transactions) /\ transactions'[j] = transactions[n + j]
    BY <1>3, <1>4
  <2>2. Elapsed(transactions[n + 1]) < Timeout
    BY <1>2, <2>1 DEF ExpiredUpTo
  <2>3. sent[transactions[n + 1].mid] <= sent[transactions[n + j].mid]
    BY <2>1 DEF WatchInv, OldestFirst
  <2>4. QED
    BY <1>4, <2>1, <2>2, <2>3
<1>7. OldestFirst'
  <2>1. \A j \in DOMAIN transactions' :
           n + j \in DOMAIN transactions /\ transactions'[j] = transactions[n + j]
    BY <1>3
  <2>2. \A i, j \in DOMAIN transactions' : i <= j => n + i <= n + j
    BY <1>3, <1>4
  <2>3. QED
    BY <1>1, <2>1, <2>2 DEF WatchInv, OldestFirst
<1>8. Len(transactions') <= 2
  <2>1. Len(transactions') = Len(transactions) - n
    <3>1. transactions' \in Seq(Transaction)
      <4>1. /\ transactions \in Seq(Transaction) /\ n + 1 \in Int /\ Len(transactions) \in Int
            /\ \A i \in n + 1 .. Len(transactions) : transactions[i] \in Transaction
        BY <1>4 DEF TypeInv, TypeOK
      <4>2. QED
        BY <1>2, <4>1, SubSeqProperties
    <3>2. Len(transactions') \in Nat /\ DOMAIN transactions' = 1 .. Len(transactions')
      BY <3>1, LenProperties
    <3>3. Len(transactions) - n \in Nat
      BY <1>4
    <3>4. QED
      BY <1>3, <3>2, <3>3
  <2>2. QED
    BY <1>4, <2>1 DEF WatchInv
<1>9. YoungAtTimeout'
  BY <1>1, <1>5, <1>6 DEF YoungAtTimeout
<1>10. OneTimer' /\ WatchedIdle' /\ WatchedAnswering'
  BY <1>1 DEF WatchInv, OneTimer, WatchedIdle, WatchedAnswering
<1>11. QED
  BY <1>7, <1>8, <1>9, <1>10 DEF WatchInv

LEMMA WatchExpired ==
  ASSUME TypeInv, OwnInv, AgeInv, ClockSuffices, WatchInv, TimeoutReturns
  PROVE  WatchInv'
<1>1. /\ at = "timeout" /\ at' = "idle" /\ UNCHANGED <<now, transactions, sent>>
      /\ IF transactions # <<>> THEN Rearm(transactions[1]) ELSE CancelTimer
  BY DEF TimeoutReturns
<1>2. /\ now \in Nat /\ Timeout \in Nat
      /\ Len(transactions) \in Nat /\ DOMAIN transactions = 1 .. Len(transactions)
      /\ \A k \in DOMAIN transactions : sent[transactions[k].mid] \in Nat
  BY Ages
<1>3. timer # NoTimer
      /\ \A k \in DOMAIN transactions : now - sent[transactions[k].mid] <= Timeout
  BY <1>1 DEF WatchInv, YoungAtTimeout
<1>4. OldestFirst' /\ Len(transactions') <= 2 /\ WatchedAnswering' /\ YoungAtTimeout'
  BY <1>1 DEF WatchInv, OldestFirst, WatchedAnswering, YoungAtTimeout
<1>5. CASE transactions = <<>>
  <2>1. timer' = NoTimer /\ OneTimer'
    BY <1>1, <1>5, CancelledTimer DEF WatchInv
  <2>2. DOMAIN transactions' = {}
    BY <1>1, <1>2, <1>5
  <2>3. QED
    BY <1>4, <2>1, <2>2 DEF WatchInv, WatchedIdle
<1>6. CASE transactions # <<>>
  <2>1. 1 \in DOMAIN transactions /\ Rearm(transactions[1])
    BY <1>1, <1>2, <1>6
  <2>2. /\ timer' = timer /\ OneTimer' /\ left'[timer] # Off
        /\ now + left'[timer] = sent[transactions[1].mid] + Timeout
    BY <1>3, <2>1, RearmedFor DEF WatchInv
  <2>3. ASSUME NEW k \in DOMAIN transactions
        PROVE  Watched(transactions[k].mid)'
    <3>1. sent[transactions[1].mid] <= sent[transactions[k].mid]
      BY <1>2, <2>1 DEF WatchInv, OldestFirst
    <3>2. now + left'[timer] <= sent[transactions[k].mid] + Timeout
      BY <1>2, <2>1, <2>2, <3>1
    <3>3. QED
      BY <1>1, <1>3, <2>2, <3>2 DEF Watched
  <2>4. QED
    BY <1>1, <1>4, <1>6, <2>2, <2>3 DEF WatchInv, WatchedIdle
<1>7. QED
  BY <1>5, <1>6

LEMMA WatchStep ==
  ASSUME TypeInv, OwnInv, AgeInv, ClockSuffices, RoomInv, WatchInv, [Next]_vars,
         "response" \notin SendFrom, "timeout" \notin TickAt, QueueCap >= 2 * MaxReq
  PROVE  WatchInv'
<1>1. CASE UNCHANGED vars
  <2>1. OneTimer' /\ \A m \in Mid : Watched(m) => Watched(m)'
    BY <1>1 DEF WatchInv, OneTimer, Watched, InQueue, vars, timerVars
  <2>2. QED
    BY <1>1, <2>1, WatchKept DEF vars, timerVars, appVars
<1>2. CASE CallExpired
  BY <1>2 DEF CallExpired, WatchInv, OneTimer, OldestFirst, WatchedIdle, WatchedAnswering,
     YoungAtTimeout, timerVars
<1>3. QED
  BY <1>1, <1>2, WatchTick, WatchFire, WatchRespond, WatchIgnored, WatchSend, WatchAnswer,
     WatchAnswered, WatchExpiry, WatchExpired DEF Next

\* Once an application has worked off its queue no request is older than the
\* time-out: the timer was always set again for the right transaction, whatever was
\* answered, expired or sent meanwhile, and over the wrap of the clock.  This holds
\* for applications that send no request from a response handler, as long as handlers
\* of time-outs take no time (the findings chained_request and slow_timeout), the
\* queue has room for a response and an expiry per request, and no request waits in
\* the list for a whole turn of the clock.
THEOREM TimeoutsOnTime ==
  ASSUME "response" \notin SendFrom, "timeout" \notin TickAt, QueueCap >= 2 * MaxReq
  PROVE  Spec /\ []ClockSuffices => []OnTime
<1>1. Init => WatchInv /\ RoomInv
  <2> SUFFICES ASSUME Init
               PROVE  WatchInv /\ RoomInv
    OBVIOUS
  <2>1. WatchInv
    BY DEF Init, WatchInv, OneTimer, OldestFirst, WatchedIdle, WatchedAnswering,
       YoungAtTimeout
  <2>2. Queued = 0 /\ Awaited = 0 /\ Running = 0 /\ Handling = 0
    BY FS_EmptySet DEF Init, Queued, Awaited, Running, Handling
  <2>3. QED
    BY <2>1, <2>2, TimeAssumption DEF Init, RoomInv
<1>2. /\ TypeInv /\ TypeInv' /\ OwnInv /\ AgeInv /\ ClockSuffices /\ RoomInv /\ WatchInv
      /\ [Next]_vars
      => WatchInv' /\ RoomInv'
  BY WatchStep, RoomStep DEF WatchInv
<1>3. TypeInv /\ OwnInv /\ AgeInv /\ WatchInv => OnTime
  <2> SUFFICES ASSUME TypeInv, OwnInv, AgeInv, WatchInv, at = "idle", queue = <<>>,
                      \A t \in Timer : left[t] # 0,
                      NEW k \in DOMAIN transactions
               PROVE  now - sent[transactions[k].mid] < Timeout
    BY DEF OnTime
  <2>1. ~InQueue(timer)
    BY DEF InQueue
  <2>2. timer # NoTimer /\ now + left[timer] <= sent[transactions[k].mid] + Timeout
    BY <2>1 DEF WatchInv, WatchedIdle, Watched
  <2>3. left[timer] \in Nat /\ left[timer] # 0
    BY <2>2, TimeAssumption DEF TypeInv, TypeOK, Off
  <2>4. now \in Nat /\ Timeout \in Nat /\ sent[transactions[k].mid] \in Nat
    BY Ages
  <2>5. QED
    BY <2>2, <2>3, <2>4
<1>4. QED
  BY <1>1, <1>2, <1>3, TypeInvariance, OwnInvariance, AgeInvariance, PTL DEF Spec

-----------------------------------------------------------------------------
(* The library of AssemblyScript (AsRequest): least ids, and the clock.    *)

LEMMA LeastId ==
  ASSUME NEW S \in SUBSET Nat, S # {}
  PROVE  Min(S) \in S /\ \A y \in S : Min(S) <= y
<1>1. \E x \in S : \A y \in S : x <= y
  BY LeastElement
<1>2. QED
  BY <1>1, Zenon DEF Min

LEMMA LeastIdIs ==
  ASSUME NEW S \in SUBSET Nat, NEW m \in S, \A y \in S : m <= y
  PROVE  Min(S) = m
<1>1. Min(S) \in S /\ Min(S) <= m
  BY LeastId
<1>2. m <= Min(S) /\ m \in Nat /\ Min(S) \in Nat
  BY <1>1
<1>3. QED
  BY <1>1, <1>2

\* A new id is greater than those before it.
LEMMA LeastIdStays ==
  ASSUME NEW S \in SUBSET Nat, S # {}, NEW x \in Nat, \A y \in S : y < x
  PROVE  Min(S \cup {x}) = Min(S)
<1>1. Min(S) \in S /\ \A y \in S : Min(S) <= y
  BY LeastId
<1>2. Min(S) \in S \cup {x} /\ \A y \in S \cup {x} : Min(S) <= y
  <2>1. Min(S) \in Nat /\ Min(S) < x
    BY <1>1
  <2>2. QED
    BY <1>1, <2>1
<1>3. S \cup {x} \in SUBSET Nat
  OBVIOUS
<1>4. QED
  BY <1>2, <1>3, LeastIdIs

\* The milliseconds that is_expire and the others see between two moments.
LEMMA ReadingDifference ==
  ASSUME NEW a \in Nat, NEW b \in Nat, b <= a,
         NEW x, x = Reading(a), NEW y, y = Reading(b),
         NEW p, p = IF x < y THEN x + (AsWrap - 1 - y) + 1 ELSE x - y
  PROVE  p \in 0 .. a - b /\ (a - b < AsWrap => p = a - b)
<1> DEFINE H == AsWrap \div 2
           u == (a + H) % AsWrap
           v == (b + H) % AsWrap
<1>1. AsWrap \in Nat \ {0} /\ H \in Nat
  BY AsAssumption
<1>2. x = u - H /\ y = v - H
  BY DEF Reading
<1> HIDE DEF H
<1>3. a + H \in Nat /\ b + H \in Nat /\ b + H <= a + H /\ (a + H) - (b + H) = a - b
  BY <1>1
<1>4. /\ (u - v) % AsWrap <= (a + H) - (b + H)
      /\ (a + H) - (b + H) < AsWrap => (u - v) % AsWrap = (a + H) - (b + H)
  BY <1>1, <1>3, ClockDifference
<1>5. u \in 0 .. AsWrap - 1 /\ v \in 0 .. AsWrap - 1
  BY <1>1, <1>3
<1> HIDE DEF u, v
<1>6. p = IF u < v THEN (u - v) + AsWrap ELSE u - v
  BY <1>1, <1>2, <1>5
<1>7. p \in 0 .. AsWrap - 1 /\ (u - v) % AsWrap = p
  <2>1. u - v \in Int /\ -AsWrap < u - v /\ u - v < AsWrap
    BY <1>1, <1>5
  <2>2. CASE u < v
    BY <1>1, <1>5, <1>6, <2>1, <2>2
  <2>3. CASE ~(u < v)
    BY <1>1, <1>5, <1>6, <2>1, <2>3
  <2>4. QED
    BY <2>2, <2>3
<1>8. QED
  BY <1>3, <1>4, <1>7

AsMessage == [kind : {"timer", "response"}, of : Nat]

\* A message is in the queue.
InInbox(msg) == \E j \in 1 .. Len(asInbox) : asInbox[j] = msg

TimerMsg(t)    == [kind |-> "timer", of |-> t]
ResponseMsg(m) == [kind |-> "response", of |-> m]

Lag(m) == clock - askedAt[m]

\* Types; ids and timers are numbered as they are made, and younger requests are later.
AsTypes ==
  /\ clock \in Nat /\ AsBegin <= clock /\ clock <= MaxClock
  /\ asked \in Nat /\ asked <= MaxAsked /\ timersMade \in Nat /\ timersMade <= asked
  /\ transactionList \subseteq 1 .. asked /\ unanswered \subseteq 1 .. asked
  /\ askedAt \in [AsMid -> Nat]
  /\ \A m \in 1 .. asked : AsBegin <= askedAt[m] /\ askedAt[m] <= clock
  /\ \A m, n \in 1 .. asked : m <= n => askedAt[m] <= askedAt[n]
  /\ transTimer \in 0 .. timersMade /\ timerList \subseteq 1 .. timersMade
  /\ runsFor \in [AsTimer -> 0 .. AsWrap]
  /\ asInbox \in Seq(AsMessage)
  /\ told \in [AsMid -> Nat]
  /\ untested \subseteq 1 .. asked /\ unkept \subseteq 1 .. asked
  /\ AtRest \/ expiring \subseteq 1 .. asked

\* Who was told of a time-out is in no list, and it was time; what the first pass found
\* expired, the second drops.
AsTells ==
  /\ \A m \in AsMid :
       /\ told[m] = 0 \/ (told[m] = 1 /\ Lag(m) >= AsTimeout)
       /\ told[m] # 0 => m <= asked /\ m \notin transactionList /\ m \notin expiring
  /\ AtRest => untested = {} /\ unkept = {}
  /\ ~AtRest =>
       /\ untested \subseteq unkept /\ unkept \subseteq transactionList
       /\ expiring \cap transactionList \subseteq unkept
       /\ \A m \in expiring : Lag(m) >= AsTimeout

\* A response is on its way once.
AsAnswers ==
  \A j \in 1 .. Len(asInbox) : asInbox[j].kind = "response" =>
    /\ asInbox[j].of \in (1 .. asked) \ unanswered
    /\ \A i \in 1 .. Len(asInbox) : asInbox[i] = asInbox[j] => i = j

\* The timer runs until the first of the list expires, or the second, when the first
\* was answered; or its message is in the queue; or a request was late when the timer
\* was set for it, which it is for longer than the time-out.
RunsUntil(m) == runsFor[transTimer] = AsTimeout - Lag(m)

Answered(m) == m \notin unanswered /\ ~InInbox(ResponseMsg(m))

WatchesFirst == RunsUntil(Min(transactionList))

WatchesSecond ==
  LET first == Min(transactionList) IN
  Answered(first) /\ transactionList # {first} /\ RunsUntil(Min(transactionList \ {first}))

RunsOver ==
  \E m \in 1 .. asked :
    Lag(m) > AsTimeout /\ runsFor[transTimer] = AsTimeout - Lag(m) + AsWrap

AsWatched ==
  AtRest /\ transTimer \in timerList /\ transactionList # {} =>
    InInbox(TimerMsg(transTimer)) \/ WatchesFirst \/ WatchesSecond \/ RunsOver

\* No request is older than a round of the clock.
LEMMA AsLags ==
  ASSUME AsTypes, MaxClock - AsBegin < AsWrap, NEW m \in 1 .. asked
  PROVE  Lag(m) \in Nat /\ Lag(m) < AsWrap
<1>1. /\ m \in AsMid /\ askedAt[m] \in Nat /\ AsBegin <= askedAt[m] /\ askedAt[m] <= clock
      /\ clock <= MaxClock /\ clock \in Nat /\ AsBegin \in Nat /\ MaxClock \in Nat /\ AsWrap \in Nat
  BY AsAssumption DEF AsTypes, AsMid
<1>2. QED
  BY <1>1 DEF Lag

LEMMA AsClock ==
  ASSUME AsTypes, NEW m \in 1 .. asked
  PROVE  /\ m \in AsMid /\ Lag(m) \in Nat /\ Passed(m) \in 0 .. Lag(m)
         /\ Lag(m) < AsWrap => Passed(m) = Lag(m)
<1>1. /\ m \in AsMid /\ clock \in Nat /\ askedAt[m] \in Nat /\ askedAt[m] <= clock
      /\ AsWrap \in Nat \ {0}
  BY AsAssumption DEF AsTypes, AsMid
<1>2. ASSUME NEW s, s = askedAt[m], NEW c, c = clock,
             NEW x, x = Reading(c), NEW y, y = Reading(s)
      PROVE  Passed(m) \in 0 .. Lag(m) /\ (Lag(m) < AsWrap => Passed(m) = Lag(m))
  <2> DEFINE p == IF x < y THEN x + (AsWrap - 1 - y) + 1 ELSE x - y
  <2>1. c \in Nat /\ s \in Nat /\ s <= c /\ Lag(m) = c - s
    BY <1>1, <1>2 DEF Lag
  <2>2. p \in 0 .. c - s /\ (c - s < AsWrap => p = c - s)
    BY <1>2, <2>1, ReadingDifference
  <2>3. Passed(m) = p
    BY <1>2 DEF Passed
  <2>4. QED
    BY <2>1, <2>2, <2>3
<1>3. Lag(m) \in Nat
  BY <1>1 DEF Lag
<1>4. QED
  BY <1>1, <1>2, <1>3

\* What timer_restart sets.
LEMMA RestartIs ==
  ASSUME AsTypes, NEW m \in 1 .. asked
  PROVE  /\ RestartFor(m) \in [AsTimer -> 0 .. AsWrap]
         /\ transTimer \in AsTimer /\ Lag(m) <= AsTimeout =>
              RestartFor(m)[transTimer] = AsTimeout - Lag(m)
         /\ transTimer \in AsTimer /\ AsTimeout < Lag(m) /\ Lag(m) < AsWrap =>
              RestartFor(m)[transTimer] = AsTimeout - Lag(m) + AsWrap
<1>1. /\ AsWrap \in Nat \ {0} /\ AsTimeout \in Nat /\ AsTimeout < AsWrap
      /\ runsFor \in [AsTimer -> 0 .. AsWrap] /\ Lag(m) \in Nat /\ Passed(m) \in Nat
      /\ Lag(m) < AsWrap => Passed(m) = Lag(m)
  <2>1. /\ AsWrap \in Nat \ {0} /\ AsTimeout \in Nat /\ AsTimeout < AsWrap
        /\ runsFor \in [AsTimer -> 0 .. AsWrap]
    BY AsAssumption DEF AsTypes
  <2>2. Lag(m) \in Nat /\ Passed(m) \in 0 .. Lag(m) /\ (Lag(m) < AsWrap => Passed(m) = Lag(m))
    BY AsClock
  <2>3. QED
    BY <2>1, <2>2
<1> DEFINE v == (AsTimeout - Passed(m)) % AsWrap
<1>2. v \in 0 .. AsWrap - 1
  <2>1. AsTimeout - Passed(m) \in Int
    BY <1>1
  <2>2. QED
    BY <1>1, <2>1
<1>3. RestartFor(m) = [runsFor EXCEPT ![transTimer] = v]
  BY DEF RestartFor
<1>4. Lag(m) <= AsTimeout => v = AsTimeout - Lag(m)
  <2> SUFFICES ASSUME Lag(m) <= AsTimeout PROVE v = AsTimeout - Lag(m)
    OBVIOUS
  <2>1. Passed(m) = Lag(m) /\ AsTimeout - Lag(m) \in 0 .. AsWrap - 1
    BY <1>1
  <2>2. QED
    BY <1>1, <2>1
<1>7. AsTimeout < Lag(m) /\ Lag(m) < AsWrap => v = AsTimeout - Lag(m) + AsWrap
  <2> SUFFICES ASSUME AsTimeout < Lag(m), Lag(m) < AsWrap PROVE v = AsTimeout - Lag(m) + AsWrap
    OBVIOUS
  <2>1. Passed(m) = Lag(m) /\ AsTimeout - Lag(m) \in Int
        /\ AsTimeout - Lag(m) + AsWrap \in 0 .. AsWrap - 1
    BY <1>1
  <2>2. QED
    BY <1>1, <2>1
<1> HIDE DEF v
<1>5. v \in 0 .. AsWrap
  BY <1>1, <1>2
<1>6. QED
  BY <1>1, <1>3, <1>4, <1>5, <1>7

LEMMA CancelledIs ==
  ASSUME AsTypes, Cancelled
  PROVE  /\ runsFor' \in [AsTimer -> 0 .. AsWrap] /\ transTimer' = transTimer
         /\ transTimer \notin timerList' /\ timerList' \subseteq timerList
         /\ timersMade' = timersMade
<1>1. AsOff \in 0 .. AsWrap /\ runsFor \in [AsTimer -> 0 .. AsWrap]
  BY AsAssumption DEF AsOff, AsTypes
<1>2. QED
  BY <1>1 DEF Cancelled

LEMMA SetTimeoutIs ==
  ASSUME AsTypes, asked < MaxAsked, SetTimeout
  PROVE  /\ runsFor' \in [AsTimer -> 0 .. AsWrap] /\ transTimer' = timersMade + 1
         /\ timerList' \subseteq 1 .. timersMade + 1 /\ timersMade' = timersMade + 1
         /\ runsFor'[transTimer'] = AsTimeout
<1>1. /\ AsTimeout \in 0 .. AsWrap /\ runsFor \in [AsTimer -> 0 .. AsWrap]
      /\ timersMade \in Nat /\ timersMade + 1 \in AsTimer
      /\ timerList \subseteq 1 .. timersMade
  BY AsAssumption DEF AsTypes, AsTimer
<1>2. /\ timersMade' = timersMade + 1 /\ transTimer' = timersMade + 1
      /\ timerList' = timerList \cup {timersMade + 1}
      /\ runsFor' = [runsFor EXCEPT ![timersMade + 1] = AsTimeout]
  BY DEF SetTimeout
<1>3. QED
  BY <1>1, <1>2

LEMMA AskIs ==
  ASSUME AsTypes, UNCHANGED clock, Ask(transactionList)
  PROVE  /\ asked + 1 \in AsMid /\ asked' = asked + 1 /\ asked < MaxAsked
         /\ askedAt' \in [AsMid -> Nat] /\ askedAt'[asked + 1] = clock
         /\ \A m \in 1 .. asked : m \in AsMid /\ askedAt'[m] = askedAt[m]
<1>1. asked \in Nat /\ asked < MaxAsked /\ MaxAsked \in Nat
  BY AsAssumption DEF Ask, AsTypes
<1>2. asked + 1 \in AsMid /\ asked' = asked + 1 /\ \A m \in 1 .. asked : m \in AsMid /\ m # asked + 1
  BY <1>1 DEF Ask, AsMid
<1>3. askedAt' = [askedAt EXCEPT ![asked + 1] = clock]
  BY DEF Ask
<1>4. QED
  BY <1>1, <1>2, <1>3 DEF AsTypes

\* With the clock or without, and a request more or not, the ages are in order.
LEMMA AgesKept ==
  ASSUME AsTypes, clock' \in Nat, clock <= clock', clock' <= MaxClock,
         \/ asked' = asked /\ askedAt' = askedAt
         \/ /\ asked' = asked + 1 /\ asked < MaxAsked /\ clock' = clock
            /\ askedAt' = [askedAt EXCEPT ![asked + 1] = clock]
  PROVE  /\ AsBegin <= clock' /\ asked' \in Nat /\ asked <= asked' /\ asked' <= MaxAsked
         /\ askedAt' \in [AsMid -> Nat]
         /\ \A m \in 1 .. asked : askedAt'[m] = askedAt[m] /\ m \in 1 .. asked'
         /\ \A m \in 1 .. asked' : AsBegin <= askedAt'[m] /\ askedAt'[m] <= clock'
         /\ \A m, n \in 1 .. asked' : m <= n => askedAt'[m] <= askedAt'[n]
<1>1. /\ asked \in Nat /\ clock \in Nat /\ AsBegin <= clock /\ AsBegin \in Nat /\ MaxAsked \in Nat
      /\ asked <= MaxAsked
      /\ askedAt \in [AsMid -> Nat]
      /\ \A m \in 1 .. asked : m \in AsMid /\ AsBegin <= askedAt[m] /\ askedAt[m] <= clock
      /\ \A m, n \in 1 .. asked : m <= n => askedAt[m] <= askedAt[n]
  BY AsAssumption DEF AsTypes, AsMid
<1>2. CASE asked' = asked /\ askedAt' = askedAt
  <2>1. \A m \in 1 .. asked : askedAt[m] <= clock'
    BY <1>1
  <2>2. QED
    BY <1>1, <1>2, <2>1
<1>3. CASE /\ asked' = asked + 1 /\ asked < MaxAsked /\ clock' = clock
           /\ askedAt' = [askedAt EXCEPT ![asked + 1] = clock]
  <2>1. asked + 1 \in AsMid /\ \A m \in 1 .. asked' : m = asked + 1 \/ m \in 1 .. asked
    BY <1>1, <1>3 DEF AsMid
  <2>2. /\ askedAt' \in [AsMid -> Nat] /\ askedAt'[asked + 1] = clock
        /\ \A m \in 1 .. asked : askedAt'[m] = askedAt[m]
    BY <1>1, <1>3, <2>1
  <2>3. \A m \in 1 .. asked' : AsBegin <= askedAt'[m] /\ askedAt'[m] <= clock'
    BY <1>1, <1>3, <2>1, <2>2
  <2>4. ASSUME NEW m \in 1 .. asked', NEW n \in 1 .. asked', m <= n
        PROVE  askedAt'[m] <= askedAt'[n]
    <3>1. CASE n = asked + 1
      BY <1>3, <2>2, <2>3, <3>1
    <3>2. CASE n \in 1 .. asked
      <4>1. m \in 1 .. asked
        BY <1>1, <1>3, <2>4, <3>2
      <4>2. QED
        BY <1>1, <2>2, <2>4, <3>2, <4>1
    <3>3. QED
      BY <2>1, <3>1, <3>2
  <2>5. QED
    BY <1>1, <1>3, <2>2, <2>3, <2>4
<1>4. QED
  BY <1>2, <1>3

LEMMA TimerForNewIs ==
  ASSUME AsTypes, asked < MaxAsked, TimerForNew(transactionList)
  PROVE  /\ timersMade' \in {timersMade, timersMade + 1}
         /\ transTimer' \in 0 .. timersMade' /\ timerList' \subseteq 1 .. timersMade'
         /\ runsFor' \in [AsTimer -> 0 .. AsWrap]
<1>1. timersMade \in Nat /\ transTimer \in 0 .. timersMade /\ timerList \subseteq 1 .. timersMade
        /\ runsFor \in [AsTimer -> 0 .. AsWrap]
  BY DEF AsTypes
<1>2. CASE SetTimeout
  BY <1>1, <1>2, SetTimeoutIs
<1>3. CASE UNCHANGED asTimerVars
  BY <1>1, <1>3 DEF asTimerVars
<1>4. QED
  BY <1>2, <1>3 DEF TimerForNew

LEMMA AsTypesKept ==
  ASSUME AsTypes, AsTells, [AsNext]_asVars
  PROVE  AsTypes'
<1>0. /\ clock \in Nat /\ clock <= MaxClock /\ asked \in Nat /\ asked <= MaxAsked
      /\ timersMade \in Nat /\ timersMade <= asked
      /\ transactionList \subseteq 1 .. asked /\ unanswered \subseteq 1 .. asked
      /\ transTimer \in 0 .. timersMade /\ timerList \subseteq 1 .. timersMade
      /\ runsFor \in [AsTimer -> 0 .. AsWrap]
      /\ asInbox \in Seq(AsMessage)
      /\ told \in [AsMid -> Nat]
      /\ AtRest \/ expiring \subseteq 1 .. asked
      /\ untested \subseteq 1 .. asked /\ unkept \subseteq 1 .. asked
      /\ MaxClock \in Nat /\ AsWrap \in Nat
  BY AsAssumption DEF AsTypes
<1>f. untested' \subseteq 1 .. asked' /\ unkept' \subseteq 1 .. asked'
  <2>1. asked' = asked \/ asked' = asked + 1
    BY DEF AsNext, asVars, ClockTicks, Request, TestExpired, KeepOthers, TellExpired, EndTimeOut,
           TimerExpires, NoSuchTimer, TimeOut, AnswerArrives, Answer, Ask
  <2>2. /\ untested' = untested \/ untested' = transactionList \/ untested' = untested \ {Min(untested)}
        /\ unkept' = unkept \/ unkept' = transactionList \/ unkept' = unkept \ {Min(unkept)}
    BY DEF AsNext, asVars, filterVars, ClockTicks, Request, TestExpired, KeepOthers, TellExpired,
           EndTimeOut, TimerExpires, NoSuchTimer, TimeOut, AnswerArrives, Answer
  <2>3. 1 .. asked \subseteq 1 .. asked'
    BY <1>0, <2>1
  <2>4. transactionList \subseteq 1 .. asked /\ untested \subseteq 1 .. asked /\ unkept \subseteq 1 .. asked
    BY <1>0
  <2>5. QED
    BY <2>2, <2>3, <2>4
\* What is the same in every step that does not tick, or ask.
<1>1. ASSUME clock' \in Nat, clock <= clock', clock' <= MaxClock,
             \/ asked' = asked /\ askedAt' = askedAt
             \/ /\ asked' = asked + 1 /\ asked < MaxAsked /\ clock' = clock
                /\ askedAt' = [askedAt EXCEPT ![asked + 1] = clock],
             timersMade' \in Nat, timersMade' <= asked',
             transactionList' \subseteq 1 .. asked', unanswered' \subseteq 1 .. asked',
             transTimer' \in 0 .. timersMade', timerList' \subseteq 1 .. timersMade',
             runsFor' \in [AsTimer -> 0 .. AsWrap], asInbox' \in Seq(AsMessage),
             told' \in [AsMid -> Nat], AtRest' \/ expiring' \subseteq 1 .. asked'
      PROVE  AsTypes'
  BY <1>1, <1>f, AgesKept DEF AsTypes
<1>2. CASE UNCHANGED asVars
  BY <1>0, <1>1, <1>2 DEF asVars, asTimerVars, AtRest
<1>3. CASE ClockTicks
  <2>1. /\ clock' = clock + 1 /\ clock < MaxClock
        /\ runsFor' = [t \in AsTimer |-> IF runsFor[t] = AsOff THEN AsOff ELSE runsFor[t] - 1]
        /\ \A t \in AsTimer : runsFor[t] # 0
        /\ UNCHANGED <<transactionList, askedAt, asked, transTimer, timerList, timersMade,
                       asInbox, unanswered, expiring, told>>
    BY <1>3 DEF ClockTicks
  <2>2. runsFor' \in [AsTimer -> 0 .. AsWrap]
    BY <1>0, <2>1 DEF AsOff
  <2>3. AtRest' \/ expiring' \subseteq 1 .. asked'
    BY <1>0, <2>1 DEF AtRest
  <2>4. QED
    BY <1>0, <1>1, <2>1, <2>2, <2>3
<1>4. ASSUME NEW t \in AsTimer, TimerExpires(t)
      PROVE  AsTypes'
  <2>1. /\ runsFor' = [runsFor EXCEPT ![t] = AsOff]
        /\ asInbox' = Append(asInbox, [kind |-> "timer", of |-> t])
        /\ UNCHANGED <<clock, transactionList, askedAt, asked, transTimer, timerList,
                       timersMade, unanswered, expiring, told>>
    BY <1>4 DEF TimerExpires
  <2>2. [kind |-> "timer", of |-> t] \in AsMessage
    BY DEF AsMessage, AsTimer
  <2>3. runsFor' \in [AsTimer -> 0 .. AsWrap] /\ asInbox' \in Seq(AsMessage)
    BY <1>0, <2>1, <2>2 DEF AsOff
  <2>4. AtRest' \/ expiring' \subseteq 1 .. asked'
    BY <1>0, <2>1 DEF AtRest
  <2>5. QED
    BY <1>0, <1>1, <2>1, <2>3, <2>4
<1>5. ASSUME NEW m \in AsMid, AnswerArrives(m)
      PROVE  AsTypes'
  <2>1. /\ unanswered' = unanswered \ {m}
        /\ asInbox' = Append(asInbox, [kind |-> "response", of |-> m])
        /\ UNCHANGED <<clock, transactionList, askedAt, asked, asTimerVars, expiring, told>>
    BY <1>5 DEF AnswerArrives
  <2>2. [kind |-> "response", of |-> m] \in AsMessage
    BY DEF AsMessage, AsMid
  <2>3. asInbox' \in Seq(AsMessage)
    BY <1>0, <2>1, <2>2
  <2>4. AtRest' \/ expiring' \subseteq 1 .. asked'
    BY <1>0, <2>1 DEF AtRest
  <2>5. /\ unanswered' \subseteq 1 .. asked' /\ asked' = asked /\ clock' = clock
        /\ UNCHANGED <<transTimer, timerList, runsFor, timersMade>>
    BY <1>0, <2>1 DEF asTimerVars
  <2>6. QED
    BY <1>0, <1>1, <2>1, <2>3, <2>4, <2>5
<1>6. CASE Request
  <2>1. /\ Ask(transactionList) /\ TimerForNew(transactionList)
        /\ UNCHANGED <<clock, asInbox, expiring, told>>
    BY <1>6 DEF Request
  <2>2. /\ asked < MaxAsked /\ asked' = asked + 1
        /\ transactionList' = transactionList \cup {asked + 1}
        /\ askedAt' = [askedAt EXCEPT ![asked + 1] = clock]
        /\ unanswered' = unanswered \cup {asked + 1}
    BY <2>1 DEF Ask
  <2>3. /\ timersMade' \in {timersMade, timersMade + 1}
        /\ transTimer' \in 0 .. timersMade' /\ timerList' \subseteq 1 .. timersMade'
        /\ runsFor' \in [AsTimer -> 0 .. AsWrap]
    BY <2>1, <2>2, TimerForNewIs
  <2>4. transactionList' \subseteq 1 .. asked' /\ unanswered' \subseteq 1 .. asked'
    BY <1>0, <2>2
  <2>5. AtRest' \/ expiring' \subseteq 1 .. asked'
    BY <1>0, <2>1, <2>2 DEF AtRest
  <2>6. timersMade' \in Nat /\ timersMade' <= asked'
    BY <1>0, <2>2, <2>3
  <2>7. QED
    BY <1>0, <1>1, <2>1, <2>2, <2>3, <2>4, <2>5, <2>6
<1>7. ASSUME NEW m \in AsMid, Answer(m)
      PROVE  AsTypes'
  <2>1. AtRest /\ asInbox # <<>> /\ asInbox' = Tail(asInbox) /\ UNCHANGED <<clock, expiring, told>>
    BY <1>7 DEF Answer, Taken
  <2>2. asInbox' \in Seq(AsMessage)
    BY <1>0, <2>1
  <2>3. /\ timersMade' = timersMade
        /\ transTimer' \in 0 .. timersMade' /\ timerList' \subseteq 1 .. timersMade'
        /\ runsFor' \in [AsTimer -> 0 .. AsWrap]
    <3>1. CASE UNCHANGED asTimerVars
      BY <1>0, <3>1 DEF asTimerVars
    <3>2. CASE Cancelled
      BY <1>0, <3>2, CancelledIs
    <3>3. ASSUME transactionList # {}, transactionList # {m}, Min(transactionList) = m,
                 runsFor' = RestartFor(Min(transactionList \ {m})),
                 UNCHANGED <<transTimer, timerList, timersMade>>
          PROVE  runsFor' \in [AsTimer -> 0 .. AsWrap]
      <4>5. transactionList \subseteq 1 .. asked /\ asked \in Nat
        BY <1>0
      <4>6. \A y \in transactionList \ {m} : y \in Nat
        BY <4>5
      <4>3. transactionList \ {m} \in SUBSET Nat
        BY <4>6, Zenon
      <4>4. transactionList \ {m} # {}
        BY <3>3
      <4>1. Min(transactionList \ {m}) \in transactionList \ {m}
        BY <4>3, <4>4, LeastId
      <4>2. QED
        BY <1>0, <3>3, <4>1, RestartIs
    <3>4. QED
      BY <1>0, <1>7, <3>1, <3>2, <3>3 DEF Answer
  <2>4. \/ UNCHANGED <<transactionList, askedAt, asked, unanswered>>
        \/ /\ asked < MaxAsked /\ asked' = asked + 1
           /\ transactionList' = transactionList \cup {asked + 1}
           /\ askedAt' = [askedAt EXCEPT ![asked + 1] = clock]
           /\ unanswered' = unanswered \cup {asked + 1}
    BY <1>7 DEF Answer, Ask
  <2>5. /\ transactionList' \subseteq 1 .. asked' /\ unanswered' \subseteq 1 .. asked'
        /\ timersMade' <= asked'
    <3>1. CASE UNCHANGED <<transactionList, askedAt, asked, unanswered>>
      BY <1>0, <2>3, <3>1
    <3>2. CASE /\ asked' = asked + 1 /\ transactionList' = transactionList \cup {asked + 1}
               /\ unanswered' = unanswered \cup {asked + 1}
      BY <1>0, <2>3, <3>2
    <3>3. QED
      BY <2>4, <3>1, <3>2
  <2>6. AtRest'
    BY <2>1 DEF AtRest
  <2>7. QED
    BY <1>0, <1>1, <2>1, <2>2, <2>3, <2>4, <2>5, <2>6
<1>8. ASSUME NEW t \in AsTimer, NoSuchTimer(t)
      PROVE  AsTypes'
  <2>1. /\ AtRest /\ asInbox # <<>> /\ asInbox' = Tail(asInbox)
        /\ UNCHANGED <<clock, transactionList, askedAt, asked, asTimerVars, unanswered,
                       expiring, told>>
    BY <1>8 DEF NoSuchTimer, Taken
  <2>2. asInbox' \in Seq(AsMessage) /\ AtRest'
    BY <1>0, <2>1 DEF AtRest
  <2>3. QED
    BY <1>0, <1>1, <2>1, <2>2 DEF asTimerVars
<1>9. ASSUME NEW t \in AsTimer, TimeOut(t)
      PROVE  AsTypes'
  <2>1. /\ AtRest /\ asInbox # <<>> /\ asInbox' = Tail(asInbox) /\ expiring' = {}
        /\ UNCHANGED <<clock, transactionList, askedAt, asked, asTimerVars, unanswered, told>>
    BY <1>9 DEF TimeOut, Taken
  <2>2. asInbox' \in Seq(AsMessage)
    BY <1>0, <2>1
  <2>3. expiring' \subseteq 1 .. asked'
    BY <1>0, <2>1
  <2>4. QED
    BY <1>0, <1>1, <2>1, <2>2, <2>3 DEF asTimerVars
<1>13. CASE TestExpired
  <2>1. /\ expiring' = expiring \/ expiring' = expiring \cup {Min(untested)}
        /\ untested # {} /\ ~AtRest
        /\ UNCHANGED <<clock, transactionList, askedAt, asked, asTimerVars, asInbox, unanswered, told>>
    BY <1>13 DEF TestExpired, AsTells
  <2>2. Min(untested) \in untested
    <3>1. untested \in SUBSET Nat
      BY <1>0
    <3>2. QED
      BY <2>1, <3>1, LeastId
  <2>3. expiring' \subseteq 1 .. asked'
    BY <1>0, <2>1, <2>2
  <2>4. QED
    BY <1>0, <1>1, <2>1, <2>3 DEF asTimerVars
<1>14. CASE KeepOthers
  <2>1. /\ transactionList' \subseteq transactionList
        /\ UNCHANGED <<clock, askedAt, asked, asTimerVars, asInbox, unanswered, expiring, told>>
    BY <1>14 DEF KeepOthers
  <2>2. AtRest' \/ expiring' \subseteq 1 .. asked'
    BY <1>0, <2>1 DEF AtRest
  <2>3. QED
    BY <1>0, <1>1, <2>1, <2>2 DEF asTimerVars
<1>10. CASE TellExpired
  <2>1. /\ ~AtRest /\ expiring # {} /\ expiring' = expiring \ {Min(expiring)}
        /\ told' = [told EXCEPT ![Min(expiring)] = @ + 1]
        /\ UNCHANGED <<clock, asInbox>>
    BY <1>10 DEF TellExpired, Filtered
  <2>2. told' \in [AsMid -> Nat]
    <3>1. Min(expiring) \in AsMid
      <4>1. expiring \subseteq 1 .. asked /\ expiring \in SUBSET Nat /\ 1 .. asked \subseteq AsMid
        BY <1>0, <2>1, AsAssumption DEF AsMid
      <4>2. QED
        BY <2>1, <4>1, LeastId
    <3>2. QED
      BY <1>0, <2>1, <3>1
  <2>3. CASE /\ asked < MaxAsked /\ asked' = asked + 1
             /\ askedAt' = [askedAt EXCEPT ![asked + 1] = clock]
             /\ unanswered' = unanswered \cup {asked + 1}
             /\ TimerForNew(transactionList)
             /\ transactionList' \subseteq transactionList \cup {asked + 1}
    <3>1. /\ timersMade' \in {timersMade, timersMade + 1}
          /\ transTimer' \in 0 .. timersMade' /\ timerList' \subseteq 1 .. timersMade'
          /\ runsFor' \in [AsTimer -> 0 .. AsWrap]
      BY <2>3, TimerForNewIs
    <3>2. transactionList' \subseteq 1 .. asked' /\ unanswered' \subseteq 1 .. asked'
      BY <1>0, <2>3
    <3>3. expiring' \subseteq 1 .. asked'
      BY <1>0, <2>1, <2>3
    <3>4. timersMade' \in Nat /\ timersMade' <= asked'
      BY <1>0, <2>3, <3>1
    <3>5. QED
      BY <1>0, <1>1, <2>1, <2>2, <2>3, <3>1, <3>2, <3>3, <3>4
  <2>4. CASE /\ transactionList' \subseteq transactionList
             /\ UNCHANGED <<askedAt, asked, asTimerVars, unanswered>>
    <3>1. transactionList' \subseteq 1 .. asked'
      BY <1>0, <2>4
    <3>2. expiring' \subseteq 1 .. asked'
      BY <1>0, <2>1, <2>4
    <3>3. QED
      BY <1>0, <1>1, <2>1, <2>2, <2>4, <3>1, <3>2 DEF asTimerVars
  <2>5. QED
    BY <1>10, <2>3, <2>4 DEF TellExpired, Removed
<1>11. CASE EndTimeOut
  <2>1. /\ expiring' = {AsNone}
        /\ UNCHANGED <<clock, transactionList, askedAt, asked, asInbox, unanswered, told>>
    BY <1>11 DEF EndTimeOut
  <2>2. /\ timersMade' = timersMade
        /\ transTimer' \in 0 .. timersMade' /\ timerList' \subseteq 1 .. timersMade'
        /\ runsFor' \in [AsTimer -> 0 .. AsWrap]
    <3>1. CASE Cancelled
      BY <1>0, <3>1, CancelledIs
    <3>2. ASSUME transactionList # {}, runsFor' = RestartFor(Min(transactionList)),
                 UNCHANGED <<transTimer, timerList, timersMade>>
          PROVE  runsFor' \in [AsTimer -> 0 .. AsWrap]
      <4>1. Min(transactionList) \in transactionList
        BY <1>0, <3>2, LeastId
      <4>2. QED
        BY <1>0, <3>2, <4>1, RestartIs
    <3>3. QED
      BY <1>0, <1>11, <3>1, <3>2 DEF EndTimeOut
  <2>3. AtRest'
    BY <2>1 DEF AtRest
  <2>4. QED
    BY <1>0, <1>1, <2>1, <2>2, <2>3
<1>12. QED
  BY <1>2, <1>3, <1>4, <1>5, <1>6, <1>7, <1>8, <1>9, <1>10, <1>11, <1>13, <1>14 DEF AsNext

LEMMA AsHistory ==
  ASSUME AsTypes, [AsNext]_asVars
  PROVE  /\ asked <= asked' /\ clock <= clock'
         /\ \A m \in 1 .. asked :
              /\ m \in 1 .. asked' /\ askedAt'[m] = askedAt[m] /\ Lag(m) <= Lag(m)'
              /\ clock' = clock => Lag(m)' = Lag(m) /\ Passed(m)' = Passed(m)
<1>1. clock \in Nat /\ clock <= MaxClock /\ asked \in Nat /\ MaxClock \in Nat
  BY AsAssumption DEF AsTypes
<1>2. /\ clock' = clock \/ (clock' = clock + 1 /\ clock < MaxClock)
      /\ \/ asked' = asked /\ askedAt' = askedAt
         \/ /\ asked' = asked + 1 /\ asked < MaxAsked /\ clock' = clock
            /\ askedAt' = [askedAt EXCEPT ![asked + 1] = clock]
  BY DEF AsNext, asVars, asTimerVars, ClockTicks, Request, TestExpired, KeepOthers, TellExpired,
         EndTimeOut, TimerExpires, NoSuchTimer, TimeOut, AnswerArrives, Answer, Ask
<1>3. /\ asked <= asked' /\ \A m \in 1 .. asked : askedAt'[m] = askedAt[m] /\ m \in 1 .. asked'
  BY <1>1, <1>2, AgesKept
<1>4. ASSUME NEW m \in 1 .. asked
      PROVE  /\ Lag(m) <= Lag(m)'
             /\ clock' = clock => Lag(m)' = Lag(m) /\ Passed(m)' = Passed(m)
  <2>1. askedAt'[m] = askedAt[m] /\ askedAt[m] \in Nat
    BY <1>3, AsClock DEF AsTypes
  <2>2. Lag(m) <= Lag(m)' /\ (clock' = clock => Lag(m)' = Lag(m))
    BY <1>1, <1>2, <2>1 DEF Lag
  <2>3. ASSUME clock' = clock PROVE Passed(m)' = Passed(m)
    BY <2>1, <2>3 DEF Passed, Reading
  <2>4. QED
    BY <2>2, <2>3
<1>5. QED
  BY <1>1, <1>2, <1>3, <1>4

LEMMA AsTellsKept ==
  ASSUME AsTypes, AsTells, MaxClock - AsBegin < AsWrap, [AsNext]_asVars
  PROVE  AsTells'
<1>0. /\ asked \in Nat /\ transactionList \subseteq 1 .. asked /\ told \in [AsMid -> Nat]
      /\ \A m \in 1 .. asked : m \in AsMid
      /\ untested \subseteq 1 .. asked /\ unkept \subseteq 1 .. asked
      /\ AtRest \/ expiring \subseteq 1 .. asked
  BY AsAssumption DEF AsTypes, AsMid
<1>1. /\ asked <= asked' /\ clock <= clock' /\ asked' \in Nat
      /\ \A m \in 1 .. asked :
           m \in 1 .. asked' /\ Lag(m) \in Nat /\ Lag(m)' \in Nat /\ Lag(m) <= Lag(m)'
  <2>1. AsTypes'
    BY AsTypesKept
  <2>2. \A m \in 1 .. asked : m \in 1 .. asked' /\ askedAt'[m] = askedAt[m] /\ Lag(m) \in Nat
    BY AsHistory, AsClock
  <2>3. \A m \in 1 .. asked : Lag(m)' \in Nat
    BY <1>0, <2>1, <2>2 DEF AsTypes, Lag
  <2>4. QED
    BY <2>1, <2>2, <2>3, AsHistory DEF AsTypes
\* Who was told is in no list, where no list gets one that was there before.
<1>2. ASSUME NEW m \in AsMid, told'[m] = told[m],
             \A n \in transactionList' : n \in transactionList \/ ~(n <= asked),
             \A n \in expiring' : n \in expiring \/ n \in transactionList \/ n = AsNone
      PROVE  /\ told'[m] = 0 \/ (told'[m] = 1 /\ Lag(m)' >= AsTimeout)
             /\ told'[m] # 0 => m <= asked' /\ m \notin transactionList' /\ m \notin expiring'
  <2>1. CASE told[m] = 0
    BY <1>2, <2>1
  <2>2. CASE told[m] # 0
    <3>1. m \in 1 .. asked /\ told[m] = 1 /\ Lag(m) >= AsTimeout
          /\ m \notin transactionList /\ m \notin expiring
      BY <1>0, <2>2 DEF AsTells, AsMid
    <3>2. m \notin transactionList' /\ m \notin expiring'
      BY <1>2, <3>1 DEF AsNone
    <3>3. Lag(m)' >= AsTimeout /\ m <= asked'
      BY <1>1, <3>1, AsAssumption
    <3>4. QED
      BY <1>2, <3>1, <3>2, <3>3
  <2>3. QED
    BY <2>1, <2>2
\* The library is in no time-out.
<1>3. ASSUME told' = told, AtRest', untested' = {}, unkept' = {},
             \A m \in transactionList' : m \in transactionList \/ ~(m <= asked)
      PROVE  AsTells'
  <2>1. \A n \in expiring' : n = AsNone
    BY <1>3 DEF AtRest
  <2>2. QED
    BY <1>2, <1>3, <2>1 DEF AsTells
\* The time-out stays where it is.
<1>4. ASSUME UNCHANGED <<told, transactionList, expiring, untested, unkept>>
      PROVE  AsTells'
  <2>1. AtRest' = AtRest
    BY <1>4 DEF AtRest
  <2>2. \A m \in AsMid : /\ told'[m] = 0 \/ (told'[m] = 1 /\ Lag(m)' >= AsTimeout)
                         /\ told'[m] # 0 => m <= asked' /\ m \notin transactionList' /\ m \notin expiring'
    BY <1>2, <1>4
  <2>3. ~AtRest => \A m \in expiring : Lag(m)' >= AsTimeout
    BY <1>0, <1>1, AsAssumption DEF AsTells
  <2>4. QED
    BY <1>4, <2>1, <2>2, <2>3 DEF AsTells
<1>5. CASE UNCHANGED asVars
  BY <1>4, <1>5 DEF asVars, filterVars
<1>6. ASSUME \/ ClockTicks \/ \E t \in AsTimer : TimerExpires(t) \/ NoSuchTimer(t)
             \/ \E m \in AsMid : AnswerArrives(m)
      PROVE  AsTells'
  BY <1>4, <1>6 DEF ClockTicks, TimerExpires, NoSuchTimer, AnswerArrives, filterVars
<1>7. CASE Request
  <2>1. /\ told' = told /\ AtRest /\ AtRest' /\ UNCHANGED <<untested, unkept>>
        /\ transactionList' = transactionList \cup {asked + 1}
    BY <1>7 DEF Request, Ask, AtRest, filterVars
  <2>2. QED
    BY <1>0, <1>3, <2>1 DEF AsTells
<1>8. ASSUME NEW m \in AsMid, Answer(m)
      PROVE  AsTells'
  <2>1. /\ told' = told /\ AtRest /\ AtRest' /\ UNCHANGED <<untested, unkept>>
        /\ transactionList' = transactionList \cup {asked + 1} \/ transactionList' = transactionList
    BY <1>8 DEF Answer, Taken, Ask, AtRest, filterVars
  <2>2. QED
    BY <1>0, <1>3, <2>1 DEF AsTells
<1>9. ASSUME NEW t \in AsTimer, TimeOut(t)
      PROVE  AsTells'
  <2>1. /\ untested' = transactionList /\ unkept' = transactionList /\ expiring' = {}
        /\ UNCHANGED <<transactionList, told>>
    BY <1>9 DEF TimeOut
  <2>2. ~AtRest'
    BY <2>1 DEF AtRest
  <2>3. \A m \in AsMid : /\ told'[m] = 0 \/ (told'[m] = 1 /\ Lag(m)' >= AsTimeout)
                         /\ told'[m] # 0 => m <= asked' /\ m \notin transactionList' /\ m \notin expiring'
    BY <1>2, <2>1
  <2>4. QED
    BY <2>1, <2>2, <2>3 DEF AsTells
<1>10. CASE TestExpired
  <2>1. PICK m : m = Min(untested)
    OBVIOUS
  <2>2. /\ untested # {} /\ untested' = untested \ {m}
        /\ expiring' = expiring \/ (expiring' = expiring \cup {m} /\ Passed(m) >= AsTimeout)
        /\ UNCHANGED <<transactionList, clock, askedAt, unkept, told>>
    BY <1>10, <2>1 DEF TestExpired
  <2>3. untested \in SUBSET Nat
    BY <1>0
  <2>4. m \in untested
    BY <2>1, <2>2, <2>3, LeastId
  <2>5. ~AtRest /\ m \in unkept /\ m \in transactionList /\ m \in 1 .. asked
    BY <1>0, <2>4 DEF AsTells
  <2>6. ~AtRest'
    <3>1. expiring' \subseteq 1 .. asked
      BY <1>0, <2>2, <2>5
    <3>2. QED
      BY <3>1 DEF AtRest, AsNone
  <2>7. Passed(m) >= AsTimeout => Lag(m) >= AsTimeout
    BY <2>5, AsClock, AsAssumption
  <2>8. \A n : Lag(n)' = Lag(n)
    BY <2>2 DEF Lag
  <2>9. \A n \in expiring' : Lag(n)' >= AsTimeout
    BY <2>2, <2>5, <2>7, <2>8 DEF AsTells
  <2>10. \A n \in AsMid : /\ told'[n] = 0 \/ (told'[n] = 1 /\ Lag(n)' >= AsTimeout)
                          /\ told'[n] # 0 => n <= asked' /\ n \notin transactionList' /\ n \notin expiring'
    BY <1>2, <2>2, <2>5
  <2>11. QED
    BY <2>2, <2>5, <2>6, <2>9, <2>10 DEF AsTells
\* The first pass found no one who has not expired since.
<1>11. CASE KeepOthers
  <2>1. PICK m : m = Min(unkept)
    OBVIOUS
  <2>2. /\ untested = {} /\ unkept # {} /\ unkept' = unkept \ {m}
        /\ \/ transactionList' = transactionList \ {m}
           \/ transactionList' = transactionList /\ Passed(m) < AsTimeout
        /\ UNCHANGED <<clock, askedAt, untested, expiring, told>>
    BY <1>11, <2>1 DEF KeepOthers
  <2>3. unkept \in SUBSET Nat
    BY <1>0
  <2>4. m \in unkept
    BY <2>1, <2>2, <2>3, LeastId
  <2>5. ~AtRest /\ ~AtRest' /\ m \in 1 .. asked
    BY <1>0, <2>2, <2>4 DEF AsTells, AtRest
  <2>6. Passed(m) < AsTimeout => m \notin expiring
    <3>1. Lag(m) \in Nat /\ Passed(m) = Lag(m) /\ AsTimeout \in Nat
      BY <2>5, AsLags, AsClock, AsAssumption
    <3>2. QED
      BY <2>5, <3>1 DEF AsTells
  <2>7. expiring' \cap transactionList' \subseteq unkept'
    BY <2>2, <2>5, <2>6 DEF AsTells
  <2>8. \A n : Lag(n)' = Lag(n)
    BY <2>2 DEF Lag
  <2>9. \A n \in AsMid : /\ told'[n] = 0 \/ (told'[n] = 1 /\ Lag(n)' >= AsTimeout)
                         /\ told'[n] # 0 => n <= asked' /\ n \notin transactionList' /\ n \notin expiring'
    BY <1>2, <2>2
  <2>10. QED
    BY <2>2, <2>5, <2>7, <2>8, <2>9 DEF AsTells
<1>12. CASE TellExpired
  <2>1. PICK e : e = Min(expiring)
    OBVIOUS
  <2>2. /\ ~AtRest /\ expiring' = expiring \ {e} /\ told' = [told EXCEPT ![e] = @ + 1]
        /\ untested = {} /\ unkept = {} /\ UNCHANGED <<untested, unkept>>
        /\ expiring # {} /\ transactionList' \subseteq transactionList \cup {asked + 1}
    BY <1>12, <2>1 DEF TellExpired, Filtered, filterVars, Removed
  <2>3. expiring \subseteq 1 .. asked /\ expiring \in SUBSET Nat
    BY <1>0, <2>2
  <2>4. e \in expiring /\ e \in AsMid /\ e \in 1 .. asked
    BY <1>0, <2>1, <2>2, <2>3, LeastId
  <2>5. told[e] = 0 /\ e \notin transactionList /\ Lag(e) >= AsTimeout
    BY <2>2, <2>4 DEF AsTells
  <2>6. ~AtRest'
    <3>1. expiring' \subseteq 1 .. asked
      BY <2>2, <2>3
    <3>2. QED
      BY <3>1 DEF AtRest, AsNone
  <2>7. ASSUME NEW m \in AsMid
        PROVE  /\ told'[m] = 0 \/ (told'[m] = 1 /\ Lag(m)' >= AsTimeout)
               /\ told'[m] # 0 => m <= asked' /\ m \notin transactionList' /\ m \notin expiring'
    <3>1. CASE m = e
      <4>1. told'[m] = 1
        BY <1>0, <2>2, <2>4, <2>5, <3>1
      <4>2. m \notin transactionList'
        BY <1>0, <2>2, <2>4, <2>5, <3>1
      <4>3. Lag(m)' >= AsTimeout /\ m <= asked'
        BY <1>1, <2>4, <2>5, <3>1, AsAssumption
      <4>4. QED
        BY <2>2, <3>1, <4>1, <4>2, <4>3
    <3>2. CASE m # e
      <4>1. told'[m] = told[m]
        BY <1>0, <2>2, <3>2
      <4>2. \A n \in transactionList' : n \in transactionList \/ ~(n <= asked)
        BY <1>0, <2>2
      <4>3. QED
        BY <1>2, <2>2, <4>1, <4>2
    <3>3. QED
      BY <3>1, <3>2
  <2>8. expiring' \cap transactionList' = {}
    <3>1. expiring \cap transactionList = {}
      BY <2>2 DEF AsTells
    <3>2. asked + 1 \notin expiring
      BY <1>0, <2>3
    <3>3. QED
      BY <2>2, <3>1, <3>2
  <2>9. \A m \in expiring' : Lag(m)' >= AsTimeout
    BY <1>1, <2>2, <2>3, AsAssumption DEF AsTells
  <2>10. QED
    BY <2>2, <2>6, <2>7, <2>8, <2>9 DEF AsTells
<1>13. CASE EndTimeOut
  <2>1. /\ told' = told /\ AtRest' /\ untested' = {} /\ unkept' = {}
        /\ transactionList' = transactionList
    BY <1>13 DEF EndTimeOut, AtRest, Filtered, filterVars
  <2>2. QED
    BY <1>3, <2>1
<1>14. QED
  BY <1>5, <1>6, <1>7, <1>8, <1>9, <1>10, <1>11, <1>12, <1>13 DEF AsNext

\* The queue with a message more, and without its first.
LEMMA InboxGrown ==
  ASSUME NEW q \in Seq(AsMessage), NEW msg \in AsMessage
  PROVE  /\ Append(q, msg) \in Seq(AsMessage) /\ Len(Append(q, msg)) = Len(q) + 1 /\ Len(q) \in Nat
         /\ \A j \in 1 .. Len(q) + 1 : Append(q, msg)[j] = IF j = Len(q) + 1 THEN msg ELSE q[j]
OBVIOUS

LEMMA InboxShorter ==
  ASSUME NEW q \in Seq(AsMessage), q # <<>>
  PROVE  /\ Tail(q) \in Seq(AsMessage) /\ Len(Tail(q)) = Len(q) - 1 /\ Len(q) \in Nat \ {0}
         /\ Head(q) = q[1]
         /\ \A j \in 1 .. Len(q) - 1 : Tail(q)[j] = q[j + 1]
         /\ \A j \in 1 .. Len(q) : j # 1 => j - 1 \in 1 .. Len(q) - 1 /\ Tail(q)[j - 1] = q[j]
<1>1. Tail(q) \in Seq(AsMessage) /\ Len(Tail(q)) = Len(q) - 1 /\ Len(q) \in Nat \ {0} /\ Head(q) = q[1]
  OBVIOUS
<1>2. \A j \in 1 .. Len(q) - 1 : Tail(q)[j] = q[j + 1]
  OBVIOUS
<1>3. QED
  BY <1>1, <1>2

LEMMA AsAnswersKept ==
  ASSUME AsTypes, AsTells, AsAnswers, [AsNext]_asVars
  PROVE  AsAnswers'
<1>0. asInbox \in Seq(AsMessage) /\ asked \in Nat /\ unanswered \subseteq 1 .. asked
  BY DEF AsTypes
\* The queue stays or loses its first, and only what is new is unanswered.
<1>1. ASSUME asked <= asked', asked' \in Nat,
             \A m \in unanswered' : m \in unanswered \/ ~(m <= asked),
             asInbox' = asInbox \/ (asInbox # <<>> /\ asInbox' = Tail(asInbox))
      PROVE  AsAnswers'
  <2>1. ASSUME NEW j \in 1 .. Len(asInbox'), asInbox'[j].kind = "response"
        PROVE  /\ asInbox'[j].of \in (1 .. asked') \ unanswered'
               /\ \A i \in 1 .. Len(asInbox') : asInbox'[i] = asInbox'[j] => i = j
    <3>1. CASE asInbox' = asInbox
      <4>1. asInbox[j].of \in (1 .. asked) \ unanswered
        BY <2>1, <3>1 DEF AsAnswers
      <4>2. asInbox[j].of \in (1 .. asked') \ unanswered'
        BY <1>0, <1>1, <4>1
      <4>3. QED
        BY <2>1, <3>1, <4>2 DEF AsAnswers
    <3>2. CASE asInbox # <<>> /\ asInbox' = Tail(asInbox)
      <4>1. /\ Len(asInbox') = Len(asInbox) - 1 /\ Len(asInbox) \in Nat
            /\ \A i \in 1 .. Len(asInbox') : i + 1 \in 1 .. Len(asInbox) /\ asInbox'[i] = asInbox[i + 1]
        BY <1>0, <3>2, InboxShorter
      <4>2. asInbox[j + 1].of \in (1 .. asked) \ unanswered
        BY <2>1, <4>1 DEF AsAnswers
      <4>3. asInbox[j + 1].of \in (1 .. asked') \ unanswered'
        BY <1>0, <1>1, <4>2
      <4>4. \A i \in 1 .. Len(asInbox') : asInbox'[i] = asInbox'[j] => i + 1 = j + 1
        BY <2>1, <4>1 DEF AsAnswers
      <4>5. QED
        BY <4>1, <4>3, <4>4
    <3>3. QED
      BY <1>1, <3>1, <3>2
  <2>2. QED
    BY <2>1 DEF AsAnswers
<1>2. asked <= asked' /\ asked' \in Nat
  BY AsHistory, AsTypesKept DEF AsTypes
<1>3. ASSUME NEW msg \in AsMessage, asInbox' = Append(asInbox, msg), asked' = asked,
             \/ msg.kind = "timer" /\ unanswered' = unanswered
             \/ msg.of \in unanswered /\ unanswered' = unanswered \ {msg.of}
      PROVE  AsAnswers'
  <2> DEFINE N == Len(asInbox) + 1
  <2>1. /\ Len(asInbox') = N /\ Len(asInbox) \in Nat /\ asInbox'[N] = msg
        /\ \A j \in 1 .. N : j # N => j \in 1 .. Len(asInbox) /\ asInbox'[j] = asInbox[j]
    BY <1>0, <1>3, InboxGrown
  <2> HIDE DEF N
  <2>2. \A j \in 1 .. Len(asInbox) : asInbox[j].kind = "response" => asInbox[j].of \notin unanswered
    BY DEF AsAnswers
  <2>3. ASSUME NEW j \in 1 .. N, asInbox'[j].kind = "response"
        PROVE  /\ asInbox'[j].of \in (1 .. asked) \ unanswered'
               /\ \A i \in 1 .. N : asInbox'[i] = asInbox'[j] => i = j
    <3>1. CASE j = N
      <4>1. msg.of \in unanswered /\ unanswered' = unanswered \ {msg.of}
        BY <1>3, <2>1, <2>3, <3>1
      <4>2. \A i \in 1 .. N : i # N => asInbox'[i] # msg
        BY <1>3, <2>1, <2>2, <2>3, <3>1, <4>1
      <4>3. QED
        BY <1>0, <2>1, <3>1, <4>1, <4>2
    <3>2. CASE j # N
      <4>1. j \in 1 .. Len(asInbox) /\ asInbox'[j] = asInbox[j]
        BY <2>1, <3>2
      <4>2. asInbox[j].of \in (1 .. asked) \ unanswered'
        BY <1>3, <2>3, <4>1 DEF AsAnswers
      <4>3. asInbox[j] # msg
        BY <1>3, <2>2, <2>3, <4>1
      <4>4. QED
        BY <2>1, <2>3, <4>1, <4>2, <4>3 DEF AsAnswers
    <3>3. QED
      BY <3>1, <3>2
  <2>4. QED
    BY <1>3, <2>1, <2>3 DEF AsAnswers
<1>4. ASSUME NEW t \in AsTimer, TimerExpires(t)
      PROVE  AsAnswers'
  <2>1. [kind |-> "timer", of |-> t] \in AsMessage
    BY DEF AsMessage, AsTimer
  <2>2. QED
    BY <1>3, <1>4, <2>1 DEF TimerExpires
<1>5. ASSUME NEW m \in AsMid, AnswerArrives(m)
      PROVE  AsAnswers'
  <2>1. [kind |-> "response", of |-> m] \in AsMessage
    BY DEF AsMessage, AsMid
  <2>2. QED
    BY <1>3, <1>5, <2>1 DEF AnswerArrives
<1>6. CASE \/ UNCHANGED asVars \/ ClockTicks \/ TestExpired \/ KeepOthers
           \/ TellExpired \/ EndTimeOut \/ Request
           \/ \E t \in AsTimer : NoSuchTimer(t) \/ TimeOut(t)
           \/ \E m \in AsMid : Answer(m)
  <2>1. asInbox' = asInbox \/ (asInbox # <<>> /\ asInbox' = Tail(asInbox))
    BY <1>6 DEF asVars, ClockTicks, TestExpired, KeepOthers, TellExpired, EndTimeOut, Request,
                NoSuchTimer, TimeOut, Answer, Taken
  <2>2. unanswered' = unanswered \/ unanswered' = unanswered \cup {asked + 1}
    BY <1>6 DEF asVars, ClockTicks, TestExpired, KeepOthers, TellExpired, EndTimeOut, Request,
                NoSuchTimer, TimeOut, Answer, Ask
  <2>3. \A m \in unanswered' : m \in unanswered \/ ~(m <= asked)
    BY <1>0, <2>2
  <2>4. QED
    BY <1>1, <1>2, <2>1, <2>3
<1>7. QED
  BY <1>4, <1>5, <1>6 DEF AsNext

-----------------------------------------------------------------------------
(* The timer watches the list.                                             *)

\* A message more, or the first message less, unless it is the one asked for.
LEMMA InboxKeeps ==
  ASSUME AsTypes, NEW msg
  PROVE  /\ \A new \in AsMessage : asInbox' = Append(asInbox, new) =>
              (InInbox(msg)' <=> InInbox(msg) \/ msg = new)
         /\ asInbox # <<>> /\ asInbox' = Tail(asInbox) =>
              /\ InInbox(msg)' => InInbox(msg)
              /\ InInbox(msg) => InInbox(msg)' \/ msg = Head(asInbox)
<1>0. asInbox \in Seq(AsMessage)
  BY DEF AsTypes
<1>1. ASSUME NEW new \in AsMessage, asInbox' = Append(asInbox, new)
      PROVE  InInbox(msg)' <=> InInbox(msg) \/ msg = new
  <2>1. /\ Len(asInbox') = Len(asInbox) + 1 /\ Len(asInbox) \in Nat
        /\ \A j \in 1 .. Len(asInbox) + 1 :
             asInbox'[j] = IF j = Len(asInbox) + 1 THEN new ELSE asInbox[j]
    BY <1>0, <1>1, InboxGrown
  <2>2. \A j \in 1 .. Len(asInbox) : j \in 1 .. Len(asInbox) + 1 /\ asInbox'[j] = asInbox[j]
    BY <2>1
  <2>3. asInbox'[Len(asInbox) + 1] = new /\ Len(asInbox) + 1 \in 1 .. Len(asInbox')
    BY <2>1
  <2>4. \A j \in 1 .. Len(asInbox') : asInbox'[j] = new \/ (j \in 1 .. Len(asInbox) /\ asInbox'[j] = asInbox[j])
    BY <2>1
  <2>5. QED
    BY <2>1, <2>2, <2>3, <2>4 DEF InInbox
<1>2. ASSUME asInbox # <<>>, asInbox' = Tail(asInbox)
      PROVE  /\ InInbox(msg)' => InInbox(msg)
             /\ InInbox(msg) => InInbox(msg)' \/ msg = Head(asInbox)
  <2>1. /\ Len(asInbox') = Len(asInbox) - 1 /\ Len(asInbox) \in Nat \ {0} /\ Head(asInbox) = asInbox[1]
        /\ \A j \in 1 .. Len(asInbox) - 1 : asInbox'[j] = asInbox[j + 1]
        /\ \A j \in 1 .. Len(asInbox) :
             j # 1 => j - 1 \in 1 .. Len(asInbox) - 1 /\ asInbox'[j - 1] = asInbox[j]
    BY <1>0, <1>2, InboxShorter
  <2>2. \A j \in 1 .. Len(asInbox') : j + 1 \in 1 .. Len(asInbox) /\ asInbox'[j] = asInbox[j + 1]
    BY <2>1
  <2>3. QED
    BY <2>1, <2>2 DEF InInbox
<1>3. QED
  BY <1>1, <1>2

\* The list with a request more.
LEMMA WatchedAsked ==
  ASSUME AsTypes, transactionList # {},
         \/ asked' = asked /\ UNCHANGED <<transactionList, askedAt, unanswered>>
         \/ Ask(transactionList),
         UNCHANGED clock
  PROVE  LET first == Min(transactionList)
             second == Min(transactionList \ {first})
         IN /\ first \in transactionList /\ Min(transactionList') = first /\ transactionList' # {}
            /\ Lag(first) \in Nat /\ Lag(first)' = Lag(first)
            /\ first \notin unanswered => first \notin unanswered'
            /\ transactionList # {first} =>
                 /\ second \in transactionList /\ second # first
                 /\ transactionList' # {first} /\ Min(transactionList' \ {first}) = second
                 /\ Lag(second) \in Nat /\ Lag(second)' = Lag(second) /\ Lag(second) <= Lag(first)
<1> DEFINE first == Min(transactionList)
           rest == transactionList \ {first}
           second == Min(rest)
<1>0. /\ asked \in Nat /\ transactionList \in SUBSET Nat /\ transactionList \subseteq 1 .. asked
      /\ clock \in Nat
  BY DEF AsTypes
<1>1. /\ first \in transactionList /\ \A y \in transactionList : first <= y
      /\ rest \in SUBSET Nat
      /\ rest # {} => second \in rest /\ \A y \in rest : second <= y
  BY <1>0, LeastId
<1>2. /\ transactionList' = transactionList \/ transactionList' = transactionList \cup {asked + 1}
      /\ unanswered' = unanswered \/ unanswered' = unanswered \cup {asked + 1}
      /\ \A m \in 1 .. asked : m \in AsMid /\ askedAt'[m] = askedAt[m] /\ m < asked + 1
  BY <1>0, AskIs, AsAssumption DEF Ask, AsMid, AsTypes
<1>3. \A m \in transactionList : Lag(m) \in Nat /\ Lag(m)' = Lag(m) /\ m < asked + 1
  BY <1>0, <1>2, AsClock DEF Lag
<1>4. Min(transactionList') = first /\ transactionList' # {}
  BY <1>0, <1>1, <1>2, <1>3, LeastIdStays
<1>5. first \notin unanswered => first \notin unanswered'
  BY <1>0, <1>1, <1>2, <1>3
<1>6. ASSUME rest # {}
      PROVE  /\ second \in transactionList /\ second # first
             /\ transactionList' # {first} /\ Min(transactionList' \ {first}) = second
             /\ Lag(second) <= Lag(first)
  <2>1. second \in transactionList /\ second # first /\ first <= second
    BY <1>1, <1>6
  <2>2. transactionList' # {first}
    BY <1>1, <1>2, <1>6
  <2>3. Min(transactionList' \ {first}) = second
    <3>1. CASE transactionList' = transactionList
      BY <3>1
    <3>2. CASE transactionList' = transactionList \cup {asked + 1}
      <4>1. first # asked + 1
        BY <1>0, <1>1, <1>3
      <4> HIDE DEF first
      <4>2. transactionList' \ {first} = rest \cup {asked + 1}
        BY <3>2, <4>1
      <4>3. \A y \in rest : y < asked + 1
        BY <1>3
      <4>4. QED
        BY <1>0, <1>1, <1>6, <4>2, <4>3, LeastIdStays
    <3>3. QED
      BY <1>2, <3>1, <3>2
  <2>4. Lag(second) <= Lag(first)
    <3>1. first \in 1 .. asked /\ second \in 1 .. asked
      BY <1>0, <1>1, <2>1
    <3>2. askedAt[first] <= askedAt[second] /\ askedAt[first] \in Nat /\ askedAt[second] \in Nat
      BY <1>2, <2>1, <3>1 DEF AsTypes
    <3>3. QED
      BY <1>0, <3>2 DEF Lag
  <2>5. QED
    BY <2>1, <2>2, <2>3, <2>4
<1>7. transactionList # {first} <=> rest # {}
  BY <1>1
<1>8. QED
  BY <1>1, <1>3, <1>4, <1>5, <1>6, <1>7

\* The timer that is in the list of timers is one of those that were made.
LEMMA WatchRange ==
  ASSUME AsTypes, transTimer \in timerList
  PROVE  transTimer \in AsTimer /\ runsFor[transTimer] \in 0 .. AsWrap /\ runsFor[transTimer] \in Nat
<1>1. transTimer \in 1 .. timersMade /\ timersMade \in Nat /\ timersMade <= MaxAsked /\ MaxAsked \in Nat
  BY AsAssumption DEF AsTypes
<1>2. transTimer \in AsTimer
  BY <1>1 DEF AsTimer
<1>3. QED
  BY <1>2, AsAssumption DEF AsTypes

LEMMA WatchedTick ==
  ASSUME AsTypes, AsWatched, MaxClock - AsBegin < AsWrap, ClockTicks
  PROVE  AsWatched'
<1> SUFFICES ASSUME AtRest, transTimer \in timerList, transactionList # {}
             PROVE  InInbox(TimerMsg(transTimer))' \/ WatchesFirst' \/ WatchesSecond' \/ RunsOver'
  BY DEF AsWatched, ClockTicks, AtRest
<1>1. /\ clock' = clock + 1 /\ AtRest
      /\ \A t \in AsTimer : runsFor[t] # 0
      /\ runsFor' = [t \in AsTimer |-> IF runsFor[t] = AsOff THEN AsOff ELSE runsFor[t] - 1]
      /\ UNCHANGED <<transactionList, askedAt, asked, transTimer, timerList, timersMade,
                     asInbox, unanswered, expiring, told>>
  BY DEF ClockTicks
<1>2. /\ transTimer \in AsTimer /\ runsFor[transTimer] \in Nat
      /\ AsTimeout \in Nat /\ AsWrap \in Nat /\ AsTimeout < AsWrap /\ clock \in Nat
      /\ transactionList \in SUBSET Nat
  BY WatchRange, AsAssumption DEF AsTypes
<1>3. ASSUME NEW m \in transactionList, RunsUntil(m)
      PROVE  RunsUntil(m)'
  <2>1. m \in 1 .. asked /\ askedAt[m] \in Nat /\ Lag(m) \in Nat
    BY AsClock DEF AsTypes
  <2>2. runsFor[transTimer] = AsTimeout - (clock - askedAt[m])
    BY <1>3 DEF RunsUntil, Lag
  <2>3. runsFor[transTimer] # AsOff
    BY <1>2, <2>1, <2>2 DEF AsOff, Lag
  <2>4. runsFor'[transTimer] = runsFor[transTimer] - 1
    BY <1>1, <1>2, <2>3
  <2>5. runsFor'[transTimer'] = AsTimeout - (clock' - askedAt'[m])
    BY <1>1, <1>2, <2>1, <2>2, <2>4
  <2>6. QED
    BY <2>5 DEF RunsUntil, Lag
<1>4. CASE InInbox(TimerMsg(transTimer))
  BY <1>1, <1>4 DEF InInbox, TimerMsg
<1>5. CASE WatchesFirst
  <2>1. Min(transactionList) \in transactionList
    BY <1>2, LeastId
  <2>2. RunsUntil(Min(transactionList))'
    BY <1>1, <1>3, <1>5, <2>1 DEF WatchesFirst, RunsUntil, Lag
  <2>3. QED
    BY <1>1, <2>2 DEF WatchesFirst, RunsUntil, Lag
<1>6. CASE WatchesSecond
  <2> DEFINE first == Min(transactionList)
             second == Min(transactionList \ {first})
  <2>1. transactionList # {first} /\ RunsUntil(second) /\ Answered(first)
    BY <1>6 DEF WatchesSecond
  <2>2. second \in transactionList
    BY <1>2, <2>1, LeastId
  <2>3. RunsUntil(second)'
    BY <1>1, <1>3, <2>1, <2>2
  <2>4. Answered(first)'
    BY <1>1, <2>1 DEF Answered, InInbox, ResponseMsg
  <2>5. QED
    BY <1>1, <2>1, <2>3, <2>4 DEF WatchesSecond
<1>7. CASE RunsOver
  <2>1. PICK m \in 1 .. asked : Lag(m) > AsTimeout /\ runsFor[transTimer] = AsTimeout - Lag(m) + AsWrap
    BY <1>7 DEF RunsOver
  <2>2. m \in AsMid /\ askedAt[m] \in Nat /\ Lag(m) \in Nat
    BY AsClock DEF AsTypes
  <2>3. runsFor[transTimer] # AsOff
    BY <1>2, <2>1, <2>2 DEF AsOff
  <2>4. runsFor'[transTimer] = runsFor[transTimer] - 1
    BY <1>1, <1>2, <2>3
  <2>5. clock' - askedAt'[m] = Lag(m) + 1
    BY <1>1, <1>2, <2>2 DEF Lag
  <2>6. clock' - askedAt'[m] > AsTimeout /\ m \in 1 .. asked'
        /\ runsFor'[transTimer'] = AsTimeout - (clock' - askedAt'[m]) + AsWrap
    BY <1>1, <1>2, <2>1, <2>2, <2>4, <2>5
  <2>7. QED
    BY <2>6 DEF RunsOver, Lag
<1>8. QED
  BY <1>1, <1>4, <1>5, <1>6, <1>7 DEF AsWatched

\* Messages come, or the first is taken that is not the one of the timer; the timer
\* and the list stay.
LEMMA WatchedMessages ==
  ASSUME AsTypes, AsWatched,
         UNCHANGED <<clock, transactionList, askedAt, asked, transTimer, timerList, expiring>>,
         unanswered' \subseteq unanswered,
         \/ runsFor'[transTimer] = runsFor[transTimer]
         \/ InInbox(TimerMsg(transTimer))',
         transTimer \in timerList =>
           (InInbox(TimerMsg(transTimer)) => InInbox(TimerMsg(transTimer))'),
         \A m \in 1 .. asked : Answered(m) => Answered(m)'
  PROVE  AsWatched'
<1> SUFFICES ASSUME AtRest, transTimer \in timerList, transactionList # {}
             PROVE  InInbox(TimerMsg(transTimer))' \/ WatchesFirst' \/ WatchesSecond' \/ RunsOver'
  BY DEF AsWatched, AtRest
<1>1. transactionList \in SUBSET Nat /\ transactionList \subseteq 1 .. asked
  BY DEF AsTypes
<1>2. CASE InInbox(TimerMsg(transTimer))
  BY <1>2 DEF InInbox, TimerMsg
<1>3. CASE InInbox(TimerMsg(transTimer))'
  BY <1>3
<1>4. CASE WatchesFirst /\ runsFor'[transTimer] = runsFor[transTimer]
  BY <1>4 DEF WatchesFirst, RunsUntil, Lag
<1>5. CASE WatchesSecond /\ runsFor'[transTimer] = runsFor[transTimer]
  <2> DEFINE first == Min(transactionList)
             second == Min(transactionList \ {first})
  <2>1. transactionList # {first} /\ RunsUntil(second) /\ Answered(first)
    BY <1>5 DEF WatchesSecond
  <2>2. first \in 1 .. asked
    BY <1>1, LeastId
  <2>3. Answered(first)'
    BY <2>1, <2>2 DEF Answered, InInbox, ResponseMsg
  <2>4. RunsUntil(second)'
    BY <1>5, <2>1 DEF RunsUntil, Lag
  <2>5. QED
    BY <2>1, <2>3, <2>4 DEF WatchesSecond
<1>6. CASE RunsOver /\ runsFor'[transTimer] = runsFor[transTimer]
  BY <1>6 DEF RunsOver, Lag
<1>7. QED
  BY <1>2, <1>3, <1>4, <1>5, <1>6 DEF AsWatched

\* The timer runs on, with a request more in the list or not.
LEMMA WatchedSteady ==
  ASSUME AsTypes, AsWatched, AtRest, transTimer \in timerList, transactionList # {},
         \/ asked' = asked /\ UNCHANGED <<transactionList, askedAt, unanswered>>
         \/ Ask(transactionList),
         UNCHANGED <<clock, transTimer, runsFor>>,
         InInbox(TimerMsg(transTimer)) => InInbox(TimerMsg(transTimer))',
         \A m \in 1 .. asked : InInbox(ResponseMsg(m))' => InInbox(ResponseMsg(m))
  PROVE  InInbox(TimerMsg(transTimer))' \/ WatchesFirst' \/ WatchesSecond' \/ RunsOver'
<1> DEFINE first == Min(transactionList)
           second == Min(transactionList \ {first})
<1>1. /\ first \in transactionList /\ Min(transactionList') = first /\ transactionList' # {}
      /\ Lag(first) \in Nat /\ Lag(first)' = Lag(first)
      /\ first \notin unanswered => first \notin unanswered'
      /\ transactionList # {first} =>
           /\ second \in transactionList /\ second # first
           /\ transactionList' # {first} /\ Min(transactionList' \ {first}) = second
           /\ Lag(second) \in Nat /\ Lag(second)' = Lag(second) /\ Lag(second) <= Lag(first)
  BY WatchedAsked
<1>2. CASE InInbox(TimerMsg(transTimer))
  BY <1>2
<1>3. CASE WatchesFirst
  BY <1>1, <1>3 DEF WatchesFirst, RunsUntil, Lag
<1>4. CASE WatchesSecond
  <2>1. transactionList # {first} /\ RunsUntil(second) /\ Answered(first)
    BY <1>4 DEF WatchesSecond
  <2>2. first \in 1 .. asked
    BY <1>1 DEF AsTypes
  <2>3. Answered(first)'
    <3>1. first \notin unanswered' /\ ~InInbox(ResponseMsg(first))'
      BY <1>1, <2>1, <2>2 DEF Answered
    <3>2. QED
      BY <1>1, <3>1 DEF Answered, InInbox, ResponseMsg
  <2>4. runsFor'[transTimer'] = AsTimeout - Lag(second)'
    BY <1>1, <2>1 DEF RunsUntil
  <2>5. QED
    BY <1>1, <2>1, <2>3, <2>4 DEF WatchesSecond, RunsUntil, Lag
<1>5. CASE RunsOver
  <2>1. PICK m \in 1 .. asked : Lag(m) > AsTimeout /\ runsFor[transTimer] = AsTimeout - Lag(m) + AsWrap
    BY <1>5 DEF RunsOver
  <2>2. m \in 1 .. asked' /\ askedAt'[m] = askedAt[m]
    <3>1. CASE asked' = asked /\ UNCHANGED <<transactionList, askedAt, unanswered>>
      BY <3>1
    <3>2. CASE Ask(transactionList)
      <4>1. asked \in Nat /\ asked' = asked + 1 /\ askedAt'[m] = askedAt[m]
        BY <3>2, AskIs DEF AsTypes
      <4>2. QED
        BY <4>1
    <3>3. QED
      BY <3>1, <3>2
  <2>3. Lag(m)' > AsTimeout /\ runsFor'[transTimer'] = AsTimeout - Lag(m)' + AsWrap
    BY <2>1, <2>2 DEF Lag
  <2>4. QED
    BY <2>2, <2>3 DEF RunsOver, Lag
<1>6. QED
  BY <1>2, <1>3, <1>4, <1>5 DEF AsWatched

LEMMA WatchedRequest ==
  ASSUME AsTypes, AsWatched, Request
  PROVE  AsWatched'
<1>1. /\ AtRest /\ Ask(transactionList) /\ TimerForNew(transactionList)
      /\ UNCHANGED <<clock, asInbox, expiring, told>>
  BY DEF Request
<1>2. CASE transactionList = {}
  <2>1. /\ asked < MaxAsked /\ SetTimeout /\ transactionList' = {asked + 1} /\ asked + 1 \in Nat
        /\ clock \in Nat /\ askedAt'[asked + 1] = clock
    BY <1>1, <1>2, AskIs DEF TimerForNew, Ask, AsTypes
  <2>2. Min(transactionList') = asked + 1
    BY <2>1, LeastIdIs
  <2>3. runsFor'[transTimer'] = AsTimeout /\ AsTimeout \in Nat
    BY <2>1, SetTimeoutIs, AsAssumption
  <2>4. runsFor'[transTimer'] = AsTimeout - (clock' - askedAt'[asked + 1])
    BY <1>1, <2>1, <2>3
  <2>5. WatchesFirst'
    BY <2>2, <2>4 DEF WatchesFirst, RunsUntil, Lag
  <2>6. QED
    BY <2>5 DEF AsWatched
<1>3. CASE transactionList # {}
  <2>1. UNCHANGED <<transTimer, timerList, runsFor>>
    BY <1>1, <1>3 DEF TimerForNew, asTimerVars
  <2> SUFFICES ASSUME transTimer \in timerList
               PROVE  InInbox(TimerMsg(transTimer))' \/ WatchesFirst' \/ WatchesSecond' \/ RunsOver'
    BY <2>1 DEF AsWatched
  <2>2. /\ InInbox(TimerMsg(transTimer)) => InInbox(TimerMsg(transTimer))'
        /\ \A m : InInbox(ResponseMsg(m))' => InInbox(ResponseMsg(m))
    BY <1>1, <2>1 DEF InInbox, TimerMsg, ResponseMsg
  <2>3. QED
    BY <1>1, <1>3, <2>1, <2>2, WatchedSteady
<1>4. QED
  BY <1>2, <1>3

LEMMA WatchedAnswer ==
  ASSUME AsTypes, AsAnswers, AsWatched, MaxClock - AsBegin < AsWrap, NEW m \in AsMid, Answer(m)
  PROVE  AsWatched'
<1> DEFINE first == Min(transactionList)
           second == Min(transactionList \ {first})
<1>1. /\ AtRest /\ asInbox # <<>> /\ Head(asInbox) = ResponseMsg(m) /\ asInbox' = Tail(asInbox)
      /\ UNCHANGED <<clock, expiring, told>>
      /\ \/ m \in transactionList /\ Ask(transactionList)
         \/ UNCHANGED <<transactionList, askedAt, asked, unanswered>>
      /\ asInbox \in Seq(AsMessage) /\ transactionList \in SUBSET Nat
      /\ transactionList \subseteq 1 .. asked
  BY DEF Answer, Taken, ResponseMsg, AsTypes
<1>2. /\ Len(asInbox') = Len(asInbox) - 1 /\ Len(asInbox) \in Nat \ {0}
      /\ asInbox[1] = ResponseMsg(m) /\ 1 \in 1 .. Len(asInbox)
      /\ \A j \in 1 .. Len(asInbox') : j + 1 \in 1 .. Len(asInbox) /\ asInbox'[j] = asInbox[j + 1] /\ j + 1 # 1
  BY <1>1, InboxShorter
<1>3. InInbox(ResponseMsg(m)) /\ m \notin unanswered /\ ~InInbox(ResponseMsg(m))'
  <2>1. asInbox[1].kind = "response" /\ asInbox[1].of = m
    BY <1>2 DEF ResponseMsg
  <2>2. m \notin unanswered /\ \A i \in 1 .. Len(asInbox) : asInbox[i] = ResponseMsg(m) => i = 1
    BY <1>2, <2>1 DEF AsAnswers
  <2>3. \A j \in 1 .. Len(asInbox') : asInbox'[j] # ResponseMsg(m)
    BY <1>2, <2>2
  <2>4. QED
    BY <1>2, <2>2, <2>3 DEF InInbox, ResponseMsg
<1>4. /\ \A t : InInbox(TimerMsg(t)) => InInbox(TimerMsg(t))'
      /\ \A n : InInbox(ResponseMsg(n))' => InInbox(ResponseMsg(n))
  <2>1. ASSUME NEW t, InInbox(TimerMsg(t))
        PROVE  InInbox(TimerMsg(t))'
    <3>1. TimerMsg(t) # Head(asInbox)
      BY <1>1 DEF TimerMsg, ResponseMsg
    <3>2. PICK j \in 1 .. Len(asInbox) : asInbox[j] = TimerMsg(t)
      BY <2>1 DEF InInbox
    <3>3. j # 1
      BY <1>1, <1>2, <3>1, <3>2
    <3>4. j - 1 \in 1 .. Len(asInbox') /\ asInbox'[j - 1] = TimerMsg(t)
      BY <1>1, <1>2, <3>2, <3>3, InboxShorter
    <3>5. QED
      BY <3>4 DEF InInbox, TimerMsg
  <2>2. ASSUME NEW n, InInbox(ResponseMsg(n))'
        PROVE  InInbox(ResponseMsg(n))
    <3>1. PICK j \in 1 .. Len(asInbox') : asInbox'[j] = ResponseMsg(n)
      BY <2>2 DEF InInbox, ResponseMsg
    <3>2. QED
      BY <1>2, <3>1 DEF InInbox
  <2>3. QED
    BY <2>1, <2>2
<1>5. CASE transactionList = {}
  BY <1>1, <1>5 DEF AsWatched
<1>6. CASE transactionList # {} /\ first # m
  <2>1. UNCHANGED <<transTimer, timerList, runsFor>>
    BY <1>6 DEF Answer, asTimerVars
  <2> SUFFICES ASSUME transTimer \in timerList
               PROVE  InInbox(TimerMsg(transTimer))' \/ WatchesFirst' \/ WatchesSecond' \/ RunsOver'
    BY <2>1 DEF AsWatched
  <2>2. InInbox(TimerMsg(transTimer)) => InInbox(TimerMsg(transTimer))'
    BY <1>4, <2>1 DEF InInbox, TimerMsg
  <2>3. QED
    BY <1>1, <1>4, <1>6, <2>1, <2>2, WatchedSteady
<1>7. CASE transactionList = {m}
  <2>1. first = m
    BY <1>1, <1>7, LeastIdIs
  <2>2. Cancelled
    BY <1>7, <2>1 DEF Answer
  <2>3. QED
    BY <2>2, CancelledIs DEF AsWatched
<1>9. [AsNext]_asVars
  BY DEF AsNext
<1>8. CASE first = m /\ transactionList # {m} /\ transactionList # {}
  <2>1. runsFor' = RestartFor(second) /\ UNCHANGED <<transTimer, timerList>>
    BY <1>8 DEF Answer
  <2> SUFFICES ASSUME transTimer \in timerList
               PROVE  InInbox(TimerMsg(transTimer))' \/ WatchesFirst' \/ WatchesSecond' \/ RunsOver'
    BY <2>1 DEF AsWatched
  <2>2. CASE InInbox(TimerMsg(transTimer))
    BY <1>4, <2>1, <2>2 DEF InInbox, TimerMsg
  <2>3. CASE WatchesSecond
    BY <1>3, <1>8, <2>3 DEF WatchesSecond, Answered
  <2>4. CASE WatchesFirst \/ RunsOver
    <3>1. /\ Min(transactionList') = first /\ first \notin unanswered'
          /\ second \in 1 .. asked /\ transactionList' # {first}
          /\ Min(transactionList' \ {first}) = second
          /\ Lag(second) \in Nat /\ Lag(second)' = Lag(second)
      BY <1>1, <1>3, <1>8, WatchedAsked
    <3>2. Answered(first)'
      BY <1>3, <1>8, <3>1 DEF Answered, InInbox, ResponseMsg
    <3>3. CASE Lag(second) <= AsTimeout
      <4>1. runsFor'[transTimer'] = AsTimeout - Lag(second)'
        BY <2>1, <3>1, <3>3, RestartIs, WatchRange
      <4>2. QED
        BY <3>1, <3>2, <4>1 DEF WatchesSecond, RunsUntil, Lag
    <3>4. CASE AsTimeout < Lag(second)
      <4>1. runsFor'[transTimer'] = AsTimeout - Lag(second)' + AsWrap
        BY <2>1, <3>1, <3>4, RestartIs, WatchRange, AsLags
      <4>2. second \in 1 .. asked'
        BY <3>1, AsHistory, <1>9
      <4>3. QED
        BY <3>1, <3>4, <4>1, <4>2 DEF RunsOver, Lag
    <3>5. QED
      BY <3>1, <3>3, <3>4, AsAssumption
  <2>5. QED
    BY <1>1, <1>8, <2>2, <2>3, <2>4 DEF AsWatched
<1>10. QED
  BY <1>5, <1>6, <1>7, <1>8

LEMMA WatchedEnd ==
  ASSUME AsTypes, MaxClock - AsBegin < AsWrap, EndTimeOut
  PROVE  AsWatched'
<1> DEFINE first == Min(transactionList)
<1>1. CASE transactionList = {}
  BY <1>1 DEF EndTimeOut, AsWatched
<1>2. CASE transactionList # {}
  <2>1. /\ runsFor' = RestartFor(first)
        /\ UNCHANGED <<transTimer, timerList, clock, transactionList, askedAt, asked>>
    BY <1>2 DEF EndTimeOut
  <2> SUFFICES ASSUME transTimer \in timerList
               PROVE  WatchesFirst' \/ RunsOver'
    BY <2>1 DEF AsWatched
  <2>2. first \in transactionList /\ first \in 1 .. asked
    <3>1. transactionList \in SUBSET Nat /\ transactionList \subseteq 1 .. asked
      BY DEF AsTypes
    <3>2. QED
      BY <1>2, <3>1, LeastId
  <2>3. CASE Lag(first) <= AsTimeout
    <3>1. runsFor'[transTimer] = AsTimeout - Lag(first)
      BY <2>1, <2>2, <2>3, RestartIs, WatchRange
    <3>2. QED
      BY <2>1, <3>1 DEF WatchesFirst, RunsUntil, Lag
  <2>4. CASE AsTimeout < Lag(first)
    <3>1. runsFor'[transTimer] = AsTimeout - Lag(first) + AsWrap
      BY <2>1, <2>2, <2>4, RestartIs, WatchRange, AsLags
    <3>2. QED
      BY <2>1, <2>2, <2>4, <3>1 DEF RunsOver, Lag
  <2>5. QED
    BY <2>2, <2>3, <2>4, AsLags, AsAssumption
<1>3. QED
  BY <1>1, <1>2

LEMMA AsWatchedKept ==
  ASSUME AsTypes, AsTells, AsAnswers, AsWatched, MaxClock - AsBegin < AsWrap, [AsNext]_asVars
  PROVE  AsWatched'
<1>0. /\ asInbox \in Seq(AsMessage) /\ transTimer \in Nat /\ timerList \subseteq Nat
  BY DEF AsTypes
<1>1. CASE UNCHANGED asVars
  <2>1. /\ UNCHANGED <<clock, transactionList, askedAt, asked, transTimer, timerList, expiring,
                       unanswered, runsFor, asInbox>>
    BY <1>1 DEF asVars, asTimerVars
  <2>2. /\ InInbox(TimerMsg(transTimer)) => InInbox(TimerMsg(transTimer))'
        /\ \A m \in 1 .. asked : Answered(m) => Answered(m)'
    BY <2>1 DEF InInbox, TimerMsg, ResponseMsg, Answered
  <2>3. QED
    BY <2>1, <2>2, WatchedMessages
<1>2. CASE ClockTicks
  BY <1>2, WatchedTick
<1>3. ASSUME NEW t \in AsTimer, TimerExpires(t)
      PROVE  AsWatched'
  <2>1. /\ runsFor' = [runsFor EXCEPT ![t] = AsOff] /\ asInbox' = Append(asInbox, TimerMsg(t))
        /\ UNCHANGED <<clock, transactionList, askedAt, asked, transTimer, timerList,
                       timersMade, unanswered, expiring, told>>
        /\ TimerMsg(t) \in AsMessage
    BY <1>3 DEF TimerExpires, TimerMsg, AsMessage, AsTimer
  <2>2. \A msg : InInbox(msg)' <=> InInbox(msg) \/ msg = TimerMsg(t)
    BY <2>1, InboxKeeps
  <2>3. /\ InInbox(TimerMsg(transTimer)) => InInbox(TimerMsg(transTimer))'
        /\ runsFor'[transTimer] = runsFor[transTimer] \/ InInbox(TimerMsg(transTimer))'
    <3>1. InInbox(TimerMsg(transTimer))' <=> InInbox(TimerMsg(transTimer)) \/ TimerMsg(transTimer) = TimerMsg(t)
      BY <2>1, <2>2 DEF InInbox, TimerMsg
    <3>2. transTimer # t => runsFor'[transTimer] = runsFor[transTimer]
      BY <2>1 DEF AsTypes
    <3>3. QED
      BY <3>1, <3>2
  <2>4. \A m \in 1 .. asked : Answered(m) => Answered(m)'
    <3>1. \A m : ResponseMsg(m) # TimerMsg(t)
      BY DEF ResponseMsg, TimerMsg
    <3>2. \A m : InInbox(ResponseMsg(m))' => InInbox(ResponseMsg(m))
      BY <2>2, <3>1
    <3>3. QED
      BY <2>1, <3>2 DEF Answered
  <2>5. QED
    BY <2>1, <2>3, <2>4, WatchedMessages
<1>4. ASSUME NEW m \in AsMid, AnswerArrives(m)
      PROVE  AsWatched'
  <2>1. /\ asInbox' = Append(asInbox, ResponseMsg(m)) /\ m \in unanswered /\ unanswered' = unanswered \ {m}
        /\ UNCHANGED <<clock, transactionList, askedAt, asked, transTimer, timerList, runsFor,
                       timersMade, expiring, told>>
        /\ ResponseMsg(m) \in AsMessage
    BY <1>4 DEF AnswerArrives, ResponseMsg, AsMessage, AsMid, asTimerVars
  <2>2. \A msg : InInbox(msg)' <=> InInbox(msg) \/ msg = ResponseMsg(m)
    BY <2>1, InboxKeeps
  <2>3. InInbox(TimerMsg(transTimer)) => InInbox(TimerMsg(transTimer))'
    BY <2>1, <2>2 DEF InInbox, TimerMsg
  <2>4. \A n \in 1 .. asked : Answered(n) => Answered(n)'
    <3>1. \A n : ResponseMsg(n) = ResponseMsg(m) => n = m
      BY DEF ResponseMsg
    <3>2. \A n : InInbox(ResponseMsg(n))' => InInbox(ResponseMsg(n)) \/ n = m
      BY <2>2, <3>1
    <3>3. QED
      BY <2>1, <3>2 DEF Answered
  <2>5. QED
    BY <2>1, <2>3, <2>4, WatchedMessages
<1>5. CASE Request
  BY <1>5, WatchedRequest
<1>6. ASSUME NEW m \in AsMid, Answer(m)
      PROVE  AsWatched'
  BY <1>6, WatchedAnswer
<1>7. ASSUME NEW t \in AsTimer, NoSuchTimer(t)
      PROVE  AsWatched'
  <2>1. /\ asInbox # <<>> /\ Head(asInbox) = TimerMsg(t) /\ asInbox' = Tail(asInbox) /\ t \notin timerList
        /\ UNCHANGED <<clock, transactionList, askedAt, asked, transTimer, timerList, runsFor,
                       timersMade, unanswered, expiring, told>>
    BY <1>7 DEF NoSuchTimer, Taken, TimerMsg, asTimerVars
  <2>2. \A msg : /\ InInbox(msg)' => InInbox(msg)
                 /\ InInbox(msg) => InInbox(msg)' \/ msg = TimerMsg(t)
    BY <2>1, InboxKeeps
  <2>3. transTimer \in timerList =>
          (InInbox(TimerMsg(transTimer)) => InInbox(TimerMsg(transTimer))')
    <3> SUFFICES ASSUME transTimer \in timerList, InInbox(TimerMsg(transTimer))
                 PROVE  InInbox(TimerMsg(transTimer))'
      OBVIOUS
    <3>1. TimerMsg(transTimer) # TimerMsg(t)
      BY <2>1 DEF TimerMsg
    <3>2. QED
      BY <2>1, <2>2, <3>1 DEF InInbox, TimerMsg
  <2>4. \A m \in 1 .. asked : Answered(m) => Answered(m)'
    BY <2>1, <2>2 DEF Answered
  <2>5. QED
    BY <2>1, <2>3, <2>4, WatchedMessages
\* In the middle of a time-out.
<1>8. ASSUME \/ \E t \in AsTimer : TimeOut(t)
             \/ TestExpired \/ KeepOthers \/ TellExpired
      PROVE  AsWatched'
  <2>1. expiring' = {} \/ ~AtRest
    BY <1>8 DEF TimeOut, TestExpired, KeepOthers, TellExpired, Filtered, AsTells
  <2>2. expiring' = {} \/ expiring' \subseteq expiring \/ expiring' = expiring \cup {Min(untested)}
    BY <1>8 DEF TimeOut, TestExpired, KeepOthers, TellExpired
  <2>3. TestExpired => Min(untested) \in 1 .. asked
    <3>1. untested \subseteq 1 .. asked /\ untested \in SUBSET Nat
      BY DEF AsTypes
    <3>2. QED
      BY <3>1, LeastId DEF TestExpired
  <2>4. expiring' \subseteq 1 .. asked
    BY <1>8, <2>1, <2>2, <2>3 DEF TimeOut, KeepOthers, TellExpired, AsTypes
  <2>5. ~AtRest'
    BY <2>4 DEF AtRest, AsNone
  <2>6. QED
    BY <2>5 DEF AsWatched
<1>10. CASE EndTimeOut
  BY <1>10, WatchedEnd
<1>11. QED
  BY <1>1, <1>2, <1>3, <1>4, <1>5, <1>6, <1>7, <1>8, <1>10 DEF AsNext

LEMMA AsInitKeeps ==
  ASSUME AsInit
  PROVE  AsTypes /\ AsTells /\ AsAnswers /\ AsWatched
<1>1. /\ clock = AsBegin /\ AsBegin \in Nat /\ AsBegin <= MaxClock /\ asked = 0 /\ timersMade = 0
      /\ MaxAsked \in Nat /\ transactionList = {} /\ unanswered = {} /\ timerList = {}
      /\ askedAt \in [AsMid -> Nat] /\ told \in [AsMid -> Nat] /\ \A m \in AsMid : told[m] = 0
      /\ runsFor \in [AsTimer -> 0 .. AsWrap] /\ transTimer \in 0 .. timersMade
      /\ asInbox = <<>> /\ AtRest /\ 1 .. asked = {} /\ untested = {} /\ unkept = {}
  BY AsAssumption DEF AsInit, AtRest, AsOff, AsNone
<1>2. AsTypes
  BY <1>1 DEF AsTypes
<1>3. QED
  BY <1>1, <1>2 DEF AsTells, AsAnswers, AsWatched

\* A handler is told of a time-out once at most and not before its time.
LEMMA ToldOnce ==
  AsTypes /\ AsTells => \A m \in AsMid : told[m] <= 1 /\ (told[m] = 1 => clock - askedAt[m] >= AsTimeout)
BY DEF AsTells, AsTypes, Lag

LEMMA WatchedInTime ==
  ASSUME AsTypes, AsTells, AsWatched, MaxClock - AsBegin < AsWrap
  PROVE  ToldInTime
<1>1. \A m \in AsMid : told[m] <= 1 /\ (told[m] = 1 => clock - askedAt[m] >= AsTimeout)
  BY ToldOnce
<1>2. ASSUME AtRest, asInbox = <<>>, transTimer \in timerList, \A t \in AsTimer : runsFor[t] # 0,
             runsFor[transTimer] \notin AsTimeout + 1 .. AsWrap - 1,
             NEW m \in transactionList \cap unanswered
      PROVE  clock - askedAt[m] < AsTimeout
  <2> DEFINE first == Min(transactionList)
             second == Min(transactionList \ {first})
  <2>1. /\ transactionList \in SUBSET Nat /\ transactionList \subseteq 1 .. asked
        /\ runsFor[transTimer] \in Nat /\ runsFor[transTimer] # 0 /\ AsTimeout \in Nat
        /\ clock \in Nat /\ ~InInbox(TimerMsg(transTimer))
    <3>1. /\ transactionList \subseteq 1 .. asked /\ clock \in Nat /\ asked \in Nat
          /\ AsTimeout \in Nat
      BY AsAssumption DEF AsTypes
    <3>2. transTimer \in AsTimer /\ runsFor[transTimer] \in Nat
      BY <1>2, WatchRange
    <3>3. ~InInbox(TimerMsg(transTimer))
      BY <1>2 DEF InInbox
    <3>4. QED
      BY <1>2, <3>1, <3>2, <3>3
  <2>2. ASSUME NEW n \in transactionList, n <= m, RunsUntil(n)
        PROVE  clock - askedAt[m] < AsTimeout
    <3>1. /\ n \in 1 .. asked /\ m \in 1 .. asked /\ m \in AsMid /\ Lag(n) \in Nat
          /\ runsFor[transTimer] = AsTimeout - Lag(n)
      BY <2>1, <2>2, AsClock DEF RunsUntil
    <3>2. askedAt[n] <= askedAt[m] /\ askedAt[m] \in Nat /\ askedAt[n] \in Nat
      BY <2>2, <3>1, AsClock DEF AsTypes
    <3>3. QED
      BY <2>1, <3>1, <3>2 DEF Lag
  <2>3. first \in transactionList /\ first <= m
    BY <1>2, <2>1, LeastId
  <2>4. CASE WatchesFirst
    BY <2>2, <2>3, <2>4 DEF WatchesFirst
  <2>5. CASE WatchesSecond
    <3>1. m # first /\ RunsUntil(second)
      BY <1>2, <2>5 DEF WatchesSecond, Answered
    <3>2. second \in transactionList /\ second <= m
      BY <1>2, <2>1, <3>1, LeastId
    <3>3. QED
      BY <2>2, <3>1, <3>2
  <2>6. ~RunsOver
    <3> SUFFICES ASSUME NEW n \in 1 .. asked, Lag(n) > AsTimeout,
                        runsFor[transTimer] = AsTimeout - Lag(n) + AsWrap
                 PROVE  FALSE
      BY DEF RunsOver
    <3>1. Lag(n) \in Nat /\ Lag(n) < AsWrap /\ AsWrap \in Nat
      BY AsLags, AsAssumption
    <3>2. QED
      BY <1>2, <2>1, <3>1
  <2>7. QED
    BY <1>2, <2>1, <2>4, <2>5, <2>6 DEF AsWatched
<1>3. QED
  BY <1>1, <1>2 DEF ToldInTime

(***************************************************************************)
(* As long as the application runs for less than the clock takes to come   *)
(* round, the requests of an AssemblyScript application time out in time,  *)
(* though the clock goes on while transaction_timeout_handler goes through *)
(* the list and its handlers run; except when they are so slow that the    *)
(* timer is set for a request that is already late (ToldInTime says what   *)
(* it leaves out).                                                         *)
(***************************************************************************)
THEOREM AsTimeOutsInTime ==
  ASSUME MaxClock - AsBegin < AsWrap
  PROVE  AsSpec => []ToldInTime
<1>1. AsInit => AsTypes /\ AsTells /\ AsAnswers /\ AsWatched
  BY AsInitKeeps
<1>2. AsTypes /\ AsTells /\ AsAnswers /\ AsWatched /\ [AsNext]_asVars
        => (AsTypes /\ AsTells /\ AsAnswers /\ AsWatched)'
  BY AsTypesKept, AsTellsKept, AsAnswersKept, AsWatchedKept
<1>3. AsTypes /\ AsTells /\ AsWatched => ToldInTime
  BY WatchedInTime
<1>4. QED
  BY <1>1, <1>2, <1>3, PTL DEF AsSpec
=============================================================================
