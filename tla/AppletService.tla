----------------------------- MODULE AppletService -----------------------------
(***************************************************************************)
(* The management service as the host sees it, without threads, queues or  *)
(* modules: the host asks, the set of installed applications changes one   *)
(* application at a time and only for a request that asks for the change,  *)
(* and "created" and "deleted" are said of changes that were made.         *)
(***************************************************************************)
EXTENDS Naturals, Sequences, FiniteSets

CONSTANTS Name, Mid, Request, NoRequest, MaxApps

VARIABLES
  applets,   \* names of the installed applications
  done,      \* requests that took effect and are not answered yet
  wish,      \* what each request asks
  reply      \* the responses to each request

vars == <<applets, done, wish, reply>>

Init ==
  /\ applets = {} /\ done = {}
  /\ wish = [m \in Mid |-> NoRequest]
  /\ reply = [m \in Mid |-> <<>>]

\* A request that took no effect and that was not answered.
Open(m) == reply[m] = <<>> /\ m \notin done

\* Some requests, such as those for an unknown application, are answered as
\* soon as they are asked.
Ask(m) ==
  /\ wish[m] = NoRequest
  /\ \E r \in Request : wish' = [wish EXCEPT ![m] = r]
  /\ \/ reply' = reply
     \/ reply' = [reply EXCEPT ![m] = <<"error">>]
  /\ UNCHANGED <<applets, done>>

Install(m) ==
  /\ Open(m) /\ wish[m].op = "install"
  /\ wish[m].arg \notin applets
  /\ Cardinality(applets) < MaxApps
  /\ applets' = applets \cup {wish[m].arg}
  /\ done' = done \cup {m}
  /\ UNCHANGED <<wish, reply>>

Uninstall(m) ==
  /\ Open(m) /\ wish[m].op = "uninstall"
  /\ wish[m].arg \in applets
  /\ applets' = applets \ {wish[m].arg}
  /\ done' = done \cup {m}
  /\ UNCHANGED <<wish, reply>>

\* The answer to a change that was made.
Confirm(m) ==
  /\ m \in done
  /\ done' = done \ {m}
  /\ reply' = [reply EXCEPT ![m] =
       <<IF wish[m].op = "install" THEN "created" ELSE "deleted">>]
  /\ UNCHANGED <<applets, wish>>

\* Any other answer is to a request that changed nothing.
Reply(m) ==
  /\ Open(m) /\ wish[m] # NoRequest
  /\ \E s \in {"error", "content", "app"} : reply' = [reply EXCEPT ![m] = <<s>>]
  /\ UNCHANGED <<applets, done, wish>>

Next ==
  \E m \in Mid : Ask(m) \/ Install(m) \/ Uninstall(m) \/ Confirm(m) \/ Reply(m)

Spec == Init /\ [][Next]_vars
=============================================================================
