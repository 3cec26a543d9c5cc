----------------------------- MODULE MCAppManager -----------------------------
(* Instances of AppManager for TLC. *)
EXTENDS AppManager

CONSTANTS a, b, c, u, applets

Ask1(op, arg) == [op |-> op, arg |-> arg]

\* The life of two applications, and the event that tells the host.
LifecycleRequests ==
  {Ask1("install", a), Ask1("install", b), Ask1("install", c),
   Ask1("uninstall", a), Ask1("query", NoName), Ask1("subscribe", applets),
   Ask1("unsubscribe", applets), Ask1("invalid", NoName)}

\* One application under the traffic of the host and of a second one.
TrafficRequests ==
  {Ask1("install", a), Ask1("install", b), Ask1("uninstall", a),
   Ask1("app", a), Ask1("resource", u)}

\* Two applications, of which one is removed.
PairRequests == {Ask1("install", a), Ask1("install", b), Ask1("uninstall", a)}

\* What is asked while the answers are waited for.
AnswerRequests ==
  {Ask1("install", a), Ask1("uninstall", a), Ask1("foreign", NoName)}
=============================================================================
