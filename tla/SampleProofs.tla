---------------------------- MODULE SampleProofs ----------------------------
(***************************************************************************)
(* Theorems about the samples and about the graphics of the gui sample,    *)
(* for every value of their constants: a main program undoes what it       *)
(* started, the catalogue of the application store offers what was         *)
(* uploaded, its server gives the answer of a device to the view that      *)
(* asked for it, the simulated display shows what was drawn, the list of   *)
(* objects names widgets, and a cleanup leaves none it can reach.          *)
(***************************************************************************)
EXTENDS RuntimeMain, AppCatalogue, AppStore, SdlDisplay, GuiObjects, SequenceLemmas,
        FiniteSetTheorems, TLAPS

-----------------------------------------------------------------------------
(* The main programs (RuntimeMain).  The programs are tables; the argument *)
(* asks of a table only that it is balanced, and every one of the six is.  *)

\* The parts started before the n-th, and those exited at label n or behind it.
PartsBefore(m, n) == {m.starts[k].part : k \in 1 .. n - 1}
ExitedFrom(m, n)  == UNION {m.undo[k] : k \in n .. Len(m.undo)}

\* No part is started twice or exited twice, and behind the label of a part are, of the
\* parts the program exits at all, the exits of those that are up when it fails.
Balanced(m) ==
  /\ Len(m.starts) \in Nat /\ Len(m.undo) \in Nat \ {0}
  /\ "runtime" \in ExitedFrom(m, 1)
  /\ ExitedFrom(m, 1) \subseteq {"runtime"} \cup PartsBefore(m, Len(m.starts) + 1)
  /\ \A n \in 1 .. Len(m.undo) : m.undo[n] \cap ExitedFrom(m, n + 1) = {}
  /\ \A n \in 1 .. Len(m.starts) :
       /\ m.starts[n].part \in Part \ ({"runtime"} \cup PartsBefore(m, n))
       /\ m.starts[n].label # 0 =>
            /\ m.starts[n].label \in 1 .. Len(m.undo)
            /\ \A p \in ExitedFrom(m, 1) :
                 p \in ExitedFrom(m, m.starts[n].label) <=>
                   p \in {"runtime"} \cup PartsBefore(m, n)

LEMMA OnePartMore ==
  ASSUME NEW m, NEW n \in Nat \ {0}
  PROVE  PartsBefore(m, n + 1) = PartsBefore(m, n) \cup {m.starts[n].part}
<1>1. 1 .. (n + 1) - 1 = (1 .. n - 1) \cup {n}
  OBVIOUS
<1>2. QED
  BY <1>1 DEF PartsBefore

LEMMA OneLabelLess ==
  ASSUME NEW m, Len(m.undo) \in Nat, NEW n \in 1 .. Len(m.undo)
  PROVE  ExitedFrom(m, n) = m.undo[n] \cup ExitedFrom(m, n + 1)
<1>1. n .. Len(m.undo) = {n} \cup (n + 1 .. Len(m.undo))
  OBVIOUS
<1>2. QED
  BY <1>1 DEF ExitedFrom

LEMMA NoPart == \A m : PartsBefore(m, 1) = {}
<1>1. 1 .. 1 - 1 = {}
  OBVIOUS
<1>2. QED
  BY <1>1 DEF PartsBefore

LEMMA NoLabel == \A m : Len(m.undo) \in Nat => ExitedFrom(m, Len(m.undo) + 1) = {}
<1>1. \A k \in Nat : k + 1 .. k = {}
  OBVIOUS
<1>2. QED
  BY <1>1 DEF ExitedFrom

LEMMA PartsInOrder ==
  ASSUME NEW m
  PROVE  /\ PartsBefore(m, 1) = {} /\ PartsBefore(m, 2) = {m.starts[1].part}
         /\ PartsBefore(m, 3) = {m.starts[1].part, m.starts[2].part}
         /\ PartsBefore(m, 4) = {m.starts[1].part, m.starts[2].part, m.starts[3].part}
         /\ PartsBefore(m, 5) = {m.starts[1].part, m.starts[2].part, m.starts[3].part,
                                 m.starts[4].part}
<1>1. /\ PartsBefore(m, 1 + 1) = PartsBefore(m, 1) \cup {m.starts[1].part}
      /\ PartsBefore(m, 2 + 1) = PartsBefore(m, 2) \cup {m.starts[2].part}
      /\ PartsBefore(m, 3 + 1) = PartsBefore(m, 3) \cup {m.starts[3].part}
      /\ PartsBefore(m, 4 + 1) = PartsBefore(m, 4) \cup {m.starts[4].part}
  BY OnePartMore
<1>2. QED
  BY <1>1, NoPart

LEMMA FourLabels ==
  ASSUME NEW m, Len(m.undo) = 4
  PROVE  /\ ExitedFrom(m, 5) = {} /\ ExitedFrom(m, 4) = m.undo[4]
         /\ ExitedFrom(m, 3) = m.undo[3] \cup m.undo[4]
         /\ ExitedFrom(m, 2) = m.undo[2] \cup m.undo[3] \cup m.undo[4]
         /\ ExitedFrom(m, 1) = m.undo[1] \cup m.undo[2] \cup m.undo[3] \cup m.undo[4]
<1>1. /\ 1 .. 4 = {1, 2, 3, 4} /\ 2 .. 4 = {2, 3, 4} /\ 3 .. 4 = {3, 4} /\ 4 .. 4 = {4}
      /\ 5 .. 4 = {}
  OBVIOUS
<1>2. QED
  BY <1>1 DEF ExitedFrom

LEMMA TwoLabels ==
  ASSUME NEW m, Len(m.undo) = 2
  PROVE  /\ ExitedFrom(m, 3) = {} /\ ExitedFrom(m, 2) = m.undo[2]
         /\ ExitedFrom(m, 1) = m.undo[1] \cup m.undo[2]
<1>1. 1 .. 2 = {1, 2} /\ 2 .. 2 = {2} /\ 3 .. 2 = {}
  OBVIOUS
<1>2. QED
  BY <1>1 DEF ExitedFrom

LEMMA SimpleIsBalanced == Balanced(SimpleMain)
<1> DEFINE m == SimpleMain
<1>1. /\ Len(m.starts) = 3 /\ Len(m.undo) = 4
      /\ m.starts[1] = Start("connection", 4) /\ m.starts[2] = Start("sensor", 3)
      /\ m.starts[3] = Start("timer", 2)
      /\ m.undo[1] = {"timer"} /\ m.undo[2] = {"sensor"} /\ m.undo[3] = {"connection"}
      /\ m.undo[4] = {"runtime"}
  BY DEF SimpleMain
<1>2. /\ m.starts[1].part = "connection" /\ m.starts[1].label = 4
      /\ m.starts[2].part = "sensor" /\ m.starts[2].label = 3
      /\ m.starts[3].part = "timer" /\ m.starts[3].label = 2
  BY <1>1 DEF Start
<1> HIDE DEF m
<1>3. /\ PartsBefore(m, 1) = {} /\ PartsBefore(m, 2) = {"connection"}
      /\ PartsBefore(m, 3) = {"connection", "sensor"}
      /\ PartsBefore(m, 4) = {"connection", "sensor", "timer"}
  BY <1>2, PartsInOrder
<1>4. /\ ExitedFrom(m, 5) = {} /\ ExitedFrom(m, 4) = {"runtime"}
      /\ ExitedFrom(m, 3) = {"runtime", "connection"}
      /\ ExitedFrom(m, 2) = {"runtime", "connection", "sensor"}
      /\ ExitedFrom(m, 1) = {"runtime", "connection", "sensor", "timer"}
  BY <1>1, FourLabels
<1>5. 1 .. 3 = {1, 2, 3} /\ 1 .. 4 = {1, 2, 3, 4}
  OBVIOUS
<1>6. /\ Len(m.starts) \in Nat /\ Len(m.undo) \in Nat \ {0}
      /\ "runtime" \in ExitedFrom(m, 1)
      /\ ExitedFrom(m, 1) \subseteq {"runtime"} \cup PartsBefore(m, Len(m.starts) + 1)
  BY <1>1, <1>3, <1>4
<1>7. \A n \in 1 .. Len(m.undo) : m.undo[n] \cap ExitedFrom(m, n + 1) = {}
  BY <1>1, <1>4, <1>5
<1>8. ASSUME NEW n \in {1, 2, 3}
      PROVE  /\ m.starts[n].part \in Part \ ({"runtime"} \cup PartsBefore(m, n))
             /\ m.starts[n].label # 0 =>
                  /\ m.starts[n].label \in 1 .. Len(m.undo)
                  /\ \A p \in ExitedFrom(m, 1) :
                       p \in ExitedFrom(m, m.starts[n].label) <=>
                         p \in {"runtime"} \cup PartsBefore(m, n)
  BY <1>1, <1>2, <1>3, <1>4, <1>5 DEF Part
<1>9. Balanced(m)
  BY <1>1, <1>5, <1>6, <1>7, <1>8 DEF Balanced
<1>10. QED
  BY <1>9 DEF m

\* The program of littlevgl has no exit for the display, the gui ones have.
LEMMA GraphicsIsBalanced ==
  Balanced(LittlevglMain) /\ Balanced(GuiMain) /\ Balanced(NativeLibMain)
<1>1. ASSUME NEW m, m \in {LittlevglMain, GuiMain, NativeLibMain}
      PROVE  Balanced(m)
  <2>1. /\ Len(m.starts) = 4 /\ Len(m.undo) = 4
        /\ m.starts[1] = Start("connection", 4) /\ m.starts[2] = Start("graphics", 0)
        /\ m.starts[3] = Start("sensor", 3) /\ m.starts[4] = Start("timer", 2)
        /\ m.undo[1] = {"timer"} /\ m.undo[2] = {"sensor"} /\ m.undo[4] = {"runtime"}
        /\ m.undo[3] = {"connection"} \/ m.undo[3] = {"graphics", "connection"}
    BY <1>1 DEF LittlevglMain, GuiMain, NativeLibMain, LittlevglDisplay, Graphics
  <2>2. /\ m.starts[1].part = "connection" /\ m.starts[1].label = 4
        /\ m.starts[2].part = "graphics" /\ m.starts[2].label = 0
        /\ m.starts[3].part = "sensor" /\ m.starts[3].label = 3
        /\ m.starts[4].part = "timer" /\ m.starts[4].label = 2
    BY <2>1 DEF Start
  <2>3. /\ PartsBefore(m, 1) = {} /\ PartsBefore(m, 2) = {"connection"}
        /\ PartsBefore(m, 3) = {"connection", "graphics"}
        /\ PartsBefore(m, 4) = {"connection", "graphics", "sensor"}
        /\ PartsBefore(m, 5) = {"connection", "graphics", "sensor", "timer"}
    BY <2>2, PartsInOrder
  <2>4. /\ ExitedFrom(m, 5) = {} /\ ExitedFrom(m, 4) = {"runtime"}
        /\ ExitedFrom(m, 3) = m.undo[3] \cup {"runtime"}
        /\ ExitedFrom(m, 2) = m.undo[3] \cup {"runtime", "sensor"}
        /\ ExitedFrom(m, 1) = m.undo[3] \cup {"runtime", "sensor", "timer"}
    BY <2>1, FourLabels
  <2>5. 1 .. 4 = {1, 2, 3, 4}
    OBVIOUS
  <2>6. /\ Len(m.starts) \in Nat /\ Len(m.undo) \in Nat \ {0}
        /\ "runtime" \in ExitedFrom(m, 1)
        /\ ExitedFrom(m, 1) \subseteq {"runtime"} \cup PartsBefore(m, Len(m.starts) + 1)
    BY <2>1, <2>3, <2>4
  <2>7. \A n \in 1 .. Len(m.undo) : m.undo[n] \cap ExitedFrom(m, n + 1) = {}
    BY <2>1, <2>4, <2>5
  <2>8. ASSUME NEW n \in {1, 2, 3, 4}
        PROVE  /\ m.starts[n].part \in Part \ ({"runtime"} \cup PartsBefore(m, n))
               /\ m.starts[n].label # 0 =>
                    /\ m.starts[n].label \in 1 .. Len(m.undo)
                    /\ \A p \in ExitedFrom(m, 1) :
                         p \in ExitedFrom(m, m.starts[n].label) <=>
                           p \in {"runtime"} \cup PartsBefore(m, n)
    BY <2>1, <2>2, <2>3, <2>4, <2>5 DEF Part
  <2>9. QED
    BY <2>1, <2>5, <2>6, <2>7, <2>8 DEF Balanced
<1>2. QED
  BY <1>1

LEMMA ZephyrIsBalanced == Balanced(ZephyrGuiMain) /\ Balanced(ZephyrLittlevglMain)
<1>1. ASSUME NEW m, m \in {ZephyrGuiMain, ZephyrLittlevglMain}
      PROVE  Balanced(m)
  <2>1. /\ Len(m.starts) = 2 /\ Len(m.undo) = 2
        /\ m.starts[1] = Start("graphics", 0) /\ m.starts[2] = Start("timer", 2)
        /\ m.undo[1] = {} /\ m.undo[2] = {"runtime"}
    BY <1>1 DEF ZephyrGuiMain, ZephyrLittlevglMain, ZephyrDisplay
  <2>2. /\ m.starts[1].part = "graphics" /\ m.starts[1].label = 0
        /\ m.starts[2].part = "timer" /\ m.starts[2].label = 2
    BY <2>1 DEF Start
  <2>3. /\ PartsBefore(m, 1) = {} /\ PartsBefore(m, 2) = {"graphics"}
        /\ PartsBefore(m, 3) = {"graphics", "timer"}
    BY <2>2, PartsInOrder
  <2>4. /\ ExitedFrom(m, 3) = {} /\ ExitedFrom(m, 2) = {"runtime"}
        /\ ExitedFrom(m, 1) = {"runtime"}
    BY <2>1, TwoLabels
  <2>5. 1 .. 2 = {1, 2}
    OBVIOUS
  <2>6. \A n \in 1 .. Len(m.undo) : m.undo[n] \cap ExitedFrom(m, n + 1) = {}
    BY <2>1, <2>4, <2>5
  <2>7. ASSUME NEW n \in {1, 2}
        PROVE  /\ m.starts[n].part \in Part \ ({"runtime"} \cup PartsBefore(m, n))
               /\ m.starts[n].label # 0 =>
                    /\ m.starts[n].label \in 1 .. Len(m.undo)
                    /\ \A p \in ExitedFrom(m, 1) :
                         p \in ExitedFrom(m, m.starts[n].label) <=>
                           p \in {"runtime"} \cup PartsBefore(m, n)
    BY <2>1, <2>2, <2>3, <2>4, <2>5 DEF Part
  <2>8. QED
    BY <2>1, <2>3, <2>4, <2>5, <2>6, <2>7 DEF Balanced
<1>2. QED
  BY <1>1

LEMMA AllAreBalanced == \A n \in DOMAIN Program : Balanced(Program[n])
<1>1. Program = [simple |-> SimpleMain, littlevgl |-> LittlevglMain, gui |-> GuiMain,
                 nativelib |-> NativeLibMain, zephyrGui |-> ZephyrGuiMain,
                 zephyrLittlevgl |-> ZephyrLittlevglMain]
  BY DEF Program
<1>2. /\ DOMAIN Program = {"simple", "littlevgl", "gui", "nativelib", "zephyrGui",
                           "zephyrLittlevgl"}
      /\ Program["simple"] = SimpleMain /\ Program["littlevgl"] = LittlevglMain
      /\ Program["gui"] = GuiMain /\ Program["nativelib"] = NativeLibMain
      /\ Program["zephyrGui"] = ZephyrGuiMain
      /\ Program["zephyrLittlevgl"] = ZephyrLittlevglMain
  BY <1>1
<1>3. QED
  BY <1>2, SimpleIsBalanced, GraphicsIsBalanced, ZephyrIsBalanced

-----------------------------------------------------------------------------
\* The runtime is started twice where libraries are loaded, and exited once.
RuntimeStarts == IF LoadsLibraries THEN 2 ELSE 1

\* What is up at the place the program is at.
UpInv ==
  LET m == Program[program]
      M == {"runtime"} \cup PartsBefore(m, Len(m.starts) + 1)
  IN
  /\ main = "arguments" => up = [p \in Part |-> 0] /\ step = 1
  /\ main = "libraries" => /\ LoadsLibraries /\ step = 1
                           /\ \A p \in Part : up[p] = IF p = "runtime" THEN 1 ELSE 0
  /\ main = "starting" =>
       /\ step \in 1 .. Len(m.starts) + 1
       /\ up["runtime"] = RuntimeStarts
       /\ \A p \in Part \ {"runtime"} : up[p] = IF p \in PartsBefore(m, step) THEN 1 ELSE 0
  /\ main \in {"undoing", "over"} =>
       /\ step \in 1 .. Len(m.undo) + 1
       /\ main = "undoing" <=> step <= Len(m.undo)
       /\ \A p \in Part \ M : up[p] = 0
       /\ \A p \in ExitedFrom(m, 1) :
            up[p] = (IF p = "runtime" THEN RuntimeStarts - 1 ELSE 0)
                      + (IF p \in ExitedFrom(m, step) THEN 1 ELSE 0)

StartInv ==
  /\ program \in DOMAIN Program /\ up \in [Part -> Nat]
  /\ main \in {"arguments", "refused", "libraries", "starting", "undoing", "over"}
  /\ UpInv

LEMMA ProgramStays == [MainNext]_mainVars => program' = program
  BY DEF MainNext, mainVars, libVars, OptionRefused, FirstFullInit, SecondFullInit, StartPart,
         PartFails, ManagerReturns, Label, NativeOption, NotLoaded, RegisterFails, Loads,
         LoadNext

LEMMA StartKeeps == StartInv /\ [MainNext]_mainVars => StartInv'
<1> SUFFICES ASSUME StartInv, [MainNext]_mainVars
             PROVE  StartInv'
  OBVIOUS
<1> DEFINE m == Program[program]
           M == {"runtime"} \cup PartsBefore(m, Len(m.starts) + 1)
<1>1. program' = program /\ program \in DOMAIN Program /\ up \in [Part -> Nat] /\ Balanced(m)
  BY ProgramStays, AllAreBalanced DEF StartInv
<1>2. LoadsLibraries' = LoadsLibraries /\ RuntimeStarts' = RuntimeStarts /\ RuntimeStarts \in {1, 2}
  BY <1>1 DEF LoadsLibraries, RuntimeStarts
<1>3. /\ Len(m.starts) \in Nat /\ Len(m.undo) \in Nat \ {0}
      /\ "runtime" \in ExitedFrom(m, 1) /\ ExitedFrom(m, 1) \subseteq M
      /\ \A n \in 1 .. Len(m.undo) : m.undo[n] \cap ExitedFrom(m, n + 1) = {}
      /\ \A n \in 1 .. Len(m.starts) : m.starts[n].part \in Part \ {"runtime"}
  BY <1>1 DEF Balanced
<1>4. \A n \in 1 .. Len(m.starts) + 1 : PartsBefore(m, n) \subseteq M
                                     /\ "runtime" \notin PartsBefore(m, n)
  <2>1. \A n \in 1 .. Len(m.starts) + 1 : 1 .. n - 1 \subseteq 1 .. Len(m.starts)
    BY <1>3
  <2>2. QED
    BY <2>1, <1>3 DEF PartsBefore
<1>5. CASE OptionRefused
  BY <1>5, <1>1 DEF OptionRefused, StartInv, UpInv
<1>6. CASE FirstFullInit
  BY <1>6, <1>1, <1>2, <1>3, NoPart
     DEF FirstFullInit, StartInv, UpInv, Started, Part, RuntimeStarts, LoadsLibraries
<1>7. CASE SecondFullInit
  BY <1>7, <1>1, <1>2, <1>3, NoPart
     DEF SecondFullInit, StartInv, UpInv, Started, Part, RuntimeStarts, LoadsLibraries
<1>8. CASE StartPart
  <2> DEFINE p == m.starts[step].part
  <2>1. /\ main = "starting" /\ main' = main /\ step' = step + 1 /\ step \in 1 .. Len(m.starts)
        /\ up' = [up EXCEPT ![p] = @ + 1]
    BY <1>8, <1>3 DEF StartPart, Started, Starts, StartInv, UpInv
  <2>2. /\ p \in Part \ {"runtime"} /\ p \notin PartsBefore(m, step)
        /\ PartsBefore(m, step + 1) = PartsBefore(m, step) \cup {p}
    BY <2>1, <1>1, OnePartMore DEF Balanced
  <2>3. /\ up["runtime"] = RuntimeStarts
        /\ \A q \in Part \ {"runtime"} : up[q] = IF q \in PartsBefore(m, step) THEN 1 ELSE 0
    BY <2>1 DEF StartInv, UpInv
  <2> HIDE DEF p
  <2>4. /\ up'["runtime"] = RuntimeStarts /\ up' \in [Part -> Nat]
        /\ \A q \in Part \ {"runtime"} : up'[q] = IF q \in PartsBefore(m, step + 1) THEN 1 ELSE 0
    BY <2>1, <2>2, <2>3, <1>1 DEF Part
  <2>5. QED
    BY <2>1, <2>4, <1>1, <1>2, <1>3 DEF StartInv, UpInv
<1>9. CASE PartFails
  <2> DEFINE l == m.starts[step].label
  <2>1. /\ main = "starting" /\ main' = "undoing" /\ step' = l /\ step \in 1 .. Len(m.starts)
        /\ l # 0 /\ up' = up
    BY <1>9, <1>3 DEF PartFails, Starts, StartInv, UpInv
  <2>2. /\ l \in 1 .. Len(m.undo)
        /\ \A p \in ExitedFrom(m, 1) :
             p \in ExitedFrom(m, l) <=> p \in {"runtime"} \cup PartsBefore(m, step)
    BY <2>1, <1>1 DEF Balanced
  <2>3. /\ up["runtime"] = RuntimeStarts
        /\ \A q \in Part \ {"runtime"} : up[q] = IF q \in PartsBefore(m, step) THEN 1 ELSE 0
    BY <2>1 DEF StartInv, UpInv
  <2>4. PartsBefore(m, step) \subseteq M /\ "runtime" \notin PartsBefore(m, step) /\ M \subseteq Part
    <3>1. PartsBefore(m, step) \subseteq M /\ "runtime" \notin PartsBefore(m, step)
      BY <2>1, <1>3, <1>4
    <3>2. M \subseteq Part
      BY <1>3 DEF PartsBefore, Part
    <3>3. QED
      BY <3>1, <3>2
  <2> HIDE DEF l
  <2>5. /\ \A p \in Part \ M : up[p] = 0
        /\ \A p \in ExitedFrom(m, 1) :
             up[p] = (IF p = "runtime" THEN RuntimeStarts - 1 ELSE 0)
                       + (IF p \in ExitedFrom(m, l) THEN 1 ELSE 0)
    BY <2>2, <2>3, <2>4, <1>2, <1>3 DEF Part
  <2>6. QED
    BY <2>1, <2>2, <2>5, <1>1, <1>2, <1>3 DEF StartInv, UpInv
<1>10. CASE ManagerReturns
  <2>1. /\ main = "starting" /\ main' = "undoing" /\ step' = 1 /\ step = Len(m.starts) + 1
        /\ up' = up
    BY <1>10, <1>3 DEF ManagerReturns, Starts, StartInv, UpInv
  <2>2. /\ up["runtime"] = RuntimeStarts
        /\ \A q \in Part \ {"runtime"} :
             up[q] = IF q \in PartsBefore(m, Len(m.starts) + 1) THEN 1 ELSE 0
    BY <2>1 DEF StartInv, UpInv
  <2>3. "runtime" \notin PartsBefore(m, Len(m.starts) + 1) /\ M \subseteq Part
    BY <1>3, <1>4 DEF PartsBefore, Part
  <2>4. /\ \A p \in Part \ M : up[p] = 0
        /\ \A p \in ExitedFrom(m, 1) :
             up[p] = (IF p = "runtime" THEN RuntimeStarts - 1 ELSE 0) + 1
    BY <2>2, <2>3, <1>2, <1>3 DEF Part
  <2>5. QED
    BY <2>1, <2>4, <1>1, <1>2, <1>3 DEF StartInv, UpInv
<1>11. CASE Label
  <2>1. /\ main = "undoing" /\ step' = step + 1 /\ step \in 1 .. Len(m.undo)
        /\ main' = (IF step = Len(m.undo) THEN "over" ELSE main)
        /\ up' = [p \in Part |-> IF p \in m.undo[step] THEN up[p] - 1 ELSE up[p]]
    BY <1>11, <1>3 DEF Label, Exited, Undo, StartInv, UpInv
  <2>2. /\ ExitedFrom(m, step) = m.undo[step] \cup ExitedFrom(m, step + 1)
        /\ m.undo[step] \cap ExitedFrom(m, step + 1) = {} /\ m.undo[step] \subseteq ExitedFrom(m, 1)
    BY <2>1, <1>3, OneLabelLess DEF ExitedFrom
  <2>3. /\ \A p \in Part \ M : up[p] = 0
        /\ \A p \in ExitedFrom(m, 1) :
             up[p] = (IF p = "runtime" THEN RuntimeStarts - 1 ELSE 0)
                       + (IF p \in ExitedFrom(m, step) THEN 1 ELSE 0)
    BY <2>1 DEF StartInv, UpInv
  <2>4. ExitedFrom(m, 1) \subseteq Part
    BY <1>3, <1>4 DEF PartsBefore, Part
  <2>5. /\ \A p \in Part \ M : up'[p] = 0
        /\ \A p \in ExitedFrom(m, 1) :
             up'[p] = (IF p = "runtime" THEN RuntimeStarts - 1 ELSE 0)
                        + (IF p \in ExitedFrom(m, step + 1) THEN 1 ELSE 0)
    BY <2>1, <2>2, <2>3, <2>4, <1>2, <1>3
  <2>6. up' \in [Part -> Nat]
    BY <2>1, <2>2, <2>3, <1>1, <1>2, <2>4
  <2>7. QED
    BY <2>1, <2>5, <2>6, <1>1, <1>2, <1>3 DEF StartInv, UpInv
<1>12. ASSUME NEW n \in NativeLib,
              NativeOption(n) \/ NotLoaded(n) \/ RegisterFails(n) \/ Loads(n)
       PROVE  StartInv'
  BY <1>12, <1>1, <1>2 DEF NativeOption, NotLoaded, RegisterFails, Loads, LoadNext, StartInv, UpInv
<1>13. CASE UNCHANGED mainVars
  BY <1>13, <1>2 DEF mainVars, StartInv, UpInv
<1>14. QED
  BY <1>5, <1>6, <1>7, <1>8, <1>9, <1>10, <1>11, <1>12, <1>13 DEF MainNext

\* The libraries that are open or begun are in the list of those that were loaded, and
\* these have a name.
LibraryInv ==
  /\ loaded \in Seq(NativeLib) /\ opened \cup begun \subseteq ToSet(loaded)
  /\ \A n \in ToSet(loaded) : HasName(n)

LEMMA LibraryKeeps == LibraryInv /\ [MainNext]_mainVars => LibraryInv'
<1> SUFFICES ASSUME LibraryInv, [MainNext]_mainVars
             PROVE  LibraryInv'
  OBVIOUS
<1>1. \A n : HasName(n)' <=> HasName(n)
  BY ProgramStays DEF HasName
<1>2. CASE UNCHANGED <<loaded, opened, begun>>
  BY <1>1, <1>2 DEF LibraryInv
<1>3. ASSUME NEW n \in NativeLib, Loads(n)
      PROVE  LibraryInv'
  <2>1. /\ loaded' = Append(loaded, n) /\ opened' = opened \cup {n} /\ HasName(n)
        /\ begun' \subseteq begun \cup {n}
    BY <1>3 DEF Loads
  <2>2. loaded' \in Seq(NativeLib) /\ ToSet(loaded') = ToSet(loaded) \cup {n}
    BY <2>1, AppendedToSet DEF LibraryInv
  <2>3. QED
    BY <1>1, <2>1, <2>2 DEF LibraryInv
<1>4. UNCHANGED <<loaded, opened, begun>> \/ \E n \in NativeLib : Loads(n)
  BY DEF MainNext, mainVars, libVars, OptionRefused, FirstFullInit, SecondFullInit, StartPart,
         PartFails, ManagerReturns, Label, NativeOption, NotLoaded, RegisterFails
<1>5. QED
  BY <1>2, <1>3, <1>4

\* Whatever fails in whichever of the main programs, the labels exit every part that was
\* started and no other, but for the second start of the runtime and for the parts the
\* program has no exit for, and every library that is open or begun is in the list of
\* the loaded ones and has a name.
THEOREM StartIsUndone == MainSpec => []NothingLeftUp
<1>1. MainInit => StartInv
  BY DEF MainInit, StartInv, UpInv
<1>2. MainInit => LibraryInv
  BY DEF MainInit, LibraryInv, ToSet
<1>3. StartInv /\ LibraryInv => NothingLeftUp
  <2> SUFFICES ASSUME StartInv, LibraryInv
               PROVE  NothingLeftUp
    OBVIOUS
  <2> DEFINE m == Program[program]
  <2>1. Balanced(m)
    BY AllAreBalanced DEF StartInv
  <2>2. ASSUME NEW p \in Part, main = "over", p \notin NeverExited
        PROVE  up[p] = IF p = "runtime" /\ LoadsLibraries THEN 1 ELSE 0
    <3>1. /\ step = Len(m.undo) + 1
          /\ \A q \in Part \ ({"runtime"} \cup PartsBefore(m, Len(m.starts) + 1)) : up[q] = 0
          /\ \A q \in ExitedFrom(m, 1) :
               up[q] = (IF q = "runtime" THEN RuntimeStarts - 1 ELSE 0)
                         + (IF q \in ExitedFrom(m, step) THEN 1 ELSE 0)
      BY <2>1, <2>2 DEF StartInv, UpInv, Balanced
    <3>2. ExitedFrom(m, step) = {}
      BY <3>1, <2>1, NoLabel DEF Balanced
    <3>3. p \in ExitedFrom(m, 1) \/ p \notin {"runtime"} \cup PartsBefore(m, Len(m.starts) + 1)
      <4>1. NeverExited = PartsBefore(m, Len(m.starts) + 1) \ ExitedFrom(m, 1)
        BY <2>1 DEF NeverExited, Starts, Undo, PartsBefore, ExitedFrom, Balanced
      <4>2. QED
        BY <4>1, <2>1, <2>2 DEF Balanced
    <3>4. QED
      BY <3>1, <3>2, <3>3, <2>1 DEF RuntimeStarts, Balanced
  <2>3. \A p \in Part : up[p] >= 0
    BY DEF StartInv
  <2>4. opened \cup begun \subseteq ToSet(loaded) /\ \A i \in 1 .. Len(loaded) : HasName(loaded[i])
    BY DEF LibraryInv, ToSet
  <2>5. QED
    BY <2>2, <2>3, <2>4 DEF NothingLeftUp
<1>4. QED
  BY <1>1, <1>2, <1>3, StartKeeps, LibraryKeeps, PTL DEF MainSpec

-----------------------------------------------------------------------------
(* The catalogue (AppCatalogue).  UploadedIsOffered holds because a name   *)
(* is uploaded once only, so that the entry a removal takes out of the one *)
(* list is the one it takes out of the others.                             *)

Entry == StoreName \X Version

CatalogueTypes ==
  /\ offered \in Seq(Entry) /\ uploaded \in Seq(Entry) /\ files \in Seq(StoreName)
  /\ \A i \in 1 .. Len(uploaded) : uploaded[i][2] = "1.0"

\* The names are those of the uploaded applications, each there once.
NamesInv ==
  /\ Len(files) = Len(uploaded)
  /\ \A i \in 1 .. Len(files) : files[i] = uploaded[i][1]
  /\ \A i, j \in 1 .. Len(files) : files[i] = files[j] => i = j

OfferedInv == \A e \in Entry : Times(uploaded, e) <= Times(offered, e)

CatalogueInv == CatalogueTypes /\ NamesInv /\ OfferedInv

LEMMA CatalogueStarts == CatalogueInit => CatalogueInv
<1> SUFFICES ASSUME CatalogueInit
             PROVE  CatalogueInv
  OBVIOUS
<1> DEFINE B == {<<n, "1.0">> : n \in Builtin}
<1>1. IsFiniteSet(B)
  <2> DEFINE f == [n \in Builtin |-> <<n, "1.0">>]
  <2>1. f \in Surjection(Builtin, B)
    BY DEF Surjection
  <2> HIDE DEF f, B
  <2>2. QED
    BY <2>1, FS_Surjection, CatalogueAssumption
<1>2. offered \in [1 .. Cardinality(B) -> B] /\ Cardinality(B) \in Nat
  <2>1. offered = SetToSeq(B)
    BY DEF CatalogueInit
  <2> HIDE DEF B
  <2>2. Cardinality(B) \in Nat /\ ExistsBijection(1 .. Cardinality(B), B)
    BY <1>1, FS_CardinalityType
  <2>3. PICK g \in [1 .. Cardinality(B) -> B] : IsInjective(g)
    BY <2>2 DEF ExistsBijection, Bijection, Injection, IsInjective
  <2>4. QED
    BY <2>1, <2>2, <2>3 DEF SetToSeq
<1>3. B \subseteq Entry
  BY CatalogueAssumption DEF Entry, Version
<1>4. offered \in Seq(Entry)
  <2> HIDE DEF B
  <2> QED
    BY <1>2, <1>3
<1>5. uploaded = <<>> /\ files = <<>> /\ uploaded \in Seq(Entry) /\ Len(uploaded) = 0
  BY DEF CatalogueInit
<1>6. ASSUME NEW e \in Entry
      PROVE  Times(uploaded, e) = 0 /\ Times(offered, e) \in Nat
  <2>1. Times(offered, e) \in Nat
    BY <1>4, TimesIsNatural
  <2>2. Times(uploaded, e) = 0 <=> \A i \in 1 .. Len(uploaded) : uploaded[i] # e
    BY <1>5, TimesIsNatural
  <2>3. QED
    BY <1>5, <2>1, <2>2
<1>7. OfferedInv
  BY <1>6 DEF OfferedInv
<1>8. CatalogueTypes /\ NamesInv
  BY <1>4, <1>5 DEF CatalogueTypes, NamesInv
<1>9. QED
  BY <1>7, <1>8 DEF CatalogueInv

\* An entry that is added to what is offered leaves the rest as it was.
LEMMA OfferedGrows ==
  ASSUME CatalogueInv, NEW e \in Entry, offered' = Append(offered, e)
  PROVE  /\ offered' \in Seq(Entry)
         /\ \A x \in Entry : Times(offered', x) = IF x = e THEN Times(offered, x) + 1
                                                  ELSE Times(offered, x)
BY TimesAppended DEF CatalogueInv, CatalogueTypes

LEMMA UploadKeeps ==
  ASSUME CatalogueInv, NEW n \in StoreName, Upload(n)
  PROVE  CatalogueInv'
<1> DEFINE e == <<n, "1.0">>
<1>1. /\ e \in Entry /\ e[1] = n /\ e[2] = "1.0"
      /\ offered' = Append(offered, e)
      /\ uploaded' = Append(uploaded, e) /\ files' = Append(files, n)
      /\ \A i \in 1 .. Len(files) : files[i] # n
  BY DEF Upload, Entry, Version, ToSet, CatalogueInv, CatalogueTypes
<1> HIDE DEF e
<1>2. /\ Len(uploaded) \in Nat /\ Len(uploaded') = Len(uploaded) + 1
      /\ uploaded' \in Seq(Entry)
      /\ \A i \in 1 .. Len(uploaded) + 1 :
           uploaded'[i] = IF i = Len(uploaded) + 1 THEN e ELSE uploaded[i]
  BY <1>1 DEF CatalogueInv, CatalogueTypes
<1>3. /\ Len(files') = Len(files) + 1 /\ files' \in Seq(StoreName)
      /\ \A i \in 1 .. Len(files) + 1 :
           files'[i] = IF i = Len(files) + 1 THEN n ELSE files[i]
  BY <1>1 DEF CatalogueInv, CatalogueTypes
<1>4. CatalogueTypes'
  BY <1>1, <1>2, <1>3, OfferedGrows DEF CatalogueInv, CatalogueTypes
<1>5. NamesInv'
  <2>1. /\ Len(files) = Len(uploaded)
        /\ \A i \in 1 .. Len(files) : files[i] = uploaded[i][1]
        /\ \A i, j \in 1 .. Len(files) : files[i] = files[j] => i = j
    BY DEF CatalogueInv, NamesInv
  <2>2. Len(files') = Len(uploaded') /\ Len(files') = Len(files) + 1
    BY <1>2, <1>3, <2>1
  <2>3. ASSUME NEW i \in 1 .. Len(files')
        PROVE  files'[i] = uploaded'[i][1]
    <3>1. CASE i = Len(files) + 1
      BY <1>1, <1>2, <1>3, <2>1, <2>2, <3>1
    <3>2. CASE i \in 1 .. Len(files)
      BY <1>2, <1>3, <2>1, <2>2, <3>2
    <3>3. QED
      BY <1>2, <2>1, <2>2, <3>1, <3>2
  <2>4. ASSUME NEW i \in 1 .. Len(files'), NEW j \in 1 .. Len(files'), files'[i] = files'[j]
        PROVE  i = j
    <3>1. \A k \in 1 .. Len(files) : files'[k] = files[k] /\ files[k] # n
      BY <1>1, <1>2, <1>3, <2>1
    <3>2. files'[Len(files) + 1] = n
      BY <1>2, <1>3, <2>1
    <3>3. \A k \in 1 .. Len(files') : k = Len(files) + 1 \/ k \in 1 .. Len(files)
      BY <1>2, <2>1, <2>2
    <3>4. QED
      BY <2>1, <2>4, <3>1, <3>2, <3>3
  <2>5. QED
    BY <2>2, <2>3, <2>4 DEF NamesInv
<1>6. OfferedInv'
  <2>1. \A x \in Entry : Times(uploaded', x) = IF x = e THEN Times(uploaded, x) + 1
                                               ELSE Times(uploaded, x)
    BY <1>1, TimesAppended DEF CatalogueInv, CatalogueTypes
  <2>2. \A x \in Entry : Times(uploaded, x) \in Nat /\ Times(offered, x) \in Nat
    BY TimesIsNatural DEF CatalogueInv, CatalogueTypes
  <2>3. \A x \in Entry : Times(offered', x) = IF x = e THEN Times(offered, x) + 1
                                              ELSE Times(offered, x)
    BY <1>1, OfferedGrows
  <2>4. ASSUME NEW x \in Entry
        PROVE  Times(uploaded', x) <= Times(offered', x)
    BY <2>1, <2>2, <2>3 DEF CatalogueInv, OfferedInv
  <2>5. QED
    BY <2>4 DEF OfferedInv
<1>7. QED
  BY <1>4, <1>5, <1>6 DEF CatalogueInv

LEMMA AddKeeps ==
  ASSUME CatalogueInv, NEW n \in StoreName, NEW v \in Version, AddApp(n, v)
  PROVE  CatalogueInv'
<1>1. <<n, v>> \in Entry /\ offered' = Append(offered, <<n, v>>)
      /\ UNCHANGED <<uploaded, files>>
  BY DEF AddApp, Entry
<1>2. \A x \in Entry : Times(uploaded, x) \in Nat /\ Times(offered, x) \in Nat
  BY TimesIsNatural DEF CatalogueInv, CatalogueTypes
<1>3. OfferedInv'
  BY <1>1, <1>2, OfferedGrows DEF CatalogueInv, OfferedInv
<1>4. QED
  BY <1>1, <1>3, OfferedGrows DEF CatalogueInv, CatalogueTypes, NamesInv

\* A removal takes one entry out of what is offered, which is in it.
LEMMA OfferedShrinks ==
  ASSUME CatalogueInv, NEW e \in Entry, e \in ToSet(offered),
         offered' = RemoveFirst(offered, e)
  PROVE  /\ offered' \in Seq(Entry)
         /\ \A x \in Entry : Times(offered', x) = IF x = e THEN Times(offered, x) - 1
                                                  ELSE Times(offered, x)
<1>1. offered \in Seq(Entry) /\ \E i \in 1 .. Len(offered) : offered[i] = e
  BY DEF CatalogueInv, CatalogueTypes, ToSet
<1>2. PICK k \in 1 .. Len(offered) : offered[k] = e /\ offered' = RemoveAt(offered, k)
  BY <1>1, RemoveFirstElement
<1>3. offered' \in Seq(Entry)
  BY <1>1, <1>2, RemoveAtElements
<1>4. ASSUME NEW x \in Entry
      PROVE  Times(offered', x) = IF x = e THEN Times(offered, x) - 1 ELSE Times(offered, x)
  BY <1>1, <1>2, TimesRemoved
<1>5. QED
  BY <1>3, <1>4

LEMMA RemoveKeeps ==
  ASSUME CatalogueInv, NEW n \in StoreName, NEW v \in Version, RemoveApp(n, v)
  PROVE  CatalogueInv'
<1> DEFINE e == <<n, v>>
<1>1. e \in Entry /\ e[1] = n /\ e \in ToSet(offered) /\ offered' = RemoveFirst(offered, e)
  BY DEF RemoveApp, Entry
<1>2. \/ UNCHANGED <<uploaded, files>> /\ e \notin ToSet(uploaded)
      \/ /\ e \in ToSet(uploaded) /\ uploaded' = RemoveFirst(uploaded, e)
         /\ files' = RemoveFirst(files, n)
  BY DEF RemoveApp
<1> HIDE DEF e
<1>3. /\ offered' \in Seq(Entry)
      /\ \A x \in Entry : Times(offered', x) = IF x = e THEN Times(offered, x) - 1
                                               ELSE Times(offered, x)
  BY <1>1, OfferedShrinks
<1>4. \A x \in Entry : Times(uploaded, x) \in Nat /\ Times(offered, x) \in Nat
  BY TimesIsNatural DEF CatalogueInv, CatalogueTypes
<1>5. CASE UNCHANGED <<uploaded, files>> /\ e \notin ToSet(uploaded)
  <2>1. \A i \in 1 .. Len(uploaded) : uploaded[i] # e
    BY <1>5 DEF ToSet, CatalogueInv, CatalogueTypes
  <2>2. Times(uploaded, e) = 0 /\ Times(offered, e) # 0
    BY <1>1, <2>1, TimesIsNatural, SMTT(30) DEF CatalogueInv, CatalogueTypes, ToSet
  <2>3. OfferedInv'
    BY <1>1, <1>3, <1>4, <1>5, <2>2 DEF CatalogueInv, OfferedInv
  <2>4. QED
    BY <1>3, <1>5, <2>3 DEF CatalogueInv, CatalogueTypes, NamesInv
<1>6. CASE /\ e \in ToSet(uploaded) /\ uploaded' = RemoveFirst(uploaded, e)
           /\ files' = RemoveFirst(files, n)
  <2>1. uploaded \in Seq(Entry) /\ \E i \in 1 .. Len(uploaded) : uploaded[i] = e
    BY <1>6 DEF CatalogueInv, CatalogueTypes, ToSet
  <2>2. PICK k \in 1 .. Len(uploaded) :
              uploaded[k] = e /\ uploaded' = RemoveAt(uploaded, k)
    BY <1>6, <2>1, RemoveFirstElement
  <2>3. files \in Seq(StoreName) /\ k \in 1 .. Len(files) /\ files[k] = n
        /\ \A i \in 1 .. Len(files) : files[i] = n => i = k
    BY <1>1, <2>2 DEF CatalogueInv, CatalogueTypes, NamesInv
  <2>4. files' = RemoveAt(files, k)
    BY <1>6, <2>3, RemoveFirstElement
  <2>5. /\ uploaded' \in Seq(Entry) /\ Len(uploaded') = Len(uploaded) - 1
        /\ \A j \in 1 .. Len(uploaded) - 1 :
              uploaded'[j] = IF j < k THEN uploaded[j] ELSE uploaded[j + 1]
    BY <2>1, <2>2, RemoveAtElements
  <2>6. /\ files' \in Seq(StoreName) /\ Len(files') = Len(files) - 1
        /\ \A j \in 1 .. Len(files) - 1 :
              files'[j] = IF j < k THEN files[j] ELSE files[j + 1]
    BY <2>3, <2>4, RemoveAtElements
  <2>7. /\ Len(uploaded) \in Nat /\ Len(files) = Len(uploaded)
        /\ \A i \in 1 .. Len(uploaded) : uploaded[i][2] = "1.0"
        /\ \A i \in 1 .. Len(files) : files[i] = uploaded[i][1]
        /\ \A i, j \in 1 .. Len(files) : files[i] = files[j] => i = j
    BY <2>1 DEF CatalogueInv, CatalogueTypes, NamesInv
  <2> DEFINE old(j) == IF j < k THEN j ELSE j + 1
  <2>13. /\ \A j \in 1 .. Len(uploaded) - 1 :
              /\ old(j) \in 1 .. Len(uploaded)
              /\ uploaded'[j] = uploaded[old(j)] /\ files'[j] = files[old(j)]
         /\ \A i, j \in 1 .. Len(uploaded) - 1 : old(i) = old(j) => i = j
    BY <2>5, <2>6, <2>7
  <2> HIDE DEF old
  <2>8. CatalogueTypes'
    BY <1>3, <2>5, <2>6, <2>7, <2>13 DEF CatalogueTypes
  <2>15. ASSUME NEW i \in 1 .. Len(uploaded) - 1
         PROVE  files'[i] = uploaded'[i][1]
    BY <2>7, <2>13
  <2>16. ASSUME NEW i \in 1 .. Len(uploaded) - 1, NEW j \in 1 .. Len(uploaded) - 1,
                files'[i] = files'[j]
         PROVE  i = j
    BY <2>7, <2>13, <2>16
  <2>9. NamesInv'
    BY <2>5, <2>6, <2>7, <2>15, <2>16 DEF NamesInv
  <2>10. \A x \in Entry : Times(uploaded', x) = IF x = e THEN Times(uploaded, x) - 1
                                                ELSE Times(uploaded, x)
    BY <2>1, <2>2, TimesRemoved
  <2>14. ASSUME NEW x \in Entry
         PROVE  Times(uploaded', x) <= Times(offered', x)
    BY <1>3, <1>4, <2>10 DEF CatalogueInv, OfferedInv
  <2>11. OfferedInv'
    BY <2>14 DEF OfferedInv
  <2>12. QED
    BY <2>8, <2>9, <2>11 DEF CatalogueInv
<1>7. QED
  BY <1>2, <1>5, <1>6

\* What was uploaded is offered as often as it is listed, and the three lists of it
\* agree, whatever is uploaded, added and removed, in whatever order.
THEOREM UploadsStayOffered == CatalogueSpec => []UploadedIsOffered
<1>1. ASSUME CatalogueInv, [CatalogueNext]_catalogueVars
      PROVE  CatalogueInv'
  <2>1. CASE UNCHANGED catalogueVars
    BY <1>1, <2>1 DEF catalogueVars, CatalogueInv, CatalogueTypes, NamesInv, OfferedInv
  <2>2. CASE CatalogueNext
    BY <1>1, <2>2, UploadKeeps, AddKeeps, RemoveKeeps DEF CatalogueNext
  <2>3. QED
    BY <1>1, <2>1, <2>2
<1>2. ASSUME CatalogueInv
      PROVE  UploadedIsOffered
  <2>1. files = [i \in 1 .. Len(uploaded) |-> uploaded[i][1]]
    BY <1>2 DEF CatalogueInv, CatalogueTypes, NamesInv
  <2>2. ToSet(uploaded) \subseteq Entry
    BY <1>2 DEF CatalogueInv, CatalogueTypes, ToSet
  <2>3. QED
    BY <1>2, <2>1, <2>2 DEF CatalogueInv, OfferedInv, UploadedIsOffered, Times, Places
<1>3. QED
  BY CatalogueStarts, <1>1, <1>2, PTL DEF CatalogueSpec

-----------------------------------------------------------------------------
(* The server of the application store (AppStore).  As long as no device   *)
(* publishes, what is on the wire of a device is the command the server    *)
(* waits for, or the answer to it, behind the rest of one message at most  *)
(* that was given up: WireInv.  That is why the next message is the answer *)
(* to the command of the view the server works for.  TraceInv is what that *)
(* rest is the rest of, and GarbageInv what has garbled an answer.         *)

StoreMessage == [of : Nat, is : {"whole", "start", "rest"}]
AskedOp      == {"query", "install", "uninstall"}
Link         == {"absent", "knocking", "open", "hung up", "closed"}
ViewAt       == {"idle", "asked", "served", "queued", "told", "left", "forgotten"}
ServerState  == [at : {"select", "read", "all", "dead"}, on : Device \cup {""},
                 for : View \cup {"accept", ""}, all : Nat]
ViewState    == [at : ViewAt, op : AskedOp \cup {"query all", ""}, on : Device \cup {""}]
Outcomes     == [kind : {"none", "fail", "list", "reply", "garbage"}, of : Nat, behind : Nat]
CommandSent  == [op : AskedOp, on : Device]

WireTypes ==
  /\ link \in [Device -> Link] /\ news \in Nat
  /\ toDevice \in [Device -> Seq(Nat)] /\ fromDevice \in [Device -> Seq(StoreMessage)]
ServerTypes ==
  /\ devices \in Seq(Device) /\ connDict \subseteq Device
  /\ commands \in Seq(CommandSent)
  /\ server \in ServerState /\ (server.at = "all" => server.all # 0)
ViewTypes ==
  /\ view \in [View -> ViewState] /\ outcome \in [View -> Outcomes]
  /\ \A v \in View : view[v].at = "asked" => view[v].op # ""

\* The server reads from a device, for a view that waits for what was sent last, for
\* one that asked for all devices, or to accept the device.
Serves(v) == server.at = "read" /\ server.for = v /\ server.all = 0

ReadingInv ==
  /\ server.at = "read" => /\ server.on \in Device /\ commands # <<>>
                           /\ commands[Current].on = server.on
  /\ \A v \in View :
       Serves(v) => /\ view[v].at = "served" /\ view[v].op = commands[Current].op
                    /\ view[v].on = commands[Current].on

Reading(d) == server.at = "read" /\ server.on = d

\* The messages of a device fit the command the server reads the answer to, if it reads
\* from that device: there is one of them, or the command, behind a rest.
Fits(from, to, reading, id) ==
  /\ \A i \in 1 .. Len(from) :
       \/ i = 1 /\ from[i].is = "rest"
       \/ reading /\ from[i].is # "rest" /\ from[i].of = id
  /\ \A i \in 1 .. Len(to) : reading /\ to[i] = id
  /\ Len(from) + Len(to) <= IF from # <<>> /\ from[1].is = "rest" THEN 2 ELSE 1

WireOf(d) ==
  /\ Fits(fromDevice[d], toDevice[d], Reading(d), Current)
  /\ link[d] = "hung up" => toDevice[d] = <<>>

WireInv == news = 0 => \A d \in Device : WireOf(d)

\* Something came back from a device.
Answered(o) == o.kind \in {"reply", "garbage"}

ReplyInv ==
  news = 0 =>
    \A v \in View : Answered(outcome[v]) =>
      /\ outcome[v].of \in 1 .. Len(commands)
      /\ commands[outcome[v].of].op = view[v].op
      /\ commands[outcome[v].of].on = view[v].on

StoreTyped == WireTypes /\ ServerTypes /\ ViewTypes
StoreInv   == StoreTyped /\ ReadingInv /\ WireInv /\ ReplyInv

-----------------------------------------------------------------------------
(* What the steps leave alone.                                             *)

\* A step that leaves the wires and the commands alone and neither begins nor ends to
\* read, while no view is told a reply and those it could be for ask what they asked.
LEMMA StoreQuiet ==
  ASSUME StoreInv, UNCHANGED <<wireVars, commands>>,
         ServerTypes', ViewTypes',
         UNCHANGED server \/ (server.at # "read" /\ server'.at # "read"),
         \A v \in View :
           /\ outcome'[v] = outcome[v] \/ ~Answered(outcome'[v])
           /\ (view'[v].op = view[v].op /\ view'[v].on = view[v].on) \/ ~Answered(outcome'[v])
           /\ Serves(v)' => view'[v] = view[v]
  PROVE  StoreInv'
<1>1. StoreTyped'
  BY DEF StoreInv, StoreTyped, WireTypes, wireVars
<1>2. ReadingInv'
  BY DEF StoreInv, ReadingInv, Serves, Current
<1>3. WireInv'
  <2>1. \A d \in Device : Reading(d)' = Reading(d)
    BY DEF Reading
  <2>2. ASSUME news = 0, NEW d \in Device
        PROVE  WireOf(d)'
    <3>1. WireOf(d)
      BY <2>2 DEF StoreInv, WireInv
    <3>2. QED
      BY <2>1, <3>1 DEF WireOf, Current, wireVars
  <2>3. QED
    BY <2>2 DEF WireInv, wireVars
<1>4. ReplyInv'
  BY DEF StoreInv, ReplyInv, wireVars
<1>5. QED
  BY <1>1, <1>2, <1>3, <1>4 DEF StoreInv

LEMMA LastCommand ==
  ASSUME StoreInv, commands # <<>>
  PROVE  Current \in 1 .. Len(commands) /\ commands[Current] \in CommandSent
<1>1. commands \in Seq(CommandSent) /\ Len(commands) \in Nat /\ Len(commands) # 0
  BY DEF StoreInv, StoreTyped, ServerTypes
<1>2. QED
  BY <1>1 DEF Current

-----------------------------------------------------------------------------
(* What fits on a wire.                                                    *)

LEMMA AppendToNothing ==
  ASSUME NEW n \in Nat
  PROVE  Append(<<>>, n) = <<n>>
OBVIOUS

LEMMA OneMore ==
  ASSUME NEW n \in Nat
  PROVE  n + 1 \in Nat /\ n + 1 \in 1 .. n + 1 /\ \A k \in 1 .. n : k \in 1 .. n + 1
OBVIOUS

LEMMA ShorterThanTwo ==
  ASSUME NEW n \in Nat, ~(2 \in 1 .. n)
  PROVE  n = 0 \/ n = 1
OBVIOUS

LEMMA FitsNothing ==
  ASSUME NEW reading, NEW id
  PROVE  Fits(<<>>, <<>>, reading, id)
BY DEF Fits

\* What was sent when the server did not read fits any command.
LEMMA FitsIdle ==
  ASSUME NEW from \in Seq(StoreMessage), NEW to \in Seq(Nat), NEW id,
         Fits(from, to, FALSE, id)
  PROVE  /\ to = <<>> /\ \A reading, other : Fits(from, to, reading, other)
         /\ \A other \in Nat : Fits(from, <<other>>, TRUE, other)
<1>1. Len(to) \in Nat /\ ~(1 \in 1 .. Len(to))
  BY DEF Fits
<1>2. to = <<>>
  BY <1>1
<1>3. from = <<>> \/ (Len(from) = 1 /\ from # <<>> /\ from[1].is = "rest")
  <2>1. Len(from) \in Nat /\ \A i \in 1 .. Len(from) : i = 1 /\ from[i].is = "rest"
    BY DEF Fits
  <2>2. Len(from) = 0 \/ Len(from) = 1
    <3>1. ~(2 \in 1 .. Len(from))
      BY <2>1
    <3>2. Len(from) \in Nat
      OBVIOUS
    <3>3. QED
      BY <3>1, <3>2, ShorterThanTwo
  <2>3. from = <<>> <=> Len(from) = 0
    OBVIOUS
  <2>4. CASE Len(from) = 1
    <3>1. 1 \in 1 .. Len(from)
      BY <2>4
    <3>2. QED
      BY <2>1, <2>3, <2>4, <3>1
  <2>5. QED
    BY <2>2, <2>3, <2>4
<1>4. QED
  BY <1>2, <1>3 DEF Fits

LEMMA FitsShorter ==
  ASSUME NEW from \in Seq(StoreMessage), NEW to \in Seq(Nat), NEW reading, NEW id,
         Fits(from, to, reading, id)
  PROVE  Fits(from, <<>>, reading, id)
<1>1. Len(from) \in Nat /\ Len(to) \in Nat /\ Len(<<>>) = 0
  OBVIOUS
<1>2. Len(from) + 0 <= Len(from) + Len(to)
  BY <1>1
<1>3. Len(from) + Len(to) <= IF from # <<>> /\ from[1].is = "rest" THEN 2 ELSE 1
  BY DEF Fits
<1>4. Len(from) + 0 <= IF from # <<>> /\ from[1].is = "rest" THEN 2 ELSE 1
  BY <1>1, <1>2, <1>3
<1>5. QED
  BY <1>1, <1>4 DEF Fits

\* The device answers, with all of a message or a part of it.
LEMMA FitsAnswer ==
  ASSUME NEW from \in Seq(StoreMessage), NEW to \in Seq(Nat), to # <<>>,
         NEW reading \in BOOLEAN, NEW id, Fits(from, to, reading, id),
         NEW m \in StoreMessage, m.of = Head(to), m.is # "rest"
  PROVE  /\ Fits(Append(from, m), Tail(to), reading, id)
         /\ Fits(Append(from, m), <<>>, reading, id)
<1>1. /\ Len(from) \in Nat /\ Len(to) \in Nat /\ Len(to) # 0 /\ 1 \in 1 .. Len(to)
      /\ Head(to) = to[1] /\ Len(Tail(to)) = Len(to) - 1 /\ Tail(to) \in Seq(Nat)
      /\ \A i \in 1 .. Len(to) - 1 : Tail(to)[i] = to[i + 1] /\ i + 1 \in 1 .. Len(to)
      /\ Append(from, m) \in Seq(StoreMessage) /\ Append(from, m) # <<>>
      /\ Len(Append(from, m)) = Len(from) + 1
      /\ \A i \in 1 .. Len(from) + 1 :
            Append(from, m)[i] = IF i = Len(from) + 1 THEN m ELSE from[i]
  <2>1. /\ Len(from) \in Nat /\ Append(from, m) \in Seq(StoreMessage)
        /\ Append(from, m) # <<>> /\ Len(Append(from, m)) = Len(from) + 1
        /\ \A i \in 1 .. Len(from) + 1 :
              Append(from, m)[i] = IF i = Len(from) + 1 THEN m ELSE from[i]
    OBVIOUS
  <2>2. Len(to) \in Nat /\ Len(to) # 0 /\ Head(to) = to[1]
    OBVIOUS
  <2>3. /\ Len(Tail(to)) = Len(to) - 1 /\ Tail(to) \in Seq(Nat)
        /\ \A i \in 1 .. Len(to) - 1 : Tail(to)[i] = to[i + 1]
    OBVIOUS
  <2>4. 1 \in 1 .. Len(to) /\ \A i \in 1 .. Len(to) - 1 : i + 1 \in 1 .. Len(to)
    BY <2>2
  <2>5. QED
    BY <2>1, <2>2, <2>3, <2>4
<1>2. reading /\ m.of = id
  BY <1>1 DEF Fits
<1>3. Len(from) # 0 => from # <<>> /\ Append(from, m)[1] = from[1]
  BY <1>1
<1>4. from # <<>> => Len(from) # 0
  BY <1>1
<1>5. \A i \in 1 .. Len(from) + 1 :
         \/ i = 1 /\ Append(from, m)[i].is = "rest"
         \/ reading /\ Append(from, m)[i].is # "rest" /\ Append(from, m)[i].of = id
  <2> SUFFICES ASSUME NEW i \in 1 .. Len(from) + 1
               PROVE  \/ i = 1 /\ Append(from, m)[i].is = "rest"
                      \/ reading /\ Append(from, m)[i].is # "rest" /\ Append(from, m)[i].of = id
    OBVIOUS
  <2>1. CASE i = Len(from) + 1
    BY <1>1, <1>2, <2>1
  <2>2. CASE i # Len(from) + 1
    <3>1. i \in 1 .. Len(from) /\ Append(from, m)[i] = from[i]
      BY <1>1, <2>2
    <3>2. QED
      BY <3>1 DEF Fits
  <2>3. QED
    BY <2>1, <2>2
<1>6. \A i \in 1 .. Len(Tail(to)) : reading /\ Tail(to)[i] = id
  BY <1>1, <1>2 DEF Fits
<1>7. Len(from) + Len(to) <= IF from # <<>> /\ from[1].is = "rest" THEN 2 ELSE 1
  BY DEF Fits
<1>8. Len(from) + Len(to) <=
        IF Append(from, m) # <<>> /\ Append(from, m)[1].is = "rest" THEN 2 ELSE 1
  BY <1>1, <1>3, <1>4, <1>7
<1>9. Len(<<>>) = 0 /\ Len(from) + 1 + 0 <= Len(from) + Len(to)
  BY <1>1
<1>10. QED
  BY <1>1, <1>5, <1>6, <1>8, <1>9 DEF Fits

\* A device leaves the list.
LEMMA UnlistedType ==
  ASSUME ServerTypes, NEW d
  PROVE  Unlisted(d) \in Seq(Device)
BY RemoveFirstElement, RemoveAtElements DEF ServerTypes, Unlisted

\* A view moves on, with what it asked and what it is told.
LEMMA Queued ==
  ASSUME ViewTypes, NEW v, NEW what \in Outcomes, Queue(v, what)
  PROVE  /\ ViewTypes'
         /\ \A w \in View : /\ view'[w].op = view[w].op /\ view'[w].on = view[w].on
                            /\ outcome'[w] = IF w = v THEN what ELSE outcome[w]
<1>1. ASSUME NEW w \in View
      PROVE  /\ view'[w] \in ViewState /\ view'[w].op = view[w].op
             /\ view'[w].on = view[w].on /\ (view'[w].at = "asked" => view[w].at = "asked")
             /\ outcome'[w] = IF w = v THEN what ELSE outcome[w]
  BY DEF Queue, ViewTypes, ViewState, ViewAt
<1>2. DOMAIN view' = View /\ DOMAIN outcome' = View
  BY DEF Queue, ViewTypes
<1>3. view' = [w \in View |-> view'[w]] /\ outcome' = [w \in View |-> outcome'[w]]
  BY DEF Queue, ViewTypes
<1>4. QED
  BY <1>1, <1>2, <1>3 DEF ViewTypes

-----------------------------------------------------------------------------
(* The views, and the commands that are not sent.                          *)

LEMMA StoreViews ==
  ASSUME StoreInv, NEW v \in View,
         \/ \E op \in ViewOp, d \in Device : AskFor(v, op, d)
         \/ AskFor(v, "query all", "") \/ GiveUp(v) \/ TellView(v) \/ DropView(v)
  PROVE  StoreInv'
<1>1. UNCHANGED <<wireVars, devices, connDict, commands, server>>
  BY DEF AskFor, GiveUp, TellView, DropView, ViewFrame
<1>2. view \in [View -> ViewState] /\ outcome \in [View -> Outcomes] /\ NoOutcome \in Outcomes
  BY DEF StoreInv, StoreTyped, ViewTypes, NoOutcome, Outcomes
<1>6. ~Serves(v)
  <2>1. server.at = "read" => commands[Current].op # "query all"
    BY LastCommand DEF StoreInv, CommandSent, AskedOp, ReadingInv
  <2>2. \/ server.at # "read" \/ view[v].at = "idle" \/ view[v].op = "query all"
    BY DEF AskFor, GiveUp, TellView, DropView
  <2>3. QED
    BY <2>1, <2>2 DEF Serves, StoreInv, ReadingInv
<1>7. ~Serves(v)' /\ \A w \in View : Serves(w)' = Serves(w)
  BY <1>1, <1>6 DEF Serves
<1>3. CASE GiveUp(v) \/ TellView(v)
  <2>1. \E at \in ViewAt \ {"asked"} : view' = [view EXCEPT ![v].at = at] /\ UNCHANGED outcome
    BY <1>3 DEF GiveUp, TellView, ViewAt
  <2>2. /\ view'[v].at # "asked" /\ view' \in [View -> ViewState] /\ \A w \in View : w # v => view'[w] = view[w]
        /\ view'[v].op = view[v].op /\ view'[v].on = view[v].on
    <3>1. PICK at \in ViewAt \ {"asked"} : view' = [view EXCEPT ![v].at = at]
      BY <2>1
    <3>2. [view[v] EXCEPT !.at = at] \in ViewState
      BY <1>2 DEF ViewState
    <3>3. view' = [view EXCEPT ![v] = [view[v] EXCEPT !.at = at]]
      BY <3>1
    <3>4. view' \in [View -> ViewState] /\ view'[v] = [view[v] EXCEPT !.at = at]
          /\ \A w \in View : w # v => view'[w] = view[w]
      BY <1>2, <3>2, <3>3
    <3>5. view[v] \in ViewState
      BY <1>2
    <3>6. QED
      BY <3>4, <3>5 DEF ViewState
  <2>3. ViewTypes' /\ ServerTypes'
    BY <1>1, <1>2, <2>1, <2>2 DEF ViewTypes, StoreInv, StoreTyped, ServerTypes
  <2>4. QED
    BY <1>1, <1>7, <2>1, <2>2, <2>3, StoreQuiet
<1>4. ASSUME NEW new \in ViewState, view' = [view EXCEPT ![v] = new],
             outcome' = [outcome EXCEPT ![v] = NoOutcome], new.at = "asked" => new.op # ""
      PROVE  StoreInv'
  <2>1. \A w \in View : w # v => view'[w] = view[w] /\ outcome'[w] = outcome[w]
    BY <1>2, <1>4
  <2>2. ~Answered(outcome'[v])
    BY <1>2, <1>4 DEF NoOutcome, Answered
  <2>3. ViewTypes' /\ ServerTypes'
    BY <1>1, <1>2, <1>4 DEF ViewTypes, StoreInv, StoreTyped, ServerTypes
  <2>4. QED
    BY <1>1, <1>7, <2>1, <2>2, <2>3, StoreQuiet
<1>5. ASSUME NEW op \in AskedOp \cup {"query all"}, NEW d \in Device \cup {""}, AskFor(v, op, d)
      PROVE  StoreInv'
  <2>1. [at |-> "asked", op |-> op, on |-> d] \in ViewState /\ op # ""
    BY DEF ViewState, ViewAt, AskedOp
  <2>2. QED
    BY <1>4, <1>5, <2>1 DEF AskFor
<1>8. CASE DropView(v)
  <2>1. [at |-> "idle", op |-> "", on |-> ""] \in ViewState
    BY DEF ViewState, ViewAt
  <2>2. QED
    BY <1>4, <1>8, <2>1 DEF DropView
<1>9. ViewOp \subseteq AskedOp
  BY StoreAssumption DEF AskedOp
<1>10. QED
  BY <1>3, <1>5, <1>8, <1>9

LEMMA StoreCommandFails ==
  ASSUME StoreInv, NEW v \in View,
         CommandFails(v) \/ CommandUnknown(v) \/ StartAll(v)
  PROVE  StoreInv'
<1>1. /\ UNCHANGED <<wireVars, connDict, commands>>
      /\ server.at # "read" /\ server'.at # "read"
      /\ \A w \in View : ~Serves(w)'
  <2>1. CASE CommandFails(v) \/ CommandUnknown(v)
    BY <2>1 DEF CommandFails, CommandUnknown, Serves
  <2>2. CASE StartAll(v)
    BY <2>2 DEF StartAll, Serves
  <2>3. QED
    BY <2>1, <2>2
<1>2. ServerTypes /\ ViewTypes
  BY DEF StoreInv, StoreTyped
<1>3. ServerTypes'
  <2>1. devices' \in Seq(Device)
    BY <1>2, UnlistedType DEF CommandFails, CommandUnknown, StartAll, CannotSend, ServerTypes
  <2>2. server' \in ServerState /\ (server'.at = "all" => server'.all # 0)
    <3>1. [at |-> "all", on |-> "", for |-> v, all |-> 1] \in ServerState
      BY DEF ServerState
    <3>2. QED
      <4>1. CASE CommandFails(v) \/ CommandUnknown(v)
        BY <1>2, <4>1 DEF CommandFails, CommandUnknown, ServerTypes
      <4>2. CASE StartAll(v)
        <5>1. server' = [at |-> "all", on |-> "", for |-> v, all |-> 1]
          BY <4>2 DEF StartAll
        <5>2. server'.all = 1
          BY <5>1
        <5>4. server' \in ServerState
          BY <3>1, <5>1
        <5>3. QED
          BY <5>2, <5>4
      <4>3. QED
        BY <4>1, <4>2
  <2>3. QED
    BY <1>1, <1>2, <2>1, <2>2 DEF ServerTypes
<1>4. Told("fail", 0) \in Outcomes /\ Told("list", 0) \in Outcomes
  BY DEF Told, Outcomes
<1>5. CASE Queue(v, Told("fail", 0))
  <2>1. /\ ViewTypes'
        /\ \A w \in View : /\ view'[w].op = view[w].op /\ view'[w].on = view[w].on
                           /\ outcome'[w] = IF w = v THEN Told("fail", 0) ELSE outcome[w]
    BY <1>2, <1>4, <1>5, Queued
  <2>2. \A w \in View : outcome'[w] = outcome[w] \/ ~Answered(outcome'[w])
    BY <2>1 DEF Told, Answered
  <2>3. QED
    BY <1>1, <1>3, <2>1, <2>2, StoreQuiet
<1>6. CASE /\ \E at \in ViewAt \ {"asked"} : view' = [view EXCEPT ![v].at = at]
           /\ outcome' = outcome \/ outcome' = [outcome EXCEPT ![v] = Told("list", 0)]
  <2>5. PICK at \in ViewAt \ {"asked"} : view' = [view EXCEPT ![v].at = at]
    BY <1>6
  <2>6. view \in [View -> ViewState] /\ view[v] \in ViewState
    BY <1>2 DEF ViewTypes
  <2>7. [view[v] EXCEPT !.at = at] \in ViewState
    BY <2>6 DEF ViewState
  <2>1. /\ view' \in [View -> ViewState]
        /\ \A w \in View : /\ view'[w].op = view[w].op /\ view'[w].on = view[w].on
                           /\ view'[w].at = "asked" => view[w].at = "asked"
    BY <2>5, <2>6, <2>7 DEF ViewState
  <2>2. /\ outcome' \in [View -> Outcomes]
        /\ \A w \in View : outcome'[w] = outcome[w] \/ outcome'[w] = Told("list", 0)
    BY <1>2, <1>4, <1>6 DEF ViewTypes
  <2>3. \A w \in View : outcome'[w] = outcome[w] \/ ~Answered(outcome'[w])
    BY <2>2 DEF Told, Answered
  <2>4. ViewTypes'
    BY <1>2, <2>1, <2>2 DEF ViewTypes
  <2>8. QED
    BY <1>1, <1>3, <2>1, <2>3, <2>4, StoreQuiet
<1>7. \/ Queue(v, Told("fail", 0))
      \/ /\ \E at \in ViewAt \ {"asked"} : view' = [view EXCEPT ![v].at = at]
         /\ outcome' = outcome \/ outcome' = [outcome EXCEPT ![v] = Told("list", 0)]
  <2>1. CASE CommandFails(v)
    BY <2>1 DEF CommandFails
  <2>2. CASE CommandUnknown(v)
    BY <2>2 DEF CommandUnknown, ViewAt
  <2>3. CASE StartAll(v)
    <3>1. /\ view' = [view EXCEPT ![v].at = IF view[v].at = "left" THEN "left" ELSE "served"]
          /\ outcome' = [outcome EXCEPT ![v] = Told("list", 0)]
      BY <2>3 DEF StartAll
    <3>2. (IF view[v].at = "left" THEN "left" ELSE "served") \in ViewAt \ {"asked"}
      BY DEF ViewAt
    <3>3. QED
      BY <3>1, <3>2
  <2>4. QED
    BY <2>1, <2>2, <2>3
<1>8. QED
  BY <1>5, <1>6, <1>7

LEMMA StoreEndsAll ==
  ASSUME StoreInv, NextOfAllFails \/ EndOfAll
  PROVE  StoreInv'
<1>1. /\ UNCHANGED <<wireVars, connDict, commands>>
      /\ server.at # "read" /\ server'.at # "read"
      /\ \A w \in View : ~Serves(w)'
  <2>1. CASE NextOfAllFails
    BY <2>1 DEF NextOfAllFails, Serves, StoreInv, StoreTyped, ServerTypes, ServerState
  <2>2. CASE EndOfAll
    BY <2>2 DEF EndOfAll, Serves, Selecting
  <2>3. QED
    BY <2>1, <2>2
<1>2. ServerTypes /\ ViewTypes
  BY DEF StoreInv, StoreTyped
<1>3. ServerTypes'
  <2>1. devices' \in Seq(Device)
    BY <1>2, UnlistedType DEF NextOfAllFails, EndOfAll, CannotSend, ServerTypes
  <2>2. server' \in ServerState /\ (server'.at = "all" => server'.all # 0)
    <3>1. Selecting \in ServerState /\ Selecting.at # "all"
      BY DEF ServerState, Selecting
    <3>2. QED
      <4>1. CASE NextOfAllFails
        <5>1. server \in ServerState /\ server' = [server EXCEPT !.all = @ + 1]
          BY <1>2, <4>1 DEF NextOfAllFails, ServerTypes
        <5>0. server.all \in Nat
          BY <5>1 DEF ServerState
        <5>2. server.all + 1 \in Nat
          BY <5>0
        <5>4. server.all + 1 # 0
          BY <5>0
        <5>3. QED
          BY <5>1, <5>2, <5>4 DEF ServerState
      <4>2. CASE EndOfAll
        BY <3>1, <4>2 DEF EndOfAll
      <4>3. QED
        BY <4>1, <4>2
  <2>3. QED
    BY <1>1, <1>2, <2>1, <2>2 DEF ServerTypes
<1>4. CASE NextOfAllFails
  BY <1>1, <1>2, <1>3, <1>4, StoreQuiet DEF NextOfAllFails, ViewTypes
<1>5. CASE EndOfAll
  <2>1. Queue(server.for, outcome[server.for])
    BY <1>5 DEF EndOfAll
  <2>2. CASE server.for \in View
    <3>1. outcome[server.for] \in Outcomes
      BY <1>2, <2>2 DEF ViewTypes
    <3>2. QED
      BY <1>1, <1>2, <1>3, <2>1, <3>1, Queued, StoreQuiet
  <2>3. CASE server.for \notin View
    <3>1. UNCHANGED <<view, outcome>>
      BY <1>2, <2>1, <2>3 DEF Queue, ViewTypes
    <3>2. QED
      BY <1>1, <1>2, <1>3, <3>1, StoreQuiet DEF ViewTypes
  <2>4. QED
    BY <2>2, <2>3
<1>6. QED
  BY <1>4, <1>5

-----------------------------------------------------------------------------
(* The devices.                                                            *)

\* A step that changes the wire of one device, which fits the server behind it too.
LEMMA StoreWire ==
  ASSUME StoreInv, NEW d \in Device, WireTypes', ServerTypes',
         UNCHANGED <<commands, view, outcome>>,
         news = 0 \/ news' # 0,
         \A e \in Device : e # d =>
           link'[e] = link[e] /\ toDevice'[e] = toDevice[e] /\ fromDevice'[e] = fromDevice[e],
         UNCHANGED server \/ (server.at # "read" /\ server'.at # "read"),
         news' = 0 => WireOf(d)'
  PROVE  StoreInv'
<1>1. StoreTyped'
  BY DEF StoreInv, StoreTyped, ViewTypes
<1>2. ReadingInv'
  BY DEF StoreInv, ReadingInv, Serves, Current
<1>3. WireInv'
  <2>1. \A e \in Device : Reading(e)' = Reading(e)
    BY DEF Reading
  <2>2. ASSUME news' = 0, NEW e \in Device, e # d
        PROVE  WireOf(e)'
    <3>1. WireOf(e)
      BY <2>2 DEF StoreInv, WireInv
    <3>2. QED
      BY <2>1, <2>2, <3>1 DEF WireOf, Current
  <2>3. QED
    BY <2>2 DEF WireInv
<1>4. ReplyInv'
  BY DEF StoreInv, ReplyInv
<1>5. QED
  BY <1>1, <1>2, <1>3, <1>4 DEF StoreInv

LEMMA WireElements ==
  ASSUME StoreInv, NEW d \in Device
  PROVE  /\ link[d] \in Link /\ toDevice[d] \in Seq(Nat) /\ fromDevice[d] \in Seq(StoreMessage)
         /\ Len(toDevice[d]) \in Nat /\ Len(fromDevice[d]) \in Nat
         /\ toDevice[d] # <<>> => Head(toDevice[d]) \in Nat /\ Tail(toDevice[d]) \in Seq(Nat)
         /\ fromDevice[d] # <<>> => Head(fromDevice[d]) \in StoreMessage
<1>1. /\ link[d] \in Link /\ toDevice[d] \in Seq(Nat) /\ fromDevice[d] \in Seq(StoreMessage)
  BY DEF StoreInv, StoreTyped, WireTypes
<1>2. QED
  BY <1>1

LEMMA StoreConnects ==
  ASSUME StoreInv, NEW d \in Device, DeviceConnects(d)
  PROVE  StoreInv'
<1>1. /\ link[d] = "absent" /\ link' = [link EXCEPT ![d] = "knocking"]
      /\ UNCHANGED <<toDevice, fromDevice, news, devices, connDict, commands, server, view, outcome>>
  BY DEF DeviceConnects, DeviceFrame
<1>2. WireTypes' /\ ServerTypes' /\ link'[d] = "knocking"
      /\ \A e \in Device : e # d => link'[e] = link[e]
  BY <1>1 DEF StoreInv, StoreTyped, WireTypes, ServerTypes, Link
<1>3. news' = 0 => WireOf(d)'
  BY <1>1, <1>2 DEF StoreInv, WireInv, WireOf, Reading, Current
<1>4. QED
  BY <1>1, <1>2, <1>3, StoreWire

LEMMA StoreAnswers ==
  ASSUME StoreInv, NEW d \in Device, DeviceAnswers(d)
  PROVE  StoreInv'
<1> DEFINE m == [of |-> Head(toDevice[d]), is |-> "whole"]
<1>1. /\ link[d] = "open" /\ toDevice[d] # <<>>
      /\ toDevice' = [toDevice EXCEPT ![d] = Tail(toDevice[d])]
      /\ fromDevice' = [fromDevice EXCEPT ![d] = Append(fromDevice[d], m)]
      /\ UNCHANGED <<link, news, devices, connDict, commands, server, view, outcome>>
  BY DEF DeviceAnswers, DeviceFrame
<1>2. /\ toDevice[d] \in Seq(Nat) /\ fromDevice[d] \in Seq(StoreMessage)
      /\ Tail(toDevice[d]) \in Seq(Nat) /\ m \in StoreMessage
      /\ m.of = Head(toDevice[d]) /\ m.is # "rest"
  BY <1>1, WireElements DEF StoreMessage
<1> HIDE DEF m
<1>3. Append(fromDevice[d], m) \in Seq(StoreMessage)
  BY <1>2
<1>4. /\ WireTypes' /\ ServerTypes'
      /\ toDevice'[d] = Tail(toDevice[d]) /\ fromDevice'[d] = Append(fromDevice[d], m)
      /\ \A e \in Device : e # d => toDevice'[e] = toDevice[e] /\ fromDevice'[e] = fromDevice[e]
  BY <1>1, <1>2, <1>3 DEF StoreInv, StoreTyped, WireTypes, ServerTypes
<1>5. ASSUME news' = 0
      PROVE  WireOf(d)'
  <2>1. Fits(fromDevice[d], toDevice[d], Reading(d), Current) /\ Reading(d) \in BOOLEAN
    BY <1>1, <1>5 DEF StoreInv, WireInv, WireOf, Reading
  <2>2. Fits(Append(fromDevice[d], m), Tail(toDevice[d]), Reading(d), Current)
    BY <1>1, <1>2, <2>1, FitsAnswer
  <2>3. Reading(d)' = Reading(d) /\ Current' = Current /\ link'[d] = "open"
    BY <1>1 DEF Reading, Current
  <2>4. QED
    BY <1>4, <2>2, <2>3 DEF WireOf
<1>6. QED
  BY <1>1, <1>4, <1>5, StoreWire

LEMMA StorePublishes ==
  ASSUME StoreInv, NEW d \in Device, DevicePublishes(d)
  PROVE  StoreInv'
<1>1. /\ [of |-> Event, is |-> "whole"] \in StoreMessage
      /\ fromDevice[d] \in Seq(StoreMessage)
  BY WireElements DEF StoreMessage, Event
<1>2. Append(fromDevice[d], [of |-> Event, is |-> "whole"]) \in Seq(StoreMessage)
  BY <1>1
<1>3. /\ news' = news + 1 /\ news \in Nat
      /\ UNCHANGED <<link, toDevice, devices, connDict, commands, server, view, outcome>>
      /\ fromDevice' = [fromDevice EXCEPT ![d] =
                          Append(fromDevice[d], [of |-> Event, is |-> "whole"])]
  BY DEF DevicePublishes, DeviceFrame, StoreInv, StoreTyped, WireTypes
<1>4. /\ WireTypes' /\ ServerTypes'
      /\ \A e \in Device : e # d => fromDevice'[e] = fromDevice[e]
  BY <1>2, <1>3 DEF StoreInv, StoreTyped, WireTypes, ServerTypes
<1>5. QED
  BY <1>3, <1>4, StoreWire

LEMMA StoreHangsUp ==
  ASSUME StoreInv, NEW d \in Device, NEW cut \in BOOLEAN, DeviceHangsUp(d, cut)
  PROVE  StoreInv'
<1> DEFINE m == [of |-> Head(toDevice[d]), is |-> "start"]
           new == IF cut THEN Append(fromDevice[d], m) ELSE fromDevice[d]
<1>1. /\ cut => toDevice[d] # <<>>
      /\ link' = [link EXCEPT ![d] = "hung up"] /\ toDevice' = [toDevice EXCEPT ![d] = <<>>]
      /\ UNCHANGED <<news, devices, connDict, commands, server, view, outcome>>
      /\ fromDevice' = [fromDevice EXCEPT ![d] = new]
  BY DEF DeviceHangsUp, DeviceFrame, StoreInv, StoreTyped, WireTypes
<1>2. /\ fromDevice[d] \in Seq(StoreMessage) /\ toDevice[d] \in Seq(Nat)
      /\ Len(fromDevice[d]) \in Nat /\ Len(toDevice[d]) \in Nat
  BY WireElements
<1>3. cut => m \in StoreMessage /\ m.of = Head(toDevice[d]) /\ m.is # "rest"
  BY <1>1, WireElements DEF StoreMessage
<1> HIDE DEF m
<1>4. new \in Seq(StoreMessage)
  BY <1>2, <1>3
<1> HIDE DEF new
<1>5. /\ WireTypes' /\ ServerTypes'
      /\ link'[d] = "hung up" /\ toDevice'[d] = <<>> /\ fromDevice'[d] = new
      /\ \A e \in Device : e # d =>
           link'[e] = link[e] /\ toDevice'[e] = toDevice[e] /\ fromDevice'[e] = fromDevice[e]
  <2>1. /\ link \in [Device -> Link] /\ news \in Nat /\ ServerTypes
        /\ toDevice \in [Device -> Seq(Nat)] /\ fromDevice \in [Device -> Seq(StoreMessage)]
    BY DEF StoreInv, StoreTyped, WireTypes
  <2>2. <<>> \in Seq(Nat) /\ "hung up" \in Link
    BY DEF Link
  <2>3. link' \in [Device -> Link] /\ toDevice' \in [Device -> Seq(Nat)]
        /\ fromDevice' \in [Device -> Seq(StoreMessage)]
    BY <1>1, <1>4, <2>1, <2>2
  <2>4. /\ link'[d] = "hung up" /\ toDevice'[d] = <<>> /\ fromDevice'[d] = new
        /\ \A e \in Device : e # d =>
             link'[e] = link[e] /\ toDevice'[e] = toDevice[e] /\ fromDevice'[e] = fromDevice[e]
    BY <1>1, <2>1
  <2>5. QED
    BY <1>1, <2>1, <2>3, <2>4 DEF WireTypes, ServerTypes
<1>6. ASSUME news' = 0
      PROVE  WireOf(d)'
  <2>1. Fits(fromDevice[d], toDevice[d], Reading(d), Current) /\ Reading(d) \in BOOLEAN
    BY <1>1, <1>6 DEF StoreInv, WireInv, WireOf, Reading
  <2>2. Fits(new, <<>>, Reading(d), Current)
    <3>1. CASE cut
      BY <1>1, <1>2, <1>3, <2>1, <3>1, FitsAnswer DEF new
    <3>2. CASE ~cut
      BY <1>2, <2>1, <3>2, FitsShorter DEF new
    <3>3. QED
      BY <3>1, <3>2
  <2>3. Reading(d)' = Reading(d) /\ Current' = Current
    BY <1>1 DEF Reading, Current
  <2>4. QED
    BY <1>5, <2>2, <2>3 DEF WireOf
<1>7. QED
  BY <1>1, <1>5, <1>6, StoreWire

\* The server passes over what nobody asked for, or finds that a device is gone.
LEMMA StorePasses ==
  ASSUME StoreInv, NEW d \in Device, PassOver(d) \/ DropDevice(d)
  PROVE  StoreInv'
<1>1. /\ UNCHANGED <<toDevice, news, connDict, commands, view, outcome>>
      /\ server.at # "read" /\ server'.at # "read"
      /\ fromDevice' = [fromDevice EXCEPT ![d] = <<>>] \/ UNCHANGED fromDevice
      /\ fromDevice'[d] = <<>>
      /\ link' = [link EXCEPT ![d] = "closed"] \/ UNCHANGED link
      /\ server' \in {Selecting, ThreadEnded} \/ UNCHANGED server
      /\ devices' = Unlisted(d) \/ UNCHANGED devices
  <2>1. fromDevice \in [Device -> Seq(StoreMessage)]
    BY DEF StoreInv, StoreTyped, WireTypes
  <2>2. Selecting.at = "select" /\ ThreadEnded.at = "dead"
    BY DEF Selecting, ThreadEnded
  <2>3. CASE PassOver(d)
    BY <2>1, <2>2, <2>3 DEF PassOver
  <2>4. CASE DropDevice(d)
    BY <2>4 DEF DropDevice
  <2>5. QED
    BY <2>3, <2>4
<1>2. /\ Selecting \in ServerState /\ ThreadEnded \in ServerState
      /\ Selecting.at # "all" /\ ThreadEnded.at # "all"
  BY DEF Selecting, ThreadEnded, ServerState
<1>3. WireTypes' /\ ServerTypes'
      /\ \A e \in Device : e # d => link'[e] = link[e] /\ fromDevice'[e] = fromDevice[e]
  <2>1. /\ link \in [Device -> Link] /\ news \in Nat /\ ServerTypes
        /\ toDevice \in [Device -> Seq(Nat)] /\ fromDevice \in [Device -> Seq(StoreMessage)]
    BY DEF StoreInv, StoreTyped, WireTypes
  <2>2. /\ devices' \in Seq(Device) /\ server' \in ServerState
        /\ server'.at = "all" => server'.all # 0
    BY <1>1, <1>2, <2>1, UnlistedType DEF ServerTypes
  <2>3. <<>> \in Seq(StoreMessage) /\ "closed" \in Link
    BY DEF Link
  <2>4. link' \in [Device -> Link] /\ fromDevice' \in [Device -> Seq(StoreMessage)]
        /\ \A e \in Device : e # d => link'[e] = link[e] /\ fromDevice'[e] = fromDevice[e]
    BY <1>1, <2>1, <2>3
  <2>5. QED
    BY <1>1, <2>1, <2>2, <2>4 DEF WireTypes, ServerTypes
<1>4. ASSUME news' = 0
      PROVE  WireOf(d)'
  <2>1. Fits(fromDevice[d], toDevice[d], FALSE, Current)
    BY <1>1, <1>4 DEF StoreInv, WireInv, WireOf, Reading
  <2>2. toDevice[d] = <<>>
    BY <2>1, FitsIdle, WireElements
  <2>3. QED
    BY <1>1, <2>2, FitsNothing DEF WireOf
<1>5. QED
  BY <1>1, <1>3, <1>4, StoreWire

-----------------------------------------------------------------------------
(* Commands.                                                               *)

LEMMA CommandAppended ==
  ASSUME NEW s \in Seq(CommandSent), NEW e \in CommandSent
  PROVE  /\ Append(s, e) \in Seq(CommandSent) /\ Append(s, e) # <<>>
         /\ Len(Append(s, e)) = Len(s) + 1 /\ Append(s, e)[Len(s) + 1] = e
         /\ \A k \in 1 .. Len(s) : Append(s, e)[k] = s[k]
BY AppendProperties

\* A command that is sent becomes the current one, and the server reads.
LEMMA StoreSends ==
  ASSUME StoreInv, server.at # "read", NEW d \in Device, NEW op \in AskedOp,
         NEW for \in View \cup {"accept", ""}, NEW all \in Nat,
         SendTo(d, op, for, all), UNCHANGED <<devices, outcome>>,
         link'[d] # "hung up" \/ link[d] = "hung up",
         link' \in [Device -> Link], \A e \in Device : e # d => link'[e] = link[e],
         ViewTypes', \A v \in View : view'[v].op = view[v].op /\ view'[v].on = view[v].on,
         for \in View /\ all = 0 =>
           view'[for].at = "served" /\ view'[for].op = op /\ view'[for].on = d
  PROVE  StoreInv'
<1> DEFINE id  == Len(commands) + 1
           sent == [op |-> op, on |-> d]
           to  == IF link[d] = "hung up" THEN toDevice[d] ELSE Append(toDevice[d], id)
<1>1. /\ link \in [Device -> Link] /\ news \in Nat /\ toDevice \in [Device -> Seq(Nat)]
      /\ fromDevice \in [Device -> Seq(StoreMessage)] /\ commands \in Seq(CommandSent)
      /\ outcome \in [View -> Outcomes] /\ devices \in Seq(Device) /\ connDict \subseteq Device
  BY DEF StoreInv, StoreTyped, WireTypes, ServerTypes, ViewTypes
<1>2. sent \in CommandSent
  BY DEF CommandSent
<1>3. commands' = Append(commands, sent) /\ UNCHANGED <<fromDevice, news, connDict>>
  BY DEF SendTo
<1>4. /\ commands' \in Seq(CommandSent) /\ Len(commands') = id /\ id \in Nat
      /\ commands' # <<>> /\ commands'[id] = sent /\ id \in 1 .. id
      /\ \A k \in 1 .. Len(commands) : k \in 1 .. id /\ commands'[k] = commands[k]
  <2>1. commands \in Seq(CommandSent)
    BY <1>1
  <2>2. Len(commands) \in Nat
    BY <2>1, LenProperties
  <2>3. id \in Nat /\ id \in 1 .. id /\ \A k \in 1 .. Len(commands) : k \in 1 .. id
    BY <2>2, OneMore
  <2> HIDE DEF sent, id
  <2>4. /\ commands' \in Seq(CommandSent) /\ commands' # <<>>
        /\ Len(commands') = Len(commands) + 1 /\ commands'[Len(commands) + 1] = sent
        /\ \A k \in 1 .. Len(commands) : commands'[k] = commands[k]
    BY <1>2, <1>3, <2>1, CommandAppended
  <2>5. QED
    BY <2>3, <2>4 DEF id
<1>5. /\ toDevice' = [toDevice EXCEPT ![d] = to]
      /\ server' = [at |-> "read", on |-> d, for |-> for, all |-> all]
  BY <1>4 DEF SendTo
<1> HIDE DEF sent, id
<1>6. to \in Seq(Nat) /\ toDevice'[d] = to
      /\ \A e \in Device : e # d => toDevice'[e] = toDevice[e]
  <2>1. toDevice[d] \in Seq(Nat)
    BY <1>1
  <2>2. Append(toDevice[d], id) \in Seq(Nat)
    BY <1>4, <2>1, AppendProperties
  <2>3. to \in Seq(Nat)
    BY <2>1, <2>2
  <2> HIDE DEF to
  <2>4. QED
    BY <1>1, <1>5, <2>3
<1>7. StoreTyped'
  <2>1. toDevice' \in [Device -> Seq(Nat)]
    BY <1>1, <1>5, <1>6
  <2>2. server' \in ServerState /\ server'.at # "all"
    BY <1>5 DEF ServerState
  <2>3. QED
    BY <1>1, <1>3, <1>4, <2>1, <2>2 DEF StoreTyped, WireTypes, ServerTypes
<1>8. Current' = id /\ (\A e \in Device : Reading(e)' <=> e = d) /\ server'.at = "read"
      /\ server'.on = d /\ server'.for = for /\ server'.all = all
  BY <1>4, <1>5 DEF Current, Reading
<1>9. ReadingInv'
  <2>1. commands'[id].op = op /\ commands'[id].on = d
    <3>1. commands'[id] = sent
      BY <1>4
    <3>2. sent.op = op /\ sent.on = d
      BY DEF sent
    <3>3. QED
      BY <3>1, <3>2
  <2>2. \A v \in View : Serves(v)' <=> for = v /\ all = 0
    BY <1>8 DEF Serves
  <2>3. \A v \in View : Serves(v)' =>
          view'[v].at = "served" /\ view'[v].op = op /\ view'[v].on = d
    BY <2>2
  <2>4. QED
    BY <1>4, <1>8, <2>1, <2>3 DEF ReadingInv
<1>10. WireInv'
  <2> SUFFICES ASSUME news = 0, NEW e \in Device
               PROVE  WireOf(e)'
    BY <1>3 DEF WireInv
  <2>1. Fits(fromDevice[e], toDevice[e], FALSE, Current)
    BY DEF StoreInv, WireInv, WireOf, Reading
  <2>2. /\ toDevice[e] = <<>> /\ \A reading, other : Fits(fromDevice[e], toDevice[e], reading, other)
        /\ \A other \in Nat : Fits(fromDevice[e], <<other>>, TRUE, other)
    BY <2>1, FitsIdle, WireElements
  <2>3. CASE e # d
    <3>1. link'[e] = "hung up" => toDevice'[e] = <<>>
      BY <1>6, <2>2, <2>3
    <3>2. Fits(fromDevice'[e], toDevice'[e], Reading(e)', Current')
      BY <1>3, <1>6, <2>2, <2>3
    <3>3. QED
      BY <3>1, <3>2 DEF WireOf
  <2>4. CASE e = d
    <3>1. CASE link[d] = "hung up"
      <4>1. toDevice'[d] = <<>> /\ Fits(fromDevice[d], toDevice'[d], Reading(d)', Current')
        BY <1>6, <2>2, <2>4, <3>1
      <4>2. QED
        BY <1>3, <2>4, <4>1 DEF WireOf
    <3>2. CASE link[d] # "hung up"
      <4>1. toDevice'[d] = <<id>>
        <5>1. toDevice'[d] = Append(<<>>, id)
          BY <1>6, <2>2, <2>4, <3>2
        <5>2. Append(<<>>, id) = <<id>>
          BY <1>4, AppendToNothing
        <5>3. QED
          BY <5>1, <5>2
      <4>2. Fits(fromDevice[d], toDevice'[d], TRUE, Current')
        BY <1>4, <1>8, <2>2, <2>4, <4>1
      <4>3. Reading(d)' = TRUE
        BY <1>8 DEF Reading
      <4>4. QED
        BY <1>3, <2>4, <3>2, <4>2, <4>3 DEF WireOf
    <3>3. QED
      BY <3>1, <3>2
  <2>5. QED
    BY <2>3, <2>4
<1>11. ReplyInv'
  BY <1>3, <1>4 DEF StoreInv, ReplyInv
<1>12. QED
  BY <1>7, <1>9, <1>10, <1>11 DEF StoreInv

LEMMA StoreCommands ==
  ASSUME StoreInv,
         \/ \E d \in Device : AcceptDevice(d)
         \/ \E v \in View : Command(v)
         \/ NextOfAll
  PROVE  StoreInv'
<1>1. /\ link \in [Device -> Link] /\ view \in [View -> ViewState] /\ outcome \in [View -> Outcomes]
      /\ server \in ServerState /\ devices \in Seq(Device) /\ connDict \subseteq Device
  BY DEF StoreInv, StoreTyped, WireTypes, ServerTypes, ViewTypes
<1>2. ASSUME NEW d \in Device, AcceptDevice(d)
      PROVE  StoreInv'
  <2>1. /\ server.at # "read" /\ SendTo(d, "query", "accept", 0)
        /\ link' = [link EXCEPT ![d] = "open"] /\ UNCHANGED <<devices, view, outcome>>
    BY <1>2 DEF AcceptDevice
  <2>2. link' \in [Device -> Link] /\ link'[d] # "hung up"
        /\ \A e \in Device : e # d => link'[e] = link[e]
    BY <1>1, <2>1 DEF Link
  <2>3. ViewTypes' /\ "query" \in AskedOp /\ 0 \in Nat
    BY <1>1, <2>1 DEF ViewTypes, AskedOp, StoreInv, StoreTyped
  <2>4. QED
    BY <2>1, <2>2, <2>3, StoreSends, StoreAssumption
<1>3. ASSUME NEW v \in View, Command(v)
      PROVE  StoreInv'
  <2>1. /\ server.at # "read" /\ view[v].at = "asked" /\ view[v].op # "query all"
        /\ SendTo(view[v].on, view[v].op, v, 0) /\ view[v].on \in Device
        /\ view' = [view EXCEPT ![v].at = "served"] /\ UNCHANGED <<link, devices, outcome>>
    BY <1>1, <1>3 DEF Command
  <2>2. view[v] \in ViewState /\ view[v].op \in AskedOp
    BY <1>1, <2>1 DEF StoreInv, StoreTyped, ViewTypes, ViewState
  <2>3. [view[v] EXCEPT !.at = "served"] \in ViewState
    BY <2>2 DEF ViewState, ViewAt
  <2>4. /\ view' \in [View -> ViewState] /\ view'[v].at = "served"
        /\ \A w \in View : /\ view'[w].op = view[w].op /\ view'[w].on = view[w].on
                           /\ view'[w].at = "asked" => view[w].at = "asked"
    BY <1>1, <2>1, <2>2, <2>3 DEF ViewState
  <2>5. ViewTypes' /\ 0 \in Nat
    BY <1>1, <2>1, <2>4 DEF ViewTypes, StoreInv, StoreTyped
  <2>6. QED
    BY <1>1, <2>1, <2>2, <2>4, <2>5, StoreSends
<1>4. CASE NextOfAll
  <2>1. /\ server.at = "all" /\ SendTo(devices[server.all], "query", server.for, server.all)
        /\ server.all <= Len(devices) /\ UNCHANGED <<link, devices, view, outcome>>
    BY <1>4 DEF NextOfAll
  <2>2. server.all \in Nat /\ server.for \in View \cup {"accept", ""} /\ server.all # 0
    BY <1>1, <2>1 DEF ServerState, StoreInv, StoreTyped, ServerTypes
  <2>3. devices[server.all] \in Device
    <3>1. server.all \in 1 .. Len(devices)
      <4>1. Len(devices) \in Nat /\ devices \in Seq(Device)
        BY <1>1, LenProperties
      <4>2. server.all \in Nat /\ server.all # 0 /\ server.all <= Len(devices)
        BY <2>1, <2>2
      <4>3. QED
        BY ONLY <4>1, <4>2
    <3>2. QED
      BY <1>1, <3>1, ElementOfSeq
  <2>4. ViewTypes' /\ "query" \in AskedOp
    BY <1>1, <2>1 DEF ViewTypes, AskedOp, StoreInv, StoreTyped
  <2>5. QED
    BY <1>1, <2>1, <2>2, <2>3, <2>4, StoreSends
<1>5. QED
  BY <1>2, <1>3, <1>4

-----------------------------------------------------------------------------
(* The answers.                                                            *)

\* Behind a whole message, or one that broke off, there is nothing.
LEMMA FitsWhole ==
  ASSUME NEW from \in Seq(StoreMessage), NEW to \in Seq(Nat), NEW reading, NEW id,
         Fits(from, to, reading, id), from # <<>>, Head(from).is # "rest"
  PROVE  to = <<>> /\ Tail(from) = <<>> /\ Head(from).of = id
<1>1. Len(from) \in Nat /\ Len(from) # 0 /\ Len(to) \in Nat /\ Head(from) = from[1]
  OBVIOUS
<1>2. Len(from) + Len(to) <= 1
  BY <1>1 DEF Fits
<1>3. Len(to) = 0 /\ Len(from) = 1
  BY <1>1, <1>2
<1>4. Len(Tail(from)) = 0 /\ Tail(from) \in Seq(StoreMessage)
  BY <1>3, HeadTailProperties
<1>5. to = <<>>
  BY <1>3
<1>6. 1 \in 1 .. Len(from)
  BY <1>3
<1>7. Head(from).of = id
  BY <1>1, <1>6 DEF Fits
<1>8. QED
  BY <1>4, <1>5, <1>7, EmptySeq

LEMMA OneAndNothing ==
  ASSUME NEW m \in Nat, NEW n \in Nat, m > 1, m + n <= 2
  PROVE  m = 2 /\ n = 0
OBVIOUS

LEMMA TailOfTail ==
  ASSUME NEW s \in Seq(StoreMessage), Len(s) > 1
  PROVE  Tail(Tail(s)) \in Seq(StoreMessage) /\ Len(Tail(Tail(s))) = Len(s) - 2
<1>1. Len(s) \in Nat /\ s # <<>>
  BY EmptySeq
<1>2. Tail(s) \in Seq(StoreMessage) /\ Len(Tail(s)) = Len(s) - 1
  BY <1>1, HeadTailProperties
<1>3. Len(Tail(s)) # 0
  BY <1>1, <1>2
<1>4. Tail(s) # <<>>
  BY <1>3, EmptySeq
<1>5. Tail(Tail(s)) \in Seq(StoreMessage) /\ Len(Tail(Tail(s))) = Len(Tail(s)) - 1
  BY <1>2, <1>4, HeadTailProperties
<1>6. QED
  BY <1>1, <1>2, <1>5

\* Behind the rest of a message there is one message.
LEMMA FitsBehindRest ==
  ASSUME NEW from \in Seq(StoreMessage), NEW to \in Seq(Nat), NEW reading, NEW id,
         Fits(from, to, reading, id), Len(from) > 1
  PROVE  /\ to = <<>> /\ Tail(Tail(from)) = <<>>
         /\ from[2] \in StoreMessage /\ reading /\ from[2].of = id
<1>1. Len(from) \in Nat /\ Len(to) \in Nat /\ from # <<>>
  OBVIOUS
<1>2. Len(from) + Len(to) <= 2
  BY DEF Fits
<1>3. Len(to) = 0 /\ Len(from) = 2
  BY <1>1, <1>2, OneAndNothing
<1>4. Tail(Tail(from)) \in Seq(StoreMessage) /\ Len(Tail(Tail(from))) = 0
  BY <1>3, TailOfTail
<1>5. 2 \in 1 .. Len(from)
  BY <1>3
<1>6. from[2] \in StoreMessage /\ reading /\ from[2].of = id
  BY <1>5, ElementOfSeq DEF Fits
<1>7. QED
  BY <1>3, <1>4, <1>6, EmptySeq

LEMMA FitsRest ==
  ASSUME NEW m \in StoreMessage, m.is = "rest", NEW reading, NEW id
  PROVE  Fits(<<m>>, <<>>, reading, id)
<1>1. Len(<<m>>) = 1 /\ Len(<<>>) = 0 /\ <<m>>[1] = m /\ <<m>> # <<>>
  OBVIOUS
<1>2. QED
  BY <1>1 DEF Fits

\* What the end of a command does to the server and to the views.
LEMMA Resumed ==
  ASSUME StoreInv, server.at = "read", UNCHANGED commands, NEW result \in Outcomes,
         Dies \/ Resume(result)
  PROVE  /\ ServerTypes' /\ ViewTypes' /\ server'.at # "read"
         /\ \A v \in View :
              /\ view'[v].op = view[v].op /\ view'[v].on = view[v].on
              /\ \/ outcome'[v] = outcome[v]
                 \/ outcome'[v] = result /\ (Answered(result) /\ result.of = Current => Serves(v))
<1>1. ServerTypes /\ ViewTypes /\ server.on \in Device /\ server \in ServerState
  BY DEF StoreInv, StoreTyped, ServerTypes, ReadingInv
<1>2. /\ Selecting \in ServerState /\ ThreadEnded \in ServerState
      /\ Selecting.at = "select" /\ ThreadEnded.at = "dead"
  BY DEF Selecting, ThreadEnded, ServerState
<1>3. Append(devices, server.on) \in Seq(Device)
  BY <1>1, AppendProperties DEF ServerTypes
<1>4. CASE Dies
  BY <1>1, <1>2, <1>4 DEF Dies, ServerTypes, ViewTypes
<1>5. CASE Resume(result) /\ server.for = "accept"
  <2>1. /\ devices' \in {devices, Append(devices, server.on)}
        /\ connDict' \in {connDict, connDict \cup {server.on}}
        /\ server' = Selecting /\ UNCHANGED <<view, outcome>>
    BY <1>5 DEF Resume
  <2>2. QED
    BY <1>1, <1>2, <1>3, <2>1 DEF ServerTypes, ViewTypes
<1>6. CASE Resume(result) /\ server.for # "accept" /\ server.all > 0
  <2>1. /\ server' = [server EXCEPT !.at = "all", !.all = server.all + 1]
        /\ outcome' = [outcome EXCEPT ![server.for] =
             IF result.kind # "fail" /\ result.of # Current THEN result ELSE outcome[server.for]]
        /\ UNCHANGED <<view, devices, connDict>>
    BY <1>6 DEF Resume, Current
  <2>2. server.all + 1 \in Nat /\ server.all + 1 # 0
    <3>1. server.all \in Nat
      BY <1>1 DEF ServerState
    <3>2. QED
      BY <3>1
  <2>3. server' \in ServerState /\ server'.at = "all" /\ server'.all # 0
    BY <1>1, <2>1, <2>2 DEF ServerState
  <2>4. /\ outcome' \in [View -> Outcomes]
        /\ \A v \in View : \/ outcome'[v] = outcome[v]
                           \/ outcome'[v] = result /\ result.of # Current
    BY <1>1, <2>1 DEF ViewTypes
  <2>5. ServerTypes' /\ ViewTypes'
    BY <1>1, <2>1, <2>3, <2>4 DEF ServerTypes, ViewTypes
  <2>6. QED
    BY <2>1, <2>3, <2>4, <2>5
<1>7. CASE Resume(result) /\ server.for # "accept" /\ ~(server.all > 0)
  <2>1. Queue(server.for, result) /\ server' = Selecting /\ UNCHANGED <<devices, connDict>>
    BY <1>7 DEF Resume
  <2>2. server.all = 0
    <3>1. server.all \in Nat
      BY <1>1 DEF ServerState
    <3>2. QED
      BY <1>7, <3>1
  <2>3. ViewTypes' /\ \A w \in View :
          /\ view'[w].op = view[w].op /\ view'[w].on = view[w].on
          /\ outcome'[w] = IF w = server.for THEN result ELSE outcome[w]
    BY <1>1, <2>1, Queued
  <2>4. QED
    BY <1>1, <1>2, <2>1, <2>2, <2>3 DEF ServerTypes, Serves
<1>8. QED
  BY <1>4, <1>5, <1>6, <1>7

\* The server reads what there is for the current command and goes on.
LEMMA StoreReads ==
  ASSUME StoreInv, server.at = "read", ReadFrame, NEW left \in Seq(StoreMessage),
         fromDevice' = [fromDevice EXCEPT ![server.on] = left],
         NEW result \in Outcomes, Dies \/ Resume(result),
         news = 0 => /\ Fits(left, <<>>, FALSE, Current) /\ toDevice[server.on] = <<>>
                     /\ Answered(result) => result.of = Current
  PROVE  StoreInv'
<1>1. UNCHANGED <<link, toDevice, news, commands>> /\ server.on \in Device /\ commands # <<>>
      /\ StoreTyped
  BY DEF ReadFrame, StoreInv, ReadingInv
<1>2. /\ ServerTypes' /\ ViewTypes' /\ server'.at # "read"
      /\ \A v \in View :
           /\ view'[v].op = view[v].op /\ view'[v].on = view[v].on
           /\ \/ outcome'[v] = outcome[v]
              \/ outcome'[v] = result /\ (Answered(result) /\ result.of = Current => Serves(v))
  BY <1>1, Resumed
<1>3. /\ fromDevice' \in [Device -> Seq(StoreMessage)] /\ fromDevice'[server.on] = left
      /\ \A e \in Device : e # server.on => fromDevice'[e] = fromDevice[e]
  BY <1>1 DEF StoreTyped, WireTypes
<1>4. StoreTyped'
  BY <1>1, <1>2, <1>3 DEF StoreTyped, WireTypes
<1>5. ReadingInv'
  BY <1>2 DEF ReadingInv, Serves
<1>6. WireInv'
  <2> SUFFICES ASSUME news = 0, NEW e \in Device
               PROVE  WireOf(e)'
    BY <1>1 DEF WireInv
  <2>1. Reading(e)' = FALSE /\ Current' = Current
    BY <1>1, <1>2 DEF Reading, Current
  <2>2. WireOf(e)
    BY DEF StoreInv, WireInv
  <2>3. Fits(fromDevice'[e], toDevice[e], FALSE, Current)
    <3>1. CASE e = server.on
      BY <1>3, <3>1
    <3>2. CASE e # server.on
      <4>1. Reading(e) = FALSE
        BY <3>2 DEF Reading
      <4>2. QED
        BY <1>3, <2>2, <3>2, <4>1 DEF WireOf
    <3>3. QED
      BY <3>1, <3>2
  <2>4. QED
    BY <1>1, <2>1, <2>2, <2>3 DEF WireOf
<1>7. ReplyInv'
  <2> SUFFICES ASSUME news = 0, NEW v \in View, Answered(outcome'[v])
               PROVE  /\ outcome'[v].of \in 1 .. Len(commands)
                      /\ commands[outcome'[v].of].op = view[v].op
                      /\ commands[outcome'[v].of].on = view[v].on
    BY <1>1, <1>2 DEF ReplyInv
  <2>1. CASE outcome'[v] = outcome[v]
    BY <2>1 DEF StoreInv, ReplyInv
  <2>2. CASE outcome'[v] = result
               /\ (Answered(result) /\ result.of = Current => Serves(v))
    <3>1. result.of = Current /\ Serves(v)
      BY <2>2
    <3>2. Current \in 1 .. Len(commands)
      BY <1>1, LastCommand
    <3>3. QED
      BY <2>2, <3>1, <3>2 DEF StoreInv, ReadingInv
  <2>3. QED
    BY <1>2, <2>1, <2>2
<1>8. QED
  BY <1>4, <1>5, <1>6, <1>7 DEF StoreInv

LEMMA StoreAnswered ==
  ASSUME StoreInv, ReadMessage \/ ReadGarbled \/ ReadClosed \/ ReadGivenUp
  PROVE  StoreInv'
<1> DEFINE d == server.on
           from == fromDevice[d]
<1>1. server.at = "read" /\ ReadFrame /\ d \in Device
  BY DEF ReadMessage, ReadGarbled, ReadClosed, ReadGivenUp, StoreInv, ReadingInv
<1>2. from \in Seq(StoreMessage) /\ toDevice[d] \in Seq(Nat)
  BY <1>1, WireElements
<1>3. news = 0 => /\ Fits(from, toDevice[d], TRUE, Current)
                  /\ link[d] = "hung up" => toDevice[d] = <<>>
  BY <1>1 DEF StoreInv, WireInv, WireOf, Reading
<1>4. /\ Told("fail", 0) \in Outcomes /\ ~Answered(Told("fail", 0))
      /\ \A id \in Nat : Told("reply", id) \in Outcomes /\ Told("reply", id).of = id
      /\ \A id \in Nat : Told("garbage", id) \in Outcomes /\ Told("garbage", id).of = id
      /\ \A id, rest \in Nat :
           ToldBehind(id, rest) \in Outcomes /\ ToldBehind(id, rest).of = id
  BY DEF Told, ToldBehind, Outcomes, Answered
<1>5. Fits(<<>>, <<>>, FALSE, Current) /\ <<>> \in Seq(StoreMessage)
  BY FitsNothing, EmptySeq
<1>6. from # <<>> => Head(from) \in StoreMessage /\ Tail(from) \in Seq(StoreMessage)
  BY <1>2, HeadTailProperties
<1>7. news = 0 /\ from # <<>> /\ Head(from).is # "rest" =>
        toDevice[d] = <<>> /\ Tail(from) = <<>> /\ Head(from).of = Current
  BY <1>2, <1>3, FitsWhole
<1> HIDE DEF from, d
<1>8. CASE ReadMessage
  <2>1. /\ from # <<>> /\ Head(from).is = "whole"
        /\ fromDevice' = [fromDevice EXCEPT ![server.on] = Tail(from)]
        /\ Dies \/ Resume(Told("reply", Head(from).of))
    BY <1>8 DEF ReadMessage, from, d
  <2>2. Head(from).of \in Nat /\ Head(from).is # "rest"
    BY <1>6, <2>1 DEF StoreMessage
  <2>3. Told("reply", Head(from).of) \in Outcomes /\ Told("reply", Head(from).of).of = Head(from).of
    BY <1>4, <2>2
  <2>4. QED
    BY <1>1, <1>5, <1>6, <1>7, <2>1, <2>2, <2>3, StoreReads DEF d
<1>9. CASE ReadGarbled
  <2>1. /\ from # <<>>
        /\ \/ /\ Head(from).is = "start" /\ (Dies \/ Resume(Told("garbage", Head(from).of)))
              /\ fromDevice' = [fromDevice EXCEPT ![server.on] = Tail(from)]
           \/ /\ Len(from) > 1 /\ (Dies \/ Resume(ToldBehind(from[2].of, Head(from).of)))
              /\ fromDevice' = [fromDevice EXCEPT ![server.on] = Tail(Tail(from))]
    BY <1>9 DEF ReadGarbled, from, d
  <2>2. CASE /\ Head(from).is = "start" /\ (Dies \/ Resume(Told("garbage", Head(from).of)))
             /\ fromDevice' = [fromDevice EXCEPT ![server.on] = Tail(from)]
    <3>1. news = 0 => toDevice[d] = <<>> /\ Tail(from) = <<>> /\ Head(from).of = Current
      BY <1>7, <2>1, <2>2
    <3>2. Head(from).of \in Nat
      BY <1>6, <2>1 DEF StoreMessage
    <3>3. /\ Told("garbage", Head(from).of) \in Outcomes
          /\ Told("garbage", Head(from).of).of = Head(from).of
      BY <1>4, <3>2
    <3>4. QED
      BY <1>1, <1>5, <1>6, <2>1, <2>2, <3>1, <3>3, StoreReads DEF d
  <2>3. CASE /\ Len(from) > 1 /\ (Dies \/ Resume(ToldBehind(from[2].of, Head(from).of)))
             /\ fromDevice' = [fromDevice EXCEPT ![server.on] = Tail(Tail(from))]
    <3>1. Tail(Tail(from)) \in Seq(StoreMessage)
      BY <1>2, <2>3, TailOfTail
    <3>2. news = 0 => /\ toDevice[d] = <<>> /\ Tail(Tail(from)) = <<>>
                      /\ from[2].of = Current
      BY <1>2, <1>3, <2>3, FitsBehindRest
    <3>3. Head(from).of \in Nat /\ from[2].of \in Nat
      <4>1. Len(from) \in Nat
        BY <1>2, LenProperties
      <4>2. 2 \in 1 .. Len(from)
        BY <2>3, <4>1
      <4>3. from[2] \in StoreMessage
        BY <1>2, <4>2, ElementOfSeq
      <4>4. QED
        BY <1>6, <2>1, <4>3 DEF StoreMessage
    <3>4. /\ ToldBehind(from[2].of, Head(from).of) \in Outcomes
          /\ ToldBehind(from[2].of, Head(from).of).of = from[2].of
      BY <1>4, <3>3
    <3>5. QED
      BY <1>1, <1>5, <2>3, <3>1, <3>2, <3>4, StoreReads DEF d
  <2>4. QED
    BY <2>1, <2>2, <2>3
<1>10. CASE ReadClosed
  <2>1. /\ link[d] = "hung up" /\ fromDevice' = [fromDevice EXCEPT ![server.on] = <<>>]
        /\ Dies \/ Resume(Told("fail", 0))
    BY <1>10 DEF ReadClosed, d
  <2>2. QED
    BY <1>1, <1>3, <1>4, <1>5, <2>1, StoreReads DEF d
<1>11. CASE ReadGivenUp
  <2> DEFINE m == [Head(from) EXCEPT !.is = "rest"]
             left == <<m>> \o Tail(from)
  <2>1. /\ from # <<>> /\ Head(from).is = "whole" /\ Resume(Told("fail", 0))
        /\ fromDevice' = [fromDevice EXCEPT ![server.on] = left]
    BY <1>11 DEF ReadGivenUp, from, d
  <2>2. m \in StoreMessage /\ m.is = "rest"
    BY <1>6, <2>1 DEF StoreMessage
  <2> HIDE DEF m
  <2>3. <<m>> \in Seq(StoreMessage)
    BY <2>2
  <2>4. left \in Seq(StoreMessage)
    BY <1>6, <2>1, <2>3, ConcatProperties
  <2>5. news = 0 => left = <<m>> /\ toDevice[d] = <<>>
    BY <1>7, <2>1, <2>3, ConcatEmptySeq
  <2>6. Fits(<<m>>, <<>>, FALSE, Current)
    BY <2>2, FitsRest
  <2> HIDE DEF left
  <2>7. QED
    BY <1>1, <1>4, <2>1, <2>4, <2>5, <2>6, StoreReads DEF d
<1>12. QED
  BY <1>8, <1>9, <1>10, <1>11

-----------------------------------------------------------------------------

LEMMA StoreStarts == StoreInit => StoreInv
<1> SUFFICES ASSUME StoreInit
             PROVE  StoreInv
  OBVIOUS
<1>1. /\ NoOutcome \in Outcomes /\ NoOutcome.kind = "none"
      /\ Selecting \in ServerState /\ Selecting.at = "select"
      /\ [at |-> "idle", op |-> "", on |-> ""] \in ViewState
  BY DEF NoOutcome, Outcomes, Selecting, ServerState, ViewState, ViewAt
<1>2. StoreTyped
  <2>1. WireTypes
    BY EmptySeq DEF StoreInit, WireTypes, Link
  <2>2. ServerTypes
    BY <1>1, EmptySeq DEF StoreInit, ServerTypes
  <2>3. ViewTypes
    BY <1>1 DEF StoreInit, ViewTypes
  <2>4. QED
    BY <2>1, <2>2, <2>3 DEF StoreTyped
<1>3. ReadingInv
  BY <1>1 DEF StoreInit, ReadingInv, Serves
<1>4. WireInv
  BY FitsNothing DEF StoreInit, WireInv, WireOf
<1>5. ReplyInv
  BY <1>1 DEF StoreInit, ReplyInv, Answered
<1>6. QED
  BY <1>2, <1>3, <1>4, <1>5 DEF StoreInv

LEMMA StoreKeeps == StoreInv /\ [StoreNext]_storeVars => StoreInv'
<1> SUFFICES ASSUME StoreInv, [StoreNext]_storeVars
             PROVE  StoreInv'
  OBVIOUS
<1>1. CASE UNCHANGED storeVars
  BY <1>1 DEF storeVars, wireVars, StoreInv, StoreTyped, WireTypes, ServerTypes, ViewTypes,
              ReadingInv, Serves, Current, WireInv, WireOf, Reading, ReplyInv
<1>2. CASE ServerStep
  BY <1>2, StoreEndsAll, StoreAnswered, StoreCommands, StorePasses, StoreCommandFails,
     StoreViews DEF ServerStep
<1>3. QED
  BY <1>1, <1>2, StoreConnects, StoreAnswers, StorePublishes, StoreHangsUp, StoreViews
  DEF StoreNext

-----------------------------------------------------------------------------
(* What garbles an answer.                                                 *)

Gone(d) == link[d] \in {"hung up", "closed"}

\* A message broke off because the device is gone, and a rest is that of the answer to
\* a command the device was given, which is not the one the server waits for.
Traced(d, m) ==
  /\ m.is = "start" => Gone(d)
  /\ m.is = "rest" => /\ m.of \in 1 .. Len(commands) /\ commands[m.of].on = d
                      /\ Reading(d) => m.of # Current

TraceInv == news = 0 =>
  \A d \in Device : \A i \in 1 .. Len(fromDevice[d]) : Traced(d, fromDevice[d][i])

GarbageInv == news = 0 =>
  \A v \in View :
    LET o == outcome[v]
        d == view[v].on
    IN o.kind = "garbage" =>
         Gone(d) \/ (o.behind \in 1 .. o.of - 1 /\ commands[o.behind].on = d)

TracedInv == StoreInv /\ TraceInv /\ GarbageInv

LEMMA OtherThanLast ==
  ASSUME NEW n \in Nat, NEW k \in 1 .. n, k # n
  PROVE  k \in 1 .. n - 1
OBVIOUS

LEMMA BelowNext ==
  ASSUME NEW n \in Nat, NEW k \in 1 .. n
  PROVE  k \in 1 .. n + 1 /\ k # n + 1
OBVIOUS

LEMMA BelowBound ==
  ASSUME NEW n \in Nat, NEW k \in 1 .. n, NEW j \in 1 .. k - 1
  PROVE  j \in 1 .. n
OBVIOUS

\* The commands stay, and one that is sent is read by the server.
CommandsGrow ==
  \/ UNCHANGED commands /\ (UNCHANGED server \/ server'.at # "read")
  \/ Len(commands') = Len(commands) + 1
     /\ \A k \in 1 .. Len(commands) : commands'[k] = commands[k]

\* A message that stays where it was is still traced.
LEMMA TracedStays ==
  ASSUME StoreInv, CommandsGrow, NEW d \in Device, NEW m \in StoreMessage,
         Traced(d, m), Gone(d) => Gone(d)'
  PROVE  Traced(d, m)'
<1>1. Len(commands) \in Nat
  BY DEF StoreInv, StoreTyped, ServerTypes
<1>2. (m.is = "start")' = (m.is = "start") /\ m.of = (m.of)'
  OBVIOUS
<1>3. CASE UNCHANGED commands /\ (UNCHANGED server \/ server'.at # "read")
  BY <1>3 DEF Traced, Reading, Current
<1>4. CASE Len(commands') = Len(commands) + 1
           /\ \A k \in 1 .. Len(commands) : commands'[k] = commands[k]
  <2>1. ASSUME m.is = "rest"
        PROVE  m.of \in 1 .. Len(commands') /\ commands'[m.of].on = d /\ m.of # Len(commands')
    <3>1. m.of \in 1 .. Len(commands) /\ commands[m.of].on = d
      BY <2>1 DEF Traced
    <3>2. m.of \in 1 .. Len(commands) + 1 /\ m.of # Len(commands) + 1
      BY <1>1, <3>1, BelowNext
    <3>3. QED
      BY <1>4, <3>1, <3>2
  <2>2. QED
    BY <2>1 DEF Traced, Current
<1>5. QED
  BY <1>3, <1>4 DEF CommandsGrow

\* A step that adds no message that would have to be explained.
LEMMA TraceStays ==
  ASSUME TracedInv, CommandsGrow, news' = 0 => news = 0,
         \A d \in Device : Gone(d) => Gone(d)',
         \A d \in Device :
           \/ fromDevice'[d] = fromDevice[d] \/ fromDevice'[d] = <<>>
           \/ news' # 0
           \/ \E m \in StoreMessage : /\ fromDevice'[d] = Append(fromDevice[d], m)
                                      /\ m.is = "whole" \/ (m.is = "start" /\ Gone(d)')
  PROVE  TraceInv'
<1> SUFFICES ASSUME news' = 0, NEW d \in Device, NEW i \in 1 .. Len(fromDevice'[d])
             PROVE  Traced(d, fromDevice[d][i])'
  BY DEF TraceInv
<1>1. /\ StoreInv /\ fromDevice[d] \in Seq(StoreMessage) /\ Len(fromDevice[d]) \in Nat
      /\ \A j \in 1 .. Len(fromDevice[d]) : Traced(d, fromDevice[d][j])
  BY WireElements DEF TracedInv, TraceInv
<1>2. \A j \in 1 .. Len(fromDevice[d]) : fromDevice[d][j] \in StoreMessage
  BY <1>1, ElementOfSeq
<1>3. CASE fromDevice'[d] = fromDevice[d]
  BY <1>1, <1>2, <1>3, TracedStays
<1>4. CASE fromDevice'[d] = <<>>
  BY <1>4
<1>5. ASSUME NEW m \in StoreMessage, fromDevice'[d] = Append(fromDevice[d], m),
             m.is = "whole" \/ (m.is = "start" /\ Gone(d)')
      PROVE  Traced(d, fromDevice[d][i])'
  <2>1. \/ i = Len(fromDevice[d]) + 1 /\ fromDevice'[d][i] = m
        \/ i \in 1 .. Len(fromDevice[d]) /\ fromDevice'[d][i] = fromDevice[d][i]
    BY <1>1, <1>5
  <2>2. CASE fromDevice'[d][i] = m
    BY <1>5, <2>2 DEF Traced
  <2>3. CASE i \in 1 .. Len(fromDevice[d]) /\ fromDevice'[d][i] = fromDevice[d][i]
    <3>1. fromDevice[d][i] \in StoreMessage /\ Traced(d, fromDevice[d][i])
      BY <1>1, <1>2, <2>3
    <3>2. QED
      BY <1>1, <2>3, <3>1, TracedStays
  <2>4. QED
    BY <2>1, <2>2, <2>3
<1>6. QED
  BY <1>3, <1>4, <1>5

\* A step in which no view is told garbage, and none that was asks anew.
LEMMA GarbageStays ==
  ASSUME TracedInv, CommandsGrow, news' = 0 => news = 0,
         \A d \in Device : Gone(d) => Gone(d)',
         \A v \in View : \/ outcome'[v].kind # "garbage"
                         \/ outcome'[v] = outcome[v] /\ view'[v].on = view[v].on
  PROVE  GarbageInv'
<1> SUFFICES ASSUME news' = 0, NEW v \in View, outcome'[v].kind = "garbage"
             PROVE  \/ link'[view'[v].on] \in {"hung up", "closed"}
                    \/ /\ outcome'[v].behind \in 1 .. outcome'[v].of - 1
                       /\ commands'[outcome'[v].behind].on = view'[v].on
  BY DEF GarbageInv, Gone
<1>1. /\ outcome'[v] = outcome[v] /\ view'[v].on = view[v].on /\ news = 0
      /\ outcome[v].kind = "garbage"
  OBVIOUS
<1>2. /\ outcome[v].of \in 1 .. Len(commands) /\ Len(commands) \in Nat
      /\ commands[outcome[v].of].on = view[v].on /\ commands \in Seq(CommandSent)
  BY <1>1 DEF TracedInv, StoreInv, StoreTyped, ServerTypes, ReplyInv, Answered
<1>3. view[v].on \in Device
  <2>1. commands[outcome[v].of] \in CommandSent
    BY <1>2, ElementOfSeq
  <2>2. QED
    BY <1>2, <2>1 DEF CommandSent
<1>4. CASE Gone(view[v].on)
  <2>1. \A e \in Device : link[e] \in {"hung up", "closed"} => link'[e] \in {"hung up", "closed"}
    BY DEF Gone
  <2>2. link'[view[v].on] \in {"hung up", "closed"}
    BY <1>3, <1>4, <2>1 DEF Gone
  <2>3. QED
    BY <1>1, <2>2
<1>5. CASE /\ outcome[v].behind \in 1 .. outcome[v].of - 1
           /\ commands[outcome[v].behind].on = view[v].on
  <2>1. outcome[v].behind \in 1 .. Len(commands)
    BY <1>2, <1>5, BelowBound
  <2>2. commands'[outcome[v].behind] = commands[outcome[v].behind]
    BY <2>1 DEF CommandsGrow
  <2>3. QED
    BY <1>1, <1>5, <2>2
<1>6. QED
  BY <1>1, <1>4, <1>5 DEF TracedInv, GarbageInv

LEMMA StoreElements ==
  ASSUME StoreInv
  PROVE  /\ link \in [Device -> Link] /\ news \in Nat
         /\ fromDevice \in [Device -> Seq(StoreMessage)] /\ toDevice \in [Device -> Seq(Nat)]
         /\ commands \in Seq(CommandSent) /\ Len(commands) \in Nat
         /\ view \in [View -> ViewState] /\ outcome \in [View -> Outcomes]
         /\ server \in ServerState
BY LenProperties DEF StoreInv, StoreTyped, WireTypes, ServerTypes, ViewTypes

LEMMA AppendedAny ==
  ASSUME NEW s \in Seq(CommandSent), NEW e
  PROVE  /\ Len(Append(s, e)) = Len(s) + 1
         /\ \A k \in 1 .. Len(s) : Append(s, e)[k] = s[k]
OBVIOUS

\* A step that leaves what the devices wrote alone.
LEMMA TracedQuiet ==
  ASSUME TracedInv, StoreInv', CommandsGrow, UNCHANGED <<fromDevice, news>>,
         \A d \in Device : Gone(d) => Gone(d)',
         \A v \in View : \/ outcome'[v].kind # "garbage"
                         \/ outcome'[v] = outcome[v] /\ view'[v].on = view[v].on
  PROVE  TracedInv'
BY TraceStays, GarbageStays DEF TracedInv

LEMMA TracedSends ==
  ASSUME TracedInv, StoreInv',
         \/ NextOfAll \/ (\E d \in Device : AcceptDevice(d)) \/ (\E v \in View : Command(v))
  PROVE  TracedInv'
<1>1. /\ link \in [Device -> Link] /\ view \in [View -> ViewState]
      /\ commands \in Seq(CommandSent) /\ Len(commands) \in Nat
  BY StoreElements DEF TracedInv
<1>2. UNCHANGED <<fromDevice, news, outcome>>
  BY DEF NextOfAll, AcceptDevice, Command, SendTo
<1>3. \E d, op : commands' = Append(commands, [op |-> op, on |-> d])
  BY DEF NextOfAll, AcceptDevice, Command, SendTo
<1>4. \A d \in Device : Gone(d) => Gone(d)'
  BY <1>1 DEF NextOfAll, AcceptDevice, Command, Gone
<1>5. \A v \in View : view'[v].on = view[v].on
  <2>1. ASSUME NEW w \in View, Command(w)
        PROVE  \A v \in View : view'[v].on = view[v].on
    <3>1. view' = [view EXCEPT ![w] = [view[w] EXCEPT !.at = "served"]]
      BY <2>1 DEF Command
    <3>2. view[w] \in ViewState
      BY <1>1
    <3>3. [view[w] EXCEPT !.at = "served"].on = view[w].on
      BY <3>2 DEF ViewState
    <3>4. QED
      BY <1>1, <3>1, <3>3
  <2>2. QED
    BY <2>1 DEF NextOfAll, AcceptDevice
<1>6. CommandsGrow
  <2>1. PICK sent : commands' = Append(commands, sent)
    BY <1>3
  <2>2. QED
    BY <1>1, <2>1, AppendedAny DEF CommandsGrow
<1>7. QED
  BY <1>2, <1>4, <1>5, <1>6, TracedQuiet

\* The views, and what the server does for them without a device.
LEMMA TracedViews ==
  ASSUME TracedInv, StoreInv',
         \/ NextOfAllFails \/ EndOfAll
         \/ \E v \in View :
              \/ CommandFails(v) \/ CommandUnknown(v) \/ StartAll(v)
              \/ TellView(v) \/ DropView(v) \/ GiveUp(v) \/ AskFor(v, "query all", "")
              \/ \E op \in ViewOp, d \in Device : AskFor(v, op, d)
  PROVE  TracedInv'
<1>1. /\ view \in [View -> ViewState] /\ outcome \in [View -> Outcomes]
  BY StoreElements DEF TracedInv
<1>2. UNCHANGED <<wireVars, commands>> /\ (UNCHANGED server \/ server'.at # "read")
  <2>1. CASE NextOfAllFails
    BY <2>1, StoreElements DEF NextOfAllFails, ServerState, TracedInv
  <2>2. CASE EndOfAll
    BY <2>2 DEF EndOfAll, Selecting
  <2>3. ASSUME NEW v \in View, CommandFails(v) \/ CommandUnknown(v) \/ StartAll(v)
        PROVE  UNCHANGED <<wireVars, commands>> /\ (UNCHANGED server \/ server'.at # "read")
    <3>1. [at |-> "all", on |-> "", for |-> v, all |-> 1].at # "read"
      OBVIOUS
    <3>2. QED
      BY <2>3, <3>1 DEF CommandFails, CommandUnknown, StartAll
  <2>4. ASSUME NEW v \in View,
               \/ TellView(v) \/ DropView(v) \/ GiveUp(v) \/ AskFor(v, "query all", "")
               \/ \E op \in ViewOp, d \in Device : AskFor(v, op, d)
        PROVE  UNCHANGED <<wireVars, commands>> /\ (UNCHANGED server \/ server'.at # "read")
    BY <2>4 DEF TellView, DropView, GiveUp, AskFor, ViewFrame
  <2>5. QED
    BY <2>1, <2>2, <2>3, <2>4
<1>3. /\ UNCHANGED <<fromDevice, news>> /\ CommandsGrow
      /\ \A d \in Device : Gone(d) => Gone(d)'
  BY <1>2 DEF wireVars, CommandsGrow, Gone
<1>4. NoOutcome.kind # "garbage" /\ Told("fail", 0).kind # "garbage" /\ Told("list", 0).kind # "garbage"
  BY DEF NoOutcome, Told
<1>5. ASSUME NEW w, NEW at, NEW what, view' = [view EXCEPT ![w].at = at],
             outcome' = [outcome EXCEPT ![w] = what] \/ outcome' = outcome,
             w \in View => what.kind # "garbage" \/ what = outcome[w]
      PROVE  TracedInv'
  <2>1. \A v \in View : view'[v].on = view[v].on
    BY <1>1, <1>5 DEF ViewState
  <2>2. \A v \in View : outcome'[v].kind # "garbage" \/ outcome'[v] = outcome[v]
    BY <1>1, <1>5
  <2>3. QED
    BY <1>3, <2>1, <2>2, TracedQuiet
<1>6. ASSUME NEW w \in View, NEW new, view' = [view EXCEPT ![w] = new],
             outcome' = [outcome EXCEPT ![w] = NoOutcome]
      PROVE  TracedInv'
  <2>1. \A v \in View : \/ outcome'[v].kind # "garbage"
                        \/ outcome'[v] = outcome[v] /\ view'[v].on = view[v].on
    BY <1>1, <1>4, <1>6
  <2>2. QED
    BY <1>3, <2>1, TracedQuiet
<1>7. CASE NextOfAllFails
  BY <1>3, <1>7, TracedQuiet DEF NextOfAllFails
<1>8. CASE EndOfAll
  BY <1>5, <1>8 DEF EndOfAll, Queue
<1>9. ASSUME NEW v \in View, CommandFails(v) \/ CommandUnknown(v) \/ StartAll(v)
      PROVE  TracedInv'
  <2>1. ASSUME Queue(v, Told("fail", 0))
        PROVE  TracedInv'
    BY <1>4, <1>5, <2>1 DEF Queue
  <2>2. CASE StartAll(v)
    <3>1. /\ outcome' = [outcome EXCEPT ![v] = Told("list", 0)]
          /\ view' = [view EXCEPT ![v].at = IF view[v].at = "left" THEN view[v].at ELSE "served"]
      BY <2>2 DEF StartAll
    <3>2. QED
      BY <1>4, <1>5, <3>1
  <2>3. CASE view' = [view EXCEPT ![v].at = "forgotten"] /\ UNCHANGED outcome
    BY <1>5, <2>3
  <2>4. QED
    BY <1>9, <2>1, <2>2, <2>3 DEF CommandFails, CommandUnknown
<1>10. ASSUME NEW v \in View, TellView(v) \/ GiveUp(v)
       PROVE  TracedInv'
  BY <1>5, <1>10 DEF TellView, GiveUp
<1>11. ASSUME NEW v \in View,
              \/ DropView(v) \/ AskFor(v, "query all", "")
              \/ \E op \in ViewOp, d \in Device : AskFor(v, op, d)
       PROVE  TracedInv'
  BY <1>6, <1>11 DEF DropView, AskFor
<1>12. QED
  BY <1>7, <1>8, <1>9, <1>10, <1>11
\* The devices, and the server that passes over what they wrote.
LEMMA TracedDevices ==
  ASSUME TracedInv, StoreInv', NEW d \in Device,
         \/ PassOver(d) \/ DropDevice(d) \/ DeviceConnects(d) \/ DeviceAnswers(d)
         \/ DevicePublishes(d) \/ \E cut \in BOOLEAN : DeviceHangsUp(d, cut)
  PROVE  TracedInv'
<1>1. /\ StoreInv /\ link \in [Device -> Link] /\ fromDevice \in [Device -> Seq(StoreMessage)]
      /\ toDevice \in [Device -> Seq(Nat)] /\ news \in Nat
  BY StoreElements DEF TracedInv
<1>2. UNCHANGED <<commands, view, outcome>> /\ (UNCHANGED server \/ server'.at # "read")
  <2>1. Selecting.at # "read" /\ ThreadEnded.at # "read"
    BY DEF Selecting, ThreadEnded
  <2>2. ASSUME NEW cut \in BOOLEAN, DeviceHangsUp(d, cut)
        PROVE  UNCHANGED <<commands, view, outcome, server>>
    BY <2>2 DEF DeviceHangsUp, DeviceFrame
  <2>3. QED
    BY <2>1, <2>2 DEF PassOver, DropDevice, DeviceConnects, DeviceAnswers, DevicePublishes,
                      DeviceFrame
<1>3. CommandsGrow
  BY <1>2 DEF CommandsGrow
<1>4. \A e \in Device : Gone(e) => Gone(e)'
  BY <1>1 DEF PassOver, DropDevice, DeviceConnects, DeviceAnswers, DevicePublishes,
              DeviceHangsUp, Gone
<1>5. news' = news \/ news' = news + 1
  BY DEF PassOver, DropDevice, DeviceConnects, DeviceAnswers, DevicePublishes, DeviceHangsUp
<1>6. news' = 0 => news = 0
  BY <1>1, <1>5
<1>7. \A e \in Device :
        \/ fromDevice'[e] = fromDevice[e] \/ fromDevice'[e] = <<>> \/ news' # 0
        \/ \E m \in StoreMessage : /\ fromDevice'[e] = Append(fromDevice[e], m)
                                   /\ m.is = "whole" \/ (m.is = "start" /\ Gone(e)')
  <2>1. CASE PassOver(d)
    BY <1>1, <2>1 DEF PassOver
  <2>2. CASE DropDevice(d) \/ DeviceConnects(d)
    BY <2>2 DEF DropDevice, DeviceConnects
  <2>3. CASE DevicePublishes(d)
    BY <1>1, <2>3 DEF DevicePublishes
  <2>4. ASSUME NEW is \in {"whole", "start"}, toDevice[d] # <<>>, is = "start" => Gone(d)',
               fromDevice' = [fromDevice EXCEPT ![d] =
                                Append(@, [of |-> Head(toDevice[d]), is |-> is])]
        PROVE  \A e \in Device :
                 \/ fromDevice'[e] = fromDevice[e]
                 \/ \E m \in StoreMessage : /\ fromDevice'[e] = Append(fromDevice[e], m)
                                            /\ m.is = "whole" \/ (m.is = "start" /\ Gone(e)')
    <3> DEFINE new == [of |-> Head(toDevice[d]), is |-> is]
    <3>1. Head(toDevice[d]) \in Nat
      BY <1>1, <2>4, WireElements
    <3>2. new \in StoreMessage /\ new.is = is
      BY <3>1 DEF StoreMessage
    <3> HIDE DEF new
    <3>3. fromDevice'[d] = Append(fromDevice[d], new)
          /\ \A e \in Device : e # d => fromDevice'[e] = fromDevice[e]
      BY <1>1, <2>4 DEF new
    <3>4. new.is = "whole" \/ (new.is = "start" /\ Gone(d)')
      BY <2>4, <3>2
    <3>5. QED
      BY <3>2, <3>3, <3>4
  <2>5. CASE DeviceAnswers(d)
    <3>1. /\ toDevice[d] # <<>> /\ "whole" # "start"
          /\ fromDevice' = [fromDevice EXCEPT ![d] =
                              Append(@, [of |-> Head(toDevice[d]), is |-> "whole"])]
      BY <2>5 DEF DeviceAnswers
    <3>2. QED
      BY <2>4, <3>1
  <2>6. ASSUME NEW cut \in BOOLEAN, DeviceHangsUp(d, cut)
        PROVE  \A e \in Device :
                 \/ fromDevice'[e] = fromDevice[e]
                 \/ \E m \in StoreMessage : /\ fromDevice'[e] = Append(fromDevice[e], m)
                                            /\ m.is = "whole" \/ (m.is = "start" /\ Gone(e)')
    <3>1. Gone(d)'
      BY <1>1, <2>6 DEF DeviceHangsUp, Gone
    <3>2. \/ UNCHANGED fromDevice
          \/ /\ toDevice[d] # <<>>
             /\ fromDevice' = [fromDevice EXCEPT ![d] =
                                 Append(@, [of |-> Head(toDevice[d]), is |-> "start"])]
      BY <2>6 DEF DeviceHangsUp
    <3>3. QED
      BY <2>4, <3>1, <3>2
  <2>7. QED
    BY <2>1, <2>2, <2>3, <2>5, <2>6
<1>8. TraceInv'
  BY <1>3, <1>4, <1>6, <1>7, TraceStays
<1>9. GarbageInv'
  BY <1>2, <1>3, <1>4, <1>6, GarbageStays
<1>10. QED
  BY <1>8, <1>9 DEF TracedInv

\* The server takes what there is from the device it reads from; what is left is the
\* rest of the answer to the current command, and garbage that is told is explained.
LEMMA TracedTakes ==
  ASSUME TracedInv, StoreInv', server.at = "read", ReadFrame, NEW left,
         fromDevice' = [fromDevice EXCEPT ![server.on] = left],
         NEW result \in Outcomes, Dies \/ Resume(result),
         news = 0 => \/ left = <<>>
                     \/ \E m \in StoreMessage :
                          left = <<m>> /\ m.is = "rest" /\ m.of = Current,
         news = 0 /\ result.kind = "garbage" =>
           /\ result.of = Current
           /\ \/ Gone(server.on)
              \/ result.behind \in 1 .. Current - 1 /\ commands[result.behind].on = server.on
  PROVE  TracedInv'
<1>1. /\ StoreInv /\ UNCHANGED <<link, toDevice, news, commands>>
      /\ server.on \in Device /\ commands # <<>> /\ commands[Current].on = server.on
      /\ fromDevice \in [Device -> Seq(StoreMessage)]
  BY StoreElements DEF TracedInv, StoreInv, ReadingInv, ReadFrame
<1>2. /\ server'.at # "read"
      /\ \A v \in View :
           /\ view'[v].on = view[v].on
           /\ \/ outcome'[v] = outcome[v]
              \/ outcome'[v] = result /\ (Answered(result) /\ result.of = Current => Serves(v))
  BY <1>1, Resumed
<1>3. CommandsGrow /\ \A d \in Device : Gone(d) => Gone(d)'
  BY <1>1, <1>2 DEF CommandsGrow, Gone
<1>4. ASSUME news = 0, NEW d \in Device, NEW i \in 1 .. Len(fromDevice'[d])
      PROVE  Traced(d, fromDevice[d][i])'
  <2>1. CASE d # server.on
    <3>1. fromDevice'[d] = fromDevice[d] /\ fromDevice[d] \in Seq(StoreMessage)
      BY <1>1, <2>1
    <3>2. fromDevice[d][i] \in StoreMessage /\ Traced(d, fromDevice[d][i])
      BY <1>4, <3>1, ElementOfSeq DEF TracedInv, TraceInv
    <3>3. QED
      BY <1>1, <1>3, <3>1, <3>2, TracedStays
  <2>2. CASE d = server.on
    <3>1. fromDevice'[d] = left
      BY <1>1, <2>2
    <3>2. left # <<>>
      BY <1>4, <3>1
    <3>3. PICK m \in StoreMessage : left = <<m>> /\ m.is = "rest" /\ m.of = Current
      BY <1>4, <3>2
    <3>4. i = 1 /\ fromDevice'[d][i] = m
      <4>1. Len(<<m>>) = 1 /\ <<m>>[1] = m
        OBVIOUS
      <4>2. i \in 1 .. 1
        BY <1>4, <2>2, <3>1, <3>3, <4>1
      <4>3. i = 1
        BY <4>2
      <4>4. QED
        BY <3>1, <3>3, <4>1, <4>3
    <3>5. Current \in 1 .. Len(commands)
      BY <1>1, LastCommand
    <3>6. m.of \in 1 .. Len(commands') /\ commands'[m.of].on = d /\ ~(Reading(d)')
      BY <1>1, <1>2, <2>2, <3>3, <3>5 DEF Reading
    <3>7. QED
      BY <3>3, <3>4, <3>6 DEF Traced
  <2>3. QED
    BY <2>1, <2>2
<1>5. TraceInv'
  BY <1>1, <1>4 DEF TraceInv
<1>6. ASSUME news = 0, result.kind = "garbage"
      PROVE  GarbageInv'
  <2>1. ASSUME NEW v \in View, outcome'[v].kind = "garbage"
        PROVE  \/ link'[view'[v].on] \in {"hung up", "closed"}
               \/ /\ outcome'[v].behind \in 1 .. outcome'[v].of - 1
                  /\ commands'[outcome'[v].behind].on = view'[v].on
    <3>1. CASE outcome'[v] = outcome[v]
      BY <1>1, <1>2, <1>6, <2>1, <3>1 DEF TracedInv, GarbageInv, Gone
    <3>2. CASE outcome'[v] = result
               /\ (Answered(result) /\ result.of = Current => Serves(v))
      <4>1. Serves(v)
        BY <1>6, <3>2 DEF Answered
      <4>2. view[v].on = server.on
        BY <1>1, <4>1 DEF StoreInv, ReadingInv
      <4>3. QED
        BY <1>1, <1>2, <1>6, <3>2, <4>2 DEF Gone
    <3>3. QED
      BY <1>2, <3>1, <3>2
  <2>2. QED
    BY <2>1 DEF GarbageInv, Gone
<1>7. ASSUME news # 0
      PROVE  GarbageInv'
  BY <1>1, <1>7 DEF GarbageInv
<1>8. ASSUME result.kind # "garbage"
      PROVE  GarbageInv'
  BY <1>1, <1>2, <1>3, <1>8, GarbageStays
<1>9. QED
  BY <1>5, <1>6, <1>7, <1>8 DEF TracedInv

LEMMA TracedReads ==
  ASSUME TracedInv, StoreInv', ReadMessage \/ ReadGarbled \/ ReadClosed \/ ReadGivenUp
  PROVE  TracedInv'
<1> DEFINE d == server.on
           from == fromDevice[d]
<1>1. StoreInv /\ server.at = "read" /\ ReadFrame /\ d \in Device
  BY DEF ReadMessage, ReadGarbled, ReadClosed, ReadGivenUp, TracedInv, StoreInv, ReadingInv
<1>2. from \in Seq(StoreMessage) /\ toDevice[d] \in Seq(Nat) /\ Len(from) \in Nat
  BY <1>1, WireElements
<1>3. news = 0 => Fits(from, toDevice[d], TRUE, Current)
  BY <1>1 DEF StoreInv, WireInv, WireOf, Reading
<1>4. /\ \A id \in Nat : /\ Told("reply", id) \in Outcomes /\ Told("reply", id).kind = "reply"
                         /\ Told("garbage", id) \in Outcomes /\ Told("garbage", id).of = id
      /\ \A id, rest \in Nat : /\ ToldBehind(id, rest) \in Outcomes
                               /\ ToldBehind(id, rest).of = id
                               /\ ToldBehind(id, rest).behind = rest
      /\ Told("fail", 0) \in Outcomes /\ Told("fail", 0).kind = "fail"
  BY DEF Told, ToldBehind, Outcomes
<1>6. from # <<>> => /\ Head(from) \in StoreMessage /\ Tail(from) \in Seq(StoreMessage)
                     /\ Head(from).of \in Nat /\ Head(from) = from[1] /\ 1 \in 1 .. Len(from)
  <2>1. ASSUME from # <<>>
        PROVE  /\ Head(from) \in StoreMessage /\ Tail(from) \in Seq(StoreMessage)
               /\ Head(from) = from[1] /\ Len(from) # 0
    BY <1>2, <2>1, HeadTailProperties, EmptySeq
  <2>2. Len(from) # 0 => 1 \in 1 .. Len(from)
    BY <1>2
  <2>3. QED
    BY <2>1, <2>2 DEF StoreMessage
<1>7. news = 0 /\ from # <<>> /\ Head(from).is # "rest" =>
        toDevice[d] = <<>> /\ Tail(from) = <<>> /\ Head(from).of = Current
  BY <1>2, <1>3, FitsWhole
<1>8. news = 0 => \A i \in 1 .. Len(from) : Traced(d, from[i])
  BY <1>1 DEF TracedInv, TraceInv
<1> HIDE DEF from, d
<1>9. CASE ReadMessage
  <2>1. /\ from # <<>> /\ Head(from).is = "whole"
        /\ fromDevice' = [fromDevice EXCEPT ![server.on] = Tail(from)]
        /\ Dies \/ Resume(Told("reply", Head(from).of))
    BY <1>9 DEF ReadMessage, from, d
  <2>2. news = 0 => Tail(from) = <<>>
    BY <1>7, <2>1
  <2>3. /\ Told("reply", Head(from).of) \in Outcomes
        /\ Told("reply", Head(from).of).kind # "garbage"
    BY <1>4, <1>6, <2>1
  <2>4. QED
    BY <1>1, <2>1, <2>2, <2>3, TracedTakes
<1>10. CASE ReadGarbled
  <2>1. CASE /\ from # <<>> /\ Head(from).is = "start"
             /\ Dies \/ Resume(Told("garbage", Head(from).of))
             /\ fromDevice' = [fromDevice EXCEPT ![server.on] = Tail(from)]
    <3>1. /\ Told("garbage", Head(from).of) \in Outcomes
          /\ Told("garbage", Head(from).of).of = Head(from).of
      BY <1>4, <1>6, <2>1
    <3>2. news = 0 => Tail(from) = <<>> /\ Head(from).of = Current /\ Gone(server.on)
      BY <1>6, <1>7, <1>8, <2>1 DEF Traced, d
    <3>3. QED
      BY <1>1, <2>1, <3>1, <3>2, TracedTakes
  <2>2. CASE /\ from # <<>> /\ Head(from).is = "rest" /\ Len(from) > 1
             /\ Dies \/ Resume(ToldBehind(from[2].of, Head(from).of))
             /\ fromDevice' = [fromDevice EXCEPT ![server.on] = Tail(Tail(from))]
    <3>1. from[2] \in StoreMessage /\ from[2].of \in Nat
      <4>1. 2 \in 1 .. Len(from)
        BY <1>2, <2>2
      <4>2. from[2] \in StoreMessage
        BY <1>2, <4>1, ElementOfSeq
      <4>3. QED
        BY <4>2 DEF StoreMessage
    <3>2. /\ ToldBehind(from[2].of, Head(from).of) \in Outcomes
          /\ ToldBehind(from[2].of, Head(from).of).of = from[2].of
          /\ ToldBehind(from[2].of, Head(from).of).behind = Head(from).of
      BY <1>4, <1>6, <2>2, <3>1
    <3>3. news = 0 => Tail(Tail(from)) = <<>> /\ from[2].of = Current
      BY <1>2, <1>3, <2>2, FitsBehindRest
    <3>4. ASSUME news = 0
          PROVE  Head(from).of \in 1 .. Current - 1 /\ commands[Head(from).of].on = server.on
      <4>1. Traced(d, Head(from)) /\ Reading(d)
        BY <1>1, <1>6, <1>8, <2>2, <3>4 DEF Reading, d
      <4>2. /\ Head(from).of \in 1 .. Len(commands) /\ commands[Head(from).of].on = d
            /\ Head(from).of # Current
        BY <2>2, <4>1 DEF Traced
      <4>3. Len(commands) \in Nat
        BY <1>1, StoreElements
      <4>4. QED
        BY <4>2, <4>3, OtherThanLast DEF d, Current
    <3>5. QED
      BY <1>1, <2>2, <3>2, <3>3, <3>4, TracedTakes
  <2>3. QED
    BY <1>10, <2>1, <2>2 DEF ReadGarbled, from, d
<1>11. CASE ReadClosed
  <2>1. /\ fromDevice' = [fromDevice EXCEPT ![server.on] = <<>>]
        /\ Dies \/ Resume(Told("fail", 0))
    BY <1>11 DEF ReadClosed, d
  <2>2. QED
    BY <1>1, <1>4, <2>1, TracedTakes
<1>12. CASE ReadGivenUp
  <2> DEFINE m == [Head(from) EXCEPT !.is = "rest"]
             left == <<m>> \o Tail(from)
  <2>1. /\ from # <<>> /\ Head(from).is = "whole" /\ Resume(Told("fail", 0))
        /\ fromDevice' = [fromDevice EXCEPT ![server.on] = left]
    BY <1>12 DEF ReadGivenUp, from, d
  <2>2. m \in StoreMessage /\ m.is = "rest" /\ m.of = Head(from).of
    BY <1>6, <2>1 DEF StoreMessage
  <2> HIDE DEF m
  <2>3. <<m>> \in Seq(StoreMessage)
    BY <2>2
  <2>4. news = 0 => left = <<m>> /\ m.of = Current
    BY <1>7, <2>1, <2>2, <2>3, ConcatEmptySeq
  <2> HIDE DEF left
  <2>5. QED
    BY <1>1, <1>4, <2>1, <2>2, <2>4, TracedTakes
<1>13. QED
  BY <1>9, <1>10, <1>11, <1>12

LEMMA TracedKeeps == TracedInv /\ [StoreNext]_storeVars => TracedInv'
<1> SUFFICES ASSUME TracedInv, [StoreNext]_storeVars
             PROVE  TracedInv'
  OBVIOUS
<1>1. StoreInv'
  BY StoreKeeps DEF TracedInv
<1>2. CASE UNCHANGED storeVars
  BY <1>1, <1>2, TracedQuiet DEF storeVars, wireVars, CommandsGrow, Gone
<1>3. CASE ServerStep
  <2>1. CASE NextOfAll \/ (\E d \in Device : AcceptDevice(d)) \/ (\E v \in View : Command(v))
    BY <1>1, <2>1, TracedSends
  <2>2. CASE \/ NextOfAllFails \/ EndOfAll
             \/ \E v \in View : \/ CommandFails(v) \/ CommandUnknown(v) \/ StartAll(v)
                                \/ TellView(v) \/ DropView(v)
    BY <1>1, <2>2, TracedViews
  <2>3. CASE ReadMessage \/ ReadGarbled \/ ReadClosed \/ ReadGivenUp
    BY <1>1, <2>3, TracedReads
  <2>4. CASE \E d \in Device : PassOver(d) \/ DropDevice(d)
    BY <1>1, <2>4, TracedDevices
  <2>5. QED
    BY <1>3, <2>1, <2>2, <2>3, <2>4 DEF ServerStep
<1>4. QED
  BY <1>1, <1>2, <1>3, TracedViews, TracedDevices DEF StoreNext

\* Whatever comes back from a device and is told to a view, whole or garbled, is the
\* answer of that device to what the view asked, however late devices answer, wherever
\* they hang up and whatever a command that was given up left on the wire, as long as no
\* device publishes; and it is garbled only by a device that is gone or by the rest of an
\* earlier answer.
THEOREM AnswersReachTheirAsker == StoreSpec => []AnswerIsForAsker
<1>1. TracedInv => AnswerIsForAsker
  BY DEF TracedInv, StoreInv, ReplyInv, GarbageInv, AnswerIsForAsker, Answered, Gone
<1>2. StoreInit => TracedInv
  <2>1. ASSUME StoreInit
        PROVE  TraceInv /\ GarbageInv
    <3>1. NoOutcome.kind # "garbage" /\ Len(<<>>) = 0 /\ 1 .. 0 = {}
      BY DEF NoOutcome
    <3>2. \A d \in Device : fromDevice[d] = <<>>
      BY <2>1 DEF StoreInit
    <3>3. TraceInv
      BY <3>1, <3>2 DEF TraceInv
    <3>4. \A v \in View : outcome[v].kind # "garbage"
      BY <2>1, <3>1 DEF StoreInit
    <3>5. QED
      BY <3>3, <3>4 DEF GarbageInv
  <2>2. QED
    BY <2>1, StoreStarts DEF TracedInv
<1>3. QED
  BY <1>1, <1>2, TracedKeeps, PTL DEF StoreSpec
-----------------------------------------------------------------------------
(* The simulated display (SdlDisplay).  DrawnIsShown speaks of the rest;   *)
(* in between, a pixel that is not shown yet has someone who will see to   *)
(* it: the flag, a drawing that will raise it, or the copy under way.      *)

Image == Colour \cup {"gray", "nothing"}

DisplayTypes ==
  /\ tft_fb \in [Pixel -> Image] /\ texture \in [Pixel -> Image] /\ screen \in [Pixel -> Image]
  /\ sdl_refr_qry \in BOOLEAN /\ copied \in 0 .. Height
  /\ drawing \in [Drawer -> [busy : BOOLEAN, left : SUBSET Pixel, colour : Image]]
  /\ \A d \in Drawer : drawing[d].left # {} => drawing[d].busy

\* The pixel is on the screen, or will be when the copy is complete.
Copied(p) ==
  IF refresher = "refresh" THEN p >= copied \/ texture[p] = tft_fb[p] ELSE screen[p] = tft_fb[p]

DisplayInv ==
  /\ DisplayTypes
  /\ \A p \in Pixel :
       sdl_refr_qry \/ (\E d \in Drawer : drawing[d].busy) \/ Copied(p)

LEMMA DisplayKeeps == DisplayInv /\ [DisplayNext]_displayVars => DisplayInv'
<1> SUFFICES ASSUME DisplayInv, [DisplayNext]_displayVars
             PROVE  DisplayInv'
  OBVIOUS
<1> USE DisplayAssumption DEF DisplayInv, DisplayTypes, Copied, Pixel
<1>1. ASSUME NEW d \in Drawer, NEW pixels \in SUBSET Pixel, NEW c \in Colour, Begins(d, pixels, c)
      PROVE  DisplayInv'
  BY <1>1 DEF Begins, sdlVars, Image
<1>2. ASSUME NEW d \in Drawer, MonitorFlush(d) \/ MonitorFill(d) \/ MonitorMap(d)
      PROVE  DisplayInv'
  <2>1. \A y1, y2 \in Pixel : y1 .. y2 \in SUBSET Pixel
    OBVIOUS
  <2>2. \A y1, y2 \in -1 .. Height : (y1 .. y2) \cap Pixel \in SUBSET Pixel
    OBVIOUS
  <2>3. \E pixels \in SUBSET Pixel, c \in Colour : Begins(d, pixels, c)
    BY <1>2, <2>1, <2>2 DEF MonitorFlush, MonitorFill, MonitorMap
  <2>4. QED
    BY <1>1, <2>3
<1>3. ASSUME NEW d \in Drawer, DrawPixel(d)
      PROVE  DisplayInv'
  <2>1. PICK p \in drawing[d].left :
          /\ tft_fb' = [tft_fb EXCEPT ![p] = drawing[d].colour]
          /\ drawing' = [drawing EXCEPT ![d].left = @ \ {p}]
    BY <1>3 DEF DrawPixel
  <2>2. drawing[d].busy /\ drawing'[d].busy
    BY <2>1
  <2>3. DisplayTypes'
    BY <1>3, <2>1 DEF DrawPixel, sdlVars
  <2>4. QED
    BY <2>2, <2>3
<1>4. ASSUME NEW d \in Drawer, QueryRefresh(d)
      PROVE  DisplayInv'
  BY <1>4 DEF QueryRefresh, Idle, Image, sdlVars
<1>5. CASE MonitorSdlInit
  BY <1>5 DEF MonitorSdlInit, DisplayStays, Gray, Image
<1>6. CASE TakeQuery
  <2>1. /\ refresher = "loop" /\ copied' = 0
        /\ UNCHANGED <<tft_fb, texture, screen, drawing>> /\ sdl_refr_qry' = FALSE
        /\ sdl_refr_qry => refresher' = "refresh"
    BY <1>6 DEF TakeQuery, DisplayStays
  <2>2. DisplayTypes'
    <3>1. 0 \in 0 .. Height /\ FALSE \in BOOLEAN
      OBVIOUS
    <3>2. QED
      BY <2>1, <3>1
  <2>3. \A p \in Pixel : p >= copied'
    BY <2>1
  <2>4. QED
    BY <2>1, <2>2, <2>3
<1>7. CASE UpdateTexture
  BY <1>7 DEF UpdateTexture, DisplayStays
<1>8. CASE Present
  <2>1. /\ refresher = "refresh" /\ copied = Height /\ screen' = texture
        /\ UNCHANGED <<tft_fb, sdl_refr_qry, texture, drawing, copied>>
    BY <1>8 DEF Present, DisplayStays
  <2>2. DisplayTypes'
    BY <2>1
  <2>3. \A p \in Pixel :
          tft_fb[p] = texture[p] \/ sdl_refr_qry \/ \E d \in Drawer : drawing[d].busy
    BY <2>1
  <2>4. QED
    BY <2>1, <2>2, <2>3
<1>9. CASE Exposed
  BY <1>9 DEF Exposed, DisplayStays
<1>10. CASE QuitFilter \/ Delay \/ CleanUp
  BY <1>10 DEF QuitFilter, Delay, CleanUp, DisplayStays
<1>11. CASE UNCHANGED displayVars
  BY <1>11 DEF displayVars
<1>12. QED
  BY <1>2, <1>3, <1>4, <1>5, <1>6, <1>7, <1>8, <1>9, <1>10, <1>11 DEF DisplayNext

\* However many applications draw at the same time, and however the thread of SDL
\* runs between their steps, what they drew is on the screen when all are at rest.
THEOREM NoDrawingLost == DisplaySpec => []DrawnIsShown
<1>1. DisplayInit => DisplayInv
  <2> SUFFICES ASSUME DisplayInit
               PROVE  DisplayInv
    OBVIOUS
  <2>1. Blank \in [Pixel -> Image] /\ Idle \in [busy : BOOLEAN, left : SUBSET Pixel, colour : Image]
    BY DEF Blank, Idle, Image
  <2>2. Idle.left = {} /\ 0 \in 0 .. Height
    BY DisplayAssumption DEF Idle
  <2>3. DisplayTypes
    BY <2>1, <2>2 DEF DisplayInit, DisplayTypes
  <2>4. QED
    BY <2>3 DEF DisplayInit, DisplayInv, Copied
<1>2. DisplayInv => DrawnIsShown
  BY DEF DisplayInv, DisplayTypes, DrawnIsShown, Copied
<1>3. QED
  BY <1>1, <1>2, DisplayKeeps, PTL DEF DisplaySpec

-----------------------------------------------------------------------------
(* The graphics (GuiObjects): trees of widgets as functions from a widget  *)
(* to what it is in, 0 for the screen, and what is above a widget.         *)

Forest(par, n) == par \in [1 .. n -> Nat] /\ \A k \in 1 .. n : par[k] < k

Up(par, o, k) ==
  \A S \in SUBSET DOMAIN par : (k \in S /\ \A i \in S : par[i] \in S \cup {0}) => o \in S

\* What is above a widget is the widget, or above what it is in.
LEMMA UpChop ==
  ASSUME NEW n \in Nat, NEW par, Forest(par, n), NEW k \in 1 .. n, NEW o, Up(par, o, k)
  PROVE  o = k \/ (par[k] \in 1 .. n /\ Up(par, o, par[k]))
<1> SUFFICES ASSUME o # k
             PROVE  par[k] \in 1 .. n /\ Up(par, o, par[k])
  OBVIOUS
<1>1. DOMAIN par = 1 .. n /\ par[k] \in Nat /\ par[k] < k
  BY DEF Forest
<1>2. par[k] # 0
  <2> SUFFICES ASSUME par[k] = 0 PROVE FALSE
    OBVIOUS
  <2>1. {k} \in SUBSET DOMAIN par /\ k \in {k} /\ \A i \in {k} : par[i] \in {k} \cup {0}
    BY <1>1
  <2>2. o \in {k}
    BY <2>1, Zenon DEF Up
  <2>3. QED
    BY <2>2
<1>3. ASSUME NEW S \in SUBSET DOMAIN par, par[k] \in S, \A i \in S : par[i] \in S \cup {0}
      PROVE  o \in S
  <2>1. S \cup {k} \in SUBSET DOMAIN par
    BY <1>1
  <2>2. \A i \in S \cup {k} : par[i] \in (S \cup {k}) \cup {0}
    BY <1>3
  <2>3. o \in S \cup {k}
    BY <2>1, <2>2, Zenon DEF Up
  <2>4. QED
    BY <2>3
<1>4. QED
  BY <1>1, <1>2, <1>3 DEF Up

LEMMA UpFacts ==
  ASSUME NEW n \in Nat, NEW par, Forest(par, n)
  PROVE  /\ \A k \in 1 .. n : Up(par, k, k)
         /\ \A k \in 1 .. n : \A o : Up(par, o, k) => o \in 1 .. k
         /\ \A k \in 1 .. n : \A j, o : Up(par, o, j) /\ Up(par, j, k) => Up(par, o, k)
         /\ \A k \in 1 .. n : \A o : par[k] # 0 /\ Up(par, o, par[k]) => Up(par, o, k)
<1>1. DOMAIN par = 1 .. n /\ \A k \in 1 .. n : par[k] \in Nat /\ par[k] < k
  BY DEF Forest
<1>2. \A k \in 1 .. n : Up(par, k, k)
  BY <1>1 DEF Up
<1>3. ASSUME NEW k \in 1 .. n, NEW o, Up(par, o, k)
      PROVE  o \in 1 .. k
  <2>1. 1 .. k \in SUBSET DOMAIN par /\ k \in 1 .. k /\ \A i \in 1 .. k : par[i] \in (1 .. k) \cup {0}
    BY <1>1
  <2>2. QED
    BY <1>3, <2>1, Zenon DEF Up
<1>4. \A k \in 1 .. n : \A j, o : Up(par, o, j) /\ Up(par, j, k) => Up(par, o, k)
  BY DEF Up
<1>5. ASSUME NEW k \in 1 .. n, NEW o, par[k] # 0, Up(par, o, par[k])
      PROVE  Up(par, o, k)
  <2>1. ASSUME NEW S \in SUBSET DOMAIN par, k \in S, \A i \in S : par[i] \in S \cup {0}
        PROVE  o \in S
    <3>1. par[k] \in S
      BY <1>5, <2>1
    <3>2. QED
      BY <1>5, <2>1, <3>1, Zenon DEF Up
  <2>2. QED
    BY <2>1 DEF Up
<1>6. QED
  BY <1>2, <1>3, <1>4, <1>5

\* What is above one widget is in one line.
LEMMA UpComparable ==
  ASSUME NEW n \in Nat, NEW par, Forest(par, n), NEW k \in 1 .. n,
         NEW o, NEW p, Up(par, o, k), Up(par, p, k)
  PROVE  Up(par, o, p) \/ Up(par, p, o)
<1> DEFINE S == {j \in 1 .. n : Up(par, o, j) \/ Up(par, j, o)}
<1>1. DOMAIN par = 1 .. n
  BY DEF Forest
<1>2. o \in 1 .. n
  BY UpFacts
<1>3. ASSUME NEW j \in S
      PROVE  par[j] \in S \cup {0}
  <2>1. par[j] \in 0 .. n
    BY DEF Forest
  <2> SUFFICES ASSUME par[j] # 0
               PROVE  Up(par, o, par[j]) \/ Up(par, par[j], o)
    BY <2>1
  <2>2. par[j] \in 1 .. n /\ Up(par, par[j], par[j])
    BY <2>1, UpFacts
  <2>3. Up(par, par[j], j)
    BY <2>2, UpFacts
  <2>4. CASE Up(par, j, o)
    BY <1>2, <2>3, <2>4, UpFacts
  <2>5. CASE Up(par, o, j)
    <3>1. o = j \/ Up(par, o, par[j])
      BY <2>5, UpChop
    <3>2. QED
      BY <2>3, <3>1
  <2>6. QED
    BY <2>4, <2>5
<1>4. k \in S /\ S \in SUBSET DOMAIN par
  BY <1>1
<1>5. p \in S
  BY <1>3, <1>4, Zenon DEF Up
<1>6. QED
  BY <1>5

\* A new widget changes nothing above the others.
LEMMA UpGrown ==
  ASSUME NEW n \in Nat, NEW par, Forest(par, n), NEW new, NEW p \in 0 .. n,
         new \in [1 .. n + 1 -> Nat], \A i \in 1 .. n : new[i] = par[i], new[n + 1] = p
  PROVE  /\ Forest(new, n + 1)
         /\ \A k \in 1 .. n : \A o : Up(new, o, k) <=> Up(par, o, k)
         /\ \A o : Up(new, o, n + 1) => o = n + 1 \/ (p # 0 /\ Up(par, o, p))
<1>1. DOMAIN par = 1 .. n /\ DOMAIN new = 1 .. n + 1 /\ \A i \in 1 .. n : par[i] \in 0 .. n
  BY DEF Forest
<1>2. Forest(new, n + 1)
  BY DEF Forest
<1>3. ASSUME NEW k \in 1 .. n, NEW o, Up(new, o, k)
      PROVE  Up(par, o, k)
  <2> SUFFICES ASSUME NEW S \in SUBSET (1 .. n), k \in S, \A i \in S : par[i] \in S \cup {0}
               PROVE  o \in S
    BY <1>1 DEF Up
  <2>1. S \in SUBSET DOMAIN new /\ \A i \in S : new[i] \in S \cup {0}
    BY <1>1
  <2>2. QED
    BY <1>3, <2>1, Zenon DEF Up
<1>4. ASSUME NEW k \in 1 .. n, NEW o, Up(par, o, k)
      PROVE  Up(new, o, k)
  <2> SUFFICES ASSUME NEW S \in SUBSET (1 .. n + 1), k \in S, \A i \in S : new[i] \in S \cup {0}
               PROVE  o \in S
    BY <1>1 DEF Up
  <2> DEFINE T == S \cap (1 .. n)
  <2>1. T \in SUBSET DOMAIN par /\ k \in T /\ \A i \in T : par[i] \in T \cup {0}
    BY <1>1
  <2>2. o \in T
    BY <1>4, <2>1, Zenon DEF Up
  <2>3. QED
    BY <2>2
<1>5. ASSUME NEW o, Up(new, o, n + 1)
      PROVE  o = n + 1 \/ (p # 0 /\ Up(par, o, p))
  <2>1. o = n + 1 \/ (new[n + 1] \in 1 .. n + 1 /\ Up(new, o, new[n + 1]))
    BY <1>2, <1>5, UpChop
  <2>2. QED
    BY <1>3, <2>1
<1>6. QED
  BY <1>2, <1>3, <1>4, <1>5

-----------------------------------------------------------------------------
(* The widgets.                                                            *)

Widget ==
  [list : BOOLEAN, parent : Nat, inner : BOOLEAN, hooked : BOOLEAN, live : BOOLEAN,
   later : {"no", "asked", "done"}]

GuiTypes ==
  /\ objs \in Seq(Widget)
  /\ \A k \in ObjIndex : objs[k].parent < k /\ (objs[k].later = "done" => ~objs[k].live)
  /\ nodes \subseteq [id : ObjIndex, obj : ObjIndex, owner : GuiApp]
  /\ appState \in [GuiApp -> {"running", "gone"}]
  /\ given \in [GuiApp -> SUBSET ObjIndex]
  /\ halfway \in [GuiApp -> [at : {"none", "deleting", "cleaning", "searching"}, obj : Nat]]
  /\ wild \in BOOLEAN

\* A widget is in the tree of one application: who was given it was given what it is in,
\* and nobody else was.
TreesOwned ==
  /\ \A n \in nodes : n.id = n.obj /\ n.obj \in given[n.owner]
  /\ \A a, b \in GuiApp : a # b => given[a] \cap given[b] = {}
  /\ \A k \in ObjIndex : objs[k].parent # 0 =>
       \E a \in GuiApp : objs[k].parent \in given[a] /\ \A b \in GuiApp : k \in given[b] => b = a

\* Half way through a deletion the list has nothing of what is about to go.
HalfwayForgotten ==
  \A a \in GuiApp :
    /\ appState[a] = "gone" => halfway[a] = NoCall
    /\ halfway[a].at \in {"deleting", "cleaning"} =>
         /\ halfway[a].obj \in given[a]
         /\ \A n \in nodes : Above(halfway[a].obj, n.obj) =>
              halfway[a].at = "cleaning" /\ n.obj = halfway[a].obj

\* The inductive invariant of GuiSpec.
GuiInv == GuiTypes /\ TreesOwned /\ HalfwayForgotten /\ NodesNameWidgets /\ CleanupReachesAll

Parents == [k \in ObjIndex |-> objs[k].parent]

LEMMA AboveIsUp ==
  /\ \A o, k : Above(o, k) <=> Up(Parents, o, k)
  /\ \A o, k : Above(o, k)' <=> Up(Parents', o, k)
<1>1. ASSUME NEW o, NEW k PROVE Above(o, k) <=> Up(Parents, o, k)
  <2>1. DOMAIN Parents = ObjIndex /\ \A i \in ObjIndex : Parents[i] = objs[i].parent
    BY DEF Parents
  <2>2. \A S \in SUBSET ObjIndex :
          (\A i \in S : objs[i].parent \in S \cup {0}) <=> (\A i \in S : Parents[i] \in S \cup {0})
    BY <2>1
  <2>3. QED
    BY <2>1, <2>2 DEF Above, Up
<1>2. ASSUME NEW o, NEW k PROVE Above(o, k)' <=> Up(Parents', o, k)
  <2>1. DOMAIN Parents' = ObjIndex' /\ \A i \in ObjIndex' : Parents'[i] = objs'[i].parent
    BY DEF Parents
  <2>2. \A S \in SUBSET ObjIndex' :
          (\A i \in S : objs'[i].parent \in S \cup {0}) <=> (\A i \in S : Parents'[i] \in S \cup {0})
    BY <2>1
  <2>3. QED
    BY <2>1, <2>2 DEF Above, Up
<1>3. QED
  BY <1>1, <1>2

LEMMA TreeFacts ==
  ASSUME GuiTypes
  PROVE  /\ Len(objs) \in Nat /\ Forest(Parents, Len(objs))
         /\ \A k \in ObjIndex : Above(k, k)
         /\ \A k \in ObjIndex : \A o : Above(o, k) => o \in ObjIndex /\ o <= k
         /\ \A k \in ObjIndex : \A j, o : Above(o, j) /\ Above(j, k) => Above(o, k)
         /\ \A k \in ObjIndex : \A o : Above(o, k) =>
              o = k \/ (objs[k].parent \in ObjIndex /\ Above(o, objs[k].parent))
         /\ \A k \in ObjIndex : \A o, p : Above(o, k) /\ Above(p, k) => Above(o, p) \/ Above(p, o)
<1>1. Len(objs) \in Nat /\ objs \in [1 .. Len(objs) -> Widget] /\ ObjIndex = 1 .. Len(objs)
  BY DEF GuiTypes, ObjIndex
<1>2. Forest(Parents, Len(objs))
  <2>1. \A k \in ObjIndex : objs[k].parent \in Nat /\ objs[k].parent < k
    BY <1>1 DEF GuiTypes, Widget
  <2>2. QED
    BY <1>1, <2>1 DEF Forest, Parents
<1>3. \A k \in ObjIndex : Above(k, k)
  BY <1>1, <1>2, AboveIsUp, UpFacts
<1>4. \A k \in ObjIndex : \A o : Above(o, k) => o \in 1 .. k
  BY <1>1, <1>2, AboveIsUp, UpFacts
<1>5. \A k \in ObjIndex : \A o : Above(o, k) => o \in ObjIndex /\ o <= k
  BY <1>1, <1>4
<1>6. \A k \in ObjIndex : \A j, o : Above(o, j) /\ Above(j, k) => Above(o, k)
  BY <1>1, <1>2, AboveIsUp, UpFacts
<1>7. ASSUME NEW k \in ObjIndex, NEW o, Above(o, k)
      PROVE  o = k \/ (objs[k].parent \in ObjIndex /\ Above(o, objs[k].parent))
  <2>1. Parents[k] = objs[k].parent
    BY DEF Parents
  <2>2. o = k \/ (Parents[k] \in 1 .. Len(objs) /\ Up(Parents, o, Parents[k]))
    BY <1>1, <1>2, <1>7, AboveIsUp, UpChop
  <2>3. QED
    BY <1>1, <2>1, <2>2, AboveIsUp
<1>8. ASSUME NEW k \in ObjIndex, NEW o, NEW p, Above(o, k), Above(p, k)
      PROVE  Above(o, p) \/ Above(p, o)
  BY <1>1, <1>2, <1>8, AboveIsUp, UpComparable
<1>9. QED
  BY <1>1, <1>2, <1>3, <1>5, <1>6, <1>7, <1>8

\* What is above a widget belongs to the application the widget belongs to.
LEMMA OneOwner ==
  ASSUME GuiTypes, TreesOwned
  PROVE  /\ \A a \in GuiApp : \A k \in given[a] : \A o : Above(o, k) => o \in given[a]
         /\ \A k \in ObjIndex : \A o, p : Above(o, k) /\ Above(p, k) /\ o # k /\ p # k =>
              \E a \in GuiApp : o \in given[a] /\ p \in given[a]
<1>1. ASSUME NEW a \in GuiApp, NEW k \in given[a], NEW o, Above(o, k)
      PROVE  o \in given[a]
  <2>1. given[a] \in SUBSET ObjIndex
    BY DEF GuiTypes
  <2>2. \A i \in given[a] : objs[i].parent \in given[a] \cup {0}
    BY <2>1 DEF TreesOwned
  <2>3. QED
    BY <1>1, <2>1, <2>2, Zenon DEF Above
<1>2. ASSUME NEW k \in ObjIndex, NEW o, NEW p, Above(o, k), Above(p, k), o # k, p # k
      PROVE  \E a \in GuiApp : o \in given[a] /\ p \in given[a]
  <2>1. objs[k].parent \in ObjIndex /\ Above(o, objs[k].parent) /\ Above(p, objs[k].parent)
    BY <1>2, TreeFacts
  <2>2. objs[k].parent # 0
    BY <2>1, TreeFacts DEF ObjIndex
  <2>3. PICK a \in GuiApp : objs[k].parent \in given[a]
    BY <2>2 DEF TreesOwned
  <2>4. QED
    BY <1>1, <2>1, <2>3
<1>3. QED
  BY <1>1, <1>2

-----------------------------------------------------------------------------
(* Steps that make no widget.                                              *)

\* The trees stay, the list only loses nodes, and what was deleted stays so.
Steady ==
  /\ objs' \in Seq(Widget) /\ Len(objs') = Len(objs)
  /\ \A k \in ObjIndex :
       /\ objs'[k].parent = objs[k].parent
       /\ objs[k].later = "done" => objs'[k].later = "done"
       /\ objs'[k].later = "done" => ~objs'[k].live
       /\ objs'[k].live => objs[k].live
  /\ nodes' \subseteq nodes /\ given' = given /\ (wild => wild') /\ wild' \in BOOLEAN

LEMMA SteadyTrees ==
  ASSUME GuiTypes, Steady
  PROVE  ObjIndex' = ObjIndex /\ \A o, k : Above(o, k)' <=> Above(o, k)
<1>1. ObjIndex' = ObjIndex
  BY DEF Steady, ObjIndex
<1>2. Parents' = Parents
  BY <1>1 DEF Parents, Steady
<1>3. QED
  BY <1>1, <1>2, AboveIsUp

LEMMA SteadyOwned ==
  ASSUME GuiTypes, TreesOwned, Steady,
         appState' \in [GuiApp -> {"running", "gone"}],
         halfway' \in [GuiApp -> [at : {"none", "deleting", "cleaning", "searching"}, obj : Nat]]
  PROVE  GuiTypes' /\ TreesOwned'
<1>1. ObjIndex' = ObjIndex
  BY SteadyTrees
<1>2. GuiTypes'
  BY <1>1 DEF GuiTypes, Steady
<1>3. TreesOwned'
  BY <1>1 DEF TreesOwned, Steady
<1>4. QED
  BY <1>2, <1>3

\* The halves of the deletions, if each application stays in the one it is in or in none.
LEMMA SteadyHalves ==
  ASSUME GuiTypes, HalfwayForgotten, Steady,
         \A a \in GuiApp :
           \/ halfway'[a] = halfway[a] /\ (appState'[a] = "gone" => appState[a] = "gone")
           \/ halfway'[a] = NoCall
           \/ halfway'[a].at = "searching" /\ appState'[a] # "gone"
  PROVE  HalfwayForgotten'
<1> SUFFICES ASSUME NEW a \in GuiApp
             PROVE  /\ appState'[a] = "gone" => halfway'[a] = NoCall
                    /\ halfway'[a].at \in {"deleting", "cleaning"} =>
                         /\ halfway'[a].obj \in given'[a]
                         /\ \A n \in nodes' : Above(halfway[a].obj, n.obj)' =>
                              halfway'[a].at = "cleaning" /\ n.obj = halfway'[a].obj
  BY DEF HalfwayForgotten, NoCall
<1>1. nodes' \subseteq nodes /\ given' = given
  BY DEF Steady
<1>2. CASE halfway'[a] = halfway[a] /\ (appState'[a] = "gone" => appState[a] = "gone")
  BY <1>1, <1>2, SteadyTrees DEF HalfwayForgotten
<1>3. CASE halfway'[a] = NoCall
  BY <1>3 DEF NoCall
<1>4. CASE halfway'[a].at = "searching" /\ appState'[a] # "gone"
  BY <1>4
<1>5. QED
  BY <1>2, <1>3, <1>4

\* The names: no node stays of what is deleted at once.
LEMMA SteadyNames ==
  ASSUME GuiTypes, NodesNameWidgets, Steady,
         \A n \in nodes' : objs[n.obj].live =>
           objs'[n.obj].live \/ \E k \in ObjIndex : objs'[k].later = "done" /\ Above(k, n.obj)
  PROVE  NodesNameWidgets'
<1> SUFFICES ASSUME NEW n \in nodes'
             PROVE  objs'[n.obj].live
                      \/ \E k \in ObjIndex' : objs'[k].later = "done" /\ Above(k, n.obj)'
  BY DEF NodesNameWidgets
<1>1. n \in nodes /\ n.obj \in ObjIndex
  BY DEF Steady, GuiTypes
<1>2. CASE objs[n.obj].live
  BY <1>2, SteadyTrees
<1>3. CASE \E k \in ObjIndex : objs[k].later = "done" /\ Above(k, n.obj)
  BY <1>3, SteadyTrees DEF Steady
<1>4. QED
  BY <1>1, <1>2, <1>3 DEF NodesNameWidgets

\* The cleanups that have been: who is running touches nothing of who is gone, and what
\* is deleted later takes all below it.
LEMMA SteadyCleanups ==
  ASSUME GuiTypes, TreesOwned, CleanupReachesAll, Steady, appState' = appState,
         \A k \in ObjIndex :
           objs'[k].inner = objs[k].inner
             \/ \E a \in GuiApp : k \in given[a] /\ appState[a] = "running",
         \A k \in ObjIndex : objs[k].live /\ ~objs'[k].live =>
           \E o \in ObjIndex :
             /\ Above(o, k)
             /\ \/ \E a \in GuiApp : o \in given[a] /\ appState[a] = "running"
                \/ objs'[o].later = "done" /\ \A j \in ObjIndex : Above(o, j) => ~objs'[j].live
  PROVE  CleanupReachesAll'
<1> SUFFICES ASSUME NEW n \in nodes', appState'[n.owner] = "gone", objs'[n.obj].live, ~wild'
             PROVE  \E k \in ObjIndex' :
                      /\ Above(n.obj, k)'
                      /\ \/ objs'[k].inner \/ objs'[k].later = "done"
                         \/ objs'[k].live /\ ~\E m \in nodes' : m.obj = k
  BY DEF CleanupReachesAll
<1>1. /\ n \in nodes /\ n.obj \in ObjIndex /\ n.owner \in GuiApp /\ n.obj \in given[n.owner]
      /\ appState[n.owner] = "gone" /\ objs[n.obj].live /\ ~wild /\ nodes' \subseteq nodes
  BY DEF Steady, GuiTypes, TreesOwned
<1>2. PICK k \in ObjIndex : /\ Above(n.obj, k)
                            /\ \/ objs[k].inner \/ objs[k].later = "done"
                               \/ objs[k].live /\ ~\E m \in nodes : m.obj = k
  BY <1>1 DEF CleanupReachesAll
<1>3. ASSUME NEW a \in GuiApp, n.obj \in given[a], appState[a] = "running"
      PROVE  FALSE
  BY <1>1, <1>3 DEF TreesOwned
<1>4. CASE objs[k].later = "done"
  BY <1>2, <1>4, SteadyTrees DEF Steady
<1>5. CASE objs[k].inner
  <2>1. CASE objs'[k].inner = objs[k].inner
    BY <1>2, <1>5, <2>1, SteadyTrees
  <2>2. ASSUME NEW a \in GuiApp, k \in given[a], appState[a] = "running"
        PROVE  FALSE
    BY <1>2, <1>3, <2>2, OneOwner
  <2>3. QED
    BY <2>1, <2>2
<1>6. CASE objs[k].live /\ ~\E m \in nodes : m.obj = k
  <2>1. CASE objs'[k].live
    BY <1>1, <1>2, <1>6, <2>1, SteadyTrees
  <2>2. CASE ~objs'[k].live
    <3>1. PICK o \in ObjIndex :
             /\ Above(o, k)
             /\ \/ \E a \in GuiApp : o \in given[a] /\ appState[a] = "running"
                \/ objs'[o].later = "done" /\ \A j \in ObjIndex : Above(o, j) => ~objs'[j].live
      BY <1>6, <2>2
    <3>2. ASSUME NEW a \in GuiApp, o \in given[a], appState[a] = "running"
          PROVE  FALSE
      <4>1. n.obj # k
        BY <1>1, <1>6
      <4>2. CASE o = k
        BY <1>2, <1>3, <3>2, <4>2, OneOwner
      <4>3. CASE o # k
        <5>1. PICK b \in GuiApp : o \in given[b] /\ n.obj \in given[b]
          BY <1>2, <3>1, <4>1, <4>3, OneOwner
        <5>2. b = a
          BY <3>2, <5>1 DEF TreesOwned
        <5>3. QED
          BY <1>3, <3>2, <5>1, <5>2
      <4>4. QED
        BY <4>2, <4>3
    <3>3. CASE objs'[o].later = "done" /\ \A j \in ObjIndex : Above(o, j) => ~objs'[j].live
      <4>1. Above(n.obj, o) \/ Above(o, n.obj)
        BY <1>2, <3>1, TreeFacts
      <4>2. Above(n.obj, o)
        BY <1>1, <3>3, <4>1
      <4>3. QED
        BY <3>3, <4>2, SteadyTrees
    <3>4. QED
      BY <3>1, <3>2, <3>3
  <2>3. QED
    BY <2>1, <2>2
<1>7. QED
  BY <1>2, <1>4, <1>5, <1>6

LEMMA Named ==
  ASSUME GuiTypes, TreesOwned, NEW id, Valid(id)
  PROVE  ObjOf(id) = id /\ id \in ObjIndex
<1> DEFINE c == CHOOSE n \in nodes : n.id = id
<1>1. \E n \in nodes : n.id = id
  BY DEF Valid
<1>2. c \in nodes /\ c.id = id
  BY <1>1, Zenon
<1>3. ObjOf(id) = c.obj
  BY DEF ObjOf
<1>4. c.id = c.obj /\ c.obj \in ObjIndex
  BY <1>2 DEF GuiTypes, TreesOwned
<1>5. QED
  BY <1>2, <1>3, <1>4

\* A step that leaves the widgets, the list and the calls.
LEMMA Quiet ==
  ASSUME GuiInv, UNCHANGED <<objs, nodes, appState, given, halfway>>,
         wild' \in BOOLEAN, wild => wild'
  PROVE  GuiInv'
<1> USE DEF GuiInv
<1>1. Steady
  BY DEF Steady, GuiTypes
<1>2. GuiTypes' /\ TreesOwned'
  BY <1>1, SteadyOwned DEF GuiTypes
<1>3. HalfwayForgotten'
  BY <1>1, SteadyHalves
<1>4. NodesNameWidgets'
  BY <1>1, SteadyNames
<1>5. CleanupReachesAll'
  BY <1>1, SteadyCleanups
<1>6. QED
  BY <1>2, <1>3, <1>4, <1>5

\* A widget is made, with a node or without.
LEMMA Grown ==
  ASSUME GuiInv, NEW a \in GuiApp, appState[a] = "running", halfway[a] = NoCall,
         NEW w \in Widget, w.live, w.later = "no", w.parent \in given[a] \cup {0},
         objs' = Append(objs, w), AddNode(a) \/ AddNodeFails,
         UNCHANGED <<appState, halfway, wild>>
  PROVE  GuiInv'
<1> DEFINE N == Len(objs) + 1
<1> USE DEF GuiInv
<1>1. /\ Len(objs) \in Nat /\ ObjIndex = 1 .. Len(objs) /\ ObjIndex' = 1 .. N
      /\ objs' \in Seq(Widget) /\ Len(objs') = N /\ objs'[N] = w
      /\ \A k \in ObjIndex : k # N /\ k \in 1 .. N /\ objs'[k] = objs[k]
  <2>1. objs \in Seq(Widget) /\ Len(objs) \in Nat
    BY DEF GuiTypes
  <2>2. /\ objs' \in Seq(Widget) /\ Len(objs') = N /\ objs'[N] = w
        /\ \A k \in 1 .. Len(objs) : objs'[k] = objs[k]
    BY <2>1, AppendProperties
  <2>3. QED
    BY <2>1, <2>2 DEF ObjIndex
<1>2. /\ w.parent \in 0 .. Len(objs)
      /\ \A b \in GuiApp : given[b] \subseteq ObjIndex /\ N \notin given[b]
  BY <1>1 DEF GuiTypes
<1>3. /\ Forest(Parents', N)
      /\ \A k \in ObjIndex : \A o : Above(o, k)' <=> Above(o, k)
      /\ \A k, o : k = N /\ Above(o, k)' => o = N \/ (w.parent # 0 /\ Above(o, w.parent))
  <2>1. Forest(Parents, Len(objs))
    BY TreeFacts
  <2>2. /\ Parents' \in [1 .. Len(objs) + 1 -> Nat] /\ Parents'[Len(objs) + 1] = w.parent
        /\ \A i \in 1 .. Len(objs) : Parents'[i] = Parents[i]
    <3>1. Parents' = [k \in 1 .. N |-> objs'[k].parent]
      BY <1>1 DEF Parents
    <3>2. \A k \in 1 .. N : objs'[k] \in Widget /\ objs'[k].parent \in Nat
      <4>1. \A k \in 1 .. N : objs'[k] \in Widget
        BY <1>1
      <4>2. \A v \in Widget : v.parent \in Nat
        BY DEF Widget
      <4>3. QED
        BY <4>1, <4>2
    <3>3. \A i \in 1 .. Len(objs) : Parents[i] = objs[i].parent
      BY <1>1 DEF Parents
    <3>4. QED
      BY <1>1, <3>1, <3>2, <3>3
  <2>3. /\ Forest(Parents', Len(objs) + 1)
        /\ \A k \in 1 .. Len(objs) : \A o : Up(Parents', o, k) <=> Up(Parents, o, k)
        /\ \A o : Up(Parents', o, Len(objs) + 1)
             => o = Len(objs) + 1 \/ (w.parent # 0 /\ Up(Parents, o, w.parent))
    BY <1>1, <1>2, <2>1, <2>2, UpGrown
  <2>4. \A k \in ObjIndex : \A o : Above(o, k)' <=> Above(o, k)
    BY <1>1, <2>3, AboveIsUp
  <2>5. ASSUME NEW k, NEW o, k = N, Above(o, k)'
        PROVE  o = N \/ (w.parent # 0 /\ Above(o, w.parent))
    <3>1. Up(Parents', o, k)
      BY <2>5, AboveIsUp
    <3>2. o = N \/ (w.parent # 0 /\ Up(Parents, o, w.parent))
      BY <2>3, <2>5, <3>1
    <3>3. QED
      BY <3>2, AboveIsUp
  <2>6. QED
    BY <2>3, <2>4, <2>5
<1> DEFINE new == [id |-> N, obj |-> N, owner |-> a]
<1>4. /\ \/ nodes' = nodes \cup {new} /\ given' = [given EXCEPT ![a] = @ \cup {N}]
         \/ nodes' = nodes /\ given' = given
      /\ \A b \in GuiApp : given[b] \subseteq given'[b] /\ given'[b] \subseteq given[b] \cup {N}
      /\ \A b \in GuiApp : N \in given'[b] => b = a
      /\ \A n \in nodes' : n \in nodes \/ n = new
  <2>1. CASE AddNode(a)
    <3>1. nodes' = nodes \cup {new} /\ given' = [given EXCEPT ![a] = @ \cup {N}]
      BY <2>1 DEF AddNode, NextId
    <3>2. QED
      BY <1>2, <3>1 DEF GuiTypes
  <2>2. CASE AddNodeFails
    BY <1>2, <2>2 DEF AddNodeFails
  <2>3. QED
    BY <2>1, <2>2
<1>5. GuiTypes'
  <2>1. \A k \in ObjIndex' :
          objs'[k].parent < k /\ (objs'[k].later = "done" => ~objs'[k].live)
    BY <1>1, <1>2 DEF GuiTypes
  <2>2. nodes' \subseteq [id : ObjIndex', obj : ObjIndex', owner : GuiApp]
    BY <1>1, <1>4 DEF GuiTypes
  <2>3. given' \in [GuiApp -> SUBSET ObjIndex']
    BY <1>1, <1>4 DEF GuiTypes
  <2>4. QED
    BY <1>1, <2>1, <2>2, <2>3 DEF GuiTypes
<1>6. TreesOwned'
  <2>1. \A n \in nodes' : n.id = n.obj /\ n.obj \in given'[n.owner]
    BY <1>4 DEF TreesOwned, GuiTypes
  <2>2. ASSUME NEW b \in GuiApp, NEW c \in GuiApp, b # c
        PROVE  given'[b] \cap given'[c] = {}
    BY <1>2, <1>4, <2>2 DEF TreesOwned
  <2>3. ASSUME NEW k \in ObjIndex', objs'[k].parent # 0
        PROVE  \E b \in GuiApp : /\ objs'[k].parent \in given'[b]
                                 /\ \A c \in GuiApp : k \in given'[c] => c = b
    <3>1. CASE k = N
      BY <1>1, <1>4, <2>3, <3>1
    <3>2. CASE k # N
      <4>1. k \in ObjIndex /\ objs'[k] = objs[k]
        BY <1>1, <3>2
      <4>2. PICK b \in GuiApp : /\ objs[k].parent \in given[b]
                                /\ \A c \in GuiApp : k \in given[c] => c = b
        BY <2>3, <4>1 DEF TreesOwned
      <4>3. QED
        BY <1>4, <3>2, <4>1, <4>2
    <3>3. QED
      BY <3>1, <3>2
  <2>4. QED
    BY <2>1, <2>2, <2>3 DEF TreesOwned
<1>7. HalfwayForgotten'
  <2> SUFFICES ASSUME NEW b \in GuiApp, halfway[b].at \in {"deleting", "cleaning"}
               PROVE  /\ halfway[b].obj \in given'[b]
                      /\ \A n \in nodes' : Above(halfway[b].obj, n.obj)' =>
                           halfway[b].at = "cleaning" /\ n.obj = halfway[b].obj
    BY DEF HalfwayForgotten
  <2>1. halfway[b].obj \in given[b] /\ halfway[b].obj \in ObjIndex
    BY <1>2 DEF HalfwayForgotten
  <2>2. b # a
    BY DEF NoCall
  <2>3. ASSUME NEW n \in nodes', Above(halfway[b].obj, n.obj)'
        PROVE  halfway[b].at = "cleaning" /\ n.obj = halfway[b].obj
    <3>1. CASE n \in nodes
      BY <1>3, <2>3, <3>1 DEF HalfwayForgotten, GuiTypes
    <3>2. CASE n.obj = N
      <4>1. halfway'[b].obj = N \/ (w.parent # 0 /\ Above(halfway'[b].obj, w.parent))
        BY <1>3, <2>3, <3>2
      <4>4. w.parent # 0 /\ Above(halfway[b].obj, w.parent)
        BY <1>1, <2>1, <4>1
      <4>2. halfway[b].obj \in given[a]
        BY <4>4, OneOwner
      <4>3. QED
        BY <2>1, <2>2, <4>2 DEF TreesOwned
    <3>3. QED
      BY <1>4, <3>1, <3>2
  <2>4. QED
    BY <1>4, <2>1, <2>3
<1>8. NodesNameWidgets'
  <2> SUFFICES ASSUME NEW n \in nodes'
               PROVE  objs'[n.obj].live
                        \/ \E k \in ObjIndex' : objs'[k].later = "done" /\ Above(k, n.obj)'
    BY DEF NodesNameWidgets
  <2>1. CASE n \in nodes
    <3>1. n.obj \in ObjIndex
      BY <2>1 DEF GuiTypes
    <3>2. QED
      BY <1>1, <1>3, <2>1, <3>1 DEF NodesNameWidgets
  <2>2. CASE n = new
    <3>1. n.obj = N /\ N \in ObjIndex'
      BY <1>1, <2>2
    <3>2. QED
      BY <1>1, <3>1
  <2>3. n \in nodes \/ n = new
    BY <1>4
  <2>4. QED
    BY <2>1, <2>2, <2>3
<1>9. CleanupReachesAll'
  <2> SUFFICES ASSUME NEW n \in nodes', appState[n.owner] = "gone", objs'[n.obj].live, ~wild
               PROVE  \E k \in ObjIndex' :
                        /\ Above(n.obj, k)'
                        /\ \/ objs'[k].inner \/ objs'[k].later = "done"
                           \/ objs'[k].live /\ ~\E m \in nodes' : m.obj = k
    BY DEF CleanupReachesAll
  <2>1. n \in nodes /\ n.obj \in ObjIndex
    BY <1>4 DEF GuiTypes
  <2>2. PICK k \in ObjIndex : /\ Above(n.obj, k)
                              /\ \/ objs[k].inner \/ objs[k].later = "done"
                                 \/ objs[k].live /\ ~\E m \in nodes : m.obj = k
    BY <1>1, <2>1 DEF CleanupReachesAll
  <2>3. objs'[k] = objs[k] /\ k \in ObjIndex' /\ k # N /\ Above(n.obj, k)'
    BY <1>1, <1>3, <2>2
  <2>4. (\E m \in nodes' : m.obj = k) => \E m \in nodes : m.obj = k
    BY <1>4, <2>3
  <2>5. QED
    BY <2>2, <2>3, <2>4
<1>10. QED
  BY <1>5, <1>6, <1>7, <1>8, <1>9

-----------------------------------------------------------------------------
(* One lemma for each call and each step of the library's thread.          *)

LEMMA CreateObjectKeeps ==
  ASSUME GuiInv, NEW a \in GuiApp, NEW class \in GuiClass, CreateObject(a, class)
  PROVE  GuiInv'
<1> USE DEF GuiInv
<1>1. CASE UNCHANGED <<objs, nodes, appState, given, halfway>>
             /\ wild' \in BOOLEAN /\ (wild => wild')
  BY <1>1, Quiet
<1>2. ASSUME NEW par \in given[a] \cup {0}, NEW copy \in given[a] \cup {0},
             par # 0 => Valid(par),
             objs' = Append(objs, NewObj(class, IF par = 0 THEN 0 ELSE ObjOf(par),
                                         copy # 0 /\ objs[ObjOf(copy)].hooked)),
             AddNode(a) \/ AddNodeFails, UNCHANGED <<appState, events, handlers, halfway, wild>>
      PROVE  GuiInv'
  <2> DEFINE at == IF par = 0 THEN 0 ELSE ObjOf(par)
             w  == NewObj(class, at, copy # 0 /\ objs[ObjOf(copy)].hooked)
  <2>1. at \in given[a] \cup {0} /\ at \in Nat
    <3>1. par # 0 => ObjOf(par) = par /\ par \in ObjIndex
      BY <1>2, Named
    <3>2. QED
      BY <3>1 DEF ObjIndex
  <2>2. w \in Widget /\ w.live /\ w.later = "no" /\ w.parent = at
    BY <2>1 DEF NewObj, Widget
  <2>3. appState[a] = "running" /\ halfway[a] = NoCall
    BY DEF CreateObject, MayCall, Runs
  <2>4. QED
    BY <1>2, <2>1, <2>2, <2>3, Grown
<1>3. QED
  <2>1. wild \in BOOLEAN /\ ~wild
    BY DEF GuiTypes, CreateObject, MayCall, Runs
  <2>2. PICK par \in given[a] \cup {0}, copy \in given[a] \cup {0} :
          LET bad == \E id \in {par, copy} : id # 0 /\ ~Valid(id)
              at  == IF par = 0 THEN 0 ELSE ObjOf(par)
          IN IF bad THEN Throw
             ELSE IF \E id \in {par, copy} : id # 0 /\ ~objs[ObjOf(id)].live
             THEN wild' = TRUE /\ UNCHANGED <<objs, nodes, appState, given, events,
                                              handlers, halfway>>
             ELSE /\ objs' = Append(objs, NewObj(class, at, copy # 0 /\ objs[ObjOf(copy)].hooked))
                  /\ AddNode(a) \/ AddNodeFails
                  /\ UNCHANGED <<appState, events, handlers, halfway, wild>>
    BY Zenon DEF CreateObject
  <2>3. CASE Throw
    BY <1>1, <2>1, <2>3 DEF Throw, guiVars
  <2>4. CASE wild' = TRUE /\ UNCHANGED <<objs, nodes, appState, given, events, handlers, halfway>>
    BY <1>1, <2>4
  <2>5. QED
    BY <1>2, <2>2, <2>3, <2>4

\* A call on an object does nothing, ends in memory that is gone, or goes through.
LEMMA AddBtnKeeps ==
  ASSUME GuiInv, NEW a \in GuiApp, NEW id \in given[a], AddBtn(a, id)
  PROVE  GuiInv'
<1> USE DEF GuiInv
<1>0. wild \in BOOLEAN
  BY DEF GuiTypes
<1>1. CASE UNCHANGED <<objs, nodes, appState, given, halfway>>
             /\ wild' \in BOOLEAN /\ (wild => wild')
  BY <1>1, Quiet
<1>2. ASSUME MayCall(a), Valid(id), objs' = Append(objs, NewObj("entry", ObjOf(id), FALSE)),
             AddNode(a) \/ AddNodeFails, UNCHANGED <<appState, events, handlers, halfway, wild>>
      PROVE  GuiInv'
  <2> DEFINE w == NewObj("entry", ObjOf(id), FALSE)
  <2>1. ObjOf(id) = id /\ id \in Nat
    BY <1>2, Named DEF ObjIndex
  <2>2. w \in Widget /\ w.live /\ w.later = "no" /\ w.parent = id
    BY <2>1 DEF NewObj, Widget
  <2>3. QED
    BY <1>2, <2>2, Grown DEF MayCall, Runs
<1>3. QED
  BY <1>0, <1>1, <1>2 DEF AddBtn, CallOn, Throw, guiVars

LEMMA ShowKeeps ==
  ASSUME GuiInv, NEW a \in GuiApp, NEW id \in given[a],
         \/ \E class \in DOMAIN Calls : \E func \in DOMAIN Calls[class] : Show(a, class, func, id)
         \/ \E base \in given[a] \cup {0} : Align(a, id, base)
  PROVE  GuiInv'
<1>1. wild \in BOOLEAN
  BY DEF GuiInv, GuiTypes
<1>2. UNCHANGED <<objs, nodes, appState, given, halfway>> /\ (wild' = wild \/ wild' = TRUE)
  <2>1. ASSUME NEW class \in DOMAIN Calls, NEW func \in DOMAIN Calls[class],
               Show(a, class, func, id)
        PROVE  UNCHANGED <<objs, nodes, appState, given, halfway>> /\ (wild' = wild \/ wild' = TRUE)
    BY <2>1 DEF Show, CallOn, Throw, guiVars
  <2>2. ASSUME NEW base \in given[a] \cup {0}, Align(a, id, base)
        PROVE  UNCHANGED <<objs, nodes, appState, given, halfway>> /\ (wild' = wild \/ wild' = TRUE)
    BY <2>2 DEF Align, CallOn, Throw, guiVars
  <2>3. QED
    BY <2>1, <2>2
<1>3. QED
  BY <1>1, <1>2, Quiet

\* _obj_del_recursive: nothing of the tree stays in the list.
LEMMA DelKeeps ==
  ASSUME GuiInv, NEW a \in GuiApp, NEW id \in given[a], Del(a, id)
  PROVE  GuiInv'
<1> USE DEF GuiInv
<1>0. wild \in BOOLEAN
  BY DEF GuiTypes
<1>1. CASE UNCHANGED <<objs, nodes, appState, given, halfway>>
             /\ wild' \in BOOLEAN /\ (wild => wild')
  BY <1>1, Quiet
<1>2. ASSUME MayCall(a), Valid(id), ForgetTree(ObjOf(id)),
             halfway' = [halfway EXCEPT ![a] = [at |-> "deleting", obj |-> ObjOf(id)]],
             UNCHANGED <<objs, appState, given, events, handlers, wild>>
      PROVE  GuiInv'
  <2>1. ObjOf(id) = id /\ id \in ObjIndex
    BY <1>2, Named
  <2>2. nodes' \subseteq nodes /\ \A n \in nodes' : n.obj \in ObjIndex /\ ~Above(id, n.obj)
    BY <1>2, <2>1 DEF ForgetTree, Without, GuiTypes
  <2>3. Steady
    BY <1>0, <1>2, <2>2 DEF Steady, GuiTypes
  <2>4. halfway' \in [GuiApp -> [at : {"none", "deleting", "cleaning", "searching"}, obj : Nat]]
    BY <1>2, <2>1 DEF GuiTypes, ObjIndex
  <2>5. GuiTypes' /\ TreesOwned'
    BY <1>2, <2>3, <2>4, SteadyOwned DEF GuiTypes
  <2>6. HalfwayForgotten'
    <3> SUFFICES ASSUME NEW b \in GuiApp
                 PROVE  /\ appState'[b] = "gone" => halfway'[b] = NoCall
                        /\ halfway'[b].at \in {"deleting", "cleaning"} =>
                             /\ halfway'[b].obj \in given'[b]
                             /\ \A n \in nodes' : Above(halfway[b].obj, n.obj)' =>
                                  halfway'[b].at = "cleaning" /\ n.obj = halfway'[b].obj
      BY DEF HalfwayForgotten, NoCall
    <3>1. CASE b = a
      <4>1. halfway'[b] = [at |-> "deleting", obj |-> id] /\ appState'[b] = "running"
        BY <1>2, <2>1, <3>1 DEF GuiTypes, MayCall, Runs
      <4>2. \A n \in nodes' : ~Above(halfway[b].obj, n.obj)'
        BY <2>2, <2>3, <4>1, SteadyTrees
      <4>3. QED
        BY <1>2, <3>1, <4>1, <4>2
    <3>2. CASE b # a
      <4>1. halfway'[b] = halfway[b]
        BY <1>2, <3>2 DEF GuiTypes
      <4>2. QED
        BY <1>2, <2>2, <2>3, <4>1, SteadyTrees DEF HalfwayForgotten
    <3>3. QED
      BY <3>1, <3>2
  <2>7. NodesNameWidgets'
    BY <1>2, <2>3, SteadyNames
  <2>8. CleanupReachesAll'
    BY <1>2, <2>3, SteadyCleanups
  <2>9. QED
    BY <2>5, <2>6, <2>7, <2>8
<1>3. QED
  BY <1>0, <1>1, <1>2 DEF Del, CallOn, Throw, guiVars

\* _obj_clean_recursive: of the tree only the object itself stays in the list.
LEMMA CleanKeeps ==
  ASSUME GuiInv, NEW a \in GuiApp, NEW id \in given[a], Clean(a, id)
  PROVE  GuiInv'
<1> USE DEF GuiInv
<1>0. wild \in BOOLEAN
  BY DEF GuiTypes
<1>1. CASE UNCHANGED <<objs, nodes, appState, given, halfway>>
             /\ wild' \in BOOLEAN /\ (wild => wild')
  BY <1>1, Quiet
<1>2. ASSUME MayCall(a), Valid(id),
             nodes' = Without({k \in ObjIndex : k # ObjOf(id) /\ Above(ObjOf(id), k)}),
             halfway' = [halfway EXCEPT ![a] = [at |-> "cleaning", obj |-> ObjOf(id)]],
             UNCHANGED <<objs, appState, given, events, handlers, wild>>
      PROVE  GuiInv'
  <2>1. ObjOf(id) = id /\ id \in ObjIndex
    BY <1>2, Named
  <2>2. nodes' \subseteq nodes /\ \A n \in nodes' : n.obj \in ObjIndex /\ (Above(id, n.obj) => n.obj = id)
    BY <1>2, <2>1 DEF Without, GuiTypes
  <2>3. Steady
    BY <1>0, <1>2, <2>2 DEF Steady, GuiTypes
  <2>4. halfway' \in [GuiApp -> [at : {"none", "deleting", "cleaning", "searching"}, obj : Nat]]
    BY <1>2, <2>1 DEF GuiTypes, ObjIndex
  <2>5. GuiTypes' /\ TreesOwned'
    BY <1>2, <2>3, <2>4, SteadyOwned DEF GuiTypes
  <2>6. HalfwayForgotten'
    <3> SUFFICES ASSUME NEW b \in GuiApp
                 PROVE  /\ appState'[b] = "gone" => halfway'[b] = NoCall
                        /\ halfway'[b].at \in {"deleting", "cleaning"} =>
                             /\ halfway'[b].obj \in given'[b]
                             /\ \A n \in nodes' : Above(halfway[b].obj, n.obj)' =>
                                  halfway'[b].at = "cleaning" /\ n.obj = halfway'[b].obj
      BY DEF HalfwayForgotten, NoCall
    <3>1. CASE b = a
      <4>1. halfway'[b] = [at |-> "cleaning", obj |-> id] /\ appState'[b] = "running"
        BY <1>2, <2>1, <3>1 DEF GuiTypes, MayCall, Runs
      <4>2. \A n \in nodes' : Above(halfway[b].obj, n.obj)' => n.obj = id
        BY <2>2, <2>3, <4>1, SteadyTrees
      <4>3. QED
        BY <1>2, <3>1, <4>1, <4>2
    <3>2. CASE b # a
      <4>1. halfway'[b] = halfway[b]
        BY <1>2, <3>2 DEF GuiTypes
      <4>2. QED
        BY <1>2, <2>2, <2>3, <4>1, SteadyTrees DEF HalfwayForgotten
    <3>3. QED
      BY <3>1, <3>2
  <2>7. NodesNameWidgets'
    BY <1>2, <2>3, SteadyNames
  <2>8. CleanupReachesAll'
    BY <1>2, <2>3, SteadyCleanups
  <2>9. QED
    BY <2>5, <2>6, <2>7, <2>8
<1>3. QED
  BY <1>0, <1>1, <1>2 DEF Clean, CallOn, Throw, guiVars

LEMMA Deleted ==
  ASSUME GuiTypes, NEW tops
  PROVE  /\ DeleteTrees(tops) \in Seq(Widget) /\ Len(DeleteTrees(tops)) = Len(objs)
         /\ \A k \in ObjIndex :
              /\ DeleteTrees(tops)[k].parent = objs[k].parent
              /\ DeleteTrees(tops)[k].inner = objs[k].inner
              /\ DeleteTrees(tops)[k].later = objs[k].later
              /\ DeleteTrees(tops)[k].live <=> objs[k].live /\ ~\E o \in tops : Above(o, k)
<1> DEFINE new == DeleteTrees(tops)
<1>1. /\ Len(objs) \in Nat /\ ObjIndex = 1 .. Len(objs)
      /\ \A k \in ObjIndex : objs[k] \in Widget
  BY DEF GuiTypes, ObjIndex
<1>2. new = [k \in 1 .. Len(objs) |-> IF \E o \in tops : Above(o, k) THEN Dead(k) ELSE objs[k]]
  BY <1>1 DEF DeleteTrees
<1> HIDE DEF new
<1>3. \A k \in ObjIndex :
        /\ new[k] \in Widget
        /\ new[k].parent = objs[k].parent /\ new[k].inner = objs[k].inner
        /\ new[k].later = objs[k].later
        /\ new[k].live <=> objs[k].live /\ ~\E o \in tops : Above(o, k)
  <2> SUFFICES ASSUME NEW k \in ObjIndex
               PROVE  /\ new[k] \in Widget
                      /\ new[k].parent = objs[k].parent /\ new[k].inner = objs[k].inner
                      /\ new[k].later = objs[k].later
                      /\ new[k].live <=> objs[k].live /\ ~\E o \in tops : Above(o, k)
    OBVIOUS
  <2>1. objs[k] \in Widget
    BY <1>1
  <2>2. CASE \E o \in tops : Above(o, k)
    BY <1>1, <1>2, <2>1, <2>2 DEF Dead, Widget
  <2>3. CASE ~\E o \in tops : Above(o, k)
    BY <1>1, <1>2, <2>1, <2>3 DEF Widget
  <2>4. QED
    BY <2>2, <2>3
<1>4. new \in [1 .. Len(objs) -> Widget]
  BY <1>1, <1>2, <1>3
<1>5. new \in Seq(Widget) /\ Len(new) = Len(objs)
  BY <1>1, <1>4
<1>6. QED
  BY <1>3, <1>5 DEF new

LEMMA FinishDelKeeps ==
  ASSUME GuiInv, NEW a \in GuiApp, FinishDel(a)
  PROVE  GuiInv'
<1> DEFINE o == halfway[a].obj
<1> USE DEF GuiInv
<1>1. /\ ~wild /\ appState[a] = "running" /\ halfway[a].at = "deleting"
      /\ objs' = DeleteTrees({o}) /\ halfway' = [halfway EXCEPT ![a] = NoCall]
      /\ UNCHANGED <<nodes, appState, given, wild>> /\ wild' \in BOOLEAN
  BY DEF FinishDel, Runs, GuiTypes
<1>2. o \in given[a] /\ o \in ObjIndex /\ \A n \in nodes : ~Above(o, n.obj)
  BY <1>1 DEF HalfwayForgotten, GuiTypes
<1>3. /\ objs' \in Seq(Widget) /\ Len(objs') = Len(objs)
      /\ \A k \in ObjIndex :
           /\ objs'[k].parent = objs[k].parent /\ objs'[k].inner = objs[k].inner
           /\ objs'[k].later = objs[k].later
           /\ objs'[k].live <=> objs[k].live /\ ~Above(o, k)
  BY <1>1, Deleted
<1>4. Steady
  BY <1>1, <1>3 DEF Steady, GuiTypes
<1>5. halfway' \in [GuiApp -> [at : {"none", "deleting", "cleaning", "searching"}, obj : Nat]]
  BY <1>1 DEF GuiTypes, NoCall
<1>6. GuiTypes' /\ TreesOwned'
  BY <1>1, <1>4, <1>5, SteadyOwned DEF GuiTypes
<1>7. HalfwayForgotten'
  <2>1. \A b \in GuiApp : halfway'[b] = halfway[b] \/ halfway'[b] = NoCall
    BY <1>1 DEF GuiTypes
  <2>2. QED
    BY <1>1, <1>4, <2>1, SteadyHalves
<1>8. NodesNameWidgets'
  <2>1. \A n \in nodes' : objs[n.obj].live => objs'[n.obj].live
    BY <1>1, <1>2, <1>3 DEF GuiTypes
  <2>2. QED
    BY <1>4, <2>1, SteadyNames
<1>9. CleanupReachesAll'
  <2>1. \A k \in ObjIndex : objs[k].live /\ ~objs'[k].live =>
          \E p \in ObjIndex : Above(p, k) /\ \E b \in GuiApp : p \in given[b] /\ appState[b] = "running"
    BY <1>1, <1>2, <1>3
  <2>2. QED
    BY <1>1, <1>3, <1>4, <2>1, SteadyCleanups
<1>10. QED
  BY <1>6, <1>7, <1>8, <1>9

LEMMA FinishCleanKeeps ==
  ASSUME GuiInv, NEW a \in GuiApp, FinishClean(a)
  PROVE  GuiInv'
<1> DEFINE o == halfway[a].obj
<1> USE DEF GuiInv
<1>1. /\ ~wild /\ appState[a] = "running" /\ halfway[a].at = "cleaning"
      /\ objs' = [DeleteTrees(Kids(o)) EXCEPT ![o].inner = FALSE]
      /\ halfway' = [halfway EXCEPT ![a] = NoCall]
      /\ UNCHANGED <<nodes, appState, given, wild>> /\ wild' \in BOOLEAN
  BY DEF FinishClean, Runs, GuiTypes
<1>2. o \in given[a] /\ o \in ObjIndex /\ \A n \in nodes : Above(o, n.obj) => n.obj = o
  BY <1>1 DEF HalfwayForgotten, GuiTypes
\* A child is below the object, and is not the object.
<1>3. \A p \in Kids(o) : \A k \in ObjIndex : Above(p, k) => Above(o, k) /\ k # o
  <2> SUFFICES ASSUME NEW p \in Kids(o), NEW k \in ObjIndex, Above(p, k)
               PROVE  Above(o, k) /\ k # o
    OBVIOUS
  <2>1. p \in ObjIndex /\ objs[p].parent = o /\ o < p
    BY DEF Kids, GuiTypes
  <2>2. Above(o, o) /\ p <= k
    BY <1>2, TreeFacts
  <2>3. Above(o, p)
    <3>1. Len(objs) \in Nat /\ Forest(Parents, Len(objs)) /\ Parents[p] = o
      BY <2>1, TreeFacts DEF Parents
    <3>2. Up(Parents, o, Parents[p]) /\ o # 0
      BY <1>2, <2>2, <3>1, AboveIsUp DEF ObjIndex
    <3>3. QED
      BY <2>1, <3>1, <3>2, AboveIsUp, UpFacts DEF ObjIndex
  <2>4. Above(o, k)
    BY <2>3, TreeFacts
  <2>5. QED
    BY <1>2, <2>1, <2>2, <2>4 DEF ObjIndex
<1>4. /\ objs' \in Seq(Widget) /\ Len(objs') = Len(objs)
      /\ \A k \in ObjIndex :
           /\ objs'[k].parent = objs[k].parent /\ (objs'[k].inner = objs[k].inner \/ k = o)
           /\ objs'[k].later = objs[k].later
           /\ objs'[k].live => objs[k].live
           /\ objs[k].live /\ ~objs'[k].live => Above(o, k) /\ k # o
  <2> DEFINE new == DeleteTrees(Kids(o))
  <2>1. /\ new \in Seq(Widget) /\ Len(new) = Len(objs)
        /\ \A k \in ObjIndex :
             /\ new[k].parent = objs[k].parent /\ new[k].inner = objs[k].inner
             /\ new[k].later = objs[k].later
             /\ new[k].live <=> objs[k].live /\ ~\E p \in Kids(o) : Above(p, k)
    BY Deleted
  <2>2. objs' = [new EXCEPT ![o].inner = FALSE]
    BY <1>1
  <2> HIDE DEF new
  <2>3. o \in 1 .. Len(new) /\ new[o] \in Widget /\ [new[o] EXCEPT !.inner = FALSE] \in Widget
    <3>1. o \in 1 .. Len(new)
      BY <1>2, <2>1 DEF ObjIndex
    <3>2. new[o] \in Widget
      BY <2>1, <3>1
    <3>3. QED
      BY <3>1, <3>2 DEF Widget
  <2>4. /\ objs' \in Seq(Widget) /\ Len(objs') = Len(new)
        /\ \A k \in ObjIndex :
             objs'[k] = IF k = o THEN [new[o] EXCEPT !.inner = FALSE] ELSE new[k]
    BY <2>1, <2>2, <2>3 DEF ObjIndex
  <2>5. ASSUME NEW k \in ObjIndex
        PROVE  /\ objs'[k].parent = objs[k].parent /\ (objs'[k].inner = objs[k].inner \/ k = o)
               /\ objs'[k].later = objs[k].later
               /\ objs'[k].live => objs[k].live
               /\ objs[k].live /\ ~objs'[k].live => Above(o, k) /\ k # o
    <3>1. /\ objs'[k].parent = new[k].parent /\ objs'[k].later = new[k].later
          /\ objs'[k].live = new[k].live /\ (objs'[k].inner = new[k].inner \/ k = o)
      BY <2>3, <2>4 DEF Widget
    <3>2. objs[k].live /\ (\E p \in Kids(o) : Above(p, k)) => Above(o, k) /\ k # o
      BY <1>3
    <3>3. QED
      BY <2>1, <3>1, <3>2
  <2>6. QED
    BY <2>1, <2>4, <2>5
<1>5. Steady
  BY <1>1, <1>4 DEF Steady, GuiTypes
<1>6. halfway' \in [GuiApp -> [at : {"none", "deleting", "cleaning", "searching"}, obj : Nat]]
  BY <1>1 DEF GuiTypes, NoCall
<1>7. GuiTypes' /\ TreesOwned'
  BY <1>1, <1>5, <1>6, SteadyOwned DEF GuiTypes
<1>8. HalfwayForgotten'
  <2>1. \A b \in GuiApp : halfway'[b] = halfway[b] \/ halfway'[b] = NoCall
    BY <1>1 DEF GuiTypes
  <2>2. QED
    BY <1>1, <1>5, <2>1, SteadyHalves
<1>9. NodesNameWidgets'
  <2>1. \A n \in nodes' : objs[n.obj].live => objs'[n.obj].live
    BY <1>1, <1>2, <1>4 DEF GuiTypes
  <2>2. QED
    BY <1>5, <2>1, SteadyNames
<1>10. CleanupReachesAll'
  <2>1. \A k \in ObjIndex : objs[k].live /\ ~objs'[k].live =>
          \E p \in ObjIndex : Above(p, k) /\ \E b \in GuiApp : p \in given[b] /\ appState[b] = "running"
    BY <1>1, <1>2, <1>4
  <2>2. \A k \in ObjIndex : objs'[k].inner = objs[k].inner
          \/ \E b \in GuiApp : k \in given[b] /\ appState[b] = "running"
    BY <1>1, <1>2, <1>4
  <2>3. QED
    BY <1>1, <1>5, <2>1, <2>2, SteadyCleanups
<1>11. QED
  BY <1>7, <1>8, <1>9, <1>10

\* A step that writes a field of one widget which no tree and no cleanup is made of.
LEMMA Marked ==
  ASSUME GuiInv, NEW o \in ObjIndex, NEW w \in Widget,
         w.parent = objs[o].parent, w.inner = objs[o].inner, w.live = objs[o].live,
         w.later = "done" <=> objs[o].later = "done",
         objs' = [objs EXCEPT ![o] = w],
         UNCHANGED <<nodes, appState, given, wild>>,
         halfway' \in [GuiApp -> [at : {"none", "deleting", "cleaning", "searching"}, obj : Nat]],
         \A a \in GuiApp : halfway'[a] = halfway[a] \/ halfway'[a] = NoCall
  PROVE  GuiInv'
<1> USE DEF GuiInv
<1>1. /\ objs' \in Seq(Widget) /\ Len(objs') = Len(objs)
      /\ \A k \in ObjIndex : objs'[k] = IF k = o THEN w ELSE objs[k]
  BY DEF GuiTypes, ObjIndex
<1>2. Steady
  BY <1>1 DEF Steady, GuiTypes
<1>3. GuiTypes' /\ TreesOwned'
  BY <1>2, SteadyOwned DEF GuiTypes
<1>4. HalfwayForgotten'
  BY <1>2, SteadyHalves
<1>5. NodesNameWidgets'
  <2>1. \A n \in nodes' : objs[n.obj].live => objs'[n.obj].live
    BY <1>1 DEF GuiTypes
  <2>2. QED
    BY <1>2, <2>1, SteadyNames
<1>6. CleanupReachesAll'
  BY <1>1, <1>2, SteadyCleanups
<1>7. QED
  BY <1>3, <1>4, <1>5, <1>6

LEMMA DelAsyncKeeps ==
  ASSUME GuiInv, NEW a \in GuiApp, NEW id \in given[a], DelAsync(a, id)
  PROVE  GuiInv'
<1> USE DEF GuiInv
<1>0. wild \in BOOLEAN
  BY DEF GuiTypes
<1>1. CASE UNCHANGED <<objs, nodes, appState, given, halfway>>
             /\ wild' \in BOOLEAN /\ (wild => wild')
  BY <1>1, Quiet
<1>2. ASSUME Valid(id), objs[ObjOf(id)].live,
             objs' = [objs EXCEPT ![ObjOf(id)].later = "asked"],
             UNCHANGED <<nodes, appState, given, events, handlers, halfway, wild>>
      PROVE  GuiInv'
  <2>1. ObjOf(id) = id /\ id \in ObjIndex
    BY <1>2, Named
  <2> DEFINE w == [objs[id] EXCEPT !.later = "asked"]
  <2>2. objs[id] \in Widget /\ objs[id].later # "done"
    BY <1>2, <2>1 DEF GuiTypes, ObjIndex
  <2>3. /\ w \in Widget /\ w.later = "asked" /\ w.parent = objs[id].parent
        /\ w.inner = objs[id].inner /\ w.live = objs[id].live
    BY <2>2 DEF Widget
  <2>4. objs' = [objs EXCEPT ![id] = w]
    BY <1>2, <2>1
  <2> HIDE DEF w
  <2>5. QED
    BY <1>2, <2>1, <2>2, <2>3, <2>4, Marked DEF GuiTypes
<1>3. QED
  BY <1>0, <1>1, <1>2 DEF DelAsync, CallOn, Throw, guiVars

LEMMA SetEventCbKeeps ==
  ASSUME GuiInv, NEW a \in GuiApp, NEW id \in given[a], SetEventCb(a, id)
  PROVE  GuiInv'
<1> USE DEF GuiInv
<1>1. /\ UNCHANGED <<objs, nodes, appState, given, wild>> /\ appState[a] = "running"
      /\ halfway' = [halfway EXCEPT ![a] = [at |-> "searching", obj |-> id]]
      /\ id \in Nat /\ wild \in BOOLEAN
  BY DEF SetEventCb, MayCall, Runs, GuiTypes, ObjIndex
<1>2. Steady
  BY <1>1 DEF Steady, GuiTypes
<1>3. /\ halfway' \in [GuiApp -> [at : {"none", "deleting", "cleaning", "searching"}, obj : Nat]]
      /\ halfway'[a].at = "searching" /\ \A b \in GuiApp : b # a => halfway'[b] = halfway[b]
  BY <1>1 DEF GuiTypes
<1>4. GuiTypes' /\ TreesOwned'
  BY <1>1, <1>2, <1>3, SteadyOwned DEF GuiTypes
<1>5. HalfwayForgotten'
  <2>1. \A b \in GuiApp :
           \/ halfway'[b] = halfway[b] /\ (appState'[b] = "gone" => appState[b] = "gone")
           \/ halfway'[b].at = "searching" /\ appState'[b] # "gone"
    BY <1>1, <1>3
  <2>2. QED
    BY <1>2, <2>1, SteadyHalves
<1>6. NodesNameWidgets'
  BY <1>1, <1>2, SteadyNames
<1>7. CleanupReachesAll'
  BY <1>1, <1>2, SteadyCleanups
<1>8. QED
  BY <1>4, <1>5, <1>6, <1>7

\* The call is over: the handler was in the list, or is now and the widget reports events.
LEMMA HandlerKeeps ==
  ASSUME GuiInv, NEW a \in GuiApp, HandlerFound(a) \/ SearchOn(a) \/ AddHandler(a)
  PROVE  GuiInv'
<1> USE DEF GuiInv
<1>0. wild \in BOOLEAN /\ objs \in Seq(Widget)
  BY DEF GuiTypes
<1>1. CASE SearchOn(a)
  BY <1>0, <1>1, Quiet DEF SearchOn, guiVars
<1>2. ASSUME HandlerFound(a) \/ AddHandler(a)
      PROVE  /\ halfway' \in [GuiApp -> [at : {"none", "deleting", "cleaning", "searching"}, obj : Nat]]
             /\ \A b \in GuiApp : halfway'[b] = halfway[b] \/ halfway'[b] = NoCall
             /\ UNCHANGED <<nodes, appState, given>>
  <2>1. halfway' = [halfway EXCEPT ![a] = NoCall] /\ UNCHANGED <<nodes, appState, given>>
    BY <1>2 DEF HandlerFound, AddHandler
  <2>2. QED
    BY <2>1 DEF GuiTypes, NoCall
\* Nothing but the call, or the call and a mark that memory is gone.
<1>3. ASSUME HandlerFound(a) \/ AddHandler(a), objs' = objs, wild' \in BOOLEAN, wild => wild'
      PROVE  GuiInv'
  <2>1. Steady
    BY <1>0, <1>2, <1>3 DEF Steady, GuiTypes
  <2>2. GuiTypes' /\ TreesOwned'
    BY <1>2, <1>3, <2>1, SteadyOwned DEF GuiTypes
  <2>3. HalfwayForgotten'
    BY <1>2, <1>3, <2>1, SteadyHalves
  <2>4. NodesNameWidgets'
    BY <1>3, <2>1, SteadyNames
  <2>5. CleanupReachesAll'
    BY <1>2, <1>3, <2>1, SteadyCleanups
  <2>6. QED
    BY <2>2, <2>3, <2>4, <2>5
<1>4. CASE HandlerFound(a)
  BY <1>0, <1>3, <1>4 DEF HandlerFound
<1>5. CASE AddHandler(a)
  <2> DEFINE id == halfway[a].obj
  <2>1. ~wild /\ UNCHANGED <<nodes, appState, given>>
    BY <1>5 DEF AddHandler, Searching, Runs
  <2>2. CASE ~Valid(id)
    BY <1>0, <1>3, <1>5, <2>2 DEF AddHandler
  <2>3. CASE Valid(id)
    <3>1. ObjOf(id) = id /\ id \in ObjIndex /\ objs[id] \in Widget
      BY <1>0, <2>3, Named DEF ObjIndex
    <3>2. /\ wild' = ~objs[id].live
          /\ objs' = IF wild' THEN objs ELSE [objs EXCEPT ![id].hooked = TRUE]
      BY <1>5, <2>3, <3>1 DEF AddHandler
    <3>3. CASE ~objs[id].live
      BY <1>3, <1>5, <2>1, <3>2, <3>3
    <3>4. CASE objs[id].live
      <4> DEFINE w == [objs[id] EXCEPT !.hooked = TRUE]
      <4>1. wild' = FALSE /\ wild' = wild
        BY <1>0, <2>1, <3>2, <3>4
      <4>2. /\ w \in Widget /\ w.later = objs[id].later /\ w.parent = objs[id].parent
            /\ w.inner = objs[id].inner /\ w.live = objs[id].live
        BY <3>1 DEF Widget
      <4>3. objs' = [objs EXCEPT ![id] = w]
        BY <3>1, <3>2, <4>1
      <4> HIDE DEF w
      <4>4. QED
        BY <1>2, <1>5, <3>1, <4>1, <4>2, <4>3, Marked
    <3>5. QED
      BY <3>3, <3>4
  <2>4. QED
    BY <2>2, <2>3
<1>6. QED
  BY <1>1, <1>4, <1>5

\* The library's thread deletes a widget, if it is still there, and all that is in it.
LEMMA AsyncDeleteKeeps ==
  ASSUME GuiInv, NEW o \in ObjIndex, AsyncDelete(o)
  PROVE  GuiInv'
<1> USE DEF GuiInv
<1>1. /\ wild = FALSE /\ wild' \in BOOLEAN
      /\ objs' = [DeleteTrees({o}) EXCEPT ![o].later = "done"]
      /\ UNCHANGED <<nodes, appState, given, halfway>>
  BY DEF AsyncDelete, GuiTypes
<1>2. /\ objs' \in Seq(Widget) /\ Len(objs') = Len(objs)
      /\ \A k \in ObjIndex :
           /\ objs'[k].parent = objs[k].parent /\ objs'[k].inner = objs[k].inner
           /\ objs'[k].later = IF k = o THEN "done" ELSE objs[k].later
           /\ objs'[k].live <=> objs[k].live /\ ~Above(o, k)
  <2> DEFINE new == DeleteTrees({o})
  <2>1. /\ new \in Seq(Widget) /\ Len(new) = Len(objs)
        /\ \A k \in ObjIndex :
             /\ new[k].parent = objs[k].parent /\ new[k].inner = objs[k].inner
             /\ new[k].later = objs[k].later
             /\ new[k].live <=> objs[k].live /\ ~Above(o, k)
    BY Deleted
  <2>2. objs' = [new EXCEPT ![o].later = "done"]
    BY <1>1
  <2> HIDE DEF new
  <2>3. o \in 1 .. Len(new) /\ new[o] \in Widget /\ [new[o] EXCEPT !.later = "done"] \in Widget
    <3>1. o \in 1 .. Len(new)
      BY <2>1 DEF ObjIndex
    <3>2. new[o] \in Widget
      BY <2>1, <3>1
    <3>3. QED
      BY <3>1, <3>2 DEF Widget
  <2>4. /\ objs' \in Seq(Widget) /\ Len(objs') = Len(new)
        /\ \A k \in ObjIndex :
             objs'[k] = IF k = o THEN [new[o] EXCEPT !.later = "done"] ELSE new[k]
    BY <2>1, <2>2, <2>3 DEF ObjIndex
  <2>5. QED
    BY <2>1, <2>3, <2>4 DEF Widget
<1>3. Above(o, o) /\ \A k \in ObjIndex : Above(o, k) => ~objs'[k].live
  BY <1>2, TreeFacts
<1>4. Steady
  <2>1. \A k \in ObjIndex :
          /\ objs'[k].parent = objs[k].parent
          /\ objs[k].later = "done" => objs'[k].later = "done"
          /\ objs'[k].later = "done" => ~objs'[k].live
          /\ objs'[k].live => objs[k].live
    BY <1>2, <1>3 DEF GuiTypes
  <2>2. QED
    BY <1>1, <1>2, <2>1 DEF Steady
<1>5. GuiTypes' /\ TreesOwned'
  BY <1>1, <1>4, SteadyOwned DEF GuiTypes
<1>6. HalfwayForgotten'
  BY <1>1, <1>4, SteadyHalves
<1>7. NodesNameWidgets'
  <2>1. \A n \in nodes' : objs[n.obj].live =>
           objs'[n.obj].live \/ \E k \in ObjIndex : objs'[k].later = "done" /\ Above(k, n.obj)
    BY <1>1, <1>2 DEF GuiTypes
  <2>2. QED
    BY <1>4, <2>1, SteadyNames
<1>8. CleanupReachesAll'
  <2>1. \A k \in ObjIndex : objs[k].live /\ ~objs'[k].live =>
          \E p \in ObjIndex :
            /\ Above(p, k)
            /\ \/ \E a \in GuiApp : p \in given[a] /\ appState[a] = "running"
               \/ objs'[p].later = "done" /\ \A j \in ObjIndex : Above(p, j) => ~objs'[j].live
    BY <1>2, <1>3
  <2>2. QED
    BY <1>1, <1>2, <1>4, <2>1, SteadyCleanups
<1>9. QED
  BY <1>5, <1>6, <1>7, <1>8

\* cleanup_object_list: what stays of the module has something below it that the list
\* does not have, or that is inside another widget.
LEMMA UninstallKeeps ==
  ASSUME GuiInv, NEW a \in GuiApp, Uninstall(a)
  PROVE  GuiInv'
<1> USE DEF GuiInv
<1>1. /\ ~wild /\ halfway[a] = NoCall /\ UNCHANGED <<given, halfway>>
      /\ appState' = [appState EXCEPT ![a] = "gone"]
      /\ appState' \in [GuiApp -> {"running", "gone"}]
      /\ \A b \in GuiApp : appState'[b] = "gone" => b = a \/ appState[b] = "gone"
  BY DEF Uninstall, MayCall, Runs, GuiTypes
<1>2. \A b \in GuiApp :
        \/ halfway'[b] = halfway[b] /\ (appState'[b] = "gone" => appState[b] = "gone")
        \/ halfway'[b] = NoCall
  BY <1>1
<1>3. CASE wild' = TRUE /\ UNCHANGED <<objs, nodes>>
  <2>1. Steady
    BY <1>1, <1>3 DEF Steady, GuiTypes
  <2>2. GuiTypes' /\ TreesOwned' /\ HalfwayForgotten'
    BY <1>1, <1>2, <2>1, SteadyOwned, SteadyHalves DEF GuiTypes
  <2>3. NodesNameWidgets'
    BY <1>3, <2>1, SteadyNames
  <2>4. CleanupReachesAll'
    BY <1>3 DEF CleanupReachesAll
  <2>5. QED
    BY <2>2, <2>3, <2>4
<1>4. CASE /\ ~\E n \in nodes : n.owner = a /\ ~objs[n.obj].live
           /\ UNCHANGED wild
           /\ objs' = [k \in ObjIndex |-> IF k \in CleanedUp(a) THEN Dead(k) ELSE objs[k]]
           /\ nodes' = Without(CleanedUp(a))
  <2>1. /\ Len(objs) \in Nat /\ ObjIndex = 1 .. Len(objs)
        /\ \A k \in ObjIndex : objs[k] \in Widget
    BY DEF GuiTypes, ObjIndex
  <2>2. \A k \in ObjIndex :
          /\ objs'[k] \in Widget
          /\ objs'[k].parent = objs[k].parent /\ objs'[k].inner = objs[k].inner
          /\ objs'[k].later = objs[k].later
          /\ objs'[k].live <=> objs[k].live /\ k \notin CleanedUp(a)
    <3> SUFFICES ASSUME NEW k \in ObjIndex
                 PROVE  /\ objs'[k] \in Widget
                        /\ objs'[k].parent = objs[k].parent /\ objs'[k].inner = objs[k].inner
                        /\ objs'[k].later = objs[k].later
                        /\ objs'[k].live <=> objs[k].live /\ k \notin CleanedUp(a)
      OBVIOUS
    <3>1. objs[k] \in Widget
      BY <2>1
    <3>2. CASE k \in CleanedUp(a)
      BY <1>4, <3>1, <3>2 DEF Dead, Widget
    <3>3. CASE k \notin CleanedUp(a)
      BY <1>4, <3>1, <3>3
    <3>4. QED
      BY <3>2, <3>3
  <2>3. objs' \in [1 .. Len(objs) -> Widget]
    BY <1>4, <2>1, <2>2
  <2>4. objs' \in Seq(Widget) /\ Len(objs') = Len(objs)
    BY <2>1, <2>3
  <2>5. nodes' \subseteq nodes /\ \A n \in nodes' : n.obj \in ObjIndex /\ n.obj \notin CleanedUp(a)
    BY <1>4 DEF Without, GuiTypes
  <2>6. Steady
    BY <1>1, <1>4, <2>2, <2>4, <2>5 DEF Steady, GuiTypes
  <2>7. GuiTypes' /\ TreesOwned' /\ HalfwayForgotten'
    BY <1>1, <1>2, <2>6, SteadyOwned, SteadyHalves DEF GuiTypes
  <2>8. NodesNameWidgets'
    BY <2>2, <2>5, <2>6, SteadyNames
  <2>9. CleanupReachesAll'
    <3> SUFFICES ASSUME NEW n \in nodes', appState'[n.owner] = "gone", objs'[n.obj].live
                 PROVE  \E k \in ObjIndex' :
                          /\ Above(n.obj, k)'
                          /\ \/ objs'[k].inner \/ objs'[k].later = "done"
                             \/ objs'[k].live /\ ~\E m \in nodes' : m.obj = k
      BY DEF CleanupReachesAll
    <3>1. n \in nodes /\ n.obj \in ObjIndex /\ n.owner \in GuiApp /\ n.obj \in given[n.owner]
            /\ objs[n.obj].live /\ n.obj \notin CleanedUp(a)
      BY <2>2, <2>5 DEF GuiTypes, TreesOwned
    <3>2. \E k \in ObjIndex : /\ Above(n.obj, k)
                              /\ \/ objs[k].inner \/ objs[k].later = "done"
                                 \/ objs[k].live /\ ~\E m \in nodes : m.obj = k
      <4>1. CASE n.owner # a
        BY <1>1, <3>1, <4>1 DEF CleanupReachesAll
      <4>2. CASE n.owner = a
        <5>1. PICK k \in ObjIndex : /\ objs[k].live /\ Above(n.obj, k)
                                    /\ \/ objs[k].inner
                                       \/ ~\E m \in nodes : m.obj = k /\ m.owner = a
          BY <3>1, <4>2 DEF CleanedUp
        <5>2. ASSUME NEW m \in nodes, m.obj = k
              PROVE  m.owner = a
          <6>1. m.owner \in GuiApp /\ k \in given[m.owner]
            BY <5>2 DEF GuiTypes, TreesOwned
          <6>2. n.obj \in given[m.owner]
            BY <5>1, <6>1, OneOwner
          <6>3. QED
            BY <3>1, <4>2, <6>1, <6>2 DEF TreesOwned
        <5>3. QED
          BY <5>1, <5>2
      <4>3. QED
        BY <4>1, <4>2
    <3>3. PICK k \in ObjIndex : /\ Above(n.obj, k)
                                /\ \/ objs[k].inner \/ objs[k].later = "done"
                                   \/ objs[k].live /\ ~\E m \in nodes : m.obj = k
      BY <3>2, Zenon
    <3>4. objs[k].live /\ (~\E m \in nodes : m.obj = k) => objs'[k].live
      <4>1. k \in CleanedUp(a) => \E m \in nodes : m.obj = k
        BY TreeFacts DEF CleanedUp
      <4>2. QED
        BY <2>2, <4>1
    <3>5. k \in ObjIndex' /\ Above(n.obj, k)'
      BY <2>6, <3>3, SteadyTrees
    <3>6. QED
      BY <2>2, <2>5, <3>3, <3>4, <3>5
  <2>10. QED
    BY <2>7, <2>8, <2>9
<1>5. QED
  BY <1>3, <1>4 DEF Uninstall

LEMMA GuiInitKeeps ==
  ASSUME GuiInit
  PROVE  GuiInv
<1>1. objs = <<>> /\ ObjIndex = {} /\ nodes = {} /\ objs \in Seq(Widget)
  BY DEF GuiInit, ObjIndex
<1>2. GuiTypes
  BY <1>1 DEF GuiInit, GuiTypes, NoCall
<1>3. QED
  BY <1>1, <1>2 DEF GuiInit, GuiInv, TreesOwned, HalfwayForgotten, NoCall,
                    NodesNameWidgets, CleanupReachesAll

LEMMA GuiStepKeeps ==
  ASSUME GuiInv, [GuiNext]_guiVars
  PROVE  GuiInv'
<1>0. wild \in BOOLEAN
  BY DEF GuiInv, GuiTypes
<1>1. CASE UNCHANGED guiVars
  BY <1>0, <1>1, Quiet DEF guiVars
<1>2. ASSUME NEW a \in GuiApp, NEW class \in GuiClass, CreateObject(a, class)
      PROVE  GuiInv'
  BY <1>2, CreateObjectKeeps
<1>3. ASSUME NEW a \in GuiApp, NEW id \in given[a],
             \/ \E class \in DOMAIN Calls : \E func \in DOMAIN Calls[class] \ {"create"} :
                  class # "obj" /\ func # "add_btn" /\ Show(a, class, func, id)
             \/ \E base \in given[a] \union {0} : Align(a, id, base)
             \/ AddBtn(a, id) \/ Del(a, id) \/ Clean(a, id) \/ DelAsync(a, id)
             \/ SetEventCb(a, id)
      PROVE  GuiInv'
  <2>1. CASE \/ \E class \in DOMAIN Calls : \E func \in DOMAIN Calls[class] \ {"create"} :
                  class # "obj" /\ func # "add_btn" /\ Show(a, class, func, id)
             \/ \E base \in given[a] \union {0} : Align(a, id, base)
    BY <2>1, ShowKeeps
  <2>2. CASE AddBtn(a, id)
    BY <2>2, AddBtnKeeps
  <2>3. CASE Del(a, id)
    BY <2>3, DelKeeps
  <2>4. CASE Clean(a, id)
    BY <2>4, CleanKeeps
  <2>5. CASE DelAsync(a, id)
    BY <2>5, DelAsyncKeeps
  <2>6. CASE SetEventCb(a, id)
    BY <2>6, SetEventCbKeeps
  <2>7. QED
    BY <1>3, <2>1, <2>2, <2>3, <2>4, <2>5, <2>6
<1>4. ASSUME NEW a \in GuiApp, FinishDel(a)
      PROVE  GuiInv'
  BY <1>4, FinishDelKeeps
<1>5. ASSUME NEW a \in GuiApp, FinishClean(a)
      PROVE  GuiInv'
  BY <1>5, FinishCleanKeeps
<1>6. ASSUME NEW a \in GuiApp, HandlerFound(a) \/ SearchOn(a) \/ AddHandler(a)
      PROVE  GuiInv'
  BY <1>6, HandlerKeeps
<1>7. ASSUME NEW a \in GuiApp, TakeEvent(a)
      PROVE  GuiInv'
  BY <1>0, <1>7, Quiet DEF TakeEvent
<1>8. ASSUME NEW a \in GuiApp, Uninstall(a)
      PROVE  GuiInv'
  BY <1>8, UninstallKeeps
<1>9. ASSUME NEW o \in ObjIndex, WidgetEvent(o)
      PROVE  GuiInv'
  BY <1>0, <1>9, Quiet DEF WidgetEvent
<1>10. ASSUME NEW o \in ObjIndex, AsyncDelete(o)
       PROVE  GuiInv'
  BY <1>10, AsyncDeleteKeeps
<1>11. QED
  BY <1>1, <1>2, <1>3, <1>4, <1>5, <1>6, <1>7, <1>8, <1>9, <1>10 DEF GuiNext

(***************************************************************************)
(* A node of the list of objects names a widget that exists, or one that   *)
(* an asynchronous deletion took (wgl_native_utils.c, wgl_obj_wrapper.c).  *)
(***************************************************************************)
THEOREM NodesAreWidgets == GuiSpec => []NodesNameWidgets
<1>1. GuiInit => GuiInv
  BY GuiInitKeeps
<1>2. GuiInv /\ [GuiNext]_guiVars => GuiInv'
  BY GuiStepKeeps
<1>3. GuiInv => NodesNameWidgets
  BY DEF GuiInv
<1>4. QED
  BY <1>1, <1>2, <1>3, PTL DEF GuiSpec

(***************************************************************************)
(* Of a module that was uninstalled only those widgets stay below which    *)
(* the list misses something (cleanup_object_list).                        *)
(***************************************************************************)
THEOREM CleanupsReachAll == GuiSpec => []CleanupReachesAll
<1>1. GuiInit => GuiInv
  BY GuiInitKeeps
<1>2. GuiInv /\ [GuiNext]_guiVars => GuiInv'
  BY GuiStepKeeps
<1>3. GuiInv => CleanupReachesAll
  BY DEF GuiInv
<1>4. QED
  BY <1>1, <1>2, <1>3, PTL DEF GuiSpec
=============================================================================
