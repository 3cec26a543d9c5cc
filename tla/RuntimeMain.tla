----------------------------- MODULE RuntimeMain -----------------------------
(***************************************************************************)
(* The main programs of the samples: simple, littlevgl and gui on Linux,   *)
(* the gui one that registers the function add of a library, and the two   *)
(* on Zephyr.  Each starts what the application manager needs, runs it and *)
(* undoes the start behind the labels its failures jump to.  The gui ones  *)
(* load the native libraries their arguments name before; then their       *)
(* arguments are replaced by "-s": they are always a server.               *)
(***************************************************************************)
EXTENDS Integers, Sequences, SequencesExt

CONSTANTS
  NativeLib,  \* shared objects the arguments may name
  Exports,    \* which of get_native_lib and add each of them has
  MaxNative   \* the entries of native_lib_list

ASSUME NativeAssumption ==
  MaxNative \in Nat /\ Exports \in [NativeLib -> SUBSET {"get_native_lib", "add"}]

VARIABLES
  program,    \* which of the programs
  main,       \* where iwasm_main is
  step,         \* the part to start, or the label it is at
  requested,  \* native_lib_list
  nextLib,    \* i, in load_and_register_native_libs
  loaded,     \* native_lib_loaded_list
  opened,     \* libraries with an open handle
  begun,      \* libraries whose init_native_lib returned 0, until the end of them
  natives,    \* libraries whose symbols are registered
  up          \* how often each part was started and not exited

libVars  == <<requested, nextLib, loaded, opened, begun, natives>>
mainVars == <<program, main, step, libVars, up>>

Part == {"runtime", "connection", "graphics", "sensor", "timer"}

(***************************************************************************)
(* The programs.  Part n of starts is started n-th, behind the runtime; if *)
(* it fails, the program goes to its label, 0 for a result nobody looks    *)
(* at.  undo[n] is what is exited behind label n; label 1 is the return of *)
(* app_manager_startup.                                                    *)
(***************************************************************************)
Start(part, label) == [part |-> part, label |-> label]

\* wgl_init and hal_init; in the other programs the start of the display.
Graphics         == Start("graphics", 0)
LittlevglDisplay == Start("graphics", 0)
ZephyrDisplay    == Start("graphics", 0)

SimpleMain ==
  [starts |-> <<Start("connection", 4), Start("sensor", 3), Start("timer", 2)>>,
   undo   |-> <<{"timer"}, {"sensor"}, {"connection"}, {"runtime"}>>]

LittlevglMain ==
  [starts |-> <<Start("connection", 4), LittlevglDisplay, Start("sensor", 3), Start("timer", 2)>>,
   undo   |-> <<{"timer"}, {"sensor"}, {"connection"}, {"runtime"}>>]

\* Variant: a failure of the sensor framework goes to the label of the part before.
GuiMainSkipping ==
  [starts |-> <<Start("connection", 4), Graphics, Start("sensor", 4), Start("timer", 2)>>,
   undo   |-> <<{"timer"}, {"sensor"}, {"graphics", "connection"}, {"runtime"}>>]

GuiMain ==
  [starts |-> <<Start("connection", 4), Graphics, Start("sensor", 3), Start("timer", 2)>>,
   undo   |-> <<{"timer"}, {"sensor"}, {"graphics", "connection"}, {"runtime"}>>]

NativeLibMain ==
  [starts |-> <<Start("connection", 4), Graphics, Start("sensor", 3), Start("timer", 2)>>,
   undo   |-> <<{"timer"}, {"sensor"}, {"graphics", "connection"}, {"runtime"}>>]

ZephyrGuiMain ==
  [starts |-> <<ZephyrDisplay, Start("timer", 2)>>, undo |-> <<{}, {"runtime"}>>]

ZephyrLittlevglMain ==
  [starts |-> <<ZephyrDisplay, Start("timer", 2)>>, undo |-> <<{}, {"runtime"}>>]

Program ==
  [simple |-> SimpleMain, littlevgl |-> LittlevglMain, gui |-> GuiMain,
   nativelib |-> NativeLibMain, zephyrGui |-> ZephyrGuiMain,
   zephyrLittlevgl |-> ZephyrLittlevglMain]

LoadsLibraries == program \in {"gui", "nativelib"}
HasArguments   == program \notin {"zephyrGui", "zephyrLittlevgl"}
Starts         == Program[program].starts
Undo           == Program[program].undo

\* What a program starts and has no exit for.
NeverExited == {Starts[n].part : n \in 1 .. Len(Starts)} \ UNION {Undo[n] : n \in 1 .. Len(Undo)}

MainInit ==
  /\ program \in DOMAIN Program /\ main = "arguments" /\ step = 1
  /\ requested = <<>> /\ nextLib = 1 /\ loaded = <<>>
  /\ opened = {} /\ begun = {} /\ natives = {} /\ up = [p \in Part |-> 0]

-----------------------------------------------------------------------------
(* The arguments.                                                          *)

\* --native-lib=n, each named once: one too many ends the program.
NativeOption(n) ==
  /\ LoadsLibraries /\ main = "arguments" /\ ~Contains(requested, n)
  /\ IF Len(requested) >= MaxNative
     THEN main' = "refused" /\ UNCHANGED requested
     ELSE requested' = Append(requested, n) /\ UNCHANGED main
  /\ UNCHANGED <<program, step, nextLib, loaded, opened, begun, natives, up>>

\* parse_args returns false: -h, an option it does not know, or no such directory.
OptionRefused ==
  /\ HasArguments /\ main = "arguments" /\ main' = "refused"
  /\ UNCHANGED <<program, step, libVars, up>>

Started(part) == up' = [up EXCEPT ![part] = @ + 1]
Exited(parts) == up' = [p \in Part |-> IF p \in parts THEN up[p] - 1 ELSE up[p]]

\* In the gui programs the runtime gets the pool before the libraries are loaded, and
\* again behind.
FirstFullInit ==
  /\ main = "arguments"
  /\ \/ main' = (IF LoadsLibraries THEN "libraries" ELSE "starting") /\ Started("runtime")
     \/ main' = "refused" /\ UNCHANGED up
  /\ UNCHANGED <<program, step, libVars>>

-----------------------------------------------------------------------------
(* load_native_lib.  In the gui program the symbols are registered twice,  *)
(* the first time for a line of output, and a library without              *)
(* get_native_lib gets the table of the program.  The other program has a  *)
(* table for each library with a function add, and no name for the module  *)
(* of this table.                                                          *)

Loading(n) == main = "libraries" /\ nextLib <= Len(requested) /\ requested[nextLib] = n
LoadNext   == nextLib' = nextLib + 1 /\ UNCHANGED <<program, main, step, requested, up>>

\* There is a table, and there is one with a name.
HasTable(n) == program = "gui" \/ Exports[n] # {}
HasName(n)  == program = "gui" \/ "add" \notin Exports[n]

\* No memory, dlopen gives nothing, there is no table, or init_native_lib fails: the
\* handle is closed.
NotLoaded(n) ==
  /\ Loading(n) /\ LoadNext
  /\ UNCHANGED <<loaded, opened, begun, natives>>

\* It has no symbols, or the registration fails: deinit_native_lib, if there is one, and
\* dlclose. What the first registration of the gui program registered stays.
RegisterFails(n) ==
  /\ Loading(n) /\ LoadNext /\ HasTable(n)
  /\ natives' \in IF program = "gui" THEN {natives, natives \cup {n}} ELSE {natives}
  /\ UNCHANGED <<loaded, opened, begun>>

Loads(n) ==
  /\ Loading(n) /\ LoadNext /\ HasTable(n) /\ HasName(n)
  /\ loaded' = Append(loaded, n) /\ opened' = opened \cup {n}
  /\ begun' \in {begun, begun \cup {n}} /\ natives' = natives \cup {n}

SecondFullInit ==
  /\ main = "libraries" /\ nextLib > Len(requested)
  /\ \/ main' = "starting" /\ Started("runtime")
     \/ main' = "refused" /\ UNCHANGED up
  /\ UNCHANGED <<program, step, libVars>>

-----------------------------------------------------------------------------
(* The parts.                                                              *)

StartPart ==
  /\ main = "starting" /\ step <= Len(Starts)
  /\ Started(Starts[step].part) /\ step' = step + 1
  /\ UNCHANGED <<program, main, libVars>>

PartFails ==
  /\ main = "starting" /\ step <= Len(Starts) /\ Starts[step].label # 0
  /\ main' = "undoing" /\ step' = Starts[step].label
  /\ UNCHANGED <<program, libVars, up>>

\* app_manager_startup returns, because its queue cannot be made, or not at all.
ManagerReturns ==
  /\ main = "starting" /\ step > Len(Starts)
  /\ main' = "undoing" /\ step' = 1
  /\ UNCHANGED <<program, libVars, up>>

\* A label, and on to the next one. wasm_runtime_destroy is called once, behind the
\* last; the libraries are not unloaded.
Label ==
  /\ main = "undoing"
  /\ Exited(Undo[step]) /\ step' = step + 1
  /\ main' = IF step = Len(Undo) THEN "over" ELSE main
  /\ UNCHANGED <<program, libVars>>

MainNext ==
  \/ OptionRefused \/ FirstFullInit \/ SecondFullInit
  \/ StartPart \/ PartFails \/ ManagerReturns \/ Label
  \/ \E n \in NativeLib :
       NativeOption(n) \/ NotLoaded(n) \/ RegisterFails(n) \/ Loads(n)

MainSpec == MainInit /\ [][MainNext]_mainVars

-----------------------------------------------------------------------------
\* Whatever fails and wherever a program breaks off, the labels exit every part
\* that was started and no other, but for the second start of the runtime and for the
\* parts the program has no exit for; and of the libraries only those that are in the
\* list are open or begun, none of which is without a name.
NothingLeftUp ==
  /\ \A p \in Part :
       /\ up[p] >= 0
       /\ main = "over" /\ p \notin NeverExited =>
            up[p] = IF p = "runtime" /\ LoadsLibraries THEN 1 ELSE 0
  /\ opened \cup begun \subseteq ToSet(loaded)
  /\ \A i \in 1 .. Len(loaded) : HasName(loaded[i])
==============================================================================
