---- MODULE GuiObjects ----
(***************************************************************************)
(* The graphics wrappers: widgets of the applications, the list of their   *)
(* objects, the thread of the graphics library, and the application's list *)
(* of event handlers (app-framework/wgl/native and app-framework/wgl/app). *)
(*                                                                         *)
(* An application names an object by an id, which the wrapper looks up in  *)
(* g_object_list on every call. Calls of one application run one after the *)
(* other; the library's thread and other applications run between them,    *)
(* and between the two halves of a deletion. An application names only ids *)
(* it was given, and the ids do not wrap. The list of objects is a set     *)
(* here: ids and objects are in it once, so that no walk of it depends on  *)
(* the order.                                                              *)
(***************************************************************************)
EXTENDS Integers, Sequences, FiniteSets, SequencesExt

CONSTANTS
  GuiApp,         \* the applications
  GuiClass,       \* the classes of widgets they create
  MaxObjects,     \* widgets ever created, a bound of the model
  MaxWidgetEvents, \* events waiting in a module's queue, a bound
  MaxAsync,       \* asynchronous deletions, a bound
  MaxNodeless     \* nodes that could not be allocated, a bound

ASSUME GuiAssumption ==
  GuiClass \subseteq {"btn", "label", "cb", "list"} /\ MaxObjects \in Nat
  /\ MaxWidgetEvents \in Nat /\ MaxAsync \in Nat /\ MaxNodeless \in Nat

VARIABLES
  objs,      \* the widgets of the graphics library, in the order of creation
  nodes,     \* g_object_list: id, object and module
  appState,  \* of the module: "running" or "gone"
  given,     \* the ids an application was given
  events,    \* WIDGET_EVENT_WASM messages in the module's queue: ids
  handlers,  \* g_obj_evt_cb_list of the application: ids, newest first
  halfway,   \* the call an application is in the middle of, and its object
  wild       \* a call was given the pointer of a freed object

guiVars == <<objs, nodes, appState, given, events, handlers, halfway, wild>>

NoCall == [at |-> "none", obj |-> 0]

GuiInit ==
  /\ objs = <<>> /\ nodes = {}
  /\ appState = [a \in GuiApp |-> "running"]
  /\ given = [a \in GuiApp |-> {}]
  /\ events = [a \in GuiApp |-> <<>>]
  /\ handlers = [a \in GuiApp |-> <<>>]
  /\ halfway = [a \in GuiApp |-> NoCall]
  /\ wild = FALSE

(***************************************************************************)
(* The tables: what the library of the application calls, and what the     *)
(* runtime defines, each with its number of arguments.                     *)
(***************************************************************************)
BtnCalls ==
  [create |-> 2, set_toggle |-> 2, set_state |-> 2, toggle |-> 1,
   set_ink_in_time |-> 2, set_ink_wait_time |-> 2, set_ink_out_time |-> 2,
   get_state |-> 1, get_toggle |-> 1, get_ink_in_time |-> 1,
   get_ink_wait_time |-> 1, get_ink_out_time |-> 1]

BtnDefs ==
  [create |-> 2, set_toggle |-> 2, set_state |-> 2,
   set_ink_in_time |-> 2, set_ink_out_time |-> 2, set_ink_wait_time |-> 2,
   get_ink_in_time |-> 1, get_ink_out_time |-> 1, get_ink_wait_time |-> 1,
   get_state |-> 1, get_toggle |-> 1, toggle |-> 1]

CbCalls == [create |-> 2, set_text |-> 3, set_static_text |-> 3,
            get_text_length |-> 1, get_text |-> 3]
CbDefs  == [create |-> 2, set_text |-> 3, set_static_text |-> 3,
            get_text_length |-> 1, get_text |-> 3]

ListCalls == [create |-> 2, add_btn |-> 3]
ListDefs  == [create |-> 2, add_btn |-> 3]

\* What an application may ask of a label, and the four functions that exist.
LabelText  == [create |-> 2, set_text |-> 3, get_text_length |-> 1, get_text |-> 3]
LabelCalls ==
  LabelText @@
  [set_array_text |-> 3, set_static_text |-> 3, set_long_mode |-> 2, set_align |-> 2,
   set_recolor |-> 2, set_body_draw |-> 2, set_anim_speed |-> 2,
   set_text_sel_start |-> 2, set_text_sel_end |-> 2] @@
  [get_long_mode |-> 1, get_align |-> 1, get_recolor |-> 1, get_body_draw |-> 1,
   get_anim_speed |-> 1, get_letter_pos |-> 4, get_text_sel_start |-> 1,
   get_text_sel_end |-> 1, ins_text |-> 4, cut_text |-> 3]
LabelDefs  == [create |-> 2, set_text |-> 3, get_text_length |-> 1, get_text |-> 3]

ObjCalls == [del |-> 1, del_async |-> 1, clean |-> 1, set_evt_cb |-> 1, align |-> 5]
ObjDefs  == [del |-> 1, del_async |-> 1, clean |-> 1, align |-> 5, set_evt_cb |-> 1]

Calls == [btn |-> BtnCalls, cb |-> CbCalls, list |-> ListCalls,
          label |-> LabelCalls, obj |-> ObjCalls]
Defs  == [btn |-> BtnDefs, cb |-> CbDefs, list |-> ListDefs,
          label |-> LabelDefs, obj |-> ObjDefs]

\* wgl_native_func_call looks for the function with its number of arguments.
HasFunction(class, func) ==
  /\ func \in DOMAIN Defs[class]
  /\ Defs[class][func] = Calls[class][func]

(***************************************************************************)
(* The tree of widgets and the list of nodes.                              *)
(***************************************************************************)
ObjIndex == 1..Len(objs)

\* o is k or above it: in every set that has k and with a widget the one it is in.
Above(o, k) ==
  \A S \in SUBSET ObjIndex :
    (k \in S /\ \A i \in S : objs[i].parent \in S \cup {0}) => o \in S

Kids(o) == {k \in ObjIndex : objs[k].live /\ objs[k].parent = o}

Dead(k) == [objs[k] EXCEPT !.live = FALSE, !.hooked = FALSE]

DeleteTrees(tops) ==
  [k \in ObjIndex |-> IF \E o \in tops : Above(o, k)
                      THEN Dead(k) ELSE objs[k]]

Valid(id) == \E n \in nodes : n.id = id

ObjOf(id) == (CHOOSE n \in nodes : n.id = id).obj

\* The nodes left when those of the objects in `gone` are taken out.
Without(gone) == {n \in nodes : n.obj \notin gone}

Runs(a) == ~wild /\ appState[a] = "running"

MayCall(a) == Runs(a) /\ halfway[a] = NoCall

\* An exception ends the application's callback and is cleared.
Throw == UNCHANGED guiVars

(***************************************************************************)
(* Creation: the parent and the widget to copy are looked up unless 0. A   *)
(* check box and a list have children of their own, which are in no list.  *)
(***************************************************************************)
NewObj(class, parent, hooked) ==
  [list |-> class = "list", parent |-> parent, inner |-> class \in {"cb", "list", "entry"},
   hooked |-> hooked, live |-> TRUE, later |-> "no"]

NextId == Len(objs) + 1

AddNode(a) ==
  /\ nodes' = nodes \cup {[id |-> NextId, obj |-> NextId, owner |-> a]}
  /\ given' = [given EXCEPT ![a] = @ \union {NextId}]

\* Memory for the node may be missing: the widget exists, its id is 0.
AddNodeFails ==
  /\ Cardinality({k \in ObjIndex : \A a \in GuiApp : k \notin given[a]}) < MaxNodeless
  /\ UNCHANGED <<nodes, given>>

CreateObject(a, class) ==
  /\ MayCall(a) /\ Len(objs) < MaxObjects
  /\ HasFunction(class, "create")
  /\ \E par \in given[a] \union {0}, copy \in given[a] \union {0} :
       LET bad == \E id \in {par, copy} : id # 0 /\ ~Valid(id)
           at  == IF par = 0 THEN 0 ELSE ObjOf(par)
       IN IF bad THEN Throw
          ELSE IF \E id \in {par, copy} : id # 0 /\ ~objs[ObjOf(id)].live
          THEN wild' = TRUE /\ UNCHANGED <<objs, nodes, appState, given, events,
                                           handlers, halfway>>
          ELSE /\ objs' = Append(objs, NewObj(class, at, copy # 0 /\ objs[ObjOf(copy)].hooked))
               /\ AddNode(a) \/ AddNodeFails
               /\ UNCHANGED <<appState, events, handlers, halfway, wild>>

(***************************************************************************)
(* A call on an object: the function is looked up, then the object.        *)
(***************************************************************************)
CallOn(a, class, func, id, body) ==
  /\ MayCall(a) /\ id \in given[a]
  /\ IF ~HasFunction(class, func) THEN Throw
     ELSE IF ~Valid(id) THEN Throw
     ELSE IF ~objs[ObjOf(id)].live
     THEN wild' = TRUE /\ UNCHANGED <<objs, nodes, appState, given, events,
                                      handlers, halfway>>
     ELSE body

\* Setters and getters change what a widget shows, nothing that is modelled here.
Show(a, class, func, id) ==
  CallOn(a, class, func, id, UNCHANGED guiVars)

Align(a, id, base) ==
  CallOn(a, "obj", "align", id,
    IF base # 0 /\ ~Valid(base) THEN Throw ELSE UNCHANGED guiVars)

AddBtn(a, id) ==
  CallOn(a, "list", "add_btn", id,
    /\ objs[ObjOf(id)].list /\ Len(objs) < MaxObjects
    /\ objs' = Append(objs, NewObj("entry", ObjOf(id), FALSE))
    /\ AddNode(a) \/ AddNodeFails
    /\ UNCHANGED <<appState, events, handlers, halfway, wild>>)

\* Variant: only the node of the object itself is taken out.
ForgetTreeTop(o) == nodes' = Without({o})

\* _obj_del_recursive
ForgetTree(o) == nodes' = Without({k \in ObjIndex : Above(o, k)})

Del(a, id) ==
  CallOn(a, "obj", "del", id,
    /\ ForgetTree(ObjOf(id))
    /\ halfway' = [halfway EXCEPT ![a] = [at |-> "deleting", obj |-> ObjOf(id)]]
    /\ UNCHANGED <<objs, appState, given, events, handlers, wild>>)

FinishDel(a) ==
  /\ Runs(a) /\ halfway[a].at = "deleting"
  /\ objs' = DeleteTrees({halfway[a].obj})
  /\ halfway' = [halfway EXCEPT ![a] = NoCall]
  /\ UNCHANGED <<nodes, appState, given, events, handlers, wild>>

\* _obj_clean_recursive
Clean(a, id) ==
  CallOn(a, "obj", "clean", id,
    /\ nodes' = Without({k \in ObjIndex : k # ObjOf(id) /\ Above(ObjOf(id), k)})
    /\ halfway' = [halfway EXCEPT ![a] = [at |-> "cleaning", obj |-> ObjOf(id)]]
    /\ UNCHANGED <<objs, appState, given, events, handlers, wild>>)

FinishClean(a) ==
  LET o == halfway[a].obj IN
  /\ Runs(a) /\ halfway[a].at = "cleaning"
  /\ objs' = [DeleteTrees(Kids(o)) EXCEPT ![o].inner = FALSE]
  /\ halfway' = [halfway EXCEPT ![a] = NoCall]
  /\ UNCHANGED <<nodes, appState, given, events, handlers, wild>>

\* The library is asked to delete the widget later; its node stays.
DelAsync(a, id) ==
  CallOn(a, "obj", "del_async", id,
    /\ Cardinality({k \in ObjIndex : objs[k].later # "no"}) < MaxAsync
    /\ objs' = [objs EXCEPT ![ObjOf(id)].later = "asked"]
    /\ UNCHANGED <<nodes, appState, given, events, handlers, halfway, wild>>)

(***************************************************************************)
(* lv_obj_set_event_cb of the application: the list is searched for the    *)
(* object, and the search does not move from the first element.            *)
(***************************************************************************)
SetEventCb(a, id) ==
  /\ MayCall(a) /\ id \in given[a]
  /\ halfway' = [halfway EXCEPT ![a] = [at |-> "searching", obj |-> id]]
  /\ UNCHANGED <<objs, nodes, appState, given, events, handlers, wild>>

Searching(a) == Runs(a) /\ halfway[a].at = "searching"

HandlerFound(a) ==
  /\ Searching(a) /\ handlers[a] # <<>> /\ Head(handlers[a]) = halfway[a].obj
  /\ halfway' = [halfway EXCEPT ![a] = NoCall]
  /\ UNCHANGED <<objs, nodes, appState, given, events, handlers, wild>>

SearchOn(a) ==
  /\ Searching(a) /\ handlers[a] # <<>> /\ Head(handlers[a]) # halfway[a].obj
  /\ UNCHANGED guiVars

AddHandler(a) ==
  LET id == halfway[a].obj IN
  /\ Searching(a) /\ handlers[a] = <<>>
  /\ handlers' = [handlers EXCEPT ![a] = <<id>>]
  /\ halfway' = [halfway EXCEPT ![a] = NoCall]
  /\ IF ~Valid(id)
     THEN UNCHANGED <<objs, wild>>
     ELSE /\ wild' = ~objs[ObjOf(id)].live
          /\ objs' = IF wild' THEN objs ELSE [objs EXCEPT ![ObjOf(id)].hooked = TRUE]
  /\ UNCHANGED <<nodes, appState, given, events>>

(***************************************************************************)
(* The library's thread: events of the widgets, which are posted to the    *)
(* queue of the module in the node, and deletions that were asked for.     *)
(***************************************************************************)
WidgetEvent(o) ==
  /\ ~wild /\ objs[o].live /\ objs[o].hooked
  /\ \E n \in nodes :
       /\ n.obj = o
       /\ appState[n.owner] = "running"
       /\ Len(events[n.owner]) < MaxWidgetEvents
       /\ events' = [events EXCEPT ![n.owner] = Append(@, n.id)]
  /\ UNCHANGED <<objs, nodes, appState, given, handlers, halfway, wild>>

AsyncDelete(o) ==
  /\ ~wild /\ objs[o].later = "asked"
  /\ wild' = ~objs[o].live
  /\ objs' = [DeleteTrees({o}) EXCEPT ![o].later = "done"]
  /\ UNCHANGED <<nodes, appState, given, events, handlers, halfway>>

\* on_widget_event runs the handler, if the application has one for the object.
TakeEvent(a) ==
  /\ MayCall(a) /\ events[a] # <<>>
  /\ events' = [events EXCEPT ![a] = Tail(@)]
  /\ UNCHANGED <<objs, nodes, appState, given, handlers, halfway, wild>>

(***************************************************************************)
(* Uninstallation, when the application's thread has ended: widgets        *)
(* without children are deleted, again and again until there are none.     *)
(***************************************************************************)
\* Variant: one pass over the list, and only what has no child then.
CleanedUpOnce(a) ==
  {o \in ObjIndex :
     /\ objs[o].live /\ ~objs[o].inner /\ Kids(o) = {}
     /\ \E n \in nodes : n.obj = o /\ n.owner = a}

\* The objects of `a` that go: all below them is a's, in the list, and not inner.
CleanedUp(a) ==
  {o \in ObjIndex :
     /\ objs[o].live
     /\ \A k \in ObjIndex : objs[k].live /\ Above(o, k) =>
          /\ ~objs[k].inner
          /\ \E n \in nodes : n.obj = k /\ n.owner = a}

Uninstall(a) ==
  /\ MayCall(a)
  /\ IF \E n \in nodes : n.owner = a /\ ~objs[n.obj].live
     THEN wild' = TRUE /\ UNCHANGED <<objs, nodes>>
     ELSE /\ UNCHANGED wild
          /\ objs' = [k \in ObjIndex |-> IF k \in CleanedUp(a)
                                        THEN Dead(k) ELSE objs[k]]
          /\ nodes' = Without(CleanedUp(a))
  /\ appState' = [appState EXCEPT ![a] = "gone"]
  /\ events' = [events EXCEPT ![a] = <<>>]
  /\ UNCHANGED <<given, handlers, halfway>>

GuiNext ==
  \/ \E a \in GuiApp :
       \/ \E class \in GuiClass : CreateObject(a, class)
       \/ \E id \in given[a] :
            \/ \E class \in DOMAIN Calls : \E func \in DOMAIN Calls[class] \ {"create"} :
                 class # "obj" /\ func # "add_btn" /\ Show(a, class, func, id)
            \/ \E base \in given[a] \union {0} : Align(a, id, base)
            \/ AddBtn(a, id) \/ Del(a, id) \/ Clean(a, id) \/ DelAsync(a, id)
            \/ SetEventCb(a, id)
       \/ FinishDel(a) \/ FinishClean(a)
       \/ HandlerFound(a) \/ SearchOn(a) \/ AddHandler(a)
       \/ TakeEvent(a) \/ Uninstall(a)
  \/ \E o \in ObjIndex : WidgetEvent(o) \/ AsyncDelete(o)

\* An application goes on with the call it is in.
GuiFairness ==
  \A a \in GuiApp :
    WF_guiVars(HandlerFound(a) \/ SearchOn(a) \/ AddHandler(a) \/ FinishDel(a) \/ FinishClean(a))

GuiSpec == GuiInit /\ [][GuiNext]_guiVars /\ GuiFairness

(***************************************************************************)
(* Properties.                                                             *)
(***************************************************************************)

(***************************************************************************)
(* A node of the list names a widget that exists, whatever was deleted,    *)
(* above it or below, by which call, and whoever was uninstalled; only an  *)
(* asynchronous deletion of the widget or of one above it leaves the node  *)
(* behind (lv_obj_del_async_wrapper does not touch the list).              *)
(***************************************************************************)
NodesNameWidgets ==
  \A n \in nodes :
    \/ objs[n.obj].live
    \/ \E k \in ObjIndex : objs[k].later = "done" /\ Above(k, n.obj)

(***************************************************************************)
(* When a module is uninstalled every widget of it is deleted, in whatever *)
(* order the list and the tree have them, but for those with a child the   *)
(* list does not have: the inner one of a check box, a list or its button, *)
(* or one whose node could not be allocated, or one that an asynchronous   *)
(* deletion took away later (cleanup_object_list).                         *)
(***************************************************************************)
CleanupReachesAll ==
  \A n \in nodes :
    appState[n.owner] = "gone" /\ objs[n.obj].live /\ ~wild =>
      \E k \in ObjIndex :
        /\ Above(n.obj, k)
        /\ \/ objs[k].inner \/ objs[k].later = "done"
           \/ objs[k].live /\ ~\E m \in nodes : m.obj = k

(***************************************************************************)
(* lv_obj.h:539 documents lv_obj_set_event_cb as setting the handler of an *)
(* object: a call would return.                                            *)
(***************************************************************************)
HandlerGetsSet ==
  \A a \in GuiApp : (halfway[a].at = "searching") ~> (halfway[a].at # "searching" \/ wild)
====
