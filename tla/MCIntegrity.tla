------------------------------ MODULE MCIntegrity ------------------------------
(***************************************************************************)
(* Instances for TLC of the parts that keep data, checked for safety only: *)
(* connections, packets and URLs, attribute containers, the bytes from the *)
(* host, widgets, the application store and its catalogue, requests of the *)
(* AssemblyScript library, the main programs and the display.  They share  *)
(* no state in this model: a behaviour is one of a single part.            *)
(***************************************************************************)
EXTENDS ConnectionManager, RestfulCalls, AttrContainer, HostLink, GuiObjects,
        AppStore, AppCatalogue, AsRequest, RuntimeMain, SdlDisplay

VARIABLE part   \* the part this behaviour is of

Init ==
  /\ part \in {"connections", "restful", "attributes", "link", "widgets",
               "store", "catalogue", "requests", "start", "display"}
  /\ ConnInit /\ RestfulInit /\ AttrInit /\ LinkInit /\ GuiInit
  /\ StoreInit /\ CatalogueInit /\ AsInit /\ MainInit /\ DisplayInit
  /\ part = "start" \/ program = "gui"

\* The variables of the parts, and of all the others.
integrityVars == <<part, connVars, restfulVars, attrVars, linkVars, guiVars,
                   storeVars, catalogueVars, asVars, mainVars, displayVars>>
first  == <<connVars, restfulVars, attrVars>>
second == <<linkVars, guiVars, storeVars>>
third  == <<catalogueVars, asVars, mainVars, displayVars>>

Next ==
  /\ UNCHANGED part
  /\ \/ /\ part = "connections" /\ ConnNext
        /\ UNCHANGED <<restfulVars, attrVars, second, third>>
     \/ /\ part = "restful" /\ RestfulNext
        /\ UNCHANGED <<connVars, attrVars, second, third>>
     \/ /\ part = "attributes" /\ AttrNext
        /\ UNCHANGED <<connVars, restfulVars, second, third>>
     \/ part = "link" /\ LinkNext /\ UNCHANGED <<first, guiVars, storeVars, third>>
     \/ part = "widgets" /\ GuiNext /\ UNCHANGED <<first, linkVars, storeVars, third>>
     \/ part = "store" /\ StoreNext /\ UNCHANGED <<first, linkVars, guiVars, third>>
     \/ part = "catalogue" /\ CatalogueNext /\ UNCHANGED <<first, second, asVars, mainVars, displayVars>>
     \/ /\ part = "requests" /\ AsNext
        /\ UNCHANGED <<first, second, catalogueVars, mainVars, displayVars>>
     \/ /\ part = "start" /\ MainNext
        /\ UNCHANGED <<first, second, catalogueVars, asVars, displayVars>>
     \/ /\ part = "display" /\ DisplayNext
        /\ UNCHANGED <<first, second, catalogueVars, asVars, mainVars>>

Spec == Init /\ [][Next]_integrityVars

-----------------------------------------------------------------------------
(* Packets, URLs and buffers: every string over a few characters up to a   *)
(* length, "/" being 47, "?" 63, "*" 42, "=" 61, ";" 59, "a" 97, "b" 98.   *)

Strings(A, n) == UNION {[1 .. k -> A] : k \in 0 .. n}

RequestSamples ==
  {[action |-> 1, fmt |-> 300, mid |-> 70000, sender |-> 3, url |-> url, payload |-> p] :
     url \in Strings({47, 97}, 3) \ {<<>>}, p \in Strings({0, 97}, 2)}
ResponseSamples ==
  {[status |-> 69, fmt |-> 1, mid |-> 70000, reciever |-> 3, payload |-> p] :
     p \in Strings({0, 1, 97}, 3)}
UrlSamples      == Strings({47, 63, 97, 98}, 4)
PatternSamples  == Strings({42, 47, 97}, 3)
ResourceSamples == {<<97>>, <<47, 97>>, <<97, 47>>}
BufferSamples   == Strings({32, 59, 61, 97, 98}, 5)
KeySamples      == {<<97>>, <<97, 98>>}

-----------------------------------------------------------------------------
(* Two keys of different lengths, values of different sizes.               *)

LengthOfKey == [k \in AttrKey |-> IF k = "a" THEN 1 ELSE 3]
ValueSamples ==
  {[type |-> 0, size |-> 1, word |-> 7], [type |-> 2, size |-> 4, word |-> 1],
   [type |-> 13, size |-> 60, word |-> 1], [type |-> 14, size |-> 90, word |-> 2]}

-----------------------------------------------------------------------------
(* What the host sends: requests, a packet that is none, and applications  *)
(* that are whole or broken in one place.                                  *)

SampleRequest(m) ==
  [action |-> 3, fmt |-> 99, mid |-> m, sender |-> 0, url |-> <<47>>, payload |-> <<>>]
Install(v, f) == [type |-> 4, ver |-> v, request |-> SampleRequest(7), file |-> f]
Wasm(sections, rest) ==
  [magic |-> WasmMagic, version |-> 1, sections |-> sections, rest |-> rest]
Aot(sections, rest) ==
  [magic |-> AotMagic, version |-> AotVersion, sections |-> sections, rest |-> rest]
Section(i, n) == [id |-> i, body |-> [k \in 1 .. n |-> 18]]
Code == <<Section(1, 2)>>

FrameSamples ==
  {[type |-> 2, packet |-> PackRequest(SampleRequest(5))],
   [type |-> 2, packet |-> Append(PackRequest(SampleRequest(5)), 0)],
   [type |-> 2, packet |-> <<>>],
   [type |-> 1, packet |-> <<18, 52, 0>>],
   Install(1, Wasm(Code, <<>>)),
   Install(1, Wasm(<<Section(1, 130)>>, <<>>)),
   Install(1, Wasm(<<Section(0, 1), Section(11, 3)>>, <<>>)),
   Install(1, Wasm(<<Section(1, 2), Section(15, 1)>>, <<>>)),
   Install(1, Wasm(Code, <<1, 3, 0>>)),
   Install(1, [Wasm(Code, <<>>) EXCEPT !.version = 2]),
   Install(1, [Wasm(Code, <<>>) EXCEPT !.magic = <<0, 97, 115, 18>>]),
   Install(2, Wasm(Code, <<>>)),
   Install(1, Aot(<<Section(0, 3), Section(2, 2)>>, <<>>)),
   Install(1, Aot(<<Section(2, 3), Section(100, 1)>>, <<0>>)),
   Install(1, Aot(<<Section(0, 1), Section(6, 2)>>, <<>>))}

\* All but one have the leading bytes at the beginning only.
ASSUME SamplesLead == \A f \in FrameSamples : LeadingsLead(f) <=> f.type # 1
-----------------------------------------------------------------------------
(* Libraries with a table of their own, with the function add, with neither.*)

ExportsOf ==
  [n \in NativeLib |-> IF n = "a" THEN {"get_native_lib"} ELSE IF n = "b" THEN {"add"} ELSE {}]
===============================================================================
