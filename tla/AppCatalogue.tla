----------------------------- MODULE AppCatalogue -----------------------------
(***************************************************************************)
(* The catalogue of the application store, which its web views keep in     *)
(* lists of the process (test-tools/IoT-APP-Store-Demo/wasm_django/        *)
(* devices/views.py).                                                      *)
(***************************************************************************)
EXTENDS Naturals, Sequences, SequencesExt, FiniteSets

CONSTANTS
  StoreName,    \* names of applications
  Builtin,      \* the names avaliable_list starts with
  Preloaded,    \* local_list, which is another list
  MaxListed     \* bound: entries of avaliable_list

ASSUME CatalogueAssumption ==
  MaxListed \in Nat /\ Builtin \subseteq StoreName /\ IsFiniteSet(Builtin)

VARIABLES
  offered,   \* avaliable_list
  uploaded,  \* user_file_list
  files,     \* files_list
  added      \* appname_list

catalogueVars == <<offered, uploaded, files, added>>

Version == {"1.0", "2.0"}

CatalogueInit ==
  /\ offered = SetToSeq({<<n, "1.0">> : n \in Builtin})
  /\ uploaded = <<>> /\ files = <<>> /\ added = {}

\* uploadapps: a preloaded name, or one that was uploaded, is not listed again.
Upload(n) ==
  /\ n \notin Preloaded /\ n \notin ToSet(files) /\ Len(offered) < MaxListed
  /\ offered' = Append(offered, <<n, "1.0">>)
  /\ uploaded' = Append(uploaded, <<n, "1.0">>) /\ files' = Append(files, n)
  /\ UNCHANGED added

\* addapps
AddApp(n, version) ==
  /\ n \notin added /\ Len(offered) < MaxListed
  /\ added' = added \cup {n} /\ offered' = Append(offered, <<n, version>>)
  /\ UNCHANGED <<uploaded, files>>

\* Variant: the name of the file stays taken.
RemoveAppKeepingName(n, version) ==
  /\ <<n, version>> \in ToSet(offered)
  /\ offered' = RemoveFirst(offered, <<n, version>>)
  /\ uploaded' = RemoveFirst(uploaded, <<n, version>>)
  /\ UNCHANGED <<added, files>>

\* removeapps: list.remove raises when there is no such entry, and what was removed
\* before is gone.
RemoveApp(n, version) ==
  /\ <<n, version>> \in ToSet(offered)
  /\ offered' = RemoveFirst(offered, <<n, version>>)
  /\ IF <<n, version>> \in ToSet(uploaded)
     THEN /\ uploaded' = RemoveFirst(uploaded, <<n, version>>)
          /\ files' = RemoveFirst(files, n)
     ELSE UNCHANGED <<uploaded, files>>
  /\ UNCHANGED added

CatalogueNext ==
  \/ \E n \in StoreName : Upload(n)
  \/ \E n \in StoreName, version \in Version : AddApp(n, version) \/ RemoveApp(n, version)

CatalogueSpec == CatalogueInit /\ [][CatalogueNext]_catalogueVars

-----------------------------------------------------------------------------
\* The three lists of what was uploaded agree, and what was uploaded is offered as
\* often as it is listed, whatever removal breaks off half way: an application of
\* the same name may have been built in or added by hand.
UploadedIsOffered ==
  LET Times(s, e) == Cardinality({i \in 1 .. Len(s) : s[i] = e})
  IN /\ files = [i \in 1 .. Len(uploaded) |-> uploaded[i][1]]
     /\ \A e \in ToSet(uploaded) : Times(uploaded, e) <= Times(offered, e)
=============================================================================
