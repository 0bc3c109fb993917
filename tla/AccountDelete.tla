--------------------------- MODULE AccountDelete ---------------------------
(***************************************************************************)
(* Deleting an account (api/account/delete) while the worker still syncs   *)
(* and reports for it.                                                     *)
(*                                                                         *)
(* The route deletes the files of the reports that report_history knows,   *)
(* then the tables, then the user, one call each.  A failed call on files, *)
(* a table or the user is not noticed; one on the tables of the products,  *)
(* which are deleted in batches, ends the route with an error.  Foreign    *)
(* keys delete what hangs on a deleted row and refuse rows without it.     *)
(*                                                                         *)
(* "facts" stands for the four tables kept per product, "notes" for the    *)
(* tables deleted by seller (alerts, changelog, store_metrics,             *)
(* data_connections), "history" for those left to the foreign keys.        *)
(***************************************************************************)
EXTENDS Naturals, Sequences

CONSTANTS
  File,       \* paths of report files
  MaxTroubles \* bound on failed calls

None == "none"
Building == "building"

ASSUME DeleteAssumption == MaxTroubles \in Nat /\ File \cap {None, Building} = {}

Table == {"user", "seller", "products", "facts", "notes", "history"}

(* The tables a row of a table hangs on, directly or not.                  *)
Above == [user |-> {}, seller |-> {"user"}, products |-> {"user", "seller"},
          facts |-> {"user", "seller", "products"},
          notes |-> {"user", "seller"}, history |-> {"user", "seller"}]

VARIABLES
  left,      \* tables with rows of the seller
  files,     \* report files in the storage
  paths,     \* the paths report_history knows
  report,    \* the report job: none, building, or the file it has uploaded
  route,     \* the call the route makes next, 0: it is not running
  known,     \* the paths it has listed
  hasIds,    \* it has the products of the seller
  answer,    \* what it answered last
  missed,    \* history: calls since its start that failed without notice
  troubles   \* the failed calls so far

routeVars == <<route, known, hasIds, answer, missed>>
deleteVars == <<left, files, paths, report, routeVars, troubles>>

DeleteInit ==
  /\ left = Table
  /\ files = {} /\ paths = {} /\ report = None
  /\ route = 0 /\ known = {} /\ hasIds = FALSE
  /\ answer = "none" /\ missed = {}
  /\ troubles = 0

-----------------------------------------------------------------------------
(* The worker.                                                             *)

(* A sync or recalculation writes rows of the products.                    *)
WriteRows(t) ==
  /\ t \in {"products", "facts", "notes", "history"} \ left
  /\ Above[t] \subseteq left
  /\ left' = left \cup {t}
  /\ UNCHANGED <<files, paths, report, routeVars, troubles>>

(* A report that found the seller uploads its file, is sent, and is then   *)
(* recorded with the path; whether the seller is still there shows then.   *)
StartReport ==
  /\ "seller" \in left /\ report = None
  /\ report' = Building
  /\ missed' = IF route > 0 THEN missed \cup {"late file"} ELSE missed
  /\ UNCHANGED <<left, files, paths, route, known, hasIds, answer, troubles>>

Upload(f) ==
  /\ report = Building
  /\ files' = files \cup {f}
  /\ report' = f
  /\ UNCHANGED <<left, paths, routeVars, troubles>>

RecordPath ==
  /\ report \in File /\ Above["history"] \subseteq left
  /\ paths' = paths \cup {report}
  /\ left' = left \cup {"history"}
  /\ report' = None
  /\ UNCHANGED <<files, routeVars, troubles>>

(* The upload or the insert fails, or the worker is restarted.             *)
ReportLost ==
  /\ report # None
  /\ report' = None
  /\ UNCHANGED <<left, files, paths, routeVars, troubles>>

-----------------------------------------------------------------------------
(* The route.                                                              *)

(* Mutant: the files are looked up when the tables are gone.               *)
Calls_FilesLast ==
  <<"ids", "facts", "notes", "products", "seller", "list", "files", "user">>

Calls == <<"list", "files", "ids", "facts", "notes", "products", "seller", "user">>

At(call) == route > 0 /\ Calls[route] = call

AskDelete ==
  /\ route = 0 /\ "user" \in left
  /\ route' = 1
  /\ missed' = IF report = None /\ files \subseteq paths THEN {} ELSE {"unknown file"}
  /\ answer' = "none"
  /\ UNCHANGED <<left, files, paths, report, known, hasIds, troubles>>

Reply(a) ==
  /\ route' = 0 /\ known' = {} /\ hasIds' = FALSE
  /\ answer' = a

NextCall ==
  IF route < Len(Calls) THEN route' = route + 1 /\ UNCHANGED <<known, hasIds, answer>>
  ELSE Reply("success")

(* A failed call that goes unnoticed.                                      *)
Fail(call) ==
  /\ troubles < MaxTroubles
  /\ troubles' = troubles + 1
  /\ missed' = missed \cup {call}
Done == UNCHANGED <<missed, troubles>>

ListPaths ==
  /\ At("list")
  /\ route' = route + 1
  /\ \/ known' = paths /\ Done
     \/ known' = {} /\ Fail("list")
  /\ UNCHANGED <<left, files, paths, report, hasIds, answer>>

RemoveFiles ==
  /\ At("files")
  /\ NextCall
  /\ \/ files' = files \ known /\ Done
     \/ UNCHANGED files /\ known # {} /\ Fail("files")
  /\ UNCHANGED <<left, paths, report>>

ListProducts ==
  /\ At("ids")
  /\ route' = route + 1
  /\ \/ hasIds' = ("products" \in left) /\ Done
     \/ hasIds' = FALSE /\ Fail("ids")
  /\ UNCHANGED <<left, files, paths, report, known, answer>>

(* batchedInDelete raises; without products it is not called.              *)
DeleteFacts ==
  /\ At("facts")
  /\ NextCall
  /\ left' = IF hasIds THEN left \ {"facts"} ELSE left
  /\ Done
  /\ UNCHANGED <<files, paths, report>>

DeleteFactsFails ==
  /\ At("facts") /\ hasIds /\ troubles < MaxTroubles
  /\ troubles' = troubles + 1
  /\ Reply("error")
  /\ UNCHANGED <<left, files, paths, report, missed>>

Below(t) == {s \in Table : t \in Above[s]}

DeleteTable(t) ==
  /\ At(t) /\ t # "facts"
  /\ NextCall
  /\ \/ /\ left' = left \ ({t} \cup Below(t))
        /\ paths' = IF "history" \in left' THEN paths ELSE {}
        /\ Done
     \/ UNCHANGED <<left, paths>> /\ Fail(t)
  /\ UNCHANGED <<files, report>>

(* An account that is gone makes room for another.                         *)
SignUp ==
  /\ "user" \notin left /\ route = 0 /\ report = None
  /\ left' = Table
  /\ files' = {} /\ paths' = {}
  /\ answer' = "none" /\ missed' = {}
  /\ UNCHANGED <<report, route, known, hasIds, troubles>>

-----------------------------------------------------------------------------
DeleteNext ==
  \/ \E t \in Table : WriteRows(t) \/ DeleteTable(t)
  \/ \E f \in File : Upload(f)
  \/ StartReport \/ RecordPath \/ ReportLost
  \/ AskDelete \/ ListPaths \/ RemoveFiles \/ ListProducts
  \/ DeleteFacts \/ DeleteFactsFails
  \/ SignUp

DeleteSpec == DeleteInit /\ [][DeleteNext]_deleteVars

-----------------------------------------------------------------------------
(* Every variable keeps to its domain.                                     *)
DeleteTypeOK ==
  /\ left \subseteq Table
  /\ files \subseteq File /\ paths \subseteq File
  /\ report \in File \cup {None, Building}
  /\ route \in 0..Len(Calls) /\ known \subseteq File /\ hasIds \in BOOLEAN
  /\ answer \in {"none", "error", "success"}
  /\ troubles \in 0..MaxTroubles

FileTrouble == {"list", "files", "late file", "unknown file"}

(* Once the route has answered that the account is deleted, nothing of it  *)
(* is left, though the worker wrote between the calls: unless the call for *)
(* the user failed; and no file is left, unless a call for the files       *)
(* failed, a report was under way, or had lost its path before.            *)
ErasureIsComplete ==
  answer = "success" =>
    /\ "user" \notin missed => left = {}
    /\ "seller" \notin missed => left \subseteq {"user"}
    /\ "seller" \notin left /\ missed \cap FileTrouble = {} => files = {}
=============================================================================
