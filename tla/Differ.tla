------------------------------ MODULE Differ ------------------------------
(***************************************************************************)
(* The v5 database differ (src/grype/db/v5/differ/differ.go): two curators *)
(* (base and target), each set either from a local directory or by         *)
(* downloading the listed database whose URL was given, then opened as     *)
(* stores and diffed, and finally deleted.                                 *)
(*                                                                         *)
(* The curator (legacyDistribution) is not under src/: it is reduced to    *)
(* its root directory, its listing URL and the database installed in its  *)
(* root, and its I/O (listing fetch, download, open, delete) may fail.     *)
(* Each Differ method is one step; the CLI calls them one at a time.       *)
(***************************************************************************)
EXTENDS Naturals, Sequences, SeqFilter

CONSTANTS
  Entries,       \* the listing, in order: records [url, schema, checksum]
  URLs,          \* the strings that parse as request URIs with a scheme
  Paths,         \* local database directories a user may name
  SchemaVersion, \* v5.SchemaVersion
  None,          \* no listing URL configured / no database installed
  IOCanFail      \* whether listing fetch, download, open and delete may fail

ASSUME EntriesAssumption ==
  Entries \in Seq([url : URLs, schema : Nat, checksum : Nat])
ASSUME PathsAssumption == Paths \cap URLs = {} /\ None \notin Paths \cup URLs
ASSUME IOCanFailAssumption == IOCanFail \in BOOLEAN

Sides == {"base", "target"}
Requests == URLs \cup Paths
\* What a curator's root directory holds: nothing, a listed database
\* downloaded into it, or the database already in a user's directory.
Installed == {None} \cup {Entries[i] : i \in DOMAIN Entries} \cup Paths
Curator == [root : {"diff/base", "diff/target", None} \cup Paths,
            listingURL : {"listing", None}, db : Installed]
\* A Set*DB call as it is remembered: its request and whether it returned nil.
SetCalls == [req : Requests, ok : BOOLEAN]

VARIABLES
  curator,      \* side -> the curator the Differ holds for it
  openStores,   \* stores DiffDatabases opened and did not close
  lastSet,      \* side -> the last Set*DB call on it since the last delete, or None
  dpc,          \* where DiffDatabases is: "idle", "openTarget" or "diff"
  deferred,     \* the closes DiffDatabases has deferred, in order
  result        \* the last Differ call and whether it returned a nil error

vars == <<curator, openStores, lastSet, dpc, deferred, result>>

-----------------------------------------------------------------------------
\* listings.Available[v5.SchemaVersion]: the listed entries of this schema, in order.
AvailableV5 == FilterSeq(Entries, LAMBDA e : e.schema = SchemaVersion)

(* Plausible fault: &d of the loop variable, which aliases the last entry. *)
FindListingAliased(dbs, u) ==
  IF \E i \in DOMAIN dbs : dbs[i].url = u THEN dbs[Len(dbs)] ELSE None

(***************************************************************************)
(* The loop of setOrDownload: every entry whose URL equals u overwrites   *)
(* listing (with a copy, "database := d"), so the last one wins; nil when *)
(* none does.                                                              *)
(***************************************************************************)
FindListing(dbs, u) ==
  IF \E i \in DOMAIN dbs : dbs[i].url = u
  THEN dbs[CHOOSE i \in DOMAIN dbs : /\ dbs[i].url = u
                                     /\ \A j \in DOMAIN dbs : j > i => dbs[j].url # u]
  ELSE None

\* legacyDistribution.NewCurator(Config{DBRootDir: path}): no listing URL.
CuratorAt(path) == [root |-> path, listingURL |-> None, db |-> path]

\* The zero Curator{} NewCurator returns with its error.
ZeroCurator == [root |-> None, listingURL |-> None, db |-> None]

Init ==
  /\ curator = [s \in Sides |-> [root |-> "diff/" \o s, listingURL |-> "listing", db |-> None]]
  /\ openStores = {}
  /\ lastSet = [s \in Sides |-> None]
  /\ dpc = "idle"
  /\ deferred = <<>>
  /\ result = [call |-> "none", ok |-> TRUE]

(***************************************************************************)
(* SetBaseDB / SetTargetDB (setOrDownload): a request that is not a URL    *)
(* replaces the curator by what NewCurator returns, which is assigned     *)
(* before its error is checked (a failure leaves the zero Curator{}); a   *)
(* URL is looked up in the listing fetched through the BASE curator, and  *)
(* the entry found is downloaded into this side's curator, every failure  *)
(* of that branch returning before the curator is touched.                *)
(***************************************************************************)
SetOrDownload(s, r) ==
  /\ dpc = "idle"
  /\ UNCHANGED <<openStores, dpc, deferred>>
  /\ IF r \notin URLs
     THEN \/ \* NewCurator fails: *curator, err = NewCurator(...)
             /\ IOCanFail
             /\ curator' = [curator EXCEPT ![s] = ZeroCurator]
             /\ result' = [call |-> "Set", ok |-> FALSE]
          \/ /\ curator' = [curator EXCEPT ![s] = CuratorAt(r)]
             /\ result' = [call |-> "Set", ok |-> TRUE]
     ELSE LET listing == FindListing(AvailableV5, r) IN
          \/ \* ListingFromURL fails (no listing URL on the base curator, or
             \* I/O), no listed v5 database has this URL, or UpdateTo fails
             /\ \/ curator["base"].listingURL = None
                \/ listing = None
                \/ IOCanFail
             /\ result' = [call |-> "Set", ok |-> FALSE]
             /\ UNCHANGED curator
          \/ \* UpdateTo installs the entry
             /\ curator["base"].listingURL # None
             /\ listing # None
             /\ curator' = [curator EXCEPT ![s].db = listing]
             /\ result' = [call |-> "Set", ok |-> TRUE]
  /\ lastSet' = [lastSet EXCEPT ![s] = [req |-> r, ok |-> result'.ok]]

SetBaseDB(r) == SetOrDownload("base", r)
SetTargetDB(r) == SetOrDownload("target", r)

(***************************************************************************)
(* DiffDatabases, one step per store call: GetStore on base (error:       *)
(* return), defer its close, GetStore on target (error: return), defer its *)
(* close, DiffStore, return.  A return runs the deferred closes.  GetStore *)
(* fails when no database is installed, or on I/O.                        *)
(***************************************************************************)
Return ==
  /\ openStores' = openStores \ {deferred[i] : i \in DOMAIN deferred}
  /\ deferred' = <<>>
  /\ dpc' = "idle"

(* Plausible fault: the close of the base store is not deferred. *)
DeferBaseCloseDropped(d) == d

\* defer log.CloseAndLogError(baseStore, ...)
DeferBaseClose(d) == Append(d, "base")

DiffOpenBase ==
  /\ dpc = "idle"
  /\ \/ /\ curator["base"].db = None \/ IOCanFail
        /\ result' = [call |-> "Diff", ok |-> FALSE]
        /\ UNCHANGED <<dpc, deferred, openStores>>
     \/ /\ curator["base"].db # None
        /\ openStores' = openStores \cup {"base"}
        /\ deferred' = DeferBaseClose(deferred)
        /\ dpc' = "openTarget"
        /\ UNCHANGED result
  /\ UNCHANGED <<curator, lastSet>>

DiffOpenTarget ==
  /\ dpc = "openTarget"
  /\ \/ /\ curator["target"].db = None \/ IOCanFail
        /\ Return
        /\ result' = [call |-> "Diff", ok |-> FALSE]
     \/ /\ curator["target"].db # None
        /\ openStores' = openStores \cup {"target"}
        /\ deferred' = Append(deferred, "target")
        /\ dpc' = "diff"
        /\ UNCHANGED result
  /\ UNCHANGED <<curator, lastSet>>

\* baseStore.DiffStore(targetStore), returned with or without an error.
DiffStore ==
  /\ dpc = "diff"
  /\ Return
  /\ result' \in {[call |-> "Diff", ok |-> TRUE]} \cup
                 IF IOCanFail THEN {[call |-> "Diff", ok |-> FALSE]} ELSE {}
  /\ UNCHANGED <<curator, lastSet>>

(***************************************************************************)
(* DeleteDatabases: delete the base curator's root, and only if that      *)
(* succeeded the target's.                                                *)
(***************************************************************************)
DeleteDatabases ==
  /\ dpc = "idle"
  /\ UNCHANGED <<openStores, dpc, deferred>>
  /\ \/ /\ IOCanFail
        /\ result' = [call |-> "Delete", ok |-> FALSE]
        /\ UNCHANGED <<curator, lastSet>>
     \/ /\ IOCanFail
        /\ curator' = [curator EXCEPT !["base"].db = None]
        /\ lastSet' = [lastSet EXCEPT !["base"] = None]
        /\ result' = [call |-> "Delete", ok |-> FALSE]
     \/ /\ curator' = [s \in Sides |-> [curator[s] EXCEPT !.db = None]]
        /\ lastSet' = [s \in Sides |-> None]
        /\ result' = [call |-> "Delete", ok |-> TRUE]

Next ==
  \/ \E r \in Requests : SetBaseDB(r) \/ SetTargetDB(r)
  \/ DiffOpenBase \/ DiffOpenTarget \/ DiffStore
  \/ DeleteDatabases

Spec == Init /\ [][Next]_vars

-----------------------------------------------------------------------------
(* Type invariant. *)
TypeOK ==
  /\ curator \in [Sides -> Curator]
  /\ openStores \subseteq Sides
  /\ lastSet \in [Sides -> SetCalls \cup {None}]
  /\ dpc \in {"idle", "openTarget", "diff"}
  /\ deferred \in Seq(Sides)
  /\ result \in [call : {"none", "Set", "Diff", "Delete"}, ok : BOOLEAN]

(***************************************************************************)
(* Every exit path of DiffDatabases releases the stores it opened (spec 5: *)
(* release must run on every exit path), including the one where the      *)
(* target store cannot be opened after the base store was.                *)
(***************************************************************************)
StoresReleased == dpc = "idle" => openStores = {}

(***************************************************************************)
(* When the last Set*DB call on a side named a URL u and returned nil,    *)
(* that side's curator holds the listed schema-v5 database whose URL is u *)
(* (the last such entry of the listing), until it is deleted.  The calls  *)
(* on the other side, the base's listing URL being lost to a path request *)
(* and failed calls before it included.                                   *)
(***************************************************************************)
InstalledIsRequested ==
  \A s \in Sides :
    (lastSet[s] # None /\ lastSet[s].ok /\ lastSet[s].req \in URLs) =>
      \E i \in DOMAIN Entries :
        /\ curator[s].db = Entries[i]
        /\ Entries[i].url = lastSet[s].req
        /\ Entries[i].schema = SchemaVersion
        /\ \A j \in DOMAIN Entries :
             (j > i /\ Entries[j].schema = SchemaVersion) => Entries[j].url # lastSet[s].req

=============================================================================
