----------------------------- MODULE DifferProofs -----------------------------
(***************************************************************************)
(* DiffDatabases releases every store it opened, for every listing, every  *)
(* set of requests and whatever I/O fails.  StoresReleased alone is not    *)
(* inductive: a Return only closes what was deferred, so the invariant    *)
(* must say that every open store has its close deferred.  StoreInv ties   *)
(* each point of DiffDatabases to the stores open there and the closes on  *)
(* the defer stack.                                                        *)
(***************************************************************************)
EXTENDS Differ, SeqFilterProofs, SequenceTheorems, TLAPS

StoreInv ==
  \/ dpc = "idle" /\ openStores = {} /\ deferred = <<>>
  \/ dpc = "openTarget" /\ openStores = {"base"} /\ deferred = <<"base">>
  \/ dpc = "diff" /\ openStores = {"base", "target"} /\ deferred = <<"base", "target">>

\* Returning from DiffDatabases at any point closes everything open.
LEMMA ReturnCloses ==
  ASSUME StoreInv, Return
  PROVE  openStores' = {} /\ deferred' = <<>> /\ dpc' = "idle"
BY DEF StoreInv, Return

THEOREM InitStoreInv == Init => StoreInv
BY DEF Init, StoreInv

THEOREM NextStoreInv == StoreInv /\ [Next]_vars => StoreInv'
<1> SUFFICES ASSUME StoreInv, [Next]_vars PROVE StoreInv'
  OBVIOUS
<1>1. ASSUME NEW r \in Requests, NEW s \in Sides, SetOrDownload(s, r)
      PROVE  StoreInv'
  BY <1>1 DEF SetOrDownload, StoreInv
<1>2. CASE DiffOpenBase
  BY <1>2 DEF DiffOpenBase, DeferBaseClose, StoreInv
<1>3. CASE DiffOpenTarget
  <2>1. CASE /\ curator["target"].db = None \/ IOCanFail
             /\ Return
    BY <2>1, ReturnCloses DEF StoreInv
  <2>2. CASE /\ curator["target"].db # None
             /\ openStores' = openStores \cup {"target"}
             /\ deferred' = Append(deferred, "target")
             /\ dpc' = "diff"
    <3>1. dpc = "openTarget" /\ openStores = {"base"} /\ deferred = <<"base">>
      BY <1>3 DEF DiffOpenTarget, StoreInv
    <3>2. Append(<<"base">>, "target") = <<"base", "target">>
      <4>1. <<"base">> \in Seq(Sides) /\ "target" \in Sides
        BY DEF Sides
      <4>2. /\ Append(<<"base">>, "target") \in Seq(Sides)
            /\ Len(Append(<<"base">>, "target")) = 2
            /\ Append(<<"base">>, "target")[1] = "base"
            /\ Append(<<"base">>, "target")[2] = "target"
        BY <4>1, AppendProperties
      <4>3. <<"base", "target">> \in Seq(Sides) /\ Len(<<"base", "target">>) = 2
        BY DEF Sides
      <4>4. \A i \in 1 .. 2 : Append(<<"base">>, "target")[i] = <<"base", "target">>[i]
        BY <4>2
      <4>. QED
        BY <4>2, <4>3, <4>4, SeqEqual, Zenon
    <3>. QED
      BY <2>2, <3>1, <3>2 DEF StoreInv
  <2>. QED
    BY <1>3, <2>1, <2>2 DEF DiffOpenTarget
<1>4. CASE DiffStore
  BY <1>4, ReturnCloses DEF DiffStore, StoreInv
<1>5. CASE DeleteDatabases
  BY <1>5 DEF DeleteDatabases, StoreInv
<1>6. CASE UNCHANGED vars
  BY <1>6 DEF vars, StoreInv
<1>. QED
  BY <1>1, <1>2, <1>3, <1>4, <1>5, <1>6 DEF Next, SetBaseDB, SetTargetDB, Sides

(***************************************************************************)
(* For every listing and request, and whichever store call or I/O fails,   *)
(* no store DiffDatabases opened is left open once it has returned:        *)
(* every exit path, the failed GetStore on the target after the base was  *)
(* opened included, runs the deferred closes.                             *)
(***************************************************************************)
THEOREM StoresReleasedInvariant == Spec => []StoresReleased
<1>1. StoreInv => StoresReleased
  BY DEF StoreInv, StoresReleased
<1>. QED
  BY <1>1, InitStoreInv, NextStoreInv, PTL DEF Spec

-----------------------------------------------------------------------------
(***************************************************************************)
(* The loop of setOrDownload keeps the last entry with the URL asked for: *)
(* when some entry has it, FindListing returns an entry k with that URL   *)
(* and no later entry has it.                                              *)
(***************************************************************************)
LEMMA FindListingLast ==
  ASSUME NEW S, NEW dbs \in Seq(S), NEW u,
         \E i \in DOMAIN dbs : dbs[i].url = u
  PROVE  \E k \in 1 .. Len(dbs) :
           /\ FindListing(dbs, u) = dbs[k]
           /\ dbs[k].url = u
           /\ \A j \in 1 .. Len(dbs) : j > k => dbs[j].url # u
<1> DEFINE M == {i \in 1 .. Len(dbs) : dbs[i].url = u}
           D == {Len(dbs) - i : i \in M}
<1>0. DOMAIN dbs = 1 .. Len(dbs)
  OBVIOUS
<1>1. D \subseteq Nat /\ D # {}
  BY <1>0 DEF M, D
<1>2. PICK d \in D : \A e \in D : d <= e
  BY <1>1, NatLeast
<1>3. PICK k \in M : d = Len(dbs) - k
  BY <1>2 DEF D
<1>4. \A j \in M : j <= k
  <2> TAKE j \in M
  <2>1. Len(dbs) - j \in D
    BY DEF D
  <2>2. Len(dbs) - k <= Len(dbs) - j
    BY <1>2, <1>3, <2>1
  <2>. QED
    BY <2>2 DEF M
<1>5. \E i \in DOMAIN dbs : /\ dbs[i].url = u
                            /\ \A j \in DOMAIN dbs : j > i => dbs[j].url # u
  BY <1>0, <1>3, <1>4 DEF M
<1> DEFINE c == CHOOSE i \in DOMAIN dbs : /\ dbs[i].url = u
                                          /\ \A j \in DOMAIN dbs : j > i => dbs[j].url # u
<1>6. /\ c \in DOMAIN dbs
      /\ dbs[c].url = u
      /\ \A j \in DOMAIN dbs : j > c => dbs[j].url # u
  BY <1>5
<1>7. FindListing(dbs, u) = dbs[c]
  BY DEF FindListing
<1>. QED
  BY <1>0, <1>6, <1>7, Zenon

(***************************************************************************)
(* InstalledIsRequested is inductive once the curators and the calls      *)
(* are known to be functions of the side (so that setting one side leaves *)
(* the other as it was) and each curator is a record with a db field.     *)
(* The record type is Curator's, with NewDiffer's path.Join roots left    *)
(* as the concatenation the model writes.                                 *)
(***************************************************************************)
\* Curator, with the roots written as NewDiffer forms them.
CuratorShape == [root : {"diff/" \o t : t \in Sides} \cup Paths \cup {None},
                 listingURL : {"listing", None}, db : Installed]

InstalledInv ==
  /\ curator \in [Sides -> CuratorShape]
  /\ lastSet \in [Sides -> SetCalls \cup {None}]
  /\ InstalledIsRequested

(***************************************************************************)
(* What setOrDownload installs for a URL u: when the v5 listing has an     *)
(* entry with URL u, FindListing(AvailableV5, u) is the entry of Entries   *)
(* with URL u and schema v5 that no later v5 entry with URL u follows.    *)
(***************************************************************************)
LEMMA AvailableListing ==
  ASSUME NEW u, FindListing(AvailableV5, u) # None
  PROVE  \E i \in DOMAIN Entries :
           /\ FindListing(AvailableV5, u) = Entries[i]
           /\ Entries[i].url = u
           /\ Entries[i].schema = SchemaVersion
           /\ \A j \in DOMAIN Entries :
                (j > i /\ Entries[j].schema = SchemaVersion) => Entries[j].url # u
<1> DEFINE S == [url : URLs, schema : Nat, checksum : Nat]
           T(e) == e.schema = SchemaVersion
           f == AvailableV5
           n == Len(Entries)
<1>1. Entries \in Seq(S)
  BY EntriesAssumption
<1>2. f = FilterSeq(Entries, T)
  BY DEF AvailableV5
<1>3. f \in Seq(S) /\ Selection(f, Entries, n, T)
  BY <1>1, <1>2, FilterSeqSelection
<1>4. PICK idx \in [1 .. Len(f) -> 1 .. n] :
        /\ \A k1, k2 \in 1 .. Len(f) : k1 < k2 => idx[k1] < idx[k2]
        /\ \A k \in 1 .. Len(f) : f[k] = Entries[idx[k]]
        /\ \A j \in 1 .. n : T(Entries[j]) <=> \E k \in 1 .. Len(f) : idx[k] = j
  BY <1>3 DEF Selection
<1>a. idx \in [1 .. Len(f) -> 1 .. n]
  BY <1>4
<1>b. \A k1, k2 \in 1 .. Len(f) : k1 < k2 => idx[k1] < idx[k2]
  BY <1>4
<1>c. \A k \in 1 .. Len(f) : f[k] = Entries[idx[k]]
  BY <1>4
<1>d. \A j \in 1 .. n : T(Entries[j]) <=> \E k \in 1 .. Len(f) : idx[k] = j
  BY <1>4
<1>5. \E i \in DOMAIN f : f[i].url = u
  BY <1>3 DEF FindListing
<1>6. PICK k \in 1 .. Len(f) :
        /\ FindListing(f, u) = f[k]
        /\ f[k].url = u
        /\ \A j \in 1 .. Len(f) : j > k => f[j].url # u
  BY <1>3, <1>5, FindListingLast
<1> DEFINE i == idx[k]
<1>7. i \in DOMAIN Entries /\ f[k] = Entries[i]
  BY <1>1, <1>a, <1>c
<1>8. T(Entries[i])
  <2>1. i \in 1 .. n /\ \E k2 \in 1 .. Len(f) : idx[k2] = i
    BY <1>a
  <2>. QED
    BY <2>1, <1>d, Zenon
<1>9. ASSUME NEW j \in DOMAIN Entries, j > i, Entries[j].schema = SchemaVersion
      PROVE  Entries[j].url # u
  <2>1. j \in 1 .. n
    BY <1>1
  <2>2. PICK k2 \in 1 .. Len(f) : idx[k2] = j
    BY <2>1, <1>9, <1>d, Zenon
  <2>3. k2 > k
    <3>1. k2 # k
      BY <2>2, <1>9
    <3>2. ~(k2 < k)
      BY <2>2, <1>9, <1>b, <1>a
    <3>. QED
      BY <3>1, <3>2
  <2>4. f[k2] = Entries[j]
    BY <2>2, <1>c
  <2>. QED
    BY <2>3, <2>4, <1>6
<1>. QED
  BY <1>6, <1>7, <1>8, <1>9 DEF f

THEOREM InitInstalledInv == Init => InstalledInv
<1> SUFFICES ASSUME Init PROVE InstalledInv
  OBVIOUS
<1>1. curator \in [Sides -> CuratorShape]
  BY DEF Init, Sides, CuratorShape, Installed
<1>2. lastSet \in [Sides -> SetCalls \cup {None}] /\ \A s \in Sides : lastSet[s] = None
  BY DEF Init
<1>. QED
  BY <1>1, <1>2 DEF InstalledInv, InstalledIsRequested

(***************************************************************************)
(* A Set*DB call on side s that leaves curator c and is remembered as     *)
(* call keeps InstalledInv when c is what the property asks of call: the  *)
(* other side is left as it was.                                          *)
(***************************************************************************)
LEMMA SideStep ==
  ASSUME InstalledInv, NEW s \in Sides, NEW c \in CuratorShape, NEW call \in SetCalls,
         curator' = [curator EXCEPT ![s] = c],
         lastSet' = [lastSet EXCEPT ![s] = call],
         (call.ok /\ call.req \in URLs) =>
           \E i \in DOMAIN Entries :
             /\ c.db = Entries[i]
             /\ Entries[i].url = call.req
             /\ Entries[i].schema = SchemaVersion
             /\ \A j \in DOMAIN Entries :
                  (j > i /\ Entries[j].schema = SchemaVersion) => Entries[j].url # call.req
  PROVE  InstalledInv'
<1>1. curator' \in [Sides -> CuratorShape] /\ lastSet' \in [Sides -> SetCalls \cup {None}]
  BY DEF InstalledInv
<1>2. curator'[s] = c /\ lastSet'[s] = call
  BY DEF InstalledInv
<1>3. \A t \in Sides \ {s} : curator'[t] = curator[t] /\ lastSet'[t] = lastSet[t]
  BY DEF InstalledInv
<1>. QED
  BY <1>1, <1>2, <1>3 DEF InstalledInv, InstalledIsRequested

\* A successful Set*DB for a URL installs what InstalledIsRequested asks for.
LEMMA SetURLStep ==
  ASSUME InstalledInv, NEW s \in Sides, NEW r \in URLs,
         FindListing(AvailableV5, r) # None,
         curator' = [curator EXCEPT ![s].db = FindListing(AvailableV5, r)],
         lastSet' = [lastSet EXCEPT ![s] = [req |-> r, ok |-> TRUE]]
  PROVE  InstalledInv'
<1> DEFINE L == FindListing(AvailableV5, r)
           c == [curator[s] EXCEPT !.db = L]
<1>1. PICK i \in DOMAIN Entries :
        /\ L = Entries[i]
        /\ Entries[i].url = r
        /\ Entries[i].schema = SchemaVersion
        /\ \A j \in DOMAIN Entries :
             (j > i /\ Entries[j].schema = SchemaVersion) => Entries[j].url # r
  BY AvailableListing
<1>2. c \in CuratorShape /\ c.db = Entries[i]
  BY <1>1 DEF InstalledInv, CuratorShape, Installed
<1>3. curator' = [curator EXCEPT ![s] = c]
  BY DEF InstalledInv
<1>4. [req |-> r, ok |-> TRUE] \in SetCalls
  BY DEF SetCalls, Requests
<1>5. \E k \in DOMAIN Entries :
        /\ c.db = Entries[k]
        /\ Entries[k].url = [req |-> r, ok |-> TRUE].req
        /\ Entries[k].schema = SchemaVersion
        /\ \A j \in DOMAIN Entries :
             (j > k /\ Entries[j].schema = SchemaVersion) => Entries[j].url # [req |-> r, ok |-> TRUE].req
  BY <1>1, <1>2
<1>. QED
  BY <1>2, <1>3, <1>4, <1>5, SideStep

THEOREM NextInstalledInv == InstalledInv /\ [Next]_vars => InstalledInv'
<1> SUFFICES ASSUME InstalledInv, [Next]_vars PROVE InstalledInv'
  OBVIOUS
<1>1. ASSUME NEW r \in Requests, NEW s \in Sides, SetOrDownload(s, r)
      PROVE  InstalledInv'
  <2> DEFINE call == [req |-> r, ok |-> result'.ok]
  <2>0. lastSet' = [lastSet EXCEPT ![s] = call]
    BY <1>1 DEF SetOrDownload
  <2>1. CASE /\ r \notin URLs
             /\ curator' = [curator EXCEPT ![s] = ZeroCurator]
             /\ result' = [call |-> "Set", ok |-> FALSE]
    <3>1. ZeroCurator \in CuratorShape
      BY DEF ZeroCurator, CuratorShape, Installed
    <3>2. call \in SetCalls /\ ~call.ok
      BY <2>1 DEF SetCalls
    <3>. QED
      BY <2>0, <2>1, <3>1, <3>2, SideStep
  <2>2. CASE /\ r \notin URLs
             /\ curator' = [curator EXCEPT ![s] = CuratorAt(r)]
             /\ result' = [call |-> "Set", ok |-> TRUE]
    <3>1. CuratorAt(r) \in CuratorShape
      BY <2>2 DEF CuratorAt, CuratorShape, Installed, Requests
    <3>2. call \in SetCalls /\ call.req \notin URLs
      BY <2>2 DEF SetCalls
    <3>. QED
      BY <2>0, <2>2, <3>1, <3>2, SideStep
  <2>3. CASE /\ r \in URLs
             /\ UNCHANGED curator
             /\ result' = [call |-> "Set", ok |-> FALSE]
    <3>1. curator[s] \in CuratorShape /\ curator' = [curator EXCEPT ![s] = curator[s]]
      BY <2>3 DEF InstalledInv
    <3>2. call \in SetCalls /\ ~call.ok
      BY <2>3 DEF SetCalls
    <3>. QED
      BY <2>0, <3>1, <3>2, SideStep
  <2>4. CASE /\ r \in URLs
             /\ FindListing(AvailableV5, r) # None
             /\ curator' = [curator EXCEPT ![s].db = FindListing(AvailableV5, r)]
             /\ result' = [call |-> "Set", ok |-> TRUE]
    BY <2>0, <2>4, SetURLStep
  <2>. QED
    BY <1>1, <2>1, <2>2, <2>3, <2>4 DEF SetOrDownload
<1>2. CASE DiffOpenBase \/ DiffOpenTarget \/ DiffStore
  <2>1. UNCHANGED <<curator, lastSet>>
    BY <1>2 DEF DiffOpenBase, DiffOpenTarget, DiffStore
  <2>. QED
    BY <2>1 DEF InstalledInv, InstalledIsRequested
<1>3. CASE DeleteDatabases
  <2>1. CASE UNCHANGED <<curator, lastSet>>
    BY <2>1 DEF InstalledInv, InstalledIsRequested
  <2>2. CASE /\ curator' = [curator EXCEPT !["base"].db = None]
             /\ lastSet' = [lastSet EXCEPT !["base"] = None]
    <3>1. curator' \in [Sides -> CuratorShape] /\ lastSet' \in [Sides -> SetCalls \cup {None}]
      BY <2>2 DEF InstalledInv, CuratorShape, Installed, Sides
    <3>2. lastSet'["base"] = None /\ curator'["target"] = curator["target"]
          /\ lastSet'["target"] = lastSet["target"]
      BY <2>2 DEF InstalledInv, Sides
    <3>. QED
      BY <3>1, <3>2 DEF InstalledInv, InstalledIsRequested, Sides
  <2>3. CASE /\ curator' = [t \in Sides |-> [curator[t] EXCEPT !.db = None]]
             /\ lastSet' = [t \in Sides |-> None]
    <3>1. curator' \in [Sides -> CuratorShape]
      BY <2>3 DEF InstalledInv, CuratorShape, Installed
    <3>. QED
      BY <2>3, <3>1 DEF InstalledInv, InstalledIsRequested
  <2>. QED
    BY <1>3, <2>1, <2>2, <2>3 DEF DeleteDatabases
<1>4. CASE UNCHANGED vars
  BY <1>4 DEF vars, InstalledInv, InstalledIsRequested
<1>. QED
  BY <1>1, <1>2, <1>3, <1>4 DEF Next, SetBaseDB, SetTargetDB, Sides

(***************************************************************************)
(* For every listing, every sequence of Set*DB, DiffDatabases and          *)
(* DeleteDatabases calls and whatever I/O fails: when the last Set*DB     *)
(* call on a side named a URL u and returned nil, that side holds the     *)
(* last listed schema-v5 entry with URL u (the loop of setOrDownload      *)
(* keeps the last match, and the filter of listings.Available keeps the   *)
(* listing's order), until it is deleted.                                 *)
(***************************************************************************)
THEOREM InstalledIsRequestedInvariant == Spec => []InstalledIsRequested
<1>1. InstalledInv => InstalledIsRequested
  BY DEF InstalledInv
<1>. QED
  BY <1>1, InitInstalledInv, NextInstalledInv, PTL DEF Spec

=============================================================================
