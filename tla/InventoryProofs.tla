-------------------------- MODULE InventoryProofs ---------------------------
(***************************************************************************)
(* What the inventory service and the workers keep in their database and   *)
(* cache: the sites that a sync fetched, the logins by card and PIN, the   *)
(* identifiers of rows, and the documents of loadcells.  For any number of *)
(* rows, pages, scans, logins, workers, requests and failures.             *)
(***************************************************************************)
EXTENDS CloudSync, CardLogin, Snowflake, LoadcellRegistry, FiniteSetTheorems, TLAPS

-----------------------------------------------------------------------------
(* Cloud synchronisation: with a cloud that changes at any moment.           *)

\* The sites of a page are there when its rows are about to be stored.
SitesFirst == \A s \in Syncs : sync[s].pc = "rows" => SitesIn(s) \subseteq sites

\* Calls that do not overlap: one is under way.
OneAtATime == ~crossed => \A s, t \in Running : s = t

\* Versions only grow: a call started when the cloud had less, and the local database
\* has what the cloud had once.
NothingNewer ==
    /\ \A s \in Syncs, r \in Rows : since[s][r] <= cloud[r]
    /\ \A s \in Syncs, r \in Rows : sync[s].list[r] <= cloud[r]
    /\ \A r \in Rows : local[r] <= cloud[r]

\* The page a call holds: of its rows, at least what the cloud had when the call
\* started, and if no other call stored anything, at least what is there.
Holding == {s \in Syncs : sync[s].pc \in {"sites", "rows"}}
PageHeld ==
    \A s \in Holding, r \in Rows :
        /\ PageOf[r] = sync[s].page => sync[s].list[r] >= since[s][r]
        /\ ~crossed /\ sync[s].list[r] > 0 => sync[s].list[r] >= local[r]

\* The pages before it are in the local database.
PagesDone ==
    ~crossed => \A s \in Running, r \in Rows :
        PageOf[r] < sync[s].page => local[r] >= since[s][r]

SyncInv == /\ SyncTypeOK /\ SitesFirst /\ UsersHaveSites
           /\ OneAtATime /\ NothingNewer /\ PageHeld /\ PagesDone /\ SyncedIsComplete

-----------------------------------------------------------------------------
(* Types.                                                                    *)

SyncTypes ==
    /\ cloud \in [Rows -> Versions] /\ local \in [Rows -> Versions]
    /\ sites \subseteq AllSites /\ sync \in [Syncs -> Sync]
    /\ since \in [Syncs -> [Rows -> Versions]] /\ crossed \in BOOLEAN

LEMMA TypeParts == SyncTypeOK <=> SyncTypes
BY DEF SyncTypeOK, SyncTypes

LEMMA ConstantFacts ==
    /\ LastPage \in Nat /\ 1 \in 1..LastPage /\ PageOf \in [Rows -> 1..LastPage]
    /\ MaxVersion \in Nat /\ 0 \in Versions /\ Versions \subseteq Nat
    /\ Absent \in [Rows -> Versions] /\ NoSync \in Sync
<1>1. LastPage \in Nat \ {0} /\ PageOf \in [Rows -> 1..LastPage] /\ MaxVersion \in Nat \ {0}
  BY SyncAssumption
<1>2. 1 \in 1..LastPage /\ 0 \in Versions /\ Versions \subseteq Nat
  BY <1>1 DEF Versions
<1>3. Absent \in [Rows -> Versions]
  BY <1>2 DEF Absent
<1>4. NoSync \in Sync
  BY <1>2, <1>3 DEF NoSync, Sync
<1> QED
  BY <1>1, <1>2, <1>3, <1>4

\* What a call is.
LEMMA SyncFacts ==
    ASSUME SyncTypes, NEW s \in Syncs
    PROVE  /\ sync[s] \in Sync /\ sync[s].page \in 1..LastPage
           /\ sync[s].list \in [Rows -> Versions] /\ since[s] \in [Rows -> Versions]
BY DEF SyncTypes, Sync

\* The rows of a page are versions of the cloud.
LEMMA PageFacts ==
    ASSUME SyncTypes, NEW p
    PROVE  /\ PageOfCloud(p) \in [Rows -> Versions]
           /\ \A r \in Rows : PageOfCloud(p)[r] <= cloud[r]
           /\ \A r \in Rows : PageOf[r] = p => PageOfCloud(p)[r] = cloud[r]
           /\ \A r \in Rows : PageOfCloud(p)[r] > 0 => PageOfCloud(p)[r] = cloud[r]
<1>1. \A r \in Rows : cloud[r] \in Versions /\ cloud[r] \in Nat
  BY ConstantFacts DEF SyncTypes
<1>2. \A r \in Rows : /\ PageOfCloud(p)[r] \in {0, cloud[r]}
                      /\ PageOf[r] = p => PageOfCloud(p)[r] = cloud[r]
  BY <1>1 DEF PageOfCloud, OnPage
<1>3. PageOfCloud(p) \in [Rows -> Versions]
  BY <1>1, ConstantFacts DEF PageOfCloud
<1>4. ASSUME NEW r \in Rows
      PROVE  /\ PageOfCloud(p)[r] <= cloud[r]
             /\ PageOfCloud(p)[r] > 0 => PageOfCloud(p)[r] = cloud[r]
  <2>1. cloud[r] \in Nat /\ PageOfCloud(p)[r] \in {0, cloud[r]}
    BY <1>1, <1>2
  <2> QED
    BY <2>1
<1> QED
  BY <1>2, <1>3, <1>4

LEMMA SyncInitInv == ASSUME SyncInit PROVE SyncInv
<1>1. /\ cloud \in [Rows -> {0, 1}] /\ local = Absent /\ sites = {}
      /\ sync = [s \in Syncs |-> NoSync] /\ since = [s \in Syncs |-> Absent]
      /\ crossed = FALSE
  BY DEF SyncInit
<1>2. \A s \in Syncs : sync[s].pc = "idle" /\ sync[s].list = Absent /\ since[s] = Absent
  BY <1>1 DEF NoSync
<1>3. cloud \in [Rows -> Versions]
  <2>1. {0, 1} \subseteq Versions
    BY SyncAssumption DEF Versions
  <2> QED
    BY <1>1, <2>1
<1>4. SyncTypeOK
  BY <1>1, <1>3, ConstantFacts, TypeParts DEF SyncTypes
<1>5. SitesFirst /\ OneAtATime /\ PageHeld /\ PagesDone /\ SyncedIsComplete
  BY <1>2 DEF SitesFirst, OneAtATime, Running, PageHeld, Holding, PagesDone, SyncedIsComplete
<1>6. UsersHaveSites
  BY <1>1 DEF UsersHaveSites, Absent
<1>7. NothingNewer
  BY <1>1, <1>2 DEF NothingNewer, Absent
<1> QED
  BY <1>4, <1>5, <1>6, <1>7 DEF SyncInv

-----------------------------------------------------------------------------
(* What a call under way has to show of its next state.                      *)

\* SitesIn, of a list of rows.
SitesOfList(list) == UNION {SitesOf[r][list[r]] : r \in {q \in Rows : list[q] > 0}}

LEMMA SitesInFact == \A s : SitesIn(s) = SitesOfList(sync[s].list)
BY DEF SitesIn, SitesOfList, Listed

LEMMA SitesKnown ==
    ASSUME NEW list \in [Rows -> Versions]
    PROVE  /\ SitesOfList(list) \subseteq AllSites
           /\ \A r \in Rows : list[r] > 0 => SitesOf[r][list[r]] \subseteq SitesOfList(list)
<1>1. \A r \in Rows : list[r] \in Nat /\ (list[r] > 0 => list[r] \in 1..MaxVersion)
  BY ConstantFacts DEF Versions
<1>2. \A r \in Rows : list[r] > 0 => SitesOf[r][list[r]] \subseteq AllSites
  BY <1>1 DEF AllSites
<1> QED
  BY <1>2 DEF SitesOfList

LEMMA CallGoesOn ==
    ASSUME SyncInv, NEW s \in Running, NEW x \in Sync,
           sync' = [sync EXCEPT ![s] = x], UNCHANGED <<cloud, since, crossed>>,
           sites \subseteq sites', sites' \subseteq AllSites,
           local' \in [Rows -> Versions], UsersHaveSites',
           \A r \in Rows : local'[r] <= cloud[r] /\ (~crossed => local[r] <= local'[r]),
           \A r \in Rows : x.list[r] <= cloud[r],
           x.pc = "rows" => SitesOfList(x.list) \subseteq sites',
           x.pc \in {"sites", "rows"} => \A r \in Rows :
               /\ PageOf[r] = x.page => x.list[r] >= since[s][r]
               /\ ~crossed /\ x.list[r] > 0 => x.list[r] >= local'[r],
           x.pc \in {"fetch", "sites", "rows"} /\ ~crossed =>
               \A r \in Rows : PageOf[r] < x.page => local'[r] >= since[s][r],
           x.pc = "true" /\ ~crossed =>
               \A r \in Rows : (x.empty => PageOf[r] < x.page) => local'[r] >= since[s][r]
    PROVE  SyncInv'
<1>1. SyncTypes
  BY TypeParts DEF SyncInv
<1>2. s \in Syncs /\ Running \subseteq Syncs /\ Holding \subseteq Syncs
  BY DEF Running, Holding
<1>3. sync'[s] = x /\ \A t \in Syncs \ {s} : sync'[t] = sync[t]
  BY <1>1, <1>2 DEF SyncTypes
<1>4. SyncTypeOK'
  <2>1. SyncTypes'
    BY <1>1, <1>2 DEF SyncTypes
  <2>2. SyncTypes' => SyncTypeOK'
    BY DEF SyncTypeOK, SyncTypes
  <2> QED
    BY <2>1, <2>2
<1>5. \A t \in Running : ~crossed => t = s
  BY DEF SyncInv, OneAtATime
<1>6. \A t \in Running' : t = s \/ t \in Running
  BY <1>2, <1>3 DEF Running
<1>7. \A t \in Holding' : (t = s /\ x.pc \in {"sites", "rows"}) \/ (t # s /\ t \in Holding)
  BY <1>2, <1>3 DEF Holding
<1>8. SitesFirst'
  <2>1. SUFFICES ASSUME NEW t \in Syncs, sync'[t].pc = "rows" PROVE SitesIn(t)' \subseteq sites'
    BY DEF SitesFirst
  <2>2. SitesIn(t)' = SitesOfList(sync'[t].list)
    BY DEF SitesIn, SitesOfList, Listed
  <2>3. CASE t = s
    BY <1>3, <2>1, <2>2, <2>3
  <2>4. CASE t # s
    BY <1>3, <2>1, <2>2, <2>4, SitesInFact DEF SyncInv, SitesFirst
  <2> QED
    BY <2>3, <2>4
<1>9. OneAtATime'
  BY <1>5, <1>6 DEF OneAtATime
<1>10. NothingNewer'
  BY <1>2, <1>3 DEF SyncInv, NothingNewer
<1>11. PageHeld'
  <2>1. SUFFICES ASSUME NEW t \in Holding', NEW r \in Rows
                 PROVE  /\ PageOf[r] = sync'[t].page => sync'[t].list[r] >= since[t][r]
                        /\ ~crossed /\ sync'[t].list[r] > 0 => sync'[t].list[r] >= local'[r]
    BY DEF PageHeld
  <2>2. CASE t = s
    BY <1>3, <1>7, <2>2
  <2>3. CASE t # s
    <3>1. t \in Holding /\ t \in Running /\ t \in Syncs
      BY <1>7, <2>3 DEF Holding, Running
    <3>2. crossed
      BY <1>5, <2>3, <3>1
    <3> QED
      BY <1>3, <2>3, <3>1, <3>2 DEF SyncInv, PageHeld
  <2> QED
    BY <2>2, <2>3
<1>12. PagesDone'
  <2>1. SUFFICES ASSUME ~crossed, NEW t \in Running', NEW r \in Rows, PageOf[r] < sync'[t].page
                 PROVE  local'[r] >= since[t][r]
    BY DEF PagesDone
  <2>2. t = s
    BY <1>5, <1>6, <2>1
  <2>3. x.pc \in {"fetch", "sites", "rows"}
    BY <1>2, <1>3, <2>2 DEF Running
  <2> QED
    BY <1>3, <2>1, <2>2, <2>3
<1>13. SyncedIsComplete'
  <2>1. SUFFICES ASSUME ~crossed, NEW t \in Syncs, sync'[t].pc = "true", NEW r \in Rows,
                        sync'[t].empty => PageOf[r] < sync'[t].page
                 PROVE  local'[r] >= since[t][r]
    BY DEF SyncedIsComplete
  <2>2. CASE t = s
    BY <1>3, <2>1, <2>2
  <2>3. CASE t # s
    <3>1. local[r] >= since[t][r]
      BY <1>3, <2>1, <2>3 DEF SyncInv, SyncedIsComplete
    <3>2. since[t][r] \in Nat /\ local[r] \in Nat /\ local'[r] \in Nat /\ local[r] <= local'[r]
      BY <1>1, <2>1, ConstantFacts DEF SyncTypes
    <3> QED
      BY <3>1, <3>2
  <2> QED
    BY <2>2, <2>3
<1> QED
  BY <1>4, <1>8, <1>9, <1>10, <1>11, <1>12, <1>13 DEF SyncInv
-----------------------------------------------------------------------------
(* The actions of a call.                                                    *)

\* What all of them need of the invariant.
LEMMA CallFacts ==
    ASSUME SyncInv, NEW s \in Running
    PROVE  /\ SyncTypes /\ s \in Syncs
           /\ \A r \in Rows : /\ cloud[r] \in Nat /\ local[r] \in Nat /\ since[s][r] \in Nat
                              /\ sync[s].list[r] \in Nat /\ PageOf[r] \in 1..LastPage
           /\ \A r \in Rows : /\ since[s][r] <= cloud[r] /\ local[r] <= cloud[r]
                              /\ sync[s].list[r] <= cloud[r]
           /\ sync[s].page \in 1..LastPage /\ LastPage \in Nat
           /\ local \in [Rows -> Versions] /\ sync[s].list \in [Rows -> Versions]
           /\ sites \subseteq AllSites
           /\ ~crossed => \A r \in Rows : PageOf[r] < sync[s].page => local[r] >= since[s][r]
<1>1. SyncTypes /\ s \in Syncs
  BY TypeParts DEF SyncInv, Running
<1>2. sync[s] \in Sync /\ since[s] \in [Rows -> Versions]
  BY <1>1 DEF SyncTypes
<1>3. \A r \in Rows : since[s][r] <= cloud[r] /\ local[r] <= cloud[r]
                      /\ sync[s].list[r] <= cloud[r]
  BY <1>1 DEF SyncInv, NothingNewer
<1>4. sync[s].page \in 1..LastPage /\ sync[s].list \in [Rows -> Versions]
  BY <1>2 DEF Sync
<1>5. \A r \in Rows : /\ cloud[r] \in Nat /\ local[r] \in Nat /\ since[s][r] \in Nat
                      /\ sync[s].list[r] \in Nat /\ PageOf[r] \in 1..LastPage
  BY <1>1, <1>2, <1>4, ConstantFacts DEF SyncTypes
<1> QED
  BY <1>1, <1>3, <1>4, <1>5, ConstantFacts DEF SyncInv, PagesDone, SyncTypes

\* A call that ends.
LEMMA EndsInv ==
    ASSUME SyncInv, NEW s \in Running, NEW how \in {"false", "true"},
           SyncEnds(s, how), UNCHANGED <<cloud, since, crossed>>,
           sites \subseteq sites', sites' \subseteq AllSites,
           local' \in [Rows -> Versions], UsersHaveSites',
           \A r \in Rows : local'[r] <= cloud[r] /\ (~crossed => local[r] <= local'[r]),
           how = "true" /\ ~crossed => \A r \in Rows : local'[r] >= since[s][r]
    PROVE  SyncInv'
<1> DEFINE x == [NoSync EXCEPT !.pc = how, !.page = sync[s].page]
<1>1. x \in Sync /\ x.pc = how /\ x.list = Absent
  BY ConstantFacts, CallFacts DEF NoSync, Sync
<1>2. sync' = [sync EXCEPT ![s] = x]
  BY DEF SyncEnds
<1>3. \A r \in Rows : x.list[r] <= cloud[r]
  BY <1>1, CallFacts DEF Absent
<1> HIDE DEF x
<1> QED
  BY <1>1, <1>2, <1>3, CallGoesOn

\* A call that did not store anything.
LEMMA QuietFacts ==
    ASSUME SyncInv, NEW s \in Running, UNCHANGED <<local, sites>>
    PROVE  /\ sites \subseteq sites' /\ sites' \subseteq AllSites
           /\ local' \in [Rows -> Versions] /\ UsersHaveSites'
           /\ \A r \in Rows : local'[r] <= cloud[r] /\ local[r] <= local'[r]
BY CallFacts DEF SyncInv, UsersHaveSites

\* A call that an answer without rows ends has copied the pages before it.
LEMMA EndOfListInv ==
    ASSUME SyncInv, NEW s \in Running, EndOfList(s), UNCHANGED <<cloud, since, crossed, local, sites>>
    PROVE  SyncInv'
<1> DEFINE x == [NoSync EXCEPT !.pc = "true", !.page = sync[s].page, !.empty = TRUE]
<1>1. x \in Sync /\ x.pc = "true" /\ x.list = Absent /\ x.empty /\ x.page = sync[s].page
  BY ConstantFacts, CallFacts DEF NoSync, Sync
<1>2. sync' = [sync EXCEPT ![s] = x]
  BY DEF EndOfList
<1>3. \A r \in Rows : x.list[r] <= cloud[r]
  BY <1>1, CallFacts DEF Absent
<1>4. ~crossed => \A r \in Rows : PageOf[r] < x.page => local'[r] >= since[s][r]
  BY <1>1, CallFacts
<1> HIDE DEF x
<1> QED
  BY <1>1, <1>2, <1>3, <1>4, QuietFacts, CallGoesOn

LEMMA FetchInv ==
    ASSUME SyncInv, NEW s \in Syncs, FetchPage(s) \/ FetchNothing(s) \/ FetchFails(s)
    PROVE  SyncInv'
<1>1. s \in Running /\ sync[s].pc = "fetch" /\ UNCHANGED <<local, sites, cloud, since, crossed>>
  BY DEF FetchPage, FetchNothing, FetchFails, Running
<1>2. CASE FetchNothing(s)
  BY <1>1, <1>2, EndOfListInv DEF FetchNothing
<1>3. CASE FetchFails(s)
  BY <1>1, <1>3, EndsInv, QuietFacts DEF FetchFails
<1>4. CASE FetchPage(s) /\ OnPage(sync[s].page) = {}
  BY <1>1, <1>4, EndOfListInv DEF FetchPage
<1>5. CASE FetchPage(s) /\ OnPage(sync[s].page) # {}
  <2> DEFINE x == [sync[s] EXCEPT !.pc = "sites", !.list = PageOfCloud(sync[s].page)]
  <2>1. sync' = [sync EXCEPT ![s] = x]
    BY <1>5 DEF FetchPage
  <2>2. /\ x \in Sync /\ x.pc = "sites" /\ x.page = sync[s].page
        /\ x.list = PageOfCloud(sync[s].page)
    BY <1>1, CallFacts, PageFacts DEF SyncTypes, Sync
  <2>3. \A r \in Rows : x.list[r] <= cloud[r]
    BY <1>1, <2>2, CallFacts, PageFacts
  <2>4. \A r \in Rows : /\ PageOf[r] = x.page => x.list[r] >= since[s][r]
                        /\ x.list[r] > 0 => x.list[r] >= local'[r]
    BY <1>1, <2>2, CallFacts, PageFacts
  <2>5. ~crossed => \A r \in Rows : PageOf[r] < x.page => local'[r] >= since[s][r]
    BY <1>1, <2>2, CallFacts
  <2> HIDE DEF x
  <2> QED
    BY <1>1, <2>1, <2>2, <2>3, <2>4, <2>5, CallGoesOn, QuietFacts
<1> QED
  BY <1>2, <1>3, <1>4, <1>5

LEMMA UpsertSitesInv ==
    ASSUME SyncInv, NEW s \in Syncs, UpsertSites(s)
    PROVE  SyncInv'
<1>1. s \in Running /\ s \in Holding /\ UNCHANGED <<local, cloud, since, crossed>>
  BY DEF UpsertSites, Running, Holding
<1> DEFINE x == [sync[s] EXCEPT !.pc = "rows"]
<1>2. sync' = [sync EXCEPT ![s] = x] /\ sites' = sites \cup SitesOfList(sync[s].list)
  BY SitesInFact DEF UpsertSites
<1>3. x \in Sync /\ x.pc = "rows" /\ x.page = sync[s].page /\ x.list = sync[s].list
  BY <1>1, CallFacts DEF SyncTypes, Sync
<1>4. sites' \subseteq AllSites
  BY <1>1, <1>2, CallFacts, SitesKnown
<1>5. UsersHaveSites'
  BY <1>1, <1>2 DEF SyncInv, UsersHaveSites
<1>6. \A r \in Rows : local'[r] <= cloud[r] /\ local[r] <= local'[r] /\ x.list[r] <= cloud[r]
  BY <1>1, <1>3, CallFacts
<1>7. \A r \in Rows : /\ PageOf[r] = x.page => x.list[r] >= since[s][r]
                      /\ ~crossed /\ x.list[r] > 0 => x.list[r] >= local'[r]
  BY <1>1, <1>3 DEF SyncInv, PageHeld
<1>8. ~crossed => \A r \in Rows : PageOf[r] < x.page => local'[r] >= since[s][r]
  BY <1>1, <1>3, CallFacts
<1>9. local' \in [Rows -> Versions]
  BY <1>1, CallFacts
<1> HIDE DEF x
<1> QED
  BY <1>1, <1>2, <1>3, <1>4, <1>5, <1>6, <1>7, <1>8, <1>9, CallGoesOn

\* Rows of the page that were stored, all or some: their sites are there, and nothing
\* went back to an older version unless calls overlapped.
LEMMA StoredFacts ==
    ASSUME SyncInv, NEW s \in Running, sync[s].pc = "rows", NEW part \in SUBSET Listed(s),
           local' = Upserted(s, part), UNCHANGED sites
    PROVE  /\ local' \in [Rows -> Versions] /\ UsersHaveSites'
           /\ \A r \in Rows : local'[r] <= cloud[r] /\ (~crossed => local[r] <= local'[r])
<1>1. \A r \in Rows : local'[r] = IF r \in part THEN sync[s].list[r] ELSE local[r]
  BY DEF Upserted
<1>2. local' \in [Rows -> Versions]
  BY CallFacts DEF Upserted
<1>3. \A r \in part : sync[s].list[r] > 0
  BY DEF Listed
<1>4. UsersHaveSites'
  <2>1. SitesOfList(sync[s].list) \subseteq sites
    BY CallFacts, SitesInFact DEF SyncInv, SitesFirst
  <2> QED
    BY <1>1, <1>3, <2>1, CallFacts, SitesKnown DEF SyncInv, UsersHaveSites
<1>5. \A r \in Rows : local'[r] <= cloud[r]
  BY <1>1, CallFacts
<1>6. ASSUME ~crossed, NEW r \in Rows PROVE local[r] <= local'[r]
  <2>1. s \in Holding /\ local[r] \in Nat /\ sync[s].list[r] \in Nat
    BY CallFacts DEF Holding
  <2>2. sync[s].list[r] > 0 => sync[s].list[r] >= local[r]
    BY <1>6, <2>1 DEF SyncInv, PageHeld
  <2> QED
    BY <1>1, <1>3, <2>1, <2>2
<1> QED
  BY <1>2, <1>4, <1>5, <1>6

LEMMA UpsertRowsInv ==
    ASSUME SyncInv, NEW s \in Syncs, UpsertRows(s)
    PROVE  SyncInv'
<1>1. s \in Running /\ s \in Holding /\ sync[s].pc = "rows"
      /\ UNCHANGED <<sites, cloud, since, crossed>> /\ local' = Upserted(s, Listed(s))
  BY DEF UpsertRows, Running, Holding
<1>2. /\ local' \in [Rows -> Versions] /\ UsersHaveSites'
      /\ \A r \in Rows : local'[r] <= cloud[r] /\ (~crossed => local[r] <= local'[r])
  BY <1>1, StoredFacts
<1>3. sites \subseteq sites' /\ sites' \subseteq AllSites
  BY <1>1, CallFacts
\* The page is stored, the pages before it are still there.
<1>4. ASSUME ~crossed, NEW r \in Rows, PageOf[r] <= sync[s].page
      PROVE  local'[r] >= since[s][r]
  <2>1. /\ local[r] \in Nat /\ since[s][r] \in Nat /\ sync[s].list[r] \in Nat
        /\ PageOf[r] \in Nat /\ sync[s].page \in Nat /\ local'[r] \in Nat
    <3>1. PageOf[r] \in 1..LastPage /\ sync[s].page \in 1..LastPage
      BY <1>1, CallFacts
    <3>2. local'[r] \in Nat
      BY <1>2, ConstantFacts
    <3>3. local[r] \in Nat /\ since[s][r] \in Nat /\ sync[s].list[r] \in Nat
      BY <1>1, CallFacts
    <3> QED
      BY <3>1, <3>2, <3>3
  <2>2. CASE PageOf[r] = sync[s].page
    <3>1. sync[s].list[r] >= since[s][r]
      BY <1>1, <2>2 DEF SyncInv, PageHeld
    <3>2. sync[s].list[r] > 0 => local'[r] = sync[s].list[r]
      BY <1>1 DEF Upserted, Listed
    <3> QED
      BY <2>1, <3>1, <3>2
  <2>3. CASE PageOf[r] < sync[s].page
    <3>1. local[r] >= since[s][r] /\ local[r] <= local'[r]
      BY <1>1, <1>2, <1>4, <2>3, CallFacts
    <3> QED
      BY <2>1, <3>1
  <2> QED
    BY <1>4, <2>1, <2>2, <2>3
<1>5. CASE sync[s].page < LastPage
  <2> DEFINE x == [NoSync EXCEPT !.pc = "fetch", !.page = sync[s].page + 1]
  <2>1. sync' = [sync EXCEPT ![s] = x]
    BY <1>5 DEF UpsertRows, NextPage
  <2>2. sync[s].page + 1 \in 1..LastPage
    BY <1>1, <1>5, CallFacts
  <2>3. x \in Sync /\ x.pc = "fetch" /\ x.page = sync[s].page + 1 /\ x.list = Absent
    BY <2>2, ConstantFacts DEF NoSync, Sync
  <2>4. \A r \in Rows : x.list[r] <= cloud[r]
    BY <1>1, <2>3, CallFacts DEF Absent
  <2>5. ~crossed => \A r \in Rows : PageOf[r] < x.page => local'[r] >= since[s][r]
    <3>1. \A r \in Rows : PageOf[r] < x.page => PageOf[r] <= sync[s].page
      BY <1>1, <2>3, CallFacts
    <3> QED
      BY <1>4, <3>1
  <2> HIDE DEF x
  <2> QED
    BY <1>1, <1>2, <1>3, <2>1, <2>3, <2>4, <2>5, CallGoesOn
<1>6. CASE ~(sync[s].page < LastPage)
  <2>1. SyncEnds(s, "true")
    BY <1>6 DEF UpsertRows, NextPage
  <2>2. \A r \in Rows : PageOf[r] <= sync[s].page
    BY <1>1, <1>6, CallFacts
  <2>3. ~crossed => \A r \in Rows : local'[r] >= since[s][r]
    BY <1>4, <2>2
  <2> QED
    BY <1>1, <1>2, <1>3, <2>1, <2>3, EndsInv
<1> QED
  BY <1>5, <1>6

LEMMA UpsertFailsInv ==
    ASSUME SyncInv, NEW s \in Syncs, UpsertFails(s)
    PROVE  SyncInv'
<1>1. s \in Running /\ SyncEnds(s, "false") /\ UNCHANGED <<cloud, since, crossed>>
  BY DEF UpsertFails, Running
<1>2. CASE sync[s].pc = "sites"
  <2>1. PICK part \in SUBSET SitesIn(s) : sites' = sites \cup part
    BY <1>2 DEF UpsertFails
  <2>2. local' = local
    BY <1>2 DEF UpsertFails
  <2>3. sites \subseteq sites' /\ sites' \subseteq AllSites
    BY <1>1, <2>1, CallFacts, SitesKnown, SitesInFact
  <2>4. UsersHaveSites'
    BY <2>2, <2>3 DEF SyncInv, UsersHaveSites
  <2>5. local' \in [Rows -> Versions]
        /\ \A r \in Rows : local'[r] <= cloud[r] /\ local[r] <= local'[r]
    BY <1>1, <2>2, CallFacts
  <2> QED
    BY <1>1, <2>3, <2>4, <2>5, EndsInv
<1>3. CASE sync[s].pc # "sites"
  <2>1. sync[s].pc = "rows" /\ UNCHANGED sites
    BY <1>3 DEF UpsertFails
  <2>2. PICK part \in SUBSET Listed(s) : local' = Upserted(s, part)
    BY <1>3 DEF UpsertFails
  <2>3. /\ local' \in [Rows -> Versions] /\ UsersHaveSites'
        /\ \A r \in Rows : local'[r] <= cloud[r] /\ (~crossed => local[r] <= local'[r])
    BY <1>1, <2>1, <2>2, StoredFacts
  <2>4. sites \subseteq sites' /\ sites' \subseteq AllSites
    BY <1>1, <2>1, CallFacts
  <2> QED
    BY <1>1, <2>3, <2>4, EndsInv
<1> QED
  BY <1>2, <1>3
-----------------------------------------------------------------------------
(* The start of a call, and the cloud.                                       *)

\* A call starts from the cloud as it is; if another is under way they cross.
LEMMA SyncStartInv ==
    ASSUME SyncInv, NEW s \in Syncs, SyncStart(s)
    PROVE  SyncInv'
<1> DEFINE x == [NoSync EXCEPT !.pc = "fetch"]
<1>1. SyncTypes /\ s \notin Running /\ UNCHANGED <<cloud, local, sites>>
      /\ sync' = [sync EXCEPT ![s] = x] /\ since' = [since EXCEPT ![s] = cloud]
      /\ crossed' = (crossed \/ Running # {})
  BY TypeParts DEF SyncStart, SyncInv
<1>2. x \in Sync /\ x.pc = "fetch" /\ x.page = 1 /\ x.list = Absent
  BY ConstantFacts DEF NoSync, Sync
<1>3. sync'[s] = x /\ since'[s] = cloud
      /\ \A t \in Syncs \ {s} : sync'[t] = sync[t] /\ since'[t] = since[t]
  BY <1>1 DEF SyncTypes
<1> HIDE DEF x
<1>4. SyncTypeOK'
  <2>1. crossed' \in BOOLEAN
    BY <1>1
  <2>2. SyncTypes'
    BY <1>1, <1>2, <2>1 DEF SyncTypes
  <2>3. SyncTypes' => SyncTypeOK'
    BY DEF SyncTypeOK, SyncTypes
  <2> QED
    BY <2>2, <2>3
<1>5. SitesFirst'
  <2>1. SUFFICES ASSUME NEW t \in Syncs, sync'[t].pc = "rows" PROVE SitesIn(t)' \subseteq sites'
    BY DEF SitesFirst
  <2>2. t # s /\ sync'[t] = sync[t]
    BY <1>2, <1>3, <2>1
  <2>3. SitesIn(t)' = SitesIn(t)
    BY <2>2 DEF SitesIn, Listed
  <2> QED
    BY <1>1, <2>1, <2>2, <2>3 DEF SyncInv, SitesFirst
<1>6. UsersHaveSites'
  BY <1>1 DEF SyncInv, UsersHaveSites
<1>7. \A t \in Running' : t = s \/ t \in Running
  BY <1>3 DEF Running
<1>8. ~crossed' => ~crossed /\ Running = {} /\ Running' \subseteq {s}
  BY <1>1, <1>7
<1>9. OneAtATime'
  BY <1>8 DEF OneAtATime
<1>10. NothingNewer'
  <2>1. SUFFICES ASSUME NEW t \in Syncs, NEW r \in Rows
                 PROVE  since'[t][r] <= cloud[r] /\ sync'[t].list[r] <= cloud[r]
    BY <1>1 DEF SyncInv, NothingNewer
  <2>2. cloud[r] \in Nat
    BY <1>1, ConstantFacts DEF SyncTypes
  <2>3. CASE t = s
    BY <1>2, <1>3, <2>2, <2>3 DEF Absent
  <2>4. CASE t # s
    BY <1>3, <2>4 DEF SyncInv, NothingNewer
  <2> QED
    BY <2>3, <2>4
<1>11. PageHeld'
  <2>1. \A t \in Holding' : t \in Holding /\ t # s /\ t \in Syncs
    BY <1>2, <1>3 DEF Holding
  <2>2. ~crossed' => ~crossed
    BY <1>1
  <2> QED
    BY <1>1, <1>3, <2>1, <2>2 DEF SyncInv, PageHeld
<1>12. PagesDone'
  <2>1. SUFFICES ASSUME ~crossed', NEW t \in Running', NEW r \in Rows,
                        PageOf[r] < sync'[t].page
                 PROVE  FALSE
    BY DEF PagesDone
  <2>2. t = s /\ PageOf[r] < 1
    BY <1>2, <1>3, <1>8, <2>1
  <2>3. PageOf[r] \in 1..LastPage /\ LastPage \in Nat
    BY <2>1, ConstantFacts
  <2> QED
    BY <2>2, <2>3
<1>13. SyncedIsComplete'
  <2>1. SUFFICES ASSUME ~crossed', NEW t \in Syncs, sync'[t].pc = "true", NEW r \in Rows,
                        sync'[t].empty => PageOf[r] < sync'[t].page
                 PROVE  local[r] >= since'[t][r]
    BY <1>1 DEF SyncedIsComplete
  <2>2. t # s
    BY <1>2, <1>3, <2>1
  <2> QED
    BY <1>1, <1>3, <2>1, <2>2 DEF SyncInv, SyncedIsComplete
<1> QED
  BY <1>4, <1>5, <1>6, <1>9, <1>10, <1>11, <1>12, <1>13 DEF SyncInv

LEMMA CloudChangesInv ==
    ASSUME SyncInv, NEW r \in Rows, CloudChanges(r)
    PROVE  SyncInv'
<1>1. SyncTypes /\ UNCHANGED <<local, sites, sync, since, crossed>>
      /\ cloud' = [cloud EXCEPT ![r] = @ + 1] /\ cloud[r] < MaxVersion
  BY TypeParts DEF CloudChanges, SyncInv
<1>2. \A q \in Rows : cloud[q] \in Nat /\ cloud'[q] \in {cloud[q], cloud[q] + 1}
  BY <1>1, ConstantFacts DEF SyncTypes
<1>3. cloud' \in [Rows -> Versions]
  <2>1. cloud[r] + 1 \in Versions
    BY <1>1, <1>2, ConstantFacts DEF Versions
  <2> QED
    BY <1>1, <2>1 DEF SyncTypes
<1>4. SyncTypeOK'
  <2>1. SyncTypes'
    BY <1>1, <1>3 DEF SyncTypes
  <2>2. SyncTypes' => SyncTypeOK'
    BY DEF SyncTypeOK, SyncTypes
  <2> QED
    BY <2>1, <2>2
<1>5. NothingNewer'
  <2>1. ASSUME NEW t \in Syncs, NEW q \in Rows
        PROVE  since[t][q] <= cloud'[q] /\ sync[t].list[q] <= cloud'[q]
    <3>1. since[t][q] \in Nat /\ sync[t].list[q] \in Nat
      BY <1>1, SyncFacts, ConstantFacts
    <3>2. since[t][q] <= cloud[q] /\ sync[t].list[q] <= cloud[q]
      BY DEF SyncInv, NothingNewer
    <3> QED
      BY <1>2, <3>1, <3>2
  <2>2. ASSUME NEW q \in Rows PROVE local[q] <= cloud'[q]
    <3>1. local[q] \in Nat /\ local[q] <= cloud[q]
      BY <1>1, ConstantFacts DEF SyncTypes, SyncInv, NothingNewer
    <3> QED
      BY <1>2, <3>1
  <2> QED
    BY <1>1, <2>1, <2>2 DEF NothingNewer
<1>6. /\ SitesFirst' /\ UsersHaveSites' /\ OneAtATime' /\ PageHeld' /\ PagesDone'
      /\ SyncedIsComplete'
  BY <1>1 DEF SyncInv, SitesFirst, SitesIn, Listed, UsersHaveSites, OneAtATime, Running,
              PageHeld, Holding, PagesDone, SyncedIsComplete
<1> QED
  BY <1>4, <1>5, <1>6 DEF SyncInv

LEMMA SyncStepInv == ASSUME SyncInv, [SyncNext]_syncVars PROVE SyncInv'
<1>1. ASSUME NEW r \in Rows, CloudChanges(r) PROVE SyncInv'
  BY <1>1, CloudChangesInv
<1>2. ASSUME NEW s \in Syncs, SyncStart(s) PROVE SyncInv'
  BY <1>2, SyncStartInv
<1>3. ASSUME NEW s \in Syncs, FetchPage(s) \/ FetchNothing(s) \/ FetchFails(s) PROVE SyncInv'
  BY <1>3, FetchInv
<1>4. ASSUME NEW s \in Syncs, UpsertSites(s) PROVE SyncInv'
  BY <1>4, UpsertSitesInv
<1>5. ASSUME NEW s \in Syncs, UpsertRows(s) PROVE SyncInv'
  BY <1>5, UpsertRowsInv
<1>6. ASSUME NEW s \in Syncs, UpsertFails(s) PROVE SyncInv'
  BY <1>6, UpsertFailsInv
<1>7. CASE UNCHANGED syncVars
  BY <1>7 DEF syncVars, SyncInv, SyncTypeOK, SitesFirst, SitesIn, Listed, UsersHaveSites,
              OneAtATime, Running, NothingNewer, PageHeld, Holding, PagesDone, SyncedIsComplete
<1> QED
  BY <1>1, <1>2, <1>3, <1>4, <1>5, <1>6, <1>7 DEF SyncNext

-----------------------------------------------------------------------------
(* The types of the databases and of the calls hold for any number of them.  *)
THEOREM SyncTypeCorrect == SyncSpec => []SyncTypeOK
<1>1. SyncInit => SyncInv
  BY SyncInitInv
<1>2. SyncInv /\ [SyncNext]_syncVars => SyncInv'
  BY SyncStepInv
<1>3. SyncInv => SyncTypeOK
  BY DEF SyncInv
<1> QED
  BY <1>1, <1>2, <1>3, PTL DEF SyncSpec

(* A user that syncUsers stored refers to sites that were stored before,     *)
(* whatever fails half way and however calls overlap.                        *)
THEOREM SitesBeforeUsers == SyncSpec => []UsersHaveSites
<1>1. SyncInit => SyncInv
  BY SyncInitInv
<1>2. SyncInv /\ [SyncNext]_syncVars => SyncInv'
  BY SyncStepInv
<1>3. SyncInv => UsersHaveSites
  BY DEF SyncInv
<1> QED
  BY <1>1, <1>2, <1>3, PTL DEF SyncSpec

(* A sync that answers true has copied every row that the cloud had when it  *)
(* was asked to, over any number of pages and while the cloud changes, as    *)
(* long as calls for one collection do not overlap; if an answer without     *)
(* rows ended it, those of the pages before.                                 *)
THEOREM SyncIsComplete == SyncSpec => []SyncedIsComplete
<1>1. SyncInit => SyncInv
  BY SyncInitInv
<1>2. SyncInv /\ [SyncNext]_syncVars => SyncInv'
  BY SyncStepInv
<1>3. SyncInv => SyncedIsComplete
  BY DEF SyncInv
<1> QED
  BY <1>1, <1>2, <1>3, PTL DEF SyncSpec

-----------------------------------------------------------------------------
(* Logins by card and by PIN, decided at the tablets.                        *)

\* The types, variable by variable.
LoginTypes ==
    /\ registered \subseteq Tablets /\ mfa \subseteq registered
    /\ signatures \in [Signatures -> Users \cup {NoUser}]
    /\ signed \in 0..MaxSignatures /\ scan \in [ScanSlots -> Scan]
    /\ shown \subseteq Clusters \X Signatures /\ pin \in [PinSlots -> Pin]
    /\ granted \in [Signatures -> Nat] /\ refused \in [Signatures -> Nat]
    /\ crossing \subseteq Signatures
    /\ lenient \in [ScanSlots -> SUBSET Clusters] /\ upsets \in 0..MaxUpsets

\* A signature that was not made decided nothing, and nobody holds it.
UnmadeIsFree ==
    \A k \in Signatures : k > signed =>
        /\ signatures[k] = NoUser /\ granted[k] = 0 /\ refused[k] = 0
        /\ \A p \in PinSlots : pin[p].signature # k

\* A signature is with one login by PIN, which uses it up, and decides one.
OneHolder ==
    \A k \in Signatures \ crossing :
        /\ \A p, q \in PinSlots : pin[p].signature = k /\ pin[q].signature = k => p = q
        /\ granted[k] + refused[k] <= 1
        /\ granted[k] + refused[k] > 0 =>
               signatures[k] = NoUser /\ \A p \in PinSlots : pin[p].signature # k

UsedUp == \A p \in PinSlots : pin[p].pc = "pin" => signatures[pin[p].signature] = NoUser

HeldWhileBusy == \A p \in PinSlots :
    IF pin[p].pc = "idle" THEN pin[p].signature = 0 ELSE pin[p].signature \in Signatures

\* Where a scan stands: a cluster of its user is to be asked, need not be, or has asked.
ScanKnows ==
    \A s \in ScanSlots :
        /\ scan[s].pc = "idle" => scan[s].results = {}
        /\ scan[s].pc = "token" => scan[s].results = {} /\ scan[s].left = {}
        /\ scan[s].pc # "idle" =>
               /\ scan[s].user \in Users
               /\ \A c \in ClustersOf[scan[s].user] :
                      \/ c \in scan[s].left \/ c \in lenient[s]
                      \/ \E k \in Signatures : <<c, k>> \in scan[s].results

\* The clusters to be asked that would let the user in are among the lenient ones.
LenientIsNoted ==
    \A s \in ScanSlots : \A c \in scan[s].left : LetsIn(c) => c \in lenient[s]

LoginInv == /\ LoginTypes /\ UnmadeIsFree /\ OneHolder /\ UsedUp /\ HeldWhileBusy
            /\ ScanKnows /\ LenientIsNoted /\ AliveIsKnown
-----------------------------------------------------------------------------
LEMMA LoginConstants ==
    /\ NoUser \notin Users /\ ClustersOf \in [Users -> SUBSET Clusters]
    /\ ClusterOf \in [Tablets -> Clusters] /\ MaxSignatures \in Nat /\ MaxUpsets \in Nat
BY LoginAssumption DEF LoginAssumption

LEMMA SlotTypes ==
    ASSUME LoginTypes
    PROVE  /\ \A s \in ScanSlots : /\ scan[s].pc \in {"idle", "asks", "token"}
                                   /\ scan[s].user \in Users \cup {NoUser}
                                   /\ scan[s].left \subseteq Clusters
                                   /\ scan[s].results \subseteq Clusters \X Signatures
           /\ \A p \in PinSlots : /\ pin[p].pc \in {"idle", "user", "pin"}
                                  /\ pin[p].signature \in 0..MaxSignatures
                                  /\ pin[p].tablet \subseteq Tablets
           /\ \A k \in Signatures : /\ granted[k] \in Nat /\ refused[k] \in Nat
                                    /\ k \in Nat /\ k >= 1 /\ k <= MaxSignatures
<1>1. \A s \in ScanSlots : scan[s] \in Scan
  BY DEF LoginTypes
<1>2. \A p \in PinSlots : pin[p] \in Pin
  BY DEF LoginTypes
<1>3. \A k \in Signatures : /\ granted[k] \in Nat /\ refused[k] \in Nat
                            /\ k \in Nat /\ k >= 1 /\ k <= MaxSignatures
  BY LoginConstants DEF LoginTypes, Signatures
<1>4. \A s \in ScanSlots : /\ scan[s].pc \in {"idle", "asks", "token"}
                           /\ scan[s].user \in Users \cup {NoUser}
                           /\ scan[s].left \subseteq Clusters
                           /\ scan[s].results \subseteq Clusters \X Signatures
  BY <1>1 DEF Scan
<1>5. \A p \in PinSlots : /\ pin[p].pc \in {"idle", "user", "pin"}
                          /\ pin[p].signature \in 0..MaxSignatures
                          /\ pin[p].tablet \subseteq Tablets
  BY <1>2 DEF Pin
<1> QED  BY <1>3, <1>4, <1>5

\* What the slots are at rest.
LEMMA RestingSlots ==
    /\ NoScan \in Scan /\ NoScan.pc = "idle" /\ NoScan.left = {} /\ NoScan.results = {}
    /\ NoPin \in Pin /\ NoPin.pc = "idle" /\ NoPin.signature = 0
<1>1. 0 \in 0..MaxSignatures
  BY LoginConstants
<1> QED  BY <1>1 DEF NoScan, Scan, NoPin, Pin

LEMMA LoginStart == LoginInit => LoginInv
<1> SUFFICES ASSUME LoginInit PROVE LoginInv
  OBVIOUS
<1>1. /\ registered \subseteq Tablets /\ mfa \subseteq registered
      /\ signatures = [k \in Signatures |-> NoUser] /\ signed = 0
      /\ scan = [s \in ScanSlots |-> NoScan] /\ shown = {}
      /\ pin = [p \in PinSlots |-> NoPin]
      /\ granted = [k \in Signatures |-> 0] /\ refused = granted /\ crossing = {}
      /\ lenient = [s \in ScanSlots |-> {}] /\ upsets = 0
  BY DEF LoginInit
<1>2. LoginTypes
  <2>1. scan \in [ScanSlots -> Scan] /\ pin \in [PinSlots -> Pin]
    BY <1>1, RestingSlots
  <2>2. signed \in 0..MaxSignatures /\ upsets \in 0..MaxUpsets
    BY <1>1, LoginConstants
  <2>3. /\ signatures \in [Signatures -> Users \cup {NoUser}]
        /\ granted \in [Signatures -> Nat] /\ refused \in [Signatures -> Nat]
        /\ lenient \in [ScanSlots -> SUBSET Clusters]
    BY <1>1
  <2> QED  BY <1>1, <2>1, <2>2, <2>3 DEF LoginTypes
<1>3. UnmadeIsFree /\ OneHolder /\ UsedUp /\ HeldWhileBusy
  <2>1. \A k \in Signatures : k # 0 /\ granted[k] = 0 /\ refused[k] = 0 /\ signatures[k] = NoUser
    BY <1>1 DEF Signatures
  <2>2. \A p \in PinSlots : pin[p].pc = "idle" /\ pin[p].signature = 0
    BY <1>1, RestingSlots
  <2> QED  BY <2>1, <2>2 DEF UnmadeIsFree, OneHolder, UsedUp, HeldWhileBusy
<1>4. ScanKnows /\ LenientIsNoted
  <2>1. \A s \in ScanSlots : scan[s].pc = "idle" /\ scan[s].left = {} /\ scan[s].results = {}
    BY <1>1, RestingSlots
  <2> QED  BY <2>1 DEF ScanKnows, LenientIsNoted
<1>5. AliveIsKnown
  BY <1>1 DEF AliveIsKnown
<1> QED  BY <1>2, <1>3, <1>4, <1>5 DEF LoginInv

\* Requests by PIN that a step leaves alone.
LEMMA PinsAlone ==
    ASSUME LoginInv, UNCHANGED <<pin, granted, refused, crossing, signed>>,
           \A k \in Signatures : signatures'[k] # NoUser => signatures[k] # NoUser
    PROVE  UnmadeIsFree' /\ OneHolder' /\ UsedUp' /\ HeldWhileBusy'
<1>1. UnmadeIsFree' /\ OneHolder' /\ HeldWhileBusy'
  BY DEF LoginInv, UnmadeIsFree, OneHolder, HeldWhileBusy
<1>2. \A p \in PinSlots : pin[p].pc = "pin" => pin[p].signature \in Signatures
  BY DEF LoginInv, HeldWhileBusy
<1>3. UsedUp'
  BY <1>2 DEF LoginInv, UsedUp
<1> QED  BY <1>1, <1>3

\* Scans that a step leaves alone.
LEMMA ScansAlone ==
    ASSUME LoginInv, UNCHANGED <<tabletVars, scan, lenient>>
    PROVE  ScanKnows' /\ LenientIsNoted'
<1>1. UNCHANGED <<registered, mfa>>
  BY DEF tabletVars
<1>2. ScanKnows'
  BY DEF LoginInv, ScanKnows
<1>3. LenientIsNoted'
  BY <1>1 DEF LoginInv, LenientIsNoted, LetsIn, TabletsOf
<1> QED  BY <1>2, <1>3

LEMMA CardScannedHolds ==
    ASSUME LoginInv, NEW s \in ScanSlots, NEW u \in Users, CardScanned(s, u)
    PROVE  LoginInv'
<1> DEFINE r == [NoScan EXCEPT !.user = u, !.left = ClustersOf[u],
                               !.pc = IF ClustersOf[u] = {} THEN "token" ELSE "asks"]
<1>1. /\ scan[s].pc = "idle" /\ scan' = [scan EXCEPT ![s] = r]
      /\ lenient' = [lenient EXCEPT ![s] = {c \in ClustersOf[u] : LetsIn(c)}]
      /\ UNCHANGED <<tabletVars, signatures, signed, shown, pin, granted, refused, crossing, upsets>>
  BY DEF CardScanned
<1>2. ClustersOf[u] \subseteq Clusters /\ u \in Users \cup {NoUser}
  BY LoginConstants
<1>3. /\ r \in Scan /\ r.pc \in {"token", "asks"} /\ (r.pc = "token" => r.left = {})
      /\ r.user = u /\ r.left = ClustersOf[u] /\ r.results = {}
  BY <1>2, RestingSlots DEF Scan
<1> HIDE DEF r
<1>4. UNCHANGED <<registered, mfa>>
  BY <1>1 DEF tabletVars
<1>5. LoginTypes'
  BY <1>1, <1>2, <1>3, <1>4 DEF LoginInv, LoginTypes
<1>6. /\ scan'[s] = r /\ \A v \in ScanSlots : v # s => scan'[v] = scan[v]
      /\ lenient'[s] = {c \in ClustersOf[u] : LetsIn(c)}
      /\ \A v \in ScanSlots : v # s => lenient'[v] = lenient[v]
  BY <1>1 DEF LoginInv, LoginTypes
<1>7. ScanKnows'
  <2> SUFFICES ASSUME NEW v \in ScanSlots
               PROVE  /\ scan'[v].pc = "idle" => scan'[v].results = {}
                      /\ scan'[v].pc = "token" => scan'[v].results = {} /\ scan'[v].left = {}
                      /\ scan'[v].pc # "idle" =>
                             /\ scan'[v].user \in Users
                             /\ \A c \in ClustersOf[scan'[v].user] :
                                    \/ c \in scan'[v].left \/ c \in lenient'[v]
                                    \/ \E k \in Signatures : <<c, k>> \in scan'[v].results
    BY DEF ScanKnows
  <2> QED  BY <1>3, <1>6 DEF LoginInv, ScanKnows
<1>8. LenientIsNoted'
  <2>1. \A c : LetsIn(c)' <=> LetsIn(c)
    BY <1>4 DEF LetsIn, TabletsOf
  <2>2. \A c \in r.left : LetsIn(c) => c \in lenient'[s]
    BY <1>3, <1>6
  <2> SUFFICES ASSUME NEW v \in ScanSlots, NEW c \in scan'[v].left, LetsIn(c)
               PROVE  c \in lenient'[v]
    BY <2>1 DEF LenientIsNoted
  <2> QED  BY <1>6, <2>2 DEF LoginInv, LenientIsNoted
<1>9. UnmadeIsFree' /\ OneHolder' /\ UsedUp' /\ HeldWhileBusy'
  BY <1>1, PinsAlone
<1>10. AliveIsKnown'
  <2>1. scan[s].results = {}
    BY <1>1 DEF LoginInv, ScanKnows
  <2> QED  BY <1>1, <1>6, <2>1 DEF LoginInv, AliveIsKnown
<1> QED  BY <1>5, <1>7, <1>8, <1>9, <1>10 DEF LoginInv

\* What becomes of a scan when one more cluster was asked.
LEMMA AskedGoesOn ==
    ASSUME LoginTypes, NEW s \in ScanSlots, scan[s].pc = "asks", NEW c,
           NEW results \in SUBSET (Clusters \X Signatures), AskedOf(s, c, results)
    PROVE  /\ scan' \in [ScanSlots -> Scan] /\ shown' \subseteq Clusters \X Signatures
           /\ \A v \in ScanSlots : v # s => scan'[v] = scan[v]
           /\ scan'[s].left \subseteq scan[s].left \ {c}
           /\ \/ scan'[s].pc = "idle" /\ scan'[s].results = {} /\ shown' = shown \cup results
              \/ /\ scan'[s].pc \in {"asks", "token"} /\ shown' = shown
                 /\ scan'[s].user = scan[s].user /\ scan'[s].results = results
                 /\ scan'[s].left = scan[s].left \ {c}
                 /\ scan'[s].pc = "token" => results = {} /\ scan'[s].left = {}
<1> DEFINE left == scan[s].left \ {c}
<1>1. scan[s] \in Scan
  BY DEF LoginTypes
<1>2. CASE left = {} /\ results # {}
  <2>1. scan' = [scan EXCEPT ![s] = NoScan] /\ shown' = shown \cup results
    BY <1>2 DEF AskedOf
  <2>2. scan' \in [ScanSlots -> Scan] /\ scan'[s] = NoScan
        /\ \A v \in ScanSlots : v # s => scan'[v] = scan[v]
    BY <2>1, RestingSlots DEF LoginTypes
  <2>3. shown' \subseteq Clusters \X Signatures
    BY <2>1 DEF LoginTypes
  <2> QED  BY <2>1, <2>2, <2>3, RestingSlots
<1>3. CASE ~(left = {} /\ results # {})
  <2> DEFINE r == [scan[s] EXCEPT !.left = left, !.results = results,
                                  !.pc = IF left = {} THEN "token" ELSE "asks"]
  <2>1. scan' = [scan EXCEPT ![s] = r] /\ shown' = shown
    BY <1>3 DEF AskedOf
  <2>2. left \subseteq Clusters
    BY <1>1 DEF Scan
  <2>3. /\ r \in Scan /\ r.pc = (IF left = {} THEN "token" ELSE "asks")
        /\ r.user = scan[s].user /\ r.results = results /\ r.left = left
    BY <1>1, <2>2 DEF Scan
  <2> HIDE DEF r
  <2>4. scan' \in [ScanSlots -> Scan] /\ scan'[s] = r
        /\ \A v \in ScanSlots : v # s => scan'[v] = scan[v]
    BY <2>1, <2>3 DEF LoginTypes
  <2>5. shown' \subseteq Clusters \X Signatures
    BY <2>1 DEF LoginTypes
  <2> QED  BY <1>3, <2>1, <2>3, <2>4, <2>5
<1> QED  BY <1>2, <1>3

\* One more cluster was asked: it is noted as lenient, or among the results.
LEMMA AskedIsKnown ==
    ASSUME LoginInv, NEW s \in ScanSlots, scan[s].pc = "asks", NEW c \in scan[s].left,
           NEW results \in SUBSET (Clusters \X Signatures), AskedOf(s, c, results),
           scan[s].results \subseteq results, UNCHANGED tabletVars,
           \A v \in ScanSlots : lenient[v] \subseteq lenient'[v],
           c \in lenient'[s] \/ \E k \in Signatures : <<c, k>> \in results
    PROVE  ScanKnows' /\ LenientIsNoted'
<1>1. /\ \A v \in ScanSlots : v # s => scan'[v] = scan[v]
      /\ scan'[s].left \subseteq scan[s].left \ {c}
      /\ \/ scan'[s].pc = "idle" /\ scan'[s].results = {} /\ shown' = shown \cup results
         \/ /\ scan'[s].pc \in {"asks", "token"} /\ shown' = shown
            /\ scan'[s].user = scan[s].user /\ scan'[s].results = results
            /\ scan'[s].left = scan[s].left \ {c}
            /\ scan'[s].pc = "token" => results = {} /\ scan'[s].left = {}
  BY AskedGoesOn DEF LoginInv
<1>2. ScanKnows'
  <2> SUFFICES ASSUME NEW v \in ScanSlots
               PROVE  /\ scan'[v].pc = "idle" => scan'[v].results = {}
                      /\ scan'[v].pc = "token" => scan'[v].results = {} /\ scan'[v].left = {}
                      /\ scan'[v].pc # "idle" =>
                             /\ scan'[v].user \in Users
                             /\ \A d \in ClustersOf[scan'[v].user] :
                                    \/ d \in scan'[v].left \/ d \in lenient'[v]
                                    \/ \E k \in Signatures : <<d, k>> \in scan'[v].results
    BY DEF ScanKnows
  <2>1. /\ scan[v].pc = "idle" => scan[v].results = {}
        /\ scan[v].pc = "token" => scan[v].results = {} /\ scan[v].left = {}
        /\ scan[v].pc # "idle" =>
               /\ scan[v].user \in Users
               /\ \A d \in ClustersOf[scan[v].user] :
                      \/ d \in scan[v].left \/ d \in lenient[v]
                      \/ \E k \in Signatures : <<d, k>> \in scan[v].results
    BY DEF LoginInv, ScanKnows
  <2>2. CASE v # s
    BY <1>1, <2>1, <2>2
  <2>3. CASE v = s
    BY <1>1, <2>1, <2>3
  <2> QED  BY <2>2, <2>3
<1>3. LenientIsNoted'
  <2>1. \A d : LetsIn(d)' <=> LetsIn(d)
    BY DEF LetsIn, TabletsOf, tabletVars
  <2> SUFFICES ASSUME NEW v \in ScanSlots, NEW d \in scan'[v].left, LetsIn(d)
               PROVE  d \in lenient'[v]
    BY <2>1 DEF LenientIsNoted
  <2>2. d \in scan[v].left
    BY <1>1
  <2> QED  BY <2>2 DEF LoginInv, LenientIsNoted
<1> QED  BY <1>2, <1>3

\* A new signature is made: nobody knows it yet.
LEMMA MadeKeepsPins ==
    ASSUME LoginInv, signed < MaxSignatures, signed' = signed + 1, NEW u \in Users,
           signatures' = [signatures EXCEPT ![signed + 1] = u],
           UNCHANGED <<pin, granted, refused, crossing>>
    PROVE  UnmadeIsFree' /\ OneHolder' /\ UsedUp' /\ HeldWhileBusy'
<1>1. signed \in Nat /\ signed + 1 \in Signatures
  BY LoginConstants DEF LoginInv, LoginTypes, Signatures
<1>2. \A k \in Signatures : k # signed + 1 => signatures'[k] = signatures[k]
  BY DEF LoginInv, LoginTypes
<1>3. \A k \in Signatures : k \in Nat
  BY DEF Signatures
<1>4. /\ granted[signed + 1] = 0 /\ refused[signed + 1] = 0
      /\ \A p \in PinSlots : pin[p].signature # signed + 1
  <2>1. signed + 1 > signed
    BY <1>1
  <2> QED  BY <1>1, <2>1 DEF LoginInv, UnmadeIsFree
<1>5. UnmadeIsFree'
  <2>1. \A k \in Signatures : k > signed + 1 => k > signed /\ k # signed + 1
    BY <1>1, <1>3
  <2> QED  BY <1>2, <2>1 DEF LoginInv, UnmadeIsFree
<1>6. OneHolder'
  <2>1. granted[signed + 1] + refused[signed + 1] = 0
    BY <1>4
  <2>2. ~(granted[signed + 1] + refused[signed + 1] > 0)
    BY <2>1
  <2> SUFFICES ASSUME NEW k \in Signatures \ crossing
               PROVE  /\ \A p, q \in PinSlots : pin[p].signature = k /\ pin[q].signature = k => p = q
                      /\ granted[k] + refused[k] <= 1
                      /\ granted[k] + refused[k] > 0 =>
                             signatures'[k] = NoUser /\ \A p \in PinSlots : pin[p].signature # k
    BY DEF OneHolder
  <2>3. /\ \A p, q \in PinSlots : pin[p].signature = k /\ pin[q].signature = k => p = q
        /\ granted[k] + refused[k] <= 1
        /\ granted[k] + refused[k] > 0 =>
               signatures[k] = NoUser /\ \A p \in PinSlots : pin[p].signature # k
    BY DEF LoginInv, OneHolder
  <2>4. granted[k] + refused[k] > 0 => k # signed + 1
    BY <2>2
  <2> QED  BY <1>2, <2>3, <2>4
<1>7. UsedUp'
  <2>1. \A p \in PinSlots : pin[p].pc = "pin" => pin[p].signature \in Signatures
    BY DEF LoginInv, HeldWhileBusy
  <2> QED  BY <1>2, <1>4, <2>1 DEF LoginInv, UsedUp
<1>8. HeldWhileBusy'
  BY DEF LoginInv, HeldWhileBusy
<1> QED  BY <1>5, <1>6, <1>7, <1>8

LEMMA AskClusterHolds ==
    ASSUME LoginInv, NEW s \in ScanSlots, NEW c \in Clusters, AskCluster(s, c)
    PROVE  LoginInv'
<1> USE DEF LoginInv
<1>1. scan[s].pc = "asks" /\ c \in scan[s].left
      /\ UNCHANGED <<tabletVars, pin, granted, refused, crossing>>
  BY DEF AskCluster
<1>2. UNCHANGED <<registered, mfa>>
  BY <1>1 DEF tabletVars
<1>3. scan[s].results \in SUBSET (Clusters \X Signatures)
  BY SlotTypes
<1>4. CASE /\ signed < MaxSignatures /\ signed' = signed + 1
           /\ signatures' = [signatures EXCEPT ![signed + 1] = scan[s].user]
           /\ AskedOf(s, c, scan[s].results \cup {<<c, signed + 1>>})
           /\ UNCHANGED <<lenient, upsets>>
  <2> DEFINE results == scan[s].results \cup {<<c, signed + 1>>}
  <2>1. signed \in Nat /\ signed + 1 \in Signatures /\ signed + 1 \in 0..MaxSignatures
    BY <1>4, LoginConstants DEF LoginTypes, Signatures
  <2>2. results \in SUBSET (Clusters \X Signatures)
    BY <1>3, <2>1
  <2>3. scan[s].user \in Users
    BY <1>1 DEF ScanKnows
  <2>4. /\ scan[s].results \subseteq results /\ <<c, signed + 1>> \in results
        /\ AskedOf(s, c, results)
    BY <1>4
  <2> HIDE DEF results
  <2>5. /\ scan' \in [ScanSlots -> Scan] /\ shown' \subseteq Clusters \X Signatures
        /\ \A v \in ScanSlots : v # s => scan'[v] = scan[v]
        /\ shown \subseteq shown'
        /\ results \subseteq shown' \/ scan'[s].results = results
    BY <1>1, <2>2, <2>4, AskedGoesOn
  <2>6. ScanKnows' /\ LenientIsNoted'
    BY <1>1, <1>4, <2>1, <2>2, <2>4, AskedIsKnown
  <2>7. UnmadeIsFree' /\ OneHolder' /\ UsedUp' /\ HeldWhileBusy'
    BY <1>1, <1>4, <2>3, MadeKeepsPins
  <2>8. LoginTypes'
    BY <1>1, <1>2, <1>4, <2>1, <2>3, <2>5 DEF LoginTypes
  <2>9. AliveIsKnown'
    <3> SUFFICES ASSUME NEW k \in Signatures, signatures'[k] # NoUser
                 PROVE  \E d \in Clusters : \/ <<d, k>> \in shown'
                                            \/ \E v \in ScanSlots : <<d, k>> \in scan'[v].results
      BY DEF AliveIsKnown
    <3>1. CASE k = signed + 1
      BY <2>4, <2>5, <3>1
    <3>2. CASE k # signed + 1
      <4>1. signatures[k] # NoUser
        BY <1>4, <3>2 DEF LoginTypes
      <4>2. PICK d \in Clusters : \/ <<d, k>> \in shown
                                  \/ \E v \in ScanSlots : <<d, k>> \in scan[v].results
        BY <4>1 DEF AliveIsKnown
      <4> QED  BY <2>4, <2>5, <4>2
    <3> QED  BY <3>1, <3>2
  <2> QED  BY <2>6, <2>7, <2>8, <2>9
<1>5. CASE /\ AskedOf(s, c, scan[s].results) /\ UNCHANGED <<signatures, signed>>
           /\ upsets' \in 0..MaxUpsets /\ lenient' \in [ScanSlots -> SUBSET Clusters]
           /\ \A v \in ScanSlots : lenient[v] \subseteq lenient'[v]
           /\ c \in lenient'[s]
  <2>1. /\ scan' \in [ScanSlots -> Scan] /\ shown' \subseteq Clusters \X Signatures
        /\ \A v \in ScanSlots : v # s => scan'[v] = scan[v]
        /\ shown \subseteq shown'
        /\ scan[s].results \subseteq shown' \/ scan'[s].results = scan[s].results
    BY <1>1, <1>3, <1>5, AskedGoesOn
  <2>2. ScanKnows' /\ LenientIsNoted'
    BY <1>1, <1>3, <1>5, AskedIsKnown
  <2>3. UnmadeIsFree' /\ OneHolder' /\ UsedUp' /\ HeldWhileBusy'
    BY <1>1, <1>5, PinsAlone
  <2>4. LoginTypes'
    BY <1>1, <1>2, <1>5, <2>1 DEF LoginTypes
  <2>5. AliveIsKnown'
    <3> SUFFICES ASSUME NEW k \in Signatures, signatures[k] # NoUser
                 PROVE  \E d \in Clusters : \/ <<d, k>> \in shown'
                                            \/ \E v \in ScanSlots : <<d, k>> \in scan'[v].results
      BY <1>5 DEF AliveIsKnown
    <3>1. PICK d \in Clusters : \/ <<d, k>> \in shown
                                \/ \E v \in ScanSlots : <<d, k>> \in scan[v].results
      BY DEF AliveIsKnown
    <3> QED  BY <2>1, <3>1
  <2> QED  BY <2>2, <2>3, <2>4, <2>5
<1>6. CASE /\ LetsIn(c) /\ AskedOf(s, c, scan[s].results)
           /\ UNCHANGED <<signatures, signed, lenient, upsets>>
  <2>1. c \in lenient[s]
    BY <1>1, <1>6 DEF LenientIsNoted
  <2> QED  BY <1>5, <1>6, <2>1 DEF LoginTypes
<1>7. CASE /\ Upset /\ AskedOf(s, c, scan[s].results)
           /\ lenient' = [lenient EXCEPT ![s] = @ \cup {c}] /\ UNCHANGED <<signatures, signed>>
  <2>1. upsets' \in 0..MaxUpsets
    BY <1>7, LoginConstants DEF Upset, LoginTypes
  <2>2. /\ lenient' \in [ScanSlots -> SUBSET Clusters] /\ c \in lenient'[s]
        /\ \A v \in ScanSlots : lenient[v] \subseteq lenient'[v]
    BY <1>7 DEF LoginTypes
  <2> QED  BY <1>5, <1>7, <2>1, <2>2
<1> QED  BY <1>4, <1>6, <1>7 DEF AskCluster

LEMMA ScanTokenHolds ==
    ASSUME LoginInv, NEW s \in ScanSlots, ScanToken(s)
    PROVE  LoginInv'
<1>1. /\ scan[s].pc = "token" /\ scan' = [scan EXCEPT ![s] = NoScan]
      /\ UNCHANGED <<registered, mfa, signatures, signed, shown, pin, granted, refused, crossing,
                     lenient, upsets>>
  BY DEF ScanToken, tabletVars, histories
<1>2. LoginTypes'
  BY <1>1, RestingSlots DEF LoginInv, LoginTypes
<1>3. scan'[s] = NoScan /\ \A v \in ScanSlots : v # s => scan'[v] = scan[v]
  BY <1>1 DEF LoginInv, LoginTypes
<1>4. ScanKnows'
  <2> SUFFICES ASSUME NEW v \in ScanSlots
               PROVE  /\ scan'[v].pc = "idle" => scan'[v].results = {}
                      /\ scan'[v].pc = "token" => scan'[v].results = {} /\ scan'[v].left = {}
                      /\ scan'[v].pc # "idle" =>
                             /\ scan'[v].user \in Users
                             /\ \A d \in ClustersOf[scan'[v].user] :
                                    \/ d \in scan'[v].left \/ d \in lenient[v]
                                    \/ \E k \in Signatures : <<d, k>> \in scan'[v].results
    BY <1>1 DEF ScanKnows
  <2> QED  BY <1>3, RestingSlots DEF LoginInv, ScanKnows
<1>5. LenientIsNoted'
  BY <1>1, <1>3, RestingSlots DEF LoginInv, LenientIsNoted, LetsIn, TabletsOf
<1>6. UnmadeIsFree' /\ OneHolder' /\ UsedUp' /\ HeldWhileBusy'
  BY <1>1, PinsAlone
<1>7. AliveIsKnown'
  <2>1. scan[s].results = {}
    BY <1>1 DEF LoginInv, ScanKnows
  <2> QED  BY <1>1, <1>3, <2>1 DEF LoginInv, AliveIsKnown
<1> QED  BY <1>2, <1>4, <1>5, <1>6, <1>7 DEF LoginInv

\* Steps of a login by PIN, and of the timer: what they do to scans and to the map.
LEMMA PinStepHolds ==
    ASSUME LoginInv, UNCHANGED <<tabletVars, signed, scan, shown, lenient>>,
           signatures' \in [Signatures -> Users \cup {NoUser}],
           \A k \in Signatures : signatures'[k] # NoUser => signatures[k] # NoUser,
           pin' \in [PinSlots -> Pin], granted' \in [Signatures -> Nat],
           refused' \in [Signatures -> Nat], crossing' \subseteq Signatures,
           upsets' \in 0..MaxUpsets,
           UnmadeIsFree', OneHolder', UsedUp', HeldWhileBusy'
    PROVE  LoginInv'
<1>1. UNCHANGED <<registered, mfa>>
  BY DEF tabletVars
<1>2. LoginTypes'
  BY <1>1 DEF LoginInv, LoginTypes
<1>3. ScanKnows' /\ LenientIsNoted'
  BY ScansAlone
<1>4. AliveIsKnown'
  BY DEF LoginInv, AliveIsKnown
<1> QED  BY <1>2, <1>3, <1>4 DEF LoginInv

LEMMA PinEnteredHolds ==
    ASSUME LoginInv, NEW p \in PinSlots, NEW t \in Tablets, NEW k \in Signatures,
           PinEntered(p, t, k)
    PROVE  LoginInv'
<1> USE DEF LoginInv
<1>1. /\ pin[p].pc = "idle" /\ signatures[k] # NoUser
      /\ crossing' = IF \E q \in PinSlots : pin[q].signature = k THEN crossing \cup {k} ELSE crossing
      /\ UNCHANGED <<tabletVars, signatures, signed, scan, shown, granted, refused, lenient, upsets>>
  BY DEF PinEntered
<1>2. PICK right \in BOOLEAN :
          pin' = [pin EXCEPT ![p] = [pc |-> "user", signature |-> k, tablet |-> {t}, right |-> right]]
  BY DEF PinEntered
<1> DEFINE r == [pc |-> "user", signature |-> k, tablet |-> {t}, right |-> right]
<1>3. k \in 0..MaxSignatures /\ k # 0
  BY LoginConstants DEF Signatures
<1>4. r \in Pin /\ r.pc = "user" /\ r.signature = k
  BY <1>3 DEF Pin
<1> HIDE DEF r
<1>5. pin' = [pin EXCEPT ![p] = r]
  BY <1>2 DEF r
<1>6. /\ pin' \in [PinSlots -> Pin] /\ pin'[p] = r
      /\ \A q \in PinSlots : q # p => pin'[q] = pin[q]
  BY <1>4, <1>5 DEF LoginTypes
<1>7. ~(k > signed) /\ ((granted[k] = 0 /\ refused[k] = 0) \/ k \in crossing)
  <2>1. ~(k > signed)
    BY <1>1 DEF UnmadeIsFree
  <2>2. k \notin crossing => ~(granted[k] + refused[k] > 0)
    BY <1>1 DEF OneHolder
  <2>3. granted[k] \in Nat /\ refused[k] \in Nat
    BY DEF LoginTypes
  <2> QED  BY <2>1, <2>2, <2>3
<1>8. UnmadeIsFree'
  <2>1. ~(k > signed)
    BY <1>1 DEF UnmadeIsFree
  <2> QED  BY <1>1, <1>4, <1>6, <2>1 DEF UnmadeIsFree
<1>9. OneHolder'
  <2> SUFFICES ASSUME NEW i \in Signatures \ crossing'
               PROVE  /\ \A v, q \in PinSlots : pin'[v].signature = i /\ pin'[q].signature = i => v = q
                      /\ granted[i] + refused[i] <= 1
                      /\ granted[i] + refused[i] > 0 =>
                             signatures[i] = NoUser /\ \A q \in PinSlots : pin'[q].signature # i
    BY <1>1 DEF OneHolder
  <2>1. i \notin crossing /\ (i = k => \A q \in PinSlots : pin[q].signature # k)
    BY <1>1
  <2>2. CASE i # k
    BY <1>4, <1>6, <2>1, <2>2 DEF OneHolder
  <2>3. CASE i = k
    <3>1. granted[i] + refused[i] = 0
      BY <1>7, <2>1, <2>3
    <3> QED  BY <1>4, <1>6, <2>1, <2>3, <3>1
  <2> QED  BY <2>2, <2>3
<1>10. UsedUp' /\ HeldWhileBusy'
  BY <1>1, <1>4, <1>6 DEF UsedUp, HeldWhileBusy
<1>11. crossing' \subseteq Signatures
  BY <1>1 DEF LoginTypes
<1> QED  BY <1>1, <1>6, <1>8, <1>9, <1>10, <1>11, PinStepHolds DEF LoginTypes

LEMMA UserFoundHolds ==
    ASSUME LoginInv, NEW p \in PinSlots, UserFound(p)
    PROVE  LoginInv'
<1> USE DEF LoginInv
<1>1. /\ pin[p].pc = "user" /\ pin' = [pin EXCEPT ![p].pc = "pin"]
      /\ signatures' = [signatures EXCEPT ![pin[p].signature] = NoUser]
      /\ UNCHANGED <<tabletVars, signed, scan, shown, granted, refused, crossing, lenient, upsets>>
  BY DEF UserFound, histories
<1>2. pin[p].signature \in Signatures
  BY <1>1 DEF HeldWhileBusy
<1>3. /\ signatures' \in [Signatures -> Users \cup {NoUser}]
      /\ signatures'[pin[p].signature] = NoUser
      /\ \A k \in Signatures : signatures'[k] \in {signatures[k], NoUser}
  BY <1>1, <1>2 DEF LoginTypes
<1>4. /\ pin' \in [PinSlots -> Pin]
      /\ pin'[p].pc = "pin" /\ pin'[p].signature = pin[p].signature
      /\ \A q \in PinSlots : q # p => pin'[q] = pin[q]
  <2>1. pin[p] \in Pin
    BY DEF LoginTypes
  <2>2. [pin[p] EXCEPT !.pc = "pin"] \in Pin
    BY <2>1 DEF Pin
  <2> QED  BY <1>1, <2>1, <2>2 DEF LoginTypes, Pin
<1>5. \A q \in PinSlots : pin'[q].signature = pin[q].signature
  BY <1>4
<1>6. UnmadeIsFree' /\ OneHolder'
  BY <1>1, <1>3, <1>5 DEF UnmadeIsFree, OneHolder
<1>7. HeldWhileBusy'
  BY <1>2, <1>4 DEF HeldWhileBusy
<1>8. UsedUp'
  <2> SUFFICES ASSUME NEW q \in PinSlots, pin'[q].pc = "pin"
               PROVE  signatures'[pin'[q].signature] = NoUser
    BY DEF UsedUp
  <2>1. CASE q = p
    BY <1>3, <1>4, <2>1
  <2>2. CASE q # p
    <3>1. pin[q].pc = "pin" /\ pin[q].signature \in Signatures
      BY <1>4, <2>2 DEF HeldWhileBusy
    <3> QED  BY <1>3, <1>5, <3>1 DEF UsedUp
  <2> QED  BY <2>1, <2>2
<1> QED  BY <1>1, <1>3, <1>4, <1>6, <1>7, <1>8, PinStepHolds DEF LoginTypes

\* A slot comes to rest, its signature having decided a login or none.
LEMMA PinEndsHolds ==
    ASSUME LoginInv, NEW p \in PinSlots, pin[p].pc # "idle",
           pin' = [pin EXCEPT ![p] = NoPin],
           UNCHANGED <<tabletVars, signatures, signed, scan, shown, crossing, lenient>>,
           granted' \in [Signatures -> Nat], refused' \in [Signatures -> Nat],
           upsets' \in 0..MaxUpsets,
           \A k \in Signatures :
               \/ granted'[k] = granted[k] /\ refused'[k] = refused[k]
               \/ /\ pin[p].pc = "pin" /\ pin[p].signature = k
                  /\ granted'[k] + refused'[k] = granted[k] + refused[k] + 1
    PROVE  LoginInv'
<1> USE DEF LoginInv
<1>1. /\ pin' \in [PinSlots -> Pin] /\ pin'[p] = NoPin
      /\ \A q \in PinSlots : q # p => pin'[q] = pin[q]
  BY RestingSlots DEF LoginTypes
<1>2. \A k \in Signatures : k # 0
  BY DEF Signatures
<1>3. \A k \in Signatures : \A q \in PinSlots :
          pin'[q].signature = k => pin[q].signature = k /\ q # p
  BY <1>1, <1>2, RestingSlots
<1>4. UnmadeIsFree'
  BY <1>3 DEF UnmadeIsFree
<1>5. OneHolder'
  <2> SUFFICES ASSUME NEW k \in Signatures \ crossing
               PROVE  /\ \A v, q \in PinSlots : pin'[v].signature = k /\ pin'[q].signature = k => v = q
                      /\ granted'[k] + refused'[k] <= 1
                      /\ granted'[k] + refused'[k] > 0 =>
                             signatures[k] = NoUser /\ \A q \in PinSlots : pin'[q].signature # k
    BY DEF OneHolder
  <2>1. /\ \A v, q \in PinSlots : pin[v].signature = k /\ pin[q].signature = k => v = q
        /\ granted[k] + refused[k] <= 1
        /\ granted[k] + refused[k] > 0 =>
               signatures[k] = NoUser /\ \A q \in PinSlots : pin[q].signature # k
    BY DEF OneHolder
  <2>2. CASE granted'[k] = granted[k] /\ refused'[k] = refused[k]
    BY <1>3, <2>1, <2>2
  <2>3. CASE /\ pin[p].pc = "pin" /\ pin[p].signature = k
             /\ granted'[k] + refused'[k] = granted[k] + refused[k] + 1
    <3>1. granted[k] + refused[k] = 0
      BY <2>1, <2>3 DEF LoginTypes
    <3>2. signatures[k] = NoUser
      BY <2>3 DEF UsedUp
    <3>3. \A q \in PinSlots : pin'[q].signature # k
      BY <1>3, <2>1, <2>3
    <3>4. \A v, q \in PinSlots : pin'[v].signature = k /\ pin'[q].signature = k => v = q
      BY <1>3, <2>1
    <3> QED  BY <2>3, <3>1, <3>2, <3>3, <3>4
  <2> QED  BY <2>2, <2>3
<1>6. UsedUp' /\ HeldWhileBusy'
  BY <1>1, RestingSlots DEF UsedUp, HeldWhileBusy
<1> QED  BY <1>1, <1>4, <1>5, <1>6, PinStepHolds DEF LoginTypes

LEMMA PinCheckedHolds ==
    ASSUME LoginInv, NEW p \in PinSlots, PinChecked(p)
    PROVE  LoginInv'
<1> DEFINE k == pin[p].signature
<1>1. /\ pin[p].pc = "pin" /\ pin' = [pin EXCEPT ![p] = NoPin]
      /\ UNCHANGED <<tabletVars, signatures, signed, scan, shown, crossing, lenient, upsets>>
      /\ \/ granted' = [granted EXCEPT ![k] = @ + 1] /\ UNCHANGED refused
         \/ refused' = [refused EXCEPT ![k] = @ + 1] /\ UNCHANGED granted
  BY DEF PinChecked
<1>2. k \in Signatures
  BY <1>1 DEF LoginInv, HeldWhileBusy
<1>3. \A i \in Signatures : granted[i] \in Nat /\ refused[i] \in Nat
  BY DEF LoginInv, LoginTypes
<1>4. granted' \in [Signatures -> Nat] /\ refused' \in [Signatures -> Nat]
  BY <1>1, <1>2, <1>3 DEF LoginInv, LoginTypes
<1>5. /\ \A i \in Signatures : i # k => granted'[i] = granted[i] /\ refused'[i] = refused[i]
      /\ granted'[k] + refused'[k] = granted[k] + refused[k] + 1
  BY <1>1, <1>2, <1>3 DEF LoginInv, LoginTypes
<1>6. upsets' \in 0..MaxUpsets
  BY <1>1 DEF LoginInv, LoginTypes
<1> QED  BY <1>1, <1>4, <1>5, <1>6, PinEndsHolds

LEMMA PinFailsHolds ==
    ASSUME LoginInv, NEW p \in PinSlots, PinFails(p)
    PROVE  LoginInv'
<1>1. /\ pin[p].pc # "idle" /\ pin' = [pin EXCEPT ![p] = NoPin] /\ Upset
      /\ UNCHANGED <<tabletVars, signatures, signed, scan, shown, granted, crossing, lenient>>
      /\ refused' = [k \in Signatures |->
             refused[k] + IF pin[p].pc = "pin" /\ pin[p].signature = k THEN 1 ELSE 0]
  BY DEF PinFails
<1>2. \A k \in Signatures : granted[k] \in Nat /\ refused[k] \in Nat
  BY DEF LoginInv, LoginTypes
<1>3. \A k \in Signatures :
          /\ refused'[k] \in Nat
          /\ \/ refused'[k] = refused[k]
             \/ pin[p].pc = "pin" /\ pin[p].signature = k /\ refused'[k] = refused[k] + 1
  BY <1>1, <1>2
<1>4. refused' \in [Signatures -> Nat] /\ granted' \in [Signatures -> Nat]
  BY <1>1, <1>3 DEF LoginInv, LoginTypes
<1>5. \A k \in Signatures :
          \/ granted'[k] = granted[k] /\ refused'[k] = refused[k]
          \/ /\ pin[p].pc = "pin" /\ pin[p].signature = k
             /\ granted'[k] + refused'[k] = granted[k] + refused[k] + 1
  BY <1>1, <1>2, <1>3
<1>6. upsets' \in 0..MaxUpsets
  BY <1>1, LoginConstants DEF Upset, LoginInv, LoginTypes
<1> QED  BY <1>1, <1>4, <1>5, <1>6, PinEndsHolds

LEMMA ExpiryHolds ==
    ASSUME LoginInv, NEW k \in Signatures, SignatureExpires(k)
    PROVE  LoginInv'
<1>1. /\ signatures' = [signatures EXCEPT ![k] = NoUser]
      /\ UNCHANGED <<tabletVars, signed, scan, shown, pin, granted, refused, crossing, lenient, upsets>>
  BY DEF SignatureExpires, histories
<1>2. /\ signatures' \in [Signatures -> Users \cup {NoUser}]
      /\ \A i \in Signatures : signatures'[i] # NoUser => signatures[i] # NoUser
  BY <1>1 DEF LoginInv, LoginTypes
<1>3. UnmadeIsFree' /\ OneHolder' /\ UsedUp' /\ HeldWhileBusy'
  BY <1>1, <1>2, PinsAlone
<1> QED  BY <1>1, <1>2, <1>3, PinStepHolds DEF LoginInv, LoginTypes

LEMMA RegisterHolds ==
    ASSUME LoginInv, NEW t \in Tablets, Register(t)
    PROVE  LoginInv'
<1> USE DEF LoginInv
<1>1. /\ Upset /\ registered' = registered \cup {t}
      /\ UNCHANGED <<signatures, signed, scan, shown, pin, granted, refused, crossing>>
      /\ lenient' = [s \in ScanSlots |-> lenient[s] \cup {c \in scan[s].left : LetsIn(c)'}]
  BY DEF Register
<1>2. mfa' \subseteq registered'
  <2>1. PICK wants \in SUBSET {t} : mfa' = (mfa \ {t}) \cup wants
    BY DEF Register
  <2> QED  BY <1>1, <2>1 DEF LoginTypes
<1>3. \A s \in ScanSlots :
          lenient[s] \subseteq lenient'[s] /\ \A c \in scan[s].left : LetsIn(c)' => c \in lenient'[s]
  BY <1>1
<1>4. lenient' \in [ScanSlots -> SUBSET Clusters]
  <2>1. \A s \in ScanSlots : scan[s].left \subseteq Clusters /\ lenient[s] \subseteq Clusters
    BY SlotTypes DEF LoginTypes
  <2> QED  BY <1>1, <2>1
<1>5. upsets' \in 0..MaxUpsets
  BY <1>1, LoginConstants DEF Upset, LoginTypes
<1>6. LoginTypes'
  BY <1>1, <1>2, <1>4, <1>5 DEF LoginTypes
<1>7. ScanKnows'
  BY <1>1, <1>3 DEF ScanKnows
<1>8. LenientIsNoted'
  BY <1>1, <1>3 DEF LenientIsNoted
<1>9. UnmadeIsFree' /\ OneHolder' /\ UsedUp' /\ HeldWhileBusy' /\ AliveIsKnown'
  <2>1. AliveIsKnown'
    BY <1>1 DEF AliveIsKnown
  <2> QED  BY <1>1, <2>1, PinsAlone
<1> QED  BY <1>6, <1>7, <1>8, <1>9

LEMMA RestartHolds ==
    ASSUME LoginInv, LoginRestarts
    PROVE  LoginInv'
<1> USE DEF LoginInv
<1>1. /\ signatures' = [k \in Signatures |-> NoUser] /\ scan' = [s \in ScanSlots |-> NoScan]
      /\ pin' = [p \in PinSlots |-> NoPin] /\ Upset
      /\ UNCHANGED <<registered, mfa, signed, shown, granted, refused, crossing, lenient>>
  BY DEF LoginRestarts, tabletVars, histories
<1>2. LoginTypes'
  <2>1. upsets' \in 0..MaxUpsets
    BY <1>1, LoginConstants DEF Upset, LoginTypes
  <2>2. /\ scan' \in [ScanSlots -> Scan] /\ pin' \in [PinSlots -> Pin]
        /\ signatures' \in [Signatures -> Users \cup {NoUser}]
    BY <1>1, RestingSlots
  <2> QED  BY <1>1, <2>1, <2>2 DEF LoginTypes
<1>3. \A p \in PinSlots : pin'[p].pc = "idle" /\ pin'[p].signature = 0
  BY <1>1, RestingSlots
<1>4. \A k \in Signatures : signatures'[k] = NoUser /\ k # 0
  BY <1>1 DEF Signatures
<1>5. UnmadeIsFree' /\ OneHolder' /\ UsedUp' /\ HeldWhileBusy'
  BY <1>1, <1>3, <1>4 DEF UnmadeIsFree, OneHolder, UsedUp, HeldWhileBusy
<1>6. \A s \in ScanSlots : scan'[s].pc = "idle" /\ scan'[s].left = {} /\ scan'[s].results = {}
  BY <1>1, RestingSlots
<1>7. ScanKnows' /\ LenientIsNoted'
  BY <1>6 DEF ScanKnows, LenientIsNoted
<1>8. AliveIsKnown'
  BY <1>4 DEF AliveIsKnown
<1> QED  BY <1>2, <1>5, <1>7, <1>8

LEMMA LoginInvariance == LoginSpec => []LoginInv
<1>1. LoginInv /\ [LoginNext]_loginVars => LoginInv'
  <2> SUFFICES ASSUME LoginInv, [LoginNext]_loginVars PROVE LoginInv'
    OBVIOUS
  <2>1. CASE LoginNext
    BY <2>1, CardScannedHolds, AskClusterHolds, ScanTokenHolds, PinEnteredHolds, UserFoundHolds,
       PinCheckedHolds, PinFailsHolds, ExpiryHolds, RegisterHolds, RestartHolds DEF LoginNext
  <2>2. CASE UNCHANGED loginVars
    <3>1. /\ UNCHANGED <<tabletVars, signatures, signed, scan, shown, pin, upsets>>
          /\ UNCHANGED <<granted, refused, crossing, lenient>>
      BY <2>2 DEF loginVars, histories
    <3>2. UnmadeIsFree' /\ OneHolder' /\ UsedUp' /\ HeldWhileBusy'
      BY <3>1, PinsAlone
    <3> QED  BY <3>1, <3>2, PinStepHolds DEF LoginInv, LoginTypes
  <2> QED  BY <2>1, <2>2
<1> QED  BY <1>1, LoginStart, PTL DEF LoginSpec

\* The map of signatures and the requests keep their types.
THEOREM LoginTypeCorrect == LoginSpec => []LoginTypeOK
<1>1. LoginInv => LoginTypeOK
  BY DEF LoginInv, LoginTypes, LoginTypeOK
<1> QED  BY <1>1, LoginInvariance, PTL

\* What one slot adds to a signature that is not crossing.
LEMMA HoldersOfOne ==
    ASSUME LoginInv, NEW k \in Signatures \ crossing
    PROVE  granted[k] + refused[k] + Cardinality({p \in PinSlots : pin[p].signature = k}) <= 1
<1> DEFINE holders == {p \in PinSlots : pin[p].signature = k}
<1>1. /\ \A p, q \in PinSlots : pin[p].signature = k /\ pin[q].signature = k => p = q
      /\ granted[k] + refused[k] <= 1
      /\ granted[k] + refused[k] > 0 => \A p \in PinSlots : pin[p].signature # k
      /\ granted[k] \in Nat /\ refused[k] \in Nat
  BY DEF LoginInv, OneHolder, LoginTypes
<1>2. CASE holders = {}
  <2>1. Cardinality(holders) = 0
    BY <1>2, FS_EmptySet
  <2> HIDE DEF holders
  <2> QED  BY <1>1, <2>1 DEF holders
<1>3. CASE holders # {}
  <2>1. PICK p : holders = {p}
    BY <1>1, <1>3
  <2>2. Cardinality(holders) = 1
    BY <2>1, FS_Singleton
  <2>3. granted[k] + refused[k] = 0
    BY <1>1, <1>3
  <2> QED  BY <2>2, <2>3
<1> QED  BY <1>2, <1>3

\* For any number of scans and logins by PIN at once, with tablets that register, failures
\* and restarts: a signature decides one login unless two requests have it at once, nobody
\* is let in where a cluster asks for a PIN, and no signature is made that nobody hears of.
THEOREM LoginsAreDecided == LoginSpec => []LoginsDecided
<1>1. LoginInv => DecidesOnce
  BY HoldersOfOne DEF DecidesOnce
<1>2. LoginInv => AskedEverywhere
  <2> SUFFICES ASSUME LoginInv, NEW s \in ScanSlots, scan[s].pc = "token",
                      NEW c \in ClustersOf[scan[s].user]
               PROVE  c \in lenient[s]
    BY DEF AskedEverywhere
  <2>1. /\ scan[s].results = {} /\ scan[s].left = {}
        /\ c \in scan[s].left \/ c \in lenient[s] \/ \E k \in Signatures : <<c, k>> \in scan[s].results
    BY DEF LoginInv, ScanKnows
  <2> QED  BY <2>1
<1>3. LoginInv => LoginsDecided
  BY <1>1, <1>2 DEF LoginsDecided, LoginInv
<1> QED  BY <1>3, LoginInvariance, PTL

-----------------------------------------------------------------------------
(* Identifiers of rows.                                                      *)

\* The types, variable by variable.
FlakeTypes ==
    /\ now \in -1..Horizon /\ lastTimestamp \in 0..Horizon /\ sequence \in 0..MaxSequence
    /\ issued \subseteq (0..Horizon) \X (0..MaxSequence)
    /\ twice \in BOOLEAN /\ overflowed \in BOOLEAN /\ setbacks \in 0..Setbacks

\* While the clock goes on and no millisecond was too short: the last id is the largest.
LastIsLargest ==
    overflowed \/ setbacks > 0 \/
        /\ ~twice /\ lastTimestamp <= now
        /\ \A e \in issued : /\ e[1] <= lastTimestamp
                             /\ e[1] = lastTimestamp => e[2] <= sequence

FlakeInv == FlakeTypes /\ LastIsLargest
-----------------------------------------------------------------------------
LEMMA FlakeConstants ==
    /\ MaxSequence \in Nat /\ Machines \in Nat \ {0} /\ Machine \in 0..(Machines - 1)
    /\ Horizon \in Nat /\ Setbacks \in Nat
BY SnowflakeAssumption DEF SnowflakeAssumption

\* The parts of a number that was put together of a multiple and a remainder.
LEMMA MultipleAndRest ==
    ASSUME NEW a \in Nat, NEW n \in Nat \ {0}, NEW r \in 0..(n - 1)
    PROVE  (a * n + r) \div n = a /\ (a * n + r) % n = r
BY SMTT(60)

LEMMA Fits ==
    ASSUME NEW n \in Nat \ {0}, NEW k \in Nat \ {0}, NEW m \in 0..(k - 1), NEW q \in 0..(n - 1)
    PROVE  m * n + q \in 0..(k * n - 1)
BY SMTT(60)

LEMMA Shifted ==
    ASSUME NEW t \in Nat, NEW n \in Nat, NEW k \in Nat, NEW m \in Nat
    PROVE  (t * k + m) * n = t * (k * n) + m * n
BY SMTT(60)

\* decode() finds in an id what it was made of: the sequence has its own bits, and so has
\* the machine.
LEMMA DecodeFindsParts ==
    ASSUME NEW t \in Nat, NEW q \in 0..MaxSequence
    PROVE  /\ Decode(IdOf(t, q)) = [timestamp |-> t, machine |-> Machine, sequence |-> q]
           /\ IdOf(t, q) \in Nat
<1> DEFINE n == MaxSequence + 1
           k == Machines
           m == Machine
           a == t * k + m
<1>1. n \in Nat \ {0} /\ k \in Nat \ {0} /\ m \in 0..(k - 1) /\ m \in Nat /\ q \in 0..(n - 1)
  BY FlakeConstants
<1>2. a \in Nat /\ k * n \in Nat \ {0}
  BY <1>1, SMTT(60)
<1> HIDE DEF n, k, m
<1>3. a \div k = t /\ a % k = m
  BY <1>1, MultipleAndRest
<1> HIDE DEF a
<1>4. (a * n + q) \div n = a /\ (a * n + q) % n = q
  BY <1>1, <1>2, MultipleAndRest
<1>5. a * n + q = t * (k * n) + (m * n + q)
  <2>1. a * n = t * (k * n) + m * n
    BY <1>1, Shifted DEF a
  <2>2. m * n \in Int /\ t * (k * n) \in Int
    BY <1>1, <1>2, SMTT(30)
  <2> QED  BY <1>1, <2>1, <2>2
<1>6. m * n + q \in 0..(k * n - 1)
  BY <1>1, Fits
<1>7. (a * n + q) \div (k * n) = t
  <2> DEFINE kn == k * n
             rest == m * n + q
  <2>1. kn \in Nat \ {0} /\ rest \in 0..(kn - 1)
    BY <1>2, <1>6
  <2> HIDE DEF kn, rest
  <2>2. (t * kn + rest) \div kn = t
    BY <2>1, MultipleAndRest
  <2> QED  BY <1>5, <2>2 DEF kn, rest
<1>8. IdOf(t, q) = a * n + q
  BY DEF IdOf, a, k, m, n
<1>9. a * n + q \in Nat
  BY <1>1, <1>2, SMTT(30)
<1>10. Decode(IdOf(t, q)) = [timestamp |-> (a * n + q) \div (k * n),
                             machine |-> ((a * n + q) \div n) % k, sequence |-> (a * n + q) % n]
  BY <1>8, Zenon DEF Decode, k, n
<1>11. [timestamp |-> (a * n + q) \div (k * n),
        machine |-> ((a * n + q) \div n) % k, sequence |-> (a * n + q) % n]
           = [timestamp |-> t, machine |-> m, sequence |-> q]
  BY <1>3, <1>4, <1>7, Zenon
<1> QED  BY <1>8, <1>9, <1>10, <1>11, Zenon DEF m

\* Two ids differ when their times or their sequence numbers do.
LEMMA IdsDiffer ==
    ASSUME NEW t \in Nat, NEW q \in 0..MaxSequence, NEW u \in Nat, NEW r \in 0..MaxSequence,
           IdOf(t, q) = IdOf(u, r)
    PROVE  t = u /\ q = r
<1>1. [timestamp |-> t, machine |-> Machine, sequence |-> q]
          = [timestamp |-> u, machine |-> Machine, sequence |-> r]
  BY DecodeFindsParts
<1> QED  BY <1>1

LEMMA FlakeStart == FlakeInit => FlakeInv
<1> SUFFICES ASSUME FlakeInit PROVE FlakeInv
  OBVIOUS
<1>1. /\ now \in 0..Horizon /\ lastTimestamp = 0 /\ sequence = 0 /\ issued = {}
      /\ twice = FALSE /\ overflowed = FALSE /\ setbacks = 0
  BY DEF FlakeInit
<1>2. /\ now \in -1..Horizon /\ lastTimestamp \in 0..Horizon /\ sequence \in 0..MaxSequence
      /\ setbacks \in 0..Setbacks /\ lastTimestamp <= now
  BY <1>1, FlakeConstants
<1>3. FlakeTypes
  BY <1>1, <1>2 DEF FlakeTypes
<1>4. LastIsLargest
  BY <1>1, <1>2 DEF LastIsLargest
<1> QED  BY <1>3, <1>4 DEF FlakeInv

\* An id of a time that is there is new, if it is larger than those before.
LEMMA EmitIsNew ==
    ASSUME FlakeInv, NEW t \in -1..Horizon, NEW q \in 0..MaxSequence, Emit(t, q)
    PROVE  /\ issued' \subseteq (0..Horizon) \X (0..MaxSequence) /\ twice' \in BOOLEAN
           /\ issued' \subseteq issued \cup {<<t, q>>}
           /\ (\A e \in issued : e # <<t, q>>) => twice' = twice
<1>1. CASE t < 0
  BY <1>1 DEF Emit, FlakeInv, FlakeTypes
<1>2. CASE ~(t < 0)
  <2>1. t \in 0..Horizon /\ t \in Nat
    BY <1>2, FlakeConstants
  <2>2. issued' = issued \cup {<<t, q>>}
        /\ twice' = (twice \/ IdOf(t, q) \in {IdOf(e[1], e[2]) : e \in issued})
    BY <1>2 DEF Emit
  <2>3. issued' \subseteq (0..Horizon) \X (0..MaxSequence)
    BY <2>1, <2>2 DEF FlakeInv, FlakeTypes
  <2>4. twice' \in BOOLEAN
    BY <2>2 DEF FlakeInv, FlakeTypes
  <2>5. ASSUME \A e \in issued : e # <<t, q>> PROVE IdOf(t, q) \notin {IdOf(e[1], e[2]) : e \in issued}
    <3> SUFFICES ASSUME NEW e \in issued, IdOf(t, q) = IdOf(e[1], e[2]) PROVE FALSE
      OBVIOUS
    <3>1. e[1] \in Nat /\ e[2] \in 0..MaxSequence /\ e = <<e[1], e[2]>>
      BY FlakeConstants DEF FlakeInv, FlakeTypes
    <3>2. t = e[1] /\ q = e[2]
      BY <2>1, <3>1, IdsDiffer
    <3> QED  BY <2>5, <3>1, <3>2
  <2>6. (\A e \in issued : e # <<t, q>>) => twice' = twice
    BY <2>2, <2>5, Zenon DEF FlakeInv, FlakeTypes
  <2> QED  BY <2>2, <2>3, <2>4, <2>6
<1> QED  BY <1>1, <1>2

LEMMA IssuedPairs ==
    ASSUME FlakeTypes, NEW e \in issued
    PROVE  e[1] \in Nat /\ e[2] \in 0..MaxSequence /\ e = <<e[1], e[2]>>
BY FlakeConstants DEF FlakeTypes

LEMMA ClockHolds ==
    ASSUME FlakeInv, Tick \/ ClockSetBack
    PROVE  FlakeInv'
<1>1. UNCHANGED <<lastTimestamp, sequence, issued, twice, overflowed>>
  BY DEF Tick, ClockSetBack
<1>2. CASE Tick
  <2>1. now' = now + 1 /\ now' \in -1..Horizon /\ setbacks' = setbacks
    BY <1>2, FlakeConstants DEF Tick, FlakeInv, FlakeTypes
  <2>2. lastTimestamp <= now => lastTimestamp <= now'
    BY <2>1, FlakeConstants DEF FlakeInv, FlakeTypes
  <2> QED  BY <1>1, <2>1, <2>2 DEF FlakeInv, FlakeTypes, LastIsLargest
<1>3. CASE ClockSetBack
  <2>1. now' \in -1..Horizon /\ setbacks' \in 0..Setbacks /\ setbacks' > 0
    BY <1>3, FlakeConstants DEF ClockSetBack, FlakeInv, FlakeTypes
  <2> QED  BY <1>1, <2>1 DEF FlakeInv, FlakeTypes, LastIsLargest
<1> QED  BY <1>2, <1>3

LEMMA FirstHolds ==
    ASSUME FlakeInv, GenerateFirst
    PROVE  FlakeInv'
<1>1. /\ now > lastTimestamp /\ lastTimestamp' = now /\ sequence' = 0 /\ Emit(now, 0)
      /\ UNCHANGED <<now, overflowed, setbacks>>
  BY DEF GenerateFirst
<1>2. now \in 0..Horizon /\ 0 \in 0..MaxSequence /\ lastTimestamp \in Nat
  BY <1>1, FlakeConstants DEF FlakeInv, FlakeTypes
<1>3. /\ issued' \subseteq (0..Horizon) \X (0..MaxSequence) /\ twice' \in BOOLEAN
      /\ issued' \subseteq issued \cup {<<now, 0>>}
      /\ (\A e \in issued : e # <<now, 0>>) => twice' = twice
  BY <1>1, <1>2, EmitIsNew, FlakeConstants DEF FlakeInv, FlakeTypes
<1>4. FlakeTypes'
  BY <1>1, <1>2, <1>3 DEF FlakeInv, FlakeTypes
<1>5. LastIsLargest'
  <2> SUFFICES ASSUME ~overflowed, ~(setbacks > 0)
               PROVE  /\ twice' = FALSE /\ lastTimestamp' <= now'
                      /\ \A e \in issued' : /\ e[1] <= lastTimestamp'
                                            /\ e[1] = lastTimestamp' => e[2] <= sequence'
    BY <1>1 DEF LastIsLargest
  <2>1. twice = FALSE /\ \A e \in issued : e[1] <= lastTimestamp
    BY DEF FlakeInv, FlakeTypes, LastIsLargest
  <2>2. \A e \in issued : e[1] < now /\ e # <<now, 0>>
    BY <1>1, <1>2, <2>1, IssuedPairs DEF FlakeInv
  <2>3. twice' = FALSE
    BY <1>3, <2>1, <2>2
  <2>4. \A e \in issued' : e[1] <= now /\ (e[1] = now => e[2] <= 0)
    <3> SUFFICES ASSUME NEW e \in issued' PROVE e[1] <= now /\ (e[1] = now => e[2] <= 0)
      OBVIOUS
    <3>1. CASE e \in issued
      BY <1>2, <2>2, <3>1, IssuedPairs DEF FlakeInv
    <3>2. CASE e = <<now, 0>>
      BY <1>2, <3>2
    <3> QED  BY <1>3, <3>1, <3>2
  <2> QED  BY <1>1, <1>2, <2>3, <2>4
<1> QED  BY <1>4, <1>5 DEF FlakeInv

LEMMA NextHolds ==
    ASSUME FlakeInv, GenerateNext
    PROVE  FlakeInv'
<1>1. /\ now <= lastTimestamp /\ sequence < MaxSequence /\ sequence' = sequence + 1
      /\ Emit(now, sequence + 1)
      /\ UNCHANGED <<now, lastTimestamp, overflowed, setbacks>>
  BY DEF GenerateNext
<1>2. /\ now \in -1..Horizon /\ sequence + 1 \in 0..MaxSequence
      /\ lastTimestamp \in Nat /\ sequence \in Nat /\ now \in Int
  BY <1>1, FlakeConstants DEF FlakeInv, FlakeTypes
<1>3. /\ issued' \subseteq (0..Horizon) \X (0..MaxSequence) /\ twice' \in BOOLEAN
      /\ issued' \subseteq issued \cup {<<now, sequence + 1>>}
      /\ (\A e \in issued : e # <<now, sequence + 1>>) => twice' = twice
  BY <1>1, <1>2, EmitIsNew
<1>4. FlakeTypes'
  BY <1>1, <1>2, <1>3 DEF FlakeInv, FlakeTypes
<1>5. LastIsLargest'
  <2> SUFFICES ASSUME ~overflowed, ~(setbacks > 0)
               PROVE  /\ twice' = FALSE /\ lastTimestamp' <= now'
                      /\ \A e \in issued' : /\ e[1] <= lastTimestamp'
                                            /\ e[1] = lastTimestamp' => e[2] <= sequence'
    BY <1>1 DEF LastIsLargest
  <2>1. /\ twice = FALSE /\ lastTimestamp <= now
        /\ \A e \in issued : e[1] <= lastTimestamp /\ (e[1] = lastTimestamp => e[2] <= sequence)
    BY DEF FlakeInv, FlakeTypes, LastIsLargest
  <2>2. now = lastTimestamp
    BY <1>1, <1>2, <2>1
  <2>3. \A e \in issued : e # <<now, sequence + 1>>
    BY <1>2, <2>1, <2>2, IssuedPairs DEF FlakeInv
  <2>4. twice' = FALSE
    BY <1>3, <2>1, <2>3
  <2>5. \A e \in issued' : e[1] <= lastTimestamp /\ (e[1] = lastTimestamp => e[2] <= sequence + 1)
    <3> SUFFICES ASSUME NEW e \in issued'
                 PROVE  e[1] <= lastTimestamp /\ (e[1] = lastTimestamp => e[2] <= sequence + 1)
      OBVIOUS
    <3>1. CASE e \in issued
      <4>1. e[2] \in Int /\ (e[1] = lastTimestamp => e[2] <= sequence) /\ e[1] <= lastTimestamp
        BY <2>1, <3>1, IssuedPairs, FlakeConstants DEF FlakeInv
      <4> QED  BY <1>2, <4>1
    <3>2. CASE e = <<now, sequence + 1>>
      BY <1>2, <2>2, <3>2
    <3> QED  BY <1>3, <3>1, <3>2
  <2> QED  BY <1>1, <1>2, <2>1, <2>4, <2>5
<1> QED  BY <1>4, <1>5 DEF FlakeInv

LEMMA WaitHolds ==
    ASSUME FlakeInv, GenerateAfterWait
    PROVE  FlakeInv'
<1>1. /\ now < Horizon /\ now' = now + 1 /\ lastTimestamp' = now + 1 /\ sequence' = 0
      /\ Emit(now, 0) /\ overflowed' = TRUE /\ setbacks' = setbacks
  BY DEF GenerateAfterWait
<1>2. /\ now \in -1..Horizon /\ 0 \in 0..MaxSequence /\ now + 1 \in 0..Horizon
      /\ now + 1 \in -1..Horizon
  BY <1>1, FlakeConstants DEF FlakeInv, FlakeTypes
<1>3. issued' \subseteq (0..Horizon) \X (0..MaxSequence) /\ twice' \in BOOLEAN
  BY <1>1, <1>2, EmitIsNew
<1>4. FlakeTypes'
  BY <1>1, <1>2, <1>3 DEF FlakeInv, FlakeTypes
<1> QED  BY <1>1, <1>4 DEF FlakeInv, LastIsLargest

LEMMA FlakeInvariance == FlakeSpec => []FlakeInv
<1>1. FlakeInv /\ [FlakeNext]_flakeVars => FlakeInv'
  <2> SUFFICES ASSUME FlakeInv, [FlakeNext]_flakeVars PROVE FlakeInv'
    OBVIOUS
  <2>1. CASE FlakeNext
    BY <2>1, ClockHolds, FirstHolds, NextHolds, WaitHolds DEF FlakeNext
  <2>2. CASE UNCHANGED flakeVars
    BY <2>2 DEF flakeVars, FlakeInv, FlakeTypes, LastIsLargest
  <2> QED  BY <2>1, <2>2
<1> QED  BY <1>1, FlakeStart, PTL DEF FlakeSpec

\* The generator keeps its types.
THEOREM FlakeTypeCorrect == FlakeSpec => []FlakeTypeOK
<1>1. FlakeInv => FlakeTypeOK
  BY DEF FlakeInv, FlakeTypes, FlakeTypeOK
<1> QED  BY <1>1, FlakeInvariance, PTL

\* For any widths of sequence and machine: ids are unique while the clock is not set back
\* and no millisecond is too short, and decode() finds what an id was made of.
THEOREM IdsAreUnique == FlakeSpec => []UniqueIds
<1>1. FlakeInv => UniqueIds
  <2> SUFFICES ASSUME FlakeInv PROVE UniqueIds
    OBVIOUS
  <2>1. twice => overflowed \/ setbacks > 0
    BY DEF FlakeInv, LastIsLargest
  <2>2. \A e \in issued : Decode(IdOf(e[1], e[2])) =
            [timestamp |-> e[1], machine |-> Machine, sequence |-> e[2]]
    BY IssuedPairs, DecodeFindsParts DEF FlakeInv
  <2> QED  BY <2>1, <2>2 DEF UniqueIds
<1> QED  BY <1>1, FlakeInvariance, PTL

-----------------------------------------------------------------------------
(* The documents of the loadcells: requests that write them one by one, weights *)
(* that arrive meanwhile, and flushes cut short.                             *)

\* The types, variable by variable.
RegistryTypes ==
    /\ cells \in Seq(CellDoc) /\ requests \in 0..MaxRequests
    /\ request \in [Admins -> Request] /\ provision \in [Weighers -> Hardware \cup {NoHardware}]
    /\ lockedBins \subseteq Items /\ sacrificed \subseteq Items /\ announced \subseteq Hardware
    /\ rivals \in BOOLEAN /\ cutShort \in BOOLEAN

\* What calibrates has an item; without rivals a block that does not has no hardware, and
\* the rest is hardware that announced itself.
CellOK(c) ==
    /\ c.isCalibrated => c.item # NoItem
    /\ c.hardwareId # NoHardware => c.hardwareId \in announced
    /\ ~rivals =>
           /\ c.isCalibrated => c.hardwareId # NoHardware \/ sacrificed # {}
           /\ ~c.isCalibrated /\ c.item # NoItem => c.hardwareId = NoHardware
           /\ c.item = NoItem => c.hardwareId # NoHardware

CellsOK == \A d \in DOMAIN cells : CellOK(cells[d])

\* A request writes a document with the item it has, and deletes none with an item that
\* nobody sacrificed.
RequestOK(r) ==
    /\ r.pc = "idle" => r = NoRequest
    /\ r.pc # "idle" => r.with.live /\ CellOK(r.with)
    /\ r.pc = "loaded" =>
           /\ r.insert = <<>> /\ r.update = 0 /\ r.lock = {}
           /\ r.delete \in DOMAIN cells /\ r.with.item = cells[r.delete].item
           /\ ~r.with.isCalibrated
    /\ r.pc = "flush" =>
           /\ r.update # 0 => r.update \in DOMAIN cells /\ r.with.item = cells[r.update].item
           /\ r.delete # 0 => /\ r.delete \in DOMAIN cells /\ r.delete # r.update
                              /\ cells[r.delete].item \in sacrificed \cup {NoItem}
           /\ r.insert = <<>> \/ \E h \in announced : r.insert = <<RawCell(h)>> /\ r.update # 0
           /\ r.update # 0 \/ r.delete # 0

RequestsOK == \A a \in Admins : RequestOK(request[a])

ItemsKept == \A i \in Items \ sacrificed : \E d \in Known : cells[d].item = i

\* Somewhere else, too, there is the hardware of document d.
Elsewhere(d) == \E e \in Known \ {d} : cells[e].hardwareId = cells[d].hardwareId

\* How far a request alone has come with its writes.
Midway(r) ==
    /\ r.pc = "loaded" => r.with = cells[r.delete]
    /\ r.pc = "flush" =>
           /\ r.update # 0 => cells[r.update].live /\ Updated(cells[r.update], r) = r.with
           /\ r.delete # 0 => cells[r.delete].live
           /\ r.insert # <<>> =>
                  /\ r.insert = <<RawCell(cells[r.update].hardwareId)>>
                  /\ r.with.hardwareId = NoHardware /\ r.delete = 0
           /\ r.insert = <<>> /\ r.update # 0 /\ r.delete = 0 =>
                  \/ r.with.hardwareId = cells[r.update].hardwareId
                  \/ r.with.hardwareId = NoHardware /\ Elsewhere(r.update)
           /\ r.update # 0 /\ r.delete # 0 =>
                  /\ cells[r.update].hardwareId = NoHardware
                  /\ r.with.hardwareId = cells[r.delete].hardwareId
           /\ r.update = 0 => Elsewhere(r.delete)

OneRequest == \A a, b \in Admins : request[a].pc # "idle" /\ request[b].pc # "idle" => a = b

\* Hardware that gets a document has none, and gets one.
OneProvision ==
    \A w \in Weighers : provision[w] # NoHardware =>
        /\ With(provision[w]) = {}
        /\ \A v \in Weighers : provision[v] = provision[w] => v = w

\* What a request still has to take the hardware from.
Outdated(d) ==
    \E a \in Admins :
        /\ request[a].pc = "flush" /\ request[a].insert = <<>>
        /\ \/ request[a].update = d /\ request[a].with.hardwareId = NoHardware
           \/ request[a].update = 0 /\ request[a].delete = d

\* Of two documents for the same hardware one is outdated.
NoTwins ==
    \A d, e \in Known :
        d # e /\ cells[d].hardwareId = cells[e].hardwareId /\ cells[d].hardwareId # NoHardware =>
            Outdated(d) \/ Outdated(e)

AloneInv == /\ OneRequest /\ OneProvision /\ (\A a \in Admins : Midway(request[a]))
            /\ (\A h \in announced : With(h) # {})
            /\ (~cutShort => NoTwins)

RegistryInv == /\ RegistryTypes /\ CellsOK /\ RequestsOK /\ ItemsKept
               /\ (~rivals => AloneInv)

LEMMA RegistryConstants ==
    /\ Hardware \subseteq Nat /\ NoHardware \notin Hardware /\ NoItem \notin Items
    /\ IsFiniteSet(Items) /\ MaxOf \in [Items -> Nat] /\ MaxRequests \in Nat
BY RegistryAssumption DEF RegistryAssumption

LEMMA CellTypes ==
    /\ \A h \in Hardware \cup {NoHardware} : RawCell(h) \in CellDoc
    /\ \A i \in Items : ItemBlock(i) \in CellDoc /\ ItemBlock(i).item = i
                        /\ ItemBlock(i).live /\ ~ItemBlock(i).isCalibrated
                        /\ ItemBlock(i).hardwareId = NoHardware
    /\ \A c \in CellDoc : ResetCell(c) \in CellDoc
    /\ NoRequest \in Request
<1>1. \A h \in Hardware \cup {NoHardware} : RawCell(h) \in CellDoc
  BY DEF RawCell, CellDoc
<1>2. ASSUME NEW i \in Items
      PROVE  /\ ItemBlock(i) \in CellDoc /\ ItemBlock(i).item = i
             /\ ItemBlock(i).live /\ ~ItemBlock(i).isCalibrated
             /\ ItemBlock(i).hardwareId = NoHardware
  BY DEF ItemBlock, RawCell, CellDoc
<1>3. \A c \in CellDoc : ResetCell(c) \in CellDoc
  BY DEF ResetCell, CellDoc
<1>4. NoRequest \in Request
  <2>1. <<>> \in Seq(CellDoc) /\ RawCell(NoHardware) \in CellDoc
    BY <1>1
  <2> QED  BY <2>1 DEF NoRequest, Request
<1> QED  BY <1>1, <1>2, <1>3, <1>4

-----------------------------------------------------------------------------
(* How the documents change.                                                 *)

LEMMA Numbers == ASSUME RegistryTypes PROVE DOMAIN cells = 1..Len(cells) /\ Len(cells) \in Nat
BY DEF RegistryTypes

LEMMA Grows ==
    ASSUME RegistryTypes, NEW c \in CellDoc, cells' = Append(cells, c)
    PROVE  /\ cells' \in Seq(CellDoc) /\ cells'[Len(cells) + 1] = c
           /\ DOMAIN cells' = DOMAIN cells \cup {Len(cells) + 1}
           /\ Len(cells) + 1 \notin DOMAIN cells
           /\ \A d \in DOMAIN cells : cells'[d] = cells[d]
BY DEF RegistryTypes

LEMMA Replaces ==
    ASSUME RegistryTypes, NEW d \in DOMAIN cells, NEW c \in CellDoc,
           cells' = [cells EXCEPT ![d] = c]
    PROVE  /\ cells' \in Seq(CellDoc) /\ DOMAIN cells' = DOMAIN cells /\ cells'[d] = c
           /\ \A e \in DOMAIN cells : e # d => cells'[e] = cells[e]
BY DEF RegistryTypes

\* Documents are never renumbered and keep their items; the histories grow.
Steady ==
    /\ sacrificed \subseteq sacrificed' /\ announced \subseteq announced' /\ (rivals => rivals')
    /\ \A d \in DOMAIN cells : d \in DOMAIN cells' /\ cells'[d].item = cells[d].item

LEMMA CellStays == ASSUME Steady, NEW c, CellOK(c) PROVE CellOK(c)'
BY DEF Steady, CellOK

LEMMA RequestStays == ASSUME Steady, NEW r, RequestOK(r) PROVE RequestOK(r)'
<1>1. CellOK(r.with) => CellOK(r.with)'
  <2>1. PICK c : c = r.with
    OBVIOUS
  <2> QED  BY <2>1, CellStays
<1>2. /\ sacrificed \subseteq sacrificed' /\ announced \subseteq announced'
      /\ \A d \in DOMAIN cells : d \in DOMAIN cells' /\ cells'[d].item = cells[d].item
  BY DEF Steady
<1>3. r.pc = "idle" => r = NoRequest
  BY DEF RequestOK
<1>4. r.pc # "idle" => r.with.live /\ CellOK(r.with)'
  BY <1>1 DEF RequestOK
<1>5. r.pc = "loaded" =>
           /\ r.insert = <<>> /\ r.update = 0 /\ r.lock = {}
           /\ r.delete \in DOMAIN cells' /\ r.with.item = cells'[r.delete].item
           /\ ~r.with.isCalibrated
  BY <1>2 DEF RequestOK
<1>6. r.pc = "flush" =>
           /\ r.update # 0 => r.update \in DOMAIN cells' /\ r.with.item = cells'[r.update].item
           /\ r.delete # 0 => /\ r.delete \in DOMAIN cells' /\ r.delete # r.update
                              /\ cells'[r.delete].item \in sacrificed' \cup {NoItem}
           /\ r.insert = <<>> \/ \E h \in announced' : r.insert = <<RawCell(h)>> /\ r.update # 0
           /\ r.update # 0 \/ r.delete # 0
  BY <1>2 DEF RequestOK
<1> QED  BY <1>3, <1>4, <1>5, <1>6 DEF RequestOK

\* With one request that moves on, the others' need no look.
LEMMA RequestsStay ==
    ASSUME RegistryTypes, RequestsOK, Steady, NEW a \in Admins, NEW r \in Request,
           request' = [request EXCEPT ![a] = r], RequestOK(r)'
    PROVE  RequestsOK' /\ request' \in [Admins -> Request]
<1>1. /\ request' \in [Admins -> Request] /\ request'[a] = r
      /\ \A b \in Admins : b # a => request'[b] = request[b]
  BY DEF RegistryTypes
<1>2. ASSUME NEW b \in Admins PROVE RequestOK(request[b])'
  <2>1. CASE b = a
    BY <1>1, <2>1
  <2>2. CASE b # a
    <3>1. PICK q : q = request[b] /\ request'[b] = q
      BY <1>1, <2>2
    <3>2. RequestOK(q)
      BY <3>1 DEF RequestsOK
    <3> QED  BY <3>1, <3>2, RequestStays
  <2> QED  BY <2>1, <2>2
<1> QED  BY <1>1, <1>2 DEF RequestsOK

\* What an update leaves: the document with the item it had, and with fields of its own or
\* of what was read and changed.
LEMMA UpdatedCell ==
    ASSUME NEW c \in CellDoc, NEW r \in Request
    PROVE  /\ Updated(c, r) \in CellDoc
           /\ Updated(c, r).item = c.item /\ Updated(c, r).live = c.live
           /\ Updated(c, r).hardwareId \in {c.hardwareId, r.with.hardwareId}
           /\ Updated(c, r).isCalibrated \in {c.isCalibrated, r.with.isCalibrated}
<1>1. PICK w \in CellDoc : w = r.with
  BY DEF Request
<1>4. Updated(c, r) = [live |-> c.live, item |-> c.item,
          hardwareId |-> IF "hardwareId" \in r.changes THEN w.hardwareId ELSE c.hardwareId,
          isCalibrated |-> IF "isCalibrated" \in r.changes THEN w.isCalibrated ELSE c.isCalibrated,
          quantity |-> IF "quantity" \in r.changes THEN w.quantity ELSE c.quantity]
  <2>1. PICK h : h = IF "hardwareId" \in r.changes THEN w.hardwareId ELSE c.hardwareId
    OBVIOUS
  <2>2. PICK b : b = IF "isCalibrated" \in r.changes THEN w.isCalibrated ELSE c.isCalibrated
    OBVIOUS
  <2>3. PICK q : q = IF "quantity" \in r.changes THEN w.quantity ELSE c.quantity
    OBVIOUS
  <2>4. Updated(c, r) = [c EXCEPT !.hardwareId = h, !.isCalibrated = b, !.quantity = q]
    BY <1>1, <2>1, <2>2, <2>3 DEF Updated, CellDoc
  <2>5. Updated(c, r) = [live |-> c.live, item |-> c.item, hardwareId |-> h,
                         isCalibrated |-> b, quantity |-> q]
    BY <2>4 DEF CellDoc
  <2> QED  BY <2>1, <2>2, <2>3, <2>5
<1>2. /\ Updated(c, r).hardwareId = IF "hardwareId" \in r.changes THEN w.hardwareId ELSE c.hardwareId
      /\ Updated(c, r).isCalibrated = IF "isCalibrated" \in r.changes THEN w.isCalibrated ELSE c.isCalibrated
      /\ Updated(c, r).quantity = IF "quantity" \in r.changes THEN w.quantity ELSE c.quantity
      /\ Updated(c, r).item = c.item /\ Updated(c, r).live = c.live
  BY <1>4
<1>3. Updated(c, r) \in CellDoc
  BY <1>1, <1>4 DEF CellDoc
<1> QED  BY <1>1, <1>2, <1>3

LEMMA ChangedFields == ASSUME NEW c, NEW w PROVE Changed(c, w) \in SUBSET Fields
BY DEF Changed

\* Nobody else having written, an update leaves what the request made of the document.
LEMMA UpdatedAlone ==
    ASSUME NEW c \in CellDoc, NEW w \in CellDoc, NEW r, r.with = w,
           Changed(c, w) \subseteq r.changes, w.item = c.item, w.live = c.live
    PROVE  Updated(c, r) = w
<1>1. /\ "hardwareId" \notin r.changes => c.hardwareId = w.hardwareId
      /\ "isCalibrated" \notin r.changes => c.isCalibrated = w.isCalibrated
      /\ "quantity" \notin r.changes => c.quantity = w.quantity
  <2>1. /\ "hardwareId" \in Fields /\ "isCalibrated" \in Fields /\ "quantity" \in Fields
        /\ c["hardwareId"] = c.hardwareId /\ w["hardwareId"] = w.hardwareId
        /\ c["isCalibrated"] = c.isCalibrated /\ w["isCalibrated"] = w.isCalibrated
        /\ c["quantity"] = c.quantity /\ w["quantity"] = w.quantity
    BY DEF Fields
  <2> QED  BY <2>1 DEF Changed
<1>2. PICK x : x = Updated(c, r)
  OBVIOUS
<1>3. /\ x = [live |-> c.live, hardwareId |-> x.hardwareId, item |-> c.item,
             isCalibrated |-> x.isCalibrated, quantity |-> x.quantity]
      /\ x.hardwareId = w.hardwareId /\ x.isCalibrated = w.isCalibrated /\ x.quantity = w.quantity
  BY <1>1, <1>2 DEF Updated, CellDoc
<1> QED  BY <1>2, <1>3 DEF CellDoc

LEMMA NoRequestOK == RequestOK(NoRequest) /\ RequestOK(NoRequest)' /\ Midway(NoRequest)
                     /\ Midway(NoRequest)' /\ NoRequest.pc = "idle"
BY DEF RequestOK, Midway, NoRequest

LEMMA RegistryStart == RegistryInit => RegistryInv
<1> SUFFICES ASSUME RegistryInit PROVE RegistryInv
  OBVIOUS
<1>1. PICK blocks \in [1..Cardinality(Items) -> Items] :
          /\ \A i \in Items : \E d \in DOMAIN blocks : blocks[d] = i
          /\ cells = [d \in DOMAIN blocks |-> ItemBlock(blocks[d])]
  BY DEF RegistryInit
<1>2. PICK n \in Nat : n = Cardinality(Items)
  BY RegistryConstants, FS_CardinalityType
<1>3. /\ cells \in [1..n -> CellDoc] /\ DOMAIN cells = 1..n
      /\ \A d \in 1..n : blocks[d] \in Items /\ cells[d] = ItemBlock(blocks[d])
  BY <1>1, <1>2, CellTypes
<1>4. cells \in Seq(CellDoc)
  BY <1>2, <1>3
<1>5. /\ request = [a \in Admins |-> NoRequest] /\ provision = [w \in Weighers |-> NoHardware]
      /\ requests = 0 /\ lockedBins = {} /\ announced = {} /\ sacrificed = {}
      /\ rivals = FALSE /\ cutShort = FALSE
  BY DEF RegistryInit
<1>6. RegistryTypes
  <2>1. 0 \in 0..MaxRequests
    BY RegistryConstants
  <2>2. request \in [Admins -> Request]
    BY <1>5, CellTypes
  <2> QED  BY <1>4, <1>5, <2>1, <2>2 DEF RegistryTypes
<1>7. \A d \in 1..n : /\ cells[d].live /\ ~cells[d].isCalibrated /\ cells[d].item = blocks[d]
                      /\ cells[d].hardwareId = NoHardware /\ cells[d].item # NoItem
  BY <1>3, CellTypes, RegistryConstants
<1>8. CellsOK
  BY <1>3, <1>7 DEF CellsOK, CellOK
<1>9. RequestsOK /\ \A a \in Admins : Midway(request[a]) /\ request[a].pc = "idle"
  <2>1. \A a \in Admins : request[a] = NoRequest
    BY <1>5
  <2> QED  BY <2>1, NoRequestOK DEF RequestsOK
<1>10. ItemsKept
  <2> SUFFICES ASSUME NEW i \in Items PROVE \E d \in Known : cells[d].item = i
    BY DEF ItemsKept
  <2>1. PICK d \in 1..n : blocks[d] = i
    BY <1>1, <1>2
  <2> QED  BY <1>3, <1>7, <2>1 DEF Known
<1>11. AloneInv
  <2>1. NoTwins
    BY <1>3, <1>7 DEF NoTwins, Known
  <2> QED  BY <1>5, <1>9, <2>1 DEF AloneInv, OneRequest, OneProvision
<1> QED  BY <1>6, <1>8, <1>9, <1>10, <1>11 DEF RegistryInv

-----------------------------------------------------------------------------
(* Requests that read, and weights.                                          *)

\* A request alone, or none, moves on without a write.
LEMMA RequestMoves ==
    ASSUME RegistryInv, NEW a \in Admins, NEW r \in Request,
           request' = [request EXCEPT ![a] = r], RequestOK(r)',
           cells' = cells, provision' = provision, announced' = announced,
           cutShort' = cutShort, lockedBins' = lockedBins,
           sacrificed \subseteq sacrificed', sacrificed' \subseteq Items,
           requests' \in 0..MaxRequests, rivals' \in BOOLEAN,
           ~rivals' => /\ ~rivals /\ Midway(r) /\ request[a].pc # "flush"
                       /\ \A b \in Admins \ {a} : request[b].pc = "idle"
    PROVE  RegistryInv'
<1>1. Steady
  BY DEF RegistryInv, Steady
<1>2. RegistryTypes /\ CellsOK /\ RequestsOK /\ ItemsKept
  BY DEF RegistryInv
<1>3. RequestsOK' /\ request' \in [Admins -> Request]
  BY <1>1, <1>2, RequestsStay
<1>4. RegistryTypes'
  BY <1>2, <1>3 DEF RegistryTypes
<1>5. CellsOK'
  <2> SUFFICES ASSUME NEW d \in DOMAIN cells PROVE CellOK(cells[d])'
    BY DEF CellsOK
  <2>1. PICK c : c = cells[d] /\ cells'[d] = c
    OBVIOUS
  <2> QED  BY <1>1, <1>2, <2>1, CellStays DEF CellsOK
<1>6. ItemsKept'
  BY <1>2 DEF ItemsKept, Known
<1>7. ASSUME ~rivals' PROVE AloneInv'
  <2>1. AloneInv /\ Midway(r) /\ \A b \in Admins : request[b].pc # "flush"
    BY <1>7 DEF RegistryInv
  <2>2. /\ request'[a] = r /\ \A b \in Admins : b # a => request'[b] = request[b]
        /\ \A b \in Admins \ {a} : request'[b].pc = "idle"
    BY <1>2, <1>7 DEF RegistryTypes
  <2>3. OneRequest'
    BY <2>2 DEF OneRequest
  <2>4. OneProvision' /\ \A h \in announced' : With(h)' # {}
    BY <2>1 DEF AloneInv, OneProvision, With, Known
  <2>5. \A b \in Admins : Midway(request[b])'
    <3> SUFFICES ASSUME NEW b \in Admins PROVE Midway(request[b])'
      OBVIOUS
    <3>1. CASE b = a
      <4>1. Midway(r)'
        BY <2>1 DEF Midway, Elsewhere, Known
      <4> QED  BY <2>2, <3>1, <4>1
    <3>2. CASE b # a
      BY <2>2, <3>2 DEF Midway
    <3> QED  BY <3>1, <3>2
  <2>6. ~cutShort' => NoTwins'
    <3>1. \A d : ~Outdated(d)
      BY <2>1 DEF Outdated
    <3>2. ~cutShort => \A d, e \in Known :
              d # e /\ cells[d].hardwareId = cells[e].hardwareId => cells[d].hardwareId = NoHardware
      BY <2>1, <3>1 DEF AloneInv, NoTwins
    <3> QED  BY <3>2 DEF NoTwins, Known
  <2> QED  BY <2>3, <2>4, <2>5, <2>6 DEF AloneInv
<1> QED  BY <1>3, <1>4, <1>5, <1>6, <1>7 DEF RegistryInv

LEMMA ArrivesFacts ==
    ASSUME RegistryInv, NEW a \in Admins, Arrives(a)
    PROVE  /\ request[a].pc = "idle" /\ requests' \in 0..MaxRequests /\ rivals' \in BOOLEAN
           /\ ~rivals' => ~rivals /\ \A b \in Admins \ {a} : request[b].pc = "idle"
<1>1. requests' \in 0..MaxRequests
  BY RegistryConstants DEF RegistryInv, RegistryTypes, Arrives
<1> QED  BY <1>1 DEF RegistryInv, RegistryTypes, Arrives

LEMMA UnassignHolds ==
    ASSUME RegistryInv, NEW a \in Admins, NEW d \in Known, Unassign(a, d)
    PROVE  RegistryInv'
<1>0. PICK h : h = cells[d].hardwareId
  OBVIOUS
<1>4. PICK c : c = ResetCell(cells[d])
  OBVIOUS
<1>2. PICK ch : ch = Changed(cells[d], c)
  OBVIOUS
<1> DEFINE r == [NoRequest EXCEPT !.pc = "flush", !.insert = <<RawCell(h)>>,
                                  !.update = d, !.with = c, !.changes = ch]
<1>1. /\ Arrives(a) /\ cells[d].isCalibrated /\ cells[d].item # NoItem /\ h # NoHardware
      /\ request' = [request EXCEPT ![a] = r]
      /\ UNCHANGED <<cells, provision, lockedBins, announced, sacrificed, cutShort>>
  BY <1>0, <1>2, <1>4 DEF Unassign
<1>15. RegistryTypes /\ CellOK(cells[d])
  BY DEF RegistryInv, CellsOK, Known
<1>3. /\ d \in DOMAIN cells /\ d \in Nat /\ d # 0 /\ cells[d] \in CellDoc /\ cells[d].live
      /\ h \in announced /\ h \in Hardware
  BY <1>0, <1>1, <1>15, Numbers DEF Known, RegistryTypes, CellOK
<1>5. /\ c \in CellDoc /\ c.hardwareId = NoHardware /\ ~c.isCalibrated
      /\ c.item = cells[d].item /\ c.live
  BY <1>3, <1>4, CellTypes DEF ResetCell, CellDoc
<1>6. RawCell(h) \in CellDoc
  BY <1>3, CellTypes
<1>7. /\ r.pc = "flush" /\ r.insert = <<RawCell(h)>> /\ r.update = d /\ r.with = c
      /\ r.delete = 0 /\ r.lock = {} /\ r.changes = ch
  BY <1>4 DEF NoRequest
<1>8. r \in Request
  <2>1. NoRequest \in Request /\ <<RawCell(h)>> \in Seq(CellDoc)
    BY <1>6, CellTypes
  <2> QED  BY <1>2, <1>3, <1>4, <1>5, <2>1, ChangedFields DEF Request
<1>9. request' = [request EXCEPT ![a] = r] /\ Arrives(a)
  BY <1>1
<1>10. /\ cells' = cells /\ provision' = provision /\ announced' = announced
       /\ cutShort' = cutShort /\ lockedBins' = lockedBins /\ sacrificed' = sacrificed
       /\ sacrificed \subseteq Items
  BY <1>1, <1>15 DEF RegistryTypes
<1> HIDE DEF r
<1>11. RequestOK(r)'
  <2>1. CellOK(c)'
    BY <1>1, <1>5 DEF CellOK
  <2>2. \E g \in announced' : r.insert = <<RawCell(g)>> /\ r.update # 0
    BY <1>10, <1>3, <1>7
  <2>3. r.pc = "flush" /\ r.update = d /\ r.with = c /\ r.delete = 0
    BY <1>7
  <2>4. r.pc # "idle" /\ r.pc # "loaded" /\ r.update # 0
    BY <2>3, <1>3
  <2>5. r.update \in DOMAIN cells' /\ r.with.item = cells'[r.update].item
    BY <2>3, <1>3, <1>5, <1>10
  <2>6. r.with.live /\ CellOK(r.with)'
    BY <2>3, <2>1, <1>5
  <2> QED  BY <2>2, <2>3, <2>4, <2>5, <2>6 DEF RequestOK
<1>12. Midway(r)
  <2>2. r.with = c /\ Changed(cells[d], c) \subseteq r.changes
    BY <1>2, <1>7
  <2>1. Updated(cells[d], r) = c
    BY <1>3, <1>5, <2>2, UpdatedAlone
  <2> QED  BY <1>0, <1>3, <1>5, <1>7, <2>1 DEF Midway
<1>13. /\ request[a].pc = "idle" /\ requests' \in 0..MaxRequests /\ rivals' \in BOOLEAN
       /\ ~rivals' => ~rivals /\ \A b \in Admins \ {a} : request[b].pc = "idle"
  BY <1>9, ArrivesFacts
<1>14. request[a].pc # "flush" /\ sacrificed \subseteq sacrificed' /\ sacrificed' \subseteq Items
  BY <1>10, <1>13
<1> QED  BY <1>8, <1>9, <1>10, <1>11, <1>12, <1>13, <1>14, RequestMoves

\* The quantity comes out of the net weight and metadata.max.
LEMMA QuantityType ==
    ASSUME NEW net, NEW max \in Nat, NEW q \in Calculated(net, max)
    PROVE  q \in Nat
BY DEF Calculated

LEMMA RecalibrateHolds ==
    ASSUME RegistryInv, NEW a \in Admins, NEW d \in Known, NEW net, Recalibrate(a, d, net)
    PROVE  RegistryInv'
<1>1. /\ Arrives(a) /\ cells[d].isCalibrated /\ cells[d].item # NoItem
      /\ UNCHANGED <<cells, provision, lockedBins, announced, sacrificed, cutShort>>
  BY DEF Recalibrate
<1>2. PICK q \in Calculated(net, MaxOf[cells[d].item]), flag \in {{}, {"isCalibrated"}} :
          request' = [request EXCEPT ![a] =
              [NoRequest EXCEPT !.pc = "flush", !.update = d,
                                !.with = [cells[d] EXCEPT !.quantity = q],
                                !.changes = flag \cup Changed(cells[d], [cells[d] EXCEPT !.quantity = q])]]
  BY DEF Recalibrate
<1>3. RegistryTypes /\ CellOK(cells[d])
  BY DEF RegistryInv, CellsOK, Known
<1>4. d \in DOMAIN cells /\ d \in Nat /\ d # 0 /\ cells[d] \in CellDoc /\ cells[d].live
  BY <1>3, Numbers DEF Known, RegistryTypes
<1>5. q \in Nat
  <2>1. MaxOf[cells[d].item] \in Nat
    BY <1>1, <1>4, RegistryConstants DEF CellDoc
  <2> QED  BY <1>2, <2>1, QuantityType
<1>6. PICK c : c = [cells[d] EXCEPT !.quantity = q]
  OBVIOUS
<1>7. /\ c \in CellDoc /\ c.hardwareId = cells[d].hardwareId /\ c.isCalibrated
      /\ c.item = cells[d].item /\ c.live
  BY <1>1, <1>4, <1>5, <1>6 DEF CellDoc
<1>13. PICK ch : ch = flag \cup Changed(cells[d], c)
  OBVIOUS
<1> DEFINE r == [NoRequest EXCEPT !.pc = "flush", !.update = d, !.with = c,
                                  !.changes = ch]
<1>8. request' = [request EXCEPT ![a] = r]
  BY <1>2, <1>6, <1>13
<1>9. /\ r.pc = "flush" /\ r.insert = <<>> /\ r.update = d /\ r.with = c
      /\ r.delete = 0 /\ r.lock = {} /\ Changed(cells[d], c) \subseteq r.changes
  BY <1>13 DEF NoRequest
<1>10. r \in Request
  <2>1. NoRequest \in Request
    BY CellTypes
  <2>2. flag \cup Changed(cells[d], c) \in SUBSET Fields
    BY ChangedFields DEF Fields
  <2> QED  BY <1>4, <1>7, <1>13, <2>1, <2>2 DEF Request
<1> HIDE DEF r
<1>11. RequestOK(r)'
  <2>1. CellOK(c)'
    BY <1>1, <1>3, <1>7, ArrivesFacts DEF CellOK
  <2> QED  BY <1>1, <1>4, <1>7, <1>9, <2>1 DEF RequestOK
<1>12. Midway(r)
  <2>1. Updated(cells[d], r) = c
    BY <1>4, <1>7, <1>9, UpdatedAlone
  <2> QED  BY <1>4, <1>7, <1>9, <2>1 DEF Midway
<1> QED  BY <1>1, <1>3, <1>8, <1>10, <1>11, <1>12, ArrivesFacts, RequestMoves DEF RegistryTypes

LEMMA LoadTargetHolds ==
    ASSUME RegistryInv, NEW a \in Admins, NEW d \in Known, LoadTarget(a, d)
    PROVE  RegistryInv'
<1>1. /\ Arrives(a) /\ ~cells[d].isCalibrated
      /\ UNCHANGED <<cells, provision, lockedBins, announced, sacrificed, cutShort>>
  BY DEF LoadTarget
<1>2. RegistryTypes /\ CellOK(cells[d])
  BY DEF RegistryInv, CellsOK, Known
<1>3. d \in DOMAIN cells /\ d \in Nat /\ d # 0 /\ cells[d] \in CellDoc /\ cells[d].live
  BY <1>2, Numbers DEF Known, RegistryTypes
<1>4. PICK c : c = cells[d]
  OBVIOUS
<1> DEFINE r == [NoRequest EXCEPT !.pc = "loaded", !.delete = d, !.with = c]
<1>5. request' = [request EXCEPT ![a] = r]
  BY <1>4 DEF LoadTarget
<1>6. /\ r.pc = "loaded" /\ r.insert = <<>> /\ r.update = 0 /\ r.with = c
      /\ r.delete = d /\ r.lock = {}
  BY DEF NoRequest
<1>7. r \in Request
  <2>1. NoRequest \in Request
    BY CellTypes
  <2> QED  BY <1>3, <1>4, <2>1 DEF Request
<1> HIDE DEF r
<1>8. RequestOK(r)'
  <2>1. CellOK(c)'
    BY <1>1, <1>2, <1>4, ArrivesFacts DEF CellOK
  <2> QED  BY <1>1, <1>3, <1>4, <1>6, <2>1 DEF RequestOK
<1>9. Midway(r)
  BY <1>4, <1>6 DEF Midway
<1> QED  BY <1>1, <1>2, <1>5, <1>7, <1>8, <1>9, ArrivesFacts, RequestMoves DEF RegistryTypes

LEMMA LoadSourceHolds ==
    ASSUME RegistryInv, NEW a \in Admins, NEW i \in Items, NEW net, LoadSource(a, i, net)
    PROVE  RegistryInv'
<1>1. /\ request[a].pc = "loaded"
      /\ UNCHANGED <<cells, provision, requests, lockedBins, announced, rivals, cutShort>>
  BY DEF LoadSource
<1>2. PICK t : t = request[a]
  OBVIOUS
<1>3. RegistryTypes /\ CellsOK /\ t \in Request /\ RequestOK(t) /\ t.pc = "loaded"
  BY <1>1, <1>2 DEF RegistryInv, RequestsOK, RegistryTypes
<1>4. ~rivals => Midway(t) /\ \A b \in Admins \ {a} : request[b].pc = "idle"
  BY <1>1, <1>2 DEF RegistryInv, AloneInv, OneRequest
<1>5. requests \in 0..MaxRequests /\ rivals \in BOOLEAN /\ sacrificed \subseteq Items
  BY <1>3 DEF RegistryTypes
<1>6. CASE request' = [request EXCEPT ![a] = NoRequest] /\ UNCHANGED sacrificed
  BY <1>1, <1>4, <1>5, <1>6, NoRequestOK, CellTypes, RequestMoves
<1>7. ASSUME NEW d \in Blocks(i) \ {t.delete}, NEW q \in Calculated(net, MaxOf[i]),
             request' = [request EXCEPT ![a] =
                     [@ EXCEPT !.pc = "flush", !.update = d, !.lock = {i},
                               !.with = Merged(cells[d], request[a].with, q),
                               !.changes = Changed(cells[d], Merged(cells[d], request[a].with, q))]],
             sacrificed' = sacrificed \cup ({t.with.item} \ {NoItem})
      PROVE  RegistryInv'
  <2>1. /\ d \in DOMAIN cells /\ d \in Nat /\ d # 0 /\ cells[d] \in CellDoc /\ cells[d].live
        /\ cells[d].item = i /\ ~cells[d].isCalibrated /\ d # t.delete
    BY <1>3, Numbers DEF Blocks, Known, RegistryTypes
  <2>2. q \in Nat
    BY RegistryConstants, QuantityType
  <2>3. /\ t.with \in CellDoc /\ t.with.live /\ CellOK(t.with) /\ ~t.with.isCalibrated
        /\ t.delete \in DOMAIN cells /\ t.delete \in Nat /\ t.delete # 0
        /\ t.with.item = cells[t.delete].item /\ t.insert = <<>>
    BY <1>3, Numbers DEF RequestOK, Request
  <2>4. PICK c : c = Merged(cells[d], t.with, q)
    OBVIOUS
  <2>5. /\ c \in CellDoc /\ c.hardwareId = t.with.hardwareId /\ c.isCalibrated
        /\ c.item = i /\ c.live
    BY <2>1, <2>2, <2>3, <2>4 DEF Merged, CellDoc
  <2>12. PICK ch : ch = Changed(cells[d], c)
    OBVIOUS
  <2> DEFINE r == [t EXCEPT !.pc = "flush", !.update = d, !.lock = {i}, !.with = c,
                            !.changes = ch]
  <2>6. request' = [request EXCEPT ![a] = r]
    <3>1. request' = [request EXCEPT ![a] =
              [t EXCEPT !.pc = "flush", !.update = d, !.lock = {i},
                        !.with = Merged(cells[d], t.with, q),
                        !.changes = Changed(cells[d], Merged(cells[d], t.with, q))]]
      BY <1>2, <1>7
    <3> QED  BY <2>4, <2>12, <3>1
  <2>7. /\ r.pc = "flush" /\ r.insert = <<>> /\ r.update = d /\ r.with = c
        /\ r.delete = t.delete /\ r.changes = ch
    BY <1>3, <2>3 DEF Request
  <2>8. r \in Request
    BY <1>3, <2>1, <2>5, <2>12, ChangedFields DEF Request
  <2> HIDE DEF r
  <2>9. sacrificed \subseteq sacrificed' /\ sacrificed' \subseteq Items
    BY <1>5, <1>7, <2>3 DEF CellDoc
  <2>10. RequestOK(r)'
    <3>1. ~rivals => c.hardwareId # NoHardware \/ sacrificed' # {}
      BY <1>7, <2>3, <2>5 DEF CellOK
    <3>2. c.hardwareId # NoHardware => c.hardwareId \in announced'
      BY <1>1, <2>3, <2>5 DEF CellOK
    <3>3. CellOK(c)'
      BY <1>1, <2>5, <3>1, <3>2, RegistryConstants DEF CellOK
    <3>4. cells[t.delete].item \in sacrificed' \cup {NoItem}
      BY <1>7, <2>3
    <3> QED  BY <1>1, <2>1, <2>3, <2>5, <2>7, <3>3, <3>4 DEF RequestOK
  <2>11. ~rivals => Midway(r)
    <3> SUFFICES ASSUME ~rivals PROVE Midway(r)
      OBVIOUS
    <3>1. t.with = cells[t.delete]
      BY <1>3, <1>4 DEF Midway
    <3>2. cells[d].hardwareId = NoHardware
      BY <1>3, <2>1, RegistryConstants DEF CellsOK, CellOK
    <3>4. r.with = c /\ Changed(cells[d], c) \subseteq r.changes
      BY <2>7, <2>12
    <3>3. Updated(cells[d], r) = c
      BY <2>1, <2>5, <3>4, UpdatedAlone
    <3> QED  BY <2>1, <2>3, <2>5, <2>7, <3>1, <3>2, <3>3 DEF Midway
  <2> QED  BY <1>1, <1>4, <1>5, <2>6, <2>8, <2>9, <2>10, <2>11, RequestMoves
<1> QED  BY <1>2, <1>6, <1>7 DEF LoadSource

-----------------------------------------------------------------------------
(* Weights of hardware that has no document.                                 *)

LEMMA WeightOfUnknownHolds ==
    ASSUME RegistryInv, NEW w \in Weighers, NEW h \in Hardware, WeightOfUnknown(w, h)
    PROVE  RegistryInv'
<1>1. /\ With(h) = {} /\ provision' = [provision EXCEPT ![w] = h]
      /\ rivals' = (rivals \/ \E v \in Weighers : provision[v] = h)
      /\ cells' = cells /\ request' = request /\ requests' = requests
      /\ lockedBins' = lockedBins /\ announced' = announced
      /\ sacrificed' = sacrificed /\ cutShort' = cutShort
  BY DEF WeightOfUnknown
<1>2. RegistryTypes /\ CellsOK /\ RequestsOK /\ ItemsKept
  BY DEF RegistryInv
<1>3. RegistryTypes'
  BY <1>1, <1>2 DEF RegistryTypes
<1>4. CellsOK'
  BY <1>1, <1>2 DEF CellsOK, CellOK
<1>5. RequestsOK'
  BY <1>1, <1>2 DEF RequestsOK, RequestOK, CellOK
<1>6. ItemsKept'
  BY <1>1, <1>2 DEF ItemsKept, Known
<1>7. ASSUME ~rivals' PROVE AloneInv'
  <2>1. AloneInv /\ \A v \in Weighers : provision[v] # h
    BY <1>1, <1>2, <1>7 DEF RegistryInv, RegistryTypes
  <2>2. OneProvision'
    <3>1. provision'[w] = h /\ \A v \in Weighers : v # w => provision'[v] = provision[v]
      BY <1>1, <1>2 DEF RegistryTypes
    <3> QED  BY <1>1, <2>1, <3>1 DEF AloneInv, OneProvision, With, Known
  <2>3. OneRequest' /\ \A g \in announced' : With(g)' # {}
    BY <1>1, <2>1 DEF AloneInv, OneRequest, With, Known
  <2>4. \A b \in Admins : Midway(request[b])'
    BY <1>1, <2>1 DEF AloneInv, Midway, Elsewhere, Known
  <2>5. ~cutShort' => NoTwins'
    BY <1>1, <2>1 DEF AloneInv, NoTwins, Outdated, Known
  <2> QED  BY <2>2, <2>3, <2>4, <2>5 DEF AloneInv
<1> QED  BY <1>3, <1>4, <1>5, <1>6, <1>7 DEF RegistryInv

LEMMA ProvisionedHolds ==
    ASSUME RegistryInv, NEW w \in Weighers, Provisioned(w)
    PROVE  RegistryInv'
<1>1. PICK h : h = provision[w]
  OBVIOUS
<1>2. /\ h # NoHardware /\ cells' = Append(cells, RawCell(h)) /\ announced' = announced \cup {h}
      /\ provision' = [provision EXCEPT ![w] = NoHardware]
      /\ request' = request /\ requests' = requests /\ lockedBins' = lockedBins
      /\ sacrificed' = sacrificed /\ rivals' = rivals /\ cutShort' = cutShort
  BY <1>1 DEF Provisioned
<1>3. RegistryTypes /\ CellsOK /\ RequestsOK /\ ItemsKept
  BY DEF RegistryInv
<1>4. h \in Hardware
  BY <1>1, <1>2, <1>3 DEF RegistryTypes
<1>5. PICK c \in CellDoc : c = RawCell(h)
  BY <1>4, CellTypes
<1>6. /\ c.live /\ c.hardwareId = h /\ c.item = NoItem /\ ~c.isCalibrated
  BY <1>5 DEF RawCell
<1>7. PICK n : n = Len(cells) + 1
  OBVIOUS
<1>8. /\ cells' \in Seq(CellDoc) /\ cells'[n] = c /\ n \notin DOMAIN cells
      /\ DOMAIN cells' = DOMAIN cells \cup {n}
      /\ \A d \in DOMAIN cells : cells'[d] = cells[d]
  BY <1>2, <1>3, <1>5, <1>7, Grows
<1>9. Steady
  BY <1>2, <1>8 DEF Steady
<1>10. RegistryTypes'
  BY <1>2, <1>3, <1>4, <1>8, RegistryConstants DEF RegistryTypes
<1>11. CellsOK'
  <2>1. CellOK(c)'
    BY <1>2, <1>6 DEF CellOK
  <2>2. ASSUME NEW d \in DOMAIN cells PROVE CellOK(cells[d])'
    <3>1. PICK e : e = cells[d] /\ cells'[d] = e
      BY <1>8
    <3> QED  BY <1>3, <1>9, <3>1, CellStays DEF CellsOK
  <2> QED  BY <1>8, <2>1, <2>2 DEF CellsOK
<1>12. RequestsOK'
  <2> SUFFICES ASSUME NEW b \in Admins PROVE RequestOK(request[b])'
    BY DEF RequestsOK
  <2>1. PICK q : q = request[b] /\ request'[b] = q
    BY <1>2
  <2> QED  BY <1>3, <1>9, <2>1, RequestStays DEF RequestsOK
<1>13. Known' = Known \cup {n}
  BY <1>6, <1>8 DEF Known
<1>14. Known \subseteq DOMAIN cells /\ n \notin Known
  BY <1>8 DEF Known
<1>15. ItemsKept'
  BY <1>2, <1>3, <1>8, <1>13, <1>14 DEF ItemsKept
<1>16. ASSUME ~rivals' PROVE AloneInv'
  <2>1. AloneInv
    BY <1>2, <1>16 DEF RegistryInv
  <2>2. With(h) = {} /\ \A v \in Weighers : provision[v] = h => v = w
    BY <1>1, <1>2, <2>1 DEF AloneInv, OneProvision
  <2>3. \A d \in Known : cells'[d] = cells[d] /\ cells[d].hardwareId # h
    BY <1>8, <1>14, <2>2 DEF With
  <2>4. /\ \A g \in Hardware \ {h} : With(g)' = With(g)
        /\ With(h)' = {n}
    BY <1>6, <1>8, <1>13, <1>14, <2>3 DEF With
  <2>5. OneProvision'
    <3>1. /\ provision'[w] = NoHardware
          /\ \A v \in Weighers : v # w => provision'[v] = provision[v]
      BY <1>2, <1>3 DEF RegistryTypes
    <3>2. ASSUME NEW v \in Weighers, provision'[v] # NoHardware
          PROVE  /\ With(provision[v])' = {}
                 /\ \A u \in Weighers : provision'[u] = provision'[v] => u = v
      <4>1. v # w /\ provision'[v] = provision[v]
        BY <3>1, <3>2
      <4>2. PICK g : g = provision[v]
        OBVIOUS
      <4>3. g \in Hardware \ {h} /\ With(g) = {}
        BY <1>3, <2>1, <2>2, <3>2, <4>1, <4>2 DEF RegistryTypes, AloneInv, OneProvision
      <4>4. With(g)' = {}
        BY <2>4, <4>3
      <4>5. \A u \in Weighers : provision'[u] = provision'[v] => u = v
        BY <2>1, <3>1, <3>2, <4>1 DEF AloneInv, OneProvision
      <4> QED  BY <4>1, <4>2, <4>4, <4>5
    <3> QED  BY <3>2 DEF OneProvision
  <2>6. \A g \in announced' : With(g)' # {}
    <3>1. \A g \in announced : With(g) # {} /\ g \in Hardware
      BY <1>3, <2>1 DEF AloneInv, RegistryTypes
    <3> QED  BY <1>2, <2>4, <3>1
  <2>7. OneRequest'
    BY <1>2, <2>1 DEF AloneInv, OneRequest
  <2>8. ASSUME NEW b \in Admins PROVE Midway(request[b])'
    <3>1. PICK q : q = request[b] /\ request'[b] = q
      BY <1>2
    <3>2. Midway(q) /\ RequestOK(q)
      BY <1>3, <2>1, <3>1 DEF AloneInv, RequestsOK
    <3>3. \A d \in DOMAIN cells : Elsewhere(d) => Elsewhere(d)'
      BY <1>8, <1>13, <2>3 DEF Elsewhere
    <3>4. /\ q.pc = "loaded" => q.delete \in DOMAIN cells
          /\ q.pc = "flush" => /\ q.update # 0 => q.update \in DOMAIN cells
                               /\ q.delete # 0 => q.delete \in DOMAIN cells
                               /\ q.update # 0 \/ q.delete # 0
      BY <3>2 DEF RequestOK
    <3>5. Midway(q)'
      <4>1. q.pc = "loaded" => q.with = cells'[q.delete]
        BY <1>8, <3>2, <3>4 DEF Midway
      <4>2. q.pc = "flush" =>
               /\ q.update # 0 => cells'[q.update] = cells[q.update]
               /\ q.delete # 0 => cells'[q.delete] = cells[q.delete]
        BY <1>8, <3>4
      <4>3. q.pc = "flush" =>
               /\ q.update # 0 /\ Elsewhere(q.update) => Elsewhere(q.update)'
               /\ q.delete # 0 /\ Elsewhere(q.delete) => Elsewhere(q.delete)'
        BY <3>3, <3>4
      <4> QED  BY <3>2, <3>4, <4>1, <4>2, <4>3 DEF Midway
    <3> QED  BY <3>1, <3>5
  <2>9. ASSUME ~cutShort' PROVE NoTwins'
    <3>1. NoTwins
      BY <1>2, <2>1, <2>9 DEF AloneInv
    <3>2. \A d : Outdated(d) => Outdated(d)'
      BY <1>2 DEF Outdated
    <3> SUFFICES ASSUME NEW d \in Known', NEW e \in Known', d # e,
                        cells'[d].hardwareId = cells'[e].hardwareId,
                        cells'[d].hardwareId # NoHardware
                 PROVE  Outdated(d)' \/ Outdated(e)'
      BY DEF NoTwins
    <3>3. d \in Known /\ e \in Known
      BY <1>6, <1>8, <1>13, <2>3
    <3> QED  BY <2>3, <3>1, <3>2, <3>3 DEF NoTwins
  <2> QED  BY <2>5, <2>6, <2>7, <2>8, <2>9 DEF AloneInv
<1> QED  BY <1>10, <1>11, <1>12, <1>15, <1>16 DEF RegistryInv

-----------------------------------------------------------------------------
(* The writes of a flush.                                                    *)

\* What a write must see to: its documents, its own request, and, for a request
\* alone, where the hardware is.
LEMMA WriteMoves ==
    ASSUME RegistryInv, NEW a \in Admins, NEW r \in Request, request[a].pc # "idle",
           request' = [request EXCEPT ![a] = r], RequestOK(r)',
           cells' \in Seq(CellDoc), Steady, CellsOK', ItemsKept', lockedBins' \subseteq Items,
           provision' = provision, requests' = requests, announced' = announced,
           sacrificed' = sacrificed, rivals' = rivals, cutShort' = cutShort,
           ~rivals /\ AloneInv => /\ Midway(r)'
                                  /\ \A h \in announced : With(h)' # {}
                                  /\ \A h \in Hardware : With(h) = {} => With(h)' = {}
                                  /\ ~cutShort => NoTwins'
    PROVE  RegistryInv'
<1>1. RegistryTypes /\ RequestsOK
  BY DEF RegistryInv
<1>2. RequestsOK' /\ request' \in [Admins -> Request]
  BY <1>1, RequestsStay
<1>3. RegistryTypes'
  BY <1>1, <1>2 DEF RegistryTypes
<1>4. ASSUME ~rivals' PROVE AloneInv'
  <2>1. AloneInv /\ ~rivals
    BY <1>4 DEF RegistryInv
  <2>2. \A b \in Admins \ {a} : request[b].pc = "idle"
    BY <2>1 DEF AloneInv, OneRequest
  <2>3. request'[a] = r /\ \A b \in Admins : b # a => request'[b] = request[b]
    BY <1>1 DEF RegistryTypes
  <2>4. OneRequest'
    BY <2>2, <2>3 DEF OneRequest
  <2>5. OneProvision'
    <3> SUFFICES ASSUME NEW w \in Weighers, provision[w] # NoHardware
                 PROVE  /\ With(provision[w])' = {}
                        /\ \A v \in Weighers : provision[v] = provision[w] => v = w
      BY DEF OneProvision
    <3>1. PICK g : g = provision[w] /\ provision'[w] = g
      OBVIOUS
    <3>2. /\ g \in Hardware /\ With(g) = {}
          /\ \A v \in Weighers : provision[v] = provision[w] => v = w
      BY <1>1, <2>1, <3>1 DEF RegistryTypes, AloneInv, OneProvision
    <3>3. With(g)' = {}
      BY <2>1, <3>2
    <3> QED  BY <3>1, <3>2, <3>3
  <2>6. ASSUME NEW b \in Admins PROVE Midway(request[b])'
    <3>1. CASE b = a
      BY <2>1, <2>3, <3>1
    <3>2. CASE b # a
      BY <2>2, <2>3, <3>2 DEF Midway
    <3> QED  BY <3>1, <3>2
  <2> QED  BY <2>1, <2>4, <2>5, <2>6 DEF AloneInv
<1> QED  BY <1>2, <1>3, <1>4 DEF RegistryInv

\* Of a request alone, what is outdated is its own.
LEMMA OwnOutdated ==
    ASSUME AloneInv, NEW a \in Admins, request[a].pc # "idle", NEW d, Outdated(d)
    PROVE  /\ request[a].insert = <<>>
           /\ \/ request[a].update = d /\ request[a].with.hardwareId = NoHardware
              \/ request[a].update = 0 /\ request[a].delete = d
<1>1. PICK b \in Admins :
        /\ request[b].pc = "flush" /\ request[b].insert = <<>>
        /\ \/ request[b].update = d /\ request[b].with.hardwareId = NoHardware
           \/ request[b].update = 0 /\ request[b].delete = d
  BY DEF Outdated
<1>2. a = b
  BY <1>1 DEF AloneInv, OneRequest
<1> QED  BY <1>1, <1>2

LEMMA CellsStayOK == ASSUME RegistryTypes, CellsOK, Steady,
                            NEW d \in DOMAIN cells, cells'[d] = cells[d]
                     PROVE  CellOK(cells[d])'
<1>1. PICK c : c = cells[d] /\ cells'[d] = c
  OBVIOUS
<1> QED  BY <1>1, CellStays DEF CellsOK

LEMMA InsertHolds ==
    ASSUME RegistryInv, NEW a \in Admins, Write(a), request[a].insert # <<>>
    PROVE  RegistryInv'
<1>1. PICK t : t = request[a]
  OBVIOUS
<1>2. RegistryTypes /\ CellsOK /\ ItemsKept /\ t \in Request /\ RequestOK(t) /\ t.pc = "flush"
  BY <1>1 DEF RegistryInv, RegistryTypes, RequestsOK, Write
<1>3. PICK h \in announced : t.insert = <<RawCell(h)>> /\ t.update # 0
  BY <1>1, <1>2 DEF RequestOK
<1>4. h \in Hardware /\ h # NoHardware
  BY <1>2, RegistryConstants DEF RegistryTypes
<1>5. PICK c \in CellDoc : c = RawCell(h)
  BY <1>4, CellTypes
<1>6. /\ c.live /\ c.hardwareId = h /\ c.item = NoItem /\ ~c.isCalibrated
  BY <1>5 DEF RawCell
<1> DEFINE r == [t EXCEPT !.insert = <<>>]
<1>7. /\ request' = [request EXCEPT ![a] = r] /\ cells' = cells \o <<c>>
      /\ lockedBins' = lockedBins
  <2>1. t.insert # <<>>
    BY <1>1
  <2>2. Remaining(t) = r /\ Stored(t) = cells \o <<c>>
    BY <1>3, <1>5, <2>1 DEF Remaining, Stored
  <2>3. r.update # 0
    BY <1>2, <1>3 DEF Request
  <2>4. /\ cells' = Stored(t) /\ lockedBins' = lockedBins
        /\ request' = [request EXCEPT ![a] = IF Remaining(t).update = 0 /\ Remaining(t).delete = 0
                                             THEN NoRequest ELSE Remaining(t)]
    BY <1>1, <2>1 DEF Write
  <2> QED  BY <2>2, <2>3, <2>4
<1>8. /\ provision' = provision /\ requests' = requests /\ announced' = announced
      /\ sacrificed' = sacrificed /\ rivals' = rivals /\ cutShort' = cutShort
  BY DEF Write
<1>9. PICK n : n = Len(cells) + 1
  OBVIOUS
<1>10. /\ cells' \in Seq(CellDoc) /\ cells'[n] = c /\ n \notin DOMAIN cells
       /\ DOMAIN cells' = DOMAIN cells \cup {n}
       /\ \A d \in DOMAIN cells : cells'[d] = cells[d]
  <2>1. cells' = Append(cells, c)
    BY <1>2, <1>7 DEF RegistryTypes
  <2> QED  BY <1>2, <1>9, <2>1, Grows
<1>11. Steady
  BY <1>8, <1>10 DEF Steady
<1>12. CellsOK'
  <2>1. CellOK(c)'
    BY <1>3, <1>4, <1>6, <1>8 DEF CellOK
  <2> QED  BY <1>2, <1>10, <1>11, <2>1, CellsStayOK DEF CellsOK
<1>13. Known' = Known \cup {n} /\ Known \subseteq DOMAIN cells
  BY <1>6, <1>10 DEF Known
<1>14. ItemsKept'
  BY <1>2, <1>8, <1>10, <1>13 DEF ItemsKept
<1>15. /\ r.pc = "flush" /\ r.insert = <<>> /\ r.update = t.update /\ r.with = t.with
       /\ r.delete = t.delete /\ r.changes = t.changes /\ r \in Request
  <2>1. <<>> \in Seq(CellDoc)
    OBVIOUS
  <2> QED  BY <1>2, <2>1 DEF Request
<1> HIDE DEF r
<1>16. RequestOK(r)'
  <2>1. RequestOK(t)'
    BY <1>2, <1>11, RequestStays
  <2>2. r.with.live /\ CellOK(r.with)'
    BY <1>2, <1>15, <2>1 DEF RequestOK
  <2> QED  BY <1>2, <1>15, <2>1, <2>2 DEF RequestOK
<1>17. ASSUME AloneInv
       PROVE  /\ Midway(r)'
              /\ \A g \in announced : With(g)' # {}
              /\ \A g \in Hardware : With(g) = {} => With(g)' = {}
              /\ ~cutShort => NoTwins'
  <2>1. PICK u : u = t.update
    OBVIOUS
  <2>2. /\ u \in DOMAIN cells /\ u # 0 /\ cells[u].live /\ h = cells[u].hardwareId
        /\ t.with.hardwareId = NoHardware /\ t.delete = 0
    <3>1. Midway(t)
      BY <1>1, <1>17 DEF AloneInv
    <3>2. u \in DOMAIN cells
      BY <1>2, <1>3, <2>1 DEF RequestOK
    <3>3. <<RawCell(h)>> = <<RawCell(cells[u].hardwareId)>>
      BY <1>2, <1>3, <2>1, <3>1 DEF Midway
    <3>4. RawCell(h).hardwareId = RawCell(cells[u].hardwareId).hardwareId
      BY <3>3
    <3> QED  BY <1>2, <1>3, <2>1, <3>1, <3>2, <3>4 DEF Midway, RawCell
  <2>3. u \in Known /\ u # n /\ cells'[u] = cells[u] /\ n \in Known'
    BY <1>10, <1>13, <2>2 DEF Known
  <2>4. Elsewhere(u)'
    BY <1>6, <1>10, <2>2, <2>3 DEF Elsewhere
  <2>5. Midway(r)'
    <3>1. Midway(t)
      BY <1>1, <1>17 DEF AloneInv
    <3>2. Updated(cells[u], t) = t.with
      BY <1>2, <1>3, <2>1, <3>1 DEF Midway
    <3>3. Updated(cells'[u], r) = r.with
      BY <1>15, <2>3, <3>2 DEF Updated
    <3> QED  BY <1>15, <2>1, <2>2, <2>3, <2>4, <3>3 DEF Midway
  <2>6. \A g \in Hardware : g # h => With(g)' = With(g)
    BY <1>6, <1>10, <1>13 DEF With
  <2>7. u \in With(h) /\ u \in With(h)'
    BY <1>13, <2>2, <2>3 DEF With
  <2>8. \A g \in announced : g \in Hardware /\ With(g) # {}
    BY <1>2, <1>17 DEF AloneInv, RegistryTypes
  <2>9. \A g \in announced : With(g)' # {}
    BY <2>6, <2>7, <2>8
  <2>10. \A g \in Hardware : With(g) = {} => With(g)' = {}
    BY <2>6, <2>7
  <2>11. ASSUME ~cutShort PROVE NoTwins'
    <3>1. \A d, e \in Known : d # e /\ cells[d].hardwareId = cells[e].hardwareId
                                => cells[d].hardwareId = NoHardware
      <4>1. \A d : ~Outdated(d)
        BY <1>1, <1>2, <1>17, OwnOutdated
      <4> QED  BY <1>17, <2>11, <4>1 DEF AloneInv, NoTwins
    <3>2. Outdated(u)'
      <4>1. request'[a] = r
        BY <1>2, <1>7 DEF RegistryTypes
      <4> QED  BY <1>15, <2>1, <2>2, <4>1 DEF Outdated
    <3> SUFFICES ASSUME NEW d \in Known', NEW e \in Known', d # e,
                        cells'[d].hardwareId = cells'[e].hardwareId,
                        cells'[d].hardwareId # NoHardware
                 PROVE  Outdated(d)' \/ Outdated(e)'
      BY DEF NoTwins
    <3>3. \A k \in Known : cells'[k] = cells[k] /\ (cells[k].hardwareId = h => k = u)
      BY <1>4, <1>10, <1>13, <2>2, <2>3, <3>1
    <3> QED  BY <1>6, <1>10, <1>13, <3>1, <3>2, <3>3
  <2> QED  BY <2>5, <2>9, <2>10, <2>11
<1>18. lockedBins' \subseteq Items /\ request[a].pc # "idle"
  BY <1>1, <1>2, <1>7 DEF RegistryTypes
<1>19. request' = [request EXCEPT ![a] = r]
  BY <1>7
<1> QED  BY <1>8, <1>10, <1>11, <1>12, <1>14, <1>15, <1>16, <1>17, <1>18, <1>19, WriteMoves

LEMMA UpdateHolds ==
    ASSUME RegistryInv, NEW a \in Admins, Write(a),
           request[a].insert = <<>>, request[a].update # 0
    PROVE  RegistryInv'
<1>1. PICK t : t = request[a]
  OBVIOUS
<1>2. /\ RegistryTypes /\ CellsOK /\ ItemsKept /\ t \in Request /\ RequestOK(t)
      /\ t.pc = "flush" /\ t.insert = <<>> /\ t.update # 0
  BY <1>1 DEF RegistryInv, RegistryTypes, RequestsOK, Write
<1>3. PICK u : u = t.update
  OBVIOUS
<1>4. PICK w \in CellDoc : w = t.with
  BY <1>2 DEF Request
<1>20. /\ u \in DOMAIN cells /\ w.item = cells[u].item /\ w.live /\ CellOK(w)
       /\ cells[u] \in CellDoc /\ u # 0 /\ CellOK(cells[u])
  BY <1>2, <1>3, <1>4 DEF RequestOK, RegistryTypes, CellsOK
<1>21. PICK c : c = Updated(cells[u], t)
  OBVIOUS
<1>22. /\ c \in CellDoc /\ c.item = cells[u].item /\ c.live = cells[u].live
       /\ c.hardwareId \in {cells[u].hardwareId, w.hardwareId}
       /\ c.isCalibrated \in {cells[u].isCalibrated, w.isCalibrated}
  BY <1>2, <1>4, <1>20, <1>21, UpdatedCell
<1>23. AloneInv => c = w /\ c.live
  <2>1. AloneInv => Midway(t)
    BY <1>1 DEF AloneInv
  <2> QED  BY <1>2, <1>3, <1>4, <1>20, <1>21, <2>1 DEF Midway
<1>5. CellOK(c)
  <2>1. ~rivals => c = w
    BY <1>23 DEF RegistryInv
  <2> QED  BY <1>20, <1>22, <2>1 DEF CellOK
<1>6. PICK x : x = t.delete
  OBVIOUS
<1>7. x # 0 => x \in DOMAIN cells /\ x # u /\ cells[x].item \in sacrificed \cup {NoItem}
  BY <1>2, <1>3, <1>6 DEF RequestOK
<1> DEFINE r == IF x = 0 THEN NoRequest ELSE [t EXCEPT !.update = 0]
<1>8. /\ request' = [request EXCEPT ![a] = r]
      /\ cells' = IF cells[u].live THEN [cells EXCEPT ![u] = c] ELSE cells
      /\ lockedBins' = lockedBins \cup t.lock
  <2>1. Remaining(t) = [t EXCEPT !.update = 0]
    BY <1>2 DEF Remaining
  <2>2. Stored(t) = IF cells[u].live THEN [cells EXCEPT ![u] = c] ELSE cells
    BY <1>2, <1>3, <1>21 DEF Stored
  <2>3. Remaining(t).update = 0 /\ Remaining(t).delete = x
    BY <1>2, <1>6, <2>1 DEF Request
  <2>4. /\ cells' = Stored(t) /\ lockedBins' = lockedBins \cup t.lock
        /\ request' = [request EXCEPT ![a] = IF Remaining(t).update = 0 /\ Remaining(t).delete = 0
                                             THEN NoRequest ELSE Remaining(t)]
    BY <1>1, <1>2 DEF Write
  <2> QED  BY <2>1, <2>2, <2>3, <2>4
<1>9. /\ provision' = provision /\ requests' = requests /\ announced' = announced
      /\ sacrificed' = sacrificed /\ rivals' = rivals /\ cutShort' = cutShort
  BY DEF Write
<1>10. /\ cells' \in Seq(CellDoc) /\ DOMAIN cells' = DOMAIN cells
       /\ cells'[u] = IF cells[u].live THEN c ELSE cells[u]
       /\ \A d \in DOMAIN cells : d # u => cells'[d] = cells[d]
  <2>1. CASE cells[u].live
    BY <1>2, <1>20, <1>22, <1>8, <2>1, Replaces
  <2>2. CASE ~cells[u].live
    BY <1>2, <1>8, <2>2 DEF RegistryTypes
  <2> QED  BY <2>1, <2>2
<1>11. Steady
  BY <1>22, <1>9, <1>10 DEF Steady
<1>12. CellsOK'
  <2>1. CellOK(c)'
    BY <1>5, <1>11, CellStays
  <2>2. CASE cells[u].live
    BY <1>2, <1>10, <1>11, <2>1, <2>2, CellsStayOK DEF CellsOK
  <2>3. CASE ~cells[u].live
    BY <1>2, <1>10, <1>11, <2>3, CellsStayOK DEF CellsOK
  <2> QED  BY <2>2, <2>3
<1>13. Known' = Known /\ Known \subseteq DOMAIN cells
  BY <1>22, <1>10 DEF Known
<1>14. ItemsKept'
  BY <1>2, <1>9, <1>11, <1>13 DEF ItemsKept, Steady
<1>15. /\ x = 0 => r = NoRequest
       /\ x # 0 => /\ r.pc = "flush" /\ r.insert = <<>> /\ r.update = 0 /\ r.with = w
                   /\ r.delete = x
       /\ r \in Request
  <2>1. NoRequest \in Request
    BY CellTypes
  <2> QED  BY <1>2, <1>4, <1>6, <2>1 DEF Request
<1> HIDE DEF r
<1>16. RequestOK(r)'
  <2>1. CellOK(w)'
    BY <1>20, <1>11, CellStays
  <2>2. CASE x = 0
    BY <1>15, <2>2, NoRequestOK
  <2>3. CASE x # 0
    <3>1. x \in DOMAIN cells' /\ cells'[x].item \in sacrificed' \cup {NoItem}
      BY <1>7, <1>9, <1>10, <2>3
    <3>2. r.with.live /\ CellOK(r.with)'
      BY <1>20, <1>15, <2>1, <2>3
    <3> QED  BY <1>15, <2>3, <3>1, <3>2 DEF RequestOK
  <2> QED  BY <2>2, <2>3
<1>17. ASSUME AloneInv
       PROVE  /\ Midway(r)'
              /\ \A g \in announced : With(g)' # {}
              /\ \A g \in Hardware : With(g) = {} => With(g)' = {}
              /\ ~cutShort => NoTwins'
  <2>1. Midway(t) /\ cells[u].live /\ cells'[u] = c /\ u \in Known /\ c = w /\ c = t.with
    <3>1. Midway(t)
      BY <1>1, <1>17 DEF AloneInv
    <3> QED  BY <1>2, <1>3, <1>4, <1>20, <1>23, <1>10, <1>17, <3>1 DEF Midway, Known
  <2>2. NoHardware \notin announced /\ announced \subseteq Hardware /\ NoHardware \notin Hardware
    BY <1>2, RegistryConstants DEF RegistryTypes
  <2>3. \A g \in announced : With(g) # {}
    BY <1>17 DEF AloneInv
  <2>4. \A d : Outdated(d) => x = 0 \/ d = u
    BY <1>1, <1>2, <1>3, <1>6, <1>17, OwnOutdated
  <2>5. \A d : Outdated(d) => d = u /\ c.hardwareId = NoHardware
    BY <1>1, <1>2, <1>3, <2>1, <1>17, OwnOutdated
  <2>6. ~cutShort => \A d, e \in Known \ {u} :
            d # e /\ cells[d].hardwareId = cells[e].hardwareId
                => cells[d].hardwareId = NoHardware
    BY <1>17, <2>5 DEF AloneInv, NoTwins
  <2>7. CASE x = 0 /\ c.hardwareId = cells[u].hardwareId
    <3>1. \A d \in Known : cells'[d].hardwareId = cells[d].hardwareId
      BY <1>10, <1>13, <2>1, <2>7
    <3>2. \A g \in Hardware : With(g)' = With(g)
      BY <1>13, <3>1 DEF With
    <3>3. ~cutShort => NoTwins'
      BY <1>13, <1>17, <2>5, <2>7, <3>1 DEF AloneInv, NoTwins
    <3> QED  BY <1>15, <2>2, <2>3, <2>7, <3>2, <3>3, NoRequestOK
  <2>8. CASE x = 0 /\ c.hardwareId = NoHardware /\ Elsewhere(u)
    <3>1. PICK e \in Known \ {u} : cells[e].hardwareId = cells[u].hardwareId
      BY <2>8 DEF Elsewhere
    <3>2. /\ \A d \in Known \ {u} : cells'[d].hardwareId = cells[d].hardwareId
          /\ cells'[u].hardwareId = NoHardware
      BY <1>10, <1>13, <2>1, <2>8
    <3>3. \A g \in Hardware : With(g)' = With(g) \ {u}
      BY <1>13, <2>2, <3>2 DEF With
    <3>4. ASSUME NEW g \in announced PROVE With(g)' # {}
      <4>1. PICK d \in With(g) : TRUE
        BY <2>3, <3>4
      <4>2. d \in With(g) \ {u} \/ e \in With(g) \ {u}
        BY <3>1, <4>1 DEF With
      <4> QED  BY <2>2, <3>3, <4>2
    <3>5. ~cutShort => NoTwins'
      BY <1>13, <2>6, <3>2 DEF NoTwins
    <3> QED  BY <1>15, <2>8, <3>3, <3>4, <3>5, NoRequestOK
  <2>9. CASE x # 0
    <3>1. /\ cells[u].hardwareId = NoHardware /\ c.hardwareId = cells[x].hardwareId
          /\ cells[x].live /\ x \in Known /\ x # u
      BY <1>2, <1>3, <1>6, <1>7, <2>1, <2>9 DEF Midway, Known
    <3>2. /\ \A d \in Known \ {u} : cells'[d] = cells[d]
          /\ cells'[u] = c
      BY <1>10, <1>13, <2>1
    <3>3. Midway(r)'
      <4>1. Elsewhere(x)'
        BY <1>13, <2>1, <3>1, <3>2 DEF Elsewhere
      <4> QED  BY <1>15, <2>9, <3>1, <3>2, <4>1 DEF Midway
    <3>4. \A g \in Hardware : /\ With(g) \subseteq With(g)'
                              /\ g # cells[x].hardwareId => With(g)' = With(g)
      BY <1>13, <2>1, <2>2, <3>1, <3>2 DEF With
    <3>5. \A g \in Hardware : With(g) = {} => With(g)' = {}
      BY <3>1, <3>4 DEF With
    <3>6. \A g \in announced : With(g)' # {}
      BY <2>2, <2>3, <3>4
    <3>7. Outdated(x)'
      <4>1. request'[a] = r
        BY <1>2, <1>8 DEF RegistryTypes
      <4> QED  BY <1>15, <2>9, <4>1 DEF Outdated
    <3>8. ~cutShort => NoTwins'
      <4> SUFFICES ASSUME ~cutShort, NEW d \in Known, NEW e \in Known, d # e,
                          cells'[d].hardwareId = cells'[e].hardwareId,
                          cells'[d].hardwareId # NoHardware, d # x, e # x
                   PROVE  FALSE
        BY <1>13, <3>7 DEF NoTwins
      <4>1. CASE d # u /\ e # u
        BY <2>6, <3>2, <4>1
      <4>2. CASE d = u
        BY <2>6, <3>1, <3>2, <4>2
      <4>3. CASE e = u
        BY <2>6, <3>1, <3>2, <4>3
      <4> QED  BY <4>1, <4>2, <4>3
    <3> QED  BY <3>3, <3>5, <3>6, <3>8
  <2>10. x = 0 => \/ c.hardwareId = cells[u].hardwareId
                  \/ c.hardwareId = NoHardware /\ Elsewhere(u)
    BY <1>2, <1>3, <1>6, <2>1 DEF Midway
  <2> QED  BY <2>7, <2>8, <2>9, <2>10
<1>18. lockedBins' \subseteq Items /\ request[a].pc # "idle"
  BY <1>1, <1>2, <1>8 DEF RegistryTypes, Request
<1>19. request' = [request EXCEPT ![a] = r]
  BY <1>8
<1> QED  BY <1>9, <1>10, <1>11, <1>12, <1>14, <1>15, <1>16, <1>17, <1>18, <1>19, WriteMoves

LEMMA DeleteHolds ==
    ASSUME RegistryInv, NEW a \in Admins, Write(a),
           request[a].insert = <<>>, request[a].update = 0
    PROVE  RegistryInv'
<1>1. PICK t : t = request[a]
  OBVIOUS
<1>2. /\ RegistryTypes /\ CellsOK /\ ItemsKept /\ t \in Request /\ RequestOK(t)
      /\ t.pc = "flush" /\ t.insert = <<>> /\ t.update = 0
  BY <1>1 DEF RegistryInv, RegistryTypes, RequestsOK, Write
<1>3. PICK x : x = t.delete
  OBVIOUS
<1>4. /\ x # 0 /\ x \in DOMAIN cells /\ cells[x].item \in sacrificed \cup {NoItem}
      /\ cells[x] \in CellDoc
  BY <1>2, <1>3 DEF RequestOK, RegistryTypes
<1>5. PICK c \in CellDoc : c = [cells[x] EXCEPT !.live = FALSE]
  BY <1>4 DEF CellDoc
<1>6. /\ ~c.live /\ c.item = cells[x].item /\ c.hardwareId = cells[x].hardwareId
      /\ c.isCalibrated = cells[x].isCalibrated
  BY <1>4, <1>5 DEF CellDoc
<1>7. /\ request' = [request EXCEPT ![a] = NoRequest]
      /\ cells' = [cells EXCEPT ![x] = c]
      /\ lockedBins' = lockedBins \cup t.lock
  <2>1. Remaining(t) = [t EXCEPT !.delete = 0]
    BY <1>2 DEF Remaining
  <2>2. Stored(t) = [cells EXCEPT ![x] = c]
    <3>1. Stored(t) = [cells EXCEPT ![x].live = FALSE]
      BY <1>2, <1>3, <1>4 DEF Stored
    <3> QED  BY <1>5, <3>1
  <2>3. Remaining(t).update = 0 /\ Remaining(t).delete = 0
    BY <1>2, <2>1 DEF Request
  <2>4. /\ cells' = Stored(t) /\ lockedBins' = lockedBins \cup t.lock
        /\ request' = [request EXCEPT ![a] = IF Remaining(t).update = 0 /\ Remaining(t).delete = 0
                                             THEN NoRequest ELSE Remaining(t)]
    BY <1>1, <1>2 DEF Write
  <2> QED  BY <2>2, <2>3, <2>4
<1>8. /\ provision' = provision /\ requests' = requests /\ announced' = announced
      /\ sacrificed' = sacrificed /\ rivals' = rivals /\ cutShort' = cutShort
  BY DEF Write
<1>9. /\ cells' \in Seq(CellDoc) /\ DOMAIN cells' = DOMAIN cells /\ cells'[x] = c
      /\ \A d \in DOMAIN cells : d # x => cells'[d] = cells[d]
  BY <1>2, <1>4, <1>7, Replaces
<1>10. Steady
  BY <1>6, <1>8, <1>9 DEF Steady
<1>11. CellsOK'
  <2>1. CellOK(c)
    <3>1. CellOK(cells[x])
      BY <1>2, <1>4 DEF CellsOK
    <3> QED  BY <1>6, <3>1 DEF CellOK
  <2>2. CellOK(c)'
    BY <1>10, <2>1, CellStays
  <2> QED  BY <1>2, <1>9, <1>10, <2>2, CellsStayOK DEF CellsOK
<1>12. Known' = Known \ {x} /\ Known \subseteq DOMAIN cells
  BY <1>6, <1>9 DEF Known
<1>13. ItemsKept'
  <2> SUFFICES ASSUME NEW i \in Items \ sacrificed PROVE \E d \in Known' : cells'[d].item = i
    BY <1>8 DEF ItemsKept
  <2>1. PICK d \in Known : cells[d].item = i
    BY <1>2 DEF ItemsKept
  <2>2. d # x
    BY <1>4, <2>1, RegistryConstants
  <2> QED  BY <1>9, <1>12, <2>1, <2>2
<1>14. ASSUME AloneInv
       PROVE  /\ Midway(NoRequest)'
              /\ \A g \in announced : With(g)' # {}
              /\ \A g \in Hardware : With(g) = {} => With(g)' = {}
              /\ ~cutShort => NoTwins'
  <2>1. Elsewhere(x)
    <3>1. Midway(t)
      BY <1>1, <1>14 DEF AloneInv
    <3> QED  BY <1>2, <1>3, <3>1 DEF Midway
  <2>2. PICK e \in Known \ {x} : cells[e].hardwareId = cells[x].hardwareId
    BY <2>1 DEF Elsewhere
  <2>3. \A d \in Known \ {x} : cells'[d] = cells[d]
    BY <1>9, <1>12
  <2>4. \A g : With(g)' = With(g) \ {x}
    BY <1>12, <2>3 DEF With
  <2>5. ASSUME NEW g \in announced PROVE With(g)' # {}
    <3>1. PICK d \in With(g) : TRUE
      BY <1>14, <2>5 DEF AloneInv
    <3>2. d \in With(g) \ {x} \/ e \in With(g) \ {x}
      BY <2>2, <3>1 DEF With
    <3> QED  BY <2>4, <3>2
  <2>6. ~cutShort => NoTwins'
    <3>1. \A d : Outdated(d) => d = x \/ d = 0
      BY <1>1, <1>2, <1>3, <1>14, OwnOutdated
    <3>2. 0 \notin Known
      BY <1>2, <1>12, Numbers
    <3> QED  BY <3>2, <1>12, <1>14, <2>3, <3>1 DEF AloneInv, NoTwins
  <2> QED  BY <2>4, <2>5, <2>6, NoRequestOK
<1>15. lockedBins' \subseteq Items /\ request[a].pc # "idle"
  BY <1>1, <1>2, <1>7 DEF RegistryTypes, Request
<1> QED  BY <1>7, <1>8, <1>9, <1>10, <1>11, <1>13, <1>14, <1>15, CellTypes, NoRequestOK, WriteMoves

LEMMA DiesInFlushHolds ==
    ASSUME RegistryInv, NEW a \in Admins, DiesInFlush(a)
    PROVE  RegistryInv'
<1>1. /\ cutShort' = TRUE /\ request' = [b \in Admins |-> NoRequest]
      /\ cells' = cells /\ provision' = provision /\ requests' = requests
      /\ lockedBins' = lockedBins /\ announced' = announced
      /\ sacrificed' = sacrificed /\ rivals' = rivals
  BY DEF DiesInFlush
<1>2. RegistryTypes /\ CellsOK /\ ItemsKept
  BY DEF RegistryInv
<1>3. \A b \in Admins : request'[b] = NoRequest
  BY <1>1
<1>4. RegistryTypes'
  BY <1>1, <1>2, CellTypes DEF RegistryTypes
<1>5. CellsOK' /\ ItemsKept'
  BY <1>1, <1>2 DEF CellsOK, CellOK, ItemsKept, Known
<1>6. RequestsOK' /\ \A b \in Admins : Midway(request[b])' /\ request'[b].pc = "idle"
  BY <1>3, NoRequestOK DEF RequestsOK
<1>7. ASSUME ~rivals' PROVE AloneInv'
  <2>1. AloneInv
    BY <1>1, <1>7 DEF RegistryInv
  <2>2. OneProvision' /\ \A g \in announced' : With(g)' # {}
    BY <1>1, <2>1 DEF AloneInv, OneProvision, With, Known
  <2>3. OneRequest'
    BY <1>6 DEF OneRequest
  <2> QED  BY <1>1, <1>6, <2>2, <2>3 DEF AloneInv
<1> QED  BY <1>4, <1>5, <1>6, <1>7 DEF RegistryInv

LEMMA RegistryStutters == RegistryInv /\ UNCHANGED registryVars => RegistryInv'
<1> SUFFICES ASSUME RegistryInv, UNCHANGED registryVars PROVE RegistryInv'
  OBVIOUS
<1>1. /\ cells' = cells /\ request' = request /\ provision' = provision
      /\ requests' = requests /\ lockedBins' = lockedBins /\ announced' = announced
      /\ sacrificed' = sacrificed /\ rivals' = rivals /\ cutShort' = cutShort
  BY DEF registryVars
<1>2. RegistryTypes' /\ CellsOK' /\ ItemsKept'
  BY <1>1 DEF RegistryInv, RegistryTypes, CellsOK, CellOK, ItemsKept, Known
<1>3. RequestsOK'
  BY <1>1 DEF RegistryInv, RequestsOK, RequestOK, CellOK
<1>4. ~rivals' => AloneInv'
  <2> SUFFICES ASSUME AloneInv, ~rivals PROVE AloneInv'
    BY <1>1 DEF RegistryInv
  <2>1. OneRequest' /\ OneProvision' /\ \A g \in announced' : With(g)' # {}
    BY <1>1 DEF AloneInv, OneRequest, OneProvision, With, Known
  <2>2. \A b \in Admins : Midway(request[b])'
    BY <1>1 DEF AloneInv, Midway, Elsewhere, Known
  <2>3. ~cutShort' => NoTwins'
    BY <1>1 DEF AloneInv, NoTwins, Outdated, Known
  <2> QED  BY <2>1, <2>2, <2>3 DEF AloneInv
<1> QED  BY <1>2, <1>3, <1>4 DEF RegistryInv

LEMMA RegistryInvariance == RegistrySpec => []RegistryInv
<1>1. RegistryInit => RegistryInv
  BY RegistryStart
<1>2. RegistryInv /\ [RegistryNext]_registryVars => RegistryInv'
  <2> SUFFICES ASSUME RegistryInv, [RegistryNext]_registryVars PROVE RegistryInv'
    OBVIOUS
  <2>1. ASSUME NEW w \in Weighers, NEW h \in Hardware, WeightOfUnknown(w, h) PROVE RegistryInv'
    BY <2>1, WeightOfUnknownHolds
  <2>2. ASSUME NEW w \in Weighers, Provisioned(w) PROVE RegistryInv'
    BY <2>2, ProvisionedHolds
  <2>3. ASSUME NEW a \in Admins, NEW d \in Known, Unassign(a, d) PROVE RegistryInv'
    BY <2>3, UnassignHolds
  <2>4. ASSUME NEW a \in Admins, NEW d \in Known, LoadTarget(a, d) PROVE RegistryInv'
    BY <2>4, LoadTargetHolds
  <2>5. ASSUME NEW a \in Admins, NEW d \in Known, NEW net \in {0, 1}, Recalibrate(a, d, net)
        PROVE  RegistryInv'
    BY <2>5, RecalibrateHolds
  <2>6. ASSUME NEW a \in Admins, NEW i \in Items, NEW net \in {0, 1}, LoadSource(a, i, net)
        PROVE  RegistryInv'
    BY <2>6, LoadSourceHolds
  <2>7. ASSUME NEW a \in Admins, Write(a) PROVE RegistryInv'
    BY <2>7, InsertHolds, UpdateHolds, DeleteHolds
  <2>8. ASSUME NEW a \in Admins, DiesInFlush(a) PROVE RegistryInv'
    BY <2>8, DiesInFlushHolds
  <2>9. CASE UNCHANGED registryVars
    BY <2>9, RegistryStutters
  <2> QED  BY <2>1, <2>2, <2>3, <2>4, <2>5, <2>6, <2>7, <2>8, <2>9 DEF RegistryNext
<1> QED  BY <1>1, <1>2, PTL DEF RegistrySpec

\* The documents, the requests under way and the weights under way keep their types:
\* what the handlers of calibrate, unassign and of weights write.
THEOREM RegistryTypeCorrect == RegistrySpec => []RegistryTypeOK
<1>1. RegistryInv => RegistryTypeOK
  BY DEF RegistryInv, RegistryTypes, RegistryTypeOK
<1> QED  BY <1>1, RegistryInvariance, PTL

\* Whatever requests and weights overlap and wherever a flush is cut short, no item
\* loses its data and what is calibrated is real; and as long as nothing read what
\* another was about to write, a weight finds the one document of its loadcell.
THEOREM RegistryIsSound == RegistrySpec => []RegistrySound
<1>1. RegistryInv => RegistrySound
  <2> SUFFICES ASSUME RegistryInv PROVE RegistrySound
    OBVIOUS
  <2>1. ItemKept
    BY DEF RegistryInv, ItemsKept, ItemKept
  <2>2. CalibratedIsReal
    BY DEF RegistryInv, CellsOK, CellOK, CalibratedIsReal, Known
  <2>3. HardwareKept
    BY DEF RegistryInv, AloneInv, HardwareKept
  <2>4. HardwareOnce
    <3> SUFFICES ASSUME ~rivals, ~cutShort, \A a \in Admins : request[a].pc = "idle",
                        NEW h \in announced
                 PROVE  Cardinality(With(h)) = 1
      BY DEF HardwareOnce
    <3>1. PICK d \in With(h) : TRUE
      BY DEF RegistryInv, AloneInv
    <3>2. NoTwins /\ \A e : ~Outdated(e)
      BY DEF RegistryInv, AloneInv, Outdated
    <3>3. h # NoHardware
      BY RegistryConstants DEF RegistryInv, RegistryTypes
    <3>4. With(h) = {d}
      BY <3>1, <3>2, <3>3 DEF With, NoTwins
    <3> QED  BY <3>4, FS_Singleton
  <2> QED  BY <2>1, <2>2, <2>3, <2>4 DEF RegistrySound, HardwareTracked, ItemDataKept
<1> QED  BY <1>1, RegistryInvariance, PTL
=============================================================================
